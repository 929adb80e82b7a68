CONSTANTS
  Plain = {}
  Signed = {r1, r2}
  Session = {}
  w1 = w1
  w2 = w2
  Second = {r2}
  k1 = k1
  i1 = i1
  Req <- MCReq
  WalletOf <- MCWalletOf
  KeyOf <- MCKeyOf
  IpOf <- MCIpOf
  KindOf <- MCKindOf
  Wallet = {w1, w2}
  MaxAttempts = 1
  Window = 1
  Key = {k1}
  Configured = {k1}
  Quota <- MCQuota
  Limit = 2
  Nonce = {n1, n2}
  NoWallet = NoWallet
  NoNonce = NoNonce
  Ttl = 1
  Ip = {i1}
  Configs <- WithValidator
SPECIFICATION Spec
INVARIANTS
  ForwardedAuthorization
  QuotaConserved
