CONSTANTS
  Plain = {r1, r2, r3}
  Signed = {}
  Session = {}
  w1 = w1
  w2 = w2
  Second = {}
  k1 = k1
  i1 = i1
  Req <- MCReq
  WalletOf <- MCWalletOf
  KeyOf <- MCKeyOf
  IpOf <- MCIpOf
  KindOf <- MCKindOf
  Wallet = {w1}
  MaxAttempts = 1
  Window = 1
  Key = {k1}
  Configured = {k1}
  Quota <- MCQuota
  Limit = 0
  Nonce = {}
  NoWallet = NoWallet
  NoNonce = NoNonce
  Ttl = 1
  Ip = {i1}
  Configs <- OnlyValidator
SPECIFICATION Spec
INVARIANT FailuresWithinCap
