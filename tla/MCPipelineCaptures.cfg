CONSTANTS
  Plain = {r1}
  Signed = {}
  Session = {r2}
  w1 = w1
  w2 = w2
  Second = {}
  k1 = k1
  i1 = i1
  Req <- MCReq
  WalletOf <- MCWalletOf
  KeyOf <- MCKeyOf
  IpOf <- MCIpOf
  KindOf <- MCKindOf
  Wallet = {w1}
  MaxAttempts = 1
  Window = 1
  Key = {k1}
  Configured = {}
  Quota <- MCQuota
  Limit = 1
  Nonce = {}
  NoWallet = NoWallet
  NoNonce = NoNonce
  Ttl = 1
  Ip = {i1}
  Configs <- AnyConfig
SPECIFICATION FairSpec
INVARIANTS
  ChargesMatchProgress
  SlotsConserved
PROPERTIES
  RequestsFinish
  IdleWalletsEvicted
