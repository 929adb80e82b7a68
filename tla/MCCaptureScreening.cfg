CONSTANTS
  c1 = c1
  c2 = c2
  Client = {c1, c2}
  KindOf <- MCKindOf
  Fingerprint = {f1, f2}
  Wallet = {w1, w2}
  NoWallet = NoWallet
  MaxTracked = 1
  Cooldown = 2
  Parts = 10
  One = 4
  NonFinite = NonFinite
  Unread = Unread
  NoAccount = NoAccount
  Foreign = Foreign
  Version = {0, 1, 2}
  Deployments <- MCDeployments
  Bundles <- MCBundles
  NoBundle = NoBundle
  BadBundle = BadBundle
  NoPolicy = NoPolicy
  Nothing = Nothing
  SignalSet <- MCSignalSet
  Reported <- MCReported
  Readings <- MCReadings
SPECIFICATION Spec
SYMMETRY Interchangeable
INVARIANTS
  RiskierNotFavoured
  PolicyBites
  BaselinesNotRolledBack
PROPERTIES
  SwapWaits
CHECK_DEADLOCK FALSE
