CONSTANTS
  w1 = w1
  Req = {r1, r2}
  Wallet = {w1}
  WalletOf <- MCWalletOf
  NoTime = NoTime
  None = None
  Earlier = Earlier
  MaxAge = 0
  Skew = 0
  MaxRetries = 2
  Horizon = 1
  Ahead = 1
SPECIFICATION FairSpec
INVARIANTS
  StandingIsFresh
  CreatesOnce
  AnswersAreTrue
PROPERTIES
  NeverUnattested
  AttestsAnswered
