CONSTANTS
  NoWallet = NoWallet
  NoNonce = NoNonce
  Wallet = {w1, w2}
  Nonce = {n1, n2, n3}
  Ttl = 1
SPECIFICATION FairSpec
INVARIANTS
  PointerIsNewestHeld
  SingleUse
PROPERTIES
  FreshLeavesByAcceptance
  AbandonedAreEvicted
  ImplementsLedger
