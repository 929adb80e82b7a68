CONSTANTS
  k1 = k1
  Req = {r1, r2}
  KeyOf <- MCKeyOf
  Key = {k1}
  Configured = {}
  Quota <- MCQuota
  Commitment = {c1, c2}
  MaxCommitments = 1
  EntryTtl = 1
  MaxRetries = 2
SPECIFICATION FairSpec
INVARIANTS
  ChargesMatchAnswer
  LandsOnce
  NovelOnce
PROPERTIES
  VerifiesAnswered
