------------------------ MODULE CaptureScreeningProofs ------------------------
(***************************************************************************)
(* The enforced cooldown and the policy of a serving process, for every    *)
(* set of clients, footprints, wallets, policies and deployments.          *)
(***************************************************************************)
EXTENDS CaptureScreening, Integers, TLAPS

------------------------------------------------------------------------------
(***************************************************************************)
(* The policy.                                                             *)
(***************************************************************************)

\* A greater number of parts is a greater score.
LEMMA ScaledOrder ==
  ASSUME NEW x \in Nat, NEW y \in Nat, NEW u \in Nat, x > y, u > 0
  PROVE  x * u > y * u
  BY SMT

\* The worst capture has all of the score that a policy's weights can reach.
LEMMA WorstScore ==
  ASSUME NEW p \in Risks!Policy
  PROVE  /\ Risks!Score(p, Worst) \in Nat
         /\ Risks!Score(p, Worst) =
              (p.biometric + p.tts + p.automation + p.reputation) * One
<1>1. One \in Nat /\ One > 0 /\ One # NonFinite
  BY ScreeningAssumption DEF Risks!RiskAssumption
<1>2. Risks!Bounded(One) = One
  BY <1>1 DEF Risks!Bounded, Risks!Least
<1>3. /\ p.biometric \in Nat /\ p.tts \in Nat
      /\ p.automation \in Nat /\ p.reputation \in Nat
  BY DEF Risks!Policy, Risks!Weights, Risks!Thresholds
<1>4. Risks!Score(p, Worst) =
        p.biometric * One + p.tts * One + p.automation * One + p.reputation * One
  BY <1>2 DEF Risks!Score, Worst
<1> QED
  BY <1>1, <1>3, <1>4

\* A policy that try_new accepts rejects the worst capture.
LEMMA AcceptedPolicyRejects ==
  ASSUME NEW p \in Risks!Policy, Risks!Accepts(p)
  PROVE  Risks!Verdict(p, Worst) = "rejected" /\ p # Risks!Development
<1> DEFINE active == p.biometric + p.tts + p.automation + p.reputation
<1>1. One \in Nat /\ One > 0
  BY ScreeningAssumption DEF Risks!RiskAssumption
<1>2. \A f \in Risks!Weights \cup Risks!Thresholds : p[f] \in Nat
  BY DEF Risks!Policy
<1>3. active \in Nat /\ p.reject \in Nat /\ active > p.reject
  BY <1>2, ScreeningAssumption
  DEF Risks!Accepts, Risks!ActiveMaximum, Risks!Weights, Risks!Thresholds, Risks!RiskAssumption
<1>4. active * One > p.reject * One
  BY <1>1, <1>3, ScaledOrder
<1>5. Risks!Rejects(p, Risks!Score(p, Worst))
  BY <1>4, WorstScore DEF Risks!Rejects
<1>6. Risks!Verdict(p, Worst) = "rejected"
  BY <1>5 DEF Risks!Verdict
<1>7. p.reject < Parts
  BY <1>2, ScreeningAssumption
  DEF Risks!Accepts, Risks!ActiveMaximum, Risks!Weights, Risks!Thresholds, Risks!RiskAssumption
<1>8. Risks!Development.reject = Parts
  BY DEF Risks!Development, Risks!Weights, Risks!Thresholds
<1>9. p # Risks!Development
  BY <1>7, <1>8, ScreeningAssumption DEF Risks!RiskAssumption
<1> QED
  BY <1>6, <1>9

\* The policy of development passes it.
LEMMA DevelopmentPasses == Risks!Verdict(Risks!Development, Worst) = "passed"
<1> DEFINE d == Risks!Development
           tenth == Parts \div 10
<1>1. /\ One \in Nat /\ One > 0
      /\ Parts \in Nat /\ Parts > 0 /\ Parts = 10 * tenth /\ tenth \in Nat /\ tenth > 0
  BY ScreeningAssumption DEF Risks!RiskAssumption
<1>2. /\ d.biometric = 2 * tenth /\ d.tts = 2 * tenth /\ d.unallocated = 2 * tenth
      /\ d.automation = 2 * tenth /\ d.reputation = 2 * tenth
      /\ d.friction = 9 * tenth /\ d.reject = 10 * tenth
  BY <1>1 DEF Risks!Development, Risks!Weights, Risks!Thresholds
<1>3. d \in Risks!Policy
  BY <1>1 DEF Risks!Development, Risks!Policy
<1> HIDE DEF d, tenth
<1>4. Risks!Score(d, Worst) = (8 * tenth) * One
  BY <1>1, <1>2, <1>3, WorstScore
<1>5. (9 * tenth) * One > (8 * tenth) * One
  <2>1. 9 * tenth \in Nat /\ 8 * tenth \in Nat /\ 9 * tenth > 8 * tenth
    BY <1>1
  <2> QED
    BY <1>1, <2>1, ScaledOrder
<1>6. (10 * tenth) * One > (8 * tenth) * One
  <2>1. 10 * tenth \in Nat /\ 8 * tenth \in Nat /\ 10 * tenth > 8 * tenth
    BY <1>1
  <2> QED
    BY <1>1, <2>1, ScaledOrder
<1>7. /\ (8 * tenth) * One \in Nat /\ (9 * tenth) * One \in Nat
      /\ (10 * tenth) * One \in Nat
  BY <1>1
<1>8. ~Risks!Rejects(d, Risks!Score(d, Worst))
  BY <1>2, <1>4, <1>6, <1>7 DEF Risks!Rejects
<1>9. ~Risks!RequiresFriction(d, Risks!Score(d, Worst))
  BY <1>2, <1>4, <1>5, <1>7 DEF Risks!RequiresFriction
<1> QED
  BY <1>8, <1>9 DEF Risks!Verdict, d

\* A serving process has a policy that was accepted, or that of development
\* outside production.
PolicyResolved ==
  mode = "serving" =>
    \/ policy \in Bundles /\ Risks!Accepts(policy)
    \/ policy = Risks!Development /\ ~deployment.prod

LEMMA PolicyStays == PolicyResolved /\ [Next]_vars => PolicyResolved'
<1> SUFFICES ASSUME PolicyResolved, [Next]_vars PROVE PolicyResolved'
  OBVIOUS
<1>1. CASE UNCHANGED process
  BY <1>1 DEF PolicyResolved, process
<1>2. ASSUME NEW bundle \in Bundles \cup {NoBundle, BadBundle}, Start(bundle)
      PROVE  PolicyResolved'
  BY <1>2 DEF PolicyResolved, Start
<1>3. ASSUME NEW c \in Client, Handle(c)
      PROVE  UNCHANGED process
  BY <1>3 DEF Handle, Arrive, FindFootprint, Measure, RecordWallet, Screen,
              ReadIdentity, Judge, Leave
<1>4. CASE SweepCooldowns \/ Tick
  BY <1>1, <1>4 DEF SweepCooldowns, Tick
<1>5. CASE UNCHANGED vars
  BY <1>1, <1>5 DEF vars
<1> QED
  BY <1>1, <1>2, <1>3, <1>4, <1>5 DEF Next

\* PolicyBites: no production process serves with a policy that could reject
\* nobody, and none but that of development passes the worst capture
\* (composite.rs, try_new and development_default; config.rs).
THEOREM ServingPolicyBites == Spec => []PolicyBites
<1>1. Init => PolicyResolved
  BY DEF Init, PolicyResolved
<1>2. PolicyResolved => PolicyBites
  <2> SUFFICES ASSUME PolicyResolved, mode = "serving"
               PROVE  /\ deployment.prod => Risks!Verdict(policy, Worst) = "rejected"
                      /\ Risks!Verdict(policy, Worst) = "passed" <=> policy = Risks!Development
    BY DEF PolicyBites
  <2>1. CASE policy \in Bundles /\ Risks!Accepts(policy)
    BY <2>1, AcceptedPolicyRejects, ScreeningAssumption
  <2>2. CASE policy = Risks!Development /\ ~deployment.prod
    BY <2>2, DevelopmentPasses
  <2> QED
    BY <2>1, <2>2 DEF PolicyResolved
<1> QED
  BY <1>1, <1>2, PolicyStays, PTL DEF Spec

------------------------------------------------------------------------------
(***************************************************************************)
(* The cooldown.  While an admission is remembered, the entry of its       *)
(* footprint is its own: the same wallet, the same age, and too young to   *)
(* be swept or replaced.                                                   *)
(***************************************************************************)
Types ==
  /\ pc \in [Client -> {"idle", "contains", "measure", "record", "screen",
                        "identity", "forwarded", "judged"}]
  /\ origin \in [Client -> [footprint : Fingerprint, wallet : Wallet] \cup {Nothing}]
  /\ \A c \in Client : pc[c] \in {"contains", "measure", "record"} =>
       origin[c] \in [footprint : Fingerprint, wallet : Wallet]
  /\ Cooldowns!TypeOK
  /\ admitted \in [Fingerprint -> Wallet \cup {NoWallet}]
  /\ since \in [Fingerprint -> Nat]

OwnEntry(f) ==
  admitted[f] # NoWallet =>
    /\ deployment.enforce
    /\ holder[f] = admitted[f] /\ age[f] = since[f] /\ since[f] < Cooldown

CooldownInv == Types /\ \A f \in Fingerprint : OwnEntry(f)

LEMMA CooldownInit == Init => CooldownInv
  BY ScreeningAssumption
  DEF Init, CooldownInv, Types, OwnEntry, Cooldowns!Init, Cooldowns!TypeOK,
      Cooldowns!CooldownAssumption

\* A step of a request that leaves the map alone only moves the request on.
LEMMA RequestStep ==
  ASSUME CooldownInv, NEW c \in Client, Handle(c)
  PROVE  \/ RecordWallet(c)
         \/ /\ UNCHANGED <<cooldownVars, deployment, history>>
            /\ Types'
            /\ ~(pc[c] = "record" /\ pc'[c] = "screen")
            /\ \A d \in Client \ {c} : pc'[d] = pc[d]
<1> DEFINE MovesOn == /\ UNCHANGED <<cooldownVars, deployment, history>>
                      /\ Types'
                      /\ ~(pc[c] = "record" /\ pc'[c] = "screen")
                      /\ \A d \in Client \ {c} : pc'[d] = pc[d]
<1> USE DEF CooldownInv, Types, Cooldowns!TypeOK, cooldownVars, process, history, Go, Forget
<1>1. ASSUME NEW f \in Fingerprint, NEW w \in Wallet, Arrive(c, f, w) PROVE MovesOn
  BY <1>1 DEF Arrive
<1>2. CASE FindFootprint(c)
  BY <1>2 DEF FindFootprint
<1>3. CASE Measure(c)
  BY <1>3 DEF Measure
<1>4. ASSUME NEW s \in SignalSet, Screen(c, s) PROVE MovesOn
  <2>1. CASE s.webdriver /\ deployment.webdriverReject
    BY <1>4, <2>1 DEF Screen
  <2>2. CASE ~(s.webdriver /\ deployment.webdriverReject)
    BY <1>4, <2>2 DEF Screen
  <2> QED
    BY <2>1, <2>2
<1>5. ASSUME NEW account, NEW requested, NEW reset, NEW evidence,
             ReadIdentity(c, account, requested, reset, evidence)
      PROVE MovesOn
  BY <1>5 DEF ReadIdentity
<1>6. ASSUME NEW biometric, NEW tts, NEW reading, Judge(c, biometric, tts, reading)
      PROVE MovesOn
  BY <1>6 DEF Judge
<1>7. CASE Leave(c)
  BY <1>7 DEF Leave
<1> QED
  BY <1>1, <1>2, <1>3, <1>4, <1>5, <1>6, <1>7 DEF Handle

\* The entry's own access keeps to the invariant, and passes no other wallet.
LEMMA RecordStep ==
  ASSUME CooldownInv, NEW c \in Client, RecordWallet(c)
  PROVE  /\ CooldownInv'
         /\ pc'[c] = "screen" /\ deployment.enforce =>
              admitted[origin[c].footprint] \in {NoWallet, origin[c].wallet}
         /\ \A d \in Client \ {c} : pc'[d] = pc[d]
<1> DEFINE f == origin[c].footprint
           w == origin[c].wallet
<1> USE DEF CooldownInv, Types, Cooldowns!TypeOK, process
<1>1. pc[c] = "record" /\ f \in Fingerprint /\ w \in Wallet
  BY DEF RecordWallet
<1>2. Cooldown \in Nat /\ NoWallet \notin Wallet
  BY ScreeningAssumption DEF Cooldowns!CooldownAssumption
<1>3. /\ holder' \in [Fingerprint -> Wallet \cup {NoWallet}]
      /\ age' \in [Fingerprint -> 0 .. Cooldown]
      /\ ~Cooldowns!Permits(f, w) => UNCHANGED <<holder, age>>
      /\ Cooldowns!Permits(f, w) => holder' = [holder EXCEPT ![f] = w]
                                    /\ age' = [age EXCEPT ![f] = 0]
  BY <1>1, <1>2 DEF RecordWallet, Cooldowns!Record
<1>4. Types' /\ \A d \in Client \ {c} : pc'[d] = pc[d]
  <2>1. CASE Cooldowns!Permits(f, w) \/ ~deployment.enforce
    BY <1>1, <1>3, <2>1 DEF RecordWallet, Go, history
  <2>2. CASE ~(Cooldowns!Permits(f, w) \/ ~deployment.enforce)
    BY <1>1, <1>3, <2>2 DEF RecordWallet, Go, Forget, history
  <2> QED
    BY <2>1, <2>2
<1>5. ASSUME NEW g \in Fingerprint PROVE OwnEntry(g)'
  <2>1. CASE g # f \/ ~Cooldowns!Permits(f, w)
    BY <1>1, <1>2, <1>3, <2>1 DEF RecordWallet, OwnEntry, history
  <2>2. CASE g = f /\ Cooldowns!Permits(f, w) /\ deployment.enforce /\ Cooldown > 0
    BY <1>1, <1>2, <1>3, <2>2 DEF RecordWallet, OwnEntry
  <2>3. CASE ~(deployment.enforce /\ Cooldown > 0)
    BY <1>1, <1>2, <2>3 DEF RecordWallet, OwnEntry, history
  <2> QED
    BY <2>1, <2>2, <2>3
<1>6. ASSUME pc'[c] = "screen", deployment.enforce
      PROVE  admitted[f] \in {NoWallet, w}
  <2>1. Cooldowns!Permits(f, w)
    BY <1>1, <1>6 DEF RecordWallet, Go, Forget
  <2> QED
    BY <1>1, <1>2, <2>1 DEF Cooldowns!Permits, OwnEntry
<1> QED
  BY <1>4, <1>5, <1>6

LEMMA SweepStep ==
  ASSUME CooldownInv, SweepCooldowns
  PROVE  CooldownInv' /\ UNCHANGED pc
<1> USE DEF CooldownInv, Types, Cooldowns!TypeOK, process, history
<1>1. Cooldown \in Nat /\ NoWallet \notin Wallet
  BY ScreeningAssumption DEF Cooldowns!CooldownAssumption
<1>2. Types' /\ UNCHANGED pc
  BY <1>1 DEF SweepCooldowns, Cooldowns!EvictStale
<1>3. ASSUME NEW f \in Fingerprint PROVE OwnEntry(f)'
  BY <1>1 DEF SweepCooldowns, Cooldowns!EvictStale, Cooldowns!Contains, OwnEntry
<1> QED
  BY <1>2, <1>3

LEMMA TickStep ==
  ASSUME CooldownInv, Tick
  PROVE  CooldownInv' /\ UNCHANGED pc
<1> USE DEF CooldownInv, Types, Cooldowns!TypeOK, process
<1>1. Cooldown \in Nat /\ NoWallet \notin Wallet
  BY ScreeningAssumption DEF Cooldowns!CooldownAssumption
<1>2. Types' /\ UNCHANGED pc
  BY <1>1 DEF Tick, Cooldowns!Pass
<1>3. ASSUME NEW f \in Fingerprint PROVE OwnEntry(f)'
  BY <1>1 DEF Tick, Cooldowns!Pass, Cooldowns!Contains, OwnEntry
<1> QED
  BY <1>2, <1>3

\* What a step of the whole does to the cooldown.
LEMMA CooldownStep ==
  ASSUME CooldownInv, [Next]_vars
  PROVE  /\ CooldownInv'
         /\ \A c \in Client :
              pc[c] = "record" /\ pc'[c] = "screen" /\ deployment.enforce =>
                admitted[origin[c].footprint] \in {NoWallet, origin[c].wallet}
<1> DEFINE Kept == /\ CooldownInv'
                   /\ \A c \in Client :
                        pc[c] = "record" /\ pc'[c] = "screen" /\ deployment.enforce =>
                          admitted[origin[c].footprint] \in {NoWallet, origin[c].wallet}
<1>1. ASSUME NEW bundle \in Bundles \cup {NoBundle, BadBundle}, Start(bundle)
      PROVE  CooldownInv' /\ UNCHANGED pc
  BY <1>1 DEF Start, CooldownInv, Types, OwnEntry, Cooldowns!TypeOK, cooldownVars, history
<1>2. ASSUME NEW c \in Client, RecordWallet(c)
      PROVE  Kept
  BY <1>2, RecordStep
<1>3. ASSUME NEW c \in Client, Handle(c), ~RecordWallet(c)
      PROVE  Kept
  BY <1>3, RequestStep DEF CooldownInv, OwnEntry, cooldownVars, history
<1>4. CASE SweepCooldowns
  BY <1>4, SweepStep
<1>5. CASE Tick
  BY <1>5, TickStep
<1>6. CASE UNCHANGED vars
  BY <1>6 DEF vars, CooldownInv, Types, OwnEntry, Cooldowns!TypeOK, cooldownVars,
              process, history
<1> QED
  BY <1>1, <1>2, <1>3, <1>4, <1>5, <1>6 DEF Next

\* SwapWaits: while the enforced cooldown of a footprint's wallet runs, no other
\* wallet passes the footprint's entry (cross_wallet_cooldown.rs, check_cooldown).
THEOREM CooldownHolds == Spec => SwapWaits
<1>1. CooldownInv /\ [Next]_vars => CooldownInv'
  BY CooldownStep
<1>2. CooldownInv /\ [Next]_vars =>
        [\A c \in Client :
           pc[c] = "record" /\ pc'[c] = "screen" /\ deployment.enforce =>
             admitted[origin[c].footprint] \in {NoWallet, origin[c].wallet}]_vars
  BY CooldownStep
<1> QED
  BY <1>1, <1>2, CooldownInit, PTL DEF Spec, SwapWaits

------------------------------------------------------------------------------
(***************************************************************************)
(* The score is monotone in every risk, and every risk in what it is made  *)
(* of: no clamp, half or default turns the order round.                    *)
(***************************************************************************)
LEMMA ScaledBy ==
  ASSUME NEW w \in Nat, NEW x \in Nat, NEW y \in Nat, x >= y
  PROVE  /\ w * x \in Nat /\ w * y \in Nat
         /\ w * x >= w * y
  BY SMT

\* A risk that the executor scores lies between none and One.
RiskRange == 0 .. One

LEMMA OneIsTwoHalves ==
  /\ One \in Nat /\ One > 0 /\ NonFinite \notin Int
  /\ Risks!Half \in Nat /\ One = 2 * Risks!Half
BY ScreeningAssumption DEF Risks!RiskAssumption, Risks!Half

LEMMA BoundedInRange ==
  ASSUME NEW v \in RiskRange
  PROVE  Risks!Bounded(v) = v
BY OneIsTwoHalves DEF RiskRange, Risks!Bounded, Risks!Least

\* automation_risk: a framework label or the WebDriver flag never lowers it.
LEMMA AutomationMonotone ==
  ASSUME NEW s \in SignalSet, NEW t \in SignalSet
  PROVE  /\ Risks!AutomationRisk(s) \in RiskRange
         /\ MoreAutomated(s, t) => Risks!AutomationRisk(s) >= Risks!AutomationRisk(t)
<1>1. /\ s.webdriver \in BOOLEAN /\ s.tells \in Nat
      /\ t.webdriver \in BOOLEAN /\ t.tells \in Nat
  BY ScreeningAssumption
<1>2. ASSUME NEW n \in Nat
      PROVE  n * Risks!Half \in Nat /\ Risks!Least(n * Risks!Half, One) \in RiskRange
  <2>1. n * Risks!Half \in Nat
    BY OneIsTwoHalves
  <2>2. QED
    BY <2>1, OneIsTwoHalves DEF Risks!Least, RiskRange
<1>3. s.tells >= t.tells =>
        Risks!Least(s.tells * Risks!Half, One) >= Risks!Least(t.tells * Risks!Half, One)
  <2> SUFFICES ASSUME s.tells >= t.tells
               PROVE  Risks!Least(s.tells * Risks!Half, One)
                        >= Risks!Least(t.tells * Risks!Half, One)
    OBVIOUS
  <2>1. Risks!Half * s.tells >= Risks!Half * t.tells
    BY <1>1, OneIsTwoHalves, ScaledBy
  <2>2. s.tells * Risks!Half >= t.tells * Risks!Half
    BY <1>1, <2>1, OneIsTwoHalves
  <2>3. QED
    BY <1>1, <1>2, <2>2, OneIsTwoHalves DEF Risks!Least
<1>4. QED
  BY <1>1, <1>2, <1>3, OneIsTwoHalves DEF Risks!AutomationRisk, MoreAutomated, RiskRange

\* What balance and activity count for together.
Standing(r) == (Risks!Least(r.balance, One) + Risks!Least(r.activity, One)) \div 2

LEMMA StandingMonotone ==
  ASSUME NEW r \in Readings, NEW q \in Readings
  PROVE  /\ Standing(r) \in RiskRange
         /\ r.balance <= q.balance /\ r.activity <= q.activity =>
              Standing(r) <= Standing(q)
<1>1. /\ r.balance \in Nat /\ r.activity \in Nat
      /\ q.balance \in Nat /\ q.activity \in Nat
  BY ScreeningAssumption
<1>2. QED
  BY <1>1, OneIsTwoHalves DEF Standing, Risks!Least, RiskRange

\* reputation_risk: a poorer wallet, or one traced to a parent, never scores
\* better for it; an unread one is compared with itself alone.
LEMMA ReputationMonotone ==
  ASSUME NEW r \in Readings \cup {Unread}, NEW q \in Readings \cup {Unread}
  PROVE  /\ Risks!ReputationRisk(r) \in RiskRange
         /\ WorseReputed(r, q) => Risks!ReputationRisk(r) >= Risks!ReputationRisk(q)
<1>1. ASSUME NEW x \in Readings \cup {Unread}
      PROVE  Risks!ReputationRisk(x) =
               IF x = Unread THEN Risks!Half
               ELSE IF x.sybil
                    THEN Risks!Least(One - Standing(x) + Risks!Half, One)
                    ELSE One - Standing(x)
  BY DEF Risks!ReputationRisk, Standing
<1>2. ASSUME NEW x \in Readings \cup {Unread}
      PROVE  Risks!ReputationRisk(x) \in RiskRange
  <2>1. CASE x = Unread
    BY <1>1, <2>1, OneIsTwoHalves DEF RiskRange
  <2>2. CASE x # Unread
    <3>1. Standing(x) \in RiskRange
      BY <2>2, StandingMonotone
    <3>2. QED
      BY <1>1, <2>2, <3>1, OneIsTwoHalves DEF RiskRange, Risks!Least
  <2>3. QED
    BY <2>1, <2>2
<1>3. ASSUME WorseReputed(r, q), r # q
      PROVE  Risks!ReputationRisk(r) >= Risks!ReputationRisk(q)
  <2>1. /\ r \in Readings /\ q \in Readings /\ r # Unread /\ q # Unread
        /\ r.balance <= q.balance /\ r.activity <= q.activity /\ (q.sybil => r.sybil)
    BY <1>3 DEF WorseReputed
  <2>2. /\ Standing(r) \in RiskRange /\ Standing(q) \in RiskRange
        /\ Standing(r) <= Standing(q)
    BY <2>1, StandingMonotone
  <2>3. r.sybil \in BOOLEAN /\ q.sybil \in BOOLEAN
    BY <2>1, ScreeningAssumption
  <2>4. QED
    BY <1>1, <2>1, <2>2, <2>3, OneIsTwoHalves DEF RiskRange, Risks!Least
<1>4. QED
  BY <1>2, <1>3 DEF RiskRange

RiskRecord == [biometric : RiskRange, tts : RiskRange,
               automation : RiskRange, reputation : RiskRange]

\* weighted score (composite.rs): with natural weights, more risk is more score.
LEMMA ScoreMonotone ==
  ASSUME NEW p \in Risks!Policy, NEW x \in RiskRecord, NEW y \in RiskRecord,
         x.biometric >= y.biometric, x.tts >= y.tts,
         x.automation >= y.automation, x.reputation >= y.reputation
  PROVE  /\ Risks!Score(p, x) \in Nat /\ Risks!Score(p, y) \in Nat
         /\ Risks!Score(p, x) >= Risks!Score(p, y)
<1>1. /\ p.biometric \in Nat /\ p.tts \in Nat
      /\ p.automation \in Nat /\ p.reputation \in Nat
  BY DEF Risks!Policy, Risks!Weights, Risks!Thresholds
<1>2. ASSUME NEW z \in RiskRecord
      PROVE  /\ z.biometric \in Nat /\ z.tts \in Nat
             /\ z.automation \in Nat /\ z.reputation \in Nat
             /\ Risks!Score(p, z) = p.biometric * z.biometric + p.tts * z.tts
                  + p.automation * z.automation + p.reputation * z.reputation
  <2>1. /\ z.biometric \in RiskRange /\ z.tts \in RiskRange
        /\ z.automation \in RiskRange /\ z.reputation \in RiskRange
    BY DEF RiskRecord
  <2>2. QED
    BY <2>1, BoundedInRange, OneIsTwoHalves DEF Risks!Score, RiskRange
<1>3. /\ p.biometric * x.biometric >= p.biometric * y.biometric
      /\ p.tts * x.tts >= p.tts * y.tts
      /\ p.automation * x.automation >= p.automation * y.automation
      /\ p.reputation * x.reputation >= p.reputation * y.reputation
  BY <1>1, <1>2, ScaledBy
<1>4. /\ p.biometric * x.biometric \in Nat /\ p.biometric * y.biometric \in Nat
      /\ p.tts * x.tts \in Nat /\ p.tts * y.tts \in Nat
      /\ p.automation * x.automation \in Nat /\ p.automation * y.automation \in Nat
      /\ p.reputation * x.reputation \in Nat /\ p.reputation * y.reputation \in Nat
  BY <1>1, <1>2, ScaledBy
<1>5. QED
  BY <1>2, <1>3, <1>4

\* score_success: a greater score is never the better verdict, even under a
\* policy with its thresholds the wrong way round.
LEMMA VerdictMonotone ==
  ASSUME NEW p \in Risks!Policy, NEW x, NEW y,
         Risks!Score(p, x) \in Nat, Risks!Score(p, y) \in Nat,
         Risks!Score(p, x) >= Risks!Score(p, y)
  PROVE  Rank(Risks!Verdict(p, x)) >= Rank(Risks!Verdict(p, y))
<1>1. p.friction \in Nat /\ p.reject \in Nat
  BY DEF Risks!Policy, Risks!Weights, Risks!Thresholds
<1>2. p.friction * One \in Nat /\ p.reject * One \in Nat
  BY <1>1, OneIsTwoHalves, ScaledBy
<1>3. \A z : Rank(Risks!Verdict(p, z)) =
        IF Risks!Rejects(p, Risks!Score(p, z)) THEN 2
        ELSE IF Risks!RequiresFriction(p, Risks!Score(p, z)) THEN 1 ELSE 0
  BY DEF Rank, Risks!Verdict
<1>4. QED
  BY <1>2, <1>3 DEF Risks!Rejects, Risks!RequiresFriction

------------------------------------------------------------------------------
(***************************************************************************)
(* The captures.  A verdict is that of the policy the process serves with  *)
(* on exactly what was reported, since the policy is resolved before the   *)
(* first capture and never again; and a request is forwarded with an       *)
(* intent that its identity account gave it.                               *)
(***************************************************************************)
Baseline ==
  [requested : Version, account : Version \cup {NoAccount, Foreign},
   intent : {"mint", "update", "rebaseline", "reset", "refused"}]

Judgement ==
  [biometric : RiskRange, tts : RiskRange, signals : SignalSet,
   reading : Readings \cup {Unread}, verdict : {"passed", "captcha", "rejected"}]

CaptureTypes ==
  /\ pc \in [Client -> {"idle", "contains", "measure", "record", "screen",
                        "identity", "forwarded", "judged"}]
  /\ signals \in [Client -> SignalSet \cup {Nothing}]
  /\ baseline \in [Client -> Baseline \cup {Nothing}]
  /\ judged \in [Client -> Judgement \cup {Nothing}]

\* The account gave a forwarded request its intent, and the checks let it on.
Allowed(c) ==
  \E reset \in BOOLEAN, evidence \in Projections!Evidence :
    LET b == baseline[c]
    IN /\ b.intent = Projections!Intent(b.account, b.requested, reset)
       /\ MayForward(c, b.intent, b.requested, evidence)

JudgedByPolicy(c) ==
  LET j == judged[c]
  IN j.verdict = Risks!Verdict(policy, RisksOf(j.signals, j.biometric, j.tts, j.reading))

CaptureFits(c) ==
  /\ mode # "serving" => pc[c] = "idle"
  /\ pc[c] \in {"identity", "forwarded"} => signals[c] \in SignalSet
  /\ pc[c] = "forwarded" => baseline[c] \in Baseline /\ Allowed(c)
  /\ pc[c] = "judged" => judged[c] \in Judgement /\ JudgedByPolicy(c)

CapturesInv ==
  /\ PolicyResolved
  /\ CaptureTypes
  /\ \A c \in Client : CaptureFits(c)

LEMMA CapturesInit == Init => CapturesInv
BY DEF Init, CapturesInv, PolicyResolved, CaptureTypes, CaptureFits

\* A step of one client is none of another's.
LEMMA OthersUndisturbed ==
  ASSUME CapturesInv, NEW c \in Client, Handle(c), NEW d \in Client, d # c
  PROVE  /\ pc'[d] = pc[d] /\ signals'[d] = signals[d]
         /\ baseline'[d] = baseline[d] /\ judged'[d] = judged[d]
<1> USE DEF CapturesInv, CaptureTypes, Go, Forget
<1>1. ASSUME NEW f \in Fingerprint, NEW w \in Wallet, Arrive(c, f, w)
      PROVE  UNCHANGED <<signals, baseline, judged>> /\ pc'[d] = pc[d]
  BY <1>1 DEF Arrive
<1>2. CASE FindFootprint(c) \/ Measure(c)
  BY <1>2 DEF FindFootprint, Measure
<1>3. CASE RecordWallet(c)
  BY <1>3 DEF RecordWallet
<1>4. ASSUME NEW s \in SignalSet, Screen(c, s)
      PROVE  /\ pc'[d] = pc[d] /\ signals'[d] = signals[d]
             /\ baseline'[d] = baseline[d] /\ judged'[d] = judged[d]
  BY <1>4 DEF Screen
<1>5. ASSUME NEW account, NEW requested, NEW reset, NEW evidence,
             ReadIdentity(c, account, requested, reset, evidence)
      PROVE  /\ pc'[d] = pc[d] /\ signals'[d] = signals[d]
             /\ baseline'[d] = baseline[d] /\ judged'[d] = judged[d]
  BY <1>5 DEF ReadIdentity
<1>6. ASSUME NEW biometric, NEW tts, NEW reading, Judge(c, biometric, tts, reading)
      PROVE  /\ pc'[d] = pc[d] /\ signals'[d] = signals[d]
             /\ baseline'[d] = baseline[d] /\ judged'[d] = judged[d]
  BY <1>6 DEF Judge
<1>7. CASE Leave(c)
  BY <1>7 DEF Leave
<1>8. QED
  BY <1>1, <1>2, <1>3, <1>4, <1>5, <1>6, <1>7 DEF Handle

\* derive_projection_intent: an account is updated or reset only by a capture
\* of the projection it stores, and is refused to an older one.
LEMMA IntentFacts ==
  ASSUME NEW account \in Version \cup {NoAccount, Foreign},
         NEW requested \in Version, NEW reset \in BOOLEAN
  PROVE  LET intent == Projections!Intent(account, requested, reset)
         IN /\ intent \in {"mint", "update", "rebaseline", "reset", "refused"}
            /\ intent \in {"update", "reset"} => account = requested
            /\ account \in Version /\ intent # "refused" => account <= requested
<1>1. Version \subseteq Nat /\ NoAccount \notin Version /\ Foreign \notin Version
  BY ScreeningAssumption
<1>2. CASE account \in Version
  BY <1>1, <1>2 DEF Projections!Intent, Projections!NoIntent
<1>3. CASE account \notin Version
  BY <1>1, <1>3 DEF Projections!Intent, Projections!NoIntent
<1>4. QED
  BY <1>2, <1>3

LEMMA VerdictTyped ==
  ASSUME NEW p, NEW x
  PROVE  Risks!Verdict(p, x) \in {"passed", "captcha", "rejected"}
BY DEF Risks!Verdict

LEMMA ForgetFits ==
  ASSUME CapturesInv, NEW c \in Client, Forget(c)
  PROVE  CaptureTypes' /\ (CaptureFits(c)' \/ mode' # mode \/ policy' # policy)
BY DEF CapturesInv, CaptureTypes, CaptureFits, Forget, Go

LEMMA HandleFits ==
  ASSUME CapturesInv, mode = "serving", NEW c \in Client, Handle(c)
  PROVE  CaptureTypes' /\ CaptureFits(c)' /\ UNCHANGED process
<1> DEFINE Fits == CaptureTypes' /\ CaptureFits(c)'
<1>1. UNCHANGED process
  BY DEF Handle, Arrive, FindFootprint, Measure, RecordWallet, Screen,
         ReadIdentity, Judge, Leave
<1>2. /\ CaptureTypes /\ CaptureFits(c)
      /\ mode' = "serving" /\ policy' = policy
  BY <1>1 DEF CapturesInv, process
<1>3. Forget(c) => Fits
  BY <1>1, ForgetFits DEF process
<1>4. ASSUME NEW f \in Fingerprint, NEW w \in Wallet, Arrive(c, f, w) PROVE Fits
  BY <1>2, <1>4 DEF Arrive, Go, CaptureTypes, CaptureFits
<1>5. ASSUME FindFootprint(c) \/ Measure(c) PROVE Fits
  BY <1>2, <1>5 DEF FindFootprint, Measure, Go, CaptureTypes, CaptureFits
<1>6. ASSUME RecordWallet(c) PROVE Fits
  <2>1. CASE Go(c, "screen") /\ UNCHANGED <<signals, baseline, judged>>
    BY <1>2, <2>1 DEF Go, CaptureTypes, CaptureFits
  <2>2. QED
    BY <1>3, <1>6, <2>1 DEF RecordWallet
<1>7. ASSUME NEW s \in SignalSet, Screen(c, s) PROVE Fits
  <2>1. CASE /\ Go(c, "identity") /\ signals' = [signals EXCEPT ![c] = s]
             /\ UNCHANGED <<baseline, judged>>
    BY <1>2, <2>1 DEF Go, CaptureTypes, CaptureFits
  <2>2. QED
    BY <1>3, <1>7, <2>1 DEF Screen
<1>8. ASSUME NEW account \in Version \cup {NoAccount, Foreign}, NEW requested \in Version,
             NEW reset \in BOOLEAN, NEW evidence \in Projections!Evidence,
             ReadIdentity(c, account, requested, reset, evidence)
      PROVE  Fits
  <2> DEFINE b == [requested |-> requested, account |-> account,
                   intent |-> Projections!Intent(account, requested, reset)]
  <2>1. CASE /\ MayForward(c, b.intent, requested, evidence)
             /\ Go(c, "forwarded") /\ baseline' = [baseline EXCEPT ![c] = b]
             /\ UNCHANGED <<signals, judged>>
    <3>1. b \in Baseline
      BY IntentFacts DEF Baseline
    <3>2. CaptureTypes' /\ pc'[c] = "forwarded" /\ baseline'[c] = b /\ signals' = signals
      BY <1>2, <2>1, <3>1 DEF Go, CaptureTypes
    <3>3. Allowed(c)'
      BY <2>1, <3>2 DEF Allowed, MayForward
    <3>4. pc[c] = "identity"
      BY <1>8 DEF ReadIdentity
    <3>5. QED
      BY <1>2, <3>1, <3>2, <3>3, <3>4 DEF CaptureFits
  <2>2. QED
    BY <1>3, <1>8, <2>1 DEF ReadIdentity
<1>9. ASSUME NEW biometric, NEW tts, NEW reading, Judge(c, biometric, tts, reading)
      PROVE  Fits
  <2> DEFINE j == [biometric |-> biometric, tts |-> tts, signals |-> signals[c],
                   reading |-> reading,
                   verdict |-> Risks!Verdict(policy,
                                 RisksOf(signals[c], biometric, tts, reading))]
  <2>1. /\ pc[c] = "forwarded" /\ signals[c] \in SignalSet
        /\ biometric \in RiskRange /\ tts \in RiskRange
        /\ reading \in Readings \cup {Unread}
        /\ pc' = [pc EXCEPT ![c] = "judged"]
        /\ judged' = [judged EXCEPT ![c] = j]
        /\ signals' = [signals EXCEPT ![c] = Nothing]
        /\ baseline' = [baseline EXCEPT ![c] = Nothing]
    BY <1>2, <1>9 DEF Judge, MayRead, Risks!Readable, RiskRange, CaptureFits, Go
  <2>2. j \in Judgement
    BY <2>1, VerdictTyped DEF Judgement
  <2> HIDE DEF j
  <2>3. CaptureTypes' /\ pc'[c] = "judged" /\ judged'[c] = j
    BY <1>2, <2>1, <2>2 DEF CaptureTypes
  <2>4. JudgedByPolicy(c)'
    BY <1>2, <2>3 DEF JudgedByPolicy, j, RisksOf, Risks!Verdict, Risks!Score,
       Risks!Rejects, Risks!RequiresFriction
  <2>5. QED
    BY <1>2, <2>2, <2>3, <2>4 DEF CaptureFits
<1>10. ASSUME Leave(c) PROVE Fits
  BY <1>3, <1>10 DEF Leave
<1> HIDE DEF Fits
<1>11. Fits
  BY <1>4, <1>5, <1>6, <1>7, <1>8, <1>9, <1>10 DEF Handle
<1>12. QED
  BY <1>1, <1>11 DEF Fits

LEMMA CapturesNext == CapturesInv /\ [Next]_vars => CapturesInv'
<1> SUFFICES ASSUME CapturesInv, [Next]_vars PROVE CapturesInv'
  OBVIOUS
<1>1. PolicyResolved'
  BY PolicyStays DEF CapturesInv
<1>2. ASSUME NEW c \in Client, mode = "serving", Handle(c)
      PROVE  CaptureTypes' /\ \A d \in Client : CaptureFits(d)'
  <2>1. CaptureTypes' /\ CaptureFits(c)' /\ UNCHANGED process
    BY <1>2, HandleFits
  <2>2. ASSUME NEW d \in Client, d # c
        PROVE  CaptureFits(d)'
    <3>1. /\ CaptureFits(d)
          /\ pc'[d] = pc[d] /\ signals'[d] = signals[d]
          /\ baseline'[d] = baseline[d] /\ judged'[d] = judged[d]
      BY <1>2, <2>2, OthersUndisturbed DEF CapturesInv
    <3>2. Allowed(d) <=> Allowed(d)'
      BY <3>1 DEF Allowed, MayForward
    <3>3. JudgedByPolicy(d) <=> JudgedByPolicy(d)'
      BY <2>1, <3>1 DEF JudgedByPolicy, process
    <3>4. QED
      BY <2>1, <3>1, <3>2, <3>3 DEF CaptureFits, process
  <2>3. QED
    BY <2>1, <2>2
<1>3. ASSUME NEW bundle \in Bundles \cup {NoBundle, BadBundle}, Start(bundle)
      PROVE  CaptureTypes' /\ \A d \in Client : CaptureFits(d)'
  BY <1>3 DEF Start, CapturesInv, CaptureTypes, CaptureFits
<1>4. ASSUME SweepCooldowns \/ Tick \/ UNCHANGED vars
      PROVE  CaptureTypes' /\ \A d \in Client : CaptureFits(d)'
  <2>1. UNCHANGED <<process, pc, signals, baseline, judged>>
    BY <1>4 DEF SweepCooldowns, Tick, vars, process
  <2>2. ASSUME NEW d \in Client
        PROVE  CaptureFits(d)'
    <3>1. CaptureFits(d)
      BY DEF CapturesInv
    <3>2. Allowed(d) <=> Allowed(d)'
      BY <2>1 DEF Allowed, MayForward
    <3>3. JudgedByPolicy(d) <=> JudgedByPolicy(d)'
      BY <2>1 DEF JudgedByPolicy, process
    <3>4. QED
      BY <2>1, <3>1, <3>2, <3>3 DEF CaptureFits, process
  <2>3. QED
    BY <2>1, <2>2 DEF CapturesInv, CaptureTypes
<1>5. CaptureTypes' /\ \A d \in Client : CaptureFits(d)'
  BY <1>2, <1>3, <1>4 DEF Next
<1>6. QED
  BY <1>1, <1>5 DEF CapturesInv

LEMMA CapturesInvariant == Spec => []CapturesInv
BY CapturesInit, CapturesNext, PTL DEF Spec

\* RiskierNotFavoured: of two captures, the one reported worse or equal in
\* everything never has the better verdict, for every policy that a bundle can
\* bring and for that of development (composite.rs, automation_risk and
\* reputation_risk of handler.rs).
THEOREM RiskierIsNotFavoured == Spec => []RiskierNotFavoured
<1>1. ASSUME CapturesInv, NEW a \in Client, NEW b \in Client,
             pc[a] = "judged", pc[b] = "judged",
             judged[a].biometric >= judged[b].biometric,
             judged[a].tts >= judged[b].tts,
             MoreAutomated(judged[a].signals, judged[b].signals),
             WorseReputed(judged[a].reading, judged[b].reading)
      PROVE  Rank(judged[a].verdict) >= Rank(judged[b].verdict)
  <2> DEFINE x == RisksOf(judged[a].signals, judged[a].biometric, judged[a].tts,
                          judged[a].reading)
             y == RisksOf(judged[b].signals, judged[b].biometric, judged[b].tts,
                          judged[b].reading)
  <2>1. /\ judged[a] \in Judgement /\ judged[b] \in Judgement
        /\ judged[a].verdict = Risks!Verdict(policy, x)
        /\ judged[b].verdict = Risks!Verdict(policy, y)
        /\ mode = "serving"
    BY <1>1 DEF CapturesInv, CaptureFits, JudgedByPolicy
  <2>2. policy \in Risks!Policy
    <3>1. Risks!Development \in Risks!Policy
      BY ScreeningAssumption
      DEF Risks!RiskAssumption, Risks!Development, Risks!Policy
    <3>2. QED
      BY <1>1, <2>1, <3>1, ScreeningAssumption DEF CapturesInv, PolicyResolved
  <2>3. /\ judged[a].signals \in SignalSet /\ judged[b].signals \in SignalSet
        /\ judged[a].reading \in Readings \cup {Unread}
        /\ judged[b].reading \in Readings \cup {Unread}
        /\ judged[a].biometric \in RiskRange /\ judged[b].biometric \in RiskRange
        /\ judged[a].tts \in RiskRange /\ judged[b].tts \in RiskRange
    BY <2>1 DEF Judgement
  <2>4. x \in RiskRecord /\ y \in RiskRecord
    BY <2>3, AutomationMonotone, ReputationMonotone DEF RisksOf, RiskRecord
  <2>5. /\ x.biometric >= y.biometric /\ x.tts >= y.tts
        /\ x.automation >= y.automation /\ x.reputation >= y.reputation
    BY <1>1, <2>3, AutomationMonotone, ReputationMonotone DEF RisksOf
  <2> HIDE DEF x, y
  <2>6. /\ Risks!Score(policy, x) \in Nat /\ Risks!Score(policy, y) \in Nat
        /\ Risks!Score(policy, x) >= Risks!Score(policy, y)
    BY <2>2, <2>4, <2>5, ScoreMonotone
  <2>7. QED
    BY <2>1, <2>2, <2>6, VerdictMonotone
<1>2. CapturesInv => RiskierNotFavoured
  BY <1>1 DEF RiskierNotFavoured
<1>3. QED
  BY <1>2, CapturesInvariant, PTL

\* BaselinesNotRolledBack: a single capture goes to the validator only to update
\* an account of its own projection, and a session never to replace a baseline
\* of a later projection than its own (derive_projection_intent and the checks
\* after it).
THEOREM BaselinesAreNotRolledBack == Spec => []BaselinesNotRolledBack
<1>1. ASSUME CapturesInv, NEW c \in Client, pc[c] = "forwarded"
      PROVE  IF KindOf[c] = "plain"
             THEN baseline[c].requested = baseline[c].account /\ baseline[c].intent = "update"
             ELSE baseline[c].account \notin {v \in Version : v > PairedProjection}
  <2>1. baseline[c] \in Baseline /\ Allowed(c) /\ KindOf[c] \in {"plain", "session"}
    BY <1>1, ScreeningAssumption DEF CapturesInv, CaptureFits
  <2>2. PICK reset \in BOOLEAN, evidence \in Projections!Evidence :
          /\ baseline[c].intent =
               Projections!Intent(baseline[c].account, baseline[c].requested, reset)
          /\ MayForward(c, baseline[c].intent, baseline[c].requested, evidence)
    BY <2>1 DEF Allowed
  <2>3. /\ baseline[c].account \in Version \cup {NoAccount, Foreign}
        /\ baseline[c].requested \in Version
    BY <2>1 DEF Baseline
  <2>4. /\ baseline[c].intent \in {"mint", "update", "rebaseline", "reset", "refused"}
        /\ baseline[c].intent \in {"update", "reset"} =>
             baseline[c].account = baseline[c].requested
        /\ baseline[c].account \in Version /\ baseline[c].intent # "refused" =>
             baseline[c].account <= baseline[c].requested
    BY <2>2, <2>3, IntentFacts
  <2>5. CASE KindOf[c] = "plain"
    BY <2>2, <2>4, <2>5
    DEF MayForward, Projections!WritesBaseline, Projections!NoIntent
  <2>6. CASE KindOf[c] = "session"
    <3>1. baseline[c].intent # "refused" /\ baseline[c].requested = 1
      BY <2>2, <2>6 DEF MayForward, Projections!NoIntent, PairedProjection
    <3>2. \A v \in Version : v <= 1 => ~(v > 1)
      BY ScreeningAssumption
    <3>3. baseline[c].account \notin {v \in Version : v > PairedProjection}
      BY <2>4, <3>1, <3>2 DEF PairedProjection
    <3>4. QED
      BY <2>6, <3>3
  <2>7. QED
    BY <2>1, <2>5, <2>6
<1>2. CapturesInv => BaselinesNotRolledBack
  BY <1>1 DEF BaselinesNotRolledBack
<1>3. QED
  BY <1>2, CapturesInvariant, PTL

\* "Never affects the verification decision" (server.rs, config.rs) is true of
\* the reputation read exactly as far as the policy gives it no weight, which
\* a policy in a bundle may do and that of development does not.
THEOREM UnweighedReputationDecidesNothing ==
  Spec => [](mode = "serving" /\ policy.reputation = 0 => ObserveNeverDecides)
<1>1. ASSUME CapturesInv, mode = "serving", policy.reputation = 0,
             NEW c \in Client, pc[c] = "judged"
      PROVE  LET j == judged[c]
             IN j.verdict = Risks!Verdict(policy,
                              RisksOf(j.signals, j.biometric, j.tts, Unread))
  <2> DEFINE j == judged[c]
             x == RisksOf(j.signals, j.biometric, j.tts, j.reading)
             y == RisksOf(j.signals, j.biometric, j.tts, Unread)
  <2>1. j \in Judgement /\ j.verdict = Risks!Verdict(policy, x)
    BY <1>1 DEF CapturesInv, CaptureFits, JudgedByPolicy
  <2>2. /\ Risks!ReputationRisk(j.reading) \in RiskRange
        /\ Risks!ReputationRisk(Unread) \in RiskRange
    BY <2>1, ReputationMonotone DEF Judgement
  <2>3. /\ policy.reputation * Risks!Bounded(x.reputation) = 0
        /\ policy.reputation * Risks!Bounded(y.reputation) = 0
    BY <1>1, <2>2, BoundedInRange, OneIsTwoHalves DEF RisksOf, RiskRange
  <2>4. Risks!Score(policy, x) = Risks!Score(policy, y)
    BY <2>3 DEF Risks!Score, RisksOf
  <2>5. QED
    BY <2>1, <2>4 DEF Risks!Verdict
<1>2. CapturesInv => (mode = "serving" /\ policy.reputation = 0 => ObserveNeverDecides)
  BY <1>1 DEF ObserveNeverDecides
<1>3. QED
  BY <1>2, CapturesInvariant, PTL

==============================================================================
