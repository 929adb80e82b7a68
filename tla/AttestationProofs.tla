-------------------------- MODULE AttestationProofs --------------------------
(***************************************************************************)
(* Theorems about the attestation path, for any requests, wallets, limits, *)
(* number of retries, horizon and lead of the cluster's clock.             *)
(***************************************************************************)
EXTENDS Attestation, TLAPS

------------------------------------------------------------------------------
(***************************************************************************)
(* Types.                                                                  *)
(***************************************************************************)
LEMMA InitTypeOK == Init => TypeOK
BY AttestationAssumption
   DEF Init, TypeOK, Time, ClusterTime, Attempts, PC, Outcome

LEMMA RequestType ==
  ASSUME TypeOK, NEW r \in Req, Forbid(r) \/ Consume(r) \/ Handle(r) \/ Cancel(r)
  PROVE  TypeOK'
<1> USE AttestationAssumption
    DEF TypeOK, PC, Outcome, Attempts, Continue, Answer, cluster
<1>1. CASE Forbid(r) \/ Cancel(r)
  BY <1>1 DEF Forbid, Cancel
<1>2. CASE Consume(r)
  BY <1>2 DEF Consume
<1>3. CASE ReadIdentity(r)
  BY <1>3 DEF ReadIdentity
<1>4. CASE FailRead(r) \/ FindExisting(r)
  BY <1>4 DEF FailRead, FindExisting
<1>5. CASE FetchBlockhash(r) \/ Send(r)
  BY <1>5 DEF FetchBlockhash, Send
<1>6. CASE Confirm(r) \/ FailAttempt(r)
  BY <1>6 DEF Confirm, FailAttempt, Retry
<1>7. QED
  BY <1>1, <1>2, <1>3, <1>4, <1>5, <1>6 DEF Handle

LEMMA NextTypeOK == TypeOK /\ [Next]_vars => TypeOK'
<1> SUFFICES ASSUME TypeOK, [Next]_vars
             PROVE  TypeOK'
  OBVIOUS
<1>1. ASSUME NEW r \in Req, Forbid(r) \/ Consume(r) \/ Handle(r) \/ Cancel(r)
      PROVE  TypeOK'
  BY <1>1, RequestType
<1>2. ASSUME NEW w \in Wallet, IssueChallenge(w) \/ LoseChallenge(w)
      PROVE  TypeOK'
  BY <1>2 DEF TypeOK, IssueChallenge, LoseChallenge, cluster, control
<1>3. ASSUME NEW w \in Wallet, Verify(w)
      PROVE  TypeOK'
  BY <1>3, AttestationAssumption DEF TypeOK, Verify, control, Time, ClusterTime
<1>4. ASSUME NEW r \in Req, NEW a \in Attempts, Land(r, a) \/ Drop(r, a)
      PROVE  TypeOK'
  BY <1>4, AttestationAssumption DEF TypeOK, Land, Drop, control
<1>5. CASE Tick
  BY <1>5, AttestationAssumption DEF TypeOK, Tick, Time, cluster, control
<1>6. CASE UNCHANGED vars
  BY <1>6 DEF TypeOK, vars, cluster, control
<1>7. QED
  BY <1>1, <1>2, <1>3, <1>4, <1>5, <1>6 DEF Next

\* TypeOK: no attempt past MAX_RETRIES is made, and no reading leaves its range.
THEOREM AttestationTypeOK == Spec => []TypeOK
BY InitTypeOK, NextTypeOK, PTL DEF Spec

------------------------------------------------------------------------------
(***************************************************************************)
(* What a request carries.  StandingIsFresh and AnswersAreTrue speak of    *)
(* what stands and of answers; Stage says the same of requests on their    *)
(* way: nothing is sent before the look at what stands, attempts are sent  *)
(* in their order, and whoever sent has passed the gate.                   *)
(***************************************************************************)
SentSome(r) == \E a \in Attempts : Sent(r, a)

Recent(r) ==
  /\ reading[r] \in ClusterTime
  /\ stamp[r] - reading[r] \in -Skew .. MaxAge
  /\ stamp[r] <= now

Stage(r) ==
  /\ pc[r] \in {"idle", "identity", "existing"} => ~SentSome(r)
  /\ pc[r] \in {"existing", "blockhash", "send", "confirm"} => Recent(r)
  /\ SentSome(r) => Recent(r)
  /\ outcome[r] # "none" => pc[r] = "done"
  /\ outcome[r] = "issued" => <<r, attempt[r]>> \in landed
  /\ outcome[r] \in {"forbidden", "unfit"} => ~SentSome(r)

\* What its attempts have left.
Attempted(r) ==
  /\ \A a \in Attempts : Sent(r, a) =>
       a <= attempt[r] /\ (pc[r] \in {"blockhash", "send"} => a < attempt[r])
  /\ outcome[r] \in {"unavailable", "failed"} =>
       attempt[r] = MaxRetries \/ ~SentSome(r)
  /\ outcome[r] = "unavailable" => ~Sent(r, attempt[r])

\* What stands has landed, and once something landed a request of this process
\* stands.
Landed(r) == \E a \in Attempts : <<r, a>> \in landed

Chain ==
  /\ \A w \in Wallet :
       stands[w] \in Req => WalletOf[stands[w]] = w /\ Landed(stands[w])
  /\ \A t \in landed : stands[WalletOf[t[1]]] \in Req

IInv ==
  /\ TypeOK
  /\ \A r \in Req : Stage(r) /\ Attempted(r)
  /\ Chain /\ CreatesOnce

LEMMA InitIInv == Init => IInv
<1> SUFFICES ASSUME Init
             PROVE  IInv
  OBVIOUS
<1>1. \A r \in Req : Stage(r) /\ Attempted(r)
  BY DEF Init, Stage, Attempted, SentSome, Sent
<1>2. Chain /\ CreatesOnce
  BY AttestationAssumption DEF Init, Chain, CreatesOnce
<1>3. QED
  BY <1>1, <1>2, InitTypeOK DEF IInv

\* A request's own step.
LEMMA OwnStage ==
  ASSUME TypeOK, NEW r \in Req, Stage(r),
         Forbid(r) \/ Consume(r) \/ Handle(r) \/ Cancel(r)
  PROVE  Stage(r)'
<1> USE DEF Continue, Answer
<1>1. ASSUME UNCHANGED <<pending, landed>>
      PROVE  SentSome(r)' <=> SentSome(r)
  BY <1>1 DEF SentSome, Sent
<1>2. ASSUME UNCHANGED <<reading, stamp, now>>
      PROVE  Recent(r)' <=> Recent(r)
  BY <1>2 DEF Recent
<1>3. CASE Forbid(r) \/ Consume(r)
  BY <1>1, <1>2, <1>3 DEF TypeOK, Stage, Forbid, Consume, cluster
<1>4. CASE ReadIdentity(r)
  <2>1. CASE verifiedAt[WalletOf[r]] # NoTime /\ Fresh(verifiedAt[WalletOf[r]], now)
    <3>1. Recent(r)'
      <4>1. /\ reading'[r] = verifiedAt[WalletOf[r]] /\ stamp'[r] = now /\ now' = now
            /\ verifiedAt[WalletOf[r]] \in ClusterTime
        BY <1>4, <2>1, AttestationAssumption DEF ReadIdentity, TypeOK
      <4>2. now \in Int /\ verifiedAt[WalletOf[r]] \in Int /\ Skew \in Int /\ MaxAge \in Int
        BY <4>1, AttestationAssumption DEF TypeOK, Time, ClusterTime
      <4>3. now - verifiedAt[WalletOf[r]] \in -Skew .. MaxAge
        BY <4>2, <2>1 DEF Fresh
      <4>4. QED
        BY <4>1, <4>2, <4>3 DEF Recent
    <3>2. QED
      BY <1>1, <1>4, <2>1, <3>1 DEF TypeOK, Stage, ReadIdentity, cluster
  <2>2. CASE verifiedAt[WalletOf[r]] # NoTime => ~Fresh(verifiedAt[WalletOf[r]], now)
    BY <1>1, <1>2, <1>4, <2>2 DEF TypeOK, Stage, ReadIdentity, cluster
  <2>3. QED
    BY <2>1, <2>2
<1>5. CASE FailRead(r) \/ FindExisting(r) \/ FetchBlockhash(r)
  BY <1>1, <1>2, <1>5 DEF TypeOK, Stage, FailRead, FindExisting, FetchBlockhash, cluster
<1>6. CASE Send(r)
  BY <1>2, <1>6 DEF TypeOK, Stage, SentSome, Sent, Send
<1>7. CASE Confirm(r)
  BY <1>1, <1>2, <1>7 DEF TypeOK, Stage, Confirm, cluster
<1>8. CASE FailAttempt(r)
  BY <1>1, <1>2, <1>8 DEF TypeOK, Stage, FailAttempt, Retry, cluster
<1>9. CASE Cancel(r)
  BY <1>1, <1>2, <1>9 DEF TypeOK, Stage, Cancel, cluster
<1>10. QED
  BY <1>3, <1>4, <1>5, <1>6, <1>7, <1>8, <1>9 DEF Handle

\* Attempts are counted up, and the one of the count is sent last.
LEMMA OwnAttempted ==
  ASSUME TypeOK, NEW r \in Req, Stage(r), Attempted(r),
         Forbid(r) \/ Consume(r) \/ Handle(r) \/ Cancel(r)
  PROVE  Attempted(r)'
<1> USE DEF Continue, Answer
<1>1. attempt[r] \in Int /\ MaxRetries \in Int /\ Attempts \subseteq Int
  BY AttestationAssumption DEF TypeOK, Attempts
<1>2. ASSUME UNCHANGED <<pending, landed>>
      PROVE  /\ \A a : Sent(r, a)' <=> Sent(r, a)
             /\ SentSome(r)' <=> SentSome(r)
  BY <1>2 DEF SentSome, Sent
<1>3. CASE Forbid(r) \/ Consume(r) \/ ReadIdentity(r) \/ FindExisting(r)
  <2>1. /\ ~SentSome(r)' /\ \A a \in Attempts : ~Sent(r, a)'
        /\ attempt' = attempt /\ attempt[r] \in Attempts
    BY <1>2, <1>3 DEF Stage, SentSome, TypeOK, Forbid, Consume, ReadIdentity, FindExisting,
       cluster
  <2>2. QED
    BY <2>1 DEF Attempted
<1>4. CASE FailRead(r)
  <2>1. /\ ~SentSome(r)' /\ \A a \in Attempts : ~Sent(r, a)'
        /\ attempt' = attempt /\ attempt[r] \in Attempts
    BY <1>2, <1>4 DEF Stage, SentSome, TypeOK, FailRead, cluster
  <2>2. QED
    BY <2>1 DEF Attempted
<1>5. CASE FetchBlockhash(r)
  BY <1>2, <1>5 DEF TypeOK, Stage, Attempted, FetchBlockhash, cluster
<1>6. CASE Send(r)
  <2>1. \A a \in Attempts : Sent(r, a)' => Sent(r, a) \/ a = attempt[r]
    BY <1>6 DEF Sent, Send
  <2>2. /\ pc[r] = "send" /\ pc'[r] = "confirm"
        /\ outcome' = outcome /\ attempt' = attempt /\ outcome[r] = "none"
    BY <1>6 DEF Send, TypeOK, Stage
  <2>3. QED
    BY <1>1, <2>1, <2>2 DEF Attempted
<1>7. CASE Confirm(r) \/ Cancel(r)
  <2>1. /\ pc'[r] = "done" /\ outcome'[r] \in {"issued", "cancelled"}
        /\ attempt' = attempt /\ UNCHANGED <<pending, landed>>
    BY <1>7 DEF Confirm, Cancel, TypeOK, cluster
  <2>2. QED
    BY <1>2, <2>1 DEF Attempted
<1>8. CASE FailAttempt(r)
  <2>1. UNCHANGED <<pending, landed>> /\ outcome[r] = "none"
    BY <1>8 DEF FailAttempt, Stage, cluster, TypeOK
  <2>2. CASE attempt[r] < MaxRetries
    <3>1. attempt'[r] = attempt[r] + 1 /\ outcome' = outcome
      BY <1>1, <1>8, <2>2 DEF FailAttempt, Retry, TypeOK
    <3>2. QED
      BY <1>1, <1>2, <2>1, <3>1 DEF Attempted
  <2>3. CASE attempt[r] = MaxRetries
    <3>1. /\ attempt' = attempt /\ pc'[r] = "done"
          /\ outcome'[r] = IF pc[r] = "blockhash" THEN "unavailable" ELSE "failed"
      BY <1>1, <1>8, <2>3 DEF FailAttempt, Retry, TypeOK
    <3>2. attempt[r] \in Attempts /\ (pc[r] = "blockhash" => ~Sent(r, attempt[r]))
      BY <1>1 DEF TypeOK, Attempted
    <3>3. QED
      BY <1>2, <2>1, <2>3, <3>1, <3>2 DEF Attempted
  <2>4. QED
    BY <1>8, <2>2, <2>3 DEF FailAttempt, Retry
<1>9. QED
  BY <1>3, <1>4, <1>5, <1>6, <1>7, <1>8 DEF Handle

\* Nobody else changes what a request carries.
LEMMA OtherStage ==
  ASSUME TypeOK, NEW r \in Req, NEW q \in Req, q # r, Stage(q), Attempted(q),
         Forbid(r) \/ Consume(r) \/ Handle(r) \/ Cancel(r)
  PROVE  Stage(q)' /\ Attempted(q)'
<1>1. /\ pc'[q] = pc[q] /\ outcome'[q] = outcome[q] /\ reading'[q] = reading[q]
      /\ stamp'[q] = stamp[q] /\ attempt'[q] = attempt[q]
      /\ now' = now /\ landed' = landed
  BY DEF TypeOK, Handle, Forbid, Consume, ReadIdentity, FailRead, FindExisting,
     FetchBlockhash, Send, Confirm, FailAttempt, Retry, Cancel, Continue, Answer, cluster
<1>2. \A a \in Attempts : <<q, a>> \in pending' <=> <<q, a>> \in pending
  BY DEF Handle, Forbid, Consume, ReadIdentity, FailRead, FindExisting,
     FetchBlockhash, Send, Confirm, FailAttempt, Cancel, cluster
<1>3. /\ \A a \in Attempts : Sent(q, a)' <=> Sent(q, a)
      /\ SentSome(q)' <=> SentSome(q)
      /\ Recent(q)' <=> Recent(q)
  BY <1>1, <1>2 DEF SentSome, Sent, Recent
<1>4. Stage(q)'
  BY <1>1, <1>3 DEF Stage
<1>5. Attempted(q)'
  BY <1>1, <1>3 DEF Attempted, TypeOK, Sent
<1>6. QED
  BY <1>4, <1>5

\* The cluster and the clock.
LEMMA OutsideStage ==
  ASSUME TypeOK, NEW q \in Req, Stage(q), Attempted(q), UNCHANGED control,
         \/ \E w \in Wallet : IssueChallenge(w) \/ LoseChallenge(w) \/ Verify(w)
         \/ \E r \in Req, a \in Attempts : Land(r, a) \/ Drop(r, a)
         \/ Tick
  PROVE  Stage(q)' /\ Attempted(q)'
<1>1. /\ landed \subseteq landed'
      /\ pending' \cup landed' \subseteq pending \cup landed
  BY DEF IssueChallenge, LoseChallenge, Verify, Land, Drop, Tick, cluster
<1>2. /\ \A a : Sent(q, a)' => Sent(q, a)
      /\ SentSome(q)' => SentSome(q)
  BY <1>1 DEF SentSome, Sent
<1>3. Recent(q) => Recent(q)'
  <2>1. now \in Int /\ now' \in Int /\ now <= now'
    <3>1. now \in Int
      BY AttestationAssumption DEF TypeOK, Time
    <3>2. now' = now \/ now' = now + 1
      BY DEF IssueChallenge, LoseChallenge, Verify, Land, Drop, Tick
    <3>3. QED
      BY <3>1, <3>2
  <2>2. stamp[q] \in Int
    BY AttestationAssumption DEF TypeOK, Time
  <2>3. QED
    BY <2>1, <2>2 DEF Recent, control
<1>4. Stage(q)'
  BY <1>1, <1>2, <1>3 DEF Stage, control
<1>5. Attempted(q)'
  BY <1>2 DEF Attempted, control
<1>6. QED
  BY <1>4, <1>5

\* Until the look at what stands, `closes` may change; after it, it does not.
LEMMA ClosesStays ==
  ASSUME TypeOK, NEW q \in Req, Stage(q), SentSome(q), [Next]_vars
  PROVE  closes'[q] = closes[q]
<1>1. pc[q] # "existing"
  BY DEF Stage
<1>2. ASSUME NEW r \in Req, FindExisting(r)
      PROVE  closes'[q] = closes[q]
  BY <1>1, <1>2 DEF FindExisting, TypeOK
<1>3. ASSUME NEW r \in Req, \/ Forbid(r) \/ Consume(r) \/ ReadIdentity(r)
                            \/ FailRead(r) \/ FetchBlockhash(r) \/ Send(r)
                            \/ Confirm(r) \/ FailAttempt(r) \/ Cancel(r)
      PROVE  closes'[q] = closes[q]
  BY <1>3 DEF Forbid, Consume, ReadIdentity, FailRead, FetchBlockhash, Send, Confirm,
     FailAttempt, Retry, Cancel
<1>4. CASE \/ \E w \in Wallet : IssueChallenge(w) \/ LoseChallenge(w) \/ Verify(w)
           \/ \E r \in Req, a \in Attempts : Land(r, a) \/ Drop(r, a)
           \/ Tick \/ UNCHANGED vars
  BY <1>4 DEF IssueChallenge, LoseChallenge, Verify, Land, Drop, Tick, vars, control
<1>5. QED
  BY <1>2, <1>3, <1>4 DEF Next, Handle

\* What stands changes by landing only, and does not vanish.
LEMMA StandsStays ==
  ASSUME TypeOK, [Next]_vars
  PROVE  \A w \in Wallet :
           stands[w] # None => stands'[w] # None
<1>1. ASSUME NEW r \in Req, NEW a \in Attempts, Land(r, a)
      PROVE  \A w \in Wallet : stands[w] # None => stands'[w] # None
  BY <1>1, AttestationAssumption DEF Land, Instructions, TypeOK
<1>2. ASSUME ~\E r \in Req, a \in Attempts : Land(r, a)
      PROVE  stands' = stands
  BY <1>2 DEF Next, Handle, Forbid, Consume, ReadIdentity, FailRead, FindExisting,
     FetchBlockhash, Send, Confirm, FailAttempt, Cancel, IssueChallenge, LoseChallenge,
     Verify, Drop, Tick, vars, cluster
<1>3. QED
  BY <1>1, <1>2

LEMMA NextChain ==
  ASSUME IInv, [Next]_vars
  PROVE  Chain' /\ CreatesOnce'
<1> USE DEF IInv
<1>1. ASSUME NEW r \in Req, NEW a \in Attempts, Land(r, a)
      PROVE  Chain' /\ CreatesOnce'
  <2>1. /\ landed' = landed \cup {<<r, a>>} /\ pending' = pending \ {<<r, a>>}
        /\ stands' = [stands EXCEPT ![WalletOf[r]] = r]
        /\ closes[r] <=> stands[WalletOf[r]] # None
        /\ UNCHANGED control
    BY <1>1 DEF Land, Instructions
  <2>2. Landed(r)' /\ \A q \in Req : Landed(q) => Landed(q)'
    BY <1>1, <2>1 DEF Landed, Land
  <2>4. Chain'
    <3>1. ASSUME NEW w \in Wallet, stands'[w] \in Req
          PROVE  WalletOf[stands'[w]] = w /\ Landed(stands[w])'
      <4>1. CASE w = WalletOf[r]
        BY <2>1, <2>2, <4>1 DEF TypeOK, Landed
      <4>2. CASE w # WalletOf[r]
        <5>1. stands'[w] = stands[w]
          BY <2>1, <4>2 DEF TypeOK
        <5>2. QED
          BY <2>1, <3>1, <5>1 DEF Chain, Landed
      <4>3. QED
        BY <4>1, <4>2
    <3>2. ASSUME NEW t \in landed'
          PROVE  stands'[WalletOf[t[1]]] \in Req
      <4>1. t[1] \in Req /\ WalletOf[t[1]] \in Wallet
        BY <2>1, <3>2, AttestationAssumption DEF TypeOK
      <4>2. CASE WalletOf[t[1]] = WalletOf[r]
        BY <2>1, <4>1, <4>2 DEF TypeOK
      <4>3. CASE WalletOf[t[1]] # WalletOf[r]
        BY <2>1, <3>2, <4>1, <4>3 DEF Chain, TypeOK
      <4>4. QED
        BY <4>2, <4>3
    <3>3. QED
      BY <3>1, <3>2 DEF Chain
  <2>5. CreatesOnce'
    <3>1. closes' = closes
      BY <2>1 DEF control
    <3>2. ASSUME ~closes[r]
          PROVE  \A t \in landed : WalletOf[t[1]] # WalletOf[r]
      BY <2>1, <3>2, AttestationAssumption DEF Chain
    <3>3. QED
      BY <2>1, <3>1, <3>2 DEF CreatesOnce
  <2>6. QED
    BY <2>4, <2>5
<1>2. ASSUME ~\E r \in Req, a \in Attempts : Land(r, a)
      PROVE  Chain' /\ CreatesOnce'
  <2>1. landed' = landed /\ stands' = stands
    BY <1>2 DEF Next, Handle, Forbid, Consume, ReadIdentity, FailRead, FindExisting,
       FetchBlockhash, Send, Confirm, FailAttempt, Cancel, IssueChallenge,
       LoseChallenge, Verify, Drop, Tick, vars, cluster
  <2>2. Chain'
    BY <2>1 DEF Chain, Landed
  <2>3. CreatesOnce'
    <3>1. \A t \in landed : closes'[t[1]] = closes[t[1]]
      <4>1. ASSUME NEW t \in landed
            PROVE  closes'[t[1]] = closes[t[1]]
        <5>1. t[1] \in Req /\ t[2] \in Attempts /\ t = <<t[1], t[2]>>
          BY DEF TypeOK
        <5>2. SentSome(t[1])
          BY <5>1 DEF SentSome, Sent
        <5>3. QED
          BY <5>1, <5>2, ClosesStays
      <4>2. QED
        BY <4>1
    <3>2. QED
      BY <2>1, <3>1 DEF CreatesOnce
  <2>4. QED
    BY <2>2, <2>3
<1>3. QED
  BY <1>1, <1>2

LEMMA NextIInv ==
  ASSUME IInv, [Next]_vars
  PROVE  IInv'
<1> USE DEF IInv
<1>1. TypeOK'
  BY NextTypeOK
<1>2. Chain' /\ CreatesOnce'
  BY NextChain
<1>3. \A q \in Req : Stage(q)' /\ Attempted(q)'
  <2>1. ASSUME NEW r \in Req, Forbid(r) \/ Consume(r) \/ Handle(r) \/ Cancel(r)
        PROVE  \A q \in Req : Stage(q)' /\ Attempted(q)'
    BY <2>1, OwnStage, OwnAttempted, OtherStage
  <2>2. CASE \/ \E w \in Wallet : IssueChallenge(w) \/ LoseChallenge(w) \/ Verify(w)
             \/ \E r \in Req, a \in Attempts : Land(r, a) \/ Drop(r, a)
             \/ Tick
    <3>1. UNCHANGED control
      BY <2>2 DEF IssueChallenge, LoseChallenge, Verify, Land, Drop, Tick
    <3>2. QED
      BY <2>2, <3>1, OutsideStage
  <2>3. CASE UNCHANGED vars
    BY <2>3 DEF vars, cluster, control, Stage, Attempted, SentSome, Sent, Recent
  <2>4. QED
    BY <2>1, <2>2, <2>3 DEF Next
<1>4. QED
  BY <1>1, <1>2, <1>3

LEMMA AlwaysIInv == Spec => []IInv
BY InitIInv, NextIInv, PTL DEF Spec

\* StandingIsFresh: what stands was recent when it was stamped, however late it
\* landed.
THEOREM StandingAttestationIsFresh == Spec => []StandingIsFresh
<1>1. IInv => StandingIsFresh
  <2> SUFFICES ASSUME IInv, NEW w \in Wallet, stands[w] \in Req
               PROVE  WalletOf[stands[w]] = w /\ Recent(stands[w])
    BY DEF StandingIsFresh, Recent
  <2>1. WalletOf[stands[w]] = w /\ Landed(stands[w])
    BY DEF IInv, Chain
  <2>2. SentSome(stands[w])
    BY <2>1 DEF SentSome, Sent, Landed
  <2>3. QED
    BY <2>1, <2>2 DEF IInv, Stage
<1>2. QED
  BY <1>1, AlwaysIInv, PTL

\* CreatesOnce: of the requests that found a wallet unattested one lands, once.
THEOREM FirstAttestationLandsOnce == Spec => []CreatesOnce
<1>1. IInv => CreatesOnce
  BY DEF IInv
<1>2. QED
  BY <1>1, AlwaysIInv, PTL

\* AnswersAreTrue: a success names the attempt that landed, and the wallet stays
\* attested; a refusal before the loop leaves nothing that may land, and giving up
\* after it only what the earlier attempts of a spent count sent.
THEOREM AnswersMatchChain == Spec => []AnswersAreTrue
<1>1. IInv => AnswersAreTrue
  <2> SUFFICES ASSUME IInv, NEW r \in Req
               PROVE  /\ outcome[r] = "issued" =>
                           <<r, attempt[r]>> \in landed /\ stands[WalletOf[r]] \in Req
                      /\ outcome[r] \in {"forbidden", "unfit"} =>
                           \A a \in Attempts : ~Sent(r, a)
                      /\ outcome[r] \in {"unavailable", "failed"} =>
                           attempt[r] = MaxRetries \/ \A a \in Attempts : ~Sent(r, a)
                      /\ outcome[r] = "unavailable" => ~Sent(r, attempt[r])
    BY DEF AnswersAreTrue
  <2>1. Stage(r) /\ Attempted(r)
    BY DEF IInv
  <2>2. <<r, attempt[r]>> \in landed => stands[WalletOf[r]] \in Req
    <3>1. \A t \in landed : stands[WalletOf[t[1]]] \in Req
      BY DEF IInv, Chain
    <3>2. QED
      BY <3>1
  <2>3. QED
    BY <2>1, <2>2 DEF Stage, Attempted, SentSome
<1>2. QED
  BY <1>1, AlwaysIInv, PTL

\* NeverUnattested: no step of anybody leaves an attested wallet without.
THEOREM AttestedStaysAttested == Spec => NeverUnattested
<1>1. TypeOK /\ [Next]_vars =>
        [\A w \in Wallet : stands[w] # None => stands'[w] # None]_vars
  BY StandsStays
<1>2. QED
  BY <1>1, AttestationTypeOK, PTL DEF Spec, NeverUnattested
==============================================================================
