-------------------------- MODULE VerifyRelayProofs --------------------------
(***************************************************************************)
(* Theorems about the verify relay, for any finite set of requests, any    *)
(* keys, quotas, commitments and number of retries.                        *)
(***************************************************************************)
EXTENDS VerifyRelay, FiniteSetTheorems, TLAPS

------------------------------------------------------------------------------
(***************************************************************************)
(* Types.                                                                  *)
(***************************************************************************)

\* The operations on the two shared stores.
LEMMA StoresType ==
  ASSUME Quotas!TypeOK, Commitments!TypeOK, [Next]_vars
  PROVE  Quotas!TypeOK' /\ Commitments!TypeOK'
<1> USE RelayAssumption DEF Quotas!TypeOK, Commitments!TypeOK, Quotas!QuotaAssumption,
        Commitments!RegistryAssumption
<1>1. ASSUME NEW r \in Req, NEW c \in Commitment, NEW claimed \in BOOLEAN,
             Record(r, c, claimed)
      PROVE  Quotas!TypeOK' /\ Commitments!TypeOK'
  BY <1>1 DEF Record, Commitments!CheckAndRecord, quotaVars
<1>2. ASSUME NEW r \in Req, RegisterKey(r) \/ TakeQuota(r) \/ Refund(r)
      PROVE  Quotas!TypeOK' /\ Commitments!TypeOK'
  BY <1>2 DEF RegisterKey, TakeQuota, Refund, Quotas!AutoRegister, Quotas!Deduct,
       Quotas!RefundQuota, quotaVars, registryVars
<1>3. CASE EvictStale
  BY <1>3 DEF EvictStale, Commitments!EvictStale, quotaVars
<1>4. CASE Tick
  BY <1>4 DEF Tick, Commitments!Pass, Commitments!Stale, quotaVars
<1>5. ASSUME NEW r \in Req,
             \/ FindKey(r) \/ CheckShape(r) \/ FetchBlockhash(r) \/ Send(r)
             \/ Confirm(r) \/ FailAttempt(r) \/ Cancel(r)
             \/ \E a \in Attempts : Land(r, a) \/ Drop(r, a)
      PROVE  UNCHANGED <<registered, used, seen, idle>>
  BY <1>5 DEF FindKey, CheckShape, FetchBlockhash, Send, Confirm, FailAttempt, Cancel,
       Land, Drop, quotaVars, registryVars
<1>6. CASE UNCHANGED vars
  BY <1>6 DEF vars, quotaVars, registryVars
<1>7. QED
  BY <1>1, <1>2, <1>3, <1>4, <1>5, <1>6 DEF Next, Handle

\* Everything else a request's own step changes.
LEMMA RequestType ==
  ASSUME TypeOK, NEW r \in Req, Handle(r) \/ Cancel(r)
  PROVE  /\ pc' \in [Req -> PC] /\ outcome' \in [Req -> Outcome]
         /\ presented' \in [Req -> SUBSET Commitment] /\ first' \in [Req -> BOOLEAN]
         /\ attempt' \in [Req -> Attempts]
         /\ pending' \in SUBSET (Req \X Attempts) /\ landed' \in SUBSET (Req \X Attempts)
         /\ charged' \in SUBSET Req /\ novel' \in SUBSET Req
<1> USE DEF TypeOK, PC, Outcome, Continue, Answer, FailRefunded, cluster
<1>1. CASE FindKey(r)
  BY <1>1 DEF FindKey
<1>2. CASE RegisterKey(r)
  BY <1>2 DEF RegisterKey
<1>3. CASE TakeQuota(r)
  BY <1>3 DEF TakeQuota
<1>4. CASE CheckShape(r)
  BY <1>4 DEF CheckShape
<1>5. CASE FetchBlockhash(r)
  BY <1>5 DEF FetchBlockhash
<1>6. CASE Send(r)
  BY <1>6 DEF Send
<1>7. CASE Confirm(r)
  BY <1>7 DEF Confirm
<1>8. CASE FailAttempt(r)
  BY <1>8, RelayAssumption DEF FailAttempt, Retry, Attempts
<1>9. CASE Refund(r)
  BY <1>9 DEF Refund
<1>10. CASE Cancel(r)
  BY <1>10 DEF Cancel
<1>11. QED
  BY <1>1, <1>2, <1>3, <1>4, <1>5, <1>6, <1>7, <1>8, <1>9, <1>10 DEF Handle

LEMMA NextTypeOK == TypeOK /\ [Next]_vars => TypeOK'
<1> SUFFICES ASSUME TypeOK, [Next]_vars
             PROVE  TypeOK'
  OBVIOUS
<1>1. Quotas!TypeOK' /\ Commitments!TypeOK'
  BY StoresType DEF TypeOK
<1>2. ASSUME NEW r \in Req, Handle(r) \/ Cancel(r)
      PROVE  TypeOK'
  BY <1>1, <1>2, RequestType DEF TypeOK
<1>3. ASSUME NEW r \in Req, NEW c \in Commitment, NEW claimed \in BOOLEAN,
             Record(r, c, claimed)
      PROVE  TypeOK'
  BY <1>1, <1>3 DEF TypeOK, Record, PC, cluster
<1>4. CASE EvictStale \/ Tick \/ UNCHANGED vars
  BY <1>1, <1>4 DEF TypeOK, EvictStale, Tick, vars, control, cluster
<1>5. ASSUME NEW r \in Req, NEW a \in Attempts, Land(r, a) \/ Drop(r, a)
      PROVE  TypeOK'
  BY <1>1, <1>5 DEF TypeOK, Land, Drop, control
<1>6. QED
  BY <1>2, <1>3, <1>4, <1>5 DEF Next

LEMMA InitTypeOK == Init => TypeOK
BY RelayAssumption DEF Init, TypeOK, Quotas!Init, Quotas!TypeOK, Quotas!QuotaAssumption,
   Commitments!Init, Commitments!TypeOK, Commitments!RegistryAssumption, PC, Outcome, Attempts

\* TypeOK: no attempt past MAX_RETRIES is ever made, no count goes below zero.
THEOREM RelayTypeOK == Spec => []TypeOK
BY InitTypeOK, NextTypeOK, PTL DEF Spec

------------------------------------------------------------------------------
(***************************************************************************)
(* Charges follow answers.  ChargesMatchAnswer speaks of answered requests *)
(* only; Stage says what holds before, and which errors await a refund.    *)
(***************************************************************************)
Stage(r) ==
  /\ pc[r] \in {"idle", "key", "register", "quota"} => r \notin charged
  /\ pc[r] \in {"shape", "blockhash", "send", "confirm", "refund"} => r \in charged
  /\ pc[r] = "refund" => outcome[r] \in {"rejected", "failed"}
  /\ pc[r] = "register" => Quotas!AllowUnknown
  /\ r \in charged => KeyOf[r] \in registered
  /\ outcome[r] # "none" => pc[r] \in {"refund", "done"}
  /\ pc[r] = "done" =>
       (r \in charged <=> outcome[r] \in {"registered", "verified", "cancelled"})

ChargesInv == TypeOK /\ \A r \in Req : Stage(r)

LEMMA RequestStage ==
  ASSUME ChargesInv, NEW r \in Req, Handle(r) \/ Cancel(r)
  PROVE  Stage(r)'
<1> USE DEF ChargesInv, TypeOK, Stage, Continue, Answer, FailRefunded, quotaVars
<1>1. CASE FindKey(r)
  BY <1>1 DEF FindKey, Quotas!AllowUnknown
<1>2. CASE RegisterKey(r)
  BY <1>2 DEF RegisterKey, Quotas!AutoRegister
<1>3. CASE TakeQuota(r)
  BY <1>3 DEF TakeQuota, Quotas!Deduct, Quotas!HasQuota
<1>4. CASE CheckShape(r)
  BY <1>4 DEF CheckShape
<1>5. CASE FetchBlockhash(r)
  BY <1>5 DEF FetchBlockhash
<1>6. CASE Send(r)
  BY <1>6 DEF Send
<1>7. CASE Confirm(r)
  BY <1>7 DEF Confirm
<1>8. CASE FailAttempt(r)
  BY <1>8 DEF FailAttempt, Retry
<1>9. CASE Refund(r)
  BY <1>9 DEF Refund, Quotas!RefundQuota
<1>10. CASE Cancel(r)
  BY <1>10 DEF Cancel
<1>11. QED
  BY <1>1, <1>2, <1>3, <1>4, <1>5, <1>6, <1>7, <1>8, <1>9, <1>10 DEF Handle

\* A step of another actor leaves a request where it is and its charge alone,
\* and unregisters no key.
LEMMA OtherStage ==
  ASSUME ChargesInv, NEW r \in Req, pc'[r] = pc[r], outcome'[r] = outcome[r],
         r \in charged' <=> r \in charged, registered \subseteq registered'
  PROVE  Stage(r)'
BY DEF ChargesInv, Stage, Quotas!AllowUnknown

LEMMA NextStage ==
  ASSUME ChargesInv, [Next]_vars, NEW r \in Req
  PROVE  Stage(r)'
<1> USE DEF ChargesInv, TypeOK
<1>1. ASSUME NEW q \in Req, Handle(q) \/ Cancel(q), q # r
      PROVE  /\ pc'[r] = pc[r] /\ outcome'[r] = outcome[r]
             /\ r \in charged' <=> r \in charged
             /\ registered \subseteq registered'
  BY <1>1 DEF Handle, FindKey, RegisterKey, TakeQuota, CheckShape, FetchBlockhash, Send,
       Confirm, FailAttempt, Retry, Refund, Cancel, Continue, Answer, FailRefunded,
       quotaVars, Quotas!AutoRegister, Quotas!Deduct, Quotas!RefundQuota
<1>2. ASSUME NEW q \in Req, NEW c \in Commitment, NEW claimed \in BOOLEAN,
             Record(q, c, claimed)
      PROVE  Stage(r)'
  BY <1>2 DEF Record, Stage, quotaVars, Quotas!AllowUnknown
<1>3. CASE \/ EvictStale \/ Tick \/ UNCHANGED vars
           \/ \E q \in Req, a \in Attempts : Land(q, a) \/ Drop(q, a)
  <2>1. UNCHANGED <<pc, outcome, charged, registered>>
    BY <1>3 DEF EvictStale, Tick, Land, Drop, vars, control, quotaVars
  <2>2. QED
    BY <2>1, OtherStage
<1>4. ASSUME NEW q \in Req, Handle(q) \/ Cancel(q)
      PROVE  Stage(r)'
  BY <1>1, <1>4, RequestStage, OtherStage
<1>5. QED
  BY <1>2, <1>3, <1>4 DEF Next

LEMMA ChargesInvariant == Spec => []ChargesInv
<1>1. Init => ChargesInv
  BY InitTypeOK DEF Init, ChargesInv, Stage
<1>2. ChargesInv /\ [Next]_vars => ChargesInv'
  BY NextTypeOK, NextStage DEF ChargesInv
<1>3. QED
  BY <1>1, <1>2, PTL DEF Spec

\* ChargesMatchAnswer: success costs one verification, an error none, and a
\* client that leaves while its transaction is under way pays.
THEOREM ChargesFollowAnswers == Spec => []ChargesMatchAnswer
<1>1. ChargesInv => ChargesMatchAnswer
  BY DEF ChargesInv, Stage, ChargesMatchAnswer
<1>2. QED
  BY <1>1, ChargesInvariant, PTL

------------------------------------------------------------------------------
(***************************************************************************)
(* The key's quota counts the charged requests.                            *)
(***************************************************************************)
QuotaInv == ChargesInv /\ QuotaConserved

LEMMA ChargedFinite ==
  ASSUME TypeOK, NEW k
  PROVE  IsFiniteSet(ChargedTo(k)) /\ Cardinality(ChargedTo(k)) \in Nat
<1>1. ChargedTo(k) \subseteq Req
  BY DEF ChargedTo, TypeOK
<1>2. QED
  BY <1>1, RelayAssumption, FS_Subset, FS_CardinalityType

LEMMA QuotaSteps ==
  ASSUME [Next]_vars
  PROVE  \/ \E r \in Req : RegisterKey(r) \/ TakeQuota(r) \/ Refund(r)
         \/ UNCHANGED <<used, charged>>
BY DEF Next, Handle, Record, FindKey, CheckShape, FetchBlockhash, Send, Confirm,
   FailAttempt, Cancel, EvictStale, Tick, Land, Drop, vars, quotaVars

LEMMA DeductionConserves ==
  ASSUME QuotaInv, NEW r \in Req, TakeQuota(r)
  PROVE  QuotaConserved'
<1> USE DEF QuotaInv, ChargesInv, TypeOK, Quotas!TypeOK, QuotaConserved
<1>1. CASE UNCHANGED <<quotaVars, charged>>
  BY <1>1 DEF quotaVars, ChargedTo
<1>2. CASE Quotas!Deduct(KeyOf[r]) /\ charged' = charged \cup {r}
  <2>1. r \notin charged
    BY DEF TakeQuota, Stage
  <2>2. SUFFICES ASSUME NEW k \in Key
                 PROVE  /\ used'[k] <= Cardinality(ChargedTo(k)')
                        /\ ~Quotas!AllowUnknown => used'[k] = Cardinality(ChargedTo(k)')
    BY DEF Quotas!AllowUnknown
  <2>3. used[k] \in Nat
    OBVIOUS
  <2>4. CASE KeyOf[r] = k
    <3>1. ChargedTo(k)' = ChargedTo(k) \cup {r} /\ r \notin ChargedTo(k)
      BY <1>2, <2>1, <2>4 DEF ChargedTo
    <3>2. Cardinality(ChargedTo(k)') = Cardinality(ChargedTo(k)) + 1
      <4>1. IsFiniteSet(ChargedTo(k))
        BY ChargedFinite
      <4> HIDE DEF QuotaInv
      <4>2. QED
        BY <3>1, <4>1, FS_AddElement
    <3>3. used'[k] = used[k] + 1
      BY <1>2, <2>4 DEF Quotas!Deduct
    <3>4. QED
      BY <2>3, <3>2, <3>3, ChargedFinite
  <2>5. CASE KeyOf[r] # k
    <3>1. ChargedTo(k)' = ChargedTo(k) /\ used'[k] = used[k]
      BY <1>2, <2>5 DEF ChargedTo, Quotas!Deduct
    <3>2. QED
      BY <3>1
  <2>6. QED
    BY <2>4, <2>5
<1>3. QED
  BY <1>1, <1>2 DEF TakeQuota

LEMMA RefundConserves ==
  ASSUME QuotaInv, NEW r \in Req, Refund(r)
  PROVE  QuotaConserved'
<1> USE DEF QuotaInv, ChargesInv, TypeOK, Quotas!TypeOK, QuotaConserved
<1>1. r \in charged /\ KeyOf[r] \in registered
  BY DEF Refund, Stage
<1>2. charged' = charged \ {r} /\ Quotas!RefundQuota(KeyOf[r])
  BY DEF Refund
<1>3. SUFFICES ASSUME NEW k \in Key
               PROVE  /\ used'[k] <= Cardinality(ChargedTo(k)')
                      /\ ~Quotas!AllowUnknown => used'[k] = Cardinality(ChargedTo(k)')
  BY DEF Quotas!AllowUnknown
<1>4. used[k] \in Nat
  OBVIOUS
<1>5. CASE KeyOf[r] = k
  <2>1. ChargedTo(k)' = ChargedTo(k) \ {r} /\ r \in ChargedTo(k)
    BY <1>1, <1>2, <1>5 DEF ChargedTo
  <2>2. Cardinality(ChargedTo(k)') = Cardinality(ChargedTo(k)) - 1
    <3>1. IsFiniteSet(ChargedTo(k))
      BY ChargedFinite
    <3> HIDE DEF QuotaInv
    <3>2. QED
      BY <2>1, <3>1, FS_RemoveElement
  <2>3. Cardinality(ChargedTo(k)) # 0
    BY <2>1, ChargedFinite, FS_EmptySet
  <2>4. used'[k] = IF used[k] > 0 THEN used[k] - 1 ELSE used[k]
    BY <1>1, <1>2, <1>5 DEF Quotas!RefundQuota
  <2>5. QED
    BY <1>4, <2>2, <2>3, <2>4, ChargedFinite
<1>6. CASE KeyOf[r] # k
  <2>1. ChargedTo(k)' = ChargedTo(k) /\ used'[k] = used[k]
    BY <1>2, <1>6 DEF ChargedTo, Quotas!RefundQuota
  <2>2. QED
    BY <2>1
<1>7. QED
  BY <1>5, <1>6

LEMMA RegistrationConserves ==
  ASSUME QuotaInv, NEW r \in Req, RegisterKey(r)
  PROVE  QuotaConserved'
<1> USE DEF QuotaInv, ChargesInv, TypeOK, Quotas!TypeOK
<1>1. Quotas!AllowUnknown
  BY DEF RegisterKey, Stage
<1>2. \A k : ChargedTo(k)' = ChargedTo(k)
  BY DEF RegisterKey, ChargedTo
<1>3. \A k \in Key : used'[k] = IF k = KeyOf[r] THEN 0 ELSE used[k]
  BY DEF RegisterKey, Quotas!AutoRegister
<1>4. QED
  BY <1>1, <1>2, <1>3, ChargedFinite DEF QuotaConserved, Quotas!AllowUnknown

\* QuotaConserved: no key pays for more than the verifications it was charged
\* for, and a configured one pays for each of them.
THEOREM RelayQuotaIsConserved == Spec => []QuotaConserved
<1>1. Init => QuotaConserved
  <2> SUFFICES ASSUME Init
               PROVE  QuotaConserved
    OBVIOUS
  <2>1. \A k \in Key : used[k] = 0 /\ ChargedTo(k) = {}
    BY DEF Init, Quotas!Init, ChargedTo
  <2>2. QED
    BY <2>1, FS_EmptySet DEF QuotaConserved
<1>2. QuotaInv /\ [Next]_vars => QuotaConserved'
  <2> SUFFICES ASSUME QuotaInv, [Next]_vars
               PROVE  QuotaConserved'
    OBVIOUS
  <2>1. CASE UNCHANGED <<used, charged>>
    BY <2>1 DEF QuotaInv, QuotaConserved, ChargedTo, Quotas!AllowUnknown
  <2>2. QED
    BY <2>1, QuotaSteps, DeductionConserves, RefundConserves, RegistrationConserves
<1>3. QED
  BY <1>1, <1>2, ChargesInvariant, PTL DEF Spec, QuotaInv

------------------------------------------------------------------------------
(***************************************************************************)
(* A submission lands once: its nonce is taken by the attempt that did.    *)
(***************************************************************************)
LandInv == ChargesInv /\ LandsOnce

\* A request that has an answer takes no further step but the refund.
LEMMA AnswerStays ==
  ASSUME ChargesInv, [Next]_vars, NEW r \in Req, outcome'[r] = "verified"
  PROVE  \/ outcome[r] = "verified" /\ attempt'[r] = attempt[r]
         \/ Confirm(r)
<1> USE DEF ChargesInv, TypeOK, Stage
<1>1. ASSUME NEW q \in Req, Handle(q) \/ Cancel(q), ~Confirm(q) \/ q # r
      PROVE  outcome[r] = "verified" /\ attempt'[r] = attempt[r]
  BY <1>1 DEF Handle, FindKey, RegisterKey, TakeQuota, CheckShape, FetchBlockhash, Send,
       Confirm, FailAttempt, Retry, Refund, Cancel, Continue, Answer, FailRefunded
<1>2. CASE \E q \in Req, c \in Commitment, claimed \in BOOLEAN : Record(q, c, claimed)
  BY <1>2 DEF Record
<1>3. CASE \/ EvictStale \/ Tick \/ UNCHANGED vars
           \/ \E q \in Req, a \in Attempts : Land(q, a) \/ Drop(q, a)
  BY <1>3 DEF EvictStale, Tick, Land, Drop, vars, control
<1>4. QED
  BY <1>1, <1>2, <1>3 DEF Next

LEMMA LandSteps ==
  ASSUME [Next]_vars
  PROVE  UNCHANGED landed \/ \E r \in Req, a \in Attempts : Land(r, a)
BY DEF Next, Handle, Record, FindKey, RegisterKey, TakeQuota, CheckShape, FetchBlockhash,
   Send, Confirm, FailAttempt, Refund, Cancel, EvictStale, Tick, Drop, vars, cluster

\* LandsOnce: of the attempts of one submission at most one lands, and an
\* answer of success names it, for any number of retries.
THEOREM SubmissionsLandOnce == Spec => []LandsOnce
<1>1. Init => LandsOnce
  BY DEF Init, LandsOnce
<1>2. LandInv /\ [Next]_vars => LandsOnce'
  <2> SUFFICES ASSUME LandInv, [Next]_vars
               PROVE  LandsOnce'
    OBVIOUS
  <2> USE DEF LandInv, LandsOnce
  <2>1. landed \subseteq landed'
    BY LandSteps DEF Land
  <2>2. ASSUME NEW r \in Req, outcome'[r] = "verified"
        PROVE  <<r, attempt'[r]>> \in landed'
    BY <2>1, <2>2, AnswerStays DEF Confirm, Answer
  <2>3. ASSUME NEW t \in landed', NEW u \in landed', t[1] = u[1]
        PROVE  t = u
    <3>1. CASE UNCHANGED landed
      BY <2>3, <3>1
    <3>2. ASSUME NEW r \in Req, NEW a \in Attempts, Land(r, a)
          PROVE  t = u
      <4>1. \A v \in landed : v[1] # r
        BY <3>2 DEF Land, Taken, NonceOf
      <4>2. landed' = landed \cup {<<r, a>>}
        BY <3>2 DEF Land
      <4>3. QED
        BY <2>3, <4>1, <4>2
    <3>3. QED
      BY <3>1, <3>2, LandSteps
  <2>4. QED
    BY <2>2, <2>3
<1>3. QED
  BY <1>1, <1>2, ChargesInvariant, PTL DEF Spec, LandInv

------------------------------------------------------------------------------
(***************************************************************************)
(* A commitment is new to one request.                                     *)
(***************************************************************************)
NovelInv ==
  /\ TypeOK /\ NovelOnce
  /\ \A r \in novel : pc[r] # "idle" /\ presented[r] # {}

LEMMA NovelSteps ==
  ASSUME [Next]_vars
  PROVE  \/ \E r \in Req, c \in Commitment, claimed \in BOOLEAN : Record(r, c, claimed)
         \/ EvictStale
         \/ UNCHANGED <<seen, novel, presented>>
BY DEF Next, Handle, FindKey, RegisterKey, TakeQuota, CheckShape, FetchBlockhash, Send,
   Confirm, FailAttempt, Retry, Refund, Cancel, Tick, Land, Drop, Continue, Answer,
   FailRefunded, vars, control, registryVars, Commitments!Pass

LEMMA LeavesIdle ==
  ASSUME TypeOK, [Next]_vars, NEW r \in Req, pc[r] # "idle"
  PROVE  pc'[r] # "idle"
BY DEF TypeOK, Next, Handle, Record, FindKey, RegisterKey, TakeQuota, CheckShape,
   FetchBlockhash, Send, Confirm, FailAttempt, Retry, Refund, Cancel, EvictStale, Tick,
   Land, Drop, Continue, Answer, FailRefunded, vars, control

\* A commitment is recorded: if it is new, whoever was told the same of it
\* before was forgotten with it.
LEMMA RecordNovel ==
  ASSUME NovelInv, NEW q \in Req, NEW c \in Commitment, NEW claimed \in BOOLEAN,
         Record(q, c, claimed)
  PROVE  NovelInv'
<1> USE DEF NovelInv, NovelOnce, TypeOK, Commitments!TypeOK
<1>1. TypeOK'
  BY NextTypeOK DEF Next
<1>2. q \notin novel /\ novel \subseteq Req
  BY DEF Record
<1>3. /\ presented' = [presented EXCEPT ![q] = {c}]
      /\ pc' = [pc EXCEPT ![q] = "key"]
      /\ Commitments!CheckAndRecord(KeyOf[q], c)
  BY DEF Record
<1>4. CASE c \in seen[KeyOf[q]]
  <2>1. novel' = novel /\ seen' = seen
    BY <1>4 DEF Record, Commitments!CheckAndRecord
  <2>2. QED
    BY <1>1, <1>2, <1>3, <2>1
<1>5. CASE c \notin seen[KeyOf[q]] /\ Commitments!Full(KeyOf[q])
  <2>1. novel' = {r \in novel : KeyOf[r] # KeyOf[q]} \cup {q}
    BY <1>5 DEF Record
  <2>2. seen' = [seen EXCEPT ![KeyOf[q]] = {c}]
    BY <1>3, <1>5 DEF Commitments!CheckAndRecord
  <2>3. seen'[KeyOf[q]] = {c} /\ presented'[q] = {c} /\ pc'[q] # "idle"
    BY <1>3, <2>2, RelayAssumption
  <2>4. ASSUME NEW r \in novel', r # q
        PROVE  /\ r \in novel /\ KeyOf[r] # KeyOf[q]
               /\ seen'[KeyOf[r]] = seen[KeyOf[r]]
               /\ presented'[r] = presented[r] /\ pc'[r] = pc[r]
    BY <1>2, <1>3, <2>1, <2>2, <2>4
  <2>5. ASSUME NEW r \in novel'
        PROVE  /\ presented'[r] \subseteq seen'[KeyOf[r]]
               /\ pc'[r] # "idle" /\ presented'[r] # {}
    BY <2>3, <2>4
  <2>6. ASSUME NEW r \in novel', NEW p \in novel',
               KeyOf[r] = KeyOf[p], presented'[r] = presented'[p]
        PROVE  r = p
    BY <2>4, <2>6
  <2>7. QED
    BY <1>1, <2>5, <2>6
<1>6. CASE c \notin seen[KeyOf[q]] /\ ~Commitments!Full(KeyOf[q])
  <2>1. novel' = novel \cup {q}
    BY <1>6 DEF Record
  <2>2. seen' = [seen EXCEPT ![KeyOf[q]] = @ \cup {c}]
    BY <1>3, <1>6 DEF Commitments!CheckAndRecord
  <2>3. KeyOf[q] \in Key /\ \A r \in Req : KeyOf[r] \in Key
    BY RelayAssumption
  <2>4. \A r \in novel : KeyOf[r] = KeyOf[q] => presented[r] # {c}
    BY <1>6
  <2>5. QED
    BY <1>1, <1>2, <1>3, <2>1, <2>2, <2>3, <2>4, ZenonT(60)
<1>7. QED
  BY <1>4, <1>5, <1>6

\* NovelOnce: as long as a commitment is remembered, one request at most was
\* told that it is new, whatever the capacity and however requests race.
THEOREM CommitmentsAreNovelOnce == Spec => []NovelOnce
<1>1. Init => NovelInv
  BY InitTypeOK DEF Init, NovelInv, NovelOnce
<1>2. NovelInv /\ [Next]_vars => NovelInv'
  <2> SUFFICES ASSUME NovelInv, [Next]_vars
               PROVE  NovelInv'
    OBVIOUS
  <2>1. TypeOK' /\ novel \subseteq Req
    BY NextTypeOK DEF NovelInv, TypeOK
  <2>2. CASE EvictStale
    <3>1. /\ novel' = {r \in novel : ~Commitments!Stale(KeyOf[r])}
          /\ UNCHANGED <<pc, presented>>
          /\ \A k \in Key : ~Commitments!Stale(k) => seen'[k] = seen[k]
      BY <2>2 DEF EvictStale, Commitments!EvictStale, control
    <3>2. \A r \in Req : KeyOf[r] \in Key
      BY RelayAssumption
    <3>3. QED
      BY <2>1, <3>1, <3>2 DEF NovelInv, NovelOnce
  <2>3. CASE UNCHANGED <<seen, novel, presented>>
    <3>1. \A r \in novel : pc'[r] # "idle"
      BY <2>1, LeavesIdle DEF NovelInv
    <3>2. QED
      BY <2>1, <2>3, <3>1 DEF NovelInv, NovelOnce
  <2>4. QED
    BY <2>2, <2>3, NovelSteps, RecordNovel
<1>3. QED
  BY <1>1, <1>2, PTL DEF Spec, NovelInv
==============================================================================
