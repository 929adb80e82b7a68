----------------------------- MODULE VerifyRelay -----------------------------
(***************************************************************************)
(* POST /verify (relayer/handler.rs), with RelayerTransaction and the      *)
(* submission loop of SolanaClient below it, run by any number of tasks    *)
(* over the commitment registry and the quota tracker.                     *)
(*                                                                         *)
(* A first verification records its commitment and is charged; any other   *)
(* sends a transaction, several times over when it hears of no success.    *)
(* Unlike a capture it has no budget guard: what is not refunded by hand   *)
(* stays charged.                                                          *)
(*                                                                         *)
(* The cluster is external.  A transaction sent is pending until it lands  *)
(* or is dropped (it reverts, or its blockhash expires), and the client    *)
(* may hear of neither.  It creates the challenge account of its nonce, so *)
(* of the transactions with one nonce the cluster lands at most one.       *)
(***************************************************************************)
EXTENDS Naturals, FiniteSets

CONSTANTS
  Req, KeyOf,                            \* requests and their API keys
  Key, Configured, Quota,                \* as in IntegratorTracker
  Commitment, MaxCommitments, EntryTtl,  \* as in CommitmentRegistry
  MaxRetries                             \* MAX_RETRIES

VARIABLES
  registered, used,   \* IntegratorTracker
  seen, idle,         \* CommitmentRegistry
  pc, outcome,        \* where each request is, and what it answers
  presented, first,   \* the commitment, once presented, and is_first
  attempt,            \* which attempt of the submission loop
  pending, landed,    \* the cluster: transactions, as <<request, attempt>>
  charged,            \* history: the deduction is not refunded
  novel               \* history: requests whose commitment was new, until the
                      \* registry forgets it

Quotas == INSTANCE IntegratorTracker
Commitments == INSTANCE CommitmentRegistry

ASSUME RelayAssumption ==
  /\ IsFiniteSet(Req)
  /\ KeyOf \in [Req -> Key]
  /\ Quotas!QuotaAssumption
  /\ Commitments!RegistryAssumption
  /\ MaxRetries \in Nat \ {0}

quotaVars == <<registered, used>>
registryVars == <<seen, idle>>
control == <<pc, outcome, presented, first, attempt>>
cluster == <<pending, landed>>
vars == <<quotaVars, registryVars, control, cluster, charged, novel>>

PC == {"idle", "key", "register", "quota", "shape", "blockhash", "send",
       "confirm", "refund", "done"}

\* failed: either error of send_verification_tx, SolanaRpcUnavailable when the last
\* attempt got no blockhash and TransactionSubmissionFailed when it was not sent or
\* not confirmed; after both, earlier attempts may be in flight.
Outcome == {"none", "noQuota", "registered", "rejected", "failed",
            "verified", "cancelled"}
Attempts == 1 .. MaxRetries

TypeOK ==
  /\ Quotas!TypeOK
  /\ Commitments!TypeOK
  /\ pc \in [Req -> PC]
  /\ outcome \in [Req -> Outcome]
  /\ presented \in [Req -> SUBSET Commitment]
  /\ first \in [Req -> BOOLEAN]
  /\ attempt \in [Req -> Attempts]
  /\ pending \in SUBSET (Req \X Attempts)
  /\ landed \in SUBSET (Req \X Attempts)
  /\ charged \in SUBSET Req
  /\ novel \in SUBSET Req

Init ==
  /\ Quotas!Init
  /\ Commitments!Init
  /\ pc = [r \in Req |-> "idle"]
  /\ outcome = [r \in Req |-> "none"]
  /\ presented = [r \in Req |-> {}]
  /\ first = [r \in Req |-> FALSE]
  /\ attempt = [r \in Req |-> 1]
  /\ pending = {}
  /\ landed = {}
  /\ charged = {}
  /\ novel = {}

------------------------------------------------------------------------------
(***************************************************************************)
(* The handler.                                                            *)
(***************************************************************************)
Continue(r, to) ==
  /\ pc' = [pc EXCEPT ![r] = to]
  /\ UNCHANGED <<outcome, presented, first, attempt>>

Answer(r, o) ==
  /\ pc' = [pc EXCEPT ![r] = "done"]
  /\ outcome' = [outcome EXCEPT ![r] = o]
  /\ UNCHANGED <<presented, first, attempt>>

\* The handler has its error, but refunds the quota before it returns.
FailRefunded(r, o) ==
  /\ pc' = [pc EXCEPT ![r] = "refund"]
  /\ outcome' = [outcome EXCEPT ![r] = o]
  /\ UNCHANGED <<presented, first, attempt>>

\* A well-formed request records its commitment before anything is charged; a
\* commitment seen before is no first verification, whatever the client claims.
Record(r, c, claimed) ==
  LET k == KeyOf[r]
      known == c \in seen[k]
      kept == IF Commitments!Full(k) THEN {q \in novel : KeyOf[q] # k} ELSE novel
  IN /\ pc[r] = "idle"
     /\ Commitments!CheckAndRecord(k, c)
     /\ novel' = IF known THEN novel ELSE kept \cup {r}
     /\ presented' = [presented EXCEPT ![r] = {c}]
     /\ first' = [first EXCEPT ![r] = claimed /\ ~known]
     /\ pc' = [pc EXCEPT ![r] = "key"]
     /\ UNCHANGED <<quotaVars, outcome, attempt, cluster, charged>>

\* check_and_deduct, in its three accesses.
FindKey(r) ==
  /\ pc[r] = "key"
  /\ CASE KeyOf[r] \in registered -> Continue(r, "quota")
       [] KeyOf[r] \notin registered /\ Quotas!AllowUnknown ->
            Continue(r, "register")
       [] OTHER -> Answer(r, "noQuota")
  /\ UNCHANGED <<quotaVars, registryVars, cluster, charged, novel>>

RegisterKey(r) ==
  /\ pc[r] = "register"
  /\ Quotas!AutoRegister(KeyOf[r])
  /\ Continue(r, "quota")
  /\ UNCHANGED <<registryVars, cluster, charged, novel>>

\* A first verification is answered as soon as it is charged.
TakeQuota(r) ==
  /\ pc[r] = "quota"
  /\ \/ /\ Quotas!Deduct(KeyOf[r])
        /\ charged' = charged \cup {r}
        /\ IF first[r] THEN Answer(r, "registered") ELSE Continue(r, "shape")
     \/ /\ ~Quotas!HasQuota(KeyOf[r])
        /\ Answer(r, "noQuota")
        /\ UNCHANGED <<quotaVars, charged>>
  /\ UNCHANGED <<registryVars, cluster, novel>>

\* Mutant of CheckShape: the early return forgets the refund.
CheckShapeUnrefunded(r) ==
  /\ pc[r] = "shape"
  /\ Continue(r, "blockhash") \/ Answer(r, "rejected")
  /\ UNCHANGED <<quotaVars, registryVars, cluster, charged, novel>>

\* validate_proof_shape.
CheckShape(r) ==
  /\ pc[r] = "shape"
  /\ Continue(r, "blockhash") \/ FailRefunded(r, "rejected")
  /\ UNCHANGED <<quotaVars, registryVars, cluster, charged, novel>>

\* send_verification_tx: each attempt fetches a blockhash, and sends.
FetchBlockhash(r) ==
  /\ pc[r] = "blockhash"
  /\ Continue(r, "send")
  /\ UNCHANGED <<quotaVars, registryVars, cluster, charged, novel>>

Send(r) ==
  /\ pc[r] = "send"
  /\ pending' = pending \cup {<<r, attempt[r]>>}
  /\ Continue(r, "confirm")
  /\ UNCHANGED <<quotaVars, registryVars, landed, charged, novel>>

\* send_and_confirm_transaction follows the signature of this attempt alone.
Confirm(r) ==
  /\ pc[r] = "confirm" /\ <<r, attempt[r]>> \in landed
  /\ Answer(r, "verified")
  /\ UNCHANGED <<quotaVars, registryVars, cluster, charged, novel>>

\* Mutant of Retry: tries again whatever the count.
RetryForEver(r) ==
  /\ pc' = [pc EXCEPT ![r] = "blockhash"]
  /\ attempt' = [attempt EXCEPT ![r] = IF @ < MaxRetries THEN @ + 1 ELSE 1]
  /\ UNCHANGED <<outcome, presented, first>>

\* After a back-off, the next attempt, or the error of the last one.
Retry(r) ==
  IF attempt[r] < MaxRetries
  THEN /\ pc' = [pc EXCEPT ![r] = "blockhash"]
       /\ attempt' = [attempt EXCEPT ![r] = @ + 1]
       /\ UNCHANGED <<outcome, presented, first>>
  ELSE FailRefunded(r, "failed")

\* No blockhash, no acceptance by the RPC node, or no word of the transaction:
\* each error counts as a failure of the attempt, landed or not.
FailAttempt(r) ==
  /\ pc[r] \in {"blockhash", "send", "confirm"}
  /\ Retry(r)
  /\ UNCHANGED <<quotaVars, registryVars, cluster, charged, novel>>

Refund(r) ==
  /\ pc[r] = "refund"
  /\ Quotas!RefundQuota(KeyOf[r])
  /\ charged' = charged \ {r}
  /\ Continue(r, "done")
  /\ UNCHANGED <<registryVars, cluster, novel>>

\* The client goes away and the future is dropped at an await.
Cancel(r) ==
  /\ pc[r] \in {"blockhash", "send", "confirm"}
  /\ Answer(r, "cancelled")
  /\ UNCHANGED <<quotaVars, registryVars, cluster, charged, novel>>

------------------------------------------------------------------------------
(***************************************************************************)
(* The sweep of the registry, the clock and the cluster.                   *)
(***************************************************************************)
EvictStale ==
  /\ Commitments!EvictStale
  /\ novel' = {r \in novel : ~Commitments!Stale(KeyOf[r])}
  /\ UNCHANGED <<quotaVars, control, cluster, charged>>

Tick ==
  /\ Commitments!Pass
  /\ UNCHANGED <<quotaVars, control, cluster, charged, novel>>

\* Mutant of NonceOf: each attempt builds its instructions anew.
NonceOfAttempt(r, a) == <<r, a>>

\* submit_verification draws the nonce before the loop, and every attempt
\* resends the instructions built with it.
NonceOf(r, a) == r

\* An account exists already for the nonce of <<r, a>>.
Taken(r, a) == \E t \in landed : NonceOf(t[1], t[2]) = NonceOf(r, a)

Land(r, a) ==
  /\ <<r, a>> \in pending /\ ~Taken(r, a)
  /\ landed' = landed \cup {<<r, a>>}
  /\ pending' = pending \ {<<r, a>>}
  /\ UNCHANGED <<quotaVars, registryVars, control, charged, novel>>

Drop(r, a) ==
  /\ <<r, a>> \in pending
  /\ pending' = pending \ {<<r, a>>}
  /\ UNCHANGED <<quotaVars, registryVars, control, landed, charged, novel>>

Handle(r) ==
  \/ FindKey(r) \/ RegisterKey(r) \/ TakeQuota(r) \/ CheckShape(r)
  \/ FetchBlockhash(r) \/ Send(r) \/ Confirm(r) \/ FailAttempt(r) \/ Refund(r)

Next ==
  \/ \E r \in Req, c \in Commitment, claimed \in BOOLEAN : Record(r, c, claimed)
  \/ \E r \in Req : Handle(r) \/ Cancel(r)
  \/ EvictStale
  \/ Tick
  \/ \E r \in Req, a \in Attempts : Land(r, a) \/ Drop(r, a)

Spec == Init /\ [][Next]_vars

\* The RPC client bounds every call, the runtime polls every ready task, and
\* the sweep and the clock go on.  The cluster owes nothing.
Fairness ==
  /\ \A r \in Req : WF_vars(Handle(r))
  /\ WF_vars(EvictStale) /\ WF_vars(Tick)
FairSpec == Spec /\ Fairness

------------------------------------------------------------------------------
(***************************************************************************)
(* Properties.                                                             *)
(***************************************************************************)

\* What a request is charged follows its answer: an answer of success costs
\* one verification, an error none, and a client that goes away while its
\* transaction is under way pays, since it may land.
ChargesMatchAnswer ==
  \A r \in Req : pc[r] = "done" =>
    (r \in charged <=> outcome[r] \in {"registered", "verified", "cancelled"})

\* No key pays for more than its charged requests, and each pays for exactly
\* those when integrators are configured.
ChargedTo(k) == {r \in charged : KeyOf[r] = k}
QuotaConserved ==
  \A k \in Key :
    /\ used[k] <= Cardinality(ChargedTo(k))
    /\ ~Quotas!AllowUnknown => used[k] = Cardinality(ChargedTo(k))

\* One submission lands at most once, however many of its attempts were sent
\* and still pend when the next is tried; and an answer of success names the
\* attempt that landed.
LandsOnce ==
  /\ \A t, u \in landed : t[1] = u[1] => t = u
  /\ \A r \in Req : outcome[r] = "verified" => <<r, attempt[r]>> \in landed

\* While the registry remembers a commitment, one request at most has been told
\* that it is new, however many present it at once, so at most one of them
\* is registered without a proof.
NovelOnce ==
  \A r, q \in novel :
    /\ presented[r] \subseteq seen[KeyOf[r]]
    /\ KeyOf[r] = KeyOf[q] /\ presented[r] = presented[q] => r = q

\* Every request is answered, whatever the cluster does.
VerifiesAnswered == \A r \in Req : pc[r] # "idle" ~> pc[r] = "done"

\* The commitments of a key that stays away leave memory.
IdleKeysEvicted ==
  \A k \in Key : seen[k] # {} ~> seen[k] = {} \/ idle[k] = 0
==============================================================================
