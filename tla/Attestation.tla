----------------------------- MODULE Attestation -----------------------------
(***************************************************************************)
(* POST /attest (attestation/handler.rs), with SasAttestor and the         *)
(* submission loop of SolanaClient below it, run by any number of tasks.   *)
(*                                                                         *)
(* A request spends the challenge of its wallet, reads the wallet's        *)
(* identity from the chain, stamps the reading, looks whether an           *)
(* attestation stands already, and submits one transaction that creates    *)
(* one, closing the other first.  Each of these steps is an RPC away from  *)
(* the next, and other requests of the wallet run in between.              *)
(*                                                                         *)
(* The cluster is external.  A transaction lands or fails as a whole: to   *)
(* close, it needs an attestation to stand, and to create without closing, *)
(* none.  It may land long after its sender gave it up.                    *)
(***************************************************************************)
EXTENDS Integers, FiniteSets

CONSTANTS
  Req, WalletOf, Wallet,
  NoTime,             \* no identity, or none read yet
  None, Earlier,      \* no attestation, or one of an earlier process
  MaxAge, Skew,       \* ATTESTATION_VERIFICATION_MAX_AGE_SECS, _FORWARD_SKEW_
  MaxRetries,         \* MAX_RETRIES
  Horizon, Ahead      \* bounds: of the clock, and of the cluster's lead on it

ASSUME AttestationAssumption ==
  /\ WalletOf \in [Req -> Wallet]
  /\ NoTime \notin Int
  /\ None \notin Req /\ Earlier \notin Req /\ None # Earlier
  /\ MaxAge \in Nat /\ Skew \in Nat /\ MaxRetries \in Nat \ {0}
  /\ Horizon \in Nat /\ Ahead \in Nat

VARIABLES
  now,                \* the executor's clock
  challenge,          \* wallets with an unspent current challenge
  verifiedAt,         \* the cluster: last_verification_timestamp of a wallet
  stands,             \* the cluster: whose attestation of a wallet stands
  pending, landed,    \* the cluster: transactions, as <<request, attempt>>
  pc, outcome,        \* where each request is, and what it answers
  reading, stamp,     \* the timestamp read, and `now` as captured with it
  closes,             \* its transaction closes a standing attestation first
  attempt             \* which attempt of the submission loop

cluster == <<verifiedAt, stands, pending, landed>>
control == <<pc, outcome, reading, stamp, closes, attempt>>
vars == <<now, challenge, cluster, control>>

Time == 0 .. Horizon
ClusterTime == 0 .. Horizon + Ahead
Attempts == 1 .. MaxRetries
PC == {"idle", "identity", "existing", "blockhash", "send", "confirm", "done"}

\* forbidden: before the challenge is spent.  unfit: there is no identity, or it
\* was not verified recently (AttestationServiceUnavailable).  unavailable, failed:
\* SolanaRpcUnavailable and TransactionSubmissionFailed.
Outcome == {"none", "forbidden", "unfit", "unavailable", "failed", "issued",
            "cancelled"}

TypeOK ==
  /\ now \in Time
  /\ challenge \in SUBSET Wallet
  /\ verifiedAt \in [Wallet -> ClusterTime \cup {NoTime}]
  /\ stands \in [Wallet -> Req \cup {None, Earlier}]
  /\ pending \in SUBSET (Req \X Attempts)
  /\ landed \in SUBSET (Req \X Attempts)
  /\ pc \in [Req -> PC]
  /\ outcome \in [Req -> Outcome]
  /\ reading \in [Req -> ClusterTime \cup {NoTime}]
  /\ stamp \in [Req -> Time]
  /\ closes \in [Req -> BOOLEAN]
  /\ attempt \in [Req -> Attempts]

\* Nothing is in flight when the process starts; the chain has its history.
Init ==
  /\ now = 0
  /\ challenge = {}
  /\ verifiedAt \in [Wallet -> {0, NoTime}]
  /\ stands \in [Wallet -> {None, Earlier}]
  /\ pending = {}
  /\ landed = {}
  /\ pc = [r \in Req |-> "idle"]
  /\ outcome = [r \in Req |-> "none"]
  /\ reading = [r \in Req |-> NoTime]
  /\ stamp = [r \in Req |-> 0]
  /\ closes = [r \in Req |-> FALSE]
  /\ attempt = [r \in Req |-> 1]

------------------------------------------------------------------------------
(***************************************************************************)
(* The handler.                                                            *)
(***************************************************************************)
Continue(r, to) ==
  /\ pc' = [pc EXCEPT ![r] = to]
  /\ UNCHANGED outcome

Answer(r, o) ==
  /\ pc' = [pc EXCEPT ![r] = "done"]
  /\ outcome' = [outcome EXCEPT ![r] = o]

\* A message that is malformed, expired or signed by another is refused before
\* the challenge is looked at, and so is a nonce that is not the current one.
Forbid(r) ==
  /\ pc[r] = "idle"
  /\ Answer(r, "forbidden")
  /\ UNCHANGED <<now, challenge, cluster, reading, stamp, closes, attempt>>

\* The current challenge is spent, whatever happens next.
Consume(r) ==
  /\ pc[r] = "idle"
  /\ WalletOf[r] \in challenge
  /\ challenge' = challenge \ {WalletOf[r]}
  /\ Continue(r, "identity")
  /\ UNCHANGED <<now, cluster, reading, stamp, closes, attempt>>

\* Mutant of Fresh: only a lead of the cluster is refused.
FreshIfPast(ts, at) == ts <= at + Skew

\* check_attestation_freshness.
Fresh(ts, at) == ts <= at + Skew /\ at - ts <= MaxAge

\* The account is read, and the clock once with it, for the gate and the stamp.
ReadIdentity(r) ==
  LET ts == verifiedAt[WalletOf[r]]
  IN /\ pc[r] = "identity"
     /\ \/ /\ ts # NoTime /\ Fresh(ts, now)
           /\ reading' = [reading EXCEPT ![r] = ts]
           /\ stamp' = [stamp EXCEPT ![r] = now]
           /\ Continue(r, "existing")
        \/ /\ ts # NoTime => ~Fresh(ts, now)
           /\ Answer(r, "unfit")
           /\ UNCHANGED <<reading, stamp>>
     /\ UNCHANGED <<now, challenge, cluster, closes, attempt>>

\* An RPC read fails.
FailRead(r) ==
  /\ pc[r] \in {"identity", "existing"}
  /\ Answer(r, "unavailable")
  /\ UNCHANGED <<now, challenge, cluster, reading, stamp, closes, attempt>>

\* The instructions are built once, from what stands at this instant.
FindExisting(r) ==
  /\ pc[r] = "existing"
  /\ closes' = [closes EXCEPT ![r] = stands[WalletOf[r]] # None]
  /\ Continue(r, "blockhash")
  /\ UNCHANGED <<now, challenge, cluster, reading, stamp, attempt>>

\* send_attestation_tx: each attempt fetches a blockhash, and sends.
FetchBlockhash(r) ==
  /\ pc[r] = "blockhash"
  /\ Continue(r, "send")
  /\ UNCHANGED <<now, challenge, cluster, reading, stamp, closes, attempt>>

Send(r) ==
  /\ pc[r] = "send"
  /\ pending' = pending \cup {<<r, attempt[r]>>}
  /\ Continue(r, "confirm")
  /\ UNCHANGED <<now, challenge, verifiedAt, stands, landed, reading, stamp,
                 closes, attempt>>

\* Mutant of Confirm: an accepted transaction counts as a confirmed one.
ConfirmSent(r) ==
  /\ pc[r] = "confirm"
  /\ Answer(r, "issued")
  /\ UNCHANGED <<now, challenge, cluster, reading, stamp, closes, attempt>>

Confirm(r) ==
  /\ pc[r] = "confirm" /\ <<r, attempt[r]>> \in landed
  /\ Answer(r, "issued")
  /\ UNCHANGED <<now, challenge, cluster, reading, stamp, closes, attempt>>

\* Mutant of Retry: the count starts over.
RetryForEver(r) ==
  /\ attempt' = [attempt EXCEPT ![r] = IF @ < MaxRetries THEN @ + 1 ELSE 1]
  /\ Continue(r, "blockhash")
  /\ UNCHANGED closes

\* After a back-off, the next attempt, or the error of the last one: that of a
\* read if no blockhash came for it, though earlier attempts were sent.
Retry(r) ==
  /\ \/ /\ attempt[r] < MaxRetries
        /\ attempt' = [attempt EXCEPT ![r] = @ + 1]
        /\ Continue(r, "blockhash")
     \/ /\ attempt[r] = MaxRetries
        /\ Answer(r, IF pc[r] = "blockhash" THEN "unavailable" ELSE "failed")
        /\ UNCHANGED attempt
  /\ UNCHANGED closes

\* No blockhash, no acceptance by the RPC node, or no word of the transaction.
FailAttempt(r) ==
  /\ pc[r] \in {"blockhash", "send", "confirm"}
  /\ Retry(r)
  /\ UNCHANGED <<now, challenge, cluster, reading, stamp>>

\* The client goes away and the future is dropped at an await.
Cancel(r) ==
  /\ pc[r] \in PC \ {"idle", "done"}
  /\ Answer(r, "cancelled")
  /\ UNCHANGED <<now, challenge, cluster, reading, stamp, closes, attempt>>

------------------------------------------------------------------------------
(***************************************************************************)
(* The wallet, the cluster and the clock.                                  *)
(***************************************************************************)

\* GET /challenge: a new current nonce for the wallet.
IssueChallenge(w) ==
  /\ challenge' = challenge \cup {w}
  /\ UNCHANGED <<now, cluster, control>>

\* The nonce expires, or a capture consumes it.
LoseChallenge(w) ==
  /\ challenge' = challenge \ {w}
  /\ UNCHANGED <<now, cluster, control>>

\* The wallet verifies on chain; the cluster's clock may lead the executor's.
Verify(w) ==
  /\ \E ts \in now .. now + Ahead : verifiedAt' = [verifiedAt EXCEPT ![w] = ts]
  /\ UNCHANGED <<now, challenge, stands, pending, landed, control>>

\* Mutant of Instructions: the close and the create go out in two transactions.
CloseAlone(r) == IF closes[r] THEN {"close"} ELSE {"create"}

\* The instructions of one transaction.
Instructions(r) == IF closes[r] THEN {"close", "create"} ELSE {"create"}

\* The cluster runs the instructions of <<r, a>>, all of them or none.
Land(r, a) ==
  LET w == WalletOf[r]
  IN /\ <<r, a>> \in pending
     /\ "close" \in Instructions(r) <=> stands[w] # None
     /\ stands' = [stands EXCEPT ![w] =
                     IF "create" \in Instructions(r) THEN r ELSE None]
     /\ landed' = landed \cup {<<r, a>>}
     /\ pending' = pending \ {<<r, a>>}
     /\ UNCHANGED <<now, challenge, verifiedAt, control>>

Drop(r, a) ==
  /\ <<r, a>> \in pending
  /\ pending' = pending \ {<<r, a>>}
  /\ UNCHANGED <<now, challenge, verifiedAt, stands, landed, control>>

Tick ==
  /\ now < Horizon
  /\ now' = now + 1
  /\ UNCHANGED <<challenge, cluster, control>>

Handle(r) ==
  \/ ReadIdentity(r) \/ FailRead(r) \/ FindExisting(r)
  \/ FetchBlockhash(r) \/ Send(r) \/ Confirm(r) \/ FailAttempt(r)

Next ==
  \/ \E r \in Req : Forbid(r) \/ Consume(r) \/ Handle(r) \/ Cancel(r)
  \/ \E w \in Wallet : IssueChallenge(w) \/ LoseChallenge(w) \/ Verify(w)
  \/ \E r \in Req, a \in Attempts : Land(r, a) \/ Drop(r, a)
  \/ Tick

Spec == Init /\ [][Next]_vars

\* The RPC client bounds every call and the runtime polls every ready task.
Fairness == \A r \in Req : WF_vars(Handle(r))
FairSpec == Spec /\ Fairness

------------------------------------------------------------------------------
(***************************************************************************)
(* Properties.                                                             *)
(***************************************************************************)

\* An attestation that stands attests a verification that was recent when it
\* was stamped: neither older than the limit nor further ahead than the clocks
\* may differ, however late its transaction landed and whatever the wallet did
\* meanwhile (check_attestation_freshness, and one clock reading for both).
StandingIsFresh ==
  \A w \in Wallet : stands[w] \in Req =>
    LET r == stands[w] IN
      /\ WalletOf[r] = w
      /\ reading[r] \in ClusterTime
      /\ stamp[r] - reading[r] \in -Skew .. MaxAge
      /\ stamp[r] <= now

\* A request that found nothing to close lands once, however many of its
\* attempts were sent: the instructions are built once, before the loop.  And
\* only one such request of a wallet ever lands, so that of two first
\* attestations that race, one stands.
CreatesOnce ==
  \A t, u \in landed :
    WalletOf[t[1]] = WalletOf[u[1]] /\ ~closes[t[1]] /\ ~closes[u[1]] => t = u

Sent(r, a) == <<r, a>> \in pending \cup landed

\* A success was confirmed for the very attempt it answers, and its wallet is
\* attested from then on by a request of this process.  A request refused before
\* the loop left nothing that may land; one that gives up, as unavailable or as
\* failed, may have earlier attempts in flight, but only if it made all it could,
\* and as unavailable without sending the last (send_attestation_tx).
AnswersAreTrue ==
  \A r \in Req :
    /\ outcome[r] = "issued" =>
         <<r, attempt[r]>> \in landed /\ stands[WalletOf[r]] \in Req
    /\ outcome[r] \in {"forbidden", "unfit"} => \A a \in Attempts : ~Sent(r, a)
    /\ outcome[r] \in {"unavailable", "failed"} =>
         attempt[r] = MaxRetries \/ \A a \in Attempts : ~Sent(r, a)
    /\ outcome[r] = "unavailable" => ~Sent(r, attempt[r])

\* A renewal that fails leaves the old attestation: once a wallet is attested,
\* no step leaves it without (the close and the create are one transaction).
NeverUnattested ==
  [][\A w \in Wallet : stands[w] # None => stands'[w] # None]_vars

\* Every request that spent a challenge is answered, whatever the cluster does
\* with its attempts (the three calls of each and the bound of the loop).
AttestsAnswered == \A r \in Req : pc[r] # "idle" ~> pc[r] = "done"
==============================================================================
