-------------------------- MODULE WalletReputation --------------------------
(***************************************************************************)
(* The risk prior of a wallet: observe_reputation and reputation_risk      *)
(* (validation/handler.rs) over fetch_wallet_reputation                    *)
(* (reputation/mod.rs) and the reads of the Solana client it joins.        *)
(*                                                                         *)
(* Balance and activity are counted up to and past Full, where their       *)
(* scores reach one; a risk is in units of 1/(2 Full), so that Full is the *)
(* middle that stands for a wallet that was not read.                      *)
(***************************************************************************)
EXTENDS Integers

CONSTANTS
  Asker,        \* handlers
  Readings,     \* MAX_CONCURRENT_REPUTATION_READS
  Full,         \* 0.1 SOL, or 10 signatures
  Day           \* 86400, in units of the ages in Age

VARIABLES
  observing,    \* wallet_reputation_observe
  free,         \* REPUTATION_RPC_GATE
  asks          \* per handler: where it is, what it read, its risk

reputationVars == <<observing, free, asks>>

Pending == -2
Failed == -1
Amount == 0 .. Full + 1
Age == -1 .. Day        \* of the parent's last verification; ahead of the clock: -1
Middle == Full

Idle == [at |-> "idle", sol |-> Pending, activity |-> Pending,
         parent |-> "pending", identity |-> "unread", risk |-> Middle]

Init ==
  /\ observing \in BOOLEAN
  /\ free = Readings
  /\ asks = [a \in Asker |-> Idle]

Least(a, b) == IF a < b THEN a ELSE b

\* reputation_risk of a snapshot.
Risk(sol, activity, sybil) ==
  LET prior == 2 * Full - Least(sol, Full) - Least(activity, Full)
  IN  IF sybil THEN Least(prior + Full, 2 * Full) ELSE prior

Update(a, record) == asks' = [asks EXCEPT ![a] = record]

Reads(a) == asks[a].at \in {"reads", "identity"}

\* The end of the timeout's block, and of the permit.
Answer(a, identity, risk) ==
  /\ Update(a, [asks[a] EXCEPT !.at = "answered", !.identity = identity,
                               !.risk = risk])
  /\ free' = free + 1

\* try_acquire: a saturated gate is not waited for.
Ask(a) ==
  /\ asks[a].at = "idle"
  /\ IF observing /\ free > 0
     THEN /\ Update(a, [asks[a] EXCEPT !.at = "reads"])
          /\ free' = free - 1
     ELSE /\ Update(a, [asks[a] EXCEPT !.at = "answered"])
          /\ UNCHANGED free
  /\ UNCHANGED observing

\* get_balance_of.
ReadBalance(a) ==
  /\ asks[a].at = "reads" /\ asks[a].sol = Pending
  /\ \E v \in Amount \cup {Failed} : Update(a, [asks[a] EXCEPT !.sol = v])
  /\ UNCHANGED <<observing, free>>

\* get_recent_activity: how many signatures there are.
ReadActivity(a) ==
  /\ asks[a].at = "reads" /\ asks[a].activity = Pending
  /\ \E v \in Amount \cup {Failed} : Update(a, [asks[a] EXCEPT !.activity = v])
  /\ UNCHANGED <<observing, free>>

\* get_funding_parent: the payer of the oldest of the ten newest transactions.
\* No history, a payer that is the wallet itself and a transaction that does not
\* decode are no parent; so is, to fetch_wallet_reputation, a read that failed.
ReadParent(a) ==
  /\ asks[a].at = "reads" /\ asks[a].parent = "pending"
  /\ \E p \in {"none", "failed", "known"} :
       Update(a, [asks[a] EXCEPT !.parent = p])
  /\ UNCHANGED <<observing, free>>

\* Mutant of Snapshot: a balance that was not read is none at all.
SnapshotDefaulted(a, identity) ==
  Answer(a, identity, Risk(IF asks[a].sol = Failed THEN 0 ELSE asks[a].sol,
                           asks[a].activity, identity = "recent"))

\* `balance?`: the last thing that can fail.
Snapshot(a, identity) ==
  Answer(a, identity, IF asks[a].sol = Failed THEN Middle
                      ELSE Risk(asks[a].sol, asks[a].activity, identity = "recent"))

\* The join: the three have ended.
Join(a) ==
  /\ asks[a].at = "reads"
  /\ asks[a].sol # Pending /\ asks[a].activity # Pending /\ asks[a].parent # "pending"
  /\ \/ asks[a].activity = Failed /\ Answer(a, "unread", Middle)
     \/ /\ asks[a].activity # Failed /\ asks[a].parent # "known"
        /\ Snapshot(a, "unread")
     \/ /\ asks[a].activity # Failed /\ asks[a].parent = "known"
        /\ Update(a, [asks[a] EXCEPT !.at = "identity"])
        /\ UNCHANGED free
  /\ UNCHANGED observing

\* The parent's identity: verified within the day, or something other (before
\* it, ahead of the clock, not there, not an identity); or its read fails.
ReadIdentity(a) ==
  /\ asks[a].at = "identity"
  /\ \/ Snapshot(a, "failed")
     \/ Snapshot(a, "other")
     \/ \E age \in Age : Snapshot(a, IF age \in 0 .. Day - 1 THEN "recent" ELSE "other")
  /\ UNCHANGED observing

\* Mutant of Timeout: the reads are waited for.
TimeoutNever(a) == Reads(a) /\ FALSE /\ UNCHANGED reputationVars

\* The 1500 ms are over: the reads are dropped where they are.
Timeout(a) == Reads(a) /\ Answer(a, "unread", Middle) /\ UNCHANGED observing

\* The handler is done, or dropped with the permit it holds.
Leave(a) ==
  /\ asks[a].at # "idle"
  /\ Update(a, Idle)
  /\ free' = IF Reads(a) THEN free + 1 ELSE free
  /\ UNCHANGED observing

Read(a) == ReadBalance(a) \/ ReadActivity(a) \/ ReadParent(a) \/ ReadIdentity(a)

Next == \E a \in Asker : Ask(a) \/ Read(a) \/ Join(a) \/ Timeout(a) \/ Leave(a)

Spec == Init /\ [][Next]_reputationVars

------------------------------------------------------------------------------
\* A risk other than the middle is that of the balance and the activity read for
\* this request, with the penalty of a Sybil funding only if a parent was read and
\* its identity is recent: a balance or an activity that failed, timed out or was
\* skipped moves nothing, and a parent or an identity that failed is not held
\* against the wallet (reputation/mod.rs, reputation_risk).
RiskIsOfWhatWasRead ==
  \A a \in Asker :
    LET ask == asks[a] IN
      ask.at = "answered" /\ ask.risk # Middle =>
        /\ ask.sol >= 0 /\ ask.activity >= 0
        /\ ask.risk = Risk(ask.sol, ask.activity, ask.identity = "recent")
        /\ ask.identity = "recent" => ask.parent = "known"
=============================================================================
