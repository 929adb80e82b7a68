-------------------------- MODULE ValidationPipeline --------------------------
(***************************************************************************)
(* POST /validate-features (validation/handler.rs) and POST                *)
(* /paired/finalize's validate_session_handler (paired/finalize.rs), run   *)
(* by any number of tokio tasks at once over the shared state they charge: *)
(* the wallet's attempt slots, the integrator's quota, the challenge       *)
(* registry and the probing blocklist.                                     *)
(*                                                                         *)
(* A request is a task with a program counter.  One action is what a       *)
(* handler does between two points where another task can run in between:  *)
(* the locks of the shared maps, and the awaits.  At an await the future   *)
(* may also be dropped (the client went away); dropping it runs the drop   *)
(* of the budget guard.                                                    *)
(*                                                                         *)
(* The validator, the Solana RPC and the composite score are external to   *)
(* this protocol: each of their answers is a choice.  So is the screening  *)
(* by the cross-wallet cooldown and by the WebDriver flag, which refuse a  *)
(* request before it is charged and share no state with what follows.      *)
(***************************************************************************)
EXTENDS Naturals, FiniteSets

CONSTANTS
  Req,            \* requests, each handled once
  WalletOf, KeyOf, IpOf, KindOf,   \* what a request carries
  Wallet, MaxAttempts, Window,     \* as in WalletAttempts
  Key, Configured, Quota,          \* as in IntegratorTracker
  Nonce, NoWallet, NoNonce, Ttl,   \* as in ChallengeRegistry
  Ip,
  Configs         \* the deployments: is a validator configured, and is a
                  \* live challenge required

\* A plain capture (projection 0 or 1, no authorization), a signed one
\* (projection 2, authorized by a nonce), and a paired session.
Kind == {"plain", "signed", "session"}

ASSUME RequestAssumption ==
  /\ IsFiniteSet(Req)
  /\ WalletOf \in [Req -> Wallet]
  /\ KeyOf \in [Req -> Key]
  /\ IpOf \in [Req -> Ip]
  /\ KindOf \in [Req -> Kind]
ASSUME ConfigAssumption == Configs \subseteq [validator : BOOLEAN, required : BOOLEAN]

VARIABLES
  tracked, attempts, windowAge,    \* WalletAttemptTracker
  registered, used,                \* IntegratorTracker
  entries, current, byNonce, age, owner, newest, accepts,
                                   \* ChallengeNonceRegistry
  block,          \* probing_blocklist: no entry, one in force, one run out
  config,         \* the deployment, fixed at start
  pc, outcome,    \* where each request is, and what it answers
  guard,          \* the guard's refund_pending
  nonce,          \* authorization_nonce
  phrase,         \* the challenge whose phrase is forwarded
  writes,         \* the intent writes a baseline (mint, rebaseline, reset)
  quotaHeld,      \* history: the request's quota charge is not refunded
  slot,           \* history: what became of the request's attempt slot
  forwarded       \* history: requests sent to the validator

Wallets == INSTANCE WalletAttempts
Quotas == INSTANCE IntegratorTracker
Challenges == INSTANCE ChallengeRegistry

ASSUME StoreAssumption ==
  /\ Wallets!WindowAssumption
  /\ Quotas!QuotaAssumption
  /\ NoWallet \notin Wallet /\ NoNonce \notin Nonce
  /\ Ttl \in Nat \ {0}

walletVars == <<tracked, attempts, windowAge>>
quotaVars == <<registered, used>>
challengeVars == <<entries, current, byNonce, age, owner, newest, accepts>>
control == <<pc, outcome, guard>>
locals == <<nonce, phrase, writes>>
charges == <<quotaHeld, slot>>
vars == <<walletVars, quotaVars, challengeVars, block, config,
          control, locals, charges, forwarded>>

PC == {"idle", "screen", "unblock", "slot", "key", "register", "quota",
       "giveBack", "identity", "consume", "forward", "sent", "answered",
       "refundQuota", "refundSlot", "done"}

\* refused: before admission.  limited, noQuota: by admission.  rejected: by a
\* check after admission, no verdict sought.  unavailable, noVerdict: no
\* answer, or one that is no verdict.  passthrough: no validator configured.
\* failed, passed, retry: a verdict.
Outcome == {"none", "refused", "limited", "noQuota", "rejected", "unavailable",
            "noVerdict", "passthrough", "cancelled", "failed", "passed", "retry"}

Slot == {"none", "held", "stale", "returned", "late"}

TypeOK ==
  /\ Wallets!TypeOK
  /\ Quotas!TypeOK
  /\ Challenges!TypeOK
  /\ block \in [Ip -> {"absent", "active", "expired"}]
  /\ config \in Configs
  /\ pc \in [Req -> PC]
  /\ outcome \in [Req -> Outcome]
  /\ guard \in [Req -> BOOLEAN]
  /\ nonce \in [Req -> Nonce \cup {NoNonce}]
  /\ phrase \in [Req -> Nonce \cup {NoNonce}]
  /\ writes \in [Req -> BOOLEAN]
  /\ quotaHeld \in [Req -> BOOLEAN]
  /\ slot \in [Req -> Slot]
  /\ forwarded \in SUBSET Req

Init ==
  /\ Wallets!Init
  /\ Quotas!Init
  /\ Challenges!Init
  /\ block = [i \in Ip |-> "absent"]
  /\ config \in Configs
  /\ pc = [r \in Req |-> "idle"]
  /\ outcome = [r \in Req |-> "none"]
  /\ guard = [r \in Req |-> FALSE]
  /\ nonce = [r \in Req |-> NoNonce]
  /\ phrase = [r \in Req |-> NoNonce]
  /\ writes = [r \in Req |-> FALSE]
  /\ quotaHeld = [r \in Req |-> FALSE]
  /\ slot = [r \in Req |-> "none"]
  /\ forwarded = {}

------------------------------------------------------------------------------
(***************************************************************************)
(* Control flow.                                                           *)
(***************************************************************************)
Continue(r, to) ==
  /\ pc' = [pc EXCEPT ![r] = to]
  /\ UNCHANGED <<outcome, guard>>

\* Mutant of Leave: the drop refunds without clearing refund_pending.
LeaveStillArmed(r, o) ==
  /\ outcome' = [outcome EXCEPT ![r] = o]
  /\ pc' = [pc EXCEPT ![r] = IF guard[r] THEN "refundQuota" ELSE "done"]
  /\ UNCHANGED guard

\* The handler's future ends with answer o.  An armed guard refunds as it
\* drops: the quota first, then the slot.
Leave(r, o) ==
  /\ outcome' = [outcome EXCEPT ![r] = o]
  /\ pc' = [pc EXCEPT ![r] = IF guard[r] THEN "refundQuota" ELSE "done"]
  /\ guard' = [guard EXCEPT ![r] = FALSE]

\* The handler has its answer o, but calls refund_infrastructure_failure, or
\* refund_on_success alone, before it returns.
LeaveAfter(r, o, refund) ==
  /\ outcome' = [outcome EXCEPT ![r] = o]
  /\ pc' = [pc EXCEPT ![r] = refund]
  /\ UNCHANGED guard

------------------------------------------------------------------------------
(***************************************************************************)
(* Before admission.                                                       *)
(***************************************************************************)

\* A signed capture names a challenge the server has issued, to this wallet or
\* to another: its signature binds wallet and nonce, not their relation.
Authorizes(r, n) ==
  IF KindOf[r] = "signed" THEN n \in Nonce /\ owner[n] # NoWallet
  ELSE n = NoNonce

\* The challenge looked up without consuming it.  A session has its own.
IssuedChallenge(r, n) ==
  CASE KindOf[r] = "session" -> NoNonce
    [] KindOf[r] = "plain" -> Challenges!PeekLegacy(WalletOf[r])
    [] KindOf[r] = "signed" ->
         IF Challenges!PeekExact(WalletOf[r], n) THEN n ELSE NoNonce

LacksChallenge(r, n) ==
  /\ KindOf[r] # "session" /\ config.required
  /\ IssuedChallenge(r, n) = NoNonce

Arrive(r, n) ==
  /\ pc[r] = "idle" /\ Authorizes(r, n)
  /\ nonce' = [nonce EXCEPT ![r] = n]
  /\ phrase' = [phrase EXCEPT ![r] = IssuedChallenge(r, n)]
  /\ IF LacksChallenge(r, n) THEN Leave(r, "refused") ELSE Continue(r, "screen")
  /\ UNCHANGED <<walletVars, quotaVars, challengeVars, block, config,
                 writes, charges, forwarded>>

\* check_probing_block copies the entry out of the map; what it then does with
\* an expired one is a second access.
CheckBlock(r) ==
  /\ pc[r] = "screen"
  /\ CASE block[IpOf[r]] = "active" -> Leave(r, "refused")
       [] block[IpOf[r]] = "expired" -> Continue(r, "unblock")
       [] block[IpOf[r]] = "absent" -> Continue(r, "slot")
  /\ UNCHANGED <<walletVars, quotaVars, challengeVars, block, config,
                 locals, charges, forwarded>>

ClearBlock(r) ==
  /\ pc[r] = "unblock"
  /\ block' = [block EXCEPT ![IpOf[r]] = "absent"]
  /\ Continue(r, "slot")
  /\ UNCHANGED <<walletVars, quotaVars, challengeVars, config,
                 locals, charges, forwarded>>

\* The cross-wallet cooldown, or a browser that reports WebDriver.
ScreenOut(r) ==
  /\ pc[r] = "slot"
  /\ Leave(r, "refused")
  /\ UNCHANGED <<walletVars, quotaVars, challengeVars, block, config,
                 locals, charges, forwarded>>

------------------------------------------------------------------------------
(***************************************************************************)
(* Admission: admit_attempt, then the guard is armed.                      *)
(***************************************************************************)

\* What a slot counted in w's window becomes when that window is replaced.
Outlived(w) ==
  [q \in Req |-> IF WalletOf[q] # w THEN slot[q]
                 ELSE CASE slot[q] = "held" -> "stale"
                        [] slot[q] = "late" -> "returned"
                        [] OTHER -> slot[q]]

TakeSlot(r) ==
  LET w == WalletOf[r]
      slots == IF Wallets!OpensWindow(w) THEN Outlived(w) ELSE slot
  IN /\ pc[r] = "slot"
     /\ Wallets!CheckAndRecord(w)
     /\ IF Wallets!Admits(w)
        THEN slot' = [slots EXCEPT ![r] = "held"] /\ Continue(r, "key")
        ELSE slot' = slots /\ Leave(r, "limited")
     /\ UNCHANGED <<quotaVars, challengeVars, block, config,
                    locals, quotaHeld, forwarded>>

\* check_and_deduct, first access: contains_key.
FindKey(r) ==
  /\ pc[r] = "key"
  /\ CASE KeyOf[r] \in registered -> Continue(r, "quota")
       [] KeyOf[r] \notin registered /\ Quotas!AllowUnknown ->
            Continue(r, "register")
       [] OTHER -> Continue(r, "giveBack")
  /\ UNCHANGED <<walletVars, quotaVars, challengeVars, block, config,
                 locals, charges, forwarded>>

\* Second access: the insert of a free-tier entry.
RegisterKey(r) ==
  /\ pc[r] = "register"
  /\ Quotas!AutoRegister(KeyOf[r])
  /\ Continue(r, "quota")
  /\ UNCHANGED <<walletVars, challengeVars, block, config,
                 locals, charges, forwarded>>

\* Third access: compare and deduct under the entry lock.  The handler creates
\* its guard on return.
TakeQuota(r) ==
  /\ pc[r] = "quota"
  /\ \/ /\ Quotas!Deduct(KeyOf[r])
        /\ quotaHeld' = [quotaHeld EXCEPT ![r] = TRUE]
        /\ guard' = [guard EXCEPT ![r] = TRUE]
        /\ pc' = [pc EXCEPT ![r] = "identity"]
        /\ UNCHANGED outcome
     \/ /\ ~Quotas!HasQuota(KeyOf[r])
        /\ Continue(r, "giveBack")
        /\ UNCHANGED <<quotaVars, quotaHeld>>
  /\ UNCHANGED <<walletVars, challengeVars, block, config,
                 locals, slot, forwarded>>

\* What a refund makes of the request's slot: a slot of an outlived window is
\* taken from the current one when there is something to take.
Given(r) ==
  CASE slot[r] = "held" -> "returned"
    [] slot[r] = "stale" ->
         IF WalletOf[r] \in tracked /\ attempts[WalletOf[r]] > 0
         THEN "late" ELSE "returned"
    [] OTHER -> slot[r]

\* No quota: admit_attempt returns the slot itself.
GiveBackSlot(r) ==
  /\ pc[r] = "giveBack"
  /\ Wallets!Refund(WalletOf[r])
  /\ slot' = [slot EXCEPT ![r] = Given(r)]
  /\ Leave(r, "noQuota")
  /\ UNCHANGED <<quotaVars, challengeVars, block, config,
                 locals, quotaHeld, forwarded>>

------------------------------------------------------------------------------
(***************************************************************************)
(* From admission to the validator.                                        *)
(***************************************************************************)

\* identity_intent: the RPC read fails, or the account, the study context or
\* the compatibility evidence does not fit the request; or a single capture
\* asks for what only a session may do (PairedRequired).
RejectIntent(r) ==
  /\ pc[r] = "identity"
  /\ Leave(r, "rejected")
  /\ UNCHANGED <<walletVars, quotaVars, challengeVars, block, config,
                 locals, charges, forwarded>>

\* An update may go on; a baseline only in a session.
ReadIdentity(r) ==
  /\ pc[r] = "identity"
  /\ \E b \in IF KindOf[r] = "session" THEN BOOLEAN ELSE {FALSE} :
       writes' = [writes EXCEPT ![r] = b]
  /\ Continue(r, IF KindOf[r] = "signed" THEN "consume" ELSE "forward")
  /\ UNCHANGED <<walletVars, quotaVars, challengeVars, block, config,
                 nonce, phrase, charges, forwarded>>

\* Mutant of ConsumeNonce: a second look in place of the consumption.
ConsumeNonceByPeek(r) ==
  /\ pc[r] = "consume"
  /\ IF Challenges!PeekExact(WalletOf[r], nonce[r])
     THEN Continue(r, "forward")
     ELSE Leave(r, "rejected")
  /\ UNCHANGED <<walletVars, quotaVars, challengeVars, block, config,
                 locals, charges, forwarded>>

\* validate_and_consume_exact, long after the look-up.
ConsumeNonce(r) ==
  /\ pc[r] = "consume"
  /\ Challenges!Consume(WalletOf[r], nonce[r], "exact")
  /\ IF Challenges!Accepts(WalletOf[r], nonce[r], "exact")
     THEN Continue(r, "forward")
     ELSE Leave(r, "rejected")
  /\ UNCHANGED <<walletVars, quotaVars, block, config,
                 locals, charges, forwarded>>

\* Without a validator a single capture passes and a session is unavailable;
\* either way the guard refunds.
Forward(r) ==
  /\ pc[r] = "forward"
  /\ IF config.validator
     THEN Continue(r, "sent") /\ forwarded' = forwarded \cup {r}
     ELSE /\ Leave(r, IF KindOf[r] = "session" THEN "unavailable"
                      ELSE "passthrough")
          /\ UNCHANGED forwarded
  /\ UNCHANGED <<walletVars, quotaVars, challengeVars, block, config,
                 locals, charges>>

\* The request and the reputation read are awaited together.  No answer arrives:
\* the validator is not reached, or its answer comes past the timeout.
LoseAnswer(r) ==
  /\ pc[r] = "sent"
  /\ Leave(r, "unavailable")
  /\ UNCHANGED <<walletVars, quotaVars, challengeVars, block, config,
                 locals, charges, forwarded>>

\* Mutant of ReceiveAnswer: the guard is never told.
ReceiveAnswerArmed(r) ==
  /\ pc[r] = "sent"
  /\ Continue(r, "answered")
  /\ UNCHANGED <<walletVars, quotaVars, challengeVars, block, config,
                 locals, charges, forwarded>>

\* An answer arrived, whatever it says: validator_reached disarms the guard.
ReceiveAnswer(r) ==
  /\ pc[r] = "sent"
  /\ guard' = [guard EXCEPT ![r] = FALSE]
  /\ pc' = [pc EXCEPT ![r] = "answered"]
  /\ UNCHANGED outcome
  /\ UNCHANGED <<walletVars, quotaVars, challengeVars, block, config,
                 locals, charges, forwarded>>

\* The client goes away and the future is dropped at an await.  A session has
\* read the whole answer before the guard is disarmed; a single capture reads
\* the body after it.
Cancel(r) ==
  /\ \/ pc[r] \in {"identity", "sent"}
     \/ pc[r] = "answered" /\ KindOf[r] # "session"
  /\ Leave(r, "cancelled")
  /\ UNCHANGED <<walletVars, quotaVars, challengeVars, block, config,
                 locals, charges, forwarded>>

------------------------------------------------------------------------------
(***************************************************************************)
(* After the answer.                                                       *)
(***************************************************************************)

\* The answer is no verdict (an infrastructure status, a protocol refusal, a
\* body cut short or contradictory): both charges come back.
SettleNoVerdict(r) ==
  /\ pc[r] = "answered"
  /\ LeaveAfter(r, "noVerdict", "refundQuota")
  /\ UNCHANGED <<walletVars, quotaVars, challengeVars, block, config,
                 locals, charges, forwarded>>

\* score_success: a score over the reject threshold or in the friction range
\* is a failure, anything else returns the slot.
SettleSuccess(r) ==
  /\ pc[r] = "answered"
  /\ \/ Leave(r, "failed")
     \/ LeaveAfter(r, "passed", "refundSlot")
  /\ UNCHANGED <<walletVars, quotaVars, challengeVars, block, config,
                 locals, charges, forwarded>>

\* The validator rejects: both charges stay, and a probing verdict blocks the
\* client's IP.  A session told anchor_retry gets its slot back when it was to
\* write a baseline, never when it was probing.
SettleRejection(r, probing, anchorRetry) ==
  /\ pc[r] = "answered"
  /\ anchorRetry => KindOf[r] = "session"
  /\ block' = IF probing THEN [block EXCEPT ![IpOf[r]] = "active"] ELSE block
  /\ IF anchorRetry /\ writes[r] /\ ~probing
     THEN LeaveAfter(r, "retry", "refundSlot")
     ELSE Leave(r, "failed")
  /\ UNCHANGED <<walletVars, quotaVars, challengeVars, config,
                 locals, charges, forwarded>>

\* refund_infrastructure_failure, in its two accesses; refund_on_success is
\* the second alone.  Reached from the handler or from the guard's drop.
RefundQuota(r) ==
  /\ pc[r] = "refundQuota"
  /\ Quotas!RefundQuota(KeyOf[r])
  /\ quotaHeld' = [quotaHeld EXCEPT ![r] = FALSE]
  /\ Continue(r, "refundSlot")
  /\ UNCHANGED <<walletVars, challengeVars, block, config,
                 locals, slot, forwarded>>

RefundSlot(r) ==
  /\ pc[r] = "refundSlot"
  /\ Wallets!Refund(WalletOf[r])
  /\ slot' = [slot EXCEPT ![r] = Given(r)]
  /\ Leave(r, outcome[r])
  /\ UNCHANGED <<quotaVars, challengeVars, block, config,
                 locals, quotaHeld, forwarded>>

------------------------------------------------------------------------------
(***************************************************************************)
(* The other users of the shared state.                                    *)
(***************************************************************************)

\* GET /challenge.
IssueChallenge(w, n) ==
  /\ Challenges!Issue(w, n)
  /\ UNCHANGED <<walletVars, quotaVars, block, config,
                 control, locals, charges, forwarded>>

\* POST /attest consumes the wallet's current challenge (attest_handler).
Attest(w, n) ==
  /\ owner[n] # NoWallet
  /\ Challenges!Consume(w, n, "legacy")
  /\ UNCHANGED <<walletVars, quotaVars, block, config,
                 control, locals, charges, forwarded>>

\* The three sweeps of main.rs; each runs on its own timer.
SweepChallenges ==
  /\ Challenges!EvictStale
  /\ UNCHANGED <<walletVars, quotaVars, block, config,
                 control, locals, charges, forwarded>>

SweepWallets ==
  /\ Wallets!EvictExpired
  /\ slot' = [q \in Req |-> IF WalletOf[q] \in tracked \ tracked'
                            THEN Outlived(WalletOf[q])[q] ELSE slot[q]]
  /\ UNCHANGED <<quotaVars, challengeVars, block, config,
                 control, locals, quotaHeld, forwarded>>

SweepBlocks ==
  /\ block' = [i \in Ip |-> IF block[i] = "expired" THEN "absent" ELSE block[i]]
  /\ UNCHANGED <<walletVars, quotaVars, challengeVars, config,
                 control, locals, charges, forwarded>>

\* Time passes for attempt windows and challenges.
Tick ==
  /\ Wallets!Pass
  /\ Challenges!Pass
  /\ UNCHANGED <<quotaVars, block, config, control, locals, charges, forwarded>>

\* A block lasts a day: the requests that were under way when it was set are
\* over long before.
BlockRunsOut(i) ==
  /\ block[i] = "active"
  /\ \A r \in Req : IpOf[r] = i => pc[r] \in {"idle", "done"}
  /\ block' = [block EXCEPT ![i] = "expired"]
  /\ UNCHANGED <<walletVars, quotaVars, challengeVars, config,
                 control, locals, charges, forwarded>>

\* The steps the server takes on its own once a request has arrived.
Handle(r) ==
  \/ CheckBlock(r) \/ ClearBlock(r) \/ ScreenOut(r)
  \/ TakeSlot(r) \/ FindKey(r) \/ RegisterKey(r) \/ TakeQuota(r)
  \/ GiveBackSlot(r)
  \/ RejectIntent(r) \/ ReadIdentity(r) \/ ConsumeNonce(r) \/ Forward(r)
  \/ LoseAnswer(r) \/ ReceiveAnswer(r)
  \/ SettleNoVerdict(r) \/ SettleSuccess(r)
  \/ \E probing, anchorRetry \in BOOLEAN : SettleRejection(r, probing, anchorRetry)
  \/ RefundQuota(r) \/ RefundSlot(r)

Next ==
  \/ \E r \in Req, n \in Nonce \cup {NoNonce} : Arrive(r, n)
  \/ \E r \in Req : Handle(r) \/ Cancel(r)
  \/ \E w \in Wallet, n \in Nonce : IssueChallenge(w, n) \/ Attest(w, n)
  \/ SweepChallenges
  \/ SweepWallets
  \/ SweepBlocks
  \/ Tick
  \/ \E i \in Ip : BlockRunsOut(i)

Spec == Init /\ [][Next]_vars

\* Every await of a handler ends: the RPC and validator clients time out, and
\* the runtime polls every ready task.  The sweeps are tasks of their own and
\* the clock runs.  No client need arrive, ask for a challenge or leave.
Fairness ==
  /\ \A r \in Req : WF_vars(Handle(r))
  /\ WF_vars(SweepChallenges) /\ WF_vars(SweepWallets) /\ WF_vars(SweepBlocks)
  /\ WF_vars(Tick)
FairSpec == Spec /\ Fairness

------------------------------------------------------------------------------
(***************************************************************************)
(* Properties.                                                             *)
(***************************************************************************)
Verdict == {"failed", "passed", "retry"}
NoVerdict == {"refused", "limited", "noQuota", "rejected", "unavailable",
              "noVerdict", "passthrough"}

ChargedTo(k) == {r \in Req : KeyOf[r] = k /\ quotaHeld[r]}
Holding(w) == {r \in Req : WalletOf[r] = w /\ slot[r] = "held"}
Late(w) == {r \in Req : WalletOf[r] = w /\ slot[r] = "late"}

SlotKept(r) == slot[r] \in {"held", "stale"}

\* What a request has been charged is decided by how far it is: nothing before
\* admission, a slot and then the quota too until the validator answers, and
\* at the end both when the validator judged the capture unfit, the quota
\* alone when it passed or may be repeated, and nothing when there was no
\* verdict; a request dropped on the way keeps both charges or neither.
ChargesFit(r) ==
  /\ pc[r] \in {"idle", "screen", "unblock", "slot"} =>
       ~quotaHeld[r] /\ ~SlotKept(r)
  /\ pc[r] \in {"key", "register", "quota", "giveBack"} =>
       ~quotaHeld[r] /\ SlotKept(r)
  /\ pc[r] \in {"identity", "consume", "forward", "sent", "answered"} =>
       quotaHeld[r] /\ SlotKept(r)
  /\ pc[r] = "done" =>
       /\ outcome[r] = "failed" => quotaHeld[r] /\ SlotKept(r)
       /\ outcome[r] \in {"passed", "retry"} => quotaHeld[r] /\ ~SlotKept(r)
       /\ outcome[r] \in NoVerdict => ~quotaHeld[r] /\ ~SlotKept(r)
       /\ outcome[r] = "cancelled" => (quotaHeld[r] <=> SlotKept(r))
ChargesMatchProgress == \A r \in Req : ChargesFit(r)

\* An integrator is charged for the requests whose charge was not returned:
\* for each exactly once when integrators are configured, and never for more
\* when they are not and keys register themselves.
QuotaConserved ==
  \A k \in Key :
    /\ used[k] <= Cardinality(ChargedTo(k))
    /\ ~Quotas!AllowUnknown => used[k] = Cardinality(ChargedTo(k))

\* The same without the exception.  IntegratorTracker calls itself
\* "thread-safe"; two first requests of an unknown key refute this.
QuotaExact == \A k \in Key : used[k] = Cardinality(ChargedTo(k))

\* However many requests of a configured integrator race, it is never given
\* more verdicts than its quota.
VerdictsWithinQuota ==
  ~Quotas!AllowUnknown =>
    \A k \in Key : Quota[k] > 0 =>
      Cardinality({r \in Req : KeyOf[r] = k /\ outcome[r] \in Verdict}) <= Quota[k]

\* A wallet's counter is the number of requests holding a slot of its window,
\* short by at most the refunds that came from an earlier window: no refund is
\* lost, none is made twice, and no attempt goes uncounted.
SlotsConserved ==
  \A w \in Wallet :
    /\ attempts[w] <= Cardinality(Holding(w))
    /\ Cardinality(Holding(w)) <= attempts[w] + Cardinality(Late(w))

Failures(w) == {r \in Holding(w) : pc[r] = "done" /\ outcome[r] = "failed"}

\* "Failed validations leave the slot consumed, so failures accumulate against
\* the cap" (wallet_attempts.rs): within a window a wallet fails at most
\* MaxAttempts times.  A refund of the previous window's slot refutes this.
FailuresWithinCap == \A w \in Wallet : Cardinality(Failures(w)) <= MaxAttempts

\* What holds of the cap: late refunds are all a wallet gains on it.
FailuresBounded ==
  \A w \in Wallet : Cardinality(Failures(w)) <= MaxAttempts + Cardinality(Late(w))

\* A signed capture reaches the validator only with a challenge issued to its
\* own wallet, consumed by it and by no other request or path, and with that
\* challenge's phrase, even if it looked the challenge up long before.
ForwardedAuthorization ==
  \A r \in forwarded : KindOf[r] = "signed" =>
    /\ owner[nonce[r]] = WalletOf[r]
    /\ accepts[nonce[r]] = [legacy |-> 0, exact |-> 1]
    /\ phrase[r] = nonce[r]
    /\ \A q \in forwarded : KindOf[q] = "signed" /\ nonce[q] = nonce[r] => q = r

\* "Rejects a client IP under an active probing block, and clears an expired
\* one" (check_probing_block): a block in force is never cleared, it runs out.
\* A request that read an expired entry, and removes the newer one that another
\* request has set since, refutes this.
BlockRunsItsCourse ==
  [][\A i \in Ip : block[i] = "active" => block'[i] # "absent"]_vars

\* Every request that is handled is answered, its refunds made.
RequestsFinish == \A r \in Req : pc[r] # "idle" ~> pc[r] = "done"

\* The counter of a wallet with no slot consumed leaves memory, unless the
\* wallet attempts again.
IdleWalletsEvicted ==
  \A w \in Wallet :
    w \in tracked /\ attempts[w] = 0 ~> w \notin tracked \/ attempts[w] > 0
==============================================================================
