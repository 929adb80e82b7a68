---------------------------- MODULE WalletAttempts ----------------------------
(***************************************************************************)
(* The per-wallet validation-attempt counter (integrator/wallet_attempts): *)
(* a tumbling window per wallet, opened by the first attempt after the     *)
(* last window ran out, and a count of the slots consumed in it.           *)
(*                                                                         *)
(* Every operation holds one DashMap entry lock, so each is one action.    *)
(* The module has no behaviour of its own: ValidationPipeline composes its *)
(* operations into the handlers that call them.                            *)
(***************************************************************************)
EXTENDS Naturals

CONSTANTS
  Wallet,
  MaxAttempts,  \* max_attempts, a u8 from VALIDATION_WALLET_MAX_ATTEMPTS
  Window        \* window_duration, in ticks

WindowAssumption == MaxAttempts \in 0 .. 255 /\ Window \in Nat

VARIABLES
  tracked,      \* wallets with an entry in the map
  attempts,     \* slots consumed in the wallet's window
  windowAge     \* ticks since window_start, up to Window

vars == <<tracked, attempts, windowAge>>

TypeOK ==
  /\ tracked \in SUBSET Wallet
  /\ attempts \in [Wallet -> 0 .. MaxAttempts]
  /\ windowAge \in [Wallet -> 0 .. Window]

Init ==
  /\ tracked = {}
  /\ attempts = [w \in Wallet |-> 0]
  /\ windowAge = [w \in Wallet |-> 0]

\* The next check_and_record_attempt of w starts a window: w has no entry, or
\* its window has run out.
OpensWindow(w) == w \notin tracked \/ windowAge[w] >= Window
Consumed(w) == IF OpensWindow(w) THEN 0 ELSE attempts[w]

\* Mutant of Admits: off by one.
AdmitsInclusive(w) == Consumed(w) <= MaxAttempts

Admits(w) == Consumed(w) < MaxAttempts

\* Mutant of CheckAndRecord: the reset moves the anchor and keeps the count.
CheckAndRecordKeeps(w) ==
  /\ tracked' = tracked \cup {w}
  /\ attempts' = [attempts EXCEPT ![w] = IF Admits(w) THEN @ + 1 ELSE @]
  /\ windowAge' = [windowAge EXCEPT ![w] = IF OpensWindow(w) THEN 0 ELSE @]

\* check_and_record_attempt: a stale window is reset whether or not the
\* attempt is then admitted; only an admitted attempt consumes a slot.
CheckAndRecord(w) ==
  /\ tracked' = tracked \cup {w}
  /\ attempts' = [attempts EXCEPT ![w] = IF Admits(w) THEN Consumed(w) + 1
                                         ELSE Consumed(w)]
  /\ windowAge' = [windowAge EXCEPT ![w] = IF OpensWindow(w) THEN 0 ELSE @]

\* Mutant of Refund: a u8 subtraction that wraps.
RefundWraps(w) ==
  /\ attempts' = [attempts EXCEPT ![w] = IF w \in tracked THEN (@ + 255) % 256
                                         ELSE @]
  /\ UNCHANGED <<tracked, windowAge>>

\* refund_on_success: a saturating decrement, whatever window the slot was
\* consumed in; nothing when the entry is gone.
Refund(w) ==
  /\ attempts' = [attempts EXCEPT
                    ![w] = IF w \in tracked /\ @ > 0 THEN @ - 1 ELSE @]
  /\ UNCHANGED <<tracked, windowAge>>

\* Mutant of EvictExpired: the comparison with zero is off by one.
EvictNothing ==
  /\ tracked' = {w \in tracked : windowAge[w] < Window \/ attempts[w] >= 0}
  /\ UNCHANGED <<attempts, windowAge>>

\* evict_expired: an entry goes when its window has run out and no slot of it
\* is consumed.  As in the registry, all wallets are swept at once.
EvictExpired ==
  /\ tracked' = {w \in tracked : windowAge[w] < Window \/ attempts[w] > 0}
  /\ UNCHANGED <<attempts, windowAge>>

\* Time passes for every open window.
Pass ==
  /\ windowAge' = [w \in Wallet |->
                     IF w \in tracked /\ windowAge[w] < Window
                     THEN windowAge[w] + 1 ELSE windowAge[w]]
  /\ UNCHANGED <<tracked, attempts>>
===============================================================================
