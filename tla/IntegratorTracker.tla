-------------------------- MODULE IntegratorTracker --------------------------
(***************************************************************************)
(* The per-API-key quota tracker (integrator/tracker.rs).                  *)
(*                                                                         *)
(* `check_and_deduct` is not one critical section: it asks contains_key,   *)
(* inserts a free-tier entry for an unknown key when no integrator is      *)
(* configured, and only then takes the entry lock to compare and deduct.   *)
(* Each of the three is an action here, and callers put them in order.     *)
(* Like WalletAttempts the module is composed by its callers.              *)
(***************************************************************************)
EXTENDS Naturals

CONSTANTS
  Key,          \* API keys that pass authentication
  Configured,   \* keys of configured integrators
  Quota         \* quota of a key, 0 for unlimited; of an unknown key, the
                \* free tier's

QuotaAssumption == Configured \subseteq Key /\ Quota \in [Key -> Nat]

VARIABLES
  registered,   \* keys with an entry in the map
  used          \* verifications deducted and not refunded

vars == <<registered, used>>

TypeOK ==
  /\ registered \in SUBSET Key
  /\ used \in [Key -> Nat]

Init ==
  /\ registered = Configured
  /\ used = [k \in Key |-> 0]

AllowUnknown == Configured = {}

\* The auto-registration of an unknown key: an insert, which replaces.
AutoRegister(k) ==
  /\ registered' = registered \cup {k}
  /\ used' = [used EXCEPT ![k] = 0]

\* Mutant of HasQuota: off by one.
HasQuotaInclusive(k) == k \in registered /\ (Quota[k] > 0 => used[k] <= Quota[k])

HasQuota(k) == k \in registered /\ (Quota[k] > 0 => used[k] < Quota[k])

\* The comparison and deduction under the entry lock.
Deduct(k) ==
  /\ HasQuota(k)
  /\ used' = [used EXCEPT ![k] = @ + 1]
  /\ UNCHANGED registered

\* Mutant of RefundQuota: the refund is logged and not made.
RefundQuotaLost(k) == UNCHANGED vars

\* refund: a saturating decrement.
RefundQuota(k) ==
  /\ used' = [used EXCEPT ![k] = IF k \in registered /\ @ > 0 THEN @ - 1 ELSE @]
  /\ UNCHANGED registered
==============================================================================
