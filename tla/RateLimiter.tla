----------------------------- MODULE RateLimiter -----------------------------
(***************************************************************************)
(* auth/rate_limit.rs: RateLimiter, and PerIpRateLimiter, which is the     *)
(* same over addresses.  A map holds a GCRA limiter and a last-seen        *)
(* instant for every key met lately.  The operations are for a caller to   *)
(* compose; `check` is two accesses to the map, with nothing held between  *)
(* them.                                                                   *)
(*                                                                         *)
(* A tick is the time in which a limiter regains one request.  What a      *)
(* limiter has let through and not regained is its debt, Burst at most     *)
(* (Quota::per_minute), so a whole debt takes Burst ticks, which is one    *)
(* minute whatever the rate.                                               *)
(***************************************************************************)
EXTENDS Naturals, FiniteSets

CONSTANTS
  Key,
  MaxTracked,     \* MAX_TRACKED_KEYS, MAX_TRACKED_IPS
  EntryTtl,       \* ENTRY_TTL, IP_ENTRY_TTL: five minutes
  Burst

\* Five minutes are no less than one.
LimiterAssumption ==
  /\ IsFiniteSet(Key)
  /\ MaxTracked \in Nat \ {0} /\ EntryTtl \in Nat /\ Burst \in Nat \ {0}
  /\ Burst <= EntryTtl

VARIABLES
  tracked,        \* the keys of the map
  debt,           \* of a limiter; none for a key without one
  idle            \* ticks since last seen, EntryTtl at most

TypeOK ==
  /\ tracked \in SUBSET Key
  /\ debt \in [Key -> 0 .. Burst]
  /\ idle \in [Key -> 0 .. EntryTtl]
  /\ \A k \in Key \ tracked : debt[k] = 0

Init ==
  /\ tracked = {}
  /\ debt = [k \in Key |-> 0]
  /\ idle = [k \in Key |-> 0]

\* Mutant of RoomFor: the bound is off by one.
RoomForOneMore(k) == k \in tracked \/ Cardinality(tracked) <= MaxTracked

\* The first access: an unknown key is refused when the map is full.
RoomFor(k) == k \in tracked \/ Cardinality(tracked) < MaxTracked

Allows(k) == debt[k] < Burst

\* Mutant of Enter: a limiter that exists is not seen again.
EnterUnseen(k) ==
  /\ tracked' = tracked \cup {k}
  /\ debt' = [debt EXCEPT ![k] = IF Allows(k) THEN @ + 1 ELSE @]
  /\ idle' = idle

\* The second access: find the limiter or make one, and ask it.
Enter(k) ==
  /\ tracked' = tracked \cup {k}
  /\ debt' = [debt EXCEPT ![k] = IF Allows(k) THEN @ + 1 ELSE @]
  /\ idle' = [idle EXCEPT ![k] = 0]

\* The sweep: a limiter that goes takes its debt with it.
EvictStale ==
  LET kept == {k \in tracked : idle[k] < EntryTtl}
  IN /\ tracked' = kept
     /\ debt' = [k \in Key |-> IF k \in kept THEN debt[k] ELSE 0]
     /\ idle' = [k \in Key |-> IF k \in kept THEN idle[k] ELSE 0]

Pass ==
  /\ debt' = [k \in Key |-> IF debt[k] > 0 THEN debt[k] - 1 ELSE 0]
  /\ idle' = [k \in Key |-> IF k \in tracked /\ idle[k] < EntryTtl
                            THEN idle[k] + 1 ELSE idle[k]]
  /\ UNCHANGED tracked
==============================================================================
