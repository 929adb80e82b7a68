-------------------------- MODULE CommitmentRegistry --------------------------
(***************************************************************************)
(* The commitments each API key has presented to /verify                   *)
(* (relayer/commitment_registry.rs).  check_and_record holds the entry     *)
(* lock throughout, so it is one action.  Composed by VerifyRelay.         *)
(***************************************************************************)
EXTENDS Naturals, FiniteSets

CONSTANTS
  Key, Commitment,
  MaxCommitments,   \* MAX_COMMITMENTS_PER_KEY
  EntryTtl          \* ENTRY_TTL_SECS, in ticks

RegistryAssumption ==
  /\ MaxCommitments \in Nat \ {0}
  /\ EntryTtl \in Nat \ {0}

VARIABLES
  seen,             \* the commitments recorded for a key, {} without an entry
  idle              \* ticks since the key's last_activity, up to EntryTtl

TypeOK ==
  /\ seen \in [Key -> SUBSET Commitment]
  /\ idle \in [Key -> 0 .. EntryTtl]

Init ==
  /\ seen = [k \in Key |-> {}]
  /\ idle = [k \in Key |-> 0]

\* At capacity the whole set of the key makes room.
Full(k) == Cardinality(seen[k]) >= MaxCommitments

\* Mutant of CheckAndRecord: the set is emptied after the insertion.
CheckAndRecordForgets(k, c) ==
  /\ seen' = [seen EXCEPT ![k] = IF c \in @ THEN @
                                 ELSE IF Full(k) THEN {} ELSE @ \cup {c}]
  /\ idle' = [idle EXCEPT ![k] = 0]

\* check_and_record, which tells whether c was in seen[k].
CheckAndRecord(k, c) ==
  /\ seen' = [seen EXCEPT ![k] = IF c \in @ THEN @
                                 ELSE IF Full(k) THEN {c} ELSE @ \cup {c}]
  /\ idle' = [idle EXCEPT ![k] = 0]

Stale(k) == idle[k] >= EntryTtl

\* Mutant of EvictStale: keeps what it should drop.
EvictActive ==
  /\ seen' = [k \in Key |-> IF Stale(k) THEN seen[k] ELSE {}]
  /\ UNCHANGED idle

\* evict_stale drops the entries of keys without recent activity.
EvictStale ==
  /\ seen' = [k \in Key |-> IF Stale(k) THEN {} ELSE seen[k]]
  /\ UNCHANGED idle

Pass ==
  /\ idle' = [k \in Key |-> IF seen[k] # {} /\ ~Stale(k) THEN idle[k] + 1
                            ELSE idle[k]]
  /\ UNCHANGED seen
===============================================================================
