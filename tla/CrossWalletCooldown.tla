------------------------- MODULE CrossWalletCooldown -------------------------
(***************************************************************************)
(* auth/cross_wallet_cooldown.rs: the last wallet seen from each footprint *)
(* of a client.  A footprint is the masked subnet and the user agent,      *)
(* hashed; that two of them collide is not in the model.  check_cooldown   *)
(* makes up to three accesses to the map, for a caller to compose.         *)
(***************************************************************************)
EXTENDS Naturals, FiniteSets

CONSTANTS
  Fingerprint,
  Wallet, NoWallet,
  MaxTracked,     \* MAX_TRACKED_FINGERPRINTS
  Cooldown        \* cooldown_duration, in ticks

CooldownAssumption ==
  /\ IsFiniteSet(Fingerprint)
  /\ NoWallet \notin Wallet
  /\ MaxTracked \in Nat \ {0} /\ Cooldown \in Nat

VARIABLES
  holder,         \* the wallet of each entry, NoWallet where there is none
  age             \* ticks since its instant, Cooldown at most

TypeOK ==
  /\ holder \in [Fingerprint -> Wallet \cup {NoWallet}]
  /\ age \in [Fingerprint -> 0 .. Cooldown]

Init ==
  /\ holder = [f \in Fingerprint |-> NoWallet]
  /\ age = [f \in Fingerprint |-> 0]

\* contains_key, then len.
Contains(f) == holder[f] # NoWallet
Full == Cardinality({f \in Fingerprint : Contains(f)}) >= MaxTracked

\* The entry's own access: a new entry, the same wallet, or a cooldown run out.
Permits(f, w) == holder[f] \in {NoWallet, w} \/ age[f] >= Cooldown

\* Mutant of Record: the same wallet does not start the clock again.
RecordUnrefreshed(f, w) ==
  IF Permits(f, w)
  THEN /\ holder' = [holder EXCEPT ![f] = w]
       /\ age' = [age EXCEPT ![f] = IF holder[f] = w THEN @ ELSE 0]
  ELSE UNCHANGED <<holder, age>>

Record(f, w) ==
  IF Permits(f, w)
  THEN /\ holder' = [holder EXCEPT ![f] = w]
       /\ age' = [age EXCEPT ![f] = 0]
  ELSE UNCHANGED <<holder, age>>

EvictStale ==
  LET kept == {f \in Fingerprint : Contains(f) /\ age[f] < Cooldown}
  IN /\ holder' = [f \in Fingerprint |-> IF f \in kept THEN holder[f] ELSE NoWallet]
     /\ age' = [f \in Fingerprint |-> IF f \in kept THEN age[f] ELSE 0]

Pass ==
  /\ age' = [f \in Fingerprint |-> IF Contains(f) /\ age[f] < Cooldown
                                   THEN age[f] + 1 ELSE age[f]]
  /\ UNCHANGED holder
==============================================================================
