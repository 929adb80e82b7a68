----------------------- MODULE ChallengeRegistryProofs -----------------------
(***************************************************************************)
(* The invariants of the challenge registry for any wallets, any nonces    *)
(* and any lifetime, and the step simulation that shows the registry to be *)
(* an implementation of the single-use ledger.                             *)
(***************************************************************************)
EXTENDS ChallengeRegistry, TLAPS

\* No property is inductive alone: a nonce cannot be accepted twice because
\* an accepted nonce is not held, which survives later challenges only because
\* a nonce is drawn once and held by the wallet that drew it; the pointer is
\* the newest held nonce because no later consumption can disturb another
\* wallet's pointer.
IInv ==
  /\ TypeOK
  /\ HeldByOwner
  /\ NoEmptyEntry
  /\ PointerIsNewestHeld
  /\ SingleUse

LEMMA InitIInv == Init => IInv
<1> SUFFICES ASSUME Init PROVE IInv
  OBVIOUS
<1>1. TypeOK
  BY TtlAssumption DEF Init, TypeOK, Path
<1>2. HeldByOwner /\ NoEmptyEntry /\ PointerIsNewestHeld
  BY DEF Init, HeldByOwner, NoEmptyEntry, PointerIsNewestHeld
<1>3. SingleUse
  BY DEF Init, SingleUse, Path, Held
<1> QED
  BY <1>1, <1>2, <1>3 DEF IInv

LEMMA IssueIInv ==
  ASSUME IInv, NEW w \in Wallet, NEW n \in Nonce, Issue(w, n)
  PROVE  IInv'
<1> USE DEF IInv, Issue, Kept
<1>1. TypeOK'
  BY TtlAssumption DEF TypeOK
<1>2. \A v \in Wallet : n \notin byNonce[v]
  BY NoneAssumption DEF HeldByOwner
<1>3. HeldByOwner'
  <2> SUFFICES ASSUME NEW v \in Wallet, NEW m \in byNonce'[v]
               PROVE  owner'[m] = v
    BY DEF HeldByOwner
  <2>1. CASE m = n
    BY <1>2, <2>1 DEF TypeOK
  <2>2. CASE m # n
    BY <2>2 DEF TypeOK, HeldByOwner
  <2> QED
    BY <2>1, <2>2
<1>4. NoEmptyEntry'
  BY DEF TypeOK, NoEmptyEntry
<1>5. PointerIsNewestHeld'
  BY NoneAssumption DEF TypeOK, PointerIsNewestHeld
<1>6. SingleUse'
  <2> SUFFICES ASSUME NEW m \in Nonce
               PROVE  /\ accepts[m]["legacy"] + accepts[m]["exact"] <= 1
                      /\ accepts[m]["legacy"] + accepts[m]["exact"] = 1 =>
                           ~Held(m)' /\ ~Expired(m)' /\ owner'[m] # NoWallet
    BY DEF SingleUse
  <2>1. CASE m = n
    BY <2>1 DEF SingleUse
  <2>2. CASE m # n
    BY <2>2 DEF TypeOK, SingleUse, Held, Expired
  <2> QED
    BY <2>1, <2>2
<1> QED
  BY <1>1, <1>3, <1>4, <1>5, <1>6

LEMMA ConsumeIInv ==
  ASSUME IInv, NEW w \in Wallet, NEW n \in Nonce, NEW p \in Path,
         Selects(w, n, p), Consume(w, n, p)
  PROVE  IInv'
<1> USE DEF IInv, Consume, Selects
<1>1. accepts[n]["legacy"] + accepts[n]["exact"] = 0
  <2>1. accepts[n]["legacy"] \in Nat /\ accepts[n]["exact"] \in Nat
    BY DEF TypeOK, Path
  <2>2. Held(n)
    BY DEF Held
  <2> QED
    BY <2>1, <2>2 DEF SingleUse
<1>2. TypeOK'
  BY DEF TypeOK, Path
<1>3. HeldByOwner'
  BY DEF TypeOK, HeldByOwner
<1>4. NoEmptyEntry'
  BY DEF TypeOK, NoEmptyEntry
<1>5. PointerIsNewestHeld'
  BY NoneAssumption DEF TypeOK, PointerIsNewestHeld
<1>6. SingleUse'
  <2> SUFFICES ASSUME NEW m \in Nonce
               PROVE  /\ accepts'[m]["legacy"] + accepts'[m]["exact"] <= 1
                      /\ accepts'[m]["legacy"] + accepts'[m]["exact"] = 1 =>
                           ~Held(m)' /\ ~Expired(m)' /\ owner'[m] # NoWallet
    BY DEF SingleUse
  <2>1. CASE m = n
    <3>1. ~Held(n)'
      BY DEF TypeOK, HeldByOwner, Held
    <3>2. owner[n] = w /\ w # NoWallet
      BY NoneAssumption DEF HeldByOwner
    <3>3. accepts'[n]["legacy"] + accepts'[n]["exact"] =
            IF Expired(n) THEN 0 ELSE 1
      BY <1>1 DEF TypeOK, Path
    <3> QED
      BY <2>1, <3>1, <3>2, <3>3 DEF Expired
  <2>2. CASE m # n
    BY <2>2 DEF TypeOK, SingleUse, Held, Expired
  <2> QED
    BY <2>1, <2>2
<1> QED
  BY <1>2, <1>3, <1>4, <1>5, <1>6

LEMMA EvictStaleIInv ==
  ASSUME IInv, EvictStale
  PROVE  IInv'
<1> USE DEF IInv, EvictStale, Kept, KeptPointer
<1>1. TypeOK'
  BY DEF TypeOK
<1>2. HeldByOwner'
  BY DEF TypeOK, HeldByOwner
<1>3. NoEmptyEntry'
  BY DEF TypeOK, NoEmptyEntry
<1>4. PointerIsNewestHeld'
  BY NoneAssumption DEF TypeOK, PointerIsNewestHeld
<1>5. SingleUse'
  BY DEF TypeOK, SingleUse, Held, Expired
<1> QED
  BY <1>1, <1>2, <1>3, <1>4, <1>5

LEMMA PassIInv ==
  ASSUME IInv, Pass
  PROVE  IInv'
<1> USE DEF IInv, Pass
<1>1. TypeOK'
  BY TtlAssumption DEF TypeOK, Expired
<1>2. HeldByOwner' /\ NoEmptyEntry' /\ PointerIsNewestHeld'
  BY DEF HeldByOwner, NoEmptyEntry, PointerIsNewestHeld
<1>3. SingleUse'
  BY DEF TypeOK, SingleUse, Held, Expired
<1> QED
  BY <1>1, <1>2, <1>3

LEMMA RestartIInv ==
  ASSUME IInv, Restart
  PROVE  IInv'
<1> USE DEF IInv, Restart
<1>1. TypeOK'
  BY DEF TypeOK
<1>2. HeldByOwner' /\ NoEmptyEntry' /\ PointerIsNewestHeld'
  BY DEF HeldByOwner, NoEmptyEntry, PointerIsNewestHeld
<1>3. SingleUse'
  BY DEF TypeOK, SingleUse, Held, Expired
<1> QED
  BY <1>1, <1>2, <1>3

LEMMA StutterIInv ==
  ASSUME IInv, UNCHANGED vars
  PROVE  IInv'
BY DEF IInv, vars, TypeOK, HeldByOwner, NoEmptyEntry, PointerIsNewestHeld,
       SingleUse, Held, Expired

LEMMA NextIInv == IInv /\ [Next]_vars => IInv'
<1> SUFFICES ASSUME IInv, [Next]_vars PROVE IInv'
  OBVIOUS
<1>1. ASSUME NEW w \in Wallet, NEW n \in Nonce, Issue(w, n)
      PROVE  IInv'
  BY <1>1, IssueIInv
<1>2. ASSUME NEW w \in Wallet, NEW n \in Nonce, NEW p \in Path,
             Consume(w, n, p)
      PROVE  IInv'
  <2>1. CASE Selects(w, n, p)
    BY <1>2, <2>1, ConsumeIInv
  <2>2. CASE ~Selects(w, n, p)
    BY <1>2, <2>2, StutterIInv DEF Consume
  <2> QED
    BY <2>1, <2>2
<1> QED
  BY <1>1, <1>2, EvictStaleIInv, PassIInv, RestartIInv, StutterIInv DEF Next

\* The strengthened invariant holds of every behaviour of the registry.
LEMMA RegistryInvariant == Spec => []IInv
BY InitIInv, NextIInv, PTL DEF Spec

\* Every variable keeps its type; an age never passes one second over the
\* lifetime, which is where the code's comparisons stop telling ages apart.
THEOREM RegistryTypeOK == Spec => []TypeOK
BY RegistryInvariant, PTL DEF IInv

\* No nonce is accepted twice or late, by either path (consume).
THEOREM NonceIsSingleUse == Spec => []SingleUse
BY RegistryInvariant, PTL DEF IInv

\* The legacy pointer is the newest nonce held, and the map holds no empty
\* entry, after every issue, consumption and sweep.
THEOREM PointerAndEntries == Spec => [](PointerIsNewestHeld /\ NoEmptyEntry)
BY RegistryInvariant, PTL DEF IInv

\* A nonce accepted through the legacy pointer is the newest of its wallet at
\* that moment: a superseded nonce stays invalid (the comment in
\* attest_handler), even after the newer one was consumed by exact nonce or
\* evicted.
THEOREM SupersededNonceStaysInvalid == Spec => SupersededStaysInvalid
<1>1. ASSUME IInv, [Next]_vars, NEW n \in Nonce,
             accepts'[n]["legacy"] # accepts[n]["legacy"]
      PROVE  newest[owner[n]] = n
  <2>1. PICK w \in Wallet, m \in Nonce, p \in Path : Consume(w, m, p)
    BY <1>1 DEF Next, Issue, EvictStale, Pass, Restart, vars
  <2>2. Selects(w, m, p) /\ m = n /\ p = "legacy"
    BY <1>1, <2>1 DEF IInv, TypeOK, Consume, vars, Path
  <2> QED
    BY <1>1, <2>2, NoneAssumption
       DEF IInv, Selects, HeldByOwner, PointerIsNewestHeld
<1>2. IInv /\ [Next]_vars =>
        [\A n \in Nonce : accepts'[n]["legacy"] # accepts[n]["legacy"] =>
           newest[owner[n]] = n]_vars
  BY <1>1
<1> QED
  BY <1>2, RegistryInvariant, PTL DEF Spec, SupersededStaysInvalid

\* FreshLeavesByAcceptance: a fresh nonce leaves the map of its wallet by being
\* accepted, whatever challenge is issued next and whenever the sweep comes
\* (issue and evict_stale prune by age alone); a restart forgets them all.
THEOREM FreshNonceLeavesByAcceptance == Spec => FreshLeavesByAcceptance
<1>1. ASSUME IInv, [Next]_vars, ~Restart,
             NEW v \in Wallet, NEW m \in Kept(v), m \notin byNonce'[v]
      PROVE  accepts'[m] # accepts[m]
  <2>1. m \in Nonce /\ m \in byNonce[v] /\ ~Expired(m)
    BY <1>1 DEF Kept, IInv, TypeOK
  <2>2. PICK w \in Wallet, n \in Nonce, p \in Path : Consume(w, n, p)
    <3>1. ASSUME NEW w \in Wallet, NEW n \in Nonce, Issue(w, n)
          PROVE  FALSE
      BY <1>1, <2>1, <3>1 DEF Issue, IInv, TypeOK
    <3>2. ~EvictStale
      BY <1>1 DEF EvictStale
    <3>3. ~Pass /\ vars' # vars
      BY <1>1, <2>1 DEF Pass, vars
    <3>4. QED
      BY <1>1, <3>1, <3>2, <3>3 DEF Next
  <2>3. Selects(w, n, p) /\ v = w /\ m = n
    BY <1>1, <2>1, <2>2 DEF Consume, vars, IInv, TypeOK
  <2>4. accepts' = [accepts EXCEPT ![n][p] = @ + 1]
    BY <2>1, <2>2, <2>3 DEF Consume
  <2>5. accepts[n] \in [Path -> Nat] /\ accepts'[n] = [accepts[n] EXCEPT ![p] = @ + 1]
    BY <1>1, <2>4 DEF IInv, TypeOK
  <2>6. accepts'[n][p] = accepts[n][p] + 1 /\ accepts[n][p] \in Nat
    BY <2>5
  <2>7. QED
    BY <2>3, <2>6
<1>2. IInv /\ [Next]_vars =>
        [Restart \/ \A w \in Wallet : \A n \in Kept(w) :
                      n \in byNonce'[w] \/ accepts'[n] # accepts[n]]_vars
  BY <1>1
<1> QED
  BY <1>2, RegistryInvariant, PTL DEF Spec, FreshLeavesByAcceptance

------------------------------------------------------------------------------
(***************************************************************************)
(* What a step never does to a nonce once it is drawn: facts for whoever   *)
(* shares the registry with others.                                        *)
(***************************************************************************)

\* The draw is the last time a nonce changes hands; a look-up that fails for
\* it fails ever after; and an accepted nonce is never accepted again.
DrawnIsFixed ==
  [][\A n \in Nonce : owner[n] # NoWallet =>
       /\ owner'[n] = owner[n]
       /\ \A w \in Wallet : PeekExact(w, n)' => PeekExact(w, n)
       /\ accepts[n]["legacy"] + accepts[n]["exact"] = 1 =>
            accepts'[n] = accepts[n]]_vars

LEMMA DrawnNonce ==
  ASSUME IInv, [Next]_vars, NEW n \in Nonce, owner[n] # NoWallet
  PROVE  /\ owner'[n] = owner[n]
         /\ \A w \in Wallet : PeekExact(w, n)' => PeekExact(w, n)
         /\ accepts[n]["legacy"] + accepts[n]["exact"] = 1 =>
              accepts'[n] = accepts[n]
<1> DEFINE Fixed == /\ owner'[n] = owner[n]
                    /\ \A w \in Wallet : PeekExact(w, n)' => PeekExact(w, n)
                    /\ accepts[n]["legacy"] + accepts[n]["exact"] = 1 =>
                         accepts'[n] = accepts[n]
<1> USE DEF IInv, PeekExact
<1>1. ASSUME NEW w \in Wallet, NEW m \in Nonce, Issue(w, m)
      PROVE  Fixed
  <2>1. m # n
    BY <1>1 DEF Issue
  <2>2. owner'[n] = owner[n] /\ age'[n] = age[n] /\ accepts' = accepts
    BY <1>1, <2>1 DEF Issue, TypeOK
  <2>3. \A v \in Wallet : n \in byNonce'[v] => n \in byNonce[v]
    BY <1>1, <2>1 DEF Issue, Kept, TypeOK
  <2>4. QED
    BY <2>2, <2>3 DEF NoEmptyEntry, Expired
<1>2. ASSUME NEW w \in Wallet, NEW m \in Nonce, NEW p \in Path,
             Consume(w, m, p), Selects(w, m, p)
      PROVE  Fixed
  <2>1. UNCHANGED <<age, owner>> /\ entries' \subseteq entries
    BY <1>2 DEF Consume
  <2>2. \A v \in Wallet : byNonce'[v] \subseteq byNonce[v]
    BY <1>2 DEF Consume, TypeOK
  <2>3. accepts[n]["legacy"] + accepts[n]["exact"] = 1 => m # n
    BY <1>2 DEF Selects, SingleUse, Held
  <2>4. m # n => accepts'[n] = accepts[n]
    BY <1>2 DEF Consume, TypeOK
  <2>5. QED
    BY <2>1, <2>2, <2>3, <2>4 DEF Expired
<1>3. CASE EvictStale
  BY <1>3 DEF EvictStale, Kept, Expired
<1>4. CASE Pass
  BY <1>4, TtlAssumption DEF Pass, Expired, TypeOK
<1>5. CASE Restart
  BY <1>5 DEF Restart
<1>6. CASE UNCHANGED vars
  BY <1>6 DEF vars, Expired
<1>7. QED
  BY <1>1, <1>2, <1>3, <1>4, <1>5, <1>6 DEF Next, Consume

\* Both halves are what a request relies on that looks a challenge up and
\* consumes it much later: nothing that happened in between can have made the
\* nonce another wallet's or given it back.
THEOREM DrawnNonceIsFixed == Spec => DrawnIsFixed
<1>1. IInv /\ [Next]_vars =>
        [\A n \in Nonce : owner[n] # NoWallet =>
           /\ owner'[n] = owner[n]
           /\ \A w \in Wallet : PeekExact(w, n)' => PeekExact(w, n)
           /\ accepts[n]["legacy"] + accepts[n]["exact"] = 1 =>
                accepts'[n] = accepts[n]]_vars
  BY DrawnNonce
<1> QED
  BY <1>1, RegistryInvariant, PTL DEF Spec, DrawnIsFixed

------------------------------------------------------------------------------
(***************************************************************************)
(* Step simulation.                                                        *)
(***************************************************************************)

\* A consumption that selects a nonce removes exactly that nonce from the set
\* of held ones: no other wallet's entry holds it.
LEMMA ConsumeClosesOne ==
  ASSUME IInv, NEW w \in Wallet, NEW n \in Nonce, NEW p \in Path,
         Selects(w, n, p), Consume(w, n, p)
  PROVE  {m \in Nonce : Held(m)}' = {m \in Nonce : Held(m)} \ {n}
<1> USE DEF IInv, Consume, Selects, Held
<1>1. ASSUME NEW m \in Nonce, m # n
      PROVE  Held(m)' <=> Held(m)
  <2>1. \A v \in Wallet : m \in byNonce'[v] <=> m \in byNonce[v]
    BY <1>1 DEF TypeOK
  <2> QED
    BY <2>1
<1>2. ~Held(n)'
  BY DEF TypeOK, HeldByOwner
<1> QED
  BY <1>1, <1>2

\* An accepting consumption is the ledger's Accept.
LEMMA ConsumeSimulation ==
  ASSUME IInv, NEW w \in Wallet, NEW n \in Nonce, NEW p \in Path,
         Selects(w, n, p), Consume(w, n, p)
  PROVE  Ledger!Accept(n, p) \/ Ledger!Close
<1>1. {m \in Nonce : Held(m)}' = {m \in Nonce : Held(m)} \ {n}
  BY ConsumeClosesOne
<1>2. UNCHANGED <<age, owner, newest>>
  BY DEF Consume
<1>3. age[n] \in Nat /\ Ttl \in Nat
  BY TtlAssumption DEF IInv, TypeOK
<1>4. CASE Expired(n)
  <2>1. accepts' = accepts
    BY <1>4 DEF Consume
  <2> QED
    BY <1>1, <1>2, <1>3, <1>4, <2>1
       DEF Ledger!Close, Ledger!Lapse, Ledger!Fresh, Expired
<1>5. CASE ~Expired(n)
  <2>1. n \in Ledger!Fresh
    BY <1>3, <1>5 DEF Selects, Held, Ledger!Fresh, Expired
  <2>2. p = "legacy" => newest[owner[n]] = n
    BY NoneAssumption
       DEF IInv, Selects, HeldByOwner, PointerIsNewestHeld
  <2>3. accepts' = [accepts EXCEPT ![n][p] = @ + 1]
    BY <1>5 DEF Consume, Selects
  <2> QED
    BY <1>1, <1>2, <2>1, <2>2, <2>3 DEF Ledger!Accept
<1> QED
  BY <1>4, <1>5

\* Issuing is the ledger's Draw, closing the wallet's stale nonces with it.
LEMMA IssueSimulation ==
  ASSUME IInv, NEW w \in Wallet, NEW n \in Nonce, Issue(w, n)
  PROVE  Ledger!Draw(w, n)
<1> DEFINE was == {m \in Nonce : Held(m)}
           kept == {m \in was : ~(owner[m] = w /\ Expired(m))}
<1> USE DEF IInv
<1>1. kept \subseteq was /\ Ledger!Fresh \subseteq kept
  BY TtlAssumption DEF TypeOK, Ledger!Fresh, Expired
<1>2. ASSUME NEW m \in Nonce
      PROVE  Held(m)' <=> m \in kept \/ m = n
  BY DEF TypeOK, HeldByOwner, Held, Issue, Kept
<1>3. was' = kept \cup {n}
  BY <1>2
<1>4. \E k \in SUBSET was : Ledger!Lapse(k) /\ was' = k \cup {n}
  BY <1>1, <1>3 DEF Ledger!Lapse
<1> QED
  BY <1>4 DEF Issue, Ledger!Draw

\* The sweep closes nonces past their lifetime only.
LEMMA EvictSimulation ==
  ASSUME IInv, EvictStale
  PROVE  Ledger!Close
BY TtlAssumption
   DEF IInv, TypeOK, EvictStale, Kept, Held, Expired,
       Ledger!Close, Ledger!Lapse, Ledger!Fresh

LEMMA PassSimulation ==
  ASSUME IInv, Pass
  PROVE  Ledger!Pass
<1>1. {n \in Nonce : Held(n)}' = {n \in Nonce : Held(n)}
  BY DEF Pass, Held
<1> QED
  BY <1>1, TtlAssumption
     DEF IInv, TypeOK, Pass, Expired, Ledger!Pass, Ledger!Fresh

LEMMA RestartSimulation ==
  ASSUME Restart
  PROVE  Ledger!Forget
BY DEF Restart, Held, Ledger!Forget

LEMMA NextSimulation == IInv /\ [Next]_vars => [Ledger!Next]_(Ledger!vars)
<1> SUFFICES ASSUME IInv, [Next]_vars PROVE [Ledger!Next]_(Ledger!vars)
  OBVIOUS
<1>1. ASSUME UNCHANGED vars
      PROVE  UNCHANGED Ledger!vars
  BY <1>1 DEF vars, Ledger!vars, Held
<1>2. ASSUME NEW w \in Wallet, NEW n \in Nonce, Issue(w, n)
      PROVE  Ledger!Next
  BY <1>2, IssueSimulation DEF Ledger!Next
<1>3. ASSUME NEW w \in Wallet, NEW n \in Nonce, NEW p \in Path,
             Consume(w, n, p)
      PROVE  Ledger!Next \/ UNCHANGED Ledger!vars
  <2>1. CASE Selects(w, n, p)
    BY <1>3, <2>1, ConsumeSimulation DEF Ledger!Next, Path
  <2>2. CASE ~Selects(w, n, p)
    BY <1>1, <1>3, <2>2 DEF Consume
  <2> QED
    BY <2>1, <2>2
<1> QED
  BY <1>1, <1>2, <1>3, EvictSimulation, PassSimulation, RestartSimulation
     DEF Next, Ledger!Next

\* The registry implements the single-use ledger: what a caller can observe
\* of nonces is a behaviour of NonceLedger.
THEOREM RegistryImplementsLedger == Spec => ImplementsLedger
<1>1. Init => Ledger!Init
  BY DEF Init, Ledger!Init, Path, Held
<1> QED
  BY <1>1, RegistryInvariant, NextSimulation, PTL
     DEF Spec, ImplementsLedger, Ledger!Spec
==============================================================================
