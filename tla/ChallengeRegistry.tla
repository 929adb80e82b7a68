-------------------------- MODULE ChallengeRegistry --------------------------
(***************************************************************************)
(* The challenge nonce registry (challenge/registry.rs): the map that      *)
(* GET /challenge fills, /validate-features reads and, for projection 2,   *)
(* consumes by nonce, and /attest consumes through the legacy pointer.     *)
(*                                                                         *)
(* Every operation of the registry runs under the write lock of one        *)
(* wallet's DashMap entry, so each is one action here.  Time is the age    *)
(* of a nonce in whole seconds: `elapsed().as_secs()`, the only reading    *)
(* of the clock the code makes, cut off one second above the lifetime.     *)
(* Nonces are 32 random bytes, taken never to repeat; phrase and curve     *)
(* travel with the nonce and are not told apart from it.                   *)
(***************************************************************************)
EXTENDS Naturals

CONSTANTS
  Wallet,     \* wallets that ask for challenges
  Nonce,      \* the random draws available to a behaviour
  NoWallet,   \* owner of a nonce that was never drawn
  NoNonce,    \* an empty legacy pointer
  Ttl         \* ttl_secs, 1..300 by configuration

ASSUME NoneAssumption == NoWallet \notin Wallet /\ NoNonce \notin Nonce
ASSUME TtlAssumption == Ttl \in Nat \ {0}

VARIABLES
  entries,    \* wallets that have an entry in the DashMap
  current,    \* current_legacy_nonce of each wallet's entry
  byNonce,    \* nonces held by each wallet's entry
  age,        \* seconds since a nonce was issued; frozen when it is removed
  owner,      \* history: the wallet a nonce was issued to
  newest,     \* history: the last nonce issued to a wallet
  accepts     \* history: successful consumptions of a nonce, by path

vars == <<entries, current, byNonce, age, owner, newest, accepts>>

\* The two ways to consume: through the legacy pointer or by exact nonce.
Path == {"legacy", "exact"}

TypeOK ==
  /\ entries \in SUBSET Wallet
  /\ current \in [Wallet -> Nonce \cup {NoNonce}]
  /\ byNonce \in [Wallet -> SUBSET Nonce]
  /\ age \in [Nonce -> 0 .. Ttl + 1]
  /\ owner \in [Nonce -> Wallet \cup {NoWallet}]
  /\ newest \in [Wallet -> Nonce \cup {NoNonce}]
  /\ accepts \in [Nonce -> [Path -> Nat]]

Init ==
  /\ entries = {}
  /\ current = [w \in Wallet |-> NoNonce]
  /\ byNonce = [w \in Wallet |-> {}]
  /\ age = [n \in Nonce |-> 0]
  /\ owner = [n \in Nonce |-> NoWallet]
  /\ newest = [w \in Wallet |-> NoNonce]
  /\ accepts = [n \in Nonce |-> [p \in Path |-> 0]]

------------------------------------------------------------------------------
\* Mutant of Expired: the comparison is off by one.
ExpiredOneLate(n) == age[n] > Ttl + 1

Expired(n) == age[n] > Ttl

Held(n) == \E w \in Wallet : n \in byNonce[w]

\* What prune_stale_wallet leaves of a wallet's nonces and of its pointer.
Kept(w) == {n \in byNonce[w] : ~Expired(n)}
KeptPointer(w) == IF current[w] \in Kept(w) THEN current[w] ELSE NoNonce

\* peek_exact_challenge and peek_challenge: what a lookup without consuming
\* finds.  peek_challenge answers with the challenge the pointer selects.
PeekExact(w, n) == w \in entries /\ n \in byNonce[w] /\ ~Expired(n)
PeekLegacy(w) == IF PeekExact(w, current[w]) THEN current[w] ELSE NoNonce

\* Mutant of Selects: the legacy path forgets to look at the pointer.
SelectsAnyHeld(w, n, path) == w \in entries /\ n \in byNonce[w]

\* Whether consume finds the nonce, and what it then answers.
Selects(w, n, path) ==
  /\ w \in entries
  /\ path = "legacy" => current[w] = n
  /\ n \in byNonce[w]
Accepts(w, n, path) == Selects(w, n, path) /\ ~Expired(n)

\* Mutant of Issue: a wallet keeps one challenge, as before nonces were exact.
IssueOverwrites(w, n) ==
  /\ owner[n] = NoWallet
  /\ entries' = entries \cup {w}
  /\ byNonce' = [byNonce EXCEPT ![w] = {n}]
  /\ current' = [current EXCEPT ![w] = n]
  /\ age' = [age EXCEPT ![n] = 0]
  /\ owner' = [owner EXCEPT ![n] = w]
  /\ newest' = [newest EXCEPT ![w] = n]
  /\ UNCHANGED accepts

\* /challenge: prune the wallet's stale nonces, insert a new one and move the
\* legacy pointer to it.  Earlier unexpired nonces stay.
Issue(w, n) ==
  /\ owner[n] = NoWallet
  /\ entries' = entries \cup {w}
  /\ byNonce' = [byNonce EXCEPT ![w] = Kept(w) \cup {n}]
  /\ current' = [current EXCEPT ![w] = n]
  /\ age' = [age EXCEPT ![n] = 0]
  /\ owner' = [owner EXCEPT ![n] = w]
  /\ newest' = [newest EXCEPT ![w] = n]
  /\ UNCHANGED accepts

\* Mutant of Consume: `get` in place of `remove`.
ConsumeLeavesNonce(w, n, path) ==
  /\ accepts' = IF Accepts(w, n, path) THEN [accepts EXCEPT ![n][path] = @ + 1]
                ELSE accepts
  /\ UNCHANGED <<entries, current, byNonce, age, owner, newest>>

\* validate_and_consume and validate_and_consume_exact: a selected nonce is
\* removed whether or not it is still fresh, and accepted only when it is.
\* A call that selects nothing returns NotFound or NonceMismatch.
Consume(w, n, path) ==
  IF Selects(w, n, path)
  THEN /\ byNonce' = [byNonce EXCEPT ![w] = @ \ {n}]
       /\ current' = [current EXCEPT ![w] = IF @ = n THEN NoNonce ELSE @]
       /\ entries' = IF byNonce[w] = {n} THEN entries \ {w} ELSE entries
       /\ accepts' = IF Expired(n) THEN accepts
                     ELSE [accepts EXCEPT ![n][path] = @ + 1]
       /\ UNCHANGED <<age, owner, newest>>
  ELSE UNCHANGED vars

\* Mutant of EvictStale: the pointer of a pruned wallet is left dangling.
EvictKeepsPointer ==
  /\ byNonce' = [w \in Wallet |-> Kept(w)]
  /\ entries' = {w \in entries : Kept(w) # {}}
  /\ UNCHANGED <<current, age, owner, newest, accepts>>

\* Mutant of EvictStale: empty wallets are dropped, but nothing is pruned.
EvictPrunesNothing ==
  /\ entries' = {w \in entries : byNonce[w] # {}}
  /\ UNCHANGED <<byNonce, current, age, owner, newest, accepts>>

\* The background sweep, every 300 seconds (main.rs).  `retain` goes wallet by
\* wallet; wallets share nothing, so sweeping all at once loses no behaviour
\* that a wallet's requests could tell.
EvictStale ==
  /\ byNonce' = [w \in Wallet |-> Kept(w)]
  /\ current' = [w \in Wallet |-> KeptPointer(w)]
  /\ entries' = {w \in entries : Kept(w) # {}}
  /\ UNCHANGED <<age, owner, newest, accepts>>

\* One second passes for every nonce held.
Pass ==
  /\ age' = [n \in Nonce |-> IF Held(n) /\ ~Expired(n) THEN age[n] + 1
                             ELSE age[n]]
  /\ UNCHANGED <<entries, current, byNonce, owner, newest, accepts>>

\* The process restarts with an empty map.
Restart ==
  /\ entries' = {}
  /\ current' = [w \in Wallet |-> NoNonce]
  /\ byNonce' = [w \in Wallet |-> {}]
  /\ UNCHANGED <<age, owner, newest, accepts>>

Next ==
  \/ \E w \in Wallet, n \in Nonce : Issue(w, n)
  \/ \E w \in Wallet, n \in Nonce, p \in Path : Consume(w, n, p)
  \/ EvictStale
  \/ Pass
  \/ Restart

Spec == Init /\ [][Next]_vars

\* The sweep is a task that loops for the life of the process, and the clock
\* does not stop.  Nothing is assumed of the clients.
Fairness == WF_vars(EvictStale) /\ WF_vars(Pass)
FairSpec == Spec /\ Fairness

------------------------------------------------------------------------------
\* Used by the inductive invariant: a nonce is held only by the wallet it was
\* issued to, entries are the wallets that hold one, and a nonce that is held
\* was never accepted.
HeldByOwner == \A w \in Wallet : \A n \in byNonce[w] : owner[n] = w

\* The map holds an entry for a wallet exactly while the wallet has a nonce:
\* consume and evict_stale leave no empty entry behind, and issue never
\* leaves a nonce without one.
NoEmptyEntry == entries = {w \in Wallet : byNonce[w] # {}}

\* current_legacy_nonce selects the newest nonce issued to the wallet while
\* the registry holds it, and nothing otherwise: a legacy client that asked
\* last is never told NonceMismatch, and consuming or evicting the newest
\* nonce never hands the pointer back to an older one.
PointerIsNewestHeld ==
  \A w \in Wallet :
    current[w] = IF newest[w] \in byNonce[w] THEN newest[w] ELSE NoNonce

\* A nonce is accepted at most once, whichever paths race for it, and only
\* within its lifetime; once accepted the registry holds it no more.
SingleUse ==
  \A n \in Nonce :
    /\ accepts[n]["legacy"] + accepts[n]["exact"] <= 1
    /\ accepts[n]["legacy"] + accepts[n]["exact"] = 1 =>
         ~Held(n) /\ ~Expired(n) /\ owner[n] # NoWallet

\* A nonce overtaken by a later challenge of the same wallet is never accepted
\* through the legacy pointer (the comment of attest_handler: it "remains invalid"),
\* whatever happened to the later one in between.
SupersededStaysInvalid ==
  [][\A n \in Nonce :
       accepts'[n]["legacy"] # accepts[n]["legacy"] =>
         newest[owner[n]] = n]_vars

\* A fresh nonce leaves the registry only by being accepted or by a restart:
\* neither issuing another challenge nor the sweep drops it early.
FreshLeavesByAcceptance ==
  [][Restart \/ \A w \in Wallet : \A n \in Kept(w) :
                   n \in byNonce'[w] \/ accepts'[n] # accepts[n]]_vars

\* Every nonce issued leaves the map in the end, answered or not: the sweep
\* keeps the memory of abandoned challenges bounded.
AbandonedAreEvicted == \A n \in Nonce : Held(n) ~> ~Held(n)

\* The registry keeps the promises of the abstract ledger: the nonces it holds
\* for some wallet are the open ones.
Ledger == INSTANCE NonceLedger WITH open <- {n \in Nonce : Held(n)}
ImplementsLedger == Ledger!Spec
==============================================================================
