----------------------------- MODULE NonceLedger -----------------------------
(***************************************************************************)
(* What the challenge registry promises its callers, without wallets'      *)
(* entries, pointers or sweeps: a ledger of single-use nonces.  A nonce is *)
(* drawn for one wallet, stands open, and is closed once, either by being  *)
(* accepted while fresh, or without being accepted.                        *)
(***************************************************************************)
EXTENDS Naturals

CONSTANTS Wallet, Nonce, NoWallet, NoNonce, Ttl

VARIABLES
  open,      \* nonces that may still be accepted
  owner,     \* the wallet a nonce was drawn for
  newest,    \* the last nonce drawn for a wallet
  age,       \* seconds a nonce has stood open
  accepts    \* how often a nonce was accepted, by path

vars == <<open, owner, newest, age, accepts>>

Init ==
  /\ open = {}
  /\ owner = [n \in Nonce |-> NoWallet]
  /\ newest = [w \in Wallet |-> NoNonce]
  /\ age = [n \in Nonce |-> 0]
  /\ accepts = [n \in Nonce |-> [p \in {"legacy", "exact"} |-> 0]]

Fresh == {n \in open : age[n] <= Ttl}

\* Only nonces past their lifetime close of themselves.
Lapse(open2) == open2 \subseteq open /\ Fresh \subseteq open2

\* A wallet draws a nonce; any nonces past their lifetime may close with it.
Draw(w, n) ==
  /\ owner[n] = NoWallet
  /\ \E kept \in SUBSET open : Lapse(kept) /\ open' = kept \cup {n}
  /\ owner' = [owner EXCEPT ![n] = w]
  /\ newest' = [newest EXCEPT ![w] = n]
  /\ age' = [age EXCEPT ![n] = 0]
  /\ UNCHANGED accepts

\* The owner spends a fresh nonce; through the legacy path only its newest.
Accept(n, path) ==
  /\ n \in Fresh
  /\ path = "legacy" => newest[owner[n]] = n
  /\ open' = open \ {n}
  /\ accepts' = [accepts EXCEPT ![n][path] = @ + 1]
  /\ UNCHANGED <<owner, newest, age>>

Close ==
  /\ open' \in SUBSET open /\ Lapse(open')
  /\ UNCHANGED <<owner, newest, age, accepts>>

Pass ==
  /\ age' = [n \in Nonce |-> IF n \in Fresh THEN age[n] + 1 ELSE age[n]]
  /\ UNCHANGED <<open, owner, newest, accepts>>

\* A restart closes everything.
Forget ==
  /\ open' = {}
  /\ UNCHANGED <<owner, newest, age, accepts>>

Next ==
  \/ \E w \in Wallet, n \in Nonce : Draw(w, n)
  \/ \E n \in Nonce, path \in {"legacy", "exact"} : Accept(n, path)
  \/ Close
  \/ Pass
  \/ Forget

Spec == Init /\ [][Next]_vars
==============================================================================
