------------------------------ MODULE Allowance ------------------------------
(***************************************************************************)
(* What a rate limiter promises, without a table that fills, or a sweep    *)
(* that forgets: whoever asks is let through while it owes less than       *)
(* Burst, and only time repays what it owes.                               *)
(***************************************************************************)
EXTENDS Naturals

CONSTANTS Key, Burst

VARIABLE debt

Init == debt = [k \in Key |-> 0]

Admit(k) == debt[k] < Burst /\ debt' = [debt EXCEPT ![k] = @ + 1]

Repay == debt' = [k \in Key |-> IF debt[k] > 0 THEN debt[k] - 1 ELSE 0]

Next == Repay \/ \E k \in Key : Admit(k)

Spec == Init /\ [][Next]_debt
==============================================================================
