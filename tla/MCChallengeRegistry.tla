------------------------- MODULE MCChallengeRegistry -------------------------
(***************************************************************************)
(* Two wallets, three nonces, a lifetime of one second: a wallet can hold  *)
(* nonces of three different ages (fresh, at the lifetime, past it), and   *)
(* an older and a newer nonce of one wallet meet both consuming paths, the *)
(* sweep and a restart in every order.                                     *)
(***************************************************************************)
EXTENDS ChallengeRegistry
==============================================================================
