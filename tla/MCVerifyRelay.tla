----------------------------- MODULE MCVerifyRelay -----------------------------
(***************************************************************************)
(* Two requests under one API key with a quota of one, whose registry has  *)
(* room for one commitment: they present the same commitment, or one       *)
(* displaces the other's.                                                  *)
(***************************************************************************)
EXTENDS VerifyRelay

CONSTANT k1

MCKeyOf == [r \in Req |-> k1]
MCQuota == [k \in Key |-> 1]
================================================================================
