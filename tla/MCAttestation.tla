---------------------------- MODULE MCAttestation ----------------------------
(***************************************************************************)
(* Two requests of one wallet: both read before either lands, or one gives *)
(* up and its transaction lands after the other's.                         *)
(***************************************************************************)
EXTENDS Attestation

CONSTANT w1

MCWalletOf == [r \in Req |-> w1]
================================================================================
