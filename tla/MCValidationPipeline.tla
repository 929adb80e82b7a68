------------------------- MODULE MCValidationPipeline -------------------------
(***************************************************************************)
(* Instances of ValidationPipeline.  All requests share one wallet, one    *)
(* key and one client IP, so that every race is a race, but for those of   *)
(* Second (another wallet).  Each cfg chooses the mix of requests that its *)
(* question needs.                                                         *)
(***************************************************************************)
EXTENDS ValidationPipeline

CONSTANTS
  Plain, Signed, Session,   \* the requests, by kind
  w1, w2, Second,           \* requests of w2; the others are of w1
  k1,
  i1,
  Limit                     \* the quota of k1

MCReq == Plain \cup Signed \cup Session
MCKindOf == [r \in MCReq |-> CASE r \in Plain -> "plain"
                               [] r \in Signed -> "signed"
                               [] r \in Session -> "session"]
MCWalletOf == [r \in MCReq |-> IF r \in Second THEN w2 ELSE w1]
MCKeyOf == [r \in MCReq |-> k1]
MCIpOf == [r \in MCReq |-> i1]
MCQuota == [k \in Key |-> Limit]

OnlyValidator == {[validator |-> TRUE, required |-> FALSE]}
WithValidator == [validator : {TRUE}, required : BOOLEAN]
AnyConfig == [validator : BOOLEAN, required : BOOLEAN]
===============================================================================
