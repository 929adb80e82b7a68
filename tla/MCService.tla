----------------------------- MODULE MCService -----------------------------
(***************************************************************************)
(* Three deployments get calls: production, an alternate program beside    *)
(* it, and a development build without a validator.  The others start, or  *)
(* do not: each differs from one of the three in one or two variables.     *)
(***************************************************************************)
EXTENDS Service

CONSTANTS c1, c2

Numbers == [k \in DOMAIN Strict \cup DOMAIN Lenient |->
              IF k = "STUDY_MAX_IN_FLIGHT" THEN 1 ELSE Unset]
Flags == [k \in DOMAIN FlagDefault |-> "unset"]

Production ==
  [environment |-> "prod", release |-> TRUE,
   bundle |-> [given |-> TRUE, for |-> "prod", fails |-> {}],
   relayer |-> "good", listen |-> "public", program |-> "unset",
   apiKeys |-> "unset", integrators |-> "listed", origins |-> "listed",
   authority |-> "unset", pdas |-> FALSE, url |-> TRUE, signature |-> "valid",
   wallets |-> "listed", number |-> Numbers,
   flag |-> [Flags EXCEPT !["EXECUTOR_PAIRED_ENABLED"] = "on"]]

Alternate ==
  [Production EXCEPT !.listen = "loopback", !.program = "alternate", !.flag = Flags]

Development ==
  [Production EXCEPT
     !.environment = "dev", !.release = FALSE, !.bundle = [@ EXCEPT !.given = FALSE],
     !.integrators = "unset", !.apiKeys = "listed", !.origins = "none",
     !.url = FALSE, !.signature = "unset", !.wallets = "unset"]

Baselines == {Production, Alternate, Development}

\* An environment with one variable given another value.
Changed(e) ==
  {[e EXCEPT !.environment = v] : v \in {"dev", "prod", "malformed"}}
    \cup {[e EXCEPT !.release = v] : v \in BOOLEAN}
    \cup {[e EXCEPT !.bundle =
             [given |-> g, for |-> v, fails |-> IF f = "none" THEN {} ELSE {f}]] :
             g \in BOOLEAN, v \in {"dev", "prod"}, f \in {"none", "signature", "id"}}
    \cup {[e EXCEPT !.listen = v] : v \in {"loopback", "public", "malformed"}}
    \cup {[e EXCEPT !.program = v] : v \in {"unset", "alternate", "system", "malformed"}}
    \cup {[e EXCEPT !.apiKeys = v] : v \in {"unset", "listed", "malformed"}}
    \cup {[e EXCEPT !.integrators = v] : v \in {"unset", "listed", "malformed"}}
    \cup {[e EXCEPT !.origins = v] : v \in {"none", "listed", "malformed"}}
    \cup {[e EXCEPT !.authority = v, !.pdas = p] :
             v \in {"unset", "dedicated", "malformed"}, p \in BOOLEAN}
    \cup {[e EXCEPT !.url = u, !.signature = v] :
             u \in BOOLEAN, v \in {"unset", "valid", "invalid"}}
    \cup {[e EXCEPT !.wallets = v] : v \in {"unset", "blank", "commas", "malformed"}}
    \cup {[e EXCEPT !.flag["EXECUTOR_PAIRED_ENABLED"] = v] :
             v \in {"on", "off", "unset", "misspelt"}}
    \cup {[e EXCEPT !.number[k] = v] :
             k \in {"CHALLENGE_TTL_SECS", "STUDY_MAX_IN_FLIGHT",
                    "EXECUTOR_PAIRED_SESSION_CONCURRENCY",
                    "VALIDATION_WALLET_MAX_ATTEMPTS"},
             v \in {Unset, Malformed, 0, 1, 301}}

MCEnvironments ==
  UNION {Changed(e) \cup Changed([e EXCEPT !.pdas = TRUE, !.authority = "dedicated"]) :
           e \in Baselines}

\* Those of the three when they serve.
MCCalled ==
  {[Configured(e) EXCEPT !.attestor = "none",
                         !.cluster = IF e.program = "alternate" THEN "devnet" ELSE @] :
     e \in Baselines}
============================================================================
