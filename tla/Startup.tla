------------------------------- MODULE Startup -------------------------------
(***************************************************************************)
(* From an environment to a served deployment: Config::from_env            *)
(* (config.rs) and the checks of main (main.rs), in their order, with the  *)
(* three reads of the Solana RPC that stand between them.  Each of those   *)
(* answers is a choice.                                                    *)
(*                                                                         *)
(* An environment is a record of the variables that are set, each by what  *)
(* its parser tells apart; `number` and `flag` hold the numeric and the    *)
(* boolean ones under their names.  A bundle of scoring weights names the  *)
(* environment it was signed for and the checks it fails.                  *)
(***************************************************************************)
EXTENDS Integers

CONSTANTS
  Environments,     \* the environments the process may be started in
  MaxU32, MaxU64    \* the widths of the numeric variables, made small

VARIABLES
  stage,    \* how far main is
  config    \* what from_env returned, and what main found out since

startVars == <<stage, config>>

Unset == -1
Malformed == -2

\* Read strictly: a value out of range, or not a number, stops the process.
Strict ==
  [RATE_LIMIT_PER_MINUTE |-> [least |-> 0, most |-> MaxU32, default |-> 60],
   STUDY_RATE_LIMIT_PER_MINUTE |-> [least |-> 1, most |-> 10000, default |-> 600],
   STUDY_MAX_IN_FLIGHT |-> [least |-> 1, most |-> 256, default |-> 32],
   EXECUTOR_PER_IP_RATE_LIMIT_PER_MIN |-> [least |-> 0, most |-> MaxU32, default |-> 30],
   CHALLENGE_TTL_SECS |-> [least |-> 1, most |-> 300, default |-> 180],
   EXECUTOR_PAIRED_SESSION_CONCURRENCY |-> [least |-> 1, most |-> 128, default |-> 16]]

\* Read leniently: anything but a number of that width is the default.
Lenient ==
  [SAS_ATTESTATION_TTL_DAYS |-> [most |-> MaxU64, default |-> 30],
   VALIDATION_WALLET_MAX_ATTEMPTS |-> [most |-> 255, default |-> 5],
   VALIDATION_WALLET_WINDOW_SECS |-> [most |-> MaxU64, default |-> 3600],
   VALIDATION_CROSS_WALLET_COOLDOWN_SECS |-> [most |-> MaxU64, default |-> 86400]]

\* parse_bool: a spelling it does not know is the default.
FlagDefault ==
  [EXECUTOR_AUTOMATION_OBSERVE |-> TRUE,
   EXECUTOR_AUTOMATION_WEBDRIVER_REJECT |-> TRUE,
   EXECUTOR_WALLET_REPUTATION_OBSERVE |-> TRUE,
   EXECUTOR_CURVE_TRACE_OBSERVE |-> TRUE,
   VALIDATION_CROSS_WALLET_COOLDOWN_ENFORCE |-> FALSE,
   EXECUTOR_PAIRED_ENABLED |-> FALSE]

ReadStrictly(e, k) ==
  IF e.number[k] = Unset THEN Strict[k].default ELSE e.number[k]

InRange(e, k) == ReadStrictly(e, k) \in Strict[k].least .. Strict[k].most

ReadLeniently(e, k) ==
  IF e.number[k] \in 0 .. Lenient[k].most THEN e.number[k] ELSE Lenient[k].default

ParseBool(e, k) ==
  CASE e.flag[k] = "on" -> TRUE
    [] e.flag[k] = "off" -> FALSE
    [] OTHER -> FlagDefault[k]

------------------------------------------------------------------------------
IsProd(e) == e.environment = "prod"

\* What resolve_scoring_config may find wrong with a bundle, in its order.
BundleChecks ==
  {"size", "ascii", "pair", "canonical", "length", "signature", "schema",
   "service", "cluster", "revision", "nonce", "policy", "id"}

\* Mutant of ResolvesScoring: a bundle is not bound to its environment.
ResolvesScoringUnbound(e) ==
  IF e.bundle.given THEN e.bundle.fails = {} ELSE ~IsProd(e)

\* resolve_scoring_config: a bundle passes every check, and is for this
\* environment; only development does without.
ResolvesScoring(e) ==
  IF e.bundle.given
  THEN e.bundle.fails = {} /\ e.bundle.for = e.environment
  ELSE ~IsProd(e)

\* resolve_validation_identity_program.
ResolvesProgram(e) ==
  /\ e.program \notin {"malformed", "system"}
  /\ e.program = "alternate" => e.listen = "loopback" /\ IsProd(e)

\* parse_cors_origins.
ParsesOrigins(e) ==
  /\ e.origins # "malformed"
  /\ IsProd(e) => e.origins = "listed"

\* Everything from_env may refuse.
FromEnvAccepts(e) ==
  /\ e.environment \in {"dev", "prod"}
  /\ e.release => IsProd(e)
  /\ ResolvesScoring(e)
  /\ e.relayer = "good"
  /\ e.listen # "malformed"
  /\ ResolvesProgram(e)
  /\ e.apiKeys # "malformed" /\ e.integrators # "malformed"
  /\ ParsesOrigins(e)
  /\ e.authority # "malformed"
  /\ \A k \in DOMAIN Strict : InRange(e, k)
  /\ e.wallets # "malformed"

\* The keys clients may use: those of API_KEYS or, there being none, those of
\* the integrators.
AcceptedKeys(e) ==
  IF e.apiKeys = "listed" \/ e.integrators = "listed" THEN "some" ELSE "none"

\* parse_paired_wallets: a blank list admits every wallet, one of nothing but
\* commas none.
AdmittedWallets(e) ==
  CASE e.wallets \in {"unset", "blank"} -> "all"
    [] e.wallets = "commas" -> "none"
    [] OTHER -> "listed"

Configured(e) ==
  [prod |-> IsProd(e),
   release |-> e.release,
   signedPolicy |-> e.bundle.given,
   policyFor |-> IF e.bundle.given THEN e.bundle.for ELSE "dev",
   alternate |-> e.program = "alternate",
   loopback |-> e.listen = "loopback",
   keys |-> AcceptedKeys(e),
   named |-> e.integrators = "listed",
   anyOrigin |-> e.origins = "none",
   wallets |-> AdmittedWallets(e),
   number |-> [k \in DOMAIN Strict |-> ReadStrictly(e, k)],
   lenient |-> [k \in DOMAIN Lenient |-> ReadLeniently(e, k)],
   flag |-> [k \in DOMAIN FlagDefault |-> ParseBool(e, k)],
   url |-> e.url,
   signature |-> e.signature,
   pdas |-> e.pdas,
   dedicated |-> e.authority = "dedicated",
   cluster |-> "unread",
   attestor |-> "unread",
   signer |-> "unread"]

Down == [prod |-> FALSE]

------------------------------------------------------------------------------
StartInit == stage = "down" /\ config = Down

\* The process ends, whatever it was doing.
Exit == stage' = "down" /\ config' = Down

FromEnv ==
  /\ stage = "down"
  /\ \E e \in Environments : FromEnvAccepts(e) /\ config' = Configured(e)
  /\ stage' = "cluster"

\* require_devnet, for an alternate program only.
RequireDevnet ==
  /\ stage = "cluster"
  /\ \/ /\ ~config.alternate
        /\ stage' = "balance" /\ UNCHANGED config
     \/ /\ config.alternate
        /\ \E genesis \in {"devnet", "other", "unreachable"} :
             IF genesis = "devnet"
             THEN /\ stage' = "balance"
                  /\ config' = [config EXCEPT !.cluster = genesis]
             ELSE Exit

ReadBalance ==
  /\ stage = "balance"
  /\ \/ stage' = "checks" /\ UNCHANGED config
     \/ Exit

\* Integrators are listed, and the address of the validator is signed: in
\* production both are, elsewhere a signature that is there must hold.
SignatureHolds ==
  IF config.url
  THEN \/ config.signature = "valid"
       \/ config.signature = "unset" /\ ~config.prod
  ELSE ~config.prod

CheckConfig ==
  /\ stage = "checks"
  /\ IF (config.prod => config.named) /\ SignatureHolds
     THEN stage' = "attestor" /\ UNCHANGED config
     ELSE Exit

\* The attestor, if there is to be one: its authority, and what the credential
\* says of it.  Only an answer stops production; no answer stops nobody.
InitAttestor ==
  /\ stage = "attestor"
  /\ \/ /\ ~config.pdas
        /\ config' = [config EXCEPT !.attestor = "none"]
        /\ stage' = "bind"
     \/ /\ config.pdas /\ ~config.dedicated /\ config.prod
        /\ Exit
     \/ /\ config.pdas /\ (config.dedicated \/ ~config.prod)
        /\ \E answer \in {"listed", "omitted", "undecodable", "missing", "unreachable"} :
             IF config.prod /\ answer \in {"omitted", "undecodable", "missing"}
             THEN Exit
             ELSE /\ config' =
                       [config EXCEPT
                          !.attestor = IF config.dedicated THEN "dedicated" ELSE "relayer",
                          !.signer = answer]
                  /\ stage' = "bind"

Bind ==
  /\ stage = "bind"
  /\ \/ stage' = "serving" /\ UNCHANGED config
     \/ Exit

\* The process is stopped, to be started again.
Stop == stage = "serving" /\ Exit

Start ==
  \/ FromEnv \/ RequireDevnet \/ ReadBalance \/ CheckConfig \/ InitAttestor \/ Bind

------------------------------------------------------------------------------
\* What the deployment is: AppState, and create_router's reading of it.
Serving == stage = "serving"
ValidationOnly == config.alternate
ChallengeRequired == config.prod \/ config.alternate
PairedEnabled == config.flag["EXECUTOR_PAIRED_ENABLED"]

Gates == {"STUDY_MAX_IN_FLIGHT", "EXECUTOR_PAIRED_SESSION_CONCURRENCY"}

\* Nothing production decides with is unsigned or stands in for what is: not
\* the address of the validator, the scoring policy, nor the key attestations
\* are signed with; nobody but listed origins calls it, and no capture goes
\* without a challenge.  An alternate program is served to this host and on
\* devnet only, a release build serves nothing but production, and no gate is
\* shut for good (config.rs from_env, main.rs).
ServingIsPinned ==
  Serving =>
    /\ config.release => config.prod
    /\ \A k \in Gates : config.number[k] > 0
    /\ config.alternate => config.prod /\ config.loopback /\ config.cluster = "devnet"
    /\ config.prod =>
         /\ config.url /\ config.signature = "valid"
         /\ config.signedPolicy /\ config.policyFor = "prod"
         /\ config.named /\ config.keys = "some" /\ ~config.anyOrigin
         /\ ChallengeRequired
         /\ config.attestor \in {"none", "dedicated"}
         /\ config.signer \in {"unread", "listed", "unreachable"}
==============================================================================
