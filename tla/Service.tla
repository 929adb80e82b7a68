------------------------------ MODULE Service ------------------------------
(***************************************************************************)
(* The served process: create_router's routes and the layers each group    *)
(* of them has (server.rs), the API key (auth/api_key.rs), the handlers    *)
(* that forward a request to the validator and its answer to the client    *)
(* (study.rs, paired/mod.rs, upstream.rs), and every refusal as it is sent *)
(* (Responses).  Startup decides what is served, and may stop it.          *)
(*                                                                         *)
(* A client sends one request after another.  What a limiter, a size       *)
(* check, a tracker or another service answers is a choice; the limiters   *)
(* and the gate of finalize slots are in RateLimiter and SessionGate, the  *)
(* handlers of the other routes in modules of their own: here they answer  *)
(* or refuse.                                                              *)
(***************************************************************************)
EXTENDS Startup, Responses, FiniteSets, SequencesExt

CONSTANTS
  Caller,
  Called      \* deployments that get calls; a bound, the others only start

VARIABLES
  pc,         \* where each caller's request is
  route,
  valid,      \* its X-API-Key is an accepted one
  left,       \* the layers it has not met yet
  reply,      \* what was answered
  permits,    \* study_concurrency
  cost        \* history: what the request has used of the service

request == <<pc, route, valid, left, reply, cost>>
vars == <<stage, config, request, permits>>

ASSUME ServiceAssumption == IsFiniteSet(Caller)

------------------------------------------------------------------------------
(***************************************************************************)
(* The routes.                                                             *)
(***************************************************************************)
Public == {"/health", "/status", "/metrics"}
Timed == {"/verify", "/validate-features"}
Session == {"/validate-session"}
Study == {"/study/definition", "/study/enrol"}
Lookups == {"/challenge", "/validation-deployment"}
Attest == {"/attest"}
Rounds == {"/challenge/paired", "/paired/commit", "/paired/cue"}
Routes == Public \cup Timed \cup Session \cup Study \cup Lookups \cup Attest \cup Rounds

\* create_router, for this deployment.
Served ==
  Public \cup Lookups \cup {"/validate-features"}
    \cup (IF ValidationOnly THEN {} ELSE {"/verify"} \cup Study \cup Attest)
    \cup (IF PairedEnabled THEN Session \cup Rounds ELSE {})

\* Mutant of Layers: the body of a timed route is read outside auth.
LayersBodyFirst(r) ==
  CASE r \in Public -> <<>>
    [] r \in Study -> <<"size", "auth">>
    [] r \in Timed -> <<"size", "address", "body", "auth", "key">>
    [] r \in Session -> <<"size", "address", "auth", "slot", "body", "key">>
    [] r \in Lookups \cup Rounds -> <<"size", "address", "auth", "key">>
    [] r \in Attest -> <<"size", "address", "auth", "key", "attest">>

\* The layers of a route, the outermost first (verify_group, create_router).
Layers(r) ==
  CASE r \in Public -> <<>>
    [] r \in Study -> <<"size", "auth">>
    [] r \in Timed -> <<"size", "address", "auth", "body", "key">>
    [] r \in Session -> <<"size", "address", "auth", "slot", "body", "key">>
    [] r \in Lookups \cup Rounds -> <<"size", "address", "auth", "key">>
    [] r \in Attest -> <<"size", "address", "auth", "key", "attest">>

Posts(r) == r \notin Public \cup Lookups
ReadsEarly(r) == r \in Timed \cup Session

------------------------------------------------------------------------------
(***************************************************************************)
(* Answers.                                                                *)
(***************************************************************************)
NoReply == [own |-> FALSE, length |-> 0]

PC == {"idle", "layers", "handler", "upstream", "answered"}
Costs == {"address", "slot", "body", "key", "attest", "permit", "rpc", "upstream"}

TypeOK ==
  /\ pc \in [Caller -> PC]
  /\ route \in [Caller -> Routes]
  /\ valid \in [Caller -> BOOLEAN]
  /\ left \in [Caller -> Seq({"size", "address", "auth", "slot", "body", "key", "attest"})]
  /\ reply \in [Caller -> [own : BOOLEAN, length : Nat]]
  /\ cost \in [Caller -> SUBSET Costs]
  /\ permits \in Nat

To(c, p) == pc' = [pc EXCEPT ![c] = p]
Uses(c, what) == cost' = [cost EXCEPT ![c] = @ \cup what]

Capacity == config.number["STUDY_MAX_IN_FLIGHT"]

\* An answer that is not an AppError: a success, what another service said, or
\* a rejection by a library.
Answer(c) ==
  /\ To(c, "answered")
  /\ UNCHANGED <<stage, config, route, valid, left, reply>>

Texts(kind) ==
  IF kind \in CarriesMessage \cup CarriesReason THEN {0, OwnText, 2 * Target} ELSE {0}
Digits(kind) == IF kind \in NamesWait THEN {1, MaxDigits} ELSE {0}

\* AppError::into_response: `own` when the service wrote the text it carries,
\* which else came with the request or from the validator and has any length.
Refuse(c, kind) ==
  /\ To(c, "answered")
  /\ \E text \in Texts(kind), digits \in Digits(kind) :
       reply' = [reply EXCEPT ![c] =
                   [own |-> text <= OwnText,
                    length |-> Padded([kind |-> kind, text |-> text, digits |-> digits])]]
  /\ UNCHANGED <<stage, config, route, valid, left>>

Going(c, p) == To(c, p) /\ UNCHANGED <<stage, config, route, valid, left, reply>>

------------------------------------------------------------------------------
(***************************************************************************)
(* The layers.                                                             *)
(***************************************************************************)
Call(c) ==
  /\ pc[c] = "idle" /\ Serving /\ config \in Called
  /\ To(c, "layers")
  /\ \E r \in Served :
       /\ route' = [route EXCEPT ![c] = r]
       /\ left' = [left EXCEPT ![c] = Layers(r)]
  /\ \E v \in BOOLEAN :
       /\ v => config.keys = "some"
       /\ valid' = [valid EXCEPT ![c] = v]
  /\ UNCHANGED <<stage, config, reply, cost, permits>>

Meets(c, layer) == pc[c] = "layers" /\ left[c] # <<>> /\ Head(left[c]) = layer

Pass(c, used) ==
  /\ left' = [left EXCEPT ![c] = Tail(@)]
  /\ Uses(c, used)
  /\ UNCHANGED <<stage, config, pc, route, valid, reply, permits>>

\* A refusal by a layer, which has used `used` to decide.
Stops(c, used, kind) == Refuse(c, kind) /\ Uses(c, used) /\ UNCHANGED permits

\* RequestBodyLimitLayer: by Content-Length, in a text of its own.
CheckSize(c) ==
  /\ Meets(c, "size")
  /\ \/ Pass(c, {})
     \/ Posts(route[c]) /\ Answer(c) /\ UNCHANGED <<cost, permits>>

\* per_ip_rate_limit_middleware.
CheckAddress(c) ==
  /\ Meets(c, "address")
  /\ \/ Pass(c, {"address"})
     \/ Stops(c, {"address"}, "IpRateLimited")

\* api_key_auth.
CheckAuth(c) ==
  /\ Meets(c, "auth")
  /\ IF valid[c] THEN Pass(c, {}) ELSE Stops(c, {}, "Unauthorized")

\* session_gate_middleware.
TakeSlot(c) ==
  /\ Meets(c, "slot")
  /\ \/ Pass(c, {"slot"})
     \/ Stops(c, {}, "PairedBusy")

\* min_duration_middleware, up to the start of its clock.
ReadBody(c) ==
  /\ Meets(c, "body")
  /\ \/ Pass(c, {"body"})
     \/ \E kind \in {"PayloadTooLarge", "RequestBodyTimeout"} : Stops(c, {"body"}, kind)

\* rate_limit_middleware, attest_rate_limit_middleware.
CheckKey(c) ==
  \E limiter \in {"key", "attest"} :
    /\ Meets(c, limiter)
    /\ \/ Pass(c, {limiter})
       \/ Stops(c, {limiter}, "RateLimited")

Layer(c) ==
  \/ CheckSize(c) \/ CheckAddress(c) \/ CheckAuth(c)
  \/ TakeSlot(c) \/ ReadBody(c) \/ CheckKey(c)

\* The extractor of the handler reads the body, or what was read of it.
Extract(c) ==
  /\ pc[c] = "layers" /\ left[c] = <<>>
  /\ Uses(c, IF Posts(route[c]) THEN {"body"} ELSE {})
  /\ \/ Going(c, "handler")
     \/ Posts(route[c]) /\ route[c] \notin Rounds \cup Session /\ Answer(c)
     \/ /\ route[c] \in Rounds \cup Session
        /\ \E kind \in {"PairedRejected", "PayloadTooLarge"} : Refuse(c, kind)
  /\ UNCHANGED permits

------------------------------------------------------------------------------
(***************************************************************************)
(* The handlers.                                                           *)
(***************************************************************************)
In(c, routes) == pc[c] = "handler" /\ route[c] \in routes

\* health_handler, metrics_handler, validation_deployment_handler: nothing but
\* what is there.
Tell(c) ==
  /\ In(c, {"/health", "/metrics", "/validation-deployment"})
  /\ Answer(c) /\ UNCHANGED <<cost, permits>>

\* status_handler: a stranger is told "ok", before the cache or the chain is
\* looked at.
TellStatus(c) ==
  /\ In(c, {"/status"})
  /\ \/ Answer(c) /\ UNCHANGED cost
     \/ /\ valid[c] /\ Uses(c, {"rpc"})
        /\ Answer(c) \/ Refuse(c, "SolanaRpcUnavailable")
  /\ UNCHANGED permits

\* challenge_handler: only the wallet can be wrong.
IssueChallenge(c) ==
  /\ In(c, {"/challenge"})
  /\ Answer(c) \/ Refuse(c, "InvalidRequest")
  /\ UNCHANGED <<cost, permits>>

\* The handlers modelled elsewhere, down to what they refuse with.
Admission ==
  {"InvalidRequest", "IpRateLimited", "CrossWalletCooldownActive", "WalletRateLimited",
   "InsufficientQuota", "SolanaRpcUnavailable", "ProjectionUpdateRequired",
   "ValidationFailed"}

Refusals(r) ==
  CASE r = "/verify" ->
         {"InvalidRequest", "InsufficientQuota", "SolanaRpcUnavailable",
          "TransactionSubmissionFailed"}
    [] r = "/attest" ->
         {"InvalidRequest", "Forbidden", "SolanaRpcUnavailable",
          "AttestationServiceUnavailable"}
    [] r = "/validate-features" ->
         Admission \cup
         {"Forbidden", "PairedRequired", "StudyValidationFailed",
          "ValidationServiceUnavailable"}
    [] OTHER ->
         Admission \cup {"PairedRejected", "PairedTechnicalFailure", "PairedUnavailable"}

Work(c) ==
  /\ In(c, Timed \cup Session \cup Attest)
  /\ Uses(c, {"upstream"})
  /\ Answer(c) \/ \E kind \in Refusals(route[c]) : Refuse(c, kind)
  /\ UNCHANGED permits

\* open_handler, commit_handler, cue_handler: the wallet, the allowlist (not
\* for a commit), the version and tier, the probing block and the attempts
\* left (for an open), then relay.
ForwardRound(c) ==
  /\ In(c, Rounds)
  /\ \/ Refuse(c, "PairedRejected") /\ UNCHANGED cost
     \/ /\ route[c] # "/paired/commit" /\ config.wallets # "all"
        /\ Answer(c) /\ UNCHANGED cost
     \/ Refuse(c, "IpRateLimited") /\ UNCHANGED cost
     \/ /\ route[c] = "/challenge/paired"
        /\ Refuse(c, "WalletRateLimited") /\ UNCHANGED cost
     \/ ~config.url /\ Refuse(c, "PairedUnavailable") /\ UNCHANGED cost
     \/ config.url /\ Going(c, "upstream") /\ Uses(c, {"upstream"})
  /\ UNCHANGED permits

\* relay: JSON with no server error goes through as it is.
RelayRound(c) ==
  /\ pc[c] = "upstream" /\ route[c] \in Rounds
  /\ Answer(c) \/ Refuse(c, "PairedUnavailable")
  /\ UNCHANGED <<cost, permits>>

\* Mutant of ForwardStudy: a refusal by the limiter keeps the permit.
ForwardStudyLeaking(c) ==
  /\ In(c, Study) /\ permits > 0 /\ permits' = permits - 1
  /\ \/ Refuse(c, "StudyRouteLimited") /\ Uses(c, {"permit"})
     \/ Going(c, "upstream") /\ Uses(c, {"permit", "upstream"})

\* Mutant of ForwardStudy: it waits for a permit.
ForwardStudyWaiting(c) ==
  /\ In(c, Study)
  /\ permits > 0 /\ permits' = permits - 1
  /\ Going(c, "upstream") /\ Uses(c, {"permit", "upstream"})

\* study_definition_handler, study_enrol_handler: the shape of an enrolment, a
\* permit, the limiter, then proxy_study_request.  No await is between them,
\* and a permit of a request that goes no further is back at once.
ForwardStudy(c) ==
  /\ In(c, Study)
  /\ \/ /\ route[c] = "/study/enrol"
        /\ Refuse(c, "InvalidRequest") /\ UNCHANGED <<cost, permits>>
     \/ permits = 0 /\ Refuse(c, "StudyRouteLimited") /\ UNCHANGED <<cost, permits>>
     \/ /\ permits > 0 /\ UNCHANGED permits
        /\ Refuse(c, "StudyRouteLimited") /\ Uses(c, {"permit"})
     \/ /\ permits > 0 /\ ~config.url /\ UNCHANGED permits
        /\ Refuse(c, "ValidationServiceUnavailable") /\ Uses(c, {"permit"})
     \/ /\ permits > 0 /\ config.url /\ permits' = permits - 1
        /\ Going(c, "upstream") /\ Uses(c, {"permit", "upstream"})

\* proxy_study_request: the answer, or 502 in its place, is passed on.
RelayStudy(c) ==
  /\ pc[c] = "upstream" /\ route[c] \in Study
  /\ Answer(c) \/ Refuse(c, "ValidationServiceUnavailable")
  /\ permits' = permits + 1
  /\ UNCHANGED cost

Handler(c) ==
  \/ Tell(c) \/ TellStatus(c) \/ IssueChallenge(c) \/ Work(c)
  \/ ForwardRound(c) \/ RelayRound(c) \/ ForwardStudy(c) \/ RelayStudy(c)

------------------------------------------------------------------------------
\* The request is over: nothing is left of it.
Clear(c) ==
  /\ To(c, "idle")
  /\ route' = [route EXCEPT ![c] = "/health"]
  /\ valid' = [valid EXCEPT ![c] = FALSE]
  /\ left' = [left EXCEPT ![c] = <<>>]
  /\ reply' = [reply EXCEPT ![c] = NoReply]
  /\ cost' = [cost EXCEPT ![c] = {}]
  /\ UNCHANGED <<stage, config>>

HoldsPermit(c) == pc[c] = "upstream" /\ route[c] \in Study

\* The client goes away: what the request holds goes with it.
Cancel(c) ==
  /\ pc[c] \in {"layers", "handler", "upstream"}
  /\ Clear(c)
  /\ permits' = IF HoldsPermit(c) THEN permits + 1 ELSE permits

Again(c) == pc[c] = "answered" /\ Clear(c) /\ UNCHANGED permits

\* main, and the end of the process with every request in it.
Starting ==
  /\ Start
  /\ permits' = IF stage' = "serving" THEN Capacity ELSE 0
  /\ UNCHANGED request

NoRequests ==
  /\ pc' = [c \in Caller |-> "idle"]
  /\ route' = [c \in Caller |-> "/health"]
  /\ valid' = [c \in Caller |-> FALSE]
  /\ left' = [c \in Caller |-> <<>>]
  /\ reply' = [c \in Caller |-> NoReply]
  /\ cost' = [c \in Caller |-> {}]
  /\ permits' = 0

Stopping == Stop /\ NoRequests

Init ==
  /\ StartInit
  /\ pc = [c \in Caller |-> "idle"]
  /\ route = [c \in Caller |-> "/health"]
  /\ valid = [c \in Caller |-> FALSE]
  /\ left = [c \in Caller |-> <<>>]
  /\ reply = [c \in Caller |-> NoReply]
  /\ cost = [c \in Caller |-> {}]
  /\ permits = 0

Step(c) == Layer(c) \/ Extract(c) \/ Handler(c)

Next ==
  \/ Starting
  \/ Stopping
  \/ \E c \in Caller :
       Call(c) \/ Step(c) \/ Cancel(c) \/ Again(c)

Spec == Init /\ [][Next]_vars

\* Every wait of a request has a deadline but one: a body that is not that of a
\* finalize may come as slowly as a frame in thirty seconds.
ReadsSlowly(c) ==
  \/ Meets(c, "body") /\ route[c] \notin Session
  \/ /\ pc[c] = "layers" /\ left[c] = <<>>
     /\ Posts(route[c]) /\ ~ReadsEarly(route[c])

Fairness == \A c \in Caller : WF_vars(~ReadsSlowly(c) /\ Step(c))
FairSpec == Spec /\ Fairness

------------------------------------------------------------------------------
(***************************************************************************)
(* Properties.                                                             *)
(***************************************************************************)

\* A request without an accepted key uses nothing but the budget of its
\* address: no byte of its body is kept, no slot, permit, quota, RPC or call of
\* the validator goes to it, whatever the route.  And nothing is asked of the
\* validator for a key before the limiters in front of that route were
\* (server.rs, "Layer order here is a security control").
CostsAreEarned ==
  \A c \in Caller :
    /\ ~valid[c] => cost[c] \subseteq {"address"}
    /\ "upstream" \in cost[c] =>
         IF route[c] \in Study THEN "permit" \in cost[c]
         ELSE {"address", "key"} \subseteq cost[c]

\* Every study permit is free or held by one request that waits for the
\* validator, however requests are refused, answered or dropped.
Holders == {c \in Caller : HoldsPermit(c)}
StudyPermitsConserved == Serving => permits + Cardinality(Holders) = Capacity

\* All refusals the service words itself are of one length, so that none tells
\* more than its status does (padding.rs): whichever way into_response builds
\* them, with or without a reason, and however long the wait they name.
RefusalsAlike ==
  \A c \in Caller :
    pc[c] = "answered" /\ reply[c].own => reply[c].length = Target

\* A request whose waits all have deadlines is answered, or its process ends or
\* its client leaves: a finalize from the start, any other once its body is
\* there.
CallersAnswered ==
  \A c \in Caller :
    \/ pc[c] = "layers" /\ route[c] \in Session
    \/ pc[c] \in {"handler", "upstream"}
    ~> pc[c] \in {"answered", "idle"}
=============================================================================
