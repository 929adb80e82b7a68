---------------------------- MODULE ServiceProofs ----------------------------
(***************************************************************************)
(* Theorems about the served process, for any environments it may be       *)
(* started in, any deployments that get calls and any finite set of        *)
(* callers.                                                                *)
(***************************************************************************)
EXTENDS Service, FiniteSetTheorems, SequenceTheorems, TLAPS

------------------------------------------------------------------------------
(***************************************************************************)
(* Startup.  Each stage has the checks before it behind it, and no later   *)
(* one changes what they judged.                                           *)
(***************************************************************************)
Stages == {"down", "cluster", "balance", "checks", "attestor", "bind", "serving"}
Bound == {"bind", "serving"}
Checked == {"attestor"} \cup Bound
Connected == {"balance", "checks"} \cup Checked

Fields ==
  {"prod", "release", "signedPolicy", "policyFor", "alternate", "loopback", "keys", "named",
   "anyOrigin", "number", "url", "signature", "pdas", "dedicated", "cluster", "attestor",
   "signer"}

\* What from_env makes sure of.
Accepted ==
  /\ Fields \subseteq DOMAIN config
  /\ config.release => config.prod
  /\ \A k \in Gates : config.number[k] \in Nat \ {0}
  /\ config.alternate => config.prod /\ config.loopback
  /\ config.prod => config.signedPolicy /\ config.policyFor = "prod" /\ ~config.anyOrigin
  /\ config.named => config.keys = "some"

\* What main finds out.
Pinned ==
  config.prod => config.named /\ config.url /\ config.signature = "valid"
Signed ==
  config.prod =>
    /\ config.attestor \in {"none", "dedicated"}
    /\ config.signer \in {"unread", "listed", "unreachable"}

StartupInv ==
  /\ stage \in Stages
  /\ stage # "down" => Accepted
  /\ stage \in {"cluster", "balance", "checks", "attestor"} => config.signer = "unread"
  /\ stage \in Connected => (config.alternate => config.cluster = "devnet")
  /\ stage \in Checked => Pinned
  /\ stage \in Bound => Signed

LEMMA FromEnvAccepted ==
  ASSUME NEW e, FromEnvAccepts(e), config' = Configured(e)
  PROVE  Accepted' /\ config'.signer = "unread"
<1>1. Fields \subseteq DOMAIN config' /\ config'.signer = "unread"
  BY DEF Fields, Configured
<1>2. /\ config'.prod = IsProd(e) /\ config'.release = e.release
      /\ config'.signedPolicy = e.bundle.given
      /\ config'.policyFor = IF e.bundle.given THEN e.bundle.for ELSE "dev"
      /\ config'.alternate = (e.program = "alternate")
      /\ config'.loopback = (e.listen = "loopback")
      /\ config'.keys = AcceptedKeys(e) /\ config'.named = (e.integrators = "listed")
      /\ config'.anyOrigin = (e.origins = "none")
      /\ config'.number = [k \in DOMAIN Strict |-> ReadStrictly(e, k)]
  BY DEF Configured
<1>3. config'.release => config'.prod
  BY <1>2 DEF FromEnvAccepts
<1>4. \A k \in Gates : config'.number[k] \in Nat \ {0}
  <2>1. InRange(e, "STUDY_MAX_IN_FLIGHT") /\ InRange(e, "EXECUTOR_PAIRED_SESSION_CONCURRENCY")
    BY DEF FromEnvAccepts, Strict
  <2>2. /\ ReadStrictly(e, "STUDY_MAX_IN_FLIGHT") \in Nat \ {0}
        /\ ReadStrictly(e, "EXECUTOR_PAIRED_SESSION_CONCURRENCY") \in Nat \ {0}
    BY <2>1 DEF InRange, Strict
  <2>3. Gates \subseteq DOMAIN Strict
    BY DEF Gates, Strict
  <2>4. QED
    BY <1>2, <2>2, <2>3 DEF Gates
<1>5. config'.alternate => config'.prod /\ config'.loopback
  BY <1>2 DEF FromEnvAccepts, ResolvesProgram
<1>6. config'.prod =>
        config'.signedPolicy /\ config'.policyFor = "prod" /\ ~config'.anyOrigin
  BY <1>2 DEF FromEnvAccepts, ResolvesScoring, ParsesOrigins, IsProd
<1>7. config'.named => config'.keys = "some"
  BY <1>2 DEF AcceptedKeys
<1>8. QED
  BY <1>1, <1>3, <1>4, <1>5, <1>6, <1>7 DEF Accepted

\* An answer of the chain changes nothing that was accepted.
LEMMA AnswerKeepsAccepted ==
  ASSUME Accepted, NEW f \in {"cluster", "attestor", "signer"}, NEW v,
         config' = [config EXCEPT ![f] = v]
  PROVE  Accepted' /\ (Pinned => Pinned') /\ config'[f] = v
                   /\ \A g \in Fields : g # f => config'[g] = config[g]
BY DEF Accepted, Fields, Pinned, Gates

LEMMA StartupInvNext ==
  ASSUME StartupInv, Start \/ Stop \/ UNCHANGED startVars
  PROVE  StartupInv'
<1> USE DEF Stages, Bound, Checked, Connected
<1>1. CASE Exit
  BY <1>1 DEF Exit, StartupInv
<1>2. CASE FromEnv
  BY <1>2, FromEnvAccepted DEF FromEnv, StartupInv
<1>3. CASE RequireDevnet /\ ~Exit
  <2>1. CASE ~config.alternate
    BY <1>3, <2>1 DEF RequireDevnet, StartupInv, Accepted
  <2>2. CASE config.alternate
    <3>1. config' = [config EXCEPT !["cluster"] = "devnet"] /\ stage' = "balance"
      BY <1>3, <2>2 DEF RequireDevnet
    <3>2. Accepted /\ config.signer = "unread"
      BY <1>3 DEF RequireDevnet, StartupInv
    <3>3. Accepted' /\ config'["cluster"] = "devnet" /\ config'["signer"] = "unread"
      BY <3>1, <3>2, AnswerKeepsAccepted DEF Fields
    <3>4. QED
      BY <3>1, <3>3 DEF StartupInv
  <2>3. QED
    BY <2>1, <2>2
<1>4. CASE ReadBalance /\ ~Exit
  BY <1>4 DEF ReadBalance, StartupInv, Accepted
<1>5. CASE CheckConfig /\ ~Exit
  <2>1. Pinned
    BY <1>5 DEF CheckConfig, SignatureHolds, Pinned
  <2>2. QED
    BY <1>5, <2>1 DEF CheckConfig, StartupInv, Accepted, Pinned
<1>6. CASE InitAttestor /\ ~Exit
  <2>1. Accepted /\ Pinned /\ stage = "attestor" /\ stage' = "bind"
        /\ config.signer = "unread" /\ (config.alternate => config.cluster = "devnet")
    BY <1>6 DEF InitAttestor, StartupInv
  <2>2. CASE config' = [config EXCEPT !["attestor"] = "none"]
    <3>1. /\ Accepted' /\ Pinned' /\ config'["attestor"] = "none"
          /\ \A g \in Fields : g # "attestor" => config'[g] = config[g]
      BY <2>1, <2>2, AnswerKeepsAccepted
    <3>2. QED
      BY <2>1, <3>1 DEF StartupInv, Signed, Fields
  <2>3. ASSUME NEW answer \in {"listed", "omitted", "undecodable", "missing", "unreachable"},
               ~(config.prod /\ answer \in {"omitted", "undecodable", "missing"}),
               config.dedicated \/ ~config.prod,
               config' = [config EXCEPT
                            !.attestor = IF config.dedicated THEN "dedicated" ELSE "relayer",
                            !.signer = answer]
        PROVE  StartupInv'
    <3> DEFINE who == IF config.dedicated THEN "dedicated" ELSE "relayer"
    <3>1. /\ DOMAIN config' = DOMAIN config
          /\ config'.attestor = who /\ config'.signer = answer
          /\ \A g \in Fields \ {"attestor", "signer"} : config'[g] = config[g]
      BY <2>1, <2>3 DEF Accepted, Fields
    <3>2. Accepted' /\ Pinned'
      BY <2>1, <3>1 DEF Accepted, Pinned, Fields, Gates
    <3>3. Signed'
      BY <2>3, <3>1 DEF Signed, Fields
    <3>4. QED
      BY <2>1, <3>1, <3>2, <3>3 DEF StartupInv, Fields
  <2>4. QED
    BY <1>6, <2>1, <2>2, <2>3 DEF InitAttestor
<1>7. CASE Bind /\ ~Exit
  BY <1>7 DEF Bind, StartupInv, Accepted, Pinned, Signed
<1>8. CASE UNCHANGED startVars
  BY <1>8 DEF startVars, StartupInv, Accepted, Pinned, Signed
<1>9. QED
  BY <1>1, <1>2, <1>3, <1>4, <1>5, <1>6, <1>7, <1>8 DEF Start, Stop

------------------------------------------------------------------------------
(***************************************************************************)
(* The layers.  What is left of them is an end of the route's, and what    *)
(* was passed has left its mark on the request.                            *)
(***************************************************************************)
LayerNames == {"size", "address", "auth", "slot", "body", "key", "attest"}

LEMMA LayersType ==
  ASSUME NEW r \in Routes
  PROVE  Layers(r) \in Seq(LayerNames)
<1>1. /\ <<>> \in Seq(LayerNames)
      /\ <<"size", "auth">> \in Seq(LayerNames)
      /\ <<"size", "address", "auth", "body", "key">> \in Seq(LayerNames)
      /\ <<"size", "address", "auth", "slot", "body", "key">> \in Seq(LayerNames)
      /\ <<"size", "address", "auth", "key">> \in Seq(LayerNames)
      /\ <<"size", "address", "auth", "key", "attest">> \in Seq(LayerNames)
  BY DEF LayerNames
<1>2. QED
  BY <1>1 DEF Layers, Routes

\* Only the size and the address are looked at before the key.
LEMMA AuthComesFirst ==
  ASSUME NEW r \in Routes, NEW i \in 1 .. Len(Layers(r)),
         Layers(r)[i] \notin {"size", "address", "auth"}
  PROVE  \E j \in 1 .. i - 1 : Layers(r)[j] = "auth"
BY SMTT(30) DEF Layers, Routes, Public, Timed, Session, Study, Lookups, Attest, Rounds

LEMMA LayersReached ==
  ASSUME NEW r \in Routes
  PROVE  /\ r \notin Public => \E j \in 1 .. Len(Layers(r)) : Layers(r)[j] = "auth"
         /\ r \notin Public \cup Study =>
              /\ \E j \in 1 .. Len(Layers(r)) : Layers(r)[j] = "address"
              /\ \E j \in 1 .. Len(Layers(r)) : Layers(r)[j] = "key"
BY DEF Layers, Routes, Public, Timed, Session, Study, Lookups, Attest, Rounds

RequestType ==
  /\ pc \in [Caller -> PC]
  /\ route \in [Caller -> Routes]
  /\ valid \in [Caller -> BOOLEAN]
  /\ left \in [Caller -> Seq(LayerNames)]
  /\ cost \in [Caller -> SUBSET Costs]

\* How many layers of its route a request has passed.
Gone(c) == Len(Layers(route[c])) - Len(left[c])

AtEnd(c) ==
  /\ Len(left[c]) <= Len(Layers(route[c]))
  /\ \A k \in 1 .. Len(left[c]) : left[c][k] = Layers(route[c])[Gone(c) + k]

Passed(c, layer) == \E j \in 1 .. Gone(c) : Layers(route[c])[j] = layer

Unspent(c) == ~valid[c] => cost[c] \subseteq {"address"}
Admitted(c) ==
  "upstream" \in cost[c] =>
    IF route[c] \in Study THEN "permit" \in cost[c] ELSE {"address", "key"} \subseteq cost[c]

InLayers(c) ==
  /\ AtEnd(c)
  /\ "upstream" \notin cost[c]
  /\ Passed(c, "auth") => valid[c]
  /\ Passed(c, "address") => "address" \in cost[c]
  /\ Passed(c, "key") => "key" \in cost[c]

Through(c) ==
  /\ route[c] \notin Public => valid[c]
  /\ route[c] \notin Public \cup Study => {"address", "key"} \subseteq cost[c]

Earned(c) ==
  /\ Unspent(c) /\ Admitted(c)
  /\ pc[c] = "layers" => InLayers(c)
  /\ pc[c] \in {"handler", "upstream"} => Through(c)
  /\ pc[c] = "idle" => cost[c] = {}

RequestInv == RequestType /\ \A c \in Caller : Earned(c)

\* A step of one caller leaves the requests of the others alone.
LEMMA OthersStay ==
  ASSUME RequestInv, NEW c \in Caller, RequestType', Earned(c)',
         \A d \in Caller \ {c} :
           /\ pc'[d] = pc[d] /\ route'[d] = route[d] /\ valid'[d] = valid[d]
           /\ left'[d] = left[d] /\ cost'[d] = cost[d]
  PROVE  RequestInv'
<1> SUFFICES ASSUME NEW d \in Caller \ {c} PROVE Earned(d)'
  BY DEF RequestInv
<1>1. Earned(d)
  BY DEF RequestInv
<1>2. QED
  BY <1>1, ZenonT(60) DEF Earned, Unspent, Admitted, InLayers, Through, AtEnd, Gone, Passed

\* A layer is passed: it is the next one of the route.
LEMMA NextLayer ==
  ASSUME RequestInv, NEW c \in Caller, pc[c] = "layers", left[c] # <<>>
  PROVE  /\ Gone(c) \in Nat /\ Gone(c) + 1 \in 1 .. Len(Layers(route[c]))
         /\ Head(left[c]) = Layers(route[c])[Gone(c) + 1]
         /\ Tail(left[c]) \in Seq(LayerNames)
         /\ Len(Tail(left[c])) = Len(left[c]) - 1
         /\ \A k \in 1 .. Len(left[c]) - 1 : Tail(left[c])[k] = left[c][k + 1]
<1>1. AtEnd(c) /\ left[c] \in Seq(LayerNames) /\ Layers(route[c]) \in Seq(LayerNames)
  BY LayersType DEF RequestInv, RequestType, Earned, InLayers
<1>2. Len(left[c]) \in Nat \ {0} /\ Len(Layers(route[c])) \in Nat
  BY <1>1
<1>3. Head(left[c]) = left[c][1]
  BY <1>1, <1>2
<1>4. /\ Tail(left[c]) \in Seq(LayerNames)
      /\ Len(Tail(left[c])) = Len(left[c]) - 1
      /\ \A k \in 1 .. Len(left[c]) - 1 : Tail(left[c])[k] = left[c][k + 1]
  BY <1>1, <1>2
<1>5. Gone(c) \in Nat /\ Gone(c) + 1 \in 1 .. Len(Layers(route[c]))
  BY <1>1, <1>2 DEF AtEnd, Gone
<1>6. QED
  BY <1>1, <1>2, <1>3, <1>4, <1>5 DEF AtEnd

LEMMA PassKeeps ==
  ASSUME RequestInv, NEW c \in Caller, NEW layer, Meets(c, layer),
         NEW used \in SUBSET {"address", "slot", "body", "key", "attest"}, Pass(c, used),
         layer = "auth" => valid[c],
         layer = "address" => "address" \in used,
         layer = "key" => "key" \in used,
         ~valid[c] => used \subseteq {"address"}
  PROVE  RequestInv'
<1>1. pc[c] = "layers" /\ left[c] # <<>> /\ Head(left[c]) = layer
  BY DEF Meets
<1>2. /\ Earned(c) /\ RequestType
  BY DEF RequestInv
<1>3. /\ left' = [left EXCEPT ![c] = Tail(left[c])]
      /\ cost' = [cost EXCEPT ![c] = cost[c] \cup used]
      /\ UNCHANGED <<pc, route, valid>>
  BY DEF Pass, Uses
<1>4. RequestType'
  BY <1>1, <1>2, <1>3, NextLayer DEF RequestType, Costs
<1>5. Gone(c)' = Gone(c) + 1 /\ AtEnd(c)'
  BY <1>1, <1>2, <1>3, NextLayer, LayersType DEF RequestType, Earned, InLayers, AtEnd, Gone
<1>6. \A l : Passed(c, l)' => Passed(c, l) \/ l = layer
  BY <1>1, <1>3, <1>5, NextLayer DEF Passed
<1>7. cost'[c] = cost[c] \cup used /\ valid'[c] = valid[c] /\ route'[c] = route[c] /\ pc'[c] = pc[c]
  BY <1>2, <1>3 DEF RequestType
<1>8. Earned(c)'
  BY <1>1, <1>2, <1>5, <1>6, <1>7 DEF Earned, Unspent, Admitted, InLayers
<1>9. QED
  BY <1>3, <1>4, <1>8, OthersStay DEF RequestType

\* Who has passed the layer of the key is known.
LEMMA KnownBehindAuth ==
  ASSUME RequestInv, NEW c \in Caller, NEW layer, layer \notin {"size", "address", "auth"},
         Meets(c, layer)
  PROVE  valid[c]
<1>1. pc[c] = "layers" /\ left[c] # <<>> /\ Head(left[c]) = layer
  BY DEF Meets
<1>2. PICK j \in 1 .. Gone(c) : Layers(route[c])[j] = "auth"
  BY <1>1, NextLayer, AuthComesFirst DEF RequestInv, RequestType
<1>3. QED
  BY <1>1, <1>2 DEF RequestInv, Earned, InLayers, Passed

\* A request is answered, with what it used so far and `used`.
LEMMA AnsweredKeeps ==
  ASSUME RequestInv, NEW c \in Caller, NEW used \in SUBSET Costs,
         pc' = [pc EXCEPT ![c] = "answered"], UNCHANGED <<route, valid, left>>,
         cost' = [cost EXCEPT ![c] = cost[c] \cup used],
         "upstream" \notin used \/ (valid[c] /\ Through(c) /\ route[c] \notin Public \cup Study),
         ~valid[c] => used \subseteq {"address"}
  PROVE  RequestInv'
<1>1. RequestType' /\ RequestType /\ Earned(c)
  BY DEF RequestInv, RequestType, PC
<1>2. /\ cost'[c] = cost[c] \cup used /\ valid'[c] = valid[c] /\ route'[c] = route[c]
      /\ pc'[c] = "answered"
  BY <1>1 DEF RequestType
<1>3. Earned(c)'
  BY <1>1, <1>2 DEF Earned, Unspent, Admitted, Through
<1>4. QED
  BY <1>1, <1>3, OthersStay DEF RequestType

\* A request goes on to its handler, or waits for another service.
LEMMA GoingKeeps ==
  ASSUME RequestInv, NEW c \in Caller, NEW used \in SUBSET Costs, Through(c),
         NEW p \in {"handler", "upstream"},
         pc' = [pc EXCEPT ![c] = p], UNCHANGED <<route, valid, left>>,
         cost' = [cost EXCEPT ![c] = cost[c] \cup used],
         "upstream" \in used /\ route[c] \in Study => "permit" \in used,
         "upstream" \in used => route[c] \notin Public,
         ~valid[c] => used = {}
  PROVE  RequestInv'
<1>1. RequestType' /\ RequestType /\ Earned(c)
  BY DEF RequestInv, RequestType, PC
<1>2. /\ cost'[c] = cost[c] \cup used /\ valid'[c] = valid[c] /\ route'[c] = route[c]
      /\ pc'[c] = p
  BY <1>1 DEF RequestType
<1>3. Earned(c)'
  BY <1>1, <1>2 DEF Earned, Unspent, Admitted, Through
<1>4. QED
  BY <1>1, <1>3, OthersStay DEF RequestType

LEMMA ThroughAtEnd ==
  ASSUME RequestInv, NEW c \in Caller, pc[c] = "layers", left[c] = <<>>
  PROVE  Through(c)
<1>1. Earned(c) /\ route[c] \in Routes
  BY DEF RequestInv, RequestType
<1>2. Gone(c) = Len(Layers(route[c]))
  BY <1>1, LayersType DEF Gone
<1>3. QED
  BY <1>1, <1>2, LayersReached DEF Earned, InLayers, Passed, Through

\* Nothing more is used.
LEMMA CostStays ==
  ASSUME RequestType, NEW c \in Caller, cost' = cost
  PROVE  cost' = [cost EXCEPT ![c] = cost[c] \cup {}]
BY DEF RequestType

LEMMA AnswerSpends ==
  ASSUME RequestInv, NEW c \in Caller, Answer(c) \/ \E kind \in Kinds : Refuse(c, kind),
         NEW used \in SUBSET Costs, Uses(c, used) \/ (used = {} /\ cost' = cost),
         "upstream" \notin used \/ (valid[c] /\ Through(c) /\ route[c] \notin Public \cup Study),
         ~valid[c] => used \subseteq {"address"}
  PROVE  RequestInv'
<1>1. pc' = [pc EXCEPT ![c] = "answered"] /\ UNCHANGED <<route, valid, left>>
  BY DEF Answer, Refuse, To
<1>2. cost' = [cost EXCEPT ![c] = cost[c] \cup used]
  BY CostStays DEF Uses, RequestInv
<1>3. QED
  BY <1>1, <1>2, AnsweredKeeps

LEMMA CallKeeps ==
  ASSUME RequestInv, NEW c \in Caller, Call(c)
  PROVE  RequestInv'
<1>1. PICK r \in Served, v \in BOOLEAN :
        /\ route' = [route EXCEPT ![c] = r]
        /\ left' = [left EXCEPT ![c] = Layers(r)]
        /\ valid' = [valid EXCEPT ![c] = v]
  BY DEF Call
<1>2. pc' = [pc EXCEPT ![c] = "layers"] /\ cost' = cost /\ pc[c] = "idle"
  BY DEF Call, To
<1>3. r \in Routes
  BY DEF Served, Routes, Timed
<1>4. Layers(r) \in Seq(LayerNames)
  BY <1>3, LayersType
<1>5. RequestType /\ RequestType' /\ cost[c] = {}
  BY <1>1, <1>2, <1>3, <1>4 DEF RequestInv, RequestType, PC, Earned
<1>6. /\ pc'[c] = "layers" /\ route'[c] = r /\ left'[c] = Layers(r) /\ cost'[c] = {}
  BY <1>1, <1>2, <1>5 DEF RequestType
<1>7. Gone(c)' = 0
  BY <1>4, <1>6 DEF Gone
<1>8. AtEnd(c)'
  BY <1>4, <1>6, <1>7 DEF AtEnd
<1>9. Earned(c)'
  BY <1>6, <1>7, <1>8 DEF Earned, Unspent, Admitted, InLayers, Passed
<1>10. QED
  BY <1>1, <1>2, <1>5, <1>9, OthersStay DEF RequestType

\* A layer that passes or refuses a request uses `used` either way.
LEMMA DecisionKeeps ==
  ASSUME RequestInv, NEW c \in Caller, NEW layer, Meets(c, layer),
         NEW used \in SUBSET {"address", "slot", "body", "key", "attest"},
         \/ /\ Pass(c, used)
            /\ layer = "auth" => valid[c]
            /\ layer = "address" => "address" \in used
            /\ layer = "key" => "key" \in used
         \/ \E kind \in Kinds : Stops(c, used, kind),
         ~valid[c] => used \subseteq {"address"}
  PROVE  RequestInv'
<1>1. CASE \E kind \in Kinds : Stops(c, used, kind)
  <2>1. used \in SUBSET Costs /\ "upstream" \notin used
    BY DEF Costs
  <2>2. Uses(c, used) /\ \E kind \in Kinds : Refuse(c, kind)
    BY <1>1 DEF Stops
  <2>3. QED
    BY <2>1, <2>2, AnswerSpends
<1>2. QED
  BY <1>1, PassKeeps

LEMMA LayerKeeps ==
  ASSUME RequestInv, NEW c \in Caller, Layer(c)
  PROVE  RequestInv'
<1> DEFINE Decides(layer, used) ==
      /\ Meets(c, layer)
      /\ Pass(c, used) \/ \E kind \in Kinds : Stops(c, used, kind)
<1>1. ASSUME NEW layer \in {"slot", "body", "key", "attest"},
             NEW used \in SUBSET {layer}, layer = "key" => used = {layer}, Decides(layer, used)
      PROVE  RequestInv'
  <2>1. valid[c] /\ used \in SUBSET {"address", "slot", "body", "key", "attest"}
    BY <1>1, KnownBehindAuth
  <2>2. QED
    BY <1>1, <2>1, DecisionKeeps
<1>2. CASE CheckSize(c)
  <2> DEFINE used == {}
  <2>1. CASE Meets(c, "size") /\ Pass(c, used)
    BY <2>1, DecisionKeeps
  <2>2. CASE Answer(c) /\ cost' = cost
    <3>1. used \in SUBSET Costs /\ "upstream" \notin used /\ used \subseteq {"address"}
      OBVIOUS
    <3>2. QED
      BY <2>2, <3>1, AnswerSpends
  <2>3. QED
    BY <1>2, <2>1, <2>2 DEF CheckSize
<1>3. CASE CheckAddress(c)
  <2> DEFINE used == {"address"}
  <2>1. Decides("address", used)
    BY <1>3 DEF CheckAddress, Kinds, MessageLength
  <2>2. QED
    BY <2>1, DecisionKeeps
<1>4. CASE CheckAuth(c)
  <2> DEFINE used == {}
  <2>1. Meets(c, "auth")
    BY <1>4 DEF CheckAuth
  <2>2. (valid[c] /\ Pass(c, used)) \/ \E kind \in Kinds : Stops(c, used, kind)
    BY <1>4 DEF CheckAuth, Kinds, MessageLength
  <2>3. QED
    BY <2>1, <2>2, DecisionKeeps
<1>5. CASE TakeSlot(c)
  <2>1. Meets(c, "slot")
    BY <1>5 DEF TakeSlot
  <2>2. Pass(c, {"slot"}) \/ \E kind \in Kinds : Stops(c, {}, kind)
    BY <1>5 DEF TakeSlot, Kinds, MessageLength
  <2>3. Decides("slot", {"slot"}) \/ Decides("slot", {})
    BY <2>1, <2>2
  <2>4. QED
    BY <1>1, <2>3
<1>6. CASE ReadBody(c)
  <2>1. Decides("body", {"body"})
    BY <1>6 DEF ReadBody, Kinds, MessageLength
  <2>2. QED
    BY <1>1, <2>1
<1>7. CASE CheckKey(c)
  <2>1. PICK limiter \in {"key", "attest"} :
          Meets(c, limiter) /\ (Pass(c, {limiter}) \/ Stops(c, {limiter}, "RateLimited"))
    BY <1>7 DEF CheckKey
  <2>2. Decides(limiter, {limiter})
    BY <2>1 DEF Kinds, MessageLength
  <2>3. QED
    BY <1>1, <2>2
<1>8. QED
  BY <1>2, <1>3, <1>4, <1>5, <1>6, <1>7 DEF Layer

LEMMA ExtractKeeps ==
  ASSUME RequestInv, NEW c \in Caller, Extract(c)
  PROVE  RequestInv'
<1> DEFINE used == IF Posts(route[c]) THEN {"body"} ELSE {}
<1>1. Through(c)
  BY ThroughAtEnd DEF Extract
<1>2. used \in SUBSET Costs /\ Uses(c, used) /\ (~valid[c] => used = {})
  BY <1>1 DEF Extract, Costs, Posts, Through
<1>3. CASE Going(c, "handler")
  BY <1>1, <1>2, <1>3, GoingKeeps DEF Going, To, Uses
<1>4. CASE Answer(c) \/ \E kind \in Kinds : Refuse(c, kind)
  BY <1>2, <1>4, AnswerSpends
<1>5. QED
  BY <1>3, <1>4 DEF Extract, Kinds, MessageLength

\* A handler that answers, or waits for the validator, is behind every layer.
LEMMA HandlerKeeps ==
  ASSUME RequestInv, NEW c \in Caller, Handler(c)
  PROVE  RequestInv'
<1>1. Through(c)
  BY DEF Handler, Tell, TellStatus, IssueChallenge, Work, ForwardRound, RelayRound,
     ForwardStudy, RelayStudy, In, RequestInv, Earned
<1> DEFINE Answers == Answer(c) \/ \E kind \in Kinds : Refuse(c, kind)
<1>2. CASE Answers /\ cost' = cost
  <2> DEFINE used == {}
  <2>1. used \in SUBSET Costs /\ "upstream" \notin used /\ used \subseteq {"address"}
    OBVIOUS
  <2>2. QED
    BY <1>2, <2>1, AnswerSpends
<1>3. CASE TellStatus(c)
  <2>1. CASE valid[c] /\ Uses(c, {"rpc"}) /\ Answers
    BY <2>1, AnswerSpends DEF Costs
  <2>2. QED
    BY <1>2, <1>3, <2>1 DEF TellStatus, Kinds, MessageLength
<1>4. CASE Work(c)
  <2>1. valid[c] /\ route[c] \notin Public \cup Study
    BY <1>1, <1>4 DEF Work, In, Through, Public, Study, Timed, Session, Attest
  <2>2. Answers /\ Uses(c, {"upstream"})
    BY <1>4 DEF Work, Refusals, Admission, Kinds, CarriesMessage, MessageLength
  <2>3. QED
    BY <1>1, <2>1, <2>2, AnswerSpends DEF Costs
<1>5. CASE ForwardRound(c)
  <2>1. CASE Going(c, "upstream") /\ Uses(c, {"upstream"})
    <3>1. route[c] \notin Study /\ route[c] \notin Public /\ valid[c]
      BY <1>1, <1>5 DEF ForwardRound, In, Rounds, Study, Public, Through
    <3>2. QED
      BY <1>1, <2>1, <3>1, GoingKeeps DEF Going, To, Uses, Costs
  <2>2. QED
    BY <1>2, <1>5, <2>1 DEF ForwardRound, Kinds, MessageLength
<1>6. CASE ForwardStudy(c)
  <2>1. valid[c] /\ route[c] \in Study /\ route[c] \notin Public
    BY <1>1, <1>6 DEF ForwardStudy, In, Study, Public, Through
  <2>2. CASE Going(c, "upstream") /\ Uses(c, {"permit", "upstream"})
    <3> DEFINE used == {"permit", "upstream"}
    <3>1. used \in SUBSET Costs /\ "permit" \in used
      BY DEF Costs
    <3>2. pc' = [pc EXCEPT ![c] = "upstream"] /\ UNCHANGED <<route, valid, left>>
          /\ cost' = [cost EXCEPT ![c] = cost[c] \cup used]
      BY <2>2 DEF Going, To, Uses
    <3>3. QED
      BY <1>1, <2>1, <3>1, <3>2, GoingKeeps
  <2>3. CASE Answers /\ Uses(c, {"permit"})
    BY <2>1, <2>3, AnswerSpends DEF Costs
  <2>4. QED
    BY <1>2, <1>6, <2>2, <2>3 DEF ForwardStudy, Kinds, CarriesMessage, MessageLength
<1>7. CASE Tell(c) \/ IssueChallenge(c) \/ RelayRound(c) \/ RelayStudy(c)
  BY <1>2, <1>7 DEF Tell, IssueChallenge, RelayRound, RelayStudy, Kinds, CarriesMessage,
     MessageLength
<1>8. QED
  BY <1>3, <1>4, <1>5, <1>6, <1>7 DEF Handler

LEMMA ClearKeeps ==
  ASSUME RequestInv, NEW c \in Caller, Clear(c)
  PROVE  RequestInv'
<1>1. RequestType' /\ RequestType
  BY DEF RequestInv, RequestType, Clear, To, PC, Routes, Public
<1>2. pc'[c] = "idle" /\ cost'[c] = {}
  BY <1>1 DEF RequestType, Clear, To
<1>3. Earned(c)'
  BY <1>2 DEF Earned, Unspent, Admitted
<1>4. QED
  BY <1>1, <1>3, OthersStay DEF RequestType, Clear, To

LEMMA NoRequestsKeeps ==
  ASSUME NoRequests
  PROVE  RequestInv'
BY DEF NoRequests, RequestInv, RequestType, Earned, Unspent, Admitted, PC, Routes, Public

LEMMA RequestInvNext ==
  ASSUME RequestInv, [Next]_vars
  PROVE  RequestInv'
<1>1. CASE Starting \/ UNCHANGED vars
  <2>1. UNCHANGED <<pc, route, valid, left, cost>>
    BY <1>1 DEF Starting, vars, request
  <2>2. QED
    BY <2>1 DEF RequestInv, RequestType, Earned, Unspent, Admitted, InLayers, Through,
       AtEnd, Gone, Passed
<1>2. CASE Stopping
  BY <1>2, NoRequestsKeeps DEF Stopping
<1>3. ASSUME NEW c \in Caller, Call(c) \/ Step(c) \/ Cancel(c) \/ Again(c)
      PROVE  RequestInv'
  BY <1>3, CallKeeps, LayerKeeps, ExtractKeeps, HandlerKeeps, ClearKeeps
     DEF Step, Cancel, Again
<1>4. QED
  BY <1>1, <1>2, <1>3 DEF Next

\* A request without an accepted key uses nothing but the budget of its
\* address, and no key reaches the validator before its limiters, on any route
\* of any deployment (server.rs, create_router).
THEOREM NothingIsUnearned == Spec => []CostsAreEarned
<1>1. Init => RequestInv
  BY DEF Init, RequestInv, RequestType, Earned, Unspent, Admitted, PC, Routes, Public
<1>2. RequestInv => CostsAreEarned
  BY DEF RequestInv, Earned, Unspent, Admitted, CostsAreEarned
<1>3. QED
  BY <1>1, <1>2, RequestInvNext, PTL DEF Spec

------------------------------------------------------------------------------
(***************************************************************************)
(* What is served, and its permits.                                        *)
(***************************************************************************)

\* No request moves the deployment.
LEMMA CallersMoveNothing ==
  ASSUME NEW c \in Caller, Call(c) \/ Step(c) \/ Cancel(c) \/ Again(c)
  PROVE  UNCHANGED startVars
<1> USE DEF startVars, Answer, Refuse, Going, Pass, Stops
<1>1. CASE Call(c)
  BY <1>1 DEF Call
<1>2. CASE Layer(c)
  BY <1>2 DEF Layer, CheckSize, CheckAddress, CheckAuth, TakeSlot, ReadBody, CheckKey
<1>3. CASE Extract(c)
  BY <1>3 DEF Extract
<1>4. CASE Handler(c)
  BY <1>4 DEF Handler, Tell, TellStatus, IssueChallenge, Work, ForwardRound, RelayRound,
     ForwardStudy, RelayStudy
<1>5. CASE Cancel(c) \/ Again(c)
  BY <1>5 DEF Cancel, Again, Clear
<1>6. QED
  BY <1>1, <1>2, <1>3, <1>4, <1>5 DEF Step

LEMMA StartupHolds == Spec => []StartupInv
<1>1. Init => StartupInv
  BY DEF Init, StartInit, StartupInv, Stages, Connected, Checked, Bound
<1>2. StartupInv /\ [Next]_vars => StartupInv'
  <2> SUFFICES ASSUME StartupInv, [Next]_vars PROVE StartupInv'
    OBVIOUS
  <2>1. Start \/ Stop \/ UNCHANGED startVars
    BY CallersMoveNothing DEF Next, Starting, Stopping, vars, startVars
  <2>2. QED
    BY <2>1, StartupInvNext
<1>3. QED
  BY <1>1, <1>2, PTL DEF Spec

\* A production deployment that serves decides with nothing unsigned, whatever
\* environment it was started in and whatever the chain answered on the way
\* (config.rs from_env, main.rs).
THEOREM WhatServesIsPinned == Spec => []ServingIsPinned
<1>1. StartupInv => ServingIsPinned
  <2> SUFFICES ASSUME StartupInv, Serving PROVE ServingIsPinned
    BY DEF ServingIsPinned
  <2>1. Accepted /\ Pinned /\ Signed /\ (config.alternate => config.cluster = "devnet")
    BY DEF StartupInv, Serving, Connected, Checked, Bound
  <2>2. \A k \in Gates : config.number[k] > 0
    BY <2>1 DEF Accepted
  <2>3. QED
    BY <2>1, <2>2 DEF ServingIsPinned, Accepted, Pinned, Signed, ChallengeRequired
<1>2. QED
  BY <1>1, StartupHolds, PTL

------------------------------------------------------------------------------
PermitInv ==
  /\ pc \in [Caller -> PC]
  /\ permits \in Nat
  /\ stage # "serving" => \A c \in Caller : pc[c] = "idle"
  /\ stage = "serving" => permits + Cardinality(Holders) = Capacity

LEMMA HoldersAreFinite == IsFiniteSet(Holders) /\ IsFiniteSet(Holders')
BY ServiceAssumption, FS_Subset DEF Holders

\* One caller takes a permit, gives it back, or neither.
OneMoves(c) ==
  \/ (HoldsPermit(c)' <=> HoldsPermit(c)) /\ permits' = permits
  \/ ~HoldsPermit(c) /\ HoldsPermit(c)' /\ permits' = permits - 1
  \/ HoldsPermit(c) /\ ~HoldsPermit(c)' /\ permits' = permits + 1

LEMMA OneHolderMoves ==
  ASSUME NEW c \in Caller, permits \in Nat, OneMoves(c),
         \A d \in Caller \ {c} : HoldsPermit(d)' <=> HoldsPermit(d)
  PROVE  permits' + Cardinality(Holders') = permits + Cardinality(Holders)
<1>1. Cardinality(Holders) \in Nat /\ Cardinality(Holders') \in Nat
  BY HoldersAreFinite, FS_CardinalityType
<1>2. CASE (HoldsPermit(c)' <=> HoldsPermit(c)) /\ permits' = permits
  <2>1. Holders' = Holders
    BY <1>2 DEF Holders
  <2>2. QED
    BY <1>2, <2>1
<1>3. CASE ~HoldsPermit(c) /\ HoldsPermit(c)' /\ permits' = permits - 1
  <2>1. Holders' = Holders \cup {c} /\ c \notin Holders
    BY <1>3 DEF Holders
  <2>2. Cardinality(Holders') = Cardinality(Holders) + 1
    BY <2>1, HoldersAreFinite, FS_AddElement
  <2>3. QED
    BY <1>1, <1>3, <2>2
<1>4. CASE HoldsPermit(c) /\ ~HoldsPermit(c)' /\ permits' = permits + 1
  <2>1. Holders' = Holders \ {c} /\ c \in Holders
    BY <1>4 DEF Holders
  <2>2. Cardinality(Holders') = Cardinality(Holders) - 1
    BY <2>1, HoldersAreFinite, FS_RemoveElement
  <2>3. QED
    BY <1>1, <1>4, <2>2
<1>5. QED
  BY <1>2, <1>3, <1>4 DEF OneMoves

\* What a step of a caller does to its permit and to the others.
LEMMA CallerMovesOne ==
  ASSUME PermitInv, RequestInv, NEW c \in Caller,
         Call(c) \/ Step(c) \/ Cancel(c) \/ Again(c)
  PROVE  /\ pc[c] = "idle" => stage = "serving"
         /\ pc' \in [Caller -> PC] /\ permits' \in Nat /\ OneMoves(c)
         /\ \A d \in Caller \ {c} : HoldsPermit(d)' <=> HoldsPermit(d)
<1> USE DEF PermitInv, RequestInv, RequestType, HoldsPermit, PC, OneMoves,
        To, Answer, Refuse, Going, Pass, Stops
<1>1. CASE Call(c)
  BY <1>1 DEF Call, Serving
<1>2. CASE Layer(c)
  BY <1>2 DEF Layer, CheckSize, CheckAddress, CheckAuth, TakeSlot, ReadBody, CheckKey, Meets
<1>3. CASE Extract(c)
  BY <1>3 DEF Extract
<1>4. CASE Tell(c) \/ TellStatus(c) \/ IssueChallenge(c) \/ Work(c)
  BY <1>4 DEF Tell, TellStatus, IssueChallenge, Work, In
<1>5. CASE ForwardRound(c) \/ RelayRound(c)
  BY <1>5 DEF ForwardRound, RelayRound, In, Rounds, Study
<1>6. CASE ForwardStudy(c)
  BY <1>6 DEF ForwardStudy, In
<1>7. CASE RelayStudy(c)
  <2>1. pc[c] = "upstream" /\ HoldsPermit(c) /\ permits' = permits + 1
    BY <1>7 DEF RelayStudy
  <2>2. pc' = [pc EXCEPT ![c] = "answered"] /\ route' = route
    BY <1>7 DEF RelayStudy
  <2>3. ~HoldsPermit(c)' /\ \A d \in Caller \ {c} : HoldsPermit(d)' <=> HoldsPermit(d)
    BY <2>2
  <2>4. QED
    BY <2>1, <2>2, <2>3
<1>8. CASE Cancel(c) \/ Again(c)
  <2>1. /\ pc[c] # "idle"
        /\ permits' = IF HoldsPermit(c) THEN permits + 1 ELSE permits
    BY <1>8 DEF Cancel, Again
  <2>2. /\ pc' = [pc EXCEPT ![c] = "idle"]
        /\ route' = [route EXCEPT ![c] = "/health"]
    BY <1>8 DEF Cancel, Again, Clear
  <2>3. ~HoldsPermit(c)' /\ \A d \in Caller \ {c} : HoldsPermit(d)' <=> HoldsPermit(d)
    BY <2>2
  <2>4. QED
    BY <2>1, <2>2, <2>3
<1>9. QED
  BY <1>1, <1>2, <1>3, <1>4, <1>5, <1>6, <1>7, <1>8 DEF Step, Handler

LEMMA PermitInvNext ==
  ASSUME PermitInv, RequestInv, StartupInv, [Next]_vars
  PROVE  PermitInv'
<1>1. CASE UNCHANGED vars
  BY <1>1 DEF vars, request, startVars, PermitInv, Holders, HoldsPermit, Capacity
<1>2. CASE Stopping
  BY <1>2 DEF Stopping, Stop, Exit, NoRequests, PermitInv, PC
<1>3. CASE Starting
  <2>1. stage # "serving" /\ Holders' = {}
    BY <1>3 DEF Starting, Start, FromEnv, RequireDevnet, ReadBalance, CheckConfig,
       InitAttestor, Bind, request, PermitInv, Holders, HoldsPermit
  <2>2. CASE stage' = "serving"
    <3>1. Accepted /\ config' = config
      BY <1>3, <2>2 DEF Starting, Start, FromEnv, RequireDevnet, ReadBalance, CheckConfig,
         InitAttestor, Bind, Exit, StartupInv
    <3>2. Capacity \in Nat /\ Capacity' = Capacity /\ permits' = Capacity
      BY <1>3, <2>2, <3>1 DEF Starting, Accepted, Gates, Capacity
    <3>3. Cardinality(Holders') = 0
      BY <2>1, FS_EmptySet
    <3>4. QED
      BY <1>3, <2>2, <3>2, <3>3 DEF Starting, request, PermitInv
  <2>3. CASE stage' # "serving"
    BY <1>3, <2>1, <2>3 DEF Starting, request, PermitInv
  <2>4. QED
    BY <2>2, <2>3
<1>4. ASSUME NEW c \in Caller, Call(c) \/ Step(c) \/ Cancel(c) \/ Again(c)
      PROVE  PermitInv'
  <2>1. UNCHANGED startVars
    BY <1>4, CallersMoveNothing
  <2>2. stage = "serving"
    BY <1>4, CallerMovesOne DEF PermitInv
  <2>3. permits' + Cardinality(Holders') = permits + Cardinality(Holders)
    BY <1>4, CallerMovesOne, OneHolderMoves DEF PermitInv
  <2>4. QED
    BY <1>4, <2>1, <2>2, <2>3, CallerMovesOne DEF PermitInv, startVars, Capacity
<1>5. QED
  BY <1>1, <1>2, <1>3, <1>4 DEF Next

\* Every study permit of a serving deployment is free or held by one request
\* that waits for the validator, for any capacity, however requests end
\* (study.rs).
THEOREM StudyPermitsAreConserved == Spec => []StudyPermitsConserved
<1>1. Init => PermitInv /\ RequestInv
  BY DEF Init, StartInit, PermitInv, RequestInv, RequestType, Earned, Unspent, Admitted, PC,
     Routes, Public
<1>2. PermitInv => StudyPermitsConserved
  BY DEF PermitInv, StudyPermitsConserved, Serving
<1>3. QED
  BY <1>1, <1>2, StartupHolds, RequestInvNext, PermitInvNext, PTL DEF Spec

------------------------------------------------------------------------------
(***************************************************************************)
(* Refusals.  Whatever a variant carries, names or leaves out, the longest *)
(* body the service words itself still fits below the target, so that the  *)
(* padding alone decides its length.                                       *)
(***************************************************************************)
LEMMA MessagesAreShort ==
  /\ \A k \in DOMAIN MessageLength : MessageLength[k] \in 0 .. 91
  /\ \A k \in CarriesReason : k \in DOMAIN MessageLength /\ MessageLength[k] \in 0 .. 44
BY DEF MessageLength, CarriesReason

LEMMA ReasonsAreShort ==
  \A k \in DOMAIN ReasonLength : ReasonLength[k] \in 0 .. 26
BY DEF ReasonLength

LEMMA VariantsDiffer ==
  /\ CarriesMessage \cap (DOMAIN ReasonLength \cup CarriesReason \cup NamesWait) = {}
  /\ CarriesReason \cap (DOMAIN ReasonLength \cup NamesWait) = {}
BY DEF CarriesMessage, CarriesReason, NamesWait, ReasonLength

\* Padded::new brings every body that has room for the field to the target,
\* and leaves a longer one alone.
LEMMA PaddedLength ==
  ASSUME NEW r, Natural(r) \in Nat
  PROVE  Padded(r) = IF Natural(r) + Field <= Target THEN Target ELSE Natural(r) + Field
BY DEF Padded, Field, Target

\* The bodies of the service's own.
LEMMA OwnBodiesFit ==
  ASSUME NEW kind \in Kinds, NEW text \in 0 .. OwnText, NEW digits \in 0 .. MaxDigits
  PROVE  Padded([kind |-> kind, text |-> text, digits |-> digits]) = Target
<1> DEFINE r == [kind |-> kind, text |-> text, digits |-> digits]
<1>1. text \in Nat /\ text <= 150 /\ digits \in Nat /\ digits <= 20
  BY DEF OwnText, MaxDigits
<1>2. Wait(r) \in 0 .. 35 /\ (kind \notin NamesWait => Wait(r) = 0)
  BY <1>1 DEF Wait
<1>3. CASE kind \in CarriesMessage
  <2>1. Message(r) = 12 + text /\ Wait(r) = 0
    BY <1>2, <1>3, VariantsDiffer DEF Message
  <2>2. Reason(r) = 0
    BY <1>3, VariantsDiffer DEF Reason, CarriesMessage
  <2>3. Natural(r) \in Nat /\ Natural(r) + Field <= Target
    BY <1>1, <2>1, <2>2 DEF Natural, Field, Target
  <2>4. QED
    BY <2>3, PaddedLength
<1>4. CASE kind \in CarriesReason
  <2>1. Message(r) \in 12 .. 56 /\ Wait(r) = 0
    BY <1>2, <1>4, VariantsDiffer, MessagesAreShort DEF Message
  <2>2. Reason(r) = 0 \/ Reason(r) = 12 + text
    BY <1>4, VariantsDiffer DEF Reason
  <2>3. Natural(r) \in Nat /\ Natural(r) + Field <= Target
    BY <1>1, <2>1, <2>2 DEF Natural, Field, Target
  <2>4. QED
    BY <2>3, PaddedLength
<1>5. CASE kind \notin CarriesMessage \cup CarriesReason
  <2>1. kind \in DOMAIN MessageLength
    BY <1>5 DEF Kinds
  <2>2. Message(r) \in 12 .. 103
    BY <1>5, <2>1, MessagesAreShort DEF Message
  <2>3. Reason(r) \in 0 .. 38
    <3>1. kind # "PairedRejected"
      BY <1>5 DEF CarriesReason
    <3>2. CASE kind \in DOMAIN ReasonLength
      BY <3>1, <3>2, <1>5, ReasonsAreShort DEF Reason
    <3>3. CASE kind \notin DOMAIN ReasonLength
      BY <3>1, <3>3, <1>5 DEF Reason
    <3>4. QED
      BY <3>2, <3>3
  <2>4. Natural(r) \in Nat /\ Natural(r) + Field <= Target
    BY <1>2, <2>2, <2>3, SMTT(30) DEF Natural, Field, Target
  <2>5. QED
    BY <2>4, PaddedLength
<1>6. QED
  BY <1>3, <1>4, <1>5

\* What is remembered of an answer, whether or not it has been sent.
ReplyInv ==
  /\ reply \in [Caller -> [own : BOOLEAN, length : Nat]]
  /\ \A c \in Caller : reply[c].own => reply[c].length = Target

LEMMA NaturalTyped ==
  ASSUME NEW kind \in Kinds, NEW text \in Nat, NEW digits \in Nat
  PROVE  Padded([kind |-> kind, text |-> text, digits |-> digits]) \in Nat
<1> DEFINE r == [kind |-> kind, text |-> text, digits |-> digits]
<1>1. Message(r) \in Nat
  BY MessagesAreShort DEF Message, Kinds
<1>2. Reason(r) \in Nat
  <2>1. CASE kind \in DOMAIN ReasonLength
    <3>1. kind \notin CarriesReason /\ kind # "PairedRejected"
      BY <2>1, VariantsDiffer DEF CarriesReason
    <3>2. QED
      BY <2>1, <3>1, ReasonsAreShort DEF Reason
  <2>2. CASE kind \notin DOMAIN ReasonLength
    BY <2>2 DEF Reason
  <2>3. QED
    BY <2>1, <2>2
<1>3. Wait(r) \in Nat
  BY DEF Wait
<1>4. Natural(r) \in Nat
  BY <1>1, <1>2, <1>3 DEF Natural
<1>5. QED
  BY <1>4, PaddedLength DEF Field, Target

LEMMA RefuseKeepsReplies ==
  ASSUME ReplyInv, NEW c \in Caller, NEW kind \in Kinds, Refuse(c, kind)
  PROVE  ReplyInv'
<1>1. PICK text \in Texts(kind), digits \in Digits(kind) :
        reply' = [reply EXCEPT ![c] =
                    [own |-> text <= OwnText,
                     length |-> Padded([kind |-> kind, text |-> text, digits |-> digits])]]
  BY DEF Refuse
<1>2. text \in Nat /\ digits \in 0 .. MaxDigits
  BY DEF Texts, Digits, OwnText, Target, MaxDigits
<1>3. text <= OwnText =>
        Padded([kind |-> kind, text |-> text, digits |-> digits]) = Target
  <2> SUFFICES ASSUME text <= OwnText
               PROVE  Padded([kind |-> kind, text |-> text, digits |-> digits]) = Target
    OBVIOUS
  <2>1. text \in 0 .. OwnText
    BY <1>2 DEF OwnText
  <2>2. QED
    BY <1>2, <2>1, OwnBodiesFit
<1>4. Padded([kind |-> kind, text |-> text, digits |-> digits]) \in Nat
  BY <1>2, NaturalTyped DEF MaxDigits
<1> DEFINE sent == [own |-> text <= OwnText,
                    length |-> Padded([kind |-> kind, text |-> text, digits |-> digits])]
<1>5. sent \in [own : BOOLEAN, length : Nat] /\ (sent.own => sent.length = Target)
  <2>1. (text <= OwnText) \in BOOLEAN
    OBVIOUS
  <2>2. sent.own = (text <= OwnText)
    OBVIOUS
  <2>3. sent.length = Padded([kind |-> kind, text |-> text, digits |-> digits])
    OBVIOUS
  <2>4. sent \in [own : BOOLEAN, length : Nat]
    BY <1>4, <2>1
  <2>5. sent.own => sent.length = Target
    BY <1>3, <2>2, <2>3
  <2>6. QED
    BY <2>4, <2>5
<1>6. reply' = [reply EXCEPT ![c] = sent]
  BY <1>1
<1> HIDE DEF sent
<1>7. QED
  BY <1>5, <1>6 DEF ReplyInv

\* Every refusal of the service is one of the variants.
LEMMA RefusalsAreKinds ==
  /\ \A r \in Routes : Refusals(r) \subseteq Kinds
  /\ {"IpRateLimited", "Unauthorized", "PairedBusy", "PayloadTooLarge",
      "RequestBodyTimeout", "RateLimited", "PairedRejected", "SolanaRpcUnavailable",
      "InvalidRequest", "WalletRateLimited", "PairedUnavailable", "StudyRouteLimited",
      "ValidationServiceUnavailable"} \subseteq Kinds
BY DEF Refusals, Admission, Kinds, MessageLength, CarriesMessage

\* What a step does to the answers: nothing, a refusal, or the end of one
\* request or of all.
LEMMA ReplySteps ==
  ASSUME RequestType, [Next]_vars
  PROVE  \/ UNCHANGED reply
         \/ \E c \in Caller : \/ \E kind \in Kinds : Refuse(c, kind)
                             \/ reply' = [reply EXCEPT ![c] = NoReply]
         \/ reply' = [c \in Caller |-> NoReply]
<1> DEFINE Kept(c) == UNCHANGED reply \/ \E kind \in Kinds : Refuse(c, kind)
<1>1. ASSUME NEW c \in Caller, Layer(c)
      PROVE  Kept(c)
  <2>1. CheckSize(c) => UNCHANGED reply
    BY DEF CheckSize, Pass, Answer
  <2>2. CheckAddress(c) => Kept(c)
    BY RefusalsAreKinds DEF CheckAddress, Pass, Stops
  <2>3. CheckAuth(c) => Kept(c)
    BY RefusalsAreKinds DEF CheckAuth, Pass, Stops
  <2>4. TakeSlot(c) => Kept(c)
    BY RefusalsAreKinds DEF TakeSlot, Pass, Stops
  <2>5. ReadBody(c) => Kept(c)
    BY RefusalsAreKinds DEF ReadBody, Pass, Stops
  <2>6. CheckKey(c) => Kept(c)
    BY RefusalsAreKinds DEF CheckKey, Pass, Stops
  <2>7. QED
    BY <1>1, <2>1, <2>2, <2>3, <2>4, <2>5, <2>6 DEF Layer
<1>2. ASSUME NEW c \in Caller, Extract(c)
      PROVE  Kept(c)
  BY <1>2, RefusalsAreKinds DEF Extract, Going, Answer
<1>3. ASSUME NEW c \in Caller, Handler(c)
      PROVE  Kept(c)
  <2>1. Tell(c) => UNCHANGED reply
    BY DEF Tell, Answer
  <2>2. TellStatus(c) => Kept(c)
    BY RefusalsAreKinds DEF TellStatus, Answer
  <2>3. IssueChallenge(c) => Kept(c)
    BY RefusalsAreKinds DEF IssueChallenge, Answer
  <2>4. Work(c) => Kept(c)
    <3>1. route[c] \in Routes
      BY DEF RequestType
    <3>2. QED
      BY <3>1, RefusalsAreKinds DEF Work, Answer
  <2>5. ForwardRound(c) => Kept(c)
    BY RefusalsAreKinds DEF ForwardRound, Answer, Going
  <2>6. RelayRound(c) => Kept(c)
    BY RefusalsAreKinds DEF RelayRound, Answer
  <2>7. ForwardStudy(c) => Kept(c)
    BY RefusalsAreKinds DEF ForwardStudy, Going
  <2>8. RelayStudy(c) => Kept(c)
    BY RefusalsAreKinds DEF RelayStudy, Answer
  <2>9. QED
    BY <1>3, <2>1, <2>2, <2>3, <2>4, <2>5, <2>6, <2>7, <2>8 DEF Handler
<1>4. ASSUME NEW c \in Caller, Call(c)
      PROVE  UNCHANGED reply
  BY <1>4 DEF Call
<1>5. ASSUME NEW c \in Caller, Cancel(c) \/ Again(c)
      PROVE  reply' = [reply EXCEPT ![c] = NoReply]
  BY <1>5 DEF Cancel, Again, Clear
<1>6. Starting => UNCHANGED reply
  BY DEF Starting, request
<1>7. Stopping => reply' = [c \in Caller |-> NoReply]
  BY DEF Stopping, NoRequests
<1>8. UNCHANGED vars => UNCHANGED reply
  BY DEF vars, request
<1> HIDE DEF Kept
<1>9. \/ UNCHANGED reply
      \/ \E c \in Caller : Kept(c) \/ reply' = [reply EXCEPT ![c] = NoReply]
      \/ reply' = [c \in Caller |-> NoReply]
  BY <1>1, <1>2, <1>3, <1>4, <1>5, <1>6, <1>7, <1>8 DEF Next, Step
<1>10. QED
  BY <1>9 DEF Kept

LEMMA ReplyInvNext ==
  ASSUME RequestInv, ReplyInv, [Next]_vars
  PROVE  ReplyInv'
<1>1. RequestType
  BY DEF RequestInv
<1>2. ASSUME NEW c \in Caller, reply' = [reply EXCEPT ![c] = NoReply]
      PROVE  ReplyInv'
  BY <1>2 DEF ReplyInv, NoReply
<1>3. CASE reply' = [c \in Caller |-> NoReply]
  BY <1>3 DEF ReplyInv, NoReply
<1>4. CASE UNCHANGED reply
  BY <1>4 DEF ReplyInv
<1>5. QED
  BY <1>1, <1>2, <1>3, <1>4, ReplySteps, RefuseKeepsReplies

LEMMA RepliesHold == Spec => [](RequestInv /\ ReplyInv)
<1>1. Init => RequestInv /\ ReplyInv
  BY DEF Init, ReplyInv, NoReply, RequestInv, RequestType, Earned, Unspent, Admitted, PC,
     Routes, Public
<1>2. QED
  BY <1>1, RequestInvNext, ReplyInvNext, PTL DEF Spec

\* RefusalsAlike: a refusal worded by the service has the length of every other
\* one, for each variant that some handler or layer answers with and each text
\* and wait it may carry (AppError::into_response, Padded::new).
THEOREM RefusalsAreAlike == Spec => []RefusalsAlike
<1>1. ReplyInv => RefusalsAlike
  BY DEF ReplyInv, RefusalsAlike
<1>2. QED
  BY <1>1, RepliesHold, PTL

\* TypeOK: however requests meet the layers, leave early or are dropped, what
\* is left of a route is a sequence of its layers, a refusal has a length, and
\* the study permits never run below none (server.rs, study.rs, error.rs).
THEOREM ServiceTypeOK == Spec => []TypeOK
<1>1. RequestInv /\ ReplyInv /\ PermitInv => TypeOK
  BY DEF RequestInv, RequestType, ReplyInv, PermitInv, TypeOK, LayerNames
<1>2. Init => PermitInv
  BY DEF Init, StartInit, PermitInv, PC
<1>3. QED
  BY <1>1, <1>2, RepliesHold, StartupHolds, PermitInvNext, PTL DEF Spec
==============================================================================
