--------------------------- MODULE CaptureScreening ---------------------------
(***************************************************************************)
(* What the two capture handlers decide of a capture on its own merits:    *)
(* the cross-wallet cooldown and the WebDriver flag in front, the intent   *)
(* read from the wallet's identity, and the verdict of the risk policy     *)
(* that the process resolved when it started.  ValidationPipeline has the  *)
(* charges and the challenge of the same requests, and takes these         *)
(* decisions as choices; here it is the other way round.                   *)
(*                                                                         *)
(* A client presents captures one after another, each for any wallet and   *)
(* from any footprint.  A client is a request's task, with a step for each *)
(* access to the map of the cooldown and one for each await.               *)
(***************************************************************************)
EXTENDS Naturals, FiniteSets

CONSTANTS
  Client, KindOf,      \* "plain" captures (POST /validate-features) or sessions
  Fingerprint, Wallet, NoWallet, MaxTracked, Cooldown,  \* as in CrossWalletCooldown
  Parts, One, NonFinite, Unread,                        \* as in RiskPolicy
  NoAccount, Foreign,                                   \* as in ProjectionIntent
  Version,             \* projection versions asked for and stored
  Deployments,         \* the switches of config.rs a process is started with
  Bundles,             \* policies that come in a signed bundle
  NoBundle, BadBundle, \* no bundle; one that is malformed, unsigned or not of this release
  NoPolicy, Nothing,
  SignalSet, Reported, Readings   \* what clients, the validator and the chain say

VARIABLES
  holder, age,         \* CrossWalletCooldownTracker
  deployment, policy,  \* ResolvedScoringConfig, once the process serves
  mode,                \* "starting", "serving" or "exited"
  pc,
  origin,              \* the footprint and the wallet, until screened
  signals,             \* client_signals, from then on
  baseline,            \* version asked for, account read and intent, when forwarded
  judged,              \* what the verdict was made of, and the verdict
  admitted, since      \* history: the last wallet that the enforced cooldown let
                       \* through from a footprint, for Cooldown ticks, and how long ago

Cooldowns == INSTANCE CrossWalletCooldown
Risks == INSTANCE RiskPolicy
Projections == INSTANCE ProjectionIntent

ASSUME ScreeningAssumption ==
  /\ KindOf \in [Client -> {"plain", "session"}]
  /\ Cooldowns!CooldownAssumption
  /\ Risks!RiskAssumption
  /\ Version \subseteq Nat /\ 1 \in Version
  /\ NoAccount \notin Version /\ Foreign \notin Version
  /\ Deployments \subseteq
       [prod : BOOLEAN, enforce : BOOLEAN, webdriverReject : BOOLEAN, observe : BOOLEAN]
  /\ Bundles \subseteq Risks!Policy
  /\ \A s \in SignalSet : s.webdriver \in BOOLEAN /\ s.tells \in Nat
  /\ \A r \in Readings :
       r.balance \in Nat /\ r.activity \in Nat /\ r.sybil \in BOOLEAN

cooldownVars == <<holder, age>>
process == <<deployment, policy, mode>>
history == <<admitted, since>>
vars == <<cooldownVars, process, pc, origin, signals, baseline, judged, history>>

PairedProjection == 1   \* PAIRED_PROJECTION_VERSION

Init ==
  /\ Cooldowns!Init
  /\ deployment \in Deployments
  /\ policy = NoPolicy
  /\ mode = "starting"
  /\ pc = [c \in Client |-> "idle"]
  /\ origin = [c \in Client |-> Nothing]
  /\ signals = [c \in Client |-> Nothing]
  /\ baseline = [c \in Client |-> Nothing]
  /\ judged = [c \in Client |-> Nothing]
  /\ admitted = [f \in Fingerprint |-> NoWallet]
  /\ since = [f \in Fingerprint |-> 0]

------------------------------------------------------------------------------
\* resolve_scoring_config: production needs a bundle, and a bundle that does
\* not resolve stops the process anywhere.
Start(bundle) ==
  /\ mode = "starting"
  /\ \/ /\ bundle = NoBundle /\ ~deployment.prod
        /\ policy' = Risks!Development /\ mode' = "serving"
     \/ /\ bundle \in Bundles /\ Risks!Accepts(bundle)
        /\ policy' = bundle /\ mode' = "serving"
     \/ /\ \/ bundle = BadBundle
           \/ bundle = NoBundle /\ deployment.prod
           \/ bundle \in Bundles /\ ~Risks!Accepts(bundle)
        /\ mode' = "exited" /\ UNCHANGED policy
  /\ UNCHANGED <<cooldownVars, deployment, pc, origin, signals, baseline, judged, history>>

------------------------------------------------------------------------------
Go(c, to) == pc' = [pc EXCEPT ![c] = to]

\* The request ends, here or in a step of ValidationPipeline.
Forget(c) ==
  /\ Go(c, "idle")
  /\ origin' = [origin EXCEPT ![c] = Nothing]
  /\ signals' = [signals EXCEPT ![c] = Nothing]
  /\ baseline' = [baseline EXCEPT ![c] = Nothing]
  /\ judged' = [judged EXCEPT ![c] = Nothing]

Arrive(c, f, w) ==
  /\ pc[c] = "idle"
  /\ origin' = [origin EXCEPT ![c] = [footprint |-> f, wallet |-> w]]
  /\ Go(c, "contains")
  /\ UNCHANGED <<cooldownVars, process, signals, baseline, judged, history>>

\* check_cooldown, first access.
FindFootprint(c) ==
  /\ pc[c] = "contains"
  /\ Go(c, IF Cooldowns!Contains(origin[c].footprint) THEN "record" ELSE "measure")
  /\ UNCHANGED <<cooldownVars, process, origin, signals, baseline, judged, history>>

\* Second access: a full map lets a footprint through that it had not seen.
Measure(c) ==
  /\ pc[c] = "measure"
  /\ Go(c, IF Cooldowns!Full THEN "screen" ELSE "record")
  /\ UNCHANGED <<cooldownVars, process, origin, signals, baseline, judged, history>>

\* Third access, under the entry's lock.  What it refuses is only logged unless
\* the cooldown is enforced.
RecordWallet(c) ==
  LET f == origin[c].footprint
      w == origin[c].wallet
  IN /\ pc[c] = "record"
     /\ Cooldowns!Record(f, w)
     /\ IF Cooldowns!Permits(f, w) \/ ~deployment.enforce
        THEN /\ Go(c, "screen")
             /\ UNCHANGED <<origin, signals, baseline, judged>>
        ELSE Forget(c)
     /\ IF Cooldowns!Permits(f, w) /\ deployment.enforce /\ Cooldown > 0
        THEN /\ admitted' = [admitted EXCEPT ![f] = w]
             /\ since' = [since EXCEPT ![f] = 0]
        ELSE UNCHANGED history
     /\ UNCHANGED process

\* screen_client_signals; a validator is configured.
Screen(c, s) ==
  /\ pc[c] = "screen"
  /\ IF s.webdriver /\ deployment.webdriverReject
     THEN Forget(c)
     ELSE /\ Go(c, "identity")
          /\ origin' = [origin EXCEPT ![c] = Nothing]
          /\ signals' = [signals EXCEPT ![c] = s]
          /\ UNCHANGED <<baseline, judged>>
  /\ UNCHANGED <<cooldownVars, process, history>>

\* identity_intent answers with the account; then the checks that follow it.  A
\* session is refused on arrival when it asks for another projection than its
\* own, and has no evidence; a single capture may not write a baseline.
MayForward(c, intent, requested, evidence) ==
  /\ intent # Projections!NoIntent
  /\ IF KindOf[c] = "session"
     THEN requested = PairedProjection
     ELSE /\ Projections!EvidenceFits(requested, intent, evidence)
          /\ ~Projections!WritesBaseline(intent)

ReadIdentity(c, account, requested, reset, evidence) ==
  LET intent == Projections!Intent(account, requested, reset)
  IN /\ pc[c] = "identity"
     /\ IF MayForward(c, intent, requested, evidence)
        THEN /\ Go(c, "forwarded")
             /\ baseline' = [baseline EXCEPT ![c] =
                  [requested |-> requested, account |-> account, intent |-> intent]]
             /\ UNCHANGED <<origin, signals, judged>>
        ELSE Forget(c)
     /\ UNCHANGED <<cooldownVars, process, history>>

\* observe_reputation: switched off, the gate saturated, a failed or late read
\* all leave the wallet unread.
MayRead(reading) == reading = Unread \/ (deployment.observe /\ reading \in Readings)

RisksOf(s, biometric, tts, reading) ==
  [biometric |-> biometric, tts |-> tts,
   automation |-> Risks!AutomationRisk(s),
   reputation |-> Risks!ReputationRisk(reading)]

\* The validator's pass and the reputation were awaited together; score_success.
Judge(c, biometric, tts, reading) ==
  /\ pc[c] = "forwarded"
  /\ Risks!Readable(biometric) /\ Risks!Readable(tts) /\ MayRead(reading)
  /\ judged' = [judged EXCEPT ![c] =
       [biometric |-> biometric, tts |-> tts, signals |-> signals[c],
        reading |-> reading,
        verdict |-> Risks!Verdict(policy, RisksOf(signals[c], biometric, tts, reading))]]
  /\ signals' = [signals EXCEPT ![c] = Nothing]
  /\ baseline' = [baseline EXCEPT ![c] = Nothing]
  /\ Go(c, "judged")
  /\ UNCHANGED <<cooldownVars, process, origin, history>>

\* The client has its verdict, or its request ends otherwise at an await: a
\* charge refused, a challenge lost, no answer or a rejection by the validator.
Leave(c) ==
  /\ pc[c] \in {"identity", "forwarded", "judged"}
  /\ Forget(c)
  /\ UNCHANGED <<cooldownVars, process, history>>

------------------------------------------------------------------------------
SweepCooldowns ==
  /\ Cooldowns!EvictStale
  /\ UNCHANGED <<process, pc, origin, signals, baseline, judged, history>>

\* An admission is history when its cooldown has run out.
Tick ==
  /\ Cooldowns!Pass
  /\ admitted' = [f \in Fingerprint |->
       IF since[f] + 1 >= Cooldown THEN NoWallet ELSE admitted[f]]
  /\ since' = [f \in Fingerprint |->
       IF admitted'[f] = NoWallet THEN 0 ELSE since[f] + 1]
  /\ UNCHANGED <<process, pc, origin, signals, baseline, judged>>

Handle(c) ==
  \/ \E f \in Fingerprint, w \in Wallet : Arrive(c, f, w)
  \/ FindFootprint(c)
  \/ Measure(c)
  \/ RecordWallet(c)
  \/ \E s \in SignalSet : Screen(c, s)
  \/ \E account \in Version \cup {NoAccount, Foreign}, requested \in Version,
        reset \in BOOLEAN, evidence \in Projections!Evidence :
       ReadIdentity(c, account, requested, reset, evidence)
  \/ \E biometric, tts \in Reported, reading \in Readings \cup {Unread} :
       Judge(c, biometric, tts, reading)
  \/ Leave(c)

Next ==
  \/ \E bundle \in Bundles \cup {NoBundle, BadBundle} : Start(bundle)
  \/ mode = "serving" /\ (SweepCooldowns \/ Tick \/ \E c \in Client : Handle(c))

Spec == Init /\ [][Next]_vars

------------------------------------------------------------------------------
(***************************************************************************)
(* Properties.                                                             *)
(***************************************************************************)

\* However look-ups, the sweep and the clock interleave, the enforced cooldown
\* holds: within Cooldown of the last admission of a wallet from a footprint, no
\* other wallet passes the entry of that footprint.  Only a request that found
\* the map full before the footprint was in it does not pass there.
SwapWaits ==
  [][\A c \in Client :
       pc[c] = "record" /\ pc'[c] = "screen" /\ deployment.enforce =>
         admitted[origin[c].footprint] \in {NoWallet, origin[c].wallet}]_vars

Rank(verdict) ==
  CASE verdict = "passed" -> 0 [] verdict = "captcha" -> 1 [] verdict = "rejected" -> 2

MoreAutomated(s, t) ==
  /\ t.webdriver => s.webdriver
  /\ s.webdriver \/ s.tells >= t.tells

WorseReputed(r, q) ==
  \/ r = q
  \/ /\ r # Unread /\ q # Unread
     /\ r.balance <= q.balance /\ r.activity <= q.activity
     /\ q.sybil => r.sybil

\* Of two captures judged, the one that is worse or equal in everything that
\* was reported of it never gets the better verdict.
RiskierNotFavoured ==
  \A a, b \in Client :
    LET i == judged[a]
        j == judged[b]
    IN /\ pc[a] = "judged" /\ pc[b] = "judged"
       /\ i.biometric >= j.biometric /\ i.tts >= j.tts
       /\ MoreAutomated(i.signals, j.signals) /\ WorseReputed(i.reading, j.reading)
       => Rank(i.verdict) >= Rank(j.verdict)

Worst == [biometric |-> One, tts |-> One, automation |-> One, reputation |-> One]

\* No process serves production with a policy that could reject nobody, though
\* development serves with one that can do no other (composite.rs, config.rs).
PolicyBites ==
  mode = "serving" =>
    /\ deployment.prod => Risks!Verdict(policy, Worst) = "rejected"
    /\ Risks!Verdict(policy, Worst) = "passed" <=> policy = Risks!Development

\* A single capture is judged only against a baseline of its own projection,
\* and a session never replaces one of a later projection than its own.
BaselinesNotRolledBack ==
  \A c \in Client : pc[c] = "forwarded" =>
    IF KindOf[c] = "plain"
    THEN baseline[c].requested = baseline[c].account /\ baseline[c].intent = "update"
    ELSE baseline[c].account \notin {v \in Version : v > PairedProjection}

\* The reputation read "never affects the verification decision" (server.rs,
\* config.rs): the verdict is the one without it.  A policy that weighs
\* reputation refutes this.
ObserveNeverDecides ==
  \A c \in Client : pc[c] = "judged" =>
    LET j == judged[c]
    IN j.verdict = Risks!Verdict(policy, RisksOf(j.signals, j.biometric, j.tts, Unread))
==============================================================================
