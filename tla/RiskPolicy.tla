------------------------------ MODULE RiskPolicy ------------------------------
(***************************************************************************)
(* validation/composite.rs and the two local risks of                      *)
(* validation/handler.rs, as operators.  Weights and thresholds are in     *)
(* parts of Parts (a million in the code), risks in units of which One is  *)
(* the risk 1.0, and so a score in units of which Parts * One is 1.0.  The *)
(* code computes in f64: what rounding does to a score next to a threshold *)
(* is not in the model.                                                    *)
(***************************************************************************)
EXTENDS Integers

CONSTANTS
  Parts,          \* PARTS_PER_MILLION
  One,
  NonFinite,      \* a risk that is NaN or infinite
  Unread          \* the reputation of a wallet that was not read

RiskAssumption ==
  /\ Parts \in Nat \ {0} /\ Parts % 10 = 0
  /\ One \in Nat \ {0} /\ One % 2 = 0
  /\ NonFinite \notin Int

Least(a, b) == IF a < b THEN a ELSE b
Half == One \div 2

Weights == {"biometric", "tts", "unallocated", "automation", "reputation"}
Thresholds == {"friction", "reject"}
Policy == [Weights \cup Thresholds -> Nat]

\* What the weights let a score reach.
ActiveMaximum(p) == Parts - p.unallocated

\* Mutant of Accepts: a rejection threshold at the maximum is accepted.
AcceptsAtMaximum(p) ==
  /\ \A f \in Weights \cup Thresholds : p[f] <= Parts
  /\ p.biometric + p.tts + p.unallocated + p.automation + p.reputation = Parts
  /\ p.friction < p.reject
  /\ p.friction <= ActiveMaximum(p) /\ p.reject <= ActiveMaximum(p)

\* try_new.  The friction threshold may be the maximum itself, which requires a
\* score to reach it; rejection requires one above.
Accepts(p) ==
  /\ \A f \in Weights \cup Thresholds : p[f] <= Parts
  /\ p.biometric + p.tts + p.unallocated + p.automation + p.reputation = Parts
  /\ p.friction < p.reject
  /\ p.friction <= ActiveMaximum(p) /\ p.reject < ActiveMaximum(p)

\* The policy of development, which try_new would refuse.
Development ==
  LET tenths(n) == n * (Parts \div 10)
  IN [f \in Weights \cup Thresholds |->
       CASE f = "friction" -> tenths(9) [] f = "reject" -> Parts [] OTHER -> tenths(2)]

\* deserialize_risk_score: any other risk makes the validator's body invalid.
Readable(v) == v # NonFinite /\ v \in 0 .. One

Bounded(v) ==
  CASE v = NonFinite -> One
    [] v # NonFinite /\ v < 0 -> 0
    [] OTHER -> Least(v, One)

Score(p, risks) ==
    p.biometric * Bounded(risks.biometric) + p.tts * Bounded(risks.tts)
  + p.automation * Bounded(risks.automation) + p.reputation * Bounded(risks.reputation)

Rejects(p, score) == score > p.reject * One
RequiresFriction(p, score) == score >= p.friction * One

\* score_success.
Verdict(p, risks) ==
  LET score == Score(p, risks)
  IN CASE Rejects(p, score) -> "rejected"
       [] RequiresFriction(p, score) /\ ~Rejects(p, score) -> "captcha"
       [] OTHER -> "passed"

\* Signals are the WebDriver flag and the number of framework labels; a client
\* that sends none scores as one that reports nothing.
AutomationRisk(signals) ==
  IF signals.webdriver THEN One ELSE Least(signals.tells * Half, One)

\* Mutant of ReputationRisk: the trace to a parent takes the place of the rest.
ReputationRiskBySybil(reading) ==
  IF reading = Unread \/ reading.sybil THEN Half
  ELSE One - (Least(reading.balance, One) + Least(reading.activity, One)) \div 2

\* Balance and activity are in units of which One is all that counts.
ReputationRisk(reading) ==
  IF reading = Unread THEN Half
  ELSE LET standing == (Least(reading.balance, One) + Least(reading.activity, One)) \div 2
       IN IF reading.sybil THEN Least(One - standing + Half, One) ELSE One - standing
==============================================================================
