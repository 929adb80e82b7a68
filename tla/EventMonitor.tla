---------------------------- MODULE EventMonitor ----------------------------
(***************************************************************************)
(* EventMonitor::start (listener/event_monitor.rs): one task that          *)
(* subscribes to the verifier's logs and comes back when it is cut off.    *)
(* What it hears it only logs.                                             *)
(***************************************************************************)
EXTENDS Naturals

CONSTANTS FirstBackoff, MaxBackoff

VARIABLES
  link,       \* "connecting", "listening" or "waiting"
  backoff

monitorVars == <<link, backoff>>

Init == link = "connecting" /\ backoff = FirstBackoff

Subscribe == link = "connecting" /\ link' = "listening" /\ UNCHANGED backoff

\* PubsubClient::new or logs_subscribe fails.
Refused == link = "connecting" /\ link' = "waiting" /\ UNCHANGED backoff

\* stream.next() yields nothing more.
Ended == link = "listening" /\ link' = "waiting" /\ backoff' = FirstBackoff

\* The sleep, and the doubling after it, whichever way the link was lost.
Wake ==
  /\ link = "waiting"
  /\ link' = "connecting"
  /\ backoff' = IF 2 * backoff < MaxBackoff THEN 2 * backoff ELSE MaxBackoff

Next == Subscribe \/ Refused \/ Ended \/ Wake

Spec == Init /\ [][Next]_monitorVars
=============================================================================
