-------------------------- MODULE MCCaptureScreening --------------------------
(***************************************************************************)
(* A client with single captures and one with sessions, two wallets and    *)
(* two footprints of which the map has room for one.  The policies are the *)
(* corners of what try_new accepts and refuses.                            *)
(***************************************************************************)
EXTENDS CaptureScreening, TLC

CONSTANTS c1, c2

MCKindOf == [c \in Client |-> IF c = c1 THEN "plain" ELSE "session"]

Weighing(biometric, tts, unallocated, automation, reputation, friction, reject) ==
  [biometric |-> biometric, tts |-> tts, unallocated |-> unallocated,
   automation |-> automation, reputation |-> reputation,
   friction |-> friction, reject |-> reject]

\* The second rejects at the highest score alone, the third's rejection is out
\* of reach, the fourth's thresholds are equal, the fifth's weights are short.
MCBundles == {Weighing(3, 2, 1, 2, 2, 4, 6), Weighing(2, 2, 2, 2, 2, 0, 7),
              Weighing(2, 2, 2, 2, 2, 7, 8), Weighing(3, 2, 1, 2, 2, 6, 6),
              Weighing(3, 2, 1, 2, 1, 4, 6)}

MCOneBundle == {Weighing(3, 2, 1, 2, 2, 4, 6)}

MCDeployments ==
  {[prod |-> TRUE, enforce |-> TRUE, webdriverReject |-> FALSE, observe |-> TRUE],
   [prod |-> FALSE, enforce |-> FALSE, webdriverReject |-> TRUE, observe |-> FALSE]}

MCSignalSet == {[webdriver |-> FALSE, tells |-> 0], [webdriver |-> FALSE, tells |-> 1],
                [webdriver |-> TRUE, tells |-> 0]}

MCReported == {0, 4, NonFinite}

MCReadings == {[balance |-> 4, activity |-> 8, sybil |-> FALSE],
               [balance |-> 0, activity |-> 0, sybil |-> FALSE],
               [balance |-> 0, activity |-> 0, sybil |-> TRUE]}

Interchangeable == Permutations(Wallet) \cup Permutations(Fingerprint)
==============================================================================
