----------------------------- MODULE MCExecutor -----------------------------
(***************************************************************************)
(* The served process (MCService) and, each in behaviours of its own, what *)
(* it reads and computes beside it (MCReaders).                            *)
(***************************************************************************)
EXTENDS MCService, MCReaders

ExecutorInit ==
  /\ part \in Parts \cup {"service"} /\ Init /\ ReadersInit
  /\ part # "reputation" => observing

ExecutorNext ==
  \/ part = "service" /\ Next /\ UNCHANGED readersVars
  \/ ReadersNext /\ UNCHANGED vars

ExecutorSpec ==
  /\ ExecutorInit /\ [][ExecutorNext]_<<vars, readersVars>>
  /\ Fairness /\ ReadersFairness
=============================================================================
