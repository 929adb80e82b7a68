------------------------------- MODULE Readers -------------------------------
(***************************************************************************)
(* What the served process reads and computes beside its protocols: the    *)
(* balance it tells, the reputation of a wallet, the logs it listens to,   *)
(* the score of a trace, the digest of a capture and the accounts of       *)
(* other programs.  They share no state: in one behaviour one of them      *)
(* moves.                                                                  *)
(***************************************************************************)
EXTENDS Integers

CONSTANTS
  Task,                                             \* of the two that follow
  CacheTtl, LastSecond,                             \* BalanceCache
  Readings, Full, Day,                              \* WalletReputation
  FirstBackoff, MaxBackoff,                         \* EventMonitor
  Curve, Anchors, Band, Windows, Stride,
  MaxPoints, MaxAligned, Junk, Outlines, Issued,    \* CurveTrace
  Requests, Signer, Challenge,
  NegativeZero, NonFinite,                          \* Authorization
  Base, KeyCells, I64Cells, U32Cells, U16Cells, Tag,
  RecentOffset, Slots, Identities, Credentials      \* ChainAccounts

VARIABLES
  part,                               \* the one that moves
  second, cache, readers,
  observing, free, asks,
  link, backoff,
  outline, anchor, report,
  signature, presented, verdict,
  account, data

Balance == INSTANCE BalanceCache WITH Reader <- Task
Reputation == INSTANCE WalletReputation WITH Asker <- Task
Monitor == INSTANCE EventMonitor
Trace == INSTANCE CurveTrace
Signing == INSTANCE Authorization
Accounts == INSTANCE ChainAccounts

ASSUME ReadersAssumption ==
  /\ Balance!CacheAssumption
  /\ Readings \in Nat /\ Full \in Nat \ {0} /\ Day \in Nat
  /\ FirstBackoff \in Nat \ {0} /\ MaxBackoff >= FirstBackoff
  /\ Trace!CurveAssumption
  /\ Signing!AuthorizationAssumption
  /\ Accounts!AccountsAssumption

cacheVars == <<second, cache, readers>>
reputationVars == <<observing, free, asks>>
monitorVars == <<link, backoff>>
traceVars == <<outline, anchor, report>>
authorizationVars == <<signature, presented, verdict>>
accountVars == <<account, data>>
readersVars == <<part, cacheVars, reputationVars, monitorVars, traceVars,
                 authorizationVars, accountVars>>

Parts == {"balance", "reputation", "monitor", "trace", "signing", "accounts"}

ReadersInit ==
  /\ Balance!Init /\ Reputation!Init /\ Monitor!Init
  /\ Trace!Init /\ Signing!Init /\ Accounts!Init

pureVars == <<traceVars, authorizationVars, accountVars>>

BalanceMoves(A) ==
  part = "balance" /\ A /\ UNCHANGED <<part, reputationVars, monitorVars, pureVars>>
ReputationMoves(A) ==
  part = "reputation" /\ A /\ UNCHANGED <<part, cacheVars, monitorVars, pureVars>>
MonitorMoves(A) ==
  part = "monitor" /\ A /\ UNCHANGED <<part, cacheVars, reputationVars, pureVars>>

ReadersNext ==
  \/ BalanceMoves(Balance!Next)
  \/ ReputationMoves(Reputation!Next)
  \/ MonitorMoves(Monitor!Next)
  \/ /\ \/ /\ part = "trace" /\ Trace!Next
           /\ UNCHANGED <<authorizationVars, accountVars>>
        \/ /\ part = "signing" /\ Signing!Next
           /\ UNCHANGED <<traceVars, accountVars>>
        \/ /\ part = "accounts" /\ Accounts!Next
           /\ UNCHANGED <<traceVars, authorizationVars>>
     /\ UNCHANGED <<part, cacheVars, reputationVars, monitorVars>>

ReadersSpec == ReadersInit /\ [][ReadersNext]_readersVars

\* The RPC client gives a node half a minute; the timeout over the reputation
\* and the monitor's sleep are timers.  A reputation read by itself may take
\* for ever, and so may a connection or a subscription of the monitor.
Due(h) ==
  \/ BalanceMoves(Balance!Serve(h))
  \/ ReputationMoves(Reputation!Timeout(h))
  \/ MonitorMoves(Monitor!Wake)

ReadersFairness == \A h \in Task : WF_readersVars(Due(h))

------------------------------------------------------------------------------
(***************************************************************************)
(* The properties of the parts, as their modules state them.               *)
(***************************************************************************)
\* A balance that is told was read within the TTL (BalanceCache).
BalanceIsRecent == Balance!BalanceIsRecent

\* A risk other than the middle is that of what was read (WalletReputation).
RiskIsOfWhatWasRead == Reputation!RiskIsOfWhatWasRead

\* A pass left unfinished would not have lowered the residual (CurveTrace).
AbandonIsExact == Trace!AbandonIsExact

\* An authorized request is the one that was signed (Authorization).
SignedIsWhatRuns == Signing!SignedIsWhatRuns

\* What is read of an account is what was written, or nothing (ChainAccounts).
AccountsReadBack == Accounts!AccountsReadBack

\* No answer waits for a node that does not answer: a reader of the balance is
\* told or refused, a reading of a wallet ends with its timeout though none of
\* its reads does, and the monitor that lost its link tries again.
Waits(h) ==
  \/ readers[h].at \notin {"idle", "answered"}
  \/ asks[h].at \in {"reads", "identity"}
  \/ link = "waiting"
ReadersFinish == \A h \in Task : Waits(h) ~> ~Waits(h)
==============================================================================
