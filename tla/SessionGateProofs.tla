-------------------------- MODULE SessionGateProofs --------------------------
(***************************************************************************)
(* Theorems about the layers in front of the paired finalize, for any      *)
(* finite set of clients, any addresses, and any number of slots, threads  *)
(* and ticks.                                                              *)
(***************************************************************************)
EXTENDS SessionGate, FiniteSetTheorems, SequenceTheorems, TLAPS

------------------------------------------------------------------------------
(***************************************************************************)
(* The limiter.  A limiter's debt and the ticks since it last let a        *)
(* request through are at most Burst together, so one that is idle long    *)
(* enough to be forgotten owes nothing.                                    *)
(***************************************************************************)
Debts == \A k \in Key : debt[k] = 0 \/ debt[k] + idle[k] <= Burst

LimiterInv == Addresses!TypeOK /\ Debts

LEMMA EnterKeeps ==
  ASSUME LimiterInv, NEW k \in Key, Addresses!Enter(k)
  PROVE  LimiterInv' /\ [Promise!Next]_debt
<1> USE GateAssumption DEF Addresses!LimiterAssumption
<1>1. CASE Addresses!Allows(k)
  <2>1. LimiterInv'
    BY <1>1 DEF LimiterInv, Debts, Addresses!TypeOK, Addresses!Enter, Addresses!Allows
  <2>2. Promise!Admit(k)
    BY <1>1 DEF Promise!Admit, Addresses!Enter, Addresses!Allows
  <2>3. QED
    BY <2>1, <2>2 DEF Promise!Next
<1>2. CASE ~Addresses!Allows(k)
  <2>1. debt' = debt
    BY <1>2 DEF LimiterInv, Addresses!TypeOK, Addresses!Enter
  <2>2. LimiterInv'
    BY <1>2, <2>1 DEF LimiterInv, Debts, Addresses!TypeOK, Addresses!Enter
  <2>3. QED
    BY <2>1, <2>2
<1>3. QED
  BY <1>1, <1>2

LEMMA EvictKeeps ==
  ASSUME LimiterInv, Addresses!EvictStale
  PROVE  LimiterInv' /\ debt' = debt
<1> USE GateAssumption DEF Addresses!LimiterAssumption
<1> DEFINE kept == {k \in tracked : idle[k] < EntryTtl}
<1>1. \A k \in Key \ kept : debt[k] = 0
  BY DEF LimiterInv, Debts, Addresses!TypeOK
<1>2. debt' = debt
  BY <1>1 DEF LimiterInv, Addresses!TypeOK, Addresses!EvictStale
<1>3. tracked' = kept /\ idle' = [k \in Key |-> IF k \in kept THEN idle[k] ELSE 0]
  BY DEF Addresses!EvictStale
<1>4. LimiterInv'
  BY <1>1, <1>2, <1>3 DEF LimiterInv, Debts, Addresses!TypeOK
<1>5. QED
  BY <1>2, <1>4

LEMMA PassKeeps ==
  ASSUME LimiterInv, Addresses!Pass
  PROVE  LimiterInv' /\ Promise!Repay
<1> USE GateAssumption DEF Addresses!LimiterAssumption
<1>1. LimiterInv'
  BY DEF LimiterInv, Debts, Addresses!TypeOK, Addresses!Pass
<1>2. Promise!Repay
  BY DEF Promise!Repay, Addresses!Pass
<1>3. QED
  BY <1>1, <1>2

\* The other steps leave the limiter alone.
LEMMA OthersKeepLimiter ==
  ASSUME NEW c \in Client,
         \/ LookUp(c) \/ Acquire(c) \/ TakeGranted(c) \/ StopWaiting(c) \/ ReadBody(c)
         \/ FailBody(c) \/ CheckKey(c) \/ Return(c) \/ Respond(c) \/ Cancel(c) \/ Again(c)
  PROVE  UNCHANGED limiter
BY DEF LookUp, Acquire, TakeGranted, StopWaiting, ReadBody, FailBody, CheckKey, Return,
   Respond, Cancel, CancelHolding, CancelGranted, CancelAsleep, Again, Release

LEMMA NextLimiter ==
  ASSUME LimiterInv, [Next]_vars
  PROVE  LimiterInv' /\ [Promise!Next]_debt
<1>1. ASSUME NEW c \in Client, Enter(c)
      PROVE  LimiterInv' /\ [Promise!Next]_debt
  BY <1>1, EnterKeeps, GateAssumption DEF Enter
<1>2. CASE EvictStale
  BY <1>2, EvictKeeps DEF EvictStale
<1>3. CASE Tick
  BY <1>3, PassKeeps DEF Tick, Promise!Next
<1>4. CASE UNCHANGED limiter
  BY <1>4 DEF limiter, LimiterInv, Debts, Addresses!TypeOK
<1>5. QED
  BY <1>1, <1>2, <1>3, <1>4, OthersKeepLimiter DEF Next, Handle, vars

LEMMA InitLimiter == Init => LimiterInv /\ Promise!Init
BY GateAssumption DEF Init, LimiterInv, Debts, Addresses!Init, Addresses!TypeOK,
   Addresses!LimiterAssumption, Promise!Init

\* ImplementsAllowance: a limiter whose table is swept implements one that
\* remembers everybody (evict_stale).
THEOREM LimiterImplementsAllowance == Spec => ImplementsAllowance
BY InitLimiter, NextLimiter, PTL DEF Spec, ImplementsAllowance, Promise!Spec

------------------------------------------------------------------------------
(***************************************************************************)
(* The clocks.                                                             *)
(***************************************************************************)
ClockInv ==
  /\ pc \in [Client -> PC]
  /\ elapsed \in [Client -> 0 .. Floor]
  /\ sinceBody = elapsed
  /\ \A c \in Client : pc[c] = "answered" => elapsed[c] = Floor

\* A permit given back moves its request and at most wakes one other.
LEMMA GiveBackMoves ==
  ASSUME pc \in [Client -> PC], NEW c \in Client, NEW p \in PC \ {"answered", "enter"},
         queue \in Seq(Client), GiveBack(To(c, p))
  PROVE  /\ pc' \in [Client -> PC]
         /\ \A d \in Client : pc'[d] \in {"answered", "enter"} => pc[d] = pc'[d]
<1>1. CASE queue = <<>>
  BY <1>1 DEF GiveBack, To
<1>2. CASE queue # <<>>
  <2>1. Head(queue) \in Client /\ pc' = [[pc EXCEPT ![c] = p] EXCEPT ![Head(queue)] = "granted"]
    BY <1>2, HeadTailProperties DEF GiveBack, To
  <2>2. QED
    BY <2>1 DEF PC
<1>3. QED
  BY <1>1, <1>2

LEMMA NextClocks ==
  ASSUME ClockInv, queue \in Seq(Client), [Next]_vars
  PROVE  ClockInv'
<1> USE DEF ClockInv
<1>1. ASSUME NEW c \in Client, NEW p \in {"left", "floor"}, Release(c, p)
      PROVE  ClockInv'
  <2>1. p \in PC \ {"answered", "enter"}
    BY DEF PC
  <2>2. QED
    BY <1>1, <2>1, GiveBackMoves DEF Release, clocks
<1>2. ASSUME NEW c \in Client, NEW p \in PC \ {"answered"}, pc' = To(c, p), UNCHANGED clocks
      PROVE  ClockInv'
  BY <1>2 DEF To, clocks
<1>3. ASSUME NEW c \in Client, \/ LookUp(c) \/ Enter(c) \/ Acquire(c) \/ TakeGranted(c)
                              \/ StopWaiting(c) \/ CancelAsleep(c)
      PROVE  ClockInv'
  BY <1>2, <1>3 DEF LookUp, Enter, Acquire, TakeGranted, StopWaiting, CancelAsleep, PC
<1>4. ASSUME NEW c \in Client, CheckKey(c)
      PROVE  ClockInv'
  BY <1>1, <1>2, <1>4 DEF CheckKey, PC
<1>5. ASSUME NEW c \in Client,
             FailBody(c) \/ Return(c) \/ CancelHolding(c) \/ CancelGranted(c)
      PROVE  ClockInv'
  BY <1>1, <1>5 DEF FailBody, Return, CancelHolding, CancelGranted
<1>6. ASSUME NEW c \in Client, Respond(c)
      PROVE  ClockInv'
  BY <1>6, GateAssumption DEF Respond, To, clocks, PC
<1>7. ASSUME NEW c \in Client, ReadBody(c) \/ Again(c)
      PROVE  ClockInv'
  <2>1. PICK p \in PC \ {"answered"} : pc' = [pc EXCEPT ![c] = p]
    BY <1>7 DEF ReadBody, Again, To, PC
  <2>2. elapsed' = [elapsed EXCEPT ![c] = 0] /\ sinceBody' = elapsed'
    BY <1>7 DEF ReadBody, Again
  <2>3. 0 \in 0 .. Floor
    BY GateAssumption
  <2>4. QED
    BY <2>1, <2>2, <2>3
<1>8. CASE Tick
  <2> DEFINE after == [c \in Client |-> IF /\ pc[c] \in {"key", "handler", "floor"}
                                          /\ elapsed[c] < Floor
                                       THEN elapsed[c] + 1 ELSE elapsed[c]]
  <2>1. elapsed' = after /\ sinceBody' = after /\ pc' = pc
    BY <1>8 DEF Tick, Later
  <2>2. after \in [Client -> 0 .. Floor]
    BY GateAssumption
  <2>3. \A c \in Client : pc[c] = "answered" => after[c] = elapsed[c]
    OBVIOUS
  <2> HIDE DEF after
  <2>4. QED
    BY <2>1, <2>2, <2>3
<1>9. CASE EvictStale \/ UNCHANGED vars
  BY <1>9 DEF EvictStale, vars, clocks
<1>10. QED
  BY <1>3, <1>4, <1>5, <1>6, <1>7, <1>8, <1>9 DEF Next, Handle, Cancel

LEMMA InitClocks == Init => ClockInv
BY GateAssumption DEF Init, ClockInv, PC

------------------------------------------------------------------------------
(***************************************************************************)
(* The gate.  A permit that is given back to a queue must go to a request  *)
(* that holds none, so the queue has only waiting requests, each once.     *)
(***************************************************************************)
Types ==
  /\ permits \in Nat
  /\ queue \in Seq(Client)
  /\ pc \in [Client -> PC]
  /\ buffered \in SUBSET Client

QueueWaits ==
  /\ \A i \in 1 .. Len(queue) : pc[queue[i]] = "waiting"
  /\ \A i, j \in 1 .. Len(queue) : queue[i] = queue[j] => i = j

\* The bodies in memory are those of requests that hold a slot.
Buffers == buffered = At({"body", "key", "handler"})

GateInv == Types /\ QueueWaits /\ Buffers /\ SlotsAccounted

\* What a request holds, it holds alone.
LEMMA OneMore ==
  ASSUME NEW H \in SUBSET Client, NEW c \in Client
  PROVE  /\ IsFiniteSet(H) /\ Cardinality(H) \in Nat
         /\ c \notin H => Cardinality(H \cup {c}) = Cardinality(H) + 1
         /\ c \in H => Cardinality(H \ {c}) = Cardinality(H) - 1
<1>1. IsFiniteSet(H)
  BY GateAssumption, FS_Subset
<1>2. QED
  BY <1>1, FS_AddElement, FS_RemoveElement, FS_CardinalityType

\* A request that holds a slot drops it on its way to p.
LEMMA GiveBackKeeps ==
  ASSUME GateInv, NEW c \in Client, c \in Holders,
         NEW p \in PC \ {"granted", "body", "key", "handler", "waiting"},
         GiveBack(To(c, p)), buffered' = buffered \ {c}
  PROVE  GateInv'
<1> USE DEF GateInv, Types
<1>1. Holders \in SUBSET Client /\ IsFiniteSet(Holders) /\ Cardinality(Holders) \in Nat
      /\ Cardinality(Holders \ {c}) = Cardinality(Holders) - 1
  BY OneMore DEF Holders, At
<1>2. pc[c] # "waiting"
  BY DEF Holders, At
<1>3. CASE queue = <<>>
  <2>1. pc' = [pc EXCEPT ![c] = p] /\ permits' = permits + 1 /\ queue' = queue
    BY <1>3 DEF GiveBack, To
  <2>2. Types' /\ QueueWaits'
    BY <1>3, <2>1 DEF QueueWaits
  <2>3. Holders' = Holders \ {c}
    BY <2>1 DEF Holders, At
  <2>4. SlotsAccounted'
    BY <1>1, <1>3, <2>1, <2>3, GateAssumption DEF SlotsAccounted
  <2>5. Buffers'
    BY <2>1 DEF Buffers, At
  <2>6. QED
    BY <2>2, <2>4, <2>5
<1>4. CASE queue # <<>>
  <2> DEFINE h == Head(queue)
  <2>1. queue' = Tail(queue) /\ permits' = permits
        /\ pc' = [[pc EXCEPT ![c] = p] EXCEPT ![h] = "granted"]
    BY <1>4 DEF GiveBack, To
  <2>2. Len(queue) \in Nat \ {0} /\ h = queue[1] /\ h \in Client
    BY <1>4
  <2>3. pc[h] = "waiting" /\ h # c
    BY <1>2, <2>2 DEF QueueWaits
  <2>4. /\ Tail(queue) \in Seq(Client) /\ Len(Tail(queue)) = Len(queue) - 1
        /\ \A i \in 1 .. Len(Tail(queue)) : Tail(queue)[i] = queue[i + 1]
    BY <1>4, HeadTailProperties
  <2>5. QueueWaits'
    <3>1. \A i \in 1 .. Len(queue') : queue'[i] = queue[i + 1] /\ queue'[i] \in Client
                                     /\ queue'[i] # h /\ i + 1 \in 1 .. Len(queue)
      BY <2>1, <2>2, <2>4 DEF QueueWaits
    <3>2. \A i \in 1 .. Len(queue') : pc'[queue'[i]] = "waiting"
      BY <1>2, <2>1, <3>1 DEF QueueWaits
    <3>3. QED
      BY <3>1, <3>2, <2>1, <2>4 DEF QueueWaits
  <2>6. Types'
    BY <2>1, <2>2, <2>4 DEF PC
  <2>7. Holders' = (Holders \ {c}) \cup {h} /\ h \notin Holders \ {c}
    BY <2>1, <2>2, <2>3 DEF Holders, At
  <2>8. Cardinality(Holders') = Cardinality(Holders)
    <3>1. Holders \ {c} \in SUBSET Client
      BY <1>1
    <3>2. Cardinality((Holders \ {c}) \cup {h}) = Cardinality(Holders \ {c}) + 1
      BY <2>2, <2>7, <3>1, OneMore
    <3>3. QED
      BY <1>1, <2>7, <3>2
  <2>9. SlotsAccounted'
    BY <1>4, <2>1, <2>8 DEF SlotsAccounted
  <2>10. Buffers'
    BY <2>1, <2>2, <2>3 DEF Buffers, At
  <2>11. QED
    BY <2>5, <2>6, <2>9, <2>10
<1>5. QED
  BY <1>3, <1>4

\* A request takes a free slot.
LEMMA TakeKeeps ==
  ASSUME GateInv, NEW c \in Client, pc[c] = "gate", permits > 0,
         permits' = permits - 1, pc' = To(c, "body"), buffered' = buffered \cup {c},
         UNCHANGED queue
  PROVE  GateInv'
<1> USE DEF GateInv, Types, To
<1>1. Types' /\ QueueWaits'
  BY DEF QueueWaits, PC
<1>2. Holders' = Holders \cup {c} /\ c \notin Holders /\ Holders \in SUBSET Client
  BY DEF Holders, At
<1>3. Cardinality(Holders') = Cardinality(Holders) + 1 /\ Cardinality(Holders) \in Nat
  BY <1>2, OneMore
<1>4. queue = <<>>
  BY DEF SlotsAccounted
<1>5. SlotsAccounted'
  BY <1>3, <1>4 DEF SlotsAccounted
<1>6. Buffers'
  BY DEF Buffers, At
<1>7. QED
  BY <1>1, <1>5, <1>6

\* A request joins the queue.
LEMMA QueueKeeps ==
  ASSUME GateInv, NEW c \in Client, pc[c] = "gate", permits = 0,
         queue' = Append(queue, c), pc' = To(c, "waiting"),
         UNCHANGED <<permits, buffered>>
  PROVE  GateInv'
<1> USE DEF GateInv, Types, To
<1>1. /\ Append(queue, c) \in Seq(Client) /\ Len(Append(queue, c)) = Len(queue) + 1
      /\ \A i \in 1 .. Len(queue) : Append(queue, c)[i] = queue[i] /\ queue[i] \in Client
      /\ Append(queue, c)[Len(queue) + 1] = c /\ Len(queue) \in Nat
  BY AppendProperties, ElementOfSeq, LenProperties
<1>2. \A i \in 1 .. Len(queue) : queue[i] # c
  BY DEF QueueWaits
<1>3. Types'
  BY <1>1 DEF PC
<1>4. QueueWaits'
  BY <1>1, <1>2 DEF QueueWaits
<1>5. Holders' = Holders
  BY DEF Holders, At
<1>6. SlotsAccounted' /\ Buffers'
  BY <1>5 DEF SlotsAccounted, Buffers, At
<1>7. QED
  BY <1>3, <1>4, <1>6

\* A request leaves the queue from wherever in it.
LEMMA UnqueueKeeps ==
  ASSUME GateInv, NEW c \in Client, StopWaiting(c)
  PROVE  GateInv'
<1> USE DEF GateInv, Types, To
<1>1. PICK n \in 1 .. Len(queue) : queue[n] = c /\ queue' = RemoveAt(queue, n)
  BY LenProperties DEF StopWaiting
<1>2. /\ Len(queue) \in Nat \ {0}
      /\ \A i \in 1 .. Len(queue) : queue[i] \in Client
  BY <1>1, ElementOfSeq, LenProperties
<1> DEFINE before == SubSeq(queue, 1, n - 1)
           after == SubSeq(queue, n + 1, Len(queue))
<1>3. /\ before \in Seq(Client) /\ Len(before) = n - 1
      /\ \A i \in 1 .. n - 1 : before[i] = queue[i]
  BY <1>2, SubSeqProperties
<1>4. /\ after \in Seq(Client) /\ Len(after) = Len(queue) - n
      /\ \A i \in 1 .. Len(queue) - n : after[i] = queue[n + i]
  BY <1>2, SubSeqProperties
<1> DEFINE old(i) == IF i < n THEN i ELSE i + 1
<1>5. /\ queue' \in Seq(Client) /\ Len(queue') = Len(queue) - 1
      /\ \A i \in 1 .. Len(queue') : queue'[i] = queue[old(i)]
  <2>1. queue' = before \o after
    BY <1>1 DEF RemoveAt
  <2> HIDE DEF before, after
  <2>2. /\ before \o after \in Seq(Client) /\ Len(before \o after) = Len(before) + Len(after)
        /\ \A i \in 1 .. Len(before) + Len(after) :
             (before \o after)[i] = IF i <= Len(before) THEN before[i]
                                                       ELSE after[i - Len(before)]
    BY <1>3, <1>4, ConcatProperties
  <2>3. Len(queue') = Len(queue) - 1 /\ queue' \in Seq(Client)
    BY <1>2, <1>3, <1>4, <2>1, <2>2
  <2>4. ASSUME NEW i \in 1 .. Len(queue')
        PROVE  queue'[i] = queue[old(i)]
    <3>1. CASE i < n
      BY <1>2, <1>3, <1>4, <2>1, <2>2, <2>3, <3>1
    <3>2. CASE i >= n
      <4>1. queue'[i] = after[i - (n - 1)] /\ i - (n - 1) \in 1 .. Len(queue) - n
        BY <1>2, <1>3, <1>4, <2>1, <2>2, <2>3, <3>2
      <4>2. after[i - (n - 1)] = queue[n + (i - (n - 1))]
        BY <1>4, <4>1
      <4>3. n + (i - (n - 1)) = i + 1
        OBVIOUS
      <4>4. QED
        BY <3>2, <4>1, <4>2, <4>3
    <3>3. QED
      BY <3>1, <3>2
  <2>5. QED
    BY <2>3, <2>4
<1>6. pc' = [pc EXCEPT ![c] = "left"] /\ pc[c] = "waiting" /\ UNCHANGED <<permits, buffered>>
  BY DEF StopWaiting
<1>7. Types'
  BY <1>5, <1>6 DEF PC
<1>8. \A i \in 1 .. Len(queue') : old(i) \in 1 .. Len(queue) /\ old(i) # n
  BY <1>2, <1>5
<1>9. \A i, j \in 1 .. Len(queue') : old(i) = old(j) => i = j
  BY <1>2, <1>5
<1> HIDE DEF old
<1>10. QueueWaits'
  <2>1. ASSUME NEW i \in 1 .. Len(queue')
        PROVE  pc'[queue'[i]] = "waiting"
    <3>1. queue'[i] = queue[old(i)] /\ old(i) \in 1 .. Len(queue) /\ old(i) # n
      BY <1>5, <1>8
    <3>2. queue[old(i)] # c /\ queue[old(i)] \in Client /\ pc[queue[old(i)]] = "waiting"
      BY <1>1, <1>2, <3>1 DEF QueueWaits
    <3>3. QED
      BY <1>6, <3>1, <3>2
  <2>2. ASSUME NEW i \in 1 .. Len(queue'), NEW j \in 1 .. Len(queue'), queue'[i] = queue'[j]
        PROVE  i = j
    <3>1. queue[old(i)] = queue[old(j)] /\ old(i) \in 1 .. Len(queue)
          /\ old(j) \in 1 .. Len(queue)
      BY <1>5, <1>8, <2>2
    <3>2. old(i) = old(j)
      BY <3>1 DEF QueueWaits
    <3>3. QED
      BY <1>9, <3>2
  <2>3. QED
    BY <2>1, <2>2 DEF QueueWaits
<1>11. Holders' = Holders
  BY <1>6 DEF Holders, At
<1>12. queue # <<>>
  BY <1>2
<1>13. SlotsAccounted' /\ Buffers'
  BY <1>6, <1>11, <1>12 DEF SlotsAccounted, Buffers, At
<1>14. QED
  BY <1>7, <1>10, <1>13

\* A request moves with what it holds.
LEMMA MoveKeeps ==
  ASSUME GateInv, NEW c \in Client, NEW p \in PC, pc' = To(c, p), pc[c] # "waiting",
         p # "granted", p \in {"body", "key", "handler"} <=> c \in Holders,
         buffered' = IF p \in {"body", "key", "handler"} THEN buffered \cup {c} ELSE buffered,
         UNCHANGED gate
  PROVE  GateInv'
<1> USE DEF GateInv, Types, To, gate
<1>1. Types' /\ QueueWaits'
  BY DEF QueueWaits
<1>2. Holders' = Holders
  BY DEF Holders, At
<1>3. SlotsAccounted'
  BY <1>2 DEF SlotsAccounted
<1>4. Buffers'
  BY DEF Buffers, Holders, At
<1>5. QED
  BY <1>1, <1>3, <1>4

LEMMA NextGate ==
  ASSUME GateInv, [Next]_vars
  PROVE  GateInv'
<1>1. ASSUME NEW c \in Client, LookUp(c) \/ Enter(c) \/ Respond(c) \/ CancelAsleep(c) \/ Again(c)
      PROVE  GateInv'
  <2>1. PICK p \in PC \ {"granted", "body", "key", "handler", "waiting"} : pc' = To(c, p)
    BY <1>1 DEF LookUp, Enter, Respond, CancelAsleep, Again, PC
  <2>2. pc[c] # "waiting" /\ c \notin Holders
    BY <1>1 DEF LookUp, Enter, Respond, CancelAsleep, Again, Holders, At
  <2>3. UNCHANGED <<gate, buffered>>
    BY <1>1 DEF LookUp, Enter, Respond, CancelAsleep, Again
  <2>4. QED
    BY <2>1, <2>2, <2>3, MoveKeeps
<1>2. ASSUME NEW c \in Client, Acquire(c)
      PROVE  GateInv'
  BY <1>2, TakeKeeps, QueueKeeps DEF Acquire
<1>3. ASSUME NEW c \in Client, StopWaiting(c)
      PROVE  GateInv'
  BY <1>3, UnqueueKeeps
<1>4. ASSUME NEW c \in Client, TakeGranted(c) \/ ReadBody(c)
      PROVE  GateInv'
  <2>1. PICK p \in {"body", "key"} : pc' = To(c, p)
    BY <1>4 DEF TakeGranted, ReadBody
  <2>2. pc[c] # "waiting" /\ c \in Holders
    BY <1>4 DEF TakeGranted, ReadBody, Holders, At
  <2>3. UNCHANGED gate /\ buffered' = buffered \cup {c}
    BY <1>4 DEF TakeGranted, ReadBody, GateInv, Buffers, At
  <2>4. p \in PC
    BY DEF PC
  <2>5. QED
    BY <2>1, <2>2, <2>3, <2>4, MoveKeeps
<1>5. ASSUME NEW c \in Client, c \in Holders, NEW p \in {"left", "floor"}, Release(c, p)
      PROVE  GateInv'
  <2>1. p \in PC \ {"granted", "body", "key", "handler", "waiting"}
    BY DEF PC
  <2>2. QED
    BY <1>5, <2>1, GiveBackKeeps DEF Release
<1>6. ASSUME NEW c \in Client,
             FailBody(c) \/ Return(c) \/ CancelHolding(c) \/ CancelGranted(c)
      PROVE  GateInv'
  BY <1>5, <1>6 DEF FailBody, Return, CancelHolding, CancelGranted, Holders, At
<1>7. ASSUME NEW c \in Client, CheckKey(c)
      PROVE  GateInv'
  <2>1. pc[c] = "key" /\ c \in Holders
    BY <1>7 DEF CheckKey, Holders, At
  <2>2. CASE Release(c, "floor")
    BY <1>5, <2>1, <2>2
  <2>3. CASE pc' = To(c, "handler") /\ UNCHANGED <<limiter, gate, clocks, buffered>>
    <3>1. buffered' = buffered \cup {c}
      BY <2>1, <2>3 DEF GateInv, Buffers, At
    <3>2. "handler" \in PC
      BY DEF PC
    <3>3. QED
      BY <2>1, <2>3, <3>1, <3>2, MoveKeeps
  <2>4. QED
    BY <1>7, <2>2, <2>3 DEF CheckKey
<1>8. CASE EvictStale \/ Tick \/ UNCHANGED vars
  BY <1>8 DEF EvictStale, Tick, vars, gate, GateInv, Types, QueueWaits, Buffers,
     SlotsAccounted, Holders, At
<1>9. QED
  BY <1>1, <1>2, <1>3, <1>4, <1>6, <1>7, <1>8 DEF Next, Handle, Cancel

LEMMA InitGate == Init => GateInv
<1> SUFFICES ASSUME Init
             PROVE  GateInv
  OBVIOUS
<1>1. Types /\ QueueWaits /\ Buffers
  BY GateAssumption DEF Init, Types, QueueWaits, Buffers, At, PC
<1>2. Holders = {} /\ permits = Slots /\ queue = <<>>
  BY DEF Init, Holders, At
<1>3. SlotsAccounted
  BY <1>2, FS_EmptySet, GateAssumption DEF SlotsAccounted
<1>4. QED
  BY <1>1, <1>3 DEF GateInv

\* SlotsAccounted: no slot is lost or doubled, whoever gives up, stalls or goes
\* away, and none lies free while a request waits (SessionSlot).
THEOREM SlotsAreAccounted == Spec => []SlotsAccounted
<1>1. GateInv => SlotsAccounted
  BY DEF GateInv
<1>2. QED
  BY <1>1, InitGate, NextGate, PTL DEF Spec

\* BodiesWithinSlots: bodies in memory never outnumber the slots.
THEOREM BodiesStayWithinSlots == Spec => []BodiesWithinSlots
<1>1. ASSUME GateInv
      PROVE  BodiesWithinSlots
  <2>1. buffered \in SUBSET Holders /\ Holders \in SUBSET Client
    BY <1>1 DEF GateInv, Buffers, Holders, At
  <2>2. IsFiniteSet(Holders) /\ Cardinality(Holders) \in Nat
    BY <2>1, GateAssumption, FS_Subset, FS_CardinalityType
  <2>3. Cardinality(buffered) <= Cardinality(Holders) /\ Cardinality(buffered) \in Nat
    BY <2>1, <2>2, FS_Subset, FS_CardinalityType
  <2>4. QED
    BY <1>1, <2>2, <2>3, GateAssumption DEF GateInv, Types, SlotsAccounted, BodiesWithinSlots
<1>2. QED
  BY <1>1, InitGate, NextGate, PTL DEF Spec
------------------------------------------------------------------------------
\* FloorSinceBody: an answer never comes before the floor, counted from the last
\* byte of the body (min_duration_middleware).
THEOREM FloorIsKept == Spec => []FloorSinceBody
<1>1. GateInv /\ ClockInv /\ [Next]_vars => GateInv' /\ ClockInv'
  BY NextGate, NextClocks DEF GateInv, Types
<1>2. ClockInv => FloorSinceBody
  BY GateAssumption DEF ClockInv, FloorSinceBody, At
<1>3. QED
  BY <1>1, <1>2, InitGate, InitClocks, PTL DEF Spec

\* TypeOK: no permit over Slots, no debt over Burst, no clock over its end.
THEOREM GateTypeOK == Spec => []TypeOK
<1>1. ASSUME LimiterInv, GateInv, ClockInv
      PROVE  TypeOK
  <2>1. permits \in 0 .. Slots
    <3>1. Holders \in SUBSET Client
      BY DEF Holders, At
    <3>2. Cardinality(Holders) \in Nat
      BY <3>1, GateAssumption, FS_Subset, FS_CardinalityType
    <3>3. QED
      BY <1>1, <3>2, GateAssumption DEF GateInv, Types, SlotsAccounted
  <2>2. QED
    BY <1>1, <2>1 DEF TypeOK, LimiterInv, GateInv, Types, ClockInv
<1>2. GateInv /\ ClockInv /\ [Next]_vars => GateInv' /\ ClockInv'
  BY NextGate, NextClocks DEF GateInv, Types
<1>3. QED
  BY <1>1, <1>2, NextLimiter, InitLimiter, InitGate, InitClocks, PTL DEF Spec
------------------------------------------------------------------------------
(***************************************************************************)
(* The table.                                                              *)
(***************************************************************************)

\* Finite sets: what a union, and the addresses of requests, can count.
LEMMA EnteringCounts ==
  /\ IsFiniteSet(Entering)
  /\ Cardinality(Entering) \in Nat /\ Cardinality(At({"enter"})) \in Nat
  /\ Cardinality(Entering) <= Cardinality(At({"enter"}))
<1> DEFINE f == [c \in At({"enter"}) |-> AddressOf[c]]
<1>1. IsFiniteSet(At({"enter"}))
  BY GateAssumption, FS_Subset DEF At
<1>2. f \in Surjection(At({"enter"}), Entering)
  BY DEF Surjection, Entering
<1>3. QED
  BY <1>1, <1>2, FS_Surjection, FS_CardinalityType

\* The operators of FiniteSets that the instance Addresses has as its own.
LEMMA SameFinite ==
  ASSUME NEW S
  PROVE  Addresses!IsFiniteSet(S) <=> IsFiniteSet(S)
BY DEF Addresses!IsFiniteSet, IsFiniteSet

LEMMA SameCardinality ==
  ASSUME NEW S
  PROVE  Addresses!Cardinality(S) = Cardinality(S)
BY DEF Addresses!Cardinality, Cardinality

LEMMA SubsetCounts ==
  ASSUME NEW S, IsFiniteSet(S), NEW T \in SUBSET S, NEW n \in Int, Cardinality(S) < n
  PROVE  Cardinality(T) < n
BY FS_Subset, FS_CardinalityType

\* Steps that let nobody in between the two accesses, and put no key in.
LEMMA OthersKeepTable ==
  ASSUME ClockInv, queue \in Seq(Client), Addresses!TypeOK, [Next]_vars,
         ~ \E c \in Client : LookUp(c) \/ Enter(c)
  PROVE  tracked' \subseteq tracked /\ Entering' \subseteq Entering
<1> SUFFICES /\ tracked' \subseteq tracked
             /\ \A d \in Client : pc'[d] = "enter" => pc[d] = "enter"
  BY DEF Entering, At
<1> USE DEF ClockInv
<1>1. ASSUME NEW c \in Client, NEW p \in {"left", "floor"}, Release(c, p)
      PROVE  /\ tracked' \subseteq tracked
             /\ \A d \in Client : pc'[d] = "enter" => pc[d] = "enter"
  <2>1. p \in PC \ {"answered", "enter"}
    BY DEF PC
  <2>2. QED
    BY <1>1, <2>1, GiveBackMoves DEF Release, limiter
<1>2. ASSUME NEW c \in Client,
             FailBody(c) \/ Return(c) \/ CancelHolding(c) \/ CancelGranted(c) \/ CheckKey(c)
      PROVE  /\ tracked' \subseteq tracked
             /\ \A d \in Client : pc'[d] = "enter" => pc[d] = "enter"
  BY <1>1, <1>2 DEF FailBody, Return, CancelHolding, CancelGranted, CheckKey, To, limiter
<1>3. ASSUME NEW c \in Client, \/ Acquire(c) \/ TakeGranted(c) \/ StopWaiting(c) \/ ReadBody(c)
                              \/ Respond(c) \/ CancelAsleep(c) \/ Again(c)
      PROVE  /\ tracked' \subseteq tracked
             /\ \A d \in Client : pc'[d] = "enter" => pc[d] = "enter"
  BY <1>3 DEF Acquire, TakeGranted, StopWaiting, ReadBody, Respond, CancelAsleep, Again, To, limiter
<1>4. CASE EvictStale \/ Tick \/ UNCHANGED vars
  BY <1>4 DEF EvictStale, Tick, vars, limiter, Addresses!EvictStale, Addresses!Pass
<1>5. QED
  BY <1>2, <1>3, <1>4 DEF Next, Handle, Cancel

LEMMA NextTable ==
  ASSUME TableNearBound, LimiterInv, ClockInv, queue \in Seq(Client), [Next]_vars
  PROVE  TableNearBound'
<1> USE GateAssumption DEF Addresses!LimiterAssumption
<1>1. /\ IsFiniteSet(tracked) /\ Cardinality(tracked) \in Nat
      /\ IsFiniteSet(tracked \cup Entering) /\ Cardinality(tracked \cup Entering) \in Nat
      /\ Cardinality(tracked \cup Entering) <= Cardinality(tracked) + Cardinality(Entering)
  <2>1. IsFiniteSet(tracked) /\ Cardinality(tracked) \in Nat
    BY SameFinite, FS_Subset, FS_CardinalityType DEF LimiterInv, Addresses!TypeOK
  <2>2. /\ IsFiniteSet(tracked \cap Entering) /\ Cardinality(tracked \cap Entering) \in Nat
    BY <2>1, FS_Intersection, FS_CardinalityType, EnteringCounts
  <2>3. /\ IsFiniteSet(tracked \cup Entering)
        /\ Cardinality(tracked \cup Entering)
             = Cardinality(tracked) + Cardinality(Entering) - Cardinality(tracked \cap Entering)
    BY <2>1, EnteringCounts, FS_Union
  <2>4. Cardinality(tracked \cup Entering) \in Nat
    BY <2>3, FS_CardinalityType
  <2>5. QED
    BY <2>1, <2>2, <2>3, <2>4, EnteringCounts
<1>2. ASSUME NEW c \in Client, LookUp(c)
      PROVE  TableNearBound'
  <2> DEFINE k == AddressOf[c]
  <2>1. tracked' = tracked
    BY <1>2 DEF LookUp, limiter
  <2>2. CASE ~Addresses!RoomFor(k)
    <3>1. Entering' \subseteq Entering
      BY <1>2, <2>2 DEF LookUp, To, Entering, At, ClockInv
    <3>2. QED
      BY <1>1, <2>1, <3>1, SubsetCounts DEF TableNearBound
  <2>3. CASE k \in tracked
    <3>1. Entering' \subseteq Entering \cup {k}
      BY <1>2, <2>3 DEF LookUp, To, Entering, At, ClockInv
    <3>2. QED
      BY <1>1, <2>1, <2>3, <3>1, SubsetCounts DEF TableNearBound
  <2>4. CASE Cardinality(tracked) < MaxTracked
    <3>1. Entering' \subseteq Entering \cup {k}
      BY <1>2 DEF LookUp, To, Entering, At, ClockInv
    <3>2. Cardinality(Entering) < Workers
      BY <1>2, EnteringCounts DEF LookUp
    <3>3. Cardinality(tracked \cup Entering) <= MaxTracked + Workers - 2
      BY <1>1, <2>4, <3>2, EnteringCounts
    <3> HIDE DEF k
    <3>4. /\ IsFiniteSet((tracked \cup Entering) \cup {k})
          /\ Cardinality((tracked \cup Entering) \cup {k}) < MaxTracked + Workers
      <4>1. /\ IsFiniteSet((tracked \cup Entering) \cup {k})
            /\ \/ Cardinality((tracked \cup Entering) \cup {k}) = Cardinality(tracked \cup Entering)
               \/ Cardinality((tracked \cup Entering) \cup {k})
                    = Cardinality(tracked \cup Entering) + 1
        BY <1>1, FS_AddElement
      <4>2. QED
        BY <1>1, <3>3, <4>1
    <3>5. QED
      BY <2>1, <3>1, <3>4, SubsetCounts DEF TableNearBound
  <2>5. QED
    BY <2>2, <2>3, <2>4, SameCardinality DEF Addresses!RoomFor
<1>3. ASSUME NEW c \in Client, Enter(c)
      PROVE  TableNearBound'
  <2>1. AddressOf[c] \in Entering
    BY <1>3 DEF Enter, Entering, At
  <2>2. tracked' = tracked \cup {AddressOf[c]} /\ Entering' \subseteq Entering
    BY <1>3 DEF Enter, Addresses!Enter, To, Entering, At, ClockInv
  <2>3. QED
    BY <1>1, <2>1, <2>2, SubsetCounts DEF TableNearBound
<1>4. CASE ~ \E c \in Client : LookUp(c) \/ Enter(c)
  <2>1. tracked' \subseteq tracked /\ Entering' \subseteq Entering
    BY <1>4, OthersKeepTable DEF LimiterInv
  <2>2. QED
    BY <1>1, <2>1, SubsetCounts DEF TableNearBound
<1>5. QED
  BY <1>2, <1>3, <1>4

LEMMA InitTable == Init => TableNearBound
<1> SUFFICES ASSUME Init
             PROVE  TableNearBound
  OBVIOUS
<1>1. tracked \cup Entering = {}
  BY DEF Init, Addresses!Init, Entering, At
<1>2. QED
  BY <1>1, FS_EmptySet, GateAssumption DEF TableNearBound, Addresses!LimiterAssumption

\* TableNearBound: what the two accesses of `check` can overshoot.
THEOREM TableStaysNearBound == Spec => []TableNearBound
<1>1. LimiterInv /\ GateInv /\ ClockInv /\ TableNearBound /\ [Next]_vars
      => LimiterInv' /\ GateInv' /\ ClockInv' /\ TableNearBound'
  BY NextLimiter, NextGate, NextClocks, NextTable DEF GateInv, Types
<1>2. QED
  BY <1>1, InitLimiter, InitGate, InitClocks, InitTable, PTL DEF Spec
==============================================================================
