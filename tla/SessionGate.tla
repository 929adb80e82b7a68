----------------------------- MODULE SessionGate -----------------------------
(***************************************************************************)
(* The layers in front of POST /validate-session (server.rs, timing.rs,    *)
(* paired/mod.rs), in the order a request meets them: the limiter per      *)
(* address, the API key, the gate of finalize slots, the read of the body, *)
(* the limiter per key, the handler, and on the way back the timing floor. *)
(* A client sends one request after another.                               *)
(*                                                                         *)
(* The gate is tokio's fair semaphore, external.  A permit given back goes *)
(* to the head of its queue, which has it from then on, though its task    *)
(* runs only later.  The permit travels with the request: whatever drops   *)
(* the request gives it back.                                              *)
(*                                                                         *)
(* Deadlines are choices: a wait may end unserved, and a body unread, at   *)
(* any time.  The limiter per key, another RateLimiter, refuses by choice. *)
(***************************************************************************)
EXTENDS Naturals, FiniteSets, SequencesExt

CONSTANTS
  Client, AddressOf,
  Key, MaxTracked, EntryTtl, Burst,   \* as in RateLimiter; the keys are addresses
  Workers,                            \* threads of the runtime
  Slots,                              \* EXECUTOR_PAIRED_SESSION_CONCURRENCY
  Floor                               \* HANDLER_MIN_DURATION

VARIABLES
  tracked, debt, idle,    \* RateLimiter
  permits, queue,         \* the gate: free permits, and who waits for one
  pc,                     \* where each client's request is
  elapsed,                \* the clock of the floor
  buffered,               \* history: bodies in memory, in part or whole
  sinceBody               \* history: ticks since the whole body was there

Addresses == INSTANCE RateLimiter

ASSUME GateAssumption ==
  /\ IsFiniteSet(Client)
  /\ AddressOf \in [Client -> Key]
  /\ Addresses!LimiterAssumption
  /\ Workers \in Nat \ {0} /\ Slots \in Nat \ {0} /\ Floor \in Nat

limiter == <<tracked, debt, idle>>
gate == <<permits, queue>>
clocks == <<elapsed, sinceBody>>
vars == <<limiter, gate, pc, clocks, buffered>>

\* A request ends "answered" when its answer came through the floor, and "left"
\* when it was refused on its way in or its client went away.
PC == {"idle", "enter", "gate", "waiting", "granted", "body", "key", "handler",
       "floor", "answered", "left"}

TypeOK ==
  /\ Addresses!TypeOK
  /\ permits \in 0 .. Slots
  /\ queue \in Seq(Client)
  /\ pc \in [Client -> PC]
  /\ elapsed \in [Client -> 0 .. Floor]
  /\ sinceBody \in [Client -> 0 .. Floor]
  /\ buffered \in SUBSET Client

Init ==
  /\ Addresses!Init
  /\ permits = Slots
  /\ queue = <<>>
  /\ pc = [c \in Client |-> "idle"]
  /\ elapsed = [c \in Client |-> 0]
  /\ sinceBody = [c \in Client |-> 0]
  /\ buffered = {}

At(p) == {c \in Client : pc[c] \in p}
To(c, p) == [pc EXCEPT ![c] = p]

------------------------------------------------------------------------------
\* The gate has a permit back: the head of its queue gets it, if there is one.
\* `moved` is where the caller's request goes.
GiveBack(moved) ==
  \/ /\ queue = <<>>
     /\ permits' = permits + 1
     /\ pc' = moved
     /\ UNCHANGED queue
  \/ /\ queue # <<>>
     /\ queue' = Tail(queue)
     /\ pc' = [moved EXCEPT ![Head(queue)] = "granted"]
     /\ UNCHANGED permits

\* The request and its body are dropped, and the slot with them.
Release(c, p) ==
  /\ GiveBack(To(c, p))
  /\ buffered' = buffered \ {c}
  /\ UNCHANGED <<limiter, clocks>>

------------------------------------------------------------------------------
(***************************************************************************)
(* The layers.                                                             *)
(***************************************************************************)

\* per_ip_rate_limit_middleware: the first access of `check`.  Nothing in it
\* awaits, so there are as many requests between the two as threads at most.
LookUp(c) ==
  /\ pc[c] = "idle"
  /\ Cardinality(At({"enter"})) < Workers
  /\ pc' = To(c, IF Addresses!RoomFor(AddressOf[c]) THEN "enter" ELSE "left")
  /\ UNCHANGED <<limiter, gate, clocks, buffered>>

\* The second; behind it, auth_middleware knows the API key or not.
Enter(c) ==
  /\ pc[c] = "enter"
  /\ Addresses!Enter(AddressOf[c])
  /\ \/ Addresses!Allows(AddressOf[c]) /\ pc' = To(c, "gate")
     \/ pc' = To(c, "left")
  /\ UNCHANGED <<gate, clocks, buffered>>

\* Mutant of Acquire: the gate is inside the read of the body.
AcquireReading(c) ==
  /\ pc[c] = "gate"
  /\ \/ /\ permits > 0
        /\ permits' = permits - 1
        /\ pc' = To(c, "body")
        /\ UNCHANGED queue
     \/ /\ permits = 0
        /\ queue' = Append(queue, c)
        /\ pc' = To(c, "waiting")
        /\ UNCHANGED permits
  /\ buffered' = buffered \cup {c}
  /\ UNCHANGED <<limiter, clocks>>

\* session_gate_middleware: a permit, or a place in the queue.  With a permit
\* min_duration_middleware begins to read the body.
Acquire(c) ==
  /\ pc[c] = "gate"
  /\ \/ /\ permits > 0
        /\ permits' = permits - 1
        /\ pc' = To(c, "body")
        /\ buffered' = buffered \cup {c}
        /\ UNCHANGED queue
     \/ /\ permits = 0
        /\ queue' = Append(queue, c)
        /\ pc' = To(c, "waiting")
        /\ UNCHANGED <<permits, buffered>>
  /\ UNCHANGED <<limiter, clocks>>

TakeGranted(c) ==
  /\ pc[c] = "granted"
  /\ pc' = To(c, "body")
  /\ buffered' = buffered \cup {c}
  /\ UNCHANGED <<limiter, gate, clocks>>

\* SESSION_SLOT_WAIT is over, or the client goes away.
StopWaiting(c) ==
  /\ pc[c] = "waiting"
  /\ \E i \in DOMAIN queue : queue[i] = c /\ queue' = RemoveAt(queue, i)
  /\ pc' = To(c, "left")
  /\ UNCHANGED <<limiter, permits, clocks, buffered>>

\* Mutant of ReadBody: the clock of the floor has run since the request came.
ReadBodyOnTheClock(c) ==
  /\ pc[c] = "body"
  /\ pc' = To(c, "key")
  /\ \E t \in 0 .. Floor : elapsed' = [elapsed EXCEPT ![c] = t]
  /\ sinceBody' = [sinceBody EXCEPT ![c] = 0]
  /\ UNCHANGED <<limiter, gate, buffered>>

\* min_duration_middleware: the clock starts when the whole body is there.
ReadBody(c) ==
  /\ pc[c] = "body"
  /\ pc' = To(c, "key")
  /\ elapsed' = [elapsed EXCEPT ![c] = 0]
  /\ sinceBody' = [sinceBody EXCEPT ![c] = 0]
  /\ UNCHANGED <<limiter, gate, buffered>>

\* The body is too large, stalls, or is not there by the deadline: no floor.
FailBody(c) == pc[c] = "body" /\ Release(c, "left")

\* rate_limit_middleware lets the request through, or refuses it.
CheckKey(c) ==
  /\ pc[c] = "key"
  /\ \/ /\ pc' = To(c, "handler")
        /\ UNCHANGED <<limiter, gate, clocks, buffered>>
     \/ Release(c, "floor")

\* Mutant of Return: the response holds the slot through the floor.
ReturnHolding(c) ==
  /\ pc[c] = "handler"
  /\ pc' = To(c, "floor")
  /\ buffered' = buffered \ {c}
  /\ UNCHANGED <<limiter, gate, clocks>>

\* validate_session_handler returns, and its SessionSlot goes with it.
Return(c) == pc[c] = "handler" /\ Release(c, "floor")

\* min_duration: the response sleeps out what is left of the floor.
Respond(c) ==
  /\ pc[c] = "floor" /\ elapsed[c] >= Floor
  /\ pc' = To(c, "answered")
  /\ UNCHANGED <<limiter, gate, clocks, buffered>>

------------------------------------------------------------------------------
(***************************************************************************)
(* The client goes away and the future is dropped at an await: with the    *)
(* permit it holds, with one granted it has not seen, or asleep.  When it  *)
(* waits it is in StopWaiting.                                             *)
(***************************************************************************)
CancelHolding(c) == pc[c] \in {"body", "handler"} /\ Release(c, "left")

\* Mutant of CancelGranted: the grant is lost with the task it was for.
CancelLosingGrant(c) ==
  /\ pc[c] = "granted"
  /\ pc' = To(c, "left")
  /\ UNCHANGED <<limiter, gate, clocks, buffered>>

CancelGranted(c) == pc[c] = "granted" /\ Release(c, "left")

CancelAsleep(c) ==
  /\ pc[c] = "floor"
  /\ pc' = To(c, "left")
  /\ UNCHANGED <<limiter, gate, clocks, buffered>>

Cancel(c) == CancelHolding(c) \/ CancelGranted(c) \/ CancelAsleep(c)

\* The client sends its next request.
Again(c) ==
  /\ pc[c] \in {"answered", "left"}
  /\ pc' = To(c, "idle")
  /\ elapsed' = [elapsed EXCEPT ![c] = 0]
  /\ sinceBody' = [sinceBody EXCEPT ![c] = 0]
  /\ UNCHANGED <<limiter, gate, buffered>>

------------------------------------------------------------------------------
\* The sweep of the limiter, and the clock.
EvictStale ==
  /\ Addresses!EvictStale
  /\ UNCHANGED <<gate, pc, clocks, buffered>>

\* A clock of c after a tick: it stands until the body is there.
Later(t, c) ==
  IF pc[c] \in {"key", "handler", "floor"} /\ t < Floor THEN t + 1 ELSE t

Tick ==
  /\ Addresses!Pass
  /\ elapsed' = [c \in Client |-> Later(elapsed[c], c)]
  /\ sinceBody' = [c \in Client |-> Later(sinceBody[c], c)]
  /\ UNCHANGED <<gate, pc, buffered>>

\* All a request needs to be answered, without its wait ever timing out.
Handle(c) ==
  \/ Enter(c) \/ Acquire(c) \/ TakeGranted(c) \/ ReadBody(c) \/ FailBody(c)
  \/ CheckKey(c) \/ Return(c) \/ Respond(c)

Next ==
  \/ \E c \in Client :
       LookUp(c) \/ Handle(c) \/ StopWaiting(c) \/ Cancel(c) \/ Again(c)
  \/ EvictStale
  \/ Tick

Spec == Init /\ [][Next]_vars

\* A body ends or meets its deadline, the handler returns (its calls have
\* timeouts), the sleep wakes.  Nobody need give up waiting.
Fairness == WF_vars(Tick) /\ \A c \in Client : WF_vars(Handle(c))
FairSpec == Spec /\ Fairness

------------------------------------------------------------------------------
(***************************************************************************)
(* Properties.                                                             *)
(***************************************************************************)

\* Every slot is free or held by a request that reads its body, runs its
\* handler, or has just been granted it; none by one that waits out the floor.
\* And none is free while a request waits, so that no refusal for want of a
\* slot comes from one lost or left lying (SessionSlot, session_gate_middleware).
Holders == At({"granted", "body", "key", "handler"})
SlotsAccounted ==
  /\ permits + Cardinality(Holders) = Slots
  /\ queue # <<>> => permits = 0

\* No more bodies are in memory at once than there are slots: a request that
\* waits for one holds a connection and no bytes (server.rs).
BodiesWithinSlots == Cardinality(buffered) <= Slots

\* No answer that depends on more than the body itself comes sooner after the
\* body's last byte than the floor, a refusal by the limiter included, however
\* slowly the body was sent (timing.rs).
FloorSinceBody == \A c \in At({"answered"}) : sinceBody[c] >= Floor

\* The table passes its bound by no more than the threads that look at once, less
\* one: the size is read in one access and the key inserted in another (check).
Entering == {AddressOf[c] : c \in At({"enter"})}
TableNearBound == Cardinality(tracked \cup Entering) < MaxTracked + Workers

\* To forget an idle address gives it nothing: the limiter with its table and
\* sweep implements one that remembers everybody (evict_stale).
Promise == INSTANCE Allowance
ImplementsAllowance == Promise!Spec

\* Every request past the limiter is done with, though nobody gives up waiting
\* and others never stop coming: the queue moves, and no slot is lost.
GateAnswers == \A c \in Client : pc[c] = "gate" ~> pc[c] \in {"answered", "left"}
==============================================================================
