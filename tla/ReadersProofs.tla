---------------------------- MODULE ReadersProofs ----------------------------
(***************************************************************************)
(* Theorems about what the served process reads beside its protocols, for  *)
(* any handlers, any TTL of the balance and any amounts.                   *)
(***************************************************************************)
EXTENDS Readers, SequenceTheorems, WellFoundedInduction, FiniteSetTheorems, TLAPS

------------------------------------------------------------------------------
(***************************************************************************)
(* The balance.  The cache is stamped no later than its balance was read,  *)
(* and so is the answer of a reader with the time of its question.         *)
(***************************************************************************)
BalanceInv ==
  /\ Balance!TypeOK
  /\ cache.stamp <= cache.read
  /\ \A r \in Task :
       /\ readers[r].now <= second
       /\ readers[r].at = "store" => readers[r].now <= readers[r].read
  /\ Balance!BalanceIsRecent

LEMMA BalanceInvInit == Balance!Init => BalanceInv
BY ReadersAssumption DEF Balance!CacheAssumption, Balance!Init, BalanceInv, Balance!TypeOK,
   Balance!Idle, Balance!Places, Balance!BalanceIsRecent

\* A reader may become anything that is not behind its question.
LEMMA BecomeKeeps ==
  ASSUME BalanceInv, UNCHANGED <<second, cache>>, NEW r \in Task,
         NEW at \in Balance!Places, NEW now \in Nat, NEW read \in Nat,
         Balance!Become(r, [at |-> at, now |-> now, read |-> read]),
         now <= second,
         at = "store" => now <= read,
         at = "answered" => now < read + CacheTtl
  PROVE  BalanceInv'
BY DEF BalanceInv, Balance!TypeOK, Balance!BalanceIsRecent, Balance!Become

LEMMA BalanceInvNext ==
  ASSUME BalanceInv, Balance!Next
  PROVE  BalanceInv'
<1>0. Balance!CacheAssumption
  BY ReadersAssumption
<1> USE <1>0 DEF Balance!CacheAssumption, BalanceInv, Balance!TypeOK,
        Balance!Idle, Balance!Places, Balance!BalanceIsRecent
<1>1. ASSUME NEW r \in Task, Balance!Begin(r) PROVE BalanceInv'
  BY <1>1, BecomeKeeps DEF Balance!Begin
<1>2. ASSUME NEW r \in Task, Balance!LookUp(r) PROVE BalanceInv'
  <2> DEFINE now == readers[r].now
  <2>1. CASE now < cache.stamp + CacheTtl
    <3>1. Balance!Become(r, [at |-> "answered", now |-> now, read |-> cache.read])
      BY <1>2, <2>1 DEF Balance!LookUp, Balance!Become
    <3>2. now < cache.read + CacheTtl
      BY <2>1
    <3>3. QED
      BY <1>2, <3>1, <3>2, BecomeKeeps DEF Balance!LookUp
  <2>2. CASE ~(now < cache.stamp + CacheTtl)
    <3>1. Balance!Become(r, [at |-> "fetch", now |-> now, read |-> readers[r].read])
      BY <1>2, <2>2 DEF Balance!LookUp, Balance!Become
    <3>2. QED
      BY <1>2, <3>1, BecomeKeeps DEF Balance!LookUp
  <2>3. QED
    BY <2>1, <2>2
<1>3. ASSUME NEW r \in Task, Balance!Fetch(r) PROVE BalanceInv'
  <2>1. \/ Balance!Become(r, [at |-> "store", now |-> readers[r].now, read |-> second])
        \/ Balance!Become(r, [at |-> "idle", now |-> 0, read |-> 0])
    BY <1>3 DEF Balance!Fetch, Balance!Become
  <2>2. QED
    BY <1>3, <2>1, BecomeKeeps DEF Balance!Fetch
<1>4. ASSUME NEW r \in Task, Balance!Store(r) PROVE BalanceInv'
  BY <1>4 DEF Balance!Store, Balance!Become
<1>5. ASSUME NEW r \in Task, Balance!Leave(r) PROVE BalanceInv'
  BY <1>5 DEF Balance!Leave, Balance!Become
<1>6. CASE Balance!Tick
  BY <1>6 DEF Balance!Tick
<1>7. QED
  BY <1>1, <1>2, <1>3, <1>4, <1>5, <1>6 DEF Balance!Next, Balance!Serve

------------------------------------------------------------------------------
(***************************************************************************)
(* The reputation.  A handler that has gone on to the parent's identity    *)
(* has a parent, an activity, and of its balance the answer, be it a       *)
(* failure; the risk is the middle, and the identity unread, until then.   *)
(***************************************************************************)
ReadingOf(a) ==
  /\ asks[a].sol \in Reputation!Amount \cup {Reputation!Pending, Reputation!Failed}
  /\ asks[a].activity \in Reputation!Amount \cup {Reputation!Pending, Reputation!Failed}
  /\ asks[a].at = "identity" =>
       /\ asks[a].sol # Reputation!Pending /\ asks[a].activity \in Reputation!Amount
       /\ asks[a].parent = "known"
  /\ asks[a].at # "answered" =>
       asks[a].risk = Reputation!Middle /\ asks[a].identity = "unread"

AskType ==
  [at : {"idle", "reads", "identity", "answered"}, sol : Int, activity : Int,
   parent : {"pending", "none", "failed", "known"},
   identity : {"unread", "failed", "other", "recent"}, risk : Int]

ReputationInv ==
  /\ asks \in [Task -> AskType]
  /\ \A a \in Task : ReadingOf(a)
  /\ Reputation!RiskIsOfWhatWasRead

LEMMA ReputationInvInit == Reputation!Init => ReputationInv
BY ReadersAssumption DEF Reputation!Init, ReputationInv, ReadingOf, AskType, Reputation!Idle,
   Reputation!Amount, Reputation!Pending, Reputation!Failed, Reputation!Middle,
   Reputation!RiskIsOfWhatWasRead

\* What an answer may say of what was read.
Weighed(a, identity, risk) ==
  risk # Reputation!Middle =>
    /\ asks[a].sol >= 0 /\ asks[a].activity >= 0
    /\ risk = Reputation!Risk(asks[a].sol, asks[a].activity, identity = "recent")
    /\ identity = "recent" => asks[a].parent = "known"

LEMMA AnswerKeeps ==
  ASSUME ReputationInv, NEW a \in Task, NEW risk \in Int,
         NEW identity \in {"unread", "failed", "other", "recent"},
         Reputation!Answer(a, identity, risk), Weighed(a, identity, risk)
  PROVE  ReputationInv'
<1> DEFINE answered == [asks[a] EXCEPT !.at = "answered", !.identity = identity,
                                       !.risk = risk]
<1>1. asks \in [Task -> AskType] /\ asks' = [asks EXCEPT ![a] = answered]
  BY DEF ReputationInv, Reputation!Answer, Reputation!Update
<1>2. /\ answered \in AskType /\ answered.at = "answered" /\ answered.risk = risk
      /\ answered.sol = asks[a].sol /\ answered.activity = asks[a].activity
      /\ answered.parent = asks[a].parent /\ answered.identity = identity
  BY <1>1 DEF AskType
<1> HIDE DEF answered
<1>3. asks' \in [Task -> AskType] /\ asks'[a] = answered
      /\ \A t \in Task : t # a => asks'[t] = asks[t]
  BY <1>1, <1>2
<1>4. \A t \in Task : ReadingOf(t)'
  BY <1>2, <1>3 DEF ReputationInv, ReadingOf, Reputation!Amount
<1>5. Reputation!RiskIsOfWhatWasRead'
  <2> SUFFICES ASSUME NEW t \in Task, asks'[t].at = "answered",
                      asks'[t].risk # Reputation!Middle
               PROVE  /\ asks'[t].sol >= 0 /\ asks'[t].activity >= 0
                      /\ asks'[t].risk = Reputation!Risk(asks'[t].sol, asks'[t].activity,
                                                         asks'[t].identity = "recent")
                      /\ asks'[t].identity = "recent" => asks'[t].parent = "known"
    BY DEF Reputation!RiskIsOfWhatWasRead, Reputation!Middle, Reputation!Risk,
       Reputation!Least
  <2>1. CASE t = a
    BY <1>2, <1>3, <2>1 DEF Weighed
  <2>2. CASE t # a
    BY <1>3, <2>2 DEF ReputationInv, Reputation!RiskIsOfWhatWasRead
  <2>3. QED
    BY <2>1, <2>2
<1>6. QED
  BY <1>3, <1>4, <1>5 DEF ReputationInv

\* A step that is no answer: the risk of the others is as it was.
LEMMA UpdateKeeps ==
  ASSUME ReputationInv, NEW a \in Task, NEW ask \in AskType,
         Reputation!Update(a, ask), ask.at # "answered",
         ask.sol \in Reputation!Amount \cup {Reputation!Pending, Reputation!Failed},
         ask.activity \in Reputation!Amount \cup {Reputation!Pending, Reputation!Failed},
         ask.at = "identity" =>
           /\ ask.sol # Reputation!Pending /\ ask.activity \in Reputation!Amount
           /\ ask.parent = "known",
         ask.risk = Reputation!Middle, ask.identity = "unread"
  PROVE  ReputationInv'
<1>1. asks' \in [Task -> AskType] /\ asks'[a] = ask
      /\ \A t \in Task : t # a => asks'[t] = asks[t]
  BY DEF ReputationInv, Reputation!Update
<1>2. \A t \in Task : ReadingOf(t)'
  BY <1>1 DEF ReputationInv, ReadingOf, Reputation!Amount, Reputation!Middle,
     Reputation!Pending, Reputation!Failed
<1>3. Reputation!RiskIsOfWhatWasRead'
  BY <1>1 DEF ReputationInv, Reputation!RiskIsOfWhatWasRead, Reputation!Middle,
     Reputation!Risk, Reputation!Least
<1>4. QED
  BY <1>1, <1>2, <1>3 DEF ReputationInv

LEMMA RiskType ==
  ASSUME NEW sol \in Int, NEW activity \in Int, NEW sybil \in BOOLEAN
  PROVE  Reputation!Risk(sol, activity, sybil) \in Int
BY ReadersAssumption DEF Reputation!Risk, Reputation!Least

LEMMA SnapshotKeeps ==
  ASSUME ReputationInv, NEW a \in Task,
         NEW identity \in {"unread", "failed", "other", "recent"},
         Reputation!Snapshot(a, identity),
         identity = "recent" => asks[a].parent = "known",
         asks[a].sol # Reputation!Pending, asks[a].activity \in Reputation!Amount
  PROVE  ReputationInv'
<1> USE ReadersAssumption
<1>1. asks[a].sol \in Int /\ asks[a].activity \in Int /\ asks[a].activity >= 0
  BY DEF ReputationInv, AskType, Reputation!Amount
<1>2. CASE asks[a].sol = Reputation!Failed
  <2>1. Reputation!Answer(a, identity, Reputation!Middle) /\ Reputation!Middle \in Int
    BY <1>2 DEF Reputation!Snapshot, Reputation!Middle
  <2>2. Weighed(a, identity, Reputation!Middle)
    BY DEF Weighed
  <2>3. QED
    BY <2>1, <2>2, AnswerKeeps
<1>3. CASE asks[a].sol # Reputation!Failed
  <2> DEFINE risk == Reputation!Risk(asks[a].sol, asks[a].activity, identity = "recent")
  <2>1. Reputation!Answer(a, identity, risk)
    BY <1>3 DEF Reputation!Snapshot
  <2>2. risk \in Int
    BY <1>1, RiskType
  <2>3. asks[a].sol >= 0
    BY <1>3 DEF ReputationInv, ReadingOf, Reputation!Amount
  <2>4. Weighed(a, identity, risk)
    BY <1>1, <2>3 DEF Weighed
  <2> HIDE DEF risk
  <2>5. QED
    BY <2>1, <2>2, <2>4, AnswerKeeps
<1>4. QED
  BY <1>2, <1>3

LEMMA ReputationInvNext ==
  ASSUME ReputationInv, Reputation!Next
  PROVE  ReputationInv'
<1> USE ReadersAssumption
<1>1. ASSUME NEW a \in Task, Reputation!Ask(a) PROVE ReputationInv'
  <2>1. asks[a] \in AskType /\ ReadingOf(a) /\ asks[a].at = "idle"
    BY <1>1 DEF ReputationInv, Reputation!Ask
  <2>2. CASE Reputation!Update(a, [asks[a] EXCEPT !.at = "reads"])
    <3> DEFINE ask == [asks[a] EXCEPT !.at = "reads"]
    <3>1. /\ ask \in AskType /\ ask.at = "reads" /\ ask.sol = asks[a].sol
          /\ ask.activity = asks[a].activity /\ ask.risk = asks[a].risk
          /\ ask.identity = asks[a].identity
      BY <2>1 DEF AskType
    <3> HIDE DEF ask
    <3>2. Reputation!Update(a, ask)
      BY <2>2 DEF ask
    <3>3. QED
      BY <2>1, <3>1, <3>2, UpdateKeeps DEF ReadingOf
  <2>3. CASE Reputation!Update(a, [asks[a] EXCEPT !.at = "answered"])
    <3> DEFINE ask == [asks[a] EXCEPT !.at = "answered"]
    <3>1. /\ ask \in AskType /\ ask.at = "answered" /\ ask.sol = asks[a].sol
          /\ ask.activity = asks[a].activity /\ ask.risk = Reputation!Middle
          /\ ask.identity = asks[a].identity
      BY <2>1 DEF AskType, ReadingOf
    <3>2. asks' = [asks EXCEPT ![a] = ask] /\ asks \in [Task -> AskType]
      BY <2>3 DEF Reputation!Update, ReputationInv
    <3> HIDE DEF ask
    <3>3. asks' \in [Task -> AskType] /\ asks'[a] = ask
          /\ \A t \in Task : t # a => asks'[t] = asks[t]
      BY <3>1, <3>2
    <3>4. \A t \in Task : ReadingOf(t)'
      BY <2>1, <3>1, <3>3 DEF ReputationInv, ReadingOf, Reputation!Amount,
         Reputation!Middle, Reputation!Pending, Reputation!Failed
    <3>5. Reputation!RiskIsOfWhatWasRead'
      BY <3>1, <3>3 DEF ReputationInv, Reputation!RiskIsOfWhatWasRead,
         Reputation!Middle, Reputation!Risk, Reputation!Least
    <3>6. QED
      BY <3>3, <3>4, <3>5 DEF ReputationInv
  <2>4. QED
    BY <1>1, <2>2, <2>3 DEF Reputation!Ask
<1>2. ASSUME NEW a \in Task,
             Reputation!ReadBalance(a) \/ Reputation!ReadActivity(a) \/ Reputation!ReadParent(a)
      PROVE ReputationInv'
  <2>1. asks[a] \in AskType /\ ReadingOf(a) /\ asks[a].at = "reads"
    BY <1>2 DEF ReputationInv, Reputation!ReadBalance, Reputation!ReadActivity,
       Reputation!ReadParent
  <2>2. CASE Reputation!ReadBalance(a)
    <3>1. PICK v \in Reputation!Amount \cup {Reputation!Failed} :
            Reputation!Update(a, [asks[a] EXCEPT !.sol = v])
      BY <2>2 DEF Reputation!ReadBalance
    <3> DEFINE ask == [asks[a] EXCEPT !.sol = v]
    <3>2. /\ ask \in AskType /\ ask.at = "reads" /\ ask.sol = v
          /\ ask.activity = asks[a].activity /\ ask.risk = asks[a].risk
          /\ ask.identity = asks[a].identity
      BY <2>1 DEF AskType, Reputation!Amount, Reputation!Failed
    <3>3. Reputation!Update(a, ask)
      BY <3>1
    <3> HIDE DEF ask
    <3>4. QED
      BY <2>1, <3>2, <3>3, UpdateKeeps DEF ReadingOf
  <2>3. CASE Reputation!ReadActivity(a)
    <3>1. PICK v \in Reputation!Amount \cup {Reputation!Failed} :
            Reputation!Update(a, [asks[a] EXCEPT !.activity = v])
      BY <2>3 DEF Reputation!ReadActivity
    <3> DEFINE ask == [asks[a] EXCEPT !.activity = v]
    <3>2. /\ ask \in AskType /\ ask.at = "reads" /\ ask.sol = asks[a].sol
          /\ ask.activity = v /\ ask.risk = asks[a].risk
          /\ ask.identity = asks[a].identity
      BY <2>1 DEF AskType, Reputation!Amount, Reputation!Failed
    <3>3. Reputation!Update(a, ask)
      BY <3>1
    <3> HIDE DEF ask
    <3>4. QED
      BY <2>1, <3>2, <3>3, UpdateKeeps DEF ReadingOf
  <2>4. CASE Reputation!ReadParent(a)
    <3>1. PICK p \in {"none", "failed", "known"} :
            Reputation!Update(a, [asks[a] EXCEPT !.parent = p])
      BY <2>4 DEF Reputation!ReadParent
    <3> DEFINE ask == [asks[a] EXCEPT !.parent = p]
    <3>2. /\ ask \in AskType /\ ask.at = "reads" /\ ask.sol = asks[a].sol
          /\ ask.activity = asks[a].activity /\ ask.risk = asks[a].risk
          /\ ask.identity = asks[a].identity
      BY <2>1 DEF AskType
    <3>3. Reputation!Update(a, ask)
      BY <3>1
    <3> HIDE DEF ask
    <3>4. QED
      BY <2>1, <3>2, <3>3, UpdateKeeps DEF ReadingOf
  <2>5. QED
    BY <1>2, <2>2, <2>3, <2>4
<1>3. ASSUME NEW a \in Task, Reputation!Join(a) PROVE ReputationInv'
  <2>1. CASE Reputation!Answer(a, "unread", Reputation!Middle)
    <3>1. Reputation!Middle \in Int /\ Weighed(a, "unread", Reputation!Middle)
      BY DEF Reputation!Middle, Weighed
    <3>2. QED
      BY <2>1, <3>1, AnswerKeeps
  <2>2. CASE asks[a].activity # Reputation!Failed /\ Reputation!Snapshot(a, "unread")
    <3>1. asks[a].sol # Reputation!Pending /\ asks[a].activity \in Reputation!Amount
      BY <1>3, <2>2 DEF Reputation!Join, ReputationInv, ReadingOf
    <3>2. QED
      BY <2>2, <3>1, SnapshotKeeps
  <2>3. CASE /\ asks[a].activity # Reputation!Failed /\ asks[a].parent = "known"
             /\ Reputation!Update(a, [asks[a] EXCEPT !.at = "identity"])
    <3> DEFINE ask == [asks[a] EXCEPT !.at = "identity"]
    <3>1. asks[a] \in AskType /\ ReadingOf(a) /\ asks[a].at = "reads"
          /\ asks[a].sol # Reputation!Pending /\ asks[a].activity # Reputation!Pending
      BY <1>3 DEF Reputation!Join, ReputationInv
    <3>2. /\ ask \in AskType /\ ask.at = "identity" /\ ask.sol = asks[a].sol
          /\ ask.activity = asks[a].activity /\ ask.parent = asks[a].parent
          /\ ask.risk = asks[a].risk /\ ask.identity = asks[a].identity
      BY <3>1 DEF AskType
    <3>3. Reputation!Update(a, ask)
      BY <2>3
    <3> HIDE DEF ask
    <3>4. QED
      BY <2>3, <3>1, <3>2, <3>3, UpdateKeeps DEF ReadingOf
  <2>4. QED
    BY <1>3, <2>1, <2>2, <2>3 DEF Reputation!Join
<1>4. ASSUME NEW a \in Task, Reputation!ReadIdentity(a) PROVE ReputationInv'
  <2>1. /\ asks[a].sol # Reputation!Pending /\ asks[a].activity \in Reputation!Amount
        /\ asks[a].parent = "known"
    BY <1>4 DEF Reputation!ReadIdentity, ReputationInv, ReadingOf
  <2>2. PICK identity \in {"failed", "other", "recent"} : Reputation!Snapshot(a, identity)
    <3>1. ASSUME NEW age \in Reputation!Age,
                 Reputation!Snapshot(a, IF age \in 0 .. Day - 1 THEN "recent" ELSE "other")
          PROVE  Reputation!Snapshot(a, "recent") \/ Reputation!Snapshot(a, "other")
      <4>1. CASE age \in 0 .. Day - 1
        BY <3>1, <4>1
      <4>2. CASE age \notin 0 .. Day - 1
        BY <3>1, <4>2
      <4>3. QED
        BY <4>1, <4>2
    <3>2. QED
      BY <1>4, <3>1 DEF Reputation!ReadIdentity
  <2>3. QED
    BY <2>1, <2>2, SnapshotKeeps
<1>5. ASSUME NEW a \in Task, Reputation!Timeout(a) PROVE ReputationInv'
  <2>1. Reputation!Middle \in Int /\ Weighed(a, "unread", Reputation!Middle)
    BY DEF Reputation!Middle, Weighed
  <2>2. QED
    BY <1>5, <2>1, AnswerKeeps DEF Reputation!Timeout
<1>6. ASSUME NEW a \in Task, Reputation!Leave(a) PROVE ReputationInv'
  <2>1. /\ Reputation!Idle \in AskType /\ Reputation!Idle.at = "idle"
        /\ Reputation!Idle.sol = Reputation!Pending
        /\ Reputation!Idle.activity = Reputation!Pending
        /\ Reputation!Idle.risk = Reputation!Middle /\ Reputation!Idle.identity = "unread"
    BY DEF Reputation!Idle, AskType, Reputation!Pending, Reputation!Middle
  <2>2. Reputation!Update(a, Reputation!Idle)
    BY <1>6 DEF Reputation!Leave
  <2>3. QED
    BY <2>1, <2>2, UpdateKeeps
<1>7. QED
  BY <1>1, <1>2, <1>3, <1>4, <1>5, <1>6 DEF Reputation!Next, Reputation!Read

------------------------------------------------------------------------------
(***************************************************************************)
(* Induction.  The library has that the finite sets are well-founded by    *)
(* inclusion; of the sets 1 .. n this is the least element of a set of     *)
(* numbers, and from it come a function that is defined step by step and a *)
(* property that goes from each number to the next.                        *)
(***************************************************************************)

\* What every induction below rests on.
LEMMA Least ==
  ASSUME NEW S \in SUBSET Nat, S # {}
  PROVE  \E n \in S : \A m \in S : n <= m
<1> DEFINE Upto == {1 .. n : n \in S}
<1>1. Upto \subseteq FiniteSubsetsOf(Nat) /\ Upto # {}
  <2>1. ASSUME NEW n \in S PROVE 1 .. n \in FiniteSubsetsOf(Nat)
    <3>1. IsFiniteSet(1 .. n)
      BY FS_Interval
    <3> QED
      BY <3>1 DEF FiniteSubsetsOf
  <2> QED
    BY <2>1
<1>2. IsWellFoundedOn(StrictSubsetOrdering(Nat), FiniteSubsetsOf(Nat))
  BY FS_StrictSubsetOrderingWellFounded
<1>3. PICK T \in Upto : \A U \in Upto : ~(<<U, T>> \in StrictSubsetOrdering(Nat))
  <2> HIDE DEF Upto
  <2> QED
    BY <1>1, <1>2, WFMin, Zenon
<1>4. PICK n \in S : T = 1 .. n
  OBVIOUS
<1>5. ASSUME NEW m \in S, m < n PROVE FALSE
  <2>1. 1 .. m \in Upto /\ 1 .. m \in SUBSET Nat /\ T \in SUBSET Nat
    BY <1>4
  <2>2. 1 .. m \subseteq T /\ 1 .. m # T
    <3>1. n \in T /\ n \notin 1 .. m
      BY <1>4, <1>5
    <3> QED
      BY <1>4, <1>5, <3>1
  <2> QED
    BY <1>3, <2>1, <2>2 DEF StrictSubsetOrdering
<1> QED
  BY <1>5

\* A value that is defined from the one before it is defined.
IsStep(F, n, A) == F \in [1 .. n -> [A -> A]]
Unrolls(g, F, n, base, A) ==
  g \in [0 .. n -> A] /\ g[0] = base /\ \A k \in 1 .. n : g[k] = F[k][g[k - 1]]

LEMMA Recursion ==
  ASSUME NEW n \in Nat, NEW A, NEW base \in A, NEW F, IsStep(F, n, A)
  PROVE  \E g : Unrolls(g, F, n, base, A)
<1> USE DEF IsStep
<1> DEFINE Upto(m, g) == /\ g \in [0 .. m -> A] /\ g[0] = base
                         /\ \A k \in 1 .. m : g[k] = F[k][g[k - 1]]
           Missing == {m \in 0 .. n : ~ \E g : Upto(m, g)}
<1>1. SUFFICES ASSUME Missing # {} PROVE FALSE
  <2>1. n \notin Missing
    BY <1>1
  <2> QED
    BY <2>1 DEF Unrolls
<1>2. PICK m \in Missing : \A j \in Missing : m <= j
  <2>1. Missing \in SUBSET Nat
    OBVIOUS
  <2> HIDE DEF Missing
  <2> QED
    BY <1>1, <2>1, Least
<1>3. m # 0
  <2>1. Upto(0, [k \in 0 .. 0 |-> base])
    OBVIOUS
  <2> QED
    BY <2>1
<1>4. PICK g : Upto(m - 1, g)
  <2>1. m - 1 \in 0 .. n /\ m - 1 \notin Missing
    BY <1>2, <1>3
  <2> QED
    BY <2>1
<1> DEFINE h == [k \in 0 .. m |-> IF k = m THEN F[m][g[m - 1]] ELSE g[k]]
<1>5. Upto(m, h)
  <2>1. m \in 1 .. n /\ g[m - 1] \in A /\ F[m] \in [A -> A]
    BY <1>3, <1>4
  <2>2. F[m][g[m - 1]] \in A
    BY <2>1
  <2>3. h \in [0 .. m -> A]
    BY <1>4, <2>2
  <2>4. h[0] = base
    BY <1>3, <1>4
  <2>5. ASSUME NEW k \in 1 .. m PROVE h[k] = F[k][h[k - 1]]
    <3>1. k - 1 \in 0 .. m /\ k - 1 # m /\ h[k - 1] = g[k - 1]
      BY <2>1
    <3>2. CASE k = m
      BY <3>1, <3>2
    <3>3. CASE k # m
      BY <1>4, <3>1, <3>3
    <3> QED
      BY <3>2, <3>3
  <2> QED
    BY <2>3, <2>4, <2>5
<1> QED
  BY <1>5

LEMMA Induction ==
  ASSUME NEW n \in Nat, NEW T, 0 \in T, \A k \in 1 .. n : k - 1 \in T => k \in T
  PROVE  0 .. n \subseteq T
<1> DEFINE Missing == (0 .. n) \ T
<1>1. SUFFICES ASSUME Missing # {} PROVE FALSE
  OBVIOUS
<1>2. PICK m \in Missing : \A j \in Missing : m <= j
  <2>1. Missing \in SUBSET Nat
    OBVIOUS
  <2> HIDE DEF Missing
  <2> QED
    BY <1>1, <2>1, Least
<1>3. m \in 1 .. n /\ m - 1 \in 0 .. n /\ m - 1 \notin Missing
  BY <1>2
<1> QED
  BY <1>2, <1>3

------------------------------------------------------------------------------
(***************************************************************************)
(* Sequences: what is flattened, what two that are put together are when   *)
(* the lengths of the first are known.                                     *)
(***************************************************************************)
\* FlattenSeq is what its definition says.
LEMMA Flattened ==
  ASSUME NEW S, NEW s \in Seq(Seq(S))
  PROVE  \E g \in [0 .. Len(s) -> Seq(S)] :
           /\ Signing!FlattenSeq(s) = g[Len(s)]
           /\ g[0] = <<>>
           /\ \A k \in 1 .. Len(s) : g[k] = g[k - 1] \o s[k]
<1> DEFINE n == Len(s)
           flatten[i \in 1 .. n] == IF i = 1 THEN s[i] ELSE flatten[i - 1] \o s[i]
           F == [k \in 1 .. n |-> [x \in Seq(S) |-> x \o s[k]]]
<1>1. n \in Nat /\ \A k \in 1 .. n : s[k] \in Seq(S)
  BY LenProperties
<1>2. <<>> \in Seq(S) /\ \A x \in Seq(S) : <<>> \o x = x
  OBVIOUS
<1>3. F \in [1 .. n -> [Seq(S) -> Seq(S)]]
  BY <1>1, ConcatProperties
<1>4. PICK g \in [0 .. n -> Seq(S)] : g[0] = <<>> /\ \A k \in 1 .. n : g[k] = F[k][g[k - 1]]
  <2>1. IsStep(F, n, Seq(S))
    BY <1>3 DEF IsStep
  <2>2. \E g : Unrolls(g, F, n, <<>>, Seq(S))
    <3> HIDE DEF F, n
    <3> QED
      BY <1>1, <1>2, <2>1, Recursion, Zenon
  <2> QED
    BY <2>2 DEF Unrolls
<1>5. ASSUME NEW k \in 1 .. n PROVE g[k] = g[k - 1] \o s[k]
  <2>1. k - 1 \in 0 .. n
    <3> HIDE DEF n
    <3> QED
      BY <1>1
  <2>3. g[k - 1] \in Seq(S) /\ g[k] = F[k][g[k - 1]]
    BY <1>4, <2>1, Zenon
  <2>2. F[k] = [x \in Seq(S) |-> x \o s[k]]
    BY Zenon
  <2> QED
    BY <2>2, <2>3, Zenon
<1>6. CASE s = <<>>
  <2>1. n = 0 /\ Signing!FlattenSeq(s) = <<>>
    BY <1>6 DEF Signing!FlattenSeq
  <2> QED
    BY <1>4, <1>5, <2>1
<1>7. CASE s # <<>>
  <2>1. Signing!FlattenSeq(s) = flatten[n]
    BY <1>7, n # 0 DEF Signing!FlattenSeq
  <2>2. flatten = [i \in 1 .. n |-> IF i = 1 THEN s[i] ELSE flatten[i - 1] \o s[i]]
    <3> DEFINE f == [i \in 1 .. n |-> g[i]]
    <3>1. f = [i \in 1 .. n |-> IF i = 1 THEN s[i] ELSE f[i - 1] \o s[i]]
      <4>1. ASSUME NEW i \in 1 .. n PROVE f[i] = IF i = 1 THEN s[i] ELSE f[i - 1] \o s[i]
        <5>1. f[i] = g[i] /\ g[i] = g[i - 1] \o s[i]
          BY <1>5
        <5>2. CASE i = 1
          <6>1. g[i - 1] = <<>> /\ s[i] \in Seq(S)
            BY <1>1, <1>4, <5>2
          <6>2. <<>> \o s[i] = s[i]
            BY <6>1
          <6> QED
            BY <5>1, <5>2, <6>1, <6>2, Zenon
        <5>3. CASE i # 1
          <6>1. i - 1 \in 1 .. n
            BY <1>1, <5>3
          <6>2. f[i - 1] = g[i - 1]
            BY <6>1, Zenon
          <6> QED
            BY <5>1, <5>3, <6>2, Zenon
        <5> QED
          BY <5>2, <5>3
      <4> QED
        BY <4>1
    <3>2. \E e : e = [i \in 1 .. n |-> IF i = 1 THEN s[i] ELSE e[i - 1] \o s[i]]
      <4> HIDE DEF f, n
      <4> QED
        BY <3>1
    <3> QED
      BY <3>2, Zenon DEF flatten
  <2>3. \A i \in 1 .. n : flatten[i] = IF i = 1 THEN s[i] ELSE flatten[i - 1] \o s[i]
    <3> HIDE DEF flatten
    <3> QED
      BY <2>2, Zenon
  <2>4. n \in {k \in 0 .. n : k = 0 \/ flatten[k] = g[k]}
    <3> DEFINE T == {k \in 0 .. n : k = 0 \/ flatten[k] = g[k]}
    <3>1. ASSUME NEW k \in 1 .. n, k - 1 \in T PROVE k \in T
      <4>1. CASE k = 1
        <5>1. flatten[k] = s[k]
          BY <2>3, <4>1
        <5>2. g[k] = g[k - 1] \o s[k] /\ g[k - 1] = <<>> /\ s[k] \in Seq(S)
          <6>1. k - 1 = 0
            BY <4>1
          <6> QED
            BY <1>1, <1>4, <1>5, <6>1, Zenon
        <5>3. flatten[k] = g[k]
          BY <1>2, <5>1, <5>2, Zenon
        <5> QED
          BY <1>1, <5>3
      <4>2. CASE k # 1
        <5>1. k - 1 # 0
          BY <4>2
        <5>2. flatten[k - 1] = g[k - 1]
          BY <3>1, <5>1
        <5>3. flatten[k] = g[k]
          BY <1>5, <2>3, <4>2, <5>2, Zenon
        <5> QED
          BY <1>1, <5>3
      <4> QED
        BY <4>1, <4>2
    <3>2. 0 \in T
      BY <1>1
    <3> HIDE DEF T
    <3>3. 0 .. n \subseteq T
      <4> HIDE DEF n
      <4> QED
        BY <1>1, <3>1, <3>2, Induction
    <3>4. n \in T
      BY <1>1, <3>3
    <3> QED
      BY <3>4 DEF T
  <2>5. n # 0
    BY <1>7
  <2> QED
    BY <1>4, <1>5, <2>1, <2>4, <2>5
<1> QED
  BY <1>6, <1>7

\* Two sequences that begin alike for as long as their heads are go on alike.
LEMMA Split ==
  ASSUME NEW S, NEW s \in Seq(S), NEW t \in Seq(S), NEW u \in Seq(S), NEW v \in Seq(S),
         Len(s) = Len(t), s \o u = t \o v
  PROVE  s = t /\ u = v
<1>1. /\ s \o u \in Seq(S) /\ Len(s \o u) = Len(s) + Len(u)
      /\ \A i \in 1 .. Len(s) + Len(u) :
           (s \o u)[i] = IF i <= Len(s) THEN s[i] ELSE u[i - Len(s)]
  BY ConcatProperties
<1>2. /\ t \o v \in Seq(S) /\ Len(t \o v) = Len(t) + Len(v)
      /\ \A i \in 1 .. Len(t) + Len(v) :
           (t \o v)[i] = IF i <= Len(t) THEN t[i] ELSE v[i - Len(t)]
  BY ConcatProperties
<1>3. Len(s) \in Nat /\ Len(u) \in Nat /\ Len(v) \in Nat /\ Len(u) = Len(v)
  BY <1>1, <1>2, LenProperties
<1>4. s = t
  <2>1. \A i \in 1 .. Len(s) : s[i] = t[i]
    BY <1>1, <1>2, <1>3
  <2> QED
    BY <2>1, SeqEqual
<1>5. u = v
  <2>1. ASSUME NEW i \in 1 .. Len(u) PROVE u[i] = v[i]
    <3>1. /\ i + Len(s) \in 1 .. Len(s) + Len(u) /\ ~(i + Len(s) <= Len(s))
          /\ (i + Len(s)) - Len(s) = i
      BY <1>3
    <3> QED
      BY <1>1, <1>2, <1>3, <3>1
  <2> QED
    BY <1>3, <2>1, SeqEqual
<1> QED
  BY <1>4, <1>5

\* Concatenation, to be reasoned about by the three facts that follow.
Cat(s, t) == s \o t

LEMMA CatTyped == \A S : \A s, t \in Seq(S) : Cat(s, t) \in Seq(S)
BY ConcatProperties DEF Cat

LEMMA CatRegroups == \A S : \A s, t, u \in Seq(S) : Cat(Cat(s, t), u) = Cat(s, Cat(t, u))
BY ConcatAssociative DEF Cat

LEMMA CatSplits ==
  \A S : \A s, t, u, v \in Seq(S) :
    Len(s) = Len(t) /\ Cat(s, u) = Cat(t, v) => s = t /\ u = v
BY Split DEF Cat

LEMMA CatSplitsHead ==
  ASSUME NEW S, NEW a \in Seq(S), NEW b \in Seq(S), NEW s \in Seq(S), NEW t \in Seq(S),
         NEW u \in Seq(S), NEW v \in Seq(S),
         Len(a) = Len(b), Cat(Cat(a, s), u) = Cat(Cat(b, t), v)
  PROVE  a = b /\ Cat(s, u) = Cat(t, v)
<1>1. Cat(s, u) \in Seq(S) /\ Cat(t, v) \in Seq(S)
  BY CatTyped
<1>2. Cat(a, Cat(s, u)) = Cat(b, Cat(t, v))
  BY CatRegroups
<1>3. QED
  BY <1>1, <1>2, CatSplits

Counted(s) == Cat(<<Len(s)>>, s)

\* The same of two sequences that begin with their lengths.
LEMMA CountedSplits ==
  ASSUME NEW S, NEW s \in Seq(S), NEW t \in Seq(S), NEW u \in Seq(S), NEW v \in Seq(S),
         Nat \subseteq S, Cat(Counted(s), u) = Cat(Counted(t), v)
  PROVE  s = t /\ u = v
<1>1. /\ <<Len(s)>> \in Seq(S) /\ <<Len(t)>> \in Seq(S) /\ Len(<<Len(s)>>) = Len(<<Len(t)>>)
      /\ <<Len(s)>> = <<Len(t)>> => Len(s) = Len(t)
  BY LenProperties
<1>2. Cat(Cat(<<Len(s)>>, s), u) = Cat(Cat(<<Len(t)>>, t), v)
  BY DEF Counted
<1>3. <<Len(s)>> = <<Len(t)>> /\ Cat(s, u) = Cat(t, v)
  <2> DEFINE a == <<Len(s)>>
             b == <<Len(t)>>
  <2>1. a \in Seq(S) /\ b \in Seq(S) /\ Len(a) = Len(b) /\ Cat(Cat(a, s), u) = Cat(Cat(b, t), v)
    BY <1>1, <1>2
  <2> HIDE DEF a, b
  <2>2. a = b /\ Cat(s, u) = Cat(t, v)
    BY <2>1, CatSplitsHead
  <2>3. QED
    BY <2>2 DEF a, b
<1> QED
  BY <1>1, <1>3, CatSplits, Zenon

------------------------------------------------------------------------------
(***************************************************************************)
(* The encoding of a capture (DigestEncoder).  Of each of its parts: it is *)
(* a sequence of cells, and of two encodings, each followed by anything,   *)
(* that are equal, the parts were equal and so is what follows them.       *)
(***************************************************************************)
\* The cells of a digest.
Cells == Seq(Signing!Double)

LEMMA IntegersAreCells == /\ Nat \subseteq Signing!Double /\ {0, 1} \subseteq Signing!Double
                          /\ Seq(Int) \subseteq Cells
BY SeqMonotonic DEF Signing!Double, Cells

LEMMA UnitSplits ==
  ASSUME NEW x \in Signing!Double, NEW y \in Signing!Double, NEW u \in Cells, NEW v \in Cells,
         Cat(<<x>>, u) = Cat(<<y>>, v)
  PROVE  x = y /\ u = v
<1> DEFINE a == <<x>>
           b == <<y>>
<1>1. a \in Cells /\ b \in Cells /\ Len(a) = Len(b) /\ Cat(a, u) = Cat(b, v)
  BY DEF Cells
<1>2. a = b => x = y
  OBVIOUS
<1> HIDE DEF a, b
<1>3. QED
  BY <1>1, <1>2, CatSplits DEF Cells

LEMMA CellsGrow == \A s, t \in Cells : Cat(s, t) \in Cells
BY CatTyped DEF Cells

LEMMA CellsRegroup == \A s, t, u \in Cells : Cat(Cat(s, t), u) = Cat(s, Cat(t, u))
BY CatRegroups DEF Cells

LEMMA CountedTyped == \A s \in Cells : Counted(s) \in Cells
<1>1. ASSUME NEW s \in Cells PROVE <<Len(s)>> \in Cells
  BY LenProperties DEF Cells, Signing!Double
<1> QED
  BY <1>1, CellsGrow DEF Counted

LEMMA TextIsCounted == \A s : Signing!Text(s) = Counted(s)
BY DEF Signing!Text, Counted, Cat

LEMMA TextTyped == \A s \in Seq(Int) : Signing!Text(s) \in Cells
BY TextIsCounted, CountedTyped, IntegersAreCells

LEMMA TextSplits ==
  ASSUME NEW s \in Seq(Int), NEW t \in Seq(Int), NEW u \in Cells, NEW v \in Cells,
         Cat(Signing!Text(s), u) = Cat(Signing!Text(t), v)
  PROVE  s = t /\ u = v
<1>1. s \in Cells /\ t \in Cells
  BY IntegersAreCells
<1>2. Cat(Counted(s), u) = Cat(Counted(t), v)
  BY TextIsCounted
<1> QED
  BY <1>1, <1>2, CountedSplits, IntegersAreCells DEF Cells

LEMMA ZeroedTyped ==
  ASSUME NEW s \in Cells
  PROVE  Signing!Zeroed(s) \in Cells /\ Len(Signing!Zeroed(s)) = Len(s)
BY LenProperties DEF Signing!Zeroed, Signing!Number, Signing!Double, Cells

LEMMA NumbersAreCounted == \A s \in Cells : Signing!Numbers(s) = Counted(Signing!Zeroed(s))
<1> SUFFICES ASSUME NEW s \in Cells PROVE Signing!Numbers(s) = Counted(Signing!Zeroed(s))
  OBVIOUS
<1>1. Signing!Numbers(s) = Cat(<<Len(s)>>, Signing!Zeroed(s))
  BY Zenon DEF Signing!Numbers, Cat, Signing!Zeroed
<1> QED
  BY <1>1, ZeroedTyped DEF Counted

LEMMA NumbersTyped == \A s \in Cells : Signing!Numbers(s) \in Cells
BY NumbersAreCounted, ZeroedTyped, CountedTyped

\* A vector is as long as it says, and its numbers are its own but for the
\* sign of a zero.
LEMMA NumbersSplit ==
  ASSUME NEW s \in Cells, NEW t \in Cells, NEW u \in Cells, NEW v \in Cells,
         Cat(Signing!Numbers(s), u) = Cat(Signing!Numbers(t), v)
  PROVE  Signing!Zeroed(s) = Signing!Zeroed(t) /\ u = v
<1>1. Signing!Zeroed(s) \in Cells /\ Signing!Zeroed(t) \in Cells
  BY ZeroedTyped
<1>2. Cat(Counted(Signing!Zeroed(s)), u) = Cat(Counted(Signing!Zeroed(t)), v)
  BY NumbersAreCounted
<1> QED
  BY <1>1, <1>2, CountedSplits, IntegersAreCells DEF Cells

\* A list of strings: the encodings put together, one after the other.
\* g[k] is the cells of the first k texts of s.
Lists(g, s, n) ==
  /\ s \in [1 .. n -> Seq(Int)] /\ g \in [0 .. n -> Cells] /\ g[0] = <<>>
  /\ \A k \in 1 .. n : g[k] = Cat(g[k - 1], Signing!Text(s[k]))

\* What follows the first tells apart no more than what follows the second.
Tells(x, y, s, t, n) ==
  \A u, v \in Cells : Cat(x, u) = Cat(y, v) => u = v /\ \A k \in 1 .. n : s[k] = t[k]

LEMMA ListedTextsSplit ==
  ASSUME NEW n \in Nat, NEW s, NEW t, NEW g, NEW h, Lists(g, s, n), Lists(h, t, n)
  PROVE  Tells(g[n], h[n], s, t, n)
<1> USE DEF Lists, Tells
<1> DEFINE T == {k \in 0 .. n : Tells(g[k], h[k], s, t, k)}
<1>1. 0 \in T
  <2>1. ASSUME NEW u \in Cells, NEW v \in Cells, Cat(g[0], u) = Cat(h[0], v) PROVE u = v
    <3>1. g[0] \in Cells /\ Len(g[0]) = Len(h[0]) /\ h[0] \in Cells
      OBVIOUS
    <3> QED
      BY <2>1, <3>1, CatSplits DEF Cells
  <2> QED
    BY <2>1
<1>2. ASSUME NEW k \in 1 .. n, k - 1 \in T PROVE k \in T
  <2>1. ASSUME NEW u \in Cells, NEW v \in Cells, Cat(g[k], u) = Cat(h[k], v)
        PROVE  u = v /\ \A j \in 1 .. k : s[j] = t[j]
    <3>1. /\ g[k - 1] \in Cells /\ h[k - 1] \in Cells /\ s[k] \in Seq(Int) /\ t[k] \in Seq(Int)
          /\ g[k] = Cat(g[k - 1], Signing!Text(s[k])) /\ h[k] = Cat(h[k - 1], Signing!Text(t[k]))
      OBVIOUS
    <3>2. Signing!Text(s[k]) \in Cells /\ Signing!Text(t[k]) \in Cells
      BY <3>1, TextTyped
    <3> DEFINE x == Cat(Signing!Text(s[k]), u)
               y == Cat(Signing!Text(t[k]), v)
    <3>3. x \in Cells /\ y \in Cells
      BY <3>2, CellsGrow
    <3>4. Cat(g[k - 1], x) = Cat(h[k - 1], y)
      BY <2>1, <3>1, <3>2, CellsRegroup
    <3>5. x = y /\ \A j \in 1 .. k - 1 : s[j] = t[j]
      <4> HIDE DEF x, y
      <4> QED
        BY <1>2, <3>3, <3>4
    <3>6. s[k] = t[k] /\ u = v
      BY <3>1, <3>5, TextSplits
    <3> QED
      BY <3>5, <3>6
  <2> QED
    BY <2>1
<1>3. 0 .. n \subseteq T
  <2> HIDE DEF T
  <2> QED
    BY <1>1, <1>2, Induction
<1> QED
  BY <1>3

\* The cells of a list of texts, one text after the other.
LEMMA TextsUnroll ==
  ASSUME NEW s \in Seq(Seq(Int))
  PROVE  \E g : Signing!Texts(s) = Cat(<<Len(s)>>, g[Len(s)]) /\ Lists(g, s, Len(s))
<1> DEFINE codes == [i \in DOMAIN s |-> Signing!Text(s[i])]
<1>1. s \in [1 .. Len(s) -> Seq(Int)] /\ Len(s) \in Nat /\ DOMAIN s = 1 .. Len(s)
  BY LenProperties
<1>2. \A i \in 1 .. Len(s) : Signing!Text(s[i]) \in Cells
  BY <1>1, TextTyped
<1>3. codes \in Seq(Seq(Signing!Double)) /\ Len(codes) = Len(s)
  BY <1>1, <1>2 DEF Cells
<1>4. \A k \in 1 .. Len(s) : codes[k] = Signing!Text(s[k])
  BY <1>1
<1>5. Signing!Texts(s) = Cat(<<Len(s)>>, Signing!FlattenSeq(codes))
  BY Zenon DEF Signing!Texts, Cat
<1> HIDE DEF codes
<1>6. PICK g \in [0 .. Len(codes) -> Seq(Signing!Double)] :
        /\ Signing!FlattenSeq(codes) = g[Len(codes)]
        /\ g[0] = <<>>
        /\ \A k \in 1 .. Len(codes) : g[k] = g[k - 1] \o codes[k]
  BY <1>3, Flattened, Zenon
<1> QED
  BY <1>1, <1>3, <1>4, <1>5, <1>6, Zenon DEF Cells, Cat, Lists

LEMMA TextsTyped == \A s \in Seq(Seq(Int)) : Signing!Texts(s) \in Cells
<1> SUFFICES ASSUME NEW s \in Seq(Seq(Int)) PROVE Signing!Texts(s) \in Cells
  OBVIOUS
<1>1. Len(s) \in Nat
  BY LenProperties
<1>2. Len(s) \in 0 .. Len(s)
  BY <1>1
<1>3. PICK g : Signing!Texts(s) = Cat(<<Len(s)>>, g[Len(s)]) /\ Lists(g, s, Len(s))
  BY TextsUnroll
<1>4. g[Len(s)] \in Cells
  BY <1>2, <1>3, Zenon DEF Lists
<1>5. <<Len(s)>> \in Cells
  BY <1>1 DEF Cells, Signing!Double
<1> QED
  BY <1>3, <1>4, <1>5, CellsGrow, Zenon

\* A list of texts is told from any other, however its texts are cut.
LEMMA TextsSplit ==
  ASSUME NEW s \in Seq(Seq(Int)), NEW t \in Seq(Seq(Int)), NEW u \in Cells, NEW v \in Cells,
         Cat(Signing!Texts(s), u) = Cat(Signing!Texts(t), v)
  PROVE  s = t /\ u = v
<1>1. /\ s \in [1 .. Len(s) -> Seq(Int)] /\ Len(s) \in Nat /\ Len(s) \in 0 .. Len(s)
      /\ t \in [1 .. Len(t) -> Seq(Int)] /\ Len(t) \in Nat /\ Len(t) \in 0 .. Len(t)
  BY LenProperties
<1>2. PICK g : Signing!Texts(s) = Cat(<<Len(s)>>, g[Len(s)]) /\ Lists(g, s, Len(s))
  BY TextsUnroll
<1>3. PICK h : Signing!Texts(t) = Cat(<<Len(t)>>, h[Len(t)]) /\ Lists(h, t, Len(t))
  BY TextsUnroll
<1>4. g[Len(s)] \in Cells /\ h[Len(t)] \in Cells
  BY <1>1, <1>2, <1>3, Zenon DEF Lists
<1>5. Len(s) = Len(t) /\ Cat(g[Len(s)], u) = Cat(h[Len(t)], v)
  <2>1. /\ Len(s) \in Signing!Double /\ <<Len(s)>> \in Cells
        /\ Len(t) \in Signing!Double /\ <<Len(t)>> \in Cells
    BY <1>1 DEF Cells, Signing!Double
  <2> DEFINE a == <<Len(s)>>
             b == <<Len(t)>>
             x == g[Len(s)]
             y == h[Len(t)]
  <2>2. /\ a \in Cells /\ b \in Cells /\ x \in Cells /\ y \in Cells /\ Len(a) = Len(b)
        /\ Cat(Cat(a, x), u) = Cat(Cat(b, y), v)
        /\ a = b => Len(s) = Len(t)
    BY <1>2, <1>3, <1>4, <2>1
  <2>3. a = b /\ Cat(x, u) = Cat(y, v)
    <3> HIDE DEF a, b, x, y
    <3> QED
      BY <2>2, CatSplitsHead DEF Cells
  <2> QED
    BY <2>2, <2>3
<1>6. u = v /\ \A k \in 1 .. Len(s) : s[k] = t[k]
  <2>1. /\ t \in [1 .. Len(s) -> Seq(Int)] /\ Lists(h, t, Len(s))
        /\ Cat(g[Len(s)], u) = Cat(h[Len(s)], v)
    BY <1>1, <1>3, <1>5
  <2> DEFINE n == Len(s)
  <2>2. n \in Nat /\ s \in [1 .. n -> Seq(Int)] /\ Lists(g, s, n)
    BY <1>1, <1>2
  <2>3. t \in [1 .. n -> Seq(Int)] /\ Lists(h, t, n) /\ Cat(g[n], u) = Cat(h[n], v)
    BY <2>1
  <2>4. u = v /\ \A k \in 1 .. n : s[k] = t[k]
    <3> HIDE DEF n
    <3>1. Tells(g[n], h[n], s, t, n)
      BY <2>2, <2>3, ListedTextsSplit, Zenon
    <3> QED
      BY <2>3, <3>1, Zenon DEF Tells
  <2> QED
    BY <2>4
<1> QED
  BY <1>5, <1>6, SeqEqual

\* Options: the flag tells whether anything follows.
LEMMA FlagsAreCells == <<0>> \in Cells /\ <<1>> \in Cells
BY IntegersAreCells DEF Cells

LEMMA OptionForms ==
  ASSUME NEW o, NEW c
  PROVE  /\ o = <<>> => Signing!Option(o, c) = <<0>>
         /\ o # <<>> => Signing!Option(o, c) = Cat(<<1>>, c)
BY DEF Signing!Option, Cat

LEMMA OptionTyped ==
  ASSUME NEW o, NEW c, o # <<>> => c \in Cells
  PROVE  Signing!Option(o, c) \in Cells
BY OptionForms, FlagsAreCells, CellsGrow

LEMMA OptionOpens ==
  ASSUME NEW o, NEW c, o # <<>>, c \in Cells, NEW u \in Cells
  PROVE  /\ Cat(Signing!Option(o, c), u) = Cat(<<1>>, Cat(c, u))
         /\ Cat(c, u) \in Cells
BY OptionForms, FlagsAreCells, CellsGrow, CellsRegroup

\* An option that is there is told from one that is not, and what it holds
\* begins where that of the other does.
LEMMA OptionSplits ==
  ASSUME NEW o, NEW p, NEW c, NEW d, o # <<>> => c \in Cells, p # <<>> => d \in Cells,
         NEW u \in Cells, NEW v \in Cells,
         Cat(Signing!Option(o, c), u) = Cat(Signing!Option(p, d), v)
  PROVE  /\ o = <<>> <=> p = <<>>
         /\ o = <<>> => u = v
         /\ o # <<>> => Cat(c, u) = Cat(d, v)
<1>1. 0 \in Signing!Double /\ 1 \in Signing!Double
  BY IntegersAreCells
<1>2. ASSUME NEW x \in {0, 1}, NEW y \in {0, 1}, NEW a \in Cells, NEW b \in Cells,
             Cat(<<x>>, a) = Cat(<<y>>, b)
      PROVE  x = y /\ a = b
  BY <1>1, <1>2, UnitSplits
<1>3. CASE o = <<>> /\ p = <<>>
  BY <1>2, <1>3, OptionForms
<1>4. CASE o # <<>> /\ p # <<>>
  BY <1>2, <1>4, OptionOpens
<1>5. CASE o = <<>> /\ p # <<>>
  BY <1>2, <1>5, OptionForms, OptionOpens
<1>6. CASE o # <<>> /\ p = <<>>
  BY <1>2, <1>6, OptionForms, OptionOpens
<1> QED
  BY <1>3, <1>4, <1>5, <1>6

LEMMA OptionalHolds ==
  ASSUME NEW S, NEW o \in Signing!Optional(S), o # <<>>
  PROVE  o[1] \in S /\ o = <<o[1]>>
<1>1. o \in Seq(S) /\ Len(o) = 1
  <2>1. o \in Seq(S) /\ Len(o) <= 1
    BY DEF Signing!Optional
  <2>2. Len(o) \in Nat \ {0}
    BY <2>1, EmptySeq
  <2> QED
    BY <2>1, <2>2
<1>2. o[1] \in S
  BY <1>1, ElementOfSeq
<1>3. <<o[1]>> \in Seq(S) /\ Len(<<o[1]>>) = 1 /\ <<o[1]>>[1] = o[1]
  BY <1>2
<1> QED
  BY <1>1, <1>2, <1>3, SeqEqual

LEMMA OptionalsEqual ==
  ASSUME NEW S, NEW o \in Signing!Optional(S), NEW p \in Signing!Optional(S),
         o = <<>> <=> p = <<>>, o # <<>> => o[1] = p[1]
  PROVE  o = p
BY OptionalHolds

------------------------------------------------------------------------------
\* option_string.
LEMMA OptionTextSplits ==
  ASSUME NEW o \in Signing!Optional(Seq(Int)), NEW p \in Signing!Optional(Seq(Int)),
         NEW u \in Cells, NEW v \in Cells,
         Cat(Signing!Option(o, Signing!Text(o[1])), u)
           = Cat(Signing!Option(p, Signing!Text(p[1])), v)
  PROVE  o = p /\ u = v
<1> DEFINE c == Signing!Text(o[1])
           d == Signing!Text(p[1])
<1>1. /\ o # <<>> => o[1] \in Seq(Int) /\ c \in Cells
      /\ p # <<>> => p[1] \in Seq(Int) /\ d \in Cells
  BY OptionalHolds, TextTyped
<1>2. /\ o = <<>> <=> p = <<>>
      /\ o = <<>> => u = v
      /\ o # <<>> => Cat(c, u) = Cat(d, v)
  <2> HIDE DEF c, d
  <2>1. Cat(Signing!Option(o, c), u) = Cat(Signing!Option(p, d), v)
    BY DEF c, d
  <2> QED
    BY <1>1, <2>1, OptionSplits
<1>3. o # <<>> => o[1] = p[1] /\ u = v
  BY <1>1, <1>2, TextSplits
<1> QED
  BY <1>2, <1>3, OptionalsEqual

\* option_f64_vector.
LEMMA OptionNumbersSplit ==
  ASSUME NEW o \in Signing!Optional(Cells), NEW p \in Signing!Optional(Cells),
         NEW u \in Cells, NEW v \in Cells,
         Cat(Signing!Option(o, Signing!Numbers(o[1])), u)
           = Cat(Signing!Option(p, Signing!Numbers(p[1])), v)
  PROVE  Signing!ZeroedVector(o) = Signing!ZeroedVector(p) /\ u = v
<1> DEFINE c == Signing!Numbers(o[1])
           d == Signing!Numbers(p[1])
<1>1. /\ o # <<>> => o[1] \in Cells /\ c \in Cells
      /\ p # <<>> => p[1] \in Cells /\ d \in Cells
  BY OptionalHolds, NumbersTyped
<1>2. /\ o = <<>> <=> p = <<>>
      /\ o = <<>> => u = v
      /\ o # <<>> => Cat(c, u) = Cat(d, v)
  <2> HIDE DEF c, d
  <2>1. Cat(Signing!Option(o, c), u) = Cat(Signing!Option(p, d), v)
    BY DEF c, d
  <2> QED
    BY <1>1, <2>1, OptionSplits
<1>3. o # <<>> => Signing!Zeroed(o[1]) = Signing!Zeroed(p[1]) /\ u = v
  BY <1>1, <1>2, NumbersSplit
<1> QED
  BY <1>2, <1>3 DEF Signing!ZeroedVector

\* option_f64.
LEMMA UnitTyped ==
  \A x \in Signing!Double : Signing!Unit(x) \in Cells /\ Signing!Number(x) \in Signing!Double
BY DEF Signing!Unit, Signing!Number, Signing!Double, Cells

LEMMA OptionUnitSplits ==
  ASSUME NEW o \in Signing!Optional(Signing!Double), NEW p \in Signing!Optional(Signing!Double),
         NEW u \in Cells, NEW v \in Cells,
         Cat(Signing!Option(o, Signing!Unit(o[1])), u)
           = Cat(Signing!Option(p, Signing!Unit(p[1])), v)
  PROVE  Signing!Zeroed(o) = Signing!Zeroed(p) /\ u = v
<1> DEFINE c == Signing!Unit(o[1])
           d == Signing!Unit(p[1])
<1>1. /\ o # <<>> => o[1] \in Signing!Double /\ c \in Cells
      /\ p # <<>> => p[1] \in Signing!Double /\ d \in Cells
  BY OptionalHolds, UnitTyped
<1>2. /\ o = <<>> <=> p = <<>>
      /\ o = <<>> => u = v
      /\ o # <<>> => Cat(c, u) = Cat(d, v)
  <2> HIDE DEF c, d
  <2>1. Cat(Signing!Option(o, c), u) = Cat(Signing!Option(p, d), v)
    BY DEF c, d
  <2> QED
    BY <1>1, <2>1, OptionSplits
<1>3. o # <<>> => Signing!Number(o[1]) = Signing!Number(p[1]) /\ u = v
  <2>1. c = <<Signing!Number(o[1])>> /\ d = <<Signing!Number(p[1])>>
    BY DEF Signing!Unit
  <2> QED
    BY <1>1, <1>2, <2>1, UnitTyped, UnitSplits
<1>4. CASE o = <<>>
  BY <1>2, <1>4
<1>5. CASE o # <<>>
  <2>1. o = <<o[1]>> /\ p = <<p[1]>>
    BY <1>2, <1>5, OptionalHolds
  <2>2. DOMAIN o = {1} /\ DOMAIN p = {1}
    BY <2>1
  <2>3. Signing!Zeroed(o) = Signing!Zeroed(p)
    BY <1>3, <1>5, <2>2 DEF Signing!Zeroed
  <2> QED
    BY <1>3, <1>5, <2>3
<1> QED
  BY <1>4, <1>5

\* An option of a number that has no second zero.
LEMMA OptionWholeSplits ==
  ASSUME NEW o \in Signing!Optional(Int), NEW p \in Signing!Optional(Int),
         NEW u \in Cells, NEW v \in Cells,
         Cat(Signing!Option(o, <<o[1]>>), u) = Cat(Signing!Option(p, <<p[1]>>), v)
  PROVE  o = p /\ u = v
<1> DEFINE c == <<o[1]>>
           d == <<p[1]>>
<1>1. /\ o # <<>> => o[1] \in Signing!Double /\ c \in Cells
      /\ p # <<>> => p[1] \in Signing!Double /\ d \in Cells
  BY OptionalHolds DEF Signing!Double, Cells
<1>2. /\ o = <<>> <=> p = <<>>
      /\ o = <<>> => u = v
      /\ o # <<>> => Cat(c, u) = Cat(d, v)
  <2> HIDE DEF c, d
  <2>1. Cat(Signing!Option(o, c), u) = Cat(Signing!Option(p, d), v)
    BY DEF c, d
  <2> QED
    BY <1>1, <2>1, OptionSplits
<1>3. o # <<>> => o[1] = p[1] /\ u = v
  BY <1>1, <1>2, UnitSplits
<1> QED
  BY <1>2, <1>3, OptionalsEqual

\* The parts of a request, each told from any other wherever it ends.
LEMMA ThreeRegroup ==
  ASSUME NEW a \in Cells, NEW b \in Cells, NEW c \in Cells, NEW u \in Cells
  PROVE  /\ Cat(Cat(Cat(a, b), c), u) = Cat(a, Cat(b, Cat(c, u)))
         /\ Cat(c, u) \in Cells /\ Cat(b, Cat(c, u)) \in Cells /\ Cat(Cat(a, b), c) \in Cells
BY CellsRegroup, CellsGrow

LEMMA IntUnit == \A x \in Int : x \in Signing!Double /\ <<x>> \in Cells
BY DEF Signing!Double, Cells

AutomationType == [webdriver : Int, tells : Seq(Seq(Int))]
CaptureType ==
  [virtual : Int, flatness : Signing!Optional(Signing!Double),
   centroid : Signing!Optional(Signing!Double)]

LEMMA AutomationTyped == \A a \in AutomationType : Signing!Automation(a) \in Cells
<1> SUFFICES ASSUME NEW a \in AutomationType PROVE Signing!Automation(a) \in Cells
  OBVIOUS
<1>1. <<a.webdriver>> \in Cells /\ Signing!Texts(a.tells) \in Cells
  BY IntUnit, TextsTyped DEF AutomationType
<1>2. Signing!Automation(a) = Cat(<<a.webdriver>>, Signing!Texts(a.tells))
  BY Zenon DEF Signing!Automation, Cat
<1> QED
  BY <1>1, <1>2, CellsGrow

LEMMA AutomationSplits ==
  ASSUME NEW a \in AutomationType, NEW b \in AutomationType, NEW u \in Cells, NEW v \in Cells,
         Cat(Signing!Automation(a), u) = Cat(Signing!Automation(b), v)
  PROVE  a = b /\ u = v
<1>1. /\ a.webdriver \in Int /\ a.tells \in Seq(Seq(Int))
      /\ b.webdriver \in Int /\ b.tells \in Seq(Seq(Int))
  BY DEF AutomationType
<1> DEFINE x == Signing!Texts(a.tells)
           y == Signing!Texts(b.tells)
           i == a.webdriver
           j == b.webdriver
<1>2. x \in Cells /\ y \in Cells /\ i \in Int /\ j \in Int
  BY <1>1, TextsTyped
<1>3. Signing!Automation(a) = Cat(<<i>>, x) /\ Signing!Automation(b) = Cat(<<j>>, y)
  BY Zenon DEF Signing!Automation, Cat
<1>4. i = j /\ Cat(x, u) = Cat(y, v)
  <2> HIDE DEF x, y, i, j
  <2>1. Cat(<<i>>, Cat(x, u)) = Cat(<<j>>, Cat(y, v)) /\ Cat(x, u) \in Cells /\ Cat(y, v) \in Cells
    BY <1>2, <1>3, IntUnit, CellsRegroup, CellsGrow
  <2> QED
    BY <1>2, <2>1, IntUnit, UnitSplits
<1>5. a.tells = b.tells /\ u = v
  BY <1>1, <1>4, TextsSplit
<1> QED
  BY <1>4, <1>5 DEF AutomationType

LEMMA CaptureForm ==
  ASSUME NEW c
  PROVE  Signing!Capture(c) =
           Cat(Cat(<<c.virtual>>, Signing!Option(c.flatness, Signing!Unit(c.flatness[1]))),
               Signing!Option(c.centroid, Signing!Unit(c.centroid[1])))
BY Zenon DEF Signing!Capture, Cat

LEMMA OptionUnitTyped ==
  ASSUME NEW o \in Signing!Optional(Signing!Double)
  PROVE  Signing!Option(o, Signing!Unit(o[1])) \in Cells
<1> DEFINE c == Signing!Unit(o[1])
<1>1. o # <<>> => c \in Cells
  BY OptionalHolds, UnitTyped
<1> HIDE DEF c
<1>2. Signing!Option(o, c) \in Cells
  BY <1>1, OptionTyped
<1> QED
  BY <1>2 DEF c

LEMMA CaptureSplits ==
  ASSUME NEW a \in CaptureType, NEW b \in CaptureType, NEW u \in Cells, NEW v \in Cells,
         Cat(Signing!Capture(a), u) = Cat(Signing!Capture(b), v)
  PROVE  /\ a.virtual = b.virtual
         /\ Signing!Zeroed(a.flatness) = Signing!Zeroed(b.flatness)
         /\ Signing!Zeroed(a.centroid) = Signing!Zeroed(b.centroid)
         /\ u = v
<1> DEFINE i == a.virtual
           j == b.virtual
           f == Signing!Option(a.flatness, Signing!Unit(a.flatness[1]))
           g == Signing!Option(b.flatness, Signing!Unit(b.flatness[1]))
           x == Signing!Option(a.centroid, Signing!Unit(a.centroid[1]))
           y == Signing!Option(b.centroid, Signing!Unit(b.centroid[1]))
<1>1. /\ i \in Int /\ j \in Int
      /\ a.flatness \in Signing!Optional(Signing!Double)
      /\ b.flatness \in Signing!Optional(Signing!Double)
      /\ a.centroid \in Signing!Optional(Signing!Double)
      /\ b.centroid \in Signing!Optional(Signing!Double)
  BY DEF CaptureType
<1>2. /\ <<i>> \in Cells /\ <<j>> \in Cells /\ f \in Cells /\ g \in Cells
      /\ x \in Cells /\ y \in Cells
  BY <1>1, OptionUnitTyped, IntUnit
<1>3. Cat(Cat(Cat(<<i>>, f), x), u) = Cat(Cat(Cat(<<j>>, g), y), v)
  BY CaptureForm
<1>4. /\ i = j /\ Cat(f, Cat(x, u)) = Cat(g, Cat(y, v))
      /\ Cat(x, u) \in Cells /\ Cat(y, v) \in Cells
  <2> DEFINE k == <<i>>
             l == <<j>>
  <2>1. k \in Cells /\ l \in Cells /\ Cat(Cat(Cat(k, f), x), u) = Cat(Cat(Cat(l, g), y), v)
    BY <1>2, <1>3
  <2>2. /\ Cat(k, Cat(f, Cat(x, u))) = Cat(l, Cat(g, Cat(y, v)))
        /\ Cat(x, u) \in Cells /\ Cat(f, Cat(x, u)) \in Cells
        /\ Cat(y, v) \in Cells /\ Cat(g, Cat(y, v)) \in Cells
    <3> HIDE DEF k, l, f, g, x, y
    <3> QED
      BY <1>2, <2>1, ThreeRegroup
  <2> HIDE DEF f, g, x, y
  <2> QED
    BY <1>1, <2>2, IntUnit, UnitSplits
<1>5. Signing!Zeroed(a.flatness) = Signing!Zeroed(b.flatness) /\ Cat(x, u) = Cat(y, v)
  <2> HIDE DEF x, y
  <2> QED
    BY <1>1, <1>4, OptionUnitSplits
<1>6. Signing!Zeroed(a.centroid) = Signing!Zeroed(b.centroid) /\ u = v
  BY <1>1, <1>5, OptionUnitSplits
<1> QED
  BY <1>4, <1>5, <1>6

LEMMA CaptureTyped == \A c \in CaptureType : Signing!Capture(c) \in Cells
<1> SUFFICES ASSUME NEW c \in CaptureType PROVE Signing!Capture(c) \in Cells
  OBVIOUS
<1>1. /\ <<c.virtual>> \in Cells
      /\ Signing!Option(c.flatness, Signing!Unit(c.flatness[1])) \in Cells
      /\ Signing!Option(c.centroid, Signing!Unit(c.centroid[1])) \in Cells
  BY IntUnit, OptionUnitTyped DEF CaptureType
<1> QED
  BY <1>1, CaptureForm, CellsGrow, Zenon

LEMMA EqualHeads ==
  ASSUME NEW a \in Cells, NEW b \in Cells, Len(a) = Len(b), NEW u \in Cells, NEW v \in Cells,
         Cat(a, u) = Cat(b, v)
  PROVE  a = b /\ u = v
BY CatSplits DEF Cells

LEMMA IntTuples ==
  /\ \A x, y \in Int : <<x, y>> \in Cells /\ Len(<<x, y>>) = 2
  /\ \A x, y, z \in Int : <<x, y, z>> \in Cells /\ Len(<<x, y, z>>) = 3
<1>1. ASSUME NEW x \in Int, NEW y \in Int PROVE <<x, y>> \in Seq(Int) /\ Len(<<x, y>>) = 2
  OBVIOUS
<1>2. ASSUME NEW x \in Int, NEW y \in Int, NEW z \in Int
      PROVE  <<x, y, z>> \in Seq(Int) /\ Len(<<x, y, z>>) = 3
  OBVIOUS
<1> QED
  BY <1>1, <1>2, IntegersAreCells

LEMMA EvidenceForm ==
  ASSUME NEW e
  PROVE  Signing!Evidence(e) = Cat(<<e.projection, e.schema>>, Signing!Numbers(e.features))
BY Zenon DEF Signing!Evidence, Cat

LEMMA EvidenceTyped == \A e \in Signing!EvidenceType : Signing!Evidence(e) \in Cells
<1> SUFFICES ASSUME NEW e \in Signing!EvidenceType PROVE Signing!Evidence(e) \in Cells
  OBVIOUS
<1>1. e.projection \in Int /\ e.schema \in Int /\ e.features \in Cells
  BY DEF Signing!EvidenceType, Cells
<1>2. <<e.projection, e.schema>> \in Cells
  BY <1>1, IntTuples
<1> QED
  BY <1>1, <1>2, EvidenceForm, NumbersTyped, CellsGrow, Zenon

LEMMA EvidenceSplits ==
  ASSUME NEW a \in Signing!EvidenceType, NEW b \in Signing!EvidenceType,
         NEW u \in Cells, NEW v \in Cells,
         Cat(Signing!Evidence(a), u) = Cat(Signing!Evidence(b), v)
  PROVE  /\ a.projection = b.projection /\ a.schema = b.schema
         /\ Signing!Zeroed(a.features) = Signing!Zeroed(b.features)
         /\ u = v
<1> DEFINE k == <<a.projection, a.schema>>
           l == <<b.projection, b.schema>>
           x == Signing!Numbers(a.features)
           y == Signing!Numbers(b.features)
<1>1. /\ a.projection \in Int /\ a.schema \in Int /\ a.features \in Cells
      /\ b.projection \in Int /\ b.schema \in Int /\ b.features \in Cells
  BY DEF Signing!EvidenceType, Cells
<1>2. k \in Cells /\ l \in Cells /\ Len(k) = Len(l)
  BY <1>1, IntTuples
<1>3. x \in Cells /\ y \in Cells
  BY <1>1, NumbersTyped
<1>4. Cat(Cat(k, x), u) = Cat(Cat(l, y), v)
  BY EvidenceForm
<1>5. k = l /\ Cat(x, u) = Cat(y, v)
  <2> HIDE DEF k, l, x, y
  <2> QED
    BY <1>2, <1>3, <1>4, CatSplitsHead DEF Cells
<1>6. a.projection = b.projection /\ a.schema = b.schema
  BY <1>5
<1> QED
  BY <1>1, <1>5, <1>6, NumbersSplit

LEMMA StudyForm ==
  ASSUME NEW s
  PROVE  Signing!StudyContext(s) =
           Cat(Cat(Signing!Text(s.token), Signing!Text(s.record)),
               <<s.class, s.schema, s.projection>>)
BY Zenon DEF Signing!StudyContext, Cat

LEMMA StudyTyped == \A s \in Signing!StudyType : Signing!StudyContext(s) \in Cells
<1> SUFFICES ASSUME NEW s \in Signing!StudyType PROVE Signing!StudyContext(s) \in Cells
  OBVIOUS
<1>1. /\ s.token \in Seq(Int) /\ s.record \in Seq(Int)
      /\ s.class \in Int /\ s.schema \in Int /\ s.projection \in Int
  BY DEF Signing!StudyType
<1>2. <<s.class, s.schema, s.projection>> \in Cells
  BY <1>1, IntTuples
<1>3. Signing!Text(s.token) \in Cells /\ Signing!Text(s.record) \in Cells
  BY <1>1, TextTyped
<1> QED
  BY <1>2, <1>3, StudyForm, CellsGrow, Zenon

LEMMA StudySplits ==
  ASSUME NEW a \in Signing!StudyType, NEW b \in Signing!StudyType,
         NEW u \in Cells, NEW v \in Cells,
         Cat(Signing!StudyContext(a), u) = Cat(Signing!StudyContext(b), v)
  PROVE  a = b /\ u = v
<1> DEFINE k == Signing!Text(a.token)
           l == Signing!Text(b.token)
           f == Signing!Text(a.record)
           g == Signing!Text(b.record)
           x == <<a.class, a.schema, a.projection>>
           y == <<b.class, b.schema, b.projection>>
<1>1. /\ a.token \in Seq(Int) /\ a.record \in Seq(Int)
      /\ a.class \in Int /\ a.schema \in Int /\ a.projection \in Int
      /\ b.token \in Seq(Int) /\ b.record \in Seq(Int)
      /\ b.class \in Int /\ b.schema \in Int /\ b.projection \in Int
  BY DEF Signing!StudyType
<1>2. k \in Cells /\ l \in Cells /\ f \in Cells /\ g \in Cells
  BY <1>1, TextTyped
<1>3. x \in Cells /\ y \in Cells /\ Len(x) = Len(y)
  BY <1>1, IntTuples
<1>4. Cat(Cat(Cat(k, f), x), u) = Cat(Cat(Cat(l, g), y), v)
  BY StudyForm
<1>5. /\ Cat(k, Cat(f, Cat(x, u))) = Cat(l, Cat(g, Cat(y, v)))
      /\ Cat(x, u) \in Cells /\ Cat(f, Cat(x, u)) \in Cells
      /\ Cat(y, v) \in Cells /\ Cat(g, Cat(y, v)) \in Cells
  <2> HIDE DEF k, l, f, g, x, y
  <2> QED
    BY <1>2, <1>3, <1>4, ThreeRegroup
<1>6. a.token = b.token /\ Cat(f, Cat(x, u)) = Cat(g, Cat(y, v))
  <2> HIDE DEF f, g, x, y
  <2> QED
    BY <1>1, <1>5, TextSplits
<1>7. a.record = b.record /\ Cat(x, u) = Cat(y, v)
  <2> HIDE DEF x, y
  <2> QED
    BY <1>1, <1>5, <1>6, TextSplits
<1>8. x = y /\ u = v
  <2> HIDE DEF x, y
  <2> QED
    BY <1>3, <1>7, EqualHeads
<1>9. a.class = b.class /\ a.schema = b.schema /\ a.projection = b.projection
  BY <1>8
<1> QED
  BY <1>6, <1>7, <1>8, <1>9 DEF Signing!StudyType

------------------------------------------------------------------------------
\* Options of the parts.
LEMMA OptionTextTyped ==
  ASSUME NEW o \in Signing!Optional(Seq(Int))
  PROVE  Signing!Option(o, Signing!Text(o[1])) \in Cells
<1> DEFINE c == Signing!Text(o[1])
<1>1. o # <<>> => c \in Cells
  BY OptionalHolds, TextTyped
<1> HIDE DEF c
<1>2. Signing!Option(o, c) \in Cells
  BY <1>1, OptionTyped
<1> QED
  BY <1>2 DEF c

LEMMA OptionNumbersTyped ==
  ASSUME NEW o \in Signing!Optional(Cells)
  PROVE  Signing!Option(o, Signing!Numbers(o[1])) \in Cells
<1> DEFINE c == Signing!Numbers(o[1])
<1>1. o # <<>> => c \in Cells
  BY OptionalHolds, NumbersTyped
<1> HIDE DEF c
<1>2. Signing!Option(o, c) \in Cells
  BY <1>1, OptionTyped
<1> QED
  BY <1>2 DEF c

LEMMA OptionWholeTyped ==
  ASSUME NEW o \in Signing!Optional(Int)
  PROVE  Signing!Option(o, <<o[1]>>) \in Cells
<1> DEFINE c == <<o[1]>>
<1>1. o # <<>> => c \in Cells
  BY OptionalHolds, IntUnit
<1> HIDE DEF c
<1>2. Signing!Option(o, c) \in Cells
  BY <1>1, OptionTyped
<1> QED
  BY <1>2 DEF c

LEMMA OptionAutomationSplits ==
  ASSUME NEW o \in Signing!Optional(AutomationType), NEW p \in Signing!Optional(AutomationType)
  PROVE  /\ Signing!Option(o, Signing!Automation(o[1])) \in Cells
         /\ \A u, v \in Cells :
              Cat(Signing!Option(o, Signing!Automation(o[1])), u)
                = Cat(Signing!Option(p, Signing!Automation(p[1])), v) => o = p /\ u = v
<1> DEFINE c == Signing!Automation(o[1])
           d == Signing!Automation(p[1])
<1>1. /\ o # <<>> => o[1] \in AutomationType /\ c \in Cells
      /\ p # <<>> => p[1] \in AutomationType /\ d \in Cells
  BY OptionalHolds, AutomationTyped
<1>2. ASSUME NEW u \in Cells, NEW v \in Cells,
             Cat(Signing!Option(o, c), u) = Cat(Signing!Option(p, d), v)
      PROVE  o = p /\ u = v
  <2>1. /\ o = <<>> <=> p = <<>>
        /\ o = <<>> => u = v
        /\ o # <<>> => Cat(c, u) = Cat(d, v)
    <3> HIDE DEF c, d
    <3> QED
      BY <1>1, <1>2, OptionSplits
  <2>2. o # <<>> => o[1] = p[1] /\ u = v
    BY <1>1, <2>1, AutomationSplits
  <2> QED
    BY <2>1, <2>2, OptionalsEqual
<1>3. Signing!Option(o, c) \in Cells
  <2> HIDE DEF c
  <2> QED
    BY <1>1, OptionTyped
<1> QED
  BY <1>2, <1>3

ZeroedCaptureOf(a) ==
  [virtual |-> a.virtual, flatness |-> Signing!Zeroed(a.flatness),
   centroid |-> Signing!Zeroed(a.centroid)]

LEMMA OptionCaptureSplits ==
  ASSUME NEW o \in Signing!Optional(CaptureType), NEW p \in Signing!Optional(CaptureType)
  PROVE  /\ Signing!Option(o, Signing!Capture(o[1])) \in Cells
         /\ \A u, v \in Cells :
              Cat(Signing!Option(o, Signing!Capture(o[1])), u)
                = Cat(Signing!Option(p, Signing!Capture(p[1])), v) =>
                Signing!ZeroedCapture(o) = Signing!ZeroedCapture(p) /\ u = v
<1> DEFINE c == Signing!Capture(o[1])
           d == Signing!Capture(p[1])
<1>1. /\ o # <<>> => o[1] \in CaptureType /\ c \in Cells
      /\ p # <<>> => p[1] \in CaptureType /\ d \in Cells
  BY OptionalHolds, CaptureTyped
<1>3. ASSUME NEW u \in Cells, NEW v \in Cells,
             Cat(Signing!Option(o, c), u) = Cat(Signing!Option(p, d), v)
      PROVE  Signing!ZeroedCapture(o) = Signing!ZeroedCapture(p) /\ u = v
  <2>1. /\ o = <<>> <=> p = <<>>
        /\ o = <<>> => u = v
        /\ o # <<>> => Cat(c, u) = Cat(d, v)
    <3> HIDE DEF c, d
    <3> QED
      BY <1>1, <1>3, OptionSplits
  <2>2. o # <<>> => ZeroedCaptureOf(o[1]) = ZeroedCaptureOf(p[1]) /\ u = v
    BY <1>1, <2>1, CaptureSplits DEF ZeroedCaptureOf
  <2> QED
    BY <2>1, <2>2 DEF Signing!ZeroedCapture, ZeroedCaptureOf
<1>4. Signing!Option(o, c) \in Cells
  <2> HIDE DEF c
  <2> QED
    BY <1>1, OptionTyped
<1> QED
  BY <1>3, <1>4

------------------------------------------------------------------------------
LEMMA SignalsForm ==
  ASSUME NEW s
  PROVE  Signing!Signals(s) =
           Cat(Cat(Cat(<<s.v>>, Signing!Option(s.env, Signing!Text(s.env[1]))),
                   Signing!Option(s.automation, Signing!Automation(s.automation[1]))),
               Signing!Option(s.capture, Signing!Capture(s.capture[1])))
BY Zenon DEF Signing!Signals, Cat

LEMMA SignalsHold ==
  ASSUME NEW s \in Signing!SignalsType
  PROVE  /\ s.v \in Int /\ s.env \in Signing!Optional(Seq(Int))
         /\ s.automation \in Signing!Optional(AutomationType)
         /\ s.capture \in Signing!Optional(CaptureType)
BY DEF Signing!SignalsType, AutomationType, CaptureType

LEMMA SignalsTyped == \A s \in Signing!SignalsType : Signing!Signals(s) \in Cells
<1> SUFFICES ASSUME NEW s \in Signing!SignalsType PROVE Signing!Signals(s) \in Cells
  OBVIOUS
<1>1. /\ <<s.v>> \in Cells
      /\ Signing!Option(s.env, Signing!Text(s.env[1])) \in Cells
      /\ Signing!Option(s.automation, Signing!Automation(s.automation[1])) \in Cells
      /\ Signing!Option(s.capture, Signing!Capture(s.capture[1])) \in Cells
  BY SignalsHold, IntUnit, OptionTextTyped, OptionAutomationSplits, OptionCaptureSplits
<1> QED
  BY <1>1, SignalsForm, CellsGrow, Zenon

LEMMA FourRegroup ==
  ASSUME NEW a \in Cells, NEW b \in Cells, NEW c \in Cells, NEW d \in Cells, NEW u \in Cells
  PROVE  /\ Cat(Cat(Cat(Cat(a, b), c), d), u) = Cat(a, Cat(b, Cat(c, Cat(d, u))))
         /\ Cat(d, u) \in Cells /\ Cat(c, Cat(d, u)) \in Cells /\ Cat(b, Cat(c, Cat(d, u))) \in Cells
<1>1. Cat(d, u) \in Cells /\ Cat(Cat(Cat(a, b), c), d) \in Cells /\ Cat(Cat(a, b), c) \in Cells
  BY CellsGrow
<1>2. Cat(Cat(Cat(Cat(a, b), c), d), u) = Cat(Cat(Cat(a, b), c), Cat(d, u))
  BY <1>1, CellsRegroup
<1> QED
  BY <1>1, <1>2, ThreeRegroup, CellsGrow

ZeroedSignalsOf(s) ==
  [v |-> s.v, env |-> s.env, automation |-> s.automation,
   capture |-> Signing!ZeroedCapture(s.capture)]

LEMMA SignalsSplit ==
  ASSUME NEW a \in Signing!SignalsType, NEW b \in Signing!SignalsType,
         NEW u \in Cells, NEW v \in Cells,
         Cat(Signing!Signals(a), u) = Cat(Signing!Signals(b), v)
  PROVE  ZeroedSignalsOf(a) = ZeroedSignalsOf(b) /\ u = v
<1> DEFINE k == <<a.v>>
           l == <<b.v>>
           e == Signing!Option(a.env, Signing!Text(a.env[1]))
           f == Signing!Option(b.env, Signing!Text(b.env[1]))
           m == Signing!Option(a.automation, Signing!Automation(a.automation[1]))
           n == Signing!Option(b.automation, Signing!Automation(b.automation[1]))
           x == Signing!Option(a.capture, Signing!Capture(a.capture[1]))
           y == Signing!Option(b.capture, Signing!Capture(b.capture[1]))
<1>1. /\ k \in Cells /\ l \in Cells /\ Len(k) = Len(l)
      /\ e \in Cells /\ f \in Cells /\ m \in Cells /\ n \in Cells /\ x \in Cells /\ y \in Cells
  BY SignalsHold, IntUnit, OptionTextTyped, OptionAutomationSplits, OptionCaptureSplits
<1>2. Cat(Cat(Cat(Cat(k, e), m), x), u) = Cat(Cat(Cat(Cat(l, f), n), y), v)
  BY SignalsForm
<1>3. /\ Cat(k, Cat(e, Cat(m, Cat(x, u)))) = Cat(l, Cat(f, Cat(n, Cat(y, v))))
      /\ Cat(x, u) \in Cells /\ Cat(m, Cat(x, u)) \in Cells /\ Cat(e, Cat(m, Cat(x, u))) \in Cells
      /\ Cat(y, v) \in Cells /\ Cat(n, Cat(y, v)) \in Cells /\ Cat(f, Cat(n, Cat(y, v))) \in Cells
  <2> HIDE DEF k, l, e, f, m, n, x, y
  <2> QED
    BY <1>1, <1>2, FourRegroup
<1>4. k = l /\ Cat(e, Cat(m, Cat(x, u))) = Cat(f, Cat(n, Cat(y, v)))
  <2> HIDE DEF k, l, e, f, m, n, x, y
  <2> QED
    BY <1>1, <1>3, EqualHeads
<1>5. a.env = b.env /\ Cat(m, Cat(x, u)) = Cat(n, Cat(y, v))
  <2> HIDE DEF m, n, x, y
  <2> QED
    BY <1>3, <1>4, SignalsHold, OptionTextSplits
<1>6. a.automation = b.automation /\ Cat(x, u) = Cat(y, v)
  <2> HIDE DEF x, y
  <2> QED
    BY <1>3, <1>5, SignalsHold, OptionAutomationSplits
<1>7. Signing!ZeroedCapture(a.capture) = Signing!ZeroedCapture(b.capture) /\ u = v
  BY <1>6, SignalsHold, OptionCaptureSplits
<1>8. a.v = b.v
  BY <1>4
<1> QED
  BY <1>5, <1>6, <1>7, <1>8 DEF ZeroedSignalsOf

LEMMA OptionSignalsSplit ==
  ASSUME NEW o \in Signing!Optional(Signing!SignalsType),
         NEW p \in Signing!Optional(Signing!SignalsType)
  PROVE  /\ Signing!Option(o, Signing!Signals(o[1])) \in Cells
         /\ \A u, v \in Cells :
              Cat(Signing!Option(o, Signing!Signals(o[1])), u)
                = Cat(Signing!Option(p, Signing!Signals(p[1])), v) =>
                Signing!ZeroedSignals(o) = Signing!ZeroedSignals(p) /\ u = v
<1> DEFINE c == Signing!Signals(o[1])
           d == Signing!Signals(p[1])
<1>1. /\ o # <<>> => o[1] \in Signing!SignalsType /\ c \in Cells
      /\ p # <<>> => p[1] \in Signing!SignalsType /\ d \in Cells
  BY OptionalHolds, SignalsTyped
<1>2. ASSUME NEW a \in Signing!SignalsType
      PROVE  [a EXCEPT !.capture = Signing!ZeroedCapture(@)] = ZeroedSignalsOf(a)
  <2> DEFINE e == Signing!ZeroedCapture(a.capture)
  <2>1. [a EXCEPT !.capture = e]
          = [v |-> a.v, env |-> a.env, automation |-> a.automation, capture |-> e]
    <3> HIDE DEF e
    <3> QED
      BY DEF Signing!SignalsType
  <2> QED
    BY <2>1 DEF ZeroedSignalsOf
<1>3. ASSUME NEW u \in Cells, NEW v \in Cells,
             Cat(Signing!Option(o, c), u) = Cat(Signing!Option(p, d), v)
      PROVE  Signing!ZeroedSignals(o) = Signing!ZeroedSignals(p) /\ u = v
  <2>1. /\ o = <<>> <=> p = <<>>
        /\ o = <<>> => u = v
        /\ o # <<>> => Cat(c, u) = Cat(d, v)
    <3> HIDE DEF c, d
    <3> QED
      BY <1>1, <1>3, OptionSplits
  <2>2. o # <<>> => ZeroedSignalsOf(o[1]) = ZeroedSignalsOf(p[1]) /\ u = v
    BY <1>1, <2>1, SignalsSplit
  <2> QED
    BY <1>1, <1>2, <2>1, <2>2 DEF Signing!ZeroedSignals
<1>4. Signing!Option(o, c) \in Cells
  <2> HIDE DEF c
  <2> QED
    BY <1>1, OptionTyped
<1> QED
  BY <1>3, <1>4

ZeroedEvidenceOf(e) ==
  [projection |-> e.projection, schema |-> e.schema, features |-> Signing!Zeroed(e.features)]

LEMMA OptionEvidenceSplits ==
  ASSUME NEW o \in Signing!Optional(Signing!EvidenceType),
         NEW p \in Signing!Optional(Signing!EvidenceType)
  PROVE  /\ Signing!Option(o, Signing!Evidence(o[1])) \in Cells
         /\ \A u, v \in Cells :
              Cat(Signing!Option(o, Signing!Evidence(o[1])), u)
                = Cat(Signing!Option(p, Signing!Evidence(p[1])), v) =>
                Signing!ZeroedEvidence(o) = Signing!ZeroedEvidence(p) /\ u = v
<1> DEFINE c == Signing!Evidence(o[1])
           d == Signing!Evidence(p[1])
<1>1. /\ o # <<>> => o[1] \in Signing!EvidenceType /\ c \in Cells
      /\ p # <<>> => p[1] \in Signing!EvidenceType /\ d \in Cells
  BY OptionalHolds, EvidenceTyped
<1>2. ASSUME NEW a \in Signing!EvidenceType
      PROVE  [a EXCEPT !.features = Signing!Zeroed(@)] = ZeroedEvidenceOf(a)
  <2> DEFINE e == Signing!Zeroed(a.features)
  <2>1. [a EXCEPT !.features = e]
          = [projection |-> a.projection, schema |-> a.schema, features |-> e]
    <3> HIDE DEF e
    <3> QED
      BY DEF Signing!EvidenceType
  <2> QED
    BY <2>1 DEF ZeroedEvidenceOf
<1>3. ASSUME NEW u \in Cells, NEW v \in Cells,
             Cat(Signing!Option(o, c), u) = Cat(Signing!Option(p, d), v)
      PROVE  Signing!ZeroedEvidence(o) = Signing!ZeroedEvidence(p) /\ u = v
  <2>1. /\ o = <<>> <=> p = <<>>
        /\ o = <<>> => u = v
        /\ o # <<>> => Cat(c, u) = Cat(d, v)
    <3> HIDE DEF c, d
    <3> QED
      BY <1>1, <1>3, OptionSplits
  <2>2. o # <<>> => ZeroedEvidenceOf(o[1]) = ZeroedEvidenceOf(p[1]) /\ u = v
    BY <1>1, <2>1, EvidenceSplits DEF ZeroedEvidenceOf
  <2> QED
    BY <1>1, <1>2, <2>1, <2>2 DEF Signing!ZeroedEvidence
<1>4. Signing!Option(o, c) \in Cells
  <2> HIDE DEF c
  <2> QED
    BY <1>1, OptionTyped
<1> QED
  BY <1>3, <1>4

LEMMA OptionStudySplits ==
  ASSUME NEW o \in Signing!Optional(Signing!StudyType),
         NEW p \in Signing!Optional(Signing!StudyType)
  PROVE  /\ Signing!Option(o, Signing!StudyContext(o[1])) \in Cells
         /\ \A u, v \in Cells :
              Cat(Signing!Option(o, Signing!StudyContext(o[1])), u)
                = Cat(Signing!Option(p, Signing!StudyContext(p[1])), v) => o = p /\ u = v
<1> DEFINE c == Signing!StudyContext(o[1])
           d == Signing!StudyContext(p[1])
<1>1. /\ o # <<>> => o[1] \in Signing!StudyType /\ c \in Cells
      /\ p # <<>> => p[1] \in Signing!StudyType /\ d \in Cells
  BY OptionalHolds, StudyTyped
<1>2. ASSUME NEW u \in Cells, NEW v \in Cells,
             Cat(Signing!Option(o, c), u) = Cat(Signing!Option(p, d), v)
      PROVE  o = p /\ u = v
  <2>1. /\ o = <<>> <=> p = <<>>
        /\ o = <<>> => u = v
        /\ o # <<>> => Cat(c, u) = Cat(d, v)
    <3> HIDE DEF c, d
    <3> QED
      BY <1>1, <1>2, OptionSplits
  <2>2. o # <<>> => o[1] = p[1] /\ u = v
    BY <1>1, <2>1, StudySplits
  <2> QED
    BY <2>1, <2>2, OptionalsEqual
<1>3. Signing!Option(o, c) \in Cells
  <2> HIDE DEF c
  <2> QED
    BY <1>1, OptionTyped
<1> QED
  BY <1>2, <1>3

------------------------------------------------------------------------------
(***************************************************************************)
(* The digest: its nine fields, one after the other, and what follows      *)
(* each.                                                                   *)
(***************************************************************************)
\* The fields of a digest, in their order.
Field(r) ==
  [reset |-> <<r.reset>>, features |-> Signing!Numbers(r.features),
   evidence |-> Signing!Option(r.evidence, Signing!Evidence(r.evidence[1])),
   f0 |-> Signing!Option(r.f0, Signing!Numbers(r.f0[1])),
   accel |-> Signing!Option(r.accel, Signing!Numbers(r.accel[1])),
   audio |-> Signing!Option(r.audio, Signing!Text(r.audio[1])),
   rate |-> Signing!Option(r.rate, <<r.rate[1]>>),
   signals |-> Signing!Option(r.signals, Signing!Signals(r.signals[1])),
   study |-> Signing!Option(r.study, Signing!StudyContext(r.study[1]))]

LEMMA DigestForm ==
  ASSUME NEW r
  PROVE  Signing!Digest(r) =
           Cat(Cat(Cat(Cat(Cat(Cat(Cat(Cat(Field(r).reset, Field(r).features), Field(r).evidence),
             Field(r).f0), Field(r).accel), Field(r).audio), Field(r).rate), Field(r).signals),
             Field(r).study)
<1>1. /\ Field(r).reset = <<r.reset>>
      /\ Field(r).features = Signing!Numbers(r.features)
      /\ Field(r).evidence = Signing!Option(r.evidence, Signing!Evidence(r.evidence[1]))
      /\ Field(r).f0 = Signing!Option(r.f0, Signing!Numbers(r.f0[1]))
      /\ Field(r).accel = Signing!Option(r.accel, Signing!Numbers(r.accel[1]))
      /\ Field(r).audio = Signing!Option(r.audio, Signing!Text(r.audio[1]))
      /\ Field(r).rate = Signing!Option(r.rate, <<r.rate[1]>>)
      /\ Field(r).signals = Signing!Option(r.signals, Signing!Signals(r.signals[1]))
      /\ Field(r).study = Signing!Option(r.study, Signing!StudyContext(r.study[1]))
  BY DEF Field
<1> QED
  BY <1>1, Zenon DEF Signing!Digest, Cat

LEMMA RequestHolds ==
  ASSUME NEW r \in Signing!RequestType
  PROVE  /\ r.reset \in Int /\ r.features \in Cells
         /\ r.evidence \in Signing!Optional(Signing!EvidenceType)
         /\ r.f0 \in Signing!Optional(Cells) /\ r.accel \in Signing!Optional(Cells)
         /\ r.audio \in Signing!Optional(Seq(Int)) /\ r.rate \in Signing!Optional(Int)
         /\ r.signals \in Signing!Optional(Signing!SignalsType)
         /\ r.study \in Signing!Optional(Signing!StudyType)
BY DEF Signing!RequestType, Cells

LEMMA FieldsTyped ==
  ASSUME NEW r \in Signing!RequestType
  PROVE  /\ Field(r).reset \in Cells /\ Len(Field(r).reset) = 1 /\ Field(r).features \in Cells
         /\ Field(r).evidence \in Cells /\ Field(r).f0 \in Cells /\ Field(r).accel \in Cells
         /\ Field(r).audio \in Cells /\ Field(r).rate \in Cells /\ Field(r).signals \in Cells
         /\ Field(r).study \in Cells
<1>1. <<r.reset>> \in Cells /\ Len(<<r.reset>>) = 1
  BY RequestHolds, IntUnit
<1>2. Signing!Numbers(r.features) \in Cells
  BY RequestHolds, NumbersTyped
<1>3. Signing!Option(r.evidence, Signing!Evidence(r.evidence[1])) \in Cells
  BY RequestHolds, OptionEvidenceSplits, ZenonT(60)
<1>4. /\ Signing!Option(r.f0, Signing!Numbers(r.f0[1])) \in Cells
      /\ Signing!Option(r.accel, Signing!Numbers(r.accel[1])) \in Cells
  BY RequestHolds, OptionNumbersTyped
<1>5. Signing!Option(r.audio, Signing!Text(r.audio[1])) \in Cells
  BY RequestHolds, OptionTextTyped
<1>6. Signing!Option(r.rate, <<r.rate[1]>>) \in Cells
  BY RequestHolds, OptionWholeTyped
<1>7. Signing!Option(r.signals, Signing!Signals(r.signals[1])) \in Cells
  BY RequestHolds, OptionSignalsSplit, ZenonT(60)
<1>8. Signing!Option(r.study, Signing!StudyContext(r.study[1])) \in Cells
  BY RequestHolds, OptionStudySplits, ZenonT(60)
<1> QED
  BY <1>1, <1>2, <1>3, <1>4, <1>5, <1>6, <1>7, <1>8 DEF Field

\* What of a digest follows each of its fields.
SignalsOn(r) == Cat(Field(r).signals, Field(r).study)
RateOn(r) == Cat(Field(r).rate, SignalsOn(r))
AudioOn(r) == Cat(Field(r).audio, RateOn(r))
AccelOn(r) == Cat(Field(r).accel, AudioOn(r))
F0On(r) == Cat(Field(r).f0, AccelOn(r))
EvidenceOn(r) == Cat(Field(r).evidence, F0On(r))
FeaturesOn(r) == Cat(Field(r).features, EvidenceOn(r))

LEMMA CellsShift ==
  ASSUME NEW x \in Cells, NEW y \in Cells, NEW z \in Cells
  PROVE  Cat(y, z) \in Cells /\ Cat(Cat(x, y), z) = Cat(x, Cat(y, z))
BY CellsGrow, CellsRegroup

LEMMA DigestRegroups ==
  ASSUME NEW r \in Signing!RequestType
  PROVE  /\ Signing!Digest(r) = Cat(Field(r).reset, FeaturesOn(r))
         /\ SignalsOn(r) \in Cells /\ RateOn(r) \in Cells /\ AudioOn(r) \in Cells
         /\ AccelOn(r) \in Cells /\ F0On(r) \in Cells /\ EvidenceOn(r) \in Cells
         /\ FeaturesOn(r) \in Cells
<1> DEFINE a == Field(r).reset
           b == Cat(a, Field(r).features)
           c == Cat(b, Field(r).evidence)
           d == Cat(c, Field(r).f0)
           e == Cat(d, Field(r).accel)
           f == Cat(e, Field(r).audio)
           g == Cat(f, Field(r).rate)
           h == Cat(g, Field(r).signals)
<1>1. Signing!Digest(r) = Cat(h, Field(r).study)
  BY DigestForm, Zenon
<1>2. /\ b = Cat(a, Field(r).features) /\ c = Cat(b, Field(r).evidence)
      /\ d = Cat(c, Field(r).f0) /\ e = Cat(d, Field(r).accel) /\ f = Cat(e, Field(r).audio)
      /\ g = Cat(f, Field(r).rate) /\ h = Cat(g, Field(r).signals)
  OBVIOUS
<1> HIDE DEF a, b, c, d, e, f, g, h
<1>3. a \in Cells /\ b \in Cells /\ c \in Cells /\ d \in Cells
  BY <1>2, FieldsTyped, CellsGrow DEF a
<1>4. e \in Cells /\ f \in Cells /\ g \in Cells
  BY <1>2, <1>3, FieldsTyped, CellsGrow
<1>5. SignalsOn(r) \in Cells /\ Cat(h, Field(r).study) = Cat(g, SignalsOn(r))
  <2>1. g \in Cells /\ Field(r).signals \in Cells /\ Field(r).study \in Cells
    BY <1>4, FieldsTyped
  <2>2. /\ Cat(Field(r).signals, Field(r).study) \in Cells
        /\ Cat(Cat(g, Field(r).signals), Field(r).study) = Cat(g, Cat(Field(r).signals, Field(r).study))
    BY <2>1, CellsShift
  <2> QED
    BY <1>2, <2>2, Zenon DEF SignalsOn
<1>6. RateOn(r) \in Cells /\ Cat(g, SignalsOn(r)) = Cat(f, RateOn(r))
  <2>1. f \in Cells /\ Field(r).rate \in Cells /\ SignalsOn(r) \in Cells
    BY <1>4, <1>5, FieldsTyped
  <2>2. /\ Cat(Field(r).rate, SignalsOn(r)) \in Cells
        /\ Cat(Cat(f, Field(r).rate), SignalsOn(r)) = Cat(f, Cat(Field(r).rate, SignalsOn(r)))
    BY <2>1, CellsShift
  <2> QED
    BY <1>2, <2>2, Zenon DEF RateOn
<1>7. AudioOn(r) \in Cells /\ Cat(f, RateOn(r)) = Cat(e, AudioOn(r))
  <2>1. e \in Cells /\ Field(r).audio \in Cells /\ RateOn(r) \in Cells
    BY <1>4, <1>6, FieldsTyped
  <2>2. /\ Cat(Field(r).audio, RateOn(r)) \in Cells
        /\ Cat(Cat(e, Field(r).audio), RateOn(r)) = Cat(e, Cat(Field(r).audio, RateOn(r)))
    BY <2>1, CellsShift
  <2> QED
    BY <1>2, <2>2, Zenon DEF AudioOn
<1>8. AccelOn(r) \in Cells /\ Cat(e, AudioOn(r)) = Cat(d, AccelOn(r))
  <2>1. d \in Cells /\ Field(r).accel \in Cells /\ AudioOn(r) \in Cells
    BY <1>3, <1>7, FieldsTyped
  <2>2. /\ Cat(Field(r).accel, AudioOn(r)) \in Cells
        /\ Cat(Cat(d, Field(r).accel), AudioOn(r)) = Cat(d, Cat(Field(r).accel, AudioOn(r)))
    BY <2>1, CellsShift
  <2> QED
    BY <1>2, <2>2, Zenon DEF AccelOn
<1>9. F0On(r) \in Cells /\ Cat(d, AccelOn(r)) = Cat(c, F0On(r))
  <2>1. c \in Cells /\ Field(r).f0 \in Cells /\ AccelOn(r) \in Cells
    BY <1>3, <1>8, FieldsTyped
  <2>2. /\ Cat(Field(r).f0, AccelOn(r)) \in Cells
        /\ Cat(Cat(c, Field(r).f0), AccelOn(r)) = Cat(c, Cat(Field(r).f0, AccelOn(r)))
    BY <2>1, CellsShift
  <2> QED
    BY <1>2, <2>2, Zenon DEF F0On
<1>10. EvidenceOn(r) \in Cells /\ Cat(c, F0On(r)) = Cat(b, EvidenceOn(r))
  <2>1. b \in Cells /\ Field(r).evidence \in Cells /\ F0On(r) \in Cells
    BY <1>3, <1>9, FieldsTyped
  <2>2. /\ Cat(Field(r).evidence, F0On(r)) \in Cells
        /\ Cat(Cat(b, Field(r).evidence), F0On(r)) = Cat(b, Cat(Field(r).evidence, F0On(r)))
    BY <2>1, CellsShift
  <2> QED
    BY <1>2, <2>2, Zenon DEF EvidenceOn
<1>11. FeaturesOn(r) \in Cells /\ Cat(b, EvidenceOn(r)) = Cat(a, FeaturesOn(r))
  <2>1. a \in Cells /\ Field(r).features \in Cells /\ EvidenceOn(r) \in Cells
    BY <1>3, <1>10, FieldsTyped
  <2>2. /\ Cat(Field(r).features, EvidenceOn(r)) \in Cells
        /\ Cat(Cat(a, Field(r).features), EvidenceOn(r)) = Cat(a, Cat(Field(r).features, EvidenceOn(r)))
    BY <2>1, CellsShift
  <2> QED
    BY <1>2, <2>2, Zenon DEF FeaturesOn
<1> QED
  BY <1>1, <1>5, <1>6, <1>7, <1>8, <1>9, <1>10, <1>11 DEF a

\* Two requests of one digest differ in nothing that a verdict rests on.
LEMMA DigestIsInjective ==
  ASSUME NEW r \in Signing!RequestType, NEW s \in Signing!RequestType,
         Signing!Digest(r) = Signing!Digest(s)
  PROVE  Signing!Inputs(r) = Signing!Inputs(s)
<1>1. r.reset = s.reset /\ FeaturesOn(r) = FeaturesOn(s)
  <2>1. Field(r).reset = <<r.reset>> /\ Field(s).reset = <<s.reset>>
    BY DEF Field
  <2>2. Field(r).reset = Field(s).reset /\ FeaturesOn(r) = FeaturesOn(s)
    <3>1. Cat(Field(r).reset, FeaturesOn(r)) = Cat(Field(s).reset, FeaturesOn(s))
      BY DigestRegroups
    <3>2. /\ Field(r).reset \in Cells /\ Field(s).reset \in Cells
          /\ Len(Field(r).reset) = Len(Field(s).reset)
          /\ FeaturesOn(r) \in Cells /\ FeaturesOn(s) \in Cells
      BY FieldsTyped, DigestRegroups
    <3> QED
      BY <3>1, <3>2, EqualHeads
  <2> QED
    BY <2>1, <2>2
<1>2. Signing!Zeroed(r.features) = Signing!Zeroed(s.features) /\ EvidenceOn(r) = EvidenceOn(s)
  <2>1. Cat(Signing!Numbers(r.features), EvidenceOn(r))
          = Cat(Signing!Numbers(s.features), EvidenceOn(s))
    BY <1>1 DEF FeaturesOn, Field
  <2> QED
    BY <2>1, RequestHolds, DigestRegroups, NumbersSplit
<1>3. Signing!ZeroedEvidence(r.evidence) = Signing!ZeroedEvidence(s.evidence) /\ F0On(r) = F0On(s)
  <2>1. Cat(Signing!Option(r.evidence, Signing!Evidence(r.evidence[1])), F0On(r))
          = Cat(Signing!Option(s.evidence, Signing!Evidence(s.evidence[1])), F0On(s))
    BY <1>2 DEF EvidenceOn, Field
  <2>2. \A u, v \in Cells :
          Cat(Signing!Option(r.evidence, Signing!Evidence(r.evidence[1])), u)
            = Cat(Signing!Option(s.evidence, Signing!Evidence(s.evidence[1])), v) =>
            Signing!ZeroedEvidence(r.evidence) = Signing!ZeroedEvidence(s.evidence) /\ u = v
    BY RequestHolds, OptionEvidenceSplits, ZenonT(60)
  <2> QED
    BY <2>1, <2>2, DigestRegroups, Zenon
<1>4. Signing!ZeroedVector(r.f0) = Signing!ZeroedVector(s.f0) /\ AccelOn(r) = AccelOn(s)
  <2>1. Cat(Signing!Option(r.f0, Signing!Numbers(r.f0[1])), AccelOn(r))
          = Cat(Signing!Option(s.f0, Signing!Numbers(s.f0[1])), AccelOn(s))
    BY <1>3 DEF F0On, Field
  <2> QED
    BY <2>1, RequestHolds, DigestRegroups, OptionNumbersSplit
<1>5. Signing!ZeroedVector(r.accel) = Signing!ZeroedVector(s.accel) /\ AudioOn(r) = AudioOn(s)
  <2>1. Cat(Signing!Option(r.accel, Signing!Numbers(r.accel[1])), AudioOn(r))
          = Cat(Signing!Option(s.accel, Signing!Numbers(s.accel[1])), AudioOn(s))
    BY <1>4 DEF AccelOn, Field
  <2> QED
    BY <2>1, RequestHolds, DigestRegroups, OptionNumbersSplit
<1>6. r.audio = s.audio /\ RateOn(r) = RateOn(s)
  <2>1. Cat(Signing!Option(r.audio, Signing!Text(r.audio[1])), RateOn(r))
          = Cat(Signing!Option(s.audio, Signing!Text(s.audio[1])), RateOn(s))
    BY <1>5 DEF AudioOn, Field
  <2> QED
    BY <2>1, RequestHolds, DigestRegroups, OptionTextSplits
<1>7. r.rate = s.rate /\ SignalsOn(r) = SignalsOn(s)
  <2>1. Cat(Signing!Option(r.rate, <<r.rate[1]>>), SignalsOn(r))
          = Cat(Signing!Option(s.rate, <<s.rate[1]>>), SignalsOn(s))
    BY <1>6 DEF RateOn, Field
  <2> QED
    BY <2>1, RequestHolds, DigestRegroups, OptionWholeSplits
<1>8. Signing!ZeroedSignals(r.signals) = Signing!ZeroedSignals(s.signals)
      /\ Field(r).study = Field(s).study
  <2>1. Cat(Signing!Option(r.signals, Signing!Signals(r.signals[1])), Field(r).study)
          = Cat(Signing!Option(s.signals, Signing!Signals(s.signals[1])), Field(s).study)
    BY <1>7 DEF SignalsOn, Field
  <2>2. Field(r).study \in Cells /\ Field(s).study \in Cells
    BY FieldsTyped
  <2>3. \A u, v \in Cells :
          Cat(Signing!Option(r.signals, Signing!Signals(r.signals[1])), u)
            = Cat(Signing!Option(s.signals, Signing!Signals(s.signals[1])), v) =>
            Signing!ZeroedSignals(r.signals) = Signing!ZeroedSignals(s.signals) /\ u = v
    BY RequestHolds, OptionSignalsSplit, ZenonT(60)
  <2> QED
    BY <2>1, <2>2, <2>3, Zenon
<1>9. r.study = s.study
  <2> DEFINE a == Signing!Option(r.study, Signing!StudyContext(r.study[1]))
             b == Signing!Option(s.study, Signing!StudyContext(s.study[1]))
  <2>1. a = b /\ a \in Cells /\ b \in Cells
    BY <1>8, FieldsTyped DEF Field
  <2>2. Cat(a, <<>>) = Cat(b, <<>>) /\ <<>> \in Cells
    BY <2>1 DEF Cells
  <2> QED
    BY <2>2, RequestHolds, OptionStudySplits, ZenonT(60)
<1> QED
  BY <1>1, <1>2, <1>3, <1>4, <1>5, <1>6, <1>7, <1>8, <1>9, Zenon DEF Signing!Inputs

------------------------------------------------------------------------------
(***************************************************************************)
(* The signature.  What is signed is the message of a capture; what is     *)
(* presented has a verdict of its own and carries, where it carries        *)
(* anything, that signature.                                               *)
(***************************************************************************)
Signed(s) ==
  s.request \in Requests /\ s.message = Signing!Message(s.wallet, s.nonce, 2, s.request)

Presents(p, s) ==
  /\ p.request \in Requests /\ verdict = Signing!Verdict(p)
  /\ p.authorization # <<>> => p.authorization[1].signs = s.message

SigningInv ==
  /\ signature # <<>> => Signed(signature[1])
  /\ presented # <<>> => signature # <<>> /\ Presents(presented[1], signature[1])

LEMMA SigningInvInit == Signing!Init => SigningInv
BY DEF Signing!Init, SigningInv

LEMMA SigningInvNext ==
  ASSUME SigningInv, Signing!Next
  PROVE  SigningInv'
<1>1. CASE Signing!Sign
  <2>1. PICK w \in Signer, n \in Challenge, r \in Requests :
          signature' = <<[wallet |-> w, nonce |-> n, request |-> r,
                          message |-> Signing!Message(w, n, 2, r)]>>
    BY <1>1 DEF Signing!Sign
  <2>2. Signed(signature'[1])
    BY <2>1 DEF Signed
  <2>3. presented' = <<>>
    BY <1>1 DEF Signing!Sign, SigningInv
  <2> QED
    BY <2>2, <2>3 DEF SigningInv, Signed
<1>2. CASE Signing!Present
  <2> DEFINE s == signature[1]
             given == Signing!Given(s.nonce, TRUE, s.message)
             Fits(a) == a # <<>> => a[1].signs = s.message
  <2>1. signature # <<>> /\ UNCHANGED signature
    BY <1>2 DEF Signing!Present
  <2>2. Signed(s)
    BY <2>1 DEF SigningInv
  <2>3. PICK w, c, v, a : \E r \in Requests :
          Fits(a) /\ Signing!Arrives(Signing!Sent(w, c, v, a, r))
    <3>1. Fits(<<>>) /\ \A n, b : Fits(Signing!Given(n, b, s.message))
      BY DEF Signing!Given
    <3>2. s.request \in Requests
      BY <2>2 DEF Signed
    <3> HIDE DEF s, Fits
    <3> QED
      BY <1>2, <3>1, <3>2, Zenon DEF Signing!Present, s
  <2>4. PICK r \in Requests : Fits(a) /\ Signing!Arrives(Signing!Sent(w, c, v, a, r))
    BY <2>3
  <2> DEFINE p == Signing!Sent(w, c, v, a, r)
  <2>5. /\ presented' = <<p>> /\ verdict' = Signing!Verdict(p)
        /\ p.request = r /\ p.authorization = a
    BY <2>4 DEF Signing!Arrives, Signing!Sent
  <2> HIDE DEF p
  <2> QED
    BY <2>1, <2>2, <2>4, <2>5 DEF SigningInv, Signed, Presents
<1>3. CASE Signing!Forget
  BY <1>3 DEF Signing!Forget, SigningInv
<1> QED
  BY <1>1, <1>2, <1>3 DEF Signing!Next

LEMMA AuthorizedVerdict ==
  ASSUME NEW p
  PROVE  /\ Signing!Verdict(p) = "unsigned" => p.projection # 2
         /\ Signing!Verdict(p) = "authorized" =>
              /\ p.projection = 2 /\ p.authorization # <<>> /\ p.canonical
              /\ p.authorization[1].signs
                   = Signing!Message(p.wallet, p.authorization[1].nonce, 2, p.request)
<1> DEFINE a == p.authorization[1]
           m == Signing!Message(p.wallet, a.nonce, 2, p.request)
           checked == IF ~a.wellFormed \/ ~Signing!IsFinite(p.request) THEN "InvalidRequest"
                      ELSE IF p.canonical /\ a.signs = m THEN "authorized" ELSE "Forbidden"
<1>1. checked # "unsigned" /\ (checked = "authorized" => p.canonical /\ a.signs = m)
  <2> HIDE DEF a, m
  <2> QED
    OBVIOUS
<1>2. Signing!Verdict(p) = CASE p.projection # 2 /\ p.authorization = <<>> -> "unsigned"
                             [] p.projection # 2 /\ p.authorization # <<>> -> "InvalidRequest"
                             [] p.projection = 2 /\ p.authorization = <<>> -> "InvalidRequest"
                             [] OTHER -> checked
  BY DEF Signing!Verdict
<1> HIDE DEF checked
<1>3. /\ p.projection # 2 => Signing!Verdict(p) \in {"unsigned", "InvalidRequest"}
      /\ p.projection = 2 /\ p.authorization = <<>> => Signing!Verdict(p) = "InvalidRequest"
      /\ p.projection = 2 /\ p.authorization # <<>> => Signing!Verdict(p) = checked
  BY <1>2
<1> QED
  BY <1>1, <1>3

LEMMA SigningInvSuffices == SigningInv => SignedIsWhatRuns
<1> SUFFICES ASSUME SigningInv, presented # <<>> PROVE SignedIsWhatRuns
  BY DEF SignedIsWhatRuns, Signing!SignedIsWhatRuns
<1> DEFINE p == presented[1]
           s == signature[1]
<1>1. Signed(s) /\ Presents(p, s)
  BY DEF SigningInv
<1>2. verdict = "unsigned" => p.projection # 2
  BY <1>1, AuthorizedVerdict DEF Presents
<1>3. ASSUME verdict = "authorized"
      PROVE  /\ p.wallet = s.wallet /\ p.canonical /\ p.authorization[1].nonce = s.nonce
             /\ Signing!Inputs(p.request) = Signing!Inputs(s.request)
  <2> DEFINE n == p.authorization[1].nonce
  <2>1. p.canonical /\ s.message = Signing!Message(p.wallet, n, 2, p.request)
    BY <1>1, <1>3, AuthorizedVerdict DEF Presents
  <2>2. s.message = Signing!Message(s.wallet, s.nonce, 2, s.request)
    BY <1>1 DEF Signed
  <2>3. /\ p.wallet = s.wallet /\ n = s.nonce
        /\ Signing!Digest(p.request) = Signing!Digest(s.request)
    BY <2>1, <2>2 DEF Signing!Message
  <2>4. p.request \in Signing!RequestType /\ s.request \in Signing!RequestType
    BY <1>1, ReadersAssumption DEF Signed, Presents, Signing!AuthorizationAssumption
  <2> QED
    BY <2>1, <2>3, <2>4, DigestIsInjective
<1> QED
  BY <1>2, <1>3 DEF SignedIsWhatRuns, Signing!SignedIsWhatRuns

LEMMA SigningInvKept ==
  ASSUME SigningInv, [ReadersNext]_readersVars
  PROVE  SigningInv'
<1>1. UNCHANGED authorizationVars => SigningInv'
  BY DEF authorizationVars, SigningInv, Signed, Presents
<1>2. UNCHANGED authorizationVars \/ Signing!Next
  BY DEF ReadersNext, BalanceMoves, ReputationMoves, MonitorMoves, pureVars, readersVars
<1> QED
  BY <1>1, <1>2, SigningInvNext

------------------------------------------------------------------------------
(***************************************************************************)
(* The score of a trace: order statistics, the pass that is left           *)
(* unfinished, the sweep of the candidates and of the anchors.             *)
(***************************************************************************)
\* Sets of positions: how many there are.
LEMMA PositionsCounted ==
  ASSUME NEW n \in Nat, NEW S \in SUBSET (1 .. n)
  PROVE  /\ IsFiniteSet(S) /\ Cardinality(S) \in Nat /\ Cardinality(S) <= n
         /\ Cardinality((1 .. n) \ S) = n - Cardinality(S)
<1>1. IsFiniteSet(1 .. n) /\ Cardinality(1 .. n) = n
  BY FS_Interval
<1>2. IsFiniteSet(S) /\ Cardinality(S) <= n
  BY <1>1, FS_Subset
<1>3. Cardinality(S) \in Nat
  BY <1>2, FS_CardinalityType
<1>4. Cardinality((1 .. n) \ S) = Cardinality(1 .. n) - Cardinality((1 .. n) \cap S)
  BY <1>1, <1>2, FS_Difference
<1>5. (1 .. n) \cap S = S
  OBVIOUS
<1> QED
  BY <1>1, <1>2, <1>3, <1>4, <1>5

\* Fewer positions are counted of a part.
LEMMA CountsGrow ==
  ASSUME NEW n \in Nat, NEW T \in SUBSET (1 .. n), NEW S \in SUBSET T
  PROVE  Cardinality(S) <= Cardinality(T) /\ (Cardinality(S) = Cardinality(T) => S = T)
<1>1. IsFiniteSet(T)
  BY PositionsCounted
<1> QED
  BY <1>1, FS_Subset

\* The positions of what is below and of what is above.
Lower(s, v) == {i \in DOMAIN s : s[i] < v}
Upper(s, v) == {i \in DOMAIN s : s[i] > v}

\* The instance's Cardinality is the library's.
LEMMA SameCardinality == \A S : Trace!Cardinality(S) = Cardinality(S)
BY Zenon DEF Trace!Cardinality, Cardinality

\* What Below and Above count.
LEMMA CountsAre ==
  ASSUME NEW s \in Seq(Nat), NEW v
  PROVE  /\ Trace!Below(s, v) = Cardinality(Lower(s, v))
         /\ Trace!Above(s, v) = Cardinality(Upper(s, v))
         /\ Lower(s, v) \in SUBSET (1 .. Len(s)) /\ Upper(s, v) \in SUBSET (1 .. Len(s))
         /\ Trace!Below(s, v) \in Nat /\ Trace!Above(s, v) \in Nat
<1>1. DOMAIN s = 1 .. Len(s) /\ Len(s) \in Nat
  BY LenProperties
<1>2. Lower(s, v) \in SUBSET (1 .. Len(s)) /\ Upper(s, v) \in SUBSET (1 .. Len(s))
  BY <1>1 DEF Lower, Upper
<1>3. Cardinality(Lower(s, v)) \in Nat /\ Cardinality(Upper(s, v)) \in Nat
  BY <1>1, <1>2, PositionsCounted
<1>4. Trace!Below(s, v) = Cardinality(Lower(s, v)) /\ Trace!Above(s, v) = Cardinality(Upper(s, v))
  BY SameCardinality DEF Trace!Below, Trace!Above, Lower, Upper
<1> QED
  BY <1>2, <1>3, <1>4

\* There is an element in every place of the order.
LEMMA NthIsThere ==
  ASSUME NEW s \in Seq(Nat), NEW k \in 1 .. Len(s)
  PROVE  /\ Trace!Nth(s, k) \in Nat /\ \E i \in DOMAIN s : Trace!Nth(s, k) = s[i]
         /\ Trace!Below(s, Trace!Nth(s, k)) < k
         /\ Trace!Above(s, Trace!Nth(s, k)) <= Len(s) - k
<1> DEFINE n == Len(s)
           R == {s[i] : i \in DOMAIN s}
           T == {v \in R : Trace!Below(s, v) < k}
<1>1. DOMAIN s = 1 .. n /\ n \in Nat /\ \A i \in DOMAIN s : s[i] \in Nat
  BY LenProperties, ElementOfSeq
<1>2. R \in SUBSET Nat /\ R # {}
  BY <1>1
<1>3. T # {}
  <2>1. PICK v \in R : \A w \in R : v <= w
    <3> HIDE DEF R
    <3> QED
      BY <1>2, Least
  <2>2. Lower(s, v) = {}
    <3>1. ASSUME NEW i \in DOMAIN s PROVE ~(s[i] < v)
      <4>1. s[i] \in R /\ s[i] \in Nat /\ v \in Nat
        BY <1>1, <1>2
      <4>2. v <= s[i]
        BY <2>1, <4>1
      <4> QED
        BY <4>1, <4>2
    <3> QED
      BY <3>1, Zenon DEF Lower
  <2>3. Trace!Below(s, v) = 0
    BY <2>2, CountsAre, FS_EmptySet
  <2> QED
    BY <2>1, <2>3
<1>4. PICK v \in T : \A w \in T : Trace!Above(s, v) <= Trace!Above(s, w)
  <2> DEFINE C == {Trace!Above(s, w) : w \in T}
  <2>1. C \in SUBSET Nat /\ C # {}
    <3> HIDE DEF T
    <3> QED
      BY <1>3, CountsAre
  <2>2. PICK m \in C : \A c \in C : m <= c
    <3> HIDE DEF C
    <3> QED
      BY <2>1, Least
  <2> QED
    BY <2>2
<1>5. v \in Nat /\ v \in R /\ Trace!Below(s, v) < k
  BY <1>2, <1>4
<1>6. Trace!Above(s, v) <= n - k
  <2> DEFINE A == Upper(s, v)
  <2>1. SUFFICES ASSUME ~(Trace!Above(s, v) <= n - k) PROVE FALSE
    OBVIOUS
  <2>2. /\ Trace!Above(s, v) = Cardinality(A) /\ A \in SUBSET (1 .. n)
        /\ Cardinality(A) \in Nat /\ Cardinality(A) > n - k
    BY <1>1, <2>1, CountsAre
  <2>3. A # {}
    <3>1. Cardinality({}) = 0
      BY FS_EmptySet
    <3> HIDE DEF A
    <3>2. Cardinality(A) # Cardinality({})
      BY <1>1, <2>2, <3>1
    <3> QED
      BY <3>2, Zenon
  <2>4. PICK i \in A : \A j \in A : s[i] <= s[j]
    <3> DEFINE W == {s[j] : j \in A}
    <3>1. W \in SUBSET Nat /\ W # {}
      BY <1>1, <2>2, <2>3
    <3>2. PICK w \in W : \A x \in W : w <= x
      <4> HIDE DEF W
      <4> QED
        BY <3>1, Least
    <3> QED
      BY <3>2
  <2>5. i \in DOMAIN s /\ s[i] \in Nat /\ s[i] > v /\ s[i] \in R
    BY <1>1, <2>4 DEF Upper
  <2>6. Lower(s, s[i]) \in SUBSET ((1 .. n) \ A)
    BY <1>1, <1>5, <2>4, <2>5 DEF Lower, Upper
  <2>7. Trace!Below(s, s[i]) < k
    <3>1. Cardinality(Lower(s, s[i])) <= Cardinality((1 .. n) \ A)
      BY <1>1, <2>6, CountsGrow
    <3>2. Cardinality((1 .. n) \ A) = n - Cardinality(A)
      BY <1>1, <2>2, PositionsCounted
    <3> QED
      BY <1>1, <2>2, <3>1, <3>2, CountsAre
  <2>8. Upper(s, s[i]) \in SUBSET A /\ i \notin Upper(s, s[i])
    BY <1>1, <1>5, <2>5 DEF Upper
  <2>9. Trace!Above(s, s[i]) < Trace!Above(s, v)
    <3>1. /\ Cardinality(Upper(s, s[i])) <= Cardinality(A)
          /\ Cardinality(Upper(s, s[i])) # Cardinality(A)
      BY <1>1, <2>2, <2>4, <2>8, CountsGrow
    <3> QED
      BY <2>2, <3>1, CountsAre
  <2>10. s[i] \in T
    BY <2>5, <2>7
  <2> QED
    <3>1. Trace!Above(s, v) <= Trace!Above(s, s[i])
      <4> HIDE DEF T
      <4> QED
        BY <1>4, <2>10
    <3> QED
      BY <2>9, <3>1, CountsAre
<1>7. \E u \in R : Trace!Below(s, u) < k /\ Trace!Above(s, u) <= n - k
  BY <1>5, <1>6
<1>8. /\ Trace!Nth(s, k) \in R
      /\ Trace!Below(s, Trace!Nth(s, k)) < k /\ Trace!Above(s, Trace!Nth(s, k)) <= n - k
  BY <1>7, Zenon DEF Trace!Nth
<1> QED
  BY <1>2, <1>8

\* Of two sequences one of which is over the other at every position, so is it in
\* every place of the order.
LEMMA NthGrows ==
  ASSUME NEW r \in Seq(Nat), NEW s \in Seq(Nat), Len(r) = Len(s),
         \A i \in DOMAIN r : r[i] <= s[i], NEW k \in 1 .. Len(r)
  PROVE  Trace!Nth(r, k) <= Trace!Nth(s, k)
<1> DEFINE n == Len(r)
           v == Trace!Nth(r, k)
           w == Trace!Nth(s, k)
<1>1. /\ DOMAIN r = 1 .. n /\ DOMAIN s = 1 .. n /\ n \in Nat
      /\ \A i \in 1 .. n : r[i] \in Nat /\ s[i] \in Nat
  BY LenProperties, ElementOfSeq
<1>2. v \in Nat /\ Trace!Below(r, v) < k /\ w \in Nat /\ Trace!Above(s, w) <= n - k
  BY NthIsThere
<1> HIDE DEF v, w
<1>3. SUFFICES ASSUME w < v PROVE FALSE
  BY <1>2 DEF v, w
<1>4. (1 .. n) \ Upper(s, w) \in SUBSET Lower(r, v)
  BY <1>1, <1>2, <1>3 DEF Upper, Lower
<1>5. Cardinality((1 .. n) \ Upper(s, w)) <= Cardinality(Lower(r, v))
  BY <1>1, <1>4, CountsAre, CountsGrow
<1>6. /\ Cardinality((1 .. n) \ Upper(s, w)) = n - Cardinality(Upper(s, w))
      /\ Cardinality(Upper(s, w)) \in Nat
  BY <1>1, CountsAre, PositionsCounted
<1> QED
  BY <1>1, <1>2, <1>5, <1>6, CountsAre

\* The places of the order that a median is of.
Low(n) == IF n % 2 = 1 THEN n \div 2 + 1 ELSE n \div 2
High(n) == n \div 2 + 1

\* They are places, and at most half of the elements come after them.
LEMMA PlacesAre ==
  ASSUME NEW n \in Nat, n # 0
  PROVE  /\ Low(n) \in 1 .. n /\ High(n) \in 1 .. n /\ n \div 2 \in Nat
         /\ n - Low(n) <= n \div 2 /\ n - High(n) <= n \div 2
BY DEF Low, High

\* Of either parity, the doubled median is the sum of its two places.
LEMMA MedianForm ==
  ASSUME NEW s \in Seq(Nat), s # <<>>
  PROVE  /\ Trace!TwiceMedian(s) = Trace!Nth(s, Low(Len(s))) + Trace!Nth(s, High(Len(s)))
         /\ Len(s) \in Nat /\ Len(s) # 0
<1> DEFINE n == Len(s)
           x == Trace!Nth(s, n \div 2 + 1)
<1>1. n \in Nat /\ n # 0
  BY LenProperties, EmptySeq
<1>2. High(n) = n \div 2 + 1 /\ High(n) \in 1 .. n
  BY <1>1, PlacesAre DEF High
<1>3. x \in Nat
  BY <1>2, NthIsThere
<1>4. CASE n % 2 = 1
  <2>1. Trace!TwiceMedian(s) = 2 * x
    BY <1>4, Zenon DEF Trace!TwiceMedian
  <2>2. Low(n) = n \div 2 + 1
    BY <1>4 DEF Low
  <2>3. x + x = 2 * x
    <3> HIDE DEF x
    <3> QED
      BY <1>3
  <2> QED
    BY <1>1, <1>2, <2>1, <2>2, <2>3
<1>5. CASE n % 2 # 1
  <2>1. Trace!TwiceMedian(s) = Trace!Nth(s, n \div 2) + x
    BY <1>5, Zenon DEF Trace!TwiceMedian
  <2>2. Low(n) = n \div 2
    BY <1>5 DEF Low
  <2> QED
    BY <1>1, <1>2, <2>1, <2>2
<1> QED
  BY <1>4, <1>5

\* What is in those places is of the sequence, with at most half of it above.
LEMMA MiddlesAre ==
  ASSUME NEW s \in Seq(Nat), s # <<>>, NEW k \in {Low(Len(s)), High(Len(s))}
  PROVE  /\ k \in 1 .. Len(s) /\ Trace!Nth(s, k) \in Nat
         /\ \E i \in DOMAIN s : Trace!Nth(s, k) = s[i]
         /\ Trace!Above(s, Trace!Nth(s, k)) \in Nat
         /\ Trace!Above(s, Trace!Nth(s, k)) <= Len(s) \div 2
<1>1. Len(s) \in Nat /\ Len(s) # 0
  BY MedianForm
<1>2. k \in 1 .. Len(s) /\ Len(s) - k <= Len(s) \div 2 /\ Len(s) \div 2 \in Nat
  BY <1>1, PlacesAre
<1>3. /\ Trace!Nth(s, k) \in Nat /\ \E i \in DOMAIN s : Trace!Nth(s, k) = s[i]
      /\ Trace!Above(s, Trace!Nth(s, k)) <= Len(s) - k
  BY <1>2, NthIsThere
<1>4. Trace!Above(s, Trace!Nth(s, k)) \in Nat
  BY CountsAre
<1> QED
  BY <1>1, <1>2, <1>3, <1>4

\* A median is a number,
LEMMA MedianTyped ==
  ASSUME NEW s \in Seq(Nat), s # <<>>
  PROVE  Trace!TwiceMedian(s) \in Nat
<1>1. Trace!Nth(s, Low(Len(s))) \in Nat /\ Trace!Nth(s, High(Len(s))) \in Nat
  BY MiddlesAre
<1> QED
  BY <1>1, MedianForm

\* less than what bounds every element,
LEMMA MedianBounded ==
  ASSUME NEW s \in Seq(Nat), s # <<>>, NEW b \in Nat, \A i \in DOMAIN s : 2 * s[i] < b
  PROVE  Trace!TwiceMedian(s) < b
<1> DEFINE x == Trace!Nth(s, Low(Len(s)))
           y == Trace!Nth(s, High(Len(s)))
<1>1. /\ x \in Nat /\ \E i \in DOMAIN s : x = s[i]
      /\ y \in Nat /\ \E i \in DOMAIN s : y = s[i]
  BY MiddlesAre
<1>2. Trace!TwiceMedian(s) = x + y
  BY MedianForm
<1> HIDE DEF x, y
<1>3. 2 * x < b /\ 2 * y < b
  BY <1>1
<1> QED
  BY <1>1, <1>2, <1>3

\* and no more than that of a sequence that is over its own.
LEMMA MedianGrows ==
  ASSUME NEW r \in Seq(Nat), NEW s \in Seq(Nat), r # <<>>, Len(r) = Len(s),
         \A i \in DOMAIN r : r[i] <= s[i]
  PROVE  Trace!TwiceMedian(r) <= Trace!TwiceMedian(s)
<1> DEFINE j == Low(Len(r))
           k == High(Len(r))
<1>1. s # <<>>
  BY LenProperties, EmptySeq
<1>2. j \in 1 .. Len(r) /\ k \in 1 .. Len(r)
  BY MiddlesAre
<1>3. /\ Trace!Nth(r, j) \in Nat /\ Trace!Nth(r, k) \in Nat
      /\ Trace!Nth(s, j) \in Nat /\ Trace!Nth(s, k) \in Nat
  BY <1>1, MiddlesAre
<1>4. Trace!TwiceMedian(r) = Trace!Nth(r, j) + Trace!Nth(r, k)
  BY MedianForm
<1>5. Trace!TwiceMedian(s) = Trace!Nth(s, j) + Trace!Nth(s, k)
  BY <1>1, MedianForm
<1> HIDE DEF j, k
<1>6. Trace!Nth(r, j) <= Trace!Nth(s, j)
  BY <1>2, NthGrows
<1>7. Trace!Nth(r, k) <= Trace!Nth(s, k)
  BY <1>2, NthGrows
<1> QED
  BY <1>3, <1>4, <1>5, <1>6, <1>7

\* Exact for both parities: a pass with more than half of its points over the
\* best median has a median that is no better.
LEMMA AbandonedIsNoBetter ==
  ASSUME NEW s \in Seq(Nat), s # <<>>, NEW best \in Nat, Trace!Abandons(s, best)
  PROVE  Trace!TwiceMedian(s) >= best
<1> DEFINE n == Len(s)
           Over == {i \in DOMAIN s : 2 * s[i] > best}
           x == Trace!Nth(s, Low(n))
           y == Trace!Nth(s, High(n))
<1>1. /\ DOMAIN s = 1 .. n /\ n \in Nat /\ n \div 2 \in Nat
      /\ \A i \in 1 .. n : s[i] \in Nat
  BY LenProperties, ElementOfSeq, MedianForm, PlacesAre
<1>2. Cardinality(Over) > n \div 2 /\ Over \in SUBSET (1 .. n)
  BY <1>1, SameCardinality DEF Trace!Abandons
<1>3. /\ x \in Nat /\ Trace!Above(s, x) <= n \div 2
      /\ y \in Nat /\ Trace!Above(s, y) <= n \div 2
  BY MiddlesAre
<1>4. Trace!TwiceMedian(s) = x + y
  BY MedianForm
<1> HIDE DEF x, y
<1>5. ASSUME NEW v \in Nat, 2 * v < best PROVE Trace!Above(s, v) > n \div 2
  <2>1. Over \in SUBSET Upper(s, v)
    BY <1>1, <1>5 DEF Upper
  <2>2. Upper(s, v) \in SUBSET (1 .. n) /\ Trace!Above(s, v) = Cardinality(Upper(s, v))
        /\ Trace!Above(s, v) \in Nat
    BY CountsAre
  <2>3. Cardinality(Over) <= Cardinality(Upper(s, v))
    <3> HIDE DEF Over
    <3> QED
      BY <1>1, <2>1, <2>2, CountsGrow
  <2>4. Cardinality(Over) \in Nat
    <3> HIDE DEF Over
    <3> QED
      BY <1>1, <1>2, PositionsCounted
  <2> QED
    BY <1>1, <1>2, <2>2, <2>3, <2>4
<1>6. ~(2 * x < best) /\ ~(2 * y < best)
  <2>1. Trace!Above(s, x) \in Nat /\ Trace!Above(s, y) \in Nat
    BY CountsAre
  <2> QED
    BY <1>1, <1>3, <1>5, <2>1
<1> QED
  BY <1>3, <1>4, <1>6

\* The curve, the distances, and what is nearest.
LEMMA CurveHolds ==
  /\ Curve \in Seq(Int) /\ Trace!Points \in Nat \ {0} /\ Trace!Points = Len(Curve)
  /\ DOMAIN Curve = 1 .. Trace!Points /\ \A j \in 1 .. Trace!Points : Curve[j] \in Int
<1>1. Curve \in Seq(Int) /\ Curve # <<>>
  BY ReadersAssumption DEF Trace!CurveAssumption
<1> QED
  BY <1>1, LenProperties, EmptySeq, ElementOfSeq DEF Trace!Points

LEMMA AbsTyped ==
  \A x \in Int : Trace!Abs(x) \in Nat
BY DEF Trace!Abs

LEMMA AtIsOnCurve ==
  ASSUME NEW c \in Int
  PROVE  Trace!At(c) \in Int /\ \E j \in DOMAIN Curve : Trace!At(c) = Curve[j]
<1>1. (c % Trace!Points) + 1 \in 1 .. Trace!Points
  <2> DEFINE n == Trace!Points
  <2>1. n \in Nat \ {0}
    BY CurveHolds
  <2> HIDE DEF n
  <2>2. c % n \in 0 .. n - 1
    BY <2>1
  <2> QED
    BY <2>1, <2>2 DEF n
<1> QED
  BY <1>1, CurveHolds DEF Trace!At

\* There is a nearest point, and it is as near as any.
LEMMA NearestIs ==
  ASSUME NEW p \in Int
  PROVE  /\ Trace!Nearest(p) \in Nat
         /\ \A j \in 1 .. Trace!Points : Trace!Nearest(p) <= Trace!Abs(p - Curve[j])
<1> DEFINE D == {Trace!Abs(p - Curve[j]) : j \in 1 .. Trace!Points}
<1>1. D \in SUBSET Nat /\ D # {}
  <2>1. ASSUME NEW j \in 1 .. Trace!Points PROVE Trace!Abs(p - Curve[j]) \in Nat
    <3>1. Curve[j] \in Int
      BY CurveHolds
    <3>2. p - Curve[j] \in Int
      BY <3>1
    <3> QED
      BY <3>2, AbsTyped
  <2>2. 1 \in 1 .. Trace!Points
    BY CurveHolds
  <2> QED
    BY <2>1, <2>2
<1>2. \E d \in D : \A e \in D : d <= e
  <2> HIDE DEF D
  <2> QED
    BY <1>1, Least
<1>3. \E d \in D : \A j \in 1 .. Trace!Points : d <= Trace!Abs(p - Curve[j])
  BY <1>2
<1>4. /\ Trace!Nearest(p) \in D
      /\ \A j \in 1 .. Trace!Points : Trace!Nearest(p) <= Trace!Abs(p - Curve[j])
  BY <1>3, Zenon DEF Trace!Nearest
<1> QED
  BY <1>1, <1>4

\* There is a first of the nearest steps.
LEMMA ReachTyped ==
  ASSUME NEW p \in Int, NEW cursor \in Int, NEW dir \in Int, NEW window \in Nat
  PROVE  Trace!Reach(p, cursor, dir, window) \in 0 .. window
<1> DEFINE d(step) == Trace!Abs(p - Trace!At(cursor + dir * step))
           D == {d(step) : step \in 0 .. window}
<1>1. \A step \in 0 .. window : d(step) \in Nat
  BY AtIsOnCurve, AbsTyped
<1> HIDE DEF d
<1>2. PICK m \in D : \A e \in D : m <= e
  <2>1. D \in SUBSET Nat /\ D # {}
    BY <1>1
  <2> HIDE DEF D
  <2> QED
    BY <2>1, Least
<1> DEFINE S == {step \in 0 .. window : d(step) = m}
<1>3. PICK k \in S : \A step \in S : k <= step
  <2>1. S \in SUBSET Nat /\ S # {}
    BY <1>2
  <2> HIDE DEF S
  <2> QED
    BY <2>1, Least
<1>4. ASSUME NEW other \in 0 .. window
      PROVE  d(k) < d(other) \/ (d(k) = d(other) /\ k <= other)
  <2>1. d(k) = m /\ d(other) \in Nat /\ m \in Nat /\ m <= d(other)
    BY <1>1, <1>2, <1>3
  <2>2. d(other) = m => k <= other
    BY <1>3
  <2> QED
    BY <2>1, <2>2
<1>5. \E step \in 0 .. window : \A other \in 0 .. window :
        d(step) < d(other) \/ (d(step) = d(other) /\ step <= other)
  BY <1>3, <1>4
<1> QED
  BY <1>5, Zenon DEF Trace!Reach, d

\* A cursor is defined all along the trace.
LEMMA CursorsTyped ==
  ASSUME NEW trace \in Seq(Int), NEW start \in Int, NEW dir \in Int, NEW window \in Nat
  PROVE  \A i \in 0 .. Len(trace) : Trace!Cursors(trace, start, dir, window)[i] \in Int
<1> DEFINE n == Len(trace)
           next(i, c) == (c + dir * Trace!Reach(trace[i], c, dir, window)) % Trace!Points
           F == [i \in 1 .. n |-> [c \in Int |-> next(i, c)]]
           cursor[i \in 0 .. n] == IF i = 0 THEN start ELSE next(i, cursor[i - 1])
<1>1. n \in Nat /\ \A i \in 1 .. n : trace[i] \in Int
  BY LenProperties, ElementOfSeq
<1>2. ASSUME NEW i \in 1 .. n, NEW c \in Int PROVE next(i, c) \in Int
  <2>1. Trace!Reach(trace[i], c, dir, window) \in Int
    <3>1. trace[i] \in Int
      BY <1>1
    <3>2. Trace!Reach(trace[i], c, dir, window) \in 0 .. window
      BY <3>1, ReachTyped
    <3> QED
      BY <3>2
  <2> DEFINE x == c + dir * Trace!Reach(trace[i], c, dir, window)
  <2>2. x \in Int
    BY <2>1
  <2> HIDE DEF x
  <2> QED
    BY <2>2, CurveHolds DEF x
<1>3. PICK g : Unrolls(g, F, n, start, Int)
  <2>1. IsStep(F, n, Int)
    <3> HIDE DEF next, n
    <3> QED
      BY <1>2 DEF IsStep
  <2> HIDE DEF F, n
  <2> QED
    BY <1>1, <2>1, Recursion, Zenon
<1>4. g \in [0 .. n -> Int] /\ g[0] = start /\ \A i \in 1 .. n : g[i] = next(i, g[i - 1])
  <2> HIDE DEF next
  <2>1. g \in [0 .. n -> Int] /\ g[0] = start /\ \A i \in 1 .. n : g[i] = F[i][g[i - 1]]
    BY <1>3 DEF Unrolls
  <2>2. \A i \in 1 .. n : g[i - 1] \in Int
    <3> HIDE DEF n, F
    <3> QED
      BY <1>1, <2>1
  <2> QED
    BY <2>1, <2>2
<1>5. g = [i \in 0 .. n |-> IF i = 0 THEN start ELSE next(i, g[i - 1])]
  <2> HIDE DEF next, n
  <2> QED
    BY <1>1, <1>4
<1>6. cursor = [i \in 0 .. n |-> IF i = 0 THEN start ELSE next(i, cursor[i - 1])]
  <2>1. \E f : f = [i \in 0 .. n |-> IF i = 0 THEN start ELSE next(i, f[i - 1])]
    <3> HIDE DEF next, n
    <3> QED
      BY <1>5
  <2> QED
    BY <2>1, Zenon DEF cursor
<1>7. Trace!Cursors(trace, start, dir, window) = cursor
  BY Zenon DEF Trace!Cursors
<1> HIDE DEF cursor, next
<1> DEFINE T == {i \in 0 .. n : cursor[i] \in Int}
<1>8. 0 \in T /\ \A k \in 1 .. n : k - 1 \in T => k \in T
  <2>1. cursor[0] = start
    BY <1>1, <1>6
  <2>2. \A i \in 1 .. n : cursor[i] = next(i, cursor[i - 1])
    BY <1>1, <1>6
  <2>3. ASSUME NEW k \in 1 .. n, k - 1 \in T PROVE k \in T
    <3>1. cursor[k - 1] \in Int /\ k \in 0 .. n
      BY <1>1, <2>3
    <3>2. cursor[k] \in Int
      BY <1>2, <2>2, <3>1
    <3> QED
      BY <3>1, <3>2
  <2> QED
    BY <1>1, <2>1, <2>3
<1>9. 0 .. n \subseteq T
  <2> HIDE DEF T, n
  <2> QED
    BY <1>1, <1>8, Induction
<1> QED
  BY <1>7, <1>9

\* Each point is charged its distance from some point of the curve.
LEMMA ResidualsAre ==
  ASSUME NEW trace \in Seq(Int), NEW start \in Int, NEW dir \in Int, NEW window \in Nat
  PROVE  /\ Trace!Residuals(trace, start, dir, window) \in Seq(Nat)
         /\ Len(Trace!Residuals(trace, start, dir, window)) = Len(trace)
         /\ \A i \in 1 .. Len(trace) : \E j \in DOMAIN Curve :
              Trace!Residuals(trace, start, dir, window)[i] = Trace!Abs(trace[i] - Curve[j])
<1> DEFINE n == Len(trace)
           at(i) == Trace!At(Trace!Cursors(trace, start, dir, window)[i])
           r == [i \in 1 .. n |-> Trace!Abs(trace[i] - at(i))]
<1>1. n \in Nat /\ DOMAIN trace = 1 .. n /\ \A i \in 1 .. n : trace[i] \in Int
  BY LenProperties, ElementOfSeq
<1>2. ASSUME NEW i \in 1 .. n
      PROVE  at(i) \in Int /\ \E j \in DOMAIN Curve : at(i) = Curve[j]
  <2>1. Trace!Cursors(trace, start, dir, window)[i] \in Int
    BY <1>1, CursorsTyped
  <2> QED
    BY <2>1, AtIsOnCurve
<1>3. Trace!Residuals(trace, start, dir, window) = r
  BY <1>1 DEF Trace!Residuals
<1> HIDE DEF at
<1>4. ASSUME NEW i \in 1 .. n PROVE Trace!Abs(trace[i] - at(i)) \in Nat
  <2>1. trace[i] - at(i) \in Int
    BY <1>1, <1>2
  <2> QED
    BY <2>1, AbsTyped
<1>5. r \in Seq(Nat) /\ Len(r) = n
  <2> HIDE DEF n
  <2> QED
    BY <1>1, <1>4
<1>6. \A i \in 1 .. n : \E j \in DOMAIN Curve : r[i] = Trace!Abs(trace[i] - Curve[j])
  BY <1>2
<1> QED
  BY <1>3, <1>5, <1>6

LEMMA CandidatesAre ==
  /\ Len(Trace!Candidates) \in Nat \ {0} /\ DOMAIN Trace!Candidates = 1 .. Len(Trace!Candidates)
  /\ \A k \in 1 .. Len(Trace!Candidates) :
       Trace!Candidates[k].start \in Int /\ Trace!Candidates[k].dir \in Int
<1> DEFINE p == Trace!Points
           q == (p - 1) \div Stride
           m == 2 * (q + 1)
           c(k) == [start |-> Stride * ((k - 1) \div 2), dir |-> IF k % 2 = 1 THEN 1 ELSE -1]
<1>1. q \in Nat
  <2>1. p \in Nat \ {0} /\ Stride \in Nat \ {0}
    BY CurveHolds, ReadersAssumption DEF Trace!CurveAssumption
  <2> HIDE DEF p
  <2> QED
    BY <2>1
<1>2. Trace!Candidates = [k \in 1 .. m |-> c(k)]
  BY DEF Trace!Candidates
<1>3. m \in Nat \ {0}
  <2> HIDE DEF q
  <2> QED
    BY <1>1
<1>4. \A k \in 1 .. m : c(k).start \in Int /\ c(k).dir \in Int
  <2>1. Stride \in Int
    BY ReadersAssumption DEF Trace!CurveAssumption
  <2>2. ASSUME NEW k \in 1 .. m PROVE (k - 1) \div 2 \in Int
    <3> HIDE DEF m
    <3> QED
      BY <1>3
  <2>3. ASSUME NEW x \in Int PROVE Stride * x \in Int
    BY <2>1
  <2> QED
    BY <2>2, <2>3
<1> HIDE DEF m, c
<1> QED
  BY <1>2, <1>3, <1>4

\* What a sweep makes of the best so far and the next candidate: the lesser of
\* the two, though the pass was abandoned.
Lesser(x, y) == IF y >= x THEN x ELSE y

MedianOf(trace, window, k) ==
  Trace!TwiceMedian(Trace!Residuals(trace, Trace!Candidates[k].start,
                                    Trace!Candidates[k].dir, window))

\* The sweep ends with the least of its candidates' medians.
LEMMA AlignmentIsLeast ==
  ASSUME NEW trace \in Seq(Int), trace # <<>>, NEW window \in Nat,
         \A i \in DOMAIN trace, j \in DOMAIN Curve :
           2 * Trace!Abs(trace[i] - Curve[j]) < Trace!Infinity
  PROVE  /\ \E k \in DOMAIN Trace!Candidates :
              Trace!Alignment(trace, window) = MedianOf(trace, window, k)
         /\ \A k \in DOMAIN Trace!Candidates :
              /\ MedianOf(trace, window, k) \in Nat
              /\ Trace!Alignment(trace, window) <= MedianOf(trace, window, k)
<1> DEFINE n == Len(Trace!Candidates)
           m(k) == MedianOf(trace, window, k)
           try(x, c) ==
             LET residuals == Trace!Residuals(trace, c.start, c.dir, window)
                 median == Trace!TwiceMedian(residuals)
             IN  IF Trace!Abandons(residuals, x) \/ median >= x THEN x ELSE median
           best[k \in 0 .. n] ==
             IF k = 0 THEN Trace!Infinity ELSE try(best[k - 1], Trace!Candidates[k])
           F == [k \in 1 .. n |-> [x \in Nat |-> try(x, Trace!Candidates[k])]]
<1>1. n \in Nat \ {0} /\ DOMAIN Trace!Candidates = 1 .. n /\ Trace!Infinity \in Nat
  BY CandidatesAre DEF Trace!Infinity
<1>2. ASSUME NEW k \in 1 .. n
      PROVE  /\ m(k) \in Nat /\ m(k) < Trace!Infinity
             /\ \A x \in Nat : try(x, Trace!Candidates[k]) = Lesser(x, m(k))
  <2> DEFINE s == Trace!Candidates[k].start
             d == Trace!Candidates[k].dir
             r == Trace!Residuals(trace, s, d, window)
  <2>1. s \in Int /\ d \in Int
    BY CandidatesAre
  <2> HIDE DEF s, d
  <2>2. /\ r \in Seq(Nat) /\ Len(r) = Len(trace)
        /\ \A i \in 1 .. Len(trace) : \E j \in DOMAIN Curve : r[i] = Trace!Abs(trace[i] - Curve[j])
    BY <2>1, ResidualsAre
  <2>3. r # <<>> /\ DOMAIN r = 1 .. Len(trace) /\ DOMAIN trace = 1 .. Len(trace)
    BY <2>2, LenProperties, EmptySeq
  <2>4. m(k) = Trace!TwiceMedian(r)
    BY Zenon DEF MedianOf, s, d
  <2>5. \A x \in Nat : try(x, Trace!Candidates[k])
          = IF Trace!Abandons(r, x) \/ m(k) >= x THEN x ELSE m(k)
    BY Zenon DEF MedianOf, s, d
  <2> HIDE DEF r, m, try
  <2>6. \A i \in DOMAIN r : 2 * r[i] < Trace!Infinity
    BY <2>2, <2>3
  <2>7. m(k) \in Nat /\ m(k) < Trace!Infinity
    BY <1>1, <2>2, <2>3, <2>4, <2>6, MedianTyped, MedianBounded
  <2>8. ASSUME NEW x \in Nat PROVE Trace!Abandons(r, x) => m(k) >= x
    BY <2>2, <2>3, <2>4, AbandonedIsNoBetter
  <2> QED
    BY <2>5, <2>7, <2>8 DEF Lesser
<1>3. Trace!Alignment(trace, window) = best[n]
  BY trace # <<>>, Zenon DEF Trace!Alignment
<1> HIDE DEF try, m
<1>4. PICK g : Unrolls(g, F, n, Trace!Infinity, Nat)
  <2>1. IsStep(F, n, Nat)
    <3> HIDE DEF n
    <3> QED
      BY <1>2 DEF IsStep, Lesser
  <2> HIDE DEF F, n
  <2> QED
    BY <1>1, <2>1, Recursion, Zenon
<1>5. /\ g \in [0 .. n -> Nat] /\ g[0] = Trace!Infinity
      /\ \A k \in 1 .. n : g[k] = try(g[k - 1], Trace!Candidates[k])
  <2>1. g \in [0 .. n -> Nat] /\ g[0] = Trace!Infinity /\ \A k \in 1 .. n : g[k] = F[k][g[k - 1]]
    BY <1>4 DEF Unrolls
  <2>2. \A k \in 1 .. n : g[k - 1] \in Nat
    <3> HIDE DEF n, F
    <3> QED
      BY <1>1, <2>1
  <2> QED
    BY <2>1, <2>2
<1>6. best = [k \in 0 .. n |-> IF k = 0 THEN Trace!Infinity
                               ELSE try(best[k - 1], Trace!Candidates[k])]
  <2>1. g = [k \in 0 .. n |-> IF k = 0 THEN Trace!Infinity
                              ELSE try(g[k - 1], Trace!Candidates[k])]
    <3> HIDE DEF n
    <3> QED
      BY <1>1, <1>5
  <2>2. \E f : f = [k \in 0 .. n |-> IF k = 0 THEN Trace!Infinity
                                     ELSE try(f[k - 1], Trace!Candidates[k])]
    <3> HIDE DEF n
    <3> QED
      BY <2>1
  <2> QED
    BY <2>2, Zenon DEF best
<1> HIDE DEF best, n
<1> DEFINE T == {k \in 0 .. n : /\ best[k] \in Nat /\ \A j \in 1 .. k : best[k] <= m(j)
                                /\ best[k] = Trace!Infinity \/ \E j \in 1 .. k : best[k] = m(j)}
<1>7. 0 \in T
  BY <1>1, <1>6
<1>8. ASSUME NEW k \in 1 .. n, k - 1 \in T PROVE k \in T
  <2>1. /\ best[k - 1] \in Nat /\ \A j \in 1 .. k - 1 : best[k - 1] <= m(j)
        /\ best[k - 1] = Trace!Infinity \/ \E j \in 1 .. k - 1 : best[k - 1] = m(j)
    BY <1>8
  <2>2. best[k] = Lesser(best[k - 1], m(k))
    BY <1>1, <1>2, <1>6, <2>1
  <2>3. m(k) \in Nat /\ k \in 0 .. n /\ \A j \in 1 .. k : j \in 1 .. k - 1 \/ j = k
    BY <1>1, <1>2
  <2>4. \A j \in 1 .. k : m(j) \in Nat
    BY <1>1, <1>2
  <2>5. CASE m(k) >= best[k - 1]
    <3>1. best[k] = best[k - 1]
      BY <2>2, <2>5 DEF Lesser
    <3> QED
      BY <2>1, <2>3, <2>5, <3>1
  <2>6. CASE ~(m(k) >= best[k - 1])
    <3>1. best[k] = m(k)
      BY <2>2, <2>6 DEF Lesser
    <3>2. \A j \in 1 .. k : m(k) <= m(j)
      BY <2>1, <2>3, <2>4, <2>6
    <3> QED
      BY <2>3, <3>1, <3>2
  <2> QED
    BY <2>5, <2>6
<1>9. n \in T
  <2> HIDE DEF T
  <2>1. 0 .. n \subseteq T
    BY <1>1, <1>7, <1>8, Induction
  <2> QED
    BY <1>1, <2>1
<1>10. \E j \in 1 .. n : best[n] = m(j)
  BY <1>1, <1>2, <1>9
<1> QED
  BY <1>1, <1>2, <1>3, <1>9, <1>10 DEF m

\* What it ends with is what no abandoned pass would have changed.
LEMMA AlignmentIsExact ==
  ASSUME NEW trace \in Seq(Int), trace # <<>>, NEW window \in Nat,
         \A i \in DOMAIN trace, j \in DOMAIN Curve :
           2 * Trace!Abs(trace[i] - Curve[j]) < Trace!Infinity
  PROVE  Trace!Alignment(trace, window) = Trace!LeastMedian(trace, window)
<1> DEFINE M == {MedianOf(trace, window, k) : k \in DOMAIN Trace!Candidates}
           a == Trace!Alignment(trace, window)
<1>1. a \in M /\ M \subseteq Nat /\ \A x \in M : a <= x
  BY AlignmentIsLeast
<1>2. Trace!LeastMedian(trace, window) = CHOOSE x \in M : \A y \in M : x <= y
  BY Zenon DEF Trace!LeastMedian, MedianOf
<1> HIDE DEF M, a
<1>3. \A x \in M : (\A y \in M : x <= y) => x = a
  BY <1>1
<1> QED
  BY <1>1, <1>2, <1>3, Zenon DEF a

ScoreType == [inBand : Int, median : Nat]

\* The score of a trace at an anchor.
LEMMA DistancesAre ==
  ASSUME NEW trace \in Seq(Int), NEW at \in Int
  PROVE  /\ [i \in DOMAIN trace |-> Trace!Nearest(trace[i] - at)] \in Seq(Nat)
         /\ Len([i \in DOMAIN trace |-> Trace!Nearest(trace[i] - at)]) = Len(trace)
<1> DEFINE n == Len(trace)
           d(i) == Trace!Nearest(trace[i] - at)
<1>1. n \in Nat /\ DOMAIN trace = 1 .. n /\ \A i \in 1 .. n : trace[i] \in Int
  BY LenProperties, ElementOfSeq
<1>2. ASSUME NEW i \in 1 .. n PROVE d(i) \in Nat
  <2>1. trace[i] - at \in Int
    BY <1>1
  <2> QED
    BY <2>1, NearestIs
<1> DEFINE s == [i \in 1 .. n |-> d(i)]
<1>3. [i \in DOMAIN trace |-> Trace!Nearest(trace[i] - at)] = s
  BY <1>1
<1>4. s \in Seq(Nat) /\ Len(s) = n
  <2> HIDE DEF d, n
  <2> QED
    BY <1>1, <1>2
<1> QED
  BY <1>3, <1>4

LEMMA ScoresTyped ==
  ASSUME NEW trace \in Seq(Int), trace # <<>>, NEW at \in Int
  PROVE  Trace!ScoresAt(trace, at) \in ScoreType
<1> DEFINE d == [i \in DOMAIN trace |-> Trace!Nearest(trace[i] - at)]
<1>1. d \in Seq(Nat) /\ Len(d) = Len(trace)
  BY DistancesAre
<1>2. Trace!ScoresAt(trace, at)
        = [inBand |-> Len(trace) - Trace!Above(d, Band), median |-> Trace!TwiceMedian(d)]
  BY Zenon DEF Trace!ScoresAt
<1> HIDE DEF d
<1>3. d # <<>> /\ Len(trace) \in Nat
  BY <1>1, LenProperties, EmptySeq
<1>4. Trace!Above(d, Band) \in Nat /\ Trace!TwiceMedian(d) \in Nat
  BY <1>1, <1>3, CountsAre, MedianTyped
<1> QED
  BY <1>2, <1>3, <1>4 DEF ScoreType

\* What was not better than the best so far is not better than one that is.
LEMMA BetterOrders ==
  ASSUME NEW s \in ScoreType, NEW t \in ScoreType, NEW u \in ScoreType
  PROVE  /\ ~Trace!Better(s, s)
         /\ Trace!Better(s, t) /\ ~Trace!Better(u, t) => ~Trace!Better(u, s)
BY DEF ScoreType, Trace!Better

LEMMA AnchorsAre ==
  /\ Len(Anchors) \in Nat \ {0} /\ DOMAIN Anchors = 1 .. Len(Anchors)
  /\ \A k \in 1 .. Len(Anchors) : Anchors[k] \in Int
<1>1. Anchors \in Seq(Int) /\ Anchors # <<>>
  BY ReadersAssumption DEF Trace!CurveAssumption
<1> QED
  BY <1>1, LenProperties, EmptySeq, ElementOfSeq

\* The best of the anchors is beaten by none of them.
LEMMA BestIsUnbeaten ==
  ASSUME NEW trace \in Seq(Int), trace # <<>>, NEW issued
  PROVE  \A k \in DOMAIN Anchors :
           ~Trace!Better(Trace!ScoresAt(trace, Anchors[k]), Trace!Region(trace, issued).best)
<1> DEFINE n == Len(Anchors)
           score(k) == Trace!ScoresAt(trace, Anchors[k])
           next(k, x) == IF k = 1 THEN score(1) ELSE IF Trace!Better(score(k), x) THEN score(k) ELSE x
           best[k \in 1 .. n] ==
             IF k = 1 THEN score(1)
             ELSE IF Trace!Better(score(k), best[k - 1]) THEN score(k)
             ELSE best[k - 1]
           F == [k \in 1 .. n |-> [x \in ScoreType |-> next(k, x)]]
<1>1. n \in Nat \ {0} /\ DOMAIN Anchors = 1 .. n /\ 1 \in 1 .. n
  BY AnchorsAre
<1>2. \A k \in 1 .. n : score(k) \in ScoreType
  BY AnchorsAre, ScoresTyped
<1>3. Trace!Region(trace, issued).best = best[n]
  <2>1. Trace!Region(trace, issued) = [best |-> best[n], issued |-> Trace!ScoresAt(trace, issued)]
    BY Zenon DEF Trace!Region
  <2> HIDE DEF best
  <2> QED
    BY <2>1
<1> HIDE DEF score, n
<1>4. PICK g : Unrolls(g, F, n, score(1), ScoreType)
  <2>1. IsStep(F, n, ScoreType)
    BY <1>1, <1>2 DEF IsStep
  <2>2. score(1) \in ScoreType
    BY <1>1, <1>2
  <2> HIDE DEF F
  <2> QED
    BY <1>1, <2>1, <2>2, Recursion, Zenon
<1>5. g \in [0 .. n -> ScoreType] /\ \A k \in 1 .. n : g[k] = next(k, g[k - 1])
  <2>1. g \in [0 .. n -> ScoreType] /\ \A k \in 1 .. n : g[k] = F[k][g[k - 1]]
    BY <1>4 DEF Unrolls
  <2>2. \A k \in 1 .. n : g[k - 1] \in ScoreType
    <3> HIDE DEF F
    <3> QED
      BY <1>1, <2>1
  <2> HIDE DEF next
  <2> QED
    BY <2>1, <2>2
<1>6. best = [k \in 1 .. n |-> IF k = 1 THEN score(1)
                               ELSE IF Trace!Better(score(k), best[k - 1]) THEN score(k)
                               ELSE best[k - 1]]
  <2> DEFINE h == [k \in 1 .. n |-> g[k]]
  <2>1. h = [k \in 1 .. n |-> IF k = 1 THEN score(1)
                              ELSE IF Trace!Better(score(k), h[k - 1]) THEN score(k)
                              ELSE h[k - 1]]
    <3>1. ASSUME NEW k \in 1 .. n
          PROVE  h[k] = IF k = 1 THEN score(1)
                        ELSE IF Trace!Better(score(k), h[k - 1]) THEN score(k) ELSE h[k - 1]
      <4>1. CASE k = 1
        BY <1>5, <4>1
      <4>2. CASE k # 1
        <5>1. k - 1 \in 1 .. n
          BY <1>1, <4>2
        <5>2. h[k - 1] = g[k - 1] /\ h[k] = g[k]
          BY <5>1
        <5>3. g[k] = IF Trace!Better(score(k), g[k - 1]) THEN score(k) ELSE g[k - 1]
          BY <1>5, <4>2
        <5> HIDE DEF h
        <5> QED
          BY <4>2, <5>2, <5>3, Zenon
      <4> QED
        BY <4>1, <4>2
    <3> QED
      BY <3>1
  <2>2. \E f : f = [k \in 1 .. n |-> IF k = 1 THEN score(1)
                                     ELSE IF Trace!Better(score(k), f[k - 1]) THEN score(k)
                                     ELSE f[k - 1]]
    <3> HIDE DEF h
    <3> QED
      BY <2>1
  <2> QED
    BY <2>2, Zenon DEF best
<1> HIDE DEF best
<1> DEFINE T == {k \in 0 .. n : k # 0 => /\ best[k] \in ScoreType
                                         /\ \A j \in 1 .. k : ~Trace!Better(score(j), best[k])}
<1>7. 0 \in T
  BY <1>1
<1>8. ASSUME NEW k \in 1 .. n, k - 1 \in T PROVE k \in T
  <2>1. k \in 0 .. n /\ k # 0 /\ score(k) \in ScoreType
    BY <1>1, <1>2
  <2>2. CASE k = 1
    <3>1. best[k] = score(k) /\ \A j \in 1 .. k : j = k
      BY <1>6, <2>2
    <3>2. ~Trace!Better(score(k), score(k))
      BY <2>1, BetterOrders
    <3> QED
      BY <2>1, <3>1, <3>2
  <2>3. CASE k # 1
    <3>1. /\ best[k - 1] \in ScoreType
          /\ \A j \in 1 .. k - 1 : ~Trace!Better(score(j), best[k - 1])
      BY <1>1, <1>8, <2>3
    <3>2. best[k] = IF Trace!Better(score(k), best[k - 1]) THEN score(k) ELSE best[k - 1]
      BY <1>6, <2>3
    <3>3. \A j \in 1 .. k : score(j) \in ScoreType /\ (j \in 1 .. k - 1 \/ j = k)
      BY <1>1, <1>2
    <3>4. CASE Trace!Better(score(k), best[k - 1])
      <4>1. best[k] = score(k)
        BY <3>2, <3>4
      <4>2. ASSUME NEW j \in 1 .. k PROVE ~Trace!Better(score(j), score(k))
        BY <2>1, <3>1, <3>3, <3>4, BetterOrders
      <4> QED
        BY <2>1, <4>1, <4>2
    <3>5. CASE ~Trace!Better(score(k), best[k - 1])
      <4>1. best[k] = best[k - 1]
        BY <3>2, <3>5
      <4>2. ASSUME NEW j \in 1 .. k PROVE ~Trace!Better(score(j), best[k - 1])
        BY <3>1, <3>3, <3>5
      <4> QED
        BY <2>1, <3>1, <4>1, <4>2
    <3> QED
      BY <3>4, <3>5
  <2> QED
    BY <2>2, <2>3
<1>9. n \in T
  <2> HIDE DEF T
  <2>1. 0 .. n \subseteq T
    BY <1>1, <1>7, <1>8, Induction
  <2> QED
    BY <1>1, <2>1
<1> QED
  BY <1>1, <1>3, <1>9 DEF score

\* To follow the curve is to be near it: no residual is less than the distance.
LEMMA AlignmentIsNoNearer ==
  ASSUME NEW trace \in Seq(Int), trace # <<>>, NEW window \in Nat, NEW at \in Int,
         \A i \in DOMAIN trace, j \in DOMAIN Curve :
           2 * Trace!Abs(trace[i] - at - Curve[j]) < Trace!Infinity
  PROVE  /\ Trace!Alignment(Trace!Moved(trace, at), window)
              = Trace!LeastMedian(Trace!Moved(trace, at), window)
         /\ Trace!Alignment(Trace!Moved(trace, at), window) >= Trace!ScoresAt(trace, at).median
<1> DEFINE n == Len(trace)
           moved == Trace!Moved(trace, at)
           d == [i \in DOMAIN trace |-> Trace!Nearest(trace[i] - at)]
<1>1. n \in Nat /\ n # 0 /\ DOMAIN trace = 1 .. n /\ \A i \in 1 .. n : trace[i] \in Int
  BY LenProperties, ElementOfSeq, EmptySeq
<1>2. moved = [i \in 1 .. n |-> trace[i] - at]
  BY <1>1 DEF Trace!Moved
<1>3. moved \in Seq(Int) /\ Len(moved) = n /\ DOMAIN moved = 1 .. n
  <2>1. \A i \in 1 .. n : trace[i] - at \in Int
    BY <1>1
  <2> HIDE DEF n, moved
  <2> QED
    BY <1>1, <1>2, <2>1
<1>4. \A i \in 1 .. n : moved[i] = trace[i] - at
  BY <1>2
<1>5. moved # <<>>
  BY <1>1, <1>3
<1> HIDE DEF moved
<1>6. \A i \in DOMAIN moved, j \in DOMAIN Curve :
        2 * Trace!Abs(moved[i] - Curve[j]) < Trace!Infinity
  BY <1>1, <1>3, <1>4
<1>7. PICK k \in DOMAIN Trace!Candidates :
        Trace!Alignment(moved, window) = MedianOf(moved, window, k)
  BY <1>3, <1>5, <1>6, AlignmentIsLeast
<1> DEFINE start == Trace!Candidates[k].start
           dir == Trace!Candidates[k].dir
           r == Trace!Residuals(moved, start, dir, window)
<1>8. start \in Int /\ dir \in Int
  BY CandidatesAre
<1>10. Trace!Alignment(moved, window) = Trace!TwiceMedian(r)
  BY <1>7, Zenon DEF MedianOf
<1> HIDE DEF start, dir
<1>9. /\ r \in Seq(Nat) /\ Len(r) = n
      /\ \A i \in 1 .. n : \E j \in DOMAIN Curve : r[i] = Trace!Abs(moved[i] - Curve[j])
  <2>1. /\ r \in Seq(Nat) /\ Len(r) = Len(moved)
        /\ \A i \in 1 .. Len(moved) :
             \E j \in DOMAIN Curve : r[i] = Trace!Abs(moved[i] - Curve[j])
    BY <1>3, <1>8, ResidualsAre
  <2> QED
    BY <1>3, <2>1
<1> HIDE DEF r
<1>11. d \in Seq(Nat) /\ Len(d) = n /\ d # <<>> /\ DOMAIN d = 1 .. n
  <2>1. d \in Seq(Nat) /\ Len(d) = n
    BY DistancesAre
  <2> HIDE DEF d
  <2> QED
    BY <1>1, <2>1, LenProperties, EmptySeq
<1>12. ASSUME NEW i \in DOMAIN d PROVE d[i] <= r[i]
  <2>1. d[i] = Trace!Nearest(trace[i] - at) /\ moved[i] = trace[i] - at
    BY <1>1, <1>4, <1>11
  <2>2. trace[i] - at \in Int
    BY <1>1, <1>11
  <2>3. PICK j \in DOMAIN Curve : r[i] = Trace!Abs(moved[i] - Curve[j])
    BY <1>9, <1>11
  <2> QED
    BY <2>1, <2>2, <2>3, NearestIs, CurveHolds
<1>13. Trace!ScoresAt(trace, at).median = Trace!TwiceMedian(d)
  <2>1. Trace!ScoresAt(trace, at)
          = [inBand |-> Len(trace) - Trace!Above(d, Band), median |-> Trace!TwiceMedian(d)]
    BY Zenon DEF Trace!ScoresAt
  <2> HIDE DEF d
  <2> QED
    BY <2>1
<1> HIDE DEF d
<1>14. r # <<>>
  BY <1>1, <1>9, LenProperties, EmptySeq
<1>15. Trace!TwiceMedian(d) <= Trace!TwiceMedian(r)
  BY <1>9, <1>11, <1>12, MedianGrows
<1>16. Trace!TwiceMedian(d) \in Nat /\ Trace!TwiceMedian(r) \in Nat
  BY <1>9, <1>11, <1>14, MedianTyped
<1> QED
  BY <1>3, <1>5, <1>6, <1>10, <1>13, <1>15, <1>16, AlignmentIsExact DEF moved

\* What an outline has of points that are not Junk.
Heard(points) == {points[j] : j \in DOMAIN points} \ {Junk}

\* What is kept of an outline is of it, and is not Junk.
LEMMA SanitizedAre ==
  ASSUME NEW S, NEW points \in Seq(S)
  PROVE  Trace!Sanitized(points) \in Seq(Heard(points))
<1> DEFINE H == Heard(points)
           n == IF Len(points) < MaxPoints THEN Len(points) ELSE MaxPoints
           next(i, c) == IF points[i] = Junk THEN c ELSE Append(c, points[i])
           F == [i \in 1 .. n |-> [c \in Seq(H) |-> next(i, c)]]
           kept[i \in 0 .. n] ==
             IF i = 0 THEN <<>>
             ELSE IF points[i] = Junk THEN kept[i - 1] ELSE Append(kept[i - 1], points[i])
<1>1. n \in Nat /\ \A i \in 1 .. n : i \in DOMAIN points
  <2>1. Len(points) \in Nat /\ DOMAIN points = 1 .. Len(points) /\ MaxPoints \in Nat
    BY LenProperties, ReadersAssumption DEF Trace!CurveAssumption
  <2> QED
    BY <2>1
<1>2. ASSUME NEW i \in 1 .. n, NEW c \in Seq(H) PROVE next(i, c) \in Seq(H)
  <2>1. CASE points[i] = Junk
    BY <2>1
  <2>2. CASE points[i] # Junk
    <3>1. points[i] \in H
      <4> HIDE DEF n
      <4> QED
        BY <1>1, <2>2 DEF Heard
    <3> HIDE DEF H, n
    <3>2. Append(c, points[i]) \in Seq(H)
      BY <3>1, AppendProperties
    <3> QED
      BY <2>2, <3>2
  <2> QED
    BY <2>1, <2>2
<1>3. <<>> \in Seq(H)
  BY EmptySeq
<1>4. PICK g : Unrolls(g, F, n, <<>>, Seq(H))
  <2>1. IsStep(F, n, Seq(H))
    <3> HIDE DEF next, n, H
    <3> QED
      BY <1>2 DEF IsStep
  <2> HIDE DEF F, n, H
  <2> QED
    BY <1>1, <1>3, <2>1, Recursion, Zenon
<1>5. g \in [0 .. n -> Seq(H)] /\ g[0] = <<>> /\ \A i \in 1 .. n : g[i] = next(i, g[i - 1])
  <2> HIDE DEF next, H
  <2>1. g \in [0 .. n -> Seq(H)] /\ g[0] = <<>> /\ \A i \in 1 .. n : g[i] = F[i][g[i - 1]]
    BY <1>4 DEF Unrolls
  <2>2. \A i \in 1 .. n : g[i - 1] \in Seq(H)
    <3> HIDE DEF n, F
    <3> QED
      BY <1>1, <2>1
  <2> QED
    BY <2>1, <2>2
<1>6. g = [i \in 0 .. n |-> IF i = 0 THEN <<>> ELSE next(i, g[i - 1])]
  <2> HIDE DEF next, n, H
  <2> QED
    BY <1>1, <1>5
<1>7. kept = [i \in 0 .. n |-> IF i = 0 THEN <<>> ELSE next(i, kept[i - 1])]
  <2>1. \E f : f = [i \in 0 .. n |-> IF i = 0 THEN <<>> ELSE next(i, f[i - 1])]
    <3> HIDE DEF next, n
    <3> QED
      BY <1>6
  <2> QED
    BY <2>1, Zenon DEF kept
<1>8. Trace!Sanitized(points) = kept[n]
  BY Zenon DEF Trace!Sanitized
<1> HIDE DEF kept, next, H
<1> DEFINE T == {i \in 0 .. n : kept[i] \in Seq(H)}
<1>9. 0 \in T /\ \A k \in 1 .. n : k - 1 \in T => k \in T
  <2> HIDE DEF n
  <2>1. kept[0] = <<>>
    BY <1>1, <1>7
  <2>2. \A i \in 1 .. n : kept[i] = next(i, kept[i - 1])
    BY <1>1, <1>7
  <2>3. ASSUME NEW k \in 1 .. n, k - 1 \in T PROVE k \in T
    <3>1. kept[k - 1] \in Seq(H) /\ k \in 0 .. n
      BY <1>1, <2>3
    <3>2. kept[k] \in Seq(H)
      BY <1>2, <2>2, <3>1
    <3> QED
      BY <3>1, <3>2
  <2>4. 0 \in T
    <3>1. 0 \in 0 .. n /\ kept[0] \in Seq(H)
      BY <1>1, <1>3, <2>1
    <3> QED
      BY <3>1
  <2> HIDE DEF T
  <2> QED
    BY <2>3, <2>4
<1>10. n \in T
  <2> HIDE DEF T, n
  <2>1. 0 .. n \subseteq T
    BY <1>1, <1>9, Induction
  <2> QED
    BY <1>1, <2>1
<1> QED
  BY <1>8, <1>10 DEF H

LEMMA SeqsGrow == \A A, B : A \subseteq B => Seq(A) \subseteq Seq(B)
<1> SUFFICES ASSUME NEW A, NEW B, A \subseteq B, NEW s \in Seq(A) PROVE s \in Seq(B)
  BY Zenon
<1>1. Len(s) \in Nat /\ s \in [1 .. Len(s) -> A]
  BY LenProperties
<1>2. s \in [1 .. Len(s) -> B]
  BY <1>1
<1> QED
  BY <1>1, <1>2, SeqDef

LEMMA Products == \A a, b, c \in Nat : a <= b => a * c <= b * c
OBVIOUS

LEMMA Quotients == \A x \in Nat, m \in Nat \ {0} : x \div m \in Nat /\ (x \div m) * m <= x
OBVIOUS

\* A quotient is within what its dividend is within.
LEMMA QuotientBounded ==
  ASSUME NEW x \in Nat, NEW m \in Nat \ {0}, NEW y \in Nat, x <= y * m
  PROVE  x \div m \in 0 .. y
<1> DEFINE q == x \div m
<1>1. q \in Nat /\ q * m <= x
  BY Quotients
<1> HIDE DEF q
<1>2. ASSUME q >= y + 1 PROVE FALSE
  <2>1. (y + 1) * m <= q * m
    BY <1>1, <1>2, Products
  <2>2. (y + 1) * m = y * m + m
    OBVIOUS
  <2>3. y * m \in Nat /\ q * m \in Nat /\ (y + 1) * m \in Nat
    BY <1>1
  <2> QED
    BY <1>1, <2>1, <2>2, <2>3
<1> QED
  BY <1>1, <1>2 DEF q

\* A subsample is of the trace, and is the trace when that is short enough.
LEMMA SubsampledAre ==
  ASSUME NEW S, NEW trace \in Seq(S), trace # <<>>
  PROVE  /\ Trace!Subsampled(trace) \in Seq(S) /\ Trace!Subsampled(trace) # <<>>
         /\ Len(trace) <= MaxAligned => Trace!Subsampled(trace) = trace
<1> DEFINE n == Len(trace)
           m == MaxAligned
           at(i) == (((i - 1) * (n - 1)) \div (m - 1)) + 1
           s == [i \in 1 .. m |-> trace[at(i)]]
<1>1. /\ n \in Nat \ {0} /\ DOMAIN trace = 1 .. n /\ \A i \in 1 .. n : trace[i] \in S
      /\ m \in Nat /\ m > 1
  <2>1. n \in Nat /\ n # 0 /\ DOMAIN trace = 1 .. n /\ \A i \in 1 .. n : trace[i] \in S
    BY LenProperties, EmptySeq, ElementOfSeq
  <2>2. m \in Nat /\ m > 1
    BY ReadersAssumption DEF Trace!CurveAssumption
  <2> QED
    BY <2>1, <2>2
<1>2. Trace!Subsampled(trace) = IF n <= m THEN trace ELSE s
  BY Zenon DEF Trace!Subsampled
<1> HIDE DEF n, m
<1>3. ASSUME NEW i \in 1 .. m PROVE trace[at(i)] \in S
  <2> DEFINE x == (i - 1) * (n - 1)
  <2>1. i - 1 \in Nat /\ m - 1 \in Nat \ {0} /\ n - 1 \in Nat /\ i - 1 <= m - 1
    BY <1>1
  <2>2. x \in Nat /\ x <= (n - 1) * (m - 1)
    <3>1. x <= (m - 1) * (n - 1)
      BY <2>1, Products
    <3> QED
      BY <2>1, <3>1
  <2> HIDE DEF x
  <2>3. x \div (m - 1) \in 0 .. n - 1
    BY <2>1, <2>2, QuotientBounded
  <2>4. at(i) \in 1 .. n
    BY <1>1, <2>3 DEF x
  <2> QED
    BY <1>1, <2>4
<1>4. s \in Seq(S) /\ Len(s) = m
  <2> HIDE DEF at
  <2> QED
    BY <1>1, <1>3
<1> HIDE DEF s
<1>5. s # <<>>
  BY <1>1, <1>4, EmptySeq
<1> QED
  BY <1>1, <1>2, <1>4, <1>5 DEF n, m

\* The whole report of a trace of two points or more.
LEMMA ScoredIs ==
  ASSUME NEW trace, NEW issued, Len(trace) >= 2, Len(trace) \in Nat
  PROVE  Trace!Scored(trace, issued)
           = [best |-> Trace!Region(trace, issued).best, issued |-> Trace!ScoresAt(trace, issued),
              alignment |-> [k \in DOMAIN Windows |->
                Trace!Alignment(Trace!Moved(Trace!Subsampled(trace), issued), Windows[k])],
              count |-> Len(trace)]
<1>1. Trace!Region(trace, issued).issued = Trace!ScoresAt(trace, issued)
  BY DEF Trace!Region
<1>2. ~(Len(trace) < 2)
  OBVIOUS
<1> QED
  BY <1>1, <1>2, Zenon DEF Trace!Scored

\* The report is of the outline and of the anchor that are in the request.
TraceInv ==
  \/ report = Trace!NoReport
  \/ /\ outline \in Outlines /\ anchor \in Issued
     /\ report = Trace!Scored(Trace!Sanitized(outline), anchor)

LEMMA TraceInvInit == Trace!Init => TraceInv
BY DEF Trace!Init, TraceInv

LEMMA TraceInvNext ==
  ASSUME TraceInv, Trace!Next
  PROVE  TraceInv'
<1>1. CASE Trace!Score
  BY <1>1, Zenon DEF Trace!Score, TraceInv
<1>2. CASE Trace!Forget
  BY <1>2, Zenon DEF Trace!Forget, TraceInv
<1> QED
  BY <1>1, <1>2 DEF Trace!Next

LEMMA TraceInvKept ==
  ASSUME TraceInv, [ReadersNext]_readersVars
  PROVE  TraceInv'
<1>1. UNCHANGED traceVars => TraceInv'
  BY DEF traceVars, TraceInv
<1>2. UNCHANGED traceVars \/ Trace!Next
  BY DEF ReadersNext, BalanceMoves, ReputationMoves, MonitorMoves, pureVars, readersVars
<1> QED
  BY <1>1, <1>2, TraceInvNext

\* What a trace is when it was heard of an outline in the envelope.
LEMMA HeardAre ==
  ASSUME NEW points \in Outlines, NEW at \in Issued
  PROVE  /\ Heard(points) \subseteq Int /\ at \in Int
         /\ \A p \in Heard(points), j \in DOMAIN Curve : 2 * Trace!Abs(p - at - Curve[j]) < Trace!Infinity
<1>1. /\ points \in Seq(Int \cup {Junk}) /\ at \in Int
      /\ \A i \in DOMAIN points, j \in DOMAIN Curve :
           points[i] # Junk => 2 * Trace!Abs(points[i] - at - Curve[j]) < Trace!Infinity
  BY ReadersAssumption DEF Trace!CurveAssumption
<1>2. \A i \in DOMAIN points : points[i] \in Int \cup {Junk}
  BY <1>1, LenProperties, ElementOfSeq
<1> QED
  BY <1>1, <1>2 DEF Heard

LEMMA TraceInvSuffices == TraceInv => AbandonIsExact
<1> DEFINE trace == Trace!Sanitized(outline)
           sub == Trace!Subsampled(trace)
           aligned == Trace!Moved(sub, anchor)
           H == Heard(outline)
<1> SUFFICES ASSUME TraceInv, report.count >= 2
             PROVE  /\ \A k \in DOMAIN Windows :
                         /\ report.alignment[k] = Trace!LeastMedian(aligned, Windows[k])
                         /\ Len(trace) <= MaxAligned => report.alignment[k] >= report.issued.median
                    /\ \A k \in DOMAIN Anchors :
                         ~Trace!Better(Trace!ScoresAt(trace, Anchors[k]), report.best)
  BY Zenon DEF AbandonIsExact, Trace!AbandonIsExact
<1>1. outline \in Outlines /\ anchor \in Issued /\ report = Trace!Scored(trace, anchor)
  <2>1. report # Trace!NoReport
    BY DEF Trace!NoReport
  <2> QED
    BY <2>1, Zenon DEF TraceInv
<1>2. trace \in Seq(H)
  <2>1. outline \in Seq(Int \cup {Junk})
    BY <1>1, ReadersAssumption DEF Trace!CurveAssumption
  <2> QED
    BY <2>1, SanitizedAre, Zenon
<1>3. /\ H \subseteq Int /\ anchor \in Int
      /\ \A p \in H, j \in DOMAIN Curve : 2 * Trace!Abs(p - anchor - Curve[j]) < Trace!Infinity
  BY <1>1, HeardAre, Zenon
<1> HIDE DEF trace, H
<1>4. Len(trace) \in Nat /\ trace # <<>> /\ Len(trace) >= 2
  <2>1. Len(trace) \in Nat
    BY <1>2, LenProperties
  <2>2. CASE Len(trace) < 2
    <3>1. Trace!Scored(trace, anchor) = [Trace!NoReport EXCEPT !.count = Len(trace)]
      BY <2>2, Zenon DEF Trace!Scored
    <3>2. report.count = Len(trace)
      BY <1>1, <3>1 DEF Trace!NoReport
    <3> QED
      BY <2>1, <2>2, <3>2
  <2>3. Len(trace) >= 2
    BY <2>1, <2>2
  <2> QED
    BY <1>2, <2>1, <2>3, EmptySeq
<1>5. /\ report.best = Trace!Region(trace, anchor).best
      /\ report.issued = Trace!ScoresAt(trace, anchor)
      /\ report.alignment = [k \in DOMAIN Windows |-> Trace!Alignment(aligned, Windows[k])]
  <2> HIDE DEF sub, aligned
  <2> DEFINE b == Trace!Region(trace, anchor).best
             i == Trace!ScoresAt(trace, anchor)
             a == [k \in DOMAIN Windows |-> Trace!Alignment(aligned, Windows[k])]
  <2>1. report = [best |-> b, issued |-> i, alignment |-> a, count |-> Len(trace)]
    BY <1>1, <1>4, ScoredIs, Zenon DEF sub, aligned
  <2> HIDE DEF a, b, i
  <2>2. report.best = b /\ report.issued = i /\ report.alignment = a
    BY <2>1
  <2> QED
    BY <2>2 DEF a, b, i
<1>6. sub \in Seq(H) /\ sub # <<>> /\ (Len(trace) <= MaxAligned => sub = trace)
  BY <1>2, <1>4, SubsampledAre, Zenon
<1> HIDE DEF sub
<1>7. /\ trace \in Seq(Int) /\ sub \in Seq(Int)
      /\ \A i \in DOMAIN sub : sub[i] \in H
  <2>1. Seq(H) \subseteq Seq(Int)
    BY <1>3, SeqsGrow, Zenon
  <2>2. \A i \in DOMAIN sub : sub[i] \in H
    BY <1>6, LenProperties, ElementOfSeq
  <2> QED
    BY <1>2, <1>6, <2>1, <2>2
<1>8. \A i \in DOMAIN sub, j \in DOMAIN Curve :
        2 * Trace!Abs(sub[i] - anchor - Curve[j]) < Trace!Infinity
  BY <1>3, <1>7
<1>9. \A k \in DOMAIN Windows : Windows[k] \in Nat
  <2>1. Windows \in Seq(Nat)
    BY ReadersAssumption DEF Trace!CurveAssumption
  <2> QED
    BY <2>1, LenProperties, ElementOfSeq
<1>10. ASSUME NEW k \in DOMAIN Windows
       PROVE  /\ report.alignment[k] = Trace!LeastMedian(aligned, Windows[k])
              /\ Len(trace) <= MaxAligned => report.alignment[k] >= report.issued.median
  <2> DEFINE w == Windows[k]
  <2>1. w \in Nat
    BY <1>9
  <2>2. report.alignment[k] = Trace!Alignment(aligned, w)
    BY <1>5
  <2> HIDE DEF w
  <2>3. /\ Trace!Alignment(aligned, w) = Trace!LeastMedian(aligned, w)
        /\ Trace!Alignment(aligned, w) >= Trace!ScoresAt(sub, anchor).median
    BY <1>3, <1>6, <1>7, <1>8, <2>1, AlignmentIsNoNearer
  <2>4. Len(trace) <= MaxAligned => Trace!ScoresAt(sub, anchor) = report.issued
    BY <1>5, <1>6
  <2> HIDE DEF aligned
  <2> QED
    BY <2>2, <2>3, <2>4 DEF w
<1>11. \A k \in DOMAIN Anchors : ~Trace!Better(Trace!ScoresAt(trace, Anchors[k]), report.best)
  BY <1>4, <1>5, <1>7, BestIsUnbeaten
<1> QED
  BY <1>10, <1>11

------------------------------------------------------------------------------
(***************************************************************************)
(* The accounts: numbers in cells of any base, parts of what was written,  *)
(* and what is read of an account that was cut or lengthened.              *)
(***************************************************************************)
\* The constants of the layout.
LEMMA LayoutHolds ==
  /\ Base \in Nat /\ Base > 1 /\ KeyCells \in Nat
  /\ I64Cells \in Nat /\ I64Cells > 0 /\ U32Cells \in Nat /\ U16Cells \in Nat
  /\ Tag \in Seq(Int) /\ Tag # <<>> /\ Tag[1] # 0
  /\ RecentOffset \in Nat /\ RecentOffset >= Accounts!TrustOffset + U16Cells
  /\ Slots \in Nat /\ Slots > 0
BY ReadersAssumption DEF Accounts!AccountsAssumption

\* A recursive definition of which one solution is known is a solution.
LEMMA PowersAre ==
  ASSUME NEW n \in Nat
  PROVE  /\ Accounts!Powers(n)[0] = 1
         /\ \A k \in 1 .. n : Accounts!Powers(n)[k] = Base * Accounts!Powers(n)[k - 1]
         /\ \A k \in 0 .. n : Accounts!Powers(n)[k] \in Nat \ {0}
<1> DEFINE P == Nat \ {0}
           next(x) == Base * x
           F == [k \in 1 .. n |-> [x \in P |-> next(x)]]
           power[k \in 0 .. n] == IF k = 0 THEN 1 ELSE Base * power[k - 1]
<1>1. Base \in Nat /\ Base > 1
  BY LayoutHolds
<1>2. \A x \in P : next(x) \in P
  BY <1>1
<1>3. PICK g : Unrolls(g, F, n, 1, P)
  <2>1. IsStep(F, n, P)
    <3> HIDE DEF next, P
    <3> QED
      BY <1>2 DEF IsStep
  <2>2. 1 \in P
    OBVIOUS
  <2> HIDE DEF F, P
  <2> QED
    BY <2>1, <2>2, Recursion, Zenon
<1>4. g \in [0 .. n -> P] /\ g[0] = 1 /\ \A k \in 1 .. n : g[k] = next(g[k - 1])
  <2> HIDE DEF next, P
  <2>1. g \in [0 .. n -> P] /\ g[0] = 1 /\ \A k \in 1 .. n : g[k] = F[k][g[k - 1]]
    BY <1>3 DEF Unrolls
  <2>2. \A k \in 1 .. n : g[k - 1] \in P
    <3> HIDE DEF F
    <3> QED
      BY <2>1
  <2> QED
    BY <2>1, <2>2
<1>5. g = [k \in 0 .. n |-> IF k = 0 THEN 1 ELSE Base * g[k - 1]]
  <2> HIDE DEF P
  <2> QED
    BY <1>4
<1>6. power = [k \in 0 .. n |-> IF k = 0 THEN 1 ELSE Base * power[k - 1]]
  <2>1. \E f : f = [k \in 0 .. n |-> IF k = 0 THEN 1 ELSE Base * f[k - 1]]
    BY <1>5
  <2> QED
    BY <2>1, Zenon DEF power
<1>7. Accounts!Powers(n) = power
  BY Zenon DEF Accounts!Powers
<1> HIDE DEF power
<1>8. power[0] = 1 /\ \A k \in 1 .. n : power[k] = Base * power[k - 1]
  BY <1>6
<1> DEFINE T == {k \in 0 .. n : power[k] \in P}
<1>9. 0 .. n \subseteq T
  <2>1. 0 \in T
    BY <1>8
  <2>2. ASSUME NEW k \in 1 .. n, k - 1 \in T PROVE k \in T
    <3>1. power[k - 1] \in P /\ power[k] = next(power[k - 1]) /\ k \in 0 .. n
      BY <1>8, <2>2
    <3> HIDE DEF next, P
    <3> QED
      BY <1>2, <3>1
  <2> HIDE DEF T
  <2> QED
    BY <2>1, <2>2, Induction
<1> QED
  BY <1>7, <1>8, <1>9

\* What is left of a number after each cell,
LEMMA RestsAre ==
  ASSUME NEW n \in Nat, NEW v \in Int
  PROVE  /\ Accounts!Rests(v, n)[0] = v
         /\ \A k \in 1 .. n : Accounts!Rests(v, n)[k] = Accounts!Rests(v, n)[k - 1] \div Base
         /\ \A k \in 0 .. n : Accounts!Rests(v, n)[k] \in Int
<1> DEFINE next(x) == x \div Base
           F == [k \in 1 .. n |-> [x \in Int |-> next(x)]]
           rest[k \in 0 .. n] == IF k = 0 THEN v ELSE rest[k - 1] \div Base
<1>1. Base \in Nat /\ Base > 1
  BY LayoutHolds
<1>2. \A x \in Int : next(x) \in Int
  BY <1>1
<1>3. PICK g : Unrolls(g, F, n, v, Int)
  <2>1. IsStep(F, n, Int)
    <3> HIDE DEF next
    <3> QED
      BY <1>2 DEF IsStep
  <2> HIDE DEF F
  <2> QED
    BY <2>1, Recursion, Zenon
<1>4. g \in [0 .. n -> Int] /\ g[0] = v /\ \A k \in 1 .. n : g[k] = next(g[k - 1])
  <2> HIDE DEF next
  <2>1. g \in [0 .. n -> Int] /\ g[0] = v /\ \A k \in 1 .. n : g[k] = F[k][g[k - 1]]
    BY <1>3 DEF Unrolls
  <2>2. \A k \in 1 .. n : g[k - 1] \in Int
    <3> HIDE DEF F
    <3> QED
      BY <2>1
  <2> QED
    BY <2>1, <2>2
<1>5. g = [k \in 0 .. n |-> IF k = 0 THEN v ELSE g[k - 1] \div Base]
  BY <1>4
<1>6. rest = [k \in 0 .. n |-> IF k = 0 THEN v ELSE rest[k - 1] \div Base]
  <2>1. \E f : f = [k \in 0 .. n |-> IF k = 0 THEN v ELSE f[k - 1] \div Base]
    BY <1>5
  <2> QED
    BY <2>1, Zenon DEF rest
<1>7. Accounts!Rests(v, n) = rest
  BY Zenon DEF Accounts!Rests
<1> HIDE DEF rest
<1>8. rest[0] = v /\ \A k \in 1 .. n : rest[k] = next(rest[k - 1])
  BY <1>6
<1> DEFINE T == {k \in 0 .. n : rest[k] \in Int}
<1>9. 0 .. n \subseteq T
  <2>1. 0 \in T
    BY <1>8
  <2>2. ASSUME NEW k \in 1 .. n, k - 1 \in T PROVE k \in T
    <3>1. rest[k - 1] \in Int /\ rest[k] = next(rest[k - 1]) /\ k \in 0 .. n
      BY <1>8, <2>2
    <3> HIDE DEF next
    <3> QED
      BY <1>2, <3>1
  <2> HIDE DEF T
  <2> QED
    BY <2>1, <2>2, Induction
<1> QED
  BY <1>7, <1>8, <1>9

\* and the value of the last cells.
LEMMA ValuesAre ==
  ASSUME NEW cells \in Seq(Int)
  PROVE  /\ Accounts!Values(cells)[0] = 0
         /\ \A k \in 1 .. Len(cells) : Accounts!Values(cells)[k]
              = cells[Len(cells) - k + 1] + Base * Accounts!Values(cells)[k - 1]
<1> DEFINE n == Len(cells)
           next(k, x) == cells[n - k + 1] + Base * x
           F == [k \in 1 .. n |-> [x \in Int |-> next(k, x)]]
           value[k \in 0 .. n] == IF k = 0 THEN 0 ELSE cells[n - k + 1] + Base * value[k - 1]
<1>1. Base \in Nat /\ n \in Nat /\ \A i \in 1 .. n : cells[i] \in Int
  BY LayoutHolds, LenProperties, ElementOfSeq
<1>2. ASSUME NEW k \in 1 .. n, NEW x \in Int PROVE next(k, x) \in Int
  <2> HIDE DEF n
  <2>1. n - k + 1 \in 1 .. n
    BY <1>1
  <2>2. cells[n - k + 1] \in Int
    BY <1>1, <2>1
  <2> QED
    BY <1>1, <2>2
<1>3. PICK g : Unrolls(g, F, n, 0, Int)
  <2>1. IsStep(F, n, Int)
    <3> HIDE DEF next, n
    <3> QED
      BY <1>2 DEF IsStep
  <2>2. 0 \in Int
    OBVIOUS
  <2> HIDE DEF F, n
  <2> QED
    BY <1>1, <2>1, <2>2, Recursion, Zenon
<1>4. g \in [0 .. n -> Int] /\ g[0] = 0 /\ \A k \in 1 .. n : g[k] = next(k, g[k - 1])
  <2> HIDE DEF next
  <2>1. g \in [0 .. n -> Int] /\ g[0] = 0 /\ \A k \in 1 .. n : g[k] = F[k][g[k - 1]]
    BY <1>3 DEF Unrolls
  <2>2. \A k \in 1 .. n : g[k - 1] \in Int
    <3> HIDE DEF F, n
    <3> QED
      BY <1>1, <2>1
  <2> QED
    BY <2>1, <2>2
<1>5. g = [k \in 0 .. n |-> IF k = 0 THEN 0 ELSE next(k, g[k - 1])]
  <2> HIDE DEF next, n
  <2> QED
    BY <1>1, <1>4
<1>6. value = [k \in 0 .. n |-> IF k = 0 THEN 0 ELSE next(k, value[k - 1])]
  <2>1. \E f : f = [k \in 0 .. n |-> IF k = 0 THEN 0 ELSE next(k, f[k - 1])]
    <3> HIDE DEF next, n
    <3> QED
      BY <1>5
  <2> QED
    BY <2>1, Zenon DEF value
<1>7. Accounts!Values(cells) = value
  BY Zenon DEF Accounts!Values
<1> HIDE DEF value, next
<1>8. value[0] = 0 /\ \A k \in 1 .. n : value[k] = next(k, value[k - 1])
  <2> HIDE DEF n
  <2> QED
    BY <1>1, <1>6
<1> QED
  BY <1>7, <1>8 DEF next

\* Division by a base, and how it orders.
LEMMA Divides ==
  \A x \in Int, b \in Nat \ {0} :
    x \div b \in Int /\ x % b \in Int /\ x = b * (x \div b) + (x % b) /\ 0 <= x % b /\ x % b < b
OBVIOUS

LEMMA Distributes ==
  \A b, q, p, e \in Int : b * (q - p * e) = b * q - (b * p) * e
OBVIOUS

LEMMA Ordered ==
  /\ \A b \in Nat \ {0} : \A x, y \in Int : x <= y => b * x <= b * y
  /\ \A b \in Nat \ {0} : \A x, y \in Int : x < y => b * x + b <= b * y
<1>1. ASSUME NEW b \in Nat \ {0}, NEW x \in Int, NEW y \in Int, x <= y PROVE b * x <= b * y
  <2>1. y - x \in Nat
    BY <1>1
  <2>2. b * (y - x) \in Nat /\ b * (y - x) = b * y - b * x
    BY <2>1
  <2> QED
    BY <2>2
<1>2. ASSUME NEW b \in Nat \ {0}, NEW x \in Int, NEW y \in Int, x < y PROVE b * x + b <= b * y
  <2>1. x + 1 <= y /\ x + 1 \in Int
    BY <1>2
  <2>2. b * (x + 1) <= b * y
    BY <1>1, <2>1
  <2>3. b * (x + 1) = b * x + b
    OBVIOUS
  <2> QED
    BY <2>2, <2>3
<1> QED
  BY <1>1, <1>2

LEMMA Shrinks ==
  ASSUME NEW x \in Int, NEW m \in Nat \ {0}
  PROVE  /\ 0 <= x /\ x < Base * m => 0 <= x \div Base /\ x \div Base < m
         /\ -(Base * m) <= x /\ x < 0 => -m <= x \div Base /\ x \div Base < 0
<1> DEFINE b == Base
           q == x \div b
           d == x % b
<1>1. b \in Nat \ {0}
  BY LayoutHolds
<1>2. q \in Int /\ d \in Int /\ x = b * q + d /\ 0 <= d /\ d < b
  BY <1>1, Divides
<1> HIDE DEF b, q, d
<1>3. b * m \in Int /\ b * q \in Int /\ b * 0 = 0 /\ b * (-m) = -(b * m) /\ -m \in Int
  BY <1>1, <1>2
<1>4. ASSUME 0 <= x, x < b * m PROVE 0 <= q /\ q < m
  <2>1. q < 0 => b * q + b <= b * 0
    BY <1>1, <1>2, Ordered
  <2>2. m <= q => b * m <= b * q
    BY <1>1, <1>2, Ordered
  <2> QED
    BY <1>1, <1>2, <1>3, <1>4, <2>1, <2>2
<1>5. ASSUME -(b * m) <= x, x < 0 PROVE -m <= q /\ q < 0
  <2>1. q < -m => b * q + b <= b * (-m)
    BY <1>1, <1>2, <1>3, Ordered
  <2>2. 0 <= q => b * 0 <= b * q
    BY <1>1, <1>2, Ordered
  <2> QED
    BY <1>1, <1>2, <1>3, <1>5, <2>1, <2>2
<1> QED
  BY <1>4, <1>5 DEF b, q

\* The cells of a number are cells.
LEMMA LittleIs ==
  ASSUME NEW n \in Nat, NEW v \in Int
  PROVE  /\ Accounts!Little(v, n) \in Seq(Int) /\ Len(Accounts!Little(v, n)) = n
         /\ \A i \in 1 .. n : Accounts!Little(v, n)[i] = Accounts!Rests(v, n)[i - 1] % Base
<1> DEFINE c(i) == Accounts!Rests(v, n)[i - 1] % Base
           s == [i \in 1 .. n |-> c(i)]
<1>1. Accounts!Little(v, n) = s
  BY DEF Accounts!Little
<1>2. ASSUME NEW i \in 1 .. n PROVE c(i) \in Int
  <2> DEFINE x == Accounts!Rests(v, n)[i - 1]
  <2>1. x \in Int
    <3>1. i - 1 \in 0 .. n
      OBVIOUS
    <3> QED
      BY <3>1, RestsAre
  <2>2. Base \in Nat \ {0}
    BY LayoutHolds
  <2> HIDE DEF x
  <2> QED
    BY <2>1, <2>2, Divides DEF x
<1> HIDE DEF c
<1>3. s \in Seq(Int) /\ Len(s) = n /\ \A i \in 1 .. n : s[i] = c(i)
  BY <1>2
<1> QED
  BY <1>1, <1>3 DEF c

\* The last k cells have what is left after the others, less what does not fit.
LEMMA ValuesOfLittle ==
  ASSUME NEW n \in Nat, NEW v \in Int, NEW k \in 0 .. n
  PROVE  Accounts!Values(Accounts!Little(v, n))[k]
           = Accounts!Rests(v, n)[n - k] - Accounts!Powers(n)[k] * Accounts!Rests(v, n)[n]
<1> DEFINE c == Accounts!Little(v, n)
           value == Accounts!Values(c)
           r == Accounts!Rests(v, n)
           p == Accounts!Powers(n)
           b == Base
<1>1. b \in Nat \ {0}
  BY LayoutHolds
<1>2. c \in Seq(Int) /\ Len(c) = n /\ \A i \in 1 .. n : c[i] = r[i - 1] % b
  BY LittleIs
<1>3. (\A i \in 0 .. n : r[i] \in Int) /\ \A i \in 1 .. n : r[i] = r[i - 1] \div b
  BY RestsAre
<1>4. p[0] = 1 /\ (\A i \in 1 .. n : p[i] = b * p[i - 1]) /\ \A i \in 0 .. n : p[i] \in Int
  BY PowersAre
<1> HIDE DEF c
<1>5. value[0] = 0 /\ \A i \in 1 .. n : value[i] = c[n - i + 1] + b * value[i - 1]
  BY <1>2, ValuesAre
<1> HIDE DEF value, r, p, b
<1> DEFINE T == {i \in 0 .. n : value[i] = r[n - i] - p[i] * r[n]}
<1>6. 0 \in T
  <2>1. r[n] \in Int /\ 1 * r[n] = r[n] /\ n - 0 = n
    BY <1>3
  <2> QED
    BY <1>4, <1>5, <2>1
<1>7. ASSUME NEW i \in 1 .. n, i - 1 \in T PROVE i \in T
  <2> DEFINE x == r[n - i]
             q == x \div b
             d == x % b
             e == r[n]
             y == p[i - 1]
  <2>1. x \in Int /\ e \in Int /\ y \in Int
    BY <1>3, <1>4
  <2>2. q \in Int /\ d \in Int /\ x = b * q + d
    BY <1>1, <2>1, Divides
  <2>3. c[n - i + 1] = d
    <3>1. n - i + 1 \in 1 .. n /\ (n - i + 1) - 1 = n - i
      OBVIOUS
    <3> QED
      BY <1>2, <3>1
  <2>4. value[i - 1] = q - y * e
    <3>1. n - i + 1 \in 1 .. n /\ (n - i + 1) - 1 = n - i /\ n - (i - 1) = n - i + 1
      OBVIOUS
    <3>2. r[n - i + 1] = q
      BY <1>3, <3>1
    <3> QED
      BY <1>7, <3>1, <3>2
  <2>5. value[i] = d + b * (q - y * e)
    BY <1>5, <2>3, <2>4
  <2>6. p[i] = b * y
    BY <1>4
  <2>7. b * (q - y * e) = b * q - (b * y) * e
    <3> HIDE DEF q, e, y
    <3> QED
      BY <1>1, <2>1, <2>2, Distributes
  <2>8. value[i] = x - p[i] * e
    <3>1. b * q \in Int /\ (b * y) * e \in Int
      <4> HIDE DEF q, e, y
      <4> QED
        BY <1>1, <2>1, <2>2
    <3> HIDE DEF q, e, y, d, x
    <3> QED
      BY <2>2, <2>5, <2>6, <2>7, <3>1
  <2> QED
    BY <2>8
<1> HIDE DEF T
<1>8. 0 .. n \subseteq T
  BY <1>6, <1>7, Induction
<1> QED
  BY <1>8 DEF T, value, r, p, c

\* Of a number that fits, nothing is left, but for its sign.
LEMMA RestsEnd ==
  ASSUME NEW n \in Nat, NEW v \in Int
  PROVE  /\ 0 <= v /\ v < Accounts!Span(n) => Accounts!Rests(v, n)[n] = 0
         /\ -Accounts!Span(n) <= v /\ v < 0 => Accounts!Rests(v, n)[n] = -1
<1> DEFINE r == Accounts!Rests(v, n)
           p == Accounts!Powers(n)
<1>1. r[0] = v /\ (\A i \in 0 .. n : r[i] \in Int) /\ \A i \in 1 .. n : r[i] = r[i - 1] \div Base
  BY RestsAre
<1>2. p[0] = 1 /\ (\A i \in 1 .. n : p[i] = Base * p[i - 1]) /\ \A i \in 0 .. n : p[i] \in Nat \ {0}
  BY PowersAre
<1>3. Accounts!Span(n) = p[n]
  BY DEF Accounts!Span
<1> HIDE DEF r, p
<1>4. ASSUME NEW i \in 1 .. n
      PROVE  /\ i - 1 \in 0 .. n /\ n - i \in 0 .. n /\ n - (i - 1) \in 1 .. n
             /\ (n - (i - 1)) - 1 = n - i
             /\ r[i - 1] \in Int /\ p[n - i] \in Nat \ {0} /\ r[i] = r[i - 1] \div Base
             /\ p[n - (i - 1)] = Base * p[n - i]
  <2>1. /\ i - 1 \in 0 .. n /\ n - i \in 0 .. n /\ n - (i - 1) \in 1 .. n
        /\ (n - (i - 1)) - 1 = n - i
    OBVIOUS
  <2> QED
    BY <1>1, <1>2, <2>1
<1>5. ASSUME 0 <= v, v < p[n] PROVE r[n] = 0
  <2> DEFINE T == {i \in 0 .. n : 0 <= r[i] /\ r[i] < p[n - i]}
  <2>1. 0 \in T
    <3>1. n - 0 = n
      OBVIOUS
    <3> QED
      BY <1>1, <1>5, <3>1
  <2>2. ASSUME NEW i \in 1 .. n, i - 1 \in T PROVE i \in T
    <3>1. 0 <= r[i - 1] /\ r[i - 1] < Base * p[n - i]
      BY <1>4, <2>2
    <3>2. 0 <= r[i - 1] \div Base /\ r[i - 1] \div Base < p[n - i]
      BY <1>4, <3>1, Shrinks
    <3> QED
      BY <1>4, <3>2
  <2> HIDE DEF T
  <2>3. n \in T
    BY <2>1, <2>2, Induction
  <2>4. n - n = 0 /\ n \in 0 .. n
    OBVIOUS
  <2> QED
    BY <1>1, <1>2, <2>3, <2>4 DEF T
<1>6. ASSUME -p[n] <= v, v < 0 PROVE r[n] = -1
  <2> DEFINE T == {i \in 0 .. n : -p[n - i] <= r[i] /\ r[i] < 0}
  <2>1. 0 \in T
    <3>1. n - 0 = n
      OBVIOUS
    <3> QED
      BY <1>1, <1>6, <3>1
  <2>2. ASSUME NEW i \in 1 .. n, i - 1 \in T PROVE i \in T
    <3>1. -(Base * p[n - i]) <= r[i - 1] /\ r[i - 1] < 0
      BY <1>4, <2>2
    <3>2. -p[n - i] <= r[i - 1] \div Base /\ r[i - 1] \div Base < 0
      BY <1>4, <3>1, Shrinks
    <3> QED
      BY <1>4, <3>2
  <2> HIDE DEF T
  <2>3. n \in T
    BY <2>1, <2>2, Induction
  <2>4. n - n = 0 /\ n \in 0 .. n
    OBVIOUS
  <2> QED
    BY <1>1, <1>2, <2>3, <2>4 DEF T
<1> QED
  BY <1>3, <1>5, <1>6 DEF r

\* What is written in cells is read of them.
LEMMA WordReads ==
  ASSUME NEW n \in Nat, NEW v \in Int
  PROVE  /\ 0 <= v /\ v < Accounts!Span(n) => Accounts!Unsigned(Accounts!Little(v, n)) = v
         /\ -Accounts!Span(n) <= 2 * v /\ 2 * v < Accounts!Span(n)
              => Accounts!Signed(Accounts!Little(v, n)) = v
<1> DEFINE c == Accounts!Little(v, n)
           u == Accounts!Unsigned(c)
           m == Accounts!Span(n)
           e == Accounts!Rests(v, n)[n]
<1>1. m \in Nat \ {0} /\ m = Accounts!Powers(n)[n]
  BY PowersAre DEF Accounts!Span
<1>2. Len(c) = n
  BY LittleIs
<1>3. u = v - m * e
  <2>1. Accounts!Rests(v, n)[0] = v /\ n - n = 0
    BY RestsAre
  <2>2. u = Accounts!Values(c)[n]
    BY <1>2 DEF Accounts!Unsigned
  <2>3. n \in 0 .. n
    OBVIOUS
  <2>4. Accounts!Values(c)[n]
          = Accounts!Rests(v, n)[n - n] - Accounts!Powers(n)[n] * Accounts!Rests(v, n)[n]
    BY <2>3, ValuesOfLittle, Zenon
  <2> QED
    BY <1>1, <2>1, <2>2, <2>4
<1>4. (0 <= v /\ v < m => e = 0) /\ (-m <= v /\ v < 0 => e = -1)
  BY RestsEnd
<1>5. Accounts!Signed(c) = IF 2 * u < m THEN u ELSE u - m
  BY <1>2 DEF Accounts!Signed
<1> HIDE DEF c, u, m, e
<1>6. ASSUME 0 <= v, v < m PROVE u = v
  BY <1>1, <1>3, <1>4, <1>6
<1>7. ASSUME -m <= 2 * v, 2 * v < m PROVE Accounts!Signed(c) = v
  <2>1. CASE 0 <= v
    <3>1. v < m
      BY <1>1, <1>7, <2>1
    <3> QED
      BY <1>5, <1>6, <1>7, <2>1, <3>1
  <2>2. CASE ~(0 <= v)
    <3>1. -m <= v /\ v < 0
      BY <1>1, <1>7, <2>2
    <3>2. m * e = -m
      BY <1>1, <1>4, <3>1
    <3>3. u = v + m
      BY <1>1, <1>3, <3>2
    <3> QED
      BY <1>1, <1>5, <1>7, <3>3
  <2> QED
    BY <2>1, <2>2
<1> QED
  BY <1>6, <1>7 DEF c, u, m

\* t stands in w after `from` cells.
PartAt(w, from, t) ==
  from + Len(t) <= Len(w) /\ \A i \in 1 .. Len(t) : w[from + i] = t[i]

\* A part of a sequence is a part of what that is joined into.
LEMMA Joined ==
  ASSUME NEW s \in Seq(Int), NEW t \in Seq(Int)
  PROVE  /\ s \o t \in Seq(Int) /\ Len(s \o t) = Len(s) + Len(t)
         /\ Len(s) \in Nat /\ Len(t) \in Nat
         /\ \A i \in 1 .. Len(s) : (s \o t)[i] = s[i]
         /\ \A i \in 1 .. Len(t) : (s \o t)[Len(s) + i] = t[i]
<1>1. Len(s) \in Nat /\ Len(t) \in Nat
  BY LenProperties
<1>2. /\ s \o t \in Seq(Int) /\ Len(s \o t) = Len(s) + Len(t)
      /\ \A i \in 1 .. Len(s) + Len(t) :
           (s \o t)[i] = IF i <= Len(s) THEN s[i] ELSE t[i - Len(s)]
  BY ConcatProperties
<1>3. \A i \in 1 .. Len(s) : (s \o t)[i] = s[i]
  BY <1>1, <1>2
<1>4. ASSUME NEW i \in 1 .. Len(t) PROVE (s \o t)[Len(s) + i] = t[i]
  <2>1. /\ Len(s) + i \in 1 .. Len(s) + Len(t) /\ ~(Len(s) + i <= Len(s))
        /\ (Len(s) + i) - Len(s) = i
    BY <1>1
  <2> QED
    BY <1>2, <2>1
<1> QED
  BY <1>1, <1>2, <1>3, <1>4

LEMMA PartOfLeft ==
  ASSUME NEW s \in Seq(Int), NEW u \in Seq(Int), NEW t \in Seq(Int), NEW from \in Nat,
         PartAt(s, from, t)
  PROVE  PartAt(s \o u, from, t)
<1> DEFINE w == s \o u
<1>1. /\ Len(w) = Len(s) + Len(u) /\ Len(s) \in Nat /\ Len(u) \in Nat /\ Len(t) \in Nat
      /\ \A i \in 1 .. Len(s) : w[i] = s[i]
  BY Joined, LenProperties
<1> HIDE DEF w
<1>2. from + Len(t) <= Len(s) /\ \A i \in 1 .. Len(t) : s[from + i] = t[i]
  BY DEF PartAt
<1>3. from + Len(t) <= Len(w)
  BY <1>1, <1>2
<1>4. ASSUME NEW i \in 1 .. Len(t) PROVE w[from + i] = t[i]
  <2>1. from + i \in 1 .. Len(s)
    BY <1>1, <1>2
  <2> QED
    BY <1>1, <1>2, <2>1
<1> QED
  BY <1>3, <1>4 DEF PartAt, w

LEMMA PartShifts ==
  ASSUME NEW s \in Seq(Int), NEW u \in Seq(Int), NEW t \in Seq(Int), NEW from \in Nat,
         PartAt(u, from, t)
  PROVE  PartAt(s \o u, Len(s) + from, t)
<1> DEFINE w == s \o u
           m == Len(s)
<1>1. /\ Len(w) = m + Len(u) /\ m \in Nat /\ Len(u) \in Nat /\ Len(t) \in Nat
      /\ \A i \in 1 .. Len(u) : w[m + i] = u[i]
  BY Joined, LenProperties
<1> HIDE DEF w, m
<1>2. from + Len(t) <= Len(u) /\ \A i \in 1 .. Len(t) : u[from + i] = t[i]
  BY DEF PartAt
<1>3. (m + from) + Len(t) <= Len(w)
  BY <1>1, <1>2
<1>4. ASSUME NEW i \in 1 .. Len(t) PROVE w[(m + from) + i] = t[i]
  <2>1. from + i \in 1 .. Len(u) /\ (m + from) + i = m + (from + i)
    BY <1>1, <1>2
  <2> QED
    BY <1>1, <1>2, <2>1
<1> QED
  BY <1>3, <1>4 DEF PartAt, w, m

LEMMA PartWhole ==
  ASSUME NEW t \in Seq(Int)
  PROVE  PartAt(t, 0, t)
BY LenProperties DEF PartAt

LEMMA PartOfRight ==
  ASSUME NEW s \in Seq(Int), NEW t \in Seq(Int)
  PROVE  PartAt(s \o t, Len(s), t)
<1>1. PartAt(s \o t, Len(s) + 0, t)
  BY PartWhole, PartShifts
<1>2. Len(s) + 0 = Len(s)
  BY LenProperties
<1> QED
  BY <1>1, <1>2

\* Of what was written, data has as much as it holds.
Follows(d, w) == \A i \in 1 .. Len(d) : i <= Len(w) => d[i] = w[i]

LEMMA PartIsRead ==
  ASSUME NEW d \in Seq(Int), NEW w \in Seq(Int), NEW t \in Seq(Int), NEW from \in Nat,
         NEW width, width = Len(t),
         Follows(d, w), PartAt(w, from, t), from + width <= Len(d)
  PROVE  SubSeq(d, from + 1, from + width) = t
<1> DEFINE n == Len(t)
           s == SubSeq(d, from + 1, from + n)
<1>1. n \in Nat /\ Len(d) \in Nat /\ Len(w) \in Nat /\ from + n <= Len(d)
  BY LenProperties
<1>2. from + n <= Len(w) /\ \A i \in 1 .. n : w[from + i] = t[i]
  BY DEF PartAt
<1> HIDE DEF n
<1>3. \A i \in 1 .. n : d[from + i] = t[i]
  <2>1. ASSUME NEW i \in 1 .. n PROVE d[from + i] = t[i]
    <3>1. from + i \in 1 .. Len(d) /\ from + i <= Len(w)
      BY <1>1, <1>2
    <3> QED
      BY <1>2, <3>1 DEF Follows
  <2> QED
    BY <2>1
<1>4. s \in Seq(Int) /\ Len(s) = n /\ \A i \in 1 .. n : s[i] = d[from + i]
  <2> DEFINE e(i) == d[from + i]
  <2>1. s = [i \in 1 .. n |-> d[from + i]]
    <3>1. s = [i \in 1 .. ((from + n) - (from + 1)) + 1 |-> d[i + (from + 1) - 1]]
      BY <1>1
    <3>2. ((from + n) - (from + 1)) + 1 = n /\ \A i \in 1 .. n : i + (from + 1) - 1 = from + i
      BY <1>1
    <3> QED
      BY <1>1, <3>1, <3>2
  <2>2. \A i \in 1 .. n : d[from + i] \in Int
    <3>1. \A i \in 1 .. n : from + i \in 1 .. Len(d)
      BY <1>1
    <3> QED
      BY <3>1, LenProperties, ElementOfSeq
  <2>3. \A i \in 1 .. n : e(i) \in Int
    BY <2>2
  <2>4. s = [i \in 1 .. n |-> e(i)]
    BY <2>1
  <2> HIDE DEF e, s
  <2>5. s \in Seq(Int) /\ Len(s) = n /\ \A i \in 1 .. n : s[i] = e(i)
    BY <1>1, <2>3, <2>4
  <2> QED
    BY <2>5 DEF e
<1>5. s = t
  <2> HIDE DEF s
  <2> QED
    BY <1>3, <1>4, SeqEqual DEF n
<1> QED
  BY <1>5 DEF n

\* Of sequences of one width that are flattened, each is where it should be.
LEMMA PartOfFlat ==
  ASSUME NEW s \in Seq(Seq(Int)), NEW width \in Nat, \A i \in DOMAIN s : Len(s[i]) = width
  PROVE  /\ Accounts!FlattenSeq(s) \in Seq(Int)
         /\ Len(Accounts!FlattenSeq(s)) = Len(s) * width
         /\ \A i \in 1 .. Len(s) : PartAt(Accounts!FlattenSeq(s), (i - 1) * width, s[i])
<1> DEFINE n == Len(s)
<1>1. Accounts!FlattenSeq(s) = Signing!FlattenSeq(s)
  BY Zenon DEF Accounts!FlattenSeq, Signing!FlattenSeq
<1>2. PICK g \in [0 .. n -> Seq(Int)] :
        /\ Signing!FlattenSeq(s) = g[n] /\ g[0] = <<>>
        /\ \A k \in 1 .. n : g[k] = g[k - 1] \o s[k]
  BY Flattened
<1>3. n \in Nat /\ \A k \in 1 .. n : s[k] \in Seq(Int) /\ Len(s[k]) = width
  BY LenProperties, ElementOfSeq
<1> HIDE DEF n
<1> DEFINE T == {k \in 0 .. n : /\ Len(g[k]) = k * width
                                /\ \A i \in 1 .. k : PartAt(g[k], (i - 1) * width, s[i])}
<1>4. 0 \in T
  <2>1. Len(g[0]) = 0 /\ 0 * width = 0
    BY <1>2, EmptySeq
  <2> QED
    BY <1>3, <2>1
<1>5. ASSUME NEW k \in 1 .. n, k - 1 \in T PROVE k \in T
  <2>1. g[k - 1] \in Seq(Int) /\ s[k] \in Seq(Int) /\ Len(s[k]) = width /\ k - 1 \in 0 .. n
    BY <1>3, <1>2
  <2>2. Len(g[k - 1]) = (k - 1) * width
    BY <1>5
  <2>3. g[k] = g[k - 1] \o s[k]
    BY <1>2
  <2>4. Len(g[k]) = k * width
    <3>1. Len(g[k]) = (k - 1) * width + width
      <4>1. Len(g[k - 1] \o s[k]) = Len(g[k - 1]) + Len(s[k])
        BY <2>1, Joined
      <4> QED
        BY <2>1, <2>2, <2>3, <4>1, Zenon
    <3>2. (k - 1) * width + width = k * width
      BY <1>3
    <3> QED
      BY <3>1, <3>2
  <2>5. PartAt(g[k], (k - 1) * width, s[k])
    BY <2>1, <2>2, <2>3, PartOfRight
  <2>6. ASSUME NEW i \in 1 .. k - 1 PROVE PartAt(g[k], (i - 1) * width, s[i])
    <3>1. PartAt(g[k - 1], (i - 1) * width, s[i])
      BY <1>5
    <3>2. i \in 1 .. n /\ i - 1 \in Nat
      BY <1>3
    <3>3. s[i] \in Seq(Int) /\ (i - 1) * width \in Nat
      BY <1>3, <3>2
    <3> DEFINE from == (i - 1) * width
    <3> HIDE DEF from
    <3>4. PartAt(g[k - 1] \o s[k], from, s[i])
      BY <2>1, <3>1, <3>3, PartOfLeft DEF from
    <3> QED
      BY <2>3, <3>4 DEF from
  <2>7. ASSUME NEW i \in 1 .. k PROVE PartAt(g[k], (i - 1) * width, s[i])
    <3>1. CASE i = k
      BY <2>5, <3>1, Zenon
    <3>2. CASE i # k
      <4>1. i \in 1 .. k - 1
        BY <1>3, <3>2
      <4> QED
        BY <2>6, <4>1, Zenon
    <3> QED
      BY <3>1, <3>2
  <2>8. k \in 0 .. n
    BY <1>3
  <2> QED
    BY <2>4, <2>7, <2>8, Zenon
<1>6. n \in T
  <2> HIDE DEF T
  <2>1. 0 .. n \subseteq T
    BY <1>3, <1>4, <1>5, Induction
  <2> QED
    BY <1>3, <2>1
<1>7. g[n] \in Seq(Int)
  BY <1>2, <1>3
<1> QED
  BY <1>1, <1>2, <1>6, <1>7 DEF n

\* The sizes and offsets of the layouts.
LEMMA SpanTyped == \A n \in Nat : Accounts!Span(n) \in Nat \ {0}
BY PowersAre DEF Accounts!Span

LEMMA ZerosAre ==
  ASSUME NEW n \in Nat
  PROVE  Accounts!Zeros(n) \in Seq(Int) /\ Len(Accounts!Zeros(n)) = n
BY DEF Accounts!Zeros

LEMMA OffsetsAre ==
  /\ Len(Tag) \in Nat /\ Len(Tag) > 0
  /\ Accounts!VerifiedOffset = Len(Tag) + (KeyCells + I64Cells)
  /\ Accounts!TrustOffset = (Accounts!VerifiedOffset + I64Cells) + U32Cells
  /\ Accounts!VerifiedOffset \in Nat /\ Accounts!TrustOffset \in Nat
  /\ Accounts!TrustOffset + U16Cells <= RecentOffset
<1>1. Len(Tag) \in Nat /\ Len(Tag) # 0
  BY LayoutHolds, LenProperties, EmptySeq
<1> QED
  BY <1>1, LayoutHolds DEF Accounts!VerifiedOffset, Accounts!TrustOffset

\* A word of the width of a timestamp that its cells can hold.
Word(v) == v \in Int /\ -Accounts!Span(I64Cells) <= 2 * v /\ 2 * v < Accounts!Span(I64Cells)

\* What an identity holds, and where it is laid out.
LEMMA IdentityHolds ==
  ASSUME NEW id \in Identities
  PROVE  /\ Word(id.verified)
         /\ id.trust \in Nat /\ id.trust < Accounts!Span(U16Cells)
         /\ id.recent \in Seq(Int) /\ Len(id.recent) = Slots
         /\ \A i \in 1 .. Slots : Word(id.recent[i])
<1> DEFINE i64 == {v \in Int : -Accounts!Span(I64Cells) <= 2 * v /\ 2 * v < Accounts!Span(I64Cells)}
<1>1. /\ id.verified \in i64 /\ id.trust \in 0 .. Accounts!Span(U16Cells) - 1
      /\ id.recent \in Seq(i64) /\ Len(id.recent) = Slots
  BY ReadersAssumption, Zenon DEF Accounts!AccountsAssumption
<1>2. Accounts!Span(U16Cells) \in Nat \ {0}
  BY SpanTyped, LayoutHolds
<1>3. id.recent \in Seq(Int)
  <2>1. i64 \subseteq Int
    OBVIOUS
  <2> HIDE DEF i64
  <2> QED
    BY <1>1, <2>1, SeqsGrow, Zenon
<1>4. \A i \in 1 .. Slots : id.recent[i] \in i64
  <2> HIDE DEF i64
  <2> QED
    BY <1>1, ElementOfSeq
<1>5. \A v \in i64 : Word(v)
  BY DEF Word
<1>6. id.trust \in Nat /\ id.trust < Accounts!Span(U16Cells)
  <2> DEFINE t == id.trust
             x == Accounts!Span(U16Cells)
  <2>1. t \in 0 .. x - 1 /\ x \in Nat
    BY <1>1, <1>2
  <2> HIDE DEF t, x
  <2>2. t \in Nat /\ t < x
    BY <2>1
  <2> QED
    BY <2>2 DEF t, x
<1> HIDE DEF i64
<1> QED
  BY <1>1, <1>3, <1>4, <1>5, <1>6, Zenon

LEMMA IdentityLaidOut ==
  ASSUME NEW id \in Identities
  PROVE  /\ Accounts!IdentityData(id) \in Seq(Int)
         /\ Len(Accounts!IdentityData(id)) = RecentOffset + Slots * I64Cells
         /\ PartAt(Accounts!IdentityData(id), 0, Tag)
         /\ PartAt(Accounts!IdentityData(id), Accounts!VerifiedOffset,
                   Accounts!Little(id.verified, I64Cells))
         /\ PartAt(Accounts!IdentityData(id), Accounts!TrustOffset,
                   Accounts!Little(id.trust, U16Cells))
         /\ \A i \in 1 .. Slots : PartAt(Accounts!IdentityData(id),
                   RecentOffset + (i - 1) * I64Cells, Accounts!Little(id.recent[i], I64Cells))
<1> DEFINE z1 == Accounts!Zeros(KeyCells + I64Cells)
           l1 == Accounts!Little(id.verified, I64Cells)
           z2 == Accounts!Zeros(U32Cells)
           l2 == Accounts!Little(id.trust, U16Cells)
           z3 == Accounts!Zeros(RecentOffset - Accounts!TrustOffset - U16Cells)
           r == [i \in 1 .. Slots |-> Accounts!Little(id.recent[i], I64Cells)]
           f == Accounts!FlattenSeq(r)
           s1 == Tag \o z1
           s2 == s1 \o l1
           s3 == s2 \o z2
           s4 == s3 \o l2
           s5 == s4 \o z3
           w == s5 \o f
<1>1. Accounts!IdentityData(id) = w
  BY Zenon DEF Accounts!IdentityData
<1>2. /\ Tag \in Seq(Int)
      /\ z1 \in Seq(Int) /\ Len(z1) = KeyCells + I64Cells
      /\ z2 \in Seq(Int) /\ Len(z2) = U32Cells
      /\ z3 \in Seq(Int) /\ Len(z3) = RecentOffset - Accounts!TrustOffset - U16Cells
  <2>1. KeyCells + I64Cells \in Nat /\ U32Cells \in Nat
    BY LayoutHolds
  <2>2. RecentOffset - Accounts!TrustOffset - U16Cells \in Nat
    BY LayoutHolds, OffsetsAre
  <2> QED
    BY <2>1, <2>2, LayoutHolds, ZerosAre, Zenon
<1>3. l1 \in Seq(Int) /\ Len(l1) = I64Cells /\ l2 \in Seq(Int) /\ Len(l2) = U16Cells
  <2> DEFINE v == id.verified
             t == id.trust
  <2>1. v \in Int /\ t \in Int /\ I64Cells \in Nat /\ U16Cells \in Nat
    BY LayoutHolds, IdentityHolds DEF Word
  <2> HIDE DEF v, t
  <2>2. /\ Accounts!Little(v, I64Cells) \in Seq(Int) /\ Len(Accounts!Little(v, I64Cells)) = I64Cells
        /\ Accounts!Little(t, U16Cells) \in Seq(Int) /\ Len(Accounts!Little(t, U16Cells)) = U16Cells
    BY <2>1, LittleIs
  <2> QED
    BY <2>2 DEF v, t
<1>4. /\ f \in Seq(Int) /\ Len(f) = Slots * I64Cells
      /\ \A i \in 1 .. Slots : PartAt(f, (i - 1) * I64Cells, r[i])
  <2> DEFINE l(i) == Accounts!Little(id.recent[i], I64Cells)
  <2>1. ASSUME NEW i \in 1 .. Slots PROVE l(i) \in Seq(Int) /\ Len(l(i)) = I64Cells
    <3>1. id.recent[i] \in Int
      BY IdentityHolds DEF Word
    <3> QED
      BY <3>1, LayoutHolds, LittleIs
  <2>2. Slots \in Nat /\ r = [i \in 1 .. Slots |-> l(i)]
    BY LayoutHolds
  <2> HIDE DEF l, r
  <2>3. r \in Seq(Seq(Int)) /\ Len(r) = Slots /\ \A i \in DOMAIN r : Len(r[i]) = I64Cells
    BY <2>1, <2>2
  <2> QED
    BY <2>3, LayoutHolds, PartOfFlat
<1>5. \A i \in 1 .. Slots : r[i] = Accounts!Little(id.recent[i], I64Cells)
  BY Zenon
<1> HIDE DEF z1, l1, z2, l2, z3, r, f
<1>6. s1 \in Seq(Int) /\ Len(s1) = Accounts!VerifiedOffset
  <2>1. s1 \in Seq(Int) /\ Len(s1) = Len(Tag) + Len(z1)
    BY <1>2, Joined
  <2> HIDE DEF s1
  <2> QED
    BY <1>2, <2>1, OffsetsAre, Zenon
<1>7. PartAt(s1, 0, Tag)
  BY <1>2, PartWhole, PartOfLeft
<1> HIDE DEF s1
<1>8. s2 \in Seq(Int) /\ Len(s2) = Accounts!VerifiedOffset + I64Cells
  BY <1>3, <1>6, Joined
<1>9. PartAt(s2, 0, Tag) /\ PartAt(s2, Accounts!VerifiedOffset, l1)
  BY <1>2, <1>3, <1>6, <1>7, PartOfLeft, PartOfRight
<1> HIDE DEF s2
<1>10. s3 \in Seq(Int) /\ Len(s3) = Accounts!TrustOffset
  BY <1>2, <1>8, Joined, OffsetsAre
<1>11. PartAt(s3, 0, Tag) /\ PartAt(s3, Accounts!VerifiedOffset, l1)
  BY <1>2, <1>3, <1>8, <1>9, PartOfLeft, OffsetsAre
<1> HIDE DEF s3
<1>12. s4 \in Seq(Int) /\ Len(s4) = Accounts!TrustOffset + U16Cells
  BY <1>3, <1>10, Joined
<1>13. /\ PartAt(s4, 0, Tag) /\ PartAt(s4, Accounts!VerifiedOffset, l1)
       /\ PartAt(s4, Accounts!TrustOffset, l2)
  BY <1>2, <1>3, <1>10, <1>11, PartOfLeft, PartOfRight, OffsetsAre
<1> HIDE DEF s4
<1>14. s5 \in Seq(Int) /\ Len(s5) = RecentOffset
  <2>1. s5 \in Seq(Int) /\ Len(s5) = Len(s4) + Len(z3)
    BY <1>2, <1>12, Joined
  <2> HIDE DEF s5
  <2> QED
    BY <1>2, <1>12, <2>1, OffsetsAre, LayoutHolds
<1>15. /\ PartAt(s5, 0, Tag) /\ PartAt(s5, Accounts!VerifiedOffset, l1)
       /\ PartAt(s5, Accounts!TrustOffset, l2)
  BY <1>2, <1>3, <1>12, <1>13, PartOfLeft, OffsetsAre
<1> HIDE DEF s5
<1>16. w \in Seq(Int) /\ Len(w) = RecentOffset + Slots * I64Cells
  <2>1. w \in Seq(Int) /\ Len(w) = Len(s5) + Len(f)
    BY <1>4, <1>14, Joined
  <2> QED
    BY <1>4, <1>14, <2>1, Zenon
<1>17. /\ PartAt(w, 0, Tag) /\ PartAt(w, Accounts!VerifiedOffset, l1)
       /\ PartAt(w, Accounts!TrustOffset, l2)
  BY <1>2, <1>3, <1>4, <1>14, <1>15, PartOfLeft, OffsetsAre
<1>18. ASSUME NEW i \in 1 .. Slots
       PROVE  PartAt(w, RecentOffset + (i - 1) * I64Cells, Accounts!Little(id.recent[i], I64Cells))
  <2> DEFINE from == (i - 1) * I64Cells
             l == Accounts!Little(id.recent[i], I64Cells)
  <2>1. from \in Nat
    <3>1. i - 1 \in Nat
      BY LayoutHolds
    <3> QED
      BY <3>1, LayoutHolds
  <2>2. l \in Seq(Int)
    <3>1. id.recent[i] \in Int
      BY IdentityHolds DEF Word
    <3> QED
      BY <3>1, LayoutHolds, LittleIs
  <2>3. PartAt(f, from, l)
    BY <1>4, <1>5
  <2> HIDE DEF from, l
  <2>4. PartAt(w, Len(s5) + from, l)
    BY <1>4, <1>14, <2>1, <2>2, <2>3, PartShifts
  <2> QED
    BY <1>14, <2>4 DEF from, l
<1> HIDE DEF w
<1> QED
  BY <1>1, <1>16, <1>17, <1>18 DEF l1, l2

\* The cells of a credential.
CredentialLength(c) ==
  (((1 + KeyCells) + U32Cells + Len(c.name)) + U32Cells) + Len(c.signers) * KeyCells

\* What a credential holds, and where it is laid out.
LEMMA CredentialHolds ==
  ASSUME NEW c \in Credentials
  PROVE  /\ c.name \in Seq(Int) /\ Len(c.name) \in Nat /\ Len(c.name) < Accounts!Span(U32Cells)
         /\ c.signers \in Seq(Seq(Int)) /\ Len(c.signers) \in Nat
         /\ Len(c.signers) < Accounts!Span(U32Cells)
         /\ \A i \in DOMAIN c.signers : Len(c.signers[i]) = KeyCells
<1>1. /\ c.name \in Seq(Int) /\ Len(c.name) < Accounts!Span(U32Cells)
      /\ c.signers \in Seq(Seq(Int)) /\ Len(c.signers) < Accounts!Span(U32Cells)
      /\ \A i \in DOMAIN c.signers : Len(c.signers[i]) = KeyCells
  BY ReadersAssumption, Zenon DEF Accounts!AccountsAssumption
<1> QED
  BY <1>1, LenProperties

LEMMA CredentialLaidOut ==
  ASSUME NEW c \in Credentials
  PROVE  /\ Accounts!CredentialData(c) \in Seq(Int)
         /\ Len(Accounts!CredentialData(c)) = CredentialLength(c)
         /\ PartAt(Accounts!CredentialData(c), 0, <<0>>)
         /\ PartAt(Accounts!CredentialData(c), 1 + KeyCells,
                   Accounts!Little(Len(c.name), U32Cells))
         /\ PartAt(Accounts!CredentialData(c), (1 + KeyCells) + U32Cells + Len(c.name),
                   Accounts!Little(Len(c.signers), U32Cells))
         /\ \A i \in 1 .. Len(c.signers) : PartAt(Accounts!CredentialData(c),
              (((1 + KeyCells) + U32Cells + Len(c.name)) + U32Cells) + (i - 1) * KeyCells,
              c.signers[i])
<1> DEFINE z == Accounts!Zeros(KeyCells)
           m == Len(c.name)
           n == Len(c.signers)
           l1 == Accounts!Little(m, U32Cells)
           l2 == Accounts!Little(n, U32Cells)
           f == Accounts!FlattenSeq(c.signers)
           d == <<0>>
           s1 == d \o z
           s2 == s1 \o l1
           s3 == s2 \o c.name
           s4 == s3 \o l2
           w == s4 \o f
           name == 1 + KeyCells
           count == name + U32Cells + m
           signers == count + U32Cells
<1>1. Accounts!CredentialData(c) = w
  BY Zenon DEF Accounts!CredentialData
<1>2. /\ d \in Seq(Int) /\ Len(d) = 1 /\ z \in Seq(Int) /\ Len(z) = KeyCells
      /\ c.name \in Seq(Int) /\ m \in Nat /\ n \in Nat
  <2>1. d \in Seq(Int) /\ Len(d) = 1
    OBVIOUS
  <2>2. z \in Seq(Int) /\ Len(z) = KeyCells
    BY LayoutHolds, ZerosAre
  <2> HIDE DEF d, z
  <2> QED
    BY <2>1, <2>2, CredentialHolds
<1> HIDE DEF m, n
<1>3. /\ l1 \in Seq(Int) /\ Len(l1) = U32Cells /\ l2 \in Seq(Int) /\ Len(l2) = U32Cells
      /\ U32Cells \in Nat /\ KeyCells \in Nat
  <2>1. m \in Int /\ n \in Int /\ U32Cells \in Nat /\ KeyCells \in Nat
    BY <1>2, LayoutHolds
  <2> QED
    BY <2>1, LittleIs
<1>4. /\ f \in Seq(Int) /\ Len(f) = n * KeyCells
      /\ \A i \in 1 .. n : PartAt(f, (i - 1) * KeyCells, c.signers[i])
  BY CredentialHolds, LayoutHolds, PartOfFlat DEF n
<1>5. \A i \in 1 .. n : c.signers[i] \in Seq(Int)
  BY CredentialHolds, ElementOfSeq DEF n
<1> HIDE DEF z, l1, l2, f, d
<1>6. s1 \in Seq(Int) /\ Len(s1) = name /\ name \in Nat
  <2>1. s1 \in Seq(Int) /\ Len(s1) = Len(d) + Len(z)
    BY <1>2, Joined
  <2> HIDE DEF s1
  <2> QED
    BY <1>2, <1>3, <2>1
<1>7. PartAt(s1, 0, d)
  BY <1>2, PartWhole, PartOfLeft
<1> HIDE DEF s1, name
<1>8. s2 \in Seq(Int) /\ Len(s2) = name + U32Cells
  <2>1. s2 \in Seq(Int) /\ Len(s2) = Len(s1) + Len(l1)
    BY <1>3, <1>6, Joined
  <2> HIDE DEF s2
  <2> QED
    BY <1>3, <1>6, <2>1, Zenon
<1>9. PartAt(s2, 0, d) /\ PartAt(s2, name, l1)
  BY <1>2, <1>3, <1>6, <1>7, PartOfLeft, PartOfRight
<1> HIDE DEF s2
<1>10. s3 \in Seq(Int) /\ Len(s3) = count /\ count \in Nat
  <2>1. s3 \in Seq(Int) /\ Len(s3) = Len(s2) + m
    BY <1>2, <1>8, Joined DEF m
  <2> HIDE DEF s3
  <2> QED
    BY <1>2, <1>3, <1>6, <1>8, <2>1
<1>11. PartAt(s3, 0, d) /\ PartAt(s3, name, l1)
  BY <1>2, <1>3, <1>6, <1>8, <1>9, PartOfLeft
<1> HIDE DEF s3, count
<1>12. s4 \in Seq(Int) /\ Len(s4) = signers
  <2>1. s4 \in Seq(Int) /\ Len(s4) = Len(s3) + Len(l2)
    BY <1>3, <1>10, Joined
  <2> HIDE DEF s4
  <2> QED
    BY <1>3, <1>10, <2>1, Zenon
<1>13. PartAt(s4, 0, d) /\ PartAt(s4, name, l1) /\ PartAt(s4, count, l2)
  BY <1>2, <1>3, <1>6, <1>10, <1>11, PartOfLeft, PartOfRight
<1> HIDE DEF s4, signers
<1>14. w \in Seq(Int) /\ Len(w) = signers + n * KeyCells
  <2>1. w \in Seq(Int) /\ Len(w) = Len(s4) + Len(f)
    BY <1>4, <1>12, Joined
  <2> QED
    BY <1>4, <1>12, <2>1, Zenon
<1>15. PartAt(w, 0, d) /\ PartAt(w, name, l1) /\ PartAt(w, count, l2)
  BY <1>2, <1>3, <1>4, <1>6, <1>10, <1>12, <1>13, PartOfLeft
<1>16. ASSUME NEW i \in 1 .. n PROVE PartAt(w, signers + (i - 1) * KeyCells, c.signers[i])
  <2> DEFINE from == (i - 1) * KeyCells
             t == c.signers[i]
  <2>1. from \in Nat
    <3>1. i - 1 \in Nat
      BY <1>2
    <3> QED
      BY <1>3, <3>1
  <2>2. t \in Seq(Int) /\ PartAt(f, from, t)
    BY <1>4, <1>5
  <2> HIDE DEF from, t
  <2>3. PartAt(w, Len(s4) + from, t)
    BY <1>4, <1>12, <2>1, <2>2, PartShifts
  <2> QED
    BY <1>12, <2>3 DEF from, t
<1> HIDE DEF w
<1> QED
  BY <1>1, <1>14, <1>15, <1>16 DEF CredentialLength, d, l1, l2, name, count, signers, m, n

\* A slice within the data is the part that was written there.
LEMMA SliceReads ==
  ASSUME data \in Seq(Int), NEW w \in Seq(Int), NEW t \in Seq(Int), NEW from \in Nat,
         NEW width, width = Len(t),
         Follows(data, w), PartAt(w, from, t), Accounts!Holds(from, width)
  PROVE  Accounts!Slice(from, width) = t
<1>1. from + width <= Len(data)
  BY DEF Accounts!Holds
<1>2. SubSeq(data, from + 1, from + width) = t
  BY <1>1, PartIsRead
<1> QED
  BY <1>2 DEF Accounts!Slice

\* What begins otherwise than with the tag is no identity.
LEMMA FirstCell ==
  ASSUME data \in Seq(Int), NEW w \in Seq(Int), NEW t \in Seq(Int), t # <<>>,
         Follows(data, w), PartAt(w, 0, t), Len(data) > 0
  PROVE  data[1] = t[1]
<1>1. Len(data) \in Nat /\ Len(w) \in Nat /\ Len(t) \in Nat /\ Len(t) # 0
  BY LenProperties, EmptySeq
<1>2. 0 + Len(t) <= Len(w) /\ \A i \in 1 .. Len(t) : w[0 + i] = t[i]
  BY DEF PartAt
<1>3. 1 \in 1 .. Len(t) /\ 0 + 1 = 1 /\ 1 \in 1 .. Len(data) /\ 1 <= Len(w)
  BY <1>1, <1>2
<1>4. w[1] = t[1]
  BY <1>2, <1>3
<1> QED
  BY <1>3, <1>4 DEF Follows

\* Of no timestamps none is kept.
LEMMA NothingIsPositive == Accounts!Positive(<<>>) = <<>>
<1> DEFINE e == <<>>
           kept[i \in 0 .. Len(e)] ==
             IF i = 0 THEN <<>>
             ELSE IF e[i] > 0 THEN Append(kept[i - 1], e[i]) ELSE kept[i - 1]
<1>1. Len(e) = 0
  BY EmptySeq
<1>2. Accounts!Positive(e) = kept[Len(e)]
  BY Zenon DEF Accounts!Positive
<1> HIDE DEF e
<1>3. kept = [i \in 0 .. Len(e) |-> IF i = 0 THEN <<>>
                ELSE IF e[i] > 0 THEN Append(kept[i - 1], e[i]) ELSE kept[i - 1]]
  <2>1. \E f : f = [i \in 0 .. Len(e) |-> IF i = 0 THEN <<>>
                ELSE IF e[i] > 0 THEN Append(f[i - 1], e[i]) ELSE f[i - 1]]
    <3>1. \A i \in 0 .. Len(e) : i = 0
      BY <1>1
    <3> DEFINE f == [i \in 0 .. Len(e) |-> <<>>]
    <3>2. f = [i \in 0 .. Len(e) |-> IF i = 0 THEN <<>>
                ELSE IF e[i] > 0 THEN Append(f[i - 1], e[i]) ELSE f[i - 1]]
      BY <3>1, Zenon
    <3> QED
      BY <3>2, Zenon
  <2> QED
    BY <2>1, Zenon DEF kept
<1> HIDE DEF kept
<1>4. kept[0] = <<>>
  BY <1>1, <1>3
<1> QED
  BY <1>1, <1>2, <1>4 DEF e

\* The slots that an account of n cells has room for.
Room(n) == {i \in 1 .. Slots : RecentOffset + i * I64Cells <= n}

LEMMA RoomIsAvailable ==
  ASSUME data \in Seq(Int)
  PROVE  /\ Accounts!AvailableSlots \in 0 .. Slots
         /\ Room(Len(data)) = 1 .. Accounts!AvailableSlots
         /\ Cardinality(Room(Len(data))) = Accounts!AvailableSlots
<1> DEFINE n == Len(data)
           q == Accounts!AvailableSlots
           b == I64Cells
           o == RecentOffset
<1>1. n \in Nat /\ b \in Nat \ {0} /\ o \in Nat /\ Slots \in Nat \ {0}
  BY LenProperties, LayoutHolds
<1>2. q = CASE o + Slots * b <= n -> Slots
            [] n <= o -> 0
            [] OTHER -> (n - o) \div b
  BY Zenon DEF Accounts!AvailableSlots, Accounts!Holds
<1> HIDE DEF n, q, b, o
<1>3. \A i, k \in Nat : i <= k => i * b <= k * b
  BY <1>1, Products
<1>4. \A i \in Nat : i * b \in Nat
  BY <1>1
<1>5. q \in 0 .. Slots /\ \A i \in 1 .. Slots : o + i * b <= n <=> i <= q
  <2>1. CASE o + Slots * b <= n
    <3>1. q = Slots
      <4>1. 1 * b <= Slots * b /\ 1 * b = b /\ Slots * b \in Nat
        BY <1>1, <1>3, <1>4
      <4>2. ~(n <= o)
        BY <1>1, <2>1, <4>1
      <4> QED
        BY <1>2, <2>1, <4>2, Zenon
    <3>2. ASSUME NEW i \in 1 .. Slots PROVE o + i * b <= n
      <4>1. i * b <= Slots * b /\ i * b \in Nat /\ Slots * b \in Nat
        BY <1>1, <1>3, <1>4
      <4> QED
        BY <1>1, <2>1, <4>1
    <3> QED
      BY <1>1, <3>1, <3>2
  <2>2. CASE ~(o + Slots * b <= n) /\ n <= o
    <3>1. q = 0
      BY <1>2, <2>2
    <3>2. ASSUME NEW i \in 1 .. Slots PROVE ~(o + i * b <= n)
      <4>1. 1 * b <= i * b /\ i * b \in Nat /\ 1 * b = b
        BY <1>1, <1>3, <1>4
      <4> QED
        BY <1>1, <2>2, <4>1
    <3>3. \A i \in 1 .. Slots : ~(i <= q)
      BY <1>1, <3>1
    <3>4. q \in 0 .. Slots
      BY <1>1, <3>1
    <3> QED
      BY <3>2, <3>3, <3>4, Zenon
  <2>3. CASE ~(o + Slots * b <= n) /\ ~(n <= o)
    <3> DEFINE x == n - o
               d == x \div b
    <3>1. q = d /\ x \in Nat /\ x < Slots * b /\ Slots * b \in Nat
      BY <1>1, <1>2, <1>4, <2>3
    <3>2. d \in Int /\ x = b * d + (x % b) /\ 0 <= x % b /\ x % b < b /\ x % b \in Int
      BY <1>1, <3>1, Divides
    <3> DEFINE e == x % b
    <3> HIDE DEF d, x, e
    <3>3. d \in Nat
      <4>1. d < 0 => b * d + b <= b * 0
        BY <1>1, <3>2, Ordered
      <4>2. b * d \in Int /\ b * 0 = 0
        BY <1>1, <3>2
      <4> QED
        BY <1>1, <3>1, <3>2, <4>1, <4>2 DEF e
    <3>4. \A i \in Nat : i * b <= x <=> i <= d
      <4>1. ASSUME NEW i \in Nat PROVE i * b <= x <=> i <= d
        <5>1. i <= d => b * i <= b * d
          BY <1>1, <3>3, Ordered
        <5>2. d < i => b * d + b <= b * i
          BY <1>1, <3>3, Ordered
        <5>3. b * i = i * b /\ b * i \in Nat /\ b * d \in Nat
          BY <1>1, <3>3
        <5> HIDE DEF n
        <5> QED
          BY <1>1, <3>1, <3>2, <3>3, <5>1, <5>2, <5>3 DEF e
      <4> QED
        BY <4>1
    <3>5. d <= Slots
      <4>1. ~(Slots <= d) \/ Slots * b <= x
        BY <1>1, <3>4
      <4> QED
        BY <1>1, <3>1, <3>3, <4>1
    <3>6. ASSUME NEW i \in 1 .. Slots PROVE o + i * b <= n <=> i <= q
      <4>1. i * b \in Nat /\ (i * b <= x <=> i <= d)
        BY <1>1, <1>4, <3>4
      <4>2. o + i * b <= n <=> i * b <= x
        BY <1>1, <4>1 DEF x
      <4> QED
        BY <3>1, <4>1, <4>2
    <3> QED
      BY <1>1, <3>1, <3>3, <3>5, <3>6
  <2> QED
    BY <2>1, <2>2, <2>3
<1>6. Room(n) = 1 .. q
  <2>1. q \in Nat /\ q <= Slots
    BY <1>1, <1>5
  <2>2. Room(n) = {i \in 1 .. Slots : i <= q}
    BY <1>5 DEF Room, b, o
  <2> QED
    BY <1>1, <2>1, <2>2
<1>7. Cardinality(1 .. q) = q
  BY <1>1, <1>5, FS_Interval
<1> QED
  BY <1>5, <1>6, <1>7 DEF n, q

\* An identity is read as it was written.
LEMMA IdentityReads ==
  ASSUME data \in Seq(Int), NEW id \in Identities, Follows(data, Accounts!IdentityData(id))
  PROVE  /\ Accounts!Signers = <<>>
         /\ Len(data) < Accounts!TrustOffset + U16Cells => Accounts!Identity = <<>>
         /\ ~(Len(data) < Accounts!TrustOffset + U16Cells) =>
              Accounts!Identity = <<[verified |-> id.verified, trust |-> id.trust]>>
<1> DEFINE w == Accounts!IdentityData(id)
           n == Len(data)
           v == id.verified
           t == id.trust
           l1 == Accounts!Little(v, I64Cells)
           l2 == Accounts!Little(t, U16Cells)
<1>1. /\ w \in Seq(Int) /\ PartAt(w, 0, Tag)
      /\ PartAt(w, Accounts!VerifiedOffset, l1) /\ PartAt(w, Accounts!TrustOffset, l2)
  BY IdentityLaidOut, Zenon
<1>2. /\ v \in Int /\ -Accounts!Span(I64Cells) <= 2 * v /\ 2 * v < Accounts!Span(I64Cells)
      /\ t \in Int /\ 0 <= t /\ t < Accounts!Span(U16Cells)
  BY IdentityHolds DEF Word
<1>3. I64Cells \in Nat /\ U16Cells \in Nat /\ U32Cells \in Nat /\ Tag \in Seq(Int) /\ Tag # <<>>
  BY LayoutHolds
<1> HIDE DEF v, t
<1>4. /\ l1 \in Seq(Int) /\ Len(l1) = I64Cells /\ l2 \in Seq(Int) /\ Len(l2) = U16Cells
      /\ Accounts!Signed(l1) = v /\ Accounts!Unsigned(l2) = t
  BY <1>2, <1>3, LittleIs, WordReads
<1>5. Follows(data, w)
  OBVIOUS
<1>6. n \in Nat
  BY LenProperties
<1> HIDE DEF w, l1, l2
<1>7. Accounts!Signers = <<>>
  <2>1. ASSUME n > 0, data[1] = 0 PROVE FALSE
    BY <1>1, <1>3, <1>5, <2>1, FirstCell, LayoutHolds
  <2> QED
    BY <2>1, Zenon DEF Accounts!Signers
<1>8. ASSUME n < Accounts!TrustOffset + U16Cells PROVE Accounts!Identity = <<>>
  <2>1. ~Accounts!Holds(Accounts!TrustOffset, U16Cells)
    BY <1>3, <1>6, <1>8, OffsetsAre DEF Accounts!Holds
  <2> QED
    BY <2>1, Zenon DEF Accounts!Identity
<1>9. ASSUME ~(n < Accounts!TrustOffset + U16Cells)
      PROVE  Accounts!Identity = <<[verified |-> v, trust |-> t]>>
  <2>1. /\ Accounts!Holds(Accounts!TrustOffset, U16Cells)
        /\ Accounts!Holds(Accounts!VerifiedOffset, I64Cells)
        /\ Accounts!Holds(0, Len(Tag))
    BY <1>3, <1>6, <1>9, OffsetsAre, LayoutHolds DEF Accounts!Holds
  <2>2. Accounts!Slice(0, Len(Tag)) = Tag
    BY <1>1, <1>3, <1>5, <2>1, SliceReads
  <2>3. Accounts!Slice(Accounts!VerifiedOffset, I64Cells) = l1
    BY <1>1, <1>4, <1>5, <2>1, OffsetsAre, SliceReads
  <2>4. Accounts!Slice(Accounts!TrustOffset, U16Cells) = l2
    BY <1>1, <1>4, <1>5, <2>1, OffsetsAre, SliceReads
  <2>5. Accounts!IsIdentity
    BY <2>1, <2>2, Zenon DEF Accounts!IsIdentity
  <2> QED
    BY <1>4, <2>1, <2>3, <2>4, <2>5, Zenon DEF Accounts!Identity
<1> QED
  BY <1>7, <1>8, <1>9 DEF v, t

\* The timestamps it has room for are read in their order.
LEMMA RecentReads ==
  ASSUME data \in Seq(Int), NEW id \in Identities, Follows(data, Accounts!IdentityData(id))
  PROVE  Accounts!RecentTimestamps
           = Accounts!Positive(SubSeq(id.recent, 1, Cardinality(Room(Len(data)))))
<1> DEFINE w == Accounts!IdentityData(id)
           n == Len(data)
           q == Accounts!AvailableSlots
           at(i) == RecentOffset + (i - 1) * I64Cells
           read(i) == Accounts!Signed(Accounts!Slice(at(i), I64Cells))
           s == SubSeq(id.recent, 1, q)
<1>1. /\ w \in Seq(Int) /\ PartAt(w, 0, Tag)
      /\ \A i \in 1 .. Slots : PartAt(w, at(i), Accounts!Little(id.recent[i], I64Cells))
  BY IdentityLaidOut, Zenon
<1>2. Follows(data, w)
  OBVIOUS
<1>3. /\ n \in Nat /\ q \in 0 .. Slots /\ Slots \in Nat /\ I64Cells \in Nat
      /\ RecentOffset \in Nat /\ Tag \in Seq(Int) /\ Len(Tag) \in Nat /\ Len(Tag) > 0
  BY LenProperties, LayoutHolds, RoomIsAvailable, OffsetsAre
<1>4. Cardinality(Room(n)) = q /\ Room(n) = 1 .. q
  BY RoomIsAvailable
<1>5. id.recent \in Seq(Int) /\ Len(id.recent) = Slots
  BY IdentityHolds
<1> HIDE DEF w, q
<1>6. s = [i \in 1 .. q |-> id.recent[i]]
  <2>1. s = [i \in 1 .. (q - 1) + 1 |-> id.recent[i + 1 - 1]]
    BY <1>3, <1>5
  <2>2. (q - 1) + 1 = q /\ \A i \in 1 .. q : i + 1 - 1 = i
    BY <1>3
  <2> QED
    BY <2>1, <2>2
<1>7. CASE Accounts!Holds(0, Len(Tag))
  <2>1. Accounts!IsIdentity
    <3>1. Accounts!Slice(0, Len(Tag)) = Tag
      BY <1>1, <1>2, <1>3, <1>7, SliceReads
    <3> QED
      BY <1>7, <3>1, Zenon DEF Accounts!IsIdentity
  <2>2. ASSUME NEW i \in 1 .. q PROVE read(i) = id.recent[i]
    <3> DEFINE l == Accounts!Little(id.recent[i], I64Cells)
               from == at(i)
    <3>1. i \in Room(n) /\ i \in 1 .. Slots /\ i - 1 \in Nat /\ i \in Nat
      BY <1>3, <1>4
    <3>2. Word(id.recent[i])
      BY <3>1, IdentityHolds
    <3>3. l \in Seq(Int) /\ Len(l) = I64Cells /\ Accounts!Signed(l) = id.recent[i]
      <4>1. /\ id.recent[i] \in Int /\ -Accounts!Span(I64Cells) <= 2 * id.recent[i]
            /\ 2 * id.recent[i] < Accounts!Span(I64Cells)
        BY <3>2 DEF Word
      <4> QED
        BY <1>3, <4>1, LittleIs, WordReads
    <3>4. from \in Nat /\ Accounts!Holds(from, I64Cells)
      <4> DEFINE x == (i - 1) * I64Cells
                 y == i * I64Cells
      <4>1. x \in Nat /\ x + I64Cells = y /\ y \in Nat
        BY <1>3, <3>1
      <4>2. RecentOffset + y <= n
        BY <3>1 DEF Room
      <4>3. from = RecentOffset + x
        OBVIOUS
      <4> HIDE DEF x, y, from
      <4>4. from \in Nat /\ from + I64Cells <= n
        BY <1>3, <4>1, <4>2, <4>3
      <4> QED
        BY <4>4 DEF Accounts!Holds
    <3>5. PartAt(w, from, l)
      BY <1>1, <3>1
    <3> HIDE DEF from, l
    <3>6. Accounts!Slice(from, I64Cells) = l
      BY <1>1, <1>2, <3>3, <3>4, <3>5, SliceReads
    <3> QED
      BY <3>3, <3>6 DEF from
  <2>3. [i \in 1 .. q |-> read(i)] = s
    <3> HIDE DEF s, read
    <3> QED
      BY <1>6, <2>2
  <2>4. Accounts!RecentTimestamps = Accounts!Positive([i \in 1 .. q |-> read(i)])
    BY <2>1, Zenon DEF Accounts!RecentTimestamps, q
  <2> HIDE DEF read, s
  <2> QED
    BY <1>4, <2>3, <2>4, Zenon DEF s
<1>8. CASE ~Accounts!Holds(0, Len(Tag))
  <2>1. ~Accounts!IsIdentity
    BY <1>8, Zenon DEF Accounts!IsIdentity
  <2>2. Accounts!RecentTimestamps = <<>>
    BY <2>1, Zenon DEF Accounts!RecentTimestamps
  <2>3. q = 0
    <3>1. n < Len(Tag)
      BY <1>3, <1>8 DEF Accounts!Holds
    <3>2. Len(Tag) <= RecentOffset
      BY <1>3, OffsetsAre, LayoutHolds
    <3>3. ASSUME q # 0 PROVE FALSE
      <4>1. 1 \in Room(n)
        BY <1>3, <1>4, <3>3
      <4>2. RecentOffset + 1 * I64Cells <= n /\ 1 * I64Cells = I64Cells
        BY <1>3, <4>1 DEF Room
      <4> QED
        BY <1>3, <3>1, <3>2, <4>2
    <3> QED
      BY <3>3
  <2>4. s = <<>>
    <3> HIDE DEF s
    <3>1. \A i \in 1 .. q : FALSE
      BY <2>3
    <3> QED
      BY <1>6, <2>3
  <2> HIDE DEF s
  <2> QED
    BY <1>4, <2>2, <2>4, NothingIsPositive, Zenon DEF s
<1> QED
  BY <1>7, <1>8

\* A credential is read as it was written, or not at all.
LEMMA CredentialReads ==
  ASSUME data \in Seq(Int), NEW c \in Credentials, Follows(data, Accounts!CredentialData(c))
  PROVE  /\ Accounts!Identity = <<>> /\ Accounts!RecentTimestamps = <<>>
         /\ Len(data) >= Len(Accounts!CredentialData(c)) => Accounts!Signers = <<c.signers>>
         /\ ~(Len(data) >= Len(Accounts!CredentialData(c))) => Accounts!Signers = <<>>
<1> DEFINE w == Accounts!CredentialData(c)
           n == Len(data)
           m == Len(c.name)
           k == Len(c.signers)
           l1 == Accounts!Little(m, U32Cells)
           l2 == Accounts!Little(k, U32Cells)
           name == 1 + KeyCells
           count == name + U32Cells + m
           signers == count + U32Cells
<1>1. /\ w \in Seq(Int) /\ Len(w) = CredentialLength(c)
      /\ PartAt(w, 0, <<0>>) /\ PartAt(w, name, l1) /\ PartAt(w, count, l2)
      /\ \A i \in 1 .. k : PartAt(w, signers + (i - 1) * KeyCells, c.signers[i])
  BY CredentialLaidOut, Zenon
<1>2. Len(w) = signers + k * KeyCells
  BY <1>1 DEF CredentialLength
<1>3. /\ m \in Nat /\ m < Accounts!Span(U32Cells) /\ k \in Nat /\ k < Accounts!Span(U32Cells)
      /\ U32Cells \in Nat /\ KeyCells \in Nat /\ n \in Nat
      /\ k * KeyCells \in Nat
  <2>1. /\ m \in Nat /\ m < Accounts!Span(U32Cells) /\ k \in Nat /\ k < Accounts!Span(U32Cells)
        /\ U32Cells \in Nat /\ KeyCells \in Nat /\ n \in Nat
    BY CredentialHolds, LayoutHolds, LenProperties
  <2> HIDE DEF k
  <2> QED
    BY <2>1
<1>4. /\ c.signers \in Seq(Seq(Int)) /\ DOMAIN c.signers = 1 .. k
      /\ \A i \in 1 .. k : c.signers[i] \in Seq(Int) /\ Len(c.signers[i]) = KeyCells
  BY CredentialHolds, LenProperties, ElementOfSeq
<1>5. Follows(data, w)
  OBVIOUS
<1>6. <<0>> \in Seq(Int) /\ <<0>> # <<>> /\ <<0>>[1] = 0
  OBVIOUS
<1> HIDE DEF w, m, k
<1>7. /\ l1 \in Seq(Int) /\ Len(l1) = U32Cells /\ Accounts!Unsigned(l1) = m
      /\ l2 \in Seq(Int) /\ Len(l2) = U32Cells /\ Accounts!Unsigned(l2) = k
  <2>1. m \in Int /\ 0 <= m /\ k \in Int /\ 0 <= k
    BY <1>3
  <2> QED
    BY <1>3, <2>1, LittleIs, WordReads
<1> HIDE DEF l1, l2
<1>8. n > 0 => data[1] = 0
  <2> DEFINE t == <<0>>
  <2>1. t \in Seq(Int) /\ t # <<>> /\ t[1] = 0 /\ PartAt(w, 0, t)
    BY <1>1, <1>6
  <2> HIDE DEF t
  <2> QED
    BY <1>1, <1>5, <2>1, FirstCell
<1>9. ~Accounts!IsIdentity
  <2>1. ASSUME Accounts!Holds(0, Len(Tag)), Accounts!Slice(0, Len(Tag)) = Tag PROVE FALSE
    <3>1. Len(Tag) \in Nat /\ Len(Tag) > 0 /\ Tag[1] # 0
      BY LayoutHolds, OffsetsAre
    <3>2. Len(Tag) <= n
      BY <1>3, <2>1, <3>1 DEF Accounts!Holds
    <3>3. SubSeq(data, 1, Len(Tag)) = Tag
      <4>1. 0 + 1 = 1 /\ 0 + Len(Tag) = Len(Tag)
        BY <3>1
      <4> QED
        BY <2>1, <4>1 DEF Accounts!Slice
    <3>4. SubSeq(data, 1, Len(Tag))[1] = data[1]
      BY <1>3, <3>1, <3>2
    <3> QED
      BY <1>3, <1>8, <3>1, <3>2, <3>3, <3>4
  <2> QED
    BY <2>1, Zenon DEF Accounts!IsIdentity
<1>10. Accounts!Identity = <<>> /\ Accounts!RecentTimestamps = <<>>
  BY <1>9, Zenon DEF Accounts!Identity, Accounts!RecentTimestamps
<1>11. Accounts!NameOffset = name /\ name \in Nat
  BY <1>3 DEF Accounts!NameOffset
<1>12. ASSUME Accounts!Holds(name, U32Cells)
       PROVE  Accounts!CountOffset = count /\ Accounts!SignersOffset = signers
  <2>1. Accounts!Slice(name, U32Cells) = l1
    BY <1>1, <1>5, <1>7, <1>11, <1>12, SliceReads
  <2>2. Accounts!CountOffset = count
    BY <1>7, <1>11, <2>1 DEF Accounts!CountOffset
  <2> QED
    BY <2>2 DEF Accounts!SignersOffset
<1>13. ASSUME Accounts!Holds(name, U32Cells), Accounts!Holds(count, U32Cells)
       PROVE  Accounts!SignerCount = k
  <2>1. count \in Nat
    BY <1>3
  <2> HIDE DEF count
  <2>2. Accounts!Slice(count, U32Cells) = l2
    BY <1>1, <1>5, <1>7, <1>13, <2>1, SliceReads
  <2>3. Accounts!CountOffset = count
    BY <1>12, <1>13
  <2> QED
    BY <1>7, <2>2, <2>3 DEF Accounts!SignerCount
<1> DEFINE reads == [i \in 1 .. k |-> Accounts!Slice(signers + (i - 1) * KeyCells, KeyCells)]
<1>14. ASSUME n >= Len(w) PROVE reads = c.signers
  <2> DEFINE key(i) == Accounts!Slice(signers + (i - 1) * KeyCells, KeyCells)
  <2>1. ASSUME NEW i \in 1 .. k PROVE key(i) = c.signers[i]
    <3> DEFINE from == signers + (i - 1) * KeyCells
               t == c.signers[i]
    <3>1. i - 1 \in Nat /\ i \in Nat /\ i <= k
      BY <1>3
    <3>2. /\ (i - 1) * KeyCells \in Nat /\ (i - 1) * KeyCells + KeyCells = i * KeyCells
          /\ i * KeyCells <= k * KeyCells /\ i * KeyCells \in Nat
      <4>1. i * KeyCells <= k * KeyCells
        BY <1>3, <3>1, Products
      <4> QED
        BY <1>3, <3>1, <4>1
    <3>3. from \in Nat /\ from + KeyCells <= n
      <4> DEFINE x == (i - 1) * KeyCells
                 y == i * KeyCells
                 z == k * KeyCells
      <4>1. x \in Nat /\ x + KeyCells = y /\ y <= z /\ y \in Nat /\ z \in Nat
        BY <1>3, <3>2
      <4>2. signers \in Nat /\ signers + z <= n /\ from = signers + x
        <5>1. signers \in Nat
          BY <1>3
        <5>2. signers + z = Len(w) /\ Len(w) <= n
          BY <1>2, <1>3, <1>14, <4>1, <5>1
        <5> QED
          BY <5>1, <5>2
      <4> HIDE DEF x, y, z, from, signers
      <4> QED
        BY <1>3, <4>1, <4>2
    <3>4. t \in Seq(Int) /\ Len(t) = KeyCells /\ PartAt(w, from, t)
      BY <1>1, <1>4
    <3> HIDE DEF from, t
    <3>5. Accounts!Slice(from, KeyCells) = t
      BY <1>1, <1>5, <3>3, <3>4, SliceReads DEF Accounts!Holds
    <3> QED
      BY <3>5 DEF from, t
  <2>2. c.signers = [i \in 1 .. k |-> c.signers[i]]
    <3> DEFINE t == c.signers
    <3>1. t \in Seq(Seq(Int)) /\ DOMAIN t = 1 .. k
      BY <1>4
    <3> HIDE DEF t
    <3>2. t = [i \in DOMAIN t |-> t[i]]
      BY <3>1
    <3>3. t = [i \in 1 .. k |-> t[i]]
      BY <3>1, <3>2
    <3> QED
      BY <3>3, Zenon DEF t
  <2>3. reads = [i \in 1 .. k |-> key(i)]
    OBVIOUS
  <2> HIDE DEF key, reads
  <2> QED
    BY <2>1, <2>2, <2>3
<1>15. ASSUME n >= Len(w) PROVE Accounts!Signers = <<c.signers>>
  <2>1. /\ n > 0 /\ Accounts!Holds(name, U32Cells) /\ Accounts!Holds(count, U32Cells)
        /\ Accounts!Holds(signers, k * KeyCells)
    BY <1>2, <1>3, <1>15 DEF Accounts!Holds
  <2>2. /\ Accounts!CountOffset = count /\ Accounts!SignersOffset = signers
        /\ Accounts!SignerCount = k
    BY <1>12, <1>13, <2>1
  <2> HIDE DEF name, count, signers
  <2>3. Accounts!Signers = <<reads>>
    BY <1>8, <1>11, <2>1, <2>2, Zenon DEF Accounts!Signers
  <2> QED
    BY <1>14, <1>15, <2>3
<1>16. ASSUME ~(n >= Len(w)) PROVE Accounts!Signers = <<>>
  <2>1. ASSUME /\ Accounts!Holds(name, U32Cells) /\ Accounts!Holds(count, U32Cells)
               /\ Accounts!Holds(signers, k * KeyCells)
        PROVE  FALSE
    BY <1>2, <1>3, <1>16, <2>1 DEF Accounts!Holds
  <2> HIDE DEF name, count, signers
  <2>2. ASSUME /\ Accounts!Holds(Accounts!NameOffset, U32Cells)
               /\ Accounts!Holds(Accounts!CountOffset, U32Cells)
               /\ Accounts!Holds(Accounts!SignersOffset, Accounts!SignerCount * KeyCells)
        PROVE  FALSE
    BY <1>11, <1>12, <1>13, <2>1, <2>2
  <2> QED
    BY <2>2, Zenon DEF Accounts!Signers
<1> QED
  BY <1>10, <1>15, <1>16 DEF w

\* This instance's Cardinality, too, is the library's.
LEMMA SameCount == \A S : Accounts!Cardinality(S) = Cardinality(S)
BY Zenon DEF Accounts!Cardinality, Cardinality

\* What is read follows what was written as far as it goes.
AccountInv ==
  account # Accounts!NoAccount =>
    /\ data \in Seq(Int) /\ Follows(data, Accounts!Written)
    /\ \/ account[1].kind = "identity" /\ account[1].content \in Identities
       \/ account[1].kind = "credential" /\ account[1].content \in Credentials

LEMMA AccountInvInit == Accounts!Init => AccountInv
BY DEF Accounts!Init, AccountInv

LEMMA WrittenTyped ==
  ASSUME AccountInv, account # Accounts!NoAccount
  PROVE  Accounts!Written \in Seq(Int)
<1>1. CASE account[1].kind = "identity" /\ account[1].content \in Identities
  BY <1>1, IdentityLaidOut, Zenon DEF Accounts!Written
<1>2. CASE account[1].kind = "credential" /\ account[1].content \in Credentials
  BY <1>2, CredentialLaidOut, Zenon DEF Accounts!Written
<1> QED
  BY <1>1, <1>2, Zenon DEF AccountInv

LEMMA FollowsItself == \A w : Follows(w, w)
BY DEF Follows

LEMMA AccountInvNext ==
  ASSUME AccountInv, Accounts!Next
  PROVE  AccountInv'
<1>1. ASSUME Accounts!Write PROVE AccountInv'
  <2>1. ASSUME NEW id \in Identities, account' = <<[kind |-> "identity", content |-> id]>>,
               data' = Accounts!IdentityData(id)
        PROVE  AccountInv'
    <3>1. account'[1].kind = "identity" /\ account'[1].content = id
      BY <2>1
    <3>2. Accounts!Written' = Accounts!IdentityData(id)
      BY <3>1, Zenon DEF Accounts!Written
    <3>3. data' \in Seq(Int) /\ Follows(data', Accounts!Written')
      BY <2>1, <3>2, IdentityLaidOut, FollowsItself, Zenon
    <3> QED
      BY <3>1, <3>3 DEF AccountInv, Follows
  <2>2. ASSUME NEW c \in Credentials, account' = <<[kind |-> "credential", content |-> c]>>,
               data' = Accounts!CredentialData(c)
        PROVE  AccountInv'
    <3>1. account'[1].kind = "credential" /\ account'[1].content = c
      BY <2>2
    <3>2. Accounts!Written' = Accounts!CredentialData(c)
      BY <3>1, Zenon DEF Accounts!Written
    <3>3. data' \in Seq(Int) /\ Follows(data', Accounts!Written')
      BY <2>2, <3>2, CredentialLaidOut, FollowsItself, Zenon
    <3> QED
      BY <3>1, <3>3 DEF AccountInv, Follows
  <2> QED
    BY <1>1, <2>1, <2>2, Zenon DEF Accounts!Write
<1>2. ASSUME Accounts!Shorten PROVE AccountInv'
  <2>1. account # Accounts!NoAccount /\ account' = account
    BY <1>2 DEF Accounts!Shorten
  <2>2. PICK n \in 0 .. Len(data) - 1 : data' = SubSeq(data, 1, n)
    BY <1>2, Zenon DEF Accounts!Shorten
  <2>3. data \in Seq(Int) /\ Follows(data, Accounts!Written)
    BY <2>1 DEF AccountInv
  <2>4. Accounts!Written' = Accounts!Written
    BY <2>1, Zenon DEF Accounts!Written
  <2>5. /\ data' \in Seq(Int) /\ Len(data') = n /\ n \in Nat /\ n <= Len(data)
        /\ \A i \in 1 .. n : data'[i] = data[i] /\ i \in 1 .. Len(data)
    BY <2>2, <2>3, LenProperties
  <2>6. Follows(data', Accounts!Written')
    BY <2>3, <2>4, <2>5 DEF Follows
  <2> QED
    BY <2>1, <2>5, <2>6 DEF AccountInv, Follows
<1>3. ASSUME Accounts!Lengthen PROVE AccountInv'
  <2>1. /\ account # Accounts!NoAccount /\ account' = account /\ data' = Append(data, 1)
        /\ Len(data) \in Len(Accounts!Written) .. Len(Accounts!Written) + 1
    BY <1>3 DEF Accounts!Lengthen
  <2>2. data \in Seq(Int) /\ Follows(data, Accounts!Written)
    BY <2>1 DEF AccountInv
  <2>3. Accounts!Written' = Accounts!Written /\ Accounts!Written \in Seq(Int)
    BY <2>1, WrittenTyped, Zenon DEF Accounts!Written
  <2>4. /\ data' \in Seq(Int) /\ Len(data') = Len(data) + 1 /\ Len(data) \in Nat
        /\ \A i \in 1 .. Len(data) : data'[i] = data[i]
    BY <2>1, <2>2
  <2>5. Follows(data', Accounts!Written')
    <3>1. Len(Accounts!Written) \in Nat /\ Len(Accounts!Written) <= Len(data)
      BY <2>1, <2>3, <2>4, LenProperties
    <3> DEFINE w == Accounts!Written
               d == data'
               e == data
    <3>2. Accounts!Written' = w /\ Follows(e, w)
      BY <2>2, <2>3
    <3>3. /\ Len(d) = Len(e) + 1 /\ Len(e) \in Nat /\ Len(w) \in Nat /\ Len(w) <= Len(e)
          /\ \A i \in 1 .. Len(e) : d[i] = e[i]
      BY <2>4, <3>1
    <3> HIDE DEF w, d, e
    <3>4. Follows(d, w)
      BY <3>2, <3>3 DEF Follows
    <3> QED
      BY <3>2, <3>4, Zenon DEF d
  <2> QED
    BY <2>1, <2>4, <2>5 DEF AccountInv, Follows
<1>4. ASSUME Accounts!Close PROVE AccountInv'
  BY <1>4 DEF Accounts!Close, AccountInv
<1> QED
  BY <1>1, <1>2, <1>3, <1>4 DEF Accounts!Next

LEMMA AccountInvKept ==
  ASSUME AccountInv, [ReadersNext]_readersVars
  PROVE  AccountInv'
<1>1. UNCHANGED accountVars => AccountInv'
  BY DEF accountVars, AccountInv, Follows, Accounts!Written
<1>2. UNCHANGED accountVars \/ Accounts!Next
  BY DEF ReadersNext, BalanceMoves, ReputationMoves, MonitorMoves, pureVars, readersVars
<1> QED
  BY <1>1, <1>2, AccountInvNext

LEMMA AccountInvSuffices == AccountInv => AccountsReadBack
<1> SUFFICES ASSUME AccountInv, account # Accounts!NoAccount
             PROVE  AccountsReadBack
  BY DEF AccountsReadBack, Accounts!AccountsReadBack
<1> DEFINE content == account[1].content
           kind == account[1].kind
           room == {i \in 1 .. Slots : Accounts!Holds(RecentOffset, i * I64Cells)}
<1>1. data \in Seq(Int) /\ Follows(data, Accounts!Written)
  BY DEF AccountInv
<1>2. Accounts!Cardinality(room) = Cardinality(Room(Len(data)))
  <2>1. room = Room(Len(data))
    BY Zenon DEF Room, Accounts!Holds
  <2> QED
    BY <2>1, SameCount, Zenon
<1>3. CASE kind = "identity" /\ content \in Identities
  <2>1. Accounts!Written = Accounts!IdentityData(content)
    BY <1>3, Zenon DEF Accounts!Written
  <2>2. /\ Accounts!Signers = <<>>
        /\ Len(data) < Accounts!TrustOffset + U16Cells => Accounts!Identity = <<>>
        /\ ~(Len(data) < Accounts!TrustOffset + U16Cells) =>
             Accounts!Identity = <<[verified |-> content.verified, trust |-> content.trust]>>
    BY <1>1, <1>3, <2>1, IdentityReads
  <2>3. Accounts!RecentTimestamps
          = Accounts!Positive(SubSeq(content.recent, 1, Accounts!Cardinality(room)))
    BY <1>1, <1>2, <1>3, <2>1, RecentReads
  <2> HIDE DEF content, room
  <2> QED
    BY <1>3, <2>2, <2>3 DEF AccountsReadBack, Accounts!AccountsReadBack, content, room
<1>4. CASE kind = "credential" /\ content \in Credentials
  <2>1. Accounts!Written = Accounts!CredentialData(content)
    BY <1>4 DEF Accounts!Written
  <2>2. /\ Accounts!Identity = <<>> /\ Accounts!RecentTimestamps = <<>>
        /\ Len(data) >= Len(Accounts!Written) => Accounts!Signers = <<content.signers>>
        /\ ~(Len(data) >= Len(Accounts!Written)) => Accounts!Signers = <<>>
    BY <1>1, <1>4, <2>1, CredentialReads
  <2> QED
    BY <1>4, <2>2 DEF AccountsReadBack, Accounts!AccountsReadBack
<1> QED
  BY <1>3, <1>4 DEF AccountInv

------------------------------------------------------------------------------
(***************************************************************************)
(* The composition.                                                        *)
(***************************************************************************)
LEMMA ReadersInvNext ==
  ASSUME BalanceInv, ReputationInv, [ReadersNext]_readersVars
  PROVE  BalanceInv' /\ ReputationInv'
<1> DEFINE BalanceStays == UNCHANGED <<second, cache, readers>>
<1> DEFINE ReputationStays == UNCHANGED <<observing, free, asks>>
<1>1. BalanceStays => BalanceInv'
  BY DEF BalanceInv, Balance!TypeOK, Balance!BalanceIsRecent
<1>2. ReputationStays => ReputationInv'
  BY DEF ReputationInv, ReadingOf, Reputation!RiskIsOfWhatWasRead
<1>3. CASE BalanceMoves(Balance!Next)
  BY <1>2, <1>3, BalanceInvNext DEF BalanceMoves, reputationVars
<1>4. CASE ReputationMoves(Reputation!Next)
  BY <1>1, <1>4, ReputationInvNext DEF ReputationMoves, cacheVars
<1>5. CASE BalanceStays /\ ReputationStays
  BY <1>1, <1>2, <1>5
<1>6. QED
  BY <1>3, <1>4, <1>5 DEF ReadersNext, MonitorMoves, readersVars, cacheVars, reputationVars

\* A balance that is told was read within the TTL of the question, for any TTL
\* and however readers of an expired cache overtake each other
\* (status/handler.rs).
THEOREM BalanceStaysRecent == ReadersSpec => []BalanceIsRecent
<1>1. ReadersInit => BalanceInv /\ ReputationInv
  BY BalanceInvInit, ReputationInvInit DEF ReadersInit
<1>2. BalanceInv => BalanceIsRecent
  BY DEF BalanceInv, BalanceIsRecent
<1>3. QED
  BY <1>1, <1>2, ReadersInvNext, PTL DEF ReadersSpec

\* A risk other than the middle is that of a balance and an activity that were
\* both read, with the penalty only for a parent and an identity that were, too,
\* whichever reads failed and whenever the timeout fell (reputation/mod.rs).
THEOREM RiskIsThatOfReads == ReadersSpec => []RiskIsOfWhatWasRead
<1>1. ReadersInit => BalanceInv /\ ReputationInv
  BY BalanceInvInit, ReputationInvInit DEF ReadersInit
<1>2. ReputationInv => RiskIsOfWhatWasRead
  BY DEF ReputationInv, RiskIsOfWhatWasRead
<1>3. QED
  BY <1>1, <1>2, ReadersInvNext, PTL DEF ReadersSpec

\* An authorized request is, in every input of a verdict, the one its wallet
\* signed, under the nonce it signed, whatever captures there are: no two of
\* them have one digest (validation/authorization.rs).
THEOREM SignedRequestsRun == ReadersSpec => []SignedIsWhatRuns
<1>1. ReadersInit => SigningInv
  BY SigningInvInit DEF ReadersInit
<1>2. QED
  BY <1>1, SigningInvKept, SigningInvSuffices, PTL DEF ReadersSpec

\* A pass left unfinished would not have lowered the residual, for any curve,
\* anchors, windows, caps and outlines in the envelope: the alignment that is
\* reported is the least median of all passes, it costs no less than being near
\* the curve, and no anchor beats the best one ("exact for both parities, not a
\* heuristic", challenge/curve_trace.rs).
THEOREM AbandoningIsExact == ReadersSpec => []AbandonIsExact
<1>1. ReadersInit => TraceInv
  BY TraceInvInit DEF ReadersInit
<1>2. QED
  BY <1>1, TraceInvKept, TraceInvSuffices, PTL DEF ReadersSpec

\* What is read of an account is what its program wrote, or nothing, for any
\* base and widths of the cells, any identities and credentials that fit them,
\* and wherever the account was cut or how far it was allocated beyond its
\* content (attestation/sas.rs, validation/handler.rs).
THEOREM AccountsAreReadBack == ReadersSpec => []AccountsReadBack
<1>1. ReadersInit => AccountInv
  BY AccountInvInit DEF ReadersInit
<1>2. QED
  BY <1>1, AccountInvKept, AccountInvSuffices, PTL DEF ReadersSpec
==============================================================================
