----------------------- MODULE ValidationPipelineProofs -----------------------
(***************************************************************************)
(* Theorems about the validation pipeline, for any finite set of requests, *)
(* any wallets, keys, quotas, cap and window.                              *)
(***************************************************************************)
EXTENDS ValidationPipeline, FiniteSetTheorems, TLAPS

------------------------------------------------------------------------------
(***************************************************************************)
(* Every operation of the shared stores keeps the types of its store.      *)
(***************************************************************************)

\* The operations on a wallet's counter, and the sweep of the counters.
LEMMA WalletsType ==
  ASSUME Wallets!TypeOK,
         \/ \E w \in Wallet : Wallets!CheckAndRecord(w) \/ Wallets!Refund(w)
         \/ Wallets!EvictExpired
         \/ Wallets!Pass
         \/ UNCHANGED walletVars
  PROVE  Wallets!TypeOK'
<1> USE StoreAssumption DEF Wallets!TypeOK, Wallets!WindowAssumption
<1>1. ASSUME NEW w \in Wallet, Wallets!CheckAndRecord(w)
      PROVE  Wallets!TypeOK'
  BY <1>1 DEF Wallets!CheckAndRecord, Wallets!Admits, Wallets!Consumed
<1>2. ASSUME NEW w \in Wallet, Wallets!Refund(w)
      PROVE  Wallets!TypeOK'
  BY <1>2 DEF Wallets!Refund
<1>3. CASE Wallets!EvictExpired
  BY <1>3 DEF Wallets!EvictExpired
<1>4. CASE Wallets!Pass
  BY <1>4 DEF Wallets!Pass
<1>5. CASE UNCHANGED walletVars
  BY <1>5 DEF walletVars
<1>6. QED
  BY <1>1, <1>2, <1>3, <1>4, <1>5

\* The operations on a key's quota.
LEMMA QuotasType ==
  ASSUME Quotas!TypeOK,
         \/ \E k \in Key : \/ Quotas!AutoRegister(k) \/ Quotas!Deduct(k)
                           \/ Quotas!RefundQuota(k)
         \/ UNCHANGED quotaVars
  PROVE  Quotas!TypeOK'
<1> USE StoreAssumption DEF Quotas!TypeOK, Quotas!QuotaAssumption
<1>1. ASSUME NEW k \in Key, Quotas!AutoRegister(k)
      PROVE  Quotas!TypeOK'
  BY <1>1 DEF Quotas!AutoRegister
<1>2. ASSUME NEW k \in Key, Quotas!Deduct(k)
      PROVE  Quotas!TypeOK'
  BY <1>2 DEF Quotas!Deduct
<1>3. ASSUME NEW k \in Key, Quotas!RefundQuota(k)
      PROVE  Quotas!TypeOK'
  BY <1>3 DEF Quotas!RefundQuota
<1>4. CASE UNCHANGED quotaVars
  BY <1>4 DEF quotaVars
<1>5. QED
  BY <1>1, <1>2, <1>3, <1>4

\* The operations of the challenge registry.
LEMMA ChallengesType ==
  ASSUME Challenges!TypeOK,
         \/ \E w \in Wallet, n \in Nonce : Challenges!Issue(w, n)
         \/ \E w \in Wallet, n \in Nonce \cup {NoNonce}, p \in Challenges!Path :
              Challenges!Consume(w, n, p)
         \/ Challenges!EvictStale
         \/ Challenges!Pass
         \/ UNCHANGED challengeVars
  PROVE  Challenges!TypeOK'
<1> USE StoreAssumption DEF Challenges!TypeOK
<1>1. ASSUME NEW w \in Wallet, NEW n \in Nonce, Challenges!Issue(w, n)
      PROVE  Challenges!TypeOK'
  <2>1. Challenges!Kept(w) \cup {n} \in SUBSET Nonce
    BY DEF Challenges!Kept
  <2>2. age' \in [Nonce -> 0 .. Ttl + 1]
    BY <1>1 DEF Challenges!Issue
  <2>3. QED
    BY <1>1, <2>1, <2>2 DEF Challenges!Issue
<1>2. ASSUME NEW w \in Wallet, NEW n \in Nonce \cup {NoNonce},
             NEW p \in Challenges!Path, Challenges!Consume(w, n, p)
      PROVE  Challenges!TypeOK'
  <2>1. CASE Challenges!Selects(w, n, p)
    <3>1. n \in Nonce
      BY <2>1 DEF Challenges!Selects
    <3>2. accepts[n] \in [Challenges!Path -> Nat] /\ accepts[n][p] + 1 \in Nat
      BY <3>1
    <3>3. [accepts EXCEPT ![n][p] = @ + 1] \in [Nonce -> [Challenges!Path -> Nat]]
      BY <3>1, <3>2
    <3>4. accepts' \in [Nonce -> [Challenges!Path -> Nat]]
      BY <1>2, <2>1, <3>3 DEF Challenges!Consume
    <3>5. byNonce' \in [Wallet -> SUBSET Nonce]
      BY <1>2, <2>1 DEF Challenges!Consume
    <3>6. current' \in [Wallet -> Nonce \cup {NoNonce}]
      BY <1>2, <2>1 DEF Challenges!Consume
    <3>7. /\ entries' \in SUBSET Wallet
          /\ UNCHANGED <<age, owner, newest>>
      BY <1>2, <2>1 DEF Challenges!Consume
    <3>8. QED
      BY <3>4, <3>5, <3>6, <3>7
  <2>2. CASE ~Challenges!Selects(w, n, p)
    BY <1>2, <2>2 DEF Challenges!Consume, Challenges!vars
  <2>3. QED
    BY <2>1, <2>2
<1>3. CASE Challenges!EvictStale
  BY <1>3 DEF Challenges!EvictStale, Challenges!Kept, Challenges!KeptPointer
<1>4. CASE Challenges!Pass
  BY <1>4 DEF Challenges!Pass, Challenges!Expired
<1>5. CASE UNCHANGED challengeVars
  BY <1>5 DEF challengeVars
<1>6. QED
  BY <1>1, <1>2, <1>3, <1>4, <1>5

------------------------------------------------------------------------------
(***************************************************************************)
(* Type correctness of the whole: the stores by the lemmas above, a step   *)
(* at a time; the rest of the state directly.                              *)
(***************************************************************************)
RestOK ==
  /\ block \in [Ip -> {"absent", "active", "expired"}]
  /\ config \in Configs
  /\ pc \in [Req -> PC]
  /\ outcome \in [Req -> Outcome]
  /\ guard \in [Req -> BOOLEAN]
  /\ nonce \in [Req -> Nonce \cup {NoNonce}]
  /\ phrase \in [Req -> Nonce \cup {NoNonce}]
  /\ writes \in [Req -> BOOLEAN]
  /\ quotaHeld \in [Req -> BOOLEAN]
  /\ slot \in [Req -> Slot]
  /\ forwarded \in SUBSET Req

LEMMA RestType ==
  ASSUME TypeOK, [Next]_vars
  PROVE  RestOK'
<1> USE RequestAssumption, ConfigAssumption
    DEF TypeOK, RestOK, Continue, Leave, LeaveAfter, PC, Outcome, Slot,
        control, locals, charges
<1>1. ASSUME NEW r \in Req, NEW n \in Nonce \cup {NoNonce}, Arrive(r, n)
      PROVE  RestOK'
  <2>1. IssuedChallenge(r, n) \in Nonce \cup {NoNonce}
    BY DEF IssuedChallenge, Kind, Challenges!PeekLegacy, Challenges!PeekExact, Challenges!TypeOK
  <2>2. QED
    BY <1>1, <2>1, ZenonT(60) DEF Arrive
<1>2. ASSUME NEW r \in Req, CheckBlock(r)
      PROVE  RestOK'
  <2>1. block[IpOf[r]] \in {"absent", "active", "expired"}
    OBVIOUS
  <2>2. Leave(r, "refused") \/ Continue(r, "unblock") \/ Continue(r, "slot")
    BY <1>2, <2>1 DEF CheckBlock
  <2>3. pc' \in [Req -> PC] /\ outcome' \in [Req -> Outcome] /\ guard' \in [Req -> BOOLEAN]
    BY <2>2, ZenonT(60)
  <2>4. QED
    BY <1>2, <2>3 DEF CheckBlock
<1>3. ASSUME NEW r \in Req, ClearBlock(r)
      PROVE  RestOK'
  BY <1>3 DEF ClearBlock
<1>4. ASSUME NEW r \in Req, ScreenOut(r)
      PROVE  RestOK'
  BY <1>4 DEF ScreenOut
<1>5. ASSUME NEW r \in Req, TakeSlot(r)
      PROVE  RestOK'
  <2>1. \A w : Outlived(w) \in [Req -> Slot]
    BY DEF Outlived
  <2>2. slot' \in [Req -> Slot]
    BY <1>5, <2>1 DEF TakeSlot
  <2>3. Continue(r, "key") \/ Leave(r, "limited")
    BY <1>5 DEF TakeSlot
  <2>4. pc' \in [Req -> PC] /\ outcome' \in [Req -> Outcome] /\ guard' \in [Req -> BOOLEAN]
    BY <2>3, ZenonT(60)
  <2>5. QED
    BY <1>5, <2>2, <2>4 DEF TakeSlot
<1>6. ASSUME NEW r \in Req, FindKey(r)
      PROVE  RestOK'
  BY <1>6 DEF FindKey
<1>7. ASSUME NEW r \in Req, RegisterKey(r)
      PROVE  RestOK'
  BY <1>7 DEF RegisterKey
<1>8. ASSUME NEW r \in Req, TakeQuota(r)
      PROVE  RestOK'
  BY <1>8 DEF TakeQuota
<1>9. ASSUME NEW r \in Req, GiveBackSlot(r)
      PROVE  RestOK'
  BY <1>9 DEF GiveBackSlot, Given
<1>10. ASSUME NEW r \in Req, RejectIntent(r)
      PROVE  RestOK'
  BY <1>10 DEF RejectIntent
<1>11. ASSUME NEW r \in Req, ReadIdentity(r)
      PROVE  RestOK'
  <2>1. PICK b \in BOOLEAN : writes' = [writes EXCEPT ![r] = b]
    BY <1>11 DEF ReadIdentity
  <2>2. Continue(r, "consume") \/ Continue(r, "forward")
    BY <1>11 DEF ReadIdentity
  <2>3. pc' \in [Req -> PC] /\ UNCHANGED <<outcome, guard>>
    BY <2>2
  <2>4. QED
    BY <1>11, <2>1, <2>3 DEF ReadIdentity
<1>12. ASSUME NEW r \in Req, ConsumeNonce(r)
      PROVE  RestOK'
  BY <1>12, ZenonT(60) DEF ConsumeNonce
<1>13. ASSUME NEW r \in Req, Forward(r)
      PROVE  RestOK'
  <2>1. \/ Continue(r, "sent") /\ forwarded' = forwarded \cup {r}
        \/ /\ Leave(r, "unavailable") \/ Leave(r, "passthrough")
           /\ UNCHANGED forwarded
    BY <1>13 DEF Forward
  <2>2. /\ pc' \in [Req -> PC] /\ outcome' \in [Req -> Outcome]
        /\ guard' \in [Req -> BOOLEAN] /\ forwarded' \in SUBSET Req
    BY <2>1, ZenonT(60)
  <2>3. QED
    BY <1>13, <2>2 DEF Forward
<1>14. ASSUME NEW r \in Req, LoseAnswer(r)
      PROVE  RestOK'
  BY <1>14 DEF LoseAnswer
<1>15. ASSUME NEW r \in Req, ReceiveAnswer(r)
      PROVE  RestOK'
  BY <1>15 DEF ReceiveAnswer
<1>16. ASSUME NEW r \in Req, SettleNoVerdict(r)
      PROVE  RestOK'
  BY <1>16 DEF SettleNoVerdict
<1>17. ASSUME NEW r \in Req, SettleSuccess(r)
      PROVE  RestOK'
  BY <1>17 DEF SettleSuccess
<1>18. ASSUME NEW r \in Req, RefundQuota(r)
      PROVE  RestOK'
  BY <1>18 DEF RefundQuota
<1>19. ASSUME NEW r \in Req, RefundSlot(r)
      PROVE  RestOK'
  BY <1>19 DEF RefundSlot, Given
<1>20. ASSUME NEW r \in Req, Cancel(r)
      PROVE  RestOK'
  BY <1>20 DEF Cancel
<1>21. ASSUME NEW r \in Req, NEW b \in BOOLEAN, NEW a \in BOOLEAN,
             SettleRejection(r, b, a)
      PROVE  RestOK'
  BY <1>21, ZenonT(60) DEF SettleRejection
<1>22. ASSUME NEW w \in Wallet, NEW n \in Nonce, IssueChallenge(w, n)
      PROVE  RestOK'
  BY <1>22 DEF IssueChallenge
<1>23. ASSUME NEW w \in Wallet, NEW n \in Nonce, Attest(w, n)
      PROVE  RestOK'
  BY <1>23 DEF Attest
<1>24. CASE SweepChallenges
  BY <1>24 DEF SweepChallenges
<1>25. CASE SweepWallets
  BY <1>25 DEF SweepWallets, Outlived
<1>26. CASE SweepBlocks
  BY <1>26 DEF SweepBlocks
<1>27. CASE Tick
  BY <1>27 DEF Tick
<1>28. ASSUME NEW j \in Ip, BlockRunsOut(j)
      PROVE  RestOK'
  BY <1>28 DEF BlockRunsOut
<1>29. CASE UNCHANGED vars
  BY <1>29 DEF vars
<1>30. QED
  BY <1>1, <1>2, <1>3, <1>4, <1>5, <1>6, <1>7, <1>8, <1>9, <1>10, <1>11, <1>12, <1>13, <1>14, <1>15, <1>16, <1>17, <1>18, <1>19, <1>20, <1>21, <1>22, <1>23, <1>24, <1>25, <1>26, <1>27, <1>28, <1>29 DEF Next, Handle

\* What a step does to each store is one of the store's own operations.
LEMMA StoreSteps ==
  ASSUME nonce \in [Req -> Nonce \cup {NoNonce}], [Next]_vars
  PROVE  /\ \/ \E w \in Wallet : Wallets!CheckAndRecord(w) \/ Wallets!Refund(w)
            \/ Wallets!EvictExpired
            \/ Wallets!Pass
            \/ UNCHANGED walletVars
         /\ \/ \E k \in Key : \/ Quotas!AutoRegister(k) \/ Quotas!Deduct(k)
                              \/ Quotas!RefundQuota(k)
            \/ UNCHANGED quotaVars
         /\ \/ \E w \in Wallet, n \in Nonce : Challenges!Issue(w, n)
            \/ \E w \in Wallet, n \in Nonce \cup {NoNonce}, p \in Challenges!Path :
                 Challenges!Consume(w, n, p)
            \/ Challenges!EvictStale
            \/ Challenges!Pass
            \/ UNCHANGED challengeVars
<1> USE DEF walletVars, quotaVars, challengeVars
<1>1. \A r \in Req : WalletOf[r] \in Wallet /\ KeyOf[r] \in Key
  BY RequestAssumption
<1>2. \A r \in Req : nonce[r] \in Nonce \cup {NoNonce}
  OBVIOUS
<1>3. "legacy" \in Challenges!Path /\ "exact" \in Challenges!Path
  BY DEF Challenges!Path
<1>4. CASE UNCHANGED vars
  BY <1>4 DEF vars
<1>5. ASSUME NEW r \in Req, NEW n \in Nonce \cup {NoNonce}, Arrive(r, n)
      PROVE  UNCHANGED <<walletVars, quotaVars, challengeVars>>
  BY <1>5 DEF Arrive
<1>6. ASSUME NEW r \in Req,
             \/ CheckBlock(r) \/ ClearBlock(r) \/ ScreenOut(r) \/ FindKey(r)
             \/ RejectIntent(r) \/ ReadIdentity(r) \/ Forward(r) \/ LoseAnswer(r)
             \/ ReceiveAnswer(r) \/ SettleNoVerdict(r) \/ SettleSuccess(r) \/ Cancel(r)
             \/ \E b, a \in BOOLEAN : SettleRejection(r, b, a)
      PROVE  UNCHANGED <<walletVars, quotaVars, challengeVars>>
  BY <1>6 DEF CheckBlock, ClearBlock, ScreenOut, FindKey, RejectIntent, ReadIdentity,
       Forward, LoseAnswer, ReceiveAnswer, SettleNoVerdict, SettleSuccess, Cancel,
       SettleRejection
<1>7. ASSUME NEW r \in Req, TakeSlot(r) \/ GiveBackSlot(r) \/ RefundSlot(r)
      PROVE  /\ Wallets!CheckAndRecord(WalletOf[r]) \/ Wallets!Refund(WalletOf[r])
             /\ UNCHANGED <<quotaVars, challengeVars>>
  BY <1>7 DEF TakeSlot, GiveBackSlot, RefundSlot
<1>8. ASSUME NEW r \in Req, RegisterKey(r) \/ TakeQuota(r) \/ RefundQuota(r)
      PROVE  /\ \/ Quotas!AutoRegister(KeyOf[r]) \/ Quotas!Deduct(KeyOf[r])
                \/ Quotas!RefundQuota(KeyOf[r]) \/ UNCHANGED quotaVars
             /\ UNCHANGED <<walletVars, challengeVars>>
  BY <1>8 DEF RegisterKey, TakeQuota, RefundQuota
<1>9. ASSUME NEW r \in Req, ConsumeNonce(r)
      PROVE  /\ Challenges!Consume(WalletOf[r], nonce[r], "exact")
             /\ UNCHANGED <<walletVars, quotaVars>>
  BY <1>9 DEF ConsumeNonce
<1>10. ASSUME NEW w \in Wallet, NEW n \in Nonce, IssueChallenge(w, n) \/ Attest(w, n)
       PROVE  /\ Challenges!Issue(w, n) \/ Challenges!Consume(w, n, "legacy")
              /\ UNCHANGED <<walletVars, quotaVars>>
  BY <1>10 DEF IssueChallenge, Attest
<1>11. ASSUME NEW j \in Ip, BlockRunsOut(j)
       PROVE  UNCHANGED <<walletVars, quotaVars, challengeVars>>
  BY <1>11 DEF BlockRunsOut
<1>12. CASE SweepChallenges \/ SweepWallets \/ SweepBlocks \/ Tick
  BY <1>12 DEF SweepChallenges, SweepWallets, SweepBlocks, Tick
<1>13. QED
  BY <1>1, <1>2, <1>3, <1>4, <1>5, <1>6, <1>7, <1>8, <1>9, <1>10, <1>11, <1>12
     DEF Next, Handle

LEMMA InitTypeOK == Init => TypeOK
<1> SUFFICES ASSUME Init PROVE TypeOK
  OBVIOUS
<1>1. Wallets!TypeOK
  BY StoreAssumption DEF Init, Wallets!Init, Wallets!TypeOK, Wallets!WindowAssumption
<1>2. Quotas!TypeOK
  BY StoreAssumption DEF Init, Quotas!Init, Quotas!TypeOK, Quotas!QuotaAssumption
<1>3. Challenges!TypeOK
  BY StoreAssumption DEF Init, Challenges!Init, Challenges!TypeOK, Challenges!Path
<1>4. QED
  BY <1>1, <1>2, <1>3 DEF Init, TypeOK, PC, Outcome, Slot

LEMMA NextTypeOK == TypeOK /\ [Next]_vars => TypeOK'
BY RestType, StoreSteps, WalletsType, QuotasType, ChallengesType DEF TypeOK, RestOK

\* TypeOK: every store and every request stays within its type whatever the
\* interleaving; in particular a wallet's u8 counter never passes its cap.
THEOREM PipelineTypeOK == Spec => []TypeOK
BY InitTypeOK, NextTypeOK, PTL DEF Spec

------------------------------------------------------------------------------
(***************************************************************************)
(* The charges of a request follow its progress.  ChargesMatchProgress     *)
(* says nothing of a request that is refunding; Stage adds what holds      *)
(* then, and when the guard is armed, which decides whether Leave refunds. *)
(***************************************************************************)
Refunded == NoVerdict \cup {"cancelled"}

Stage(r) ==
  /\ guard[r] <=> pc[r] \in {"identity", "consume", "forward", "sent"}
  /\ outcome[r] # "none" <=> pc[r] \in {"refundQuota", "refundSlot", "done"}
  /\ pc[r] = "register" => Quotas!AllowUnknown
  /\ pc[r] \in {"idle", "screen", "unblock", "slot"} => slot[r] = "none"
  /\ pc[r] = "refundQuota" =>
       quotaHeld[r] /\ SlotKept(r) /\ outcome[r] \in Refunded
  /\ pc[r] = "refundSlot" =>
       /\ SlotKept(r)
       /\ \/ quotaHeld[r] /\ outcome[r] \in {"passed", "retry"}
          \/ ~quotaHeld[r] /\ outcome[r] \in Refunded
  /\ quotaHeld[r] => KeyOf[r] \in registered

Fits(r) == Stage(r) /\ ChargesFit(r)
ChargesInv == TypeOK /\ \A r \in Req : Fits(r)

\* What another request's step may do to r's slot.
SlotFrame(r) ==
  /\ SlotKept(r)' = SlotKept(r)
  /\ slot[r] = "none" => slot'[r] = "none"

LEMMA Unmoved ==
  ASSUME NEW r \in Req, Fits(r), SlotFrame(r), registered \subseteq registered',
         pc'[r] = pc[r], outcome'[r] = outcome[r], guard'[r] = guard[r],
         quotaHeld'[r] = quotaHeld[r]
  PROVE  Fits(r)'
BY DEF Fits, Stage, ChargesFit, SlotFrame, Refunded, NoVerdict, Quotas!AllowUnknown

LEMMA OutlivedFrame ==
  ASSUME slot \in [Req -> Slot], NEW w, NEW r \in Req
  PROVE  /\ Outlived(w)[r] \in {"held", "stale"} <=> SlotKept(r)
         /\ slot[r] = "none" => Outlived(w)[r] = "none"
BY DEF Outlived, SlotKept, Slot

LEMMA RequestFits ==
  ASSUME ChargesInv, NEW r \in Req, Handle(r) \/ Cancel(r)
  PROVE  Fits(r)'
<1> USE DEF ChargesInv, TypeOK, Fits, Stage, ChargesFit, SlotKept, Refunded, NoVerdict,
        Continue, Leave, LeaveAfter, charges, quotaVars, walletVars
<1>1. CASE CheckBlock(r)
  <2>1. block[IpOf[r]] \in {"absent", "active", "expired"}
    BY RequestAssumption
  <2>2. Leave(r, "refused") \/ Continue(r, "unblock") \/ Continue(r, "slot")
    BY <1>1, <2>1 DEF CheckBlock
  <2>3. pc[r] = "screen" /\ UNCHANGED <<quotaHeld, slot, registered>>
    BY <1>1 DEF CheckBlock
  <2>4. QED
    BY <2>2, <2>3
<1>2. CASE ClearBlock(r)
  BY <1>2 DEF ClearBlock
<1>3. CASE ScreenOut(r)
  BY <1>3 DEF ScreenOut
<1>4. CASE TakeSlot(r)
  BY <1>4 DEF TakeSlot, Outlived
<1>5. CASE FindKey(r)
  BY <1>5 DEF FindKey, Quotas!AllowUnknown
<1>6. CASE RegisterKey(r)
  BY <1>6 DEF RegisterKey, Quotas!AutoRegister
<1>7. CASE TakeQuota(r)
  BY <1>7 DEF TakeQuota, Quotas!Deduct, Quotas!HasQuota
<1>8. CASE GiveBackSlot(r)
  BY <1>8 DEF GiveBackSlot, Given
<1>9. CASE RejectIntent(r)
  BY <1>9 DEF RejectIntent
<1>10. CASE ReadIdentity(r)
  BY <1>10 DEF ReadIdentity
<1>11. CASE ConsumeNonce(r)
  BY <1>11 DEF ConsumeNonce
<1>12. CASE Forward(r)
  BY <1>12 DEF Forward
<1>13. CASE LoseAnswer(r)
  BY <1>13 DEF LoseAnswer
<1>14. CASE ReceiveAnswer(r)
  BY <1>14 DEF ReceiveAnswer
<1>15. CASE SettleNoVerdict(r)
  BY <1>15 DEF SettleNoVerdict
<1>16. CASE SettleSuccess(r)
  BY <1>16 DEF SettleSuccess
<1>17. CASE RefundQuota(r)
  BY <1>17 DEF RefundQuota, Quotas!RefundQuota
<1>18. CASE RefundSlot(r)
  BY <1>18 DEF RefundSlot, Given
<1>19. CASE Cancel(r)
  BY <1>19 DEF Cancel
<1>20. ASSUME NEW b \in BOOLEAN, NEW a \in BOOLEAN, SettleRejection(r, b, a)
      PROVE  Fits(r)'
  BY <1>20 DEF SettleRejection
<1>21. QED
  BY <1>1, <1>2, <1>3, <1>4, <1>5, <1>6, <1>7, <1>8, <1>9, <1>10, <1>11, <1>12, <1>13, <1>14, <1>15, <1>16, <1>17, <1>18, <1>19, <1>20 DEF Handle

\* A request's step disturbs no other request.
LEMMA OtherFits ==
  ASSUME ChargesInv, NEW q \in Req, Handle(q) \/ Cancel(q), NEW r \in Req, r # q
  PROVE  Fits(r)'
<1> USE DEF ChargesInv, TypeOK, Continue, Leave, LeaveAfter, charges, quotaVars
<1>1. Fits(r) /\ \A w : /\ Outlived(w)[r] \in {"held", "stale"} <=> SlotKept(r)
                        /\ slot[r] = "none" => Outlived(w)[r] = "none"
  BY OutlivedFrame
<1>2. CASE TakeSlot(q)
  <2>1. UNCHANGED <<registered, quotaHeld>>
    BY <1>2 DEF TakeSlot
  <2>2. slot'[r] = slot[r] \/ slot'[r] = Outlived(WalletOf[q])[r]
    BY <1>2 DEF TakeSlot, Outlived
  <2>3. Continue(q, "key") \/ Leave(q, "limited")
    BY <1>2 DEF TakeSlot
  <2>4. pc'[r] = pc[r] /\ outcome'[r] = outcome[r] /\ guard'[r] = guard[r]
    BY <2>3
  <2>5. SlotFrame(r)
    BY <1>1, <2>2 DEF SlotFrame, SlotKept
  <2>6. QED
    BY <1>1, <2>1, <2>4, <2>5, Unmoved
<1>3. CASE GiveBackSlot(q) \/ RefundSlot(q)
  <2>1. UNCHANGED <<registered, quotaHeld>> /\ slot'[r] = slot[r]
    BY <1>3 DEF GiveBackSlot, RefundSlot
  <2>2. pc'[r] = pc[r] /\ outcome'[r] = outcome[r] /\ guard'[r] = guard[r]
    BY <1>3 DEF GiveBackSlot, RefundSlot
  <2>3. QED
    BY <1>1, <2>1, <2>2, Unmoved DEF SlotFrame, SlotKept
<1>4. CASE RegisterKey(q) \/ TakeQuota(q) \/ RefundQuota(q)
  <2>1. UNCHANGED slot /\ quotaHeld'[r] = quotaHeld[r] /\ registered \subseteq registered'
    BY <1>4 DEF RegisterKey, TakeQuota, RefundQuota, Quotas!AutoRegister, Quotas!Deduct,
         Quotas!RefundQuota
  <2>2. pc'[r] = pc[r] /\ outcome'[r] = outcome[r] /\ guard'[r] = guard[r]
    BY <1>4 DEF RegisterKey, TakeQuota, RefundQuota
  <2>3. QED
    BY <1>1, <2>1, <2>2, Unmoved DEF SlotFrame, SlotKept
<1>5. CASE \/ CheckBlock(q) \/ ClearBlock(q) \/ ScreenOut(q) \/ FindKey(q)
           \/ RejectIntent(q) \/ ReadIdentity(q) \/ ConsumeNonce(q) \/ Forward(q)
           \/ LoseAnswer(q) \/ ReceiveAnswer(q) \/ SettleNoVerdict(q)
           \/ SettleSuccess(q) \/ Cancel(q)
           \/ \E b, a \in BOOLEAN : SettleRejection(q, b, a)
  <2>1. UNCHANGED <<slot, quotaHeld, registered>>
    BY <1>5 DEF CheckBlock, ClearBlock, ScreenOut, FindKey, RejectIntent, ReadIdentity,
         ConsumeNonce, Forward, LoseAnswer, ReceiveAnswer, SettleNoVerdict, SettleSuccess,
         Cancel, SettleRejection
  <2>2. \/ \E to : Continue(q, to)
        \/ \E o : Leave(q, o) \/ \E to : LeaveAfter(q, o, to)
        \/ ReceiveAnswer(q)
    <3>1. CheckBlock(q) => \/ Leave(q, "refused") \/ Continue(q, "unblock")
                           \/ Continue(q, "slot")
      <4>1. block[IpOf[q]] \in {"absent", "active", "expired"}
        BY RequestAssumption
      <4>2. QED
        BY <4>1 DEF CheckBlock
    <3>2. FindKey(q) => \/ Continue(q, "quota") \/ Continue(q, "register")
                        \/ Continue(q, "giveBack")
      BY DEF FindKey
    <3>3. QED
      BY <1>5, <3>1, <3>2 DEF ClearBlock, ScreenOut, RejectIntent, ReadIdentity,
         ConsumeNonce, Forward, LoseAnswer, SettleNoVerdict, SettleSuccess,
         Cancel, SettleRejection
  <2>3. pc'[r] = pc[r] /\ outcome'[r] = outcome[r] /\ guard'[r] = guard[r]
    BY <2>2 DEF ReceiveAnswer
  <2>4. QED
    BY <1>1, <2>1, <2>3, Unmoved DEF SlotFrame, SlotKept
<1>6. QED
  BY <1>2, <1>3, <1>4, <1>5 DEF Handle

LEMMA ArriveFits ==
  ASSUME ChargesInv, NEW q \in Req, NEW n \in Nonce \cup {NoNonce}, Arrive(q, n),
         NEW r \in Req
  PROVE  Fits(r)'
BY DEF Arrive, ChargesInv, TypeOK, Fits, Stage, ChargesFit, SlotKept, Refunded, NoVerdict,
       Continue, Leave, charges, quotaVars, Quotas!AllowUnknown

\* The other tasks.
LEMMA TasksFit ==
  ASSUME ChargesInv, NEW r \in Req,
         \/ \E w \in Wallet, n \in Nonce : IssueChallenge(w, n) \/ Attest(w, n)
         \/ SweepChallenges \/ SweepWallets \/ SweepBlocks \/ Tick
         \/ \E j \in Ip : BlockRunsOut(j)
         \/ UNCHANGED vars
  PROVE  Fits(r)'
<1> USE DEF ChargesInv, TypeOK
<1>1. UNCHANGED <<pc, outcome, guard, quotaHeld, registered>>
  BY DEF IssueChallenge, Attest, SweepChallenges, SweepWallets, SweepBlocks, Tick,
         BlockRunsOut, vars, control, charges, quotaVars
<1>2. slot'[r] = slot[r] \/ \E w : slot'[r] = Outlived(w)[r]
  BY DEF IssueChallenge, Attest, SweepChallenges, SweepWallets, SweepBlocks, Tick,
         BlockRunsOut, vars, charges
<1>3. SlotFrame(r)
  BY <1>2, OutlivedFrame DEF SlotFrame, SlotKept
<1>4. QED
  BY <1>1, <1>3, Unmoved

LEMMA ChargesInvariant == Spec => []ChargesInv
<1>1. Init => ChargesInv
  <2> SUFFICES ASSUME Init PROVE \A r \in Req : Fits(r)
    BY InitTypeOK DEF ChargesInv
  <2>1. QED
    BY DEF Init, Fits, Stage, ChargesFit, SlotKept, NoVerdict
<1>2. ChargesInv /\ [Next]_vars => ChargesInv'
  <2> SUFFICES ASSUME ChargesInv, [Next]_vars, NEW r \in Req PROVE Fits(r)'
    BY NextTypeOK DEF ChargesInv
  <2>1. QED
    BY RequestFits, OtherFits, ArriveFits, TasksFit DEF Next
<1>3. QED
  BY <1>1, <1>2, PTL DEF Spec

\* ChargesMatchProgress: at every moment, for any number of racing requests,
\* what a request has been charged is what its progress and outcome call for.
THEOREM ChargesFollowProgress == Spec => []ChargesMatchProgress
<1>1. ChargesInv => ChargesMatchProgress
  BY DEF ChargesInv, Fits, ChargesMatchProgress
<1>2. QED
  BY <1>1, ChargesInvariant, PTL

------------------------------------------------------------------------------
(***************************************************************************)
(* The integrator's quota.                                                 *)
(***************************************************************************)
UsedWithinQuota == \A k \in Key : Quota[k] > 0 => used[k] <= Quota[k]

QuotaInv == ChargesInv /\ QuotaConserved /\ UsedWithinQuota

LEMMA ChargedFinite ==
  ASSUME NEW k
  PROVE  IsFiniteSet(ChargedTo(k)) /\ Cardinality(ChargedTo(k)) \in Nat
BY RequestAssumption, FS_Subset, FS_CardinalityType DEF ChargedTo

\* Only three actions touch the quota or the record of who is charged.
LEMMA QuotaSteps ==
  ASSUME [Next]_vars
  PROVE  \/ \E r \in Req : RegisterKey(r) \/ TakeQuota(r) \/ RefundQuota(r)
         \/ UNCHANGED <<used, quotaHeld>>
<1> USE DEF quotaVars, charges
<1>1. ASSUME NEW r \in Req, Handle(r) \/ Cancel(r)
      PROVE  \/ RegisterKey(r) \/ TakeQuota(r) \/ RefundQuota(r)
             \/ UNCHANGED <<used, quotaHeld>>
  BY <1>1 DEF Handle, CheckBlock, ClearBlock, ScreenOut, TakeSlot, FindKey, GiveBackSlot,
       RejectIntent, ReadIdentity, ConsumeNonce, Forward, LoseAnswer, ReceiveAnswer,
       SettleNoVerdict, SettleSuccess, SettleRejection, RefundSlot, Cancel
<1>2. ASSUME NEW r \in Req, NEW n \in Nonce \cup {NoNonce}, Arrive(r, n)
      PROVE  UNCHANGED <<used, quotaHeld>>
  BY <1>2 DEF Arrive
<1>3. ASSUME \/ \E w \in Wallet, n \in Nonce : IssueChallenge(w, n) \/ Attest(w, n)
             \/ SweepChallenges \/ SweepWallets \/ SweepBlocks \/ Tick
             \/ \E j \in Ip : BlockRunsOut(j)
             \/ UNCHANGED vars
      PROVE  UNCHANGED <<used, quotaHeld>>
  BY <1>3 DEF IssueChallenge, Attest, SweepChallenges, SweepWallets, SweepBlocks, Tick,
       BlockRunsOut, vars
<1>4. QED
  BY <1>1, <1>2, <1>3 DEF Next

\* A deduction adds the request to those its key is charged for, and one to
\* the key's count.
LEMMA TakeQuotaConserves ==
  ASSUME QuotaInv, NEW r \in Req, TakeQuota(r)
  PROVE  QuotaConserved' /\ UsedWithinQuota'
<1> USE DEF QuotaInv, ChargesInv, TypeOK, Quotas!TypeOK, QuotaConserved, UsedWithinQuota
<1>1. CASE UNCHANGED <<quotaVars, quotaHeld>>
  BY <1>1 DEF quotaVars, ChargedTo
<1>2. CASE Quotas!Deduct(KeyOf[r]) /\ quotaHeld' = [quotaHeld EXCEPT ![r] = TRUE]
  <2>1. pc[r] = "quota" /\ ~quotaHeld[r]
    BY DEF TakeQuota, Fits, ChargesFit
  <2>2. SUFFICES ASSUME NEW k \in Key
                 PROVE  /\ used'[k] <= Cardinality(ChargedTo(k)')
                        /\ ~Quotas!AllowUnknown => used'[k] = Cardinality(ChargedTo(k)')
                        /\ Quota[k] > 0 => used'[k] <= Quota[k]
    BY DEF Quotas!AllowUnknown
  <2>3. CASE KeyOf[r] = k
    <3>1. ChargedTo(k)' = ChargedTo(k) \cup {r} /\ r \notin ChargedTo(k)
      BY <1>2, <2>1, <2>3 DEF ChargedTo
    <3>2. Cardinality(ChargedTo(k)') = Cardinality(ChargedTo(k)) + 1
      <4>1. IsFiniteSet(ChargedTo(k))
        BY ChargedFinite
      <4> HIDE DEF QuotaInv
      <4>2. QED
        BY <3>1, <4>1, FS_AddElement
    <3>3. used'[k] = used[k] + 1 /\ (Quota[k] > 0 => used[k] < Quota[k])
      BY <1>2, <2>3 DEF Quotas!Deduct, Quotas!HasQuota
    <3>4. used[k] \in Nat /\ Quota[k] \in Nat
      BY StoreAssumption DEF Quotas!QuotaAssumption
    <3>5. QED
      BY <3>2, <3>3, <3>4, ChargedFinite
  <2>4. CASE KeyOf[r] # k
    BY <1>2, <2>4 DEF ChargedTo, Quotas!Deduct
  <2>5. QED
    BY <2>3, <2>4
<1>3. QED
  BY <1>1, <1>2 DEF TakeQuota

\* A refund takes the request from those its key is charged for.  The
\* saturation never bites when integrators are configured.
LEMMA RefundQuotaConserves ==
  ASSUME QuotaInv, NEW r \in Req, RefundQuota(r)
  PROVE  QuotaConserved' /\ UsedWithinQuota'
<1> USE DEF QuotaInv, ChargesInv, TypeOK, Quotas!TypeOK, QuotaConserved, UsedWithinQuota
<1>1. quotaHeld[r] /\ KeyOf[r] \in registered
  BY DEF RefundQuota, Fits, Stage
<1>2. quotaHeld' = [quotaHeld EXCEPT ![r] = FALSE] /\ Quotas!RefundQuota(KeyOf[r])
  BY DEF RefundQuota
<1>3. SUFFICES ASSUME NEW k \in Key
               PROVE  /\ used'[k] <= Cardinality(ChargedTo(k)')
                      /\ ~Quotas!AllowUnknown => used'[k] = Cardinality(ChargedTo(k)')
                      /\ Quota[k] > 0 => used'[k] <= Quota[k]
  BY DEF Quotas!AllowUnknown
<1>4. used[k] \in Nat /\ Quota[k] \in Nat
  BY StoreAssumption DEF Quotas!QuotaAssumption
<1>5. CASE KeyOf[r] = k
  <2>1. ChargedTo(k)' = ChargedTo(k) \ {r} /\ r \in ChargedTo(k)
    BY <1>1, <1>2, <1>5 DEF ChargedTo
  <2>2. Cardinality(ChargedTo(k)') = Cardinality(ChargedTo(k)) - 1
    <3>1. IsFiniteSet(ChargedTo(k))
      BY ChargedFinite
    <3> HIDE DEF QuotaInv
    <3>2. QED
      BY <2>1, <3>1, FS_RemoveElement
  <2>3. Cardinality(ChargedTo(k)) # 0
    BY <2>1, ChargedFinite, FS_EmptySet
  <2>4. used'[k] = IF used[k] > 0 THEN used[k] - 1 ELSE used[k]
    BY <1>1, <1>2, <1>5 DEF Quotas!RefundQuota
  <2>5. QED
    BY <1>4, <2>2, <2>3, <2>4, ChargedFinite
<1>6. CASE KeyOf[r] # k
  BY <1>2, <1>6 DEF ChargedTo, Quotas!RefundQuota
<1>7. QED
  BY <1>5, <1>6

\* Registration forgets what the key was charged: only without integrators.
LEMMA RegisterKeyConserves ==
  ASSUME QuotaInv, NEW r \in Req, RegisterKey(r)
  PROVE  QuotaConserved' /\ UsedWithinQuota'
<1> USE DEF QuotaInv, ChargesInv, TypeOK, Quotas!TypeOK
<1>1. Quotas!AllowUnknown
  BY DEF RegisterKey, Fits, Stage
<1>2. \A k : ChargedTo(k)' = ChargedTo(k)
  BY DEF RegisterKey, ChargedTo, charges
<1>3. \A k \in Key : /\ used'[k] = IF k = KeyOf[r] THEN 0 ELSE used[k]
                     /\ Quota[k] \in Nat
  BY StoreAssumption DEF RegisterKey, Quotas!AutoRegister, Quotas!QuotaAssumption
<1>4. QED
  BY <1>1, <1>2, <1>3, ChargedFinite DEF QuotaConserved, UsedWithinQuota, Quotas!AllowUnknown

LEMMA QuotaInvariant == Spec => []QuotaInv
<1>1. Init => QuotaConserved /\ UsedWithinQuota
  <2> SUFFICES ASSUME Init
               PROVE  QuotaConserved /\ UsedWithinQuota
    OBVIOUS
  <2>1. \A k \in Key : used[k] = 0 /\ ChargedTo(k) = {} /\ Quota[k] \in Nat
    BY StoreAssumption DEF Init, Quotas!Init, ChargedTo, Quotas!QuotaAssumption
  <2>2. QED
    BY <2>1, FS_EmptySet DEF QuotaConserved, UsedWithinQuota
<1>2. QuotaInv /\ [Next]_vars => QuotaConserved' /\ UsedWithinQuota'
  <2> SUFFICES ASSUME QuotaInv, [Next]_vars
               PROVE  QuotaConserved' /\ UsedWithinQuota'
    OBVIOUS
  <2>1. CASE UNCHANGED <<used, quotaHeld>>
    BY <2>1 DEF QuotaInv, QuotaConserved, UsedWithinQuota, ChargedTo, Quotas!AllowUnknown
  <2>2. QED
    BY <2>1, QuotaSteps, TakeQuotaConserves, RefundQuotaConserves, RegisterKeyConserves
<1>3. QED
  BY <1>1, <1>2, ChargesInvariant, PTL DEF Spec, QuotaInv

\* QuotaConserved: a configured integrator's count is exactly the number of
\* requests whose charge has not been returned, whatever the interleaving.
THEOREM QuotaIsConserved == Spec => []QuotaConserved
BY QuotaInvariant, PTL DEF QuotaInv

\* VerdictsWithinQuota: a configured integrator never gets more verdicts than
\* its quota.
THEOREM QuotaBoundsVerdicts == Spec => []VerdictsWithinQuota
<1>1. QuotaInv => VerdictsWithinQuota
  <2> SUFFICES ASSUME QuotaInv, ~Quotas!AllowUnknown, NEW k \in Key, Quota[k] > 0
               PROVE  Cardinality({r \in Req : KeyOf[r] = k /\ outcome[r] \in Verdict})
                        <= Quota[k]
    BY DEF VerdictsWithinQuota
  <2> DEFINE V == {r \in Req : KeyOf[r] = k /\ outcome[r] \in Verdict}
  <2>1. V \subseteq ChargedTo(k)
    BY DEF QuotaInv, ChargesInv, Fits, Stage, ChargesFit, Verdict, ChargedTo, Refunded, NoVerdict
  <2>2. Cardinality(V) \in Nat /\ Cardinality(V) <= Cardinality(ChargedTo(k))
    BY <2>1, ChargedFinite, FS_Subset, FS_CardinalityType
  <2>3. used[k] = Cardinality(ChargedTo(k)) /\ used[k] <= Quota[k]
    BY DEF QuotaInv, QuotaConserved, UsedWithinQuota
  <2>4. used[k] \in Nat /\ Quota[k] \in Nat
    BY StoreAssumption DEF QuotaInv, ChargesInv, TypeOK, Quotas!TypeOK, Quotas!QuotaAssumption
  <2>5. QED
    BY <2>2, <2>3, <2>4
<1>2. QED
  BY <1>1, QuotaInvariant, PTL

------------------------------------------------------------------------------
(***************************************************************************)
(* A wallet's attempt slots.  The counter is not the number of its holders *)
(* (a refund may come from an earlier window), but differs by no more than *)
(* those late refunds; and an entry is never swept from under a holder.    *)
(***************************************************************************)
SlotsFit(w) ==
  /\ attempts[w] <= Cardinality(Holding(w))
  /\ Cardinality(Holding(w)) <= attempts[w] + Cardinality(Late(w))
  /\ w \notin tracked => Holding(w) = {}

SlotsInv == ChargesInv /\ \A w \in Wallet : SlotsFit(w)

LEMMA HoldersFinite ==
  ASSUME NEW w
  PROVE  /\ IsFiniteSet(Holding(w)) /\ Cardinality(Holding(w)) \in Nat
         /\ IsFiniteSet(Late(w)) /\ Cardinality(Late(w)) \in Nat
BY RequestAssumption, FS_Subset, FS_CardinalityType DEF Holding, Late

\* A window that is replaced or swept leaves no holder and no late refund.
LEMMA OutlivedEmpties ==
  ASSUME slot \in [Req -> Slot], NEW w
  PROVE  /\ {r \in Req : WalletOf[r] = w /\ Outlived(w)[r] = "held"} = {}
         /\ {r \in Req : WalletOf[r] = w /\ Outlived(w)[r] = "late"} = {}
         /\ \A r \in Req : WalletOf[r] # w => Outlived(w)[r] = slot[r]
BY DEF Outlived, Slot

\* Only these steps touch a counter or a slot; a tick touches neither.
LEMMA SlotSteps ==
  ASSUME [Next]_vars
  PROVE  \/ \E r \in Req : TakeSlot(r) \/ GiveBackSlot(r) \/ RefundSlot(r)
         \/ SweepWallets
         \/ UNCHANGED <<tracked, attempts, slot>>
<1> USE DEF walletVars, charges
<1>1. ASSUME NEW r \in Req, Handle(r) \/ Cancel(r)
      PROVE  \/ TakeSlot(r) \/ GiveBackSlot(r) \/ RefundSlot(r)
             \/ UNCHANGED <<tracked, attempts, slot>>
  BY <1>1 DEF Handle, CheckBlock, ClearBlock, ScreenOut, FindKey, RegisterKey, TakeQuota,
       RejectIntent, ReadIdentity, ConsumeNonce, Forward, LoseAnswer, ReceiveAnswer,
       SettleNoVerdict, SettleSuccess, SettleRejection, RefundQuota, Cancel
<1>2. ASSUME NEW r \in Req, NEW n \in Nonce \cup {NoNonce}, Arrive(r, n)
      PROVE  UNCHANGED <<tracked, attempts, slot>>
  BY <1>2 DEF Arrive
<1>3. ASSUME \/ \E w \in Wallet, n \in Nonce : IssueChallenge(w, n) \/ Attest(w, n)
             \/ SweepChallenges \/ SweepBlocks \/ Tick
             \/ \E j \in Ip : BlockRunsOut(j)
             \/ UNCHANGED vars
      PROVE  UNCHANGED <<tracked, attempts, slot>>
  BY <1>3 DEF IssueChallenge, Attest, SweepChallenges, SweepBlocks, Tick, BlockRunsOut,
       vars, Wallets!Pass
<1>4. QED
  BY <1>1, <1>2, <1>3 DEF Next

\* What SlotsFit(w) looks at.
LEMMA SlotsFrame ==
  ASSUME NEW w \in Wallet, SlotsFit(w), attempts'[w] = attempts[w],
         w \in tracked => w \in tracked',
         \A r \in Req : WalletOf[r] = w => slot'[r] = slot[r]
  PROVE  SlotsFit(w)'
<1>1. Holding(w)' = Holding(w) /\ Late(w)' = Late(w)
  BY DEF Holding, Late
<1>2. QED
  BY <1>1 DEF SlotsFit

LEMMA OneMore ==
  ASSUME NEW S, NEW T, NEW x, IsFiniteSet(S), x \notin S, T = S \cup {x}
  PROVE  Cardinality(T) = Cardinality(S) + 1
BY FS_AddElement

LEMMA OneLess ==
  ASSUME NEW S, NEW T, NEW x, IsFiniteSet(S), x \in S, T = S \ {x}
  PROVE  Cardinality(T) = Cardinality(S) - 1
BY FS_RemoveElement

LEMMA TakeSlotFits ==
  ASSUME SlotsInv, NEW r \in Req, TakeSlot(r), NEW v \in Wallet
  PROVE  SlotsFit(v)'
<1> DEFINE w == WalletOf[r]
<1> USE DEF SlotsInv, ChargesInv, TypeOK, Wallets!TypeOK
<1>1. w \in Wallet /\ slot[r] = "none"
  BY RequestAssumption DEF TakeSlot, Fits, Stage
<1>2. /\ tracked' = tracked \cup {w}
      /\ attempts' = [attempts EXCEPT ![w] = IF Wallets!Admits(w) THEN Wallets!Consumed(w) + 1
                                             ELSE Wallets!Consumed(w)]
  BY DEF TakeSlot, Wallets!CheckAndRecord
<1>3. slot' = LET slots == IF Wallets!OpensWindow(w) THEN Outlived(w) ELSE slot
              IN  IF Wallets!Admits(w) THEN [slots EXCEPT ![r] = "held"] ELSE slots
  BY DEF TakeSlot
<1>f. /\ IsFiniteSet(Holding(w)) /\ Cardinality(Holding(w)) \in Nat
      /\ IsFiniteSet(Late(w)) /\ Cardinality(Late(w)) \in Nat
  BY HoldersFinite
<1>4. CASE v # w
  <2>1. \A q \in Req : WalletOf[q] = v => slot'[q] = slot[q]
    BY <1>3, <1>4, OutlivedEmpties DEF Outlived
  <2>2. QED
    BY <1>2, <1>4, <2>1, SlotsFrame
<1>5. CASE v = w /\ Wallets!OpensWindow(w)
  <2>1. Wallets!Consumed(w) = 0
    BY <1>5 DEF Wallets!Consumed
  <2>2. CASE Wallets!Admits(w)
    <3>1. attempts'[w] = 1
      BY <1>1, <1>2, <2>1, <2>2
    <3>2. slot' = [Outlived(w) EXCEPT ![r] = "held"]
      BY <1>3, <1>5, <2>2
    <3>3. Holding(w)' = {r} /\ Late(w)' = {}
      BY <3>2, OutlivedEmpties DEF Holding, Late, Outlived
    <3>4. Cardinality({r}) = 1 /\ Cardinality({}) = 0
      BY FS_Singleton, FS_EmptySet
    <3>5. QED
      BY <1>2, <1>5, <3>1, <3>3, <3>4 DEF SlotsFit
  <2>3. CASE ~Wallets!Admits(w)
    <3>1. attempts'[w] = 0 /\ slot' = Outlived(w)
      BY <1>1, <1>2, <1>3, <1>5, <2>1, <2>3
    <3>2. Holding(w)' = {} /\ Late(w)' = {}
      BY <3>1, OutlivedEmpties DEF Holding, Late
    <3>3. QED
      BY <1>2, <1>5, <3>1, <3>2, FS_EmptySet DEF SlotsFit
  <2>4. QED
    BY <2>2, <2>3
<1>6. CASE v = w /\ ~Wallets!OpensWindow(w)
  <2>1. Wallets!Consumed(w) = attempts[w]
    BY <1>6 DEF Wallets!Consumed
  <2>2. CASE Wallets!Admits(w)
    <3>1. attempts'[w] = attempts[w] + 1 /\ slot' = [slot EXCEPT ![r] = "held"]
      BY <1>1, <1>2, <1>3, <1>6, <2>1, <2>2
    <3>2. Holding(w)' = Holding(w) \cup {r} /\ r \notin Holding(w) /\ Late(w)' = Late(w)
      BY <1>1, <3>1 DEF Holding, Late
    <3>3. Cardinality(Holding(w)') = Cardinality(Holding(w)) + 1
      BY <1>f, <3>2, OneMore
    <3>4. QED
      BY <1>1, <1>2, <1>6, <3>1, <3>2, <3>3, <1>f DEF SlotsFit
  <2>3. CASE ~Wallets!Admits(w)
    BY <1>1, <1>2, <1>3, <1>6, <2>1, <2>3, SlotsFrame
  <2>4. QED
    BY <2>2, <2>3
<1>7. QED
  BY <1>4, <1>5, <1>6

LEMMA RefundSlotFits ==
  ASSUME SlotsInv, NEW r \in Req, GiveBackSlot(r) \/ RefundSlot(r), NEW v \in Wallet
  PROVE  SlotsFit(v)'
<1> DEFINE w == WalletOf[r]
<1> USE DEF SlotsInv, ChargesInv, TypeOK, Wallets!TypeOK
<1>1. w \in Wallet /\ SlotKept(r) /\ attempts[w] \in Nat
  BY RequestAssumption, StoreAssumption
     DEF GiveBackSlot, RefundSlot, Fits, Stage, ChargesFit, Wallets!WindowAssumption
<1>2. /\ slot' = [slot EXCEPT ![r] = Given(r)]
      /\ tracked' = tracked
      /\ attempts' = [attempts EXCEPT ![w] = IF w \in tracked /\ attempts[w] > 0
                                             THEN attempts[w] - 1 ELSE attempts[w]]
  BY DEF GiveBackSlot, RefundSlot, Wallets!Refund
<1>f. /\ IsFiniteSet(Holding(w)) /\ Cardinality(Holding(w)) \in Nat
      /\ IsFiniteSet(Late(w)) /\ Cardinality(Late(w)) \in Nat
  BY HoldersFinite
<1>3. CASE v # w
  BY <1>2, <1>3, SlotsFrame
<1>4. CASE v = w /\ slot[r] = "held"
  <2>1. Holding(w)' = Holding(w) \ {r} /\ r \in Holding(w) /\ Late(w)' = Late(w)
    BY <1>2, <1>4 DEF Given, Holding, Late
  <2>2. Cardinality(Holding(w)') = Cardinality(Holding(w)) - 1
    BY <1>f, <2>1, OneLess
  <2>3. w \in tracked /\ Cardinality(Holding(w)) # 0
    BY <1>1, <1>f, <2>1, FS_EmptySet DEF SlotsFit
  <2>4. attempts'[w] = IF attempts[w] > 0 THEN attempts[w] - 1 ELSE attempts[w]
    BY <1>1, <1>2, <2>3
  <2>5. QED
    BY <1>1, <1>2, <1>4, <2>1, <2>2, <2>3, <2>4, <1>f DEF SlotsFit
<1>5. CASE v = w /\ slot[r] = "stale" /\ w \in tracked /\ attempts[w] > 0
  <2>1. Holding(w)' = Holding(w) /\ Late(w)' = Late(w) \cup {r} /\ r \notin Late(w)
    BY <1>2, <1>5 DEF Given, Holding, Late
  <2>2. Cardinality(Late(w)') = Cardinality(Late(w)) + 1
    BY <1>f, <2>1, OneMore
  <2>3. attempts'[w] = attempts[w] - 1
    BY <1>1, <1>2, <1>5
  <2>4. QED
    BY <1>1, <1>2, <1>5, <2>1, <2>2, <2>3, <1>f DEF SlotsFit
<1>6. CASE v = w /\ slot[r] = "stale" /\ ~(w \in tracked /\ attempts[w] > 0)
  <2>1. Holding(w)' = Holding(w) /\ Late(w)' = Late(w)
    BY <1>2, <1>6 DEF Given, Holding, Late
  <2>2. attempts'[w] = attempts[w]
    BY <1>1, <1>2, <1>6
  <2>3. QED
    BY <1>1, <1>2, <1>6, <2>1, <2>2 DEF SlotsFit
<1>7. QED
  BY <1>1, <1>3, <1>4, <1>5, <1>6 DEF SlotKept

LEMMA SweepWalletsFits ==
  ASSUME SlotsInv, SweepWallets, NEW v \in Wallet
  PROVE  SlotsFit(v)'
<1> USE DEF SlotsInv, ChargesInv, TypeOK, Wallets!TypeOK
<1>1. /\ tracked' = {u \in tracked : windowAge[u] < Window \/ attempts[u] > 0}
      /\ attempts' = attempts
      /\ slot' = [q \in Req |-> IF WalletOf[q] \in tracked \ tracked'
                                THEN Outlived(WalletOf[q])[q] ELSE slot[q]]
  BY DEF SweepWallets, Wallets!EvictExpired
<1>2. CASE v \in tracked \ tracked'
  <2>1. \A q \in Req : WalletOf[q] = v => slot'[q] = Outlived(v)[q]
    BY <1>1, <1>2
  <2>2. Holding(v)' = {} /\ Late(v)' = {}
    BY <2>1, OutlivedEmpties DEF Holding, Late
  <2>3. attempts'[v] = 0
    BY <1>1, <1>2, StoreAssumption DEF Wallets!WindowAssumption
  <2>4. QED
    BY <2>2, <2>3, FS_EmptySet DEF SlotsFit
<1>3. CASE v \notin tracked \ tracked'
  <2>1. \A q \in Req : WalletOf[q] = v => slot'[q] = slot[q]
    BY <1>1, <1>3
  <2>2. QED
    BY <1>1, <1>3, <2>1, SlotsFrame
<1>4. QED
  BY <1>2, <1>3

LEMMA SlotsInvariant == Spec => []SlotsInv
<1>1. Init => \A w \in Wallet : SlotsFit(w)
  <2> SUFFICES ASSUME Init, NEW w \in Wallet PROVE SlotsFit(w)
    OBVIOUS
  <2>1. attempts[w] = 0 /\ Holding(w) = {} /\ Late(w) = {}
    BY DEF Init, Wallets!Init, Holding, Late
  <2>2. QED
    BY <2>1, FS_EmptySet DEF SlotsFit
<1>2. SlotsInv /\ [Next]_vars => (\A w \in Wallet : SlotsFit(w))'
  <2> SUFFICES ASSUME SlotsInv, [Next]_vars, NEW w \in Wallet PROVE SlotsFit(w)'
    OBVIOUS
  <2>1. CASE UNCHANGED <<tracked, attempts, slot>>
    BY <2>1, SlotsFrame DEF SlotsInv
  <2>2. QED
    BY <2>1, SlotSteps, TakeSlotFits, RefundSlotFits, SweepWalletsFits
<1>3. QED
  BY <1>1, <1>2, ChargesInvariant, PTL DEF Spec, SlotsInv

\* SlotsConserved: refunds and attempts balance, whatever windows they meet.
THEOREM SlotsAreConserved == Spec => []SlotsConserved
<1>1. SlotsInv => SlotsConserved
  BY DEF SlotsInv, SlotsFit, SlotsConserved
<1>2. QED
  BY <1>1, SlotsInvariant, PTL

\* FailuresBounded: a wallet fails at most MaxAttempts times in a window, and
\* once more for each refund that reached the window late.
THEOREM FailuresAreBounded == Spec => []FailuresBounded
<1>1. SlotsInv => FailuresBounded
  <2> SUFFICES ASSUME SlotsInv, NEW w \in Wallet
               PROVE  Cardinality(Failures(w)) <= MaxAttempts + Cardinality(Late(w))
    BY DEF FailuresBounded
  <2>1. /\ Cardinality(Failures(w)) \in Nat
        /\ Cardinality(Failures(w)) <= Cardinality(Holding(w))
    BY HoldersFinite, FS_Subset, FS_CardinalityType DEF Failures
  <2>2. /\ attempts[w] \in Nat /\ MaxAttempts \in Nat /\ attempts[w] <= MaxAttempts
        /\ Cardinality(Holding(w)) <= attempts[w] + Cardinality(Late(w))
    BY StoreAssumption DEF SlotsInv, SlotsFit, ChargesInv, TypeOK, Wallets!TypeOK,
       Wallets!WindowAssumption
  <2>3. QED
    BY <2>1, <2>2, HoldersFinite
<1>2. QED
  BY <1>1, SlotsInvariant, PTL

------------------------------------------------------------------------------
(***************************************************************************)
(* The pipeline as a client of the challenge registry.  What every client  *)
(* can rely on is proved once, of the registry (ChallengeRegistryProofs);  *)
(* a step of the pipeline is one of its steps, or leaves it alone.         *)
(***************************************************************************)
Registry == INSTANCE ChallengeRegistryProofs

LEMMA RegistrySteps ==
  ASSUME TypeOK, [Next]_vars
  PROVE  [Registry!Next]_challengeVars
<1>1. nonce \in [Req -> Nonce \cup {NoNonce}]
  BY DEF TypeOK
<1>2. ASSUME NEW w \in Wallet, NEW n \in Nonce, Challenges!Issue(w, n)
      PROVE  Registry!Next
  BY <1>2 DEF Challenges!Issue, Challenges!Kept, Challenges!Expired,
       Registry!Next, Registry!Issue, Registry!Kept, Registry!Expired
<1>3. ASSUME NEW w \in Wallet, NEW n \in Nonce \cup {NoNonce},
             NEW p \in Challenges!Path, Challenges!Consume(w, n, p)
      PROVE  Registry!Next \/ UNCHANGED challengeVars
  <2>1. CASE Challenges!Selects(w, n, p)
    <3>1. n \in Nonce
      BY <2>1 DEF Challenges!Selects, TypeOK, Challenges!TypeOK
    <3>2. Registry!Consume(w, n, p)
      BY <1>3 DEF Challenges!Consume, Challenges!Selects, Challenges!Expired,
           Challenges!vars, Registry!Consume, Registry!Selects, Registry!Expired,
           Registry!vars
    <3>3. QED
      BY <3>1, <3>2 DEF Registry!Next, Challenges!Path, Registry!Path
  <2>2. CASE ~Challenges!Selects(w, n, p)
    BY <1>3, <2>2 DEF Challenges!Consume, Challenges!vars, challengeVars
  <2>3. QED
    BY <2>1, <2>2
<1>4. Challenges!EvictStale => Registry!Next
  BY DEF Challenges!EvictStale, Challenges!Kept, Challenges!KeptPointer,
         Challenges!Expired, Registry!Next, Registry!EvictStale, Registry!Kept,
         Registry!KeptPointer, Registry!Expired
<1>5. Challenges!Pass => Registry!Next
  BY DEF Challenges!Pass, Challenges!Held, Challenges!Expired, Registry!Next,
         Registry!Pass, Registry!Held, Registry!Expired
<1>6. QED
  BY <1>1, <1>2, <1>3, <1>4, <1>5, StoreSteps

\* Every behaviour of the pipeline is, to the registry, one of its own: what
\* holds of the registry whatever its clients do holds here.
THEOREM PipelineRunsRegistry == Spec => Registry!Spec
<1>1. Init => Registry!Init
  BY DEF Init, Challenges!Init, Challenges!Path, Registry!Init, Registry!Path
<1>2. TypeOK /\ [Next]_vars => [Registry!Next]_(Registry!vars)
  BY RegistrySteps DEF Registry!vars, challengeVars
<1> QED
  BY <1>1, <1>2, PipelineTypeOK, PTL DEF Spec, Registry!Spec

\* With every request, /attest and the sweep racing over it, the registry
\* still keeps the promises of the single-use ledger.
THEOREM PipelineImplementsLedger == Spec => Registry!ImplementsLedger
<1>1. Registry!Spec => Registry!ImplementsLedger
  BY StoreAssumption, Registry!RegistryImplementsLedger
<1>2. QED
  BY <1>1, PipelineRunsRegistry, PTL

------------------------------------------------------------------------------
(***************************************************************************)
(* ForwardedAuthorization.  It speaks of requests already at the           *)
(* validator; what makes it inductive is what holds of a signed request    *)
(* from its arrival on.  The look-up that chose the phrase and the         *)
(* consumption that lets the request pass are separate steps: a request    *)
(* whose look-up failed is never let pass, since a nonce once drawn does   *)
(* not become acceptable again.                                            *)
(***************************************************************************)
SignedRequests == {r \in Req : KindOf[r] = "signed"}

\* The requests whose nonce was accepted.
Spent(r) == r \in forwarded \/ pc[r] \in {"forward", "sent", "answered"}

Named(r) ==
  /\ nonce[r] \in Nonce /\ owner[nonce[r]] # NoWallet
  /\ phrase[r] \in {nonce[r], NoNonce}
  /\ phrase[r] = NoNonce => ~Registry!PeekExact(WalletOf[r], nonce[r])

Authorized(r) ==
  /\ owner[nonce[r]] = WalletOf[r]
  /\ accepts[nonce[r]] = [legacy |-> 0, exact |-> 1]
  /\ phrase[r] = nonce[r]

Fresh(r) == \A q \in SignedRequests : Spent(q) /\ nonce[q] = nonce[r] => q = r

SignedFits(r) ==
  /\ r \in forwarded => pc[r] # "idle"
  /\ pc[r] # "idle" => Named(r)
  /\ Spent(r) => Authorized(r) /\ Fresh(r)

SignedInv ==
  /\ TypeOK
  /\ Registry!IInv
  /\ \A r \in SignedRequests : SignedFits(r)

\* What a step does to the part of a signed request that the invariant reads:
\* it arrives, it consumes its nonce, or nothing is newly named or spent.
SignedFrame(r) ==
  /\ nonce'[r] = nonce[r] /\ phrase'[r] = phrase[r]
  /\ pc'[r] = "idle" <=> pc[r] = "idle"
  /\ Spent(r)' => Spent(r)

LEMMA SignedSteps ==
  ASSUME TypeOK, [Next]_vars, NEW r \in SignedRequests
  PROVE  \/ SignedFrame(r)
         \/ \E n \in Nonce \cup {NoNonce} : Arrive(r, n)
         \/ ConsumeNonce(r)
<1> USE DEF SignedFrame, Spent, SignedRequests, TypeOK, locals, control
<1>1. ASSUME NEW q \in Req, NEW n \in Nonce \cup {NoNonce}, Arrive(q, n), q # r
      PROVE  SignedFrame(r)
  BY <1>1 DEF Arrive, Leave, Continue
<1>2. ASSUME NEW q \in Req, ConsumeNonce(q), q # r
      PROVE  SignedFrame(r)
  BY <1>2 DEF ConsumeNonce, Leave, Continue
<1>3. ASSUME NEW q \in Req, Forward(q)
      PROVE  SignedFrame(r)
  BY <1>3 DEF Forward, Leave, Continue
<1>4. ASSUME NEW q \in Req, ReadIdentity(q)
      PROVE  SignedFrame(r)
  <2>1. Continue(q, IF KindOf[q] = "signed" THEN "consume" ELSE "forward")
        /\ UNCHANGED <<nonce, phrase, forwarded>> /\ pc[q] = "identity"
    BY <1>4 DEF ReadIdentity
  <2>2. CASE q = r
    BY <2>1, <2>2 DEF Continue
  <2>3. CASE q # r
    BY <2>1, <2>3 DEF Continue
  <2>4. QED
    BY <2>2, <2>3
<1>5. ASSUME NEW q \in Req, ReceiveAnswer(q)
      PROVE  SignedFrame(r)
  BY <1>5 DEF ReceiveAnswer
<1>6. ASSUME NEW q \in Req,
             \/ CheckBlock(q) \/ ClearBlock(q) \/ ScreenOut(q) \/ TakeSlot(q)
             \/ FindKey(q) \/ RegisterKey(q) \/ TakeQuota(q) \/ GiveBackSlot(q)
             \/ RejectIntent(q) \/ LoseAnswer(q) \/ SettleNoVerdict(q)
             \/ SettleSuccess(q) \/ RefundQuota(q) \/ RefundSlot(q) \/ Cancel(q)
             \/ \E b, a \in BOOLEAN : SettleRejection(q, b, a)
      PROVE  SignedFrame(r)
  <2>1. UNCHANGED <<nonce, phrase, forwarded>> /\ pc[q] # "idle"
    BY <1>6 DEF CheckBlock, ClearBlock, ScreenOut, TakeSlot, FindKey, RegisterKey,
         TakeQuota, GiveBackSlot, RejectIntent, LoseAnswer, SettleNoVerdict,
         SettleSuccess, RefundQuota, RefundSlot, Cancel, SettleRejection
  <2>2. \E x \in PC \ {"idle", "forward", "sent", "answered"} :
          pc' = [pc EXCEPT ![q] = x]
    <3>1. /\ CheckBlock(q) => \/ Leave(q, "refused") \/ Continue(q, "unblock")
                              \/ Continue(q, "slot")
          /\ FindKey(q) => \/ Continue(q, "quota") \/ Continue(q, "register")
                           \/ Continue(q, "giveBack")
      <4>1. block[IpOf[q]] \in {"absent", "active", "expired"}
        BY RequestAssumption
      <4>2. QED
        BY <4>1 DEF CheckBlock, FindKey
    <3>2. \/ \E o : Leave(q, o) \/ LeaveAfter(q, o, "refundQuota")
                    \/ LeaveAfter(q, o, "refundSlot")
          \/ \E to \in {"unblock", "slot", "key", "register", "quota", "giveBack",
                         "refundSlot"} : Continue(q, to)
          \/ pc' = [pc EXCEPT ![q] = "identity"]
      BY <1>6, <3>1 DEF ClearBlock, ScreenOut, TakeSlot, RegisterKey,
         TakeQuota, GiveBackSlot, RejectIntent, LoseAnswer, SettleNoVerdict,
         SettleSuccess, RefundQuota, RefundSlot, Cancel, SettleRejection
    <3>3. QED
      BY <3>2 DEF Leave, LeaveAfter, Continue, PC
  <2>3. QED
    BY <2>1, <2>2
<1>7. CASE \/ \E w \in Wallet, n \in Nonce : IssueChallenge(w, n) \/ Attest(w, n)
           \/ SweepChallenges \/ SweepWallets \/ SweepBlocks \/ Tick
           \/ \E i \in Ip : BlockRunsOut(i)
           \/ UNCHANGED vars
  BY <1>7 DEF IssueChallenge, Attest, SweepChallenges, SweepWallets, SweepBlocks,
       Tick, BlockRunsOut, vars
<1>8. QED
  BY <1>1, <1>2, <1>3, <1>4, <1>5, <1>6, <1>7 DEF Next, Handle

\* What the registry promises of a drawn nonce, in a step of the pipeline.
LEMMA DrawnInPipeline ==
  ASSUME TypeOK, Registry!IInv, [Next]_vars, NEW n \in Nonce, owner[n] # NoWallet
  PROVE  /\ Registry!IInv'
         /\ owner'[n] = owner[n]
         /\ \A w \in Wallet : Registry!PeekExact(w, n)' => Registry!PeekExact(w, n)
         /\ accepts[n]["legacy"] + accepts[n]["exact"] = 1 =>
              accepts'[n] = accepts[n]
<1>1. [Registry!Next]_(Registry!vars)
  BY RegistrySteps DEF Registry!vars, challengeVars
<1>2. Registry!IInv'
  BY <1>1, StoreAssumption, Registry!NextIInv
<1>3. QED
  BY <1>1, <1>2, StoreAssumption, Registry!DrawnNonce

\* The promises carry what is known of an undisturbed request over a step.
LEMMA SignedKept ==
  ASSUME SignedInv, [Next]_vars, NEW r \in SignedRequests, SignedFrame(r)
  PROVE  /\ r \in forwarded' => pc'[r] # "idle"
         /\ pc'[r] # "idle" => Named(r)'
         /\ Spent(r)' => Authorized(r)'
<1>1. WalletOf[r] \in Wallet /\ SignedFits(r) /\ r \in Req
  BY RequestAssumption DEF SignedInv, SignedRequests
<1>2. r \in forwarded' => pc'[r] # "idle"
  BY <1>1 DEF SignedFrame, SignedFits, Spent
<1>3. ASSUME pc[r] # "idle"
      PROVE  Named(r)' /\ (Spent(r)' => Authorized(r)')
  <2>1. Named(r)
    BY <1>1, <1>3 DEF SignedFits
  <2> PICK n \in Nonce : n = nonce[r]
    BY <2>1 DEF Named
  <2>2. /\ owner'[n] = owner[n]
        /\ Registry!PeekExact(WalletOf[r], n)' => Registry!PeekExact(WalletOf[r], n)
        /\ accepts[n]["legacy"] + accepts[n]["exact"] = 1 => accepts'[n] = accepts[n]
    BY <1>1, <2>1, DrawnInPipeline DEF Named, SignedInv
  <2>3. nonce'[r] = nonce[r] /\ phrase'[r] = phrase[r] /\ (Spent(r)' => Spent(r))
    BY DEF SignedFrame
  <2>4. Named(r)'
    BY <2>1, <2>2, <2>3 DEF Named, Registry!PeekExact, Registry!Expired
  <2>5. Spent(r)' => Authorized(r)'
    BY <1>1, <2>2, <2>3 DEF SignedFits, Authorized
  <2>6. QED
    BY <2>4, <2>5
<1>4. QED
  BY <1>2, <1>3 DEF SignedFrame, Spent

\* A signed request arrives with a nonce that was drawn, and unspent.
LEMMA ArriveNamed ==
  ASSUME SignedInv, NEW r \in SignedRequests, NEW n \in Nonce \cup {NoNonce},
         Arrive(r, n)
  PROVE  pc'[r] # "idle" /\ Named(r)' /\ ~Spent(r)'
<1> USE DEF SignedInv, TypeOK, SignedRequests
<1>1. KindOf[r] = "signed" /\ r \in Req /\ pc[r] = "idle" /\ r \notin forwarded
  BY DEF Arrive, SignedFits
<1>2. n \in Nonce /\ owner[n] # NoWallet
  BY <1>1 DEF Arrive, Authorizes
<1>3. nonce'[r] = n /\ phrase'[r] = IssuedChallenge(r, n) /\ UNCHANGED <<challengeVars, forwarded>>
  BY <1>1 DEF Arrive, locals
<1>4. IssuedChallenge(r, n) = IF Challenges!PeekExact(WalletOf[r], n) THEN n ELSE NoNonce
  BY <1>1 DEF IssuedChallenge
<1>5. Challenges!PeekExact(WalletOf[r], n) <=> Registry!PeekExact(WalletOf[r], n)
  BY DEF Challenges!PeekExact, Challenges!Expired, Registry!PeekExact, Registry!Expired
<1>6. pc'[r] \in {"refundQuota", "done", "screen"}
  BY <1>1 DEF Arrive, Leave, Continue
<1>7. Named(r)'
  BY <1>2, <1>3, <1>4, <1>5, StoreAssumption
     DEF Named, challengeVars, Registry!PeekExact, Registry!Expired
<1>8. QED
  BY <1>1, <1>3, <1>6, <1>7 DEF Spent

\* A request that gets past the consumption found its nonce held, hence issued
\* to its wallet and never accepted before; and its look-up had found it too.
LEMMA ConsumeAuthorizes ==
  ASSUME SignedInv, [Next]_vars, NEW r \in SignedRequests, ConsumeNonce(r)
  PROVE  /\ r \in forwarded' => pc'[r] # "idle"
         /\ Named(r)'
         /\ Spent(r)' => Authorized(r)'
         /\ Spent(r)' => Spent(r) \/ \A q \in SignedRequests :
                                       Spent(q) => nonce[q] # nonce[r]
         /\ UNCHANGED <<nonce, forwarded>>
<1> DEFINE w == WalletOf[r]
<1> USE DEF SignedInv, SignedRequests
<1>1. /\ r \in Req /\ w \in Wallet /\ pc[r] = "consume" /\ pc \in [Req -> PC]
      /\ SignedFits(r)
  BY RequestAssumption DEF ConsumeNonce, TypeOK
<1>2. Named(r)
  BY <1>1 DEF SignedFits
<1> PICK n \in Nonce : n = nonce[r]
  BY <1>2 DEF Named
<1>3. UNCHANGED <<nonce, phrase, forwarded>>
  BY DEF ConsumeNonce, locals
<1>4. /\ owner'[n] = owner[n]
      /\ Registry!PeekExact(w, n)' => Registry!PeekExact(w, n)
      /\ accepts[n]["legacy"] + accepts[n]["exact"] = 1 => accepts'[n] = accepts[n]
  BY <1>1, <1>2, DrawnInPipeline DEF Named
<1>5. Named(r)'
  BY <1>2, <1>3, <1>4 DEF Named, Registry!PeekExact, Registry!Expired
<1>6. pc'[r] # "idle"
  BY <1>1 DEF ConsumeNonce, Leave, Continue
<1>7. CASE Challenges!Accepts(w, n, "exact")
  <2>1. Registry!PeekExact(w, n) /\ Registry!Held(n) /\ ~Registry!Expired(n)
    BY <1>1, <1>7 DEF Challenges!Accepts, Challenges!Selects, Challenges!Expired,
         Registry!PeekExact, Registry!Held, Registry!Expired
  <2>2. phrase[r] = n
    BY <1>2, <2>1 DEF Named
  <2>3. owner[n] = w
    BY <1>1, <2>1 DEF Registry!IInv, Registry!HeldByOwner, Registry!PeekExact
  <2>4. accepts[n] \in [{"legacy", "exact"} -> Nat] /\ accepts \in [Nonce -> [{"legacy", "exact"} -> Nat]]
    BY <1>2 DEF Registry!IInv, Registry!TypeOK, Registry!Path
  <2>5. accepts[n]["legacy"] + accepts[n]["exact"] = 0
    <3>1. Registry!SingleUse
      BY DEF Registry!IInv
    <3>2. accepts[n]["legacy"] \in Nat /\ accepts[n]["exact"] \in Nat
      BY <2>4
    <3>3. QED
      BY <2>1, <3>1, <3>2 DEF Registry!SingleUse
  <2>6. accepts' = [accepts EXCEPT ![n]["exact"] = @ + 1]
    BY <1>7 DEF ConsumeNonce, Challenges!Consume, Challenges!Accepts
  <2>7. accepts'[n] = [legacy |-> 0, exact |-> 1]
    <3>1. accepts'[n] = [accepts[n] EXCEPT !["exact"] = @ + 1]
      BY <1>2, <2>4, <2>6
    <3>2. accepts[n]["legacy"] = 0 /\ accepts[n]["exact"] = 0
      BY <2>4, <2>5
    <3>3. QED
      BY <2>4, <3>1, <3>2
  <2>8. Authorized(r)'
    BY <1>3, <1>4, <2>2, <2>3, <2>7 DEF Authorized
  <2>9. \A q \in SignedRequests : Spent(q) => nonce[q] # n
    BY <2>5 DEF SignedFits, Authorized
  <2>10. QED
    BY <1>3, <1>5, <1>6, <2>8, <2>9
<1>8. CASE ~Challenges!Accepts(w, n, "exact")
  <2>1. pc'[r] \in {"refundQuota", "done"}
    BY <1>1, <1>8 DEF ConsumeNonce, Leave
  <2>2. Spent(r)' => Spent(r)
    BY <1>3, <2>1 DEF Spent
  <2>3. Spent(r) => Authorized(r)'
    BY <1>1, <1>3, <1>4 DEF SignedFits, Authorized
  <2>4. QED
    BY <1>3, <1>5, <1>6, <2>2, <2>3
<1>9. QED
  BY <1>7, <1>8

LEMMA NextSignedInv == SignedInv /\ [Next]_vars => SignedInv'
<1> SUFFICES ASSUME SignedInv, [Next]_vars PROVE SignedInv'
  OBVIOUS
<1>1. TypeOK'
  BY NextTypeOK DEF SignedInv
<1>2. Registry!IInv'
  <2>1. [Registry!Next]_(Registry!vars)
    BY RegistrySteps DEF SignedInv, Registry!vars, challengeVars
  <2>2. QED
    BY <2>1, StoreAssumption, Registry!NextIInv DEF SignedInv
<1>3. ASSUME NEW r \in SignedRequests
      PROVE  /\ r \in forwarded' => pc'[r] # "idle"
             /\ pc'[r] # "idle" => Named(r)'
             /\ Spent(r)' => Authorized(r)'
  BY SignedSteps, SignedKept, ArriveNamed, ConsumeAuthorizes DEF SignedInv, Spent
<1>4. ASSUME NEW r \in SignedRequests, Spent(r)'
      PROVE  /\ nonce'[r] = nonce[r]
             /\ Spent(r) \/ \A q \in SignedRequests : Spent(q) => nonce[q] # nonce[r]
             /\ ~Spent(r) => ConsumeNonce(r)
  BY <1>4, SignedSteps, ArriveNamed, ConsumeAuthorizes
     DEF SignedInv, SignedFrame
<1>5. ASSUME NEW r \in SignedRequests, NEW q \in SignedRequests,
             Spent(r)', Spent(q)', nonce'[q] = nonce'[r]
      PROVE  q = r
  <2>1. nonce[q] = nonce[r]
    BY <1>4, <1>5
  <2>2. CASE Spent(r) /\ Spent(q)
    BY <2>1, <2>2 DEF SignedInv, SignedFits, Fresh
  <2>3. CASE ~Spent(r) /\ ~Spent(q)
    <3>1. ConsumeNonce(r) /\ ConsumeNonce(q) /\ r \in Req /\ q \in Req
      BY <1>4, <1>5, <2>3 DEF SignedRequests
    <3>2. pc[r] = "consume" /\ pc'[r] # "consume"
      BY <3>1 DEF SignedInv, TypeOK, ConsumeNonce, Continue, Leave
    <3>3. q # r => pc'[r] = pc[r]
      BY <3>1 DEF SignedInv, TypeOK, ConsumeNonce, Continue, Leave
    <3>4. QED
      BY <3>2, <3>3
  <2>4. QED
    BY <1>4, <1>5, <2>1, <2>2, <2>3
<1>6. QED
  BY <1>1, <1>2, <1>3, <1>5 DEF SignedInv, SignedFits, Fresh, SignedRequests

LEMMA SignedInvariant == Spec => []SignedInv
<1>1. Init => SignedInv
  <2>1. Init => Registry!Init
    BY DEF Init, Challenges!Init, Challenges!Path, Registry!Init, Registry!Path
  <2>2. Init => Registry!IInv
    BY <2>1, StoreAssumption, Registry!InitIInv
  <2>3. Init => \A r \in SignedRequests : SignedFits(r)
    BY DEF Init, SignedRequests, SignedFits, Spent
  <2>4. QED
    BY <2>2, <2>3, InitTypeOK DEF SignedInv
<1>2. QED
  BY <1>1, NextSignedInv, PTL DEF Spec

\* ForwardedAuthorization: a signed capture is at the validator only with a
\* nonce issued to its own wallet and consumed by it alone, and with that
\* nonce's phrase, however long ago it looked the challenge up and whatever
\* /challenge, /attest, the sweep and other requests did in between
\* (authorization_intent and validate_and_consume_exact in handler.rs).
THEOREM ForwardedAreAuthorized == Spec => []ForwardedAuthorization
<1>1. SignedInv => ForwardedAuthorization
  BY DEF SignedInv, TypeOK, ForwardedAuthorization, SignedRequests, SignedFits,
         Spent, Authorized, Fresh
<1>2. QED
  BY <1>1, SignedInvariant, PTL
==============================================================================
