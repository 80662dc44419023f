-------------------------- MODULE GrinSwapRefinement --------------------------
(***************************************************************************)
(* GrinSwap implements AtomicSwap, proved for every value of its           *)
(* constants: the initial states correspond, and each of GrinSwap's steps  *)
(* is one of AtomicSwap's or changes nothing that AtomicSwap sees.  Most   *)
(* change nothing: a step matters when it publishes a transaction, when    *)
(* its deposit completes the amount, or when it sends a signature.  That   *)
(* these happen in AtomicSwap's order is what the invariant of             *)
(* GrinSwapProofs gives (Holders, below).                                  *)
(***************************************************************************)
EXTENDS GrinSwapProofs, GrinSwapRefines

LEMMA PaidIsEnough ==
    ASSUME Cardinality(Mined) >= Required
    PROVE  Cardinality(Paid) >= Required
<1>1. Mined \subseteq Paid /\ Paid \subseteq Deposits
  BY DEF Mined, Paid, Mempool, NoTx
<1>2. IsFiniteSet(Paid) /\ IsFiniteSet(Mined)
  BY <1>1, ChainAssumption, FS_Subset
<1>3. /\ Cardinality(Mined) <= Cardinality(Paid)
      /\ Cardinality(Mined) \in Nat /\ Cardinality(Paid) \in Nat
  BY <1>1, <1>2, FS_Subset, FS_CardinalityType
<1> QED BY <1>3, RequiredAssumption

\* The Buyer pledges itself only when both assets are locked.
LockedFirst ==
    SentInitRedeem => grin.lock # NoTx /\ Cardinality(Paid) >= Required

LEMMA LockedFirstFollows == IInv => LockedFirst
BY CommitsFollow, PaidIsEnough
   DEF LockedFirst, CommitOnlyWhenLocked, SentInitRedeem, Mempool, NoTx

\* How far the swap has come tells how far it had to come before.
LEMMA Holders ==
    ASSUME IInv
    PROVE  /\ SentRedeem => SentInitRedeem
           /\ grin.redeem # NoTx => SentRedeem
           /\ qtum.sec # NoTx => grin.redeem # NoTx
           /\ SentInitRedeem => grin.lock # NoTx /\ Cardinality(Paid) >= Required
<1>1. SentRedeem => SentInitRedeem
  BY DEF IInv, NetInv, SentRedeem, SentInitRedeem, Msg
<1>2. grin.redeem # NoTx => SentRedeem
  BY DEF IInv, ChainInv, SentRedeem, Msg
<1>3. qtum.sec # NoTx => grin.redeem # NoTx
  BY DEF IInv, ChainInv
<1>4. SentInitRedeem => grin.lock # NoTx /\ Cardinality(Paid) >= Required
  BY LockedFirstFollows DEF LockedFirst
<1> QED BY <1>1, <1>2, <1>3, <1>4

LEMMA InitRefines == Init => Swap!Init
<1> SUFFICES ASSUME Init PROVE Swap!Init
  OBVIOUS
<1>1. GrinHolder = "seller" /\ qtum.sec = NoTx
  BY DEF Init, ChainInit, GrinHolder
<1>2. QtumHolder = "buyer"
  <2>1. Paid = {}
    BY DEF Init, ChainInit, Paid
  <2>2. Cardinality(Paid) = 0
    BY <2>1, FS_EmptySet
  <2> QED BY <1>1, <2>2, RequiredAssumption DEF QtumHolder
<1>3. Pledged = {}
  BY DEF Init, Foreign, Pledged, SentInitRedeem, SentRedeem
<1> QED BY <1>1, <1>2, <1>3 DEF Swap!Init

-----------------------------------------------------------------------------
(* Steps that AtomicSwap does not see *)

LEMMA BlocksAreUnseen ==
    ASSUME ChainTypeOK,
           \/ (GrinMineBlock \/ GrinUndoBlock) /\ UNCHANGED <<qtum, net>>
           \/ (QtumMineBlock \/ QtumUndoBlock) /\ UNCHANGED <<grin, net>>
    PROVE  UNCHANGED <<GrinHolder, QtumHolder, Pledged>>
<1>1. UNCHANGED Pledged
  BY DEF Pledged, SentInitRedeem, SentRedeem
<1>2. CASE (GrinMineBlock \/ GrinUndoBlock) /\ UNCHANGED <<qtum, net>>
  <2>1. grin.redeem # NoTx <=> grin'.redeem # NoTx
    BY <1>2, GrinBlockProgress
  <2>2. grin.lock # NoTx <=> grin'.lock # NoTx
    <3>1. CASE GrinMineBlock
      <4>1. grin'.lock = MinedAt(grin.height + 1, grin.lock)
        BY <3>1 DEF GrinMineBlock, ChainTypeOK, GrinType
      <4> QED BY <4>1 DEF ChainTypeOK, GrinType, MinedAt, Mempool, NoTx
    <3>2. CASE GrinUndoBlock
      <4>1. grin'.lock = Unmined(grin.height, grin.lock)
        BY <3>2 DEF GrinUndoBlock, ChainTypeOK, GrinType
      <4> QED BY <4>1 DEF ChainTypeOK, GrinType, Unmined, Mempool, NoTx
    <3> QED BY <1>2, <3>1, <3>2
  <2>3. UNCHANGED GrinHolder
    BY <2>1, <2>2 DEF GrinHolder
  <2>4. UNCHANGED QtumHolder
    BY <1>2 DEF QtumHolder, Paid
  <2> QED BY <1>1, <2>3, <2>4
<1>3. CASE (QtumMineBlock \/ QtumUndoBlock) /\ UNCHANGED <<grin, net>>
  <2>1. qtum.sec # NoTx <=> qtum'.sec # NoTx
    BY <1>3, QtumBlockProgress
  <2>2. \A d \in Deposits : qtum.dep[d] # NoTx <=> qtum'.dep[d] # NoTx
    <3>1. CASE QtumMineBlock
      <4>1. \A d \in Deposits : qtum'.dep[d] = MinedAt(qtum.height + 1, qtum.dep[d])
        BY <3>1 DEF QtumMineBlock, ChainTypeOK, QtumType
      <4> QED BY <4>1 DEF ChainTypeOK, QtumType, MinedAt, Mempool, NoTx
    <3>2. CASE QtumUndoBlock
      <4>1. \A d \in Deposits : qtum'.dep[d] = Unmined(qtum.height, qtum.dep[d])
        BY <3>2 DEF QtumUndoBlock, ChainTypeOK, QtumType
      <4> QED BY <4>1 DEF ChainTypeOK, QtumType, Unmined, Mempool, NoTx
    <3> QED BY <1>3, <3>1, <3>2
  <2>3. Paid' = Paid
    BY <2>2 DEF Paid
  <2>4. UNCHANGED QtumHolder
    BY <2>1, <2>3 DEF QtumHolder
  <2>5. UNCHANGED GrinHolder
    BY <1>3 DEF GrinHolder
  <2> QED BY <1>1, <2>4, <2>5
<1> QED BY <1>2, <1>3

LEMMA RestIsUnseen ==
    ASSUME UNCHANGED <<grin, qtum, net>>
    PROVE  UNCHANGED <<GrinHolder, QtumHolder, Pledged>>
BY DEF GrinHolder, QtumHolder, Paid, Pledged, SentInitRedeem, SentRedeem

-----------------------------------------------------------------------------
(* Steps that AtomicSwap sees *)

LEMMA LockRefines ==
    ASSUME IInv, NEW a \in PostAnswers, NEW g \in Answers, NEW q \in Answers,
           SellerPublish(a, g, q)
    PROVE  Swap!LockGrin
<1>1. grin.lock = NoTx /\ UNCHANGED <<qtum, net>>
  BY DEF SellerPublish, GrinTakesLock
<1>2. grin.redeem = NoTx
  BY <1>1, Holders
<1>3. grin'.lock = Mempool /\ grin'.redeem = NoTx
  BY <1>2 DEF SellerPublish, IInv, TypeOK, GrinType
<1>4. GrinHolder = "seller" /\ GrinHolder' = "locked"
  BY <1>1, <1>2, <1>3 DEF GrinHolder, Mempool, NoTx
<1>5. UNCHANGED <<QtumHolder, Pledged>>
  BY <1>1 DEF QtumHolder, Paid, Pledged, SentInitRedeem, SentRedeem
<1> QED BY <1>4, <1>5 DEF Swap!LockGrin

LEMMA DepositRefines ==
    ASSUME IInv, NEW d \in Deposits, BuyerDeposit(d)
    PROVE  Swap!LockQtum \/ UNCHANGED Swap!vars
<1>1. UNCHANGED <<GrinHolder, Pledged>>
  BY DEF BuyerDeposit, GrinHolder, Pledged, SentInitRedeem, SentRedeem
<1>2. qtum'.sec = qtum.sec
  BY DEF BuyerDeposit, IInv, TypeOK, QtumType
<1>3. CASE qtum.sec # NoTx
  BY <1>1, <1>2, <1>3 DEF QtumHolder, Swap!vars
<1>4. CASE qtum.sec = NoTx
  <2>1. \A e \in Deposits : qtum.dep[e] # NoTx => qtum'.dep[e] # NoTx
    BY DEF BuyerDeposit, IInv, TypeOK, QtumType, Mempool, NoTx
  <2>2. Paid \subseteq Paid' /\ Paid' \subseteq Deposits
    BY <2>1 DEF Paid
  <2>3. /\ IsFiniteSet(Paid') /\ IsFiniteSet(Paid)
        /\ Cardinality(Paid) <= Cardinality(Paid')
    BY <2>2, ChainAssumption, FS_Subset
  <2>4. Cardinality(Paid) \in Nat /\ Cardinality(Paid') \in Nat
    BY <2>3, FS_CardinalityType
  <2>5. Cardinality(Paid) >= Required => Cardinality(Paid') >= Required
    BY <2>3, <2>4, RequiredAssumption
  <2>6. \/ QtumHolder = "buyer" /\ QtumHolder' = "locked"
        \/ QtumHolder' = QtumHolder
    BY <1>2, <1>4, <2>5 DEF QtumHolder
  <2> QED BY <1>1, <2>6 DEF Swap!LockQtum, Swap!vars
<1> QED BY <1>3, <1>4

LEMMA BuyerSendRefines ==
    ASSUME IInv, LockedFirst', BuyerSend
    PROVE  Swap!BuyerPledges \/ UNCHANGED Swap!vars
<1>0. UNCHANGED <<grin, qtum>> /\ net' = net \cup BuyerMessages
  BY DEF BuyerSend
<1>1. UNCHANGED <<GrinHolder, QtumHolder>>
  BY <1>0 DEF GrinHolder, QtumHolder, Paid
<1>2. SentRedeem' <=> SentRedeem
  BY <1>0 DEF BuyerMessages, Msg, SentRedeem
<1>3. SentInitRedeem => SentInitRedeem'
  BY <1>0 DEF SentInitRedeem
<1>4. CASE SentInitRedeem' = SentInitRedeem
  BY <1>1, <1>2, <1>4 DEF Pledged, Swap!vars
<1>5. CASE SentInitRedeem' /\ ~SentInitRedeem
  <2>1. ~SentRedeem /\ grin.redeem = NoTx /\ qtum.sec = NoTx
    BY <1>5, Holders
  <2>2. grin'.lock # NoTx /\ Cardinality(Paid') >= Required
    BY <1>5 DEF LockedFirst
  <2>3. GrinHolder = "locked" /\ QtumHolder = "locked"
    BY <1>0, <2>1, <2>2 DEF GrinHolder, QtumHolder, Paid
  <2>4. Pledged = {} /\ Pledged' = {"buyer"}
    BY <1>2, <1>5, <2>1 DEF Pledged
  <2> QED BY <1>1, <2>3, <2>4 DEF Swap!BuyerPledges
<1>6. SentInitRedeem \in BOOLEAN /\ SentInitRedeem' \in BOOLEAN
  BY DEF SentInitRedeem
<1> QED BY <1>3, <1>4, <1>5, <1>6

LEMMA SellerSendRefines ==
    ASSUME IInv, SellerSend
    PROVE  Swap!SellerPledges \/ UNCHANGED Swap!vars
<1>0. UNCHANGED <<grin, qtum>> /\ net' = net \cup SellerMessages
  BY DEF SellerSend
<1>1. UNCHANGED <<GrinHolder, QtumHolder>>
  BY <1>0 DEF GrinHolder, QtumHolder, Paid
<1>2. SentInitRedeem' <=> SentInitRedeem
  BY <1>0 DEF SellerMessages, Msg, SentInitRedeem
<1>3. CASE SentRedeem
  <2>1. SentRedeem'
    BY <1>0, <1>3 DEF SentRedeem
  <2> QED BY <1>1, <1>2, <1>3, <2>1 DEF Pledged, Swap!vars
<1>4. CASE ~SentRedeem /\ ~SentRedeem'
  BY <1>1, <1>2, <1>4 DEF Pledged, Swap!vars
<1>5. CASE ~SentRedeem /\ SentRedeem'
  <2>1. seller.status = "InitRedeem"
    BY <1>0, <1>5 DEF SellerMessages, Msg, SentRedeem
  <2>2. SentInitRedeem
    BY <2>1 DEF IInv, SellerInv, SellerOK, Signed, SentInitRedeem, Msg
  <2>3. Pledged = {"buyer"} /\ Pledged' = {"buyer", "seller"}
    BY <1>2, <1>5, <2>2 DEF Pledged
  <2> QED BY <1>1, <2>3 DEF Swap!SellerPledges
<1> QED BY <1>3, <1>4, <1>5

LEMMA TakeGrinRefines ==
    ASSUME IInv, NEW a \in PostAnswers, NEW g \in Answers, NEW q \in Answers,
           BuyerPublish(a, g, q)
    PROVE  Swap!TakeGrin
<1>1. SentRedeem
  BY DEF BuyerPublish, IInv, BuyerInv, BuyerOK, HasRedeem, SentRedeem, Msg
<1>2. SentInitRedeem /\ grin.lock # NoTx /\ Cardinality(Paid) >= Required
  BY <1>1, Holders
<1>3. grin.redeem = NoTx
  BY DEF BuyerPublish, GrinTakesRedeem
<1>4. qtum.sec = NoTx
  BY <1>3, Holders
<1>5. grin'.redeem # NoTx
  BY DEF BuyerPublish, IInv, TypeOK, GrinType, Mempool, NoTx
<1>6. GrinHolder = "locked" /\ QtumHolder = "locked" /\ GrinHolder' = "buyer"
  BY <1>2, <1>3, <1>4, <1>5 DEF GrinHolder, QtumHolder
<1>7. Pledged = {"buyer", "seller"}
  BY <1>1, <1>2 DEF Pledged
<1>8. UNCHANGED <<QtumHolder, Pledged>>
  BY DEF BuyerPublish, QtumHolder, Paid, Pledged, SentInitRedeem, SentRedeem
<1> QED BY <1>6, <1>7, <1>8 DEF Swap!TakeGrin

LEMMA TakeQtumRefines ==
    ASSUME IInv, NEW a \in PostAnswers, NEW g \in Answers, NEW q \in Answers,
           SellerPublishSecondary(a, g, q)
    PROVE  Swap!TakeQtum
<1>1. grin.redeem # NoTx
  BY DEF SellerPublishSecondary, IInv, SellerInv, SellerOK
<1>2. Cardinality(Paid) >= Required
  BY <1>1, Holders
<1>3. qtum.sec = NoTx /\ qtum'.sec # NoTx
  BY DEF SellerPublishSecondary, QtumTakes, IInv, TypeOK, QtumType, Mempool, NoTx
<1>4. GrinHolder = "buyer" /\ QtumHolder = "locked" /\ QtumHolder' = "seller"
  BY <1>1, <1>2, <1>3 DEF GrinHolder, QtumHolder
<1>5. UNCHANGED <<GrinHolder, Pledged>>
  BY DEF SellerPublishSecondary, GrinHolder, Pledged, SentInitRedeem, SentRedeem
<1> QED BY <1>4, <1>5 DEF Swap!TakeQtum

-----------------------------------------------------------------------------
LEMMA StepRefines == IInv /\ LockedFirst' /\ [Next]_vars => [Swap!Next]_Swap!vars
<1> SUFFICES ASSUME IInv, LockedFirst', [Next]_vars
             PROVE  Swap!Next \/ UNCHANGED Swap!vars
  OBVIOUS
<1> USE DEF Swap!Next
<1>t. ChainTypeOK
  BY DEF IInv, TypeOK, ChainTypeOK
<1>u. UNCHANGED <<grin, qtum, net>> => UNCHANGED Swap!vars
  BY RestIsUnseen DEF Swap!vars
<1>1. CASE SellerNext
  <2>1. CASE SellerSend
    BY <2>1, SellerSendRefines
  <2>2. CASE \E g, q \in Answers, a \in PostAnswers : SellerPublish(a, g, q)
    BY <2>2, LockRefines
  <2>3. CASE \E g, q \in Answers, a \in PostAnswers : SellerPublishSecondary(a, g, q)
    BY <2>3, TakeQtumRefines
  <2>4. CASE SellerCreate \/ SellerCompleted \/ \E m \in net : SellerReceive(m)
    BY <1>u, <2>4 DEF SellerCreate, SellerCompleted, SellerReceive
  <2>5. CASE \E g, q \in Answers : SellerMessageSent(g, q) \/ SellerPoll(g, q)
    BY <1>u, <2>5 DEF SellerMessageSent, SellerPoll
  <2> QED BY <1>1, <2>1, <2>2, <2>3, <2>4, <2>5 DEF SellerNext
<1>2. CASE BuyerNext
  <2>1. CASE BuyerSend
    BY <2>1, BuyerSendRefines
  <2>2. CASE \E d \in Deposits : BuyerDeposit(d)
    BY <2>2, DepositRefines
  <2>3. CASE \E g, q \in Answers, a \in PostAnswers : BuyerPublish(a, g, q)
    BY <2>3, TakeGrinRefines
  <2>4. CASE BuyerCompleted \/ \E m \in net : BuyerAccept(m) \/ BuyerReceive(m)
    BY <1>u, <2>4 DEF BuyerCompleted, BuyerAccept, BuyerReceive
  <2>5. CASE \E g, q \in Answers : BuyerMessageSent(g, q) \/ BuyerPoll(g, q)
    BY <1>u, <2>5 DEF BuyerMessageSent, BuyerPoll
  <2> QED BY <1>2, <2>1, <2>2, <2>3, <2>4, <2>5 DEF BuyerNext
<1>3. CASE Environment
  <2>1. CASE MineGrin \/ MineQtum \/ UndoGrin \/ UndoQtum
    BY <1>t, <2>1, BlocksAreUnseen
       DEF MineGrin, MineQtum, UndoGrin, UndoQtum, Swap!vars
  <2>2. CASE Save \/ Restart
    BY <1>u, <2>2 DEF Save, Restart
  <2> QED BY <1>3, <2>1, <2>2 DEF Environment
<1>4. CASE UNCHANGED vars
  BY <1>u, <1>4 DEF vars
<1> QED BY <1>1, <1>2, <1>3, <1>4 DEF Next

(* Whatever fails, crashes or is taken back, the two parties' operations are *)
(* the steps of one atomic swap.                                             *)
THEOREM GrinSwapIsAtomic == Spec => IsAtomicSwap
<1>1. Init => Swap!Init
  BY InitRefines
<1>2. IInv /\ LockedFirst' /\ [Next]_vars => [Swap!Next]_Swap!vars
  BY StepRefines
<1> QED BY <1>1, <1>2, Inductive, LockedFirstFollows, PTL DEF Spec, IsAtomicSwap, Swap!Spec
=============================================================================
