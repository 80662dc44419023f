--------------------------- MODULE GrinSwapProofs ---------------------------
(***************************************************************************)
(* The safety of GrinSwap, proved for every number of deposits, thresholds *)
(* of confirmations, undone blocks and crashes.                            *)
(*                                                                         *)
(* The argument.  Confirmations can be lost to a reorganisation, but       *)
(* confirmations plus undone blocks cannot: they grow with every block and *)
(* a block taken back moves one from the first to the second.  Whatever a  *)
(* party once read, kept or restored is therefore bounded by a quantity    *)
(* that only grows (GrinReach, Settled), and since fewer blocks are undone *)
(* than either threshold asks for, what has once reached its threshold     *)
(* stays in a block.  To this the invariant adds what the messages on the  *)
(* net commit their senders to, in memory and on disk.                     *)
(***************************************************************************)
EXTENDS GrinSwap, FiniteSetTheorems, TLAPS

ChainTypeOK == grin \in GrinType /\ qtum \in QtumType

LEMMA ConfirmationsType ==
    ASSUME NEW height \in Nat, NEW h \in Nat
    PROVE  Confirmations(height, h) \in Nat
BY DEF Confirmations

LEMMA LockReadType ==
    ASSUME ChainTypeOK, LockOutputUnspent
    PROVE  Confirmations(grin.height, grin.lock) \in Nat
<1>1. grin.height \in Nat /\ grin.lock \in Nat
  BY DEF ChainTypeOK, GrinType, LockOutputUnspent, TxHeight, Mempool, NoTx
<1> QED BY <1>1, ConfirmationsType

LEMMA UpdateSellerType ==
    ASSUME ChainTypeOK, NEW s \in SellerType
    PROVE  UpdateLockConf(s) \in SellerType
BY LockReadType DEF UpdateLockConf, SellerType, Count

LEMMA SellerRequiredType ==
    ASSUME ChainTypeOK, NEW s \in SellerType, NEW g, NEW q
    PROVE  SellerRequired(s, g, q) \in SellerType
<1>1. ASSUME NEW t \in SellerType
      PROVE  SellerCheckDeposits(t, q) \in SellerType
  <2>1. ConfirmedOutputs \in SUBSET Deposits
    BY DEF ConfirmedOutputs
  <2>2. Funded \in BOOLEAN
    BY DEF Funded
  <2> QED
    BY <2>1, <2>2 DEF SellerCheckDeposits, SellerType, SellerStatus
<1>2. SellerCheckLocks(s, g, q) \in SellerType
  BY <1>1, UpdateSellerType DEF SellerCheckLocks
<1>3. \A t \in SellerType : SellerBuildRedeemTx(t) \in SellerType
  BY DEF SellerBuildRedeemTx, SellerType, SellerStatus
<1>4. SellerWatchRedeem(s, g) \in SellerType
  <2>1. CASE KernelOnChain(s.slate)
    <3> grin.height \in Nat /\ grin.redeem \in Nat
      BY <2>1 DEF KernelOnChain, ChainTypeOK, GrinType, TxHeight, Mempool, NoTx
    <3>1. Confirmations(grin.height, grin.redeem) \in Nat
      BY ConfirmationsType
    <3>2. [s EXCEPT !.redeemConf = Confirmations(grin.height, grin.redeem)]
             \in SellerType
      BY <3>1 DEF SellerType, Count
    <3> QED BY <1>3, <3>2 DEF SellerWatchRedeem
  <2>2. CASE ~KernelOnChain(s.slate)
    BY <1>3, <2>2 DEF SellerWatchRedeem
  <2> QED BY <2>1, <2>2
<1>5. SellerUpdateRedeem(s, q) \in SellerType
  <2>1. CASE qtum.sec > Mempool
    <3> qtum.height \in Nat /\ qtum.sec \in Nat
      BY <2>1 DEF ChainTypeOK, QtumType, TxHeight, Mempool, NoTx
    <3>1. Confirmations(qtum.height, qtum.sec) \in Nat
      BY ConfirmationsType
    <3> QED BY <3>1 DEF SellerUpdateRedeem, SellerType, Count
  <2>2. CASE ~(qtum.sec > Mempool)
    BY <2>2 DEF SellerUpdateRedeem
  <2> QED BY <2>1, <2>2
<1> QED BY <1>2, <1>4, <1>5 DEF SellerRequired

LEMMA UpdateBuyerType ==
    ASSUME ChainTypeOK, NEW b \in BuyerType
    PROVE  UpdateLockConf(b) \in BuyerType
BY LockReadType DEF UpdateLockConf, BuyerType, Count

LEMMA BuyerRequiredType ==
    ASSUME ChainTypeOK, NEW b \in BuyerType, NEW g, NEW q, NEW fresh \in Nat
    PROVE  BuyerRequired(b, g, q, fresh) \in BuyerType
<1>1. \A t \in BuyerType : BuyerInitRedeem(t, fresh) \in BuyerType
  BY DEF BuyerInitRedeem, BuyerType, BuyerStatus
<1>2. \A t \in BuyerType : [t EXCEPT !.locked = Funded] \in BuyerType
  <2> Funded \in BOOLEAN
    BY DEF Funded
  <2> QED BY DEF BuyerType
<1>3. BuyerCheckLocks(b, g, q, fresh) \in BuyerType
  BY <1>1, <1>2, UpdateBuyerType DEF BuyerCheckLocks
<1>4. BuyerWatchRedeem(b, g) \in BuyerType
  <2>1. CASE KernelOnChain(b.slate)
    <3> grin.height \in Nat /\ grin.redeem \in Nat
      BY <2>1 DEF KernelOnChain, ChainTypeOK, GrinType, TxHeight, Mempool, NoTx
    <3>1. Confirmations(grin.height, grin.redeem) \in Nat
      BY ConfirmationsType
    <3> QED BY <3>1 DEF BuyerWatchRedeem, BuyerType, Count
  <2>2. CASE ~KernelOnChain(b.slate)
    BY <2>2 DEF BuyerWatchRedeem
  <2> QED BY <2>1, <2>2
<1> QED BY <1>3, <1>4 DEF BuyerRequired

LEMMA BlockHeights ==
    ASSUME NEW height \in Nat, NEW h \in TxHeight
    PROVE  MinedAt(height, h) \in TxHeight /\ Unmined(height, h) \in TxHeight
BY DEF MinedAt, Unmined, TxHeight, Mempool, NoTx

LEMMA BlockType ==
    ASSUME ChainTypeOK,
           GrinMineBlock \/ GrinUndoBlock \/ grin' = grin,
           QtumMineBlock \/ QtumUndoBlock \/ qtum' = qtum
    PROVE  ChainTypeOK'
<1> /\ grin.height \in Nat /\ grin.height + 1 \in Nat
    /\ grin.height > 1 => grin.height - 1 \in Nat
    /\ grin.lock \in TxHeight /\ grin.redeem \in TxHeight
    /\ grin.undone \in Nat /\ grin \in GrinType
  BY DEF ChainTypeOK, GrinType
<1> /\ qtum.height \in Nat /\ qtum.height + 1 \in Nat
    /\ qtum.height > 1 => qtum.height - 1 \in Nat
    /\ qtum.dep \in [Deposits -> TxHeight] /\ qtum.sec \in TxHeight
    /\ qtum.undone \in Nat /\ qtum \in QtumType
  BY DEF ChainTypeOK, QtumType
<1>1. ASSUME GrinMineBlock PROVE grin' \in GrinType
  <2>1. /\ MinedAt(grin.height + 1, grin.lock) \in TxHeight
        /\ MinedAt(grin.height + 1, grin.redeem) \in TxHeight
    BY BlockHeights
  <2> QED BY <1>1, <2>1 DEF GrinMineBlock, GrinType
<1>2. ASSUME GrinUndoBlock PROVE grin' \in GrinType
  <2>1. /\ Unmined(grin.height, grin.lock) \in TxHeight
        /\ Unmined(grin.height, grin.redeem) \in TxHeight
    BY BlockHeights
  <2>2. grin.height - 1 \in Nat /\ grin.undone + 1 \in Nat
    BY <1>2 DEF GrinUndoBlock
  <2> QED BY <1>2, <2>1, <2>2 DEF GrinUndoBlock, GrinType
<1>3. ASSUME QtumMineBlock PROVE qtum' \in QtumType
  <2>1. /\ \A d \in Deposits : MinedAt(qtum.height + 1, qtum.dep[d]) \in TxHeight
        /\ MinedAt(qtum.height + 1, qtum.sec) \in TxHeight
    BY BlockHeights
  <2> QED BY <1>3, <2>1 DEF QtumMineBlock, QtumType
<1>4. ASSUME QtumUndoBlock PROVE qtum' \in QtumType
  <2>1. /\ \A d \in Deposits : Unmined(qtum.height, qtum.dep[d]) \in TxHeight
        /\ Unmined(qtum.height, qtum.sec) \in TxHeight
    BY BlockHeights
  <2>2. qtum.height - 1 \in Nat /\ qtum.undone + 1 \in Nat
    BY <1>4 DEF QtumUndoBlock
  <2> QED BY <1>4, <2>1, <2>2 DEF QtumUndoBlock, QtumType
<1> QED BY <1>1, <1>2, <1>3, <1>4 DEF ChainTypeOK

-----------------------------------------------------------------------------
(* Type correctness *)

LEMMA InitType == Init => TypeOK
BY DEF Init, ChainInit, TypeOK, GrinType, QtumType, TxHeight, NoTx, SellerType,
       NewSeller, SellerStatus, BuyerType, NewBuyer, BuyerStatus, Count, None,
       Foreign, Message

LEMMA NextType ==
    ASSUME TypeOK, SwapAssumption, [Next]_vars
    PROVE  TypeOK'
<1> USE DEF TypeOK
<1>c. ChainTypeOK
  BY DEF ChainTypeOK
<1>1. CASE SellerCreate
  <2>1. grin.height + RefundDelta \in Nat
    BY SwapAssumption DEF GrinType
  <2>2. seller' \in SellerType
    BY <1>1, <2>1 DEF SellerCreate, NewSeller, SellerType, SellerStatus,
                      Count, None
  <2>3. disk' \in [seller : SellerType, buyer : BuyerType]
    BY <1>1, <2>2 DEF SellerCreate
  <2> QED BY <1>1, <2>2, <2>3 DEF SellerCreate
<1>2. CASE SellerSend
  <2>1. SellerMessages \subseteq Message
    BY DEF SellerMessages, Msg, Message, MsgType, SellerType
  <2> QED BY <1>2, <2>1 DEF SellerSend
<1>3. CASE SellerCompleted
  BY <1>3 DEF SellerCompleted, SellerType, SellerStatus
<1>4. ASSUME NEW m \in net, SellerReceive(m)
      PROVE  TypeOK'
  BY <1>4 DEF SellerReceive, SellerType, SellerStatus, Message
<1>5. ASSUME NEW g, NEW q, SellerMessageSent(g, q)
      PROVE  TypeOK'
  <2>1. /\ [seller EXCEPT !.status = "Offered"] \in SellerType
        /\ [seller EXCEPT !.status = "Redeem"] \in SellerType
    BY DEF SellerType, SellerStatus
  <2> QED BY <1>5, <1>c, <2>1, SellerRequiredType DEF SellerMessageSent
<1>6. ASSUME NEW g, NEW q, SellerPoll(g, q)
      PROVE  TypeOK'
  BY <1>6, <1>c, SellerRequiredType DEF SellerPoll
<1>7. ASSUME NEW a, NEW g, NEW q, SellerPublish(a, g, q)
      PROVE  TypeOK'
  <2>1. [seller EXCEPT !.lockConf = 0] \in SellerType
    BY DEF SellerType, Count
  <2>2. grin' \in GrinType
    BY <1>7 DEF SellerPublish, GrinType, TxHeight, Mempool
  <2> QED BY <1>7, <1>c, <2>1, <2>2, SellerRequiredType DEF SellerPublish
<1>8. ASSUME NEW a, NEW g, NEW q, SellerPublishSecondary(a, g, q)
      PROVE  TypeOK'
  <2>1. [seller EXCEPT !.secConf = 0] \in SellerType
    BY DEF SellerType, Count
  <2>2. qtum' \in QtumType
    BY <1>8 DEF SellerPublishSecondary, QtumType, TxHeight, Mempool, SellerType
  <2> QED
    BY <1>8, <1>c, <2>1, <2>2, SellerRequiredType DEF SellerPublishSecondary
<1>b. \A b \in BuyerType : BuyerBecomes(b) => buyer' \in BuyerType
                                              /\ slates' \in Nat
  BY DEF BuyerBecomes, BuyerType
<1>9. CASE BuyerSend
  <2>1. BuyerMessages \subseteq Message
    BY DEF BuyerMessages, Msg, Message, MsgType, BuyerType
  <2> QED BY <1>9, <2>1 DEF BuyerSend
<1>10. CASE BuyerCompleted
  <2>1. [buyer EXCEPT !.status = "Completed"] \in BuyerType
    BY DEF BuyerType, BuyerStatus
  <2> QED BY <1>10, <1>b, <2>1 DEF BuyerCompleted
<1>11. ASSUME NEW m \in net, BuyerAccept(m)
       PROVE  TypeOK'
  BY <1>11 DEF BuyerAccept, NewBuyer, BuyerType, BuyerStatus, Count, None
<1>12. ASSUME NEW m \in net, BuyerReceive(m)
       PROVE  TypeOK'
  <2>1. [buyer EXCEPT !.status = "Redeem"] \in BuyerType
    BY DEF BuyerType, BuyerStatus
  <2> QED BY <1>12, <1>b, <2>1 DEF BuyerReceive
<1>13. ASSUME NEW d \in Deposits, BuyerDeposit(d)
       PROVE  TypeOK'
  BY <1>13 DEF BuyerDeposit, QtumType, TxHeight, Mempool
<1>14. ASSUME NEW g, NEW q, BuyerMessageSent(g, q)
       PROVE  TypeOK'
  <2>1. /\ [buyer EXCEPT !.status = "Accepted"] \in BuyerType
        /\ [buyer EXCEPT !.status = "InitRedeem"] \in BuyerType
    BY DEF BuyerType, BuyerStatus
  <2> QED BY <1>14, <1>b, <1>c, <2>1, BuyerRequiredType DEF BuyerMessageSent
<1>15. ASSUME NEW g, NEW q, BuyerPoll(g, q)
       PROVE  TypeOK'
  BY <1>15, <1>b, <1>c, BuyerRequiredType DEF BuyerPoll
<1>16. ASSUME NEW a, NEW g, NEW q, BuyerPublish(a, g, q)
       PROVE  TypeOK'
  <2>1. [buyer EXCEPT !.redeemConf = 0] \in BuyerType
    BY DEF BuyerType, Count
  <2>2. grin' \in GrinType
    BY <1>16 DEF BuyerPublish, GrinType, TxHeight, Mempool, BuyerType
  <2>3. buyer' \in BuyerType /\ slates' \in Nat
    BY <1>16, <1>b, <1>c, <2>1, BuyerRequiredType DEF BuyerPublish
  <2> QED BY <1>16, <2>2, <2>3 DEF BuyerPublish
<1>17. CASE MineGrin \/ MineQtum \/ UndoGrin \/ UndoQtum
  <2>1. ChainTypeOK'
    BY <1>17, <1>c, BlockType DEF MineGrin, MineQtum, UndoGrin, UndoQtum
  <2> QED
    BY <1>17, <2>1 DEF ChainTypeOK, MineGrin, MineQtum, UndoGrin, UndoQtum
<1>18. CASE Save
  BY <1>18 DEF Save
<1>19. CASE Restart
  BY <1>19 DEF Restart
<1>20. CASE UNCHANGED vars
  BY <1>20 DEF vars
<1> QED
  BY <1>1, <1>2, <1>3, <1>4, <1>5, <1>6, <1>7, <1>8, <1>9, <1>10, <1>11,
     <1>12, <1>13, <1>14, <1>15, <1>16, <1>17, <1>18, <1>19, <1>20
     DEF Next, SellerNext, BuyerNext, Environment

(* Every variable keeps its type in every reachable state, for all constants.*)
THEOREM TypeCorrect == Spec => []TypeOK
<1>1. Init => TypeOK
  BY InitType
<1>2. TypeOK /\ [Next]_vars => TypeOK'
  BY NextType, SwapAssumption
<1> QED BY <1>1, <1>2, PTL DEF Spec

-----------------------------------------------------------------------------
\* Confirmations of the Grin lock, plus the blocks undone so far.
GrinReach == Depth(grin.height, grin.lock) + grin.undone

\* The deposits that reached SecConf confirmations, counted the same way.
Settled == {d \in Deposits :
              Depth(qtum.height, qtum.dep[d]) + qtum.undone >= SecConf}

Committed(b) == b.status \in {"Locked", "InitRedeem", "Redeem", "Completed"}

(* What holds of a Seller's object, held or stored, and of a Buyer's, given  *)
(* the reach of the Grin lock, the settled deposits, the redeem transaction  *)
(* of the Grin chain and the messages sent.                                  *)
SellerOK(s, reach, settled, redeem, msgs) ==
    /\ s.lockConf <= reach
    /\ s.outputs \subseteq settled
    /\ s.locked => Cardinality(s.outputs) >= Required
    /\ s.status = "Locked" \/ Signed(s) => s.locked
    /\ Signed(s) => Msg("InitRedeem", s.slate) \in msgs
    /\ s.redeemConf > 0 => redeem # NoTx
    /\ s.status \in {"RedeemSecondary", "Completed"} =>
          redeem # NoTx /\ s.tx = s.outputs

BuyerOK(b, reach, settled, msgs) ==
    /\ b.lockConf <= reach
    /\ b.locked => Cardinality(settled) >= Required
    /\ Committed(b) => b.locked /\ IsLocked(b)
    /\ HasRedeem(b) => Msg("Redeem", b.slate) \in msgs

ChainInv ==
    /\ grin.undone <= MaxUndo /\ qtum.undone <= MaxUndo
    /\ grin.redeem # NoTx => Msg("Redeem", grin.slate) \in net
    /\ qtum.sec # NoTx => grin.redeem # NoTx

SellerInv == \A s \in {seller, disk.seller} :
                SellerOK(s, GrinReach, Settled, grin.redeem, net)

BuyerInv == \A b \in {buyer, disk.buyer} :
               BuyerOK(b, GrinReach, Settled, net)

(* A message once sent binds its sender: the object it holds and the one it  *)
(* has stored stand behind that slate.                                       *)
NetInv ==
    \A m \in net : m.swap = "this" =>
        /\ m.type = "InitRedeem" =>
              \A b \in {buyer, disk.buyer} : Committed(b) /\ b.slate = m.body
        /\ m.type = "Redeem" =>
              /\ Msg("InitRedeem", m.body) \in net
              /\ \A s \in {seller, disk.seller} : Signed(s) /\ s.slate = m.body

IInv == TypeOK /\ ChainInv /\ SellerInv /\ BuyerInv /\ NetInv
-----------------------------------------------------------------------------
(* What only grows *)

\* The quantities that bound what the parties know never shrink.
Progress ==
    /\ GrinReach <= GrinReach'
    /\ Settled \subseteq Settled'
    /\ grin.redeem # NoTx => grin'.redeem # NoTx /\ grin'.slate = grin.slate
    /\ qtum.sec # NoTx => qtum'.sec # NoTx
    /\ net \subseteq net'

\* A transaction's reach under a new block and under a block taken back.
LEMMA DepthMined ==
    ASSUME NEW height \in Nat, NEW h \in TxHeight
    PROVE  Depth(height, h) <= Depth(height + 1, MinedAt(height + 1, h))
BY DEF Depth, Confirmations, MinedAt, TxHeight, Mempool, NoTx

LEMMA DepthUndone ==
    ASSUME NEW height \in Nat, NEW h \in TxHeight, height > 1
    PROVE  Depth(height, h) <= Depth(height - 1, Unmined(height, h)) + 1
BY DEF Depth, Confirmations, Unmined, TxHeight, Mempool, NoTx

LEMMA DepthType ==
    ASSUME NEW height \in Nat, NEW h \in TxHeight
    PROVE  Depth(height, h) \in Nat
BY DEF Depth, Confirmations, TxHeight, Mempool, NoTx

LEMMA ReachType ==
    ASSUME ChainTypeOK
    PROVE  GrinReach \in Nat
<1> grin.height \in Nat /\ grin.lock \in TxHeight /\ grin.undone \in Nat
  BY DEF ChainTypeOK, GrinType
<1>1. Depth(grin.height, grin.lock) \in Nat
  BY DepthType
<1> QED BY <1>1 DEF GrinReach

LEMMA GrinBlockProgress ==
    ASSUME ChainTypeOK, GrinMineBlock \/ GrinUndoBlock
    PROVE  /\ GrinReach <= GrinReach'
           /\ grin.redeem # NoTx <=> grin'.redeem # NoTx
           /\ grin'.slate = grin.slate
<1> /\ grin.height \in Nat /\ grin.lock \in TxHeight /\ grin.undone \in Nat
    /\ grin.redeem \in TxHeight /\ grin \in GrinType
  BY DEF ChainTypeOK, GrinType
<1>1. CASE GrinMineBlock
  <2>1. Depth(grin.height, grin.lock) <=
          Depth(grin.height + 1, MinedAt(grin.height + 1, grin.lock))
    BY DepthMined
  <2>2. /\ grin'.height = grin.height + 1
        /\ grin'.lock = MinedAt(grin.height + 1, grin.lock)
        /\ grin'.redeem = MinedAt(grin.height + 1, grin.redeem)
        /\ grin'.slate = grin.slate /\ grin'.undone = grin.undone
    BY <1>1 DEF GrinMineBlock, GrinType
  <2>3. /\ Depth(grin.height, grin.lock) \in Nat
        /\ Depth(grin.height + 1, MinedAt(grin.height + 1, grin.lock)) \in Nat
    BY DepthType, BlockHeights
  <2>4. GrinReach <= GrinReach'
    BY <2>1, <2>2, <2>3 DEF GrinReach
  <2> QED BY <2>2, <2>4 DEF MinedAt, TxHeight, Mempool, NoTx
<1>2. CASE GrinUndoBlock
  <2>0. grin.height > 1 /\ grin.height - 1 \in Nat
    BY <1>2 DEF GrinUndoBlock
  <2>1. Depth(grin.height, grin.lock) <=
          Depth(grin.height - 1, Unmined(grin.height, grin.lock)) + 1
    BY <2>0, DepthUndone
  <2>2. /\ grin'.height = grin.height - 1
        /\ grin'.lock = Unmined(grin.height, grin.lock)
        /\ grin'.redeem = Unmined(grin.height, grin.redeem)
        /\ grin'.slate = grin.slate /\ grin'.undone = grin.undone + 1
    BY <1>2 DEF GrinUndoBlock, GrinType
  <2>3. /\ Depth(grin.height, grin.lock) \in Nat
        /\ Depth(grin.height - 1, Unmined(grin.height, grin.lock)) \in Nat
    BY <2>0, DepthType, BlockHeights
  <2>4. GrinReach <= GrinReach'
    BY <2>1, <2>2, <2>3 DEF GrinReach
  <2> QED BY <2>0, <2>2, <2>4 DEF Unmined, TxHeight, Mempool, NoTx
<1> QED BY <1>1, <1>2

LEMMA QtumBlockProgress ==
    ASSUME ChainTypeOK, QtumMineBlock \/ QtumUndoBlock
    PROVE  /\ Settled \subseteq Settled'
           /\ qtum.sec # NoTx <=> qtum'.sec # NoTx
<1> /\ qtum.height \in Nat /\ qtum.dep \in [Deposits -> TxHeight]
    /\ qtum.undone \in Nat /\ qtum.sec \in TxHeight /\ qtum \in QtumType
  BY DEF ChainTypeOK, QtumType
<1>s. SecConf \in Nat
  BY ChainAssumption
<1>1. CASE QtumMineBlock
  <2>2. /\ qtum'.height = qtum.height + 1
        /\ \A d \in Deposits : qtum'.dep[d] = MinedAt(qtum.height + 1, qtum.dep[d])
        /\ qtum'.sec = MinedAt(qtum.height + 1, qtum.sec)
        /\ qtum'.undone = qtum.undone
    BY <1>1 DEF QtumMineBlock, QtumType
  <2>3. ASSUME NEW d \in Deposits,
               Depth(qtum.height, qtum.dep[d]) + qtum.undone >= SecConf
        PROVE  Depth(qtum'.height, qtum'.dep[d]) + qtum'.undone >= SecConf
    <3> qtum.dep[d] \in TxHeight /\ qtum.height + 1 \in Nat
      OBVIOUS
    <3>1. /\ Depth(qtum.height, qtum.dep[d]) <=
                Depth(qtum.height + 1, MinedAt(qtum.height + 1, qtum.dep[d]))
          /\ Depth(qtum.height, qtum.dep[d]) \in Nat
          /\ Depth(qtum.height + 1, MinedAt(qtum.height + 1, qtum.dep[d])) \in Nat
      BY DepthMined, DepthType, BlockHeights
    <3> QED BY <1>s, <2>2, <2>3, <3>1
  <2>4. Settled \subseteq Settled'
    BY <2>3 DEF Settled
  <2> QED BY <2>2, <2>4 DEF MinedAt, TxHeight, Mempool, NoTx
<1>2. CASE QtumUndoBlock
  <2>0. qtum.height > 1 /\ qtum.height - 1 \in Nat
    BY <1>2 DEF QtumUndoBlock
  <2>2. /\ qtum'.height = qtum.height - 1
        /\ \A d \in Deposits : qtum'.dep[d] = Unmined(qtum.height, qtum.dep[d])
        /\ qtum'.sec = Unmined(qtum.height, qtum.sec)
        /\ qtum'.undone = qtum.undone + 1
    BY <1>2 DEF QtumUndoBlock, QtumType
  <2>3. ASSUME NEW d \in Deposits,
               Depth(qtum.height, qtum.dep[d]) + qtum.undone >= SecConf
        PROVE  Depth(qtum'.height, qtum'.dep[d]) + qtum'.undone >= SecConf
    <3> qtum.dep[d] \in TxHeight
      OBVIOUS
    <3>1. /\ Depth(qtum.height, qtum.dep[d]) <=
                Depth(qtum.height - 1, Unmined(qtum.height, qtum.dep[d])) + 1
          /\ Depth(qtum.height, qtum.dep[d]) \in Nat
          /\ Depth(qtum.height - 1, Unmined(qtum.height, qtum.dep[d])) \in Nat
      BY <2>0, DepthUndone, DepthType, BlockHeights
    <3> QED BY <1>s, <2>2, <2>3, <3>1
  <2>4. Settled \subseteq Settled'
    BY <2>3 DEF Settled
  <2> QED BY <2>0, <2>2, <2>4 DEF Unmined, TxHeight, Mempool, NoTx
<1> QED BY <1>1, <1>2

-----------------------------------------------------------------------------
(* The swap objects *)

\* What held of an object still holds when the quantities have grown.
LEMMA SellerKeeps ==
    ASSUME NEW s \in SellerType, NEW reach \in Int, NEW reach2 \in Int,
           NEW settled, NEW settled2, NEW redeem, NEW redeem2, NEW msgs, NEW msgs2,
           reach <= reach2, settled \subseteq settled2, msgs \subseteq msgs2,
           redeem # NoTx => redeem2 # NoTx,
           SellerOK(s, reach, settled, redeem, msgs)
    PROVE  SellerOK(s, reach2, settled2, redeem2, msgs2)
<1> s.lockConf \in Int
  BY DEF SellerType, Count, None
<1> QED BY DEF SellerOK

LEMMA BuyerKeeps ==
    ASSUME NEW b \in BuyerType, NEW reach \in Int, NEW reach2 \in Int,
           NEW settled, NEW settled2, NEW msgs, NEW msgs2,
           reach <= reach2, settled \subseteq settled2, msgs \subseteq msgs2,
           IsFiniteSet(settled2),
           BuyerOK(b, reach, settled, msgs)
    PROVE  BuyerOK(b, reach2, settled2, msgs2)
<1> b.lockConf \in Int
  BY DEF BuyerType, Count, None
<1>1. /\ Cardinality(settled) <= Cardinality(settled2)
      /\ Cardinality(settled) \in Int /\ Cardinality(settled2) \in Int
  BY FS_Subset, FS_CardinalityType
<1>2. Cardinality(settled) >= Required => Cardinality(settled2) >= Required
  BY <1>1, RequiredAssumption
<1> QED BY <1>2 DEF BuyerOK

LEMMA SettledFinite == IsFiniteSet(Settled)
<1>1. Settled \subseteq Deposits
  BY DEF Settled
<1> QED BY <1>1, ChainAssumption, FS_Subset

\* The confirmations read off the Grin chain are within its reach.
LEMMA LockRead ==
    ASSUME ChainTypeOK, LockOutputUnspent
    PROVE  Confirmations(grin.height, grin.lock) <= GrinReach
<1> /\ grin.height \in Nat /\ grin.lock \in TxHeight /\ grin.undone \in Nat
    /\ grin.lock > Mempool
  BY DEF ChainTypeOK, GrinType, LockOutputUnspent
<1>1. Depth(grin.height, grin.lock) = Confirmations(grin.height, grin.lock)
  BY DEF Depth
<1>2. Depth(grin.height, grin.lock) \in Nat
  BY DepthType
<1> QED BY <1>1, <1>2 DEF GrinReach

LEMMA ConfirmedAreSettled ==
    ASSUME ChainTypeOK
    PROVE  ConfirmedOutputs \subseteq Settled
<1> /\ qtum.height \in Nat /\ qtum.dep \in [Deposits -> TxHeight]
    /\ qtum.undone \in Nat
  BY DEF ChainTypeOK, QtumType
<1> SUFFICES ASSUME NEW d \in ConfirmedOutputs
             PROVE  d \in Settled
  OBVIOUS
<1>1. /\ d \in Deposits /\ qtum.dep[d] > Mempool
      /\ Confirmations(qtum.height, qtum.dep[d]) >= SecConf
  BY DEF ConfirmedOutputs
<1>2. Depth(qtum.height, qtum.dep[d]) = Confirmations(qtum.height, qtum.dep[d])
  BY <1>1 DEF Depth
<1>3. Depth(qtum.height, qtum.dep[d]) \in Nat
  BY <1>1, DepthType
<1> QED BY <1>1, <1>2, <1>3, ChainAssumption DEF Settled

LEMMA FundedIsSettled ==
    ASSUME ChainTypeOK, Funded
    PROVE  Cardinality(Settled) >= Required
<1>1. Cardinality(ConfirmedOutputs) <= Cardinality(Settled)
  BY ConfirmedAreSettled, SettledFinite, FS_Subset
<1>2. IsFiniteSet(ConfirmedOutputs)
  BY ConfirmedAreSettled, SettledFinite, FS_Subset
<1>3. Cardinality(ConfirmedOutputs) \in Int /\ Cardinality(Settled) \in Int
  BY <1>2, SettledFinite, FS_CardinalityType
<1> QED BY <1>1, <1>3, RequiredAssumption DEF Funded

\* The Seller's objects are sound before and after the required action, which
\* takes no signature and no slate back.
SellerSound(s) == SellerOK(s, GrinReach, Settled, grin.redeem, net)

LEMMA SellerRequiredSound ==
    ASSUME ChainTypeOK, NEW s \in SellerType, NEW g, NEW q, SellerSound(s)
    PROVE  /\ SellerSound(SellerRequired(s, g, q))
           /\ Signed(s) => /\ Signed(SellerRequired(s, g, q))
                           /\ SellerRequired(s, g, q).slate = s.slate
<1> USE DEF SellerSound
<1>1. CASE s.status = "Accepted"
  <2> DEFINE seen == IF ~IsLocked(s) /\ s.lockConf # None /\ g
                     THEN UpdateLockConf(s) ELSE s
  <2>1. seen \in SellerType /\ seen.status = "Accepted"
    BY <1>1, UpdateSellerType DEF UpdateLockConf, SellerType
  <2>2. SellerSound(seen)
    <3>1. CASE seen = s
      BY <3>1
    <3>2. CASE LockOutputUnspent /\ seen = UpdateLockConf(s)
      <4>1. seen = [s EXCEPT !.lockConf = Confirmations(grin.height, grin.lock)]
        BY <3>2 DEF UpdateLockConf
      <4>2. Confirmations(grin.height, grin.lock) <= GrinReach
        BY <3>2, LockRead
      <4> HIDE DEF seen
      <4> QED BY <4>1, <4>2 DEF SellerOK, SellerType, Signed
    <3> QED BY <3>1, <3>2 DEF UpdateLockConf
  <2>3. SellerSound(SellerCheckDeposits(seen, q))
    <3> HIDE DEF seen
    <3>1. CASE seen.locked
      <4>1. SellerCheckDeposits(seen, q) = [seen EXCEPT !.status = "Locked"]
        BY <3>1 DEF SellerCheckDeposits
      <4> QED BY <2>1, <2>2, <3>1, <4>1 DEF SellerOK, SellerType, Signed
    <3>2. CASE ~seen.locked /\ ~q
      BY <2>2, <3>2 DEF SellerCheckDeposits
    <3>3. CASE ~seen.locked /\ q
      <4>0. /\ Funded \in BOOLEAN
            /\ Funded => Cardinality(ConfirmedOutputs) >= Required
        BY DEF Funded
      <4>1. SellerCheckDeposits(seen, q) =
              [seen EXCEPT !.outputs = ConfirmedOutputs, !.locked = Funded,
                           !.status = IF Funded THEN "Locked" ELSE @]
        BY <3>3 DEF SellerCheckDeposits
      <4>2. ConfirmedOutputs \subseteq Settled
        BY ConfirmedAreSettled
      <4>3. CASE Funded
        BY <2>1, <2>2, <4>0, <4>1, <4>2, <4>3 DEF SellerOK, SellerType, Signed
      <4>4. CASE ~Funded
        BY <2>1, <2>2, <4>0, <4>1, <4>2, <4>4 DEF SellerOK, SellerType, Signed
      <4> QED BY <4>3, <4>4
    <3> QED BY <3>1, <3>2, <3>3
  <2>4. SellerSound(SellerCheckLocks(s, g, q))
    BY <2>2, <2>3 DEF SellerCheckLocks
  <2> QED BY <1>1, <2>4 DEF SellerRequired, Signed
<1>2. CASE s.status = "Redeem"
  <2>1. ASSUME NEW t \in SellerType, SellerSound(t), t.status = "Redeem",
               grin.redeem # NoTx
        PROVE  /\ SellerSound(SellerBuildRedeemTx(t))
               /\ Signed(SellerBuildRedeemTx(t))
               /\ SellerBuildRedeemTx(t).slate = t.slate
    BY <2>1 DEF SellerBuildRedeemTx, SellerOK, SellerType, Signed
  <2>2. CASE s.redeemConf > 0
    <3>1. grin.redeem # NoTx
      BY <2>2 DEF SellerOK
    <3> QED BY <1>2, <2>1, <2>2, <3>1 DEF SellerWatchRedeem, SellerRequired
  <2>3. CASE ~(s.redeemConf > 0) /\ g /\ KernelOnChain(s.slate)
    <3> DEFINE t == [s EXCEPT !.redeemConf =
                                Confirmations(grin.height, grin.redeem)]
    <3>1. grin.redeem # NoTx
      BY <2>3 DEF KernelOnChain, Mempool, NoTx, ChainTypeOK, GrinType, TxHeight
    <3>2. Confirmations(grin.height, grin.redeem) \in Nat
      <4> grin.height \in Nat /\ grin.redeem \in Nat
        BY <2>3 DEF KernelOnChain, ChainTypeOK, GrinType, TxHeight, Mempool, NoTx
      <4> QED BY ConfirmationsType
    <3>3. t \in SellerType /\ t.status = "Redeem" /\ t.slate = s.slate
      BY <1>2, <3>2 DEF SellerType, Count
    <3>4. SellerSound(t)
      BY <1>2, <3>1 DEF SellerOK, SellerType, Signed
    <3>5. SellerRequired(s, g, q) = SellerBuildRedeemTx(t)
      BY <1>2, <2>3 DEF SellerRequired, SellerWatchRedeem
    <3> HIDE DEF t
    <3> QED BY <2>1, <3>1, <3>3, <3>4, <3>5
  <2>4. CASE ~(s.redeemConf > 0) /\ ~(g /\ KernelOnChain(s.slate))
    BY <1>2, <2>4 DEF SellerRequired, SellerWatchRedeem
  <2> QED BY <2>2, <2>3, <2>4
<1>3. CASE s.status = "RedeemSecondary"
  <2>1. CASE SellerRequired(s, g, q) = s
    BY <2>1
  <2>2. CASE SellerRequired(s, g, q) =
               [s EXCEPT !.secConf = Confirmations(qtum.height, qtum.sec)]
    BY <2>2 DEF SellerOK, SellerType, Signed
  <2> QED BY <1>3, <2>1, <2>2 DEF SellerRequired, SellerUpdateRedeem
<1>4. CASE s.status \notin {"Accepted", "Redeem", "RedeemSecondary"}
  BY <1>4 DEF SellerRequired
<1> QED BY <1>1, <1>2, <1>3, <1>4

\* The same for the Buyer's objects; a committed Buyer keeps its slate.
BuyerSound(b) == BuyerOK(b, GrinReach, Settled, net)

LEMMA BuyerRequiredSound ==
    ASSUME ChainTypeOK, NEW b \in BuyerType, NEW g, NEW q, NEW fresh \in Nat,
           BuyerSound(b)
    PROVE  /\ BuyerSound(BuyerRequired(b, g, q, fresh))
           /\ HasRedeem(BuyerRequired(b, g, q, fresh)) <=> HasRedeem(b)
           /\ Committed(b) => /\ Committed(BuyerRequired(b, g, q, fresh))
                              /\ BuyerRequired(b, g, q, fresh).slate = b.slate
<1> USE DEF BuyerSound
<1>1. CASE b.status = "Accepted"
  <2> DEFINE paid == IF ~b.locked /\ q THEN [b EXCEPT !.locked = Funded] ELSE b
             seen == IF paid.locked /\ g THEN UpdateLockConf(paid) ELSE paid
  <2>1. /\ paid \in BuyerType /\ paid.status = "Accepted" /\ BuyerSound(paid)
    <3>1. CASE paid = b
      BY <1>1, <3>1
    <3>2. CASE paid = [b EXCEPT !.locked = Funded]
      <4>1. Funded \in BOOLEAN
        BY DEF Funded
      <4>2. Funded => Cardinality(Settled) >= Required
        BY FundedIsSettled
      <4> QED
        BY <1>1, <3>2, <4>1, <4>2 DEF BuyerOK, BuyerType, Committed, HasRedeem
    <3> QED BY <3>1, <3>2
  <2>2. /\ seen \in BuyerType /\ seen.status = "Accepted" /\ BuyerSound(seen)
    <3> HIDE DEF paid
    <3>1. CASE seen = paid
      BY <2>1, <3>1
    <3>2. CASE LockOutputUnspent /\ seen = UpdateLockConf(paid)
      <4>1. seen = [paid EXCEPT !.lockConf = Confirmations(grin.height, grin.lock)]
        BY <3>2 DEF UpdateLockConf
      <4>2. Confirmations(grin.height, grin.lock) <= GrinReach
        BY <3>2, LockRead
      <4>3. seen \in BuyerType
        BY <2>1, <3>2, UpdateBuyerType
      <4> HIDE DEF seen
      <4> QED BY <2>1, <4>1, <4>2, <4>3 DEF BuyerOK, BuyerType, Committed, HasRedeem
    <3> QED BY <3>1, <3>2 DEF UpdateLockConf
  <2>3. CASE seen.locked /\ g /\ IsLocked(seen)
    <3>1. BuyerRequired(b, g, q, fresh) = BuyerInitRedeem(seen, fresh)
      BY <1>1, <2>3 DEF BuyerRequired, BuyerCheckLocks
    <3> HIDE DEF seen
    <3> QED BY <1>1, <2>2, <2>3, <3>1
            DEF BuyerInitRedeem, BuyerOK, BuyerType, Committed, HasRedeem, IsLocked
  <2>4. CASE ~(seen.locked /\ g /\ IsLocked(seen))
    <3>1. BuyerRequired(b, g, q, fresh) = seen
      BY <1>1, <2>4 DEF BuyerRequired, BuyerCheckLocks
    <3> HIDE DEF seen
    <3> QED BY <1>1, <2>2, <3>1 DEF Committed, HasRedeem
  <2> QED BY <2>3, <2>4
<1>2. CASE b.status = "Redeem"
  <2>1. CASE BuyerRequired(b, g, q, fresh) = b
    BY <2>1
  <2>2. CASE BuyerRequired(b, g, q, fresh) =
               [b EXCEPT !.redeemConf = Confirmations(grin.height, grin.redeem)]
    BY <1>2, <2>2 DEF BuyerOK, BuyerType, Committed, HasRedeem, IsLocked
  <2> QED BY <1>2, <2>1, <2>2 DEF BuyerRequired, BuyerWatchRedeem
<1>3. CASE b.status \notin {"Accepted", "Redeem"}
  BY <1>3 DEF BuyerRequired
<1> QED BY <1>1, <1>2, <1>3

-----------------------------------------------------------------------------
(* Steps *)

LEMMA ReachUnchanged ==
    ASSUME ChainTypeOK, grin' = grin
    PROVE  GrinReach <= GrinReach'
BY ReachType DEF GrinReach

\* The actions that change a chain.
LEMMA ChainActions ==
    ASSUME [Next]_vars
    PROVE  \/ UNCHANGED <<grin, qtum>>
           \/ MineGrin \/ UndoGrin \/ MineQtum \/ UndoQtum
           \/ \E a, g, q \in BOOLEAN : \/ SellerPublish(a, g, q)
                                       \/ SellerPublishSecondary(a, g, q)
                                       \/ BuyerPublish(a, g, q)
           \/ \E d \in Deposits : BuyerDeposit(d)
<1>1. Answers \subseteq BOOLEAN /\ PostAnswers \subseteq BOOLEAN
  BY DEF Answers, PostAnswers
<1> QED
  BY <1>1 DEF Next, SellerNext, BuyerNext, Environment, vars, SellerCreate,
       SellerSend, SellerCompleted, SellerReceive, SellerMessageSent,
       SellerPoll, BuyerSend, BuyerCompleted, BuyerAccept, BuyerReceive,
       BuyerMessageSent, BuyerPoll, Save, Restart

LEMMA ProgressStep ==
    ASSUME TypeOK, [Next]_vars
    PROVE  Progress
<1>c. ChainTypeOK
  BY DEF TypeOK, ChainTypeOK
<1>n. net \subseteq net'
  BY DEF Next, SellerNext, BuyerNext, Environment, vars, SellerCreate,
         SellerSend, SellerCompleted, SellerReceive, SellerMessageSent,
         SellerPoll, SellerPublish, SellerPublishSecondary, BuyerSend,
         BuyerCompleted, BuyerAccept, BuyerReceive, BuyerDeposit,
         BuyerMessageSent, BuyerPoll, BuyerPublish, MineGrin, MineQtum,
         UndoGrin, UndoQtum, Save, Restart
<1>1. CASE UNCHANGED <<grin, qtum>>
  BY <1>1, <1>c, <1>n, ReachUnchanged DEF Progress, Settled
<1>2. CASE MineGrin \/ UndoGrin
  BY <1>2, <1>c, <1>n, GrinBlockProgress DEF Progress, Settled, MineGrin, UndoGrin
<1>3. CASE MineQtum \/ UndoQtum
  BY <1>3, <1>c, <1>n, QtumBlockProgress, ReachUnchanged
     DEF Progress, MineQtum, UndoQtum
<1>4. ASSUME NEW a, NEW g, NEW q, SellerPublish(a, g, q)
      PROVE  Progress
  <2>0. grin \in GrinType
    BY DEF TypeOK
  <2>1. /\ grin'.height = grin.height /\ grin'.undone = grin.undone
        /\ grin'.redeem = grin.redeem /\ grin'.slate = grin.slate
        /\ grin.lock = NoTx /\ grin'.lock = Mempool /\ qtum' = qtum
    BY <1>4, <2>0 DEF SellerPublish, GrinTakesLock, GrinType
  <2>2. GrinReach <= GrinReach'
    BY <1>c, <2>1, ReachType DEF GrinReach, Depth, NoTx, Mempool
  <2> QED BY <1>n, <2>1, <2>2 DEF Progress, Settled
<1>5. ASSUME NEW a, NEW g, NEW q, SellerPublishSecondary(a, g, q)
      PROVE  Progress
  <2>0. qtum \in QtumType
    BY DEF TypeOK
  <2>1. /\ qtum'.height = qtum.height /\ qtum'.dep = qtum.dep
        /\ qtum'.undone = qtum.undone /\ qtum'.sec = Mempool /\ grin' = grin
    BY <1>5, <2>0 DEF SellerPublishSecondary, QtumType
  <2> QED
    BY <1>c, <1>n, <2>1, ReachUnchanged DEF Progress, Settled, NoTx, Mempool
<1>6. ASSUME NEW a, NEW g, NEW q, BuyerPublish(a, g, q)
      PROVE  Progress
  <2>0. grin \in GrinType
    BY DEF TypeOK
  <2>1. /\ grin'.height = grin.height /\ grin'.undone = grin.undone
        /\ grin'.lock = grin.lock /\ grin.redeem = NoTx /\ qtum' = qtum
    BY <1>6, <2>0 DEF BuyerPublish, GrinTakesRedeem, GrinType
  <2>2. GrinReach <= GrinReach'
    BY <1>c, <2>1, ReachType DEF GrinReach
  <2> QED BY <1>n, <2>1, <2>2 DEF Progress, Settled
<1>7. ASSUME NEW d \in Deposits, BuyerDeposit(d)
      PROVE  Progress
  <2>0. qtum \in QtumType
    BY DEF TypeOK
  <2>1. /\ qtum'.height = qtum.height /\ qtum'.undone = qtum.undone
        /\ qtum'.sec = qtum.sec /\ grin' = grin
        /\ qtum'.dep = [qtum.dep EXCEPT ![d] = Mempool]
        /\ qtum.dep[d] = NoTx /\ qtum.dep \in [Deposits -> TxHeight]
    BY <1>7, <2>0 DEF BuyerDeposit, QtumType
  <2>2. \A e \in Deposits :
           Depth(qtum'.height, qtum'.dep[e]) = Depth(qtum.height, qtum.dep[e])
    BY <2>1 DEF Depth, NoTx, Mempool
  <2>3. Settled \subseteq Settled'
    BY <2>1, <2>2 DEF Settled
  <2> QED BY <1>c, <1>n, <2>1, <2>3, ReachUnchanged DEF Progress
<1>8. \/ UNCHANGED <<grin, qtum>>
      \/ MineGrin \/ UndoGrin \/ MineQtum \/ UndoQtum
      \/ \E a, g, q \in BOOLEAN : \/ SellerPublish(a, g, q)
                                  \/ SellerPublishSecondary(a, g, q)
                                  \/ BuyerPublish(a, g, q)
      \/ \E d \in Deposits : BuyerDeposit(d)
  BY ChainActions
<1> QED BY <1>1, <1>2, <1>3, <1>4, <1>5, <1>6, <1>7, <1>8

LEMMA ReachStepType ==
    ASSUME TypeOK, TypeOK'
    PROVE  GrinReach \in Int /\ GrinReach' \in Int
<1>1. /\ grin.height \in Nat /\ grin.lock \in TxHeight /\ grin.undone \in Nat
      /\ grin'.height \in Nat /\ grin'.lock \in TxHeight /\ grin'.undone \in Nat
  BY DEF TypeOK, GrinType
<1>2. /\ Depth(grin.height, grin.lock) \in Nat
      /\ Depth(grin'.height, grin'.lock) \in Nat
  BY <1>1, DepthType
<1> QED BY <1>1, <1>2 DEF GrinReach

LEMMA SellerStep ==
    ASSUME IInv, TypeOK', Progress, [Next]_vars
    PROVE  SellerInv'
<1>t. /\ seller \in SellerType /\ disk.seller \in SellerType /\ ChainTypeOK
      /\ disk \in [seller : SellerType, buyer : BuyerType]
      /\ net \subseteq Message
  BY DEF IInv, TypeOK, ChainTypeOK
<1>s. SellerSound(seller) /\ SellerSound(disk.seller)
  BY DEF IInv, SellerInv, SellerSound
<1> DEFINE Sound2(s) == SellerOK(s, GrinReach', Settled', grin'.redeem, net')
<1>k. \A s \in SellerType : SellerSound(s) => Sound2(s)
  <2>1. GrinReach \in Int /\ GrinReach' \in Int
    BY ReachStepType DEF IInv
  <2> QED BY <2>1, SellerKeeps DEF SellerSound, Progress
<1>o. Sound2(seller) /\ Sound2(disk.seller)
  BY <1>t, <1>s, <1>k
<1>q. SUFFICES Sound2(seller') /\ Sound2(disk'.seller)
  BY DEF SellerInv
<1>r. \A s \in SellerType : \A g, q : SellerSound(s) =>
         SellerRequired(s, g, q) \in SellerType /\ Sound2(SellerRequired(s, g, q))
  BY <1>t, <1>k, SellerRequiredSound, SellerRequiredType
<1> HIDE DEF Sound2
<1>1. CASE SellerCreate
  <2>1. SellerSound(seller')
    <3>1. GrinReach \in Nat
      BY <1>t, ReachType
    <3> QED BY <1>1, <3>1 DEF SellerCreate, NewSeller, SellerSound, SellerOK,
                              Signed, None
  <2>2. seller' \in SellerType /\ disk'.seller = seller'
    BY <1>1, <1>t DEF SellerCreate, TypeOK
  <2> QED BY <2>1, <2>2, <1>k
<1>2. CASE SellerSend
  <2>1. seller' = seller /\ disk'.seller = seller
    BY <1>2, <1>t DEF SellerSend
  <2> QED BY <1>o, <2>1
<1>3. CASE SellerCompleted
  <2>1. SellerSound([seller EXCEPT !.status = "Completed"])
    BY <1>3, <1>s, <1>t DEF SellerCompleted, SellerSound, SellerOK, Signed,
                            SellerType
  <2> QED BY <1>3, <1>o, <1>k, <2>1 DEF SellerCompleted, TypeOK
<1>4. ASSUME NEW m \in net, SellerReceive(m)
      PROVE  Sound2(seller') /\ Sound2(disk'.seller)
  <2>1. SellerSound(seller')
    <3>1. CASE m.type = "AcceptOffer" /\ seller.status = "Offered"
      BY <1>4, <1>s, <1>t, <3>1
         DEF SellerReceive, SellerSound, SellerOK, Signed, SellerType
    <3>2. CASE m.type = "InitRedeem" /\ seller.status = "Locked"
      <4>1. m = Msg("InitRedeem", m.body)
        BY <1>4, <1>t, <3>2 DEF SellerReceive, Message, Msg
      <4>2. seller' = [seller EXCEPT !.status = "InitRedeem", !.slate = m.body]
        BY <1>4, <3>2 DEF SellerReceive
      <4>3. seller.locked
        BY <1>s, <3>2 DEF SellerSound, SellerOK
      <4> QED BY <1>s, <1>t, <4>1, <4>2, <4>3
              DEF SellerSound, SellerOK, Signed, SellerType
    <3> QED BY <1>4, <3>1, <3>2 DEF SellerReceive
  <2> QED BY <1>4, <1>o, <1>k, <2>1 DEF SellerReceive, TypeOK
<1>5. ASSUME NEW g, NEW q, SellerMessageSent(g, q)
      PROVE  Sound2(seller') /\ Sound2(disk'.seller)
  <2>1. CASE seller.status = "Created"
    <3>1. SellerSound([seller EXCEPT !.status = "Offered"])
      BY <1>s, <1>t, <2>1 DEF SellerSound, SellerOK, Signed, SellerType
    <3> QED BY <1>5, <1>o, <1>k, <2>1, <3>1 DEF SellerMessageSent, TypeOK
  <2>2. CASE seller.status = "InitRedeem"
    <3>1. /\ SellerSound([seller EXCEPT !.status = "Redeem"])
          /\ [seller EXCEPT !.status = "Redeem"] \in SellerType
      BY <1>s, <1>t, <2>2 DEF SellerSound, SellerOK, Signed, SellerType,
                              SellerStatus
    <3> QED BY <1>5, <1>o, <1>r, <2>2, <3>1 DEF SellerMessageSent
  <2> QED BY <1>5, <2>1, <2>2 DEF SellerMessageSent
<1>6. ASSUME NEW g, NEW q, SellerPoll(g, q)
      PROVE  Sound2(seller') /\ Sound2(disk'.seller)
  BY <1>6, <1>t, <1>s, <1>o, <1>r DEF SellerPoll
<1>7. ASSUME NEW a, NEW g, NEW q, SellerPublish(a, g, q)
      PROVE  Sound2(seller') /\ Sound2(disk'.seller)
  <2>1. /\ SellerSound([seller EXCEPT !.lockConf = 0])
        /\ [seller EXCEPT !.lockConf = 0] \in SellerType
    <3>1. GrinReach \in Nat
      BY <1>t, ReachType
    <3> QED BY <1>s, <1>t, <3>1 DEF SellerSound, SellerOK, Signed, SellerType,
                                   Count
  <2> QED BY <1>7, <1>o, <1>r, <2>1 DEF SellerPublish
<1>8. ASSUME NEW a, NEW g, NEW q, SellerPublishSecondary(a, g, q)
      PROVE  Sound2(seller') /\ Sound2(disk'.seller)
  <2>1. /\ SellerSound([seller EXCEPT !.secConf = 0])
        /\ [seller EXCEPT !.secConf = 0] \in SellerType
    BY <1>s, <1>t DEF SellerSound, SellerOK, Signed, SellerType, Count
  <2> QED BY <1>8, <1>o, <1>r, <2>1 DEF SellerPublishSecondary
<1>9. CASE BuyerNext \/ Environment \/ UNCHANGED vars
  <2>1. seller' \in {seller, disk.seller} /\ disk'.seller \in {seller, disk.seller}
    BY <1>9, <1>t
       DEF BuyerNext, Environment, vars, BuyerSend, BuyerCompleted, BuyerAccept,
           BuyerReceive, BuyerDeposit, BuyerMessageSent, BuyerPoll, BuyerPublish,
           MineGrin, MineQtum, UndoGrin, UndoQtum, Save, Restart
  <2> QED BY <1>o, <2>1
<1> QED BY <1>1, <1>2, <1>3, <1>4, <1>5, <1>6, <1>7, <1>8, <1>9
        DEF Next, SellerNext

LEMMA BuyerStep ==
    ASSUME IInv, TypeOK', Progress, [Next]_vars
    PROVE  BuyerInv'
<1>t. /\ buyer \in BuyerType /\ disk.buyer \in BuyerType /\ ChainTypeOK
      /\ disk \in [seller : SellerType, buyer : BuyerType]
      /\ net \subseteq Message /\ slates + 1 \in Nat
  BY DEF IInv, TypeOK, ChainTypeOK
<1>s. BuyerSound(buyer) /\ BuyerSound(disk.buyer)
  BY DEF IInv, BuyerInv, BuyerSound
<1> DEFINE Sound2(b) == BuyerOK(b, GrinReach', Settled', net')
<1>k. \A b \in BuyerType : BuyerSound(b) => Sound2(b)
  <2>1. GrinReach \in Int /\ GrinReach' \in Int
    BY ReachStepType DEF IInv
  <2>2. IsFiniteSet(Settled')
    <3>1. Settled' \subseteq Deposits
      BY DEF Settled
    <3> QED BY <3>1, ChainAssumption, FS_Subset
  <2> QED BY <2>1, <2>2, BuyerKeeps DEF BuyerSound, Progress
<1>o. Sound2(buyer) /\ Sound2(disk.buyer)
  BY <1>t, <1>s, <1>k
<1>q. SUFFICES Sound2(buyer') /\ Sound2(disk'.buyer)
  BY DEF BuyerInv
<1>r. \A b \in BuyerType : \A g, q : BuyerSound(b) =>
         Sound2(BuyerRequired(b, g, q, slates + 1))
  BY <1>t, <1>k, BuyerRequiredSound, BuyerRequiredType
<1> HIDE DEF Sound2
<1>1. CASE BuyerSend
  <2>1. buyer' = buyer /\ disk'.buyer = buyer
    BY <1>1, <1>t DEF BuyerSend
  <2> QED BY <1>o, <2>1
<1>2. CASE BuyerCompleted
  <2>1. /\ BuyerSound([buyer EXCEPT !.status = "Completed"])
        /\ [buyer EXCEPT !.status = "Completed"] \in BuyerType
    BY <1>2, <1>s, <1>t DEF BuyerCompleted, BuyerSound, BuyerOK, Committed,
                            HasRedeem, IsLocked, BuyerType, BuyerStatus
  <2> QED BY <1>2, <1>o, <1>k, <2>1 DEF BuyerCompleted, BuyerBecomes
<1>3. ASSUME NEW m \in net, BuyerAccept(m)
      PROVE  Sound2(buyer') /\ Sound2(disk'.buyer)
  <2>1. BuyerSound(buyer')
    <3>1. GrinReach \in Nat
      BY <1>t, ReachType
    <3> QED BY <1>3, <3>1 DEF BuyerAccept, NewBuyer, BuyerSound, BuyerOK,
                              Committed, HasRedeem, None
  <2>2. buyer' \in BuyerType /\ disk'.buyer = buyer'
    BY <1>3, <1>t DEF BuyerAccept, TypeOK
  <2> QED BY <2>1, <2>2, <1>k
<1>4. ASSUME NEW m \in net, BuyerReceive(m)
      PROVE  Sound2(buyer') /\ Sound2(disk'.buyer)
  <2>1. m = Msg("Redeem", buyer.slate)
    BY <1>4, <1>t DEF BuyerReceive, Message, Msg
  <2>2. /\ BuyerSound([buyer EXCEPT !.status = "Redeem"])
        /\ [buyer EXCEPT !.status = "Redeem"] \in BuyerType
    BY <1>4, <1>s, <1>t, <2>1 DEF BuyerReceive, BuyerSound, BuyerOK, Committed,
                                  HasRedeem, IsLocked, BuyerType, BuyerStatus
  <2> QED BY <1>4, <1>o, <1>k, <2>2 DEF BuyerReceive, BuyerBecomes
<1>5. ASSUME NEW d \in Deposits, BuyerDeposit(d)
      PROVE  Sound2(buyer') /\ Sound2(disk'.buyer)
  BY <1>5, <1>o DEF BuyerDeposit
<1>6. ASSUME NEW g, NEW q, BuyerMessageSent(g, q)
      PROVE  Sound2(buyer') /\ Sound2(disk'.buyer)
  <2>1. CASE buyer.status = "Offered"
    <3>1. /\ BuyerSound([buyer EXCEPT !.status = "Accepted"])
          /\ [buyer EXCEPT !.status = "Accepted"] \in BuyerType
      BY <1>s, <1>t, <2>1 DEF BuyerSound, BuyerOK, Committed, HasRedeem,
                              BuyerType, BuyerStatus
    <3> QED BY <1>6, <1>o, <1>r, <2>1, <3>1 DEF BuyerMessageSent, BuyerBecomes
  <2>2. CASE buyer.status = "Locked"
    <3>1. /\ BuyerSound([buyer EXCEPT !.status = "InitRedeem"])
          /\ [buyer EXCEPT !.status = "InitRedeem"] \in BuyerType
      BY <1>s, <1>t, <2>2 DEF BuyerSound, BuyerOK, Committed, HasRedeem,
                              IsLocked, BuyerType, BuyerStatus
    <3> QED BY <1>6, <1>o, <1>k, <2>2, <3>1 DEF BuyerMessageSent, BuyerBecomes
  <2> QED BY <1>6, <2>1, <2>2 DEF BuyerMessageSent
<1>7. ASSUME NEW g, NEW q, BuyerPoll(g, q)
      PROVE  Sound2(buyer') /\ Sound2(disk'.buyer)
  BY <1>7, <1>t, <1>s, <1>o, <1>r DEF BuyerPoll, BuyerBecomes
<1>8. ASSUME NEW a, NEW g, NEW q, BuyerPublish(a, g, q)
      PROVE  Sound2(buyer') /\ Sound2(disk'.buyer)
  <2>1. /\ BuyerSound([buyer EXCEPT !.redeemConf = 0])
        /\ [buyer EXCEPT !.redeemConf = 0] \in BuyerType
    BY <1>s, <1>t DEF BuyerSound, BuyerOK, Committed, HasRedeem, IsLocked,
                      BuyerType, Count
  <2> QED BY <1>8, <1>o, <1>r, <2>1 DEF BuyerPublish, BuyerBecomes
<1>9. CASE SellerNext \/ Environment \/ UNCHANGED vars
  <2>1. buyer' \in {buyer, disk.buyer} /\ disk'.buyer \in {buyer, disk.buyer}
    BY <1>9, <1>t
       DEF SellerNext, Environment, vars, SellerCreate, SellerSend,
           SellerCompleted, SellerReceive, SellerMessageSent, SellerPoll,
           SellerPublish, SellerPublishSecondary, MineGrin, MineQtum, UndoGrin,
           UndoQtum, Save, Restart
  <2> QED BY <1>o, <2>1
<1> QED BY <1>1, <1>2, <1>3, <1>4, <1>5, <1>6, <1>7, <1>8, <1>9
        DEF Next, BuyerNext

\* A Buyer that has sent its redeem slate, and stored it, stays with it.
LEMMA BuyerBound ==
    ASSUME IInv, [Next]_vars, NEW k,
           \A b \in {buyer, disk.buyer} : Committed(b) /\ b.slate = k
    PROVE  \A b \in {buyer', disk'.buyer} : Committed(b) /\ b.slate = k
<1>t. /\ buyer \in BuyerType /\ ChainTypeOK /\ slates + 1 \in Nat
      /\ disk \in [seller : SellerType, buyer : BuyerType]
  BY DEF IInv, TypeOK, ChainTypeOK
<1>s. BuyerSound(buyer)
  BY DEF IInv, BuyerInv, BuyerSound
<1>1. CASE SellerNext \/ Environment \/ UNCHANGED vars
  <2>1. buyer' \in {buyer, disk.buyer} /\ disk'.buyer \in {buyer, disk.buyer}
    BY <1>1, <1>t
       DEF SellerNext, Environment, vars, SellerCreate, SellerSend,
           SellerCompleted, SellerReceive, SellerMessageSent, SellerPoll,
           SellerPublish, SellerPublishSecondary, MineGrin, MineQtum, UndoGrin,
           UndoQtum, Save, Restart
  <2> QED BY <2>1
<1>5. CASE BuyerSend \/ \E d \in Deposits : BuyerDeposit(d)
  <2>1. buyer' = buyer /\ disk'.buyer \in {buyer, disk.buyer}
    BY <1>5, <1>t DEF BuyerSend, BuyerDeposit
  <2> QED BY <2>1
<1>6. ASSUME NEW m \in net, BuyerAccept(m) \/ BuyerReceive(m)
      PROVE  \A b \in {buyer', disk'.buyer} : Committed(b) /\ b.slate = k
  <2>1. disk' = disk /\ buyer' = [buyer EXCEPT !.status = "Redeem"]
    BY <1>6 DEF BuyerAccept, BuyerReceive, BuyerBecomes, Committed
  <2> QED BY <1>t, <2>1 DEF Committed, BuyerType
<1>7. CASE BuyerCompleted
  <2>1. disk' = disk /\ buyer' = [buyer EXCEPT !.status = "Completed"]
    BY <1>7 DEF BuyerCompleted, BuyerBecomes
  <2> QED BY <1>t, <2>1 DEF Committed, BuyerType
<1>2. ASSUME NEW g, NEW q, BuyerMessageSent(g, q)
      PROVE  \A b \in {buyer', disk'.buyer} : Committed(b) /\ b.slate = k
  BY <1>2, <1>t DEF BuyerMessageSent, BuyerBecomes, Committed, BuyerType
<1>3. ASSUME NEW g, NEW q, BuyerPoll(g, q)
      PROVE  \A b \in {buyer', disk'.buyer} : Committed(b) /\ b.slate = k
  BY <1>3, <1>s, <1>t, BuyerRequiredSound DEF BuyerPoll, BuyerBecomes
<1>4. ASSUME NEW a, NEW g, NEW q, BuyerPublish(a, g, q)
      PROVE  \A b \in {buyer', disk'.buyer} : Committed(b) /\ b.slate = k
  <2> DEFINE t == [buyer EXCEPT !.redeemConf = 0]
             b2 == BuyerRequired(t, g, q, slates + 1)
  <2>1. t \in BuyerType
    BY <1>t DEF BuyerType, Count
  <2>2. Committed(t) /\ t.slate = k
    BY <1>t DEF Committed, BuyerType
  <2>3. BuyerSound(t)
    BY <1>s, <1>t DEF BuyerSound, BuyerOK, Committed, HasRedeem, IsLocked, BuyerType
  <2>4. buyer' \in {buyer, b2} /\ disk' = disk
    BY <1>4 DEF BuyerPublish, BuyerBecomes
  <2> HIDE DEF t
  <2>5. Committed(b2) /\ b2.slate = k
    BY <1>t, <2>1, <2>2, <2>3, BuyerRequiredSound
  <2> HIDE DEF b2
  <2> QED BY <2>4, <2>5
<1> QED BY <1>1, <1>2, <1>3, <1>4, <1>5, <1>6, <1>7 DEF Next, BuyerNext

\* A Seller that has sent its half signature, and stored it, stays with it.
LEMMA SellerBound ==
    ASSUME IInv, [Next]_vars, NEW k,
           \A s \in {seller, disk.seller} : Signed(s) /\ s.slate = k
    PROVE  \A s \in {seller', disk'.seller} : Signed(s) /\ s.slate = k
<1>t. /\ seller \in SellerType /\ ChainTypeOK
      /\ disk \in [seller : SellerType, buyer : BuyerType]
  BY DEF IInv, TypeOK, ChainTypeOK
<1>s. SellerSound(seller)
  BY DEF IInv, SellerInv, SellerSound
<1>1. CASE BuyerNext \/ Environment \/ UNCHANGED vars \/ SellerSend
  <2>1. /\ seller' \in {seller, disk.seller}
        /\ disk'.seller \in {seller, disk.seller}
    BY <1>1, <1>t
       DEF BuyerNext, Environment, vars, BuyerSend, BuyerCompleted, BuyerAccept,
           BuyerReceive, BuyerDeposit, BuyerMessageSent, BuyerPoll, BuyerPublish,
           MineGrin, MineQtum, UndoGrin, UndoQtum, Save, Restart, SellerSend
  <2> QED BY <2>1
<1>6. CASE SellerCreate \/ \E m \in net : SellerReceive(m)
  BY <1>6 DEF SellerCreate, SellerReceive, Signed
<1>7. CASE SellerCompleted
  <2>1. disk' = disk /\ seller' = [seller EXCEPT !.status = "Completed"]
    BY <1>7 DEF SellerCompleted
  <2> QED BY <1>t, <2>1 DEF Signed, SellerType
<1>2. ASSUME NEW g, NEW q, SellerMessageSent(g, q)
      PROVE  \A s \in {seller', disk'.seller} : Signed(s) /\ s.slate = k
  <2>1. [seller EXCEPT !.status = "Redeem"] \in SellerType
    BY <1>t DEF SellerType, SellerStatus
  <2>2. seller.status = "InitRedeem"
    BY <1>2 DEF SellerMessageSent, Signed
  <2>3. /\ Signed([seller EXCEPT !.status = "Redeem"])
        /\ [seller EXCEPT !.status = "Redeem"].slate = k
    BY <1>t DEF Signed, SellerType
  <2>4. SellerSound([seller EXCEPT !.status = "Redeem"])
    BY <1>s, <1>t, <2>2 DEF SellerSound, SellerOK, Signed, SellerType
  <2> DEFINE s2 == SellerRequired([seller EXCEPT !.status = "Redeem"], g, q)
  <2>5. Signed(s2) /\ s2.slate = k
    BY <1>t, <2>1, <2>3, <2>4, SellerRequiredSound
  <2>6. seller' = s2 /\ disk' = disk
    BY <1>2, <2>2 DEF SellerMessageSent
  <2> HIDE DEF s2
  <2> QED BY <2>5, <2>6
<1>3. ASSUME NEW g, NEW q, SellerPoll(g, q)
      PROVE  \A s \in {seller', disk'.seller} : Signed(s) /\ s.slate = k
  BY <1>3, <1>s, <1>t, SellerRequiredSound DEF SellerPoll
<1>4. ASSUME NEW a, NEW g, NEW q, SellerPublish(a, g, q)
      PROVE  \A s \in {seller', disk'.seller} : Signed(s) /\ s.slate = k
  BY <1>4 DEF SellerPublish, Signed
<1>5. ASSUME NEW a, NEW g, NEW q, SellerPublishSecondary(a, g, q)
      PROVE  \A s \in {seller', disk'.seller} : Signed(s) /\ s.slate = k
  <2>1. [seller EXCEPT !.secConf = 0] \in SellerType
    BY <1>t DEF SellerType, Count
  <2>2. /\ Signed([seller EXCEPT !.secConf = 0])
        /\ [seller EXCEPT !.secConf = 0].slate = k
    BY <1>t DEF Signed, SellerType
  <2>3. SellerSound([seller EXCEPT !.secConf = 0])
    BY <1>s, <1>t DEF SellerSound, SellerOK, Signed, SellerType
  <2> DEFINE s2 == SellerRequired([seller EXCEPT !.secConf = 0], g, q)
  <2>4. Signed(s2) /\ s2.slate = k
    BY <1>t, <2>1, <2>2, <2>3, SellerRequiredSound
  <2>5. seller' \in {seller, s2} /\ disk' = disk
    BY <1>5 DEF SellerPublishSecondary
  <2> HIDE DEF s2
  <2> QED BY <2>4, <2>5
<1> QED BY <1>1, <1>2, <1>3, <1>4, <1>5, <1>6, <1>7 DEF Next, SellerNext

LEMMA NetStep ==
    ASSUME IInv, [Next]_vars
    PROVE  NetInv'
<1>t. /\ buyer \in BuyerType /\ seller \in SellerType /\ net \subseteq Message
      /\ disk \in [seller : SellerType, buyer : BuyerType]
  BY DEF IInv, TypeOK
<1>n. NetInv
  BY DEF IInv
<1>p. net \subseteq net'
  BY ProgressStep DEF IInv, Progress
<1> SUFFICES ASSUME NEW m \in net', m.swap = "this"
    PROVE  /\ m.type = "InitRedeem" =>
                \A b \in {buyer', disk'.buyer} : Committed(b) /\ b.slate = m.body
           /\ m.type = "Redeem" =>
                /\ Msg("InitRedeem", m.body) \in net'
                /\ \A s \in {seller', disk'.seller} :
                      Signed(s) /\ s.slate = m.body
  BY DEF NetInv
<1>1. CASE m \in net
  <2>1. CASE m.type = "InitRedeem"
    <3>1. \A b \in {buyer, disk.buyer} : Committed(b) /\ b.slate = m.body
      BY <1>1, <1>n, <2>1 DEF NetInv
    <3> QED BY <2>1, <3>1, BuyerBound
  <2>2. CASE m.type = "Redeem"
    <3>1. /\ \A s \in {seller, disk.seller} : Signed(s) /\ s.slate = m.body
          /\ Msg("InitRedeem", m.body) \in net
      BY <1>1, <1>n, <2>2 DEF NetInv
    <3> QED BY <1>p, <2>2, <3>1, SellerBound
  <2> QED BY <2>1, <2>2
<1>2. CASE m \notin net /\ SellerSend
  <2>1. /\ m \in SellerMessages /\ seller' = seller /\ disk'.seller = seller
        /\ net \subseteq net'
    BY <1>2, <1>t DEF SellerSend
  <2>2. CASE m.type = "Redeem"
    <3>1. seller.status = "InitRedeem" /\ m.body = seller.slate
      BY <2>1, <2>2 DEF SellerMessages, Msg
    <3>2. Signed(seller) /\ Msg("InitRedeem", seller.slate) \in net
      BY <3>1 DEF IInv, SellerInv, SellerOK, Signed
    <3> QED BY <2>1, <2>2, <3>1, <3>2
  <2>3. m.type # "InitRedeem"
    BY <2>1 DEF SellerMessages, Msg
  <2> QED BY <2>2, <2>3
<1>3. CASE m \notin net /\ BuyerSend
  <2>1. m \in BuyerMessages /\ buyer' = buyer /\ disk'.buyer = buyer
    BY <1>3, <1>t DEF BuyerSend
  <2>2. CASE m.type = "InitRedeem"
    <3>1. buyer.status = "Locked" /\ m.body = buyer.slate
      BY <2>1, <2>2 DEF BuyerMessages, Msg
    <3> QED BY <2>1, <2>2, <3>1 DEF Committed
  <2>3. m.type # "Redeem"
    BY <2>1 DEF BuyerMessages, Msg
  <2> QED BY <2>2, <2>3
<1>4. net' = net \/ SellerSend \/ BuyerSend
  BY DEF Next, SellerNext, BuyerNext, Environment, vars, SellerCreate,
         SellerCompleted, SellerReceive, SellerMessageSent, SellerPoll,
         SellerPublish, SellerPublishSecondary, BuyerCompleted, BuyerAccept,
         BuyerReceive, BuyerDeposit, BuyerMessageSent, BuyerPoll, BuyerPublish,
         MineGrin, MineQtum, UndoGrin, UndoQtum, Save, Restart
<1> QED BY <1>1, <1>2, <1>3, <1>4

LEMMA ChainStep ==
    ASSUME IInv, Progress, [Next]_vars
    PROVE  ChainInv'
<1>t. /\ grin \in GrinType /\ qtum \in QtumType /\ ChainTypeOK
  BY DEF IInv, TypeOK, ChainTypeOK
<1>i. ChainInv
  BY DEF IInv
<1>p. /\ net \subseteq net'
      /\ grin.redeem # NoTx => grin'.redeem # NoTx /\ grin'.slate = grin.slate
  BY DEF Progress
<1>m. MaxUndo \in Nat
  BY ChainAssumption
<1>1. CASE UNCHANGED <<grin, qtum>>
  BY <1>1, <1>i, <1>p DEF ChainInv
<1>2. CASE MineGrin \/ UndoGrin
  <2>1. /\ grin.redeem # NoTx <=> grin'.redeem # NoTx
        /\ grin'.slate = grin.slate
    BY <1>2, <1>t, GrinBlockProgress DEF MineGrin, UndoGrin
  <2>2. grin'.undone <= MaxUndo
    <3>1. \/ grin'.undone = grin.undone
          \/ grin'.undone = grin.undone + 1 /\ grin.undone < MaxUndo
      BY <1>2, <1>t DEF MineGrin, UndoGrin, GrinMineBlock, GrinUndoBlock, GrinType
    <3>2. grin.undone \in Nat /\ grin.undone <= MaxUndo
      BY <1>t, <1>i DEF GrinType, ChainInv
    <3> QED BY <1>m, <3>1, <3>2
  <2>3. qtum' = qtum
    BY <1>2 DEF MineGrin, UndoGrin
  <2> QED BY <1>i, <1>p, <2>1, <2>2, <2>3 DEF ChainInv
<1>3. CASE MineQtum \/ UndoQtum
  <2>1. qtum.sec # NoTx <=> qtum'.sec # NoTx
    BY <1>3, <1>t, QtumBlockProgress DEF MineQtum, UndoQtum
  <2>2. qtum'.undone <= MaxUndo
    <3>1. \/ qtum'.undone = qtum.undone
          \/ qtum'.undone = qtum.undone + 1 /\ qtum.undone < MaxUndo
      BY <1>3, <1>t DEF MineQtum, UndoQtum, QtumMineBlock, QtumUndoBlock, QtumType
    <3>2. qtum.undone \in Nat /\ qtum.undone <= MaxUndo
      BY <1>t, <1>i DEF QtumType, ChainInv
    <3> QED BY <1>m, <3>1, <3>2
  <2>3. grin' = grin
    BY <1>3 DEF MineQtum, UndoQtum
  <2> QED BY <1>i, <1>p, <2>1, <2>2, <2>3 DEF ChainInv
<1>4. ASSUME NEW a, NEW g, NEW q, SellerPublish(a, g, q)
      PROVE  ChainInv'
  BY <1>4, <1>t, <1>i, <1>p DEF SellerPublish, GrinType, ChainInv
<1>5. ASSUME NEW a, NEW g, NEW q, SellerPublishSecondary(a, g, q)
      PROVE  ChainInv'
  <2>1. grin.redeem # NoTx
    BY <1>5 DEF SellerPublishSecondary, IInv, SellerInv, SellerOK
  <2> QED BY <1>5, <1>t, <1>i, <1>p, <2>1
          DEF SellerPublishSecondary, QtumType, ChainInv
<1>6. ASSUME NEW a, NEW g, NEW q, BuyerPublish(a, g, q)
      PROVE  ChainInv'
  <2>1. Msg("Redeem", buyer.slate) \in net
    BY <1>6 DEF BuyerPublish, IInv, BuyerInv, BuyerOK, HasRedeem
  <2>2. /\ grin'.undone = grin.undone /\ grin'.redeem = Mempool
        /\ grin'.slate = buyer.slate /\ qtum' = qtum
    BY <1>6, <1>t DEF BuyerPublish, GrinType
  <2> QED BY <1>i, <1>p, <2>1, <2>2 DEF ChainInv, Mempool, NoTx
<1>7. ASSUME NEW d \in Deposits, BuyerDeposit(d)
      PROVE  ChainInv'
  BY <1>7, <1>t, <1>i, <1>p DEF BuyerDeposit, QtumType, ChainInv
<1>8. \/ UNCHANGED <<grin, qtum>>
      \/ MineGrin \/ UndoGrin \/ MineQtum \/ UndoQtum
      \/ \E a, g, q \in BOOLEAN : \/ SellerPublish(a, g, q)
                                  \/ SellerPublishSecondary(a, g, q)
                                  \/ BuyerPublish(a, g, q)
      \/ \E d \in Deposits : BuyerDeposit(d)
  BY ChainActions
<1> QED BY <1>1, <1>2, <1>3, <1>4, <1>5, <1>6, <1>7, <1>8

-----------------------------------------------------------------------------
(* The theorems *)

LEMMA InitIInv == Init => IInv
<1> SUFFICES ASSUME Init PROVE IInv
  OBVIOUS
<1>1. TypeOK
  BY InitType
<1>2. GrinReach \in Nat
  BY <1>1, ReachType DEF TypeOK, ChainTypeOK
<1>3. ChainInv
  BY ChainAssumption DEF Init, ChainInit, ChainInv
<1>4. SellerInv
  BY <1>2 DEF Init, NewSeller, SellerInv, SellerOK, Signed, None
<1>5. BuyerInv
  BY <1>2 DEF Init, NewBuyer, BuyerInv, BuyerOK, Committed, HasRedeem, None
<1>6. NetInv
  BY DEF Init, Foreign, NetInv
<1> QED BY <1>1, <1>3, <1>4, <1>5, <1>6 DEF IInv

LEMMA NextIInv == IInv /\ [Next]_vars => IInv'
<1> SUFFICES ASSUME IInv, [Next]_vars PROVE IInv'
  OBVIOUS
<1>1. TypeOK'
  BY NextType, SwapAssumption DEF IInv
<1>2. Progress
  BY ProgressStep DEF IInv
<1>3. ChainInv'
  BY <1>2, ChainStep
<1>4. SellerInv' /\ BuyerInv'
  BY <1>1, <1>2, SellerStep, BuyerStep
<1>5. NetInv'
  BY NetStep
<1> QED BY <1>1, <1>3, <1>4, <1>5 DEF IInv

LEMMA Inductive == Spec => []IInv
BY InitIInv, NextIInv, PTL DEF Spec

(* What a party recorded of the Grin lock's confirmations never exceeds what *)
(* the chain shows by more than the blocks it has taken back.                *)
THEOREM LockRecordsAreSound == Spec => []LockRecordSound
<1>1. IInv => LockRecordSound
  BY DEF IInv, SellerInv, BuyerInv, SellerOK, BuyerOK, LockRecordSound,
         LockRecorded, GrinReach
<1> QED BY <1>1, Inductive, PTL

LEMMA SettledAreMined ==
    ASSUME IInv
    PROVE  Settled \subseteq Mined
<1> SUFFICES ASSUME NEW d \in Settled PROVE d \in Mined
  OBVIOUS
<1>1. /\ d \in Deposits /\ qtum.undone \in Nat
      /\ Depth(qtum.height, qtum.dep[d]) + qtum.undone >= SecConf
      /\ qtum.undone <= MaxUndo
  BY DEF Settled, IInv, TypeOK, QtumType, ChainInv
<1>2. Depth(qtum.height, qtum.dep[d]) # 0
  BY <1>1, ChainAssumption
<1> QED BY <1>1, <1>2 DEF Mined, Depth

LEMMA CommitsFollow == IInv => CommitOnlyWhenLocked
<1> SUFFICES ASSUME IInv, NEW m \in net, m.swap = "this",
                    m.type \in {"InitRedeem", "Redeem"}
             PROVE  grin.lock > Mempool /\ Cardinality(Mined) >= Required
  BY DEF CommitOnlyWhenLocked
<1>1. Committed(buyer)
  <2>1. PICK n \in net : n.swap = "this" /\ n.type = "InitRedeem"
    BY DEF IInv, NetInv, Msg
  <2> QED BY <2>1 DEF IInv, NetInv
<1>2. /\ buyer.lockConf >= LockConf /\ buyer.lockConf <= GrinReach
      /\ Cardinality(Settled) >= Required
  BY <1>1 DEF IInv, BuyerInv, BuyerOK, IsLocked
<1>3. grin.lock > Mempool
  <2>1. /\ GrinReach \in Nat /\ buyer.lockConf \in Int
        /\ grin.undone \in Nat /\ grin.undone <= MaxUndo
    BY ReachType DEF IInv, TypeOK, ChainTypeOK, BuyerType, Count, None,
                     GrinType, ChainInv
  <2>2. Depth(grin.height, grin.lock) # 0
    BY <1>2, <2>1, ChainAssumption DEF GrinReach
  <2> QED BY <2>2 DEF Depth
<1>4. Cardinality(Mined) >= Required
  <2>1. IsFiniteSet(Mined)
    <3>1. Mined \subseteq Deposits
      BY DEF Mined
    <3> QED BY <3>1, ChainAssumption, FS_Subset
  <2>2. Cardinality(Settled) <= Cardinality(Mined)
    BY <2>1, SettledAreMined, FS_Subset
  <2>3. Cardinality(Settled) \in Int /\ Cardinality(Mined) \in Int
    BY <2>1, SettledFinite, FS_CardinalityType
  <2> QED BY <1>2, <2>2, <2>3, RequiredAssumption
<1> QED BY <1>3, <1>4

(* Neither party's signature for the redeem transaction is out before the    *)
(* funds of both are in blocks.                                              *)
THEOREM CommitsAreSafe == Spec => []CommitOnlyWhenLocked
BY CommitsFollow, Inductive, PTL

(* The redeem transaction on the Grin chain is one the Seller half signed at *)
(* the Buyer's request.                                                      *)
THEOREM RedeemsAreSigned == Spec => []RedeemWasSigned
<1>1. IInv => RedeemWasSigned
  BY DEF IInv, ChainInv, NetInv, RedeemWasSigned
<1> QED BY <1>1, Inductive, PTL

(* Only one redeem slate is ever sent, whatever was built or restored.       *)
THEOREM OneSlateIsSent == Spec => []OneRedeemSlate
<1>1. IInv => OneRedeemSlate
  BY DEF IInv, NetInv, OneRedeemSlate
<1> QED BY <1>1, Inductive, PTL

(* Atomicity for the Seller: a Buyer that can take the Grin faces a Seller   *)
(* that has signed that very slate, in memory and on disk.                   *)
THEOREM SellerCanAlwaysClaim == Spec => []SellerCanClaim
<1>1. IInv => SellerCanClaim
  <2> SUFFICES ASSUME IInv, NEW b \in {buyer, disk.buyer}, HasRedeem(b)
               PROVE  \A s \in {seller, disk.seller} :
                         Signed(s) /\ s.slate = b.slate
    BY DEF SellerCanClaim
  <2>1. Msg("Redeem", b.slate) \in net
    BY DEF IInv, BuyerInv, BuyerOK
  <2> QED BY <2>1 DEF IInv, NetInv, Msg
<1> QED BY <1>1, Inductive, PTL

(* Atomicity for the Buyer: no claim on the Qtum before the redeem           *)
(* transaction that pays the Buyer is published.                             *)
THEOREM QtumComesAfterGrin == Spec => []QtumAfterGrin
<1>1. IInv => QtumAfterGrin
  BY DEF IInv, ChainInv, QtumAfterGrin
<1> QED BY <1>1, Inductive, PTL

(* The Seller's claim spends mined deposits worth the agreed amount.         *)
THEOREM ClaimsCoverThePrice == Spec => []ClaimCoversPrice
<1>1. IInv => ClaimCoversPrice
  BY SettledAreMined
     DEF IInv, SellerInv, SellerOK, Signed, ClaimCoversPrice
<1> QED BY <1>1, Inductive, PTL
=============================================================================
