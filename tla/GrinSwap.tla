------------------------------ MODULE GrinSwap ------------------------------
(***************************************************************************)
(* A Grin/Qtum atomic swap between two parties that run the library in     *)
(* qtumatmoicswap/grinswap: a Seller of Grin and a Buyer who pays in Qtum. *)
(*                                                                         *)
(* Each operation of SwapApi (swap/qtum/api.rs) is an action, from its     *)
(* status check through the trailing required_action, which is written out *)
(* wherever it can change anything in the status just reached; after       *)
(* create_swap_offer, accept_swap_offer, receive_message and completed it  *)
(* cannot: the counters it would refresh are still None, or the swap is    *)
(* over.  A call that returns                                              *)
(* an error before it assigns anything is a stuttering step and is not     *)
(* written out; one that fails half-way is, with what it had assigned.     *)
(*                                                                         *)
(* The library's caller (a wallet, not in the repository) carries the      *)
(* messages and stores the two swap objects.  It is assumed to             *)
(*   - call message_sent only for a message it has sent,                   *)
(*   - store a swap object when it is created and before it hands one of   *)
(*     its messages to the transport,                                      *)
(* and nothing else: it may store the object again at any time or not, it  *)
(* may crash and continue from the stored object, and its transport may    *)
(* lose, repeat, delay and reorder messages (`net' only grows; a lost      *)
(* message is one the receiver never takes) and deliver those of another   *)
(* swap.                                                                   *)
(***************************************************************************)
EXTENDS SwapSeller, SwapBuyer

CONSTANTS
    RefundDelta,   \* blocks until the refund transaction unlocks (12 * 60)
    MinRefund,     \* what the Buyer insists is left of them (10 * 60)
    Faults,        \* which of "down" (a node does not answer) and "lost" (it
                   \* takes a transaction but its answer is lost) occur
    MaxRestarts    \* bound: crashes of either party, in total

ASSUME SwapAssumption ==
    /\ RefundDelta \in Nat /\ MinRefund \in Nat /\ MinRefund <= RefundDelta
    /\ Faults \subseteq {"down", "lost"}
    /\ MaxRestarts \in Nat

VARIABLES
    seller, buyer,   \* the two swap objects, as their parties hold them
    disk,            \* the stored copies
    net,             \* every message ever sent
    slates,          \* redeem slates built so far (random offsets drawn)
    restarts

vars == <<grin, qtum, seller, buyer, disk, net, slates, restarts>>

MsgType == {"Offer", "AcceptOffer", "InitRedeem", "Redeem"}
Message == [swap : {"this", "other"}, type : MsgType, body : Nat]
Msg(type, body) == [swap |-> "this", type |-> type, body |-> body]

\* Messages of another swap between the same parties.
Foreign == {[swap |-> "other", type |-> t, body |-> 0] : t \in MsgType}

Init ==
    /\ ChainInit
    /\ seller = NewSeller
    /\ buyer = NewBuyer
    /\ disk = [seller |-> NewSeller, buyer |-> NewBuyer]
    /\ net = Foreign
    /\ slates = 0
    /\ restarts = 0

\* Whether a node answers during a call, and whether its answer to a post
\* arrives.
Answers == IF "down" \in Faults THEN BOOLEAN ELSE {TRUE}
PostAnswers == IF "lost" \in Faults THEN BOOLEAN ELSE {TRUE}

-----------------------------------------------------------------------------
(* The Seller *)

\* Mutant of SellerCreate: the refund is scheduled before the present height.
SellerCreateBackwards ==
    /\ seller.status = "None"
    /\ seller' = [NewSeller EXCEPT !.status = "Created",
                                   !.refundAt = grin.height - RefundDelta]
    /\ disk' = [disk EXCEPT !.seller = seller']
    /\ UNCHANGED <<grin, qtum, buyer, net, slates, restarts>>

SellerCreate ==
    /\ seller.status = "None"
    /\ seller' = [NewSeller EXCEPT !.status = "Created",
                                   !.refundAt = grin.height + RefundDelta]
    /\ disk' = [disk EXCEPT !.seller = seller']
    /\ UNCHANGED <<grin, qtum, buyer, net, slates, restarts>>

\* SellApi::message: nothing to send in any other status.
SellerMessages ==
    CASE seller.status = "Created" -> {Msg("Offer", seller.refundAt)}
      [] seller.status = "InitRedeem" -> {Msg("Redeem", seller.slate)}
      [] OTHER -> {}

SellerSend ==
    /\ SellerMessages # {}
    /\ net' = net \cup SellerMessages
    /\ disk' = [disk EXCEPT !.seller = seller]
    /\ UNCHANGED <<grin, qtum, seller, buyer, slates, restarts>>

\* Mutant of SellerMessageSent: sending the half signature uses the slate up.
SellerMessageSentTaken(g, q) ==
    /\ SellerMessages # {} /\ SellerMessages \subseteq net
    /\ \/ /\ seller.status = "Created"
          /\ seller' = [seller EXCEPT !.status = "Offered"]
       \/ /\ seller.status = "InitRedeem"
          /\ seller' = SellerRequired(
                [seller EXCEPT !.status = "Redeem", !.slate = 0], g, q)
    /\ UNCHANGED <<grin, qtum, buyer, disk, net, slates, restarts>>

\* The swap advances before required_action runs, and stays so if that fails.
SellerMessageSent(g, q) ==
    /\ SellerMessages # {} /\ SellerMessages \subseteq net
    /\ \/ /\ seller.status = "Created"
          /\ seller' = [seller EXCEPT !.status = "Offered"]
       \/ /\ seller.status = "InitRedeem"
          /\ seller' = SellerRequired([seller EXCEPT !.status = "Redeem"], g, q)
    /\ UNCHANGED <<grin, qtum, buyer, disk, net, slates, restarts>>

\* Mutant of SellerReceive: the id of the swap is not compared.
SellerReceiveAnySwap(m) ==
    /\ m \in net
    /\ \/ /\ m.type = "AcceptOffer" /\ seller.status = "Offered"
          /\ seller' = [seller EXCEPT !.status = "Accepted"]
       \/ /\ m.type = "InitRedeem" /\ seller.status = "Locked"
          /\ seller' = [seller EXCEPT !.status = "InitRedeem", !.slate = m.body]
    /\ UNCHANGED <<grin, qtum, buyer, disk, net, slates, restarts>>

\* receive_message, guarded by the swap's id and by the status.
SellerReceive(m) ==
    /\ m \in net /\ m.swap = "this"
    /\ \/ /\ m.type = "AcceptOffer" /\ seller.status = "Offered"
          /\ seller' = [seller EXCEPT !.status = "Accepted"]
       \/ /\ m.type = "InitRedeem" /\ seller.status = "Locked"
          /\ seller' = [seller EXCEPT !.status = "InitRedeem", !.slate = m.body]
    /\ UNCHANGED <<grin, qtum, buyer, disk, net, slates, restarts>>

\* The user asks for the required action.
SellerPoll(g, q) ==
    /\ seller' = SellerRequired(seller, g, q)
    /\ UNCHANGED <<grin, qtum, buyer, disk, net, slates, restarts>>

(* publish_transaction.  When the node's answer is lost the call fails with  *)
(* the transaction on its way and lock_confirmations still None.            *)
SellerPublish(answered, g, q) ==
    /\ seller.status = "Accepted" /\ seller.lockConf = None
    /\ GrinTakesLock
    /\ grin' = [grin EXCEPT !.lock = Mempool]
    /\ seller' = IF answered
                 THEN SellerRequired([seller EXCEPT !.lockConf = 0], g, q)
                 ELSE seller
    /\ UNCHANGED <<qtum, buyer, disk, net, slates, restarts>>

\* publish_secondary_transaction
SellerPublishSecondary(answered, g, q) ==
    /\ seller.status = "RedeemSecondary" /\ seller.secConf = None
    /\ QtumTakes(seller.tx)
    /\ qtum' = [qtum EXCEPT !.sec = Mempool, !.spent = seller.tx]
    /\ seller' = IF answered
                 THEN SellerRequired([seller EXCEPT !.secConf = 0], g, q)
                 ELSE seller
    /\ UNCHANGED <<grin, buyer, disk, net, slates, restarts>>

SellerCompleted ==
    /\ seller.status = "RedeemSecondary" /\ seller.secConf > 0
    /\ seller' = [seller EXCEPT !.status = "Completed"]
    /\ UNCHANGED <<grin, qtum, buyer, disk, net, slates, restarts>>

-----------------------------------------------------------------------------
(* The Buyer *)

\* The refund transaction has to stay locked for MinRefund more blocks.
BuyerAccept(m) ==
    /\ buyer.status = "None"
    /\ m \in net /\ m.swap = "this" /\ m.type = "Offer"
    /\ m.body >= grin.height + MinRefund
    /\ buyer' = [NewBuyer EXCEPT !.status = "Offered"]
    /\ disk' = [disk EXCEPT !.buyer = buyer']
    /\ UNCHANGED <<grin, qtum, seller, net, slates, restarts>>

BuyerMessages ==
    CASE buyer.status = "Offered" -> {Msg("AcceptOffer", 0)}
      [] buyer.status = "Locked" -> {Msg("InitRedeem", buyer.slate)}
      [] OTHER -> {}

BuyerSend ==
    /\ BuyerMessages # {}
    /\ net' = net \cup BuyerMessages
    /\ disk' = [disk EXCEPT !.buyer = buyer]
    /\ UNCHANGED <<grin, qtum, seller, buyer, slates, restarts>>

\* The Buyer's object becomes b, which may hold a newly built slate.
BuyerBecomes(b) ==
    /\ buyer' = b
    /\ slates' = IF b.slate > slates THEN b.slate ELSE slates

BuyerMessageSent(g, q) ==
    /\ BuyerMessages # {} /\ BuyerMessages \subseteq net
    /\ \/ /\ buyer.status = "Offered"
          /\ BuyerBecomes(BuyerRequired([buyer EXCEPT !.status = "Accepted"],
                                        g, q, slates + 1))
       \/ /\ buyer.status = "Locked"
          /\ BuyerBecomes([buyer EXCEPT !.status = "InitRedeem"])
    /\ UNCHANGED <<grin, qtum, seller, disk, net, restarts>>

\* receive_message: a half signature for another slate does not verify.
BuyerReceive(m) ==
    /\ m \in net /\ m.swap = "this"
    /\ m.type = "Redeem" /\ buyer.status = "InitRedeem"
    /\ m.body = buyer.slate
    /\ BuyerBecomes([buyer EXCEPT !.status = "Redeem"])
    /\ UNCHANGED <<grin, qtum, seller, disk, net, restarts>>

BuyerPoll(g, q) ==
    /\ BuyerBecomes(BuyerRequired(buyer, g, q, slates + 1))
    /\ UNCHANGED <<grin, qtum, seller, disk, net, restarts>>

\* publish_transaction, as the Seller's
BuyerPublish(answered, g, q) ==
    /\ buyer.status = "Redeem" /\ buyer.redeemConf = None
    /\ GrinTakesRedeem
    /\ grin' = [grin EXCEPT !.redeem = Mempool, !.slate = buyer.slate]
    /\ BuyerBecomes(IF answered
                    THEN BuyerRequired([buyer EXCEPT !.redeemConf = 0],
                                       g, q, slates + 1)
                    ELSE buyer)
    /\ UNCHANGED <<qtum, seller, disk, net, restarts>>

BuyerCompleted ==
    /\ buyer.status = "Redeem" /\ buyer.redeemConf > 0
    /\ BuyerBecomes([buyer EXCEPT !.status = "Completed"])
    /\ UNCHANGED <<grin, qtum, seller, disk, net, restarts>>

\* The Buyer's user pays to the address that DepositSecondary named.
BuyerDeposit(d) ==
    /\ buyer.status = "Accepted" /\ qtum.dep[d] = NoTx
    /\ qtum' = [qtum EXCEPT !.dep[d] = Mempool]
    /\ UNCHANGED <<grin, seller, buyer, disk, net, slates, restarts>>

-----------------------------------------------------------------------------
(* The chains, and crashes of the parties *)

(* Bound: a block is mined only while it can make a difference, that is     *)
(* while a transaction lacks confirmations or an offer may still expire.    *)
OfferOpen ==
    /\ buyer.status = "None" /\ seller.status \in {"Created", "Offered"}
    /\ seller.refundAt >= grin.height + MinRefund

GrinBusy ==
    \/ Mempool \in {grin.lock, grin.redeem}
    \/ Depth(grin.height, grin.lock) \in 1 .. LockConf - 1
    \/ OfferOpen

QtumBusy ==
    \/ qtum.sec = Mempool
    \/ \E d \in Deposits :
          /\ qtum.dep[d] # NoTx
          /\ Depth(qtum.height, qtum.dep[d]) < SecConf

MineGrin ==
    /\ GrinBusy /\ GrinMineBlock
    /\ UNCHANGED <<qtum, seller, buyer, disk, net, slates, restarts>>

MineQtum ==
    /\ QtumBusy /\ QtumMineBlock
    /\ UNCHANGED <<grin, seller, buyer, disk, net, slates, restarts>>

UndoGrin ==
    /\ GrinUndoBlock
    /\ UNCHANGED <<qtum, seller, buyer, disk, net, slates, restarts>>

UndoQtum ==
    /\ QtumUndoBlock
    /\ UNCHANGED <<grin, seller, buyer, disk, net, slates, restarts>>

\* Storing a swap object matters only if a crash may follow.
Save ==
    /\ restarts < MaxRestarts
    /\ \/ disk' = [disk EXCEPT !.seller = seller]
       \/ disk' = [disk EXCEPT !.buyer = buyer]
    /\ UNCHANGED <<grin, qtum, seller, buyer, net, slates, restarts>>

Restart ==
    /\ restarts < MaxRestarts
    /\ restarts' = restarts + 1
    /\ \/ seller' = disk.seller /\ buyer' = buyer
       \/ buyer' = disk.buyer /\ seller' = seller
    /\ UNCHANGED <<grin, qtum, disk, net, slates>>

-----------------------------------------------------------------------------
SellerNext ==
    \/ SellerCreate \/ SellerSend \/ SellerCompleted
    \/ \E m \in net : SellerReceive(m)
    \/ \E g, q \in Answers :
          \/ SellerMessageSent(g, q)
          \/ SellerPoll(g, q)
          \/ \E a \in PostAnswers :
                SellerPublish(a, g, q) \/ SellerPublishSecondary(a, g, q)

BuyerNext ==
    \/ BuyerSend \/ BuyerCompleted
    \/ \E m \in net : BuyerAccept(m) \/ BuyerReceive(m)
    \/ \E d \in Deposits : BuyerDeposit(d)
    \/ \E g, q \in Answers :
          \/ BuyerMessageSent(g, q)
          \/ BuyerPoll(g, q)
          \/ \E a \in PostAnswers : BuyerPublish(a, g, q)

Environment == MineGrin \/ MineQtum \/ UndoGrin \/ UndoQtum \/ Save \/ Restart

Next == SellerNext \/ BuyerNext \/ Environment

Spec == Init /\ [][Next]_vars

(* Both users follow the required action, blocks keep coming, and a node     *)
(* that answers at all answers again.  Nothing is asked of lost messages:    *)
(* whoever waits for a message is handed it in the end.                      *)
Fairness ==
    /\ WF_vars(SellerSend) /\ WF_vars(SellerMessageSent(TRUE, TRUE))
    /\ WF_vars(\E m \in net : SellerReceive(m))
    /\ WF_vars(SellerPoll(TRUE, TRUE))
    /\ WF_vars(SellerPublish(TRUE, TRUE, TRUE))
    /\ WF_vars(SellerPublishSecondary(TRUE, TRUE, TRUE))
    /\ WF_vars(SellerCompleted)
    /\ WF_vars(BuyerSend) /\ WF_vars(BuyerMessageSent(TRUE, TRUE))
    /\ WF_vars(\E m \in net : BuyerReceive(m))
    /\ WF_vars(\E d \in Deposits : BuyerDeposit(d))
    /\ WF_vars(BuyerPoll(TRUE, TRUE))
    /\ WF_vars(BuyerPublish(TRUE, TRUE, TRUE))
    /\ WF_vars(BuyerCompleted)
    /\ WF_vars(MineGrin) /\ WF_vars(MineQtum)

FairSpec == Spec /\ Fairness

-----------------------------------------------------------------------------
(* Properties *)

TypeOK ==
    /\ grin \in GrinType
    /\ qtum \in QtumType
    /\ seller \in SellerType
    /\ buyer \in BuyerType
    /\ disk \in [seller : SellerType, buyer : BuyerType]
    /\ net \subseteq Message
    /\ slates \in Nat
    /\ restarts \in Nat

(* A recorded number of lock confirmations never exceeds what the Grin chain *)
(* shows by more than the blocks it has taken back: update_lock_confirmations*)
(* leaves a count in place when the output is gone, and a stored object      *)
(* brings an old count back, but neither can turn it into more than that.    *)
LockRecorded(p) ==
    p.lockConf <= Depth(grin.height, grin.lock) + grin.undone
LockRecordSound ==
    /\ LockRecorded(seller) /\ LockRecorded(disk.seller)
    /\ LockRecorded(buyer) /\ LockRecorded(disk.buyer)

(* Neither party lets go of its signature for the redeem transaction before  *)
(* the funds of both are in a block: the messages InitRedeem (adaptor        *)
(* signature) and Redeem (half signature) are out only when the Grin lock    *)
(* and enough Qtum deposits are mined, whatever calls failed, whichever      *)
(* object was restored and whichever blocks were taken back on the way.      *)
Mined == {d \in Deposits : qtum.dep[d] > Mempool}
CommitOnlyWhenLocked ==
    (\E m \in net : m.swap = "this" /\ m.type \in {"InitRedeem", "Redeem"})
        => grin.lock > Mempool /\ Cardinality(Mined) >= Required

(* The redeem transaction on the Grin chain is one the Seller half signed,   *)
(* and the Seller half signs only what the Buyer of this swap asked for.     *)
RedeemWasSigned ==
    /\ grin.redeem # NoTx => Msg("Redeem", grin.slate) \in net
    /\ \A m \in net : m.swap = "this" /\ m.type = "Redeem"
                         => Msg("InitRedeem", m.body) \in net

(* The Buyer builds its redeem slate with a random offset and can do so      *)
(* again after a crash; still only one slate is ever sent to the Seller.     *)
OneRedeemSlate ==
    \A m, n \in net : /\ m.swap = "this" /\ m.type = "InitRedeem"
                      /\ n.swap = "this" /\ n.type = "InitRedeem"
                      => m.body = n.body

(* Atomicity, for the Seller: as soon as the Buyer can take the Grin, the    *)
(* Seller has signed that very slate, in memory and on disk, and so can read *)
(* the redeem secret off the chain (calculate_redeem_secret) and claim the   *)
(* Qtum.                                                                     *)
SellerCanClaim ==
    \A b \in {buyer, disk.buyer} :
        HasRedeem(b) => /\ Signed(seller) /\ seller.slate = b.slate
                        /\ Signed(disk.seller) /\ disk.seller.slate = b.slate

(* Atomicity, for the Buyer: the Qtum is claimed only after the redeem       *)
(* transaction that pays the Buyer was published.                            *)
QtumAfterGrin == qtum.sec # NoTx => grin.redeem # NoTx

(* The Seller's Qtum transaction, built from the outputs that were confirmed *)
(* when the lock was seen, spends mined deposits worth the agreed amount.    *)
ClaimCoversPrice ==
    seller.status \in {"RedeemSecondary", "Completed"} =>
        /\ Cardinality(seller.tx) >= Required
        /\ seller.tx \subseteq Mined

(* "If we got here, funds have been locked on both chains with sufficient    *)
(* confirmations" (api.rs:147 and 305): a party that turns Locked does so    *)
(* while both chains show them.                                              *)
BothConfirmed ==
    Depth(grin.height, grin.lock) >= LockConf /\ Funded
LockedMeansConfirmed ==
    [][/\ restarts' = restarts
       /\ \/ seller.status # "Locked" /\ seller'.status = "Locked"
          \/ buyer.status # "Locked" /\ buyer'.status = "Locked"
       => BothConfirmed]_vars

(* "..but we haven't published it yet" (api.rs:241), where the Seller's      *)
(* redeem_confirmations on the Qtum chain is None.                           *)
NotPublishedYet ==
    seller.status = "RedeemSecondary" /\ seller.secConf = None
        => qtum.sec = NoTx

(* Once the Seller has locked Grin, both parties complete the swap.          *)
BothCompleted == seller.status = "Completed" /\ buyer.status = "Completed"
SwapSettles == (grin.lock # NoTx) ~> BothCompleted
=============================================================================
