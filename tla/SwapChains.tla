----------------------------- MODULE SwapChains -----------------------------
(***************************************************************************)
(* The two block chains a Grin/Qtum atomic swap runs on, as the swap code  *)
(* sees them through its two node clients.                                 *)
(*                                                                         *)
(* The repository holds both clients' test doubles, which are the chains   *)
(* this module translates: TestNodeClient (swap/mod.rs) is the Grin chain  *)
(* and TestgrinNodeClient (swap/qtum/client.rs) the Qtum chain.  (The      *)
(* source calls both chains "grin"; here the chain of the Buyer's deposit  *)
(* is always `qtum'.)                                                      *)
(*                                                                         *)
(* A transaction is named by what it is for and carries the height of the  *)
(* block that holds it: NoTx before it is posted, Mempool while no block   *)
(* holds it.                                                               *)
(***************************************************************************)
EXTENDS Integers, FiniteSets

CONSTANTS
    Deposits,   \* the payments a Buyer may make to the Qtum script address
    LockConf,   \* confirmations asked of the Grin lock output (30)
    SecConf,    \* confirmations asked of a Qtum deposit (6)
    MaxUndo     \* bound: blocks a chain ever takes back, in total

ASSUME ChainAssumption ==
    /\ IsFiniteSet(Deposits)
    /\ LockConf \in Nat /\ SecConf \in Nat /\ MaxUndo \in Nat
    \* The confirmations asked for are what makes a lock final.
    /\ MaxUndo < LockConf /\ MaxUndo < SecConf

VARIABLES
    grin,   \* height, lock and redeem transaction, slate of the redeem kernel
    qtum    \* height, deposits, the Seller's redeem transaction and its inputs

NoTx == -1
Mempool == 0
TxHeight == Nat \cup {NoTx}

GrinType == [height : Nat, lock : TxHeight, redeem : TxHeight, slate : Nat,
             undone : Nat]
QtumType == [height : Nat, dep : [Deposits -> TxHeight], sec : TxHeight,
             spent : SUBSET Deposits, undone : Nat]

ChainInit ==
    /\ grin = [height |-> 1, lock |-> NoTx, redeem |-> NoTx, slate |-> 0,
               undone |-> 0]
    /\ qtum = [height |-> 1, dep |-> [d \in Deposits |-> NoTx], sec |-> NoTx,
               spent |-> {}, undone |-> 0]

-----------------------------------------------------------------------------
(* What the clients answer. *)

\* height.saturating_sub(h) + 1: one confirmation for the block itself.
Confirmations(height, h) == IF h > height THEN 1 ELSE height - h + 1

\* Confirmations of a transaction, 0 while no block holds it.
Depth(height, h) == IF h > Mempool THEN Confirmations(height, h) ELSE 0

\* get_outputs_from_node: the multisig output is there from the block that
\* holds the lock transaction up to the one that holds the redeem transaction.
LockOutputUnspent == grin.lock > Mempool /\ grin.redeem <= Mempool

\* get_kernel: only kernels of mined transactions are found.
KernelOnChain(slate) == grin.redeem > Mempool /\ grin.slate = slate

\* unspent, split by grin_balance into confirmed outputs and the rest.
ConfirmedOutputs ==
    {d \in Deposits : qtum.dep[d] > Mempool
                      /\ Confirmations(qtum.height, qtum.dep[d]) >= SecConf}

\* post_tx refuses a spent or missing input and a duplicate.
GrinTakesLock == grin.lock = NoTx
GrinTakesRedeem == LockOutputUnspent /\ grin.redeem = NoTx
QtumTakes(inputs) ==
    qtum.sec = NoTx /\ \A d \in inputs : qtum.dep[d] > Mempool

-----------------------------------------------------------------------------
(* Blocks. *)

MinedAt(height, h) == IF h = Mempool THEN height ELSE h
Unmined(height, h) == IF h = height THEN Mempool ELSE h

GrinMineBlock ==
    grin' = [grin EXCEPT !.height = @ + 1,
                         !.lock = MinedAt(grin.height + 1, @),
                         !.redeem = MinedAt(grin.height + 1, @)]

QtumMineBlock ==
    qtum' = [qtum EXCEPT !.height = @ + 1,
                         !.dep = [d \in Deposits |->
                                    MinedAt(qtum.height + 1, @[d])],
                         !.sec = MinedAt(qtum.height + 1, @)]

(* A reorganisation takes the top block back; its transactions return to    *)
(* the mempool.                                                             *)
GrinUndoBlock ==
    /\ grin.undone < MaxUndo
    /\ grin.height > 1
    /\ grin' = [grin EXCEPT !.height = @ - 1,
                            !.lock = Unmined(grin.height, @),
                            !.redeem = Unmined(grin.height, @),
                            !.undone = @ + 1]

QtumUndoBlock ==
    /\ qtum.undone < MaxUndo
    /\ qtum.height > 1
    /\ qtum' = [qtum EXCEPT !.height = @ - 1,
                            !.dep = [d \in Deposits |->
                                       Unmined(qtum.height, @[d])],
                            !.sec = Unmined(qtum.height, @),
                            !.undone = @ + 1]
=============================================================================
