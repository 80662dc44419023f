------------------------------ MODULE AtomicSwap ------------------------------
(***************************************************************************)
(* What an atomic swap promises, whoever carries it out: the Grin and the  *)
(* Qtum each change hands at most once, through a lock, and only in the    *)
(* order in which neither party can end with both or with none.            *)
(***************************************************************************)

VARIABLES
    grin,      \* who has the Grin: the Seller, the lock of both, the Buyer
    qtum,      \* who has the Qtum: the Buyer, the lock of both, the Seller
    pledged    \* the parties that have given their signature away

vars == <<grin, qtum, pledged>>

Init == grin = "seller" /\ qtum = "buyer" /\ pledged = {}

\* Either party may lock first, and may never do so.
LockGrin ==
    /\ grin = "seller" /\ grin' = "locked"
    /\ UNCHANGED <<qtum, pledged>>

LockQtum ==
    /\ qtum = "buyer" /\ qtum' = "locked"
    /\ UNCHANGED <<grin, pledged>>

\* The Buyer asks for the Grin only when both are locked.
BuyerPledges ==
    /\ grin = "locked" /\ qtum = "locked" /\ pledged = {}
    /\ pledged' = {"buyer"}
    /\ UNCHANGED <<grin, qtum>>

\* The Seller lets it go only against the Buyer's pledge.
SellerPledges ==
    /\ pledged = {"buyer"}
    /\ pledged' = {"buyer", "seller"}
    /\ UNCHANGED <<grin, qtum>>

\* With both signatures the Buyer can take the Grin, ...
TakeGrin ==
    /\ grin = "locked" /\ qtum = "locked" /\ pledged = {"buyer", "seller"}
    /\ grin' = "buyer"
    /\ UNCHANGED <<qtum, pledged>>

\* ... which is what makes it possible to take the Qtum.
TakeQtum ==
    /\ grin = "buyer" /\ qtum = "locked"
    /\ qtum' = "seller"
    /\ UNCHANGED <<grin, pledged>>

Next == LockGrin \/ LockQtum \/ BuyerPledges \/ SellerPledges
            \/ TakeGrin \/ TakeQtum

Spec == Init /\ [][Next]_vars
=============================================================================
