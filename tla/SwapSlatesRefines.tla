-------------------------- MODULE SwapSlatesRefines --------------------------
(***************************************************************************)
(* SwapSlates carries out an AtomicSwap, too: with the calls that fail     *)
(* half-way and the objects that are dropped and restored.  The Qtum is    *)
(* taken with the claim that the Seller has stored.                        *)
(***************************************************************************)
EXTENDS SwapSlates

GrinHolder ==
    IF redeem # {} THEN "buyer" ELSE IF lock # {} THEN "locked" ELSE "seller"

HasClaim(s) == s # NoSwap /\ s.claim # {}

QtumHolder ==
    IF HasClaim(disk.seller) THEN "seller" ELSE IF paid # {} THEN "locked" ELSE "buyer"

AskedForGrin == \E m \in msgs : m.type = "InitRedeem"
GaveGrin == \E m \in msgs : m.type = "Redeem"

Pledged == (IF AskedForGrin THEN {"buyer"} ELSE {}) \cup (IF GaveGrin THEN {"seller"} ELSE {})

Swap == INSTANCE AtomicSwap
            WITH grin <- GrinHolder, qtum <- QtumHolder, pledged <- Pledged

(* Whichever call fails and whatever object a party goes back to, what is    *)
(* published, paid and sent happens in the order of an atomic swap: the      *)
(* Buyer asks for the Grin when both are locked (buyer_check_locks), the     *)
(* Seller signs against the Buyer's signature (seller_init_redeem), and the  *)
(* Qtum is claimed with what the Grin's transaction shows.                   *)
IsAtomicSwap == Swap!Spec
=============================================================================
