--------------------------- MODULE GrinSwapRefines ---------------------------
(***************************************************************************)
(* GrinSwap carries out an AtomicSwap.  An asset has moved once the        *)
(* transaction that moves it is published: a reorganisation only returns   *)
(* it to the mempool.  The Qtum is locked with the deposit that completes  *)
(* the agreed amount.                                                      *)
(***************************************************************************)
EXTENDS GrinSwap

Paid == {d \in Deposits : qtum.dep[d] # NoTx}

GrinHolder ==
    IF grin.redeem # NoTx THEN "buyer"
    ELSE IF grin.lock # NoTx THEN "locked" ELSE "seller"

QtumHolder ==
    IF qtum.sec # NoTx THEN "seller"
    ELSE IF Cardinality(Paid) >= Required THEN "locked" ELSE "buyer"

SentInitRedeem == \E m \in net : m.swap = "this" /\ m.type = "InitRedeem"
SentRedeem == \E m \in net : m.swap = "this" /\ m.type = "Redeem"

Pledged == (IF SentInitRedeem THEN {"buyer"} ELSE {})
               \cup (IF SentRedeem THEN {"seller"} ELSE {})

Swap == INSTANCE AtomicSwap
            WITH grin <- GrinHolder, qtum <- QtumHolder, pledged <- Pledged

(* Through faults, crashes and reorganisations the two parties' operations   *)
(* on the two chains and the messages between them are the steps of one      *)
(* atomic swap, in its order, or leave it where it is.                       *)
IsAtomicSwap == Swap!Spec
=============================================================================
