----------------------------- MODULE SwapSeller -----------------------------
(***************************************************************************)
(* The Seller's side of the swap object: the fields of Swap and grinData   *)
(* that its control depends on, and the work required_action does for the  *)
(* Seller (swap/qtum/api.rs and swap/seller.rs) as functions on that       *)
(* object.  `g' and `q' say whether the Grin and the Qtum node answer      *)
(* during the call; a call on a silent node returns an error from the      *)
(* middle of the function, with the assignments made so far kept.          *)
(***************************************************************************)
EXTENDS SwapCommon

SellerStatus == {"None", "Created", "Offered", "Accepted", "Locked",
                 "InitRedeem", "Redeem", "RedeemSecondary", "Completed"}

SellerType ==
    [status : SellerStatus,
     refundAt : Nat,             \* refund_slate.lock_height
     lockConf : Count,           \* lock_confirmations
     locked : BOOLEAN,           \* grin_data.locked: the Qtum side
     outputs : SUBSET Deposits,  \* grin_data.confirmed_outputs
     slate : Nat,                \* redeem_slate and adaptor_signature; 0: none
     redeemConf : Count,         \* redeem_confirmations
     tx : SUBSET Deposits,       \* inputs of grin_data.redeem_tx; {}: no tx
     secConf : Count]            \* grin_data.redeem_confirmations

NewSeller ==
    [status |-> "None", refundAt |-> 0, lockConf |-> None, locked |-> FALSE,
     outputs |-> {}, slate |-> 0, redeemConf |-> None, tx |-> {},
     secConf |-> None]

\* From here on the Seller has put its half signature under its redeem slate.
Signed(s) == s.status \in {"InitRedeem", "Redeem", "RedeemSecondary",
                           "Completed"}

-----------------------------------------------------------------------------
\* Mutant of SellerCheckDeposits: the confirmed outputs are not kept.
SellerCheckDepositsForgetful(s, q) ==
    IF s.locked THEN [s EXCEPT !.status = "Locked"]
    ELSE IF ~q THEN s
    ELSE [s EXCEPT !.locked = Funded,
                   !.status = IF Funded THEN "Locked" ELSE @]

\* The Qtum half of seller_check_locks, the Grin half having passed.
SellerCheckDeposits(s, q) ==
    IF s.locked THEN [s EXCEPT !.status = "Locked"]
    ELSE IF ~q THEN s
    ELSE [s EXCEPT !.outputs = ConfirmedOutputs,
                   !.locked = Funded,
                   !.status = IF Funded THEN "Locked" ELSE @]

(* seller_check_locks.  An unpublished lock transaction (None) and a count  *)
(* below the threshold both return early.                                   *)
SellerCheckLocks(s, g, q) ==
    LET seen == IF ~IsLocked(s) /\ s.lockConf # None /\ g
                THEN UpdateLockConf(s) ELSE s
    IN  IF IsLocked(seen) THEN SellerCheckDeposits(seen, q) ELSE seen

\* seller_build_redeem_tx: spends the outputs confirmed when the lock was seen.
SellerBuildRedeemTx(s) ==
    [s EXCEPT !.status = "RedeemSecondary", !.tx = s.outputs]

\* Mutant of SellerWatchRedeem: a kernel never seen counts as seen.
SellerWatchRedeemEager(s, g) ==
    IF s.redeemConf # 0 THEN SellerBuildRedeemTx(s)
    ELSE IF g /\ KernelOnChain(s.slate)
    THEN SellerBuildRedeemTx(
           [s EXCEPT !.redeemConf = Confirmations(grin.height, grin.redeem)])
    ELSE s

(* Status Redeem: look for the kernel of the redeem transaction until it    *)
(* has been seen once, then claim the Qtum.                                 *)
SellerWatchRedeem(s, g) ==
    IF s.redeemConf > 0 THEN SellerBuildRedeemTx(s)
    ELSE IF g /\ KernelOnChain(s.slate)
    THEN SellerBuildRedeemTx(
           [s EXCEPT !.redeemConf = Confirmations(grin.height, grin.redeem)])
    ELSE s

\* seller_update_redeem: follow the published Qtum transaction.
SellerUpdateRedeem(s, q) ==
    IF s.secConf # None /\ q /\ qtum.sec > Mempool
    THEN [s EXCEPT !.secConf = Confirmations(qtum.height, qtum.sec)]
    ELSE s

\* required_action for the Seller; the other statuses change nothing.
SellerRequired(s, g, q) ==
    CASE s.status = "Accepted" -> SellerCheckLocks(s, g, q)
      [] s.status = "Redeem" -> SellerWatchRedeem(s, g)
      [] s.status = "RedeemSecondary" -> SellerUpdateRedeem(s, q)
      [] OTHER -> s
=============================================================================
