------------------------------ MODULE SwapBuyer ------------------------------
(***************************************************************************)
(* The Buyer's side of the swap object and the work required_action does   *)
(* for it (swap/qtum/api.rs and swap/buyer.rs).                            *)
(***************************************************************************)
EXTENDS SwapCommon

BuyerStatus == {"None", "Offered", "Accepted", "Locked", "InitRedeem",
                "Redeem", "Completed"}

BuyerType ==
    [status : BuyerStatus,
     lockConf : Count,     \* lock_confirmations
     locked : BOOLEAN,     \* grin_data.locked: the Qtum side
     slate : Nat,          \* redeem_slate with its random offset; 0: not built
     redeemConf : Count]   \* redeem_confirmations

NewBuyer ==
    [status |-> "None", lockConf |-> None, locked |-> FALSE, slate |-> 0,
     redeemConf |-> None]

\* From here on the Buyer holds a complete redeem transaction.
HasRedeem(b) == b.status \in {"Redeem", "Completed"}

(* BuyerApi::init_redeem: a redeem slate with a fresh random offset and the *)
(* adaptor signature for it.                                                *)
BuyerInitRedeem(b, fresh) ==
    [b EXCEPT !.status = "Locked", !.slate = fresh]

\* Mutant of BuyerCheckLocks: the deposit is not looked for.
BuyerCheckLocksUnpaid(b, g, q, fresh) ==
    LET seen == IF g THEN UpdateLockConf(b) ELSE b
    IN  IF g /\ IsLocked(seen) THEN BuyerInitRedeem(seen, fresh) ELSE seen

(* buyer_check_locks: the Qtum deposit first (once), then the Grin lock      *)
(* (every time).                                                            *)
BuyerCheckLocks(b, g, q, fresh) ==
    LET paid == IF ~b.locked /\ q THEN [b EXCEPT !.locked = Funded] ELSE b
        seen == IF paid.locked /\ g THEN UpdateLockConf(paid) ELSE paid
    IN  IF seen.locked /\ g /\ IsLocked(seen)
        THEN BuyerInitRedeem(seen, fresh) ELSE seen

\* Mutant of BuyerWatchRedeem: a kernel just published is never looked up.
BuyerWatchRedeemLate(b, g) ==
    IF b.redeemConf > 0 /\ g /\ KernelOnChain(b.slate)
    THEN [b EXCEPT !.redeemConf = Confirmations(grin.height, grin.redeem)]
    ELSE b

\* Status Redeem: once published, refresh the confirmations of the kernel.
BuyerWatchRedeem(b, g) ==
    IF b.redeemConf # None /\ g /\ KernelOnChain(b.slate)
    THEN [b EXCEPT !.redeemConf = Confirmations(grin.height, grin.redeem)]
    ELSE b

\* Mutant of BuyerRequired: the locks are checked, and the redeem slate built,
\* again while its message waits to be sent.
BuyerRequiredAgain(b, g, q, fresh) ==
    CASE b.status \in {"Accepted", "Locked"} -> BuyerCheckLocks(b, g, q, fresh)
      [] b.status = "Redeem" -> BuyerWatchRedeem(b, g)
      [] OTHER -> b

\* required_action for the Buyer; the other statuses change nothing.
BuyerRequired(b, g, q, fresh) ==
    CASE b.status = "Accepted" -> BuyerCheckLocks(b, g, q, fresh)
      [] b.status = "Redeem" -> BuyerWatchRedeem(b, g)
      [] OTHER -> b
=============================================================================
