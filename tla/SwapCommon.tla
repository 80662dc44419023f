----------------------------- MODULE SwapCommon -----------------------------
(***************************************************************************)
(* What both parties' swap objects share (swap/swap.rs): the optional      *)
(* counters of confirmations and how they are compared and refreshed.      *)
(***************************************************************************)
EXTENDS SwapChains

CONSTANTS Required   \* secondary_amount, in deposits of one unit each

ASSUME RequiredAssumption == Required \in Nat \ {0}

None == -1   \* Option<u64>::None, for the two counters of confirmations
Count == Nat \cup {None}

\* Mutant of IsLocked: one confirmation short.
IsLockedOneShort(p) == p.lockConf >= LockConf - 1

\* is_locked(30), for either party
IsLocked(p) == p.lockConf >= LockConf

\* Mutant of UpdateLockConf: a lock transaction in the mempool is counted.
UpdateLockConfMempool(p) ==
    IF grin.lock # NoTx
    THEN [p EXCEPT !.lockConf = Confirmations(grin.height, grin.lock)]
    ELSE p

\* update_lock_confirmations: a missing output leaves the old count in place.
UpdateLockConf(p) ==
    IF LockOutputUnspent
    THEN [p EXCEPT !.lockConf = Confirmations(grin.height, grin.lock)]
    ELSE p

\* Does grin_balance(6) find the agreed amount?
Funded == Cardinality(ConfirmedOutputs) >= Required
=============================================================================
