\* Two crashes, of either party at any moment, restored from any stored object;
\* the other faults as in MCGrinSwap.
SPECIFICATION Spec
CONSTANTS
    Deposits = {d1}
    Required = 1
    LockConf = 2
    SecConf = 2
    MaxUndo = 1
    RefundDelta = 1
    MinRefund = 1
    Faults = {"down", "lost"}
    MaxRestarts = 2
INVARIANTS
    LockRecordSound
    OneRedeemSlate
    SellerCanClaim
PROPERTIES
    IsAtomicSwap
CHECK_DEADLOCK FALSE
