\* Silent nodes, lost answers and as many blocks taken back on each chain as the
\* thresholds allow; a Buyer that may pay in parts and may overpay.
SPECIFICATION Spec
CONSTANTS
    Deposits = {d1, d2, d3}
    Required = 2
    LockConf = 3
    SecConf = 3
    MaxUndo = 2
    RefundDelta = 2
    MinRefund = 1
    Faults = {"down", "lost"}
    MaxRestarts = 0
SYMMETRY Symmetry
INVARIANTS
    TypeOK
    CommitOnlyWhenLocked
    RedeemWasSigned
    QtumAfterGrin
    ClaimCoversPrice
CHECK_DEADLOCK FALSE
