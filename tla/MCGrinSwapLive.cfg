\* Silent nodes and a block taken back on each chain, but no lost answer and no
\* crash: the swap settles.
SPECIFICATION FairSpec
CONSTANTS
    Deposits = {d1, d2}
    Required = 2
    LockConf = 3
    SecConf = 2
    MaxUndo = 1
    RefundDelta = 2
    MinRefund = 1
    Faults = {"down"}
    MaxRestarts = 0
PROPERTIES
    SwapSettles
CHECK_DEADLOCK FALSE
