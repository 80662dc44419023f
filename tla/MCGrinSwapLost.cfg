\* A node takes a transaction but its answer is lost.
SPECIFICATION Spec
CONSTANTS
    Deposits = {d1}
    Required = 1
    LockConf = 2
    SecConf = 2
    MaxUndo = 0
    RefundDelta = 1
    MinRefund = 1
    Faults = {"lost"}
    MaxRestarts = 0
INVARIANTS
    NotPublishedYet
CHECK_DEADLOCK FALSE
