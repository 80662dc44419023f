\* A block of the Grin chain is taken back while the Seller waits for Qtum.
SPECIFICATION Spec
CONSTANTS
    Deposits = {d1}
    Required = 1
    LockConf = 3
    SecConf = 2
    MaxUndo = 1
    RefundDelta = 1
    MinRefund = 1
    Faults = {}
    MaxRestarts = 0
PROPERTIES
    LockedMeansConfirmed
CHECK_DEADLOCK FALSE
