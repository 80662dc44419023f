CONSTANTS
    Offsets = {1, 2}
    Word = 12
    LockFee = 3
    SpendFee = 2
    RefundDelta = 2
    MinRefund = 1
    MaxFaults = 2
SPECIFICATION FairSpec
INVARIANTS TypeOK LockIsRefundable SellerLearnsSecret ClaimOpensDeposit
PROPERTIES SwapCompletes IsAtomicSwap
CHECK_DEADLOCK FALSE
