CONSTANTS
    TxBuf = 2
    MaxPacket = 1
    HostBuf = 2
    MaxSessions = 2
SPECIFICATION FairSpec
INVARIANT CreditConservation
INVARIANT OverflowOnlyIfTainted
PROPERTY WrittenBytesMove
PROPERTY CloseCompletes
CHECK_DEADLOCK FALSE
