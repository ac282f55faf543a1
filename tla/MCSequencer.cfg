CONSTANTS
    SeqLen = 2
    EvLen = 2
    SizeMod = 2
    MaxOcs = 1
    MaxSessions = 2
    MaxDrops = 1
    MaxCmds = 2
    MaxEvents = 1
    MaxBatch = 1
    Careful = TRUE
SPECIFICATION FairSpec
INVARIANT SlotBound
INVARIANT CarefulIsAccepted
INVARIANT TimerFollowsRunning
INVARIANT StallIsNoticed
PROPERTY CloseReturns
CHECK_DEADLOCK FALSE
