CONSTANTS
    Capacity = 4
    MaxBytes = 10
SPECIFICATION Spec
INVARIANT ContentsInOrder
INVARIANT PullByteReturnsOldest
INVARIANT PeekStillThere
PROPERTY ImplementsFifo
