CONSTANTS
    Peers = {{"ADB"}, {"ACC"}, {"BT"}, {"CDC"}}
    AdbChannels = 2
    TxCap = 2
    Faulty = {"ACC"}
SPECIFICATION FairSpec
INVARIANT SessionHasChannel
INVARIANT CleanStart
INVARIANT PullIsBounded
PROPERTY SentBeforeClose
PROPERTY PreservedOutputsStay
PROPERTY SoftCloseEnds
PROPERTY PortIsServed
