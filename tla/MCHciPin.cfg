CONSTANTS
  RfCredits = 2  RfPeerCredits = 1  RfSlots = 2  RfWire = 2
  L2Channels = 2  L2Slots = 1  L2Phone = {c1, c2}  L2Pending = 1  L2Budget <- MCL2Budget
  KeyBlocks = 2  HciPhones = {1, 2}  HciSsp = FALSE  HciOverlap = TRUE  HciBudget <- MCHciBudget
  SdpRecords <- MCSdpRecords  SdpMtus = {48}  SdpCounts = {17}  SdpWanted <- MCSdpWanted
SPECIFICATION MCSpec
INVARIANT HciCredits
CHECK_DEADLOCK FALSE
