CONSTANTS
  RfCredits = 2  RfPeerCredits = 1  RfSlots = 2  RfWire = 2
  L2Channels = 2  L2Slots = 1  L2Phone = {c1, c2}  L2Pending = 1  L2Budget <- MCL2Budget
  KeyBlocks = 2  HciPhones = {1, 2, 3}  HciSsp = FALSE  HciOverlap = FALSE  HciBudget <- MCHciBudget
  SdpRecords <- MCSdpRecords  SdpMtus = {19, 20, 24, 48}  SdpCounts = {7, 8, 9, 10, 11, 12, 13, 17, 65535}  SdpWanted <- MCSdpWanted
SPECIFICATION MCSpec
INVARIANTS LinksAgree LinksSettle
CHECK_DEADLOCK FALSE
SYMMETRY MCSymmetry
