CONSTANTS
  Images <- MCImages  NumBlocks = 4  BlocksPerPage = 2  FpWords = 2
  Phones <- MCPhones  ChunkSizes = {3}  MaxPacket = 3  MaxFaults = 1  PhoneFlashFails = FALSE
  PcVersions = {1, 2, 4}  MaxUsb = 3  MaxPcFaults = 1
  XmlBuf = 3  ManagerName <- MCName  CertKey <- MCKey  Names <- MCNames  Keys <- MCKeys
SPECIFICATION MCSpec
INVARIANTS FingerprintMeansImage InstalledIsAuthentic CalibrationKept DocumentVerdict
PROPERTY BootEnds
CHECK_DEADLOCK FALSE
