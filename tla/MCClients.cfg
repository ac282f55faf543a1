CONSTANTS
  SpiTx = 12  SpiRx = 6  SpiFifo = 2  SpiPlans <- MCSpiPlans
  I2cTx = 12  I2cRx = 5  I2cWord = 8  I2cPlans <- MCI2cPlans
  IcspRx = 4  IcspMaxReads = 4  IcspMaxOpens = 2
  HlVersions = 2  HlMaxIoios = 2  HlMaxOpens = 2
SPECIFICATION MCSpec
INVARIANTS BusResultsMatch LossIsTold
PROPERTIES BusesFinish StopReturns
CHECK_DEADLOCK FALSE
