CONSTANTS
  NumPins = 47  NumPwm = 9  NumUart = 4  NumSpi = 3  NumI2c = 3  NumIncap = 9
  I2cWriteSizes = {0, 2, 76, 77}
  MaxChunk = 1
  TxQueueSize = 32  I2cReadSizes = {0, 1, 3}  MaxPackets = {1, 4, 64}
  IcNum = 3  IcMaxConfigs = 3
  IcOpenings <- MCIcOpenings
  AnNum = 2  AnRates = {400, 1000}  AnMaxRequests = 5
  PinsHardware = {0, 1, 4}
  PinsWatched <- MCPinsWatched
  PinsUses = {"in", "out", "analog", "capsense", "pwm", "uart", "spi"}
  PinsBusy = {8}
  PinsMaxOpens = 2  PinsMaxReports = 2
SPECIFICATION MCSpec
INVARIANTS
  BoardHearsHost HostHearsBoard CapturesAreSound SamplesAreSound ClientReadsLevel ClosedPinFloats
CHECK_DEADLOCK FALSE
