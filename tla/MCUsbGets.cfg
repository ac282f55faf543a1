CONSTANTS
  XfPacket = 2  XfRetries = 2  XfNaks = 1  XfInterval = 1
  XfBudgets <- MCXfBudgets
  AdbSizes = {0, 2, 3}  AdbMax = 3
  NUM_COMMAND_TRIES = 2  NUM_ENUMERATION_TRIES = 2  UhStrings = 2
  UoDevices <- MCDevices
  UoAccessory <- MCAccessory
  UoBudgets <- MCUoBudgets
  USB_EP0_BUFF_SIZE = 2  CDC_DATA_EP_SIZE = 2
  UdBudgets <- MCUdBudgets
SPECIFICATION MCDeviceSpec
INVARIANT GetsMeansData
CHECK_DEADLOCK FALSE
