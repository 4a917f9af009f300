CONSTANTS
  PacketLength = 8
  FifoDepth = 4
  SpiTxQueueDepth = 2
  RxWordsPerService = 16
  FrameLengths = {8}
  Liberties = {"IdleFrame"}
  MaxPackets = 2
  MaxFrames = 2
  MaxClears = 0
SPECIFICATION Spec
PROPERTIES RetiredWasDelivered
