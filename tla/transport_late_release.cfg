CONSTANTS
  PacketLength = 8
  FifoDepth = 4
  SpiTxQueueDepth = 2
  RxWordsPerService = 16
  FrameLengths = {8}
  Liberties = {"LateRelease"}
  MaxPackets = 1
  MaxFrames = 2
  MaxClears = 0
SPECIFICATION FairSpec
PROPERTIES FrameEndSeen
