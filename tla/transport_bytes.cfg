CONSTANTS
  PacketLength = 8
  FifoDepth = 4
  SpiTxQueueDepth = 2
  RxWordsPerService = 16
  FrameLengths = {2, 8, 9}
  Liberties = {}
  MaxPackets = 3
  MaxFrames = 3
  MaxClears = 1
SPECIFICATION FairSpec
INVARIANTS TypeOK PacketAligned RxPacketIsOneFrame IrqLowMeansNothingPending
PROPERTIES RetiredWasDelivered FrameEndSeen ImplementsFrames
