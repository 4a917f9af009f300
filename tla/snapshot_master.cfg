CONSTANTS
  ControlCount = 2
  SequenceModulus = 2
  Captures = 5
  MaxFaults = 2
  MaxRecoveries = 1
  MaxIncrements = 1
SPECIFICATION FairSpec
INVARIANTS TypeOK AcceptedIsOneCapture
PROPERTIES DecoderAgrees StaleByFaults Converges
