CONSTANTS
  ControlCount = 2
  EncoderValues = {0, 2}
  ButtonPictures = {0, 1}
  Signed24Minimum = 0
  Signed24Maximum = 1
  SequenceModulus = 2
  PublicationQueueDepth = 3
  SpiTxQueueDepth = 5
  ScannerBegins = {TRUE}
  Commands <- EffectiveCommands
  MaxChanges = 2
  MaxCommands = 1
  MaxUnderruns = 1
SPECIFICATION Spec
INVARIANTS NewestStatementIsCurrent HostNeverRejects
PROPERTIES RunningMeansHostCurrent
