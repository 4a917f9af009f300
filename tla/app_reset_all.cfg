CONSTANTS
  ControlCount = 1
  EncoderValues = {0, 2}
  ButtonPictures = {0, 1}
  Signed24Minimum = 0
  Signed24Maximum = 1
  SequenceModulus = 3
  PublicationQueueDepth = 2
  SpiTxQueueDepth = 4
  ScannerBegins = {TRUE}
  Commands <- AllCommands
  MaxChanges = 2
  MaxCommands = 1
  MaxUnderruns = 1
SPECIFICATION Spec
INVARIANTS NewestStatementIsCurrent
