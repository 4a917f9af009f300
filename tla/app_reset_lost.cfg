CONSTANTS
  ControlCount = 1
  EncoderValues = {0, 2}
  ButtonPictures = {0, 1}
  Signed24Minimum = 0
  Signed24Maximum = 1
  SequenceModulus = 3
  PublicationQueueDepth = 2
  SpiTxQueueDepth = 4
  ScannerBegins = {TRUE}
  Commands <- CommandsButResetAll
  MaxChanges = 1
  MaxCommands = 1
  MaxUnderruns = 0
SPECIFICATION FairSpec
PROPERTIES ResetTakesEffect
