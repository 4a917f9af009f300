CONSTANTS
  ControlCount = 2
  EncoderValues = {0, 2}
  ButtonPictures = {0}
  Signed24Minimum = 0
  Signed24Maximum = 1
  SequenceModulus = 1
  PublicationQueueDepth = 3
SPECIFICATION QueuedSpec
INVARIANTS PublisherTypeOK RingHoldsEvents
PROPERTIES ImplementsPlan ImplementsFifo
