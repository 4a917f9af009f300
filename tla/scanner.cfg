CONSTANTS
  Controls = {0, 1}
  Exchanges = {0}
  Working = {{0, 1}, {0}}
  Users <- KnobOrButton
  KnobOutruns = FALSE
  MaxGap = 2
  TimeModulus = 7
  ButtonDebounceMs = 2
  ButtonLongPressMs = 4
  EncoderTransitionsPerDetent = 2
  MaxEncoderSamplesPerService = 1
  EncoderFifoDepth = 2
  CountMinimum <- CountLow
  CountMaximum = 3
SPECIFICATION Spec
INVARIANTS TypeOK CacheIsCurrent SteadyLevelIsSeen
PROPERTIES EveryTransitionCounts ChangeNeedsSteadyLevel LongHoldIsLong EdgesMatchBitmaps
