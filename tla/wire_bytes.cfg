CONSTANTS
  Responses <- SampleResponses
  Requests <- FirstRequest
  FedBytes = {1, 2, 3, 4, 5, 6, 7, 8}
  MaxFlips = 2
SPECIFICATION Spec
INVARIANTS TypeOK ResponseReadsBack ValidMeansSent StarvedKeepsItsKind
  EveryCommandIsBadVersion
