CONSTANTS
  Responses <- FirstResponse
  Requests <- SampleRequests
  FedBytes = {8}
  MaxFlips = 0
SPECIFICATION Spec
INVARIANTS CommandArrives
