SPECIFICATION Spec
CONSTANTS
  Strategies = {"min", "max", "plain", "find", "verify"}
  LargePage = 2
  HugePage = 4
  Frames = 5
  Unmapped = 100
  MinFirst = 78
  MinEnd = 81
  MaxFirst = 80
  MaxStep = 40
  Requests <- MCRequests
  Available <- MCAvailable
  SearchSizes <- MCSearchSizes
  SearchPages = {1, 4}
INVARIANTS
  RegionIsContiguous
  FindsLargest
  VerdictIsExact
  NothingLeftBehind
  MinSatisfiesRequest
PROPERTY Termination
CHECK_DEADLOCK FALSE
