\* A single read either ends, fails or is destroyed and then stops: states
\* without successors are those, so deadlock is not an error.
CONSTANTS
  Ts <- MCTs
  Seqs <- MCSeqs
  MaxTs = 4
  TsWindow <- MCTsWindow
  Requests <- SameTimestampRequests
  Cap = 2

SPECIFICATION Spec

PROPERTY RangeReadRefinement

CHECK_DEADLOCK FALSE
