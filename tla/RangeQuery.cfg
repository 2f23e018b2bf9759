\* A single read either ends, fails or is destroyed and then stops: states
\* without successors are those, so deadlock is not an error.
CONSTANTS
  Ts <- MCTs
  Seqs <- MCSeqs
  MaxTs = 4
  TsWindow <- MCTsWindow
  Requests <- OtherRequests
  Cap = 2

SPECIFICATION Spec

INVARIANT TypeOK
PROPERTY RangeReadSafety

CHECK_DEADLOCK FALSE
