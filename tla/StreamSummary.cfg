\* getTotalBytesInStream is exact below 2^W
CONSTANTS
  W <- MCW
  MaxBuckets <- MCMaxBuckets
  MaxMsgs <- MCMaxMsgs
  MsgSizes <- MCMsgSizes
  MaxBucketSize <- MCMaxBucketSize
SPECIFICATION Spec
INVARIANT TypeOK
INVARIANT TotalBytesExactBelow2W
\* the bounded history ends once MaxMsgs messages are stored and settled
CHECK_DEADLOCK FALSE
