-------------------------- MODULE MCStreamSummary --------------------------
(* int on 3 bits (-4..3); up to three buckets of at most 3 bytes; messages *)
(* of 1 or 3 bytes, so that the size sum reaches 4..7 (negative SUM) and 8+ *)
(* (SUM wrapped back to a non-negative value); four records reach -4.      *)
EXTENDS StreamSummary

MCW == 3
MCMaxBuckets == 3
MCMaxMsgs == 4
MCMsgSizes == {1, 3}
MCMaxBucketSize == 3
=============================================================================
