--------------------------- MODULE MCRequestLast ---------------------------
(* requestLast over up to 3 buckets of 2 rows each; .low on a 2-bit word so *)
(* that a full bucket's count wraps to -2; MAX_RESEND_LAST scaled to 3 and  *)
(* one requested limit above it.                                            *)
EXTENDS RequestLast

MCNB == 3
MCK == 2
MCW == 2
MCMaxResendLast == 3
MCLimits == 1..4
=============================================================================
