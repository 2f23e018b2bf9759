\* requestLast returns the newest rows in order, also when counts wrap
CONSTANTS
  NB <- MCNB
  K <- MCK
  W <- MCW
  MaxResendLast <- MCMaxResendLast
  Limits <- MCLimits
SPECIFICATION Spec
INVARIANT TypeOK
PROPERTY RequestLastRefinement
\* a request that has finished (done, stream ended/failed/destroyed and read)
\* has no further step
CHECK_DEADLOCK FALSE
