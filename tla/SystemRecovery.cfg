\* recovery completes and its getter is sound when no answer runs before the POST returns
CONSTANTS
  b1 = b1
  b2 = b2
  Listed <- MCListed
  Outsiders <- NoOutsiders
  Items <- MCItems
SPECIFICATION Spec
INVARIANT TypeOK
INVARIANT CompleteMeansAllCompleted
PROPERTY RecoveryCompletesUnlessEarly
\* recovery ends: every task has run and nothing more arrives
CHECK_DEADLOCK FALSE
