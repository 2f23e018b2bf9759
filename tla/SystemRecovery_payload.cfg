\* completion reported while a RecoveryResponse payload is still being applied
CONSTANTS
  b1 = b1
  b2 = b2
  Listed <- MCListed
  Outsiders <- NoOutsiders
  Items <- MCItems
SPECIFICATION Spec
INVARIANT CompleteOnlyAfterAllApplied
\* recovery ends: every task has run and nothing more arrives
CHECK_DEADLOCK FALSE
