\* A cancellation is flagged between the reconciler's read and its write.
SPECIFICATION NoDeadlineSpec
CONSTANTS
  Runs = {r1}
  Publishing = {}
  Vanishing = {}
  Reconcilers = {p1}
  Cancellers = {c1}
  Retention = FALSE

PROPERTIES CancelEndsRun
CHECK_DEADLOCK FALSE
