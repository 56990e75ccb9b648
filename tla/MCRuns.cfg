\* Two overlapping leaders on a run that publishes and may lose its workflow, without
\* retention; and one leader with retention, where every run ends and is cleaned up.
SPECIFICATION RunsSpec
CONSTANTS
  Runs = {r1}
  Publishing = {r1}
  Vanishing = {r1}
  Reconcilers = {p1, p2}
  Leader = p1
  Cancellers = {c1}
  Retention = FALSE
INVARIANTS HandleRecorded
PROPERTIES KeepsPromise AloneRunsEnd 
CHECK_DEADLOCK FALSE
