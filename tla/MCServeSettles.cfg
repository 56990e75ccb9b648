\* One reconciler: every rollout and deletion ends, and what is READY is served.
SPECIFICATION FairSpec
CONSTANTS
  Versions = {v1, v2}
  Steps <- TwoSteps
  Reconcilers = {p1}
  MaxCalls = 3
  MaxFaults = 1
PROPERTIES SettlesOnTheDesired
CHECK_DEADLOCK FALSE
