\* One reconciler, two versions, a rollout of three steps: every interleaving of
\* requests with the passes of deployments and rollouts.
SPECIFICATION Spec
CONSTANTS
  Versions = {v1, v2}
  Steps <- ThreeSteps
  Reconcilers = {p1}
  MaxCalls = 4
  MaxFaults = 1
SYMMETRY MCSymmetry
INVARIANTS EndpointIsTrue CanaryByTheBook
PROPERTIES RolloutEndsInOrder
CHECK_DEADLOCK FALSE
