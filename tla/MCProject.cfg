\* One reconciler, two requests at a time, two deployments that share the quota.
SPECIFICATION FairSpec
CONSTANTS
  Deployments = {d1, d2}
  Revisions <- MCRevisions
  Gpus <- Sizes
  Clients = {c1, c2}
  Reconcilers = {p1}
  MaxQuota = 2
  MaxCalls = 3
  MaxFaults = 1
 
PROPERTIES  ProjectSettles
CHECK_DEADLOCK FALSE
