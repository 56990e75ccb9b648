\* Two overlapping leaders on a pipeline of two steps, the first of which publishes;
\* a monitoring pass over each combination of small datasets; one browser with two
\* tabs; two clients that define and run a pipeline, and two that publish and use a
\* dataset; two backups and two restores in one directory; two changes of access, two
\* deploys, a revocation and the reconciler on one endpoint.
SPECIFICATION ServicesSpec
CONSTANTS
  a = a
  b = b
  Steps = {a, b}
  Needs <- MCNeeds
  Publishing = {a}
  Vanishing = TRUE
  Reconcilers = {p1, p2}
  Specs <- SomeSpecs
  References <- SomeReferences
  Observations <- SomeObservations
  Truths <- SomeTruths
  ScoreLimit = 20
  MissingLimit = 10
  BatchSize = 2
  Execution = "e1"
  OtherExecution = "e2"
  Tabs = {t1, t2}
  Users = {"ann", "bob"}
  Personal <- SomeRoles
  Shared = "viewer"
  Rules = {"platform-admin", "viewer"}
  Chief = "ann"
  LoginTtl = 0
  Configured = 2
  SessionCap = 1
  AdminCap = 0
  CallLimit = 1
  MaxTime = 3
  MaxStarts = 2
  MaxChanges = 1
  Clients = {c1, c2}
  JobNames = {"train", "score"}
  Jobs <- SomeJobs
  Pipelines <- SomePipelines
  Commits = {"x"}
  Keys = {"k"}
  Arguments <- SomeArguments
  MaxRequests = 5
  MaxVersions = 2
  MaxDatasets = 2
  Files = {"x", "y"}
  Asks = {"s1", "s2"}
  Uris = {"u1", "u2"}
  Located = {"u1"}
  Depth = 1
  MaxIssues = 3
  MaxLooks = 2
  MaxMoves = 3
  Backups = {b1, b2}
  Restores = {x1, x2}
  Contents = {"c1", "c2", "c3"}
  Counts <- SomeCounts
  MaxWrites = 3
  Admins = {a1, a2}
  Deployers = {d1}
  Revokers = {k1}
  Kinds = {"llm"}
  Chosen = {"default", "tight"}
  MaxPasses = 1
  MaxUses = 1
SYMMETRY ServicesSymmetry
INVARIANTS  StepsAreClosed  AccessIsRight DefinedIsKept
PROPERTIES StepsMoveForward
CHECK_DEADLOCK FALSE
