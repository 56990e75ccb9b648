\* Two dispatchers overlap on two schedules of one target; the two stores are given the
\* same calls; two sessions work on one row; databases are migrated up and down and
\* granted; two leaders deploy and delete, and one that looks at the status.
SPECIFICATION FoundationsSpec
CONSTANTS
  Ids = {1, 2}
  Target <- SameTarget
  Dispatchers = {p1, p2}
  Crons = {1, 2}
  Policies = {"FORBID", "QUEUE"}
  Scopes = {"TARGET"}
  MissedPolicies = {"CATCH_UP"}
  Deadline = 1
  QueueTTL = 2
  MaxQueue = 2
  OccurrenceLimit = 2
  MaxTime = 2
  MaxEdits = 1
  MaxFaults = 1
  Kinds <- AllKinds
  Numbers = {1, 2}
  MaxChanges = 3
  MaxUnits = 2
  MaxCalls = 2
  Units = {p1, p2}
  Shared <- AllShared
  MaxBefore = 2
  MaxWrites = 2
  Callers = {p1, p2}
  Leader = l1
  Deploys <- SomeDeploys
  Watched <- ACanary
  Doubtful = {2}
  Stored = {1}
  MaxMoves = 3
  Migrators = {p1, p2}
  Targets = {0, 12, 20, 26, 30}
  MaxSteps = 5
SYMMETRY Swapped
INVARIANTS ScheduleIsKept QueueInOrder StoresAgree DatabaseIsKept
PROPERTIES DecisionsHold WritersAreApart AdapterIsTrue
CHECK_DEADLOCK FALSE
