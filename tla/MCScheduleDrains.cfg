\* One dispatcher, fair: every queued occurrence is decided.
SPECIFICATION FairSpec
CONSTANTS
  Ids = {1, 2}
  Target <- SameTarget
  Dispatchers = {d1}
  Crons = {1}
  Policies = {"QUEUE"}
  Scopes = {"SCHEDULE", "TARGET"}
  MissedPolicies = {"SKIP", "CATCH_UP"}
  Deadline = 1
  QueueTTL = 2
  MaxQueue = 1
  OccurrenceLimit = 2
  MaxTime = 3
  MaxEdits = 1
  MaxFaults = 1
PROPERTIES EveryIntentDecided
CHECK_DEADLOCK FALSE
