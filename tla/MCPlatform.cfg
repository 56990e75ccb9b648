\* Two reconcilers and their Lease; two overlapping dispatchers and two rules;
\* three members and two requests; one secret and two requests; two downloads of
\* up to five objects by two workers; two attempts at one batch; two callers and
\* two keys; two log requests and two tickets.
SPECIFICATION PlatformSpec
CONSTANTS
  Processes = {p1, p2}
  Duration = 6
  Deadline = 3
  Retry = 1
  CallLimit = 1
  WatchLimit = 2
  MaxFaults = 3
  Rules = {r1, r2}
  Dispatchers = {w1, w2}
  Uploads <- SomeUploads
  WantsFeedback = {r1}
  Patience = 1
  Again = 1
  LastTick = 1
  MaxDatasets = 4
  MaxTroubles = 1
  Subjects = {"ann", "bob", "eve"}
  Requests = {q1, q2}
  MaxRequests = 5
  Names = {"n"}
  Contents <- SomeContents
  MaxVersion = 3
  Listing <- SomeListing
  PageSize = 2
  Bodies = {"v1", "v2", "v3"}
  Stores <- SomeStores
  Size <- SomeSizes
  MaxObjects = 4
  MaxBytes = 4
  Workers = {d1, d2}
  MaxRuns = 2
  Attempts = {a1, a2}
  Inputs = {"good", "other", "bad"}
  Pin = "good"
  HasChecksum = TRUE
  Outputs = {"o1", "o2", "o3"}
  Forecasts <- SomeForecasts
  Bytes <- SomeBytes
  Retries = 1
  MaxChanges = 1
  Kids = {k1, k2}
  Initial = {k1}
  Callers = {c1, c2}
  Lifetime = 2
  Throttle = 1
  FetchLimit = 1
  MaxTime = 3
  MaxRotations = 1
  MaxAsks = 3
  Spaces = {s1}
  Clients = {b1, b2}
  Tickets = {n1, n2}
  Life = 1
  Stay = 1
  MaxActive = 2
  MaxPerSpace = 1
  MaxUsed = 2
  LastSecond = 1
  MaxPods = 2
INVARIANTS StaleLeaderStops LeadershipIsKept ReferencesHold DataIsWhole AccessIsCurrent
PROPERTIES DecisionsByTheBook PlatformSettles
CHECK_DEADLOCK FALSE
