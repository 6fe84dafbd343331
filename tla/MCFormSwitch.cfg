SPECIFICATION Spec
VIEW Moving
CHECK_DEADLOCK FALSE
CONSTANTS
  \* FirstSeen
  Run = {"r1", "r2"}
  LedgerTenant = {"t1", "t2"}
  Family = {"os"}
  Patch = {1, 2}
  MaxEntries = 1
  MaxNow = 2
  SwitchesMidRun = FALSE
  \* RunHistory
  Writer = {"w1", "w2"}
  MaxLines = 2
  TrimSlack = 1
  MaxRecords = 5
  \* Exploits
  Asker = {"q1", "q2"}
  LastMonth = 2
  Months = 2
  MaxDate = 2
  Revised = {2}
  RetryAfter = 1
  CheckEvery = 2
  NewestAge = 1
  OlderAge = 2
  \* SlicedFeed
  Device = {"d1", "d2", "d3"}
  Location = {1, 2, 3}
  Slices = 2
  MaxSliceLocations = 2
  MaxMoves = 1
  \* Answers
  Known = {1, 2, 3}
  Severity = {0, 4, 5, 7}
  Buckets = {3, 30}
  StuckAfter = 10
  ListLimit = 1
  MaxPageLimit = 2
  Fleets <- MCFleets
  Feeds <- MCFeeds
  Histories <- MCHistories
  Queries <- MCQueries
  \* ActionBar
  MinutesPerDay = 4
  BarDevice = {0, 1, 2}
  BarKinds = {"Script", "OsPatchRemediate", "SoftwarePatchRemediate", "Reboot", "OsPatchScan"}
  BarRows <- MCBarRows
  BarOptions <- MCBarOptions
  Worlds <- MCWorlds
  \* JobOutcomes
  LastJob = 2
  JobKinds = {"OsPatchApply", "Reboot", "Script"}
  OthersKinds = {"OsPatchScan"}
  Slack = 0
  JobTimeout = 1
  MaxTime = 1
  MaxEfforts = 2
  ClearsFinished = TRUE
  \* RunChanges
  ChangeScopes <- MCScopes
  ChangeFleets <- MCChangeFleets
  MaxSnapshots = 2
  MaxTotalBytes = 3
  MaxItems = 2
  ChangeListLimit = 1
  RunsOverlap = FALSE
  MaxSavedRuns = 3
  \* SavedSettings
  Urls <- MCUrls
  TypedNumbers = {3}
  TypedMinutes = {1}
  PresetNames = {"p"}
  HandEdits <- MCHandEdits
  MaxWindowDays = 2
  MaxCalls = 2
  MaxEdits = 1
  MaxLaunches = 2
  \* QueryForm
  Tenants = {1, 2}
  FirstTenant = 1
  OrgsOf <- MCOrgsOf
  LocationsOf <- MCLocationsOf
  GroupsOf <- MCGroupsOf
  Texts = {"", "kb"}
  Dates <- MCDates
  TypedDays = {3}
  OldPresets <- MCOldPresets
  OldLinks <- MCOldLinks
  OtherWords = {"NEW"}
  SavedSignIns = {2}
  DaySeconds = 10
  TimeNow = 100
  MaxSessions = 2
  MaxFormSteps = 2
  \* ResultView
  Results <- MCResults
  ViewPage = 1
  MemberLimit = 1
  MaxViewRuns = 2
  MaxViewSteps = 2
  \* JobBoard
  BoardJobs = {"j1", "j2"}
  BatchOf <- MCBatchOf
  MaxBoardAsks = 1
  MaxToasts = 1
INVARIANT
  SignedInHasItsLists
