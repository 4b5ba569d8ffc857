SPECIFICATION PSFairSpec
CONSTANTS
  PJ <- One
  Job = {"ci"}
  Alias = {"default"}
  BuildClients = {"default"}
  PodClients = {"default"}
  ActivePeriodics = {"ci"}
  SpecOf <- OneRun
  Created <- OneTime
  Started <- OneTime
  MaxFaults = 1
  MaxDisruptions = 0
  MaxBuilds = 2
  PodsStick = TRUE
  LostReplies = FALSE
  PlankMaxConcurrency = 0
  MaxGoroutines = 2
  AllowCancellations = TRUE
  SkipReport = TRUE
  None = None
INVARIANT FinishedIsFinished
PROPERTY LifecycleSpec
PROPERTY OrphansRemoved
