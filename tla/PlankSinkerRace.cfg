SPECIFICATION PSSpec
CONSTANTS
  PJ <- One
  Job = {"ci"}
  Alias = {"default"}
  BuildClients = {"default"}
  PodClients = {"default"}
  ActivePeriodics = {"ci"}
  SpecOf <- OneRun
  Created <- OneTime
  Started <- OneTime
  MaxFaults = 0
  MaxDisruptions = 0
  MaxBuilds = 2
  PodsStick = FALSE
  LostReplies = FALSE
  PlankMaxConcurrency = 0
  MaxGoroutines = 2
  AllowCancellations = TRUE
  SkipReport = TRUE
  None = None
PROPERTY OnlyFinishedPodsSwept
