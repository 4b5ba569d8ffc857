SPECIFICATION Spec
CONSTANTS
  PJ <- Mixed
  Job = {"unit", "c", "bad", "lost"}
  Alias = {"default", "elsewhere"}
  BuildClients = {"default"}
  SpecOf <- MixedSpecs
  Created <- MixedTimes
  Started <- MixedTimes
  MaxFaults = 1
  MaxDisruptions = 0
  MaxBuilds = 4
  PodsStick = FALSE
  LostReplies = FALSE
  PlankMaxConcurrency = 1
  MaxGoroutines = 2
  AllowCancellations = TRUE
  SkipReport = FALSE
  None = None
INVARIANT PlankMaxConcurrencyRespected
 
INVARIANT ReportsCurrent
