SPECIFICATION FairSpec
CONSTANTS
  PJ <- Two
  Job = {"unit"}
  Alias = {"default"}
  BuildClients = {"default"}
  SpecOf <- TwoRuns
  Created <- TwoTied
  Started <- TwoOrdered
  MaxFaults = 1
  MaxDisruptions = 1
  MaxBuilds = 4
  PodsStick = TRUE
  LostReplies = FALSE
  PlankMaxConcurrency = 0
  MaxGoroutines = 2
  AllowCancellations = TRUE
  SkipReport = TRUE
  None = None
INVARIANT IInv
PROPERTY CompletionIsFinal
PROPERTY NoPodForComplete
PROPERTY OnlySupersededAborted
PROPERTY LifecycleSpec
 
