SPECIFICATION HFairSpec
CONSTANTS
  PJ <- MCPJ
  Job = {"ci"}
  Alias = {"default"}
  PodClients = {}
  ActivePeriodics = {"ci"}
  SpecOf <- MCSpecs
  Created <- MCTimes
  Started <- MCTimes
  Configs <- MCConfigs
  MaxReloads = 1
  MaxFaults = 1
  MaxDisruptions = 0
  MaxBuilds = 0
  PodsStick = FALSE
  LostReplies = FALSE
INVARIANT NoOverlap
PROPERTY IntervalKept
PROPERTY Recurs
