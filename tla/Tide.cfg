SPECIFICATION Spec
CONSTANTS
  PRs = {1, 2}
  Contexts = {"unit", "docs"}
  AlwaysRun = {"unit"}
  Relevant <- MCRelevant
  InitialLabels <- MCLabels
  Conflicting = {}
  BatchLimit = 0
  MaxJobs = 3
  MaxMishaps = 1
  LogSizeLimits = {1, 2, 3}
  MaxRecords = 5
  Org = {"o", "u"}
  Repo <- MCRepo
  QueryBranch = {"main", "dev"}
  QueryLabel = {"lgtm", "hold"}
  QueryContext = {"unit", "cla"}
  TideQuery <- MCTideQuery
 
INVARIANT BranchTested
 
INVARIANT HistoryKept
INVARIANT QueriesAgree
CHECK_DEADLOCK FALSE
