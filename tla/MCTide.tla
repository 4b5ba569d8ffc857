------------------------------- MODULE MCTide -------------------------------
(* The sync loop of tide, its history and its queries, one of them in each behaviour. *)
EXTENDS Tide

VARIABLE part

MCRelevant == [n \in PRs |-> IF n = 2 THEN {"docs"} ELSE {}]
MCLabels == [n \in PRs |-> IF n = 2 THEN {"lgtm", "squash"} ELSE {"lgtm"}]

X == <<"o", "x">>
MCRepo == {X, <<"o", "y">>, <<"u", "x">>}
MCTideQuery ==
  [orgs: {{}, {"o"}}, repos: {{}, {X}, {<<"u", "x">>}}, excludedRepos: {{}, {X}},
   includedBranches: {{}, {"main"}}, excludedBranches: {{}, {"dev"}},
   labels: {{}, {"lgtm"}}, missingLabels: {{}, {"hold"}}, milestone: {""}]
SecondQuery ==
  [orgs: {{"o"}}, repos: {{}}, excludedRepos: {{}, {X}}, includedBranches: {{}}, excludedBranches: {{}},
   labels: {{"lgtm"}}, missingLabels: {{}}, milestone: {"v1"}]
  \cup [orgs: {{}}, repos: {{X}}, excludedRepos: {{}}, includedBranches: {{"dev"}}, excludedBranches: {{}},
        labels: {{}}, missingLabels: {{}}, milestone: {""}]
Pulls ==
  [open: {TRUE}, repo: {X}, base: {"main", "dev"}, labels: {{}, {"lgtm"}, {"lgtm", "hold"}}, milestone: {"", "v1"},
   ctx: {[tide |-> "failure", unit |-> "success"], [cla |-> "failure", unit |-> "success"]}]
Policies ==
  [required: {{}, {"unit"}}, ifPresent: {{}}, optional: {{}, {"cla"}}, skipUnknown: {"nil", "true"}]
Inputs ==
  [queries: {<<a, b>> : a \in TideQuery, b \in SecondQuery}, pull: Pulls,
   issues: {{[repo |-> X, branches |-> {}], [repo |-> X, branches |-> {"dev"}], [repo |-> <<"u", "x">>, branches |-> {}]}},
   policies: {<<p, [required |-> {"unit"}, ifPresent |-> {}, optional |-> {}, skipUnknown |-> "nil"]>> : p \in Policies}]

Init ==
  /\ TideInit /\ HistoryInit
  /\ part \in {"sync", "history", "queries"}
  /\ part # "history" => recordLog.limit = 1
  /\ IF part = "queries" THEN \E in \in Inputs : qins = {in} ELSE qins = {}

Next ==
  \/ part = "sync" /\ TideNext /\ UNCHANGED <<historyVars, qins, part>>
  \/ part = "history" /\ HistoryNext /\ UNCHANGED <<tideVars, qins, part>>

Spec == Init /\ [][Next]_<<tideVars, historyVars, qins, part>>
=============================================================================
