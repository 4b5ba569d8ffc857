--------------------------------- MODULE Tide ---------------------------------
(***************************************************************************)
(* The sync loop of tide (src/tide/tide.go) for one subpool, that is one   *)
(* branch of one repository: pull requests are searched, filtered, tested  *)
(* alone or in a batch on top of the branch, and merged. Each sync works   *)
(* on what it read at its start, while authors push, jobs end, the branch  *)
(* moves and the cache of the ProwJobs lags behind.                        *)
(*                                                                         *)
(* The commit of the branch is the sequence of what was merged into it, so *)
(* that it tells which combinations of changes were tested.                *)
(***************************************************************************)
EXTENDS Integers, Sequences, FiniteSets, SequencesExt, FiniteSetsExt

CONSTANTS
  PRs,          \* numbers of the pull requests of the subpool
  Contexts,     \* contexts of the presubmits that are required if they run
  AlwaysRun,    \* those of them that run for every pull request
  Relevant,     \* for every pull request the contexts whose run_if_changed it matches
  InitialLabels,\* the labels of the pull requests
  Conflicting,  \* sets of pull requests that git cannot merge together
  BatchLimit,   \* Tide.BatchSizeLimit: -1 disables batches, 0 is no limit
  MaxJobs,      \* bound on the ProwJobs of one behaviour
  MaxMishaps    \* bound on the pushes to pull requests, the commits that others push to
                \* the branch, and the failed requests and jobs

ASSUME TideAssumption ==
  /\ PRs \subseteq Nat \ {0} /\ AlwaysRun \subseteq Contexts
  /\ Relevant \in [PRs -> SUBSET Contexts]

VARIABLES
  base,    \* the branch
  pr,      \* the pull requests on GitHub
  jobs,    \* the presubmit and batch ProwJobs of the branch, in order of creation
  cache,   \* their states in the cache of the manager, "absent" until they are seen
  budget,  \* how many of these pushes, moves and faults happened so far
  tpc,     \* where Sync is
  sp,      \* the subpool: the pull requests as they were found, the branch and the ProwJobs
  act      \* the action of this sync, its targets, and how often a merge was retried

tideVars == <<base, pr, jobs, cache, budget, tpc, sp, act>>

NoSubpool == [prs |-> <<>>, sha |-> <<>>, pjs |-> {}, blocked |-> FALSE]
NoAction == [action |-> "WAIT", targets |-> <<>>, todo |-> <<>>, retry |-> 0]

\* presubmitsForBatch, and presubmitsByPull for a single pull request: run_if_changed is
\* evaluated for the files that are changed by any of them.
presubmitsForBatch(S) == {c \in Contexts : c \in AlwaysRun \/ \E n \in S : c \in Relevant[n]}

TideInit ==
  /\ base = <<>> /\ jobs = <<>> /\ cache = <<>>
  /\ pr = [n \in PRs |-> [head |-> 1, open |-> TRUE, labels |-> InitialLabels[n], mergeable |-> TRUE,
                          ctx |-> [c \in Contexts |-> IF c \in presubmitsForBatch({n}) THEN "success" ELSE "none"]]]
  /\ budget = [pushes |-> 0, moves |-> 0, faults |-> 0]
  /\ tpc = "search" /\ sp = NoSubpool /\ act = NoAction

Spend(what) ==
  /\ budget.pushes + budget.moves + budget.faults < MaxMishaps
  /\ budget' = [budget EXCEPT ![what] = @ + 1]

Sorted(S) == SetToSortSeq(S, <)

-----------------------------------------------------------------------------
(* Pure parts.                                                             *)

\* A pull request matches the merge query.
Matches(p) == p.open /\ "lgtm" \in p.labels /\ "hold" \notin p.labels

\* unsuccessfulContexts: contexts that are present and not successful, and required ones
\* that are missing. Presubmits that only run if changed are required if present.
unsuccessfulContexts(p) ==
  {c \in Contexts : p.ctx[c] \in {"pending", "failure"} \/ (c \in AlwaysRun /\ p.ctx[c] = "none")}

isPassingTests(p) == unsuccessfulContexts(p) = {}

\* filterPR: a pull request stays unless it conflicts or a context failed or is missing.
\* Contexts of required presubmits may be pending.
filterPR(n, p) ==
  \/ ~p.mergeable
  \/ \E c \in unsuccessfulContexts(p) : p.ctx[c] # "pending" \/ c \notin presubmitsForBatch({n})

toSimpleState(s) == CASE s \in {"triggered", "pending"} -> "pending" [] s = "success" -> "success" [] OTHER -> "failure"

\* The best of a set of simple states, "none" if there is none.
Best(S) ==
  CASE "success" \in S -> "success" [] "pending" \in S -> "pending" [] "failure" \in S -> "failure" [] OTHER -> "none"

\* The best result for context c of the ProwJobs of the subpool that test pulls.
Result(pjs, c, pulls) == Best({toSimpleState(j.state) : j \in {k \in pjs : k.context = c /\ k.pulls = pulls}})

Pull(prs, n) == <<n, prs[n].head>>

\* accumulate: the worst of the best results of the presubmits of a pull request.
accumulate(s, n) ==
  LET res == {Result(s.pjs, c, <<Pull(s.prs, n)>>) : c \in presubmitsForBatch({n})}
  IN IF res \cap {"none", "failure"} # {} THEN "missing" ELSE IF "pending" \in res THEN "pending" ELSE "success"

missingTests(s, n) ==
  {c \in presubmitsForBatch({n}) : Result(s.pjs, c, <<Pull(s.prs, n)>>) \in {"none", "failure"}}

\* accumulateBatch: the batches all of whose pull requests are in the pool with the head
\* that was tested, with their overall state.
ValidBatches(s) ==
  {j.pulls : j \in {k \in s.pjs : Len(k.pulls) > 1 /\ \A i \in DOMAIN k.pulls :
                                    k.pulls[i][1] \in DOMAIN s.prs /\ k.pulls[i] = Pull(s.prs, k.pulls[i][1])}}

\* Mutant: a batch that failed counts as pending.
BatchStateLenient(s, pulls) ==
  LET res == {Result(s.pjs, c, pulls) : c \in presubmitsForBatch({pulls[i][1] : i \in DOMAIN pulls})}
  IN IF res = {"success"} THEN "success" ELSE "pending"

\* Mutant: a presubmit that was not started is not missed.
BatchStatePartial(s, pulls) ==
  LET res == {Result(s.pjs, c, pulls) : c \in presubmitsForBatch({pulls[i][1] : i \in DOMAIN pulls})}
  IN IF "failure" \in res THEN "failure" ELSE IF "pending" \in res THEN "pending" ELSE "success"

BatchState(s, pulls) ==
  LET res == {Result(s.pjs, c, pulls) : c \in presubmitsForBatch({pulls[i][1] : i \in DOMAIN pulls})}
  IN IF res \cap {"none", "failure"} # {} THEN "failure" ELSE IF "pending" \in res THEN "pending" ELSE "success"

\* One of several batches in the same state is picked: maps are iterated in any order.
Batches(s, state) == {pulls \in ValidBatches(s) : BatchState(s, pulls) = state}
AnyOf(S) == IF S = {} THEN {<<>>} ELSE S

\* pickBatch: pull requests with passing tests, oldest first, as far as they merge. git
\* merges on top of what merged before.
pickBatch(s) ==
  LET candidates == Sorted({n \in DOMAIN s.prs : isPassingTests(s.prs[n])})
      Step(acc, n) ==
        IF (BatchLimit > 0 /\ Len(acc) >= BatchLimit) \/ (\E C \in Conflicting : C \subseteq ToSet(acc) \cup {n})
        THEN acc ELSE Append(acc, n)
  IN IF BatchLimit < 0 THEN <<>> ELSE FoldLeft(Step, <<>>, candidates)

pickSmallestPassingNumber(s, S) ==
  LET passing == {n \in S : isPassingTests(s.prs[n])}
  IN IF passing = {} THEN {} ELSE {Min(passing)}

Action(a, pulls, todo) == [action |-> a, targets |-> pulls, todo |-> todo, retry |-> 0]
Merge(a, pulls) == Action(a, pulls, pulls)
Test(a, pulls, contexts) == Action(a, pulls, SetToSeq(contexts))

\* takeAction, for the batches that accumulateBatch may have returned.
takeAction(s, successBatch, pendingBatch) ==
  LET In(state) == {n \in DOMAIN s.prs : accumulate(s, n) = state}
      ready == pickSmallestPassingNumber(s, In("success"))
      next == pickSmallestPassingNumber(s, In("missing"))
      batch == pickBatch(s)
  IN CASE successBatch # <<>> -> {Merge("MERGE_BATCH", successBatch)}
       [] successBatch = <<>> /\ pendingBatch = <<>> /\ ready # {} -> {Merge("MERGE", <<Pull(s.prs, n)>>) : n \in ready}
       [] OTHER ->
            IF \A n \in DOMAIN s.prs : presubmitsForBatch({n}) = {} THEN {NoAction}
            ELSE IF Cardinality(DOMAIN s.prs) > 1 /\ pendingBatch = <<>> /\ Len(batch) > 1
            THEN {Test("TRIGGER_BATCH", [i \in DOMAIN batch |-> Pull(s.prs, batch[i])], presubmitsForBatch(ToSet(batch)))}
            ELSE IF In("pending") = {} /\ In("success") = {} /\ next # {}
            THEN {Test("TRIGGER", <<Pull(s.prs, n)>>, missingTests(s, n)) : n \in next}
            ELSE {NoAction}

-----------------------------------------------------------------------------
(* Sync.                                                                   *)

\* The queries are run, then the search for blocking issues; a failing search for pull
\* requests may still yield some results.
Search ==
  /\ tpc = "search"
  /\ \E S \in SUBSET {n \in PRs : Matches(pr[n])}, blocked \in BOOLEAN :
       /\ IF S = {n \in PRs : Matches(pr[n])} /\ ~blocked THEN UNCHANGED budget ELSE Spend("faults")
       /\ S # {}
       /\ sp' = [NoSubpool EXCEPT !.prs = [n \in S |-> pr[n]], !.blocked = blocked]
  /\ tpc' = "divide"
  /\ UNCHANGED <<base, pr, jobs, cache, act>>

\* dividePool: the head of the branch is read, and the ProwJobs for it are listed from the
\* cache.
Divide ==
  /\ tpc = "divide"
  /\ sp' = [sp EXCEPT !.sha = base,
                      !.pjs = {[context |-> jobs[i].context, pulls |-> jobs[i].pulls, state |-> cache[i], id |-> i] :
                                 i \in {k \in DOMAIN jobs : cache[k] # "absent" /\ jobs[k].base = base}}]
  /\ tpc' = "filter"
  /\ UNCHANGED <<base, pr, jobs, cache, budget, act>>

\* filterSubpools and then syncSubpool, which read nothing that changes. In between the
\* status controller is told of the pool.
Decide ==
  /\ tpc = "filter"
  /\ LET keep == {n \in DOMAIN sp.prs : ~filterPR(n, sp.prs[n])}
         s == [sp EXCEPT !.prs = [n \in keep |-> sp.prs[n]]]
     IN /\ sp' = s
        /\ \E successBatch \in AnyOf(Batches(s, "success")), pendingBatch \in AnyOf(Batches(s, "pending")) :
             act' \in IF keep = {} THEN {NoAction}
                     ELSE IF s.blocked THEN {[NoAction EXCEPT !.action = "BLOCKED"]}
                     ELSE takeAction(s, successBatch, pendingBatch)
  /\ tpc' = "execute"
  /\ UNCHANGED <<base, pr, jobs, cache, budget>>

\* checkMergeLabels: at most one label overrides the merge method.
checkMergeLabels(n) == Cardinality(sp.prs[n].labels \cap {"squash", "rebase", "merge"}) <= 1

\* GitHub or tide itself refuses to merge the head that was found.
Refused(pull) ==
  LET n == pull[1] IN ~checkMergeLabels(n) \/ ~pr[n].open \/ ~pr[n].mergeable \/ pr[n].head # pull[2]

Executing(actions) == tpc = "execute" /\ act.action \in actions /\ act.todo # <<>>
Rest == [act EXCEPT !.todo = Tail(@), !.retry = 0]
Abandon == [act EXCEPT !.todo = <<>>, !.retry = 0]

\* Mutant: the head that was tested is not sent along.
MergeAnyHead ==
  LET n == Head(act.todo)[1]
  IN /\ Executing({"MERGE", "MERGE_BATCH"})
     /\ pr[n].open /\ pr[n].mergeable
     /\ base' = Append(base, <<n, pr[n].head>>)
     /\ pr' = [pr EXCEPT ![n].open = FALSE]
     /\ act' = Rest
     /\ UNCHANGED <<jobs, cache, budget, tpc, sp>>

\* tryMerge, when GitHub merges: only the head that was tested.
MergeOK ==
  LET n == Head(act.todo)[1]
  IN /\ Executing({"MERGE", "MERGE_BATCH"})
     /\ ~Refused(Head(act.todo))
     /\ base' = Append(base, <<n, pr[n].head>>)
     /\ pr' = [pr EXCEPT ![n].open = FALSE]
     /\ act' = Rest
     /\ UNCHANGED <<jobs, cache, budget, tpc, sp>>

\* The head was modified or the pull request cannot be merged: the others are still tried.
\* GitHub claims that the base was modified: up to three attempts. The robot may not push,
\* or merge commits are forbidden: the others are given up.
MergeFails ==
  /\ Executing({"MERGE", "MERGE_BATCH"})
  /\ \/ Refused(Head(act.todo)) /\ act' = Rest /\ UNCHANGED budget
     \/ /\ Spend("faults")
        /\ act' \in {Rest, Abandon} \cup (IF act.retry < 2 THEN {[act EXCEPT !.retry = @ + 1]} ELSE {})
  /\ UNCHANGED <<base, pr, jobs, cache, tpc, sp>>

\* trigger: one ProwJob for every context; the first failure ends it.
CreateJob ==
  /\ Executing({"TRIGGER", "TRIGGER_BATCH"})
  /\ \/ /\ Len(jobs) < MaxJobs
        /\ jobs' = Append(jobs, [context |-> Head(act.todo), base |-> sp.sha, pulls |-> act.targets, state |-> "triggered"])
        /\ cache' = Append(cache, "absent")
        /\ act' = Rest /\ UNCHANGED budget
     \/ Spend("faults") /\ act' = Abandon /\ UNCHANGED <<jobs, cache>>
  /\ UNCHANGED <<base, pr, tpc, sp>>

\* The action is recorded, the pools are published and the history is flushed.
SyncDone ==
  /\ tpc = "execute" /\ act.todo = <<>>
  /\ tpc' = "search" /\ sp' = NoSubpool /\ act' = NoAction
  /\ UNCHANGED <<base, pr, jobs, cache, budget>>

Sync == Search \/ Divide \/ Decide \/ MergeOK \/ MergeFails \/ CreateJob \/ SyncDone

-----------------------------------------------------------------------------
(* Authors, other committers, the jobs, crier and the cache.               *)

Push(n) ==
  /\ pr[n].open /\ Spend("pushes")
  /\ pr' = [pr EXCEPT ![n].head = @ + 1, ![n].ctx = [c \in Contexts |-> "none"]]
  /\ UNCHANGED <<base, jobs, cache, tpc, sp, act>>

Move ==
  /\ Spend("moves")
  /\ base' = Append(base, <<0, budget.moves>>)
  /\ UNCHANGED <<pr, jobs, cache, tpc, sp, act>>

JobEnds(i) ==
  /\ jobs[i].state = "triggered"
  /\ \/ jobs' = [jobs EXCEPT ![i].state = "success"] /\ UNCHANGED budget
     \/ jobs' = [jobs EXCEPT ![i].state = "failure"] /\ Spend("faults")
  /\ UNCHANGED <<base, pr, cache, tpc, sp, act>>

\* hook's trigger plugin starts a presubmit for a new head, or again after a failure.
HookTrigger(n, c) ==
  /\ pr[n].open /\ c \in presubmitsForBatch({n}) /\ pr[n].ctx[c] \in {"none", "failure"} /\ Len(jobs) < MaxJobs
  /\ \A i \in DOMAIN jobs : jobs[i].context = c /\ jobs[i].pulls = <<Pull(pr, n)>> => jobs[i].state = "failure"
  /\ jobs' = Append(jobs, [context |-> c, base |-> base, pulls |-> <<Pull(pr, n)>>, state |-> "triggered"])
  /\ cache' = Append(cache, "absent")
  /\ UNCHANGED <<base, pr, budget, tpc, sp, act>>

\* crier reports the latest presubmit of a context of the current head.
Unreported(i) ==
  LET n == jobs[i].pulls[1][1]
  IN /\ jobs[i].pulls = <<Pull(pr, n)>> /\ pr[n].ctx[jobs[i].context] # toSimpleState(jobs[i].state)
     /\ \A k \in DOMAIN jobs : k > i => jobs[k].pulls # jobs[i].pulls \/ jobs[k].context # jobs[i].context

CrierReports(i) ==
  LET n == jobs[i].pulls[1][1]
  IN /\ Unreported(i)
     /\ pr' = [pr EXCEPT ![n].ctx[jobs[i].context] = toSimpleState(jobs[i].state)]
     /\ UNCHANGED <<base, jobs, cache, budget, tpc, sp, act>>

CacheSees(i) ==
  /\ cache[i] # jobs[i].state
  /\ cache' = [cache EXCEPT ![i] = jobs[i].state]
  /\ UNCHANGED <<base, pr, jobs, budget, tpc, sp, act>>

Environment ==
  \/ Move
  \/ \E n \in PRs : Push(n) \/ \E c \in Contexts : HookTrigger(n, c)
  \/ \E i \in DOMAIN jobs : JobEnds(i) \/ CrierReports(i) \/ CacheSees(i)

TideNext == Sync \/ Environment

-----------------------------------------------------------------------------

\* A set of pulls passed every presubmit that is required for it on top of b.
Passed(b, pulls) ==
  \A c \in presubmitsForBatch({pulls[i][1] : i \in DOMAIN pulls}) :
    \E i \in DOMAIN jobs : jobs[i].context = c /\ jobs[i].base = b /\ jobs[i].pulls = pulls /\ jobs[i].state = "success"

\* No pull request is merged with a head that did not pass its tests, alone or as a member
\* of a batch, on a branch that the current one grew out of.
MergedHeadTested ==
  \A m \in DOMAIN base : base[m][1] # 0 => \E i \in DOMAIN jobs :
    /\ jobs[i].state = "success" /\ IsPrefix(jobs[i].base, SubSeq(base, 1, m - 1))
    /\ \E k \in DOMAIN jobs[i].pulls : jobs[i].pulls[k] = base[m]

\* While nobody else pushes to the branch or to a pull request and no request fails, the
\* branch is, between syncs, exactly a combination of changes that was tested.
BranchTested ==
  tpc = "search" /\ budget = [pushes |-> 0, moves |-> 0, faults |-> 0] /\ base # <<>> =>
    \E i \in 0 .. Len(base) - 1 : Passed(SubSeq(base, 1, i), SubSeq(base, i + 1, Len(base)))

\* Sync never decides to wait with nothing to wait for: if it left a pull request with
\* passing contexts in the pool and did nothing, then a ProwJob has not ended, was not seen
\* or not reported, or GitHub has changed since. Batches and serial tests do not wait for each other.
WaitsForSomething ==
  tpc = "execute" /\ act.action = "WAIT" /\ (\E n \in DOMAIN sp.prs : isPassingTests(sp.prs[n])) =>
    \/ \E i \in DOMAIN jobs : jobs[i].state = "triggered" \/ cache[i] # jobs[i].state \/ Unreported(i)
    \/ sp.sha # base \/ \E j \in sp.pjs : j.state # cache[j.id]
    \/ \E n \in DOMAIN sp.prs : sp.prs[n] # pr[n]

-----------------------------------------------------------------------------
(***************************************************************************)
(* tide's record of its recent actions (src/tide/history/history.go): a    *)
(* ring buffer per pool, with a cached slice in order of time, which is    *)
(* written to a file after every sync and read back at the start. One pool *)
(* is modelled; records are numbered in the order in which they are made.  *)
(***************************************************************************)
CONSTANTS
  LogSizeLimits, \* values of logSizeLimit, one of which each start of tide is given
  MaxRecords     \* bound on the records of one behaviour

VARIABLES
  recordLog,   \* buff, head, limit and cachedSlice (<<0>> if it is nil)
  recorded,    \* the records made since the file was read, oldest first, after those in it
  historyFile  \* the slice that was written last

historyVars == <<recordLog, recorded, historyFile>>

Nil == <<0>>

newRecordLog(limit) == [buff |-> <<>>, head |-> -1, limit |-> limit, cached |-> Nil]

\* Mutant: the cached slice is not invalidated.
addStale(rl, rec) ==
  LET h == (rl.head + 1) % rl.limit
  IN [rl EXCEPT !.head = h, !.buff = IF Len(@) < rl.limit THEN Append(@, rec) ELSE [@ EXCEPT ![h + 1] = rec]]

add(rl, rec) ==
  LET h == (rl.head + 1) % rl.limit
  IN [rl EXCEPT !.cached = Nil, !.head = h,
                !.buff = IF Len(@) < rl.limit THEN Append(@, rec) ELSE [@ EXCEPT ![h + 1] = rec]]

toSlice(rl) ==
  IF rl.cached # Nil THEN rl.cached
  ELSE [i \in 1 .. Len(rl.buff) |-> rl.buff[((rl.limit + rl.head - (i - 1)) % rl.limit) + 1]]

\* readHistory: the newest records that fit are added, oldest first.
readHistory(slice, limit) ==
  FoldLeft(add, newRecordLog(limit), Reverse(SubSeq(slice, 1, IF limit < Len(slice) THEN limit ELSE Len(slice))))

HistoryInit ==
  /\ recordLog \in {newRecordLog(l) : l \in LogSizeLimits}
  /\ recorded = <<>> /\ historyFile = <<>>

Record ==
  /\ Len(recorded) < MaxRecords
  /\ recordLog' = add(recordLog, Len(recorded) + 1)
  /\ recorded' = Append(recorded, Len(recorded) + 1)
  /\ UNCHANGED historyFile

\* Flush writes AllRecords, which also caches the slice; the write may fail.
Flush ==
  /\ recordLog' = [recordLog EXCEPT !.cached = toSlice(recordLog)]
  /\ historyFile' \in {historyFile, toSlice(recordLog)}
  /\ UNCHANGED recorded

\* tide starts again, maybe with another limit.
HistoryNew ==
  /\ \E l \in LogSizeLimits : recordLog' = readHistory(historyFile, l)
  /\ recorded' = Reverse(historyFile)
  /\ UNCHANGED historyFile

HistoryNext == Record \/ Flush \/ HistoryNew

\* AllRecords returns the newest records, as many as the limit allows, newest first,
\* through wraparound, cached slices, failed writes and restarts with another limit.
HistoryKept ==
  toSlice(recordLog) =
    Reverse(SubSeq(recorded, IF Len(recorded) > recordLog.limit THEN Len(recorded) - recordLog.limit + 1 ELSE 1, Len(recorded)))

-----------------------------------------------------------------------------
(***************************************************************************)
(* The merge queries of tide's config (src/config/tide.go) and how far a   *)
(* pull request is from one (src/tide/status.go, src/tide/blockers). Three *)
(* parts of tide interpret a query: GitHub's search, the status            *)
(* controller's diff, and the org and repo tokens that restrict the        *)
(* searches for open pull requests and for blocking issues.                *)
(***************************************************************************)

CONSTANTS
  Org, Repo,       \* orgs, and repos as pairs of org and name
  QueryBranch, QueryLabel, QueryContext,
  TideQuery        \* the queries that are looked at

VARIABLE qins  \* a set of inputs, each of queries, a pull request, blocking issues and context policies of two levels

\* ForRepo.
ForRepo(q, r) == \/ r[1] \in q.orgs /\ r \notin q.excludedRepos
                 \/ r[1] \notin q.orgs /\ r \in q.repos

\* Mutant: exceptions of an org that is in two queries are added up.
OrgExceptionsUnion(qs) ==
  [o \in {o \in Org : \E q \in ToSet(qs) : o \in q.orgs} |->
     UNION {q.excludedRepos : q \in {p \in ToSet(qs) : o \in p.orgs}} \ UNION {q.repos : q \in ToSet(qs)}]

\* OrgExceptionsAndRepos: the exceptions of each org are those of the first query,
\* intersected with those of the others, without repos that a query names.
OrgExceptions(qs) ==
  [o \in {o \in Org : \E q \in ToSet(qs) : o \in q.orgs} |->
     {r \in Repo : /\ r[1] = o /\ \A q \in ToSet(qs) : o \in q.orgs => r \in q.excludedRepos
                   /\ \A q \in ToSet(qs) : r \notin q.repos}]

Repos(qs) == UNION {q.repos : q \in ToSet(qs)}

\* orgRepoQueryString, as GitHub understands it.
Covered(qs, r) ==
  \/ r \in Repos(qs)
  \/ r[1] \in DOMAIN OrgExceptions(qs) /\ r \notin OrgExceptions(qs)[r[1]]

\* Validate, without the checks of the form of names.
ValidQuery(q) ==
  /\ \A r \in q.repos : r[1] \notin q.orgs
  /\ q.orgs # {} \/ q.repos # {}
  /\ \A r \in q.excludedRepos : r[1] \in q.orgs
  /\ q.labels \cap q.missingLabels = {}
  /\ q.excludedBranches = {} \/ q.includedBranches = {}

\* Query: the search string, as GitHub understands it. base: tokens are alternatives and
\* hide the -base: tokens.
Query(q, pull) ==
  /\ pull.open /\ ForRepo(q, pull.repo)
  /\ IF q.includedBranches # {} THEN pull.base \in q.includedBranches ELSE pull.base \notin q.excludedBranches
  /\ q.labels \subseteq pull.labels /\ q.missingLabels \cap pull.labels = {}
  /\ q.milestone # "" => pull.milestone = q.milestone

\* FindAll and GetApplicable: the blocking issues of the repos that the queries cover. An
\* issue whose title names branches blocks these, any other one all branches.
FindAll(qs, issues) == {i \in issues : Covered(qs, i.repo)}
GetApplicable(blocks, r, branch) == {i \in blocks : i.repo = r /\ (i.branches = {} \/ branch \in i.branches)}

-----------------------------------------------------------------------------
(* Contexts.                                                               *)

mergeBool(a, b) == IF b = "nil" THEN a ELSE b

mergeTideContextPolicy(a, b) ==
  [required |-> a.required \cup b.required,
   ifPresent |-> a.ifPresent \cup b.ifPresent,
   optional |-> a.optional \cup b.optional,
   skipUnknown |-> mergeBool(a.skipUnknown, b.skipUnknown)]

\* parseTideContextPolicyOptions: global, org, repo and branch levels, as far as they exist.
parseTideContextPolicyOptions(levels) == FoldLeft(mergeTideContextPolicy, Head(levels), Tail(levels))

ValidPolicy(cp) ==
  cp.required \cap cp.optional = {} /\ cp.required \cap cp.ifPresent = {} /\ cp.optional \cap cp.ifPresent = {}

IsOptional(cp, c) ==
  \/ c \in cp.optional
  \/ c \notin cp.required \cup cp.ifPresent /\ cp.skipUnknown = "true"

MissingRequiredContexts(cp, present) == cp.required \ present

\* unsuccessfulContexts: ctx gives the state of the contexts that are present.
Unsuccessful(cp, ctx) ==
  {c \in DOMAIN ctx : c # "tide" /\ ~IsOptional(cp, c) /\ ctx[c] # "success"} \cup MissingRequiredContexts(cp, DOMAIN ctx)

\* requirementDiff, the number of differences.
requirementDiff(pull, q, cp) ==
    (IF pull.base \in q.excludedBranches \/ (q.includedBranches # {} /\ pull.base \notin q.includedBranches) THEN 1000 ELSE 0)
  + (IF q.milestone # "" /\ pull.milestone # q.milestone THEN 100 ELSE 0)
  + Cardinality(q.labels \ pull.labels)
  + Cardinality(q.missingLabels \cap pull.labels)
  + Cardinality(Unsuccessful(cp, pull.ctx))

\* The smallest difference of expectedStatus: the first of the closest queries of the repo.
minDiff(qs, pull, cp) ==
  LET own == SelectSeq(qs, LAMBDA q : ForRepo(q, pull.repo))
      Step(best, q) == IF best = -1 \/ requirementDiff(pull, q, cp) < best THEN requirementDiff(pull, q, cp) ELSE best
  IN FoldLeft(Step, -1, own)

-----------------------------------------------------------------------------

\* The interpretations agree, for valid queries: the tokens cover exactly the repos that
\* some query applies to, so that every pull request that can be merged gets a status and
\* every blocking issue is found; and the difference to the closest query is zero exactly
\* for the pull requests that GitHub's search finds and whose contexts pass, when merged
\* policies are valid.
QueriesAgree ==
  \A qin \in qins :
    LET cp == parseTideContextPolicyOptions(qin.policies)
        valid == SelectSeq(qin.queries, ValidQuery)
    IN /\ \A r \in Repo : Covered(valid, r) <=> \E q \in ToSet(valid) : ForRepo(q, r)
       /\ \A i \in qin.issues : (\E q \in ToSet(valid) : Query(q, qin.pull)) =>
            (i \in GetApplicable(FindAll(valid, qin.issues), qin.pull.repo, qin.pull.base) <=>
               i.repo = qin.pull.repo /\ (i.branches = {} \/ qin.pull.base \in i.branches))
       /\ minDiff(valid, qin.pull, cp) = 0 <=>
            \E q \in ToSet(valid) : Query(q, qin.pull) /\ Unsuccessful(cp, qin.pull.ctx) = {}
       /\ ValidPolicy(cp) => \A c \in QueryContext : c \in cp.required => ~IsOptional(cp, c)
=============================================================================
