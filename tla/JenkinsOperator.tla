--------------------------- MODULE JenkinsOperator ---------------------------
(***************************************************************************)
(* The Jenkins operator (src/jenkins): a loop that lists the ProwJobs and  *)
(* then the queue and the builds of Jenkins, ends superseded presubmits,   *)
(* and moves every ProwJob on according to the build that was found.       *)
(*                                                                         *)
(* The ProwJobs are listed in the order of their numbers; a smaller number *)
(* need not have started earlier. They run one Jenkins job, whose listing, *)
(* which the code repeats for every ProwJob, is one step. The goroutines   *)
(* of a phase share only the counters of pending jobs: they are modelled   *)
(* as one that takes the ProwJobs in any order.                            *)
(***************************************************************************)
EXTENDS Integers, Sequences, FiniteSets

CONSTANTS
  JJobs,       \* the ProwJobs, 1 .. n
  JConfigs,    \* [cancel, max, jobMax, start, key]: AllowCancellations, both MaxConcurrency,
               \* and for every ProwJob its StartTime and "job org/repo#number"
  JResults,    \* the results that a build can have
  MaxBuilds, MaxJFails  \* bounds on the builds, and on failed requests and crashes

ASSUME JenkinsAssumption ==
  /\ IsFiniteSet(JJobs) /\ JJobs = 1 .. Cardinality(JJobs)
  /\ \A c \in JConfigs : c.start \in [JJobs -> Int]
  /\ {"queued", "running"} \cap JResults = {}

VARIABLES
  jcfg,
  jpj,      \* the ProwJobs in the cluster: state and description
  jbuilds,  \* Jenkins: the builds, oldest first: id, the ProwJob's, and st, "queued", "running" or a result
  jsync,    \* the sync: pc, the listed ProwJobs, the builds found, the position in
            \* terminateDupes with the newest ProwJob of every key, the ProwJobs still to be
            \* synced, pendingJobs, the update that follows a started build, the reports
  jtold,    \* the state of each ProwJob that was reported last
  jfails

jenkinsVars == <<jcfg, jpj, jbuilds, jsync, jtold, jfails>>

JState(s, d) == [state |-> s, desc |-> d]
JTriggered == JState("triggered", "")
JComplete(p) == p.state \notin {"triggered", "pending"}
JIdle == [pc |-> "idle", pjs |-> [j \in JJobs |-> JTriggered], jbs |-> [j \in {} |-> ""], idx |-> 1,
          dupes |-> [k \in {} |-> 0], todo |-> {}, pendingJobs |-> 0, cur |-> 0,
          next |-> JTriggered, reports |-> [j \in {} |-> ""]]

JInit ==
  /\ jcfg \in JConfigs
  /\ jpj = [j \in JJobs |-> JTriggered] /\ jbuilds = <<>> /\ jsync = JIdle
  /\ jtold = [j \in JJobs |-> "none"] /\ jfails = 0

JFail == jfails < MaxJFails /\ jfails' = jfails + 1

-----------------------------------------------------------------------------
(* Jenkins.                                                                *)

StartBuild(i) ==
  /\ jbuilds[i].st = "queued"
  /\ jbuilds' = [jbuilds EXCEPT ![i].st = "running"]
  /\ UNCHANGED <<jcfg, jpj, jsync, jtold, jfails>>

FinishBuild(i, r) ==
  /\ jbuilds[i].st = "running"
  /\ jbuilds' = [jbuilds EXCEPT ![i].st = r]
  /\ UNCHANGED <<jcfg, jpj, jsync, jtold, jfails>>

IsEnqueued(st) == st = "queued"
IsRunning(st) == st = "running"
IsSuccess(st) == st = "SUCCESS"
IsFailure(st) == st \in {"FAILURE", "UNSTABLE"}
IsAborted(st) == st = "ABORTED"

BuildsOf(j) == {i \in DOMAIN jbuilds : jbuilds[i].id = j}

-----------------------------------------------------------------------------
(* Sync: the listings.                                                     *)

ListProwJobs ==
  /\ jsync.pc = "idle"
  /\ jsync' = [JIdle EXCEPT !.pc = "queue", !.pjs = jpj]
  /\ UNCHANGED <<jcfg, jpj, jbuilds, jtold, jfails>>

getJenkinsJobs == {j \in JJobs : ~JComplete(jsync.pjs[j])}

\* A listing that fails, after the retries of the client, ends the sync.
EndSync == JFail /\ jsync' = JIdle

GetEnqueuedBuilds ==
  /\ jsync.pc = "queue"
  /\ \/ LET found == {j \in getJenkinsJobs : \E i \in BuildsOf(j) : IsEnqueued(jbuilds[i].st)}
        IN jsync' = [jsync EXCEPT !.pc = "builds", !.jbs = [j \in found |-> "queued"]] /\ UNCHANGED jfails
     \/ EndSync
  /\ UNCHANGED <<jcfg, jpj, jbuilds, jtold>>

\* Builds are listed newest first, and the last one with an id is kept; what is found here
\* replaces what was found in the queue.
ListedState(j) ==
  LET own == {i \in BuildsOf(j) : ~IsEnqueued(jbuilds[i].st)}
  IN IF own = {} THEN jsync.jbs[j] ELSE jbuilds[CHOOSE i \in own : \A k \in own : i <= k].st

\* As GetBuilds, but with the queue read last: a build that leaves it in between is in neither.
QueueReadLast ==
  /\ jsync.pc = "builds"
  /\ \E gone \in SUBSET {j \in DOMAIN jsync.jbs : \E i \in BuildsOf(j) : jbuilds[i].st = "running"} :
       LET found == {j \in JJobs \ gone : \E i \in BuildsOf(j) : ~IsEnqueued(jbuilds[i].st)}
       IN jsync' = [jsync EXCEPT !.pc = "dupes",
                                 !.jbs = [j \in found \cup (DOMAIN jsync.jbs \ gone) |-> ListedState(j)]]
  /\ UNCHANGED <<jcfg, jpj, jbuilds, jtold, jfails>>

GetBuilds ==
  /\ jsync.pc = "builds"
  /\ \/ LET found == {j \in JJobs : \E i \in BuildsOf(j) : ~IsEnqueued(jbuilds[i].st)}
        IN /\ jsync' = [jsync EXCEPT !.pc = "dupes",
                                     !.jbs = [j \in found \cup DOMAIN jsync.jbs |-> ListedState(j)]]
           /\ UNCHANGED jfails
     \/ EndSync
  /\ UNCHANGED <<jcfg, jpj, jbuilds, jtold>>

ListBuilds == GetEnqueuedBuilds \/ GetBuilds

-----------------------------------------------------------------------------
(* Sync: updates.                                                          *)

\* An update of a ProwJob that changed since it was listed is refused. It may also fail, or
\* be done although the operator sees an error.
UpdateProwJob(j, new, out) ==
  /\ IF out = "ok" THEN UNCHANGED jfails ELSE JFail
  /\ jpj' = IF out = "failed" \/ jpj[j] # jsync.pjs[j] THEN jpj ELSE [jpj EXCEPT ![j] = new]
UpdateSucceeds(j, out) == out = "ok" /\ jpj[j] = jsync.pjs[j]
Outcomes == {"ok", "failed", "lost"}

\* The build is stopped if it is still running; a failure is only logged.
Abort(j) ==
  \/ jbuilds' = [i \in DOMAIN jbuilds |->
                   IF jbuilds[i].id = j /\ jbuilds[i].st = "running" THEN [jbuilds[i] EXCEPT !.st = "ABORTED"]
                   ELSE jbuilds[i]]
  \/ jfails < MaxJFails /\ UNCHANGED jbuilds

\* One ProwJob of terminateDupes.
terminateDupes ==
  /\ jsync.pc = "dupes" /\ jsync.idx \in JJobs
  /\ LET i == jsync.idx
         k == jcfg.key[i]
         seen == k \in DOMAIN jsync.dupes
         prev == jsync.dupes[k]
         older == jcfg.start[prev] < jcfg.start[i]
         cancel == IF older THEN prev ELSE i
         dupes == [x \in DOMAIN jsync.dupes \cup {k} |->
                     IF x # k THEN jsync.dupes[x] ELSE IF seen /\ ~older THEN prev ELSE i]
         exists == cancel \in DOMAIN jsync.jbs
         new == JState("aborted", jsync.pjs[cancel].desc)
     IN IF JComplete(jsync.pjs[i])
        THEN jsync' = [jsync EXCEPT !.idx = i + 1] /\ UNCHANGED <<jpj, jbuilds, jfails>>
        ELSE IF ~seen \/ (jcfg.cancel /\ exists /\ IsEnqueued(jsync.jbs[cancel]))
        THEN jsync' = [jsync EXCEPT !.idx = i + 1, !.dupes = dupes] /\ UNCHANGED <<jpj, jbuilds, jfails>>
        ELSE /\ IF jcfg.cancel /\ exists THEN Abort(cancel) ELSE UNCHANGED jbuilds
             /\ \E out \in Outcomes :
                  /\ UpdateProwJob(cancel, new, out)
                  /\ jsync' = IF UpdateSucceeds(cancel, out)
                              THEN [jsync EXCEPT !.idx = i + 1, !.dupes = dupes, !.pjs[cancel] = new]
                              ELSE [jsync EXCEPT !.idx = Cardinality(JJobs) + 1]
  /\ UNCHANGED <<jcfg, jtold>>

InState(s) == {j \in JJobs : jsync.pjs[j].state = s}

PartitionPending ==
  /\ jsync.pc = "dupes" /\ jsync.idx \notin JJobs
  /\ jsync' = [jsync EXCEPT !.pc = "pending", !.todo = InState("pending")]
  /\ UNCHANGED <<jcfg, jpj, jbuilds, jtold, jfails>>

PartitionTriggered ==
  /\ jsync.pc = "pending" /\ jsync.todo = {}
  /\ jsync' = [jsync EXCEPT !.pc = "triggered", !.todo = InState("triggered")]
  /\ UNCHANGED <<jcfg, jpj, jbuilds, jtold, jfails>>

\* What syncPendingJob makes of a build with this state. A result that it does not know
\* leaves the ProwJob pending.
PendingOutcome(p, st) ==
  CASE IsRunning(st) -> JState("pending", "running")
    [] IsSuccess(st) -> JState("success", "succeeded")
    [] IsFailure(st) -> JState("failure", "failed")
    [] IsAborted(st) -> JState("aborted", "aborted")
    [] OTHER -> p

WithReport(j, new) == [x \in DOMAIN jsync.reports \cup {j} |-> IF x = j THEN new.state ELSE jsync.reports[x]]

syncPendingJob(j) ==
  /\ jsync.pc = "pending" /\ j \in jsync.todo
  /\ LET p == jsync.pjs[j]
         exists == j \in DOMAIN jsync.jbs
         st == jsync.jbs[j]
         active == exists /\ (IsEnqueued(st) \/ IsRunning(st))
         new == IF exists THEN PendingOutcome(p, st) ELSE JState("error", "not found")
         quiet == active /\ (IsEnqueued(st) \/ p.desc = "running")
         counted == [jsync EXCEPT !.todo = @ \ {j}, !.pendingJobs = IF active THEN @ + 1 ELSE @]
     IN IF quiet
        THEN jsync' = counted /\ UNCHANGED <<jpj, jfails>>
        ELSE /\ \E out \in Outcomes : UpdateProwJob(j, new, out)
             /\ jsync' = [counted EXCEPT !.reports = WithReport(j, new)]
  /\ UNCHANGED <<jcfg, jbuilds, jtold>>

canExecuteConcurrently ==
  /\ jcfg.max > 0 => jsync.pendingJobs < jcfg.max
  /\ jcfg.jobMax > 0 => jsync.pendingJobs < jcfg.jobMax

\* Build posts the request, and posts it again when the answer is an error or is lost, so that
\* n builds may be queued, and ok tells whether the last answer was good. A job that cannot
\* be made ready (EnsureBuildableJob) is an error without any build.
LaunchBuild(j, n, ok) ==
  /\ Len(jbuilds) + n <= MaxBuilds
  /\ IF n = 1 /\ ok THEN UNCHANGED jfails ELSE JFail
  /\ jbuilds' = jbuilds \o [i \in 1 .. n |-> [id |-> j, st |-> "queued"]]
  /\ jsync' = [jsync EXCEPT !.pendingJobs = @ + 1, !.todo = @ \ {j}, !.cur = j,
                            !.next = IF ok THEN JState("pending", "enqueued") ELSE JState("error", "cannot start")]

syncTriggeredJob(j) ==
  /\ jsync.pc = "triggered" /\ j \in jsync.todo /\ jsync.cur = 0
  /\ IF j \in DOMAIN jsync.jbs
     THEN /\ jsync' = [jsync EXCEPT !.todo = @ \ {j}, !.cur = j, !.next = JState("pending", "enqueued")]
          /\ UNCHANGED <<jbuilds, jfails>>
     ELSE \/ ~canExecuteConcurrently /\ jsync' = [jsync EXCEPT !.todo = @ \ {j}] /\ UNCHANGED <<jbuilds, jfails>>
          \/ canExecuteConcurrently /\ \E n \in 0 .. 2, ok \in BOOLEAN : (ok => n > 0) /\ LaunchBuild(j, n, ok)
          \/ \* getBuildID fails
             /\ canExecuteConcurrently /\ JFail
             /\ jsync' = [jsync EXCEPT !.todo = @ \ {j}, !.pendingJobs = @ + 1]
             /\ UNCHANGED jbuilds
  /\ UNCHANGED <<jcfg, jpj, jtold>>

UpdateTriggered ==
  /\ jsync.cur # 0
  /\ \E out \in Outcomes : UpdateProwJob(jsync.cur, jsync.next, out)
  /\ jsync' = [jsync EXCEPT !.cur = 0, !.reports = WithReport(jsync.cur, jsync.next)]
  /\ UNCHANGED <<jcfg, jbuilds, jtold>>

\* The reports are made at the end, each of them once, whatever became of the update.
ReportAll ==
  /\ jsync.pc = "triggered" /\ jsync.todo = {} /\ jsync.cur = 0
  /\ \E done \in {DOMAIN jsync.reports} \cup (IF jfails < MaxJFails THEN SUBSET DOMAIN jsync.reports ELSE {}) :
       jtold' = [j \in JJobs |-> IF j \in done THEN jsync.reports[j] ELSE jtold[j]]
  /\ jsync' = JIdle
  /\ UNCHANGED <<jcfg, jpj, jbuilds, jfails>>

OperatorCrash ==
  /\ jsync.pc # "idle" /\ JFail /\ jsync' = JIdle
  /\ UNCHANGED <<jcfg, jpj, jbuilds, jtold>>

JSync ==
  \/ ListProwJobs \/ ListBuilds \/ terminateDupes \/ PartitionPending \/ PartitionTriggered
  \/ UpdateTriggered \/ ReportAll \/ \E j \in JJobs : syncPendingJob(j) \/ syncTriggeredJob(j)

JWork == \E i \in DOMAIN jbuilds : StartBuild(i) \/ \E r \in JResults : FinishBuild(i, r)

JNext == JSync \/ JWork \/ OperatorCrash

-----------------------------------------------------------------------------

\* A ProwJob is given up as "Error finding Jenkins job." only if Jenkins has no build for it,
\* wherever the build was while the queue and the builds were listed.
NoBuildLost ==
  \A j \in JJobs : jpj[j].desc = "not found" => BuildsOf(j) = {}

\* The verdict on j is one that a build of it had; without one that was aborted, it is only
\* aborted if another ProwJob supersedes it.
JVerdict(j) ==
  /\ jpj[j].state = "success" => \E i \in BuildsOf(j) : IsSuccess(jbuilds[i].st)
  /\ jpj[j].state = "failure" => \E i \in BuildsOf(j) : IsFailure(jbuilds[i].st)
  /\ jpj[j].state = "aborted" => \/ \E i \in BuildsOf(j) : IsAborted(jbuilds[i].st)
                                 \/ \E k \in JJobs \ {j} : /\ jcfg.key[k] = jcfg.key[j]
                                                           /\ jcfg.start[k] >= jcfg.start[j]

\* A verdict is one that a build of the ProwJob had; only superseded presubmits are aborted
\* without a build that was.
JVerdictOfBuild == \A j \in JJobs : JVerdict(j)

JSpec == JInit /\ [][JNext]_jenkinsVars

\* The inductive invariant behind NoBuildLost and JVerdictOfBuild. A ProwJob is pending only if it
\* has a build, so that the two listings, in their order, find a build for every pending ProwJob.
JBuild == [id : JJobs, st : {"queued", "running", "ABORTED"} \cup JResults]
JProwJob ==
  [state : {"triggered", "pending", "success", "failure", "aborted", "error"},
   desc : {"", "enqueued", "running", "succeeded", "failed", "aborted", "cannot start"}]

JTypeOK ==
  /\ jcfg \in JConfigs
  /\ jpj \in [JJobs -> JProwJob] /\ jbuilds \in Seq(JBuild)

JSyncOK ==
  /\ jsync = [pc |-> jsync.pc, pjs |-> jsync.pjs, jbs |-> jsync.jbs, idx |-> jsync.idx, dupes |-> jsync.dupes,
              todo |-> jsync.todo, pendingJobs |-> jsync.pendingJobs, cur |-> jsync.cur, next |-> jsync.next,
              reports |-> jsync.reports]
  /\ jsync.pjs \in [JJobs -> JProwJob]
  /\ jsync.idx \in Nat /\ DOMAIN jsync.jbs \subseteq JJobs

Unqueued(j) == \E i \in BuildsOf(j) : ~IsEnqueued(jbuilds[i].st)

\* The update that follows a started build.
NextOK ==
  jsync.cur # 0 => /\ jsync.cur \in JJobs /\ jsync.pc = "triggered"
                   /\ \/ jsync.next = JState("pending", "enqueued") /\ BuildsOf(jsync.cur) # {}
                      \/ jsync.next = JState("error", "cannot start")

PendingInv ==
  /\ \A j \in JJobs : jpj[j].state = "pending" \/ jsync.pjs[j].state = "pending" => BuildsOf(j) # {}
  /\ NextOK

FoundInv ==
  /\ \A j \in DOMAIN jsync.jbs :
       /\ BuildsOf(j) # {}
       /\ jsync.jbs[j] \in {"queued", "running"} \/ \E i \in BuildsOf(j) : jbuilds[i].st = jsync.jbs[j]
  /\ \A j \in JJobs : jsync.pjs[j].state = "pending" =>
       /\ jsync.pc = "builds" => j \in DOMAIN jsync.jbs \/ Unqueued(j)
       /\ jsync.pc \in {"dupes", "pending"} => j \in DOMAIN jsync.jbs
  /\ jsync.pc = "pending" => jsync.todo \subseteq InState("pending")

\* terminateDupes keeps for every key a ProwJob that it has passed.
NewestInv ==
  \A k \in DOMAIN jsync.dupes :
    jsync.dupes[k] \in JJobs /\ jsync.dupes[k] < jsync.idx /\ jcfg.key[jsync.dupes[k]] = k

JInv == JTypeOK /\ JSyncOK /\ PendingInv /\ FoundInv /\ NewestInv /\ JVerdictOfBuild

\* Every ProwJob is completed, unless Jenkins ends a build with a result unknown to the operator.
JJobsComplete ==
  (\A j \in JJobs : JComplete(jpj[j])) \/ (\E i \in DOMAIN jbuilds : jbuilds[i].st = "NOT_BUILT")
=============================================================================
