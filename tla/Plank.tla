-------------------------------- MODULE Plank --------------------------------
(***************************************************************************)
(* plank's controller (src/plank/controller.go): the Sync loop that starts *)
(* a pod for every triggered ProwJob, follows the pods of the pending ones *)
(* and aborts presubmits that a newer run supersedes                       *)
(* (src/pjutil/abort.go).                                                  *)
(*                                                                         *)
(* A Sync is many steps: it lists the ProwJobs, then the pods, and works   *)
(* on these snapshots while pods move on, requests fail and the process    *)
(* may crash. A goroutine's calls for one ProwJob are two steps: what it   *)
(* does up to the pod request, and the patch of the ProwJob.               *)
(***************************************************************************)
EXTENDS Cluster, Sequences

CONSTANTS
  BuildClients,        \* the aliases plank has a pod client for
  PlankMaxConcurrency, \* config Plank.MaxConcurrency, 0: no limit
  MaxGoroutines,       \* config Plank.MaxGoroutines
  AllowCancellations,  \* config Plank.AllowCancellations
  SkipReport,          \* plank's skip-report flag
  None

ASSUME PlankAssumption ==
  /\ BuildClients \subseteq Alias
  /\ PlankMaxConcurrency \in Nat
  /\ MaxGoroutines \in Nat \ {0}
  /\ AllowCancellations \in BOOLEAN
  /\ SkipReport \in BOOLEAN
  /\ None \notin PJ

VARIABLES
  pc,          \* where Sync is
  jobs,        \* k8sJobs: the listed ProwJobs, oldest first
  snap,        \* the contents of k8sJobs; it is also c.pjs
  pm,          \* the listed pods
  scan,        \* terminateDupes: index of the next ProwJob to look at
  dupes,       \* terminateDupes: the newest ProwJob seen for each identifier
  cancel,      \* terminateDupes: the ProwJob whose pod was just cleaned up
  pendingJobs, \* the ProwJobs that this Sync has counted as running; the map in the code
               \* holds their number for each job
  work,        \* per ProwJob: "queued" in a channel, "patch" to be sent, or "idle"
  dest,        \* per ProwJob: the object to patch it to
  report,      \* reportCh: the state to report for a ProwJob
  github       \* the state that GitHub shows for a ProwJob

plankVars == <<pc, jobs, snap, pm, scan, dupes, cancel, pendingJobs, work, dest, report, github>>
locals == <<jobs, snap, pm, scan, dupes, cancel>>
vars == <<clusterVars, plankVars>>

PlankTypeOK ==
  /\ pc \in {"idle", "listPods", "dupes", "pending", "triggered", "reports"}
  /\ jobs \in Seq(PJ)
  /\ snap \in [PJ -> ProwJob]
  /\ pm \in [PJ -> Pod]
  /\ scan \in Nat
  /\ dupes \subseteq PJ
  /\ cancel \in PJ \cup {None}
  /\ pendingJobs \subseteq PJ
  /\ work \in [PJ -> {"idle", "queued", "patch"}]
  /\ dest \in [PJ -> ProwJob]
  /\ report \in [PJ -> ProwJobState \cup {"none"}]
  /\ github \in [PJ -> ProwJobState \cup {"none"}]

PlankInit ==
  /\ pc = "idle" /\ jobs = <<>> /\ scan = 1 /\ dupes = {} /\ cancel = None
  /\ snap = [p \in PJ |-> NoProwJob]
  /\ pm = [p \in PJ |-> NoPod]
  /\ pendingJobs = {}
  /\ work = [p \in PJ |-> "idle"]
  /\ dest = [p \in PJ |-> NoProwJob]
  /\ report = [p \in PJ |-> "none"]
  /\ github = [p \in PJ |-> "none"]

\* The variables of a Sync go out of scope.
EndSync ==
  /\ pc' = "idle" /\ jobs' = <<>> /\ scan' = 1 /\ dupes' = {} /\ cancel' = None
  /\ snap' = [p \in PJ |-> NoProwJob]
  /\ pm' = [p \in PJ |-> NoPod]
  /\ pendingJobs' = {}
  /\ work' = [p \in PJ |-> "idle"]
  /\ dest' = [p \in PJ |-> NoProwJob]
  /\ report' = [p \in PJ |-> "none"]

-----------------------------------------------------------------------------
(* Sync: listing.                                                          *)

\* The lists of the ProwJobs S that sort.Slice may leave: oldest first, ties anyhow.
SortedByCreation(S) ==
  UNION {{s \in [1..n -> S] : /\ S = {s[i] : i \in 1..n}
                              /\ \A i, j \in 1..n : s[i] = s[j] => i = j
                              /\ \A i, j \in 1..n : i < j => Created[s[i]] <= Created[s[j]]} :
         n \in 0..Cardinality(S)}

\* An error here ends Sync before it has done anything.
ListProwJobs ==
  /\ pc = "idle"
  /\ jobs' \in SortedByCreation({p \in PJ : Exists(p)})
  /\ snap' = pj
  /\ pc' = "listPods"
  /\ UNCHANGED <<clusterVars, pm, scan, dupes, cancel, pendingJobs, work, dest, report, github>>

\* A cluster whose pods cannot be listed is left out of pm; Sync goes on without it.
ListPods ==
  /\ pc = "listPods"
  /\ \E failed \in SUBSET BuildClients :
       /\ Fault(Cardinality(failed))
       /\ pm' = [p \in PJ |-> IF SpecOf[p].cluster \in BuildClients \ failed THEN pod[p] ELSE NoPod]
  /\ pc' = "dupes"
  /\ UNCHANGED <<pj, pod, builds, jobs, snap, scan, dupes, cancel, pendingJobs, work, dest, report, github>>

-----------------------------------------------------------------------------
(* terminateDupes and TerminateOlderJobs.                                  *)

Ident(p) == <<SpecOf[p].type, SpecOf[p].job, SpecOf[p].refs>>

\* Mutant: complete ProwJobs are not skipped.
CancellableEvenComplete(p) == SpecOf[p].type \in {"presubmit", "batch"}

Cancellable(p) == ~snap[p].complete /\ SpecOf[p].type \in {"presubmit", "batch"}

\* The ProwJobs met earlier that p has to be compared with; there is at most one.
Rivals(p) == {q \in dupes : Ident(q) = Ident(p)}

\* Mutant: the comparison is the wrong way round.
VictimSwapped(q, p) == IF Started[q] < Started[p] THEN p ELSE q

\* Of the older and the newer run of a presubmit the one to abort: p, unless it started later.
Victim(q, p) == IF Started[q] < Started[p] THEN q ELSE p

DupePass ==
  /\ pc = "dupes" /\ cancel = None /\ scan <= Len(jobs)
  /\ LET p == jobs[scan] IN
       \/ ~Cancellable(p) /\ UNCHANGED dupes
       \/ Cancellable(p) /\ Rivals(p) = {} /\ dupes' = dupes \cup {p}
  /\ scan' = scan + 1
  /\ UNCHANGED <<clusterVars, pc, jobs, snap, pm, cancel, pendingJobs, work, dest, report, github>>

\* The cleanup callback; its error is only logged.
DupeCleanup ==
  /\ pc = "dupes" /\ cancel = None /\ scan <= Len(jobs)
  /\ LET p == jobs[scan] IN
       /\ Cancellable(p)
       /\ \E q \in Rivals(p) :
            /\ cancel' = Victim(q, p)
            /\ dupes' = (dupes \cup {p}) \ {Victim(q, p)}
            /\ IF AllowCancellations /\ pm[Victim(q, p)].phase # "none"
               THEN DeleteOK(Victim(q, p)) \/ DeleteFails(Victim(q, p))
               ELSE UNCHANGED <<pod, faults>>
  /\ UNCHANGED <<pj, builds, pc, jobs, snap, pm, scan, pendingJobs, work, dest, report, github>>

Aborted(p) == [snap[p] EXCEPT !.complete = TRUE, !.state = "aborted", !.prev = "aborted"]

\* Mutant: the list keeps the ProwJob as it was before the patch.
DupePatchStale ==
  /\ pc = "dupes" /\ cancel # None
  /\ PatchOK(cancel, snap[cancel], Aborted(cancel))
  /\ cancel' = None
  /\ scan' = scan + 1
  /\ UNCHANGED <<pod, builds, pc, jobs, snap, pm, dupes, pendingJobs, work, dest, report, github>>

DupePatch ==
  /\ pc = "dupes" /\ cancel # None
  /\ PatchOK(cancel, snap[cancel], Aborted(cancel))
  /\ snap' = [snap EXCEPT ![cancel] = pj'[cancel]]
  /\ cancel' = None
  /\ scan' = scan + 1
  /\ UNCHANGED <<pod, builds, pc, jobs, pm, dupes, pendingJobs, work, dest, report, github>>

\* PartitionActive fills both channels from the same list; pendingJobs starts from nothing.
StartPending ==
  /\ pc' = "pending"
  /\ work' = [p \in PJ |-> IF snap[p].state = "pending" THEN "queued" ELSE "idle"]
  /\ cancel' = None /\ scan' = 1 /\ dupes' = {}
  /\ UNCHANGED <<pod, builds, jobs, snap, pm, pendingJobs, dest, report, github>>

\* A failed patch ends terminateDupes early, the ProwJobs it has not reached stay as they are.
DupePatchFails ==
  /\ pc = "dupes" /\ cancel # None
  /\ PatchFails(cancel, snap[cancel], Aborted(cancel))
  /\ StartPending

DupesDone ==
  /\ pc = "dupes" /\ cancel = None /\ scan > Len(jobs)
  /\ UNCHANGED <<pj, faults>>
  /\ StartPending

-----------------------------------------------------------------------------
(* syncProwJobs: MaxGoroutines goroutines take ProwJobs from a channel.    *)

Position(p) == CHOOSE i \in DOMAIN jobs : jobs[i] = p

\* p has been taken from the channel, or is the next one and a goroutine is free.
Turn(p) ==
  /\ work[p] = "queued"
  /\ Cardinality({q \in PJ : work[q] # "idle" /\ Position(q) < Position(p)}) < MaxGoroutines

\* The goroutine is done with p.
Done(p) ==
  /\ work' = [work EXCEPT ![p] = "idle"]
  /\ UNCHANGED <<dest, report>>

\* Mutant: the report is sent before the state is set.
ReportEarly(p, d) ==
  /\ work' = [work EXCEPT ![p] = "patch"]
  /\ dest' = [dest EXCEPT ![p] = d]
  /\ report' = [report EXCEPT ![p] = snap[p].state]

\* The goroutine sends d to the reporter and goes on to patch p to d.
ReportAndPatch(p, d) ==
  /\ work' = [work EXCEPT ![p] = "patch"]
  /\ dest' = [dest EXCEPT ![p] = d]
  /\ report' = [report EXCEPT ![p] = d.state]

\* incrementNumPendingJobs, and the same in canExecuteConcurrently. A Sync comes to p once.
Count(p) == pendingJobs' = pendingJobs \cup {p}

\* startPod, by its outcome. An unknown cluster alias, an existing pod of that name and
\* a failure of tot or of the API server are errors other than Invalid.
StartPodOK(p) ==
  /\ SpecOf[p].cluster \in BuildClients /\ SpecOf[p].valid
  /\ CreatePod(p)
  /\ NoFault

StartPodInvalid(p) ==
  /\ SpecOf[p].cluster \in BuildClients /\ ~SpecOf[p].valid
  /\ UNCHANGED <<pod, builds, faults>>

StartPodFails(p) ==
  \/ SpecOf[p].cluster \notin BuildClients /\ UNCHANGED <<pod, builds, faults>>
  \/ pod[p].phase # "none" /\ SpecOf[p].valid /\ UNCHANGED <<pod, builds, faults>>
  \/ builds[p] = MaxBuilds /\ UNCHANGED <<pod, builds, faults>>
  \/ Fault(1) /\ UNCHANGED <<pod, builds>>
  \/ /\ LostReplies /\ SpecOf[p].cluster \in BuildClients /\ SpecOf[p].valid
     /\ CreatePod(p)
     /\ Fault(1)

Finished(p, st) == [snap[p] EXCEPT !.complete = TRUE, !.state = st]

-----------------------------------------------------------------------------
(* syncPendingJob.                                                         *)

\* The pod is missing: start a new one, or give up on a pod that is not accepted.
PendingRestart(p) ==
  /\ pc = "pending" /\ Turn(p) /\ pm[p].phase = "none"
  /\ Count(p)
  /\ \/ StartPodOK(p) /\ ReportAndPatch(p, [snap[p] EXCEPT !.buildID = builds'[p]])
     \/ StartPodInvalid(p) /\ ReportAndPatch(p, Finished(p, "error"))
     \/ StartPodFails(p) /\ Done(p)
  /\ UNCHANGED <<pj, pc, locals, github>>

\* Mutant: the pod is left in place.
PendingReplaceNoDelete(p) ==
  /\ pc = "pending" /\ Turn(p)
  /\ \/ pm[p].phase = "Unknown"
     \/ pm[p].phase = "Evicted" /\ ~SpecOf[p].errorOnEviction
  /\ Count(p)
  /\ Done(p)
  /\ UNCHANGED <<clusterVars, pc, locals, github>>

\* The node is lost or the pod was evicted: delete the pod, the next Sync starts another.
PendingReplace(p) ==
  /\ pc = "pending" /\ Turn(p)
  /\ \/ pm[p].phase = "Unknown"
     \/ pm[p].phase = "Evicted" /\ ~SpecOf[p].errorOnEviction
  /\ Count(p)
  /\ DeleteOK(p) \/ DeleteFails(p)
  /\ Done(p)
  /\ UNCHANGED <<pj, builds, pc, locals, github>>

\* The state that a pod which will not run any more gives its ProwJob.
Outcome(phase) ==
  CASE phase = "Succeeded" -> "success"
    [] phase = "Failed"    -> "failure"
    [] phase = "Evicted"   -> "error"

PendingFinish(p) ==
  /\ pc = "pending" /\ Turn(p)
  /\ \/ pm[p].phase \in {"Succeeded", "Failed"}
     \/ pm[p].phase = "Evicted" /\ SpecOf[p].errorOnEviction
  /\ ReportAndPatch(p, Finished(p, Outcome(pm[p].phase)))
  /\ UNCHANGED <<clusterVars, pc, locals, pendingJobs, github>>

\* The pod has been pending or running for too long: delete it and complete the ProwJob,
\* but not if the deletion fails.
PendingTimeout(p) ==
  /\ pc = "pending" /\ Turn(p)
  /\ pm[p].phase \in {"Pending", "Running"} /\ pm[p].stuck
  /\ \/ /\ DeleteOK(p)
        /\ ReportAndPatch(p, Finished(p, IF pm[p].phase = "Pending" THEN "error" ELSE "aborted"))
     \/ DeleteFails(p) /\ Done(p)
  /\ UNCHANGED <<pj, builds, pc, locals, pendingJobs, github>>

\* Mutant: the running instance is not counted.
PendingWaitUncounted(p) ==
  /\ pc = "pending" /\ Turn(p)
  /\ pm[p].phase \in {"Pending", "Running"} /\ ~pm[p].stuck
  /\ Done(p)
  /\ UNCHANGED <<clusterVars, pc, locals, pendingJobs, github>>

PendingWait(p) ==
  /\ pc = "pending" /\ Turn(p)
  /\ pm[p].phase \in {"Pending", "Running"} /\ ~pm[p].stuck
  /\ Count(p)
  /\ Done(p)
  /\ UNCHANGED <<clusterVars, pc, locals, github>>

-----------------------------------------------------------------------------
(* syncTriggeredJob.                                                       *)

OlderMatching(p) ==
  {q \in PJ : /\ snap[q].state = "triggered"
              /\ SpecOf[q].job = SpecOf[p].job
              /\ Created[q] < Created[p]}

\* How many instances of job j, and of all jobs, have been counted.
NumPending(j) == Cardinality({p \in pendingJobs : SpecOf[p].job = j})
NumRunning == Cardinality(pendingJobs)

\* Mutant: off by one.
CanExecuteOneMore(p) ==
  LET max == SpecOf[p].maxConcurrency
      numPending == NumPending(SpecOf[p].job)
  IN /\ PlankMaxConcurrency > 0 => NumRunning < PlankMaxConcurrency
     /\ max # 0 => numPending + Cardinality(OlderMatching(p)) <= max

CanExecuteConcurrently(p) ==
  LET max == SpecOf[p].maxConcurrency
      numPending == NumPending(SpecOf[p].job)
  IN /\ PlankMaxConcurrency > 0 => NumRunning < PlankMaxConcurrency
     /\ max # 0 => numPending + Cardinality(OlderMatching(p)) < max

\* The ProwJob once its pod runs with build id b.
Pending(p, b) == [snap[p] EXCEPT !.state = "pending", !.buildID = b]

TriggeredRefused(p) ==
  /\ pc = "triggered" /\ Turn(p) /\ pm[p].phase = "none"
  /\ ~CanExecuteConcurrently(p)
  /\ Done(p)
  /\ UNCHANGED <<clusterVars, pc, locals, pendingJobs, github>>

TriggeredStart(p) ==
  /\ pc = "triggered" /\ Turn(p) /\ pm[p].phase = "none"
  /\ CanExecuteConcurrently(p)
  /\ Count(p)
  /\ \/ StartPodOK(p) /\ ReportAndPatch(p, Pending(p, builds'[p]))
     \/ StartPodInvalid(p) /\ ReportAndPatch(p, Finished(p, "error"))
     \/ StartPodFails(p) /\ Done(p)
  /\ UNCHANGED <<pj, pc, locals, github>>

\* An earlier Sync created the pod but did not get to update the ProwJob.
TriggeredAdopt(p) ==
  /\ pc = "triggered" /\ Turn(p) /\ pm[p].phase # "none"
  /\ ReportAndPatch(p, Pending(p, pm[p].build))
  /\ UNCHANGED <<clusterVars, pc, locals, pendingJobs, github>>

\* The end of both: the patch of the ProwJob. Its error is only collected.
Patch(p) ==
  /\ work[p] = "patch"
  /\ PatchOK(p, snap[p], dest[p]) \/ PatchFails(p, snap[p], dest[p])
  /\ work' = [work EXCEPT ![p] = "idle"]
  /\ dest' = [dest EXCEPT ![p] = NoProwJob]
  /\ UNCHANGED <<pod, builds, pc, locals, pendingJobs, report, github>>

-----------------------------------------------------------------------------
(* Sync: the end of a channel, the reports, and crashes.                   *)

AllIdle == \A p \in PJ : work[p] = "idle"

\* Mutant: everything that is not pending counts as triggered.
StartTriggeredUnfiltered ==
  /\ pc = "pending" /\ AllIdle
  /\ pc' = "triggered"
  /\ work' = [p \in PJ |-> IF snap[p].state \in {"triggered"} \cup Terminal THEN "queued" ELSE "idle"]
  /\ UNCHANGED <<clusterVars, locals, pendingJobs, dest, report, github>>

StartTriggered ==
  /\ pc = "pending" /\ AllIdle
  /\ pc' = "triggered"
  /\ work' = [p \in PJ |-> IF snap[p].state = "triggered" THEN "queued" ELSE "idle"]
  /\ UNCHANGED <<clusterVars, locals, pendingJobs, dest, report, github>>

StartReports ==
  /\ pc = "triggered" /\ AllIdle
  /\ pc' = "reports"
  /\ report' = IF SkipReport THEN [p \in PJ |-> "none"] ELSE report
  /\ UNCHANGED <<clusterVars, locals, pendingJobs, work, dest, github>>

\* The report may fail, and setPreviousReportState marks whatever state the ProwJob has
\* by now as reported either way; a failure of that is only logged.
Report(p) ==
  /\ pc = "reports" /\ report[p] # "none"
  /\ \E lost \in SUBSET {"report", "update"} :
       /\ Fault(Cardinality(lost))
       /\ github' = IF "report" \in lost THEN github ELSE [github EXCEPT ![p] = report[p]]
       /\ pj' = IF "update" \in lost \/ ~Exists(p) THEN pj
                ELSE [pj EXCEPT ![p].prev = pj[p].state]
  /\ report' = [report EXCEPT ![p] = "none"]
  /\ UNCHANGED <<pod, builds, pc, locals, pendingJobs, work, dest>>

SyncDone ==
  /\ pc = "reports" /\ \A p \in PJ : report[p] = "none"
  /\ EndSync
  /\ UNCHANGED <<clusterVars, github>>

\* plank dies in the middle of a Sync and is restarted.
Crash ==
  /\ pc # "idle"
  /\ Fault(1)
  /\ EndSync
  /\ UNCHANGED <<pj, pod, builds, github>>

SyncJob(p) ==
  \/ PendingRestart(p) \/ PendingReplace(p) \/ PendingFinish(p) \/ PendingTimeout(p) \/ PendingWait(p)
  \/ TriggeredRefused(p) \/ TriggeredStart(p) \/ TriggeredAdopt(p) \/ Patch(p)

Sync ==
  \/ ListProwJobs \/ ListPods
  \/ DupePass \/ DupeCleanup \/ DupePatch \/ DupePatchFails \/ DupesDone
  \/ \E p \in PJ : SyncJob(p) \/ Report(p)
  \/ StartTriggered \/ StartReports \/ SyncDone

PlankNext == (Sync \/ Crash) /\ UNCHANGED disrupted

Init == ClusterInit /\ PlankInit
Next == PlankNext \/ (ClusterNext /\ UNCHANGED plankVars)
Spec == Init /\ [][Next]_vars

\* The Sync loop never stops for good and time passes: a pod that stays in a phase for long
\* enough is too old for plank. Pods need not make progress.
FairSpec ==
  /\ Spec
  /\ WF_vars(Sync /\ UNCHANGED disrupted)
  /\ \A p \in PJ : WF_vars(PodStuck(p) /\ UNCHANGED plankVars)

TypeOK == ClusterTypeOK /\ PlankTypeOK

-----------------------------------------------------------------------------
(* Properties.                                                             *)

\* A ProwJob has a completion time exactly when its state is final. State and completion
\* time are set by different assignments in syncPendingJob, syncTriggeredJob and
\* TerminateOlderJobs, and reach the API server through merge patches made from snapshots.
CompleteIffTerminal ==
  \A p \in PJ : Exists(p) => (pj[p].complete <=> pj[p].state \in Terminal)

\* Once a ProwJob is complete no later Sync, goroutine or patch changes its state or makes
\* it incomplete again.
CompletionIsFinal ==
  [][\A p \in PJ : Exists(p) /\ pj[p].complete =>
       pj'[p].state = pj[p].state /\ pj'[p].complete]_vars

\* startPod never creates a pod for a ProwJob that is complete: the snapshot it is called
\* with may be old, but not in that respect.
NoPodForComplete ==
  [][\A p \in PJ : builds'[p] # builds[p] => ~pj[p].complete]_vars

\* The instances of job j that run: incomplete ProwJobs with a live pod.
Running(j) ==
  {p \in PJ : SpecOf[p].job = j /\ Exists(p) /\ ~pj[p].complete /\ pod[p].phase \in {"Pending", "Running"}}

\* canExecuteConcurrently keeps the number of running instances of a job within the limit
\* of each of them (Spec.MaxConcurrency).
MaxConcurrencyRespected ==
  \A p \in PJ : SpecOf[p].maxConcurrency # 0 /\ p \in Running(SpecOf[p].job) =>
                  Cardinality(Running(SpecOf[p].job)) <= SpecOf[p].maxConcurrency

\* canExecuteConcurrently keeps the number of all running tests within Plank.MaxConcurrency,
\* provided no request has failed: syncTriggeredJob does not count a pod that it adopts. Nor
\* does syncPendingJob count a job whose timed-out pod is gone when it deletes it, so that the
\* limit also needs timeouts and disruptions not to meet in one pod.
PlankMaxConcurrencyRespected ==
  PlankMaxConcurrency > 0 /\ faults = 0 => Cardinality(UNION {Running(j) : j \in Job}) <= PlankMaxConcurrency

\* A ProwJob that TerminateOlderJobs aborts is superseded: when it is aborted there is an
\* incomplete run with the same identifier that did not start earlier.
OnlySupersededAborted ==
  [][\A p \in PJ : pc = "dupes" /\ ~pj[p].complete /\ pj'[p].complete =>
       \E q \in PJ \ {p} : Ident(q) = Ident(p) /\ Exists(q) /\ ~pj'[q].complete /\ Started[q] >= Started[p]]_vars

\* PartitionActive hands no ProwJob that is complete to a goroutine.
CompleteFilteredOut ==
  \A p \in PJ : work[p] = "queued" => ~snap[p].complete

\* Between two Syncs GitHub shows the state of every ProwJob that has left triggered (those
\* that TerminateOlderJobs aborts aside), and the ProwJob is marked as reported in that
\* state; provided no request has failed.
ReportsCurrent ==
  pc = "idle" /\ faults = 0 /\ ~SkipReport =>
    \A p \in PJ : Exists(p) /\ pj[p].state \notin {"triggered", "aborted"} =>
                    github[p] = pj[p].state /\ pj[p].prev = pj[p].state

\* Every ProwJob completes in the end, even if its pod hangs, is lost or was started by a
\* Sync that crashed: a goroutine restarts, adopts or times it out.
EventuallyComplete ==
  \A p \in PJ : Exists(p) ~> pj[p].complete

\* plank implements the lifecycle of a ProwJob.
L == INSTANCE ProwJobLifecycle WITH state <- [p \in PJ |-> pj[p].state], runs <- builds

LifecycleSpec == L!Spec

-----------------------------------------------------------------------------
(* The inductive invariant behind the theorems of PlankProofs.             *)

\* plank knows the state and the completion of p.
Agree(p) == snap[p].state = pj[p].state /\ snap[p].complete = pj[p].complete

Listed(p) == snap[p].state \in ProwJobState

Consistent(o) == o.complete <=> o.state \in Terminal

\* The states a goroutine may leave a ProwJob in.
Progressed == {"pending"} \cup Terminal

\* The ProwJob that outlives the one being aborted.
Survives(q, p) == q # p /\ Ident(q) = Ident(p) /\ Started[q] >= Started[p]

ObjectsInv == \A p \in PJ : Consistent(pj[p]) /\ Consistent(snap[p])

ListInv ==
  /\ \A i \in DOMAIN jobs : Listed(jobs[i])
  /\ \A i, j \in DOMAIN jobs : jobs[i] = jobs[j] => i = j
  /\ pc \in {"listPods", "dupes"} => \A p \in PJ : Listed(p) /\ ~snap[p].complete => Agree(p)

DupesInv ==
  /\ pc # "dupes" => dupes = {} /\ cancel = None
  /\ \A q \in dupes : Listed(q) /\ ~snap[q].complete
  /\ scan \in Nat \ {0}
  /\ \A i \in DOMAIN jobs : i > scan \/ (i = scan /\ cancel = None) => jobs[i] \notin dupes
  /\ cancel # None => cancel \notin dupes /\ Listed(cancel) /\ ~snap[cancel].complete /\ \E q \in dupes : Survives(q, cancel)

WorkInv ==
  /\ pc = "pending" =>
       \A p \in PJ : /\ work[p] # "idle" => snap[p].state = "pending" /\ Agree(p)
                     /\ snap[p].state = "triggered" => Agree(p)
  /\ pc = "triggered" => \A p \in PJ : work[p] # "idle" => snap[p].state = "triggered" /\ Agree(p)
  /\ pc \notin {"pending", "triggered"} => \A p \in PJ : work[p] = "idle"
  /\ \A p \in PJ : work[p] = "patch" => Consistent(dest[p]) /\ dest[p].state \in Progressed

IInv == TypeOK /\ ObjectsInv /\ ListInv /\ DupesInv /\ WorkInv
-----------------------------------------------------------------------------
(* Invariants of the behaviours in which no request has failed and plank   *)
(* has not crashed; the limits and the reports of PlankLimitsProofs.       *)

\* p has a pod, and its goroutine is about to say so in the ProwJob.
Starting(p) == pc = "triggered" /\ work[p] = "patch" /\ dest[p].state = "pending"

\* plank may still come to delete the pod of p because it has timed out.
Awaited(p) ==
  \/ pc = "dupes" /\ Listed(p) /\ ~snap[p].complete /\ p # cancel
  \/ pc = "pending" /\ work[p] = "queued"

\* No triggered ProwJob has a pod that this Sync did not create, and no pod that has timed
\* out is gone by the time plank deletes it.
PodsKnown ==
  /\ \A p \in PJ : pj[p].state \in {"uncreated", "triggered"} /\ pod[p].phase # "none" => Starting(p)
  /\ pc \in {"dupes", "pending", "triggered"} =>
       \A p \in PJ : snap[p].state = "triggered" => pm[p].phase = "none"
  /\ ~PodsStick => \A p \in PJ : ~pod[p].stuck /\ ~pm[p].stuck
  /\ MaxDisruptions = 0 =>
       \A p \in PJ : Awaited(p) /\ pm[p].phase # "none" => pod[p].phase # "none"

\* Every pending ProwJob is counted, or about to be counted or completed.
Counted ==
  /\ pc \in {"idle", "listPods", "dupes"} => pendingJobs = {}
  /\ pc \in {"listPods", "dupes", "pending"} =>
       \A p \in PJ : pj[p].state = "pending" => snap[p].state = "pending"
  /\ pc = "pending" =>
       \A p \in PJ : /\ p \in pendingJobs => snap[p].state = "pending"
                     /\ pj[p].state = "pending" =>
                          p \in pendingJobs \/ work[p] = "queued" \/ (work[p] = "patch" /\ dest[p].state \in Terminal)
  /\ pc = "triggered" =>
       \A p \in PJ : pj[p].state = "pending" \/ Starting(p) => p \in pendingJobs

CountInv == faults = 0 => PodsKnown /\ Counted

\* The ProwJobs that take up room under the limits.
Load ==
  CASE pc = "pending"   -> {p \in PJ : snap[p].state = "pending"}
    [] pc = "triggered" -> pendingJobs
    [] OTHER            -> {p \in PJ : pj[p].state = "pending"}

LoadOf(j) == {p \in Load : SpecOf[p].job = j}

\* GitHub shows the state of p, and p says so.
Shown(p) ==
  Exists(p) /\ pj[p].state \notin {"triggered", "aborted"} =>
    github[p] = pj[p].state /\ pj[p].prev = pj[p].state

\* What is still to be reported is the state that the ProwJob has, or will have when the
\* goroutine has patched it.
ReportsInv ==
  faults = 0 /\ ~SkipReport =>
    \A p \in PJ :
      /\ report[p] = "none" => Shown(p)
      /\ report[p] # "none" => pc \in {"pending", "triggered", "reports"}
      /\ work[p] = "patch" => report[p] = dest[p].state
      /\ work[p] # "patch" /\ report[p] # "none" => report[p] = pj[p].state
=============================================================================
