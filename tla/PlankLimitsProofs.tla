-------------------------- MODULE PlankLimitsProofs --------------------------
(***************************************************************************)
(* What plank guarantees while no request fails and it does not crash, for *)
(* any set of ProwJobs, jobs and limits: the limits on concurrency, and    *)
(* that GitHub shows the state of every ProwJob between two Syncs.         *)
(*                                                                         *)
(* The limits also need that no pod is disrupted after it has timed out:   *)
(* either pods do not outlive plank's timeouts or they are not disrupted.  *)
(***************************************************************************)
EXTENDS PlankProofs, FiniteSetTheorems

\* Failures are counted and never taken back.
LEMMA FaultsGrow ==
  ASSUME IInv, [Next]_vars
  PROVE  faults \in Nat /\ faults' \in Nat /\ faults <= faults'
  <1>0. faults \in Nat /\ MaxFaults \in Nat
    BY ClusterAssumption DEF IInv, TypeOK, ClusterTypeOK
  <1>1. \A n \in Nat : Fault(n) => faults' \in Nat /\ faults <= faults'
    BY <1>0 DEF Fault
  <1>2. Fault(1) \/ UNCHANGED faults => faults' \in Nat /\ faults <= faults'
    BY <1>0, <1>1
  <1>3. CASE ListPods
    <2>1. PICK failed \in SUBSET BuildClients : Fault(Cardinality(failed))
      BY <1>3 DEF ListPods
    <2>2. IsFiniteSet(failed)
      BY <2>1, FS_Subset, ClusterAssumption, PlankAssumption
    <2> QED BY <1>0, <1>1, <2>1, <2>2, FS_CardinalityType
  <1>4. ASSUME NEW p \in PJ, Report(p) PROVE faults' \in Nat /\ faults <= faults'
    <2>1. PICK lost \in SUBSET {"report", "update"} : Fault(Cardinality(lost))
      BY <1>4 DEF Report
    <2>2. IsFiniteSet({"report", "update"})
      <3>1. IsFiniteSet({"report"})
        BY FS_Singleton
      <3>2. {"report", "update"} = {"report"} \cup {"update"}
        OBVIOUS
      <3> QED BY <3>1, <3>2, FS_AddElement
    <2>3. IsFiniteSet(lost)
      BY <2>1, <2>2, FS_Subset
    <2> QED BY <1>0, <1>1, <2>1, <2>3, FS_CardinalityType
  <1>5. ClusterNext \/ UNCHANGED vars => UNCHANGED faults
    BY DEF ClusterNext, CreateProwJob, PodProgress, PodStuck, PodDisrupted, vars, clusterVars
  <1>6. ListProwJobs \/ DupePass \/ DupeCleanup \/ DupePatch \/ DupePatchFails \/ DupesDone =>
          Fault(1) \/ UNCHANGED faults
    BY DEF ListProwJobs, DupePass, DupeCleanup, DupePatch, DupePatchFails, DupesDone, clusterVars,
                      DeleteOK, DeleteFails, PatchOK, PatchFails, NoFault
  <1>7. ASSUME NEW p \in PJ, SyncJob(p) PROVE Fault(1) \/ UNCHANGED faults
    <2>1. CASE PendingRestart(p) \/ TriggeredStart(p)
      BY <2>1 DEF PendingRestart, TriggeredStart, StartPodOK, StartPodInvalid, StartPodFails, NoFault
    <2>2. CASE PendingReplace(p) \/ PendingTimeout(p)
      BY <2>2 DEF PendingReplace, PendingTimeout, DeleteOK, DeleteFails, NoFault
    <2>3. CASE PendingFinish(p) \/ PendingWait(p) \/ TriggeredRefused(p) \/ TriggeredAdopt(p)
      BY <2>3 DEF PendingFinish, PendingWait, TriggeredRefused, TriggeredAdopt, clusterVars
    <2>4. CASE Patch(p)
      BY <2>4 DEF Patch, PatchOK, PatchFails, NoFault
    <2> QED BY <1>7, <2>1, <2>2, <2>3, <2>4 DEF SyncJob
  <1>8. StartTriggered \/ StartReports \/ SyncDone \/ Crash => Fault(1) \/ UNCHANGED faults
    BY DEF StartTriggered, StartReports, SyncDone, Crash, clusterVars
  <1> QED BY <1>0, <1>2, <1>3, <1>4, <1>5, <1>6, <1>7, <1>8 DEF Next, PlankNext, Sync

\* Nothing goes wrong in a step.
Smooth == IInv /\ faults = 0 /\ faults' = 0

\* A patch that a goroutine sends is applied.
LEMMA PatchApplied ==
  ASSUME Smooth, NEW p \in PJ, Patch(p)
  PROVE  /\ pj' = [pj EXCEPT ![p] = MergePatch(pj[p], snap[p], dest[p])]
         /\ pj'[p].state = dest[p].state /\ \A q \in PJ : q # p => pj'[q] = pj[q]
         /\ snap[p].state \in {"pending", "triggered"} /\ Agree(p) /\ dest[p].state \in Progressed
  <1>1. /\ snap[p].state \in {"pending", "triggered"} /\ Agree(p) /\ dest[p].state \in Progressed
        /\ MergePatch(pj[p], snap[p], dest[p]).state = dest[p].state
    BY PatchedObject DEF Smooth, Patch
  <1>2. Exists(p)
    BY <1>1 DEF Agree, Exists, ProwJobState
  <1>3. pj' = [pj EXCEPT ![p] = MergePatch(pj[p], snap[p], dest[p])]
    BY <1>2 DEF Smooth, Patch, PatchOK, PatchFails, Fault
  <1>4. pj \in [PJ -> ProwJob]
    BY DEF Smooth, IInv, TypeOK, ClusterTypeOK
  <1> QED BY <1>1, <1>3, <1>4

\* terminateDupes' patch is applied, too.
LEMMA AbortApplied ==
  ASSUME Smooth, DupePatch \/ DupePatchFails
  PROVE  /\ DupePatch /\ cancel \in PJ
         /\ pj'[cancel].state = "aborted" /\ snap'[cancel].state = "aborted" /\ snap'[cancel].complete
         /\ \A q \in PJ : q # cancel => pj'[q] = pj[q] /\ snap'[q] = snap[q]
  <1> USE DEF Smooth
  <1>1. cancel \in PJ /\ Listed(cancel) /\ Agree(cancel)
    BY DEF DupePatch, DupePatchFails, IInv, TypeOK, PlankTypeOK, ListInv, DupesInv
  <1>2. Exists(cancel)
    BY <1>1 DEF Listed, Agree, Exists
  <1>3. DupePatch
    BY <1>2 DEF DupePatchFails, PatchFails, Fault
  <1>4. pj \in [PJ -> ProwJob] /\ snap \in [PJ -> ProwJob]
    BY DEF IInv, TypeOK, ClusterTypeOK, PlankTypeOK
  <1>5. pj' = [pj EXCEPT ![cancel] = MergePatch(pj[cancel], snap[cancel], Aborted(cancel))]
    BY <1>3 DEF DupePatch, PatchOK
  <1>6. Aborted(cancel) \in ProwJob /\ Aborted(cancel).state = "aborted" /\ Aborted(cancel).complete
    BY <1>1, Destinations DEF IInv
  <1>7. /\ MergePatch(pj[cancel], snap[cancel], Aborted(cancel)).state = Aborted(cancel).state
        /\ MergePatch(pj[cancel], snap[cancel], Aborted(cancel)).complete = Aborted(cancel).complete
    BY Zenon, <1>1, <1>4, <1>6, MergeEffect DEF Agree
  <1>8. pj'[cancel].state = "aborted" /\ pj'[cancel].complete /\ \A q \in PJ : q # cancel => pj'[q] = pj[q]
    BY Zenon, <1>1, <1>4, <1>5, <1>6, <1>7
  <1>9. snap' = [snap EXCEPT ![cancel] = pj'[cancel]]
    BY <1>3 DEF DupePatch
  <1> QED BY Zenon, <1>1, <1>3, <1>4, <1>8, <1>9

\* A report reaches GitHub, and the ProwJob is marked.
LEMMA ReportApplied ==
  ASSUME Smooth, NEW p \in PJ, Report(p)
  PROVE  /\ github' = [github EXCEPT ![p] = report[p]]
         /\ pj' = IF Exists(p) THEN [pj EXCEPT ![p].prev = pj[p].state] ELSE pj
  <1>1. PICK lost \in SUBSET {"report", "update"} :
          /\ Fault(Cardinality(lost))
          /\ github' = IF "report" \in lost THEN github ELSE [github EXCEPT ![p] = report[p]]
          /\ pj' = IF "update" \in lost \/ ~Exists(p) THEN pj ELSE [pj EXCEPT ![p].prev = pj[p].state]
    BY DEF Report
  <1>2. IsFiniteSet({"report", "update"})
    <2>1. IsFiniteSet({"report"})
      BY FS_Singleton
    <2>2. {"report", "update"} = {"report"} \cup {"update"}
      OBVIOUS
    <2> QED BY <2>1, <2>2, FS_AddElement
  <1>3. IsFiniteSet(lost)
    BY <1>1, <1>2, FS_Subset
  <1>4. Cardinality(lost) = 0
    BY <1>1, <1>3, FS_CardinalityType DEF Smooth, Fault
  <1>5. lost = {}
    BY <1>3, <1>4, FS_EmptySet
  <1> QED BY <1>1, <1>5

-----------------------------------------------------------------------------
(* Reports.                                                                *)

LEMMA GoroutineReports ==
  ASSUME Smooth, ReportsInv, ~SkipReport, NEW p \in PJ, work[p] = "queued",
         UNCHANGED <<pj, pc, github>>,
         Done(p) \/ \E d \in ProwJob : d.state \in Progressed /\ ReportAndPatch(p, d)
  PROVE  ReportsInv'
  <1>1. pc \in {"pending", "triggered"}
    BY DEF Smooth, IInv, WorkInv
  <1>2. /\ work \in [PJ -> {"idle", "queued", "patch"}] /\ dest \in [PJ -> ProwJob]
        /\ report \in [PJ -> ProwJobState \cup {"none"}]
    BY DEF Smooth, IInv, TypeOK, PlankTypeOK
  <1>3. CASE Done(p)
    BY <1>2, <1>3 DEF Done, ReportsInv, Shown, Exists, Smooth
  <1>4. ASSUME NEW d \in ProwJob, d.state \in Progressed, ReportAndPatch(p, d)
        PROVE  ReportsInv'
    <2>1. \A q \in PJ : q # p => work'[q] = work[q] /\ dest'[q] = dest[q] /\ report'[q] = report[q]
      BY <1>2, <1>4 DEF ReportAndPatch
    <2>2. work'[p] = "patch" /\ dest'[p] = d /\ report'[p] = d.state /\ d.state # "none"
      BY <1>2, <1>4 DEF ReportAndPatch, Progressed, Terminal
    <2> QED BY <1>1, <2>1, <2>2 DEF ReportsInv, Shown, Exists, Smooth
  <1> QED BY <1>3, <1>4

LEMMA SyncJobReports ==
  ASSUME Smooth, ReportsInv, ~SkipReport, NEW p \in PJ, SyncJob(p), ~Patch(p)
  PROVE  ReportsInv'
  <1> USE DEF Smooth
  <1>1. work[p] = "queued" /\ UNCHANGED <<pj, pc, github>>
    BY DEF SyncJob, PendingRestart, PendingReplace, PendingFinish, PendingTimeout, PendingWait,
           TriggeredRefused, TriggeredStart, TriggeredAdopt, Turn, clusterVars
  <1>2. TypeOK
    BY DEF IInv
  <1>3. \A st \in Terminal : Finished(p, st) \in ProwJob /\ Finished(p, st).state \in Progressed
    BY <1>2, Destinations DEF Progressed
  <1>4. \A b \in Nat : Pending(p, b) \in ProwJob /\ Pending(p, b).state \in Progressed
    BY Zenon, <1>2, Destinations DEF Progressed
  <1>5. CASE PendingRestart(p)
    <2>1. builds'[p] \in Nat
      BY <1>2, <1>5, StartPodEffect DEF PendingRestart
    <2>2. snap[p].state = "pending"
      BY <1>1, <1>5 DEF IInv, WorkInv, PendingRestart
    <2> DEFINE d == [snap[p] EXCEPT !.buildID = builds'[p]]
    <2>3. d \in ProwJob /\ d.state \in Progressed
      BY Zenon, <1>2, <2>1, <2>2, Destinations DEF Progressed
    <2>4. Done(p) \/ ReportAndPatch(p, d) \/ ReportAndPatch(p, Finished(p, "error"))
      BY <1>5 DEF PendingRestart
    <2>5. "error" \in Terminal
      BY DEF Terminal
    <2> HIDE DEF d
    <2> QED BY <1>1, <1>3, <2>3, <2>4, <2>5, GoroutineReports
  <1>6. CASE PendingFinish(p)
    <2>1. Outcome(pm[p].phase) \in Terminal
      BY <1>6 DEF PendingFinish, Outcome, Terminal
    <2> QED BY Zenon, <1>1, <1>3, <1>6, <2>1, GoroutineReports DEF PendingFinish
  <1>7. CASE PendingTimeout(p)
    <2> DEFINE st == IF pm[p].phase = "Pending" THEN "error" ELSE "aborted"
    <2>1. st \in Terminal
      BY DEF Terminal
    <2>2. Done(p) \/ ReportAndPatch(p, Finished(p, st))
      BY <1>7 DEF PendingTimeout
    <2> HIDE DEF st
    <2> QED BY <1>1, <1>3, <2>1, <2>2, GoroutineReports
  <1>8. CASE PendingReplace(p) \/ PendingWait(p) \/ TriggeredRefused(p)
    BY <1>1, <1>8, GoroutineReports DEF PendingReplace, PendingWait, TriggeredRefused
  <1>9. CASE TriggeredStart(p)
    <2>1. builds'[p] \in Nat
      BY <1>2, <1>9, StartPodEffect DEF TriggeredStart
    <2>2. Done(p) \/ ReportAndPatch(p, Pending(p, builds'[p])) \/ ReportAndPatch(p, Finished(p, "error"))
      BY <1>9 DEF TriggeredStart
    <2>3. "error" \in Terminal
      BY DEF Terminal
    <2> QED BY Zenon, <1>1, <1>3, <1>4, <2>1, <2>2, <2>3, GoroutineReports
  <1>10. CASE TriggeredAdopt(p)
    <2>1. pm[p].build \in Nat
      BY <1>2 DEF TypeOK, PlankTypeOK, Pod
    <2> QED BY Zenon, <1>1, <1>4, <1>10, <2>1, GoroutineReports DEF TriggeredAdopt
  <1> QED BY <1>5, <1>6, <1>7, <1>8, <1>9, <1>10 DEF SyncJob

LEMMA ReportsStep ==
  ASSUME Smooth, ReportsInv, ~SkipReport, [Next]_vars
  PROVE  ReportsInv'
  <1> USE DEF Smooth
  <1>0. /\ pj \in [PJ -> ProwJob] /\ work \in [PJ -> {"idle", "queued", "patch"}]
        /\ report \in [PJ -> ProwJobState \cup {"none"}] /\ github \in [PJ -> ProwJobState \cup {"none"}]
    BY DEF IInv, TypeOK, ClusterTypeOK, PlankTypeOK
  <1>1. CASE UNCHANGED <<pj, pc, work, dest, report, github>>
    BY <1>1 DEF ReportsInv, Shown, Exists
  <1>2. ASSUME NEW p \in PJ, CreateProwJob(p), UNCHANGED plankVars PROVE ReportsInv'
    <2>1. \A q \in PJ : q # p => pj'[q] = pj[q]
      BY <1>0, <1>2 DEF CreateProwJob
    <2>2. pj[p].state = "uncreated" /\ pj'[p].state = "triggered"
      BY <1>0, <1>2 DEF CreateProwJob, NewProwJob, NoProwJob
    <2>3. report[p] \in ProwJobState => report[p] # "uncreated"
      BY DEF ProwJobState, Terminal
    <2>4. work[p] = "patch" => FALSE
      BY <2>2, PatchedObject DEF Agree
    <2> QED BY <1>0, <1>2, <2>1, <2>2, <2>3, <2>4 DEF ReportsInv, Shown, Exists, plankVars
  <1>3. CASE ClusterNext /\ UNCHANGED plankVars
    BY <1>1, <1>2, <1>3 DEF ClusterNext, PodProgress, PodStuck, PodDisrupted, plankVars
  <1>4. CASE ListProwJobs \/ ListPods \/ DupePass \/ DupeCleanup \/ DupesDone
    <2>1. pc \notin {"pending", "triggered", "reports"} /\ UNCHANGED <<pj, report, github>>
      BY <1>4 DEF ListProwJobs, ListPods, DupePass, DupeCleanup, DupesDone, StartPending, clusterVars
    <2>2. \A p \in PJ : report[p] = "none" /\ Shown(p) /\ work'[p] # "patch"
      BY <1>4, <2>1 DEF ReportsInv, ListProwJobs, ListPods, DupePass, DupeCleanup, DupesDone, StartPending, IInv, WorkInv
    <2> QED BY <2>1, <2>2 DEF ReportsInv, Shown, Exists
  <1>5. CASE DupePatch \/ DupePatchFails
    <2>1. /\ pc = "dupes" /\ UNCHANGED <<pc, work, dest, report, github>> /\ cancel \in PJ
          /\ pj'[cancel].state = "aborted" /\ \A q \in PJ : q # cancel => pj'[q] = pj[q]
      BY <1>5, AbortApplied DEF DupePatch
    <2>2. \A p \in PJ : report[p] = "none" /\ Shown(p) /\ work[p] # "patch"
      BY <2>1 DEF ReportsInv, IInv, WorkInv
    <2> QED BY <2>1, <2>2 DEF ReportsInv, Shown, Exists
  <1>6. ASSUME NEW p \in PJ, Patch(p) PROVE ReportsInv'
    <2>1. pj'[p].state = dest[p].state /\ \A q \in PJ : q # p => pj'[q] = pj[q]
      BY <1>6, PatchApplied
    <2>2. /\ work[p] = "patch" /\ work'[p] = "idle" /\ \A q \in PJ : q # p => work'[q] = work[q] /\ dest'[q] = dest[q]
          /\ UNCHANGED <<pc, report, github>>
      BY <1>0, <1>6 DEF Patch, IInv, TypeOK, PlankTypeOK
    <2>3. dest[p].state # "none"
      BY <1>6, PatchApplied DEF Progressed, Terminal
    <2> QED BY <2>1, <2>2, <2>3 DEF ReportsInv, Shown, Exists
  <1>7. CASE StartTriggered \/ StartReports
    <2>1. /\ UNCHANGED <<pj, report, github>> /\ pc' \in {"triggered", "reports"}
          /\ \A p \in PJ : work[p] # "patch" /\ work'[p] # "patch"
      BY <1>0, <1>7 DEF StartTriggered, StartReports, AllIdle, clusterVars
    <2> QED BY <2>1 DEF ReportsInv, Shown, Exists
  <1>8. ASSUME NEW p \in PJ, Report(p) PROVE ReportsInv'
    <2>1. pc = "reports" /\ report[p] # "none" /\ report' = [report EXCEPT ![p] = "none"] /\ UNCHANGED <<pc, work, dest>>
      BY <1>8 DEF Report
    <2>2. work[p] # "patch" /\ report[p] = pj[p].state
      BY <2>1 DEF ReportsInv, IInv, WorkInv
    <2>3. Exists(p)
      BY <1>0, <2>1, <2>2 DEF Exists
    <2>4. github' = [github EXCEPT ![p] = report[p]] /\ pj' = [pj EXCEPT ![p].prev = pj[p].state]
      BY <1>8, <2>3, ReportApplied
    <2>5. /\ \A q \in PJ : q # p => pj'[q] = pj[q] /\ github'[q] = github[q] /\ report'[q] = report[q]
          /\ pj'[p].state = pj[p].state /\ pj'[p].prev = pj[p].state /\ github'[p] = report[p] /\ report'[p] = "none"
      BY Zenon, <1>0, <2>1, <2>4 DEF ProwJob
    <2> QED BY <2>1, <2>2, <2>5 DEF ReportsInv, Shown, Exists
  <1>9. CASE SyncDone
    <2>1. \A p \in PJ : report[p] = "none" /\ report'[p] = "none" /\ work'[p] = "idle"
      BY <1>9 DEF SyncDone, EndSync
    <2> QED BY <1>9, <2>1 DEF ReportsInv, Shown, Exists, SyncDone, clusterVars
  <1>10. ~Crash
    BY DEF Crash, Fault
  <1>11. CASE UNCHANGED vars
    BY <1>1, <1>11 DEF vars, clusterVars, plankVars
  <1>12. ASSUME NEW p \in PJ, SyncJob(p) PROVE ReportsInv'
    BY <1>6, <1>12, SyncJobReports
  <1> QED BY <1>3, <1>4, <1>5, <1>7, <1>8, <1>9, <1>10, <1>11, <1>12 DEF Next, PlankNext, Sync

\* Between two Syncs GitHub shows the state of every ProwJob that has left triggered, and no
\* later Sync takes a ProwJob for reported that is not: neither the order in which reports
\* and patches are sent nor what happens to pods meanwhile matters, only failures do.
THEOREM ReportsSound ==
  ASSUME ~LostReplies
  PROVE  Spec => []ReportsCurrent
  <1>1. Init => ReportsInv
    BY DEF Init, ClusterInit, PlankInit, ReportsInv, Shown, Exists, NoProwJob, ProwJobState, Terminal
  <1>2. IInv /\ ReportsInv /\ [Next]_vars => ReportsInv'
    <2> SUFFICES ASSUME IInv, ReportsInv, [Next]_vars, ~SkipReport, faults' = 0 PROVE ReportsInv'
      BY DEF ReportsInv
    <2>1. faults = 0
      BY FaultsGrow
    <2> QED BY <2>1, ReportsStep DEF Smooth
  <1>3. IInv /\ ReportsInv => ReportsCurrent
    BY DEF ReportsInv, ReportsCurrent, Shown
  <1> QED BY <1>1, <1>2, <1>3, Invariance, PTL DEF Spec

-----------------------------------------------------------------------------
(* The limits.                                                             *)

\* A pod that times out is there to be deleted.
Deletable == ~PodsStick \/ MaxDisruptions = 0

KInv == PodsKnown /\ Counted

LEMMA LoadIs ==
  /\ pc = "pending" => Load = {p \in PJ : snap[p].state = "pending"}
  /\ pc = "triggered" => Load = pendingJobs
  /\ pc \notin {"pending", "triggered"} => Load = {p \in PJ : pj[p].state = "pending"}
  BY DEF Load

LEMMA LoadIsNext ==
  /\ pc' = "pending" => Load' = {p \in PJ : snap'[p].state = "pending"}
  /\ pc' = "triggered" => Load' = pendingJobs'
  /\ pc' \notin {"pending", "triggered"} => Load' = {p \in PJ : pj'[p].state = "pending"}
  BY DEF Load

LEMMA EnvironmentCount ==
  ASSUME Smooth, KInv, ClusterNext, UNCHANGED plankVars
  PROVE  KInv' /\ Load' \subseteq Load
  <1> USE DEF Smooth, KInv
  <1>0. /\ pj \in [PJ -> ProwJob] /\ pod \in [PJ -> Pod] /\ disrupted \in Nat
        /\ UNCHANGED <<pc, snap, pm, cancel, pendingJobs, work, dest>>
    BY DEF IInv, TypeOK, ClusterTypeOK, plankVars
  <1>1. PICK p \in PJ : CreateProwJob(p) \/ PodProgress(p) \/ PodStuck(p) \/ PodDisrupted(p)
    BY DEF ClusterNext
  <1>2. CASE CreateProwJob(p)
    <2>1. /\ \A q \in PJ : q # p => pj'[q] = pj[q]
          /\ pj[p].state = "uncreated" /\ pj'[p].state = "triggered" /\ UNCHANGED pod
      BY Zenon, <1>0, <1>2 DEF CreateProwJob, NewProwJob, NoProwJob
    <2>2. PodsKnown'
      BY <1>0, <2>1 DEF PodsKnown, Awaited, Starting, Listed
    <2>3. Counted'
      BY <1>0, <2>1 DEF Counted, Starting
    <2> QED BY <1>0, <2>1, <2>2, <2>3, LoadIs, LoadIsNext
  <1>3. CASE PodProgress(p) \/ PodStuck(p) \/ PodDisrupted(p)
    <2>1. UNCHANGED pj /\ \A q \in PJ : q # p => pod'[q] = pod[q]
      BY <1>0, <1>3 DEF PodProgress, PodStuck, PodDisrupted, SetPhase
    <2>2. pod'[p].phase # "none" => pod[p].phase # "none"
      BY <1>0, <1>3 DEF PodProgress, PodStuck, PodDisrupted, SetPhase, NoPod, Pod
    <2>3. pod'[p].stuck => PodsStick
      <3>1. \A ph : SetPhase(p, ph) => ~pod'[p].stuck
        BY Zenon, <1>0 DEF SetPhase, Pod
      <3>2. CASE PodStuck(p)
        BY <3>2 DEF PodStuck
      <3> QED BY <1>0, <1>3, <3>1, <3>2 DEF PodProgress, PodDisrupted, NoPod
    <2>4. MaxDisruptions = 0 => (pod[p].phase # "none" => pod'[p].phase # "none")
      <3>1. MaxDisruptions = 0 => ~PodDisrupted(p)
        BY <1>0 DEF PodDisrupted
      <3>2. \A ph : SetPhase(p, ph) => pod'[p].phase = ph
        BY <1>0 DEF SetPhase, Pod
      <3>3. CASE PodProgress(p)
        BY <3>2, <3>3 DEF PodProgress
      <3>4. CASE PodStuck(p)
        BY Zenon, <1>0, <3>4 DEF PodStuck, Pod
      <3> QED BY <1>3, <3>1, <3>3, <3>4
    <2>5. PodsKnown'
      BY <1>0, <2>1, <2>2, <2>3, <2>4 DEF PodsKnown, Awaited, Starting, Listed
    <2>6. Counted'
      BY <1>0, <2>1 DEF Counted, Starting
    <2> QED BY <1>0, <2>1, <2>5, <2>6, LoadIs, LoadIsNext
  <1> QED BY <1>1, <1>2, <1>3

LEMMA ListCount ==
  ASSUME Smooth, KInv, ListProwJobs \/ ListPods
  PROVE  KInv' /\ Load' \subseteq Load
  <1> USE DEF Smooth, KInv, clusterVars
  <1>1. CASE ListProwJobs
    <2>1. PodsKnown'
      BY <1>1 DEF ListProwJobs, PodsKnown, Awaited, Starting
    <2>2. Counted'
      BY <1>1 DEF ListProwJobs, Counted
    <2> QED BY <1>1, <2>1, <2>2, LoadIs, LoadIsNext DEF ListProwJobs
  <1>2. CASE ListPods
    <2>1. PICK failed \in SUBSET BuildClients :
            pm' = [p \in PJ |-> IF SpecOf[p].cluster \in BuildClients \ failed THEN pod[p] ELSE NoPod]
      BY <1>2 DEF ListPods
    <2>2. /\ \A p \in PJ : pm'[p] = pod[p] \/ pm'[p] = NoPod
          /\ NoPod.phase = "none" /\ ~NoPod.stuck
      BY <2>1 DEF NoPod
    <2>3. \A p \in PJ : snap[p].state = "triggered" => pj[p].state = "triggered"
      BY <1>2 DEF ListPods, IInv, ListInv, ObjectsInv, Consistent, Listed, Agree, ProwJobState, Terminal
    <2>4. PodsKnown'
      BY <1>2, <2>2, <2>3 DEF ListPods, PodsKnown, Awaited, Starting
    <2>5. Counted'
      BY <1>2 DEF ListPods, Counted
    <2> QED BY <1>2, <2>4, <2>5, LoadIs, LoadIsNext DEF ListPods
  <1> QED BY <1>1, <1>2

LEMMA DupesCount ==
  ASSUME Smooth, KInv, DupePass \/ DupeCleanup \/ DupePatch \/ DupePatchFails \/ DupesDone
  PROVE  KInv' /\ Load' \subseteq Load
  <1> USE DEF Smooth, KInv, clusterVars
  <1>1. CASE DupePass
    BY <1>1, LoadIs, LoadIsNext DEF DupePass, PodsKnown, Counted, Awaited, Starting, Listed
  <1>2. CASE DupeCleanup
    <2>1. /\ pc = "dupes" /\ cancel = None
          /\ UNCHANGED <<pj, pc, snap, pm, pendingJobs, work, dest>>
      BY <1>2 DEF DupeCleanup
    <2>2. pod' = pod \/ pod' = [pod EXCEPT ![cancel'] = NoPod]
      BY <1>2 DEF DupeCleanup, DeleteOK, DeleteFails
    <2>3. /\ \A q \in PJ : pod'[q].phase # "none" => pod[q].phase # "none"
          /\ \A q \in PJ : pod'[q].stuck => pod[q].stuck
          /\ \A q \in PJ : q # cancel' => pod'[q] = pod[q]
      BY <2>2 DEF NoPod, IInv, TypeOK, ClusterTypeOK
    <2>4. None \notin PJ
      BY PlankAssumption
    <2>5. PodsKnown'
      BY <2>1, <2>3, <2>4 DEF PodsKnown, Awaited, Starting, Listed
    <2>6. Counted'
      BY <2>1 DEF Counted, Starting
    <2> QED BY <2>1, <2>5, <2>6, LoadIs, LoadIsNext
  <1>3. CASE DupePatch \/ DupePatchFails
    <2>1. /\ pc = "dupes" /\ UNCHANGED <<pod, pc, pm, pendingJobs, work, dest>> /\ cancel \in PJ
          /\ pj'[cancel].state = "aborted" /\ snap'[cancel].state = "aborted"
          /\ \A q \in PJ : q # cancel => pj'[q] = pj[q] /\ snap'[q] = snap[q]
      BY <1>3, AbortApplied DEF DupePatch
    <2>2. snap'[cancel].complete
      BY <1>3, AbortApplied
    <2>3. PodsKnown'
      BY <2>1, <2>2 DEF PodsKnown, Awaited, Starting, Listed
    <2>4. Counted'
      BY <2>1 DEF Counted, Starting
    <2> QED BY <2>1, <2>3, <2>4, LoadIs, LoadIsNext
  <1>4. CASE DupesDone
    <2>1. /\ pc = "dupes" /\ cancel = None /\ pc' = "pending" /\ UNCHANGED <<pj, pod, snap, pm, pendingJobs, dest>>
          /\ work' = [p \in PJ |-> IF snap[p].state = "pending" THEN "queued" ELSE "idle"]
      BY <1>4 DEF DupesDone, StartPending
    <2>2. \A p \in PJ : snap[p].state = "pending" => /\ Listed(p) /\ ~snap[p].complete /\ p # cancel
                                                     /\ pj[p].state = "pending"
      BY <2>1, PlankAssumption DEF IInv, ListInv, ObjectsInv, Consistent, Listed, Agree, ProwJobState, Terminal
    <2>3. PodsKnown'
      BY <2>1, <2>2 DEF PodsKnown, Awaited, Starting
    <2>4. Counted'
      BY <2>1 DEF Counted
    <2> QED BY <2>1, <2>2, <2>3, <2>4, LoadIs, LoadIsNext
  <1> QED BY <1>1, <1>2, <1>3, <1>4

\* What a goroutine does for a pending ProwJob up to the patch.
LEMMA PendingCount ==
  ASSUME Smooth, KInv, Deletable, NEW p \in PJ,
         PendingRestart(p) \/ PendingReplace(p) \/ PendingFinish(p) \/ PendingTimeout(p) \/ PendingWait(p)
  PROVE  KInv' /\ Load' \subseteq Load
  <1> USE DEF Smooth, KInv
  <1>0. /\ pod \in [PJ -> Pod] /\ work \in [PJ -> {"idle", "queued", "patch"}] /\ dest \in [PJ -> ProwJob]
        /\ snap \in [PJ -> ProwJob] /\ TypeOK
    BY DEF IInv, TypeOK, ClusterTypeOK, PlankTypeOK
  <1>1. /\ pc = "pending" /\ work[p] = "queued"
        /\ UNCHANGED <<pj, pc, snap, pm, cancel>>
    BY DEF PendingRestart, PendingReplace, PendingFinish, PendingTimeout, PendingWait, Turn, locals, clusterVars
  <1>2. snap[p].state = "pending" /\ pj[p].state = "pending"
    BY <1>1 DEF IInv, WorkInv, Agree
  <1>3. \/ pod' = pod \/ pod' = [pod EXCEPT ![p] = NoPod] \/ CreatePod(p)
    BY DEF PendingRestart, PendingReplace, PendingFinish, PendingTimeout, PendingWait, clusterVars,
           DeleteOK, DeleteFails, StartPodOK, StartPodInvalid, StartPodFails
  <1>4. /\ \A q \in PJ : q # p => pod'[q] = pod[q]
        /\ pod'[p].stuck => pod[p].stuck
    BY <1>0, <1>3 DEF CreatePod, NoPod
  <1>5. \A q \in PJ : q # p => work'[q] = work[q] /\ dest'[q] = dest[q]
    BY <1>0 DEF PendingRestart, PendingReplace, PendingFinish, PendingTimeout, PendingWait, ReportAndPatch, Done
  <1>6. /\ work'[p] # "queued"
        /\ p \in pendingJobs' \/ (work'[p] = "patch" /\ dest'[p].state \in Terminal)
        /\ pendingJobs' = pendingJobs \/ pendingJobs' = pendingJobs \cup {p}
    <2>1. \A d \in ProwJob : ReportAndPatch(p, d) => work'[p] = "patch" /\ dest'[p] = d
      BY <1>0 DEF ReportAndPatch
    <2>2. Done(p) => work'[p] = "idle"
      BY <1>0 DEF Done
    <2>3. \A st \in Terminal : Finished(p, st) \in ProwJob /\ Finished(p, st).state = st
      BY <1>0, Destinations
    <2>4. CASE PendingRestart(p) \/ PendingReplace(p) \/ PendingWait(p)
      BY <1>0, <2>4 DEF PendingRestart, PendingReplace, PendingWait, Count, ReportAndPatch, Done
    <2>5. CASE PendingFinish(p)
      <3>1. Outcome(pm[p].phase) \in Terminal
        BY <2>5 DEF PendingFinish, Outcome, Terminal
      <3> QED BY Zenon, <2>1, <2>3, <2>5, <3>1 DEF PendingFinish
    <2>6. CASE PendingTimeout(p)
      <3> DEFINE st == IF pm[p].phase = "Pending" THEN "error" ELSE "aborted"
      <3>1. st \in Terminal
        BY DEF Terminal
      <3>2. pod[p].phase # "none"
        BY <1>1, <2>6 DEF PendingTimeout, PodsKnown, Deletable, Awaited
      <3>3. ~DeleteFails(p)
        BY <3>2 DEF DeleteFails, Fault
      <3>4. ReportAndPatch(p, Finished(p, st)) /\ UNCHANGED pendingJobs
        BY <2>6, <3>3 DEF PendingTimeout
      <3> HIDE DEF st
      <3> QED BY Zenon, <2>1, <2>3, <3>1, <3>4
    <2> QED BY <2>4, <2>5, <2>6
  <1>7. PodsKnown'
    BY <1>1, <1>2, <1>4, <1>5, <1>6 DEF PodsKnown, Awaited, Starting
  <1>8. Counted'
    BY <1>1, <1>2, <1>5, <1>6 DEF Counted
  <1> QED BY <1>1, <1>7, <1>8, LoadIs, LoadIsNext

\* A triggered ProwJob has no pod when its goroutine comes to it; if one is started, the
\* ProwJob is counted first.
LEMMA TriggeredCount ==
  ASSUME Smooth, KInv, NEW p \in PJ, TriggeredRefused(p) \/ TriggeredStart(p) \/ TriggeredAdopt(p)
  PROVE  /\ KInv'
         /\ \/ Load' = Load
            \/ /\ CanExecuteConcurrently(p) /\ Load = pendingJobs
               /\ Load' = Load \cup {p}
  <1> USE DEF Smooth, KInv
  <1>0. /\ pod \in [PJ -> Pod] /\ work \in [PJ -> {"idle", "queued", "patch"}] /\ dest \in [PJ -> ProwJob]
        /\ pj \in [PJ -> ProwJob]
    BY DEF IInv, TypeOK, ClusterTypeOK, PlankTypeOK
  <1>1. /\ pc = "triggered" /\ work[p] = "queued"
        /\ UNCHANGED <<pj, pc, snap, pm, cancel>>
    BY DEF TriggeredRefused, TriggeredStart, TriggeredAdopt, Turn, locals, clusterVars
  <1>2. snap[p].state = "triggered" /\ pj[p].state = "triggered"
    BY <1>1 DEF IInv, WorkInv, Agree
  <1>3. ~TriggeredAdopt(p)
    BY <1>1, <1>2 DEF TriggeredAdopt, PodsKnown
  <1>4. pod[p].phase = "none"
    BY <1>1, <1>2 DEF PodsKnown, Starting
  <1>5. \A q \in PJ : q # p => work'[q] = work[q] /\ dest'[q] = dest[q]
    BY <1>0, <1>3 DEF TriggeredRefused, TriggeredStart, ReportAndPatch, Done
  <1>6. CASE TriggeredRefused(p)
    <2>1. UNCHANGED <<pod, pendingJobs>> /\ work'[p] = "idle"
      BY <1>0, <1>6 DEF TriggeredRefused, Done, clusterVars
    <2>2. PodsKnown'
      BY <1>1, <1>2, <1>4, <1>5, <2>1 DEF PodsKnown, Awaited, Starting
    <2>3. Counted'
      BY <1>1, <1>5, <2>1 DEF Counted, Starting
    <2> QED BY <1>1, <2>1, <2>2, <2>3, LoadIs, LoadIsNext
  <1>7. CASE TriggeredStart(p)
    <2>1. pendingJobs' = pendingJobs \cup {p} /\ CanExecuteConcurrently(p)
      BY <1>7 DEF TriggeredStart, Count
    <2> SUFFICES PodsKnown' /\ Counted'
      BY <1>1, <2>1, LoadIs, LoadIsNext
    <2>2. CASE StartPodOK(p) /\ ReportAndPatch(p, Pending(p, builds'[p]))
      <3>1. builds'[p] \in Nat
        BY <2>2, StartPodEffect DEF IInv
      <3>2. Pending(p, builds'[p]).state = "pending"
        BY Zenon, <3>1, Destinations DEF IInv
      <3>3. work'[p] = "patch" /\ dest'[p].state = "pending"
        BY <1>0, <2>2, <3>2 DEF ReportAndPatch
      <3>4. (\A q \in PJ : q # p => pod'[q] = pod[q]) /\ ~pod'[p].stuck
        BY <1>0, <2>2 DEF StartPodOK, CreatePod
      <3>5. PodsKnown'
        BY <1>1, <1>5, <3>3, <3>4 DEF PodsKnown, Awaited, Starting
      <3>6. Counted'
        BY <1>1, <1>5, <2>1, <3>3 DEF Counted, Starting
      <3> QED BY <3>5, <3>6
    <2>3. CASE (StartPodInvalid(p) /\ ReportAndPatch(p, Finished(p, "error"))) \/ (StartPodFails(p) /\ Done(p))
      <3>1. UNCHANGED pod
        <4>1. StartPodInvalid(p) => UNCHANGED pod
          BY Zenon DEF StartPodInvalid
        <4>2. StartPodFails(p) => UNCHANGED pod
          BY <1>4 DEF StartPodFails, Fault
        <4> QED BY Zenon, <2>3, <4>1, <4>2
      <3>2. PodsKnown'
        BY <1>1, <1>4, <1>5, <3>1 DEF PodsKnown, Awaited, Starting
      <3>3. Counted'
        BY <1>1, <1>5, <2>1 DEF Counted, Starting
      <3> QED BY Zenon, <3>2, <3>3
    <2> QED BY <1>7, <2>2, <2>3 DEF TriggeredStart
  <1> QED BY <1>3, <1>6, <1>7

LEMMA PatchCount ==
  ASSUME Smooth, KInv, NEW p \in PJ, Patch(p)
  PROVE  KInv' /\ Load' \subseteq Load
  <1> USE DEF Smooth, KInv
  <1>1. /\ pj'[p].state = dest[p].state /\ \A q \in PJ : q # p => pj'[q] = pj[q]
        /\ dest[p].state \in Progressed /\ Agree(p)
    BY PatchApplied
  <1>2. /\ work[p] = "patch" /\ work'[p] = "idle" /\ \A q \in PJ : q # p => work'[q] = work[q] /\ dest'[q] = dest[q]
        /\ UNCHANGED <<pod, pc, snap, pm, cancel, pendingJobs>>
    BY DEF Patch, locals, IInv, TypeOK, PlankTypeOK
  <1>3. pc \in {"pending", "triggered"} /\ (pc = "pending" => snap[p].state = "pending" /\ pj[p].state = "pending")
    BY <1>1, <1>2 DEF IInv, WorkInv, Agree
  <1>4. dest[p].state \notin {"uncreated", "triggered"}
    BY <1>1 DEF Progressed, Terminal
  <1>5. PodsKnown'
    BY <1>1, <1>2, <1>3, <1>4 DEF PodsKnown, Awaited, Starting
  <1>6. "pending" \notin Terminal
    BY DEF Terminal
  <1>7. Counted'
    BY <1>1, <1>2, <1>3, <1>6 DEF Counted, Starting
  <1> QED BY <1>2, <1>3, <1>5, <1>7, LoadIs, LoadIsNext

LEMMA PhaseCount ==
  ASSUME Smooth, KInv, StartTriggered \/ StartReports \/ SyncDone \/ \E p \in PJ : Report(p)
  PROVE  KInv' /\ Load' \subseteq Load
  <1> USE DEF Smooth, KInv
  <1>1. CASE StartTriggered
    <2>1. /\ pc = "pending" /\ pc' = "triggered" /\ UNCHANGED <<pj, pod, snap, pm, pendingJobs>>
          /\ \A p \in PJ : work[p] = "idle" /\ work'[p] # "patch"
      BY <1>1 DEF StartTriggered, AllIdle, clusterVars, locals
    <2>2. PodsKnown'
      BY <2>1 DEF PodsKnown, Awaited, Starting
    <2>3. Counted'
      BY <2>1 DEF Counted, Starting
    <2>4. pendingJobs \subseteq {p \in PJ : snap[p].state = "pending"}
      BY <2>1 DEF Counted, IInv, TypeOK, PlankTypeOK
    <2> QED BY <2>1, <2>2, <2>3, <2>4, LoadIs, LoadIsNext
  <1>2. CASE StartReports
    <2>1. /\ pc = "triggered" /\ pc' = "reports" /\ UNCHANGED <<pj, pod, snap, pm, pendingJobs>>
          /\ \A p \in PJ : work[p] = "idle"
      BY <1>2 DEF StartReports, AllIdle, clusterVars, locals
    <2>2. PodsKnown'
      BY <2>1 DEF PodsKnown, Awaited, Starting
    <2>3. Counted'
      BY <2>1 DEF Counted
    <2>4. {p \in PJ : pj[p].state = "pending"} \subseteq pendingJobs
      BY <2>1 DEF Counted
    <2> QED BY <2>1, <2>2, <2>3, <2>4, LoadIs, LoadIsNext
  <1>3. CASE SyncDone
    <2>1. /\ pc = "reports" /\ pc' = "idle" /\ UNCHANGED <<pj, pod>> /\ pendingJobs' = {}
          /\ \A p \in PJ : ~pm'[p].stuck
      BY <1>3 DEF SyncDone, EndSync, clusterVars, NoPod
    <2>2. PodsKnown'
      BY <2>1 DEF PodsKnown, Awaited, Starting
    <2>3. Counted'
      BY <2>1 DEF Counted
    <2> QED BY <2>1, <2>2, <2>3, LoadIs, LoadIsNext
  <1>4. ASSUME NEW p \in PJ, Report(p) PROVE KInv' /\ Load' \subseteq Load
    <2>1. /\ pc = "reports" /\ UNCHANGED <<pod, pc, snap, pm, pendingJobs>>
          /\ pj' = pj \/ (Exists(p) /\ pj' = [pj EXCEPT ![p].prev = pj[p].state])
      BY <1>4 DEF Report, locals
    <2>2. \A q \in PJ : pj'[q].state = pj[q].state
      BY <2>1 DEF IInv, TypeOK, ClusterTypeOK, ProwJob
    <2>3. PodsKnown'
      BY <2>1, <2>2 DEF PodsKnown, Awaited, Starting
    <2>4. Counted'
      BY <2>1 DEF Counted
    <2> QED BY <2>1, <2>2, <2>3, <2>4, LoadIs, LoadIsNext
  <1> QED BY <1>1, <1>2, <1>3, <1>4

\* Only the start of a triggered ProwJob adds to the load, and only by that ProwJob.
LEMMA CountStep ==
  ASSUME Smooth, KInv, Deletable, [Next]_vars
  PROVE  /\ KInv'
         /\ \/ Load' \subseteq Load
            \/ \E p \in PJ : /\ CanExecuteConcurrently(p) /\ Load = pendingJobs
                             /\ Load' = Load \cup {p}
  <1>1. CASE UNCHANGED vars
    <2>1. KInv'
      BY <1>1 DEF vars, clusterVars, plankVars, KInv, PodsKnown, Counted, Awaited, Starting, Listed
    <2>2. Load' = Load
      BY <1>1, LoadIs, LoadIsNext DEF vars, clusterVars, plankVars
    <2> QED BY <2>1, <2>2
  <1>2. ~Crash
    BY DEF Smooth, Crash, Fault
  <1>3. ASSUME NEW p \in PJ, SyncJob(p)
        PROVE  /\ KInv'
               /\ \/ Load' \subseteq Load
                  \/ CanExecuteConcurrently(p) /\ Load = pendingJobs /\ Load' = Load \cup {p}
    BY <1>3, PendingCount, TriggeredCount, PatchCount DEF SyncJob
  <1> QED
    BY <1>1, <1>2, <1>3, EnvironmentCount, ListCount, DupesCount, PhaseCount DEF Next, PlankNext, Sync

\* The limits hold of the load, and with them of what runs.
WithinPlankLimit == PlankMaxConcurrency > 0 => Cardinality(Load) <= PlankMaxConcurrency

WithinJobLimits ==
  \A p \in PJ : SpecOf[p].maxConcurrency # 0 => Cardinality(LoadOf(SpecOf[p].job)) <= SpecOf[p].maxConcurrency

LEMMA LoadFinite ==
  ASSUME IInv
  PROVE  Load \subseteq PJ /\ IsFiniteSet(Load) /\ \A j : LoadOf(j) \subseteq Load /\ IsFiniteSet(LoadOf(j))
  <1>1. Load \subseteq PJ
    BY LoadIs DEF IInv, TypeOK, PlankTypeOK
  <1>2. IsFiniteSet(Load)
    BY <1>1, FS_Subset, ClusterAssumption
  <1>3. \A j : LoadOf(j) \in SUBSET Load
    BY DEF LoadOf
  <1> QED BY <1>1, <1>2, <1>3, FS_Subset

LEMMA RunningLoaded ==
  ASSUME IInv, KInv, NEW p \in PJ, Exists(p), ~pj[p].complete, pod[p].phase # "none"
  PROVE  p \in Load
  <1>1. pj[p].state = "pending" \/ (pj[p].state = "triggered" /\ Starting(p))
    BY DEF IInv, ObjectsInv, Consistent, Exists, ProwJobState, KInv, PodsKnown
  <1>2. pc \in {"idle", "listPods", "dupes", "pending", "triggered", "reports"}
    BY DEF IInv, TypeOK, PlankTypeOK
  <1> QED BY <1>1, <1>2, LoadIs DEF KInv, Counted, Starting

LEMMA PlankLimitStep ==
  ASSUME Smooth, KInv, Deletable, [Next]_vars, WithinPlankLimit, PlankMaxConcurrency > 0
  PROVE  Cardinality(Load') <= PlankMaxConcurrency
  <1>0. IsFiniteSet(Load) /\ Cardinality(Load) \in Nat /\ PlankMaxConcurrency \in Nat
    BY LoadFinite, FS_CardinalityType, PlankAssumption DEF Smooth
  <1>1. CASE Load' \subseteq Load
    <2>1. Cardinality(Load') \in Nat /\ Cardinality(Load') <= Cardinality(Load)
      BY <1>0, <1>1, FS_Subset, FS_CardinalityType
    <2> QED BY <1>0, <2>1 DEF WithinPlankLimit
  <1>2. ASSUME NEW p \in PJ, CanExecuteConcurrently(p), Load = pendingJobs, Load' = Load \cup {p}
        PROVE  Cardinality(Load') <= PlankMaxConcurrency
    <2>1. Cardinality(Load) < PlankMaxConcurrency
      BY <1>2 DEF CanExecuteConcurrently, NumRunning
    <2>2. Cardinality(Load \cup {p}) = IF p \in Load THEN Cardinality(Load) ELSE Cardinality(Load) + 1
      BY <1>0, FS_AddElement
    <2> QED BY <1>0, <1>2, <2>1, <2>2
  <1> QED BY <1>1, <1>2, CountStep

\* The ProwJobs of a job have the same limit.
UniformLimits ==
  \A p, q \in PJ : SpecOf[p].job = SpecOf[q].job => SpecOf[p].maxConcurrency = SpecOf[q].maxConcurrency

LEMMA AtMost ==
  ASSUME NEW a \in Nat, NEW b \in Nat, NEW c \in Nat, a <= b, b <= c
  PROVE  a <= c
  OBVIOUS

LEMMA BelowWithMore ==
  ASSUME NEW a \in Nat, NEW b \in Nat, NEW c \in Nat, a + b < c
  PROVE  a < c
  OBVIOUS

LEMMA BelowOneMore ==
  ASSUME NEW a \in Nat, NEW c \in Nat, a < c
  PROVE  a <= c /\ a + 1 <= c
  OBVIOUS

LEMMA JobLimitStep ==
  ASSUME Smooth, KInv, Deletable, [Next]_vars, UniformLimits, WithinJobLimits,
         NEW q \in PJ, SpecOf[q].maxConcurrency # 0
  PROVE  Cardinality(LoadOf(SpecOf[q].job)') <= SpecOf[q].maxConcurrency
  <1> DEFINE j == SpecOf[q].job
             max == SpecOf[q].maxConcurrency
  <1>0. IsFiniteSet(LoadOf(j)) /\ Cardinality(LoadOf(j)) \in Nat /\ max \in Nat /\ Cardinality(LoadOf(j)) <= max
    <2>1. max \in Nat
      BY ClusterAssumption DEF JobSpec
    <2>2. IsFiniteSet(LoadOf(j))
      BY LoadFinite DEF Smooth
    <2> QED BY <2>1, <2>2, FS_CardinalityType DEF WithinJobLimits
  <1>1. CASE LoadOf(j)' \subseteq LoadOf(j)
    <2>1. Cardinality(LoadOf(j)') \in Nat /\ Cardinality(LoadOf(j)') <= Cardinality(LoadOf(j))
      BY <1>0, <1>1, FS_Subset, FS_CardinalityType
    <2> QED BY Zenon, <1>0, <2>1, AtMost
  <1>2. ASSUME NEW p \in PJ, CanExecuteConcurrently(p), Load = pendingJobs, Load' = Load \cup {p}, SpecOf[p].job = j
        PROVE  Cardinality(LoadOf(j)') <= max
    <2>1. LoadOf(j)' = LoadOf(j) \cup {p}
      BY <1>2 DEF LoadOf
    <2>2. NumPending(SpecOf[p].job) = Cardinality(LoadOf(j))
      BY <1>2 DEF NumPending, LoadOf
    <2>3. Cardinality(OlderMatching(p)) \in Nat
      <3>1. IsFiniteSet(OlderMatching(p))
        BY FS_Subset, ClusterAssumption DEF OlderMatching
      <3> QED BY <3>1, FS_CardinalityType
    <2>4. SpecOf[p].maxConcurrency = max /\ max # 0
      BY <1>2 DEF UniformLimits
    <2>5. NumPending(SpecOf[p].job) + Cardinality(OlderMatching(p)) < max
      BY <1>2, <2>4 DEF CanExecuteConcurrently
    <2>6. Cardinality(LoadOf(j)) < max
      <3>1. Cardinality(LoadOf(j)) + Cardinality(OlderMatching(p)) < max
        BY Zenon, <2>2, <2>5
      <3> QED BY Zenon, <1>0, <2>3, <3>1, BelowWithMore
    <2>7. Cardinality(LoadOf(j) \cup {p}) = IF p \in LoadOf(j) THEN Cardinality(LoadOf(j)) ELSE Cardinality(LoadOf(j)) + 1
      BY <1>0, FS_AddElement
    <2>8. Cardinality(LoadOf(j)) <= max /\ Cardinality(LoadOf(j)) + 1 <= max
      BY Zenon, <1>0, <2>6, BelowOneMore
    <2>9. Cardinality(LoadOf(j) \cup {p}) <= max
      BY Zenon, <2>7, <2>8
    <2> QED BY Zenon, <2>1, <2>9
  <1>3. \/ LoadOf(j)' \subseteq LoadOf(j)
        \/ \E p \in PJ : /\ CanExecuteConcurrently(p) /\ Load = pendingJobs
                         /\ Load' = Load \cup {p} /\ SpecOf[p].job = j
    BY CountStep DEF LoadOf
  <1> QED BY <1>1, <1>2, <1>3

LEMMA LimitsInit ==
  ASSUME Init
  PROVE  KInv /\ Load = {}
  <1> USE DEF Init, ClusterInit, PlankInit
  <1>1. pc = "idle" /\ pendingJobs = {} /\ \A p \in PJ : /\ pj[p].state = "uncreated" /\ pod[p].phase = "none"
                                                         /\ ~pod[p].stuck /\ ~pm[p].stuck
    BY DEF NoProwJob, NoPod
  <1>2. KInv
    BY <1>1 DEF KInv, PodsKnown, Counted, Awaited
  <1> QED BY <1>1, <1>2, LoadIs

\* Plank.MaxConcurrency holds whatever the interleaving of goroutines, of pods and of the
\* users who create ProwJobs, provided no request fails and no pod that has timed out is
\* disrupted. (A pod that is gone when its timeout is noticed is not counted in that Sync,
\* and is started again in the next.)
THEOREM PlankLimitKept ==
  ASSUME ~LostReplies, Deletable
  PROVE  Spec => []PlankMaxConcurrencyRespected
  <1> DEFINE Inv == faults = 0 => KInv /\ WithinPlankLimit
  <1>1. Init => Inv
    <2> SUFFICES ASSUME Init PROVE KInv /\ WithinPlankLimit
      OBVIOUS
    <2> QED BY LimitsInit, FS_EmptySet, PlankAssumption DEF WithinPlankLimit
  <1>2. IInv /\ Inv /\ [Next]_vars => Inv'
    <2> SUFFICES ASSUME IInv, Inv, [Next]_vars, faults' = 0 PROVE KInv' /\ WithinPlankLimit'
      OBVIOUS
    <2>1. faults = 0
      BY FaultsGrow
    <2> QED BY <2>1, CountStep, PlankLimitStep DEF Smooth, WithinPlankLimit
  <1>3. IInv /\ Inv => PlankMaxConcurrencyRespected
    <2> SUFFICES ASSUME IInv, Inv, faults = 0, PlankMaxConcurrency > 0
                 PROVE  Cardinality(UNION {Running(j) : j \in Job}) <= PlankMaxConcurrency
      BY DEF PlankMaxConcurrencyRespected
    <2> DEFINE R == UNION {Running(j) : j \in Job}
    <2>1. R \in SUBSET Load
      BY RunningLoaded DEF Running
    <2>2. IsFiniteSet(Load)
      BY LoadFinite
    <2>3. Cardinality(R) <= Cardinality(Load) /\ Cardinality(R) \in Nat /\ Cardinality(Load) \in Nat
      BY <2>1, <2>2, FS_Subset, FS_CardinalityType
    <2> HIDE DEF R
    <2>4. Cardinality(Load) <= PlankMaxConcurrency /\ PlankMaxConcurrency \in Nat
      BY PlankAssumption DEF WithinPlankLimit
    <2>5. Cardinality(R) <= PlankMaxConcurrency
      BY Zenon, <2>3, <2>4, AtMost
    <2> QED BY Zenon, <2>5 DEF R
  <1> HIDE DEF Inv
  <1> QED BY <1>1, <1>2, <1>3, Invariance, PTL DEF Spec

\* Under the same conditions no job exceeds its own limit, if the instances of the job agree
\* on it: that of an older instance does not bind a newer one with a higher limit.
THEOREM JobLimitsKept ==
  ASSUME ~LostReplies, Deletable, UniformLimits
  PROVE  Spec => [](faults = 0 => MaxConcurrencyRespected)
  <1> DEFINE Inv == faults = 0 => KInv /\ WithinJobLimits
  <1>1. Init => Inv
    <2> SUFFICES ASSUME Init PROVE KInv /\ WithinJobLimits
      OBVIOUS
    <2>1. \A j : Cardinality(LoadOf(j)) = 0
      BY LimitsInit, FS_EmptySet DEF LoadOf
    <2>2. \A p \in PJ : SpecOf[p].maxConcurrency \in Nat
      BY ClusterAssumption DEF JobSpec
    <2> QED BY <2>1, <2>2, LimitsInit DEF WithinJobLimits
  <1>2. IInv /\ Inv /\ [Next]_vars => Inv'
    <2> SUFFICES ASSUME IInv, Inv, [Next]_vars, faults' = 0 PROVE KInv' /\ WithinJobLimits'
      OBVIOUS
    <2>1. faults = 0
      BY FaultsGrow
    <2> QED BY <2>1, CountStep, JobLimitStep DEF Smooth, WithinJobLimits
  <1>3. IInv /\ Inv => (faults = 0 => MaxConcurrencyRespected)
    <2> SUFFICES ASSUME IInv, Inv, faults = 0, NEW p \in PJ, SpecOf[p].maxConcurrency # 0
                 PROVE  Cardinality(Running(SpecOf[p].job)) <= SpecOf[p].maxConcurrency
      BY DEF MaxConcurrencyRespected
    <2> DEFINE R == Running(SpecOf[p].job)
               G == LoadOf(SpecOf[p].job)
    <2>1. R \in SUBSET G
      BY RunningLoaded DEF Running, LoadOf
    <2>2. IsFiniteSet(G)
      BY LoadFinite
    <2>3. Cardinality(R) <= Cardinality(G) /\ Cardinality(R) \in Nat /\ Cardinality(G) \in Nat
      BY <2>1, <2>2, FS_Subset, FS_CardinalityType
    <2>4. Cardinality(G) <= SpecOf[p].maxConcurrency /\ SpecOf[p].maxConcurrency \in Nat
      BY ClusterAssumption DEF WithinJobLimits, JobSpec
    <2> HIDE DEF R, G
    <2>5. Cardinality(R) <= SpecOf[p].maxConcurrency
      BY Zenon, <2>3, <2>4, AtMost
    <2> QED BY Zenon, <2>5 DEF R
  <1> HIDE DEF Inv
  <1> QED BY <1>1, <1>2, <1>3, Invariance, PTL DEF Spec
=============================================================================
