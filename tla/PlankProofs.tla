----------------------------- MODULE PlankProofs -----------------------------
(***************************************************************************)
(* What plank guarantees for any set of ProwJobs, any number of goroutines *)
(* and any number of failed requests and crashes, as long as no reply of   *)
(* the API server is lost (~LostReplies): the invariance of IInv, the      *)
(* properties that follow from it, and the refinement of ProwJobLifecycle. *)
(***************************************************************************)
EXTENDS Plank, TLAPS

-----------------------------------------------------------------------------
(* The steps that IInv survives: the environment, the listing of objects,  *)
(* terminateDupes, and the goroutines of syncProwJobs with their patches.  *)

LEMMA InitIInv == Init => IInv
  <1> SUFFICES ASSUME Init PROVE IInv
    OBVIOUS
  <1> USE DEF Init, ClusterInit, PlankInit
  <1>0. NoProwJob \in ProwJob /\ NoPod \in Pod /\ Consistent(NoProwJob) /\ NoProwJob.state \notin ProwJobState
    BY DEF NoProwJob, ProwJob, NoPod, Pod, Phase, Consistent, Terminal, ProwJobState
  <1>1. TypeOK
    BY <1>0, ClusterAssumption, PlankAssumption DEF TypeOK, ClusterTypeOK, PlankTypeOK
  <1>2. ObjectsInv
    BY <1>0 DEF ObjectsInv
  <1>3. ListInv
    BY DEF ListInv
  <1>4. DupesInv
    BY DEF DupesInv
  <1>5. WorkInv
    BY DEF WorkInv
  <1> QED BY <1>1, <1>2, <1>3, <1>4, <1>5 DEF IInv

-----------------------------------------------------------------------------
(* What the operators on objects do.                                       *)

\* A merge patch of objects is an object.
LEMMA MergeType ==
  ASSUME NEW cur \in ProwJob, NEW src \in ProwJob, NEW dst \in ProwJob
  PROVE  MergePatch(cur, src, dst) \in ProwJob
  BY DEF MergePatch, ProwJob

\* A patch made from a snapshot that is right about state and completion sets both as
\* intended.
LEMMA MergeEffect ==
  ASSUME NEW cur \in ProwJob, NEW src \in ProwJob, NEW dst \in ProwJob,
         src.state = cur.state, src.complete = cur.complete
  PROVE  /\ MergePatch(cur, src, dst).state = dst.state
         /\ MergePatch(cur, src, dst).complete = dst.complete
  BY DEF MergePatch, ProwJob

\* The objects that plank patches a ProwJob to.
LEMMA Destinations ==
  ASSUME TypeOK, NEW p \in PJ
  PROVE  /\ \A st \in Terminal : /\ Finished(p, st) \in ProwJob
                                 /\ Finished(p, st).state = st
                                 /\ Finished(p, st).complete
         /\ Aborted(p) \in ProwJob /\ Aborted(p).state = "aborted" /\ Aborted(p).complete
         /\ \A b \in Nat : /\ Pending(p, b) \in ProwJob
                           /\ Pending(p, b).state = "pending"
                           /\ Pending(p, b).complete = snap[p].complete
                           /\ [snap[p] EXCEPT !.buildID = b] \in ProwJob
                           /\ [snap[p] EXCEPT !.buildID = b].state = snap[p].state
                           /\ [snap[p] EXCEPT !.buildID = b].complete = snap[p].complete
  <1>1. snap[p] \in ProwJob
    BY DEF TypeOK, PlankTypeOK
  <1>2. Terminal \subseteq ProwJobState /\ "pending" \in ProwJobState /\ "aborted" \in ProwJobState
    BY DEF Terminal, ProwJobState
  <1> QED BY Zenon, <1>1, <1>2 DEF Finished, Aborted, Pending, ProwJob

\* The sorted lists of a set of ProwJobs.
LEMMA SortedLists ==
  ASSUME NEW S \in SUBSET PJ, NEW s \in SortedByCreation(S)
  PROVE  /\ s \in Seq(PJ)
         /\ \A i \in DOMAIN s : s[i] \in S
         /\ \A i, j \in DOMAIN s : s[i] = s[j] => i = j
  <1>1. PICK n \in 0..Cardinality(S) :
          s \in [1..n -> S] /\ \A i, j \in 1..n : s[i] = s[j] => i = j
    BY DEF SortedByCreation
  <1>2. n \in Nat
    OBVIOUS
  <1> QED BY <1>1, <1>2

-----------------------------------------------------------------------------
(* Every step preserves the invariant.                                     *)

LEMMA EnvironmentStep ==
  ASSUME IInv, ClusterNext, UNCHANGED plankVars
  PROVE  IInv'
  <1> USE DEF IInv, plankVars
  <1>1. PICK p \in PJ : CreateProwJob(p) \/ PodProgress(p) \/ PodStuck(p) \/ PodDisrupted(p)
    BY DEF ClusterNext
  <1>2. CASE CreateProwJob(p)
    <2>1. NewProwJob \in ProwJob /\ NewProwJob.state = "triggered" /\ ~NewProwJob.complete
      BY Zenon DEF NewProwJob, NoProwJob, ProwJob, ProwJobState
    <2>2. TypeOK'
      BY <1>2, <2>1 DEF CreateProwJob, TypeOK, ClusterTypeOK, PlankTypeOK
    <2>3. ObjectsInv'
      BY <1>2, <2>1 DEF CreateProwJob, ObjectsInv, Consistent, Terminal, TypeOK, ClusterTypeOK
    <2>4. \A q \in PJ : q # p => pj'[q] = pj[q]
      BY <1>2 DEF CreateProwJob, TypeOK, ClusterTypeOK
    <2>5. ~ (Listed(p) /\ Agree(p))
      BY <1>2 DEF CreateProwJob, Listed, Agree, ProwJobState, Terminal
    <2>6. \A q \in PJ : Listed(q) /\ Agree(q) => Agree(q)'
      BY <2>4, <2>5 DEF Agree
    <2>7. ListInv'
      BY <2>6 DEF ListInv, Listed
    <2>8. DupesInv'
      BY DEF DupesInv, Listed, Survives
    <2>9. WorkInv'
      BY <2>6 DEF WorkInv, Listed, ProwJobState
    <2> QED BY <2>2, <2>3, <2>7, <2>8, <2>9
  <1>3. CASE PodProgress(p) \/ PodStuck(p) \/ PodDisrupted(p)
    <2>0. pod' \in [PJ -> Pod]
      <3> USE DEF TypeOK, ClusterTypeOK
      <3>1. ASSUME NEW ph \in Phase, SetPhase(p, ph) PROVE pod' \in [PJ -> Pod]
        BY Zenon, <3>1 DEF SetPhase, Pod
      <3>2. CASE PodProgress(p)
        BY <1>3, <3>1, <3>2 DEF PodProgress, Phase
      <3>3. CASE PodStuck(p)
        BY Zenon, <3>3 DEF PodStuck, Pod
      <3>4. NoPod \in Pod
        BY DEF NoPod, Pod, Phase
      <3>5. CASE PodDisrupted(p)
        BY <3>1, <3>4, <3>5 DEF PodDisrupted, Phase
      <3> QED BY <1>3, <3>2, <3>3, <3>5
    <2>1. pod' \in [PJ -> Pod] /\ UNCHANGED <<pj, builds, faults>> /\ disrupted' \in 0..MaxDisruptions
      BY <1>3, <2>0, ClusterAssumption DEF PodProgress, PodStuck, PodDisrupted, TypeOK, ClusterTypeOK
    <2>2. TypeOK'
      BY <2>1 DEF TypeOK, ClusterTypeOK, PlankTypeOK
    <2> QED
      BY <2>1, <2>2 DEF ObjectsInv, ListInv, DupesInv, WorkInv, Listed, Agree, Consistent, Survives
  <1> QED BY <1>1, <1>2, <1>3

LEMMA ListStep ==
  ASSUME IInv, ListProwJobs \/ ListPods, UNCHANGED disrupted
  PROVE  IInv'
  <1> USE DEF IInv, clusterVars
  <1>1. CASE ListProwJobs
    <2> USE <1>1 DEF ListProwJobs
    <2>1. PICK S \in SUBSET PJ : S = {p \in PJ : Exists(p)}
      OBVIOUS
    <2>2. jobs' \in SortedByCreation(S)
      BY <2>1
    <2>3. jobs' \in Seq(PJ) /\ (\A i \in DOMAIN jobs' : jobs'[i] \in S) /\ (\A i, j \in DOMAIN jobs' : jobs'[i] = jobs'[j] => i = j)
      BY <2>2, SortedLists
    <2>4. TypeOK'
      BY <2>3 DEF TypeOK, ClusterTypeOK, PlankTypeOK
    <2>5. ListInv'
      BY <2>1, <2>3 DEF ListInv, Listed, Agree, Exists
    <2>6. ObjectsInv' /\ DupesInv' /\ WorkInv'
      BY DEF ObjectsInv, DupesInv, WorkInv
    <2> QED BY <2>4, <2>5, <2>6
  <1>2. CASE ListPods
    <2> USE <1>2 DEF ListPods
    <2>1. PICK failed \in SUBSET BuildClients :
            /\ Fault(Cardinality(failed))
            /\ pm' = [p \in PJ |-> IF SpecOf[p].cluster \in BuildClients \ failed THEN pod[p] ELSE NoPod]
      OBVIOUS
    <2>3. faults' \in 0..MaxFaults
      BY <2>1 DEF Fault
    <2>4. pm' \in [PJ -> Pod]
      BY <2>1 DEF NoPod, Pod, Phase, TypeOK, ClusterTypeOK
    <2>5. TypeOK'
      BY <2>3, <2>4 DEF TypeOK, ClusterTypeOK, PlankTypeOK
    <2> QED
      BY <2>5 DEF ObjectsInv, ListInv, DupesInv, WorkInv, Listed, Agree, Consistent, Survives
  <1> QED BY <1>1, <1>2

\* The locals of Sync are reset when it ends and when plank crashes.
LEMMA ResetStep ==
  ASSUME IInv, EndSync, UNCHANGED <<pj, pod, builds, github, disrupted>>, faults' \in 0..MaxFaults
  PROVE  IInv'
  <1> USE DEF IInv, EndSync
  <1>0. NoProwJob \in ProwJob /\ NoPod \in Pod /\ Consistent(NoProwJob) /\ NoProwJob.state \notin ProwJobState
    BY DEF NoProwJob, ProwJob, NoPod, Pod, Phase, Consistent, Terminal, ProwJobState
  <1>1. TypeOK'
    BY <1>0 DEF TypeOK, ClusterTypeOK, PlankTypeOK
  <1>2. ObjectsInv'
    BY <1>0 DEF ObjectsInv
  <1>3. ListInv'
    BY DEF ListInv
  <1>4. DupesInv'
    BY DEF DupesInv
  <1>5. WorkInv'
    BY DEF WorkInv
  <1> QED BY <1>1, <1>2, <1>3, <1>4, <1>5

LEMMA DeleteEffect ==
  ASSUME TypeOK, NEW p \in PJ, DeleteOK(p) \/ DeleteFails(p)
  PROVE  pod' \in [PJ -> Pod] /\ faults' \in 0..MaxFaults
  <1>1. NoPod \in Pod
    BY DEF NoPod, Pod, Phase
  <1>2. pod' = pod \/ pod' = [pod EXCEPT ![p] = NoPod]
    BY DEF DeleteOK, DeleteFails
  <1>3. faults' = faults \/ Fault(1)
    BY DEF DeleteOK, DeleteFails, NoFault
  <1> QED BY <1>1, <1>2, <1>3, ClusterAssumption DEF Fault, TypeOK, ClusterTypeOK

LEMMA PatchFailsEffect ==
  ASSUME TypeOK, ~LostReplies, NEW p \in PJ, NEW src, NEW dst, PatchFails(p, src, dst)
  PROVE  pj' = pj /\ faults' \in 0..MaxFaults
  BY ClusterAssumption DEF PatchFails, Fault, NoFault, TypeOK, ClusterTypeOK

LEMMA StartPendingStep ==
  ASSUME IInv, pc = "dupes", StartPending, UNCHANGED <<pj, disrupted>>, faults' \in 0..MaxFaults
  PROVE  IInv'
  <1> USE DEF IInv, StartPending
  <1>1. TypeOK'
    BY DEF TypeOK, ClusterTypeOK, PlankTypeOK
  <1>2. ObjectsInv' /\ ListInv' /\ DupesInv'
    BY DEF ObjectsInv, ListInv, DupesInv, Consistent, Listed, Agree
  <1>3. \A p \in PJ : snap[p].state \in {"triggered", "pending"} => Agree(p)'
    BY DEF ListInv, ObjectsInv, Consistent, Listed, ProwJobState, Terminal, Agree
  <1>4. WorkInv'
    BY <1>3 DEF WorkInv
  <1> QED BY <1>1, <1>2, <1>4

\* terminateDupes moves on to the next ProwJob, or to the patch of one.
LEMMA DupesFrame ==
  ASSUME TypeOK, ObjectsInv, ListInv, WorkInv, pc = "dupes", UNCHANGED <<pj, snap, jobs, pc, work, dest>>
  PROVE  ObjectsInv' /\ ListInv' /\ WorkInv'
  <1>1. ObjectsInv'
    BY DEF ObjectsInv, Consistent
  <1>2. ListInv'
    BY DEF ListInv, Listed, Agree
  <1>3. WorkInv'
    BY DEF WorkInv
  <1> QED BY <1>1, <1>2, <1>3

LEMMA ScanIndex ==
  ASSUME TypeOK, DupesInv, scan <= Len(jobs)
  PROVE  scan \in DOMAIN jobs /\ jobs[scan] \in PJ /\ scan \in Nat /\ DOMAIN jobs \subseteq Nat
  <1>1. jobs \in Seq(PJ) /\ scan \in Nat \ {0}
    BY DEF TypeOK, PlankTypeOK, DupesInv
  <1> QED BY <1>1

LEMMA DupePassStep ==
  ASSUME IInv, UNCHANGED disrupted, DupePass
  PROVE  IInv'
  <1> DEFINE p == jobs[scan]
  <1>0. TypeOK /\ ObjectsInv /\ ListInv /\ DupesInv /\ WorkInv
    BY DEF IInv
  <1>1. /\ dupes' = dupes \/ (Cancellable(p) /\ dupes' = dupes \cup {p})
        /\ scan' = scan + 1 /\ scan <= Len(jobs) /\ cancel = None /\ pc = "dupes"
        /\ UNCHANGED <<pj, pod, builds, faults, pc, jobs, snap, pm, cancel, pendingJobs, work, dest, report, github>>
    BY DEF DupePass, clusterVars
  <1>2. scan \in DOMAIN jobs /\ p \in PJ /\ scan \in Nat /\ DOMAIN jobs \subseteq Nat
    BY <1>0, <1>1, ScanIndex
  <1>3. Listed(p)
    BY <1>0, <1>2 DEF ListInv
  <1>4. TypeOK'
    <2>1. dupes' \subseteq PJ
      BY <1>0, <1>1, <1>2 DEF TypeOK, PlankTypeOK
    <2>2. ClusterTypeOK'
      BY <1>0, <1>1 DEF TypeOK, ClusterTypeOK
    <2> QED BY <1>0, <1>1, <1>2, <2>1, <2>2 DEF TypeOK, PlankTypeOK
  <1>5. ObjectsInv' /\ ListInv' /\ WorkInv'
    BY <1>0, <1>1, DupesFrame
  <1>6. DupesInv'
    <2>1. \A i \in DOMAIN jobs : i > scan => jobs[i] # p /\ jobs[i] \notin dupes
      BY <1>0, <1>2 DEF ListInv, DupesInv
    <2>2. \A q \in dupes' : Listed(q) /\ ~snap[q].complete
      BY <1>0, <1>1, <1>3 DEF DupesInv, Cancellable
    <2>3. \A i \in DOMAIN jobs : i >= scan' => jobs[i] \notin dupes'
      BY <1>1, <1>2, <2>1
    <2>4. \A q \in dupes' : Listed(q)' /\ ~snap'[q].complete
      BY <1>1, <2>2 DEF Listed
    <2>5. scan' \in Nat \ {0} /\ cancel' = None /\ pc' = "dupes"
      BY <1>1, <1>2
    <2>6. \A i \in DOMAIN jobs' : i > scan' \/ (i = scan' /\ cancel' = None) => jobs'[i] \notin dupes'
      BY <1>1, <1>2, <2>3
    <2> QED BY <2>4, <2>5, <2>6 DEF DupesInv
  <1> QED BY <1>4, <1>5, <1>6 DEF IInv

LEMMA DupeCleanupStep ==
  ASSUME IInv, ~LostReplies, UNCHANGED disrupted, DupeCleanup
  PROVE  IInv'
  <1> DEFINE p == jobs[scan]
  <1>0. TypeOK /\ ObjectsInv /\ ListInv /\ DupesInv /\ WorkInv
    BY DEF IInv
  <1>1. PICK q \in Rivals(p) :
          /\ cancel' = Victim(q, p)
          /\ dupes' = (dupes \cup {p}) \ {Victim(q, p)}
          /\ \/ DeleteOK(Victim(q, p)) \/ DeleteFails(Victim(q, p))
             \/ UNCHANGED <<pod, faults>>
    BY DEF DupeCleanup
  <1>2. /\ Cancellable(p) /\ scan <= Len(jobs) /\ cancel = None /\ pc = "dupes"
        /\ UNCHANGED <<pj, builds, pc, jobs, snap, pm, scan, pendingJobs, work, dest, report, github>>
    BY DEF DupeCleanup
  <1>3. scan \in DOMAIN jobs /\ p \in PJ /\ scan \in Nat /\ DOMAIN jobs \subseteq Nat
    BY <1>0, <1>2, ScanIndex
  <1>4. Listed(p) /\ ~snap[p].complete /\ p \notin dupes
    BY <1>0, <1>2, <1>3 DEF ListInv, DupesInv, Cancellable
  <1>5. q \in dupes /\ Ident(q) = Ident(p)
    BY <1>1 DEF Rivals
  <1>6. q \in PJ /\ Listed(q) /\ ~snap[q].complete /\ q # p
    BY <1>0, <1>4, <1>5 DEF DupesInv, TypeOK, PlankTypeOK
  <1>7. PICK v \in PJ : v = Victim(q, p) /\ v \in {p, q}
    BY <1>3, <1>6 DEF Victim
  <1>8. cancel' = v /\ dupes' = (dupes \cup {p}) \ {v}
    BY <1>1, <1>7
  <1>9. pod' \in [PJ -> Pod] /\ faults' \in 0..MaxFaults
    <2>1. DeleteOK(v) \/ DeleteFails(v) \/ UNCHANGED <<pod, faults>>
      BY <1>1, <1>7
    <2> QED BY <1>0, <2>1, DeleteEffect DEF TypeOK, ClusterTypeOK
  <1>10. TypeOK'
    <2>1. dupes' \subseteq PJ /\ cancel' \in PJ
      BY <1>0, <1>3, <1>8 DEF TypeOK, PlankTypeOK
    <2>2. ClusterTypeOK'
      BY <1>0, <1>2, <1>9 DEF TypeOK, ClusterTypeOK
    <2> QED BY <1>0, <1>2, <2>1, <2>2 DEF TypeOK, PlankTypeOK
  <1>11. ObjectsInv' /\ ListInv' /\ WorkInv'
    BY <1>0, <1>2, DupesFrame
  <1>12. \E o \in dupes' : Survives(o, v)
    <2>1. Started[p] \in Nat /\ Started[q] \in Nat
      BY <1>3, <1>6, ClusterAssumption
    <2>2. CASE Started[q] < Started[p]
      <3>1. v = q /\ p \in dupes' /\ Started[p] >= Started[q]
        BY <1>6, <1>7, <1>8, <2>1, <2>2 DEF Victim
      <3> QED BY <1>5, <1>6, <3>1 DEF Survives
    <2>3. CASE ~(Started[q] < Started[p])
      <3>1. v = p /\ q \in dupes' /\ Started[q] >= Started[p]
        BY <1>5, <1>6, <1>7, <1>8, <2>1, <2>3 DEF Victim
      <3> QED BY <1>5, <1>6, <3>1 DEF Survives
    <2> QED BY <2>2, <2>3
  <1>13. DupesInv'
    <2>1. \A i \in DOMAIN jobs : i > scan => jobs[i] # p /\ jobs[i] \notin dupes
      <3>1. \A i \in DOMAIN jobs : i > scan => jobs[i] \notin dupes
        BY <1>0 DEF DupesInv
      <3>2. \A i \in DOMAIN jobs : i # scan => jobs[i] # p
        BY <1>0, <1>3 DEF ListInv
      <3> QED BY <1>3, <3>1, <3>2
    <2>2. \A i \in DOMAIN jobs' : i > scan' => jobs'[i] \notin dupes'
      BY <1>2, <1>8, <2>1
    <2>3. cancel' # None /\ cancel' \notin dupes'
      BY <1>7, <1>8, PlankAssumption
    <2>4. \A o \in dupes' : Listed(o)' /\ ~snap'[o].complete
      BY Zenon, <1>0, <1>2, <1>4, <1>8 DEF DupesInv, Listed
    <2>5. Listed(v)' /\ ~snap'[v].complete
      BY <1>2, <1>4, <1>6, <1>7 DEF Listed
    <2>6. (\E o \in dupes : Survives(o, cancel))'
      BY <1>8, <1>12 DEF Survives, Ident
    <2>7. scan' \in Nat \ {0} /\ pc' = "dupes"
      BY <1>0, <1>2 DEF DupesInv
    <2> QED BY <1>8, <2>2, <2>3, <2>4, <2>5, <2>6, <2>7 DEF DupesInv
  <1> QED BY <1>10, <1>11, <1>13 DEF IInv

LEMMA DupePatchStep ==
  ASSUME IInv, UNCHANGED disrupted, DupePatch
  PROVE  IInv'
  <1>0. TypeOK /\ ObjectsInv /\ ListInv /\ DupesInv /\ WorkInv
    BY DEF IInv
  <1>1. /\ pc = "dupes" /\ cancel # None /\ PatchOK(cancel, snap[cancel], Aborted(cancel))
        /\ snap' = [snap EXCEPT ![cancel] = pj'[cancel]]
        /\ cancel' = None /\ scan' = scan + 1
        /\ UNCHANGED <<pod, builds, pc, jobs, pm, dupes, pendingJobs, work, dest, report, github>>
    BY DEF DupePatch
  <1>2. cancel \in PJ /\ Listed(cancel) /\ ~snap[cancel].complete /\ cancel \notin dupes
    BY <1>0, <1>1 DEF DupesInv, TypeOK, PlankTypeOK
  <1>3. pj[cancel] \in ProwJob /\ snap[cancel] \in ProwJob
    BY <1>0, <1>2 DEF TypeOK, ClusterTypeOK, PlankTypeOK
  <1> DEFINE new == MergePatch(pj[cancel], snap[cancel], Aborted(cancel))
  <1>4. new \in ProwJob /\ new.state = "aborted" /\ new.complete
    <2>1. Aborted(cancel) \in ProwJob /\ Aborted(cancel).state = "aborted" /\ Aborted(cancel).complete
      BY <1>0, <1>2, Destinations
    <2>2. new \in ProwJob
      BY <1>3, <2>1, MergeType
    <2>3. snap[cancel].state = pj[cancel].state /\ snap[cancel].complete = pj[cancel].complete
      BY <1>0, <1>1, <1>2 DEF ListInv, Agree
    <2>4. new.state = Aborted(cancel).state /\ new.complete = Aborted(cancel).complete
      BY Zenon, <1>3, <2>1, <2>3, MergeEffect
    <2> QED BY <2>1, <2>2, <2>4
  <1>5. pj' = [pj EXCEPT ![cancel] = new] /\ faults' = faults
    BY <1>1 DEF PatchOK, NoFault
  <1> HIDE DEF new
  <1>6. snap' = [snap EXCEPT ![cancel] = new]
    BY <1>0, <1>1, <1>2, <1>5 DEF TypeOK, ClusterTypeOK
  <1>7. TypeOK'
    <2>1. ClusterTypeOK'
      BY Zenon, <1>0, <1>1, <1>4, <1>5 DEF TypeOK, ClusterTypeOK
    <2>2. scan' \in Nat /\ cancel' \in PJ \cup {None} /\ snap' \in [PJ -> ProwJob]
      <3>1. scan \in Nat /\ snap \in [PJ -> ProwJob]
        BY <1>0 DEF TypeOK, PlankTypeOK
      <3>2. snap' \in [PJ -> ProwJob]
        BY <1>2, <1>4, <1>6, <3>1
      <3> QED BY <1>1, <3>1, <3>2
    <2> QED BY <1>0, <1>1, <2>1, <2>2 DEF TypeOK, PlankTypeOK
  <1>8. /\ \A p \in PJ \ {cancel} : pj'[p] = pj[p] /\ snap'[p] = snap[p]
        /\ pj'[cancel] = new /\ snap'[cancel] = new
    BY <1>0, <1>2, <1>5, <1>6 DEF TypeOK, ClusterTypeOK, PlankTypeOK
  <1>9. ObjectsInv'
    BY <1>0, <1>4, <1>8 DEF ObjectsInv, Consistent, Terminal
  <1>10. \A p \in PJ : Listed(p) => Listed(p)'
    BY <1>4, <1>8 DEF Listed, ProwJobState, Terminal
  <1>11. ListInv'
    <2>1. \A p \in PJ : (Listed(p) /\ ~snap[p].complete)' => Agree(p)'
      BY <1>0, <1>1, <1>8 DEF Listed, Agree, ListInv
    <2>2. \A i \in DOMAIN jobs : jobs[i] \in PJ
      BY <1>0 DEF TypeOK, PlankTypeOK
    <2> QED BY <1>0, <1>1, <1>10, <2>1, <2>2 DEF ListInv
  <1>12. DupesInv'
    <2>1. \A q \in dupes' : Listed(q)' /\ ~snap'[q].complete
      BY <1>0, <1>1, <1>2, <1>8, <1>10 DEF DupesInv, TypeOK, PlankTypeOK
    <2>2. DOMAIN jobs \subseteq Nat /\ scan \in Nat
      BY <1>0 DEF TypeOK, PlankTypeOK
    <2>3. \A i \in DOMAIN jobs' : i > scan' \/ (i = scan' /\ cancel' = None) => jobs'[i] \notin dupes'
      <3>1. \A i \in DOMAIN jobs : i > scan => jobs[i] \notin dupes
        BY <1>0 DEF DupesInv
      <3>2. jobs' = jobs /\ dupes' = dupes /\ scan' = scan + 1
        BY <1>1
      <3> QED BY <2>2, <3>1, <3>2
    <2>4. scan' \in Nat \ {0} /\ pc' = "dupes" /\ cancel' = None
      BY <1>1, <2>2
    <2> QED BY <2>1, <2>3, <2>4 DEF DupesInv
  <1>13. WorkInv'
    BY <1>0, <1>1 DEF WorkInv
  <1> QED BY <1>7, <1>9, <1>11, <1>12, <1>13 DEF IInv

LEMMA DupeStep ==
  ASSUME IInv, ~LostReplies, UNCHANGED disrupted,
         DupePass \/ DupeCleanup \/ DupePatch \/ DupePatchFails \/ DupesDone
  PROVE  IInv'
  <1>1. TypeOK
    BY DEF IInv
  <1>2. CASE DupePatchFails
    <2>1. cancel \in PJ
      BY <1>1, <1>2 DEF DupePatchFails, TypeOK, PlankTypeOK
    <2>2. pj' = pj /\ faults' \in 0..MaxFaults
      BY <1>1, <1>2, <2>1, PatchFailsEffect DEF DupePatchFails
    <2> QED BY <1>2, <2>2, StartPendingStep DEF DupePatchFails
  <1>3. CASE DupesDone
    BY <1>1, <1>3, StartPendingStep DEF DupesDone, TypeOK, ClusterTypeOK
  <1> QED BY <1>2, <1>3, DupePassStep, DupeCleanupStep, DupePatchStep

\* What a goroutine does up to the patch changes no ProwJob.
LEMMA GoroutineStep ==
  ASSUME IInv, NEW p \in PJ, work[p] = "queued",
         UNCHANGED <<pj, pc, locals, github, disrupted>>,
         pod' \in [PJ -> Pod], builds' \in [PJ -> Nat], faults' \in 0..MaxFaults,
         pendingJobs' \subseteq PJ,
         Done(p) \/ \E d \in ProwJob : /\ Consistent(d) /\ d.state \in Progressed
                                       /\ ReportAndPatch(p, d)
  PROVE  IInv'
  <1> USE DEF IInv, locals
  <1>0. /\ work' \in [PJ -> {"idle", "queued", "patch"}]
        /\ dest' \in [PJ -> ProwJob]
        /\ report' \in [PJ -> ProwJobState \cup {"none"}]
        /\ \A q \in PJ : q # p => work'[q] = work[q] /\ dest'[q] = dest[q]
        /\ work'[p] = "patch" => Consistent(dest'[p]) /\ dest'[p].state \in Progressed
    <2>1. CASE Done(p)
      BY <2>1 DEF Done, TypeOK, PlankTypeOK
    <2>2. ASSUME NEW d \in ProwJob, Consistent(d), d.state \in Progressed, ReportAndPatch(p, d)
          PROVE  <1>0!:
      BY <2>2 DEF ReportAndPatch, TypeOK, PlankTypeOK, Progressed, ProwJobState
    <2> QED BY <2>1, <2>2
  <1>1. TypeOK'
    BY <1>0 DEF TypeOK, ClusterTypeOK, PlankTypeOK
  <1>2. ObjectsInv' /\ ListInv' /\ DupesInv'
    BY DEF ObjectsInv, ListInv, DupesInv, Consistent, Listed, Agree, Survives
  <1>3. WorkInv'
    <2>1. \A q \in PJ : work'[q] # "idle" => work[q] # "idle"
      BY <1>0
    <2>2. \A q \in PJ : work'[q] = "patch" => Consistent(dest'[q]) /\ dest'[q].state \in Progressed
      BY <1>0 DEF WorkInv
    <2>3. \A q \in PJ : Agree(q)' <=> Agree(q)
      BY DEF Agree
    <2>4. pc \notin {"pending", "triggered"} => FALSE
      BY DEF WorkInv
    <2> QED BY <2>1, <2>2, <2>3, <2>4 DEF WorkInv
  <1> QED BY <1>1, <1>2, <1>3

LEMMA CountType ==
  ASSUME TypeOK, NEW p \in PJ, Count(p)
  PROVE  pendingJobs' \subseteq PJ
  BY DEF Count, TypeOK, PlankTypeOK

LEMMA StartPodEffect ==
  ASSUME TypeOK, NEW p \in PJ, StartPodOK(p) \/ StartPodInvalid(p) \/ StartPodFails(p)
  PROVE  /\ pod' \in [PJ -> Pod] /\ builds' \in [PJ -> Nat] /\ faults' \in 0..MaxFaults
         /\ builds'[p] \in Nat
  <1> USE DEF TypeOK, ClusterTypeOK
  <1>1. faults' \in 0..MaxFaults
    BY ClusterAssumption DEF StartPodOK, StartPodInvalid, StartPodFails, Fault, NoFault
  <1>2. CASE CreatePod(p)
    <2>1. [phase |-> "Pending", stuck |-> FALSE, build |-> builds[p] + 1] \in Pod
      BY DEF Pod, Phase
    <2> QED BY <1>1, <1>2, <2>1 DEF CreatePod
  <1>3. CASE ~CreatePod(p)
    <2>1. UNCHANGED <<pod, builds>>
      BY <1>3 DEF StartPodOK, StartPodInvalid, StartPodFails
    <2> QED BY <1>1, <2>1
  <1> QED BY <1>2, <1>3

LEMMA PendingStep ==
  ASSUME IInv, NEW p \in PJ, UNCHANGED disrupted,
         PendingRestart(p) \/ PendingReplace(p) \/ PendingFinish(p) \/ PendingTimeout(p) \/ PendingWait(p)
  PROVE  IInv'
  <1> USE DEF IInv
  <1>0. /\ work[p] = "queued" /\ pc = "pending" /\ Consistent(snap[p])
        /\ snap[p].state = "pending"
    BY DEF PendingRestart, PendingReplace, PendingFinish, PendingTimeout, PendingWait, Turn, WorkInv, ObjectsInv
  <1>1. \A st \in Terminal : /\ Finished(p, st) \in ProwJob /\ Consistent(Finished(p, st))
                             /\ Finished(p, st).state \in Progressed
    BY Destinations DEF Consistent, Progressed
  <1>2. CASE PendingRestart(p)
    <2> USE <1>2 DEF PendingRestart
    <2>1. pod' \in [PJ -> Pod] /\ builds' \in [PJ -> Nat] /\ faults' \in 0..MaxFaults /\ builds'[p] \in Nat
      BY StartPodEffect
    <2>2. pendingJobs' \subseteq PJ
      BY CountType
    <2> DEFINE d == [snap[p] EXCEPT !.buildID = builds'[p]]
    <2>3. d \in ProwJob /\ Consistent(d) /\ d.state \in Progressed
      BY <1>0, <2>1, Destinations DEF Consistent, Progressed
    <2>4. Done(p) \/ ReportAndPatch(p, d) \/ ReportAndPatch(p, Finished(p, "error"))
      OBVIOUS
    <2>5. "error" \in Terminal
      BY DEF Terminal
    <2> HIDE DEF d
    <2> QED BY <1>0, <1>1, <2>1, <2>2, <2>3, <2>4, <2>5, GoroutineStep
  <1>3. CASE PendingReplace(p)
    BY <1>0, <1>3, DeleteEffect, CountType, GoroutineStep DEF PendingReplace, TypeOK, ClusterTypeOK
  <1>4. CASE PendingFinish(p)
    <2>1. Outcome(pm[p].phase) \in Terminal
      BY <1>4 DEF PendingFinish, Outcome, Terminal
    <2> QED
      BY Zenon, <1>0, <1>1, <1>4, <2>1, GoroutineStep
      DEF PendingFinish, clusterVars, TypeOK, ClusterTypeOK, PlankTypeOK
  <1>5. CASE PendingTimeout(p)
    <2> DEFINE d == Finished(p, IF pm[p].phase = "Pending" THEN "error" ELSE "aborted")
    <2>1. d \in ProwJob /\ Consistent(d) /\ d.state \in Progressed
      BY <1>1 DEF Terminal
    <2>2. Done(p) \/ ReportAndPatch(p, d)
      BY <1>5 DEF PendingTimeout
    <2>3. pod' \in [PJ -> Pod] /\ faults' \in 0..MaxFaults
      BY <1>5, DeleteEffect DEF PendingTimeout
    <2> HIDE DEF d
    <2> QED
      BY Zenon, <1>0, <1>5, <2>1, <2>2, <2>3, GoroutineStep DEF PendingTimeout, TypeOK, ClusterTypeOK, PlankTypeOK
  <1>6. CASE PendingWait(p)
    BY <1>0, <1>6, CountType, GoroutineStep DEF PendingWait, clusterVars, TypeOK, ClusterTypeOK
  <1> QED BY <1>2, <1>3, <1>4, <1>5, <1>6

LEMMA TriggeredStep ==
  ASSUME IInv, NEW p \in PJ, UNCHANGED disrupted,
         TriggeredRefused(p) \/ TriggeredStart(p) \/ TriggeredAdopt(p)
  PROVE  IInv'
  <1> USE DEF IInv
  <1>0. /\ work[p] = "queued" /\ pc = "triggered" /\ Consistent(snap[p])
        /\ snap[p].state = "triggered"
    BY DEF TriggeredRefused, TriggeredStart, TriggeredAdopt, Turn, WorkInv, ObjectsInv
  <1>1. /\ Finished(p, "error") \in ProwJob /\ Consistent(Finished(p, "error"))
        /\ Finished(p, "error").state \in Progressed
    BY Destinations DEF Consistent, Progressed, Terminal
  <1>2. \A b \in Nat : Pending(p, b) \in ProwJob /\ Consistent(Pending(p, b)) /\ Pending(p, b).state \in Progressed
    BY Zenon, <1>0, Destinations DEF Consistent, Progressed, Terminal
  <1>3. CASE TriggeredRefused(p)
    BY Zenon, <1>0, <1>3, GoroutineStep
    DEF TriggeredRefused, clusterVars, TypeOK, ClusterTypeOK, PlankTypeOK
  <1>4. CASE TriggeredStart(p)
    <2> USE <1>4 DEF TriggeredStart
    <2>1. pod' \in [PJ -> Pod] /\ builds' \in [PJ -> Nat] /\ faults' \in 0..MaxFaults /\ builds'[p] \in Nat
      BY StartPodEffect
    <2>2. pendingJobs' \subseteq PJ
      BY CountType
    <2>3. Done(p) \/ ReportAndPatch(p, Pending(p, builds'[p])) \/ ReportAndPatch(p, Finished(p, "error"))
      OBVIOUS
    <2> QED BY Zenon, <1>0, <1>1, <1>2, <2>1, <2>2, <2>3, GoroutineStep
  <1>5. CASE TriggeredAdopt(p)
    <2>1. pm[p].build \in Nat
      BY DEF TypeOK, PlankTypeOK, Pod
    <2> QED
      BY Zenon, <1>0, <1>2, <1>5, <2>1, GoroutineStep
      DEF TriggeredAdopt, clusterVars, TypeOK, ClusterTypeOK, PlankTypeOK
  <1> QED BY Zenon, <1>3, <1>4, <1>5

\* The patch of a goroutine finds its ProwJob as the goroutine knew it.
LEMMA PatchedObject ==
  ASSUME IInv, NEW p \in PJ, work[p] = "patch"
  PROVE  /\ snap[p].state \in {"pending", "triggered"} /\ Agree(p)
         /\ MergePatch(pj[p], snap[p], dest[p]) \in ProwJob
         /\ MergePatch(pj[p], snap[p], dest[p]).state = dest[p].state
         /\ MergePatch(pj[p], snap[p], dest[p]).complete = dest[p].complete
         /\ Consistent(dest[p]) /\ dest[p].state \in Progressed
  <1>1. snap[p].state \in {"pending", "triggered"} /\ Agree(p)
    BY DEF IInv, WorkInv
  <1>2. pj[p] \in ProwJob /\ snap[p] \in ProwJob /\ dest[p] \in ProwJob
    BY DEF IInv, TypeOK, ClusterTypeOK, PlankTypeOK
  <1>3. snap[p].state = pj[p].state /\ snap[p].complete = pj[p].complete
    BY <1>1 DEF Agree
  <1>4. Consistent(dest[p]) /\ dest[p].state \in Progressed
    BY DEF IInv, WorkInv
  <1> QED BY ZenonT(30), <1>1, <1>2, <1>3, <1>4, MergeType, MergeEffect

LEMMA PatchStep ==
  ASSUME IInv, ~LostReplies, NEW p \in PJ, UNCHANGED disrupted, Patch(p)
  PROVE  IInv'
  <1> USE DEF IInv, Patch, locals
  <1> DEFINE new == MergePatch(pj[p], snap[p], dest[p])
  <1>1. new \in ProwJob /\ Consistent(new) /\ snap[p].state \in {"pending", "triggered"}
    BY PatchedObject DEF Consistent
  <1>2. pj' = pj \/ pj' = [pj EXCEPT ![p] = new]
    BY PatchFailsEffect DEF PatchOK
  <1>3. faults' \in 0..MaxFaults
    BY PatchFailsEffect DEF PatchOK, NoFault, TypeOK, ClusterTypeOK
  <1> HIDE DEF new
  <1>4. \A q \in PJ : q # p => pj'[q] = pj[q] /\ work'[q] = work[q] /\ dest'[q] = dest[q]
    BY <1>2 DEF TypeOK, ClusterTypeOK, PlankTypeOK
  <1>5. work'[p] = "idle"
    BY DEF TypeOK, PlankTypeOK
  <1>6. TypeOK'
    <2>1. NoProwJob \in ProwJob
      BY DEF NoProwJob, ProwJob
    <2> QED BY ZenonT(30), <1>1, <1>2, <1>3, <2>1 DEF TypeOK, ClusterTypeOK, PlankTypeOK
  <1>7. ObjectsInv'
    BY <1>1, <1>2, <1>4 DEF ObjectsInv, Consistent, TypeOK, ClusterTypeOK
  <1>8. pc \in {"pending", "triggered"}
    BY DEF WorkInv
  <1>9. ListInv' /\ DupesInv'
    BY <1>8 DEF ListInv, DupesInv, Listed, Survives
  <1>10. WorkInv'
    <2>1. \A q \in PJ : q # p /\ Agree(q) => Agree(q)'
      BY Zenon, <1>4 DEF Agree
    <2>2. pc = "pending" => snap[p].state = "pending"
      BY Zenon DEF WorkInv
    <2>3. \A q \in PJ : work'[q] # "idle" => q # p /\ work[q] # "idle"
      BY <1>4, <1>5
    <2>4. \A q \in PJ : work'[q] = "patch" => Consistent(dest'[q]) /\ dest'[q].state \in Progressed
      BY <1>4, <1>5 DEF WorkInv
    <2> QED BY <1>8, <2>1, <2>2, <2>3, <2>4 DEF WorkInv
  <1> QED BY <1>6, <1>7, <1>9, <1>10

-----------------------------------------------------------------------------
(* The theorems.                                                           *)

LEMMA PhaseStep ==
  ASSUME IInv, UNCHANGED disrupted, StartTriggered \/ StartReports \/ \E p \in PJ : Report(p)
  PROVE  IInv'
  <1> USE DEF IInv, locals, clusterVars
  <1>1. CASE StartTriggered
    <2> USE <1>1 DEF StartTriggered, AllIdle
    <2>1. TypeOK'
      <3>1. ClusterTypeOK'
        BY DEF TypeOK, ClusterTypeOK
      <3>2. work' \in [PJ -> {"idle", "queued", "patch"}]
        OBVIOUS
      <3> QED BY <3>1, <3>2 DEF TypeOK, PlankTypeOK
    <2>2. ObjectsInv' /\ ListInv' /\ DupesInv'
      BY DEF ObjectsInv, ListInv, DupesInv, Consistent, Listed, Agree
    <2>3. WorkInv'
      BY DEF WorkInv, Agree, Consistent
    <2> QED BY <2>1, <2>2, <2>3
  <1>2. CASE StartReports
    <2> USE <1>2 DEF StartReports, AllIdle
    <2>1. TypeOK'
      BY DEF TypeOK, ClusterTypeOK, PlankTypeOK
    <2> QED BY Zenon, <2>1 DEF ObjectsInv, ListInv, DupesInv, WorkInv, Consistent, Listed, Agree
  <1>3. ASSUME NEW p \in PJ, Report(p) PROVE IInv'
    <2> USE <1>3 DEF Report
    <2>1. PICK lost \in SUBSET {"report", "update"} :
            /\ Fault(Cardinality(lost))
            /\ github' = IF "report" \in lost THEN github ELSE [github EXCEPT ![p] = report[p]]
            /\ pj' = IF "update" \in lost \/ ~Exists(p) THEN pj ELSE [pj EXCEPT ![p].prev = pj[p].state]
      OBVIOUS
    <2>3. faults' \in 0..MaxFaults
      BY <2>1 DEF Fault
    <2>4. /\ pj' \in [PJ -> ProwJob]
          /\ \A q \in PJ : pj'[q].state = pj[q].state /\ pj'[q].complete = pj[q].complete
      BY <2>1 DEF Exists, ProwJob, TypeOK, ClusterTypeOK
    <2>5. github' \in [PJ -> ProwJobState \cup {"none"}] /\ report' \in [PJ -> ProwJobState \cup {"none"}]
      BY <2>1 DEF TypeOK, PlankTypeOK
    <2>6. TypeOK'
      <3>1. ClusterTypeOK'
        BY <2>3, <2>4 DEF TypeOK, ClusterTypeOK
      <3> QED BY <2>5, <3>1 DEF TypeOK, PlankTypeOK
    <2>7. ObjectsInv'
      BY <2>4 DEF ObjectsInv, Consistent
    <2> QED BY <2>6, <2>7 DEF ListInv, DupesInv, WorkInv, Listed, Consistent
  <1> QED BY <1>1, <1>2, <1>3

LEMMA NextIInv ==
  ASSUME ~LostReplies, IInv, [Next]_vars
  PROVE  IInv'
  <1>1. CASE UNCHANGED vars
    <2> USE <1>1 DEF vars, clusterVars, plankVars, IInv
    <2>1. TypeOK'
      <3>1. ClusterTypeOK'
        BY DEF TypeOK, ClusterTypeOK
      <3> QED BY <3>1 DEF TypeOK, PlankTypeOK
    <2>2. ObjectsInv' /\ ListInv'
      BY DEF ObjectsInv, ListInv, Consistent, Listed, Agree
    <2>3. DupesInv'
      BY DEF DupesInv, Listed, Survives
    <2>4. WorkInv'
      BY DEF WorkInv, Agree, Consistent
    <2> QED BY <2>1, <2>2, <2>3, <2>4
  <1>2. CASE ClusterNext /\ UNCHANGED plankVars
    BY <1>2, EnvironmentStep
  <1>3. CASE Sync /\ UNCHANGED disrupted
    <2> USE <1>3
    <2>1. CASE ListProwJobs \/ ListPods
      BY <2>1, ListStep
    <2>2. CASE DupePass \/ DupeCleanup \/ DupePatch \/ DupePatchFails \/ DupesDone
      BY <2>2, DupeStep
    <2>3. ASSUME NEW p \in PJ, SyncJob(p) PROVE IInv'
      BY <2>3, PendingStep, TriggeredStep, PatchStep DEF SyncJob
    <2>4. CASE StartTriggered \/ StartReports \/ \E p \in PJ : Report(p)
      BY <2>4, PhaseStep
    <2>5. CASE SyncDone
      BY <2>5, ResetStep DEF SyncDone, clusterVars, IInv, TypeOK, ClusterTypeOK
    <2> QED BY <2>1, <2>2, <2>3, <2>4, <2>5 DEF Sync
  <1>4. CASE Crash /\ UNCHANGED disrupted
    <2>1. faults' \in 0..MaxFaults
      BY <1>4, ClusterAssumption DEF Crash, Fault, IInv, TypeOK, ClusterTypeOK
    <2> QED BY <1>4, <2>1, ResetStep DEF Crash
  <1> QED BY <1>1, <1>2, <1>3, <1>4 DEF Next, PlankNext

\* IInv is an invariant of plank's Sync, whatever the number of ProwJobs, faults and goroutines,
\* as long as no reply of the API server is lost.
THEOREM Invariance ==
  ASSUME ~LostReplies
  PROVE  Spec => []IInv
  <1>1. Init => IInv
    BY InitIInv
  <1>2. IInv /\ [Next]_vars => IInv'
    BY NextIInv
  <1> QED BY <1>1, <1>2, PTL DEF Spec

\* Type correctness of plank (Controller) and of the API objects it works on.
THEOREM TypeCorrect ==
  ASSUME ~LostReplies
  PROVE  Spec => []TypeOK
  <1>1. IInv => TypeOK
    BY DEF IInv
  <1> QED BY <1>1, Invariance, PTL

\* A ProwJob has a completion time exactly when its state is final, in spite of the three
\* places that set the two fields and of the merge patches made from snapshots.
THEOREM CompletionConsistent ==
  ASSUME ~LostReplies
  PROVE  Spec => []CompleteIffTerminal
  <1>1. IInv => CompleteIffTerminal
    BY DEF IInv, ObjectsInv, Consistent, CompleteIffTerminal
  <1> QED BY <1>1, Invariance, PTL

\* PartitionActive's filter by state does filter out every complete ProwJob.
THEOREM FilterCorrect ==
  ASSUME ~LostReplies
  PROVE  Spec => []CompleteFilteredOut
  <1>1. IInv => CompleteFilteredOut
    <2> SUFFICES ASSUME IInv, NEW p \in PJ, work[p] = "queued"
                 PROVE  ~snap[p].complete
      BY DEF CompleteFilteredOut
    <2>1. snap[p].state \in {"pending", "triggered"}
      BY DEF IInv, WorkInv
    <2> QED BY <2>1 DEF IInv, ObjectsInv, Consistent, Terminal
  <1> QED BY <1>1, Invariance, PTL

-----------------------------------------------------------------------------
(* What a step of plank or of its environment does to the ProwJobs.        *)

\* The state and the completion of p become those of object o, nothing else happens.
Becomes(p, o) ==
  /\ o \in ProwJob /\ pj' = [pj EXCEPT ![p] = o]
  /\ UNCHANGED builds

SameProwJobs ==
  /\ pj' \in [PJ -> ProwJob]
  /\ \A q \in PJ : pj'[q].state = pj[q].state /\ pj'[q].complete = pj[q].complete

Effect ==
  \/ SameProwJobs /\ UNCHANGED builds
  \/ \E p \in PJ : CreateProwJob(p)
  \/ \E p \in PJ, o \in ProwJob :
       /\ Becomes(p, o) /\ Consistent(o)
       /\ pj[p].state \in {"triggered", "pending"} /\ o.state \in Progressed
       /\ pc = "dupes" => \E q \in PJ \ {p} : /\ Survives(q, p) /\ Exists(q) /\ ~pj[q].complete
  \/ \E p \in PJ : CreatePod(p) /\ UNCHANGED pj /\ pj[p].state \in {"triggered", "pending"}

LEMMA DupePatchEffect ==
  ASSUME IInv, DupePatch
  PROVE  Effect
  <1> USE DEF IInv
  <1>1. /\ cancel \in PJ /\ pc = "dupes" /\ Listed(cancel) /\ ~snap[cancel].complete
        /\ \E q \in dupes : Survives(q, cancel)
    BY DEF DupePatch, DupesInv, TypeOK, PlankTypeOK
  <1>2. Agree(cancel)
    BY <1>1 DEF ListInv
  <1>3. pj[cancel].state \in {"triggered", "pending"}
    BY <1>1, <1>2 DEF Agree, Listed, ProwJobState, ObjectsInv, Consistent
  <1>4. PICK q \in dupes : Survives(q, cancel)
    BY <1>1
  <1>5. q \in PJ \ {cancel} /\ Exists(q) /\ ~pj[q].complete
    <2>1. q \in PJ /\ q # cancel /\ Listed(q) /\ ~snap[q].complete
      BY <1>4 DEF Survives, DupesInv, TypeOK, PlankTypeOK
    <2>2. Agree(q)
      BY <1>1, <2>1 DEF ListInv
    <2> QED BY <2>1, <2>2 DEF Agree, Listed, Exists
  <1>6. pj[cancel] \in ProwJob /\ snap[cancel] \in ProwJob
    BY <1>1 DEF TypeOK, ClusterTypeOK, PlankTypeOK
  <1>7. /\ Aborted(cancel) \in ProwJob /\ Aborted(cancel).state = "aborted"
        /\ Aborted(cancel).complete = TRUE
    BY Zenon, <1>6 DEF Aborted, ProwJob, ProwJobState, Terminal
  <1> DEFINE o == MergePatch(pj[cancel], snap[cancel], Aborted(cancel))
  <1>8. o \in ProwJob /\ o.state = "aborted" /\ o.complete = TRUE
    BY Zenon, <1>2, <1>6, <1>7, MergeType, MergeEffect DEF Agree
  <1>9. pj' = [pj EXCEPT ![cancel] = o] /\ UNCHANGED builds
    BY DEF DupePatch, PatchOK
  <1> HIDE DEF o
  <1> QED
    BY Zenon, <1>1, <1>3, <1>4, <1>5, <1>8, <1>9
    DEF Effect, Becomes, Consistent, Progressed, Terminal

LEMMA PatchEffect ==
  ASSUME IInv, ~LostReplies, NEW p \in PJ, Patch(p)
  PROVE  Effect
  <1> DEFINE o == MergePatch(pj[p], snap[p], dest[p])
  <1>1. /\ o \in ProwJob /\ Consistent(o) /\ o.state \in Progressed
        /\ pj[p].state \in {"triggered", "pending"}
    BY PatchedObject DEF Consistent, Agree, Patch
  <1>2. UNCHANGED pj \/ pj' = [pj EXCEPT ![p] = o]
    BY PatchFailsEffect DEF Patch, PatchOK, IInv
  <1>3. pc # "dupes"
    BY DEF IInv, WorkInv, Patch
  <1> HIDE DEF o
  <1>4. CASE UNCHANGED pj
    BY <1>4 DEF Effect, SameProwJobs, Patch, IInv, TypeOK, ClusterTypeOK
  <1>5. CASE pj' = [pj EXCEPT ![p] = o]
    BY Zenon, <1>1, <1>3, <1>5 DEF Effect, Becomes, Patch
  <1> QED BY <1>2, <1>4, <1>5

LEMMA CreateEffect ==
  ASSUME IInv, NEW p \in PJ, PendingRestart(p) \/ TriggeredStart(p)
  PROVE  Effect
  <1>1. UNCHANGED pj /\ work[p] = "queued"
    BY DEF PendingRestart, TriggeredStart, Turn
  <1>2. CreatePod(p) \/ UNCHANGED builds
    BY DEF PendingRestart, TriggeredStart, StartPodOK, StartPodInvalid, StartPodFails
  <1>3. pj[p].state \in {"triggered", "pending"}
    BY <1>1 DEF IInv, WorkInv, Agree
  <1>4. CASE UNCHANGED builds
    BY <1>1, <1>4 DEF Effect, SameProwJobs, IInv, TypeOK, ClusterTypeOK
  <1> QED BY <1>1, <1>2, <1>3, <1>4 DEF Effect

LEMMA StepEffect ==
  ASSUME ~LostReplies, IInv, [Next]_vars
  PROVE  Effect
  <1>0. pj \in [PJ -> ProwJob]
    BY DEF IInv, TypeOK, ClusterTypeOK
  <1>1. UNCHANGED <<pj, builds>> => Effect
    BY <1>0 DEF Effect, SameProwJobs
  <1>2. CASE UNCHANGED vars
    BY <1>1, <1>2 DEF vars, clusterVars
  <1>3. CASE ClusterNext
    <2>1. PICK p \in PJ : CreateProwJob(p) \/ PodProgress(p) \/ PodStuck(p) \/ PodDisrupted(p)
      BY <1>3 DEF ClusterNext
    <2>2. CASE CreateProwJob(p)
      BY <2>2 DEF Effect
    <2>3. CASE PodProgress(p) \/ PodStuck(p) \/ PodDisrupted(p)
      BY <1>1, <2>3 DEF PodProgress, PodStuck, PodDisrupted
    <2> QED BY <2>1, <2>2, <2>3
  <1>4. CASE ListProwJobs \/ ListPods \/ DupePass \/ DupeCleanup \/ DupesDone
    BY <1>1, <1>4 DEF ListProwJobs, ListPods, DupePass, DupeCleanup, DupesDone, StartPending, clusterVars
  <1>5. CASE DupePatchFails
    <2>1. cancel \in PJ
      BY <1>5 DEF DupePatchFails, IInv, TypeOK, PlankTypeOK
    <2> QED BY <1>1, <1>5, <2>1, PatchFailsEffect DEF DupePatchFails, StartPending, IInv
  <1>6. CASE \E p \in PJ : PendingReplace(p) \/ PendingFinish(p) \/ PendingTimeout(p) \/ PendingWait(p)
                           \/ TriggeredRefused(p) \/ TriggeredAdopt(p)
    BY <1>1, <1>6 DEF PendingReplace, PendingFinish, PendingTimeout, PendingWait,
                      TriggeredRefused, TriggeredAdopt, clusterVars
  <1>7. CASE StartTriggered \/ StartReports \/ SyncDone \/ Crash
    BY <1>1, <1>7 DEF StartTriggered, StartReports, SyncDone, Crash, clusterVars
  <1>8. ASSUME NEW p \in PJ, Report(p) PROVE Effect
    <2>1. /\ pj' = pj \/ (Exists(p) /\ pj' = [pj EXCEPT ![p].prev = pj[p].state])
          /\ UNCHANGED builds
      BY <1>8 DEF Report
    <2>2. SameProwJobs
      BY <1>0, <2>1 DEF SameProwJobs, Exists, ProwJob
    <2> QED BY <2>1, <2>2 DEF Effect
  <1> QED
    BY <1>2, <1>3, <1>4, <1>5, <1>6, <1>7, <1>8, DupePatchEffect, PatchEffect, CreateEffect
    DEF Next, PlankNext, Sync, SyncJob

\* A complete ProwJob keeps its state and stays complete: no goroutine, retry after a crash
\* or patch made from an old snapshot changes it.
THEOREM CompletionFinal ==
  ASSUME ~LostReplies
  PROVE  Spec => CompletionIsFinal
  <1>1. ASSUME IInv, [Next]_vars, NEW p \in PJ, Exists(p), pj[p].complete
        PROVE  pj'[p].state = pj[p].state /\ pj'[p].complete
    <2>1. pj \in [PJ -> ProwJob] /\ pj[p].state \in Terminal
      BY <1>1 DEF IInv, TypeOK, ClusterTypeOK, ObjectsInv, Consistent
    <2>2. Effect
      BY <1>1, StepEffect
    <2>3. CASE SameProwJobs
      BY <1>1, <2>3 DEF SameProwJobs
    <2>4. ASSUME NEW q \in PJ, CreateProwJob(q) PROVE pj'[p] = pj[p]
      BY <2>1, <2>4 DEF CreateProwJob, Terminal
    <2>5. ASSUME NEW q \in PJ, NEW o, Becomes(q, o), pj[q].state \in {"triggered", "pending"}
          PROVE  pj'[p] = pj[p]
      BY <2>1, <2>5 DEF Becomes, Terminal
    <2> QED BY <1>1, <2>2, <2>3, <2>4, <2>5 DEF Effect
  <1>2. IInv /\ [Next]_vars =>
          [\A p \in PJ : Exists(p) /\ pj[p].complete => pj'[p].state = pj[p].state /\ pj'[p].complete]_vars
    BY <1>1
  <1> QED BY <1>2, Invariance, PTL DEF Spec, CompletionIsFinal

\* No pod is ever created for a complete ProwJob (startPod, called by syncPendingJob and by
\* syncTriggeredJob with a ProwJob that was listed at the beginning of the Sync).
THEOREM NoLatePod ==
  ASSUME ~LostReplies
  PROVE  Spec => NoPodForComplete
  <1>1. ASSUME IInv, [Next]_vars, NEW p \in PJ, builds'[p] # builds[p]
        PROVE  ~pj[p].complete
    <2>1. builds \in [PJ -> Nat]
      BY <1>1 DEF IInv, TypeOK, ClusterTypeOK
    <2>2. PICK q \in PJ : CreatePod(q) /\ pj[q].state \in {"triggered", "pending"}
      BY <1>1, StepEffect DEF Effect, CreateProwJob, Becomes
    <2>3. q = p
      BY <1>1, <2>1, <2>2 DEF CreatePod
    <2> QED BY <1>1, <2>2, <2>3 DEF IInv, ObjectsInv, Consistent, Terminal
  <1>2. IInv /\ [Next]_vars => [\A p \in PJ : builds'[p] # builds[p] => ~pj[p].complete]_vars
    BY <1>1
  <1> QED BY <1>2, Invariance, PTL DEF Spec, NoPodForComplete

\* TerminateOlderJobs only aborts a run that a not older, incomplete run supersedes: aborting
\* never leaves a pull request without a run of the job.
THEOREM AbortsSuperseded ==
  ASSUME ~LostReplies
  PROVE  Spec => OnlySupersededAborted
  <1>1. ASSUME IInv, [Next]_vars, NEW p \in PJ, pc = "dupes", ~pj[p].complete, pj'[p].complete
        PROVE  \E q \in PJ \ {p} : /\ Ident(q) = Ident(p) /\ Exists(q) /\ ~pj'[q].complete
                                   /\ Started[q] >= Started[p]
    <2>1. pj \in [PJ -> ProwJob]
      BY <1>1 DEF IInv, TypeOK, ClusterTypeOK
    <2>2. ~ SameProwJobs
      BY <1>1 DEF SameProwJobs
    <2>3. ASSUME NEW q \in PJ, CreateProwJob(q) PROVE FALSE
      <3>1. ~NewProwJob.complete
        BY DEF NewProwJob, NoProwJob
      <3> QED BY <1>1, <2>1, <2>3, <3>1 DEF CreateProwJob
    <2>4. PICK r \in PJ, o \in ProwJob :
            /\ Becomes(r, o)
            /\ \E q \in PJ \ {r} : Survives(q, r) /\ Exists(q) /\ ~pj[q].complete
      BY <1>1, <2>2, <2>3, StepEffect DEF Effect
    <2>5. r = p /\ \A q \in PJ \ {r} : pj'[q] = pj[q]
      BY <1>1, <2>1, <2>4 DEF Becomes
    <2> QED BY <2>4, <2>5 DEF Survives
  <1>2. IInv /\ [Next]_vars =>
          [\A p \in PJ : pc = "dupes" /\ ~pj[p].complete /\ pj'[p].complete =>
             \E q \in PJ \ {p} : Ident(q) = Ident(p) /\ Exists(q) /\ ~pj'[q].complete /\ Started[q] >= Started[p]]_vars
    BY <1>1
  <1> QED BY <1>2, Invariance, PTL DEF Spec, OnlySupersededAborted

\* An initial state of plank is one of the lifecycle, and so is a step.
LEMMA RefinedInit == Init => L!Init
  BY DEF Init, ClusterInit, NoProwJob, L!Init

LEMMA RefinedStep ==
  ASSUME ~LostReplies, IInv, [Next]_vars
  PROVE  [L!Next]_(L!vars)
  <1> DEFINE st == [p \in PJ |-> pj[p].state]
  <1>0. pj \in [PJ -> ProwJob]
    BY DEF IInv, TypeOK, ClusterTypeOK
  <1>1. CASE SameProwJobs /\ UNCHANGED builds
    <2>1. st' = st
      BY <1>1 DEF SameProwJobs
    <2> QED BY <1>1, <2>1 DEF L!vars
  <1>2. ASSUME NEW p \in PJ, CreateProwJob(p) PROVE L!Next
    <2>1. st' = [st EXCEPT ![p] = "triggered"] /\ st[p] = "uncreated"
      BY Zenon, <1>0, <1>2 DEF CreateProwJob, NewProwJob, NoProwJob
    <2>2. L!Create(p)
      BY <1>2, <2>1 DEF L!Create, L!Move, CreateProwJob
    <2> QED BY <2>2 DEF L!Next
  <1>3. ASSUME NEW p \in PJ, NEW o \in ProwJob, Becomes(p, o), o.state \in Progressed,
               pj[p].state \in {"triggered", "pending"}
        PROVE  [L!Next]_(L!vars)
    <2>1. st' = [st EXCEPT ![p] = o.state] /\ st[p] \in {"triggered", "pending"}
      BY Zenon, <1>0, <1>3 DEF Becomes
    <2>2. UNCHANGED builds
      BY <1>3 DEF Becomes
    <2>3. CASE o.state \in Terminal
      BY Zenon, <2>1, <2>2, <2>3 DEF L!Finish, L!Move, L!Next, L!Terminal, Terminal
    <2>4. CASE o.state = "pending" /\ st[p] = "triggered"
      BY Zenon, <2>1, <2>2, <2>4 DEF L!Begin, L!Move, L!Next
    <2>5. CASE o.state = "pending" /\ st[p] = "pending"
      <3>1. st' = st
        BY Zenon, <2>1, <2>5
      <3> QED BY <2>2, <3>1 DEF L!vars
    <2> QED BY <1>3, <2>1, <2>3, <2>4, <2>5 DEF Progressed
  <1>4. ASSUME NEW p \in PJ, CreatePod(p), UNCHANGED pj, pj[p].state \in {"triggered", "pending"}
        PROVE  L!Next
    BY Zenon, <1>4 DEF CreatePod, L!Execute, L!Next
  <1> QED BY <1>1, <1>2, <1>3, <1>4, StepEffect DEF Effect

\* plank implements ProwJobLifecycle: every ProwJob goes from triggered over pending to one
\* final state, and pods are only created for it before that.
THEOREM Refinement ==
  ASSUME ~LostReplies
  PROVE  Spec => LifecycleSpec
  <1>1. IInv /\ [Next]_vars => [L!Next]_(L!vars)
    BY RefinedStep
  <1> QED BY <1>1, RefinedInit, Invariance, PTL DEF Spec, LifecycleSpec, L!Spec
=============================================================================
