-------------------------- MODULE PlankSinkerProofs --------------------------
(***************************************************************************)
(* plank and sinker together, for any set of ProwJobs, any number of       *)
(* faults and any lag of sinker's cache: sinker deletes no ProwJob that is *)
(* not complete, so that plank's invariant survives its deletions, and the *)
(* two implement the whole of ProwJobLifecycle.                            *)
(***************************************************************************)
EXTENDS PlankSinker, PlankProofs

LEMMA InitPSIInv == PSInit => PSIInv
  <1> SUFFICES ASSUME PSInit PROVE PSIInv
    OBVIOUS
  <1>1. IInv
    BY InitIInv DEF PSInit, Init
  <1>2. NoProwJob \in ProwJob /\ ~NoProwJob.complete
    BY DEF NoProwJob, ProwJob
  <1>3. SinkerInv
    BY <1>2 DEF PSInit, SinkerInit, SinkerInv, SinkerTypeOK
  <1> QED BY <1>1, <1>3 DEF PSIInv

\* plank and its environment never take back that a ProwJob is over.
LEMMA OverStays ==
  ASSUME ~LostReplies, IInv, [Next]_vars, NEW p \in PJ, Over(p)
  PROVE  Over(p)'
  <1>1. pj \in [PJ -> ProwJob] /\ pj[p].state \in Terminal \cup {"deleted"}
    BY DEF IInv, TypeOK, ClusterTypeOK, ObjectsInv, Consistent, Over
  <1>2. Effect
    BY StepEffect
  <1>3. CASE SameProwJobs
    BY <1>3 DEF SameProwJobs, Over
  <1>4. ASSUME NEW q \in PJ, CreateProwJob(q) PROVE pj'[p] = pj[p]
    BY <1>1, <1>4 DEF CreateProwJob, Terminal
  <1>5. ASSUME NEW q \in PJ, NEW o, Becomes(q, o), pj[q].state \in {"triggered", "pending"}
        PROVE  pj'[p] = pj[p]
    BY <1>1, <1>5 DEF Becomes, Terminal
  <1> QED BY <1>2, <1>3, <1>4, <1>5 DEF Effect, Over

\* A step of plank or of its environment.
LEMMA PlankStepInv ==
  ASSUME ~LostReplies, PSIInv, [Next]_vars, UNCHANGED sinkerVars
  PROVE  PSIInv'
  <1>1. IInv'
    BY NextIInv DEF PSIInv
  <1>2. \A p \in PJ : Over(p) => Over(p)'
    BY OverStays DEF PSIInv
  <1>3. isFinished \subseteq PJ
    BY DEF PSIInv, SinkerInv, SinkerTypeOK
  <1>4. SinkerInv'
    BY <1>2, <1>3 DEF PSIInv, SinkerInv, SinkerTypeOK, sinkerVars
  <1> QED BY <1>1, <1>4 DEF PSIInv

\* What a step of sinker does to the ProwJobs: it deletes one that is complete, or none.
Gone == [NoProwJob EXCEPT !.state = "deleted"]

Deletes(p) == Exists(p) /\ pj[p].complete /\ pj' = [pj EXCEPT ![p] = Gone]

LEMMA GoneObject == Gone \in ProwJob /\ Gone.state = "deleted" /\ ~Gone.complete /\ Consistent(Gone)
  BY DEF Gone, NoProwJob, ProwJob, Consistent, Terminal

LEMMA SinkerEffect ==
  ASSUME PSIInv, SinkerNext
  PROVE  /\ UNCHANGED pj \/ \E p \in PJ : Deletes(p)
         /\ UNCHANGED <<builds, disrupted>>
         /\ pod' \in [PJ -> Pod] /\ faults' \in 0..MaxFaults
  <1> USE DEF PSIInv, IInv, TypeOK, ClusterTypeOK
  <1>1. UNCHANGED <<builds, disrupted>>
    BY DEF SinkerNext, Clean, SinkerList, SinkerPeriodics, SinkerPods, SinkerListPods, SinkerDone,
           SinkerJob, SinkerPod, SinkerWatch, clusterVars
  <1>2. CASE SinkerList \/ SinkerPeriodics \/ SinkerPods \/ SinkerListPods \/ \E p \in PJ : SinkerWatch(p)
    BY <1>1, <1>2 DEF SinkerList, SinkerPeriodics, SinkerPods, SinkerListPods, SinkerWatch, clusterVars
  <1>3. CASE SinkerDone
    BY <1>1, <1>3, ClusterAssumption DEF SinkerDone, Fault, NoFault
  <1>4. ASSUME NEW p \in PJ, SinkerPod(p) PROVE UNCHANGED pj /\ pod' \in [PJ -> Pod] /\ faults' \in 0..MaxFaults
    BY <1>4, DeleteEffect DEF SinkerPod
  <1>5. ASSUME NEW p \in PJ, SinkerJob(p)
        PROVE  (UNCHANGED pj \/ Deletes(p)) /\ pod' \in [PJ -> Pod] /\ faults' \in 0..MaxFaults
    <2>1. p \in isFinished /\ Over(p)
      BY <1>5 DEF SinkerJob, SinkerInv
    <2>2. Exists(p) => pj[p].complete
      BY <2>1 DEF Over, Exists, ProwJobState, Terminal
    <2>3. pod' = pod
      BY <1>5 DEF SinkerJob
    <2>4. UNCHANGED pj \/ Deletes(p)
      BY <1>5, <2>2 DEF SinkerJob, DeleteProwJob, Deletes, Gone
    <2>5. faults' \in 0..MaxFaults
      BY <1>5, ClusterAssumption DEF SinkerJob, DeleteProwJob, Fault, NoFault
    <2> QED BY <2>3, <2>4, <2>5
  <1> QED BY <1>1, <1>2, <1>3, <1>4, <1>5 DEF SinkerNext, Clean

\* plank's invariant survives what sinker does: the ProwJobs that plank still works on are
\* those it has seen incomplete.
LEMMA SinkerKeepsIInv ==
  ASSUME PSIInv, SinkerNext, UNCHANGED plankVars
  PROVE  IInv'
  <1> USE DEF PSIInv, IInv, plankVars
  <1>1. /\ UNCHANGED pj \/ \E p \in PJ : Deletes(p)
        /\ UNCHANGED <<builds, disrupted>>
        /\ pod' \in [PJ -> Pod] /\ faults' \in 0..MaxFaults
    BY SinkerEffect
  <1>2. /\ pj' \in [PJ -> ProwJob]
        /\ \A q \in PJ : Consistent(pj'[q])
        /\ \A q \in PJ : ~pj[q].complete => pj'[q] = pj[q]
    BY <1>1, GoneObject DEF Deletes, TypeOK, ClusterTypeOK, ObjectsInv
  <1>3. TypeOK'
    <2>1. ClusterTypeOK'
      BY <1>1, <1>2 DEF TypeOK, ClusterTypeOK
    <2> QED BY <2>1 DEF TypeOK, PlankTypeOK
  <1>4. ObjectsInv'
    BY <1>2 DEF ObjectsInv, Consistent
  <1>5. \A q \in PJ : ~snap[q].complete /\ Agree(q) => Agree(q)'
    BY <1>2 DEF Agree
  <1>6. ListInv'
    BY <1>5 DEF ListInv, Listed
  <1>7. DupesInv'
    BY DEF DupesInv, Listed, Survives
  <1>8. \A q \in PJ : snap[q].state \in {"triggered", "pending"} => ~snap[q].complete
    BY DEF ObjectsInv, Consistent, Terminal
  <1>9. WorkInv'
    BY <1>5, <1>8 DEF WorkInv, Consistent
  <1> QED BY <1>3, <1>4, <1>6, <1>7, <1>9

LEMMA SinkerStepInv ==
  ASSUME PSIInv, SinkerNext, UNCHANGED plankVars
  PROVE  PSIInv'
  <1>1. IInv'
    BY SinkerKeepsIInv
  <1>2. \A p \in PJ : Over(p) => Over(p)'
    BY SinkerEffect, GoneObject DEF Deletes, Over, PSIInv, IInv, TypeOK, ClusterTypeOK
  <1>3. SinkerInv /\ pj \in [PJ -> ProwJob] /\ PodClients \subseteq Alias
    BY SinkerAssumption DEF PSIInv, IInv, TypeOK, ClusterTypeOK
  <1>4. SinkerInv'
    <2> USE DEF SinkerInv, SinkerTypeOK
    <2>1. CASE SinkerList
      <3>1. PICK R : isFinished' = {p \in Listable : cache[p].complete} \ R
        BY <2>1 DEF SinkerList
      <3>2. isFinished' \subseteq isExist' /\ isExist' \subseteq PJ /\ \A p \in isFinished' : p \in PJ /\ cache[p].complete
        BY <2>1, <3>1 DEF SinkerList, Listable
      <3> QED BY <1>2, <1>3, <2>1, <3>2 DEF SinkerList
    <2>2. CASE SinkerPeriodics \/ SinkerPods \/ SinkerListPods \/ SinkerDone
      BY <1>2, <1>3, <2>2 DEF SinkerPeriodics, SinkerPods, SinkerListPods, SinkerDone
    <2>3. ASSUME NEW p \in PJ, SinkerJob(p) \/ SinkerPod(p) PROVE SinkerInv'
      BY <1>2, <1>3, <2>3 DEF SinkerJob, SinkerPod
    <2>4. ASSUME NEW p \in PJ, SinkerWatch(p) PROVE SinkerInv'
      <3>1. cache' \in [PJ -> ProwJob] /\ \A q \in PJ : cache'[q].complete => Over(q)
        BY <1>3, <2>4 DEF SinkerWatch, Over
      <3> QED BY <1>2, <1>3, <2>4, <3>1 DEF SinkerWatch
    <2> QED BY <2>1, <2>2, <2>3, <2>4 DEF SinkerNext, Clean
  <1> QED BY <1>1, <1>4 DEF PSIInv

LEMMA PSNextInv ==
  ASSUME ~LostReplies, PSIInv, [PSNext]_psVars
  PROVE  PSIInv'
  <1>1. CASE PlankNext /\ UNCHANGED sinkerVars
    BY <1>1, PlankStepInv DEF Next
  <1>2. CASE ClusterNext /\ UNCHANGED <<plankVars, sinkerVars>>
    BY <1>2, PlankStepInv DEF Next
  <1>3. CASE UNCHANGED psVars
    BY <1>3, PlankStepInv DEF psVars, vars
  <1>4. CASE SinkerNext /\ UNCHANGED plankVars
    BY <1>4, SinkerStepInv
  <1> QED BY <1>1, <1>2, <1>3, <1>4 DEF PSNext

\* plank's invariant, and sinker's knowledge (what clean has in isFinished and isExist), hold when
\* the two run together.
THEOREM JointInvariance ==
  ASSUME ~LostReplies
  PROVE  PSSpec => []PSIInv
  <1>1. PSIInv /\ [PSNext]_psVars => PSIInv'
    BY PSNextInv
  <1> QED BY <1>1, InitPSIInv, PTL DEF PSSpec

\* What sinker's clean takes for finished is finished or gone, however far its cache is
\* behind and whatever plank has done since the list was made.
THEOREM FinishedSound ==
  ASSUME ~LostReplies
  PROVE  PSSpec => []FinishedIsFinished
  <1>1. PSIInv => FinishedIsFinished
    <2> SUFFICES ASSUME PSIInv, NEW p \in isFinished PROVE ~Exists(p) \/ pj[p].complete
      BY DEF FinishedIsFinished, PSIInv, SinkerInv
    <2>1. Over(p)
      BY DEF PSIInv, SinkerInv
    <2> QED BY <2>1 DEF Over, Exists, ProwJobState, Terminal
  <1> QED BY <1>1, JointInvariance, PTL

\* With sinker a ProwJob goes through its whole lifecycle: it is deleted only from a final
\* state, and a deleted ProwJob is neither patched back into existence nor run again.
THEOREM JointRefinement ==
  ASSUME ~LostReplies
  PROVE  PSSpec => LifecycleSpec
  <1> DEFINE st == [p \in PJ |-> pj[p].state]
  <1>1. PSInit => L!Init
    BY RefinedInit DEF PSInit, Init
  <1>2. ASSUME PSIInv, SinkerNext
        PROVE  [L!Next]_(L!vars)
    <2>0. pj \in [PJ -> ProwJob] /\ UNCHANGED builds
      BY <1>2, SinkerEffect DEF PSIInv, IInv, TypeOK, ClusterTypeOK
    <2>1. CASE UNCHANGED pj
      BY <2>0, <2>1 DEF L!vars
    <2>2. ASSUME NEW p \in PJ, Deletes(p) PROVE L!Next
      <3>1. st' = [st EXCEPT ![p] = "deleted"]
        BY Zenon, <2>0, <2>2, GoneObject DEF Deletes
      <3>2. st[p] \in L!Terminal
        BY <1>2, <2>2 DEF Deletes, PSIInv, IInv, ObjectsInv, Consistent, Terminal, L!Terminal
      <3> HIDE DEF st
      <3> QED BY Zenon, <2>0, <3>1, <3>2 DEF L!Delete, L!Move, L!Next, st
    <2> QED BY <1>2, <2>1, <2>2, SinkerEffect
  <1>3. ASSUME PSIInv, [PSNext]_psVars
        PROVE  [L!Next]_(L!vars)
    <2>1. [Next]_vars => [L!Next]_(L!vars)
      BY <1>3, RefinedStep DEF PSIInv
    <2> QED BY <1>2, <1>3, <2>1 DEF PSNext, Next, psVars, vars
  <1> QED BY <1>1, <1>3, JointInvariance, PTL DEF PSSpec, LifecycleSpec, L!Spec
=============================================================================
