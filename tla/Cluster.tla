------------------------------- MODULE Cluster -------------------------------
(***************************************************************************)
(* The Kubernetes API objects that prow's controllers share: the ProwJob   *)
(* resources (src/apis/prowjobs/v1/types.go) and the pods that run them.   *)
(* The API server, the kubelets and the users who create ProwJobs are      *)
(* external to the repository; they are modelled here from the way plank   *)
(* and sinker use them.                                                    *)
(***************************************************************************)
EXTENDS Integers, FiniteSets

CONSTANTS
  PJ,          \* names of the ProwJobs with the kubernetes agent; the pod of p is also named p
  Job,         \* job names (Spec.Job)
  Alias,       \* build cluster aliases
  SpecOf,      \* the immutable Spec of every ProwJob
  Created,     \* CreationTimestamp, in the API server's one second resolution
  Started,     \* Status.StartTime, taken from the creator's clock
  MaxFaults,   \* bound on the failed requests and controller crashes of one behaviour
  MaxDisruptions, \* bound on the pods lost to node failures, evictions and deletions
  MaxBuilds,   \* bound on the build ids that are vended for one ProwJob
  PodsStick,   \* may a pod outlive plank's timeouts?
  LostReplies  \* may a write be applied and yet be reported as failed?

JobSpec == [job: Job,
            type: {"presubmit", "postsubmit", "periodic", "batch"},
            refs: Nat,                  \* digest of Refs and ExtraRefs
            cluster: Alias,
            maxConcurrency: Nat,        \* 0: no limit
            errorOnEviction: BOOLEAN,
            valid: BOOLEAN]             \* does the API server accept its pod?

ASSUME ClusterAssumption ==
  /\ IsFiniteSet(PJ) /\ IsFiniteSet(Alias)
  /\ SpecOf \in [PJ -> JobSpec]
  /\ Created \in [PJ -> Nat]
  /\ Started \in [PJ -> Nat]
  /\ MaxFaults \in Nat /\ MaxDisruptions \in Nat /\ MaxBuilds \in Nat
  /\ PodsStick \in BOOLEAN
  /\ LostReplies \in BOOLEAN

VARIABLES
  pj,       \* the ProwJob objects stored by the API server
  pod,      \* the pods stored by the API server
  builds,   \* how many build ids have been used for pods of each ProwJob
  faults,   \* failed requests and crashes so far
  disrupted \* pods disrupted so far

clusterVars == <<pj, pod, builds, faults, disrupted>>

Terminal == {"success", "failure", "aborted", "error"}
ProwJobState == {"triggered", "pending"} \cup Terminal

\* "uncreated" and "deleted" are not states of a ProwJob but of its name.
ProwJob == [state: ProwJobState \cup {"uncreated", "deleted"},
            complete: BOOLEAN,                  \* CompletionTime != nil
            buildID: Nat,                       \* 0: the empty string
            prev: ProwJobState \cup {"none"}]   \* PrevReportStates["github-reporter"]

\* "Evicted" is phase Failed with reason Evicted.
Phase == {"none", "Pending", "Running", "Succeeded", "Failed", "Evicted", "Unknown"}

\* stuck: the pod started longer ago than plank's timeout for its phase.
Pod == [phase: Phase, stuck: BOOLEAN, build: Nat]

NoPod == [phase |-> "none", stuck |-> FALSE, build |-> 0]
NoProwJob == [state |-> "uncreated", complete |-> FALSE, buildID |-> 0, prev |-> "none"]

Exists(p) == pj[p].state \in ProwJobState

ClusterTypeOK ==
  /\ pj \in [PJ -> ProwJob]
  /\ pod \in [PJ -> Pod]
  /\ builds \in [PJ -> Nat]
  /\ faults \in 0..MaxFaults
  /\ disrupted \in 0..MaxDisruptions

ClusterInit ==
  /\ pj = [p \in PJ |-> NoProwJob]
  /\ pod = [p \in PJ |-> NoPod]
  /\ builds = [p \in PJ |-> 0]
  /\ faults = 0 /\ disrupted = 0

-----------------------------------------------------------------------------
(* Requests to the API server.                                             *)

\* NewProwJob: a ProwJob starts out triggered, not complete and not reported.
NewProwJob == [NoProwJob EXCEPT !.state = "triggered"]

\* k of the requests of a step fail.
Fault(k) == /\ faults' = faults + k
            /\ faults' \in 0..MaxFaults

NoFault == UNCHANGED faults

\* The effect on cur of the merge patch that PatchProwjob makes out of src and dst:
\* the fields in which the two differ, and no others.
MergePatch(cur, src, dst) ==
  [state    |-> IF dst.state # src.state THEN dst.state ELSE cur.state,
   complete |-> IF dst.complete # src.complete THEN dst.complete ELSE cur.complete,
   buildID  |-> IF dst.buildID # src.buildID THEN dst.buildID ELSE cur.buildID,
   prev     |-> IF dst.prev # src.prev THEN dst.prev ELSE cur.prev]

\* Patch of ProwJob p that is acknowledged.
PatchOK(p, src, dst) ==
  /\ Exists(p)
  /\ pj' = [pj EXCEPT ![p] = MergePatch(pj[p], src, dst)]
  /\ NoFault

\* Patch of ProwJob p that returns an error: not found, lost on the way, or (with
\* LostReplies) applied although the reply never arrives.
PatchFails(p, src, dst) ==
  \/ ~Exists(p) /\ UNCHANGED pj /\ NoFault
  \/ Exists(p) /\ UNCHANGED pj /\ Fault(1)
  \/ /\ LostReplies /\ Exists(p)
     /\ pj' = [pj EXCEPT ![p] = MergePatch(pj[p], src, dst)]
     /\ Fault(1)

\* Deletion of the pod of p, acknowledged or not.
DeleteOK(p) ==
  /\ pod[p].phase # "none"
  /\ pod' = [pod EXCEPT ![p] = NoPod]
  /\ NoFault

DeleteFails(p) ==
  \/ pod[p].phase = "none" /\ UNCHANGED pod /\ NoFault
  \/ pod[p].phase # "none" /\ UNCHANGED pod /\ Fault(1)
  \/ /\ LostReplies /\ pod[p].phase # "none"
     /\ pod' = [pod EXCEPT ![p] = NoPod]
     /\ Fault(1)

\* The pod of p is created with a new build id.
CreatePod(p) ==
  /\ pod[p].phase = "none" /\ builds[p] < MaxBuilds
  /\ builds' = [builds EXCEPT ![p] = @ + 1]
  /\ pod' = [pod EXCEPT ![p] = [phase |-> "Pending", stuck |-> FALSE, build |-> builds[p] + 1]]

-----------------------------------------------------------------------------
(* The environment: users, kubelets and the clock.                         *)

\* A ProwJob is created by hook, tide, horologium or a user. The API server stamps
\* creation times in order.
CreateProwJob(p) ==
  /\ pj[p].state = "uncreated"
  /\ \A q \in PJ : Created[q] < Created[p] => pj[q].state # "uncreated"
  /\ pj' = [pj EXCEPT ![p] = NewProwJob]
  /\ UNCHANGED <<pod, builds, faults, disrupted>>

SetPhase(p, ph) == pod' = [pod EXCEPT ![p].phase = ph, ![p].stuck = FALSE]

\* The kubelet starts and finishes the pod; a lost node comes back.
PodProgress(p) ==
  /\ \/ pod[p].phase = "Pending" /\ SetPhase(p, "Running")
     \/ pod[p].phase = "Running" /\ \E ph \in {"Succeeded", "Failed"} : SetPhase(p, ph)
     \/ pod[p].phase = "Unknown" /\ SetPhase(p, "Running")
  /\ UNCHANGED <<pj, builds, faults, disrupted>>

\* The pod outlives plank's timeout for the phase it is in.
PodStuck(p) ==
  /\ PodsStick
  /\ pod[p].phase \in {"Pending", "Running"}
  /\ ~pod[p].stuck
  /\ pod' = [pod EXCEPT ![p].stuck = TRUE]
  /\ UNCHANGED <<pj, builds, faults, disrupted>>

\* The node is lost, the pod is evicted, or a user or rescheduler deletes it.
PodDisrupted(p) ==
  /\ disrupted < MaxDisruptions
  /\ \/ pod[p].phase \in {"Pending", "Running"} /\ \E ph \in {"Unknown", "Evicted"} : SetPhase(p, ph)
     \/ pod[p].phase # "none" /\ pod' = [pod EXCEPT ![p] = NoPod]
  /\ disrupted' = disrupted + 1
  /\ UNCHANGED <<pj, builds, faults>>

ClusterNext ==
  \E p \in PJ : CreateProwJob(p) \/ PodProgress(p) \/ PodStuck(p) \/ PodDisrupted(p)

=============================================================================
