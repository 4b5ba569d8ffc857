-------------------------------- MODULE Sinker --------------------------------
(***************************************************************************)
(* sinker (src/cmd/sinker/main.go): the loop that deletes old ProwJobs and *)
(* the pods of ProwJobs that are finished or gone. A pass works on the     *)
(* ProwJobs it listed when it began, and lists the pods of each cluster    *)
(* later, one cluster after the other. The ProwJobs are listed from the    *)
(* cache of a controller-runtime manager, which lags behind the API server.*)
(*                                                                         *)
(* Ages are not modelled: whether a finished object is old enough to be    *)
(* deleted is a free choice.                                               *)
(***************************************************************************)
EXTENDS Cluster

CONSTANTS
  PodClients,      \* the aliases sinker has a pod client for
  ActivePeriodics  \* the names of the periodics in the job config

ASSUME SinkerAssumption == PodClients \subseteq Alias /\ ActivePeriodics \subseteq Job

VARIABLES
  cache,      \* the manager's cache of the ProwJobs
  spc,        \* where clean is: "idle", "jobs", "periodics" or "pods"
  isExist,    \* the ProwJobs that were listed
  isFinished, \* those of them that are complete and not retained for horologium
  sweep,      \* the ProwJobs or pods of the current loop that are still to be looked at
  clients     \* the clusters whose pods are still to be listed

sinkerVars == <<cache, spc, isExist, isFinished, sweep, clients>>

SinkerTypeOK ==
  /\ cache \in [PJ -> ProwJob]
  /\ spc \in {"idle", "jobs", "periodics", "pods"}
  /\ isExist \subseteq PJ /\ isFinished \subseteq isExist
  /\ sweep \subseteq PJ /\ clients \subseteq PodClients

SinkerInit ==
  /\ cache = [p \in PJ |-> NoProwJob]
  /\ spc = "idle" /\ isExist = {} /\ isFinished = {} /\ sweep = {} /\ clients = {}

\* A watch event brings p in the cache up to date.
SinkerWatch(p) ==
  /\ cache[p] # pj[p]
  /\ cache' = [cache EXCEPT ![p] = pj[p]]
  /\ UNCHANGED <<clusterVars, spc, isExist, isFinished, sweep, clients>>

Listable == {p \in PJ : cache[p].state \in ProwJobState}

Periodic(p) == SpecOf[p].type = "periodic"

\* GetLatestProwJobs: the ProwJobs of S that no ProwJob of the same periodic in S started
\* after. Of several that started at the same time the one that is listed first counts.
Latest(S) ==
  {p \in S : Periodic(p) /\ \A q \in S : Periodic(q) /\ SpecOf[q].job = SpecOf[p].job => Started[q] <= Started[p]}

\* Mutant: nothing is kept for horologium.
RetainedNone(S) == {{}}

\* The ProwJobs that horologium needs: one latest ProwJob for every periodic in the config.
Retained(S) ==
  {R \in SUBSET {p \in Latest(S) : SpecOf[p].job \in ActivePeriodics} :
     \A p \in Latest(S) : SpecOf[p].job \in ActivePeriodics =>
       \E r \in R : {q \in R : SpecOf[q].job = SpecOf[p].job} = {r}}

\* Mutant: ProwJobs that are not complete are not skipped.
SinkerListIncomplete ==
  /\ spc = "idle"
  /\ isExist' = Listable
  /\ \E R \in Retained(Listable) : isFinished' = Listable \ R
  /\ sweep' = {p \in isFinished' : ~Periodic(p)}
  /\ spc' = "jobs"
  /\ UNCHANGED <<clusterVars, cache, clients>>

\* An error here ends the pass.
SinkerList ==
  /\ spc = "idle"
  /\ isExist' = Listable
  /\ \E R \in Retained(Listable) : isFinished' = {p \in Listable : cache[p].complete} \ R
  /\ sweep' = {p \in isFinished' : ~Periodic(p)}
  /\ spc' = "jobs"
  /\ UNCHANGED <<clusterVars, cache, clients>>

\* Deletion of a ProwJob; the error is only logged.
DeleteProwJob(p) ==
  \/ /\ Exists(p)
     /\ pj' = [pj EXCEPT ![p] = [NoProwJob EXCEPT !.state = "deleted"]]
     /\ NoFault
  \/ ~Exists(p) /\ UNCHANGED pj /\ NoFault
  \/ UNCHANGED pj /\ Fault(1)

\* One finished ProwJob: it is young enough to stay, or it is deleted.
SinkerJob(p) ==
  /\ spc \in {"jobs", "periodics"} /\ p \in sweep
  /\ UNCHANGED <<pj, faults>> \/ DeleteProwJob(p)
  /\ sweep' = sweep \ {p}
  /\ UNCHANGED <<pod, builds, cache, spc, isExist, isFinished, clients>>

SinkerPeriodics ==
  /\ spc = "jobs" /\ sweep = {}
  /\ sweep' = {p \in isFinished : Periodic(p)}
  /\ spc' = "periodics"
  /\ UNCHANGED <<clusterVars, cache, isExist, isFinished, clients>>

SinkerPods ==
  /\ spc = "periodics" /\ sweep = {}
  /\ clients' = PodClients
  /\ spc' = "pods"
  /\ UNCHANGED <<clusterVars, cache, isExist, isFinished, sweep>>

\* The pods of the next cluster.
SinkerListPods ==
  /\ spc = "pods" /\ sweep = {}
  /\ \E c \in clients :
       /\ sweep' = {p \in PJ : SpecOf[p].cluster = c /\ pod[p].phase # "none"}
       /\ clients' = clients \ {c}
  /\ UNCHANGED <<clusterVars, cache, spc, isExist, isFinished>>

\* Mutant: a pod whose ProwJob is gone is not an orphan.
SinkerPodNoOrphans(p) ==
  /\ spc = "pods" /\ p \in sweep
  /\ \/ UNCHANGED <<pod, faults>>
     \/ p \in isFinished /\ (DeleteOK(p) \/ DeleteFails(p))
  /\ sweep' = sweep \ {p}
  /\ UNCHANGED <<pj, builds, cache, spc, isExist, isFinished, clients>>

\* One pod: the pod of a finished ProwJob is deleted if it is old, one whose ProwJob was not
\* listed is deleted in any case.
SinkerPod(p) ==
  /\ spc = "pods" /\ p \in sweep
  /\ \/ p \in isExist /\ UNCHANGED <<pod, faults>>
     \/ /\ p \notin isExist \/ p \in isFinished
        /\ DeleteOK(p) \/ DeleteFails(p)
  /\ sweep' = sweep \ {p}
  /\ UNCHANGED <<pj, builds, cache, spc, isExist, isFinished, clients>>

\* The pass is over: all clusters are done, or the pods of one could not be listed.
SinkerDone ==
  /\ spc = "pods" /\ sweep = {}
  /\ \/ clients = {} /\ NoFault
     \/ clients # {} /\ Fault(1)
  /\ spc' = "idle" /\ isExist' = {} /\ isFinished' = {} /\ clients' = {}
  /\ UNCHANGED <<pj, pod, builds, cache, sweep>>

Clean ==
  \/ SinkerList \/ SinkerPeriodics \/ SinkerPods \/ SinkerListPods \/ SinkerDone
  \/ \E p \in PJ : SinkerJob(p) \/ SinkerPod(p)

SinkerNext == (Clean \/ \E p \in PJ : SinkerWatch(p)) /\ UNCHANGED disrupted

-----------------------------------------------------------------------------
(* Of the controllers that run periodics it is only known that they        *)
(* complete ProwJobs.                                                      *)

Complete(p) ==
  /\ Exists(p) /\ ~pj[p].complete
  /\ pj' = [pj EXCEPT ![p].state = "success", ![p].complete = TRUE]
  /\ UNCHANGED <<pod, builds, faults, disrupted, sinkerVars>>
=============================================================================
