----------------------------- MODULE PlankSinker -----------------------------
(***************************************************************************)
(* plank and sinker at work on the same ProwJobs and pods. The two know of *)
(* each other only through the API server: sinker may delete a pod while   *)
(* plank is about to look at it, and a ProwJob that plank has listed.      *)
(***************************************************************************)
EXTENDS Plank, Sinker

psVars == <<clusterVars, plankVars, sinkerVars>>

PSInit == ClusterInit /\ PlankInit /\ SinkerInit

PSNext ==
  \/ PlankNext /\ UNCHANGED sinkerVars
  \/ SinkerNext /\ UNCHANGED plankVars
  \/ ClusterNext /\ UNCHANGED <<plankVars, sinkerVars>>

PSSpec == PSInit /\ [][PSNext]_psVars

\* Both loops keep running, the cache catches up, and time passes for pods that hang.
PSFairSpec ==
  /\ PSSpec
  /\ WF_psVars(Sync /\ UNCHANGED <<disrupted, sinkerVars>>)
  /\ WF_psVars(Clean /\ UNCHANGED <<disrupted, plankVars>>)
  /\ \A p \in PJ : /\ WF_psVars(SinkerWatch(p) /\ UNCHANGED <<disrupted, plankVars>>)
                   /\ WF_psVars(PodStuck(p) /\ UNCHANGED <<plankVars, sinkerVars>>)

-----------------------------------------------------------------------------
(* Properties.                                                             *)

\* What sinker takes for finished when it acts is finished, or gone: it decides from a list
\* that was out of date when it was made, while plank goes on.
FinishedIsFinished ==
  /\ SinkerTypeOK
  /\ \A p \in isFinished : ~Exists(p) \/ pj[p].complete

\* A pod that outlives its ProwJob is deleted in the end: sinker cleans up orphans whatever
\* the order in which ProwJobs and pods go away.
OrphansRemoved ==
  \A p \in PJ : (pj[p].state = "deleted" /\ pod[p].phase # "none") ~> (pod[p].phase = "none")

\* sinker only deletes the pod of a ProwJob that is finished or gone, so that plank does not
\* start a new pod in its place.
OnlyFinishedPodsSwept ==
  [][\A p \in PJ : spc = "pods" /\ p \in sweep /\ p \notin sweep' /\ pod[p].phase # "none" /\ pod'[p].phase = "none" =>
       ~Exists(p) \/ pj[p].complete]_psVars

-----------------------------------------------------------------------------
(* The inductive invariant behind the theorems of PlankSinkerProofs.       *)

\* p is complete, or has been and is deleted.
Over(p) == pj[p].complete \/ pj[p].state = "deleted"

SinkerInv ==
  /\ SinkerTypeOK
  /\ \A p \in PJ : cache[p].complete => Over(p)
  /\ \A p \in isFinished : Over(p)
  /\ spc \in {"jobs", "periodics"} => sweep \subseteq isFinished

PSIInv == IInv /\ SinkerInv
=============================================================================
