------------------------------ MODULE Pipeline ------------------------------
(***************************************************************************)
(* The Tekton controller (src/cmd/pipeline): informers of the ProwJobs and *)
(* of the PipelineRuns of every build cluster put keys (context, name) in  *)
(* a work queue, and two workers make the PipelineRun of a ProwJob exist,  *)
(* follow it, and delete it when it is not wanted.                         *)
(*                                                                         *)
(* Runs are named after their ProwJob and ProwJobs do not interact: the    *)
(* model has one ProwJob, its key in every context, and a PipelineRun of   *)
(* its name in every build cluster. The two lister reads of reconcile are  *)
(* one step: a notification between them could as well come later.         *)
(***************************************************************************)
EXTENDS Integers, FiniteSets

CONSTANTS
  PContexts,   \* the configured build clusters, "default" among them
  PConfigs     \* [agent, cluster, spec, extra, uses, refs, foreign, fails]: the ProwJob's agent
               \* and cluster, whether it has a PipelineRunSpec, the number of its ExtraRefs, the
               \* git references of the spec's resources, whether it has Refs, the clusters that
               \* hold a run of that name not made by prow, and the bound on failed requests,
               \* late listers, lost events and deletions of runs by people

ASSUME PipelineAssumption == "default" \in PContexts

VARIABLES
  pcfg,
  ppj,      \* the ProwJob in the cluster: life, state and description
  pruns,    \* the PipelineRun of every cluster: life, its status, whether prow made it
  pres,     \* the PipelineResources that were created
  ppjl, prunl,  \* the listers: what the informers have told
  pqueue, pwork,\* the work queue, and the workers: from a key to the reconcile in progress
  pended,   \* the statuses that a run has ended with
  pfails    \* the mishaps so far

pipelineVars == <<pcfg, ppj, pruns, pres, ppjl, prunl, pqueue, pwork, pended, pfails>>
pcluster == <<ppj, pruns, pres, pended>>

NoRun == [life |-> "gone", st |-> "scheduling", mine |-> FALSE]
PThreads == 2

PInit ==
  /\ pcfg \in PConfigs
  /\ ppj = [life |-> "live", state |-> "triggered", desc |-> ""] /\ ppjl = ppj
  /\ pruns = [c \in PContexts |-> IF c \in pcfg.foreign THEN [NoRun EXCEPT !.life = "live"] ELSE NoRun]
  /\ prunl = pruns /\ pres = {} /\ pended = {} /\ pfails = 0
  /\ pqueue = {pcfg.cluster} /\ pwork = [k \in {} |-> 0]

PFail == pfails < pcfg.fails /\ pfails' = pfails + 1

-----------------------------------------------------------------------------
(* Tekton, people, and the informers.                                      *)

RunSteps == [scheduling |-> {"running", "nocondition"}, running |-> {"true", "false"}]

RunProgress(c) ==
  /\ pruns[c].life = "live" /\ pruns[c].st \in DOMAIN RunSteps
  /\ \E st \in RunSteps[pruns[c].st] :
       /\ pruns' = [pruns EXCEPT ![c].st = st]
       /\ pended' = IF st \in DOMAIN RunSteps THEN pended ELSE pended \cup {st}
  /\ UNCHANGED <<pcfg, ppj, pres, ppjl, prunl, pqueue, pwork, pfails>>

RunRemoved(c) ==
  /\ pruns[c].life = "deleting" /\ pruns' = [pruns EXCEPT ![c] = NoRun]
  /\ UNCHANGED <<pcfg, ppj, pres, ppjl, prunl, pqueue, pwork, pended, pfails>>

RunDeletedByHand(c) ==
  /\ pruns[c].life = "live" /\ PFail /\ pruns' = [pruns EXCEPT ![c].life = "deleting"]
  /\ UNCHANGED <<pcfg, ppj, pres, ppjl, prunl, pqueue, pwork, pended>>

ProwJobDeleted ==
  /\ ppj.life # "gone"
  /\ \E l \in {"deleting", "gone"} : ppj.life # l /\ ppj' = [ppj EXCEPT !.life = l]
  /\ UNCHANGED <<pcfg, pruns, pres, ppjl, prunl, pqueue, pwork, pended, pfails>>

\* The handlers of the informers. The last state of a deleted ProwJob may be unknown, and
\* its event is then dropped.
ProwJobEvent ==
  /\ ppjl # ppj /\ ppjl' = ppj
  /\ \/ pqueue' = pqueue \cup {pcfg.cluster} /\ UNCHANGED pfails
     \/ ppj.life = "gone" /\ PFail /\ UNCHANGED pqueue
  /\ UNCHANGED <<pcfg, ppj, pruns, pres, prunl, pwork, pended>>

RunEvent(c) ==
  /\ prunl[c] # pruns[c] /\ prunl' = [prunl EXCEPT ![c] = pruns[c]]
  /\ pqueue' = pqueue \cup {c}
  /\ UNCHANGED <<pcfg, ppj, pruns, pres, ppjl, pwork, pended, pfails>>

\* Every half hour the informers repeat what they know.
Resync ==
  LET known == {c \in PContexts : prunl[c].life # "gone"}
               \cup (IF ppjl.life # "gone" THEN {pcfg.cluster} ELSE {})
  IN /\ ~(known \subseteq pqueue) /\ pqueue' = pqueue \cup known
     /\ UNCHANGED <<pcfg, ppj, pruns, pres, ppjl, prunl, pwork, pended, pfails>>

-----------------------------------------------------------------------------
(* reconcile.                                                              *)

\* A context that is not configured stands for the default cluster.
getPipelineConfig(ctx) == IF ctx \in PContexts THEN ctx ELSE "default"

finalState(s) == s \notin {"pending", "triggered"}

prowJobStatus(st) ==
  CASE st = "nocondition" -> "error"
    [] st = "true" -> "success"
    [] st = "false" -> "failure"
    [] OTHER -> "pending"

\* Every extra ref is used, no other is, and a ProwJob without Refs uses no implicit one.
ValidatePipelineRunSpec ==
  /\ {"extra0", "extra1"} \cap pcfg.uses = {IF i = 0 THEN "extra0" ELSE "extra1" : i \in 0 .. pcfg.extra - 1}
  /\ "implicit" \in pcfg.uses => pcfg.refs

makeResources == pcfg.uses \cap {"implicit", "extra0", "extra1"}

At(k, pc) == k \in DOMAIN pwork /\ pwork[k].pc = pc
Goto(k, w) == pwork' = [x \in DOMAIN pwork \cup {k} |-> IF x = k THEN w ELSE pwork[x]]
\* A reconcile that fails is not repeated: its key is neither forgotten nor added again.
Done(k) == pwork' = [x \in DOMAIN pwork \ {k} |-> pwork[x]]

WantRun(k) == ppjl.life = "live" /\ pcfg.agent = "tekton" /\ pcfg.cluster = k
Work(pc, st, desc, new) == [pc |-> pc, pj |-> ppjl, state |-> st, desc |-> desc, new |-> new]

\* Mutant: a ProwJob that is not found ends the reconcile as any other error does.
NotFoundIsError(k) ==
  LET r == prunl[getPipelineConfig(k)]
      have == r.life = "live"
  IN IF ppjl.life = "gone" \/ pcfg.agent # "tekton" THEN UNCHANGED pwork
     ELSE IF ~WantRun(k) THEN IF have /\ r.mine THEN Goto(k, Work("delete", "", "", FALSE)) ELSE UNCHANGED pwork
     ELSE IF finalState(ppjl.state) \/ ~pcfg.spec THEN UNCHANGED pwork
     ELSE IF ~have THEN Goto(k, Work("create", "", "", TRUE))
     ELSE Goto(k, Work("update", prowJobStatus(r.st), r.st, FALSE))

\* What a worker decides to do about a key.
Decide(k) ==
  LET r == prunl[getPipelineConfig(k)]
      have == r.life = "live"
  IN IF ppjl.life # "gone" /\ pcfg.agent # "tekton" THEN UNCHANGED pwork
     ELSE IF ~WantRun(k) THEN IF have /\ r.mine THEN Goto(k, Work("delete", "", "", FALSE)) ELSE UNCHANGED pwork
     ELSE IF finalState(ppjl.state) \/ ~pcfg.spec THEN UNCHANGED pwork
     ELSE IF ~have THEN Goto(k, Work("create", "", "", TRUE))
     ELSE Goto(k, Work("update", prowJobStatus(r.st), r.st, FALSE))

runWorker(k) ==
  /\ k \in pqueue \ DOMAIN pwork /\ Cardinality(DOMAIN pwork) < PThreads
  /\ pqueue' = pqueue \ {k} /\ Decide(k)
  /\ UNCHANGED <<pcfg, pcluster, ppjl, prunl, pfails>>

deletePipelineRun(k) ==
  /\ At(k, "delete")
  /\ \/ /\ pruns' = [pruns EXCEPT ![getPipelineConfig(k)].life = IF @ = "live" THEN "deleting" ELSE @]
        /\ UNCHANGED pfails
     \/ PFail /\ UNCHANGED pruns
  /\ Done(k)
  /\ UNCHANGED <<pcfg, ppj, pres, ppjl, prunl, pqueue, pended>>

\* pipelineID asks tot for a build id, which only the new objects carry; then the spec is
\* validated.
GetPipelineID(k) ==
  /\ At(k, "create")
  /\ \/ ValidatePipelineRunSpec /\ Goto(k, [pwork[k] EXCEPT !.pc = "resources"]) /\ UNCHANGED pfails
     \/ ~ValidatePipelineRunSpec /\ Done(k) /\ UNCHANGED pfails
     \/ PFail /\ Done(k)
  /\ UNCHANGED <<pcfg, ppj, pruns, pres, ppjl, prunl, pqueue, pended>>

\* One resource; one that already exists is no error.
createPipelineResource(k) ==
  /\ At(k, "resources")
  /\ \/ makeResources \subseteq pres /\ Goto(k, [pwork[k] EXCEPT !.pc = "run"]) /\ UNCHANGED <<pres, pfails>>
     \/ \E r \in makeResources \ pres : pres' = pres \cup {r} /\ UNCHANGED <<pwork, pfails>>
     \/ ~(makeResources \subseteq pres) /\ PFail /\ Done(k) /\ UNCHANGED pres
  /\ UNCHANGED <<pcfg, ppj, pruns, ppjl, prunl, pqueue, pended>>

ToError(k) == Goto(k, [pwork[k] EXCEPT !.pc = "update", !.state = "error", !.desc = "start pipeline"])

createPipelineRun(k) ==
  /\ At(k, "run")
  /\ LET c == getPipelineConfig(k)
         made == [pruns EXCEPT ![c] = [life |-> "live", st |-> "scheduling", mine |-> TRUE]]
     IN \/ pruns[c].life = "gone" /\ pruns' = made /\ Goto(k, [pwork[k] EXCEPT !.pc = "poll"]) /\ UNCHANGED pfails
        \/ pruns[c].life # "gone" /\ ToError(k) /\ UNCHANGED <<pruns, pfails>>
        \/ pruns[c].life = "gone" /\ PFail /\ ToError(k) /\ pruns' \in {pruns, made}
  /\ UNCHANGED <<pcfg, ppj, pres, ppjl, prunl, pqueue, pended>>

\* The first look at the lister decides: a run that it does not have yet is an error.
PollLister(k) ==
  /\ At(k, "poll")
  /\ IF prunl[getPipelineConfig(k)].life # "gone"
     THEN Goto(k, [pwork[k] EXCEPT !.pc = "update", !.state = "pending", !.desc = "scheduling"]) /\ UNCHANGED pfails
     ELSE ToError(k) /\ IF pruns[getPipelineConfig(k)].life = "gone" THEN UNCHANGED pfails ELSE PFail
  /\ UNCHANGED <<pcfg, pcluster, ppjl, prunl, pqueue>>

\* The merge patch holds what differs from the listed ProwJob, and is not refused when
\* that is out of date.
updateProwJobState(k) ==
  /\ At(k, "update")
  /\ LET w == pwork[k]
         patch == w.new \/ w.pj.state # w.state \/ w.pj.desc # w.desc
         patched == [ppj EXCEPT !.state = IF w.pj.state # w.state THEN w.state ELSE @,
                                !.desc = IF w.pj.desc # w.desc THEN w.desc ELSE @]
     IN \/ patch /\ ppj.life # "gone" /\ ppj' = patched /\ UNCHANGED pfails
        \/ (~patch \/ ppj.life = "gone") /\ UNCHANGED <<ppj, pfails>>
        \/ patch /\ ppj.life # "gone" /\ PFail /\ ppj' \in {ppj, patched}
  /\ Done(k)
  /\ UNCHANGED <<pcfg, pruns, pres, ppjl, prunl, pqueue, pended>>

PWorker(k) ==
  \/ runWorker(k) \/ deletePipelineRun(k) \/ GetPipelineID(k) \/ createPipelineResource(k)
  \/ createPipelineRun(k) \/ PollLister(k) \/ updateProwJobState(k)

PKeys == PContexts \cup {pcfg.cluster}
PInformers == ProwJobEvent \/ Resync \/ \E c \in PContexts : RunEvent(c)
PTekton == \E c \in PContexts : RunProgress(c) \/ RunRemoved(c)

PNext ==
  \/ \E k \in PKeys : PWorker(k)
  \/ PInformers \/ PTekton \/ ProwJobDeleted \/ \E c \in PContexts : RunDeletedByHand(c)

-----------------------------------------------------------------------------

\* A state that a run, or a failure on the way, accounts for.
PJustified(s) ==
  /\ s = "success" => "true" \in pended
  /\ s = "failure" => "false" \in pended
  /\ s = "error" => "nocondition" \in pended \/ pfails > 0 \/ pcfg.cluster \notin PContexts

\* A ProwJob has the verdict of a PipelineRun of its name; it is an error without one only
\* if something failed on the way; and a run is never there before its git resources.
PVerdictOfRun ==
  /\ PJustified(ppj.state)
  /\ \A c \in PContexts : pruns[c].mine => makeResources \subseteq pres

PSpec == PInit /\ [][PNext]_pipelineVars

\* The inductive invariant behind PVerdictOfRun. As long as nothing fails, what the lister says of
\* the run of the ProwJob's cluster is so while a worker creates that run.
PLife == {"live", "deleting", "gone"}
PEnds == {"nocondition", "true", "false"}
PRun == [life : PLife, st : {"scheduling", "running"} \cup PEnds, mine : BOOLEAN]
PState == {"", "triggered", "pending", "success", "failure", "error"}
PDesc == {"", "start pipeline", "scheduling", "running"} \cup PEnds
PProwJob == [life : PLife, state : PState, desc : PDesc]
PWork ==
  [pc : {"delete", "create", "resources", "run", "poll", "update"}, pj : PProwJob,
   state : PState, desc : PDesc, new : BOOLEAN]

PTypeOK ==
  /\ ppj \in PProwJob /\ ppjl \in PProwJob
  /\ pruns \in [PContexts -> PRun] /\ prunl \in [PContexts -> PRun]
  /\ pwork \in [DOMAIN pwork -> PWork] /\ DOMAIN pwork \subseteq PKeys
  /\ pfails \in Nat

ToldInv ==
  /\ PJustified(ppj.state) /\ \A k \in DOMAIN pwork : PJustified(pwork[k].state)
  /\ \A c \in PContexts : {pruns[c].st, prunl[c].st} \cap PEnds \subseteq pended

ResourcesInv ==
  /\ \A c \in PContexts : pruns[c].mine => makeResources \subseteq pres
  /\ \A k \in PKeys : At(k, "run") => makeResources \subseteq pres

Creates(k) == At(k, "create") \/ At(k, "resources") \/ At(k, "run")

\* Only the ProwJob's own key creates, and it deletes only once the ProwJob is going.
KeyInv ==
  /\ ppjl.life # "live" => ppj.life # "live"
  /\ \A k \in PKeys : Creates(k) \/ At(k, "poll") => k = pcfg.cluster
  /\ At(pcfg.cluster, "delete") => ppjl.life # "live"

CreationOK(c) ==
  /\ Creates(c) => pruns[c].life = "gone" /\ prunl[c].life = "gone"
  /\ At(c, "poll") => pruns[c].life = "live" /\ prunl[c].life \in {"gone", "live"}
  /\ ppjl.life = "live" => \/ pruns[c].life = "gone" /\ prunl[c].life = "gone"
                           \/ pruns[c].life = "live" /\ (prunl[c].life = "live" \/ At(c, "poll"))

CreationInv == pfails = 0 /\ pcfg.cluster \in PContexts => CreationOK(pcfg.cluster)

PInv == PTypeOK /\ ToldInv /\ ResourcesInv /\ KeyInv /\ CreationInv

\* A ProwJob for a configured cluster ends, unless it is deleted or can have no run.
PJobsComplete ==
  (pcfg.agent = "tekton" /\ pcfg.spec /\ ValidatePipelineRunSpec /\ pcfg.cluster \in PContexts)
    => finalState(ppj.state) \/ ppj.life # "live"

\* The runs that prow made for a ProwJob that is gone are deleted in the end, even if the
\* event of the deletion was lost or the first attempt failed.
PRunsCollected ==
  ppj.life = "gone" => (\A c \in PContexts : ~pruns[c].mine)
=============================================================================
