------------------------------ MODULE Horologium ------------------------------
(***************************************************************************)
(* horologium (src/cmd/horologium/main.go) starts the periodic jobs, with  *)
(* the cron agent of src/cron/cron.go for those with a cron string, beside *)
(* sinker, which has to leave the ProwJob that the next start depends on.  *)
(* Cron entries fire in goroutines of the cron library, which wait for the *)
(* agent's lock; the job config may be reloaded at any time.               *)
(***************************************************************************)
EXTENDS Sinker

CONSTANTS
  Configs,   \* job configs: for each job "none", "interval", or a cron string
  MaxReloads \* bound on the config reloads of one behaviour

ASSUME HorologiumAssumption ==
  /\ \A c \in Configs : \A j \in ActivePeriodics : c[j] # "none"
  /\ \A p \in PJ : Periodic(p)
  /\ "none" \notin PJ

VARIABLES
  cfg,      \* the config that the config agent has loaded
  reloads,  \* how often it was reloaded
  late,     \* the ProwJobs that started longer ago than their job's interval
  jobs,     \* Cron.jobs: the cron string of each job's entry, or "none"
  triggered,\* the jobs whose entry is marked as triggered
  fired,    \* the entries whose function waits for the lock
  hpc,      \* where sync is: "idle", "config", "queued" or "create"
  hcfg,     \* the config of this sync
  latest,   \* latestJobs: for each job "none", or whether its latest ProwJob, as it was listed,
            \* is "running", "complete", or complete and also "late"
  triggers, \* cronTriggers
  todo      \* the periodics that sync still has to look at

syncVars == <<hpc, hcfg, latest, triggers, todo>>
horologiumVars == <<cfg, reloads, late, jobs, triggered, fired, syncVars>>

NoConfig == [j \in Job |-> "none"]

HorologiumInit ==
  /\ cfg \in Configs /\ reloads = 0
  /\ late = {} /\ triggered = {} /\ fired = {}
  /\ jobs = NoConfig
  /\ hpc = "idle" /\ hcfg = NoConfig /\ latest = [j \in Job |-> "none"] /\ triggers = {} /\ todo = {}

Crons(c) == {j \in Job : c[j] \notin {"none", "interval"}}

-----------------------------------------------------------------------------
(* The environment: config reloads, the clock and the cron library.        *)

Reload ==
  /\ reloads < MaxReloads
  /\ cfg' \in Configs \ {cfg}
  /\ reloads' = reloads + 1
  /\ UNCHANGED <<late, jobs, triggered, fired, syncVars>>

Begun(p) == pj[p].state # "uncreated"
SameJob(p, q) == SpecOf[p].job = SpecOf[q].job

\* The interval is over for p, and so it is for the runs that started before.
Late(p) ==
  /\ Begun(p) /\ p \notin late
  /\ late' = late \cup {q \in PJ : SameJob(p, q) /\ Begun(q) /\ Started[q] <= Started[p]}
  /\ UNCHANGED <<cfg, reloads, jobs, triggered, fired, syncVars>>

Fire(j) ==
  /\ jobs[j] # "none"
  /\ fired' = fired \cup {j}
  /\ UNCHANGED <<cfg, reloads, late, jobs, triggered, syncVars>>

\* The function of an entry gets the lock. The entry may have been removed or replaced in
\* the meantime; writing to a removed one panics, which the library recovers from.
Trigger(j) ==
  /\ j \in fired
  /\ fired' = fired \ {j}
  /\ triggered' = IF jobs[j] = "none" THEN triggered ELSE triggered \cup {j}
  /\ UNCHANGED <<cfg, reloads, late, jobs, syncVars>>

-----------------------------------------------------------------------------
(* sync.                                                                   *)

\* What sync knows of a ProwJob that is the latest one of its job.
Listed(p) ==
  IF ~pj[p].complete THEN "running" ELSE IF p \in late THEN "late" ELSE "complete"

\* The ProwJobs are listed from the API server; an error ends the sync. The config and the
\* time of the sync are read just before.
List ==
  /\ hpc = "idle"
  /\ hcfg' = cfg
  /\ \E f \in [Job -> PJ \cup {"none"}] :
       /\ \A j \in Job : LET S == {p \in Latest({q \in PJ : Exists(q)}) : SpecOf[p].job = j}
                         IN f[j] \in IF S = {} THEN {"none"} ELSE S
       /\ latest' = [j \in Job |-> IF f[j] = "none" THEN "none" ELSE Listed(f[j])]
  /\ hpc' = "config"
  /\ UNCHANGED <<cfg, reloads, late, jobs, triggered, fired, triggers, todo>>

\* addPeriodic leaves an entry with the same cron string alone and replaces one with
\* another; entries of jobs that are not in the config any more are removed.
SyncConfig ==
  /\ hpc = "config"
  /\ LET fresh == {j \in Crons(hcfg) : jobs[j] # hcfg[j]}
         gone == {j \in Job : hcfg[j] = "none"}
     IN /\ jobs' = [j \in Job |-> IF j \in fresh THEN hcfg[j] ELSE IF j \in gone THEN "none" ELSE jobs[j]]
        /\ triggered' = (triggered \ (fresh \cup gone)) \cup {j \in fresh : hcfg[j] = "@every"}
  /\ hpc' = "queued"
  /\ UNCHANGED <<cfg, reloads, late, fired, hcfg, latest, triggers, todo>>

\* Queued jobs are handed out and reset under one lock.
QueuedJobs ==
  /\ hpc = "queued"
  /\ triggers' = triggered
  /\ triggered' = {}
  /\ todo' = {j \in Job : hcfg[j] # "none"}
  /\ hpc' = "create"
  /\ UNCHANGED <<cfg, reloads, late, jobs, fired, hcfg, latest>>

\* Mutant: a cron periodic is started although its last run has not ended.
ShouldTriggerOverlapping(j) ==
  IF hcfg[j] = "interval" THEN latest[j] \in {"none", "late"} ELSE j \in triggers

\* Mutant: a first run is never started.
ShouldTriggerAgain(j) ==
  IF hcfg[j] = "interval" THEN latest[j] = "late" ELSE j \in triggers /\ latest[j] \in {"complete", "late"}

\* Whether a run of j is due.
ShouldTrigger(j) ==
  IF hcfg[j] = "interval" THEN latest[j] \in {"none", "late"}
  ELSE j \in triggers /\ latest[j] \in {"none", "complete", "late"}

\* One periodic: a new ProwJob is created, or not, or its creation fails. The names of the
\* model are used up in order.
Start(j) ==
  LET new == {p \in PJ : pj[p].state = "uncreated" /\ SpecOf[p].job = j
                         /\ \A q \in PJ : SpecOf[q].job = j /\ Created[q] < Created[p] => pj[q].state # "uncreated"}
  IN /\ hpc = "create" /\ j \in todo
     /\ IF ShouldTrigger(j) 
          THEN \/ \E p \in new : pj' = [pj EXCEPT ![p] = NewProwJob] /\ NoFault
               \/ UNCHANGED pj /\ IF new = {} THEN NoFault ELSE Fault(1)
          ELSE UNCHANGED <<pj, faults>>
     /\ todo' = todo \ {j}
     /\ UNCHANGED <<pod, builds, disrupted, cfg, reloads, late, jobs, triggered, fired, hpc, hcfg, latest, triggers>>

SyncDone ==
  /\ hpc = "create" /\ todo = {}
  /\ hpc' = "idle" /\ hcfg' = NoConfig /\ triggers' = {} /\ latest' = [j \in Job |-> "none"]
  /\ UNCHANGED <<cfg, reloads, late, jobs, triggered, fired, todo>>

\* horologium is restarted: the cron agent starts without entries.
Restart ==
  /\ Fault(1)
  /\ jobs' = NoConfig
  /\ triggered' = {} /\ fired' = {} /\ hpc' = "idle" /\ hcfg' = NoConfig /\ triggers' = {} /\ todo' = {}
  /\ latest' = [j \in Job |-> "none"]
  /\ UNCHANGED <<pj, pod, builds, disrupted, cfg, reloads, late>>

sync ==
  \/ (List \/ SyncConfig \/ QueuedJobs \/ SyncDone) /\ UNCHANGED clusterVars
  \/ \E j \in Job : Start(j)

-----------------------------------------------------------------------------

hVars == <<clusterVars, sinkerVars, horologiumVars>>

HInit == ClusterInit /\ SinkerInit /\ HorologiumInit

HNext ==
  \/ (sync \/ Restart) /\ UNCHANGED sinkerVars
  \/ Reload /\ UNCHANGED <<clusterVars, sinkerVars>>
  \/ \E j \in Job : (Fire(j) \/ Trigger(j)) /\ UNCHANGED <<clusterVars, sinkerVars>>
  \/ \E p \in PJ : Late(p) /\ UNCHANGED <<clusterVars, sinkerVars>>
  \/ \E p \in PJ : Complete(p) /\ UNCHANGED horologiumVars
  \/ SinkerNext /\ UNCHANGED horologiumVars

HSpec == HInit /\ [][HNext]_hVars

\* sync runs every minute, time passes, jobs end, and cron entries fire again and again.
HFairSpec ==
  /\ HSpec
  /\ WF_hVars(sync /\ UNCHANGED sinkerVars)
  /\ \A p \in PJ : /\ WF_hVars(Late(p) /\ UNCHANGED <<clusterVars, sinkerVars>>)
                   /\ WF_hVars(Complete(p) /\ UNCHANGED horologiumVars)
  /\ \A j \in Job : /\ WF_hVars(Fire(j) /\ UNCHANGED <<clusterVars, sinkerVars>>)
                    /\ WF_hVars(Trigger(j) /\ UNCHANGED <<clusterVars, sinkerVars>>)

\* Two runs of a periodic never overlap: sync starts one only when the latest has ended,
\* whatever fires, is reloaded or fails in between.
NoOverlap ==
  \A p, q \in PJ : Exists(p) /\ Exists(q) /\ SameJob(p, q) /\ p # q =>
                     pj[p].complete \/ pj[q].complete

\* A periodic that stays in the config, with an interval as this sync read it.
Interval(j) == j \in ActivePeriodics /\ hcfg[j] = "interval"

\* An interval periodic is never started before its interval is over, counted from the
\* latest run there ever was: sinker, which works from an old list, leaves that run's
\* ProwJob in place for as long as the job is in the config.
IntervalKept ==
  [][\A p \in PJ : ~Begun(p) /\ Exists(p)' /\ Interval(SpecOf[p].job) =>
       \A q \in PJ \ {p} : SameJob(p, q) /\ Begun(q) => q \in late]_hVars

\* Every periodic that stays in the config is started again and again, as often as there
\* are names for its ProwJobs, although triggers are lost to reloads, restarts and failed
\* requests.
Recurs ==
  \A p \in PJ : SpecOf[p].job \in ActivePeriodics => <>(pj[p].state # "uncreated")

-----------------------------------------------------------------------------
(* The inductive invariant behind NoOverlap and IntervalKept.              *)

\* A later run of the periodic has been started.
Superseded(p) == \E q \in PJ : SameJob(p, q) /\ Begun(q) /\ Started[q] > Started[p]

\* sync has still to decide whether to start j.
Undecided(j) == hpc \in {"config", "queued"} \/ (hpc = "create" /\ j \in todo)

HTypeOK ==
  /\ pj \in [PJ -> ProwJob] /\ cache \in [PJ -> ProwJob]
  /\ late \subseteq PJ /\ todo \subseteq Job
  /\ hpc \in {"idle", "config", "queued", "create"}
  /\ latest \in [Job -> {"none", "running", "complete", "late"}]
  /\ isFinished \subseteq PJ /\ sweep \subseteq PJ

\* Runs are started in order, an unfinished one is the last of its job, and those that
\* started before a late one are late.
RunsInv ==
  /\ \A p \in late : Begun(p)
  /\ \A p, q \in PJ : SameJob(p, q) =>
       /\ Begun(p) /\ Created[q] < Created[p] => Begun(q)
       /\ Exists(p) /\ ~pj[p].complete /\ Started[q] > Started[p] => ~Begun(q)
       /\ p \in late /\ Begun(q) /\ Started[q] <= Started[p] => q \in late

\* sinker deletes no ProwJob of an active periodic but those with a successor.
RetainInv ==
  /\ \A p \in PJ : cache[p].state \in ProwJobState => Begun(p)
  /\ spc \in {"jobs", "periodics"} => sweep \subseteq isFinished
  /\ \A p \in PJ : SpecOf[p].job \in ActivePeriodics /\ (p \in isFinished \/ pj[p].state = "deleted") => Superseded(p)

\* What sync listed is still so for the jobs that it has not decided on.
ListedInv ==
  \A j \in Job : Undecided(j) =>
    \A p \in PJ : SpecOf[p].job = j =>
      /\ latest[j] # "running" /\ Exists(p) => pj[p].complete
      /\ latest[j] \in {"none", "late"} /\ j \in ActivePeriodics /\ Begun(p) => p \in late

HIInv == HTypeOK /\ RunsInv /\ RetainInv /\ ListedInv
=============================================================================
