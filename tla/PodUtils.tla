------------------------------ MODULE PodUtils ------------------------------
(***************************************************************************)
(* A decorated test pod (src/pod-utils, src/clonerefs, src/initupload,     *)
(* src/entrypoint, src/sidecar, src/gcsupload): the init containers clone  *)
(* the refs and upload started.json, then every test container runs its    *)
(* process under the entrypoint, which leaves the exit code in a marker    *)
(* file, and the sidecar waits for the markers and uploads finished.json.  *)
(*                                                                         *)
(* The entries of the sidecar are the test containers, in the order of     *)
(* their previous markers; decorate makes one, the binaries take several.  *)
(***************************************************************************)
EXTENDS Integers, Sequences, FiniteSets

CONSTANTS
  UConfigs,    \* [refs, skip, type, entries, chain, alwaysZero, workers]: the number of refs,
               \* SkipCloning, the job type, the number of entries, whether each waits for the
               \* one before it, AlwaysZero, and MaxParallelWorkers (0: one for each ref)
  MaxUFails    \* bound on failing commands and uploads, killed containers, and lost signals

VARIABLES
  ucfg,
  uphase,      \* the container that the pod runs: "clonerefs", ..., "run"; or "failed", "done"
  uclone,      \* the state of each ref: "todo", "base", "pulls", or its record
  ugcs,        \* the objects in the bucket
  uent,        \* the entrypoint of each entry: pc, the code to mark, its exit code, and whether it
               \* has stopped its process
  uproc,       \* the test process of each entry: "none", "running", "zero", "nonzero", "killed"
  uint,        \* the containers with a pending interrupt
  udeleted,    \* whether the pod was deleted
  umark,       \* the marker file of each entry, -1 if there is none
  uside,       \* the sidecar: pc, the entry that it waits for, cancelled, passed, aborted, failures
  ufails

podVars == <<ucfg, uphase, uclone, ugcs, uent, uproc, uint, udeleted, umark, uside, ufails>>

InternalErrorCode == 127
AbortedErrorCode == 130
PreviousErrorCode == 1000 + AbortedErrorCode

URefs == 1 .. ucfg.refs
UEntries == 1 .. ucfg.entries
NoMarker == -1

UFail == ufails < MaxUFails /\ ufails' = ufails + 1

\* Nothing is cloned without refs or with SkipCloning.
CloneRefs == ucfg.refs > 0 /\ ~ucfg.skip
decorate == (IF CloneRefs THEN <<"clonerefs">> ELSE <<>>) \o <<"initupload", "place-entrypoint", "run">>
AfterPhase(p) == decorate[1 + CHOOSE i \in DOMAIN decorate : decorate[i] = p]

UInit ==
  /\ ucfg \in UConfigs
  /\ uphase = decorate[1]
  /\ uclone = [r \in URefs |-> "todo"] /\ ugcs = [o \in {} |-> ""]
  /\ uent = [e \in UEntries |-> [pc |-> "start", code |-> 0, exit |-> -1, cut |-> FALSE]]
  /\ uproc = [e \in UEntries |-> "none"] /\ uint = {} /\ udeleted = FALSE
  /\ umark = [e \in UEntries |-> NoMarker]
  /\ uside = [pc |-> "start", at |-> 1, cancelled |-> FALSE, passed |-> TRUE, aborted |-> FALSE, failures |-> 0]
  /\ ufails = 0

urun == <<uent, uproc, uint, umark, uside>>

-----------------------------------------------------------------------------
(* Cloning.                                                                *)

Recorded == {"ok", "no sha", "failed"}
Cloning == {r \in URefs : uclone[r] \in {"base", "pulls"}}

\* The commands for the base ref, then those for the pull refs; the first that fails ends the
\* record. A head that cannot be read leaves it without a SHA.
CloneStep(r) ==
  /\ uphase = "clonerefs"
  /\ uclone[r] = "todo" => Cardinality(Cloning) < (IF ucfg.workers = 0 THEN ucfg.refs ELSE ucfg.workers)
  /\ \/ /\ uclone[r] \in {"todo", "base", "pulls"} /\ UNCHANGED ufails
        /\ uclone' = [uclone EXCEPT ![r] = CASE @ = "todo" -> "base" [] @ = "base" -> "pulls" [] OTHER -> "ok"]
     \/ uclone[r] \in {"base", "pulls"} /\ UFail /\ uclone' = [uclone EXCEPT ![r] = "failed"]
     \/ uclone[r] = "pulls" /\ UFail /\ uclone' = [uclone EXCEPT ![r] = "no sha"]
  /\ UNCHANGED <<ucfg, uphase, ugcs, udeleted, urun>>

\* The records are written; a failed one does not fail the container.
CloneDone ==
  /\ uphase = "clonerefs" /\ \A r \in URefs : uclone[r] \in Recorded
  /\ \/ uphase' = AfterPhase(uphase) /\ UNCHANGED ufails
     \/ UFail /\ uphase' = "failed"
  /\ UNCHANGED <<ucfg, uclone, ugcs, udeleted, urun>>

-----------------------------------------------------------------------------
(* Uploading.                                                              *)

\* What every upload also writes for a job of this type.
LatestBuildForSpec == {"latest-build"} \cup (IF ucfg.type = "presubmit" THEN {"pull-latest-build"} ELSE {})
AliasForSpec == IF ucfg.type = "presubmit" THEN {"alias"} ELSE {}

assembleTargets(extra) ==
  LET common == LatestBuildForSpec \cup AliasForSpec
  IN [o \in common \cup DOMAIN extra |-> IF o \in DOMAIN extra THEN extra[o] ELSE "build id"]

\* The uploads run in parallel: when some fail the others are done.
upload(targets, then, else) ==
  \/ /\ ugcs' = [o \in DOMAIN ugcs \cup DOMAIN targets |-> IF o \in DOMAIN targets THEN targets[o] ELSE ugcs[o]]
     /\ then /\ UNCHANGED ufails
  \/ /\ UFail /\ else
     /\ \E lost \in DOMAIN targets :
          ugcs' = [o \in DOMAIN ugcs \cup (DOMAIN targets \ {lost}) |->
                     IF o \in DOMAIN targets \ {lost} THEN targets[o] ELSE ugcs[o]]

CloneFailed == CloneRefs /\ \E r \in URefs : uclone[r] = "failed"

\* RepoVersion is the SHA of the main refs' record, or else what the spec says.
specToStarted == IF CloneRefs /\ uclone[1] = "ok" THEN "cloned sha" ELSE "spec"

processCloneLog ==
  LET log == IF ~CloneRefs THEN {} ELSE {"clone-log", "clone-records"}
      fail == IF CloneFailed THEN {"build-log", "finished"} ELSE {}
  IN [o \in log \cup fail |-> IF o = "finished" THEN "FAILURE" ELSE "clone log"]

InitUpload ==
  /\ uphase = "initupload"
  /\ LET targets == assembleTargets([o \in {"started"} \cup DOMAIN processCloneLog |->
                                       IF o = "started" THEN specToStarted ELSE processCloneLog[o]])
     IN upload(targets, uphase' = IF CloneFailed THEN "failed" ELSE AfterPhase(uphase), uphase' = "failed")
  /\ UNCHANGED <<ucfg, uclone, udeleted, urun>>

PlaceEntrypoint ==
  /\ uphase = "place-entrypoint" /\ uphase' = AfterPhase(uphase)
  /\ UNCHANGED <<ucfg, uclone, ugcs, udeleted, ufails, urun>>

-----------------------------------------------------------------------------
(* The entrypoint.                                                         *)

EAt(e, pc) == uphase = "run" /\ uent[e].pc = pc
EGo(e, pc) == uent' = [uent EXCEPT ![e].pc = pc]
ECut(e, pc) == uent' = [uent EXCEPT ![e].pc = pc, ![e].cut = TRUE]
EMark(e, code) == uent' = [uent EXCEPT ![e].pc = "mark", ![e].code = code]
ucontext == <<ucfg, uphase, uclone, ugcs, udeleted, uside>>

\* The directory and the log; then the entry waits for the one before it, if it is told to.
EPrepare(e) ==
  /\ EAt(e, "start")
  /\ \/ EGo(e, IF ucfg.chain /\ e > 1 THEN "wait" ELSE "exec") /\ UNCHANGED ufails
     \/ UFail /\ EMark(e, InternalErrorCode)
  /\ UNCHANGED <<uproc, uint, umark, ucontext>>

\* The goroutine that listens during the wait may take a signal that comes as it ends.
EWaitPrevious(e) ==
  /\ EAt(e, "wait")
  /\ \/ /\ umark[e - 1] # NoMarker
        /\ IF umark[e - 1] # 0 THEN EMark(e, PreviousErrorCode) ELSE EGo(e, "exec")
        /\ \/ UNCHANGED <<uint, ufails>>
           \/ e \in uint /\ UFail /\ uint' = uint \ {e}
     \/ e \in uint /\ uint' = uint \ {e} /\ EMark(e, InternalErrorCode) /\ UNCHANGED ufails
  /\ UNCHANGED <<uproc, umark, ucontext>>

EExec(e) ==
  /\ EAt(e, "exec")
  /\ \/ EGo(e, "running") /\ uproc' = [uproc EXCEPT ![e] = "running"] /\ UNCHANGED ufails
     \/ UFail /\ EMark(e, InternalErrorCode) /\ UNCHANGED uproc
  /\ UNCHANGED <<uint, umark, ucontext>>

\* The test process, which may also end when it is interrupted.
ProcessExit(e) ==
  /\ uproc[e] = "running" /\ \E x \in {"zero", "nonzero"} : uproc' = [uproc EXCEPT ![e] = x]
  /\ UNCHANGED <<uent, uint, umark, ucontext, ufails>>

ExitStatus(e) == IF uproc[e] = "zero" THEN 0 ELSE 1

\* The select of ExecuteProcess: the process is done, or the timeout is over, or a signal came.
ExecuteProcess(e) ==
  /\ EAt(e, "running")
  /\ \/ uproc[e] \in {"zero", "nonzero"} /\ EMark(e, ExitStatus(e)) /\ UNCHANGED <<uint, ufails>>
     \/ UFail /\ ECut(e, "timeout") /\ UNCHANGED uint
     \/ e \in uint /\ uint' = uint \ {e} /\ ECut(e, "abort") /\ UNCHANGED ufails
  /\ UNCHANGED <<uproc, umark, ucontext>>

\* Mutant: the exit code of a process that ends within the grace period is the code.
TerminateKeepsCode(e) ==
  /\ EAt(e, "timeout") \/ EAt(e, "abort")
  /\ EMark(e, IF uproc[e] \in {"zero", "nonzero"} THEN ExitStatus(e)
              ELSE IF uent[e].pc = "abort" THEN AbortedErrorCode ELSE InternalErrorCode)
  /\ uproc' = [uproc EXCEPT ![e] = IF @ = "running" THEN "killed" ELSE @]
  /\ UNCHANGED <<uint, umark, ucontext, ufails>>

\* The process ends within the grace period, or it is killed; its exit code is ignored.
gracefullyTerminate(e) ==
  /\ EAt(e, "timeout") \/ EAt(e, "abort")
  /\ EMark(e, IF uent[e].pc = "abort" THEN AbortedErrorCode ELSE InternalErrorCode)
  /\ uproc' = [uproc EXCEPT ![e] = IF @ = "running" THEN "killed" ELSE @]
  /\ UNCHANGED <<uint, umark, ucontext, ufails>>

\* The marker appears with its content, by a rename.
mark(e) ==
  /\ EAt(e, "mark")
  /\ \/ /\ umark' = [umark EXCEPT ![e] = uent[e].code] /\ UNCHANGED ufails
        /\ uent' = [uent EXCEPT ![e].pc = "exited", ![e].exit = IF ucfg.alwaysZero THEN 0 ELSE uent[e].code]
     \/ UFail /\ uent' = [uent EXCEPT ![e].pc = "exited", ![e].exit = InternalErrorCode] /\ UNCHANGED umark
  /\ UNCHANGED <<uproc, uint, ucontext>>

-----------------------------------------------------------------------------
(* The sidecar, whose interrupt channel has no buffer: the signal is lost  *)
(* while nobody listens.                                                   *)

unotside == <<ucfg, uphase, uclone, uent, uproc, udeleted, umark>>

SidecarStart ==
  /\ uphase = "run" /\ uside.pc = "start" /\ uside' = [uside EXCEPT !.pc = "wait"]
  /\ UNCHANGED <<unotside, ugcs, uint, ufails>>

SidecarInterrupt ==
  /\ uside.pc = "wait" /\ 0 \in uint /\ uint' = uint \ {0} /\ uside' = [uside EXCEPT !.cancelled = TRUE]
  /\ UNCHANGED <<unotside, ugcs, ufails>>

\* One entry of wait: its code, or -1 with an error when the wait is cancelled.
WaitForMarker ==
  /\ uside.pc = "wait" /\ uside.at \in UEntries
  /\ umark[uside.at] # NoMarker \/ uside.cancelled
  /\ LET code == umark[uside.at]
     IN uside' = [uside EXCEPT !.at = @ + 1, !.passed = @ /\ code = 0,
                               !.aborted = @ \/ code = AbortedErrorCode,
                               !.failures = IF code \notin {0, PreviousErrorCode} THEN @ + 1 ELSE @]
  /\ UNCHANGED <<unotside, ugcs, uint, ufails>>

UResult == IF uside.passed THEN "SUCCESS" ELSE IF uside.aborted THEN "ABORTED" ELSE "FAILURE"

doUpload ==
  /\ uside.pc = "wait" /\ uside.at \notin UEntries
  /\ LET targets == assembleTargets([o \in {"build-log", "finished", "artifacts"} |->
                                       IF o = "finished" THEN UResult ELSE "files"])
     IN upload(targets, uside' = [uside EXCEPT !.pc = "exited"], uside' = [uside EXCEPT !.pc = "error"])
  /\ UNCHANGED <<unotside, uint>>

PodDone ==
  /\ uphase = "run" /\ uside.pc \in {"exited", "error"} /\ \A e \in UEntries : uent[e].pc = "exited"
  /\ uphase' = "done"
  /\ UNCHANGED <<ucfg, uclone, ugcs, udeleted, ufails, urun>>

-----------------------------------------------------------------------------
(* The kubelet.                                                            *)

\* The signal goes to every container of the pod; one that does not handle it yet dies of it.
PodDeleted ==
  /\ uphase = "run" /\ ~udeleted /\ udeleted' = TRUE
  /\ \A e \in UEntries : uent[e].pc # "start"
  /\ uside.pc # "start"
  /\ uint' = {e \in UEntries : uent[e].pc # "exited"} \cup (IF uside.pc = "wait" THEN {0} ELSE {})
  /\ UNCHANGED <<ucfg, uphase, uclone, ugcs, uent, uproc, umark, uside, ufails>>

SidecarMissesSignal ==
  /\ 0 \in uint /\ UFail /\ uint' = uint \ {0}
  /\ UNCHANGED <<unotside, ugcs, uside>>

\* The grace period is over, or the container needs too much memory.
ContainerKilled(e) ==
  /\ uphase = "run" /\ uent[e].pc # "exited" /\ UFail
  /\ uent' = [uent EXCEPT ![e].pc = "exited", ![e].exit = 137] /\ uproc' = [uproc EXCEPT ![e] = "killed"]
  /\ UNCHANGED <<uint, umark, ucontext>>

EntryStep(e) ==
  \/ EPrepare(e) \/ EWaitPrevious(e) \/ EExec(e) \/ ProcessExit(e) \/ ExecuteProcess(e)
  \/ gracefullyTerminate(e) \/ mark(e)
SidecarStep == SidecarStart \/ SidecarInterrupt \/ WaitForMarker \/ doUpload

UNext ==
  \/ \E r \in URefs : CloneStep(r)
  \/ CloneDone \/ InitUpload \/ PlaceEntrypoint \/ SidecarStep \/ PodDone
  \/ PodDeleted \/ SidecarMissesSignal
  \/ \E e \in UEntries : EntryStep(e) \/ ContainerKilled(e)

-----------------------------------------------------------------------------

\* What finished.json says is true: SUCCESS only if every process ended by itself with zero
\* and left its marker, and always if nothing failed then; ABORTED only after the pod was deleted;
\* no test runs when a clone failed, and started.json names the cloned commit only if there is one.
FinishedTellsTruth ==
  /\ ("finished" \in DOMAIN ugcs /\ ~CloneFailed) =>
       /\ ugcs["finished"] = "SUCCESS" => \A e \in UEntries : umark[e] = 0 /\ uproc[e] = "zero" /\ ~uent[e].cut
       /\ ugcs["finished"] = "ABORTED" => udeleted
       /\ (ufails = 0 /\ ~udeleted /\ \A e \in UEntries : uproc[e] = "zero") => ugcs["finished"] = "SUCCESS"
  /\ CloneFailed => \A e \in UEntries : uproc[e] = "none"
  /\ "started" \in DOMAIN ugcs => (ugcs["started"] = "cloned sha" => uclone[1] = "ok")

\* A pod whose containers are not killed comes to an end, with its results in the bucket if
\* nothing failed; the sidecar never waits for an entry that will not leave a marker.
PodEnds ==
  \/ uphase \in {"failed", "done"} /\ (ufails = 0 => "finished" \in DOMAIN ugcs)
  \/ ufails > 0
=============================================================================
