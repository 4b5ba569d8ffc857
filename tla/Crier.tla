------------------------------- MODULE Crier -------------------------------
(***************************************************************************)
(* Crier (crier/controller.go): an informer feeds the keys of changed      *)
(* ProwJobs to a rate-limited work queue; workers take a key, ask the      *)
(* reporter whether the ProwJob is its business, send the report and       *)
(* record the reported state in status.prev_report_states, so that the     *)
(* next event does not report the same state again.                        *)
(*                                                                         *)
(* One reporter is modelled at a time: the Gerrit reporter, which reports  *)
(* all jobs of a revision together, when conf.gerrit holds, otherwise one  *)
(* that reports each ProwJob on its own (GitHub, Pub/Sub, Slack).          *)
(***************************************************************************)
EXTENDS Naturals, Sequences

CONSTANTS
    PJ,               \* the ProwJobs
    Worker,           \* the workers of this reporter's controller
    Revision,         \* the Gerrit revision, type and report label of each PJ
    JobOf, Created,   \* the job name and the creation time of each PJ
    NumRetries,       \* the requeues at which retry gives up: 5 in the code
    Setting           \* the settings to check: see conf

Final == {"success", "failure", "aborted", "error"}
Active == {"triggered", "pending"}
State == Active \cup Final

ASSUME CrierAssumption ==
    /\ PJ # {}
    /\ Created \in [PJ -> Nat]
    /\ NumRetries \in Nat \ {0}
    /\ \A s \in Setting :
          /\ s.gerrit \in BOOLEAN
          /\ s.pjs \subseteq PJ /\ s.workers \subseteq Worker
          /\ s.gerrit => \A v, w \in s.workers : v = w
          /\ s.outcomes \subseteq State \ {"triggered"}
          /\ s.bounds \in [{"touch", "report", "trouble", "removal", "crash"} -> Nat]

VARIABLES
    conf,       \* the reporter, the ProwJobs that may be created, the workers,
                \* the states jobs may move to, and bounds: updates by other
                \* reporters, failing reports, failing API calls or expired
                \* polls, deletions by sinker and restarts of crier
    api,        \* the ProwJobs in the API server
    stream,     \* watch events under way to the informer, oldest first
    lister,     \* the informer's cache
    delayed,    \* keys waiting in the rate limiter
    dirty,      \* the queue's dirty set
    processing, \* keys handed to a worker
    requeues,   \* NumRequeues of each key, saturated at the limit
    wk,         \* the workers
    sent,       \* what the reporter's backend has received for each PJ
    used        \* how much of each bound has been used up

queueVars == <<delayed, dirty, processing, requeues>>
vars == <<conf, api, stream, lister, queueVars, wk, sent, used>>

\* status.state and what status.prev_report_states says of this reporter:
\* "nil" when the whole map is absent, "empty" when it has no entry for it.
Version == [state : {"new", "gone"} \cup State,
            prev : {"nil", "empty"} \cup State]

Missing(s) == [state |-> s, prev |-> "nil"]
Present(v) == v.state \in State

Worked == CHOOSE p \in PJ : TRUE
Idle == [pc |-> "idle", key |-> Worked, now |-> Worked, todo |-> [q \in {} |-> Missing("new")]]

Init ==
    /\ conf \in Setting
    /\ api = [p \in PJ |-> Missing("new")]
    /\ lister = api
    /\ stream = [p \in PJ |-> << >>]
    /\ delayed = {} /\ dirty = {} /\ processing = {}
    /\ requeues = [p \in PJ |-> 0]
    /\ wk = [w \in Worker |-> Idle]
    /\ sent = [p \in PJ |-> << >>]
    /\ used = [touch |-> 0, report |-> 0, trouble |-> 0, removal |-> 0,
               crash |-> 0]

Spend(b) == used[b] < conf.bounds[b] /\ used' = [used EXCEPT ![b] = @ + 1]

-----------------------------------------------------------------------------
(***************************************************************************)
(* The API server and its other writers.                                   *)
(***************************************************************************)

\* Every change of an object is sent to the informer's watch.
Store(p, v) ==
    /\ api' = [api EXCEPT ![p] = v]
    /\ stream' = [stream EXCEPT ![p] = IF v = api[p] THEN @ ELSE Append(@, v)]

Create(p) ==
    /\ api[p].state = "new"
    /\ Store(p, [state |-> "triggered", prev |-> "nil"])
    /\ UNCHANGED <<lister, queueVars, wk, sent, used>>

\* Plank moves the job to its next state.
Progress(p) ==
    /\ \E s \in conf.outcomes :
          /\ api[p].state \in IF s = "pending" THEN {"triggered"} ELSE Active
          /\ Store(p, [api[p] EXCEPT !.state = s])
    /\ UNCHANGED <<lister, queueVars, wk, sent, used>>

\* Another reporter records its own report in the same map.
Touch(p) ==
    /\ Present(api[p])
    /\ Spend("touch")
    /\ LET v == [api[p] EXCEPT !.prev = IF @ = "nil" THEN "empty" ELSE @]
       IN  /\ api' = [api EXCEPT ![p] = v]
           /\ stream' = [stream EXCEPT ![p] = Append(@, v)]
    /\ UNCHANGED <<lister, queueVars, wk, sent>>

Remove(p) ==
    /\ api[p].state \in Final
    /\ Spend("removal")
    /\ Store(p, Missing("gone"))
    /\ UNCHANGED <<lister, queueVars, wk, sent>>

-----------------------------------------------------------------------------
(***************************************************************************)
(* The informer and the rate-limited work queue (client-go).               *)
(***************************************************************************)

\* AddRateLimited counts a requeue and hands the key to the delaying queue.
AddRateLimited(p) ==
    /\ requeues' = [requeues EXCEPT ![p] = IF @ < NumRetries THEN @ + 1 ELSE @]
    /\ delayed' = delayed \cup {p}

\* The informer stores the next watch event, or the latest one after a new
\* list, and calls the Add and Update handlers. There is no Delete handler.
Deliver(p) ==
    /\ stream[p] # << >>
    /\ \E i \in {1, Len(stream[p])} :
          /\ lister' = [lister EXCEPT ![p] = stream[p][i]]
          /\ stream' = [stream EXCEPT ![p] = SubSeq(@, i + 1, Len(@))]
          /\ IF Present(stream[p][i])
               THEN AddRateLimited(p)
               ELSE UNCHANGED <<requeues, delayed>>
    /\ UNCHANGED <<api, dirty, processing, wk, sent, used>>

\* The rate limiter's delay is over: queue.Add.
Release(p) ==
    /\ p \in delayed
    /\ delayed' = delayed \ {p}
    /\ dirty' = dirty \cup {p}
    /\ UNCHANGED <<api, stream, lister, processing, requeues, wk,
                   sent, used>>

-----------------------------------------------------------------------------
(***************************************************************************)
(* The workers: processNextItem.                                           *)
(***************************************************************************)

\* queue.Forget, and queue.Done by the deferred call.
Forget(w) ==
    /\ requeues' = [requeues EXCEPT ![wk[w].key] = 0]
    /\ processing' = processing \ {wk[w].key}
    /\ wk' = [wk EXCEPT ![w] = Idle]
    /\ UNCHANGED <<delayed, dirty>>

\* Mutant: a failed key is dropped instead of requeued.
RetryNever(w) == Forget(w)

\* A failed attempt is requeued unless the key has been requeued five times.
retry(w) ==
    IF requeues[wk[w].key] < NumRetries
      THEN /\ AddRateLimited(wk[w].key)
           /\ processing' = processing \ {wk[w].key}
           /\ wk' = [wk EXCEPT ![w] = Idle]
           /\ UNCHANGED dirty
      ELSE Forget(w)

Together(p) == {q \in PJ : Present(lister[q]) /\ Revision[q] = Revision[p]}

\* ShouldReport: the Gerrit reporter waits for all jobs of the revision.
ShouldReport(p) ==
    conf.gerrit => /\ lister[p].state \notin Active \cup {"aborted"}
              /\ \A q \in Together(p) : lister[q].state \notin Active

\* The ProwJobs whose state one call of Report sends, as the lister has them.
Reported(p) ==
    IF conf.gerrit
      THEN {q \in Together(p) :
              /\ lister[q].state # "aborted"
              /\ ~ \E r \in Together(p) : /\ JobOf[r] = JobOf[q]
                                          /\ Created[r] > Created[q]}
      ELSE {p}

\* The steps of processNextItem up to the report, for a key that the queue
\* hands out: nothing blocks between them. The object read from the lister is
\* the informer's own, so that giving it a map changes the cache.
Process(w, p) ==
    LET pj == lister[p]
        Mine == Present(pj) /\ ShouldReport(p)
    IN  /\ wk[w].pc = "idle"
        /\ dirty' = dirty \ {p}
        /\ UNCHANGED <<api, stream, delayed, sent, used>>
        /\ lister' = [lister EXCEPT ![p].prev =
                        IF Mine /\ @ = "nil" THEN "empty" ELSE @]
        /\ IF Mine /\ pj.prev # pj.state
             THEN /\ processing' = processing \cup {p}
                  /\ wk' = [wk EXCEPT ![w] =
                              [pc |-> "report", key |-> p, now |-> p,
                               todo |-> [q \in {p} |-> pj]]]
                  /\ UNCHANGED requeues
             ELSE /\ requeues' = [requeues EXCEPT ![p] = 0]
                  /\ UNCHANGED <<processing, wk>>

\* Mutant: the queue hands out a key that another worker is processing.
GetShared(w, p) == p \in dirty /\ Process(w, p)

\* queue.Get hands out a dirty key that no worker is processing.
Get(w, p) == p \in dirty \ processing /\ Process(w, p)

\* What a call of Report sends. Gerrit's lists the revision's jobs again.
Snap(w) ==
    IF conf.gerrit THEN [q \in Reported(wk[w].key) |-> lister[q]] ELSE wk[w].todo

SendTo(snap) ==
    sent' = [q \in PJ |-> IF q \in DOMAIN snap
                            THEN Append(sent[q], snap[q].state) ELSE sent[q]]

\* The reporter is called and the backend takes the report.
Report(w) ==
    /\ wk[w].pc = "report"
    /\ SendTo(Snap(w))
    /\ IF DOMAIN Snap(w) = {}
         THEN Forget(w)
         ELSE /\ wk' = [wk EXCEPT ![w].pc = "patch", ![w].todo = Snap(w)]
              /\ UNCHANGED queueVars
    /\ UNCHANGED <<api, stream, lister, used>>

\* The reporter fails before its first call to the backend, or after it.
ReportFails(w) ==
    /\ wk[w].pc = "report"
    /\ Spend("report")
    /\ retry(w)
    /\ UNCHANGED sent \/ SendTo(Snap(w))
    /\ UNCHANGED <<api, stream, lister>>

\* The merge patch of updateReportState for q, which was read as v.
PatchOf(q, v) ==
    Store(q, IF v.prev = v.state THEN api[q]
                                 ELSE [api[q] EXCEPT !.prev = v.state])

\* A call to the API server about q fails: q is gone, or the call is lost.
Refused(q) == IF Present(api[q]) THEN Spend("trouble") ELSE UNCHANGED used

\* The next ProwJob of the loop over what Report returned, or the end of it.
NextReported(w) ==
    IF DOMAIN wk[w].todo = {wk[w].now}
      THEN Forget(w)
      ELSE /\ wk' = [wk EXCEPT ![w].pc = "patch",
                        ![w].todo = [q \in DOMAIN @ \ {wk[w].now} |-> @[q]]]
           /\ UNCHANGED queueVars

\* updateReportState up to its poll, for one of the reported ProwJobs.
Patch(w) ==
    /\ wk[w].pc = "patch"
    /\ \E q \in DOMAIN wk[w].todo :
          \/ /\ Present(api[q])
             /\ PatchOf(q, wk[w].todo[q])
             /\ wk' = [wk EXCEPT ![w].pc = "poll", ![w].now = q]
             /\ UNCHANGED used
          \/ /\ Refused(q)
             /\ wk' = [wk EXCEPT ![w].pc = "refetch", ![w].now = q]
             /\ UNCHANGED <<api, stream>>
    /\ UNCHANGED <<lister, queueVars, sent>>

\* The condition of the poll: it reads the lister's object for nil only.
InLister(q) == Present(lister[q]) /\ lister[q].prev # "nil"

\* The poll ends when its condition holds.
Poll(w) ==
    /\ wk[w].pc \in {"poll", "poll2"}
    /\ InLister(wk[w].now)
    /\ NextReported(w)
    /\ UNCHANGED <<api, stream, lister, sent, used>>

\* The poll fails: the object has left the lister, or the time is over.
PollFails(w) ==
    /\ wk[w].pc \in {"poll", "poll2"}
    /\ ~InLister(wk[w].now)
    /\ IF Present(lister[wk[w].now]) THEN Spend("trouble") ELSE UNCHANGED used
    /\ IF wk[w].pc = "poll"
         THEN /\ wk' = [wk EXCEPT ![w].pc = "refetch"]
              /\ UNCHANGED queueVars
         ELSE Forget(w)
    /\ UNCHANGED <<api, stream, lister, sent>>

\* The ProwJob is read again from the API server.
Refetch(w) ==
    LET q == wk[w].now IN
    /\ wk[w].pc = "refetch"
    /\ \/ /\ Present(api[q])
          /\ wk' = [wk EXCEPT ![w].pc = "patch2", ![w].todo[q] = api[q]]
          /\ UNCHANGED <<queueVars, used>>
       \/ Refused(q) /\ Forget(w)
    /\ UNCHANGED <<api, stream, lister, sent>>

\* updateReportState for the ProwJob as it was read again.
PatchAgain(w) ==
    LET q == wk[w].now IN
    /\ wk[w].pc = "patch2"
    /\ \/ /\ Present(api[q])
          /\ PatchOf(q, wk[w].todo[q])
          /\ wk' = [wk EXCEPT ![w].pc = "poll2"]
          /\ UNCHANGED <<queueVars, used>>
       \/ Refused(q) /\ Forget(w) /\ UNCHANGED <<api, stream>>
    /\ UNCHANGED <<lister, sent>>

\* Crier restarts: queue and cache are built anew from a list.
Restart ==
    /\ Spend("crash")
    /\ lister' = api
    /\ stream' = [p \in PJ |-> << >>]
    /\ delayed' = {p \in PJ : Present(api[p])}
    /\ requeues' = [p \in PJ |-> IF Present(api[p]) THEN 1 ELSE 0]
    /\ dirty' = {} /\ processing' = {}
    /\ wk' = [w \in Worker |-> Idle]
    /\ UNCHANGED <<api, sent>>

-----------------------------------------------------------------------------

WorkerStep(w) ==
    \/ \E p \in PJ : Get(w, p)
    \/ Report(w) \/ Patch(w) \/ Poll(w) \/ Refetch(w) \/ PatchAgain(w)
    \/ PollFails(w)

Done == /\ \A p \in conf.pjs : api[p].state \in Final \cup {"gone"}
        /\ stream = [p \in PJ |-> << >>]
        /\ delayed = {} /\ dirty = {} /\ processing = {}
        /\ UNCHANGED vars

Next ==
    /\ \/ \E p \in conf.pjs : \/ Create(p) \/ Progress(p) \/ Touch(p) \/ Remove(p)
                             \/ Deliver(p) \/ Release(p)
       \/ \E w \in conf.workers : WorkerStep(w) \/ ReportFails(w)
       \/ Restart
       \/ Done
    /\ UNCHANGED conf

Spec == Init /\ [][Next]_vars

\* The watch, the delaying queue and the workers keep running; whether jobs
\* make progress, and what fails, is left open.
FairSpec ==
    /\ Spec
    /\ \A p \in PJ : /\ WF_vars(Deliver(p) /\ UNCHANGED conf)
                     /\ WF_vars(Release(p) /\ UNCHANGED conf)
    /\ \A w \in Worker : WF_vars(w \in conf.workers /\ WorkerStep(w) /\ UNCHANGED conf)

-----------------------------------------------------------------------------

\* What workers hold of ProwJobs.
Held == {v \in Version : Present(v)}
Copies == UNION {[S -> Held] : S \in SUBSET PJ}

PCs == {"idle", "report", "patch", "poll", "refetch", "patch2", "poll2"}
Work == [pc : PCs, key : PJ, now : PJ, todo : Copies]

TypeOK ==
    /\ conf \in Setting
    /\ api \in [PJ -> Version] /\ lister \in [PJ -> Version]
    /\ stream \in [PJ -> Seq(Version)] /\ sent \in [PJ -> Seq(State)]
    /\ delayed \subseteq PJ /\ dirty \subseteq PJ /\ processing \subseteq PJ
    /\ requeues \in [PJ -> 0..NumRetries]
    /\ wk \in [Worker -> Work]
    /\ used \in [{"touch", "report", "trouble", "removal", "crash"} -> Nat]

\* The states reported for a ProwJob (the calls of Report in
\* processNextItem) follow the order in which the job went through them, and
\* a final state is never followed by another one, although several workers
\* share the queue and the lister lags behind.
ReportsInOrder ==
    \A p \in PJ : \A i, j \in DOMAIN sent[p] :
       i < j => \/ sent[p][i] = sent[p][j]
                \/ sent[p][i] = "triggered"
                \/ sent[p][i] = "pending" /\ sent[p][j] \in Final

Rank(s) == IF s \in Final THEN 3 ELSE
           CASE s = "pending" -> 2 [] s = "triggered" -> 1 [] OTHER -> 0

\* What status.prev_report_states records for the reporter never goes back
\* to an earlier state of the job: a patch computed from an old copy
\* (updateReportState) does not undo a newer record, as long as no patch or
\* poll fails and makes it record a state that was not reported.
RecordNeverRegresses ==
    [][\A p \in PJ : Present(api'[p]) /\ used.trouble = 0 =>
                       Rank(api'[p].prev) >= Rank(api[p].prev)]_vars

\* Whether crier owes a report of the state p has in the API server.
Due(p) ==
    /\ api[p].state \in Final
    /\ conf.gerrit => \A q \in conf.pjs : Revision[q] = Revision[p] =>
                    /\ api[q].state \in Final \ {"aborted"}
                    /\ JobOf[q] = JobOf[p] => Created[q] <= Created[p]

Sent(p) == \E i \in DOMAIN sent[p] : sent[p][i] = api[p].state

\* The final state of every job reaches the reporter's backend, or the
\* ProwJob is deleted first: retry requeues a key whose report failed, and
\* no event that comes while a key is processed is lost by the queue. A failed
\* patch is the exception: processNextItem then records a state as reported
\* that it has read again.
FinalStateReported ==
    \A p \in PJ : Due(p) ~> Sent(p) \/ ~Present(api[p]) \/ used.trouble > 0

-----------------------------------------------------------------------------
(***************************************************************************)
(* The inductive invariant behind ReportsInOrder and RecordNeverRegresses. *)
(***************************************************************************)

\* A ProwJob seen in state s may be seen in state t later.
Before(s, t) ==
    \/ s = t \/ s = "new" \/ t = "gone"
    \/ s = "triggered" /\ t # "new"
    \/ s = "pending" /\ t \in Final

\* A worker works on the key it holds, and no other worker does.
QueueInv ==
    /\ \A w \in Worker : wk[w].pc # "idle" =>
          /\ w \in conf.workers /\ wk[w].key \in processing
          /\ ~conf.gerrit \/ wk[w].pc = "report" => DOMAIN wk[w].todo = {wk[w].key}
          /\ wk[w].pc \notin {"report", "patch"} => wk[w].now \in DOMAIN wk[w].todo
    /\ \A v, w \in Worker : wk[v].pc # "idle" /\ wk[w].pc # "idle" /\ v # w => wk[v].key # wk[w].key

\* The states on the way from the API server to the lister are in order.
StreamInv ==
    \A p \in PJ :
       /\ Before(lister[p].state, api[p].state)
       /\ \A i \in DOMAIN stream[p] :
             /\ Before(lister[p].state, stream[p][i].state)
             /\ Before(stream[p][i].state, api[p].state)
             /\ \A j \in DOMAIN stream[p] : i < j => Before(stream[p][i].state, stream[p][j].state)

\* All reports of p are of states no later than s.
SentBefore(p, s) == \A i \in DOMAIN sent[p] : Before(sent[p][i], s)

\* So is the record of the reports.
RecordBefore(p, s) == api[p].prev \in {"nil", "empty"} \/ Before(api[p].prev, s)

SentInv ==
    /\ ReportsInOrder
    /\ \A p \in PJ : SentBefore(p, lister[p].state)
    /\ \A w \in Worker : wk[w].pc = "report" /\ ~conf.gerrit =>
          \A p \in DOMAIN wk[w].todo : SentBefore(p, wk[w].todo[p].state)

\* While nothing fails, no worker is about to record a state older than the record.
RecordInv ==
    /\ \A w \in Worker : wk[w].pc # "idle" =>
          \A q \in DOMAIN wk[w].todo :
             wk[w].pc \in {"report", "patch", "poll"} \/ q # wk[w].now => Before(wk[w].todo[q].state, lister[q].state)
    /\ used.trouble = 0 =>
          /\ \A p \in PJ : RecordBefore(p, lister[p].state)
          /\ \A w \in Worker :
                /\ wk[w].pc = "patch" \/ (wk[w].pc = "report" /\ ~conf.gerrit) =>
                      \A q \in DOMAIN wk[w].todo : RecordBefore(q, wk[w].todo[q].state)
                /\ wk[w].pc = "poll" =>
                      \A q \in DOMAIN wk[w].todo \ {wk[w].now} : RecordBefore(q, wk[w].todo[q].state)
                /\ wk[w].pc = "refetch" => api[wk[w].now].state = "gone"
                /\ wk[w].pc \notin {"patch2", "poll2"}

CIInv == TypeOK /\ QueueInv /\ StreamInv /\ SentInv /\ RecordInv
=============================================================================
