------------------------------- MODULE Intake -------------------------------
(***************************************************************************)
(* Work that does not come from GitHub: the Gerrit adapter (src/gerrit and *)
(* src/cmd/gerrit), which polls the changes of a project and makes         *)
(* ProwJobs for what happened since the last sync, and the Pub/Sub         *)
(* subscriber (src/pubsub/subscriber), which makes a ProwJob of a periodic *)
(* job for every message.                                                  *)
(*                                                                         *)
(* One Gerrit project is modelled: the projects of all instances are       *)
(* polled in turn, each with a timestamp of its own. Every presubmit runs  *)
(* always, so that the jobs of a change are one.                           *)
(***************************************************************************)
EXTENDS Integers, Sequences, FiniteSets

CONSTANTS
  GChanges, GPage,       \* the changes of the project, and the rate limit: the size of a page
  MaxGTime, MaxGMishaps, \* bounds on what people do, and on what goes wrong
  SMessages, SSub,       \* the Pub/Sub messages, and the subscription of each
  SModes,                \* [push, kind, known]: the server, the type of the messages, whether the
                         \* periodic job is in the config
  MaxSFails

VARIABLES
  gnow, gchange,   \* Gerrit: the time, the changes
  gtrack, gfile,   \* the time of the last sync, in memory and saved
  gsync,           \* the sync: pc, the next page, the changes found, the latest update among those handled
  gserved, gdouble,\* the events for which jobs were created, and whether any was served twice
  gmish,
  smode, smsgs,    \* the messages: "waiting", "handling" or "acked"
  slabels,         \* the messages whose labels are in the config's copy of the periodic job
  sjobs,           \* the ProwJobs created: message, and the messages whose labels it carries
  sfailed,         \* the messages whose failure was reported
  ssrv, sfails     \* the pull server: the subscriptions that it serves and wants; the mishaps

gerritVars == <<gnow, gchange, gtrack, gfile, gsync, gserved, gdouble, gmish>>
pubsubVars == <<smode, smsgs, slabels, sjobs, sfailed, ssrv, sfails>>

-----------------------------------------------------------------------------
(* Gerrit.                                                                 *)

GIdle == [pc |-> "idle", start |-> 0, todo |-> <<>>, latest |-> 0]

GInit ==
  /\ gnow = 0 /\ gtrack = 0 /\ gfile = 0 /\ gsync = GIdle /\ gserved = {} /\ gdouble = FALSE /\ gmish = 0
  /\ gchange = [c \in GChanges |-> [status |-> "none", updated |-> 0, rev |-> 0, created |-> 0, submitted |-> 0,
                                 msgs |-> {}]]

GMishap == gmish < MaxGMishaps /\ gmish' = gmish + 1

\* Two events may have one timestamp, and an event between two pages shifts the pages: both
\* count as mishaps.
GAt(t) ==
  /\ gnow < MaxGTime /\ t \in {gnow, gnow + 1} /\ t > 0 /\ gnow' = t
  /\ IF t = gnow \/ gsync.start > 0 THEN GMishap ELSE UNCHANGED gmish

Push(c, t) ==
  /\ GAt(t) /\ gchange[c].status \in {"none", "NEW"}
  /\ gchange' = [gchange EXCEPT ![c].status = "NEW", ![c].updated = t, ![c].created = t, ![c].rev = @ + 1]
  /\ UNCHANGED <<gtrack, gfile, gsync, gserved, gdouble>>

Message(c, t, kind) ==
  /\ GAt(t) /\ gchange[c].status = "NEW"
  /\ gchange' = [gchange EXCEPT ![c].updated = t,
                                ![c].msgs = @ \cup {[rev |-> gchange[c].rev, date |-> t, kind |-> kind]}]
  /\ UNCHANGED <<gtrack, gfile, gsync, gserved, gdouble>>

Close(c, t, status) ==
  /\ GAt(t) /\ gchange[c].status = "NEW"
  /\ gchange' = [gchange EXCEPT ![c].status = status, ![c].updated = t, ![c].submitted = t]
  /\ UNCHANGED <<gtrack, gfile, gsync, gserved, gdouble>>

GPeople ==
  \E c \in GChanges, t \in {gnow, gnow + 1} :
    \/ Push(c, t) \/ \E k \in {"test", "retest", "failed", "passed"} : Message(c, t, k)
    \/ \E s \in {"MERGED", "ABANDONED"} : Close(c, t, s)

\* The changes, most recently updated first.
Listing ==
  LET made == {c \in GChanges : gchange[c].status # "none"}
  IN CHOOSE s \in [1 .. Cardinality(made) -> made] :
       /\ \A i, j \in DOMAIN s : i < j => s[i] # s[j] /\ gchange[s[i]].updated >= gchange[s[j]].updated

Snapshot(c) == [gchange[c] EXCEPT !.msgs = {m \in @ : m.rev = gchange[c].rev \/ m.kind \in {"failed", "passed"}}]

\* What queryChangesForProject takes of the changes that were updated.
Eligible(ch) ==
  \/ ch.status = "MERGED" /\ ch.submitted > gtrack
  \/ ch.status = "NEW" /\ \/ ch.created > gtrack
                          \/ \E m \in ch.msgs : m.rev = ch.rev /\ m.date > gtrack

queryChangesForProject ==
  /\ gsync.pc \in {"idle", "query"}
  /\ LET last == gsync.start + GPage
         page == SubSeq(Listing, gsync.start + 1, IF last <= Len(Listing) THEN last ELSE Len(Listing))
         fresh == SelectSeq(page, LAMBDA c : gchange[c].updated > gtrack)
         take == SelectSeq(fresh, LAMBDA c : Eligible(gchange[c]))
         todo == gsync.todo \o [i \in DOMAIN take |-> [id |-> take[i], ch |-> Snapshot(take[i])]]
         over == page = <<>> \/ Len(fresh) < Len(page)
     IN \/ /\ gsync' = [gsync EXCEPT !.pc = IF over THEN "process" ELSE "query", !.todo = todo, !.latest = gtrack,
                                     !.start = IF over THEN 0 ELSE @ + Len(page)]
           /\ UNCHANGED gmish
        \/ GMishap /\ gsync' = GIdle
  /\ UNCHANGED <<gnow, gchange, gtrack, gfile, gserved, gdouble>>

\* The latest report decides what a retest runs again.
Failed(ch) ==
  \E m \in ch.msgs : /\ m.kind = "failed"
                     /\ \A n \in ch.msgs : n.kind \in {"failed", "passed"} => n.date <= m.date

messageFilter(ch) ==
  {m \in ch.msgs : /\ m.rev = ch.rev /\ m.date > gtrack
                   /\ m.kind = "test" \/ (m.kind = "retest" /\ Failed(ch))}

\* What a change asks for: its patch set is new, or a comment is; or it was merged.
GEvents(c, ch) ==
  CASE ch.status = "MERGED" -> {[c |-> c, rev |-> ch.rev, at |-> -1]}
    [] OTHER -> {[c |-> c, rev |-> ch.rev, at |-> m.date] : m \in messageFilter(ch)}
                \cup (IF ch.created > gtrack THEN {[c |-> c, rev |-> ch.rev, at |-> 0]} ELSE {})

\* One change: jobs are created for what it asks for, and a comment names them, which
\* updates the change. If that fails the change still counts as handled.
ProcessChange ==
  LET c == Head(gsync.todo).id
      ch == Head(gsync.todo).ch
      events == GEvents(c, ch)
  IN \/ /\ gserved' = gserved \cup events
        /\ gdouble' = (gdouble \/ events \cap gserved # {})
        /\ IF events = {} THEN UNCHANGED <<gnow, gchange>>
           ELSE /\ gnow' = gnow + 1
                /\ gchange' = [gchange EXCEPT ![c].updated = gnow + 1,
                                 ![c].msgs = @ \cup {[rev |-> ch.rev, date |-> gnow + 1, kind |-> "triggered"]}]
        /\ UNCHANGED gmish
     \/ GMishap /\ UNCHANGED <<gnow, gchange, gserved, gdouble>>

\* Mutant: latest is the tracker's own map, not a copy, and moves the filters of the changes
\* that follow.
SyncNoCopy ==
  /\ gsync.pc = "process" /\ gsync.todo # <<>> /\ ProcessChange
  /\ LET up == Head(gsync.todo).ch.updated
         latest == IF gsync.latest < up THEN up ELSE gsync.latest
     IN gsync' = [gsync EXCEPT !.todo = Tail(@), !.latest = latest] /\ gtrack' = latest
  /\ UNCHANGED gfile

Sync ==
  /\ gsync.pc = "process" /\ gsync.todo # <<>> /\ ProcessChange
  /\ LET up == Head(gsync.todo).ch.updated
     IN gsync' = [gsync EXCEPT !.todo = Tail(@), !.latest = IF @ < up THEN up ELSE @]
  /\ UNCHANGED <<gtrack, gfile>>

\* The time is saved first; when that fails the old one stays.
UpdateTracker ==
  /\ gsync.pc = "process" /\ gsync.todo = <<>> /\ gsync' = GIdle
  /\ \/ gfile' = gsync.latest /\ gtrack' = gsync.latest /\ UNCHANGED gmish
     \/ gsync.latest > gtrack /\ GMishap /\ UNCHANGED <<gfile, gtrack>>
  /\ UNCHANGED <<gnow, gchange, gserved, gdouble>>

\* A restart reads the saved time; a file that cannot be parsed counts as none, and the
\* time is then now.
GRestart ==
  /\ gsync.pc # "idle" /\ GMishap /\ gsync' = GIdle
  /\ gtrack' \in {gfile, gnow} /\ UNCHANGED <<gnow, gchange, gfile, gserved, gdouble>>

GAdapter == queryChangesForProject \/ Sync \/ UpdateTracker

GNext == GPeople \/ GAdapter \/ GRestart

\* An event is served once, unless a sync was cut short, could not save its time, or had
\* its pages shifted by new updates.
GNoDouble == gdouble => gmish > 0

\* Every patch set and every merge is served, unless something went wrong or the
\* change moved on first.
GServed ==
  \A c \in GChanges :
    /\ gchange[c].status = "NEW" => gmish > 0 \/ [c |-> c, rev |-> gchange[c].rev, at |-> 0] \in gserved
    /\ gchange[c].status = "MERGED" => gmish > 0 \/ \E e \in gserved : e.c = c /\ e.at = -1

-----------------------------------------------------------------------------
(* Pub/Sub.                                                                *)

SInit ==
  /\ smode \in SModes /\ smsgs = [m \in SMessages |-> "waiting"] /\ slabels = {} /\ sjobs = {} /\ sfailed = {}
  /\ ssrv = [serves |-> {SSub[m] : m \in SMessages}, drain |-> FALSE] /\ sfails = 0

SFail == sfails < MaxSFails /\ sfails' = sfails + 1

\* The labels of the message are written into the config's copy of the job.
SReceive(m) ==
  /\ smsgs[m] = "waiting" /\ SSub[m] \in ssrv.serves
  /\ smsgs' = [smsgs EXCEPT ![m] = "handling"]
  /\ slabels' = IF smode.kind = "periodic" /\ smode.known THEN slabels \cup {m} ELSE slabels
  /\ UNCHANGED <<smode, sjobs, sfailed, ssrv, sfails>>

handleMessage(m) ==
  IF smode.kind # "periodic" THEN UNCHANGED <<sjobs, sfailed, sfails>>
  ELSE IF ~smode.known THEN sfailed' = sfailed \cup {m} /\ UNCHANGED <<sjobs, sfails>>
  ELSE \/ sjobs' = sjobs \cup {[m |-> m, labels |-> slabels]} /\ UNCHANGED <<sfailed, sfails>>
       \/ SFail /\ sfailed' = sfailed \cup {m} /\ UNCHANGED sjobs

\* The pull server acknowledges every message; a push is delivered again after an error.
SFinish(m) ==
  /\ smsgs[m] = "handling" /\ handleMessage(m)
  /\ smsgs' = [smsgs EXCEPT ![m] = IF smode.push /\ sjobs' = sjobs THEN "waiting" ELSE "acked"]
  /\ UNCHANGED <<smode, slabels, ssrv>>

SRedeliver(m) ==
  /\ smsgs[m] = "acked" /\ SFail /\ smsgs' = [smsgs EXCEPT ![m] = "waiting"]
  /\ UNCHANGED <<smode, slabels, sjobs, sfailed, ssrv>>

\* New subscriptions in the config: the pull server waits for its receivers, which it
\* does not cancel, and they go on until one of them fails.
SConfigChange ==
  /\ ~smode.push /\ ~ssrv.drain /\ ssrv' = [ssrv EXCEPT !.drain = TRUE]
  /\ UNCHANGED <<smode, smsgs, slabels, sjobs, sfailed, sfails>>

SReceiverFails ==
  /\ ~smode.push /\ ssrv.serves # {} /\ SFail
  /\ ssrv' = [ssrv EXCEPT !.serves = IF ssrv.drain THEN {SSub[m] : m \in SMessages} ELSE {}, !.drain = FALSE]
  /\ UNCHANGED <<smode, smsgs, slabels, sjobs, sfailed>>

SNext ==
  \/ \E m \in SMessages : SReceive(m) \/ SFinish(m) \/ SRedeliver(m)
  \/ SConfigChange \/ SReceiverFails

\* A message for a known job becomes a ProwJob or a report of the failure, unless the
\* server ended.
SServed ==
  \A m \in SMessages : (smode.kind = "periodic")
    => ((\E j \in sjobs : j.m = m) \/ (m \in sfailed /\ ~(smode.push /\ smode.known)) \/ ssrv.serves = {})
=============================================================================
