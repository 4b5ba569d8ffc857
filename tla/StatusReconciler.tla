-------------------------- MODULE StatusReconciler --------------------------
(***************************************************************************)
(* The status reconciler (src/statusreconciler/controller.go) on top of    *)
(* the config agent (src/config/agent.go): the agent polls the config file *)
(* and sends every change to its subscribers; the reconciler starts the    *)
(* presubmits that now block the pull requests in flight, and retires or   *)
(* moves the statuses of those that are gone.  The ProwJobs report through *)
(* src/github/report/report.go.                                            *)
(***************************************************************************)
EXTENDS JobConfig, Integers

CONSTANTS
  RHistories,   \* a sequence of histories, each a sequence of [valid, jobs]: what the config file holds
                \* one after the other, where jobs gives the presubmits of each repo
  RPulls,       \* the pull requests: [repo, base, files, trusted, mergeable]
  ROptions,     \* [continueOnError, blacklist, elide]
  RReloadAfter, \* the polls after which the file is read anyway (600 in the code)
  MaxRFails     \* bound on failed calls, and deltas lost or taken out of order

VARIABLES
  rhist,        \* the history of this behaviour
  ropt,
  rfile,        \* the version of the config in the file
  rmtime,       \* the modification time of the file, in whole seconds
  ragent,       \* the agent: loaded version, lastModTime, skips, and where its loop is
  rsend,        \* the deltas that Set's goroutines try to send
  rctl,         \* the calls that the reconciler has still to make
  rstatus,      \* the contexts of each pull request
  rjobs,        \* the ProwJobs that the reconciler has created
  rcomments,    \* the comments with tables of failed tests of each pull request
  rreport,      \* the reports under way: the job, and the comments as they were listed
  rfails

reconcilerVars == <<rhist, ropt, rfile, rmtime, ragent, rsend, rctl, rstatus, rjobs, rcomments, rreport, rfails>>
rprow == <<rstatus, rjobs, rcomments, rreport>>

RFail == rfails < MaxRFails /\ rfails' = rfails + 1

JobsOf(v, repo) == IF repo \in DOMAIN rhist[v].jobs THEN rhist[v].jobs[repo] ELSE <<>>
PresubmitsOf(v, repo) == ToSet(JobsOf(v, repo))
RunsOn(p, pr) == PresubmitShouldRun(p, RPulls[pr].base, RPulls[pr].files, FALSE, FALSE)

\* The jobs of the first config have failed on the trusted pull requests.
RInit ==
  /\ rhist \in ToSet(RHistories) /\ ropt \in ROptions
  /\ rfile = 1 /\ rmtime = 1
  /\ ragent = [version |-> 1, lastMod |-> 0, skips |-> 0, pc |-> "poll"]
  /\ rsend = {} /\ rctl = <<>>
  /\ rstatus = [pr \in DOMAIN RPulls |->
                  LET ran == {p \in PresubmitsOf(1, RPulls[pr].repo) :
                                RPulls[pr].trusted /\ ~p.skipReport /\ RunsOn(p, pr)}
                  IN [c \in {p.context : p \in ran} |-> "failure"]]
  /\ rjobs = <<>> /\ rreport = {} /\ rfails = 0
  /\ rcomments = [pr \in DOMAIN RPulls |-> <<>>]

-----------------------------------------------------------------------------
(* The config agent.                                                       *)

\* A new version of the file, in the same second as the last one or in a later one.
ConfigWritten ==
  /\ rfile < Len(rhist) /\ rfile' = rfile + 1 /\ rmtime' \in {rmtime, rmtime + 1}
  /\ UNCHANGED <<rhist, ropt, ragent, rsend, rctl, rprow, rfails>>

\* One turn of Start's loop up to the load.
Poll ==
  /\ ragent.pc = "poll"
  /\ ragent' = IF ragent.skips >= RReloadAfter THEN [ragent EXCEPT !.pc = "load"]
               ELSE IF rmtime <= ragent.lastMod THEN [ragent EXCEPT !.skips = @ + 1]
               ELSE [ragent EXCEPT !.lastMod = rmtime, !.pc = "load"]
  /\ UNCHANGED <<rhist, ropt, rfile, rmtime, rsend, rctl, rprow, rfails>>

\* Load and Set: a config that does not load leaves everything, also the skips.
LoadConfig ==
  /\ ragent.pc = "load"
  /\ IF rhist[rfile].valid
     THEN /\ ragent' = [ragent EXCEPT !.pc = "poll", !.skips = 0, !.version = rfile]
          /\ rsend' = rsend \cup {<<ragent.version, rfile>>}
     ELSE ragent' = [ragent EXCEPT !.pc = "poll"] /\ UNCHANGED rsend
  /\ UNCHANGED <<rhist, ropt, rfile, rmtime, rctl, rprow, rfails>>

\* The goroutine gives up after a minute.
DeltaLost(d) ==
  /\ d \in rsend /\ rctl # <<>> /\ RFail /\ rsend' = rsend \ {d}
  /\ UNCHANGED <<rhist, ropt, rfile, rmtime, ragent, rctl, rprow>>

-----------------------------------------------------------------------------
(* The difference of two configs.                                          *)

Named(ps, name) == SelectSeq(ps, LAMBDA p : p.name = name)

\* Mutant: only jobs with a new name count.
AddedByName(old, new) ==
  SelectSeq(new, LAMBDA p : ContextRequired(p) /\ ~NeedsExplicitTrigger(p) /\ Named(old, p.name) = <<>>)

\* New by name; or the first old job of the name did not report, or ran for other files: each of
\* the two adds the job once.
addedBlockingPresubmits(old, new) ==
  LET Times(p) ==
        LET same == Named(old, p.name)
        IN IF ~ContextRequired(p) \/ NeedsExplicitTrigger(p) THEN <<>>
           ELSE IF same = <<>> THEN <<p>>
           ELSE (IF same[1].skipReport /\ ~p.skipReport THEN <<p>> ELSE <<>>)
                \o (IF same[1].changed # p.changed THEN <<p>> ELSE <<>>)
  IN FlattenSeq([i \in DOMAIN new |-> Times(new[i])])

removedBlockingPresubmits(old, new) ==
  SelectSeq(old, LAMBDA p : ContextRequired(p) /\ Named(new, p.name) = <<>>)

\* Every pair of one name with different contexts.
migratedBlockingPresubmits(old, new) ==
  LET Pairs(p) == [i \in DOMAIN Named(old, p.name) |-> [from |-> Named(old, p.name)[i], to |-> p]]
      Moved(p) == IF ContextRequired(p) THEN SelectSeq(Pairs(p), LAMBDA m : m.from.context # m.to.context) ELSE <<>>
  IN FlattenSeq([i \in DOMAIN new |-> Moved(new[i])])

-----------------------------------------------------------------------------
(* reconcile, as the calls that it makes.                                  *)

ROrders(S) == {s \in [1 .. Cardinality(S) -> S] : \A x \in S : \E i \in DOMAIN s : s[i] = x}
RPullsOf(repo) == SelectSeq([i \in DOMAIN RPulls |-> i], LAMBDA pr : RPulls[pr].repo = repo /\ RPulls[pr].mergeable)
RCall(op, repo, pr, ps) == [op |-> op, repo |-> repo, pr |-> pr, ps |-> ps]

triggerNewPresubmits(repo, old, new) ==
  LET added == addedBlockingPresubmits(old, new)
      prs == RPullsOf(repo)
  IN IF added = <<>> \/ repo \in ropt.blacklist THEN <<>>
     ELSE <<RCall("list", repo, 0, <<>>)>> \o [i \in DOMAIN prs |-> RCall("trigger", repo, prs[i], added)]

retireRemovedContexts(repo, old, new) ==
  LET gone == removedBlockingPresubmits(old, new)
  IN [i \in DOMAIN gone |-> RCall("retire", repo, 0, <<gone[i]>>)]

updateMigratedContexts(repo, old, new) ==
  LET moved == migratedBlockingPresubmits(old, new)
  IN [i \in DOMAIN moved |-> RCall("migrate", repo, 0, <<moved[i].from, moved[i].to>>)]

\* The repos of the old config, in any order each time.
Reconcile(d) ==
  /\ d \in rsend /\ rsend' = rsend \ {d} /\ rctl = <<>>
  /\ LET old(r) == JobsOf(d[1], r)
         new(r) == JobsOf(d[2], r)
     IN \E o \in ROrders(DOMAIN rhist[d[1]].jobs) :
          rctl' = FlattenSeq([i \in DOMAIN o |-> triggerNewPresubmits(o[i], old(o[i]), new(o[i]))])
                  \o FlattenSeq([i \in DOMAIN o |-> retireRemovedContexts(o[i], old(o[i]), new(o[i]))])
                  \o FlattenSeq([i \in DOMAIN o |-> updateMigratedContexts(o[i], old(o[i]), new(o[i]))])
  \* A delta that is taken before an earlier one counts as a mishap.
  /\ IF \E e \in rsend : e[2] < d[2] THEN RFail ELSE UNCHANGED rfails
  /\ UNCHANGED <<rhist, ropt, rfile, rmtime, ragent, rprow>>

RNext1 == Head(rctl)
RDone == rctl' = Tail(rctl)
rrest == <<rhist, ropt, rfile, rmtime, ragent, rsend>>

\* A failed call ends the reconciliation unless continueOnError; then a list that fails skips its
\* repo. Changed files that cannot be read end the triggering either way.
CallFails ==
  /\ rctl # <<>> /\ RFail
  /\ LET op == RNext1.op
         Skipped(c) == \/ op = "list" /\ c.op = "trigger" /\ c.repo = RNext1.repo
         Ended(c) == c.op \in {"list", "trigger"}
     IN \/ ~ropt.continueOnError /\ rctl' = <<>>
        \/ ropt.continueOnError /\ rctl' = SelectSeq(Tail(rctl), LAMBDA c : ~Skipped(c))
        \/ /\ ropt.continueOnError /\ op = "trigger"
           /\ rctl' = SelectSeq(rctl, LAMBDA c : ~Ended(c))
  /\ UNCHANGED <<rrest, rprow>>

ListPulls == rctl # <<>> /\ RNext1.op = "list" /\ RDone /\ UNCHANGED <<rrest, rprow, rfails>>

RMerged(f, g) == [c \in DOMAIN f \cup DOMAIN g |-> IF c \in DOMAIN g THEN g[c] ELSE f[c]]

\* FilterPresubmits with a filter that matches every job, and runAndSkip if the author is trusted.
triggerAndSkipIfTrusted ==
  /\ rctl # <<>> /\ RNext1.op = "trigger" /\ RDone
  /\ LET pr == RNext1.pr
         f == FilterPresubmits([p \in ToSet(RNext1.ps) |-> Verdict(TRUE, FALSE, TRUE)], RPulls[pr].files, RPulls[pr].base, RNext1.ps)
         skipped == {p.context : p \in {q \in ToSet(f.toSkip) : ~q.skipReport /\ ~ropt.elide}}
     IN IF ~RPulls[pr].trusted THEN UNCHANGED <<rjobs, rstatus>>
        ELSE /\ rjobs' = rjobs \o [i \in DOMAIN f.toTrigger |->
                                     [pr |-> pr, context |-> f.toTrigger[i].context, state |-> "triggered", reported |-> "none"]]
             /\ rstatus' = [rstatus EXCEPT ![pr] = RMerged(@, [c \in skipped |-> "success"])]
  /\ UNCHANGED <<rrest, rcomments, rreport, rfails>>

\* The migrator: a status that exists is set to success; or copied to a context that has none,
\* and then retired.
Branches(p) == {pr \in DOMAIN RPulls : RPulls[pr].repo = RNext1.repo /\ BrancherShouldRun(p, RPulls[pr].base)}

retire ==
  /\ rctl # <<>> /\ RNext1.op = "retire" /\ RDone
  /\ LET p == RNext1.ps[1]
     IN rstatus' = [pr \in DOMAIN RPulls |->
                      IF pr \in Branches(p) /\ p.context \in DOMAIN rstatus[pr]
                      THEN [rstatus[pr] EXCEPT ![p.context] = "success"] ELSE rstatus[pr]]
  /\ UNCHANGED <<rrest, rjobs, rcomments, rreport, rfails>>

migrate ==
  /\ rctl # <<>> /\ RNext1.op = "migrate" /\ RDone
  /\ LET from == RNext1.ps[1].context
         to == RNext1.ps[2].context
         Move(s) == RMerged(s, [c \in {from, to} |-> IF c = to THEN s[from] ELSE "success"])
     IN rstatus' = [pr \in DOMAIN RPulls |->
                      IF pr \in Branches(RNext1.ps[1]) /\ from \in DOMAIN rstatus[pr] /\ to \notin DOMAIN rstatus[pr]
                      THEN Move(rstatus[pr]) ELSE rstatus[pr]]
  /\ UNCHANGED <<rrest, rjobs, rcomments, rreport, rfails>>

-----------------------------------------------------------------------------
(* The ProwJobs and their reports.                                         *)

rnotjobs == <<rrest, rctl>>

JobEnds(i) ==
  /\ rjobs[i].state = "triggered"
  /\ \E s \in {"success", "failure", "aborted"} : rjobs' = [rjobs EXCEPT ![i].state = s]
  /\ UNCHANGED <<rnotjobs, rstatus, rcomments, rreport, rfails>>

prowjobStateToGitHubStatus(s) == CASE s = "triggered" -> "pending" [] s = "aborted" -> "failure" [] OTHER -> s

\* Report up to the listing of the comments: the status, and no more for a job that is not complete.
Report(i) ==
  /\ rjobs[i].reported # rjobs[i].state /\ \A r \in rreport : r.job # i
  /\ LET j == rjobs[i]
     IN /\ rstatus' = [rstatus EXCEPT ![j.pr] = RMerged(@, [c \in {j.context} |-> prowjobStateToGitHubStatus(j.state)])]
        /\ IF j.state = "triggered"
           THEN rjobs' = [rjobs EXCEPT ![i].reported = j.state] /\ UNCHANGED rreport
           ELSE rreport' = rreport \cup {[job |-> i, seen |-> rcomments[j.pr]]} /\ UNCHANGED rjobs
  /\ UNCHANGED <<rnotjobs, rcomments, rfails>>

\* parseIssueComments: the last entry of each other context, and this failure; an aborted job has
\* a failed status, but no entry.
parseIssueComments(j, seen) ==
  LET entries == FlattenSeq([k \in DOMAIN seen |-> seen[k].entries])
      Kept(k) == entries[k] # j.context /\ \A l \in k + 1 .. Len(entries) : entries[l] # entries[k]
      failed == j.state = "failure"
      new == SelectSeq([k \in DOMAIN entries |-> IF Kept(k) THEN entries[k] ELSE ""], LAMBDA e : e # "")
             \o (IF failed THEN <<j.context>> ELSE <<>>)
      last == IF seen = <<>> \/ failed \/ new = <<>> THEN 0 ELSE seen[Len(seen)].id
  IN [delete |-> {seen[k].id : k \in DOMAIN seen} \ {last}, entries |-> new, update |-> last]

\* The old comments are deleted, then the new one is made or the last one edited. A comment that
\* somebody else deleted in the meantime ends the report, which crier tries again.
ReportComment(r) ==
  LET j == rjobs[r.job]
      todo == parseIssueComments(j, r.seen)
      there == {rcomments[j.pr][k].id : k \in DOMAIN rcomments[j.pr]}
      left == SelectSeq(rcomments[j.pr], LAMBDA c : c.id \notin todo.delete)
  IN /\ r \in rreport /\ rreport' = rreport \ {r}
     /\ \/ /\ todo.delete \cup ({todo.update} \ {0}) \subseteq there
           /\ rjobs' = [rjobs EXCEPT ![r.job].reported = j.state]
           /\ rcomments' = [rcomments EXCEPT ![j.pr] =
                              IF todo.entries = <<>> THEN left
                              ELSE IF todo.update = 0 THEN Append(left, [id |-> r.job, entries |-> todo.entries])
                              ELSE [k \in DOMAIN left |->
                                      IF left[k].id = todo.update THEN [left[k] EXCEPT !.entries = todo.entries] ELSE left[k]]]
        \/ /\ ~(todo.delete \cup ({todo.update} \ {0}) \subseteq there)
           /\ rcomments' = [rcomments EXCEPT ![j.pr] = left] /\ UNCHANGED rjobs
     /\ UNCHANGED <<rnotjobs, rstatus, rfails>>

RAgent == Poll \/ LoadConfig
RController ==
  \/ \E d \in rsend : Reconcile(d)
  \/ ListPulls \/ triggerAndSkipIfTrusted \/ retire \/ migrate \/ CallFails
RReports == \/ \E i \in DOMAIN rjobs : JobEnds(i) \/ Report(i)
            \/ \E r \in rreport : ReportComment(r)

RNext == ConfigWritten \/ RAgent \/ (\E d \in rsend : DeltaLost(d)) \/ RController \/ RReports

\* There is a job to end or a report to make.
RReportsDue == rreport # {} \/ \E i \in DOMAIN rjobs : rjobs[i].state = "triggered" \/ rjobs[i].reported # rjobs[i].state
-----------------------------------------------------------------------------

\* At rest: the agent has what is in the file, also if two writes shared a second, all changes are
\* reconciled and all jobs have reported.
RAtRest ==
  /\ rfile = Len(rhist) /\ rhist[rfile].valid => ragent.version = rfile
  /\ {d \in rsend : d[1] # d[2]} = {} /\ rctl = <<>> /\ rreport = {}
  /\ \A i \in DOMAIN rjobs : rjobs[i].state # "triggered" /\ rjobs[i].reported = rjobs[i].state

Considered(pr) ==
  /\ RPulls[pr].trusted /\ RPulls[pr].mergeable /\ RPulls[pr].repo \notin ropt.blacklist
  /\ \A v \in 1 .. Len(rhist) : RPulls[pr].repo \in DOMAIN rhist[v].jobs

\* What cmd/status-reconciler/README.md promises: changes to blocking presubmits do not get the
\* pull requests stuck. When all is done and no call failed, every blocking presubmit that runs
\* for a trusted pull request has a status there, and no context that lost its job is left
\* unfinished or failed; and every failed job is listed in a comment (report.go), unless its context had two jobs.
NoPullStuck ==
  (rfails = 0 /\ RAtRest) =>
     /\ \A pr \in DOMAIN RPulls : Considered(pr) =>
          LET now == PresubmitsOf(ragent.version, RPulls[pr].repo)
              was == UNION {PresubmitsOf(v, RPulls[pr].repo) : v \in 1 .. ragent.version}
          IN /\ \A p \in now : ContextRequired(p) /\ RunsOn(p, pr) => p.context \in DOMAIN rstatus[pr]
             /\ \A p \in was : /\ ContextRequired(p) /\ p.context \in DOMAIN rstatus[pr]
                               /\ \A q \in now : q.context # p.context
                               => rstatus[pr][p.context] = "success"
     /\ \A i \in DOMAIN rjobs :
          (rjobs[i].state = "failure" /\ \A k \in DOMAIN rjobs \ {i} : <<rjobs[k].pr, rjobs[k].context>> # <<rjobs[i].pr, rjobs[i].context>>)
          => \E k \in DOMAIN rcomments[rjobs[i].pr] :
               rjobs[i].context \in ToSet(rcomments[rjobs[i].pr][k].entries)

=============================================================================
