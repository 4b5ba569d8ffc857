--------------------------- MODULE TriggerPlugin ---------------------------
(***************************************************************************)
(* trigger, which starts the jobs of a pull request for trusted people,    *)
(* and skip, which clears the failures of optional jobs.  A job is kept    *)
(* with the commit it tests and the person it was started for.             *)
(***************************************************************************)
EXTENDS GitHub, JobConfig

OkToTest == "ok-to-test"
NeedsOkToTest == "needs-ok-to-test"

\* TrustedPullRequest: a trusted author, or the ok-to-test label.
TrustedPullRequest(s, author) == TrustedUser(author) \/ OkToTest \in GetIssueLabels(s)

\* validateContextOverlap
validateContextOverlap(run, skip) ==
    {p.context : p \in ToSet(run)} \cap {p.context : p \in ToSet(skip)} = {}

\* RunAndSkipJobs: creates the jobs, then the skipped contexts; failures are
\* collected, nothing is undone.
RunAndSkipJobs(f, sha, who) ==
    If(validateContextOverlap(f.toTrigger, f.toSkip),
       EachOf(f.toTrigger, LAMBDA p : Logged(CreateJob(p.name, sha, who)))
       \o If(~cfg.elideSkippedContexts,
             EachOf(SelectSeq(f.toSkip, LAMBDA p : ~p.skipReport),
                    LAMBDA p : Logged(CreateStatus(p.context, "success", sha)))))

\* buildAll: the head and the base of the event, the files of the moment.
buildAll(e, s, who) ==
    RunAndSkipJobs(FilterPresubmits([p \in ToSet(cfg.presubmits) |-> TestAllFilter(p)], GetPullRequestChanges(s), e.pr.base, cfg.presubmits),
                   e.pr.head, who)

\* welcomeMsg: the label and the comment, each even if the other fails.
welcomeMsg == If(~cfg.ignoreOkToTest, <<Logged(AddLabel(NeedsOkToTest))>>) \o <<CreateComment("trigger/welcome")>>

\* buildAllIfTrusted: labels are read, and a leftover needs-ok-to-test is
\* removed, only if the author is not trusted.
buildAllIfTrusted(e, s) ==
    If(TrustedPullRequest(s, e.pr.author),
       If(~TrustedUser(e.pr.author) /\ NeedsOkToTest \in GetIssueLabels(s), <<RemoveLabel(NeedsOkToTest)>>)
       \o <<Then("build")>>)

\* handlePR
TriggerPR(c, e, s) ==
    LET labeled == e.action = "labeled"
        pushed == e.action \in {"reopened", "synchronize"} \/ (e.action = "edited" /\ e.label = "base")
    IN  CASE c.s = "" ->
               If(/\ cfg.presubmits # <<>>
                  /\ \/ e.action = "opened" \/ pushed
                     \/ labeled /\ e.label = "lgtm"
                     \/ labeled /\ e.label = OkToTest /\ e.pr.author # Bot,
                  <<Then("go")>>)
          [] c.s = "build" -> buildAll(e, s, e.pr.author)
          [] e.action = "opened" ->
               IF TrustedUser(e.pr.author) THEN buildAll(e, s, e.pr.author) ELSE welcomeMsg
          [] pushed -> buildAllIfTrusted(e, s)
          [] e.label = OkToTest -> buildAll(e, s, e.by)
          [] OTHER -> If(~TrustedPullRequest(s, e.pr.author), buildAll(e, s, e.by))

\* getContexts: the contexts of the head that failed, and all of them.
failedContexts(s) == {x.ctx : x \in {y \in s.statuses : y.sha = s.pr.head /\ y.state \in {"failure", "error"}}}
allContexts(s) == {x.ctx : x \in {y \in s.statuses : y.sha = s.pr.head}}

HonorOkToTest == ~cfg.ignoreOkToTest
AskedFor(e, s) ==
    LET Asked(p) == PresubmitFilter(p, e.cmds, HonorOkToTest, failedContexts(s), allContexts(s))
    IN  FilterPresubmits([p \in ToSet(cfg.presubmits) |-> Asked(p)],
                         GetPullRequestChanges(s), s.pr.base, cfg.presubmits)

\* (mutant) whoever comments is believed
TriggerForAll(c, e, s) ==
    CASE c.s = "" -> If(Created(e) /\ e.pr.isPR /\ e.pr.open /\ User(e) # Bot, <<Then("run")>>)
      [] c.s = "run" -> RunAndSkipJobs(AskedFor(e, s), s.pr.head, User(e))

\* handleGenericComment
TriggerComment(c, e, s) ==
    LET ok == HonorOkToTest /\ Says(e, "ok-to-test")
        germane == \/ Says(e, "ok-to-test") \/ Says(e, "retest") \/ SaysThat(e, "test", "all")
                   \/ \E p \in ToSet(cfg.presubmits) : TriggerMatches(p, e.cmds)
        has == GetIssueLabels(s)
    IN  CASE c.s = "" ->
               If(Created(e) /\ e.pr.isPR /\ e.pr.open /\ User(e) # Bot /\ germane, <<Then("go")>>)
          [] c.s = "go" /\ ~TrustedUser(User(e)) /\ ~TrustedPullRequest(s, e.pr.author) ->
               <<CreateComment("trigger/untrusted")>>
          [] c.s = "go" ->
               If(ok /\ OkToTest \notin has, <<AddLabel(OkToTest)>>)
               \o If((ok \/ OkToTest \in has) /\ NeedsOkToTest \in has, <<RemoveLabel(NeedsOkToTest)>>)
               \o <<Then("run")>>
          [] c.s = "run" -> RunAndSkipJobs(AskedFor(e, s), s.pr.head, User(e))

\* handlePE: the postsubmits of the pushed branch; the first failure ends it.
TriggerPush(c, e, s) ==
    EachOf(SelectSeq(cfg.postsubmits,
                     LAMBDA p : PostsubmitShouldRun(p, e.pr.base, cfg.commit[e.pr.head].files)),
           LAMBDA p : CreateJob(p.name, e.pr.head, e.by))

(***************************************************************************)
(* skip: a required job, and one that this very comment starts, stay.      *)
(***************************************************************************)
isSuccess(s, ctx) == StatusOf(s, ctx, s.pr.head) = "success"
statusExists(s, ctx) == ctx \in allContexts(s)

Skip(c, e, s) ==
    LET combined == allContexts(s) # {} /\ \A x \in allContexts(s) : isSuccess(s, x)
        started == {<<p.name, p.context>> : p \in ToSet(AskedFor(e, s).toTrigger)}
        stale == SelectSeq(cfg.presubmits,
                           LAMBDA p : /\ statusExists(s, p.context) /\ ~isSuccess(s, p.context)
                                      /\ <<p.name, p.context>> \notin started
                                      /\ ~ContextRequired(p))
    IN  CASE c.s = "" -> If(e.pr.isPR /\ e.pr.open /\ Created(e) /\ Says(e, "skip"),
                            <<OrElse(Then("go"), "failed")>>)
          [] c.s = "go" -> If(~combined, EachOf(stale, LAMBDA p :
                                  OrElse(CreateStatus(p.context, "success", s.pr.head), "failed")))
          [] c.s = "failed" -> <<CreateComment("skip/failed")>>
=============================================================================
