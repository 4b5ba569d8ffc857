----------------------------- MODULE JobConfig -----------------------------
(***************************************************************************)
(* config/jobs.go and pjutil/filter.go: for which branches and changes a   *)
(* job runs, and which of the presubmits a comment or an event starts.     *)
(*                                                                         *)
(* A branch pattern is a record: its text (a plain branch name is its own  *)
(* text) and the set `of` of the branches it matches.  A job has branches  *)
(* and skipBranches (sets of patterns), alwaysRun, changed (the files that *)
(* run_if_changed matches; conditional says whether it is set), context,   *)
(* optional, skipReport and trigger (what /test must name).                *)
(***************************************************************************)
EXTENDS Naturals, Sequences, FiniteSets, SequencesExt

MatchesAny(patterns, b) == \E p \in patterns : b \in p.of

RunsAgainstAllBranch(br) == br.branches = {} /\ br.skipBranches = {}

\* Brancher.ShouldRun
BrancherShouldRun(br, b) ==
    \/ RunsAgainstAllBranch(br)
    \/ /\ ~(br.skipBranches # {} /\ MatchesAny(br.skipBranches, b))
       /\ br.branches = {} \/ MatchesAny(br.branches, b)

\* Intersects, for two jobs of one name: compares the texts of the patterns.
Intersects(br, other) ==
    LET texts(ps) == {p.text : p \in ps}
    IN  CASE RunsAgainstAllBranch(br) \/ RunsAgainstAllBranch(other) -> TRUE
          [] br.branches # {} /\ other.branches # {} ->
               texts(br.branches) \cap texts(other.branches) # {}
          [] br.branches # {} ->
               \E b \in texts(br.branches) : BrancherShouldRun(other, b)
          [] other.branches # {} ->
               \E b \in texts(other.branches) : BrancherShouldRun(br, b)
          [] OTHER -> TRUE

\* RegexpChangeMatcher: ShouldRun says whether the changes decide, and how.
TriggersConditionally(job) == job.conditional
RunsAgainstChanges(job, files) == files \cap job.changed # {}

\* Presubmit.ShouldRun and Postsubmit.ShouldRun
PresubmitShouldRun(ps, b, files, forced, defaults) ==
    /\ BrancherShouldRun(ps, b)
    /\ \/ ps.alwaysRun
       \/ forced
       \/ TriggersConditionally(ps) /\ RunsAgainstChanges(ps, files)
       \/ ~TriggersConditionally(ps) /\ defaults
PostsubmitShouldRun(ps, b, files) ==
    /\ BrancherShouldRun(ps, b)
    /\ TriggersConditionally(ps) => RunsAgainstChanges(ps, files)

NeedsExplicitTrigger(ps) == ~ps.alwaysRun /\ ~TriggersConditionally(ps)
TriggerMatches(ps, cmds) ==
    \E i \in DOMAIN cmds : cmds[i] = [c |-> "test", a |-> ps.trigger]
ContextRequired(ps) == ~ps.optional /\ ~ps.skipReport

(***************************************************************************)
(* Filters: whether a presubmit is asked for, whether it must then run,    *)
(* and what happens when nothing else decides.                             *)
(***************************************************************************)
Verdict(m, f, d) == [matched |-> m, forced |-> f, defaults |-> d]

CommandFilter(ps, cmds) == Verdict(TriggerMatches(ps, cmds), TriggerMatches(ps, cmds), TRUE)
TestAllFilter(ps) == Verdict(~NeedsExplicitTrigger(ps), FALSE, FALSE)
RetestFilter(ps, failed, all) ==
    Verdict(ps.context \in failed \/ (~NeedsExplicitTrigger(ps) /\ ps.context \notin all), FALSE, TRUE)

\* AggregateFilter: the first filter that matches decides.
AggregateFilter(verdicts) ==
    LET hits == SelectSeq(verdicts, LAMBDA v : v.matched)
    IN  IF hits = <<>> THEN Verdict(FALSE, FALSE, FALSE) ELSE hits[1]

\* PresubmitFilter: what a comment asks for.
Asks(cmds, c, a) == \E i \in DOMAIN cmds : cmds[i] = [c |-> c, a |-> a]
PresubmitFilter(ps, cmds, honorOk, failed, all) ==
    LET testAll == Asks(cmds, "test", "all") \/ (honorOk /\ Asks(cmds, "ok-to-test", ""))
    IN  AggregateFilter(<<CommandFilter(ps, cmds)>>
                        \o (IF Asks(cmds, "retest", "") THEN <<RetestFilter(ps, failed, all)>> ELSE <<>>)
                        \o (IF testAll THEN <<TestAllFilter(ps)>> ELSE <<>>))

\* FilterPresubmits: which presubmits run, and which of the others are
\* skipped (none whose context belongs to one that runs); v is the filter.
FilterPresubmits(v, files, branch, presubmits) ==
    LET Matched(ps) == v[ps].matched
        Runs(ps) == Matched(ps) /\ PresubmitShouldRun(ps, branch, files, v[ps].forced, v[ps].defaults)
        toTrigger == SelectSeq(presubmits, Runs)
        triggered == {ps.context : ps \in ToSet(toTrigger)}
    IN  [toTrigger |-> toTrigger,
         toSkip |-> SelectSeq(presubmits, LAMBDA ps : /\ Matched(ps) /\ ~Runs(ps)
                                                      /\ ps.context \notin triggered)]
=============================================================================
