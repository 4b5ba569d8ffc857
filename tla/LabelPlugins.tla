---------------------------- MODULE LabelPlugins ----------------------------
(***************************************************************************)
(* The plugins that keep labels and milestones: label, hold, lifecycle,    *)
(* stage, wip, size, shrug, milestone, milestonestatus, milestoneapplier.  *)
(* Each operator takes the stage c the handler has come to (c.s = "" when  *)
(* it starts, and then it looks only at its event e) and returns the calls *)
(* it goes on to make, given what GitHub holds, s.                         *)
(***************************************************************************)
EXTENDS GitHub

(* label: any action of any comment; the labels must exist in the repo.    *)
LabelGroups == {"area", "kind", "priority", "sig"}
RemoveGroups == {"remove-area", "remove-kind", "remove-priority", "remove-sig"}

\* getLabelsFromGenericMatches: what /label may name is configured.
Custom(e, c) == If(cfg.additionalLabels # {}, ArgsOf(e, {c}))

Label(c, e, s) ==
    LET custom == Custom(e, "label") \o Custom(e, "remove-label")
        Valid(q) == SelectSeq(q, LAMBDA l : l \in cfg.additionalLabels)
        labelsToAdd == ArgsOf(e, LabelGroups) \o Valid(Custom(e, "label"))
        labelsToRemove == ArgsOf(e, RemoveGroups) \o Valid(Custom(e, "remove-label"))
        Set(l) == l \in GetIssueLabels(s)
        toAdd == SelectSeq(labelsToAdd, LAMBDA l : ~Set(l) /\ l \in GetRepoLabels)
        toRemove == SelectSeq(labelsToRemove, LAMBDA l : Set(l) /\ l \in GetRepoLabels)
        nonexistent == ToSet(custom) \ cfg.additionalLabels
    IN  IF c.s = ""
        THEN If(Matches(e, LabelGroups \cup RemoveGroups \cup {"label", "remove-label"}) # <<>>,
                <<Then("go")>>)
        ELSE EachOf(toAdd, LAMBDA l : Logged(AddLabel(l)))
             \o EachOf(toRemove, LAMBDA l : Logged(RemoveLabel(l)))
             \o (IF nonexistent # {} THEN <<CreateComment("label/unknown")>>
                 ELSE If(\E l \in ToSet(labelsToRemove) : ~Set(l),
                         <<CreateComment("label/notset")>>))

(* hold: /hold cancel and /unhold win over /hold in the same comment.      *)
HoldLabel == "do-not-merge/hold"
Hold(c, e, s) ==
    LET cancel == SaysThat(e, "hold", "cancel") \/ Says(e, "unhold")
        has == HoldLabel \in GetIssueLabels(s)
    IN  IF c.s = "" THEN If(Created(e) /\ (cancel \/ Says(e, "hold")), <<Then("go")>>)
        ELSE If(has /\ cancel, <<RemoveLabel(HoldLabel)>>)
             \o If(~has /\ ~cancel, <<AddLabel(HoldLabel)>>)

(***************************************************************************)
(* lifecycle and stage: one label of a group.  Every command of a comment  *)
(* reads the labels again; a failed read is logged and counts as no label. *)
(***************************************************************************)
LifecycleLabels == {"lifecycle/active", "lifecycle/frozen", "lifecycle/stale", "lifecycle/rotten"}
StageLabels == {"stage/alpha", "stage/beta", "stage/stable"}

GroupOne(group, m, remove, has) ==
    LET lbl == m.a
    IN  If(lbl \in has /\ m.c = remove, <<RemoveLabel(lbl)>>)
        \o If(lbl \notin has /\ m.c # remove,
              EachIn((group \cap has) \ {lbl}, LAMBDA l : Logged(RemoveLabel(l)))
              \o <<Logged(AddLabel(lbl))>>)

Group(c, e, s, group, cmds, remove) ==
    LET mats == Matches(e, cmds)
    IN  IF c.s = "" THEN [i \in DOMAIN mats |-> Logged(OrElse(ThenN("one", i), "none"))]
        ELSE GroupOne(group, mats[c.n], remove, IF c.s = "none" THEN {} ELSE GetIssueLabels(s))

Stage(c, e, s) ==
    If(Created(e), Group(c, e, s, StageLabels, {"stage", "remove-stage"}, "remove-stage"))

\* close.go: an active issue is closed only for its author or a collaborator.
\* A failed IsCollaborator counts as no collaborator, failed labels as active.
CloseIssue(c, e, s) ==
    LET mayClose == \/ User(e) = e.pr.author
                    \/ c.s = "close" /\ IsCollaborator(User(e))
                    \/ c.s = "close" /\ GetIssueLabels(s) \cap {"lifecycle/stale", "lifecycle/rotten"} # {}
    IN  IF mayClose THEN <<CloseIt, CreateComment("closed")>>
        ELSE <<CreateComment("lifecycle/cant")>>

\* reopen.go: a pull request that GitHub will not reopen is explained.
ReopenIssue(c, e, s) ==
    IF User(e) = e.pr.author \/ (c.s = "reopen" /\ IsCollaborator(User(e)))
    THEN <<OrElse(AndThen(ReopenIt, "reopened"), "stuck")>>
    ELSE <<CreateComment("lifecycle/cant")>>

Lifecycle(c, e, s) ==
    LET group == Group(c, e, s, LifecycleLabels, {"lifecycle", "remove-lifecycle"}, "remove-lifecycle")
    IN  CASE c.s = "" ->
               If(Created(e),
                  If(~e.pr.open /\ Says(e, "reopen"), <<OrElse(Then("reopen"), "reopen?")>>)
                  \o If(e.pr.open /\ Says(e, "close"), <<OrElse(Then("close"), "close?")>>)
                  \o group)
          [] c.s \in {"reopen", "reopen?"} -> ReopenIssue(c, e, s)
          [] c.s \in {"close", "close?"} -> CloseIssue(c, e, s)
          [] c.s \in {"reopened", "stuck"} -> <<CreateComment(c.s)>>
          [] OTHER -> group

(* wip: the title and the draft flag are those of the event.               *)
WIPLabel == "do-not-merge/work-in-progress"
IsWIP(pr) == pr.draft \/ pr.title = "WIP"
WIP(c, e, s) ==
    LET has == WIPLabel \in GetIssueLabels(s)
    IN  IF c.s = ""
        THEN If(e.action \in {"opened", "reopened", "edited", "ready_for_review"}, <<Then("go")>>)
        ELSE If(IsWIP(e.pr) /\ ~has, <<AddLabel(WIPLabel)>>)
             \o If(~IsWIP(e.pr) /\ has, <<RemoveLabel(WIPLabel)>>)

(***************************************************************************)
(* size: the lines changed, without generated files, fall in a bucket.  A  *)
(* failed read of the labels is logged and counts as no label.             *)
(***************************************************************************)
SizeLabels == <<"size/XS", "size/S", "size/M", "size/L", "size/XL", "size/XXL">>
defaultSizes == <<10, 30, 100, 500, 1000>>
sizesOrDefault(sizes) == [i \in 1..5 |-> IF sizes[i] = 0 THEN defaultSizes[i] ELSE sizes[i]]

\* bucket: the first threshold the count stays below.
bucket(lineCount, sizes) ==
    CHOOSE i \in 1..6 : /\ i = 6 \/ lineCount < sizes[i]
                        /\ \A j \in 1..(i-1) : lineCount >= sizes[j]

isPRChanged(e) == e.action \in {"opened", "reopened", "synchronize", "edited"}

LineCount(head) ==
    LET counted == {f \in cfg.commit[head].files : f \notin cfg.generated}
    IN  FoldSet(LAMBDA f, n : n + cfg.commit[head].lines[f], 0, counted)

\* (mutant) the label of the old size stays
SizeKeepsOld(c, e, s) ==
    LET newLabel == SizeLabels[bucket(LineCount(s.pr.head), sizesOrDefault(cfg.sizes))]
    IN  IF c.s = "" THEN If(isPRChanged(e), <<OrElse(Then("go"), "nolabels")>>)
        ELSE If(newLabel \notin GetIssueLabels(s), <<AddLabel(newLabel)>>)

Size(c, e, s) ==
    LET newLabel == SizeLabels[bucket(LineCount(s.pr.head), sizesOrDefault(cfg.sizes))]
        has == IF c.s = "nolabels" THEN {} ELSE GetIssueLabels(s)
    IN  IF c.s = "" THEN If(isPRChanged(e), <<OrElse(Then("go"), "nolabels")>>)
        ELSE EachIn((has \cap ToSet(SizeLabels)) \ {newLabel}, LAMBDA l : Logged(RemoveLabel(l)))
             \o If(newLabel \notin has, <<AddLabel(newLabel)>>)

(* shrug: the comment comes before the label goes.                         *)
ShrugLabel == "shrug"
Shrug(c, e, s) ==
    LET want == Says(e, "shrug")
        has == c.s # "nolabels" /\ ShrugLabel \in GetIssueLabels(s)
    IN  IF c.s = ""
        THEN If(Created(e) /\ (want \/ Says(e, "unshrug")), <<OrElse(Then("go"), "nolabels")>>)
        ELSE If(has /\ ~want, <<CreateComment("unshrug"), RemoveLabel(ShrugLabel)>>)
             \o If(~has /\ want, <<AddLabel(ShrugLabel)>>)

(* milestone and milestonestatus: for the maintainers team only.           *)
Milestone(c, e, s) ==
    LET proposed == Matches(e, {"milestone"})[1].a
    IN  CASE c.s = "" -> If(Created(e) /\ Says(e, "milestone"), <<Then("go")>>)
          [] User(e) \notin cfg.maintainers -> <<CreateComment("milestone/team")>>
          [] proposed = "clear" -> <<Logged(SetMilestone(""))>>
          [] proposed \notin ListMilestones -> <<CreateComment("milestone/invalid")>>
          [] OTHER -> <<Logged(SetMilestone(proposed))>>

StatusLabels == {"status/approved-for-milestone", "status/in-progress", "status/in-review"}
MilestoneStatus(c, e, s) ==
    CASE c.s = "" -> If(Created(e) /\ Says(e, "status"), <<Then("go")>>)
      [] User(e) \notin cfg.maintainers -> <<CreateComment("milestone/team")>>
      [] OTHER -> EachOf(SelectSeq(ArgsOf(e, {"status"}), LAMBDA l : l \in StatusLabels),
                         LAMBDA l : Logged(AddLabel(l)))

\* milestoneapplier: on merge, and when a pull request to a branch other than
\* the default one is opened.  The current milestone is the event's.
MilestoneApplier(c, e, s) ==
    LET pr == e.pr
        configured == cfg.branchMilestone[pr.base]
        merged == e.action = "closed" /\ pr.merged
    IN  IF c.s = ""
        THEN If(/\ configured # ""
                /\ pr.milestone # configured
                /\ merged \/ (pr.base # "master" /\ e.action = "opened"),
                <<Then("go")>>)
        ELSE If(configured \in ListMilestones, <<SetMilestone(configured)>>)
=============================================================================
