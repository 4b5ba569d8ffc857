-------------------------- MODULE ExternalPlugins --------------------------
(***************************************************************************)
(* The plugins that run outside hook and get its events forwarded          *)
(* (cherrypicker, needs-rebase, refresh), and bugzilla, whose state is in  *)
(* another service.  The operators have the form of LabelPlugins.          *)
(***************************************************************************)
EXTENDS GitHub, FiniteSetsExt

(***************************************************************************)
(* cherrypicker.  A request names a branch: in a comment, or with a label  *)
(* on behalf of the author.                                                *)
(***************************************************************************)
MayRequest(u) == cfg.allowAll \/ IsMember(u)

\* handle: fork, clone, patch, push, open.  The clone's origin is the
\* repository itself, which never gets a cherry-pick branch, so the search for
\* an existing cherry-pick finds none and the push or the open fails instead.
Pick(c, e, s) ==
    LET b == c.body.tag
    IN  CASE c.s = "pick" ->
               If(~s.forked, <<Call("CreateFork", "")>>) \o <<ThenOn("patch", b, c.us)>>
          [] c.s = "patch" ->
               IF b \notin cfg.branches THEN <<CreateComment("pick/nobranch")>>
               ELSE IF b \in cfg.conflicts THEN <<CreateComment("pick/conflict")>>
               ELSE <<OrElse(Call("PushPick", b), "failed"), OrElse(Call("CreatePick", b), "failed"),
                      CreateComment("pick/created")>>
                    \o If(~cfg.prowAssignments, <<[Logged(Call("AssignPick", b)) EXCEPT !.us = c.us]>>)
          [] OTHER -> <<CreateComment("pick/failed")>>

\* handleIssueComment
CherrypickComment(c, e, s) ==
    LET target == Matches(e, {"cherrypick"})[1].a
        outsider == <<CreateComment("pick/member")>>
    IN  CASE c.s = "" -> If(e.action = "created" /\ e.pr.isPR /\ Says(e, "cherrypick"), <<Then("ask")>>)
          [] c.s = "ask" /\ e.pr.open ->
               IF MayRequest(e.by) THEN <<CreateComment("pick/later")>> ELSE outsider
          [] c.s = "ask" ->
               IF ~s.pr.merged THEN <<CreateComment("pick/unmerged")>>
               ELSE IF s.pr.base = target THEN <<CreateComment("pick/same")>>
               ELSE IF ~MayRequest(e.by) THEN outsider
               ELSE <<ThenOn("pick", target, {e.by})>>
          [] OTHER -> Pick(c, e, s)

\* handlePullRequest: of all requests the first for each branch; a failure
\* leaves the branches that follow.
PickRequests(s) ==
    LET said == {[by |-> x.by, to |-> SelectSeq(x.cmds, LAMBDA m : m.c = "cherrypick")[1].a] :
                     x \in {y \in ToSet(ListIssueComments(s)) : \E i \in DOMAIN y.cmds : y.cmds[i].c = "cherrypick"}}
        labelled == {[by |-> s.pr.author, to |-> cfg.pickLabels[l]] :
                         l \in GetIssueLabels(s) \cap DOMAIN cfg.pickLabels}
    IN  {r \in said \cup labelled : MayRequest(r.by)}
Cherrypick(c, e, s) ==
    LET asked == {r.to : r \in PickRequests(s)}
        For(b) == CHOOSE r \in PickRequests(s) : r.to = b
        One(b) == IF b = e.pr.base THEN CreateComment("pick/same") ELSE ThenOn("pick", b, {For(b).by})
    IN  CASE c.s = "" -> If(e.action \in {"closed", "labeled"} /\ e.pr.merged, <<Then("all")>>)
          [] c.s = "all" -> EachIn(asked, One)
          [] OTHER -> Pick(c, e, s)

(***************************************************************************)
(* needs-rebase.  takeAction keeps the label and its comments equal to     *)
(* what GitHub says about merging; the head must still be the event's.     *)
(***************************************************************************)
RebaseLabel == "needs-rebase"

RebaseAction(s) ==
    LET has == RebaseLabel \in GetIssueLabels(s)
    IN  If(~IsMergeable(s) /\ ~has, <<Logged(AddLabel(RebaseLabel)), CreateComment("rebase")>>)
        \o If(IsMergeable(s) /\ has, <<Logged(RemoveLabel(RebaseLabel)), Prune("rebase")>>)

\* handle: HandlePullRequestEvent brings the event's head, HandleIssueComment-
\* Event reads the pull request first.
NeedsRebase(c, e, s) ==
    CASE c.s = "" -> If(PushedOrOpened(e) /\ ~e.pr.merged, <<Then("go")>>)
      [] OTHER -> If(s.pr.head = e.pr.head /\ ~s.pr.merged, RebaseAction(s))
NeedsRebaseComment(c, e, s) ==
    CASE c.s = "" -> If(e.pr.isPR, <<Then("read")>>)
      [] c.s = "read" -> If(~s.pr.merged, <<ThenN("go", s.pr.head)>>)
      [] OTHER -> If(s.pr.head = c.n /\ ~s.pr.merged, RebaseAction(s))
\* HandleAll: every open pull request that the search returns.
NeedsRebaseAll(c, e, s) ==
    CASE c.s = "" -> <<Then("go")>>
      [] OTHER -> If(s.pr.open, RebaseAction(s))

(***************************************************************************)
(* refresh reports again, for the newest job of each name of this head,    *)
(* the state deck lists.                                                   *)
(***************************************************************************)
Refresh(c, e, s) ==
    LET here == {s.jobs[i].job : i \in {j \in DOMAIN s.jobs : s.jobs[j].sha = s.pr.head}}
        latest == here \cap DOMAIN cfg.jobState
    IN  CASE c.s = "" -> If(e.action = "created" /\ e.pr.isPR /\ e.pr.open /\ Says(e, "refresh"), <<Then("go")>>)
          [] OTHER -> EachIn(latest, LAMBDA j : Logged(CreateStatus(j, cfg.jobState[j], s.pr.head)))

(***************************************************************************)
(* bugzilla.  A title may name a bug, 0 if it does not; cfg.bz holds the   *)
(* options of the branch, "" and {} standing for an option not set.        *)
(***************************************************************************)
BugOf(title) == IF title \in DOMAIN cfg.bugOf THEN cfg.bugOf[title] ELSE 0

\* bugMatchesStates
bugMatchesStates(bug, states) == bug.state \in states

\* validateBug
validateBug(bug, dependents) ==
    LET o == cfg.bz
        known == o.validStates \cup ({o.afterValidation} \ {""})
    IN  /\ o.isOpen # "" => bug.open = (o.isOpen = "yes")
        /\ o.release # "" => bug.release = o.release
        /\ o.validStates # {} => bugMatchesStates(bug, known)
        /\ \A d \in dependents :
              /\ o.dependentStates # {} => bugMatchesStates(d, o.dependentStates)
              /\ o.dependentRelease # "" => d.release = o.dependentRelease

\* digestPR: an edit that names the same bug as before is nothing new.
digestPR(e) ==
    LET id == BugOf(e.pr.title)
        prev == IF e.action = "edited" /\ e.was # "" THEN BugOf(e.was) ELSE 0
    IN  /\ e.action \in {"opened", "reopened", "edited"} \/ (e.action = "closed" /\ e.pr.merged)
        /\ IF prev # 0 THEN prev # id ELSE id # 0 \/ cfg.bz.byDefault

\* The labels and the comment at the end of handle; n is 0 when the title
\* names no bug, 1 for a valid bug and 2 for an invalid one.
BugLabels(n, has) ==
    LET Set(l, want) == If(want /\ l \notin has, <<Logged(AddLabel(l))>>)
                        \o If(~want /\ l \in has, <<Logged(RemoveLabel(l))>>)
    IN  Set("bugzilla/valid-bug", n = 1) \o Set("bugzilla/invalid-bug", n = 2)
        \o <<CommentN("bugzilla", n)>>

\* handle
BugHandle(c, e, s) ==
    LET id == c.n
        labels(n) == <<OrElse(ThenN("labels", n), "blind")>>
        dependents == IF cfg.bz.dependentStates # {} \/ cfg.bz.dependentRelease # ""
                      THEN {s.bugs[d] : d \in s.bugs[id].depends} ELSE {}
    IN  CASE c.s = "bug" /\ id = 0 -> labels(0)
          [] c.s = "bug" /\ id \notin DOMAIN s.bugs -> <<CreateComment("bugzilla/none")>>
          [] c.s = "bug" /\ validateBug(s.bugs[id], dependents) ->
               If(cfg.bz.afterValidation \notin {"", s.bugs[id].state},
                  <<OrElse([Call("UpdateBug", cfg.bz.afterValidation) EXCEPT !.n = id], "error")>>)
               \o If(cfg.bz.link, <<OrElse([Call("LinkBug", "") EXCEPT !.n = id], "error")>>)
               \o labels(1)
          [] c.s = "bug" -> labels(2)
          [] c.s = "labels" -> BugLabels(c.n, GetIssueLabels(s))
          [] c.s = "blind" -> BugLabels(c.n, {})
          [] OTHER -> <<CreateComment("bugzilla/error")>>

\* handleMerge: only once every pull request that the bug links is merged.
BugMerge(c, e, s) ==
    LET id == c.n
        allowed == cfg.bz.validStates \cup ({cfg.bz.afterValidation} \ {""})
        allMerged == s.bugs[id].links \subseteq cfg.otherMerged \cup {"this"}
    IN  CASE c.s = "merge" /\ (cfg.bz.afterMerge = "" \/ id = 0) -> <<>>
          [] c.s = "merge" /\ id \notin DOMAIN s.bugs ->
               <<CreateComment(IF allowed # {} THEN "bugzilla/none" ELSE "bugzilla/error")>>
          [] c.s = "merge" /\ allowed # {} /\ ~bugMatchesStates(s.bugs[id], allowed) ->
               <<CreateComment("bugzilla/badstate")>>
          [] c.s = "merge" -> <<OrElse(ThenN("links", id), "error")>>
          [] c.s = "links" ->
               If(allMerged, <<OrElse([Call("UpdateBug", cfg.bz.afterMerge) EXCEPT !.n = id], "error"),
                               CreateComment("bugzilla/merged")>>)
          [] OTHER -> <<CreateComment("bugzilla/error")>>

BugGoOn(merged, id) == <<OrElse(ThenN(IF merged THEN "merge" ELSE "bug", id), "error")>>
BugStage(c, e, s) == IF c.s \in {"merge", "links"} THEN BugMerge(c, e, s) ELSE BugHandle(c, e, s)
Bugzilla(c, e, s) ==
    IF c.s = "" THEN If(digestPR(e), BugGoOn(e.pr.merged, BugOf(e.pr.title))) ELSE BugStage(c, e, s)
\* digestComment
BugzillaComment(c, e, s) ==
    CASE c.s = "" ->
           If(Created(e) /\ Says(e, "bugzilla"),
              IF e.pr.isPR THEN <<Then("pr")>> ELSE <<CreateComment("bugzilla/issue")>>)
      [] c.s = "pr" -> BugGoOn(s.pr.merged, BugOf(s.pr.title))
      [] OTHER -> BugStage(c, e, s)
=============================================================================
