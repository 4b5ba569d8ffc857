--------------------------- MODULE PolicyPlugins ---------------------------
(***************************************************************************)
(* The plugins that keep a pull request from merging until a rule is met,  *)
(* or let someone overrule one: cla, dco, release-note, blockade and       *)
(* override.  Shape as LabelPlugins.                                       *)
(***************************************************************************)
EXTENDS RepoOwners

ClaYes == "cncf-cla: yes"
ClaNo == "cncf-cla: no"
ClaContext == "cla/linuxfoundation"
ClaRetries == 5

(***************************************************************************)
(* cla, on a status: looks for the pull request of the commit up to five   *)
(* times, and labels it when the commit is still its head.                 *)
(***************************************************************************)
Cla(c, e, s) ==
    LET yes == ClaYes \in GetIssueLabels(s)
        no == ClaNo \in GetIssueLabels(s)
        signed == e.action = "success"
    IN  CASE c.s = "" -> If(e.label = ClaContext /\ e.action # "pending", <<ThenN("find", 1)>>)
          [] ~s.pr.open -> If(c.n < ClaRetries, <<ThenN("find", c.n + 1)>>)
          [] (yes /\ signed) \/ (no /\ ~signed) \/ s.pr.head # e.id -> <<>>
          [] signed -> If(no, <<Logged(RemoveLabel(ClaNo))>>) \o <<Logged(AddLabel(ClaYes))>>
          [] OTHER -> If(yes, <<Logged(RemoveLabel(ClaYes))>>)
                      \o <<Logged(CreateComment("cla")), Logged(AddLabel(ClaNo))>>

\* cla, on /check-cla: the status that the head has; when the labels cannot be
\* read it goes on as if there were none ("blind").
ClaComment(c, e, s) ==
    LET has == IF c.s = "blind" THEN {} ELSE GetIssueLabels(s)
        state == StatusOf(s, ClaContext, s.pr.head)
        Swap(old, new) == If(old \in has, <<Logged(RemoveLabel(old))>>)
                          \o If(new \notin has, <<Logged(AddLabel(new))>>)
    IN  CASE c.s = "" -> If(e.pr.open /\ Created(e) /\ Says(e, "check-cla"),
                            <<OrElse(Then("go"), "blind")>>)
          [] state = "success" -> Swap(ClaNo, ClaYes)
          [] state = "failure" -> Swap(ClaYes, ClaNo)
          [] OTHER -> <<>>

(***************************************************************************)
(* dco: labels and status agree with the sign-offs of all commits.  The    *)
(* commits are those of the moment, the status goes to the head of the     *)
(* event (n = 1: a comment is wanted).                                     *)
(***************************************************************************)
DcoYes == "dco-signoff: yes"
DcoNo == "dco-signoff: no"

checkTrustedUser(h) ==
    /\ cfg.dcoSkipMembers \/ cfg.dcoSkipCollaborators
    /\ \A a \in cfg.commit[h].authors : IsTrusted(a, ~cfg.dcoSkipCollaborators, cfg.dcoOrg)

takeAction(has, state, sha, good, addComment) ==
    IF good
    THEN If(DcoNo \in has, <<RemoveLabel(DcoNo)>>)
         \o If(DcoYes \notin has, <<AddLabel(DcoYes)>>)
         \o If(state # "success", <<CreateStatus("dco", "success", sha)>>)
         \o <<Prune("dco")>>
    ELSE If(DcoNo \notin has, <<AddLabel(DcoNo)>>)
         \o If(DcoYes \in has, <<RemoveLabel(DcoYes)>>)
         \o If(state # "failure", <<CreateStatus("dco", "failure", sha)>>)
         \o If(addComment, <<Prune("dco"), Logged(CreateComment("dco"))>>)

DcoHandle(c, s, sha) ==
    takeAction(GetIssueLabels(s), StatusOf(s, "dco", sha), sha,
               cfg.commit[s.pr.head].signed \/ checkTrustedUser(s.pr.head), c.n = 1)

Dco(c, e, s) ==
    IF c.s = ""
    THEN If(PushedOrOpened(e), <<ThenN("go", IF e.action = "reopened" THEN 0 ELSE 1)>>)
    ELSE DcoHandle(c, s, e.pr.head)

DcoComment(c, e, s) ==
    IF c.s = ""
    THEN If(e.pr.open /\ Created(e) /\ e.pr.isPR /\ Says(e, "check-dco"), <<ThenN("go", 1)>>)
    ELSE DcoHandle(c, s, s.pr.head)

(***************************************************************************)
(* release-note: one of four labels, from the release-note block of the    *)
(* body or the /release-note-none command.                                 *)
(***************************************************************************)
NoteNeeded == "do-not-merge/release-note-label-needed"
NoteNone == "release-note-none"
NoteAction == "release-note-action-required"
Note == "release-note"
allRNLabels == <<NoteNone, NoteAction, NoteNeeded, Note>>

determineReleaseNoteLabel(body) ==
    LET block == SelectSeq(body, LAMBDA x : x.c = "release-note-block")
    IN  IF block = <<>> THEN NoteNeeded ELSE block[1].a

getCherrypickParentPRNums(body) == {x.a : x \in {y \in ToSet(body) : y.c = "cherry-pick-of"}}

prMustFollowRelNoteProcess(pr) ==
    LET parents == getCherrypickParentPRNums(pr.body)
    IN  \/ pr.base = "master"
        \/ parents = {}
        \/ ~(parents \subseteq cfg.notedParents)

removeOtherLabels(label, has) ==
    EachOf(SelectSeq(allRNLabels, LAMBDA l : l # label /\ l \in has),
           LAMBDA l : Logged(RemoveLabel(l)))

ReleaseNoteComment(c, e, s) ==
    CASE c.s = "" /\ (~e.pr.isPR \/ e.action # "created") -> <<>>
      [] c.s = "" /\ Says(e, "release-note") -> <<CreateComment("release-note/deprecated")>>
      [] c.s = "" /\ Says(e, "release-note-none") -> <<Then("go")>>
      [] c.s = "" -> If(Says(e, "release-note-action-required"),
                        <<CreateComment("release-note/deprecated")>>)
      [] ~IsMember(e.by) /\ e.by # e.pr.author -> <<CreateComment("release-note/refused")>>
      [] determineReleaseNoteLabel(e.pr.body) \in {Note, NoteAction} ->
            <<CreateComment("release-note/refused")>>
      [] OTHER -> If(NoteNone \notin e.pr.labels, <<AddLabel(NoteNone)>>)
                  \o removeOtherLabels(NoteNone, e.pr.labels)

ReleaseNotePR(c, e, s) ==
    LET has == GetIssueLabels(s)
        block == determineReleaseNoteLabel(e.pr.body)
        must == prMustFollowRelNoteProcess(e.pr)
        parents == e.pr.base # "master" /\ getCherrypickParentPRNums(e.pr.body) # {}
        none == \E i \in DOMAIN s.comments : [c |-> "release-note-none", a |-> ""] \in ToSet(s.comments[i].cmds)
        label == IF block = NoteNeeded /\ none THEN NoteNone ELSE block
    IN  CASE c.s = "" -> If(e.action \in {"opened", "edited"}, <<Then("go")>>)
          [] block = NoteNeeded /\ ~must ->
                If(NoteNeeded \in has, <<Logged(RemoveLabel(NoteNeeded))>>) \o <<Prune("release-note")>>
          [] OTHER ->
                If(block = NoteNeeded /\ parents /\ NoteNeeded \notin has,
                   <<Logged(CreateComment("release-note"))>>)
                \o If(label = NoteNeeded /\ NoteNeeded \notin has, <<Logged(CreateComment("release-note"))>>)
                \o If(label \notin has, <<AddLabel(label)>>)
                \o removeOtherLabels(label, has)
                \o If(label # NoteNeeded, <<Prune("release-note")>>)

(***************************************************************************)
(* blockade: files that must not be changed.                               *)
(***************************************************************************)
BlockedPaths == "do-not-merge/blocked-paths"

compileApplicableBlockades == SelectSeq(cfg.blockades, LAMBDA b : b.here /\ b.blocks # {})

isBlocked(b, f) == f \in b.blocks /\ f \notin b.exceptions

calculateBlocks(files) ==
    {f \in files : \E i \in DOMAIN compileApplicableBlockades : isBlocked(compileApplicableBlockades[i], f)}

Blockade(c, e, s) ==
    LET shouldBlock == calculateBlocks(GetPullRequestChanges(s)) # {}
        present == BlockedPaths \in GetIssueLabels(s)
    IN  IF c.s = "" THEN If(PushedOrOpened(e), <<Then("go")>>)
        ELSE If(shouldBlock /\ ~present, <<AddLabel(BlockedPaths), CreateComment("blocked-paths")>>)
             \o If(~shouldBlock /\ present, <<RemoveLabel(BlockedPaths), Prune("blocked-paths")>>)

(***************************************************************************)
(* override: makes failed contexts of the head succeed.  n counts the      *)
(* contexts that are done: they are reported even when a later one fails.  *)
(***************************************************************************)
authorizedUser(u) == u \in cfg.admins
authorizedGitHubTeamMember(u) == u \in cfg.overrideTeam
authorizedTopLevelOwner(u) == cfg.allowTopLevelOwners /\ u \in TopLevelApprovers(Owners)

OverrideOne(ctx, sha, n, who) ==
    If(ctx \in cfg.jobContexts, <<OrElse([CreateJob(ctx, sha, who) EXCEPT !.n = n], "failed")>>)
    \o <<OrElse([CreateStatus(ctx, "success", sha) EXCEPT !.n = n], "failed")>>

Override(c, e, s) ==
    LET wanted == ToSet(ArgsOf(e, {"override"}))
        failed == {x.ctx : x \in {y \in s.statuses : y.sha = s.pr.head /\ y.state # "success"}}
        authorized == (c.s # "blind" /\ authorizedUser(User(e))) \/ authorizedGitHubTeamMember(User(e))
        order == ListOf(wanted)
    IN  CASE c.s = "" /\ ~(e.pr.isPR /\ e.pr.open /\ Created(e) /\ Says(e, "override")) -> <<>>
          [] c.s = "" /\ "" \in wanted -> <<CreateComment("override/none")>>
          [] c.s = "" -> <<OrElse(Then("go"), "blind")>>
          [] c.s \in {"go", "blind"} /\ ~authorized /\ ~cfg.allowTopLevelOwners ->
                <<CreateComment("override/unauthorized")>>
          [] c.s \in {"go", "blind"} -> <<OrElse(ThenN("pr", IF authorized THEN 1 ELSE 0), "failed")>>
          [] c.s = "pr" /\ c.n = 0 /\ ~authorizedTopLevelOwner(User(e)) ->
                <<CreateComment("override/unauthorized")>>
          [] c.s = "pr" /\ ~(wanted \subseteq failed) -> <<CreateComment("override/unknown")>>
          [] c.s = "pr" -> FlattenSeq([i \in DOMAIN order |-> OverrideOne(order[i], s.pr.head, i - 1, User(e))])
                           \o <<Logged(CreateComment("override/done"))>>
          [] c.s = "failed" -> <<CreateComment("override/failed")>>
                               \o If(c.n > 0, <<Logged(CreateComment("override/done"))>>)
=============================================================================
