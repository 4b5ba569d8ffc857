--------------------------- MODULE CommandPlugins ---------------------------
(***************************************************************************)
(* The plugins that answer commands or look over a new pull request:       *)
(* retitle, assign, heart, cherry-pick-unapproved, docs-no-retest,         *)
(* mergecommitblocker, owners-label, branchcleaner, invalidcommitmsg,      *)
(* require-sig, require-matching-label, sigmention, welcome, help, and the *)
(* picture plugins (cat, dog, goose, pony, yuks).  Shape as LabelPlugins.  *)
(***************************************************************************)
EXTENDS RepoOwners

\* retitle: writes back the body and the state it has read with the new title.
Retitle(c, e, s) ==
    LET title == Matches(e, {"retitle"})[1].a
    IN  CASE c.s = "" -> If(Created(e) /\ Says(e, "retitle") /\ (e.pr.open \/ cfg.allowClosed),
                            <<Then("go")>>)
          [] c.s = "go" /\ ~TrustedUser(User(e)) -> <<CreateComment("retitle/untrusted")>>
          [] c.s = "go" /\ title = "" -> <<CreateComment("retitle/empty")>>
          [] c.s = "go" -> <<Then("edit")>>
          [] c.s = "edit" -> <<Edit(title, s.pr)>>

(***************************************************************************)
(* assign: /[un]assign and /[un]cc.  The last command about a login wins;  *)
(* removals go first and their failure ends that half, not the other half. *)
(***************************************************************************)
Named(e, m) == IF m.a = "" THEN User(e) ELSE m.a
Chosen(e, cmd, cmds) ==
    LET mats == Matches(e, cmds)
    IN  {u \in {Named(e, mats[i]) : i \in DOMAIN mats} :
            LET last == CHOOSE i \in DOMAIN mats :
                            /\ Named(e, mats[i]) = u
                            /\ \A j \in DOMAIN mats : j > i => Named(e, mats[j]) # u
            IN  mats[last].c = cmd}

AssignHalf(remove, add, k) ==
    If(remove.us # {}, <<IF add.us = {} THEN Logged(remove) ELSE Logged(AndThen(remove, k))>>)
    \o If(remove.us = {} /\ add.us # {}, <<Then(k)>>)

Assign(c, e, s) ==
    LET C1 == {"assign", "unassign"}
        C2 == {"cc", "uncc"}
        assignees == Chosen(e, "assign", C1)
        reviewers == Chosen(e, "cc", C2)
    IN  CASE c.s = "" ->
               If(Created(e),
                  AssignHalf(UnassignIssue(Chosen(e, "unassign", C1)), AssignIssue(assignees), "assign")
                  \o If(e.pr.isPR,
                        AssignHalf(UnrequestReview(Chosen(e, "uncc", C2)), RequestReview(reviewers), "cc")))
          [] c.s = "assign" -> <<Logged(OrElse(AssignIssue(assignees), "noassign"))>>
          [] c.s = "cc" -> <<Logged(OrElse(RequestReview(reviewers), "nocc"))>>
          [] OTHER -> <<Logged(CreateComment(c.s))>>

\* heart: a reaction to a comment of an adored user, or to new OWNERS.
HeartComment(c, e, s) ==
    If(e.pr.isPR /\ e.action = "created" /\ e.by \in cfg.adorees /\ Says(e, "love"),
       <<Tell("reaction", "comment")>>)
HeartPR(c, e, s) ==
    IF c.s = "" THEN If(e.action = "opened", <<Then("go")>>)
    ELSE If(GetPullRequestChanges(s) \cap cfg.ownersFiles # {}, <<Tell("reaction", "pr")>>)

\* cherry-pick-unapproved: on the release branches one of two labels.
CpApproved == "cherry-pick-approved"
CpUnapproved == "do-not-merge/cherry-pick-not-approved"
CherryPickUnapproved(c, e, s) ==
    LET has == GetIssueLabels(s)
    IN  CASE c.s = "" ->
               If(/\ \/ e.action \in {"opened", "reopened"}
                     \/ e.action \in {"labeled", "unlabeled"} /\ e.label \in {CpApproved, CpUnapproved}
                  /\ e.pr.base # "master",
                  <<Then("go")>>)
          [] CpApproved \in has ->
               If(CpUnapproved \in has, <<Logged(RemoveLabel(CpUnapproved))>>)
               \o <<Prune("cherry-pick")>>
          [] CpUnapproved \in has -> <<>>
          [] OTHER -> <<Logged(AddLabel(CpUnapproved)), Logged(CreateComment("cherry-pick"))>>

\* A label that is to be there exactly when b is true.
Keep(label, b, has) ==
    If(b /\ label \notin has, <<AddLabel(label)>>) \o If(~b /\ label \in has, <<RemoveLabel(label)>>)

DocsLabel == "retest-not-required-docs-only"

DocsNoRetest(c, e, s) ==
    IF c.s = "" THEN If(PushedOrOpened(e), <<Then("go")>>)
    ELSE Keep(DocsLabel, GetPullRequestChanges(s) \subseteq cfg.docs, GetIssueLabels(s))

\* mergecommitblocker: base and head are those of the event.
MergeCommits == "do-not-merge/contains-merge-commits"
MergeCommitBlocker(c, e, s) ==
    LET exist == cfg.commit[e.pr.head].merges
        has == MergeCommits \in GetIssueLabels(s)
    IN  IF c.s = "" THEN If(PushedOrOpened(e), <<Then("go")>>)
        ELSE Keep(MergeCommits, exist, GetIssueLabels(s))
             \o If(has /\ ~exist, <<Prune("merge-commits")>>)
             \o If(~has /\ exist, <<CreateComment("merge-commits")>>)

\* owners-label: adds the labels that OWNERS files give to the changed files.
OwnersLabel(c, e, s) ==
    LET needed == UNION {FindLabelsForFile(Owners, p) : p \in Changed(s.pr.head)}
    IN  IF c.s = "" THEN If(PushedOrOpened(e), <<Then("go")>>)
        ELSE EachIn((needed \ GetIssueLabels(s)) \cap GetRepoLabels, LAMBDA l : Logged(AddLabel(l)))

\* branchcleaner: the branch of a merged pull request of the same repository.
BranchCleaner(c, e, s) ==
    If(e.action = "closed" /\ e.pr.merged /\ ~cfg.fork, <<Call("DeleteBranch", "")>>)

\* invalidcommitmsg: no closing keywords and no mentions in commit messages.
InvalidMsg == "do-not-merge/invalid-commit-message"
InvalidCommitMsg(c, e, s) ==
    LET bad == cfg.commit[s.pr.head].badmsg
        has == InvalidMsg \in GetIssueLabels(s)
    IN  IF c.s = "" THEN If(PushedOrOpened(e), <<Then("go")>>)
        ELSE If(has /\ ~bad, <<Logged(RemoveLabel(InvalidMsg)), Prune("invalid-msg")>>)
             \o If(~has /\ bad, <<Logged(AddLabel(InvalidMsg))>>)
             \o If(bad, <<Prune("invalid-msg"), Logged(CreateComment("invalid-msg"))>>)

(***************************************************************************)
(* require-sig: decides on the labels in the event alone.                  *)
(***************************************************************************)
NeedsSig == "needs-sig"
isSigLabel(l) == l \in cfg.sigLabels

shouldReact(e) ==
    /\ ~e.pr.isPR
    /\ e.pr.open
    /\ \/ e.action = "opened" /\ ~Says(e, "@sig") /\ ~Says(e, "sig")
       \/ e.action \in {"labeled", "unlabeled"} /\ isSigLabel(e.label)

RequireSig(c, e, s) ==
    LET sig == \E l \in e.pr.labels : isSigLabel(l)
        needs == NeedsSig \in e.pr.labels
    IN  If(shouldReact(e) /\ sig /\ needs, <<Logged(RemoveLabel(NeedsSig)), Prune("needs-sig")>>)
        \o If(shouldReact(e) /\ ~sig /\ ~needs,
              <<Logged(AddLabel(NeedsSig)), Logged(CreateComment("needs-sig"))>>)

(***************************************************************************)
(* require-matching-label: a missing-label while no label matches.  For a  *)
(* label event on an issue the labels are the event's, otherwise they are  *)
(* read (after a grace period when the issue is opened).                   *)
(***************************************************************************)
matchingConfigs(e) ==
    SelectSeq(cfg.required,
              LAMBDA r : /\ IF e.pr.isPR THEN r.prs ELSE r.issues
                         /\ e.pr.isPR /\ r.branch # "" => r.branch = e.pr.base
                         /\ e.action \in {"labeled", "unlabeled"} => e.label \in r.matching)

MatchOne(r, has) ==
    LET matching == has \cap r.matching # {}
        missing == r.missing \in has
    IN  If(matching /\ missing, <<Logged(RemoveLabel(r.missing)), Prune(r.missing)>>)
        \o If(~matching /\ ~missing,
              <<Logged(AddLabel(r.missing)), Logged(CreateComment(r.missing))>>)

RequireMatchingLabel(c, e, s) ==
    LET fromEvent == ~e.pr.isPR /\ e.action \in {"labeled", "unlabeled"}
        Handle(has) == FlattenSeq(EachOf(matchingConfigs(e), LAMBDA r : MatchOne(r, has)))
    IN  IF c.s # "" THEN Handle(GetIssueLabels(s))
        ELSE If(e.action \in {"opened", "reopened", "labeled", "unlabeled"} /\ matchingConfigs(e) # <<>>,
                IF fromEvent THEN Handle(e.pr.labels) ELSE <<Then("go")>>)

\* (mutant) the bot's own comments are answered too
SigMentionOfBot(c, e, s) ==
    CASE c.s = "" -> If(Created(e) /\ Says(e, "@sig"), <<Then("go")>>)
      [] c.s = "go" -> <<Then("repeat")>>
      [] OTHER -> If(~IsMember(User(e)),
                     <<[CreateComment("mentions") EXCEPT !.body.cmds = Matches(e, {"@sig"})]>>)

\* sigmention: labels for the mentioned teams.  The mentions of who cannot notify
\* them are repeated in a comment of the bot.
SigMention(c, e, s) ==
    LET mats == EachOf(ArgsOf(e, {"@sig"}), LAMBDA a : cfg.mention[a])
        known == SelectSeq(mats, LAMBDA m : m.sig \in GetRepoLabels)
        Missing(l) == l # "" /\ l \notin GetIssueLabels(s)
        adds == FlattenSeq(EachOf(known, LAMBDA m : If(Missing(m.sig), <<Logged(AddLabel(m.sig))>>)
                                             \o If(Missing(m.kind), <<Logged(AddLabel(m.kind))>>)))
    IN  CASE c.s = "" -> If(User(e) # Bot /\ Created(e) /\ Says(e, "@sig"), <<Then("go")>>)
          [] c.s = "go" -> adds \o If(known # <<>>, <<OrElse(Then("repeat"), "repeat?")>>)
          [] OTHER -> If(c.s = "repeat?" \/ ~IsMember(User(e)),
                         <<[CreateComment("mentions") EXCEPT !.body.cmds = Matches(e, {"@sig"})]>>)

\* welcome: the first pull request of an untrusted person.
Welcome(c, e, s) ==
    IF c.s = "" THEN If(e.action = "opened" /\ e.pr.author \notin cfg.bots, <<Then("go")>>)
    ELSE If(~TrustedUser(e.pr.author) /\ cfg.firstPR, <<CreateComment("welcome")>>)

(* help: on open issues, at most one of the four commands is obeyed.       *)
HelpLabel == "help wanted"
GoodFirst == "good first issue"
Help(c, e, s) ==
    LET has == IF c.s = "nolabels" THEN {} ELSE GetIssueLabels(s)
        help == HelpLabel \in has
        good == GoodFirst \in has
        Drop(l, t) == <<Logged(RemoveLabel(l)), Prune(t)>>
    IN  CASE c.s = "" -> If(~e.pr.isPR /\ e.pr.open /\ Created(e), <<OrElse(Then("go"), "nolabels")>>)
          [] help /\ Says(e, "remove-help") ->
               Drop(HelpLabel, "help") \o If(good, Drop(GoodFirst, "good"))
          [] ~good /\ Says(e, "good-first-issue") ->
               <<Logged(CreateComment("good")), Logged(AddLabel(GoodFirst))>>
               \o If(~help, <<Logged(AddLabel(HelpLabel))>>)
          [] ~help /\ Says(e, "help") ->
               <<Logged(CreateComment("help")), Logged(AddLabel(HelpLabel))>>
          [] good /\ Says(e, "remove-good-first-issue") -> Drop(GoodFirst, "good")
          [] OTHER -> <<>>

(***************************************************************************)
(* The picture plugins try a service a few times.                          *)
(***************************************************************************)
Picture(c, e, cmds, tries, apology) ==
    CASE c.s = "" -> If(Created(e) /\ Matches(e, cmds) # <<>>, <<OrElse(ThenN("try", 1), "miss")>>)
      [] c.s = "try" -> <<CreateComment("picture")>>
      [] c.s = "miss" /\ c.n < tries -> <<OrElse(ThenN("try", c.n + 1), "miss")>>
      [] OTHER -> If(apology, <<Logged(CreateComment("no picture"))>>)

Cat(c, e, s) == Picture(c, e, {"meow", "meowvie"}, 3, TRUE)
Dog(c, e, s) == Picture(c, e, {"woof", "bark", "this-is-fine"}, 5, FALSE)
Goose(c, e, s) == Picture(c, e, {"honk"}, 3, TRUE)
Pony(c, e, s) == Picture(c, e, {"pony"}, 5, TRUE)
Yuks(c, e, s) == Picture(c, e, {"joke"}, 5, FALSE)
=============================================================================
