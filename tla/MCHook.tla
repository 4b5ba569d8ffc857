------------------------------- MODULE MCHook -------------------------------
(* Scenarios for Hook: small repositories with a few plugins each.         *)
EXTENDS Hook

C(c, a) == [c |-> c, a |-> a]
Say(cmds) == [Call("CreateComment", "") EXCEPT !.body = Body("said", cmds)]
Says1(c, a) == Say(<<C(c, a)>>)
Reviews(state, cmds) == [Call("Review", state) EXCEPT !.body = Body("", cmds)]
Push == Call("Push", "")
Open == Call("Open", "")
Merge == Call("Merge", "")

(* People: ann writes the pull request, col is a collaborator, mem a       *)
(* member and maintainer, out neither.                                     *)
People == {"ann", "col", "mem", "out", "bot"}
Rank == [ann |-> 1, bot |-> 2, col |-> 3, mem |-> 4, out |-> 5]

NoOwners == [files |-> {}, aliases |-> FALSE, new |-> {}]
Plain == [files |-> {"a"}, lines |-> [f \in {"a", "b", "gen", "md"} |-> 5],
          merges |-> FALSE, badmsg |-> FALSE, authors |-> {"ann"}, signed |-> TRUE,
          owners |-> NoOwners, contents |-> [f \in {} |-> 0], lint |-> {},
          patch |-> [f \in {"a"} |-> <<>>], changes |-> <<>>, tree |-> 1, mergeable |-> TRUE]

Filter(approvers, reviewers) ==
    [all |-> TRUE, re |-> {}, approvers |-> approvers, reviewers |-> reviewers, required |-> {}, labels |-> {}]
OwnersFile(fs) == [form |-> "ok", md |-> FALSE, noParent |-> FALSE, filters |-> fs]

NewPR == [isPR |-> TRUE, open |-> FALSE, merged |-> FALSE, draft |-> FALSE, author |-> "ann",
          title |-> "fix", body |-> <<>>, base |-> "master", head |-> 1, labels |-> {},
          assignees |-> {}, milestone |-> ""]
NewGH == [pr |-> NewPR, comments |-> <<>>, reviews |-> <<>>, requested |-> {}, statuses |-> {},
          adder |-> [l \in {} |-> ""], jobs |-> <<>>, told |-> {}, branch |-> TRUE, opened |-> FALSE,
          pushes |-> 0, next |-> 1, cards |-> [p \in {"p1", "p2"} |-> ""],
          maps |-> [m \in {"m1", "m2"} |-> [k \in {} |-> <<"", 0>>]], known |-> {}, ticks |-> 0,
          forked |-> FALSE, pushedPicks |-> {}, picks |-> [b \in {} |-> {}],
          bugs |-> [b \in {} |-> 0]]

NoBz == [byDefault |-> FALSE, isOpen |-> "", release |-> "", validStates |-> {}, afterValidation |-> "",
         dependentStates |-> {}, dependentRelease |-> "", afterMerge |-> "", link |-> FALSE]

Base ==
    [plugins |-> {}, serial |-> TRUE, patient |-> FALSE, mishaps |-> 0, start |-> NewGH,
     people |-> [u \in {} |-> <<>>],
     assignable |-> {"ann", "col", "mem"}, collaborators |-> {"col"}, members |-> {"mem"},
     trustedOrg |-> {}, onlyOrgMembers |-> FALSE, additionalLabels |-> {},
     repoLabels |-> {"area/x", "kind/bug", "sig/a", "extra"},
     commit |-> [h \in 1..3 |-> Plain], generated |-> {"gen"}, sizes |-> <<0, 0, 0, 0, 0>>,
     maintainers |-> {"mem"}, milestones |-> {"v1", "v2"},
     branchMilestone |-> [b \in {"master", "rel"} |-> ""], allowClosed |-> FALSE, adorees |-> {},
     ownersFiles |-> {}, docs |-> {"md"}, fork |-> FALSE, sigLabels |-> {"sig/a"}, required |-> <<>>,
     mention |-> [a |-> [sig |-> "sig/a", kind |-> "kind/bug"]], bots |-> {"bot"}, firstPR |-> TRUE,
     dcoSkipMembers |-> FALSE, dcoSkipCollaborators |-> FALSE, dcoOrg |-> {}, notedParents |-> {},
     blockades |-> <<>>, admins |-> {"mem"}, overrideTeam |-> {}, allowTopLevelOwners |-> FALSE,
     jobContexts |-> {}, labelsBlackList |-> {}, skipTrustedCheck |-> FALSE,
     goFiles |-> {"a", "gen"}, bazelFiles |-> {"b"}, unformatted |-> {"b"},
     mapOf |-> <<>>, reachableMaps |-> {"m1", "m2"}, defaultBranch |-> "master",
     mentionChannels |-> {"a"}, mergeWarnings |-> <<>>,
     projectArgs |-> [x \in {} |-> <<"", "">>], repoProjects |-> {"p1"}, otherProjects |-> {},
     orgProjects |-> {"p2"}, columns |-> [p \in {"p1", "p2"} |-> {"c1", "c2"}],
     defaultColumn |-> [p \in {"p1", "p2"} |-> "c1"], projectTeam |-> {"mem"},
     managed |-> [p \in {} |-> <<>>],
     tree |-> [p \in {<<>>} |-> OwnersFile({Filter({"mem"}, {"col"})})], owners |-> <<>>,
     path |-> [a |-> <<"d", "a">>, b |-> <<"b">>, gen |-> <<"gen">>, md |-> <<"d", "md">>,
               root |-> <<>>, dir |-> <<"d">>],
     aliases |-> [x \in {} |-> {}], mdYAML |-> FALSE, dirBlacklist |-> {}, skipCollaborators |-> FALSE,
     luck |-> Rank, abc |-> Rank, issueRequired |-> FALSE, lgtmActsAsApprove |-> FALSE,
     reviewState |-> FALSE, selfApproval |-> FALSE, stickyTeam |-> {}, storeTreeHash |-> FALSE,
     reviewActsAsLgtm |-> FALSE, useStatusAvailability |-> FALSE, busy |-> {}, reviewerCount |-> 1,
     fileWeightCount |-> 0, excludeApprovers |-> FALSE, maxReviewers |-> 0,
     presubmits |-> <<>>, postsubmits |-> <<>>, ignoreOkToTest |-> FALSE, elideSkippedContexts |-> FALSE,
     allowAll |-> FALSE, branches |-> {"rel", "rel2"}, conflicts |-> {}, prowAssignments |-> FALSE,
     pickLabels |-> [l \in {} |-> ""], jobState |-> [j \in {} |-> ""],
     bugOf |-> [t \in {} |-> 0], bz |-> NoBz, otherMerged |-> {}]

Opened == [NewGH EXCEPT !.opened = TRUE, !.pr.open = TRUE]
AnIssue == [Opened EXCEPT !.pr.isPR = FALSE]


(***************************************************************************)
(* Serial scenarios: webhooks in order, one at a time.                     *)
(***************************************************************************)
\* Commands about labels, on an issue.
Labelling ==
    [Base EXCEPT !.plugins = {"label", "hold", "stage"}, !.start = AnIssue, !.additionalLabels = {"extra"},
                 !.people = [ann |-> <<Say(<<C("area", "area/x"), C("hold", ""), C("stage", "stage/alpha")>>),
                                       Say(<<C("hold", "cancel"), C("stage", "stage/beta"),
                                             C("remove-area", "area/x"), C("remove-label", "none")>>)>>,
                             col |-> <<Say(<<C("label", "extra"), C("unhold", ""), C("remove-kind", "kind/bug")>>),
                                       Say(<<C("remove-stage", "stage/beta")>>)>>]]
Helping ==
    [Base EXCEPT !.plugins = {"help", "shrug"}, !.start = AnIssue,
                 !.people = [ann |-> <<Say(<<C("help", ""), C("shrug", "")>>),
                                       Say(<<C("good-first-issue", ""), C("close", "")>>),
                                       Say(<<C("remove-help", ""), C("unshrug", ""), C("reopen", "")>>)>>,
                             out |-> <<Says1("remove-good-first-issue", "")>>]]
\* Two people answer a stale issue.
Stale ==
    [Base EXCEPT !.plugins = {"lifecycle"}, !.serial = FALSE,
                 !.start = [AnIssue EXCEPT !.pr.labels = {"lifecycle/rotten"}],
                 !.people = [out |-> <<Says1("close", ""), Says1("remove-lifecycle", "lifecycle/rotten")>>,
                             col |-> <<Says1("reopen", ""), Says1("close", "")>>]]

\* Pushes to a pull request whose commits differ in everything that is watched.
Bad == [Plain EXCEPT !.files = {"a", "b", "gen"}, !.lines = [f \in {"a", "b", "gen", "md"} |-> 40],
                     !.merges = TRUE, !.badmsg = TRUE, !.signed = FALSE, !.mergeable = FALSE, !.tree = 2]
Docs == [Plain EXCEPT !.files = {"md"}, !.tree = 3]
Commits == [h \in 1..3 |-> CASE h = 1 -> Plain [] h = 2 -> Bad [] h = 3 -> Docs]
Pushing(plugins) ==
    [Base EXCEPT !.plugins = plugins, !.commit = Commits,
                 !.blockades = <<[here |-> TRUE, blocks |-> {"b", "a"}, exceptions |-> {"a"}],
                                 [here |-> FALSE, blocks |-> {"md"}, exceptions |-> {}]>>,
                 !.tree = [p \in {<<>>} |-> OwnersFile({[Filter({"mem"}, {"col"}) EXCEPT !.labels = {"extra"}]})],
                 !.people = [ann |-> <<Open, Push, Push>>]]
Pushing1 == [Pushing({"size", "wip", "docs-no-retest"}) EXCEPT
                 !.people.ann = <<Open, Call("SetTitle", "WIP"), Push, Call("SetTitle", "fix"), Push>>]
Pushing2 == Pushing({"mergecommitblocker", "invalidcommitmsg"})
Pushing4 == Pushing({"blockade", "owners-label"})
Pushing3 == [Pushing({"dco", "needs-rebase"}) EXCEPT
                 !.people = [ann |-> <<Open, Push, Push>>, out |-> <<Says1("check-dco", "")>>]]
Rebase == [Pushing({"needs-rebase"}) EXCEPT !.serial = FALSE, !.mishaps = 1,
                 !.people = [ann |-> <<Open, Push>>, timer |-> <<Call("Tick", "")>>]]
Drafts == [Pushing({"wip", "dco"}) EXCEPT !.start.pr.draft = TRUE, !.dcoSkipMembers = TRUE,
                 !.dcoOrg = {"ann"}, !.people.ann = <<Open, Push, Call("Ready", "")>>]

\* Labels that stand for a missing label.
Required ==
    [Base EXCEPT !.plugins = {"require-matching-label", "label", "cherrypickunapproved"},
                 !.start.pr.base = "rel",
                 !.required = <<[prs |-> TRUE, issues |-> TRUE, branch |-> "rel", matching |-> {"kind/bug"},
                                 missing |-> "needs-kind"]>>,
                 !.people = [ann |-> <<Open, Says1("kind", "kind/bug")>>,
                             mem |-> <<AddLabel(CpApproved), RemoveLabel("kind/bug")>>]]
RequiredIssue ==
    [Required EXCEPT !.plugins = {"require-matching-label", "require-sig", "label", "sigmention"},
                     !.start.pr.isPR = FALSE, !.patient = TRUE,
                     !.people = [ann |-> <<Open, Says1("kind", "kind/bug"), Says1("@sig", "a")>>,
                                 mem |-> <<RemoveLabel("kind/bug")>>]]

\* Release notes and the milestone of a release branch.
Notes ==
    [Base EXCEPT !.plugins = {"release-note", "milestoneapplier", "branchcleaner"}, !.patient = TRUE,
                 !.branchMilestone = [b \in {"master", "rel"} |-> IF b = "rel" THEN "v1" ELSE "v2"],
                 !.people = [ann |-> <<Open, Says1("release-note-none", ""),
                                       [Call("Edit", "fix") EXCEPT !.n = 1, !.body = Body("", <<C("release-note-block", Note)>>)],
                                       Call("SetTitle", "fix2")>>,
                             out |-> <<Says1("release-note-none", ""), Says1("release-note", "")>>,
                             col |-> <<Merge>>]]
Picked == [Notes EXCEPT !.start.pr.base = "rel", !.start.pr.body = <<C("cherry-pick-of", "1")>>,
                        !.notedParents = {"1"}, !.people = [ann |-> <<Open, Call("SetTitle", "fix2")>>]]
Unnoted == [Picked EXCEPT !.notedParents = {}]

\* The CLA service answers late, and for an old head.
Cla1 ==
    [Base EXCEPT !.plugins = {"cla"}, !.start = [Opened EXCEPT !.pr.open = FALSE, !.opened = FALSE],
                 !.people = [ann |-> <<Open, Push, Says1("check-cla", "")>>,
                             lf |-> <<CreateStatus(ClaContext, "failure", 1), CreateStatus(ClaContext, "success", 2)>>]]

\* OWNERS files in the change.
OwnersContent(form, approvers) ==
    [form |-> form, labels |-> {}, root |-> FALSE, approvers |-> approvers, reviewers |-> {}]
Verify ==
    [Base EXCEPT !.plugins = {"verify-owners", "heart"}, !.ownersFiles = {"a"}, !.adorees = {"col"},
                 !.commit = [h \in 1..3 |->
                     [Plain EXCEPT !.owners = [files |-> {"a"}, aliases |-> FALSE, new |-> {"out"}],
                                   !.contents = [f \in {"a"} |-> CASE h = 1 -> OwnersContent("broken", {})
                                                                   [] h = 2 -> OwnersContent("ok", {"out", "mem"})
                                                                   [] OTHER -> OwnersContent("ok", {"mem"})]]],
                 !.people = [ann |-> <<Open, Push, Push>>, col |-> <<Say(<<C("verify-owners", ""), C("love", "")>>)>>]]

\* Linters, and the config maps that a merge updates.
Patch == <<[k |-> "@", new |-> 3, olds |-> 2, news |-> 3], [k |-> " ", new |-> 0, olds |-> 0, news |-> 0],
           [k |-> "-", new |-> 0, olds |-> 0, news |-> 0], [k |-> "+", new |-> 0, olds |-> 0, news |-> 0],
           [k |-> "+", new |-> 0, olds |-> 0, news |-> 0], [k |-> "\\", new |-> 0, olds |-> 0, news |-> 0],
           [k |-> "@", new |-> 9, olds |-> 0, news |-> 1], [k |-> "+", new |-> 0, olds |-> 0, news |-> 0]>>
Linted ==
    [Base EXCEPT !.plugins = {"golint", "buildifier"},
                 !.commit = [h \in 1..3 |->
                     [Plain EXCEPT !.files = {"a", "b", "gen"}, !.patch = [f \in {"a", "b", "gen"} |-> Patch],
                                   !.lint = {<<"a", 3>>, <<"a", 4>>, <<"a", 9>>, <<"a", 8>>, <<"b", 4>>},
                                   !.changes = <<[file |-> "a", key |-> "a", old |-> "z", kind |-> "renamed"],
                                                 [file |-> "b", key |-> "b", old |-> "", kind |-> "removed"]>>]],
                 !.mapOf = [a |-> [key |-> "", ids |-> {"m1", "m2"}], b |-> [key |-> "k", ids |-> {"m1"}]],
                 !.start = [Opened EXCEPT !.maps = [m1 |-> [z |-> <<"a", 0>>, k |-> <<"b", 0>>], m2 |-> [z |-> <<"a", 0>>]]],
                 !.people = [ann |-> <<Says1("lint", ""), Say(<<C("lint", ""), C("buildify", "")>>)>>, col |-> <<Push>>]]
Merged == [Linted EXCEPT !.plugins = {"config-updater", "branchcleaner", "slackevents"},
                         !.mergeWarnings = <<[repos |-> {"org"}, channels |-> <<"a", "b">>, whitelist |-> {"mem"},
                                              branchWhitelist |-> [b \in {"master"} |-> {}]]>>,
                         !.people = [col |-> <<Says1("@sig", "a"), Merge>>]]

\* Bugs: a valid one, one whose dependency is not done, none.
Bug(st, deps) == [state |-> st, release |-> "r1", open |-> TRUE, depends |-> deps, links |-> {}]
Bugs ==
    [Base EXCEPT !.plugins = {"bugzilla"},
                 !.start.bugs = <<Bug("NEW", {}), Bug("NEW", {1}), Bug("CLOSED", {})>>,
                 !.bugOf = [t \in {"bug1", "bug2", "bug3", "bug9"} |->
                                CASE t = "bug1" -> 1 [] t = "bug2" -> 2 [] t = "bug3" -> 3 [] OTHER -> 9],
                 !.bz = [NoBz EXCEPT !.byDefault = TRUE, !.isOpen = "yes", !.release = "r1", !.validStates = {"NEW"},
                                     !.afterValidation = "POST", !.dependentStates = {"POST", "MODIFIED"},
                                     !.dependentRelease = "r1", !.afterMerge = "MODIFIED", !.link = TRUE],
                 !.people = [ann |-> <<Open, Call("SetTitle", "bug1"), Call("SetTitle", "bug2"), Says1("bugzilla", ""),
                                       Merge>>]]
Bugs2 == [Bugs EXCEPT !.people = [ann |-> <<Open, Call("SetTitle", "bug9"), Call("SetTitle", "bug3"), Call("SetTitle", "fix"),
                                            Call("SetTitle", "bug1"), Merge>>],
                      !.start.bugs = <<[Bug("NEW", {}) EXCEPT !.links = {"other"}], Bug("NEW", {}), Bug("CLOSED", {})>>]

\* Cherry-picks asked for before and after the merge.
Picks ==
    [Base EXCEPT !.plugins = {"cherrypicker"}, !.start = Opened, !.conflicts = {"rel2"},
                 !.pickLabels = [l \in {"cherrypick/rel2"} |-> "rel2"], !.members = {"mem", "ann"},
                 !.people = [mem |-> <<Says1("cherrypick", "rel"), Says1("cherrypick", "master")>>,
                             out |-> <<Says1("cherrypick", "rel2")>>,
                             col |-> <<Merge, AddLabel("cherrypick/rel2")>>]]

(***************************************************************************)
(* Reviews: lgtm, approve, blunderbuss, assign.                            *)
(***************************************************************************)
Lgtm ==
    [Base EXCEPT !.plugins = {"lgtm"}, !.start = Opened, !.commit = Commits,
                 !.people = [ann |-> <<Says1("lgtm", ""), Push, Push>>,
                             col |-> <<Says1("lgtm", ""), Says1("lgtm", "cancel"), Says1("lgtm", "")>>]]
LgtmTree ==
    [Lgtm EXCEPT !.storeTreeHash = TRUE, !.patient = TRUE, !.reviewActsAsLgtm = TRUE,
                 !.commit = [h \in 1..3 |-> [Plain EXCEPT !.tree = IF h = 3 THEN 2 ELSE 1]],
                 !.people = [ann |-> <<Push, Push>>,
                             col |-> <<Reviews("APPROVED", <<>>), Reviews("CHANGES_REQUESTED", <<>>), Says1("lgtm", "")>>]]
LgtmOwners ==
    [Lgtm EXCEPT !.skipCollaborators = TRUE, !.serial = FALSE, !.mishaps = 1, !.reviewActsAsLgtm = TRUE,
                 !.people = [ann |-> <<Push>>, col |-> <<Reviews("APPROVED", <<>>)>>, out |-> <<Says1("lgtm", "")>>]]

\* approve: the directory d has owners of its own, with or without parents.
Deep(noParent) ==
    [p \in {<<>>, <<"d">>} |-> IF p = <<>> THEN OwnersFile({Filter({"mem"}, {"col"})})
                               ELSE [OwnersFile({Filter({"col", "team"}, {"mem"})}) EXCEPT !.noParent = noParent]]
Approving(noParent) ==
    [Base EXCEPT !.plugins = {"approve"}, !.collaborators = {"col", "mem", "out", "ann"}, !.tree = Deep(noParent),
                 !.aliases = [a \in {"team"} |-> {"out"}],
                 !.commit = [h \in 1..3 |-> IF h = 2 THEN Plain ELSE [Plain EXCEPT !.files = {"a", "b"}]],
                 !.people = [ann |-> <<Open, Push>>,
                             mem |-> <<Says1("approve", ""), Says1("approve", "cancel")>>,
                             col |-> <<Says1("approve", "")>>]]
Approve1 == [Approving(FALSE) EXCEPT !.people.mem = <<Says1("approve", "")>>]
Approve2 == Approving(TRUE)
Approve3 == [Approving(TRUE) EXCEPT !.reviewState = TRUE, !.lgtmActsAsApprove = TRUE, !.selfApproval = TRUE,
                 !.issueRequired = TRUE,
                 !.people = [ann |-> <<Open, RemoveLabel(Approved)>>,
                             mem |-> <<Reviews("APPROVED", <<>>), Says1("approve", "no-issue")>>,
                             out |-> <<Says1("lgtm", ""), Reviews("CHANGES_REQUESTED", <<>>)>>]]
Approve4 == [Approving(FALSE) EXCEPT !.serial = FALSE, !.mishaps = 1, !.start = Opened,
                 !.people = [mem |-> <<Says1("approve", ""), AddLabel(Approved)>>]]

Asking ==
    [Base EXCEPT !.plugins = {"blunderbuss", "assign", "welcome"}, !.collaborators = {"col", "mem", "out", "ann"},
                 !.tree = Deep(FALSE), !.aliases = [a \in {"team"} |-> {"out"}], !.reviewerCount = 2,
                 !.maxReviewers = 2, !.useStatusAvailability = TRUE, !.busy = {"mem"},
                 !.people = [ann |-> <<Open, Say(<<C("cc", "mem"), C("assign", "col"), C("uncc", "col")>>)>>,
                             out |-> <<Says1("auto-cc", ""), Say(<<C("assign", ""), C("unassign", "col"), C("cc", "nobody")>>)>>]]
AskingOld == [Asking EXCEPT !.plugins = {"blunderbuss"}, !.fileWeightCount = 2,
                            !.people = [ann |-> <<Open>>, out |-> <<Says1("auto-cc", "")>>]]

(***************************************************************************)
(* Jobs: trigger, skip, override, refresh.                                 *)
(***************************************************************************)
Job(n, always, changed) ==
    [name |-> n, context |-> n, branches |-> {}, skipBranches |-> {}, alwaysRun |-> always,
     conditional |-> changed # {}, changed |-> changed, optional |-> FALSE, skipReport |-> FALSE, trigger |-> n]
Jobs == <<Job("unit", TRUE, {}), Job("docs", FALSE, {"md"}), [Job("slow", FALSE, {}) EXCEPT !.optional = TRUE]>>
Testing ==
    [Base EXCEPT !.plugins = {"trigger"}, !.presubmits = Jobs, !.commit = Commits,
                 !.postsubmits = <<Job("post", FALSE, {})>>,
                 !.people = [ann |-> <<Open, Push>>, out |-> <<Says1("test", "unit")>>,
                             mem |-> <<Says1("ok-to-test", "")>>]]
Testing2 == [Testing EXCEPT !.serial = FALSE, !.mishaps = 1, !.start = Opened,
                 !.people = [ann |-> <<Says1("test", "slow")>>, mem |-> <<Says1("ok-to-test", ""), Merge>>]]
Testing3 == [Testing EXCEPT !.plugins = {"trigger", "lgtm"},
                 !.people = [ann |-> <<Open, Says1("test", "unit")>>, col |-> <<Says1("lgtm", ""), Says1("test", "all")>>,
                             mem |-> <<Call("SetBase", "rel")>>]]
Untested == [Testing EXCEPT !.ignoreOkToTest = TRUE, !.elideSkippedContexts = TRUE]

Failing(ctx, st) == [ctx |-> ctx, state |-> st, sha |-> 1]
Skipping ==
    [Testing EXCEPT !.plugins = {"skip", "override", "refresh"}, !.jobContexts = {"unit"},
                    !.start = [Opened EXCEPT !.statuses = {Failing("unit", "failure"), Failing("slow", "failure")},
                                             !.jobs = <<[job |-> "slow", sha |-> 1, for |-> {"mem"}]>>],
                    !.people = [ann |-> <<Says1("override", "unit")>>,
                                mem |-> <<Say(<<C("override", "unit"), C("override", "slow")>>), Says1("override", "")>>]]
Skipping1 == [Skipping EXCEPT !.jobState = [j \in {"slow"} |-> "failure"], !.plugins = {"skip", "refresh"},
                    !.people = [ann |-> <<Says1("skip", "")>>, col |-> <<Says1("refresh", ""), Says1("skip", "")>>]]
Overriding == [Skipping EXCEPT !.plugins = {"override"}, !.allowTopLevelOwners = TRUE, !.admins = {}, !.serial = FALSE, !.mishaps = 2,
                    !.collaborators = {"mem"},
                    !.people = [col |-> <<Says1("override", "slow")>>, mem |-> <<Says1("override", "unit")>>]]

(***************************************************************************)
(* The rest: milestones, titles, pictures, projects.                       *)
(***************************************************************************)
Milestones ==
    [Base EXCEPT !.plugins = {"milestone", "milestonestatus"}, !.serial = FALSE, !.mishaps = 1, !.start = Opened,
                 !.people = [out |-> <<Say(<<C("milestone", "v1"), C("status", "status/in-review")>>)>>,
                             mem |-> <<Say(<<C("milestone", "v2"), C("status", "status/in-review")>>)>>]]
Titles == [Milestones EXCEPT !.plugins = {"retitle"}, !.people = [out |-> <<Says1("retitle", "x")>>,
                 mem |-> <<Says1("retitle", "y")>>, ann |-> <<CloseIt>>]]
Milestones2 == [Milestones EXCEPT !.mishaps = 0, !.plugins = {"milestone", "retitle"},
                 !.people = [mem |-> <<Says1("milestone", "v9"), Says1("milestone", "clear"), Says1("retitle", "")>>]]
Pictures ==
    [Base EXCEPT !.plugins = {"cat", "dog", "goose", "pony", "yuks"}, !.serial = FALSE, !.mishaps = 5, !.start = AnIssue,
                 !.people = [out |-> <<Says1("meow", "")>>]]
Pictures2 == [Pictures EXCEPT !.mishaps = 0, !.people.out =
                 <<Say(<<C("woof", ""), C("honk", ""), C("pony", ""), C("joke", "")>>)>>]
Projects ==
    [Base EXCEPT !.plugins = {"project", "project-manager"}, !.start.pr.isPR = FALSE,
                 !.projectArgs = [x \in {"1", "2", "3", "4", "5"} |->
                     CASE x = "1" -> <<"p1", "">> [] x = "2" -> <<"clear", "p1">> [] x = "3" -> <<"p9", "c1">>
                       [] x = "4" -> <<"p1", "c9">> [] OTHER -> <<"p1", "c2">>],
                 !.managed = [p \in {"p2"} |-> <<[org |-> "org", state |-> "open", labels |-> {"sig/a"}, byID |-> FALSE, column |-> "c1"],
                                                 [org |-> "org", state |-> "", labels |-> {}, byID |-> TRUE, column |-> "c2"]>>],
                 !.people = [ann |-> <<Open, AddLabel("sig/a")>>, out |-> <<Says1("project", "1")>>,
                             mem |-> <<Says1("project", "1"), Says1("project", "5"), Says1("project", "2")>>]]
Projects2 == [Projects EXCEPT !.plugins = {"project"}, !.serial = FALSE, !.start = AnIssue, !.mishaps = 1,
                 !.people = [mem |-> <<Says1("project", "3"), Says1("project", "4"), Says1("project", "2")>>]]

AScenarios == <<Labelling, Helping, Stale, Pushing1, Pushing2, Pushing3, Pushing4, Rebase, Drafts, Required, RequiredIssue,
                Notes, Picked, Unnoted, Cla1, Verify, Linted, Merged, Bugs, Bugs2, Picks,
                Lgtm, LgtmTree, LgtmOwners, Approve1, Approve2, Approve3, Approve4, Asking, AskingOld,
                Testing, Testing2, Testing3, Untested, Skipping, Skipping1, Overriding,
                Milestones, Titles, Milestones2, Pictures, Pictures2, Projects, Projects2>>

\* An untrusted pull request that a member lets in.
OkToTestOnly ==
    <<[Testing EXCEPT !.people = [ann |-> <<Open>>, mem |-> <<Says1("ok-to-test", "")>>]]>>
=============================================================================
