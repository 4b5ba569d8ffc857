-------------------------------- MODULE Hook --------------------------------
(***************************************************************************)
(* hook/server.go and hook/events.go: webhooks come in, each handler of an *)
(* enabled plugin runs for them in a goroutine of its own, and what the    *)
(* handlers write to GitHub makes further webhooks.  People act meanwhile. *)
(*                                                                         *)
(* In a scenario that is serial, GitHub delivers in order and only when no *)
(* handler runs; in the others deliveries and handlers overlap.            *)
(***************************************************************************)
EXTENDS LabelPlugins, CommandPlugins, PolicyPlugins, RepoPlugins, ReviewPlugins,
        TriggerPlugin, ExternalPlugins

CONSTANT MaxNext    \* bound on the comments and reviews of a scenario

VARIABLES
    inbox,      \* the webhooks GitHub has still to deliver, oldest first
    running,    \* the handlers that run: [p, t, e, k] -> the calls they plan
    todo,       \* what people still do: person -> calls
    mishaps     \* the failures that may still happen

hookVars == <<cfg, gh, inbox, running, todo, mishaps>>

(***************************************************************************)
(* The handlers that plugins.go registers, by the type of the event.       *)
(***************************************************************************)
genericCommentHandlers ==
    {"label", "hold", "lifecycle", "stage", "shrug", "skip", "milestone", "milestonestatus",
     "retitle", "assign", "sigmention", "help", "cat", "dog", "goose", "pony", "yuks", "cla",
     "dco", "override", "verify-owners", "golint", "buildifier", "slackevents", "project",
     "lgtm", "approve", "blunderbuss", "trigger", "bugzilla"}
pullRequestHandlers ==
    {"wip", "size", "milestoneapplier", "cherrypickunapproved", "docs-no-retest",
     "mergecommitblocker", "owners-label", "branchcleaner", "invalidcommitmsg", "welcome",
     "blockade", "config-updater", "heart", "release-note", "dco", "verify-owners",
     "blunderbuss", "bugzilla", "lgtm", "approve", "trigger", "require-matching-label"}
issueHandlers == {"require-sig", "require-matching-label", "project-manager"}
issueCommentHandlers == {"heart", "release-note"}
reviewEventHandlers == {"lgtm", "approve"}
pushEventHandlers == {"trigger", "slackevents"}
statusEventHandlers == {"cla"}

GenericHandler(p, c, e, s) ==
    CASE p = "label" -> Label(c, e, s)             [] p = "hold" -> Hold(c, e, s)
      [] p = "lifecycle" -> Lifecycle(c, e, s)     [] p = "stage" -> Stage(c, e, s)
      [] p = "shrug" -> Shrug(c, e, s)             [] p = "skip" -> Skip(c, e, s)
      [] p = "milestone" -> Milestone(c, e, s)     [] p = "milestonestatus" -> MilestoneStatus(c, e, s)
      [] p = "retitle" -> Retitle(c, e, s)         [] p = "assign" -> Assign(c, e, s)
      [] p = "sigmention" -> SigMention(c, e, s)   [] p = "help" -> Help(c, e, s)
      [] p = "cat" -> Cat(c, e, s)                 [] p = "dog" -> Dog(c, e, s)
      [] p = "goose" -> Goose(c, e, s)             [] p = "pony" -> Pony(c, e, s)
      [] p = "yuks" -> Yuks(c, e, s)               [] p = "cla" -> ClaComment(c, e, s)
      [] p = "dco" -> DcoComment(c, e, s)          [] p = "override" -> Override(c, e, s)
      [] p = "verify-owners" -> VerifyOwnersComment(c, e, s)
      [] p = "golint" -> Golint(c, e, s)           [] p = "buildifier" -> Buildifier(c, e, s)
      [] p = "slackevents" -> echoToSlack(c, e, s) [] p = "project" -> Project(c, e, s)
      [] p = "lgtm" -> LgtmComment(c, e, s)        [] p = "approve" -> ApproveComment(c, e, s)
      [] p = "blunderbuss" -> BlunderbussComment(c, e, s)
      [] p = "trigger" -> TriggerComment(c, e, s)  [] p = "bugzilla" -> BugzillaComment(c, e, s)

PullRequestHandler(p, c, e, s) ==
    CASE p = "wip" -> WIP(c, e, s)                 [] p = "size" -> Size(c, e, s)
      [] p = "milestoneapplier" -> MilestoneApplier(c, e, s)
      [] p = "cherrypickunapproved" -> CherryPickUnapproved(c, e, s)
      [] p = "docs-no-retest" -> DocsNoRetest(c, e, s)
      [] p = "mergecommitblocker" -> MergeCommitBlocker(c, e, s)
      [] p = "owners-label" -> OwnersLabel(c, e, s)
      [] p = "branchcleaner" -> BranchCleaner(c, e, s)
      [] p = "invalidcommitmsg" -> InvalidCommitMsg(c, e, s)
      [] p = "welcome" -> Welcome(c, e, s)         [] p = "blockade" -> Blockade(c, e, s)
      [] p = "config-updater" -> UpdateConfig(c, e, s)
      [] p = "heart" -> HeartPR(c, e, s)           [] p = "release-note" -> ReleaseNotePR(c, e, s)
      [] p = "dco" -> Dco(c, e, s)                 [] p = "verify-owners" -> VerifyOwners(c, e, s)
      [] p = "blunderbuss" -> Blunderbuss(c, e, s) [] p = "bugzilla" -> Bugzilla(c, e, s)
      [] p = "lgtm" -> LgtmPush(c, e, s)           [] p = "approve" -> ApprovePR(c, e, s)
      [] p = "trigger" -> TriggerPR(c, e, s)
      [] p = "require-matching-label" -> RequireMatchingLabel(c, e, s)
      [] p = "cherrypicker" -> Cherrypick(c, e, s) [] p = "needs-rebase" -> NeedsRebase(c, e, s)

OtherHandler(p, t, c, e, s) ==
    CASE p = "require-sig" -> RequireSig(c, e, s)
      [] p = "require-matching-label" -> RequireMatchingLabel(c, e, s)
      [] p = "project-manager" -> ProjectManager(c, e, s)
      [] p = "heart" -> HeartComment(c, e, s)      [] p = "release-note" -> ReleaseNoteComment(c, e, s)
      [] p = "cherrypicker" -> CherrypickComment(c, e, s)
      [] p = "needs-rebase" /\ t = "tick" -> NeedsRebaseAll(c, e, s)
      [] p = "needs-rebase" -> NeedsRebaseComment(c, e, s)
      [] p = "refresh" -> Refresh(c, e, s)
      [] p = "lgtm" -> LgtmReview(c, e, s)         [] p = "approve" -> ApproveReview(c, e, s)
      [] p = "trigger" -> TriggerPush(c, e, s)     [] p = "slackevents" -> notifyOnSlackIfManualMerge(c, e, s)
      [] p = "cla" -> Cla(c, e, s)

Handle(p, t, c, e, s) ==
    CASE t = "generic"      -> GenericHandler(p, c, e, s)
      [] t = "pull_request" -> PullRequestHandler(p, c, e, s)
      [] OTHER              -> OtherHandler(p, t, c, e, s)

(***************************************************************************)
(* demuxEvent and the handleXEvent functions: the handlers an event goes   *)
(* to, of the plugins that are enabled for the repository (getPlugins).    *)
(* Every event with a text also goes to the generic comment handlers,      *)
(* provided its action is one of theirs.  External plugins get every event *)
(* of the types they are registered for.                                   *)
(***************************************************************************)
getPlugins == cfg.plugins
externalPlugins == {"cherrypicker", "needs-rebase", "refresh"}

To(registered, t) == {<<p, t>> : p \in registered \cap getPlugins}
handleGenericComment(e) ==
    IF genericCommentAction(e.action) # "" THEN To(genericCommentHandlers, "generic") ELSE {}

handlePullRequestEvent(e) == To(pullRequestHandlers, e.type) \cup handleGenericComment(e)
handleIssueEvent(e) == To(issueHandlers, e.type) \cup handleGenericComment(e)
handleIssueCommentEvent(e) == To(issueCommentHandlers, e.type) \cup handleGenericComment(e)
handleReviewEvent(e) == To(reviewEventHandlers, e.type) \cup handleGenericComment(e)
handlePushEvent(e) == To(pushEventHandlers, e.type)
handleStatusEvent(e) == To(statusEventHandlers, e.type)

\* needDemux, demuxExternal
needDemux(e) == CASE e.type = "pull_request" -> {"cherrypicker", "needs-rebase"}
                  [] e.type = "issue_comment" -> externalPlugins
                  [] e.type = "tick" -> {"needs-rebase"}
                  [] OTHER -> {}
demuxExternal(e) == To(needDemux(e), e.type)

demuxEvent(e) ==
    demuxExternal(e) \cup
    CASE e.type = "pull_request"        -> handlePullRequestEvent(e)
      [] e.type = "issues"              -> handleIssueEvent(e)
      [] e.type = "issue_comment"       -> handleIssueCommentEvent(e)
      [] e.type = "pull_request_review" -> handleReviewEvent(e)
      [] e.type = "push"                -> handlePushEvent(e)
      [] e.type = "status"              -> handleStatusEvent(e)
      [] OTHER                          -> {}

\* A handler that has nothing to do for an event ends at once.
Start(p, t, e) == Handle(p, t, Then(""), e, gh)
Starts(e) == \E h \in demuxEvent(e) : Start(h[1], h[2], e) # <<>>

Post(events) == inbox \o ListOf({e \in events : Starts(e)})

(***************************************************************************)
(* What a handler plans once a call c has been accepted or not.            *)
(***************************************************************************)
GoOn(h, c, k, s) == IF k = "" THEN <<>> ELSE Handle(h.p, h.t, [c EXCEPT !.s = k], h.e, s)

After(h, c, ok, s, rest) ==
    LET k == CASE ok /\ c.op = "Then" -> c.s
               [] ok                  -> c.yes
               [] OTHER               -> c.no
    IN  GoOn(h, c, k, s) \o If(ok \/ c.err = "log", rest)

SetPlan(h, plan) ==
    running' = IF plan = <<>> THEN [x \in DOMAIN running \ {h} |-> running[x]]
               ELSE [running EXCEPT ![h] = plan]

(***************************************************************************)
(* The steps.                                                              *)
(***************************************************************************)
HookInit ==
    /\ \E k \in ToSet(Scenarios) : cfg = [k EXCEPT !.owners = LoadRepoOwners(k)]
    /\ gh = cfg.start
    /\ inbox = <<>>
    /\ running = <<>>
    /\ todo = cfg.people
    /\ mishaps = cfg.mishaps

\* Who can take a step.  A patient person waits for hook.
CanAct(u) == /\ todo[u] # <<>>
             /\ gh.opened \/ Head(todo[u]).op = "Open"
             /\ cfg.patient => inbox = <<>> /\ running = <<>>
CanDeliver(i) == cfg.serial => i = 1 /\ running = <<>>
CanWork(h) == gh.next <= MaxNext

\* A person (or a timer) does the next thing.
Person(u) ==
    /\ CanAct(u)
    /\ LET s2 == Do(gh, Head(todo[u]), u).s
       IN  gh' = s2 /\ inbox' = Post(Events(gh, s2, u))
    /\ todo' = [todo EXCEPT ![u] = Tail(@)]
    /\ UNCHANGED <<cfg, running, mishaps>>

\* The lowest number that no handler for the same event runs with.
Fresh(e) == CHOOSE k \in 0..Cardinality(DOMAIN running) :
                /\ \A h \in DOMAIN running : h.e = e => h.k # k
                /\ \A j \in 0..(k-1) : \E h \in DOMAIN running : h.e = e /\ h.k = j

\* ServeHTTP, demuxEvent: the handlers of the i-th webhook start.
Launch(e, plans, k) ==
    running' = [h \in DOMAIN running \cup {[p |-> x[1], t |-> x[2], e |-> e, k |-> k] :
                                               x \in {y \in DOMAIN plans : plans[y] # <<>>}} |->
                   IF h \in DOMAIN running THEN running[h] ELSE plans[<<h.p, h.t>>]]
Dispatch(e) == Launch(e, [x \in demuxEvent(e) |-> Start(x[1], x[2], e)], Fresh(e))

Deliver(i) ==
    /\ CanDeliver(i)
    /\ Dispatch(inbox[i])
    /\ inbox' = RemoveAt(inbox, i)
    /\ UNCHANGED <<cfg, gh, todo, mishaps>>

\* GitHub delivers a webhook that it keeps for another delivery, or loses it.
Redeliver(i) ==
    /\ mishaps > 0 /\ ~inbox[i].again
    /\ Dispatch(inbox[i])
    /\ inbox' = [inbox EXCEPT ![i].again = TRUE]
    /\ mishaps' = mishaps - 1
    /\ UNCHANGED <<cfg, gh, todo>>
Lose(i) ==
    /\ mishaps > 0
    /\ inbox' = RemoveAt(inbox, i)
    /\ mishaps' = mishaps - 1
    /\ UNCHANGED <<cfg, gh, running, todo>>

\* The next call of a handler.
Work(h) ==
    LET c == Head(running[h])
        r == IF c.op = "Then" THEN Done(gh) ELSE Do(gh, c, Bot)
    IN  /\ CanWork(h)
        /\ gh' = r.s
        /\ inbox' = Post(Events(gh, r.s, Bot))
        /\ SetPlan(h, After(h, c, r.ok, r.s, Tail(running[h])))
        /\ UNCHANGED <<cfg, todo, mishaps>>

\* The calls whose failure is answered only when GitHub has given a reason
\* (MissingUsers, StateCannotBeChanged).
Refusable == {"AssignIssue", "RequestReview", "Reopen"}

\* A call fails for the handler; GitHub may have done it nevertheless.
Fail(h) ==
    LET c == IF Head(running[h]).op \in Refusable THEN [Head(running[h]) EXCEPT !.no = ""]
             ELSE Head(running[h])
    IN  /\ mishaps > 0
        /\ gh' \in {gh} \cup (IF c.op = "Then" THEN {} ELSE {Do(gh, c, Bot).s})
        /\ inbox' = Post(Events(gh, gh', Bot))
        /\ SetPlan(h, After(h, c, FALSE, gh', Tail(running[h])))
        /\ mishaps' = mishaps - 1
        /\ UNCHANGED <<cfg, todo>>

\* hook dies and comes back: the handlers that ran are gone.
Crash ==
    /\ mishaps > 0 /\ running # <<>>
    /\ running' = <<>>
    /\ mishaps' = mishaps - 1
    /\ UNCHANGED <<cfg, gh, inbox, todo>>

HookNext ==
    \/ \E u \in DOMAIN todo : Person(u)
    \/ \E i \in DOMAIN inbox : Deliver(i) \/ Redeliver(i) \/ Lose(i)
    \/ \E h \in DOMAIN running : Work(h) \/ Fail(h)
    \/ Crash

\* Weak fairness of HookNext, with what enables it written out: people finish
\* what they do, GitHub delivers, and the calls of a handler return.
Busy == \/ \E u \in DOMAIN todo : CanAct(u)
        \/ \E i \in DOMAIN inbox : CanDeliver(i)
        \/ \E h \in DOMAIN running : CanWork(h)
Fairness == []<>~Busy \/ []<><<TRUE>>_hookVars

HookSpec == HookInit /\ [][HookNext]_hookVars /\ Fairness

Quiet == inbox = <<>> /\ running = <<>> /\ \A u \in DOMAIN todo : todo[u] = <<>>

(***************************************************************************)
(* Properties.                                                             *)
(***************************************************************************)
\* Whatever people do and whatever fails, hook comes to rest: no plugin keeps
\* answering what it or another plugin has written.
Settles == <>Quiet

(***************************************************************************)
(* What the labels, statuses, milestones, branches and config maps that a  *)
(* plugin keeps say about the pull request once hook is at rest.           *)
(***************************************************************************)
Has(l) == l \in gh.pr.labels
Here == cfg.commit[gh.pr.head]
AtMostOne(S) == Cardinality(gh.pr.labels \cap S) <= 1

HoldSaid == LET about == SelectSeq(gh.comments, LAMBDA c : \E i \in DOMAIN c.cmds : c.cmds[i].c \in {"hold", "unhold"})
            IN  about # <<>> /\ [c |-> "hold", a |-> "cancel"] \notin ToSet(Last(about).cmds)
                             /\ [c |-> "unhold", a |-> ""] \notin ToSet(Last(about).cmds)

NotesLines == SelectSeq(gh.pr.body, LAMBDA x : x.c = "release-note-block")

\* The line of the new file that stands at place i of a patch.
NewLine(patch, i) ==
    LET h == Max({j \in 1..i : patch[j].k = "@"})
    IN  patch[h].new + Cardinality({j \in (h+1)..(i-1) : patch[j].k \in {"+", " "}})
LintPlaces(f) == {<<f, i - 1>> : i \in {j \in DOMAIN Here.patch[f] :
                      Here.patch[f][j].k = "+" /\ <<f, NewLine(Here.patch[f], j)>> \in Here.lint}}
BotNotes == UNION {r.notes : r \in {x \in ToSet(gh.reviews) : x.by = Bot}}

MapTruth(id, ch) ==
    LET m == cfg.mapOf[ch.file]
        key == IF m.key = "" THEN ch.key ELSE m.key
    IN  IF ch.kind = "removed" THEN key \notin DOMAIN gh.maps[id]
        ELSE /\ key \in DOMAIN gh.maps[id] /\ gh.maps[id][key] = <<ch.file, gh.pr.head>>
             /\ m.key = "" /\ ch.kind = "renamed" => ch.old \notin DOMAIN gh.maps[id]

BugIsValid ==
    LET id == BugOf(gh.pr.title)
    IN  id \in DOMAIN gh.bugs /\ validateBug(gh.bugs[id], {gh.bugs[d] : d \in gh.bugs[id].depends})

Truth(p) ==
    CASE p = "hold" -> Has(HoldLabel) <=> HoldSaid
      [] p = "lifecycle" -> AtMostOne(LifecycleLabels)
      [] p = "stage" -> AtMostOne(StageLabels)
      [] p = "help" -> Has(GoodFirst) => Has(HelpLabel)
      [] p = "wip" -> Has(WIPLabel) <=> IsWIP(gh.pr)
      [] p = "size" -> \A i \in 1..6 : Has(SizeLabels[i]) <=>
                           /\ i = 1 \/ LineCount(gh.pr.head) >= sizesOrDefault(cfg.sizes)[i-1]
                           /\ i = 6 \/ LineCount(gh.pr.head) < sizesOrDefault(cfg.sizes)[i]
      [] p = "docs-no-retest" -> Has(DocsLabel) <=> Here.files \subseteq cfg.docs
      [] p = "mergecommitblocker" -> Has(MergeCommits) <=> Here.merges
      [] p = "invalidcommitmsg" -> Has(InvalidMsg) <=> Here.badmsg
      [] p = "blockade" -> Has(BlockedPaths) <=> calculateBlocks(Here.files) # {}
      [] p = "needs-rebase" -> gh.pr.merged \/ (Has(RebaseLabel) <=> ~Here.mergeable)
      [] p = "cherrypickunapproved" -> gh.pr.base # "master" => (Has(CpUnapproved) <=> ~Has(CpApproved))
      [] p = "require-sig" -> Has(NeedsSig) <=> gh.pr.labels \cap cfg.sigLabels = {}
      [] p = "require-matching-label" ->
            \A r \in ToSet(cfg.required) : Has(r.missing) <=> gh.pr.labels \cap r.matching = {}
      [] p = "dco" -> LET good == Here.signed \/ checkTrustedUser(gh.pr.head)
                      IN  /\ Has(DcoYes) <=> good
                          /\ Has(DcoNo) <=> ~good
                          /\ StatusOf(gh, "dco", gh.pr.head) = IF good THEN "success" ELSE "failure"
      [] p = "cla" -> LET st == StatusOf(gh, ClaContext, gh.pr.head)
                      IN  (st = "success" => Has(ClaYes) /\ ~Has(ClaNo)) /\ (st = "failure" => Has(ClaNo) /\ ~Has(ClaYes))
      [] p = "release-note" -> /\ Cardinality(gh.pr.labels \cap ToSet(allRNLabels)) <= 1
                               /\ NotesLines # <<>> => Has(NotesLines[1].a)
      [] p = "owners-label" -> \A f \in Changed(gh.pr.head) :
                                   FindLabelsForFile(Owners, f) \cap cfg.repoLabels \subseteq gh.pr.labels
      [] p = "verify-owners" ->
            LET files == Here.owners.files \cap DOMAIN Here.contents
                bad == {f \in files : parseOwnersFile(Here.contents[f]).wrong}
                named == UNION {parseOwnersFile(Here.contents[f]).owners : f \in files \ bad}
            IN  files # {} => (Has(InvalidOwners) <=> bad # {} \/ \E u \in named \cap Here.owners.new : ~TrustedUser(u))
      [] p = "milestoneapplier" -> gh.pr.merged => gh.pr.milestone = cfg.branchMilestone[gh.pr.base]
      [] p = "branchcleaner" -> gh.pr.merged /\ ~cfg.fork => ~gh.branch
      [] p = "config-updater" ->
            gh.pr.merged => \A ch \in {x \in ToSet(Here.changes) : x.file \in DOMAIN cfg.mapOf} :
                                \A id \in cfg.mapOf[ch.file].ids \cap cfg.reachableMaps : MapTruth(id, ch)
      [] p = "golint" -> {n \in BotNotes : n[2] > 0} = UNION {LintPlaces(f) : f \in modifiedGoFiles(Here.files)}
      [] p = "bugzilla" -> gh.pr.merged \/ (/\ Has("bugzilla/valid-bug") <=> BugIsValid
                                            /\ Has("bugzilla/invalid-bug") <=> (BugOf(gh.pr.title) # 0 /\ ~BugIsValid))
      [] p = "cherrypicker" ->
            gh.pr.merged => \A r \in PickRequests(gh) : \/ r.to \in DOMAIN gh.picks
                                                        \/ r.to = gh.pr.base
                                                        \/ r.to \notin cfg.branches \ cfg.conflicts
      [] OTHER -> TRUE

\* With webhooks delivered in order and no failures, what the plugins keep on
\* a pull request describes its last head, title, base, comments and statuses,
\* whatever was pushed, said or merged while they worked.
LabelsTellTheTruth ==
    cfg.serial /\ cfg.mishaps = 0 /\ Quiet => \A p \in cfg.plugins : Truth(p)

(***************************************************************************)
(* Who may have what done.                                                 *)
(***************************************************************************)
Voices == {[by |-> c.by, at |-> c.at, cmds |-> c.cmds, state |-> ""] : c \in ToSet(gh.comments)}
          \cup {[by |-> r.by, at |-> r.at, cmds |-> r.cmds, state |-> r.state] : r \in ToSet(gh.reviews)}
          \cup {[by |-> gh.pr.author, at |-> 1, cmds |-> gh.pr.body, state |-> ""]}
Asked(v, c) == \E i \in DOMAIN v.cmds : v.cmds[i].c = c
BotAdded(l) == Has(l) /\ gh.adder[l] = Bot

MayReview(u, h) == IF cfg.skipCollaborators THEN u \in loadReviewers(h) ELSE u \in cfg.collaborators
SaysLgtm(v) == \/ \E i \in DOMAIN v.cmds : v.cmds[i] = [c |-> "lgtm", a |-> ""]
               \/ cfg.reviewActsAsLgtm /\ v.state = "APPROVED"

JobIsTrusted(j) ==
    \/ TrustedUser(gh.pr.author)
    \/ \E u \in j.for : TrustedUser(u) \/ authorizedUser(u)
    \/ \E v \in Voices : TrustedUser(v.by) /\ Asked(v, OkToTest)
    \/ LGTM \in DOMAIN gh.adder /\ \E v \in Voices : SaysLgtm(v) /\ v.by # gh.pr.author
    \/ \E l \in {LGTM, OkToTest} \cap DOMAIN gh.adder : gh.adder[l] # Bot
    \/ gh.pr.merged

\* However deliveries, handlers and failures interleave, hook puts on labels,
\* starts jobs, sets milestones and titles, opens cherry-picks and overrides
\* contexts only if someone who may have it done has asked for it.
OnlyByAuthority ==
    /\ BotAdded(LGTM) => \E v \in Voices : /\ SaysLgtm(v) /\ v.by # gh.pr.author
                                           /\ \E h \in 1..gh.pr.head : MayReview(v.by, h)
    /\ BotAdded(OkToTest) => \E v \in Voices : /\ Asked(v, OkToTest)
                                               /\ TrustedUser(v.by) \/ TrustedUser(gh.pr.author)
    /\ \A i \in DOMAIN gh.jobs : JobIsTrusted(gh.jobs[i])
    /\ "milestone" \in cfg.plugins /\ gh.pr.milestone # cfg.start.pr.milestone =>
           \E v \in Voices : v.by \in cfg.maintainers /\ Asked(v, "milestone")
    /\ \A l \in StatusLabels : BotAdded(l) => \E v \in Voices : v.by \in cfg.maintainers /\ Asked(v, "status")
    /\ "retitle" \in cfg.plugins /\ gh.pr.title # cfg.start.pr.title =>
           \E v \in Voices : TrustedUser(v.by) /\ Asked(v, "retitle")
    /\ \A b \in DOMAIN gh.picks : \/ \E v \in Voices : MayRequest(v.by) /\ [c |-> "cherrypick", a |-> b] \in ToSet(v.cmds)
                                  \/ MayRequest(gh.pr.author) /\ \E l \in gh.pr.labels \cap DOMAIN cfg.pickLabels :
                                                                     cfg.pickLabels[l] = b
    /\ "override" \in cfg.plugins =>
           \A st \in cfg.start.statuses : StatusOf(gh, st.ctx, st.sha) # st.state =>
               \E v \in Voices : /\ [c |-> "override", a |-> st.ctx] \in ToSet(v.cmds)
                                 /\ \/ authorizedUser(v.by) \/ authorizedGitHubTeamMember(v.by)
                                    \/ authorizedTopLevelOwner(v.by)
    /\ \A p \in DOMAIN gh.cards \ DOMAIN cfg.managed : "project" \in cfg.plugins /\ gh.cards[p] # cfg.start.cards[p] =>
           \E v \in Voices : v.by \in cfg.projectTeam /\ Asked(v, "project")

\* At rest, an lgtm label that hook gave was given to the tree that the pull
\* request has now, by someone who saw it (people wait for hook where the hash
\* of the tree is stored).
LgtmTracksTree ==
    /\ cfg.serial /\ cfg.mishaps = 0 /\ Quiet
    /\ cfg.storeTreeHash => cfg.patient
    /\ BotAdded(LGTM) /\ ~stickyLgtm(gh.pr.author)
    => \E v \in Voices : SaysLgtm(v) /\ cfg.commit[v.at].tree = Here.tree

\* "When the bot adds the label from an /ok-to-test command, we will trigger
\* tests based on the comment event and do not need to trigger them here from
\* the label, as well" (trigger/pull-request.go): for people who say no more
\* than that, no job is started twice for one head.
OkToTestStartsOnce ==
    \A i, j \in DOMAIN gh.jobs :
        gh.jobs[i].job = gh.jobs[j].job /\ gh.jobs[i].sha = gh.jobs[j].sha => i = j

(***************************************************************************)
(* Approval, declaratively: the last word of a person counts, and every    *)
(* changed file needs one of its approvers.                                *)
(***************************************************************************)
Word(m) == m.c = "approve" \/ (m.c = "lgtm" /\ cfg.lgtmActsAsApprove)
ApprovesNow(u) ==
    LET mine == SelectSeq(CommentsInOrder(gh), LAMBDA c : c.by = u)
        words(c) == SelectSeq(c.cmds, Word)
        yes(c) == IF words(c) # <<>> THEN Last(words(c)).a # "cancel" ELSE c.state = "APPROVED"
    IN  IF mine = <<>> THEN cfg.selfApproval /\ u = gh.pr.author ELSE yes(Last(mine))
Everyone == {v.by : v \in Voices} \ {Bot}
Covered(People) == \A f \in Changed(gh.pr.head) : Approvers(Owners, f) \cap People # {}
Line(c) == LET n == SelectSeq(gh.comments, LAMBDA x : x.by = Bot /\ x.tag = "approve")
           IN  {m.a : m \in {x \in ToSet(Last(n).cmds) : x.c = c}}
Coverable == \A f \in Changed(gh.pr.head) : Approvers(Owners, f) # {}

\* At rest the approved label is there exactly when a person has put it on or
\* every changed file is approved by one of its owners, and the people that the
\* notification names cover all the files.
ApprovedMeansCovered ==
    cfg.serial /\ cfg.mishaps = 0 /\ Quiet /\ "approve" \in cfg.plugins =>
        LET now == {u \in Everyone : ApprovesNow(u)}
            waives(u) == /\ \E v \in Voices : v.by = u /\ [c |-> "approve", a |-> "no-issue"] \in ToSet(v.cmds)
                         /\ \E f \in Changed(gh.pr.head) : u \in Approvers(Owners, f)
            issue == \/ ~cfg.issueRequired \/ findAssociatedIssue(gh.pr.body)
                     \/ \E u \in now : waives(u)
        IN  /\ Has(Approved) <=> (humanAddedApproved(gh) \/ (issue /\ Covered(now)))
            /\ Coverable => Covered(now \cup Line("suggested") \cup gh.pr.assignees)
=============================================================================
