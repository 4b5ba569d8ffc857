------------------------------- MODULE GitHub -------------------------------
(***************************************************************************)
(* One issue or pull request as GitHub holds it, the methods of            *)
(* github/client.go through which the plugins of hook change it, and the   *)
(* webhook payloads that its changes produce.  The fields of gh.pr are     *)
(* those a payload carries: an event holds a copy of gh.pr of the moment   *)
(* it was made, so a handler that looks at its event sees the past.        *)
(*                                                                         *)
(* A handler is a plan: the sequence of client calls it still has to make. *)
(* "Then" stands for the reads between two writes: what the handler does   *)
(* next is decided on what GitHub holds at that moment.                    *)
(***************************************************************************)
EXTENDS Naturals, Sequences, SequencesExt, FiniteSets, FiniteSetsExt

CONSTANTS
    Scenarios,  \* a sequence of records: the repository, its configuration
                \* and what people do to the issue or pull request
    Bot         \* the login of the token that hook uses

VARIABLES
    cfg,        \* the scenario that is played
    gh          \* the issue or pull request on GitHub

Body(t, cs) == [tag |-> t, cmds |-> cs]
NoBody == Body("", <<>>)

(***************************************************************************)
(* A call of the client.  err says what the handler does with a failed     *)
(* call ("return" or "log"); yes and no are where it goes on, besides what *)
(* is left of its plan, after GitHub has accepted or refused the call.     *)
(***************************************************************************)
Call(op, s) == [op |-> op, s |-> s, us |-> {}, n |-> 0, sha |-> 0, body |-> NoBody,
                err |-> "return", yes |-> "", no |-> ""]
Logged(c) == [c EXCEPT !.err = "log"]
AndThen(c, k) == [c EXCEPT !.yes = k]
OrElse(c, k) == [c EXCEPT !.no = k]

AddLabel(l) == Call("AddLabel", l)
RemoveLabel(l) == Call("RemoveLabel", l)
CreateComment(t) == [Call("CreateComment", "") EXCEPT !.body = Body(t, <<>>)]
CommentN(t, n) == [CreateComment(t) EXCEPT !.n = n]
DeleteComments(ids) == [Call("DeleteComments", "") EXCEPT !.us = ids]
Prune(t) == Logged(Call("Prune", t))
Then(k) == Call("Then", k)
ThenN(k, n) == [Then(k) EXCEPT !.n = n]
ThenOn(k, t, us) == [Then(k) EXCEPT !.body = Body(t, <<>>), !.us = us]
AssignIssue(us) == [Call("AssignIssue", "") EXCEPT !.us = us]
UnassignIssue(us) == [Call("UnassignIssue", "") EXCEPT !.us = us]
RequestReview(us) == [Call("RequestReview", "") EXCEPT !.us = us]
UnrequestReview(us) == [Call("UnrequestReview", "") EXCEPT !.us = us]
SetMilestone(m) == Call("SetMilestone", m)
CloseIt == Call("Close", "")
ReopenIt == Call("Reopen", "")
\* EditPullRequest, EditIssue: title, body and state are written together.
Edit(t, pr) == [Call("Edit", t) EXCEPT !.n = IF pr.open THEN 1 ELSE 0, !.body = Body("", pr.body)]
CreateStatus(ctx, st, sha) == [Call("CreateStatus", ctx) EXCEPT !.body = Body(st, <<>>), !.sha = sha]
CreateJob(j, sha, id) == [Call("CreateJob", j) EXCEPT !.sha = sha, !.us = {id}]
CreateReview(notes) == [Call("Review", "COMMENTED") EXCEPT !.us = notes]
Tell(where, what) == [Call("Tell", where) EXCEPT !.body = Body(what, <<>>)]

(***************************************************************************)
(* What GitHub does with a call of user `by`: whether it is accepted and   *)
(* what it leaves behind.                                                  *)
(***************************************************************************)
Done(s) == [ok |-> TRUE, s |-> s]

\* AddLabel: GitHub records who put the label on (ListIssueEvents).
DoAddLabel(s, l, by) ==
    IF l \in s.pr.labels THEN Done(s)
    ELSE Done([s EXCEPT !.pr.labels = @ \cup {l},
                        !.adder = [x \in DOMAIN @ \cup {l} |->
                                       IF x = l THEN by ELSE @[x]]])

\* RemoveLabel: a label that is not there is no error.
DoRemoveLabel(s, l) == Done([s EXCEPT !.pr.labels = @ \ {l}])

DoCreateComment(s, body, n, by) ==
    Done([s EXCEPT !.comments = Append(@, [id |-> s.next, by |-> by, n |-> n, at |-> s.pr.head,
                                           tag |-> body.tag, cmds |-> body.cmds]),
                   !.next = @ + 1])

Without(s, ids) ==
    [s EXCEPT !.comments = SelectSeq(@, LAMBDA c : c.id \notin ids)]

\* commentpruner.go: the bot's own comments that match are deleted.
DoPrune(s, t) == Done(Without(s, {c.id : c \in {x \in ToSet(s.comments) : x.by = Bot /\ x.tag = t}}))

\* AssignIssue: the users that cannot be assigned are reported as missing,
\* the others are assigned.
DoAssign(s, us) ==
    [ok |-> us \subseteq cfg.assignable,
     s |-> [s EXCEPT !.pr.assignees = @ \cup (us \cap cfg.assignable)]]
DoUnassign(s, us) == Done([s EXCEPT !.pr.assignees = @ \ us])

\* RequestReview: all at once, and one by one after a 422.
DoRequestReview(s, us) ==
    LET fine == {u \in us : u \in cfg.assignable /\ u # s.pr.author}
    IN  [ok |-> us \subseteq fine, s |-> [s EXCEPT !.requested = @ \cup fine]]
DoUnrequestReview(s, us) == Done([s EXCEPT !.requested = @ \ us])

\* ReopenPR, ReopenIssue: GitHub refuses what is merged or has lost its branch.
DoReopen(s) ==
    IF s.pr.merged \/ ~s.branch THEN [ok |-> FALSE, s |-> s]
    ELSE Done([s EXCEPT !.pr.open = TRUE])

DoEdit(s, c) ==
    IF c.n = 1 /\ ~s.pr.open /\ ~DoReopen(s).ok THEN [ok |-> FALSE, s |-> s]
    ELSE Done([s EXCEPT !.pr.title = c.s, !.pr.body = c.body.cmds, !.pr.open = (c.n = 1)])

DoCreateStatus(s, ctx, st, sha) ==
    Done([s EXCEPT !.statuses = {x \in @ : ~(x.ctx = ctx /\ x.sha = sha)}
                                  \cup {[ctx |-> ctx, state |-> st, sha |-> sha]}])

\* The card of the issue in a project; GitHub refuses a second one.
DoCreateCard(s, p, col) ==
    IF s.cards[p] # "" THEN [ok |-> FALSE, s |-> s] ELSE Done([s EXCEPT !.cards[p] = col])

\* A config map: the keys of ups are set or, without a file, deleted.
DoUpdateMap(s, id, ups, n) ==
    LET One(m, u) == IF u.a = "" THEN [k \in DOMAIN m \ {u.c} |-> m[k]]
                     ELSE [k \in DOMAIN m \cup {u.c} |-> IF k = u.c THEN <<u.a, n>> ELSE m[k]]
    IN  Done([s EXCEPT !.maps[id] = FoldLeft(One, @, ups)])

\* A branch of the fork is pushed without force; GitHub refuses a second
\* open pull request of the same branch.
DoPushPick(s, b) ==
    IF b \in s.pushedPicks THEN [ok |-> FALSE, s |-> s]
    ELSE Done([s EXCEPT !.pushedPicks = @ \cup {b}])
DoCreatePick(s, b) ==
    IF b \in DOMAIN s.picks THEN [ok |-> FALSE, s |-> s]
    ELSE Done([s EXCEPT !.picks = [x \in DOMAIN @ \cup {b} |-> IF x = b THEN {} ELSE @[x]]])

Do(s, c, by) ==
    CASE c.op = "AddLabel"        -> DoAddLabel(s, c.s, by)
      [] c.op = "RemoveLabel"     -> DoRemoveLabel(s, c.s)
      [] c.op = "CreateComment"   -> DoCreateComment(s, c.body, c.n, by)
      [] c.op = "DeleteComments"  -> Done(Without(s, c.us))
      [] c.op = "Prune"           -> DoPrune(s, c.s)
      [] c.op = "AssignIssue"     -> DoAssign(s, c.us)
      [] c.op = "UnassignIssue"   -> DoUnassign(s, c.us)
      [] c.op = "RequestReview"   -> DoRequestReview(s, c.us)
      [] c.op = "UnrequestReview" -> DoUnrequestReview(s, c.us)
      [] c.op = "SetMilestone"    -> Done([s EXCEPT !.pr.milestone = c.s])
      [] c.op = "Close"           -> Done([s EXCEPT !.pr.open = FALSE])
      [] c.op = "Reopen"          -> DoReopen(s)
      [] c.op = "Edit"            -> DoEdit(s, c)
      [] c.op = "CreateStatus"    -> DoCreateStatus(s, c.s, c.body.tag, c.sha)
      [] c.op = "DeleteBranch"    -> Done([s EXCEPT !.branch = FALSE])
      [] c.op = "CreateJob"       ->
            Done([s EXCEPT !.jobs = Append(@, [job |-> c.s, sha |-> c.sha, for |-> c.us])])
      [] c.op = "CreateCard"      -> DoCreateCard(s, c.s, c.body.tag)
      [] c.op = "MoveCard"        -> Done([s EXCEPT !.cards[c.s] = c.body.tag])
      [] c.op = "DeleteCard"      -> Done([s EXCEPT !.cards[c.s] = ""])
      [] c.op = "Learn"           -> Done([s EXCEPT !.known = @ \cup c.us])
      [] c.op = "UpdateMap"       -> DoUpdateMap(s, c.s, c.body.cmds, c.sha)
      [] c.op = "Tell"            ->
            Done([s EXCEPT !.told = @ \cup {[where |-> c.s, what |-> c.body.tag]}])
      \* the bot's fork and the cherry-picks pushed to it
      [] c.op = "CreateFork"      -> Done([s EXCEPT !.forked = TRUE])
      [] c.op = "PushPick"        -> DoPushPick(s, c.s)
      [] c.op = "CreatePick"      -> DoCreatePick(s, c.s)
      [] c.op = "AssignPick"      -> Done([s EXCEPT !.picks[c.s] = c.us])
      \* Bugzilla
      [] c.op = "UpdateBug"       -> Done([s EXCEPT !.bugs[c.n].state = c.s])
      [] c.op = "LinkBug"         -> Done([s EXCEPT !.bugs[c.n].links = @ \cup {"this"}])
      \* what only people, or a timer, do
      [] c.op = "Tick"            -> Done([s EXCEPT !.ticks = @ + 1])
      [] c.op = "Open"            -> Done([s EXCEPT !.pr.open = TRUE, !.opened = TRUE])
      [] c.op = "Push"            -> Done([s EXCEPT !.pr.head = @ + 1])
      [] c.op = "Merge"           ->
            Done([s EXCEPT !.pr.open = FALSE, !.pr.merged = TRUE, !.pushes = @ + 1])
      [] c.op = "SetTitle"        -> Done([s EXCEPT !.pr.title = c.s])
      [] c.op = "SetBase"         -> Done([s EXCEPT !.pr.base = c.s])
      [] c.op = "Ready"           -> Done([s EXCEPT !.pr.draft = FALSE])
      [] c.op = "Review"          ->
            Done([s EXCEPT !.reviews = Append(@, [id |-> s.next, by |-> by, at |-> s.pr.head,
                                                  state |-> c.s, cmds |-> c.body.cmds,
                                                  notes |-> c.us]),
                           !.next = @ + 1])

(***************************************************************************)
(* The webhook payloads GitHub sends for the step from s to s2 made by     *)
(* `by`; pr is the copy of the issue or pull request the payload carries.  *)
(***************************************************************************)
Event(t, a, by, label, cmds, id, pr) ==
    [type |-> t, action |-> a, by |-> by, label |-> label, cmds |-> cmds,
     id |-> id, pr |-> pr, was |-> "", again |-> FALSE]

Events(s, s2, by) ==
    LET t == IF s2.pr.isPR THEN "pull_request" ELSE "issues"
        Ev(a, l) == Event(t, a, by, l, s2.pr.body, 0, s2.pr)
        On(b, E) == IF b THEN E ELSE {}
    IN  {Ev("labeled", l) : l \in s2.pr.labels \ s.pr.labels}
     \cup {Ev("unlabeled", l) : l \in s.pr.labels \ s2.pr.labels}
     \cup On(s.pr.open /\ ~s2.pr.open, {Ev("closed", "")})
     \cup On(~s.pr.open /\ s2.pr.open,
             {Ev(IF s.opened THEN "reopened" ELSE "opened", "")})
     \cup On(s.pr.head # s2.pr.head, {Ev("synchronize", "")})
     \cup On(s.pr.title # s2.pr.title, {[Ev("edited", "title") EXCEPT !.was = s.pr.title]})
     \cup On(s.pr.base # s2.pr.base, {Ev("edited", "base")})
     \cup On(s.pr.draft /\ ~s2.pr.draft, {Ev("ready_for_review", "")})
     \cup {Event("issue_comment", "created", by, "", c.cmds, c.id, s2.pr) :
               c \in {x \in ToSet(s2.comments) : x.id >= s.next}}
     \cup {Event("pull_request_review", "submitted", by, c.state, c.cmds, c.id, s2.pr) :
               c \in {x \in ToSet(s2.reviews) : x.id >= s.next}}
     \cup On(s2.pushes # s.pushes, {Event("push", "", by, "", <<>>, s2.pushes, s2.pr)})
     \cup {Event("status", c.state, by, c.ctx, <<>>, c.sha, s2.pr) :
               c \in s2.statuses \ s.statuses}
     \cup On(s2.ticks # s.ticks, {Event("tick", "", by, "", <<>>, s2.ticks, s2.pr)})

(***************************************************************************)
(* What handlers read, at the moment they read it.                         *)
(***************************************************************************)
GetIssueLabels(s) == s.pr.labels
GetRepoLabels == cfg.repoLabels
ListIssueComments(s) == s.comments
ListReviews(s) == s.reviews
ListMilestones == cfg.milestones
GetPullRequestChanges(s) == cfg.commit[s.pr.head].files
IsMergeable(s) == cfg.commit[s.pr.head].mergeable
IsCollaborator(u) == u \in cfg.collaborators
IsMember(u) == u \in cfg.members
\* GetCombinedStatus: the newest state of a context of a commit.
StatusOf(s, ctx, sha) ==
    LET is == {x \in s.statuses : x.ctx = ctx /\ x.sha = sha}
    IN  IF is = {} THEN "" ELSE (CHOOSE x \in is : TRUE).state

(***************************************************************************)
(* What handlers ask of an event.  A body is the sequence of its command   *)
(* lines, c the command and a its argument (for a command that names a     *)
(* label, the label it stands for).                                        *)
(***************************************************************************)
\* genericCommentAction
genericCommentAction(a) ==
    CASE a \in {"created", "opened", "submitted"} -> "created"
      [] a = "edited" -> "edited"
      [] a \in {"deleted", "dismissed"} -> "deleted"
      [] OTHER -> ""
Created(e) == genericCommentAction(e.action) = "created"
\* GenericCommentEvent.User: of a comment its author, of a pull request or an
\* issue whoever opened it.
User(e) == IF e.type \in {"pull_request", "issues"} THEN e.pr.author ELSE e.by

Matches(e, C) == SelectSeq(e.cmds, LAMBDA x : x.c \in C)
Says(e, c) == Matches(e, {c}) # <<>>
SaysThat(e, c, a) == \E i \in DOMAIN e.cmds : e.cmds[i] = [c |-> c, a |-> a]
ArgsOf(e, C) == [i \in DOMAIN Matches(e, C) |-> Matches(e, C)[i].a]

If(b, q) == IF b THEN q ELSE <<>>
\* The elements of a set in some fixed order.
ListOf(S) == FoldSet(LAMBDA x, q : Append(q, x), <<>>, S)
EachOf(q, F(_)) == [i \in DOMAIN q |-> F(q[i])]
EachIn(S, F(_)) == EachOf(ListOf(S), F)

PushedOrOpened(e) == e.action \in {"opened", "reopened", "synchronize"}

\* trigger.TrustedUser: collaborators unless only members count, members of
\* the org, members of the trusted org.
IsTrusted(u, onlyOrgMembers, trustedOrg) ==
    \/ ~onlyOrgMembers /\ IsCollaborator(u)
    \/ IsMember(u)
    \/ u \in trustedOrg
TrustedUser(u) == IsTrusted(u, cfg.onlyOrgMembers, cfg.trustedOrg)
=============================================================================
