--------------------------- MODULE ReviewPlugins ---------------------------
(***************************************************************************)
(* lgtm, which keeps the lgtm label, blunderbuss, which asks owners of the *)
(* changed files for a review, and approve, which keeps the approved label *)
(* with its notification.  Shape as LabelPlugins.                          *)
(***************************************************************************)
EXTENDS RepoOwners

LGTM == "lgtm"

\* stickyLgtm: the author is in the team whose pull requests keep the label.
stickyLgtm(author) == author \in cfg.stickyTeam

\* loadReviewers
loadReviewers(head) ==
    UNION {Approvers(Owners, p) \cup Reviewers(Owners, p) : p \in Changed(head)}

(***************************************************************************)
(* handle: author is who commented or reviewed.  A failed read of the      *)
(* labels is logged and counts as no label; the tree that is noted is the  *)
(* one the pull request has after the label was added (0: not read).       *)
(***************************************************************************)
LgtmHandle(c, e, s, author, wantLGTM) ==
    LET isAuthor == author = e.pr.author
        has == c.s = "labels" /\ LGTM \in GetIssueLabels(s)
        labels == OrElse(Then("labels"), "nolabels")
        Note(tree) == <<Logged(CommentN("lgtm/tree", tree))>>
    IN  CASE c.s = "start" ->
               IF isAuthor /\ wantLGTM THEN <<CreateComment("lgtm/own")>> ELSE <<Then("who")>>
          [] c.s = "who" /\ ~isAuthor /\ ~cfg.skipCollaborators ->
               IF ~IsCollaborator(author) THEN <<CreateComment("lgtm/collaborators")>>
               ELSE If(author \notin e.pr.assignees, <<Logged(AssignIssue({author}))>>) \o <<labels>>
          [] c.s = "who" /\ ~isAuthor /\ author \notin loadReviewers(s.pr.head) ->
               <<CreateComment("lgtm/owners")>>
          [] c.s = "who" -> <<labels>>
          [] c.s \in {"labels", "nolabels"} ->
               If(has /\ ~wantLGTM, <<RemoveLabel(LGTM)>> \o If(cfg.storeTreeHash, <<Prune("lgtm/tree")>>))
               \o If(~has /\ wantLGTM, <<AndThen(AddLabel(LGTM), "added")>>)
          [] c.s = "added" ->
               If(~stickyLgtm(e.pr.author),
                  If(cfg.storeTreeHash, <<Logged(OrElse(Then("tree"), "notree"))>>)
                  \o <<Prune("lgtm/removed")>>)
          [] c.s = "tree" -> Note(cfg.commit[s.pr.head].tree)
          [] c.s = "notree" -> Note(0)

\* handleGenericComment: /lgtm wins over /lgtm cancel.
LgtmComment(c, e, s) ==
    IF c.s = ""
    THEN If(e.pr.isPR /\ e.pr.open /\ Created(e) /\ Says(e, "lgtm"),
            LgtmHandle(Then("start"), e, s, User(e), SaysThat(e, "lgtm", "")))
    ELSE LgtmHandle(c, e, s, User(e), SaysThat(e, "lgtm", ""))

\* handlePullRequestReview: a review with a command is left to LgtmComment.
LgtmReview(c, e, s) ==
    IF c.s = ""
    THEN If(/\ cfg.reviewActsAsLgtm
            /\ e.action = "submitted"
            /\ ~Says(e, "lgtm")
            /\ e.label \in {"APPROVED", "CHANGES_REQUESTED"},
            LgtmHandle(Then("start"), e, s, e.by, e.label = "APPROVED"))
    ELSE LgtmHandle(c, e, s, e.by, e.label = "APPROVED")

\* (mutant) the labels are those of the event
LgtmPushOfEvent(c, e, s) ==
    IF c.s = "" THEN If(~e.pr.merged /\ e.action = "synchronize", <<Then("go")>>)
    ELSE If(~stickyLgtm(e.pr.author) /\ LGTM \in e.pr.labels,
            <<RemoveLabel(LGTM), CreateComment("lgtm/removed")>>)

\* handlePullRequest: a push takes the label away unless the tree is the noted
\* one.  Nothing is removed when the labels cannot be read.
LgtmPush(c, e, s) ==
    LET notes == SelectSeq(ListIssueComments(s), LAMBDA x : x.by = Bot /\ x.tag = "lgtm/tree")
        same == /\ cfg.storeTreeHash
                /\ notes # <<>>
                /\ Last(notes).n \in {cfg.commit[e.pr.head].tree} \ {0}
    IN  IF c.s = "" THEN If(~e.pr.merged /\ e.action = "synchronize", <<Then("go")>>)
        ELSE If(~stickyLgtm(e.pr.author) /\ LGTM \in GetIssueLabels(s) /\ ~same,
                <<RemoveLabel(LGTM), CreateComment("lgtm/removed")>>)

(***************************************************************************)
(* blunderbuss.  A random choice is a choice by cfg.luck, the order in     *)
(* which popRandom draws; who is busy is passed over.                      *)
(***************************************************************************)
FirstBy(rank, S, k) == {u \in S : Cardinality({v \in S : rank[v] < rank[u]}) < k}

\* findReviewer, popRandom, isUserBusy
findReviewer(targets, k) ==
    FirstBy(cfg.luck, IF cfg.useStatusAvailability THEN targets \ cfg.busy ELSE targets, k)

\* One reviewer of every OWNERS file, then leaf reviewers, then any reviewers,
\* until there are min; rc says where to look: in the reviewers or, for the
\* fallback, in the approvers.
getReviewers(o, author, files, min, rc) ==
    LET Take(acc, f, unused) ==
            [seen      |-> acc.seen \cup {rc.file[f]},
             required  |-> acc.required \cup RequiredReviewers(o, f),
             leafs     |-> acc.leafs \cup unused,
             reviewers |-> acc.reviewers \cup findReviewer(unused, 1)]
        One(acc, f) == IF rc.file[f] \in acc.seen THEN acc
                       ELSE Take(acc, f, rc.leaf[f] \ (acc.reviewers \cup {author}))
        Fill(reviewers, S) ==
            IF Cardinality(reviewers) >= min THEN reviewers
            ELSE reviewers \cup findReviewer(S \ reviewers, min - Cardinality(reviewers))
        FillAll(first) ==
            [reviewers |-> FoldLeft(LAMBDA r, f : Fill(r, rc.all[f] \ {author}),
                                    Fill(first.reviewers, first.leafs), files),
             required  |-> first.required]
    IN  FillAll(FoldLeft(One, [seen |-> {}, required |-> {}, leafs |-> {}, reviewers |-> {}], files))

\* getReviewersOld: leaf reviewers by weight, then reviewers of parents.
getReviewersOld(o, author, files, count) ==
    LET Potential(Of(_)) == UNION {Of(files[i]) : i \in DOMAIN files} \ {author}
        leafs == FirstBy(cfg.luck, Potential(LAMBDA f : LeafReviewers(o, f)), count)
    IN  leafs \cup FirstBy(cfg.luck, Potential(LAMBDA f : Reviewers(o, f)) \ leafs,
                           count - Cardinality(leafs))

Found(author, files) ==
    getReviewers(Owners, author, files, cfg.reviewerCount,
                 [file |-> [f \in ToSet(files) |-> FindReviewersOwnersForFile(Owners, f)],
                  leaf |-> [f \in ToSet(files) |-> LeafReviewers(Owners, f)],
                  all  |-> [f \in ToSet(files) |-> Reviewers(Owners, f)]])
Fallback(author, files) ==
    getReviewers(Owners, author, files, cfg.reviewerCount,
                 [file |-> [f \in ToSet(files) |-> FindApproverOwnersForFile(Owners, f)],
                  leaf |-> [f \in ToSet(files) |-> LeafApprovers(Owners, f)],
                  all  |-> [f \in ToSet(files) |-> Approvers(Owners, f)]]).reviewers

Capped(reviewers) ==
    IF cfg.maxReviewers = 0 THEN reviewers ELSE FirstBy(cfg.abc, reviewers, cfg.maxReviewers)
ReviewersFor(author, files, found) ==
    Capped(found.reviewers \cup (IF Cardinality(found.reviewers) < cfg.reviewerCount /\ ~cfg.excludeApprovers
                                 THEN Fallback(author, files) ELSE {}))
    \cup found.required

AskFor(people) == If(people # {}, <<RequestReview(people)>>)
AskOwners(author, files) ==
    AskFor(IF cfg.fileWeightCount > 0
           THEN Capped(getReviewersOld(Owners, author, files, cfg.fileWeightCount))
           ELSE ReviewersFor(author, files, Found(author, files)))
BlunderbussHandle(s, pr) == AskOwners(pr.author, ListOf(Changed(s.pr.head)))

Blunderbuss(c, e, s) ==
    IF c.s = "" THEN If(e.action = "opened" /\ ~\E i \in DOMAIN e.pr.body : e.pr.body[i].c = "cc",
                        <<Then("go")>>)
    ELSE BlunderbussHandle(s, e.pr)

BlunderbussComment(c, e, s) ==
    IF c.s = "" THEN If(Created(e) /\ e.pr.isPR /\ e.pr.open /\ Says(e, "auto-cc"), <<Then("go")>>)
    ELSE BlunderbussHandle(s, s.pr)

-----------------------------------------------------------------------------
(***************************************************************************)
(* plugins/approve: who has approved, whether that covers every changed    *)
(* file, whom to suggest, and the handlers that keep the label and the     *)
(* notification.  ap is the map of approvals: login -> "no-issue" given.   *)
(***************************************************************************)
Approved == "approved"

(***************************************************************************)
(* approvers/owners.go: the OWNERS files that must be covered.             *)
(***************************************************************************)
\* (mutant) no_parent_owners is overlooked
SubdirsAreCovered(o, dirs) ==
    {d \in dirs : ~\E i \in 0..(Len(d) - 1) : Prefix(d, i) \in dirs}

\* A directory goes when a directory above it is in the set, unless some
\* OWNERS file on the way up has no parent owners.
removeSubdirs(o, dirs) ==
    {d \in dirs : ~\E i \in 0..(Len(d) - 1) :
                      /\ Prefix(d, i) \in dirs
                      /\ \A j \in (i+1)..Len(d) : Prefix(d, j) \notin o.noParent}

GetOwnersSet(o, paths) == removeSubdirs(o, {FindApproverOwnersForFile(o, p) : p \in paths})

GetApprovers(o, paths) == [fn \in GetOwnersSet(o, paths) |-> Approvers(o, fn)]
GetLeafApprovers(o, paths) == [fn \in GetOwnersSet(o, paths) |-> LeafApprovers(o, fn)]

\* GetReverseMap: the OWNERS files a person can approve.
GetReverseMap(approvers, u) == {fn \in DOMAIN approvers : u \in approvers[fn]}

Uncovered(owners, current) == {fn \in DOMAIN owners : owners[fn] \cap current = {}}
UnapprovedFiles(o, paths, current) == Uncovered(GetApprovers(o, paths), current)

\* The first person who covers more than the best one before is owner of.
Better(best, u, files, unapproved) ==
    IF Cardinality(files \cap unapproved) > best.max THEN [max |-> Cardinality(files), who |-> u] ELSE best
findMostCoveringApprover(all, approvers, unapproved) ==
    FoldLeft(LAMBDA best, u : Better(best, u, GetReverseMap(approvers, u), unapproved),
             [max |-> 0, who |-> ""], all).who

\* GetSuggestedApprovers: adds the best person until everything is covered or
\* nobody covers any of the rest; that takes at most one turn per person.
GetSuggestedApprovers(o, paths, approvers, potential) ==
    FoldLeft(LAMBDA chosen, turn :
                 chosen \cup ({findMostCoveringApprover(potential, approvers, UnapprovedFiles(o, paths, chosen))} \ {""}),
             {}, potential)

KeepThose(suggested, approvers, unapproved) ==
    {u \in suggested : GetReverseMap(approvers, u) \cap unapproved # {}}
KeepCoveringApprovers(o, paths, approvers, known, potential) ==
    KeepThose(GetSuggestedApprovers(o, paths, approvers, potential), approvers, UnapprovedFiles(o, paths, known))

\* GetShuffledApprovers: the order is drawn from the number of the pull request.
Shuffled(people) == SortSeq(ListOf(people), LAMBDA u, v : cfg.luck[u] < cfg.luck[v])
Sorted(people) == SortSeq(ListOf(people), LAMBDA u, v : cfg.abc[u] < cfg.abc[v])

SuggestedLeafs(o, paths, leaf, known) ==
    KeepCoveringApprovers(o, paths, leaf, known, Shuffled(UNION {leaf[fn] : fn \in DOMAIN leaf}))
WithSuggested(o, paths, current, suggested, assignees) ==
    suggested \cup KeepCoveringApprovers(o, paths, GetApprovers(o, paths), current \cup suggested,
                                         Sorted(current \cup suggested \cup assignees))
GetCCs(o, paths, current, assignees) ==
    WithSuggested(o, paths, current,
                  SuggestedLeafs(o, paths, GetLeafApprovers(o, paths), current \cup assignees), assignees)

NoIssueApprovers(o, paths, ap) ==
    {u \in DOMAIN ap : ap[u] /\ GetReverseMap(GetApprovers(o, paths), u) # {}}

RequirementsMet(o, paths, ap, issue) ==
    /\ UnapprovedFiles(o, paths, DOMAIN ap) = {}
    /\ ~cfg.issueRequired \/ issue \/ NoIssueApprovers(o, paths, ap) # {}

(***************************************************************************)
(* approve.go: approvals in the order of the comments.                     *)
(***************************************************************************)
\* AddApprover, AddLGTMer, AddAuthorSelfApprover: the latest approval counts,
\* but a no-issue one is not replaced by one that is not.
AddApprover(ap, u, noIssue) ==
    [x \in DOMAIN ap \cup {u} |->
        IF x = u THEN noIssue \/ (u \in DOMAIN ap /\ ap[u]) ELSE ap[x]]
RemoveApprover(ap, u) == [x \in DOMAIN ap \ {u} |-> ap[x]]

isApprovalCommand(by, cmds) ==
    /\ by # Bot
    /\ \E i \in DOMAIN cmds : cmds[i].c = "approve" \/ (cmds[i].c = "lgtm" /\ cfg.lgtmActsAsApprove)
isApprovalState(by, state) ==
    by # Bot /\ cfg.reviewState /\ state \in {"APPROVED", "CHANGES_REQUESTED", "DISMISSED"}

\* Issue comments and reviews, oldest first (identifiers grow with time).
CommentsInOrder(s) ==
    LET Of(c, state) == [id |-> c.id, by |-> c.by, cmds |-> c.cmds, state |-> state]
        all == {Of(c, "") : c \in ToSet(ListIssueComments(s))} \cup {Of(r, r.state) : r \in ToSet(ListReviews(s))}
    IN  SortSeq(ListOf({c \in all : isApprovalCommand(c.by, c.cmds) \/ isApprovalState(c.by, c.state)}),
                     LAMBDA c, d : c.id < d.id)

\* Within a comment that is about approval, /lgtm adds the commenter too.
addApprovers(ap0, comments) ==
    LET Reviewed(ap, c) == CASE cfg.reviewState /\ c.state = "APPROVED" -> AddApprover(ap, c.by, FALSE)
                             [] cfg.reviewState /\ c.state = "CHANGES_REQUESTED" -> RemoveApprover(ap, c.by)
                             [] OTHER -> ap
        Said(ap, m, u) == CASE m.c \notin {"approve", "lgtm"} -> ap
                            [] m.a = "cancel" -> RemoveApprover(ap, u)
                            [] OTHER -> AddApprover(ap, u, m.a = "no-issue")
    IN  FoldLeft(LAMBDA ap, c : FoldLeft(LAMBDA ap2, m : Said(ap2, m, c.by), Reviewed(ap, c), c.cmds),
                 ap0, comments)

\* humanAddedApproved: whoever added the label last is not the bot.
humanAddedApproved(s) == Approved \in GetIssueLabels(s) /\ s.adder[Approved] # Bot

\* findAssociatedIssue
findAssociatedIssue(body) == \E i \in DOMAIN body : body[i].c = "fixes"

(***************************************************************************)
(* handle: files, labels, comments and reviews are read at once; body,     *)
(* author and assignees are the event's.  The message is replaced when it  *)
(* says something new.  All failures of writes are logged.                 *)
(***************************************************************************)
CurrentApprovers(s, author) ==
    addApprovers(IF cfg.selfApproval THEN [u \in {author} |-> FALSE] ELSE <<>>, CommentsInOrder(s))

IsApproved(s, pr, manually) ==
    \/ RequirementsMet(Owners, Changed(s.pr.head), CurrentApprovers(s, pr.author), findAssociatedIssue(pr.body))
    \/ manually

\* GetMessage: the text of the notification, as far as it varies.
Lines(c, S) == {[c |-> c, a |-> x] : x \in S}
Assignees(pr) == pr.assignees \cup (IF cfg.selfApproval THEN {} ELSE {pr.author})
Message(is, by, ccs, unapproved, manually) ==
    ListOf(Lines("title", {IF is THEN "APPROVED" ELSE "NOT APPROVED"})
             \cup Lines("by", by)
             \cup Lines("suggested", ccs)
             \cup Lines("needs", {f \in DOMAIN cfg.path : cfg.path[f] \in unapproved})
             \cup Lines("bypassed", IF manually THEN {"manually"} ELSE {}))
MessageOn(paths, by, is, pr, manually) ==
    Message(is, by, GetCCs(Owners, paths, by, Assignees(pr)), UnapprovedFiles(Owners, paths, by), manually)
GetMessage(s, pr, is, manually) ==
    MessageOn(Changed(s.pr.head), DOMAIN CurrentApprovers(s, pr.author), is, pr, manually)

\* updateNotification
updateNotification(notifications, message) ==
    If(notifications = <<>> \/ Last(notifications).cmds # message,
       EachOf(notifications, LAMBDA x : Logged(DeleteComments({x.id})))
       \o <<Logged([CreateComment("approve") EXCEPT !.body.cmds = message])>>)
Relabel(is, has) == If(~is /\ has, <<Logged(RemoveLabel(Approved))>>)
                    \o If(is /\ ~has, <<Logged(AddLabel(Approved))>>)

Decided(e, s, is, manually) ==
    updateNotification(SelectSeq(ListIssueComments(s), LAMBDA x : x.by = Bot /\ x.tag = "approve"),
                       GetMessage(s, e.pr, is, manually))
    \o Relabel(is, Approved \in GetIssueLabels(s))
Judged(e, s, manually) == Decided(e, s, IsApproved(s, e.pr, manually), manually)

ApproveHandle(c, e, s) ==
    IF c.s = "read" /\ Approved \in GetIssueLabels(s) THEN <<OrElse(Then("go"), "blind")>>
    ELSE Judged(e, s, c.s # "blind" /\ humanAddedApproved(s))

ApproveComment(c, e, s) ==
    IF c.s # "" THEN ApproveHandle(c, e, s)
    ELSE If(Created(e) /\ e.pr.isPR /\ e.pr.open /\ isApprovalCommand(User(e), e.cmds), <<Then("read")>>)

\* Reviews that hold a command are left to ApproveComment.
ApproveReview(c, e, s) ==
    IF c.s # "" THEN ApproveHandle(c, e, s)
    ELSE If(/\ e.action \in {"submitted", "dismissed"}
            /\ ~isApprovalCommand(e.by, e.cmds)
            /\ isApprovalState(e.by, e.label),
            <<Then("read")>>)

ApprovePR(c, e, s) ==
    IF c.s # "" THEN ApproveHandle(c, e, s)
    ELSE If(PushedOrOpened(e) \/ (e.action = "labeled" /\ e.label = Approved /\ e.by # Bot /\ e.pr.open),
            <<Then("read")>>)
=============================================================================
