---------------------------- MODULE RepoPlugins ----------------------------
(***************************************************************************)
(* The plugins that look into the files of a pull request or keep          *)
(* something outside of it up to date: verify-owners, golint, buildifier,  *)
(* config-updater, slackevents, project and project-manager.  Shape as     *)
(* LabelPlugins.                                                           *)
(***************************************************************************)
EXTENDS GitHub

(***************************************************************************)
(* verify-owners.  The list of changes is that of the moment, the contents *)
(* are those of the head that the handler knows.                           *)
(***************************************************************************)
InvalidOwners == "do-not-merge/invalid-owners-file"
MaxFlagged == 20

parseOwnersFile(o) ==
    [wrong |-> o.form # "skip" /\ \/ o.form = "broken"
                                  \/ o.labels \cap cfg.labelsBlackList # {}
                                  \/ o.root /\ o.approvers = {},
     owners |-> IF o.form = "skip" THEN {} ELSE o.reviewers \cup o.approvers]

checkIfTrustedUser(u, new, flagged) ==
    IF u \in new /\ ~TrustedUser(u) THEN flagged \cup {u} ELSE flagged

nonTrustedUsersInOwners(owners, new, flagged) ==
    FoldLeft(LAMBDA acc, u : IF Cardinality(acc) > MaxFlagged THEN acc
                             ELSE checkIfTrustedUser(u, new, acc),
             flagged, ListOf(owners \ DOMAIN cfg.aliases))

nonTrustedUsersInOwnersAliases(change) ==
    IF ~change.aliases \/ cfg.skipTrustedCheck THEN {}
    ELSE nonTrustedUsersInOwners(UNION {cfg.aliases[a] : a \in DOMAIN cfg.aliases}, change.new, {})

VerifyHandle(s, sha) ==
    LET change == cfg.commit[s.pr.head].owners
        Parsed(f) == parseOwnersFile(cfg.commit[sha].contents[f])
        modified == {f \in change.files : f \in DOMAIN cfg.commit[sha].contents}
        wrong == {f \in modified : Parsed(f).wrong}
        users == IF cfg.skipTrustedCheck THEN {}
                 ELSE nonTrustedUsersInOwners(UNION {Parsed(f).owners : f \in modified \ wrong}, change.new,
                                              nonTrustedUsersInOwnersAliases(change))
        label == If(InvalidOwners \notin GetIssueLabels(s), <<AddLabel(InvalidOwners)>>)
    IN  IF change.files = {} /\ ~change.aliases THEN <<>>
        ELSE If(wrong # {}, label \o <<CreateReview(wrong)>>)
             \o If(users # {}, label \o <<Prune("verify-owners"), Logged(CreateComment("verify-owners"))>>)
             \o If(wrong = {} /\ users = {}, <<RemoveLabel(InvalidOwners), Prune("verify-owners")>>)

VerifyOwners(c, e, s) ==
    IF c.s = "" THEN If(PushedOrOpened(e), <<Then("go")>>) ELSE VerifyHandle(s, e.pr.head)

VerifyOwnersComment(c, e, s) ==
    IF c.s = "" THEN If(e.pr.open /\ e.pr.isPR /\ Created(e) /\ Says(e, "verify-owners"), <<Then("go")>>)
    ELSE VerifyHandle(s, s.pr.head)

(***************************************************************************)
(* golint: the lines a patch adds, with their place in the patch; a hunk   *)
(* is a header that counts its old and new lines, and those lines.         *)
(***************************************************************************)
MaxComments == 20

\* AddedLines: i is the line of the patch, new the number of its next line in
\* the new file, and old and added the lines the hunk still has to have.
AddedFrom[patch \in Seq([k : {"@", "+", "-", " ", "\\"}, new : Nat, olds : Nat, news : Nat]),
          st \in [i : Nat, new : Nat, olds : Nat, news : Nat]] ==
    LET l == patch[st.i]
        Next(new, olds, news) ==
            AddedFrom[patch, [i |-> st.i + 1, new |-> new, olds |-> olds, news |-> news]]
        done == st.olds <= 0 /\ st.news <= 0
    IN  CASE st.i > Len(patch) -> [ok |-> done, lines |-> {}]
          [] done /\ l.k = "@" -> Next(l.new, l.olds, l.news)
          [] done /\ l.k = "\\" -> Next(st.new, st.olds, st.news)
          [] ~done /\ l.k = "+" ->
                LET r == Next(st.new + 1, st.olds, st.news - 1)
                IN  [r EXCEPT !.lines = @ \cup {<<st.new, st.i - 1>>}]
          [] ~done /\ l.k = "-" -> Next(st.new, st.olds - 1, st.news)
          [] ~done /\ l.k = " " -> Next(st.new + 1, st.olds - 1, st.news - 1)
          [] OTHER -> [ok |-> FALSE, lines |-> {}]

AddedLines(patch) ==
    LET r == AddedFrom[patch, [i |-> 1, new |-> 0, olds |-> 0, news |-> 0]]
    IN  IF r.ok THEN r ELSE [r EXCEPT !.lines = {}]

modifiedGoFiles(files) == {f \in files : f \in cfg.goFiles /\ f \notin cfg.generated}

\* problemsInFiles: what the linter says of added lines, by place in the patch.
problemsInFile(h, f) ==
    {<<f, l[2]>> : l \in {x \in AddedLines(cfg.commit[h].patch[f]).lines :
                              <<f, x[1]>> \in cfg.commit[h].lint}}

\* newProblems: those without a comment of the plugin at their place.
newProblems(notes, problems) == problems \ notes

\* The review: what could not be linted, then what is new, MaxComments in all
\* with what was said before.
Allowed(old) == IF old > MaxComments THEN 0 ELSE MaxComments - old
Shown(comments, allowed) ==
    CreateReview(ToSet(SubSeq(comments, 1, IF Len(comments) > allowed THEN allowed ELSE Len(comments))))
LintReview(errors, problems, new) ==
    Shown(ListOf(errors) \o ListOf(new), Allowed(Cardinality(problems) - Cardinality(new)))
LintFiles(s, files, problems) ==
    LintReview({<<f, 0>> : f \in {g \in files : ~AddedLines(cfg.commit[s.pr.head].patch[g]).ok}}, problems,
               newProblems(UNION {r.notes : r \in {x \in ToSet(ListReviews(s)) : x.by = Bot}}, problems))
LintChanges(s, files) ==
    If(files # {}, <<LintFiles(s, files, UNION {problemsInFile(s.pr.head, f) : f \in files})>>)

Golint(c, e, s) ==
    IF c.s = "" THEN If(e.pr.open /\ e.pr.isPR /\ Created(e) /\ Says(e, "lint"), <<Then("go")>>)
    ELSE LintChanges(s, modifiedGoFiles(GetPullRequestChanges(s)))

modifiedBazelFiles(files) == {f \in files : f \in cfg.bazelFiles /\ f \notin cfg.generated}

Buildifier(c, e, s) ==
    LET files == modifiedBazelFiles(GetPullRequestChanges(s))
    IN  IF c.s = "" THEN If(e.pr.open /\ e.pr.isPR /\ Created(e) /\ Says(e, "buildify"), <<Then("go")>>)
        ELSE If(files # {}, <<CreateReview({<<f, 0>> : f \in files \cap cfg.unformatted})>>)

(***************************************************************************)
(* config-updater: on a merge into the default branch the files of the     *)
(* change are copied into the config maps that are made from them.  A      *)
(* change is [file, key, old, kind]; key is the base name of the file.     *)
(***************************************************************************)
FilterChanges(changes, id) ==
    LET One(ch) ==
            LET m == cfg.mapOf[ch.file]
                key == IF m.key = "" THEN ch.key ELSE m.key
            IN  If(m.key = "" /\ ch.kind = "renamed", <<[c |-> ch.old, a |-> ""]>>)
                \o <<[c |-> key, a |-> IF ch.kind = "removed" THEN "" ELSE ch.file]>>
        here == SelectSeq(changes, LAMBDA ch : ch.file \in DOMAIN cfg.mapOf /\ id \in cfg.mapOf[ch.file].ids)
    IN  FlattenSeq(EachOf(here, One))

UpdateMap(id, ups, n) == [Call("UpdateMap", id) EXCEPT !.body = Body("", ups), !.sha = n]

UpdateConfig(c, e, s) ==
    LET changes == cfg.commit[s.pr.head].changes
        ids == {id \in DOMAIN s.maps : FilterChanges(changes, id) # <<>>} \cap cfg.reachableMaps
    IN  IF c.s = ""
        THEN If(e.action = "closed" /\ cfg.mapOf # <<>> /\ e.pr.merged /\ e.pr.base = cfg.defaultBranch,
                <<Then("go")>>)
        ELSE EachIn(ids, LAMBDA id : UpdateMap(id, FilterChanges(changes, id), e.pr.head))
             \o If(ids # {}, <<CreateComment("config-updated")>>)

(***************************************************************************)
(* slackevents.                                                            *)
(***************************************************************************)
echoToSlack(c, e, s) ==
    If(User(e) # Bot /\ Created(e),
       EachOf(SelectSeq(ArgsOf(e, {"@sig"}), LAMBDA a : a \in cfg.mentionChannels),
              LAMBDA a : Tell(a, "mention")))

getMergeWarning ==
    LET of(where) == SelectSeq(cfg.mergeWarnings, LAMBDA w : where \in w.repos)
    IN  IF of("org/repo") # <<>> THEN of("org/repo") ELSE of("org")

isWhiteListed(w, e) == e.by \in w.whitelist \cup w.branchWhitelist[e.pr.base]

notifyOnSlackIfManualMerge(c, e, s) ==
    LET w == getMergeWarning
    IN  If(w # <<>> /\ ~isWhiteListed(w[1], e), EachOf(w[1].channels, LAMBDA ch : Tell(ch, "merge")))

(***************************************************************************)
(* project: the card of the issue in a project.  The projects it has once  *)
(* seen stay known to the process (projectNameToIDMap, in s.known).        *)
(***************************************************************************)
processRegexMatches(a) ==
    LET m == cfg.projectArgs[a]
    IN  IF m[1] = "clear" THEN [project |-> m[2], column |-> "", clear |-> TRUE]
        ELSE [project |-> m[1], column |-> m[2], clear |-> FALSE]

\* The projects listed until the one wanted is known: this repository's, those
\* of all repositories, those of the org.
updateProjectNameToIDMap(p, known) ==
    LET k1 == known \cup cfg.repoProjects
        k2 == IF p \in k1 THEN k1 ELSE k1 \cup cfg.otherProjects
    IN  IF p \in k2 THEN k2 ELSE k2 \cup cfg.orgProjects

Card(op, p, col) == [Call(op, p) EXCEPT !.body = Body(col, <<>>)]

Project(c, e, s) ==
    LET want == processRegexMatches(ArgsOf(e, {"project"})[1])
        p == want.project
        columns == cfg.columns[p]
        default == cfg.defaultColumn[p]
        column == IF want.column = "" /\ default \in columns THEN default ELSE want.column
    IN  CASE c.s = "" -> If(Created(e) /\ User(e) # Bot /\ Says(e, "project"), <<Then("go")>>)
          [] c.s = "go" /\ p = "" -> <<CreateComment("project/args")>>
          [] c.s = "go" /\ User(e) \notin cfg.projectTeam -> <<CreateComment("project/team")>>
          [] c.s = "go" -> <<AndThen([Call("Learn", "") EXCEPT !.us = updateProjectNameToIDMap(p, s.known)], "find")>>
          [] p \notin s.known -> <<CreateComment("project/unknown")>>
          [] ~want.clear /\ column \notin columns -> <<CreateComment("project/column")>>
          [] s.cards[p] # "" /\ s.cards[p] = column -> <<>>
          [] want.clear /\ s.cards[p] # "" -> <<Card("DeleteCard", p, ""), CreateComment("project/cleared")>>
          [] want.clear -> <<CreateComment("project/nocard")>>
          [] s.cards[p] # "" -> <<Card("MoveCard", p, column), CreateComment("project/moved")>>
          [] OTHER -> <<Card("CreateCard", p, column), CreateComment("project/created")>>

(***************************************************************************)
(* project-manager: cards for issues whose labels match a column.          *)
(***************************************************************************)
MatchesColumn(m, e, has) ==
    /\ m.org = "org"
    /\ m.state = "" \/ (m.state = "open") = e.pr.open
    /\ m.labels \subseteq has

\* The first column of the project that matches; a column known only by its
\* name is used when the project exists and has no card of the issue yet.
getMatchingColumns(e, has, s) ==
    LET first(p) == SelectSeq(cfg.managed[p], LAMBDA m : MatchesColumn(m, e, has))
        takes(p) == /\ first(p) # <<>>
                    /\ \/ first(p)[1].byID
                       \/ s.cards[p] = "" /\ first(p)[1].column \in cfg.columns[p]
    IN  EachIn({p \in DOMAIN cfg.managed : takes(p)}, LAMBDA p : Card("CreateCard", p, first(p)[1].column))

ProjectManager(c, e, s) ==
    IF c.s = "" THEN If(e.action \in {"opened", "reopened", "labeled", "unlabeled"},
                        <<OrElse(Then("go"), "nolabels")>>)
    ELSE getMatchingColumns(e, IF c.s = "go" /\ e.pr.labels = {} THEN GetIssueLabels(s) ELSE e.pr.labels, s)
=============================================================================
