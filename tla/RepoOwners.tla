---------------------------- MODULE RepoOwners ----------------------------
(***************************************************************************)
(* repoowners/repoowners.go: the OWNERS files of a branch, as the plugins  *)
(* look people and labels up in them.  A path is the sequence of its       *)
(* elements, the root of the repository is the empty sequence.             *)
(*                                                                         *)
(* A tree is a function from paths (of OWNERS files without their name, of *)
(* markdown files with it) to what was parsed there: noParent and a set of *)
(* filters.  A simple OWNERS file is one filter that takes everything      *)
(* (all = TRUE); re is the set of the relative paths a pattern matches.    *)
(***************************************************************************)
EXTENDS GitHub, FiniteSetsExt

Prefix(path, i) == SubSeq(path, 1, i)
Rel(d, path) == SubSeq(path, Len(d) + 1, Len(path))

\* ExpandAliases: an alias stands for its members, once.
ExpandAliases(aliases, logins) ==
    (logins \ DOMAIN aliases) \cup UNION {aliases[a] : a \in logins \cap DOMAIN aliases}

(***************************************************************************)
(* loadOwnersFrom and walkFunc, with configuration k: what cannot be       *)
(* parsed, and what lies below a blacklisted directory, is left out; a     *)
(* markdown file counts only when enabled (mdYAML).                        *)
(***************************************************************************)
Walked(k) ==
    {p \in DOMAIN k.tree : /\ k.tree[p].form = "ok"
                           /\ k.tree[p].md => k.mdYAML
                           /\ \A i \in 0..Len(p) : Prefix(p, i) \notin k.dirBlacklist}

\* applyConfigToPath, for one of the four maps; labels are not people.
Applied(k, field) ==
    LET Given(p) == {x \in k.tree[p].filters : x[field] # {}}
        Who(x) == IF field = "labels" THEN x.labels ELSE ExpandAliases(k.aliases, x[field])
    IN  [p \in {q \in Walked(k) : Given(q) # {}} |->
            {[all |-> x.all, re |-> x.re, who |-> Who(x)] : x \in Given(p)}]

loadOwnersFrom(k) ==
    [approvers |-> Applied(k, "approvers"),
     reviewers |-> Applied(k, "reviewers"),
     required  |-> Applied(k, "required"),
     labels    |-> Applied(k, "labels"),
     noParent  |-> {p \in Walked(k) : k.tree[p].noParent}]

\* filterCollaborators: approvers and reviewers, not the required reviewers.
filterCollaborators(k, o) ==
    LET Kept(m) == [p \in DOMAIN m |-> {[x EXCEPT !.who = @ \cap k.collaborators] : x \in m[p]}]
    IN  [o EXCEPT !.approvers = Kept(@), !.reviewers = Kept(@)]

\* What LoadRepoOwners returns for the base branch.
LoadRepoOwners(k) ==
    IF k.skipCollaborators THEN loadOwnersFrom(k) ELSE filterCollaborators(k, loadOwnersFrom(k))
Owners == cfg.owners

(***************************************************************************)
(* Lookups.  At: the people that directory d names for the path.           *)
(***************************************************************************)
At(people, d, path) ==
    IF d \notin DOMAIN people THEN {}
    ELSE UNION {x.who : x \in {y \in people[d] : y.all \/ Rel(d, path) \in y.re}}

\* entriesForFile walks up from the path itself until it has passed a
\* directory without parent owners or, for leafOnly, has found someone.
entriesForFile(o, path, people, leafOnly) ==
    LET Passed(j) == /\ Prefix(path, j) \notin o.noParent
                     /\ leafOnly => At(people, Prefix(path, j), path) = {}
        visited == {i \in 0..Len(path) : \A j \in (i+1)..Len(path) : Passed(j)}
    IN  UNION {At(people, Prefix(path, i), path) : i \in visited}

\* findOwnersForFile: the deepest directory that names someone, else the root.
findOwnersForFile(path, ownerMap) ==
    LET hits == {i \in 1..Len(path) : At(ownerMap, Prefix(path, i), path) # {}}
    IN  IF hits = {} THEN <<>> ELSE Prefix(path, Max(hits))

FindApproverOwnersForFile(o, path) == findOwnersForFile(path, o.approvers)
FindReviewersOwnersForFile(o, path) == findOwnersForFile(path, o.reviewers)
FindLabelsForFile(o, path) == entriesForFile(o, path, o.labels, FALSE)
LeafApprovers(o, path) == entriesForFile(o, path, o.approvers, TRUE)
Approvers(o, path) == entriesForFile(o, path, o.approvers, FALSE)
LeafReviewers(o, path) == entriesForFile(o, path, o.reviewers, TRUE)
Reviewers(o, path) == entriesForFile(o, path, o.reviewers, FALSE)
RequiredReviewers(o, path) == entriesForFile(o, path, o.required, FALSE)
TopLevelApprovers(o) == entriesForFile(o, <<>>, o.approvers, FALSE)

\* The paths a head of the pull request changes (GetPullRequestChanges).
Changed(head) == {cfg.path[f] : f \in cfg.commit[head].files}
=============================================================================
