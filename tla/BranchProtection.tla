-------------------------- MODULE BranchProtection --------------------------
(***************************************************************************)
(* The branch protector (src/cmd/branchprotector/protect.go, request.go)   *)
(* and the policies it enforces (src/config/branch_protection.go): one     *)
(* goroutine walks the orgs, repos and branches and compares the           *)
(* protection of each branch with its policy, another makes the updates.   *)
(*                                                                         *)
(* A policy is [protect, checks, admins, restrictions, reviews, exclude]:  *)
(* protect and admins are "yes", "no" or "" (unset), checks, restrictions  *)
(* and reviews are sets of at most one element, exclude holds the branches *)
(* that its expressions match.  Approvals that are not set are -1.         *)
(***************************************************************************)
EXTENDS JobConfig, Integers, FiniteSetsExt

CONSTANTS
  BCases,    \* a sequence of [cfg, jobs, repos, prot, verify, writers]: the config, the presubmits of
             \* each repo, the repos of each org on GitHub, the protection of the branches at first,
             \* whether restrictions are verified, and who may write to the repos
  MaxBRuns,  \* bound on the runs
  MaxBFails, \* bound on the calls that fail
  MaxBHands  \* bound on the changes by hand

VARIABLES
  bcase,     \* the case of this behaviour
  bprot,     \* the protection of each branch <<org, repo, branch>>: at most one
  bhand,     \* the same without what the protector has done
  btodo,     \* what protect has still to visit
  bdone,     \* completedRepos
  bsend,     \* the update that protect waits to hand over
  bwork,     \* the update that configureBranches makes
  bupdates,  \* how many updates this run has asked for
  berrs,     \* an error has been recorded
  bruns,     \* the runs so far
  bsettled,  \* how many successful runs without interference came last
  bhands, bfails

branchVars == <<bcase, bprot, bhand, btodo, bdone, bsend, bwork, bupdates, berrs, bruns, bsettled, bhands, bfails>>

bcfg == bcase.cfg
The(S) == CHOOSE x \in S : TRUE
BOrders(S) == {s \in [1 .. Cardinality(S) -> S] : \A x \in S : \E i \in DOMAIN s : s[i] = x}

-----------------------------------------------------------------------------
(* Policies.                                                               *)

selectBool(parent, child) == IF child # "" THEN child ELSE parent
selectInt(parent, child) == IF child # -1 THEN child ELSE parent

\* One policy of two: both, when both are set.
Merge(parent, child, both) ==
  CASE child = {} -> parent
    [] parent = {} -> child
    [] OTHER -> {both}

\* As mergeContextPolicy, but the contexts of the child replace those of the parent.
ChildContexts(parent, child) ==
  LET p == The(parent)
      c == The(child)
  IN Merge(parent, child, [contexts |-> c.contexts, strict |-> selectBool(p.strict, c.strict)])

mergeContextPolicy(parent, child) ==
  LET p == The(parent)
      c == The(child)
  IN Merge(parent, child, [contexts |-> p.contexts \cup c.contexts, strict |-> selectBool(p.strict, c.strict)])

mergeRestrictions(parent, child) ==
  LET p == The(parent)
      c == The(child)
  IN Merge(parent, child, [users |-> p.users \cup c.users, teams |-> p.teams \cup c.teams])

mergeReviewPolicy(parent, child) ==
  LET p == The(parent)
      c == The(child)
  IN Merge(parent, child, [dismissal |-> mergeRestrictions(p.dismissal, c.dismissal),
                           stale |-> selectBool(p.stale, c.stale),
                           owners |-> selectBool(p.owners, c.owners),
                           approvals |-> selectInt(p.approvals, c.approvals)])

Apply(p, child) ==
  [protect |-> selectBool(p.protect, child.protect),
   checks |-> mergeContextPolicy(p.checks, child.checks),
   admins |-> selectBool(p.admins, child.admins),
   restrictions |-> mergeRestrictions(p.restrictions, child.restrictions),
   reviews |-> mergeReviewPolicy(p.reviews, child.reviews),
   exclude |-> p.exclude \cup child.exclude]

NoPolicy == [protect |-> "", checks |-> {}, admins |-> "", restrictions |-> {}, reviews |-> {}, exclude |-> {}]
defined(p) == p.protect # "" \/ p.checks # {} \/ p.admins # "" \/ p.restrictions # {} \/ p.reviews # {}

GetOrg(name) ==
  IF name \in DOMAIN bcfg.orgs
  THEN [bcfg.orgs[name] EXCEPT !.policy = Apply(bcfg.policy, @)]
  ELSE [policy |-> bcfg.policy, repos |-> <<>>]

GetRepo(o, name) ==
  IF name \in DOMAIN o.repos
  THEN [o.repos[name] EXCEPT !.policy = Apply(o.policy, @)]
  ELSE [policy |-> o.policy, branches |-> <<>>]

\* The policy of a branch; the code refuses one that is defined and does not set protect.
GetBranch(r, name) == IF name \in DOMAIN r.branches THEN Apply(r.policy, r.branches[name]) ELSE r.policy
BadBranch(r, name) == name \in DOMAIN r.branches /\ GetBranch(r, name).protect = ""

\* The contexts that BranchRequirements finds always required.
BranchRequirements(branch, jobs) ==
  {j.context : j \in {x \in ToSet(jobs) : BrancherShouldRun(x, branch) /\ ContextRequired(x) /\ ~TriggersConditionally(x)}}

JobsFor(k) == IF <<k[1], k[2]>> \in DOMAIN bcase.jobs THEN bcase.jobs[<<k[1], k[2]>>] ELSE <<>>

\* GetPolicy: an error, no policy, or the policy of a branch.
GetPolicy(k, b) ==
  LET contexts == BranchRequirements(k[3], JobsFor(k))
      prow == [NoPolicy EXCEPT !.checks = {[contexts |-> contexts, strict |-> ""]},
                               !.protect = IF bcfg.protectTested THEN "yes" ELSE ""]
      policy == IF contexts = {} THEN b ELSE Apply(b, prow)
  IN CASE contexts # {} /\ b.protect = "no" -> [err |-> ~bcfg.allowDisabledJobs, policy |-> NoPolicy]
       [] policy.protect = "no" /\ defined([policy EXCEPT !.protect = ""]) /\ ~bcfg.allowDisabled ->
            [err |-> TRUE, policy |-> NoPolicy]
       [] OTHER -> [err |-> FALSE, policy |-> policy]

-----------------------------------------------------------------------------
(* Requests, and what GitHub makes of them.                                *)

makeBool(v) == v = "yes"

makeReviews(rs) ==
  IF rs = {} \/ The(rs).approvals \in {-1, 0} THEN {}
  ELSE LET r == The(rs)
       IN {[stale |-> makeBool(r.stale), owners |-> makeBool(r.owners), approvals |-> r.approvals, dismissal |-> r.dismissal]}

makeRequest(p) ==
  [admins |-> makeBool(p.admins),
   checks |-> IF p.checks = {} THEN {} ELSE {[contexts |-> The(p.checks).contexts, strict |-> makeBool(The(p.checks).strict)]},
   reviews |-> makeReviews(p.reviews),
   restrictions |-> p.restrictions]

\* GitHub keeps no dismissal restrictions that name nobody.
Nobody == {[users |-> {}, teams |-> {}]}
Stored(req) ==
  [req EXCEPT !.reviews = {[r EXCEPT !.dismissal = IF @ = Nobody THEN {} ELSE @] : r \in @}]

\* Lists that are not sent equal restrictions that GitHub does not report.
equalRestrictions(state, req) == state = req

equalRequiredPullRequestReviews(state, req) ==
  CASE state = {} /\ req = {} -> TRUE
    [] state # {} /\ req # {} ->
         /\ \A f \in {"stale", "owners", "approvals"} : The(state)[f] = The(req)[f]
         /\ equalRestrictions(The(state).dismissal, The(req).dismissal)
    [] OTHER -> FALSE

equalBranchProtections(state, req) ==
  CASE state = {} /\ req = {} -> TRUE
    [] state # {} /\ req # {} ->
         /\ The(state).checks = The(req).checks
         /\ The(state).admins = The(req).admins
         /\ equalRequiredPullRequestReviews(The(state).reviews, The(req).reviews)
         /\ equalRestrictions(The(state).restrictions, The(req).restrictions)
    [] OTHER -> FALSE

validateRestrictions(req) ==
  req # {} /\ \E r \in The(req).restrictions :
    ~(r.users \subseteq bcase.writers.users) \/ ~(r.teams \subseteq bcase.writers.teams)

-----------------------------------------------------------------------------
(* A run.                                                                  *)

BInit ==
  /\ bcase \in ToSet(BCases)
  /\ bprot = bcase.prot /\ bhand = bprot
  /\ btodo = <<>> /\ bdone = {} /\ bsend = {} /\ bwork = {} /\ bupdates = 0
  /\ berrs = FALSE /\ bruns = 0 /\ bsettled = 0 /\ bhands = 0 /\ bfails = 0

BAt(op) == btodo # <<>> /\ Head(btodo).op = op /\ bsend = {}
BItem(op, k, protected) == [op |-> op, k |-> k, protected |-> protected]
BVisit(items) == btodo' = items \o Tail(btodo)
BFail == bfails < MaxBFails /\ bfails' = bfails + 1

brun == <<bcase, bhand, bruns, bsettled, bhands>>
bworker == <<bprot, bwork>>

\* protect, with the orgs of the config in any order.
protect ==
  /\ btodo = <<>> /\ bruns < MaxBRuns
  /\ bruns' = bruns + 1 /\ bdone' = {} /\ bupdates' = 0 /\ berrs' = FALSE
  /\ \E order \in BOrders(DOMAIN bcfg.orgs) :
       btodo' = [i \in DOMAIN order |-> BItem("org", <<order[i], "", "">>, FALSE)]
                \o <<BItem("tested", <<"", "", "">>, FALSE), BItem("close", <<"", "", "">>, FALSE)>>
  /\ UNCHANGED <<bcase, bprot, bhand, bsend, bwork, bsettled, bhands, bfails>>

Repos(org) == IF org \in DOMAIN bcase.repos THEN bcase.repos[org] ELSE <<>>
Skipped(repo) == repo.archived \/ repo.securityFork

\* UpdateOrg: all the repos of an org that says whether to protect, or those it lists.
UpdateOrg ==
  /\ BAt("org")
  /\ LET org == Head(btodo).k[1]
         repos == IF GetOrg(org).policy.protect # ""
                  THEN {r \in DOMAIN Repos(org) : ~Skipped(Repos(org)[r])}
                  ELSE DOMAIN GetOrg(org).repos
     IN \E order \in BOrders(repos) :
          BVisit([i \in DOMAIN order |-> BItem("repo", <<org, order[i], "">>, FALSE)])
  /\ UNCHANGED <<brun, bworker, bdone, bsend, bupdates, berrs, bfails>>

\* The repos with presubmits that have not been visited.
protectTested ==
  /\ BAt("tested")
  /\ LET repos == IF bcfg.protectTested THEN DOMAIN bcase.jobs \ bdone ELSE {}
     IN \E order \in BOrders(repos) :
          BVisit([i \in DOMAIN order |-> BItem("repo", <<order[i][1], order[i][2], "">>, FALSE)])
  /\ UNCHANGED <<brun, bworker, bdone, bsend, bupdates, berrs, bfails>>

\* UpdateRepo: the branches that are not excluded, or that the config names.
UpdateRepo ==
  /\ BAt("repo")
  /\ LET org == Head(btodo).k[1]
         name == Head(btodo).k[2]
         repo == GetRepo(GetOrg(org), name)
         branches == {b \in Repos(org)[name].branches : b \in DOMAIN repo.branches \/ b \notin repo.policy.exclude}
     IN /\ bdone' = bdone \cup {<<org, name>>}
        /\ IF name \notin DOMAIN Repos(org)
           THEN BVisit(<<>>) /\ berrs' = TRUE
           ELSE IF Skipped(Repos(org)[name])
           THEN BVisit(<<>>) /\ UNCHANGED berrs
           ELSE /\ \E order \in BOrders(branches) :
                     BVisit([i \in DOMAIN order |->
                               BItem("branch", <<org, name, order[i]>>, bprot[<<org, name, order[i]>>] # {})])
                /\ UNCHANGED berrs
  /\ UNCHANGED <<brun, bworker, bsend, bupdates, bfails>>

\* UpdateBranch: compares the branch with its policy and hands over an update when they differ.
UpdateBranch ==
  /\ BAt("branch")
  /\ LET k == Head(btodo).k
         repo == GetRepo(GetOrg(k[1]), k[2])
         answer == GetPolicy(k, GetBranch(repo, k[3]))
         policy == answer.policy
         req == IF policy.protect = "yes" THEN {makeRequest(policy)} ELSE {}
     IN CASE BadBranch(repo, k[3]) \/ answer.err -> berrs' = TRUE /\ UNCHANGED <<bsend, bupdates>>
          [] policy.protect = "" \/ (policy.protect = "no" /\ ~Head(btodo).protected) -> UNCHANGED <<berrs, bsend, bupdates>>
          [] bcase.verify /\ validateRestrictions(req) -> berrs' = TRUE /\ UNCHANGED <<bsend, bupdates>>
          [] equalBranchProtections(bprot[k], req) -> UNCHANGED <<berrs, bsend, bupdates>>
          [] OTHER -> bsend' = {[k |-> k, req |-> req]} /\ bupdates' = bupdates + 1 /\ UNCHANGED berrs
  /\ BVisit(<<>>)
  /\ UNCHANGED <<brun, bworker, bdone, bfails>>

\* A read fails: the org, the repo or the branch is left out.
BReadFails ==
  /\ \E op \in {"org", "repo", "branch"} : BAt(op)
  /\ BFail
  /\ bdone' = IF BAt("repo") THEN bdone \cup {<<Head(btodo).k[1], Head(btodo).k[2]>>} ELSE bdone
  /\ BVisit(<<>>) /\ berrs' = TRUE
  /\ UNCHANGED <<brun, bworker, bsend, bupdates>>

\* configureBranches takes the next update ...
BTake ==
  /\ bsend # {} /\ bwork = {}
  /\ bwork' = bsend /\ bsend' = {}
  /\ UNCHANGED <<brun, bprot, btodo, bdone, bupdates, berrs, bfails>>

\* ... and makes it.
configureBranches ==
  /\ bwork # {}
  /\ LET u == The(bwork)
         answered == /\ bprot' = [bprot EXCEPT ![u.k] = {Stored(r) : r \in u.req}]
                     /\ UNCHANGED <<berrs, bfails>>
         failed == BFail /\ berrs' = TRUE /\ UNCHANGED bprot
     IN answered \/ failed
  /\ bwork' = {}
  /\ UNCHANGED <<brun, btodo, bdone, bsend, bupdates>>

\* main waits for the updates that are under way.
BClose ==
  /\ BAt("close") /\ bwork = {}
  /\ btodo' = <<>>
  /\ bsettled' = IF berrs THEN 0 ELSE bsettled + 1
  /\ UNCHANGED <<bcase, bprot, bhand, bdone, bsend, bwork, bupdates, berrs, bruns, bhands, bfails>>

\* Somebody removes the protection of a branch by hand.
BByHand ==
  /\ bhands < MaxBHands /\ bhands' = bhands + 1
  /\ \E k \in DOMAIN bprot :
       /\ bprot[k] # {}
       /\ bprot' = [bprot EXCEPT ![k] = {}] /\ bhand' = [bhand EXCEPT ![k] = {}]
  /\ bsettled' = IF btodo = <<>> THEN 0 ELSE -1
  /\ UNCHANGED <<bcase, btodo, bdone, bsend, bwork, bupdates, berrs, bruns, bfails>>

BNext ==
  \/ protect
  \/ UpdateOrg
  \/ protectTested
  \/ UpdateRepo
  \/ UpdateBranch
  \/ BReadFails
  \/ BTake
  \/ configureBranches
  \/ BClose
  \/ BByHand

-----------------------------------------------------------------------------
(* What the config declares, stated without merging policies two by two:   *)
(* of the levels that apply to a branch the innermost that sets an option  *)
(* decides, and lists add up.                                              *)

OrgLevel(k) == IF k[1] \in DOMAIN bcfg.orgs THEN <<bcfg.orgs[k[1]]>> ELSE <<>>
RepoLevel(k, org) == IF org # <<>> /\ k[2] \in DOMAIN org[1].repos THEN <<org[1].repos[k[2]]>> ELSE <<>>
BranchLevel(k, repo) == IF repo # <<>> /\ k[3] \in DOMAIN repo[1].branches THEN <<repo[1].branches[k[3]]>> ELSE <<>>
LevelsOf(k, org, repo) ==
  [org |-> <<bcfg.policy>> \o [i \in DOMAIN org |-> org[i].policy],
   repo |-> [i \in DOMAIN repo |-> repo[i].policy],
   branch |-> BranchLevel(k, repo)]
Levels(k) == LevelsOf(k, OrgLevel(k), RepoLevel(k, OrgLevel(k)))
AllOf(l) == l.org \o l.repo \o l.branch

Innermost(levels, unset, F(_)) ==
  IF \A i \in DOMAIN levels : F(levels[i]) = unset THEN unset
  ELSE F(levels[Max({i \in DOMAIN levels : F(levels[i]) # unset})])

\* Whether a run looks at branch k, which has the levels l.
Visited(k, l) ==
  /\ ~Skipped(Repos(k[1])[k[2]])
  /\ \/ /\ k[1] \in DOMAIN bcfg.orgs
        /\ \/ Innermost(l.org, "", LAMBDA p : p.protect) # ""
           \/ l.repo # <<>>
     \/ bcfg.protectTested /\ <<k[1], k[2]>> \in DOMAIN bcase.jobs
  /\ \/ l.branch # <<>>
     \/ k[3] \notin UNION {p.exclude : p \in ToSet(l.org) \cup ToSet(l.repo)}

Contexts(k) == BranchRequirements(k[3], JobsFor(k))

\* Whether a branch is to be protected, given what its levels set.
DeclaredProtect(set, contexts) ==
  CASE set = "" /\ contexts # {} /\ bcfg.protectTested -> "yes"
    [] set = "no" /\ contexts # {} -> ""
    [] OTHER -> set

\* Of an option that is a set of at most one record, the records of the levels that have one.
Only(on, f) == [i \in DOMAIN on |-> The(on[i][f])]
Some(levels, f) == Only(SelectSeq(levels, LAMBDA p : p[f] # {}), f)

Restricted(rs) == IF rs = <<>> THEN {} ELSE {[users |-> UNION {rs[i].users : i \in DOMAIN rs},
                                              teams |-> UNION {rs[i].teams : i \in DOMAIN rs}]}

Dismissal(reviews) == Restricted(Some(reviews, "dismissal"))

ReviewsAsDeclared(reviews, approvals, dismissal) ==
  IF approvals \in {-1, 0} THEN {}
  ELSE {[stale |-> Innermost(reviews, "", LAMBDA r : r.stale) = "yes",
         owners |-> Innermost(reviews, "", LAMBDA r : r.owners) = "yes",
         approvals |-> approvals,
         dismissal |-> IF dismissal = Nobody THEN {} ELSE dismissal]}
ChecksAsDeclared(checks, contexts) ==
  IF checks = <<>> /\ contexts = {} THEN {}
  ELSE {[contexts |-> contexts \cup UNION {checks[i].contexts : i \in DOMAIN checks},
         strict |-> Innermost(checks, "", LAMBDA c : c.strict) = "yes"]}

ProtectedAsDeclared(levels, reviews, contexts, state) ==
  /\ state.admins = (Innermost(levels, "", LAMBDA p : p.admins) = "yes")
  /\ state.checks = ChecksAsDeclared(Some(levels, "checks"), contexts)
  /\ state.restrictions = Restricted(Some(levels, "restrictions"))
  /\ state.reviews = ReviewsAsDeclared(reviews, Innermost(reviews, -1, LAMBDA r : r.approvals), Dismissal(reviews))

BranchAsDeclared(k, levels, visited, declared, contexts) ==
  CASE ~visited \/ declared = "" -> bprot[k] = bhand[k]
    [] declared = "no" -> bprot[k] = {}
    [] OTHER -> bprot[k] # {} /\ ProtectedAsDeclared(levels, Some(levels, "reviews"), contexts, The(bprot[k]))
AsDeclared(k, l, levels, contexts) ==
  BranchAsDeclared(k, levels, Visited(k, l),
                   DeclaredProtect(Innermost(levels, "", LAMBDA p : p.protect), contexts), contexts)

\* A run of the branch protector that reports no error, while nobody else changes the branches,
\* leaves every branch of the orgs and repos it is responsible for as the config declares it (the
\* innermost level that sets an option decides, lists add up, and the contexts of the presubmits
\* that always run are required), leaves every other branch alone, and does nothing when it is
\* run again, unless dismissal restrictions are declared that name nobody: those it sends in
\* every run (src/cmd/branchprotector/protect.go, src/config/branch_protection.go).
BranchesAsDeclared ==
  btodo = <<>> /\ bsettled > 0 =>
    /\ \A k \in DOMAIN bprot : AsDeclared(k, Levels(k), AllOf(Levels(k)), Contexts(k))
    /\ bsettled > 1 /\ (\A k \in DOMAIN bprot : Dismissal(Some(AllOf(Levels(k)), "reviews")) # Nobody) => bupdates = 0

=============================================================================
