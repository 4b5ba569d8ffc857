----------------------------- MODULE MCServices -----------------------------
(***************************************************************************)
(* The services that run beside plank, crier, tide and hook, on small      *)
(* instances.  They share no state, so one run checks them all: the        *)
(* variable part says which one this behaviour is about, and the others    *)
(* stay as they are.                                                       *)
(***************************************************************************)
EXTENDS JenkinsOperator, Pipeline, Intake, PodUtils, StatusReconciler, Runtime,
        OrgAdmin, BranchProtection, ProwConfig, TideStatus, TLC

VARIABLE part

-----------------------------------------------------------------------------
(* Instances.                                                              *)

\* Jenkins: a superseded pull request, a limit of one build, a limit of one build per job
MCJConfigs ==
  {[cancel |-> TRUE, max |-> 0, jobMax |-> 0, start |-> <<1, 2>>, key |-> <<"a", "a">>],
   [cancel |-> FALSE, max |-> 1, jobMax |-> 0, start |-> <<2, 1>>, key |-> <<"a", "a">>],
   [cancel |-> TRUE, max |-> 0, jobMax |-> 1, start |-> <<1, 1>>, key |-> <<"a", "b">>]}

\* Pipeline: a good job, a job for a cluster that is not configured, a job of another agent, and
\* one whose spec is refused; a run of the same name may be there already.
PJob(a, c, s, e, u, f, n) ==
  [agent |-> a, cluster |-> c, spec |-> s, extra |-> e, uses |-> u, refs |-> TRUE, foreign |-> f, fails |-> n]
MCPConfigs ==
  {PJob("tekton", "build", TRUE, 1, {"extra0"}, {}, 1), PJob("tekton", "other", FALSE, 0, {}, {"default"}, 0),
   PJob("kubernetes", "build", FALSE, 0, {}, {"build"}, 1), PJob("tekton", "default", TRUE, 1, {"extra1"}, {"build"}, 0)}

MCSSub == <<"a", "b">>
MCSModes == [push : BOOLEAN, kind : {"periodic", "x"}, known : BOOLEAN]

\* Pods: refs to clone, whether cloning is skipped, the containers and how they follow each other
Pod(r, s, t, n, c, z, w) ==
  [refs |-> r, skip |-> s, type |-> t, entries |-> n, chain |-> c, alwaysZero |-> z, workers |-> w]
MCUConfigs ==
  {Pod(2, FALSE, "presubmit", 1, FALSE, FALSE, 1), Pod(0, FALSE, "periodic", 2, TRUE, TRUE, 0),
   Pod(1, TRUE, "batch", 2, FALSE, FALSE, 0), Pod(2, FALSE, "batch", 1, FALSE, FALSE, 0)}

\* Histories of the config: a job is removed and another added, a context renamed and a report
\* switched on, the files of a job changed and the job made optional
RJob(n, c, opt, skip, files, br) ==
  [name |-> n, context |-> c, optional |-> opt, skipReport |-> skip, alwaysRun |-> files = {}, conditional |-> files # {},
   changed |-> files, trigger |-> n, branches |-> {[text |-> b, of |-> {b}] : b \in br}, skipBranches |-> {}]
Version(ok, js) == [valid |-> ok, jobs |-> [r \in {"r"} |-> js]]
JobA(context) == RJob("a", context, FALSE, FALSE, {}, {})
JobB == RJob("b", "y", FALSE, FALSE, {}, {"master"})
MCRHistories ==
  <<<<Version(TRUE, <<JobA("x")>>), Version(FALSE, <<>>), Version(TRUE, <<JobB>>)>>,
    <<Version(TRUE, <<JobA("x"), [JobB EXCEPT !.skipReport = TRUE]>>), Version(TRUE, <<JobA("z"), JobB>>)>>,
    <<Version(TRUE, <<RJob("a", "x", FALSE, FALSE, {"g"}, {})>>),
      [valid |-> TRUE, jobs |-> [r \in {"r", "s"} |-> IF r = "r" THEN <<RJob("a", "x", FALSE, FALSE, {"f"}, {})>> ELSE <<JobB>>]],
      Version(TRUE, <<RJob("a", "x", TRUE, FALSE, {"f"}, {})>>)>>>>
MCRPulls ==
  <<[repo |-> "r", base |-> "master", files |-> {"f"}, trusted |-> TRUE, mergeable |-> TRUE],
    [repo |-> "r", base |-> "release", files |-> {"g"}, trusted |-> TRUE, mergeable |-> TRUE]>>
MCROptions == {[continueOnError |-> c, blacklist |-> {}, elide |-> c] : c \in BOOLEAN}

MCIKinds == {{"run", "tick", "hook", "server"}, {"context", "hook", "server"}}
MCTModes == {[burst |-> 1, kind |-> <<g, "v3">>] : g \in {"v3", "graph"}}

MCCovers == [q \in Query |-> IF q = "q1" THEN PRs ELSE {1}]

\* Orgs: much to change at once, an admin who is only a member, a team renamed and one unused, a user who does not exist
OrgOptions(ig, arch, d) == [fixOrg |-> TRUE, fixOrgMembers |-> TRUE, fixRepos |-> TRUE, fixTeams |-> TRUE, fixTeamMembers |-> TRUE,
   fixTeamRepos |-> TRUE, delta |-> d, minAdmins |-> 1, requiredAdmins |-> {"ann"}, requireSelf |-> TRUE, self |-> "ann",
   ignoreSecret |-> ig, allowArchive |-> arch, allowPublish |-> FALSE]
Team(par, prev, priv, ma, me, re) == [parent |-> par, previously |-> prev, privacy |-> priv, maint |-> ma, members |-> me, repos |-> re]
GTeam(n, priv, par, ma, me, re) == [name |-> n, privacy |-> priv, parent |-> par, maint |-> ma, members |-> me, invited |-> {}, repos |-> re]
WantRepo(prev, priv, arch) == [previously |-> prev, private |-> priv, archived |-> arch]
HasRepo(p, a) == [private |-> p, archived |-> a]
MCOCases == <<
 [opt |-> OrgOptions(FALSE, TRUE, 50),
  cfg |-> [email |-> "new", perm |-> "", admins |-> {"ann"}, members |-> {"bob", "cy"},
           repos |-> ("r" :> WantRepo({"old"}, "no", "yes")) @@ ("s" :> WantRepo({}, "yes", "")),
           teams |-> ("top" :> Team("", <<>>, "closed", {"ann"}, {}, "r" :> "write")) @@
                     ("sub" :> Team("top", <<"was">>, "closed", {}, {"bob", "cy"}, <<>>))],
  org |-> [email |-> "old", perm |-> "read", admins |-> {"ann", "dee"}, members |-> {"bob"}, invited |-> {},
           repos |-> "old" :> HasRepo(FALSE, FALSE),
           teams |-> 1 :> GTeam("was", "closed", 2, {"bob"}, {"dee"}, "old" :> "admin") @@ 2 :> GTeam("top", "closed", 0, {}, {}, <<>>) @@ 3 :> GTeam("x", "secret", 0, {}, {}, <<>>)]],
 [opt |-> OrgOptions(TRUE, FALSE, 100),
  cfg |-> [email |-> "new", perm |-> "read", admins |-> {"ann"}, members |-> {},
           repos |-> ("r" :> WantRepo({}, "", "yes")) @@ ("s" :> WantRepo({}, "no", "")),
           teams |-> "top" :> Team("", <<>>, "closed", {}, {"ann"}, <<>>)],
  org |-> [email |-> "old", perm |-> "write", admins |-> {}, members |-> {"ann"}, invited |-> {},
           repos |-> "r" :> HasRepo(FALSE, FALSE) @@ "s" :> HasRepo(TRUE, FALSE), teams |-> 1 :> GTeam("x", "secret", 0, {}, {}, <<>>)]],
 [opt |-> [OrgOptions(TRUE, FALSE, 100) EXCEPT !.fixRepos = FALSE],
  cfg |-> [email |-> "new", perm |-> "read", admins |-> {"ann"}, members |-> {},
           repos |-> <<>>,
           teams |-> "top" :> Team("", <<"x">>, "closed", {}, {"ann"}, <<>>) @@ "fresh" :> Team("", <<>>, "", {}, {}, <<>>)],
  org |-> [email |-> "old", perm |-> "write", admins |-> {}, members |-> {"ann"}, invited |-> {"eve"},
           repos |-> <<>>, teams |-> 1 :> GTeam("x", "closed", 0, {}, {}, <<>>) @@ 2 :> GTeam("y", "closed", 0, {}, {}, <<>>)]],
 [opt |-> OrgOptions(FALSE, TRUE, 100),
  cfg |-> [email |-> "", perm |-> "", admins |-> {"ann"}, members |-> {"typo"},
           repos |-> <<>>,
           teams |-> <<>>],
  org |-> [email |-> "old", perm |-> "write", admins |-> {"ann"}, members |-> {}, invited |-> {},
           repos |-> <<>>, teams |-> <<>>]]
>>

\* Branches: protection by org and by tested jobs, by branch, and a repo that may not be unprotected
Policy(pr, ch, ad) == [NoPolicy EXCEPT !.protect = pr, !.checks = ch, !.admins = ad]
Checks(c, s) == {[contexts |-> c, strict |-> s]}
Who(u, t) == {[users |-> u, teams |-> t]}
Reviews(d, st, ow, ap) == {[dismissal |-> d, stale |-> st, owners |-> ow, approvals |-> ap]}
BJob(c, cond, opt) == [context |-> c, branches |-> {}, skipBranches |-> {}, optional |-> opt, skipReport |-> FALSE, conditional |-> cond]
BRepo(a, f, bs) == [archived |-> a, securityFork |-> f, branches |-> bs]
OldProtection == {[admins |-> FALSE, checks |-> {[contexts |-> {"old"}, strict |-> TRUE]}, reviews |-> {}, restrictions |-> Who({"ann"}, {})]}
BKeys == {<<"o", "r", "m">>, <<"o", "r", "rel">>, <<"o", "s", "m">>, <<"p", "t", "m">>}
BRepos == "o" :> ("r" :> BRepo(FALSE, FALSE, {"m", "rel"}) @@ "s" :> BRepo(FALSE, FALSE, {"m"})) @@ "p" :> ("t" :> BRepo(FALSE, FALSE, {"m"}))
MCBCases == <<
 [cfg |-> [policy |-> [Policy("", Checks({"cla"}, ""), "no") EXCEPT !.reviews = Reviews({}, "yes", "", 1)], protectTested |-> TRUE,
           allowDisabled |-> TRUE, allowDisabledJobs |-> FALSE,
           orgs |-> "o" :> [policy |-> [Policy("yes", {}, "") EXCEPT !.restrictions = Who({"ann"}, {})],
                            repos |-> "r" :> [policy |-> [Policy("", Checks({"x"}, "yes"), "yes") EXCEPT !.reviews = Reviews(Who({"bob"}, {"t"}), "", "yes", -1),
                                                                !.restrictions = Who({}, {"t"}), !.exclude = {"rel"}],
                                              branches |-> <<>>]
                                     @@ "s" :> [policy |-> Policy("no", {}, ""), branches |-> <<>>]]],
  jobs |-> <<"o", "r">> :> <<BJob("unit", FALSE, FALSE), BJob("docs", TRUE, FALSE)>> @@ <<"p", "t">> :> <<BJob("unit", FALSE, FALSE), BJob("opt", FALSE, TRUE)>>,
  repos |-> BRepos, prot |-> [k \in BKeys |-> IF k[3] = "rel" \/ k[2] = "s" THEN OldProtection ELSE {}],
  verify |-> TRUE, writers |-> [users |-> {"ann"}, teams |-> {"t"}]],
 [cfg |-> [policy |-> Policy("", {}, ""), protectTested |-> FALSE,
           allowDisabled |-> FALSE, allowDisabledJobs |-> TRUE,
           orgs |-> "o" :> [policy |-> Policy("", {}, ""),
                            repos |-> "r" :> [policy |-> [Policy("", {}, "") EXCEPT !.exclude = {"rel"}],
                                              branches |-> "m" :> Policy("no", {}, "") @@ "rel" :> [Policy("yes", {}, "") EXCEPT !.reviews = Reviews(Who({}, {}), "", "", 2)]]]],
  jobs |-> <<"o", "s">> :> <<BJob("unit", FALSE, FALSE)>>,
  repos |-> BRepos, prot |-> [k \in BKeys |-> OldProtection],
  verify |-> FALSE, writers |-> [users |-> {}, teams |-> {}]],
 [cfg |-> [policy |-> Policy("", {}, ""), protectTested |-> FALSE,
           allowDisabled |-> FALSE, allowDisabledJobs |-> TRUE,
           orgs |-> "o" :> [policy |-> Policy("yes", Checks({"x"}, ""), ""),
                            repos |-> "r" :> [policy |-> Policy("no", {}, ""), branches |-> <<>>] @@ "gone" :> [policy |-> Policy("yes", {}, ""), branches |-> <<>>]]],
  jobs |-> <<"o", "r">> :> <<BJob("unit", FALSE, FALSE)>>,
  repos |-> "o" :> ("r" :> BRepo(FALSE, FALSE, {"m", "rel"}) @@ "s" :> BRepo(TRUE, FALSE, {"m"})) @@ "p" :> ("t" :> BRepo(FALSE, FALSE, {"m"})), prot |-> [k \in BKeys |-> OldProtection],
  verify |-> TRUE, writers |-> [users |-> {}, teams |-> {}]]
>>

\* Configs: two job files under defaults of several levels, presets, and what Load must refuse
Images(a, b) == {[clonerefs |-> a, sidecar |-> b]}
GCS(s, o) == {[strategy |-> s, org |-> o, media |-> {}]}
Deco(im, g, t, c, o, s) == [images |-> im, gcs |-> g, timeout |-> t, creds |-> c, oauth |-> o, ssh |-> s, skip |-> ""]
General == Deco(Images("c", "s"), GCS("single", "k"), "1h", "cred", "", "")
CSpec(env) == {[init |-> FALSE, containers |-> <<[env |-> env, mounts |-> {}, args |-> TRUE]>>, volumes |-> {}]}
CJob == [kind |-> "presubmit", repo |-> [repo |-> "o/r", org |-> "o"], name |-> "a", agent |-> "", namespace |-> "",
  cluster |-> "", spec |-> CSpec({"x"}), pipeline |-> "", decorate |-> TRUE, deco |-> {}, labels |-> {}, context |-> "",
  trigger |-> {}, rerun |-> NoCommand, badRegex |-> FALSE, rerunAuth |-> TRUE, cloneURI |-> "", extraURIs |-> {},
  maxConcurrency |-> 0, errorOnEviction |-> FALSE, cron |-> "", interval |-> "", branches |-> {}, skipBranches |-> {},
  alwaysRun |-> TRUE, conditional |-> FALSE, skipReport |-> FALSE]
Lit(b) == [text |-> b, of |-> {b}]
CLabelled == [CJob EXCEPT !.labels = {<<"cred", "yes">>}]
CJobs == {CJob, CLabelled,
  [CJob EXCEPT !.branches = {Lit("m")}], [CJob EXCEPT !.skipBranches = {Lit("m")}], [CJob EXCEPT !.branches = {Lit("m"), Lit("n")}],
  [CJob EXCEPT !.name = "b", !.deco = {Deco({}, GCS("explicit", ""), "2h", "", "", "k1")}],
  [CJob EXCEPT !.name = "b", !.deco = {Deco(Images("", "s2"), {}, "", "mine", "tok", "")}, !.cloneURI = "ssh"],
  [CJob EXCEPT !.name = "b", !.trigger = {<<"try", "b">>}, !.rerun = <<"test", "b">>],
  [CJob EXCEPT !.name = "c", !.kind = "postsubmit", !.repo = [repo |-> "p/r", org |-> "p"]],
  [CJob EXCEPT !.name = "c", !.kind = "periodic", !.interval = "1h", !.repo = [repo |-> "", org |-> ""]],
  [CJob EXCEPT !.name = "d", !.agent = "jenkins", !.spec = {}, !.decorate = FALSE],
  [CLabelled EXCEPT !.name = "d", !.spec = CSpec({"secret"})],
  [CJob EXCEPT !.name = "e", !.spec = CSpec({"JOB_NAME"})]}
Preset(l, e, v) == [labels |-> l, env |-> e, mounts |-> {}, volumes |-> v]
Secret == Preset({<<"cred", "yes">>}, {"secret"}, {"v"})
Wide == Preset({}, {"all"}, {})
SetsJobName == Preset({<<"cred", "yes">>}, {"JOB_NAME"}, {})
Component == [maxConcurrency |-> 0, maxGoroutines |-> 0, tideGoroutines |-> 0, sizeLimit |-> 0, reportTypes |-> {}, selectors |-> <<>>,
  mergeTypes |-> {"squash"}, podNamespace |-> "", either |-> {}]
NoDefaults == [k \in {} |-> General]
Star == [k \in {"*"} |-> General]
ByOrg == [k \in {"*", "o"} |-> IF k = "*" THEN General ELSE Deco({}, {}, "3h", "", "", "k2")]
ByRepo == [k \in {"*", "o", "o/r"} |-> IF k = "*" THEN General ELSE IF k = "o" THEN Deco({}, {}, "3h", "", "", "k2") ELSE Deco(Images("c2", ""), GCS("", "k3"), "", "", "", "")]
Whole == [k \in {"*", "o/r"} |-> IF k = "*" THEN General ELSE Deco(Images("c4", "s4"), GCS("explicit", ""), "", "cred4", "", "k4")]
NoSidecar == [k \in {"*"} |-> Deco(Images("c", ""), GCS("single", "k"), "1h", "cred", "", "")]
NoInline == [jobs |-> <<>>, presets |-> <<>>]
JobFile(b, js, ps) == [base |-> b, listed |-> TRUE, dots |-> FALSE, yaml |-> TRUE, parses |-> TRUE, jobs |-> js, presets |-> ps]
CInput(c, s, d, i, k, fs) == [component |-> c, single |-> s, defaults |-> d, inline |-> i, kind |-> k, files |-> fs]
JobDir(d, fs) == CInput(Component, {}, d, NoInline, "dir", fs)
MCCInputs ==
  {JobDir(d, <<JobFile("a", <<j>>, <<Secret>>), JobFile("b", <<k>>, <<>>)>>) : d \in {ByOrg, ByRepo, Whole}, j \in CJobs, k \in CJobs}
  \cup {CInput(Component, s, d, [jobs |-> <<CLabelled>>, presets |-> <<p>>], "none", <<>>) : s \in {{}, {General}}, d \in {NoDefaults, Star, NoSidecar, ByRepo}, p \in {Secret, Wide, SetsJobName}}
  \cup {CInput(Component, {}, Star, [jobs |-> <<CLabelled>>, presets |-> <<Wide>>], k, <<f>>) : k \in {"file", "dir"},
          f \in {JobFile("a", <<CJob>>, <<Secret>>), [JobFile("a", <<CJob>>, <<Secret>>) EXCEPT !.listed = FALSE],
                 [JobFile("a", <<CJob>>, <<Secret>>) EXCEPT !.dots = TRUE], [JobFile("a", <<CJob>>, <<Secret>>) EXCEPT !.yaml = FALSE],
                 [JobFile("a", <<[CJob EXCEPT !.name = "z"]>>, <<Secret, SetsJobName>>) EXCEPT !.parses = FALSE], JobFile("a", <<>>, <<Secret, SetsJobName>>)}}
  \cup {JobDir(Star, <<JobFile("a", <<CJob>>, <<>>), JobFile("a", <<>>, <<>>)>>)}
  \cup {CInput([Component EXCEPT !.either = {[old |-> a, new |-> b, bad |-> FALSE]}], {}, Star, NoInline, "none", <<>>) : a \in BOOLEAN, b \in BOOLEAN}
  \cup {CInput([Component EXCEPT !.selectors = x, !.maxConcurrency = m], {}, Star, NoInline, "none", <<>>) : x \in {<<"">>, <<"q">>, <<"q", "">>}, m \in {0, -1}}
MCCReserved == [env |-> [k \in {"presubmit", "postsubmit", "periodic"} |-> {"JOB_NAME"}], volumes |-> {"logs"}, labels |-> {"prow"}]
MCCYaml == <<<<"a">>, <<"b", "c">>, <<"d", "e", "f">>>>
MCCEnabled == {[k \in {} |-> TRUE], [k \in {"*"} |-> TRUE], [k \in {"*", "repo"} |-> k # "repo"], [k \in {"org", "*"} |-> k = "org"]}
MCCStatic == <<"s">>

-----------------------------------------------------------------------------
(* One part at a time.                                                     *)

Parts == {"jenkins", "pipeline", "gerrit", "pubsub", "pod", "reconciler", "shutdown", "throttle",
          "org", "branches", "load", "presubmits", "status"}

none == ""

\* The variables of the parts that this behaviour is not about hold nothing.
ServicesInit ==
  /\ part \in Parts
  /\ IF part = "jenkins" THEN JInit
     ELSE jcfg = none /\ jpj = none /\ jbuilds = none /\ jsync = none /\ jtold = none /\ jfails = none
  /\ IF part = "pipeline" THEN PInit
     ELSE pcfg = none /\ ppj = none /\ pruns = none /\ pres = none /\ ppjl = none /\ prunl = none
        /\ pqueue = none /\ pwork = none /\ pended = none /\ pfails = none
  /\ IF part = "gerrit" THEN GInit
     ELSE gnow = none /\ gchange = none /\ gtrack = none /\ gfile = none /\ gsync = none /\ gserved = none
        /\ gdouble = none /\ gmish = none
  /\ IF part = "pubsub" THEN SInit
     ELSE smode = none /\ smsgs = none /\ slabels = none /\ sjobs = none /\ sfailed = none /\ ssrv = none
        /\ sfails = none
  /\ IF part = "pod" THEN UInit
     ELSE ucfg = none /\ uphase = none /\ uclone = none /\ ugcs = none /\ uent = none /\ uproc = none
        /\ uint = none /\ udeleted = none /\ umark = none /\ uside = none /\ ufails = none
  /\ IF part = "reconciler" THEN RInit
     ELSE rhist = none /\ ropt = none /\ rfile = none /\ rmtime = none /\ ragent = none /\ rsend = none
        /\ rctl = none /\ rstatus = none /\ rjobs = none /\ rcomments = none /\ rreport = none
        /\ rfails = none
  /\ IF part = "shutdown" THEN IInit
     ELSE ikinds = none /\ iseen = none /\ iwork = none /\ isig = none /\ icount = none /\ ireq = none
        /\ iserving = none /\ iexit = none
  /\ IF part = "throttle" THEN TInit
     ELSE tmode = none /\ tcall = none /\ treaders = none /\ twriter = none /\ twaiting = none
        /\ ttokens = none /\ tticks = none /\ tcost = none
  /\ IF part = "org" THEN OInit
     ELSE ocase = none /\ oorg = none /\ otodo = none /\ oinvites = none /\ omatches = none /\ ounused = none
        /\ oerrs = none /\ oruns = none /\ osettled = none /\ ohands = none /\ ofails = none
  /\ IF part = "branches" THEN BInit
     ELSE bcase = none /\ bprot = none /\ bhand = none /\ btodo = none /\ bdone = none /\ bsend = none
        /\ bwork = none /\ bupdates = none /\ berrs = none /\ bruns = none /\ bsettled = none /\ bhands = none
        /\ bfails = none
  /\ IF part = "load" THEN LoadInit
     ELSE cin = none /\ cpc = none /\ cfiles = none /\ cnames = none /\ cpresets = none /\ cjobs = none
  /\ IF part = "presubmits" THEN CallInit
     ELSE carray = none /\ cenabled = none /\ ccall = none /\ cfails = none
  /\ IF part = "status" THEN StatusInit /\ query = "q1"
     ELSE open = none /\ shown = none /\ clock = none /\ mishaps = none /\ query = none /\ pool = none
        /\ newPoolPending = none /\ scpc = none /\ snap = none /\ mem = none /\ copy = none /\ file = none

builders == <<jenkinsVars, pipelineVars, podVars>>
intake == <<gerritVars, pubsubVars>>
runtime == <<shutdownVars, throttleVars>>
admin == <<orgVars, branchVars, configVars>>
services == <<part, builders, intake, reconcilerVars, runtime, admin, statusVars>>

ServicesNext ==
  /\ UNCHANGED part
  /\ \/ part = "jenkins" /\ JNext /\ UNCHANGED <<pipelineVars, podVars, intake, reconcilerVars, runtime, admin, statusVars>>
     \/ part = "pipeline" /\ PNext /\ UNCHANGED <<jenkinsVars, podVars, intake, reconcilerVars, runtime, admin, statusVars>>
     \/ part = "pod" /\ UNext /\ UNCHANGED <<jenkinsVars, pipelineVars, intake, reconcilerVars, runtime, admin, statusVars>>
     \/ part = "gerrit" /\ GNext /\ UNCHANGED <<builders, pubsubVars, reconcilerVars, runtime, admin, statusVars>>
     \/ part = "pubsub" /\ SNext /\ UNCHANGED <<builders, gerritVars, reconcilerVars, runtime, admin, statusVars>>
     \/ part = "reconciler" /\ RNext /\ UNCHANGED <<builders, intake, runtime, admin, statusVars>>
     \/ part = "shutdown" /\ INext /\ UNCHANGED <<builders, intake, reconcilerVars, throttleVars, admin, statusVars>>
     \/ part = "throttle" /\ TNext /\ UNCHANGED <<builders, intake, reconcilerVars, shutdownVars, admin, statusVars>>
     \/ part = "org" /\ ONext /\ UNCHANGED <<builders, intake, reconcilerVars, runtime, branchVars, configVars, statusVars>>
     \/ part = "branches" /\ BNext /\ UNCHANGED <<builders, intake, reconcilerVars, runtime, orgVars, configVars, statusVars>>
     \/ part = "load" /\ LoadNext /\ UNCHANGED <<builders, intake, reconcilerVars, runtime, orgVars, branchVars, statusVars>>
     \/ part = "presubmits" /\ CallNext /\ UNCHANGED <<builders, intake, reconcilerVars, runtime, orgVars, branchVars, statusVars>>
     \/ part = "status" /\ StatusNext /\ UNCHANGED <<builders, intake, reconcilerVars, runtime, admin>>

\* The operator ticks forever, and Jenkins starts and ends every build; the workers and informers of
\* the pipeline controller run forever, and Tekton ends every run; the steps of a pod go on.
BuildersFair ==
  /\ WF_jenkinsVars(part = "jenkins" /\ JSync) /\ WF_jenkinsVars(part = "jenkins" /\ JWork)
  /\ \A c \in PContexts : /\ WF_pipelineVars(part = "pipeline" /\ PWorker(c))
                          /\ WF_pipelineVars(part = "pipeline" /\ RunEvent(c))
                          /\ WF_pipelineVars(part = "pipeline" /\ (RunProgress(c) \/ RunRemoved(c)))
  /\ WF_pipelineVars(part = "pipeline" /\ ProwJobEvent) /\ WF_pipelineVars(part = "pipeline" /\ Resync)
  /\ WF_podVars(part = "pod" /\ UNext)

\* The Gerrit adapter ticks forever, and the receivers of Pub/Sub go on with every message.
IntakeFair ==
  /\ WF_gerritVars(part = "gerrit" /\ GAdapter)
  /\ \A m \in SMessages : WF_pubsubVars(part = "pubsub" /\ (SReceive(m) \/ SFinish(m)))

\* The config agent, the reconciler and the reports go on: weak fairness of RAgent, RController
\* and RReports, with their guards and the variables that they change written out. The agent gives
\* up a change that nobody takes within a minute.
ReconcilerFair ==
  /\ []<>(part # "reconciler") \/ []<><<TRUE>>_ragent
  /\ \A d \in (1 .. 3) \X (1 .. 3) : []<>(part = "reconciler" => d \notin rsend)
  /\ []<>(part = "reconciler" => rctl = <<>>) \/ []<><<TRUE>>_rctl
  /\ []<>(part = "reconciler" => ~RReportsDue) \/ []<><<TRUE>>_<<rjobs, rreport>>

\* The callers of GitHub and the ticker of the throttler go on; so do the loops of tide's status
\* controller, where a select may prefer the period to a pool that is pending.
OthersFair ==
  /\ WF_throttleVars(part = "throttle" /\ TNext)
  /\ WF_statusVars(part = "status" /\ (Receive \/ Search \/ StatusDone \/ \E n \in PRs : SetStatus(n)))
  /\ WF_statusVars(part = "status" /\ PeriodOver) /\ WF_statusVars(part = "status" /\ Notify)

ServicesSpec == ServicesInit /\ [][ServicesNext]_services /\ BuildersFair /\ IntakeFair /\ ReconcilerFair /\ OthersFair

-----------------------------------------------------------------------------
(* Properties.                                                             *)

\* What is told of a build is true. The Jenkins operator gives up a ProwJob only if Jenkins has no
\* build for it and passes on only verdicts its builds had, the pipeline controller those of a
\* PipelineRun of the job; and finished.json, which the sidecar uploads, says of the test
\* processes what they did.
VerdictsAreTrue ==
  CASE part = "jenkins" -> NoBuildLost /\ JVerdictOfBuild
    [] part = "pipeline" -> PVerdictOfRun
    [] part = "pod" -> FinishedTellsTruth
    [] OTHER -> TRUE

\* What was begun is brought to an end, despite failed calls and lost events: ProwJobs of the
\* Jenkins operator and the pipeline controller complete and runs without a ProwJob are deleted; a
\* pod ends, with its results uploaded; the status reconciler comes to rest with the last config;
\* and every request to GitHub returns.
WorkFinishes ==
  []<>(CASE part = "jenkins" -> JJobsComplete
         [] part = "pipeline" -> PJobsComplete /\ PRunsCollected
         [] part = "pod" -> PodEnds
         [] part = "reconciler" -> RAtRest
         [] part = "throttle" -> CallsReturn
         [] OTHER -> TRUE)

\* What asks for a job is served: every patch set and every merge that Gerrit has gets its jobs,
\* only once if nothing went wrong, and every Pub/Sub message its job or a report of the failure.
TriggersServed ==
  /\ [](part = "gerrit" => GNoDouble)
  /\ []<>(part = "gerrit" => GServed)
  /\ []<>(part = "pubsub" => SServed)

\* The process keeps its promises: a graceful shutdown waits for what it said it would, and the
\* throttler lets no more requests through than the burst and the ticks allow.
RuntimeHolds ==
  CASE part = "shutdown" -> ShutdownIsGraceful
    [] part = "throttle" -> ThrottleHolds
    [] OTHER -> TRUE

\* What is declared is what there is: an org after a run of peribolos, protected branches after a
\* run of branchprotector, the jobs of a loaded config, and the presubmits that one caller at a
\* time gets from it.
DeclaredIsActual ==
  CASE part = "org" -> OrgConverges
    [] part = "branches" -> BranchesAsDeclared
    [] part = "load" -> ConfigIsSound
    [] part = "presubmits" -> AloneSeesOwn
    [] OTHER -> TRUE

\* Changes to blocking presubmits do not get pull requests stuck: see NoPullStuck.
PullsNotStuck == part = "reconciler" => NoPullStuck

\* A pull request that stays in tide's pool, all of its jobs having passed, is shown as being in the
\* pool in the end, whatever failed or was restarted before.
PoolIsShown ==
  \A n \in PRs : <>[](part = "status" /\ n \in pool.prs /\ open[n].passed)
                   => <>[](part = "status" => shown[n] = "in pool")
=============================================================================
