----------------------------- MODULE ProwConfig -----------------------------
(***************************************************************************)
(* Loading the config (src/config/config.go, src/config/jobs.go and the    *)
(* decoration defaults of src/apis/prowjobs/v1/types.go): the files are    *)
(* merged, the jobs get their defaults and presets, and the result is      *)
(* validated.  And reading it: GetPresubmits, which adds the presubmits of *)
(* a pull request's own .prow.yaml (src/config/inrepoconfig.go) to those   *)
(* of the config, for several callers at once.                             *)
(*                                                                         *)
(* A job has the fields that the code below reads; the repo of a periodic  *)
(* is that of its first extra ref.  A value that is not set is "", an      *)
(* optional record a set of at most one.  A trigger is the set of comments *)
(* it matches, a mount stands for its name and its path.                   *)
(***************************************************************************)
EXTENDS JobConfig, Integers, FiniteSetsExt

CONSTANTS
  CInputs,    \* the inputs: [component, single, defaults, inline, kind, files]
  CReserved,  \* what decoration uses: [env (by kind of job), volumes, labels]
  CStatic,    \* the presubmits of the config for one repo
  CCapacity,  \* how many presubmits its backing array has room for
  CYaml,      \* the presubmits in .prow.yaml at the head of each caller's pull request
  CEnabled,   \* the settings of in_repo_config.enabled: some of "repo", "org" and "*" to a BOOLEAN
  MaxCFails   \* how many requests and clones fail

VARIABLES
  cin,        \* the input of this behaviour
  cpc,        \* the stage of Load
  cfiles,     \* the job files still to be read
  cnames,     \* the base names seen
  cpresets,   \* the presets read
  cjobs,      \* the jobs read, with their defaults once they are finalised
  carray,     \* the backing array of the presubmits of the repo
  cenabled,   \* in_repo_config.enabled
  ccall,      \* the calls of GetPresubmits: [pc, yaml, shared, written, saw, alone]
  cfails      \* the failures so far

configVars == <<cin, cpc, cfiles, cnames, cpresets, cjobs, carray, cenabled, ccall, cfails>>
loadVars == <<cin, cpc, cfiles, cnames, cpresets, cjobs>>
callVars == <<carray, cenabled, ccall, cfails>>

CAny(S) == CHOOSE x \in S : TRUE

-----------------------------------------------------------------------------
(* Decoration.                                                             *)

Or(a, b) == IF a = "" THEN b ELSE a
OrRecord(a, b, F(_, _)) == IF a = {} THEN b ELSE IF b = {} THEN a ELSE {F(CAny(a), CAny(b))}

ImagesDefault(u, def) == [f \in DOMAIN u |-> Or(u[f], def[f])]
GCSDefault(g, def) == [strategy |-> Or(g.strategy, def.strategy), org |-> Or(g.org, def.org),
                       media |-> g.media \cup def.media]

\* DecorationConfig.ApplyDefault: the OAuth token is not among the fields.
ApplyDefault(d, default) ==
  OrRecord(d, default, LAMBDA m, def :
    [m EXCEPT !.images = OrRecord(m.images, def.images, ImagesDefault),
              !.gcs = OrRecord(m.gcs, def.gcs, GCSDefault),
              !.timeout = Or(m.timeout, def.timeout), !.creds = Or(m.creds, def.creds),
              !.ssh = Or(m.ssh, def.ssh), !.skip = Or(m.skip, def.skip)])

\* GCSConfiguration.ApplyDefault writes media types to a map that is nil: Load recovers, with an error.
Panics(d, def) ==
  \E m \in d, n \in def : \E g \in m.gcs, h \in n.gcs : g.media = {} /\ h.media # {}

\* DecorationConfig.Validate and GCSConfiguration.Validate
ValidDecoration(d) ==
  /\ d.images # {} /\ \A f \in DOMAIN CAny(d.images) : CAny(d.images)[f] # ""
  /\ d.gcs # {} /\ d.creds # ""
  /\ CAny(d.gcs).strategy # "" /\ (CAny(d.gcs).strategy # "explicit" => CAny(d.gcs).org # "")
  /\ ~(d.oauth # "" /\ d.ssh # "")

\* As GetDefaultDecorationConfigs, but the defaults of a repo or an org stand alone.
RepoDefaultsAlone(defaults, repo) ==
  LET at(k) == IF k \in DOMAIN defaults THEN {defaults[k]} ELSE {}
  IN CASE at(repo.repo) # {} -> at(repo.repo)
       [] at(repo.org) # {} -> at(repo.org)
       [] OTHER -> at("*")

GetDefaultDecorationConfigs(defaults, repo) ==
  LET at(k) == IF k \in DOMAIN defaults THEN {defaults[k]} ELSE {}
  IN CASE at(repo.repo) # {} -> ApplyDefault(at(repo.repo), at("*"))
       [] at(repo.org) # {} -> ApplyDefault(at(repo.org), at("*"))
       [] OTHER -> at("*")

\* The level of defaults for a repo is merged before it becomes the job's.
DefaultPanics(defaults, j) ==
  LET at(k) == IF k \in DOMAIN defaults THEN {defaults[k]} ELSE {}
      level == IF at(j.repo.repo) # {} THEN at(j.repo.repo) ELSE at(j.repo.org)
  IN Panics(level, at("*")) \/ Panics(j.deco, GetDefaultDecorationConfigs(defaults, j.repo))

-----------------------------------------------------------------------------
(* Reading and merging.                                                    *)

LoadInit ==
  /\ cin \in CInputs
  /\ cpc = "prow" /\ cfiles = <<>> /\ cnames = {} /\ cpresets = <<>> /\ cjobs = <<>>

CFails == cpc' = "error" /\ UNCHANGED <<cin, cfiles, cnames, cpresets, cjobs>>

\* parseProwConfig: what is not set gets a default, and what is wrong is refused.
ValidComponent(c) ==
  /\ c.maxConcurrency >= 0 /\ c.maxGoroutines >= 0 /\ c.tideGoroutines >= 0 /\ c.sizeLimit >= 0
  /\ c.reportTypes \subseteq {"presubmit", "postsubmit"}
  /\ Len(c.selectors) > 1 => \A i \in DOMAIN c.selectors : c.selectors[i] # ""
  /\ Len(c.selectors) = 1 => c.selectors[1] = ""
  /\ c.mergeTypes \subseteq {"merge", "rebase", "squash"}

Positive(n, default) == IF n = 0 THEN default ELSE n
parseProwConfig(c) ==
  [c EXCEPT !.maxGoroutines = Positive(@, 20), !.tideGoroutines = Positive(@, 20), !.sizeLimit = Positive(@, 100000000),
            !.reportTypes = IF @ = {} THEN {"presubmit", "postsubmit"} ELSE @,
            !.podNamespace = Or(@, "default")]

loadConfig ==
  /\ cpc = "prow"
  /\ IF ~ValidComponent(cin.component) THEN CFails
     ELSE /\ cin' = [cin EXCEPT !.component = parseProwConfig(@)]
          /\ cpresets' = cin.inline.presets /\ cjobs' = cin.inline.jobs
          /\ cfiles' = IF cin.kind = "none" THEN <<>> ELSE cin.files
          /\ cpc' = IF cin.kind = "none" THEN "finalize" ELSE "jobs"
          /\ UNCHANGED cnames
  /\ UNCHANGED callVars

\* mergeJobConfigs refuses a label and value that two presets have.
DuplicatePresets(ps) == \E i, k \in DOMAIN ps : i # k /\ ps[i].labels \cap ps[k].labels # {}

\* ReadJobConfig, one file after the other; of a directory it skips what is not a job file.
ReadJobConfig ==
  /\ cpc = "jobs" /\ cfiles # <<>>
  /\ LET f == Head(cfiles)
         skip == cin.kind = "dir" /\ (~f.listed \/ f.dots \/ ~f.yaml)
         presets == cpresets \o f.presets
     IN IF skip
        THEN UNCHANGED <<cpc, cnames, cpresets, cjobs>> /\ cfiles' = Tail(cfiles) /\ UNCHANGED cin
        ELSE IF ~f.listed \/ ~f.parses \/ (cin.kind = "dir" /\ f.base \in cnames) \/ DuplicatePresets(presets)
        THEN CFails
        ELSE /\ cfiles' = Tail(cfiles) /\ cnames' = cnames \cup {f.base}
             /\ cpresets' = presets /\ cjobs' = cjobs \o f.jobs
             /\ UNCHANGED <<cin, cpc>>
  /\ UNCHANGED callVars

mergeJobConfig ==
  /\ cpc = "jobs" /\ cfiles = <<>>
  /\ cpc' = "finalize"
  /\ UNCHANGED <<cin, cfiles, cnames, cpresets, cjobs, callVars>>

-----------------------------------------------------------------------------
(* Defaults.                                                               *)

\* default_decoration_config stands for default_decoration_configs["*"].
Defaults == IF cin.single # {} THEN [k \in {"*"} |-> CAny(cin.single)] ELSE cin.defaults

BadDefaults ==
  /\ \E i \in DOMAIN cjobs : cjobs[i].decorate
  /\ \/ cin.single # {} /\ DOMAIN cin.defaults # {}
     \/ "*" \notin DOMAIN Defaults
     \/ ~ValidDecoration(Defaults["*"])

\* mergePreset adds to every container; a name that is there already is an error.
PresetApplies(p, j) == p.labels \subseteq j.labels
Collides(p, spec) ==
  \/ p.volumes \cap spec.volumes # {}
  \/ \E i \in DOMAIN spec.containers : p.env \cap spec.containers[i].env # {} \/ p.mounts \cap spec.containers[i].mounts # {}
mergePreset(p, spec) ==
  [spec EXCEPT !.volumes = @ \cup p.volumes,
               !.containers = [i \in DOMAIN @ |-> [@[i] EXCEPT !.env = @ \cup p.env, !.mounts = @ \cup p.mounts]]]

\* resolvePresets: the spec, or an error when one of the presets collides with it.
resolvePresets(j, presets) ==
  LET step(r, p) == IF r.err \/ ~PresetApplies(p, j) THEN r
                    ELSE [err |-> Collides(p, r.spec), spec |-> mergePreset(p, r.spec)]
  IN IF j.spec = {} THEN [err |-> FALSE, spec |-> {}]
     ELSE LET r == FoldLeft(step, [err |-> FALSE, spec |-> CAny(j.spec)], presets)
          IN [err |-> r.err, spec |-> {r.spec}]

DefaultTriggerFor(name) == {<<"test", name>>}
DefaultRerunCommandFor(name) == <<"test", name>>
NoCommand == <<"", "">>

\* defaultJobBase, defaultPresubmitFields and defaultPostsubmitFields, after decoration and presets
Finalized(j, presets) ==
  LET both == j.kind = "presubmit" /\ j.trigger = {} /\ j.rerun = NoCommand
  IN [j EXCEPT !.deco = IF j.decorate THEN ApplyDefault(@, GetDefaultDecorationConfigs(Defaults, j.repo)) ELSE @,
               !.spec = resolvePresets(j, presets).spec,
               !.agent = Or(@, "kubernetes"),
               !.namespace = Or(@, cin.component.podNamespace),
               !.cluster = Or(@, "default"),
               !.context = IF j.kind = "periodic" THEN @ ELSE Or(@, j.name),
               !.trigger = IF both THEN DefaultTriggerFor(j.name) ELSE @,
               !.rerun = IF both THEN DefaultRerunCommandFor(j.name) ELSE @]

\* SetPresubmitRegexes: the trigger matches the rerun command, and the expressions compile.
BadRegexes(j) == j.kind # "periodic" /\ (j.badRegex \/ (j.kind = "presubmit" /\ j.rerun \notin j.trigger /\ j.trigger # {}))

finalizeJobConfig ==
  /\ cpc = "finalize"
  /\ LET done == [i \in DOMAIN cjobs |-> Finalized(cjobs[i], cpresets)]
     IN IF \/ BadDefaults
           \/ \E i \in DOMAIN cjobs : \/ cjobs[i].decorate /\ DefaultPanics(Defaults, cjobs[i])
                                      \/ resolvePresets(cjobs[i], cpresets).err
                                      \/ BadRegexes(done[i])
        THEN CFails
        ELSE cjobs' = done /\ cpc' = "component" /\ UNCHANGED <<cin, cfiles, cnames, cpresets>>
  /\ UNCHANGED callVars

\* validateComponentConfig: of the old and the new form of an option only one may be set, and it must be right.
validateComponentConfig ==
  /\ cpc = "component"
  /\ IF \E o \in cin.component.either : o.bad \/ (o.old /\ o.new) THEN CFails
     ELSE cpc' = "validate" /\ UNCHANGED <<cin, cfiles, cnames, cpresets, cjobs>>
  /\ UNCHANGED callVars

-----------------------------------------------------------------------------
(* Validation.                                                             *)

validateAgent(j) ==
  LET spec == j.spec # {}
      pipeline == j.pipeline # ""
  IN j.agent \in {"kubernetes", "jenkins", "tekton-pipeline"} =>
       /\ spec <=> j.agent = "kubernetes"
       /\ pipeline <=> j.agent = "tekton-pipeline"
       /\ (j.deco # {} \/ j.errorOnEviction) => j.agent = "kubernetes"
       /\ j.namespace # ""
       /\ j.namespace # cin.component.podNamespace => j.agent = "tekton-pipeline"

validatePodSpec(kind, spec) ==
  \A s \in spec : /\ ~s.init /\ Len(s.containers) = 1
                  /\ s.containers[1].env \cap CReserved.env[kind] = {}
                  /\ s.containers[1].mounts \cap CReserved.volumes = {}
                  /\ s.volumes \cap CReserved.volumes = {}

\* UtilityConfig.Validate looks at the extra refs only when the job itself has a clone_uri.
ValidURIs(j) ==
  (j.cloneURI # "" /\ \E d \in j.deco : d.oauth # "") => \A u \in {j.cloneURI} \cup j.extraURIs : u = "http"

validateDecoration(spec, deco) == \A d \in deco : ValidDecoration(d) /\ spec.containers[1].args

validateJobBase(j) ==
  /\ j.name # "" /\ j.maxConcurrency >= 0
  /\ validateAgent(j) /\ validatePodSpec(j.kind, j.spec)
  /\ j.pipeline # "bad"
  /\ \A l \in j.labels : l[1] \notin CReserved.labels
  /\ \A s \in j.spec : j.rerunAuth /\ ValidURIs(j) /\ validateDecoration(s, j.deco)

validateTriggering(j) ==
  /\ ~(j.alwaysRun /\ j.conditional)
  /\ ~j.skipReport => j.context # ""
  /\ j.trigger = {} <=> j.rerun = NoCommand

\* validatePresubmits and validatePostsubmits, and the names of validatePeriodics
Duplicate(j, k) ==
  /\ j.kind = k.kind /\ j.name = k.name
  /\ j.kind = "periodic" \/ (j.repo = k.repo /\ Intersects(j, k))

validateJobConfig ==
  /\ cpc = "validate"
  /\ IF /\ \A i, k \in DOMAIN cjobs : i < k => ~Duplicate(cjobs[i], cjobs[k])
        /\ \A i \in DOMAIN cjobs :
             LET j == cjobs[i]
             IN /\ validateJobBase(j)
                /\ j.kind = "presubmit" => validateTriggering(j)
                /\ j.kind = "periodic" => (j.cron = "" <=> j.interval # "") /\ "bad" \notin {j.cron, j.interval}
     THEN cpc' = "loaded" /\ UNCHANGED <<cin, cfiles, cnames, cpresets, cjobs>>
     ELSE CFails
  /\ UNCHANGED callVars

LoadNext ==
  \/ loadConfig \/ ReadJobConfig \/ mergeJobConfig
  \/ finalizeJobConfig \/ validateComponentConfig \/ validateJobConfig

-----------------------------------------------------------------------------
(* GetPresubmits, for one repo, by several callers at once.                *)

NoCall == [pc |-> "idle", yaml |-> <<>>, shared |-> FALSE, written |-> 0, saw |-> <<>>, alone |-> TRUE]

CallInit ==
  /\ cenabled \in CEnabled
  /\ carray = [i \in 1 .. CCapacity |-> IF i \in DOMAIN CStatic THEN CStatic[i] ELSE "free"]
  /\ ccall = [c \in DOMAIN CYaml |-> NoCall]
  /\ cfails = 0

InRepoConfigEnabled ==
  LET set == SelectSeq(<<"repo", "org", "*">>, LAMBDA k : k \in DOMAIN cenabled)
  IN set # <<>> /\ cenabled[Head(set)]

CGo(c, pc) == ccall' = [ccall EXCEPT ![c].pc = pc]

GetPresubmits(c) ==
  /\ ccall[c].pc = "idle"
  /\ IF InRepoConfigEnabled THEN CGo(c, "base")
     ELSE ccall' = [ccall EXCEPT ![c].pc = "use", ![c].yaml = <<>>, ![c].shared = TRUE]
  /\ UNCHANGED <<loadVars, carray, cenabled, cfails>>

\* BaseSHA and then HeadSHA of the RefGetter
RefGetter(c) ==
  /\ \/ ccall[c].pc = "base" /\ CGo(c, "head")
     \/ ccall[c].pc = "head" /\ CGo(c, "yaml")
  /\ UNCHANGED <<loadVars, carray, cenabled, cfails>>

\* The calls whose slice may still be in the shared array.
Using == {c \in DOMAIN ccall : ccall[c].pc \in {"append", "use"} /\ ccall[c].shared}

\* The ProwYAMLGetter clones, merges, reads and validates; append then finds room in the shared
\* array, or makes an array of its own.
ProwYAMLGetter(c) ==
  /\ ccall[c].pc = "yaml"
  /\ LET shared == Len(CStatic) + Len(CYaml[c]) <= CCapacity
         meet == shared /\ Using # {}
     IN ccall' = [d \in DOMAIN ccall |->
                    IF d = c THEN [NoCall EXCEPT !.pc = "append", !.yaml = CYaml[c], !.shared = shared, !.alone = ~meet]
                    ELSE IF meet /\ d \in Using THEN [ccall[d] EXCEPT !.alone = FALSE] ELSE ccall[d]]
  /\ UNCHANGED <<loadVars, carray, cenabled, cfails>>

Fetching == {"base", "head", "yaml"}
GetFails(c) ==
  /\ ccall[c].pc \in Fetching /\ cfails < MaxCFails
  /\ cfails' = cfails + 1 /\ CGo(c, "idle")
  /\ UNCHANGED <<loadVars, carray, cenabled>>

\* As AppendOne, but into a slot that holds a presubmit of the config.
AppendOneBefore(c) ==
  LET n == ccall[c].written + 1
  IN /\ ccall[c].pc = "append"
     /\ IF n > Len(ccall[c].yaml) \/ ~ccall[c].shared THEN CGo(c, "use") /\ UNCHANGED carray
        ELSE /\ ccall' = [ccall EXCEPT ![c].written = n]
             /\ carray' = [carray EXCEPT ![Len(CStatic) + n - 1] = ccall[c].yaml[n]]
     /\ UNCHANGED <<loadVars, cenabled, cfails>>

\* append copies one presubmit after the other behind those of the config.
AppendOne(c) ==
  LET n == ccall[c].written + 1
  IN /\ ccall[c].pc = "append"
     /\ IF n > Len(ccall[c].yaml) \/ ~ccall[c].shared THEN CGo(c, "use") /\ UNCHANGED carray
        ELSE /\ ccall' = [ccall EXCEPT ![c].written = n]
             /\ carray' = [carray EXCEPT ![Len(CStatic) + n] = ccall[c].yaml[n]]
     /\ UNCHANGED <<loadVars, cenabled, cfails>>

\* The caller walks over the presubmits it got, and calls again some time.
Use(c) ==
  /\ ccall[c].pc = "use"
  /\ LET n == Len(CStatic) + Len(ccall[c].yaml)
     IN ccall' = [ccall EXCEPT ![c].pc = "used",
                               ![c].saw = IF ccall[c].shared THEN [i \in 1 .. n |-> carray[i]] ELSE CStatic \o ccall[c].yaml]
  /\ UNCHANGED <<loadVars, carray, cenabled, cfails>>
CallAgain(c) ==
  /\ ccall[c].pc = "used"
  /\ ccall' = [ccall EXCEPT ![c] = NoCall]
  /\ UNCHANGED <<loadVars, carray, cenabled, cfails>>

CallNext ==
  \E c \in DOMAIN CYaml :
    GetPresubmits(c) \/ RefGetter(c) \/ ProwYAMLGetter(c) \/ GetFails(c) \/ AppendOne(c) \/ Use(c) \/ CallAgain(c)

-----------------------------------------------------------------------------
(* Properties.                                                             *)

\* The jobs as they are written, in the order in which Load keeps them.
Written ==
  LET read == SelectSeq(cin.files, LAMBDA f : cin.kind = "file" \/ (f.listed /\ ~f.dots /\ f.yaml))
      add(js, f) == js \o f.jobs
  IN IF cin.kind = "none" THEN cin.inline.jobs ELSE FoldLeft(add, cin.inline.jobs, read)

\* The decoration of a job, of its repo or else its org, and of "*": the first one that sets a field decides.
Layers(j) ==
  LET at(k) == IF k \in DOMAIN Defaults THEN {Defaults[k]} ELSE {}
  IN <<j.deco, IF at(j.repo.repo) # {} THEN at(j.repo.repo) ELSE at(j.repo.org), at("*")>>
FirstSet(j, F(_)) ==
  LET values == SelectSeq([i \in 1 .. 3 |-> IF Layers(j)[i] = {} THEN "" ELSE F(CAny(Layers(j)[i]))], LAMBDA v : v # "")
  IN IF values = <<>> THEN "" ELSE Head(values)
OfImages(d, f) == IF d.images = {} THEN "" ELSE CAny(d.images)[f]
OfGCS(d, f) == IF d.gcs = {} THEN "" ELSE IF f = "org" THEN CAny(d.gcs).org ELSE CAny(d.gcs).strategy

DecorationComplete(w, j) ==
  j.spec # {} /\ j.decorate =>
    \E d \in j.deco :
      /\ ValidDecoration(d)
      /\ d.timeout = FirstSet(w, LAMBDA x : x.timeout)
      /\ d.creds = FirstSet(w, LAMBDA x : x.creds)
      /\ d.ssh = FirstSet(w, LAMBDA x : x.ssh)
      /\ \A f \in DOMAIN CAny(d.images) : CAny(d.images)[f] = FirstSet(w, LAMBDA x : OfImages(x, f))
      /\ CAny(d.gcs).strategy = FirstSet(w, LAMBDA x : OfGCS(x, "strategy"))
      /\ CAny(d.gcs).org = FirstSet(w, LAMBDA x : OfGCS(x, "org"))

PresetsMerged(j) ==
  \A s \in j.spec :
    /\ \A c \in ToSet(s.containers) : c.env \cap CReserved.env[j.kind] = {}
    /\ \A p \in ToSet(cpresets) : PresetApplies(p, j) =>
         p.volumes \subseteq s.volumes /\ \A c \in ToSet(s.containers) : p.env \subseteq c.env

CBranches == UNION {UNION {p.of : p \in cjobs[i].branches \cup cjobs[i].skipBranches} : i \in DOMAIN cjobs}
LiteralPatterns(j) == \A p \in j.branches \cup j.skipBranches : p.of = {p.text}
RunTogether(j, k) ==
  /\ j.kind = k.kind /\ j.name = k.name
  /\ j.kind = "periodic" \/ (j.repo = k.repo /\ LiteralPatterns(j) /\ LiteralPatterns(k)
                              /\ \E b \in CBranches : BrancherShouldRun(j, b) /\ BrancherShouldRun(k, b))

\* What Load accepts is fit for use: a decorated job has a complete decoration, in which each field
\* is the job's own, else that of its repo or org, else the general one; every preset that a job's
\* labels ask for is in its pod, and no variable of the pod is one that Prow sets itself; two jobs
\* of a name never run on one branch (where the patterns are branch names); and the rerun command
\* that a failed presubmit tells people to say does trigger it.
ConfigIsSound ==
  cpc = "loaded" =>
    /\ \A i \in DOMAIN cjobs : DecorationComplete(Written[i], cjobs[i]) /\ PresetsMerged(cjobs[i])
    /\ \A i, k \in DOMAIN cjobs : i < k => ~RunTogether(cjobs[i], cjobs[k])
    /\ \A i \in DOMAIN cjobs : cjobs[i].kind = "presubmit" => cjobs[i].rerun \in cjobs[i].trigger

OwnOf(c) == CStatic \o (IF InRepoConfigEnabled THEN CYaml[c] ELSE <<>>)

\* A call of GetPresubmits with no other at the same time gives the presubmits of the config and of
\* the pull request's own .prow.yaml, and no call ever changes the presubmits of the config.
AloneSeesOwn ==
  /\ \A i \in DOMAIN CStatic : carray[i] = CStatic[i]
  /\ \A c \in DOMAIN ccall : ccall[c].pc = "used" /\ ccall[c].alone => ccall[c].saw = OwnOf(c)

\* Every caller of GetPresubmits sees the presubmits of the config and those of its own pull
\* request's .prow.yaml, as the comment on GetPresubmits says.
OwnPresubmits ==
  \A c \in DOMAIN ccall : ccall[c].pc = "used" => ccall[c].saw = OwnOf(c)

=============================================================================
