--------------------------- MODULE HorologiumProofs ---------------------------
(***************************************************************************)
(* Proofs that horologium, with sinker beside it, neither overlaps the     *)
(* runs of a periodic nor starts one before its interval is over, whatever *)
(* the number of periodics, of their runs and of config reloads.           *)
(***************************************************************************)
EXTENDS Horologium, FiniteSetTheorems, WellFoundedInduction, TLAPS

\* The runs of a periodic start at different times and in the order in which the API server
\* creates their ProwJobs: one horologium starts them, with a sync a minute.
StartsInOrder ==
  \A p, q \in PJ : SameJob(p, q) /\ p # q =>
    Started[p] # Started[q] /\ (Created[p] < Created[q] <=> Started[p] < Started[q])

invVars == <<pj, cache, spc, isFinished, sweep, late, hpc, latest, todo>>

LEMMA Times ==
  \A p \in PJ : Created[p] \in Nat /\ Started[p] \in Nat /\ SpecOf[p].job \in Job
  BY ClusterAssumption DEF JobSpec

\* Of the runs of a job that have begun one is the last.
LEMMA LastRun ==
  ASSUME NEW p \in PJ, Begun(p)
  PROVE  \E m \in PJ : SameJob(p, m) /\ Begun(m) /\ ~Superseded(m)
  <1> DEFINE C == {q \in PJ : SameJob(p, q) /\ Begun(q)}
             After(q) == {r \in C : Started[r] > Started[q]}
             T == {After(q) : q \in C}
  <1>1. IsWellFoundedOn(StrictSubsetOrdering(PJ), SUBSET PJ)
    BY ClusterAssumption, FS_FiniteSubsetsOfFinite, FS_StrictSubsetOrderingWellFounded
  <1>2. T \subseteq SUBSET PJ /\ T # {}
    <2>1. p \in C
      BY DEF SameJob
    <2>2. \A q \in C : After(q) \in SUBSET PJ
      OBVIOUS
    <2> HIDE DEF C, After
    <2> QED BY <2>1, <2>2
  <1>3. PICK x \in T : \A y \in T : ~(<<y, x>> \in StrictSubsetOrdering(PJ))
    <2> HIDE DEF T
    <2> QED BY <1>1, <1>2, WFMin
  <1>4. PICK m \in C : x = After(m)
    BY <1>3
  <1>5. ASSUME NEW r \in C, Started[r] > Started[m] PROVE FALSE
    <2>1. After(r) \in T /\ After(r) \in SUBSET PJ /\ After(m) \in SUBSET PJ
      OBVIOUS
    <2>2. After(r) \subseteq After(m)
      BY <1>5, Times
    <2>3. r \in After(m) /\ r \notin After(r)
      BY <1>5, Times
    <2>4. After(r) # After(m)
      BY <2>3
    <2>5. <<After(r), After(m)>> \in StrictSubsetOrdering(PJ)
      <3> HIDE DEF After
      <3> QED BY <2>1, <2>2, <2>4 DEF StrictSubsetOrdering
    <2> HIDE DEF T
    <2> QED BY <1>3, <1>4, <2>1, <2>5
  <1> QED BY <1>4, <1>5 DEF Superseded, SameJob

LEMMA HInitially ==
  ASSUME HInit PROVE HIInv
  <1> USE DEF HInit, ClusterInit, SinkerInit, HorologiumInit, NoProwJob
  <1>1. HTypeOK
    BY DEF HTypeOK, ProwJob, ProwJobState
  <1>2. \A p \in PJ : ~Begun(p) /\ ~Exists(p)
    BY DEF Begun, Exists, ProwJobState, Terminal
  <1>3. RunsInv
    BY <1>2 DEF RunsInv
  <1>4. RetainInv
    BY DEF RetainInv, ProwJobState, Terminal
  <1>5. ListedInv
    BY DEF ListedInv, Undecided
  <1> QED BY <1>1, <1>3, <1>4, <1>5 DEF HIInv

LEMMA HStutter ==
  ASSUME HIInv, UNCHANGED invVars PROVE HIInv'
  BY DEF HIInv, HTypeOK, RunsInv, RetainInv, ListedInv, invVars, Begun, Exists, Superseded, Undecided, SameJob

LEMMA SyncStep ==
  ASSUME HIInv, SyncConfig \/ QueuedJobs \/ SyncDone \/ Restart, UNCHANGED <<pj, sinkerVars>>
  PROVE  HIInv'
  <1>1. UNCHANGED <<pj, cache, spc, isFinished, sweep, late>>
    BY DEF SyncConfig, QueuedJobs, SyncDone, Restart, sinkerVars
  <1>2. HTypeOK'
    BY <1>1 DEF HIInv, HTypeOK, SyncConfig, QueuedJobs, SyncDone, Restart
  <1>3. RunsInv' /\ RetainInv'
    BY <1>1 DEF HIInv, RunsInv, RetainInv, Begun, Exists, Superseded, SameJob
  <1>4. \A j \in Job : Undecided(j)' => Undecided(j) /\ latest'[j] = latest[j]
    BY DEF Undecided, SyncConfig, QueuedJobs, SyncDone, Restart
  <1>5. ListedInv'
    BY <1>1, <1>4 DEF HIInv, ListedInv, Begun, Exists
  <1> QED BY <1>2, <1>3, <1>5 DEF HIInv

\* What is listed of a job as not running has no unfinished run, and what is listed as late
\* or not at all is late altogether, since sinker leaves the last run.
LEMMA ListStep ==
  ASSUME HIInv, StartsInOrder, List, UNCHANGED <<clusterVars, sinkerVars>>
  PROVE  HIInv'
  <1> USE DEF HIInv
  <1>1. UNCHANGED <<pj, cache, spc, isFinished, sweep, late, todo>>
    BY DEF List, sinkerVars, clusterVars
  <1> DEFINE E == {q \in PJ : Exists(q)}
             S(j) == {p \in Latest(E) : SpecOf[p].job = j}
  <1>2. PICK f \in [Job -> PJ \cup {"none"}] :
          /\ \A j \in Job : f[j] \in IF S(j) = {} THEN {"none"} ELSE S(j)
          /\ latest' = [j \in Job |-> IF f[j] = "none" THEN "none" ELSE Listed(f[j])]
    BY DEF List
  <1>3. \A p \in E : Begun(p)
    BY DEF Exists, Begun, ProwJobState, Terminal
  <1>4. ASSUME NEW j \in Job, NEW p \in PJ, SpecOf[p].job = j, Exists(p), ~pj[p].complete
        PROVE  latest'[j] = "running"
    <2>1. p \in S(j)
      BY <1>3, <1>4, Times, HorologiumAssumption DEF Latest, RunsInv, SameJob
    <2>2. ASSUME NEW q \in S(j) PROVE q = p
      <3>1. Started[p] <= Started[q]
        BY <1>4, <2>2, HorologiumAssumption DEF Latest
      <3>2. SameJob(p, q) /\ q \in PJ /\ q \in E
        BY <1>4, <2>2 DEF SameJob, Latest
      <3>3. ~(Started[q] > Started[p])
        BY <1>3, <1>4, <3>2 DEF RunsInv
      <3> QED BY <3>1, <3>2, <3>3, Times DEF StartsInOrder
    <2>3. f[j] = p
      BY <1>2, <2>1, <2>2
    <2> QED BY <1>2, <1>4, <2>3, HorologiumAssumption DEF Listed
  <1>5. ASSUME NEW j \in Job, NEW p \in PJ, SpecOf[p].job = j, j \in ActivePeriodics, Begun(p),
               latest'[j] \in {"none", "late"}
        PROVE  p \in late
    <2>1. PICK m \in PJ : SameJob(p, m) /\ Begun(m) /\ ~Superseded(m)
      BY <1>5, LastRun
    <2>2. Exists(m)
      BY <1>5, <2>1 DEF RetainInv, HTypeOK, ProwJob, Exists, Begun, SameJob
    <2>3. m \in S(j)
      BY <1>3, <1>5, <2>1, <2>2, Times, HorologiumAssumption DEF Latest, Superseded, SameJob
    <2>4. f[j] \in S(j) /\ f[j] # "none"
      BY <1>2, <2>3, HorologiumAssumption DEF Latest
    <2>5. f[j] \in late
      BY <1>2, <1>5, <2>4 DEF Listed
    <2>6. Started[m] <= Started[f[j]] /\ SpecOf[f[j]].job = j /\ f[j] \in PJ
      BY <2>2, <2>3, <2>4, HorologiumAssumption DEF Latest
    <2>7. Started[p] <= Started[m]
      BY <1>5, <2>1, Times DEF Superseded, SameJob
    <2> QED BY <1>5, <2>5, <2>6, <2>7, Times DEF RunsInv, SameJob
  <1>6. HTypeOK'
    <2>1. latest' \in [Job -> {"none", "running", "complete", "late"}]
      BY <1>2 DEF Listed
    <2> QED BY <1>1, <2>1 DEF HTypeOK, List
  <1>7. RunsInv' /\ RetainInv'
    BY <1>1 DEF RunsInv, RetainInv, Begun, Exists, Superseded, SameJob
  <1>8. ListedInv'
    BY <1>1, <1>4, <1>5 DEF ListedInv, Begun, Exists
  <1> QED BY <1>6, <1>7, <1>8

\* A run is started: all others of its job have ended, and are late if its interval is kept.
LEMMA StartStep ==
  ASSUME HIInv, StartsInOrder, NEW j \in Job, Start(j), UNCHANGED sinkerVars
  PROVE  HIInv'
  <1> USE DEF HIInv
  <1>1. UNCHANGED <<cache, spc, isFinished, sweep, late, hpc, latest>> /\ todo' = todo \ {j}
    BY DEF Start, sinkerVars
  <1>2. \A i \in Job : Undecided(i)' => Undecided(i) /\ i # j
    BY <1>1 DEF Undecided, Start
  <1>3. CASE UNCHANGED pj
    <2>1. HTypeOK'
      BY <1>1, <1>3 DEF HTypeOK
    <2>2. RunsInv' /\ RetainInv'
      BY <1>1, <1>3 DEF RunsInv, RetainInv, Begun, Exists, Superseded, SameJob
    <2>3. ListedInv'
      BY <1>1, <1>2, <1>3 DEF ListedInv, Begun, Exists
    <2> QED BY <2>1, <2>2, <2>3
  <1>4. ASSUME NEW p \in PJ, pj' = [pj EXCEPT ![p] = NewProwJob], ~Begun(p), SpecOf[p].job = j, ShouldTrigger(j),
               \A q \in PJ : SpecOf[q].job = j /\ Created[q] < Created[p] => Begun(q)
        PROVE  HIInv'
    <2>1. /\ \A q \in PJ \ {p} : pj'[q] = pj[q]
          /\ pj'[p].state = "triggered" /\ ~pj'[p].complete
          /\ pj' \in [PJ -> ProwJob]
      BY <1>4 DEF HTypeOK, NewProwJob, NoProwJob, ProwJob, ProwJobState, Terminal
    <2>2. /\ \A q \in PJ \ {p} : Begun(q)' = Begun(q) /\ Exists(q)' = Exists(q)
          /\ Begun(p)' /\ Exists(p)'
      BY <2>1 DEF Begun, Exists, ProwJobState
    <2>3. \A q \in PJ : SpecOf[q].job = j /\ Exists(q) => pj[q].complete
      BY <1>4 DEF ListedInv, Undecided, Start, ShouldTrigger
    <2>4. \A q \in PJ : SpecOf[q].job = j /\ Created[q] > Created[p] => ~Begun(q)
      BY <1>4 DEF RunsInv, SameJob
    <2>5. HTypeOK'
      BY <1>1, <2>1 DEF HTypeOK
    <2>6. RunsInv'
      <3>1. \A q \in late : Begun(q)' /\ q # p
        BY <1>4, <2>2 DEF RunsInv, HTypeOK
      <3>2. ASSUME NEW q \in PJ, NEW r \in PJ, SameJob(q, r), Begun(q)', Created[r] < Created[q] PROVE Begun(r)'
        BY <1>4, <2>2, <3>2 DEF RunsInv, SameJob
      <3>3. ASSUME NEW q \in PJ, NEW r \in PJ, SameJob(q, r), Exists(q)', ~pj'[q].complete, Started[r] > Started[q]
            PROVE ~Begun(r)'
        <4>1. CASE q = p
          <5>1. r # p /\ Created[r] > Created[p]
            BY <3>3, <4>1, Times DEF StartsInOrder, SameJob
          <5> QED BY <1>4, <2>2, <2>4, <3>3, <4>1, <5>1 DEF SameJob
        <4>2. CASE q # p
          <5>1. Exists(q) /\ ~pj[q].complete
            BY <2>1, <2>2, <3>3, <4>2
          <5>2. SpecOf[q].job # j /\ r # p
            BY <1>4, <2>3, <3>3, <5>1 DEF SameJob
          <5> QED BY <2>2, <3>3, <5>1, <5>2 DEF RunsInv
        <4> QED BY <4>1, <4>2
      <3>4. ASSUME NEW q \in PJ, NEW r \in PJ, SameJob(q, r), q \in late, Begun(r)', Started[r] <= Started[q]
            PROVE  r \in late
        <4>1. r # p
          <5>1. SUFFICES ASSUME r = p PROVE FALSE
            OBVIOUS
          <5>2. q # p /\ Begun(q)
            BY <3>1, <3>4 DEF RunsInv
          <5>3. Created[q] > Created[p]
            BY <3>4, <5>1, <5>2, Times DEF StartsInOrder, SameJob
          <5> QED BY <1>4, <2>4, <3>4, <5>1, <5>2, <5>3 DEF SameJob
        <4> QED BY <2>2, <3>4, <4>1 DEF RunsInv
      <3> QED BY <1>1, <3>1, <3>2, <3>3, <3>4 DEF RunsInv, SameJob
    <2>7. RetainInv'
      <3>1. \A q \in PJ : Superseded(q) => Superseded(q)'
        BY <2>2 DEF Superseded, SameJob
      <3> QED BY <1>1, <2>1, <2>2, <3>1 DEF RetainInv
    <2>8. ListedInv'
      BY <1>1, <1>2, <1>4, <2>1, <2>2 DEF ListedInv
    <2> QED BY <2>5, <2>6, <2>7, <2>8
  <1>5. \/ UNCHANGED pj
        \/ \E p \in PJ : /\ pj' = [pj EXCEPT ![p] = NewProwJob] /\ ~Begun(p) /\ SpecOf[p].job = j /\ ShouldTrigger(j)
                         /\ \A q \in PJ : SpecOf[q].job = j /\ Created[q] < Created[p] => Begun(q)
    BY DEF Start, Begun
  <1> QED BY <1>3, <1>4, <1>5

LEMMA LateStep ==
  ASSUME HIInv, NEW p \in PJ, Late(p), UNCHANGED <<clusterVars, sinkerVars>>
  PROVE  HIInv'
  <1> USE DEF HIInv
  <1>1. UNCHANGED <<pj, cache, spc, isFinished, sweep, hpc, latest, todo>> /\ late \subseteq late'
    BY DEF Late, sinkerVars, clusterVars, syncVars
  <1>2. HTypeOK'
    BY <1>1 DEF HTypeOK, Late
  <1>3. RunsInv'
    <2>1. \A q \in PJ : Begun(q)' = Begun(q) /\ Exists(q)' = Exists(q)
      BY <1>1 DEF Begun, Exists
    <2>2. \A q \in late' : q \in PJ /\ Begun(q)
      BY DEF RunsInv, HTypeOK, Late
    <2>3. ASSUME NEW a \in PJ, NEW b \in PJ, SameJob(a, b), a \in late', Begun(b), Started[b] <= Started[a]
          PROVE  b \in late'
      <3>1. CASE a \in late
        BY <1>1, <2>3, <3>1 DEF RunsInv
      <3>2. CASE SameJob(p, a) /\ Started[a] <= Started[p]
        <4>1. SameJob(p, b) /\ Started[b] <= Started[p]
          BY <2>3, <3>2, Times DEF SameJob
        <4> QED BY <2>3, <4>1 DEF Late
      <3> QED BY <2>3, <3>1, <3>2 DEF Late
    <2> QED BY <1>1, <2>1, <2>2, <2>3 DEF RunsInv
  <1>4. RetainInv'
    BY <1>1 DEF RetainInv, Superseded, Begun, SameJob
  <1>5. ListedInv'
    BY <1>1 DEF ListedInv, Undecided, Begun, Exists
  <1> QED BY <1>2, <1>3, <1>4, <1>5

\* A ProwJob completes or is deleted, with a successor if its periodic is active.
LEMMA ProwJobStep ==
  ASSUME HIInv, NEW p \in PJ, Exists(p), pj' \in [PJ -> ProwJob],
         \A q \in PJ \ {p} : pj'[q] = pj[q],
         \/ Exists(p)' /\ pj'[p].complete
         \/ pj'[p].state = "deleted" /\ (SpecOf[p].job \in ActivePeriodics => Superseded(p)),
         UNCHANGED <<cache, spc, isFinished, late, hpc, latest, todo>>, sweep' \subseteq sweep
  PROVE  HIInv'
  <1> USE DEF HIInv
  <1>1. HTypeOK'
    BY DEF HTypeOK
  <1>2. \A q \in PJ : Begun(q)' = Begun(q) /\ (Exists(q)' => Exists(q))
    BY DEF Begun, Exists, ProwJobState, Terminal
  <1>3. \A q \in PJ : Exists(q)' /\ ~pj'[q].complete => Exists(q) /\ ~pj[q].complete
    BY DEF Exists, ProwJobState, Terminal
  <1>4. RunsInv'
    BY <1>2, <1>3 DEF RunsInv, HTypeOK, SameJob
  <1>5. RetainInv'
    <2>1. \A q \in PJ : Superseded(q)' = Superseded(q)
      BY <1>2 DEF Superseded, SameJob
    <2>2. \A q \in PJ : pj'[q].state = "deleted" => pj[q].state = "deleted" \/ (q = p /\ ~Exists(p)')
      BY DEF Exists, ProwJobState, Terminal
    <2> QED BY <1>2, <2>1, <2>2 DEF RetainInv
  <1>6. ListedInv'
    BY <1>2, <1>3 DEF ListedInv, Undecided
  <1> QED BY <1>1, <1>4, <1>5, <1>6

LEMMA CompleteStep ==
  ASSUME HIInv, NEW p \in PJ, Complete(p), UNCHANGED horologiumVars
  PROVE  HIInv'
  <1>1. Exists(p) /\ UNCHANGED <<cache, spc, isFinished, sweep, late, hpc, latest, todo>>
    BY DEF Complete, sinkerVars, horologiumVars, syncVars
  <1>2. /\ pj' \in [PJ -> ProwJob]
        /\ \A q \in PJ \ {p} : pj'[q] = pj[q]
        /\ pj'[p].state = "success" /\ pj'[p].complete
    BY DEF HIInv, HTypeOK, Complete, ProwJob, ProwJobState, Terminal
  <1> QED BY <1>1, <1>2, ProwJobStep DEF Exists, ProwJobState, Terminal

LEMMA SinkerListStep ==
  ASSUME HIInv, StartsInOrder, SinkerList, UNCHANGED horologiumVars
  PROVE  HIInv'
  <1> USE DEF HIInv
  <1>1. UNCHANGED <<pj, cache, late, hpc, latest, todo>>
    BY DEF SinkerList, clusterVars, horologiumVars, syncVars
  <1>2. PICK R \in Retained(Listable) : isFinished' = {p \in Listable : cache[p].complete} \ R
    BY DEF SinkerList
  <1>3. ASSUME NEW p \in isFinished', SpecOf[p].job \in ActivePeriodics PROVE Superseded(p)
    <2>1. p \in PJ /\ p \in Listable /\ p \notin R /\ Periodic(p)
      BY <1>2, <1>3, HorologiumAssumption DEF Listable
    <2>2. \A q \in Listable : q \in PJ /\ Begun(q)
      BY DEF Listable, RetainInv
    <2>3. p \notin Latest(Listable)
      <3>1. SUFFICES ASSUME p \in Latest(Listable) PROVE FALSE
        OBVIOUS
      <3>2. PICK r \in R : {q \in R : SpecOf[q].job = SpecOf[p].job} = {r}
        BY <1>2, <1>3, <3>1 DEF Retained
      <3>3. r \in Latest(Listable) /\ SpecOf[r].job = SpecOf[p].job
        BY <1>2, <3>2 DEF Retained
      <3>4. r \in PJ /\ Started[r] <= Started[p] /\ Started[p] <= Started[r]
        BY <2>1, <2>2, <3>1, <3>3 DEF Latest
      <3> QED BY <2>1, <3>2, <3>3, <3>4, Times DEF StartsInOrder, SameJob
    <2> QED BY <2>1, <2>2, <2>3, Times DEF Latest, Superseded, SameJob
  <1>4. HTypeOK'
    BY <1>1, <1>2 DEF HTypeOK, SinkerList, Listable
  <1>5. RunsInv'
    BY <1>1 DEF RunsInv, Begun, Exists, SameJob
  <1>6. RetainInv'
    <2>1. \A q \in PJ : Superseded(q)' = Superseded(q) /\ Begun(q)' = Begun(q)
      BY <1>1 DEF Superseded, Begun, SameJob
    <2> QED BY <1>1, <1>3, <2>1 DEF RetainInv, SinkerList
  <1>7. ListedInv'
    BY <1>1 DEF ListedInv, Undecided, Begun, Exists
  <1> QED BY <1>4, <1>5, <1>6, <1>7

LEMMA SinkerJobStep ==
  ASSUME HIInv, NEW p \in PJ, SinkerJob(p), UNCHANGED horologiumVars
  PROVE  HIInv'
  <1>1. UNCHANGED <<cache, spc, isFinished, late, hpc, latest, todo>> /\ sweep' \subseteq sweep
    BY DEF SinkerJob, horologiumVars, syncVars
  <1>2. CASE UNCHANGED pj
    <2>1. HTypeOK' /\ RunsInv' /\ RetainInv' /\ ListedInv'
      BY <1>1, <1>2 DEF HIInv, HTypeOK, RunsInv, RetainInv, ListedInv, Begun, Exists, Superseded, Undecided, SameJob
    <2> QED BY <2>1 DEF HIInv
  <1>3. CASE Exists(p) /\ pj' = [pj EXCEPT ![p] = [NoProwJob EXCEPT !.state = "deleted"]]
    <2>1. /\ pj' \in [PJ -> ProwJob]
          /\ \A q \in PJ \ {p} : pj'[q] = pj[q]
          /\ pj'[p].state = "deleted"
      BY <1>3 DEF HIInv, HTypeOK, NoProwJob, ProwJob
    <2>2. SpecOf[p].job \in ActivePeriodics => Superseded(p)
      BY DEF HIInv, RetainInv, SinkerJob
    <2> QED BY <1>1, <1>3, <2>1, <2>2, ProwJobStep
  <1> QED BY <1>2, <1>3 DEF SinkerJob, DeleteProwJob

\* The other steps of sinker change its own state only, or pods.
LEMMA SinkerStep ==
  ASSUME HIInv, UNCHANGED horologiumVars,
         \/ SinkerPeriodics \/ SinkerPods \/ SinkerListPods \/ SinkerDone
         \/ \E p \in PJ : SinkerPod(p) \/ SinkerWatch(p)
  PROVE  HIInv'
  <1> USE DEF HIInv
  <1>1. UNCHANGED <<pj, late, hpc, latest, todo>>
    BY DEF SinkerPeriodics, SinkerPods, SinkerListPods, SinkerDone, SinkerPod, SinkerWatch,
           clusterVars, horologiumVars, syncVars
  <1>2. isFinished' \subseteq isFinished /\ (spc' \in {"jobs", "periodics"} => sweep' \subseteq isFinished')
    BY DEF RetainInv, SinkerPeriodics, SinkerPods, SinkerListPods, SinkerDone, SinkerPod, SinkerWatch
  <1>3. \A p \in PJ : cache'[p] = cache[p] \/ cache'[p] = pj[p]
    BY DEF HTypeOK, SinkerPeriodics, SinkerPods, SinkerListPods, SinkerDone, SinkerPod, SinkerWatch
  <1>4. HTypeOK'
    BY <1>1 DEF HTypeOK, SinkerPeriodics, SinkerPods, SinkerListPods, SinkerDone, SinkerPod, SinkerWatch
  <1>5. RunsInv' /\ ListedInv'
    BY <1>1 DEF RunsInv, ListedInv, Undecided, Begun, Exists, SameJob
  <1>6. RetainInv'
    BY <1>1, <1>2, <1>3 DEF RetainInv, Superseded, Begun, SameJob, ProwJobState, Terminal
  <1> QED BY <1>4, <1>5, <1>6

LEMMA HStep ==
  ASSUME HIInv, StartsInOrder, [HNext]_hVars
  PROVE  HIInv'
  <1>1. CASE sync /\ UNCHANGED sinkerVars
    <2>1. ASSUME SyncConfig \/ QueuedJobs \/ SyncDone, UNCHANGED clusterVars PROVE HIInv'
      BY <1>1, <2>1, SyncStep DEF clusterVars
    <2> QED BY <1>1, <2>1, ListStep, StartStep DEF sync
  <1>2. CASE Restart /\ UNCHANGED sinkerVars
    BY <1>2, SyncStep DEF Restart
  <1>3. CASE (Reload \/ \E j \in Job : Fire(j) \/ Trigger(j)) /\ UNCHANGED <<clusterVars, sinkerVars>>
    <2>1. UNCHANGED invVars
      BY <1>3 DEF Reload, Fire, Trigger, invVars, clusterVars, sinkerVars, syncVars
    <2> QED BY <2>1, HStutter
  <1>4. CASE \E p \in PJ : Late(p) /\ UNCHANGED <<clusterVars, sinkerVars>>
    BY <1>4, LateStep
  <1>5. CASE \E p \in PJ : Complete(p) /\ UNCHANGED horologiumVars
    BY <1>5, CompleteStep
  <1>6. CASE SinkerNext /\ UNCHANGED horologiumVars
    BY <1>6, SinkerListStep, SinkerJobStep, SinkerStep DEF SinkerNext, Clean
  <1>7. CASE UNCHANGED hVars
    <2>1. UNCHANGED invVars
      BY <1>7 DEF hVars, invVars, clusterVars, sinkerVars, horologiumVars, syncVars
    <2> QED BY <2>1, HStutter
  <1> QED BY <1>1, <1>2, <1>3, <1>4, <1>5, <1>6, <1>7 DEF HNext

\* The inductive invariant of horologium's sync with sinker's clean: the latest run that sync takes
\* from its list is the last one that was started, whatever is reloaded, fires, fails or is deleted.
THEOREM HInvariance ==
  ASSUME StartsInOrder PROVE HSpec => []HIInv
  <1>1. HInit => HIInv
    BY HInitially
  <1>2. HIInv /\ [HNext]_hVars => HIInv'
    BY HStep
  <1> QED BY <1>1, <1>2, PTL DEF HSpec

\* Two runs of a periodic never overlap: sync starts one only if the latest is complete or gone.
THEOREM RunsNeverOverlap ==
  ASSUME StartsInOrder PROVE HSpec => []NoOverlap
  <1>1. HIInv => NoOverlap
    <2> SUFFICES ASSUME HIInv, NEW p \in PJ, NEW q \in PJ, Exists(p), Exists(q), SameJob(p, q), p # q,
                        ~pj[p].complete, ~pj[q].complete
                 PROVE  FALSE
      BY DEF NoOverlap
    <2>1. Begun(p) /\ Begun(q)
      BY DEF Exists, Begun, ProwJobState, Terminal
    <2>2. Started[p] > Started[q] \/ Started[q] > Started[p]
      BY Times DEF StartsInOrder
    <2> QED BY <2>1, <2>2 DEF HIInv, RunsInv, SameJob
  <1> QED BY <1>1, HInvariance, PTL

\* No interval periodic is started before its interval is over, counted from the start of the run
\* before it, although sync reads the list and the clock at different times.
THEOREM IntervalsKept ==
  ASSUME StartsInOrder PROVE HSpec => IntervalKept
  <1> DEFINE A == \A p \in PJ : ~Begun(p) /\ Exists(p)' /\ Interval(SpecOf[p].job) =>
                    \A q \in PJ \ {p} : SameJob(p, q) /\ Begun(q) => q \in late
  <1>1. ASSUME HIInv, [HNext]_hVars PROVE A
    <2> SUFFICES ASSUME NEW p \in PJ, ~Begun(p), Exists(p)', Interval(SpecOf[p].job),
                        NEW q \in PJ \ {p}, SameJob(p, q), Begun(q)
                 PROVE  q \in late
      OBVIOUS
    <2>1. pj'[p] # pj[p]
      BY DEF Begun, Exists, ProwJobState, Terminal
    <2>2. PICK j \in Job : Start(j)
      <3>1. ~(List \/ SyncConfig \/ QueuedJobs \/ SyncDone) \/ ~UNCHANGED clusterVars
        BY <2>1 DEF clusterVars
      <3>2. ~(Restart \/ UNCHANGED clusterVars \/ UNCHANGED hVars)
        BY <2>1 DEF Restart, clusterVars, hVars
      <3>3. ~(\E r \in PJ : Complete(r))
        BY <1>1, <2>1 DEF Complete, HIInv, HTypeOK, Exists, Begun, ProwJobState, Terminal
      <3>4. ~SinkerNext
        <4>1. ASSUME NEW r \in PJ, SinkerJob(r) PROVE FALSE
          BY <1>1, <2>1, <4>1 DEF SinkerJob, DeleteProwJob, HIInv, HTypeOK, Exists, ProwJobState, Terminal, NoProwJob
        <4> QED BY <2>1, <3>2, <4>1 DEF SinkerNext, Clean, SinkerList, SinkerPeriodics, SinkerPods, SinkerListPods,
                                       SinkerDone, SinkerPod, SinkerWatch, clusterVars
      <3> QED BY <1>1, <3>1, <3>2, <3>3, <3>4 DEF HNext, sync
    <2>3. j = SpecOf[p].job /\ ShouldTrigger(j)
      BY <1>1, <2>1, <2>2 DEF Start, HIInv, HTypeOK
    <2>4. latest[j] \in {"none", "late"}
      BY <2>3 DEF ShouldTrigger, Interval
    <2> QED BY <1>1, <2>2, <2>3, <2>4 DEF HIInv, ListedInv, Undecided, Start, SameJob, Interval
  <1> QED BY <1>1, HInvariance, PTL DEF HSpec, IntervalKept
=============================================================================
