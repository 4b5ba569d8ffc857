----------------------------- MODULE CrierProofs -----------------------------
(***************************************************************************)
(* Proofs that crier reports the states of a ProwJob in their order and    *)
(* does not set back its record of them, for every number of ProwJobs and  *)
(* workers, and whatever fails.                                            *)
(***************************************************************************)
EXTENDS Crier, TLAPS

Stage == {"new", "gone"} \cup State
Bound == {"touch", "report", "trouble", "removal", "crash"}

LEMMA SettingFacts ==
  ASSUME TypeOK
  PROVE  /\ conf.pjs \subseteq PJ /\ conf.workers \subseteq Worker
         /\ conf.outcomes \subseteq State \ {"triggered"}
         /\ conf.bounds \in [Bound -> Nat]
         /\ conf.gerrit => \A v, w \in conf.workers : v = w
  BY CrierAssumption DEF TypeOK, Bound

LEMMA CopyType ==
  ASSUME NEW S \in SUBSET PJ, NEW f \in [S -> Held]
  PROVE  f \in Copies
  BY DEF Copies

LEMMA CopyIs ==
  ASSUME NEW f \in Copies
  PROVE  DOMAIN f \in SUBSET PJ /\ f \in [DOMAIN f -> Held]
  BY DEF Copies

LEMMA IdleType ==
  Idle \in Work /\ Idle.pc = "idle"
  <1>1. Worked \in PJ
    BY CrierAssumption DEF Worked
  <1>2. [q \in {} |-> Missing("new")] \in Copies
    <2>1. [q \in {} |-> Missing("new")] \in [{} -> Held] /\ {} \in SUBSET PJ
      OBVIOUS
    <2> QED BY <2>1, CopyType
  <1> QED BY <1>1, <1>2 DEF Idle, Work, PCs

LEMMA SpendType ==
  ASSUME TypeOK, NEW b \in Bound, Spend(b)
  PROVE  /\ used' \in [Bound -> Nat]
         /\ used'["trouble"] = 0 => used["trouble"] = 0 /\ b # "trouble"
         /\ b # "trouble" => used'["trouble"] = used["trouble"]
  <1>1. used \in [Bound -> Nat]
    BY DEF TypeOK, Bound
  <1>2. used[b] \in Nat /\ used' = [used EXCEPT ![b] = used[b] + 1]
    BY <1>1 DEF Spend
  <1>3. "trouble" \in Bound
    BY DEF Bound
  <1> QED BY <1>1, <1>2, <1>3

LEMMA RateType ==
  ASSUME TypeOK, NEW p \in PJ, AddRateLimited(p)
  PROVE  requeues' \in [PJ -> 0..NumRetries] /\ delayed' \subseteq PJ
  <1>1. requeues \in [PJ -> 0..NumRetries] /\ delayed \subseteq PJ /\ NumRetries \in Nat
    BY CrierAssumption DEF TypeOK
  <1>2. (IF requeues[p] < NumRetries THEN requeues[p] + 1 ELSE requeues[p]) \in 0..NumRetries
    BY <1>1
  <1> QED BY <1>1, <1>2 DEF AddRateLimited

-----------------------------------------------------------------------------
(* The steps of a worker, as the other invariants see them: worker w goes  *)
(* on with its key, or gives the key back and is idle.                     *)

Goes(w, pc, now, todo) ==
  /\ wk' \in [Worker -> Work]
  /\ \A v \in Worker \ {w} : wk'[v] = wk[v]
  /\ wk'[w].pc = pc /\ wk'[w].key = wk[w].key /\ wk'[w].now = now /\ wk'[w].todo = todo
  /\ UNCHANGED processing

Stops(w) == wk' = [wk EXCEPT ![w] = Idle] /\ processing' = processing \ {wk[w].key}

LEMMA ForgetStops ==
  ASSUME TypeOK, NEW w \in Worker, Forget(w) \/ (retry(w) /\ wk[w].pc # "idle")
  PROVE  /\ Stops(w) /\ UNCHANGED dirty
         /\ requeues' \in [PJ -> 0..NumRetries] /\ delayed' \subseteq PJ
  <1>1. wk[w].key \in PJ
    BY DEF TypeOK, Work
  <1>2. CASE Forget(w)
    BY <1>1, <1>2, CrierAssumption DEF Forget, Stops, TypeOK
  <1>3. CASE retry(w) /\ requeues[wk[w].key] < NumRetries
    <2>1. AddRateLimited(wk[w].key)
      BY <1>3 DEF retry
    <2> QED BY <1>1, <1>3, <2>1, RateType DEF retry, Stops
  <1> QED BY <1>2, <1>3 DEF retry

LEMMA StopsType ==
  ASSUME TypeOK, NEW w \in Worker, Stops(w)
  PROVE  wk' \in [Worker -> Work] /\ processing' \subseteq PJ
  BY IdleType DEF TypeOK, Stops, Work

LEMMA StopsQueue ==
  ASSUME TypeOK, QueueInv, NEW w \in Worker, wk[w].pc # "idle", Stops(w), UNCHANGED conf
  PROVE  QueueInv'
  <1>1. \A v \in Worker : wk'[v].pc # "idle" => v # w /\ wk'[v] = wk[v]
    BY IdleType DEF TypeOK, Stops
  <1> QED BY <1>1 DEF QueueInv, Stops

LEMMA GoesQueue ==
  ASSUME TypeOK, QueueInv, NEW w \in Worker, NEW pc \in PCs \ {"idle"}, NEW now, NEW todo, wk[w].pc # "idle",
         Goes(w, pc, now, todo), UNCHANGED conf,
         ~conf.gerrit \/ pc = "report" => DOMAIN todo = {wk[w].key},
         pc \notin {"report", "patch"} => now \in DOMAIN todo
  PROVE  QueueInv'
  <1>1. \A v \in Worker : wk'[v].key = wk[v].key /\ (wk'[v].pc # "idle" => wk[v].pc # "idle")
    BY DEF Goes
  <1> QED BY <1>1 DEF QueueInv, Goes

LEMMA GoesIf ==
  ASSUME TypeOK, NEW w \in Worker, NEW pc \in PCs, NEW now \in PJ, NEW todo \in Copies, UNCHANGED processing
  PROVE  /\ wk' = [wk EXCEPT ![w].pc = pc] => Goes(w, pc, wk[w].now, wk[w].todo)
         /\ wk' = [wk EXCEPT ![w].pc = pc, ![w].now = now] => Goes(w, pc, now, wk[w].todo)
         /\ wk' = [wk EXCEPT ![w].pc = pc, ![w].todo = todo] => Goes(w, pc, wk[w].now, todo)
  <1>0. wk \in [Worker -> Work]
    BY DEF TypeOK
  <1>1. ASSUME wk' = [wk EXCEPT ![w].pc = pc] PROVE Goes(w, pc, wk[w].now, wk[w].todo)
    BY <1>0, <1>1 DEF Goes, Work
  <1>2. ASSUME wk' = [wk EXCEPT ![w].pc = pc, ![w].now = now] PROVE Goes(w, pc, now, wk[w].todo)
    BY <1>0, <1>2 DEF Goes, Work
  <1>3. ASSUME wk' = [wk EXCEPT ![w].pc = pc, ![w].todo = todo] PROVE Goes(w, pc, wk[w].now, todo)
    BY <1>0, <1>3 DEF Goes, Work
  <1> QED BY <1>1, <1>2, <1>3

-----------------------------------------------------------------------------
(* The order of the states.                                                *)

LEMMA BeforeTrans ==
  ASSUME NEW a \in Stage, NEW b \in Stage, NEW c \in Stage, Before(a, b), Before(b, c)
  PROVE  Before(a, c)
  BY DEF Before, Stage, State, Active, Final

LEMMA StatesAre ==
  ASSUME TypeOK
  PROVE  /\ \A p \in PJ : api[p].state \in Stage /\ lister[p].state \in Stage
         /\ \A p \in PJ : \A i \in DOMAIN stream[p] : stream[p][i] \in Version /\ stream[p][i].state \in Stage
         /\ \A p \in PJ : \A i \in DOMAIN sent[p] : sent[p][i] \in State
  <1>1. \A p \in PJ : api[p] \in Version /\ lister[p] \in Version /\ stream[p] \in Seq(Version) /\ sent[p] \in Seq(State)
    BY DEF TypeOK
  <1>2. \A v \in Version : v.state \in Stage
    BY DEF Version, Stage
  <1> QED BY <1>1, <1>2

LEMMA TodoIs ==
  ASSUME TypeOK, NEW w \in Worker
  PROVE  /\ wk[w].todo \in Copies /\ wk[w].now \in PJ /\ wk[w].key \in PJ /\ DOMAIN wk[w].todo \in SUBSET PJ
         /\ \A q \in DOMAIN wk[w].todo :
              q \in PJ /\ wk[w].todo[q] \in Held /\ wk[w].todo[q].state \in State /\ wk[w].todo[q].state \in Stage
  <1>1. wk[w].todo \in Copies /\ wk[w].now \in PJ /\ wk[w].key \in PJ
    BY DEF TypeOK, Work
  <1>2. DOMAIN wk[w].todo \in SUBSET PJ /\ wk[w].todo \in [DOMAIN wk[w].todo -> Held]
    BY <1>1, CopyIs
  <1>3. \A v \in Held : v.state \in State /\ v.state \in Stage
    BY DEF Held, Present, Stage
  <1> QED BY <1>1, <1>2, <1>3

\* The API server stores v, and may send it to the informer.
Writes(p, v) ==
  /\ api' = [api EXCEPT ![p] = v]
  /\ stream' = stream \/ stream' = [stream EXCEPT ![p] = Append(@, v)]

LEMMA StoreWrites ==
  ASSUME TypeOK, NEW p \in PJ, NEW v, Store(p, v)
  PROVE  Writes(p, v)
  <1>1. stream \in [PJ -> Seq(Version)]
    BY DEF TypeOK
  <1>2. [stream EXCEPT ![p] = stream[p]] = stream
    BY <1>1
  <1> QED BY <1>2 DEF Store, Writes

LEMMA WritesStream ==
  ASSUME TypeOK, StreamInv, NEW p \in PJ, NEW v \in Version, Writes(p, v), Before(api[p].state, v.state), UNCHANGED lister
  PROVE  api' \in [PJ -> Version] /\ stream' \in [PJ -> Seq(Version)] /\ StreamInv'
  <1>1. /\ api' \in [PJ -> Version] /\ stream' \in [PJ -> Seq(Version)]
        /\ api'[p] = v /\ \A q \in PJ \ {p} : api'[q] = api[q] /\ stream'[q] = stream[q]
        /\ v.state \in Stage
    <2>1. v.state \in Stage
      BY DEF Version, Stage
    <2>2. api' \in [PJ -> Version] /\ api'[p] = v /\ \A q \in PJ \ {p} : api'[q] = api[q]
      BY DEF TypeOK, Writes
    <2>3. stream' \in [PJ -> Seq(Version)] /\ \A q \in PJ \ {p} : stream'[q] = stream[q]
      <3>1. stream \in [PJ -> Seq(Version)] /\ stream[p] \in Seq(Version)
        BY DEF TypeOK
      <3>2. Append(stream[p], v) \in Seq(Version)
        BY <3>1
      <3>3. stream' = stream \/ stream' = [stream EXCEPT ![p] = Append(stream[p], v)]
        BY DEF Writes
      <3> HIDE DEF Version
      <3> QED BY <3>1, <3>2, <3>3, Zenon
    <2> QED BY <2>1, <2>2, <2>3
  <1>2. /\ Before(lister[p].state, v.state)
        /\ \A i \in DOMAIN stream[p] : Before(stream[p][i].state, v.state)
    BY <1>1, BeforeTrans, StatesAre DEF StreamInv
  <1>3. CASE stream' = stream
    BY <1>1, <1>2, <1>3 DEF StreamInv
  <1>4. CASE stream' = [stream EXCEPT ![p] = Append(@, v)]
    <2>1. stream'[p] = Append(stream[p], v) /\ stream[p] \in Seq(Version)
      BY <1>4 DEF TypeOK
    <2>2. /\ DOMAIN stream'[p] = 1..(Len(stream[p]) + 1) /\ Len(stream[p]) \in Nat
          /\ DOMAIN stream[p] = 1..Len(stream[p])
          /\ \A i \in 1..Len(stream[p]) : stream'[p][i] = stream[p][i]
          /\ stream'[p][Len(stream[p]) + 1] = v
      BY <2>1
    <2>3. \A i \in DOMAIN stream'[p] : i \in DOMAIN stream[p] \/ i = Len(stream[p]) + 1
      BY <2>2
    <2>4. Before(v.state, v.state)
      BY DEF Before
    <2>5. \A i \in DOMAIN stream'[p] :
             /\ Before(lister[p].state, stream'[p][i].state)
             /\ Before(stream'[p][i].state, v.state)
             /\ \A j \in DOMAIN stream'[p] : i < j => Before(stream'[p][i].state, stream'[p][j].state)
      <3> SUFFICES ASSUME NEW i \in DOMAIN stream'[p], NEW j \in DOMAIN stream'[p]
                   PROVE  /\ Before(lister[p].state, stream'[p][i].state)
                          /\ Before(stream'[p][i].state, v.state)
                          /\ i < j => Before(stream'[p][i].state, stream'[p][j].state)
        OBVIOUS
      <3>1. CASE i = Len(stream[p]) + 1
        <4>1. stream'[p][i] = v /\ ~(i < j)
          BY <2>2, <3>1
        <4> QED BY <1>2, <2>4, <4>1
      <3>2. CASE i \in DOMAIN stream[p] /\ j = Len(stream[p]) + 1
        <4>1. stream'[p][i] = stream[p][i] /\ stream'[p][j] = v
          BY <2>2, <3>2
        <4> QED BY <1>2, <3>2, <4>1 DEF StreamInv
      <3>3. CASE i \in DOMAIN stream[p] /\ j \in DOMAIN stream[p]
        <4>1. stream'[p][i] = stream[p][i] /\ stream'[p][j] = stream[p][j]
          BY <2>2, <3>3
        <4> QED BY <1>2, <3>3, <4>1 DEF StreamInv
      <3> QED BY <2>3, <3>1, <3>2, <3>3
    <2> QED BY <1>1, <1>2, <2>5 DEF StreamInv
  <1> QED BY <1>1, <1>3, <1>4 DEF Writes

\* Steps of the writers other than crier.
LEMMA WriterStep ==
  ASSUME CIInv, NEW p \in PJ, NEW v \in Version, Writes(p, v), Before(api[p].state, v.state),
         v.prev \in {"nil", "empty", api[p].prev},
         UNCHANGED <<conf, lister, queueVars, wk, sent>>, used' \in [Bound -> Nat], used'["trouble"] = used["trouble"]
  PROVE  CIInv'
  <1> USE DEF CIInv
  <1>1. api' \in [PJ -> Version] /\ stream' \in [PJ -> Seq(Version)] /\ StreamInv'
    BY WritesStream
  <1>2. TypeOK'
    BY <1>1 DEF TypeOK, Bound, queueVars
  <1>3. QueueInv'
    BY DEF QueueInv, queueVars
  <1>4. SentInv'
    BY DEF SentInv, ReportsInOrder, SentBefore
  <1>5. api'[p] = v /\ \A q \in PJ \ {p} : api'[q] = api[q]
    BY DEF Writes, TypeOK
  <1>6. \A q \in PJ : \A s : RecordBefore(q, s) => RecordBefore(q, s)'
    BY <1>5 DEF RecordBefore
  <1>7. \A q \in PJ : api[q].state = "gone" => api'[q].state = "gone"
    BY <1>5 DEF Before, Final
  <1>8. \A w \in Worker : wk[w].now \in PJ /\ DOMAIN wk[w].todo \subseteq PJ
    BY TodoIs DEF TypeOK, Work
  <1>9. RecordInv'
    BY <1>6, <1>7, <1>8 DEF RecordInv
  <1> QED BY <1>1, <1>2, <1>3, <1>4, <1>9

LEMMA CreateStep ==
  ASSUME CIInv, NEW p \in PJ, Create(p) \/ Progress(p) \/ Touch(p) \/ Remove(p), UNCHANGED conf
  PROVE  CIInv'
  <1>1. TypeOK /\ api[p] \in Version /\ conf.outcomes \subseteq State \ {"triggered"} /\ used \in [Bound -> Nat]
    BY SettingFacts DEF CIInv, TypeOK, Bound
  <1>2. CASE Create(p)
    <2> DEFINE v == [state |-> "triggered", prev |-> "nil"]
    <2>1. v \in Version /\ Before(api[p].state, v.state)
      BY <1>2 DEF Create, Version, State, Active, Before
    <2>2. Writes(p, v)
      BY <1>1, <1>2, StoreWrites DEF Create
    <2> QED BY <1>1, <1>2, <2>1, <2>2, WriterStep DEF Create
  <1>3. CASE Progress(p)
    <2>1. PICK s \in conf.outcomes : /\ api[p].state \in IF s = "pending" THEN {"triggered"} ELSE Active
                                     /\ Store(p, [api[p] EXCEPT !.state = s])
      BY <1>3 DEF Progress
    <2> DEFINE v == [api[p] EXCEPT !.state = s]
    <2>2. v \in Version /\ v.prev = api[p].prev /\ v.state = s
      BY <1>1, <2>1 DEF Version
    <2>3. Before(api[p].state, v.state)
      BY <1>1, <2>1, <2>2 DEF State, Active, Final, Before
    <2>4. Writes(p, v)
      BY <1>1, <2>1, StoreWrites
    <2> HIDE DEF v
    <2> QED BY <1>1, <1>3, <2>2, <2>3, <2>4, WriterStep DEF Progress
  <1>4. CASE Touch(p)
    <2> DEFINE v == [api[p] EXCEPT !.prev = IF @ = "nil" THEN "empty" ELSE @]
    <2>1. v \in Version /\ v.prev \in {"empty", api[p].prev} /\ v.state = api[p].state
      BY <1>1 DEF Version
    <2>2. Before(api[p].state, v.state)
      BY <2>1 DEF Before
    <2>3. Writes(p, v)
      BY <1>4 DEF Touch, Writes
    <2>4. used' \in [Bound -> Nat] /\ used'["trouble"] = used["trouble"]
      BY <1>1, <1>4, SpendType DEF Touch, Bound
    <2> HIDE DEF v
    <2> QED BY <1>4, <2>1, <2>2, <2>3, <2>4, WriterStep DEF Touch
  <1>5. CASE Remove(p)
    <2> DEFINE v == Missing("gone")
    <2>1. v \in Version /\ v.prev = "nil" /\ Before(api[p].state, v.state)
      BY DEF Missing, Version, Before
    <2>2. Writes(p, v)
      BY <1>1, <1>5, StoreWrites DEF Remove
    <2>3. used' \in [Bound -> Nat] /\ used'["trouble"] = used["trouble"]
      BY <1>1, <1>5, SpendType DEF Remove, Bound
    <2> HIDE DEF v
    <2> QED BY <1>5, <2>1, <2>2, <2>3, WriterStep DEF Remove
  <1> QED BY <1>2, <1>3, <1>4, <1>5

-----------------------------------------------------------------------------
(* The informer.                                                           *)

\* The lister's copies move forward; nothing else does that the invariants speak of.
LEMMA ListerForward ==
  ASSUME CIInv, lister' \in [PJ -> Version],
         \A p \in PJ : Before(lister[p].state, lister'[p].state),
         UNCHANGED <<conf, api, wk, sent, used>>
  PROVE  SentInv' /\ RecordInv'
  <1> USE DEF CIInv
  <1>1. \A p \in PJ : lister[p].state \in Stage /\ lister'[p].state \in Stage
    BY StatesAre DEF Version, Stage
  <1>2. \A p \in PJ : \A s \in Stage : Before(s, lister[p].state) => Before(s, lister'[p].state)
    BY <1>1, BeforeTrans
  <1>3. State \subseteq Stage
    BY DEF Stage
  <1>4. \A p \in PJ : SentBefore(p, lister[p].state) => SentBefore(p, lister[p].state)'
    BY <1>2, <1>3, StatesAre DEF SentBefore
  <1>5. \A p \in PJ : RecordBefore(p, lister[p].state) => RecordBefore(p, lister[p].state)'
    <2>1. \A p \in PJ : api[p].prev \in {"nil", "empty"} \/ api[p].prev \in Stage
      BY DEF TypeOK, Version, Stage
    <2> QED BY <1>2, <2>1 DEF RecordBefore
  <1>6. \A w \in Worker : \A q \in DOMAIN wk[w].todo : q \in PJ /\ wk[w].todo[q].state \in Stage
    BY TodoIs
  <1>7. SentInv'
    BY <1>2, <1>4, <1>6 DEF SentInv, ReportsInOrder, SentBefore
  <1>8. RecordInv'
    BY <1>2, <1>5, <1>6 DEF RecordInv, RecordBefore
  <1> QED BY <1>7, <1>8

LEMMA DeliverStep ==
  ASSUME CIInv, NEW p \in PJ, Deliver(p), UNCHANGED conf
  PROVE  CIInv'
  <1> USE DEF CIInv
  <1> DEFINE s == stream[p]
  <1>1. s \in Seq(Version) /\ s # << >> /\ Len(s) \in Nat /\ DOMAIN s = 1..Len(s)
    BY DEF TypeOK, Deliver
  <1>2. PICK i \in {1, Len(s)} : /\ lister' = [lister EXCEPT ![p] = s[i]]
                                 /\ stream' = [stream EXCEPT ![p] = SubSeq(s, i + 1, Len(s))]
                                 /\ IF Present(s[i]) THEN AddRateLimited(p) ELSE UNCHANGED <<requeues, delayed>>
    BY DEF Deliver
  <1>3. i \in DOMAIN s /\ i \in Nat
    BY <1>1
  <1>4. s[i] \in Version
    BY <1>1, <1>3
  <1> DEFINE t == SubSeq(s, i + 1, Len(s))
  <1>5. /\ t \in Seq(Version)
        /\ \A k \in DOMAIN t : k \in Nat /\ k + i \in DOMAIN s /\ t[k] = s[k + i] /\ k + i > i
    BY <1>1, <1>3
  <1>6. /\ lister' \in [PJ -> Version] /\ lister'[p] = s[i] /\ \A q \in PJ \ {p} : lister'[q] = lister[q]
    BY <1>2, <1>4 DEF TypeOK
  <1>7. /\ stream' \in [PJ -> Seq(Version)] /\ stream'[p] = t /\ \A q \in PJ \ {p} : stream'[q] = stream[q]
    <2> HIDE DEF t
    <2>1. stream' = [stream EXCEPT ![p] = t] /\ stream \in [PJ -> Seq(Version)]
      BY <1>2 DEF TypeOK, t
    <2> QED BY <1>5, <2>1, Zenon
  <1> HIDE DEF t
  <1>8. UNCHANGED <<conf, api, wk, sent, used, dirty, processing>>
    BY DEF Deliver
  <1>9. TypeOK'
    <2>1. requeues' \in [PJ -> 0..NumRetries] /\ delayed' \subseteq PJ
      BY <1>2, RateType DEF TypeOK
    <2> QED BY <1>6, <1>7, <1>8, <2>1 DEF TypeOK
  <1>10. StreamInv'
    <2>1. /\ Before(s[i].state, api[p].state)
          /\ \A k \in DOMAIN t : Before(s[i].state, t[k].state) /\ Before(t[k].state, api[p].state)
      BY <1>3, <1>5 DEF StreamInv
    <2>2. \A k, l \in DOMAIN t : k < l => Before(t[k].state, t[l].state)
      <3> SUFFICES ASSUME NEW k \in DOMAIN t, NEW l \in DOMAIN t, k < l PROVE Before(t[k].state, t[l].state)
        OBVIOUS
      <3>1. k + i < l + i
        BY <1>3, <1>5
      <3> QED BY <1>5, <3>1 DEF StreamInv
    <2> QED BY <1>6, <1>7, <1>8, <2>1, <2>2 DEF StreamInv
  <1>11. \A q \in PJ : Before(lister[q].state, lister'[q].state)
    BY <1>3, <1>6 DEF StreamInv, Before
  <1>12. QueueInv'
    BY <1>8 DEF QueueInv
  <1> QED BY <1>6, <1>8, <1>9, <1>10, <1>11, <1>12, ListerForward

LEMMA ReleaseStep ==
  ASSUME CIInv, NEW p \in PJ, Release(p), UNCHANGED conf
  PROVE  CIInv'
  <1>1. TypeOK'
    BY DEF CIInv, TypeOK, Release
  <1>2. QueueInv' /\ StreamInv'
    BY DEF CIInv, QueueInv, StreamInv, Release
  <1>3. SentInv' /\ RecordInv'
    BY DEF CIInv, SentInv, RecordInv, ReportsInOrder, SentBefore, RecordBefore, Release
  <1> QED BY <1>1, <1>2, <1>3 DEF CIInv

-----------------------------------------------------------------------------
(* The workers.                                                            *)

\* The part of RecordInv that is about worker w.
RecordOf(w) ==
  /\ wk[w].pc # "idle" =>
       \A q \in DOMAIN wk[w].todo :
          wk[w].pc \in {"report", "patch", "poll"} \/ q # wk[w].now => Before(wk[w].todo[q].state, lister[q].state)
  /\ used.trouble = 0 =>
       /\ wk[w].pc = "patch" \/ (wk[w].pc = "report" /\ ~conf.gerrit) =>
            \A q \in DOMAIN wk[w].todo : RecordBefore(q, wk[w].todo[q].state)
       /\ wk[w].pc = "poll" =>
            \A q \in DOMAIN wk[w].todo \ {wk[w].now} : RecordBefore(q, wk[w].todo[q].state)
       /\ wk[w].pc = "refetch" => api[wk[w].now].state = "gone"
       /\ wk[w].pc \notin {"patch2", "poll2"}

LEMMA RecordParts ==
  RecordInv <=> /\ \A w \in Worker : RecordOf(w)
                /\ used.trouble = 0 => \A p \in PJ : RecordBefore(p, lister[p].state)
  BY DEF RecordInv, RecordOf

LEMMA MovesRecord ==
  ASSUME CIInv, NEW w \in Worker, \A v \in Worker \ {w} : wk'[v] = wk[v],
         UNCHANGED <<conf, api, lister>>, used'["trouble"] = 0 => used["trouble"] = 0, RecordOf(w)'
  PROVE  RecordInv'
  <1>1. \A v \in Worker : RecordOf(v)
    BY RecordParts DEF CIInv
  <1>2. \A v \in Worker \ {w} : RecordOf(v)'
    BY <1>1 DEF RecordOf, RecordBefore
  <1>3. used'["trouble"] = 0 => \A p \in PJ : RecordBefore(p, lister[p].state)'
    BY DEF CIInv, RecordInv, RecordBefore
  <1>4. \A v \in Worker : RecordOf(v)'
    BY <1>2
  <1> QED BY <1>3, <1>4 DEF RecordInv, RecordOf

LEMMA MovesSent ==
  ASSUME CIInv, NEW w \in Worker, \A v \in Worker \ {w} : wk'[v] = wk[v], wk'[w].pc # "report",
         UNCHANGED <<conf, lister, sent>>
  PROVE  SentInv'
  BY DEF CIInv, SentInv, SentBefore, ReportsInOrder

\* What a report sends is no older than what was sent before, and was in the lister.
LEMMA SnapFacts ==
  ASSUME CIInv, NEW w \in Worker, wk[w].pc = "report"
  PROVE  /\ Snap(w) \in Copies /\ DOMAIN Snap(w) \in SUBSET PJ
         /\ ~conf.gerrit => DOMAIN Snap(w) = {wk[w].key}
         /\ \A q \in DOMAIN Snap(w) :
              /\ Snap(w)[q].state \in State
              /\ Before(Snap(w)[q].state, lister[q].state) /\ SentBefore(q, Snap(w)[q].state)
              /\ used.trouble = 0 => RecordBefore(q, Snap(w)[q].state)
  <1> USE DEF CIInv
  <1>1. CASE conf.gerrit
    <2> DEFINE R == Reported(wk[w].key)
    <2>1. R \in SUBSET PJ /\ \A q \in R : Present(lister[q])
      BY <1>1 DEF Reported, Together
    <2>2. Snap(w) = [q \in R |-> lister[q]]
      BY <1>1 DEF Snap
    <2> HIDE DEF R
    <2>3. [q \in R |-> lister[q]] \in [R -> Held]
      BY <2>1 DEF Held, TypeOK
    <2>4. \A q \in R : lister[q].state \in State /\ Before(lister[q].state, lister[q].state)
      BY <2>1 DEF Present, Before
    <2> QED BY <1>1, <2>1, <2>2, <2>3, <2>4, CopyType DEF SentInv, RecordInv
  <1>2. CASE ~conf.gerrit
    <2>1. Snap(w) = wk[w].todo
      BY <1>2 DEF Snap
    <2> QED BY <1>2, <2>1, TodoIs DEF QueueInv, SentInv, RecordInv
  <1> QED BY <1>1, <1>2

LEMMA SendSent ==
  ASSUME CIInv, NEW w \in Worker, wk[w].pc = "report", SendTo(Snap(w)),
         \A v \in Worker \ {w} : wk'[v] = wk[v], wk'[w].pc # "report", UNCHANGED <<conf, lister>>
  PROVE  sent' \in [PJ -> Seq(State)] /\ SentInv'
  <1> USE DEF CIInv
  <1> DEFINE f == Snap(w)
  <1>1. \A q \in PJ : sent[q] \in Seq(State)
    BY DEF TypeOK
  <1>2. \A q \in DOMAIN f : /\ q \in PJ /\ f[q].state \in State
                            /\ Before(f[q].state, lister[q].state) /\ SentBefore(q, f[q].state)
    BY SnapFacts
  <1>3. sent' = [q \in PJ |-> IF q \in DOMAIN f THEN Append(sent[q], f[q].state) ELSE sent[q]]
    BY DEF SendTo
  <1> HIDE DEF f
  <1>4. \A q \in DOMAIN f : Append(sent[q], f[q].state) \in Seq(State)
    BY <1>1, <1>2
  <1>5. sent' \in [PJ -> Seq(State)]
    BY <1>1, <1>3, <1>4, Zenon
  <1>6. ASSUME NEW q \in DOMAIN f
        PROVE  /\ \A i \in DOMAIN sent'[q] : i \in Nat /\ (i \in DOMAIN sent[q] \/ i = Len(sent[q]) + 1)
               /\ \A i \in DOMAIN sent[q] : i \in 1..Len(sent[q]) /\ sent'[q][i] = sent[q][i]
               /\ sent'[q][Len(sent[q]) + 1] = f[q].state /\ Len(sent[q]) \in Nat
    <2>1. sent'[q] = Append(sent[q], f[q].state) /\ sent[q] \in Seq(State)
      BY <1>1, <1>2, <1>3
    <2> QED BY <2>1
  <1>7. \A q \in PJ \ DOMAIN f : sent'[q] = sent[q]
    BY <1>3
  <1>8. \A q \in PJ : SentBefore(q, lister[q].state)'
    <2>1. ASSUME NEW q \in DOMAIN f PROVE SentBefore(q, lister[q].state)'
      BY <1>2, <1>6, <2>1 DEF SentInv, SentBefore
    <2> QED BY <1>7, <2>1 DEF SentInv, SentBefore
  <1>9. ReportsInOrder'
    <2> SUFFICES ASSUME NEW q \in PJ, NEW i \in DOMAIN sent'[q], NEW j \in DOMAIN sent'[q], i < j
                 PROVE  \/ sent'[q][i] = sent'[q][j]
                        \/ sent'[q][i] = "triggered"
                        \/ sent'[q][i] = "pending" /\ sent'[q][j] \in Final
      BY DEF ReportsInOrder
    <2>1. CASE q \notin DOMAIN f
      BY <1>7, <2>1 DEF SentInv, ReportsInOrder
    <2>2. CASE q \in DOMAIN f /\ j \in DOMAIN sent[q]
      <3>1. i \in DOMAIN sent[q]
        BY <1>6, <2>2
      <3> QED BY <1>6, <2>2, <3>1 DEF SentInv, ReportsInOrder
    <2>3. CASE q \in DOMAIN f /\ j = Len(sent[q]) + 1
      <3>1. i \in DOMAIN sent[q]
        BY <1>6, <2>3
      <3>2. sent'[q][i] = sent[q][i] /\ sent'[q][j] = f[q].state /\ sent[q][i] \in State
        BY <1>6, <2>3, <3>1, StatesAre
      <3>3. Before(sent[q][i], f[q].state)
        BY <1>2, <2>3, <3>1 DEF SentBefore
      <3> QED BY <1>2, <2>3, <3>2, <3>3 DEF Before, State, Active, Final
    <2> QED BY <1>6, <2>1, <2>2, <2>3
  <1>10. ASSUME NEW v \in Worker, wk'[v].pc = "report", ~conf.gerrit, NEW p \in DOMAIN wk'[v].todo
         PROVE  SentBefore(p, wk[v].todo[p].state)'
    <2>1. v # w /\ wk'[v] = wk[v]
      BY <1>10
    <2>2. p \notin DOMAIN f /\ p \in PJ
      <3>1. DOMAIN f = {wk[w].key}
        BY <1>10, SnapFacts DEF f
      <3>2. DOMAIN wk[v].todo = {wk[v].key} /\ wk[v].key # wk[w].key
        BY <1>10, <2>1 DEF QueueInv
      <3>3. p \in DOMAIN wk[v].todo /\ DOMAIN wk[v].todo \in SUBSET PJ
        BY <1>10, <2>1, TodoIs
      <3> QED BY <3>1, <3>2, <3>3
    <2>3. SentBefore(p, wk[v].todo[p].state) /\ sent'[p] = sent[p]
      BY <1>7, <1>10, <2>1, <2>2 DEF SentInv
    <2> QED BY <2>1, <2>3 DEF SentBefore
  <1> QED BY <1>5, <1>8, <1>9, <1>10 DEF SentInv

\* A key is taken from the queue.
LEMMA GetStep ==
  ASSUME CIInv, NEW w \in conf.workers, NEW p \in PJ, Get(w, p), UNCHANGED conf
  PROVE  CIInv'
  <1> USE DEF CIInv
  <1> DEFINE mine == Present(lister[p]) /\ ShouldReport(p)
  <1>1. /\ w \in Worker /\ wk[w].pc = "idle" /\ p \notin processing /\ dirty' = dirty \ {p}
        /\ UNCHANGED <<api, stream, delayed, sent, used, conf>>
        /\ lister' = [lister EXCEPT ![p].prev = IF mine /\ lister[p].prev = "nil" THEN "empty" ELSE lister[p].prev]
    BY SettingFacts DEF Get, Process
  <1>2. /\ lister' \in [PJ -> Version]
        /\ \A q \in PJ : lister'[q].state = lister[q].state
    BY <1>1 DEF TypeOK, Version
  <1>3. StreamInv'
    BY <1>1, <1>2 DEF StreamInv
  <1>4. CASE UNCHANGED <<wk, processing>> /\ requeues' = [requeues EXCEPT ![p] = 0]
    <2>1. TypeOK'
      BY <1>1, <1>2, <1>4, CrierAssumption DEF TypeOK
    <2>2. QueueInv'
      BY <1>1, <1>4 DEF QueueInv
    <2>3. \A q \in PJ : Before(lister[q].state, lister'[q].state)
      BY <1>2 DEF Before
    <2> QED BY <1>1, <1>2, <1>3, <1>4, <2>1, <2>2, <2>3, ListerForward
  <1>5. CASE /\ mine /\ processing' = processing \cup {p} /\ UNCHANGED requeues
             /\ wk' = [wk EXCEPT ![w] = [pc |-> "report", key |-> p, now |-> p, todo |-> [q \in {p} |-> lister[p]]]]
    <2> DEFINE t == [q \in {p} |-> lister[p]]
               x == [pc |-> "report", key |-> p, now |-> p, todo |-> t]
    <2>1. t \in Copies /\ DOMAIN t = {p} /\ t[p] = lister[p]
      <3>1. t \in [{p} -> Held] /\ {p} \in SUBSET PJ
        BY <1>5 DEF Held, TypeOK
      <3> QED BY <3>1, CopyType
    <2>2. wk' = [wk EXCEPT ![w] = x]
      BY <1>5
    <2> HIDE DEF t
    <2>3. x \in Work /\ x.pc = "report" /\ x.key = p /\ x.todo = t
      BY <2>1 DEF Work, PCs
    <2> HIDE DEF x
    <2>4. wk' \in [Worker -> Work] /\ wk'[w] = x /\ \A v \in Worker \ {w} : wk'[v] = wk[v]
      BY <1>1, <2>2, <2>3 DEF TypeOK
    <2>5. TypeOK'
      BY <1>1, <1>2, <1>5, <2>4 DEF TypeOK
    <2>6. QueueInv'
      <3>1. \A v \in Worker \ {w} : wk'[v].pc # "idle" => wk'[v].key # p
        BY <1>1, <2>4 DEF QueueInv
      <3> QED BY <1>1, <1>5, <2>1, <2>3, <2>4, <3>1 DEF QueueInv
    <2>7. SentInv'
      <3>1. ReportsInOrder' /\ \A q \in PJ : SentBefore(q, lister[q].state)'
        BY <1>1, <1>2 DEF SentInv, ReportsInOrder, SentBefore
      <3>2. ASSUME NEW v \in Worker, wk'[v].pc = "report", ~conf'.gerrit, NEW q \in DOMAIN wk'[v].todo
            PROVE  SentBefore(q, wk[v].todo[q].state)'
        <4>1. CASE v = w
          BY <1>1, <2>1, <2>3, <2>4, <3>2, <4>1 DEF SentInv, SentBefore
        <4>2. CASE v # w
          BY <1>1, <2>4, <3>2, <4>2 DEF SentInv, SentBefore
        <4> QED BY <4>1, <4>2
      <3> QED BY <3>1, <3>2 DEF SentInv
    <2>8. RecordInv'
      <3>1. \A v \in Worker : RecordOf(v)
        BY RecordParts
      <3>2. ASSUME NEW v \in Worker \ {w} PROVE RecordOf(v)'
        <4>1. \A q \in DOMAIN wk[v].todo : q \in PJ
          BY TodoIs
        <4> QED BY <1>1, <1>2, <2>4, <3>1, <4>1 DEF RecordOf, RecordBefore
      <3>3. RecordOf(w)'
        <4>1. Before(lister[p].state, lister'[p].state)
          BY <1>2 DEF Before
        <4>2. used.trouble = 0 => RecordBefore(p, lister[p].state)
          BY DEF RecordInv
        <4>3. used'["trouble"] = 0 => api'[p].prev \in {"nil", "empty"} \/ Before(api'[p].prev, t[p].state)
          BY <1>1, <2>1, <4>2 DEF RecordBefore
        <4> QED BY <1>1, <2>1, <2>3, <2>4, <4>1, <4>3 DEF RecordOf, RecordBefore
      <3>4. used'["trouble"] = 0 => \A q \in PJ : RecordBefore(q, lister[q].state)'
        BY <1>1, <1>2 DEF RecordInv, RecordBefore
      <3>5. \A v \in Worker : RecordOf(v)'
        BY <3>2, <3>3
      <3> QED BY <3>4, <3>5 DEF RecordInv, RecordOf
    <2> QED BY <1>3, <2>5, <2>6, <2>7, <2>8
  <1> QED BY <1>4, <1>5 DEF Get, Process

LEMMA StopsStep ==
  ASSUME CIInv, NEW w \in Worker, wk[w].pc # "idle", Stops(w), UNCHANGED <<conf, api, stream, lister, dirty>>,
         requeues' \in [PJ -> 0..NumRetries], delayed' \subseteq PJ,
         sent' = sent \/ (SendTo(Snap(w)) /\ wk[w].pc = "report"),
         used' \in [Bound -> Nat], used'["trouble"] = 0 => used["trouble"] = 0
  PROVE  CIInv'
  <1> USE DEF CIInv
  <1>1. /\ \A v \in Worker \ {w} : wk'[v] = wk[v]
        /\ wk'[w].pc = "idle"
    BY IdleType DEF Stops, TypeOK
  <1>2. RecordInv'
    <2>1. RecordOf(w)'
      BY <1>1 DEF RecordOf
    <2> QED BY <1>1, <2>1, MovesRecord
  <1>3. sent' \in [PJ -> Seq(State)] /\ SentInv'
    BY <1>1, MovesSent, SendSent DEF TypeOK
  <1>4. QueueInv' /\ StreamInv'
    BY StopsQueue DEF StreamInv
  <1>5. TypeOK'
    BY <1>3, StopsType DEF TypeOK, Bound
  <1> QED BY <1>2, <1>3, <1>4, <1>5

LEMMA ReportStep ==
  ASSUME CIInv, NEW w \in conf.workers, Report(w), UNCHANGED conf
  PROVE  CIInv'
  <1> USE DEF CIInv
  <1>1. w \in Worker /\ wk[w].pc = "report" /\ SendTo(Snap(w)) /\ UNCHANGED <<api, stream, lister, used>>
    BY SettingFacts DEF Report
  <1>2. CASE Forget(w)
    BY <1>1, <1>2, ForgetStops, StopsStep DEF TypeOK, Bound
  <1>3. CASE wk' = [wk EXCEPT ![w].pc = "patch", ![w].todo = Snap(w)] /\ UNCHANGED queueVars
    <2>1. Goes(w, "patch", wk[w].now, Snap(w))
      BY <1>1, <1>3, GoesIf, SnapFacts, TodoIs DEF PCs, queueVars
    <2>2. sent' \in [PJ -> Seq(State)] /\ SentInv'
      BY <1>1, <2>1, SendSent DEF Goes
    <2>3. RecordOf(w)'
      <3>1. \A q \in DOMAIN Snap(w) : /\ Before(Snap(w)[q].state, lister'[q].state)
                                      /\ used'["trouble"] = 0 => RecordBefore(q, Snap(w)[q].state)
        BY <1>1, SnapFacts
      <3> QED BY <1>1, <2>1, <3>1 DEF Goes, RecordOf, RecordBefore
    <2>4. RecordInv'
      BY <1>1, <2>1, <2>3, MovesRecord DEF Goes
    <2>5. QueueInv'
      BY <1>1, <2>1, GoesQueue, SnapFacts DEF PCs
    <2>6. TypeOK' /\ StreamInv'
      BY <1>1, <1>3, <2>1, <2>2 DEF TypeOK, StreamInv, Goes, queueVars
    <2> QED BY <2>2, <2>4, <2>5, <2>6
  <1> QED BY <1>2, <1>3 DEF Report

LEMMA ReportFailsStep ==
  ASSUME CIInv, NEW w \in conf.workers, ReportFails(w), UNCHANGED conf
  PROVE  CIInv'
  <1>1. w \in Worker /\ wk[w].pc = "report" /\ UNCHANGED <<api, stream, lister>> /\ retry(w) /\ Spend("report")
    BY SettingFacts DEF ReportFails, CIInv
  <1>2. used' \in [Bound -> Nat] /\ used'["trouble"] = used["trouble"]
    BY <1>1, SpendType DEF CIInv, Bound
  <1>3. sent' = sent \/ SendTo(Snap(w))
    BY DEF ReportFails
  <1> QED BY <1>1, <1>2, <1>3, ForgetStops, StopsStep DEF CIInv

LEMMA RefusedFacts ==
  ASSUME CIInv, NEW q \in PJ, Refused(q)
  PROVE  used' \in [Bound -> Nat] /\ (used'["trouble"] = 0 => used["trouble"] = 0 /\ ~Present(api[q]))
  <1>1. TypeOK /\ used \in [Bound -> Nat] /\ "trouble" \in Bound
    BY DEF CIInv, TypeOK, Bound
  <1> QED BY <1>1, SpendType DEF Refused

\* A ProwJob that was in the lister and is not in the API server has been deleted.
LEMMA GoneFrom ==
  ASSUME CIInv, NEW q \in PJ, NEW s \in State, Before(s, lister[q].state),
         ~Present(api[q]) \/ ~Present(lister[q])
  PROVE  api[q].state = "gone"
  <1>1. s \in Stage /\ api[q].state \in Stage /\ lister[q].state \in Stage /\ Before(lister[q].state, api[q].state)
    BY StatesAre DEF CIInv, StreamInv, Stage
  <1>2. Before(s, api[q].state)
    BY <1>1, BeforeTrans
  <1>3. CASE ~Present(api[q])
    BY <1>1, <1>2, <1>3 DEF Before, Present, Stage, State, Active, Final
  <1>4. CASE ~Present(lister[q])
    <2>1. lister[q].state = "gone"
      BY <1>1, <1>4 DEF Before, Present, Stage, State, Active, Final
    <2> QED BY <1>1, <2>1 DEF Before, Final
  <1> QED BY <1>3, <1>4

LEMMA PatchWrites ==
  ASSUME CIInv, NEW q \in PJ, NEW v \in Held, PatchOf(q, v)
  PROVE  \E nv \in Version : Writes(q, nv) /\ nv.state = api[q].state /\ nv.prev \in {api[q].prev, v.state}
  <1> DEFINE nv == IF v.prev = v.state THEN api[q] ELSE [api[q] EXCEPT !.prev = v.state]
  <1>1. api[q] \in Version /\ v.state \in State
    BY DEF CIInv, TypeOK, Held, Present
  <1>2. nv \in Version /\ nv.state = api[q].state /\ nv.prev \in {api[q].prev, v.state}
    BY <1>1 DEF Version
  <1>3. Writes(q, nv)
    BY StoreWrites DEF PatchOf, CIInv
  <1> QED BY <1>2, <1>3

\* A worker whose record goes on while api, lister and sent stay.
LEMMA GoesStep ==
  ASSUME CIInv, NEW w \in Worker, NEW pc \in PCs \ {"idle", "report"}, NEW now, NEW todo, wk[w].pc # "idle",
         Goes(w, pc, now, todo), UNCHANGED <<conf, api, stream, lister, queueVars, sent>>,
         used' \in [Bound -> Nat], used'["trouble"] = 0 => used["trouble"] = 0,
         ~conf.gerrit => DOMAIN todo = {wk[w].key}, pc # "patch" => now \in DOMAIN todo, RecordOf(w)'
  PROVE  CIInv'
  <1> USE DEF CIInv
  <1>1. RecordInv'
    BY MovesRecord DEF Goes
  <1>2. SentInv'
    BY MovesSent DEF Goes
  <1>3. QueueInv'
    BY GoesQueue
  <1>4. TypeOK' /\ StreamInv'
    BY DEF TypeOK, StreamInv, Goes, queueVars, Bound
  <1> QED BY <1>1, <1>2, <1>3, <1>4

LEMMA PatchStep ==
  ASSUME CIInv, NEW w \in conf.workers, Patch(w), UNCHANGED conf
  PROVE  CIInv'
  <1> USE DEF CIInv
  <1>1. w \in Worker /\ wk[w].pc = "patch" /\ UNCHANGED <<lister, queueVars, sent>>
    BY SettingFacts DEF Patch
  <1>2. PICK q \in DOMAIN wk[w].todo :
          \/ /\ Present(api[q]) /\ PatchOf(q, wk[w].todo[q])
             /\ wk' = [wk EXCEPT ![w].pc = "poll", ![w].now = q] /\ UNCHANGED used
          \/ /\ Refused(q) /\ wk' = [wk EXCEPT ![w].pc = "refetch", ![w].now = q] /\ UNCHANGED <<api, stream>>
    BY DEF Patch
  <1> DEFINE todo == wk[w].todo
  <1>3. /\ q \in PJ /\ todo \in Copies /\ todo[q] \in Held /\ todo[q].state \in State
        /\ DOMAIN todo \in SUBSET PJ /\ (~conf.gerrit => DOMAIN todo = {wk[w].key})
    BY <1>1, TodoIs DEF QueueInv
  <1>4. Before(todo[q].state, lister[q].state)
    BY <1>1 DEF RecordInv
  <1>5. CASE Refused(q) /\ wk' = [wk EXCEPT ![w].pc = "refetch", ![w].now = q] /\ UNCHANGED <<api, stream>>
    <2>1. Goes(w, "refetch", q, todo)
      BY <1>1, <1>3, <1>5, GoesIf DEF PCs, queueVars
    <2>2. used' \in [Bound -> Nat] /\ (used'["trouble"] = 0 => used["trouble"] = 0 /\ ~Present(api[q]))
      BY <1>3, <1>5, RefusedFacts
    <2>3. used'["trouble"] = 0 => api'[q].state = "gone"
      BY <1>3, <1>4, <1>5, <2>2, GoneFrom
    <2>4. RecordOf(w)'
      BY <1>1, <2>1, <2>3 DEF RecordOf, RecordInv, Goes
    <2> QED BY <1>1, <1>3, <1>5, <2>1, <2>2, <2>4, GoesStep DEF PCs
  <1>6. CASE /\ Present(api[q]) /\ PatchOf(q, todo[q])
             /\ wk' = [wk EXCEPT ![w].pc = "poll", ![w].now = q] /\ UNCHANGED used
    <2>1. Goes(w, "poll", q, todo)
      BY <1>1, <1>3, <1>6, GoesIf DEF PCs, queueVars
    <2>2. PICK nv \in Version : Writes(q, nv) /\ nv.state = api[q].state /\ nv.prev \in {api[q].prev, todo[q].state}
      BY <1>3, <1>6, PatchWrites
    <2>3. api' \in [PJ -> Version] /\ stream' \in [PJ -> Seq(Version)] /\ StreamInv'
      BY <1>1, <1>3, <2>2, WritesStream DEF Before
    <2>4. TypeOK'
      BY <1>1, <1>6, <2>1, <2>3 DEF TypeOK, Goes, queueVars
    <2>5. QueueInv'
      BY <1>1, <1>3, <2>1, GoesQueue DEF PCs
    <2>6. SentInv'
      BY <1>1, <2>1, MovesSent DEF Goes
    <2>7. /\ \A r \in PJ \ {q} : api'[r] = api[r] /\ \A t : RecordBefore(r, t) => RecordBefore(r, t)'
          /\ api'[q].prev \in {api[q].prev, todo[q].state}
          /\ \A r \in PJ : api'[r].state = api[r].state
      BY <1>3, <2>2 DEF Writes, TypeOK, RecordBefore
    <2>8. used'["trouble"] = 0 => \A r \in PJ : RecordBefore(r, lister[r].state)'
      BY <1>1, <1>3, <1>4, <1>6, <2>7 DEF RecordInv, RecordBefore
    <2>9. ASSUME NEW v \in Worker, wk[v].pc # "idle", v # w PROVE q \notin DOMAIN wk[v].todo
      <3>1. ~conf.gerrit
        BY <1>1, <2>9, SettingFacts DEF QueueInv
      <3>2. DOMAIN wk[v].todo = {wk[v].key} /\ wk[v].key # wk[w].key
        BY <1>1, <2>9, <3>1 DEF QueueInv
      <3> QED BY <1>3, <3>1, <3>2
    <2>10. \A v \in Worker : RecordOf(v)
      BY RecordParts
    <2>11. ASSUME NEW v \in Worker \ {w} PROVE RecordOf(v)'
      <3>1. wk'[v] = wk[v] /\ wk[v].now \in PJ /\ \A r \in DOMAIN wk[v].todo : r \in PJ
        BY <2>1, TodoIs DEF Goes
      <3>2. CASE wk[v].pc = "idle"
        BY <3>1, <3>2 DEF RecordOf
      <3>3. CASE wk[v].pc # "idle"
        <4>1. \A r \in DOMAIN wk[v].todo : r \in PJ \ {q}
          BY <2>9, <3>1, <3>3
        <4>2. \A r \in DOMAIN wk[v].todo :
                RecordBefore(r, wk[v].todo[r].state) => RecordBefore(r, wk[v].todo[r].state)'
          BY <2>7, <3>1, <4>1 DEF RecordBefore
        <4>3. RecordOf(v) /\ api'[wk[v].now].state = api[wk[v].now].state
          BY <2>7, <2>10, <3>1
        <4> HIDE DEF CIInv
        <4> QED BY <1>1, <1>6, <3>1, <4>2, <4>3 DEF RecordOf
      <3> QED BY <3>2, <3>3
    <2>12. RecordOf(w)'
      <3>1. \A r \in DOMAIN todo : Before(todo[r].state, lister[r].state)
        BY <1>1 DEF RecordInv
      <3>2. used.trouble = 0 => \A r \in DOMAIN todo \ {q} : RecordBefore(r, todo[r].state) /\ r \in PJ \ {q}
        BY <1>1, <1>3 DEF RecordInv
      <3>3. used.trouble = 0 => \A r \in DOMAIN todo \ {q} : RecordBefore(r, todo[r].state)'
        BY <1>1, <2>1, <2>7, <3>2 DEF Goes, RecordBefore
      <3> QED BY <1>1, <1>6, <2>1, <3>1, <3>3 DEF RecordOf, Goes
    <2>13. \A v \in Worker : RecordOf(v)'
      BY <2>11, <2>12
    <2>14. RecordInv'
      BY <2>8, <2>13 DEF RecordInv, RecordOf
    <2> QED BY <2>3, <2>4, <2>5, <2>6, <2>14
  <1> QED BY <1>2, <1>5, <1>6

LEMMA PollStep ==
  ASSUME CIInv, NEW w \in conf.workers, Poll(w), UNCHANGED conf
  PROVE  CIInv'
  <1> USE DEF CIInv
  <1> DEFINE todo == wk[w].todo
             rest == [q \in DOMAIN todo \ {wk[w].now} |-> todo[q]]
  <1>1. /\ w \in Worker /\ wk[w].pc \in {"poll", "poll2"} /\ UNCHANGED <<api, stream, lister, sent, used>>
        /\ used \in [Bound -> Nat]
    BY SettingFacts DEF Poll, TypeOK, Bound
  <1>2. CASE Forget(w)
    BY <1>1, <1>2, ForgetStops, StopsStep
  <1>3. CASE /\ wk' = [wk EXCEPT ![w].pc = "patch", ![w].todo = rest] /\ UNCHANGED queueVars
             /\ DOMAIN todo # {wk[w].now}
    <2>1. todo \in [DOMAIN todo -> Held] /\ DOMAIN todo \in SUBSET PJ /\ wk[w].now \in PJ /\ wk[w].now \in DOMAIN todo
      BY <1>1, CopyIs, TodoIs DEF QueueInv
    <2>2. rest \in [DOMAIN todo \ {wk[w].now} -> Held] /\ DOMAIN todo \ {wk[w].now} \in SUBSET PJ
      BY <2>1
    <2>3. rest \in Copies
      BY <2>2, CopyType
    <2>4. Goes(w, "patch", wk[w].now, rest)
      <3> HIDE DEF rest
      <3> QED BY <1>1, <1>3, <2>1, <2>3, GoesIf DEF PCs, queueVars
    <2>5. conf.gerrit
      BY <1>1, <1>3, <2>1 DEF QueueInv
    <2>6. RecordOf(w)'
      <3>1. used.trouble = 0 => wk[w].pc = "poll"
        BY <1>1 DEF RecordInv
      <3>2. \A q \in DOMAIN rest : q \in DOMAIN todo \ {wk[w].now} /\ rest[q] = todo[q]
        OBVIOUS
      <3>3. used.trouble = 0 => \A q \in DOMAIN rest : RecordBefore(q, rest[q].state)
        BY <1>1, <3>1, <3>2 DEF RecordInv
      <3>4. \A q \in DOMAIN rest : Before(rest[q].state, lister[q].state)
        BY <1>1, <3>1, <3>2 DEF RecordInv
      <3> HIDE DEF rest
      <3> QED BY <1>1, <2>4, <3>3, <3>4 DEF RecordOf, RecordBefore, Goes
    <2> HIDE DEF rest
    <2> QED BY <1>1, <1>3, <2>4, <2>5, <2>6, GoesStep DEF PCs
  <1> QED BY <1>2, <1>3 DEF Poll, NextReported

LEMMA PollFailsStep ==
  ASSUME CIInv, NEW w \in conf.workers, PollFails(w), UNCHANGED conf
  PROVE  CIInv'
  <1> USE DEF CIInv
  <1> DEFINE now == wk[w].now
  <1>1. /\ w \in Worker /\ wk[w].pc \in {"poll", "poll2"} /\ UNCHANGED <<api, stream, lister, sent>>
        /\ now \in PJ /\ now \in DOMAIN wk[w].todo
    BY SettingFacts, TodoIs DEF PollFails, QueueInv
  <1>2. used' \in [Bound -> Nat] /\ (used'["trouble"] = 0 => used["trouble"] = 0 /\ ~Present(lister[now]))
    <2>1. used \in [Bound -> Nat] /\ "trouble" \in Bound
      BY DEF TypeOK, Bound
    <2> QED BY <2>1, SpendType DEF PollFails
  <1>3. CASE Forget(w)
    BY <1>1, <1>2, <1>3, ForgetStops, StopsStep
  <1>4. CASE wk[w].pc = "poll" /\ wk' = [wk EXCEPT ![w].pc = "refetch"] /\ UNCHANGED queueVars
    <2>1. Goes(w, "refetch", now, wk[w].todo)
      BY <1>1, <1>4, GoesIf, TodoIs DEF PCs, queueVars
    <2>2. used'["trouble"] = 0 => api'[now].state = "gone"
      <3>1. wk[w].todo[now].state \in State /\ Before(wk[w].todo[now].state, lister[now].state)
        BY <1>1, <1>4, TodoIs DEF RecordInv
      <3> QED BY <1>1, <1>2, <3>1, GoneFrom
    <2>3. RecordOf(w)'
      BY <1>1, <1>4, <2>1, <2>2 DEF RecordOf, RecordInv, Goes
    <2>4. ~conf.gerrit => DOMAIN wk[w].todo = {wk[w].key}
      BY <1>1 DEF QueueInv
    <2> QED BY <1>1, <1>2, <1>4, <2>1, <2>3, <2>4, GoesStep DEF PCs
  <1> QED BY <1>1, <1>3, <1>4 DEF PollFails

LEMMA RefetchStep ==
  ASSUME CIInv, NEW w \in conf.workers, Refetch(w), UNCHANGED conf
  PROVE  CIInv'
  <1> USE DEF CIInv
  <1> DEFINE q == wk[w].now
             todo == wk[w].todo
             again == [todo EXCEPT ![q] = api[q]]
  <1>1. /\ w \in Worker /\ wk[w].pc = "refetch" /\ UNCHANGED <<api, stream, lister, sent>>
        /\ q \in PJ /\ q \in DOMAIN todo
    BY SettingFacts, TodoIs DEF Refetch, QueueInv
  <1>2. CASE Refused(q) /\ Forget(w)
    BY <1>1, <1>2, RefusedFacts, ForgetStops, StopsStep
  <1>3. CASE Present(api[q]) /\ wk' = [wk EXCEPT ![w].pc = "patch2", ![w].todo[q] = api[q]] /\ UNCHANGED <<queueVars, used>>
    <2>1. todo \in [DOMAIN todo -> Held] /\ DOMAIN todo \in SUBSET PJ /\ api[q] \in Held
      BY <1>1, <1>3, CopyIs, TodoIs DEF TypeOK, Held
    <2>2. again \in Copies /\ DOMAIN again = DOMAIN todo
      <3>1. again \in [DOMAIN todo -> Held]
        BY <2>1
      <3> QED BY <2>1, <3>1, CopyType
    <2>3. Goes(w, "patch2", q, again)
      <3>1. wk' = [wk EXCEPT ![w].pc = "patch2", ![w].todo = again]
        <4>1. wk \in [Worker -> Work]
          BY DEF TypeOK
        <4> QED BY <1>1, <1>3, <4>1 DEF Work
      <3> HIDE DEF again
      <3> QED BY <1>1, <1>3, <2>2, <3>1, GoesIf DEF PCs, queueVars
    <2>4. used'["trouble"] # 0
      BY <1>1, <1>3 DEF RecordInv, Present, State, Active, Final
    <2>5. RecordOf(w)'
      <3>1. \A r \in DOMAIN again : r # q => again[r] = todo[r] /\ Before(todo[r].state, lister[r].state)
        BY <1>1, <2>2 DEF RecordInv
      <3> HIDE DEF again
      <3> QED BY <1>1, <2>3, <2>4, <3>1 DEF RecordOf, Goes
    <2>6. ~conf.gerrit => DOMAIN todo = {wk[w].key}
      BY <1>1 DEF QueueInv
    <2>7. used' \in [Bound -> Nat]
      BY <1>3 DEF TypeOK, Bound
    <2> HIDE DEF again
    <2> QED BY <1>1, <1>3, <2>2, <2>3, <2>4, <2>5, <2>6, <2>7, GoesStep DEF PCs
  <1> QED BY <1>2, <1>3 DEF Refetch

LEMMA PatchAgainStep ==
  ASSUME CIInv, NEW w \in conf.workers, PatchAgain(w), UNCHANGED conf
  PROVE  CIInv'
  <1> USE DEF CIInv
  <1> DEFINE q == wk[w].now
             todo == wk[w].todo
  <1>1. /\ w \in Worker /\ wk[w].pc = "patch2" /\ UNCHANGED <<lister, sent>>
        /\ q \in PJ /\ q \in DOMAIN todo /\ todo[q] \in Held /\ todo \in Copies
    BY SettingFacts, TodoIs DEF PatchAgain, QueueInv
  <1>2. CASE Refused(q) /\ Forget(w) /\ UNCHANGED <<api, stream>>
    BY <1>1, <1>2, RefusedFacts, ForgetStops, StopsStep
  <1>3. CASE PatchOf(q, todo[q]) /\ wk' = [wk EXCEPT ![w].pc = "poll2"] /\ UNCHANGED <<queueVars, used>>
    <2>1. Goes(w, "poll2", q, todo)
      BY <1>1, <1>3, GoesIf DEF PCs, queueVars
    <2>2. PICK nv \in Version : Writes(q, nv) /\ nv.state = api[q].state
      BY <1>1, <1>3, PatchWrites
    <2>3. api' \in [PJ -> Version] /\ stream' \in [PJ -> Seq(Version)] /\ StreamInv'
      BY <1>1, <2>2, WritesStream DEF Before
    <2>4. TypeOK'
      BY <1>1, <1>3, <2>1, <2>3 DEF TypeOK, Goes, queueVars
    <2>5. QueueInv'
      <3>1. ~conf.gerrit => DOMAIN todo = {wk[w].key}
        BY <1>1 DEF QueueInv
      <3> QED BY <1>1, <2>1, <3>1, GoesQueue DEF PCs
    <2>6. SentInv'
      BY <1>1, <2>1, MovesSent DEF Goes
    <2>7. RecordInv'
      <3>1. used.trouble # 0
        BY <1>1 DEF RecordInv
      <3> QED BY <1>1, <1>3, <2>1, <3>1 DEF RecordInv, Goes
    <2> QED BY <2>3, <2>4, <2>5, <2>6, <2>7
  <1> QED BY <1>2, <1>3 DEF PatchAgain

-----------------------------------------------------------------------------
(* Restarts, the first state and all steps.                                *)

LEMMA CRestartStep ==
  ASSUME CIInv, Restart, UNCHANGED conf
  PROVE  CIInv'
  <1> USE DEF CIInv
  <1>1. /\ lister' = api /\ stream' = [p \in PJ |-> << >>] /\ UNCHANGED <<api, sent>>
        /\ wk' = [w \in Worker |-> Idle]
    BY DEF Restart
  <1>2. used' \in [Bound -> Nat] /\ used'["trouble"] = used["trouble"]
    BY SpendType DEF Restart, Bound
  <1>3. \A w \in Worker : wk'[w].pc = "idle"
    BY <1>1, IdleType
  <1>4. TypeOK'
    <2>1. /\ requeues' \in [PJ -> 0..NumRetries] /\ delayed' \subseteq PJ /\ dirty' \subseteq PJ /\ processing' \subseteq PJ
      BY CrierAssumption DEF Restart
    <2>2. wk' \in [Worker -> Work]
      BY <1>1, IdleType
    <2>3. stream' \in [PJ -> Seq(Version)]
      BY <1>1
    <2> QED BY <1>1, <1>2, <2>1, <2>2, <2>3 DEF TypeOK, Bound
  <1>5. QueueInv'
    BY <1>3 DEF QueueInv
  <1>6. StreamInv'
    <2>1. \A p \in PJ : stream'[p] = << >>
      BY <1>1
    <2>2. \A p \in PJ : \A i \in DOMAIN stream'[p] : FALSE
      BY <2>1
    <2>3. \A p \in PJ : Before(lister'[p].state, api'[p].state)
      BY <1>1 DEF Before
    <2> QED BY <2>2, <2>3 DEF StreamInv
  <1>7. \A p \in PJ : \A s \in Stage : Before(s, lister[p].state) => Before(s, lister'[p].state)
    BY <1>1, BeforeTrans, StatesAre DEF StreamInv
  <1>8. SentInv'
    <2>1. \A p \in PJ : \A i \in DOMAIN sent[p] : sent[p][i] \in Stage
      BY StatesAre DEF Stage
    <2>2. \A p \in PJ : SentBefore(p, lister[p].state)'
      BY <1>1, <1>7, <2>1 DEF SentInv, SentBefore
    <2> QED BY <1>1, <1>3, <2>2 DEF SentInv, ReportsInOrder
  <1>9. RecordInv'
    <2>1. \A p \in PJ : api[p].prev \in {"nil", "empty"} \/ api[p].prev \in Stage
      BY DEF TypeOK, Version, Stage
    <2> QED BY <1>1, <1>2, <1>3, <1>7, <2>1 DEF RecordInv, RecordBefore
  <1> QED BY <1>4, <1>5, <1>6, <1>8, <1>9

LEMMA CInitially ==
  ASSUME Init PROVE CIInv
  <1> USE DEF Init
  <1>1. \A w \in Worker : wk[w].pc = "idle"
    BY IdleType
  <1>2. TypeOK
    <2>1. api \in [PJ -> Version]
      BY DEF Missing, Version
    <2>2. stream \in [PJ -> Seq(Version)] /\ sent \in [PJ -> Seq(State)]
      OBVIOUS
    <2>3. wk \in [Worker -> Work]
      BY IdleType
    <2>4. used \in [{"touch", "report", "trouble", "removal", "crash"} -> Nat]
      OBVIOUS
    <2>5. requeues \in [PJ -> 0..NumRetries]
      BY CrierAssumption
    <2> QED BY <2>1, <2>2, <2>3, <2>4, <2>5 DEF TypeOK
  <1>3. QueueInv
    BY <1>1 DEF QueueInv
  <1>4. StreamInv
    <2>1. lister = api /\ stream = [p \in PJ |-> << >>]
      OBVIOUS
    <2>2. \A p \in PJ : stream[p] = << >>
      BY <2>1
    <2>3. \A p \in PJ : \A i \in DOMAIN stream[p] : FALSE
      BY <2>2
    <2>4. \A p \in PJ : Before(lister[p].state, api[p].state)
      BY <2>1 DEF Before
    <2> QED BY <2>3, <2>4 DEF StreamInv
  <1>5. SentInv
    <2>1. \A p \in PJ : sent[p] = << >>
      OBVIOUS
    <2>2. \A p \in PJ : \A i \in DOMAIN sent[p] : FALSE
      BY <2>1
    <2> QED BY <1>1, <2>2 DEF SentInv, ReportsInOrder, SentBefore
  <1>6. RecordInv
    BY <1>1 DEF RecordInv, RecordBefore, Missing
  <1> QED BY <1>2, <1>3, <1>4, <1>5, <1>6 DEF CIInv

LEMMA CStep ==
  ASSUME CIInv, [Next]_vars
  PROVE  CIInv'
  <1>1. conf.pjs \subseteq PJ
    BY SettingFacts DEF CIInv
  <1>2. CASE UNCHANGED vars
    <2>1. TypeOK' /\ QueueInv' /\ StreamInv'
      BY <1>2 DEF CIInv, TypeOK, QueueInv, StreamInv, vars, queueVars
    <2>2. SentInv' /\ RecordInv'
      BY <1>2 DEF CIInv, SentInv, RecordInv, ReportsInOrder, SentBefore, RecordBefore, vars
    <2> QED BY <2>1, <2>2 DEF CIInv
  <1>3. ASSUME NEW p \in conf.pjs, UNCHANGED conf,
               Create(p) \/ Progress(p) \/ Touch(p) \/ Remove(p) \/ Deliver(p) \/ Release(p)
        PROVE  CIInv'
    BY <1>1, <1>3, CreateStep, DeliverStep, ReleaseStep
  <1>4. ASSUME NEW w \in conf.workers, UNCHANGED conf, WorkerStep(w) \/ ReportFails(w) PROVE CIInv'
    BY <1>4, GetStep, ReportStep, PatchStep, PollStep, RefetchStep, PatchAgainStep, PollFailsStep, ReportFailsStep
       DEF WorkerStep
  <1> QED BY <1>2, <1>3, <1>4, CRestartStep DEF Next, Done

\* The inductive invariant of crier (processNextItem, updateReportState): a key is with
\* one worker at a time, what a worker holds is never ahead of the ProwJob, and what was sent is in
\* order, whatever fails, is deleted or restarted.
THEOREM CInvariance == Spec => []CIInv
  <1>1. Init => CIInv
    BY CInitially
  <1>2. CIInv /\ [Next]_vars => CIInv'
    BY CStep
  <1> QED BY <1>1, <1>2, PTL DEF Spec

\* The reports of a ProwJob follow the order of its states, and nothing is reported after a
\* final state but that state, for any number of workers and any lag of the lister (processNextItem
\* compares the state with prev_report_states before it reports).
THEOREM ReportsOrdered == Spec => []ReportsInOrder
  <1>1. CIInv => ReportsInOrder
    BY DEF CIInv, SentInv
  <1> QED BY <1>1, CInvariance, PTL

\* What prev_report_states records never goes back to an earlier state, as long as no patch
\* or poll has failed (updateReportState, which polls the lister after its patch).
THEOREM RecordsAdvance == Spec => RecordNeverRegresses
  <1> DEFINE A == \A p \in PJ : Present(api'[p]) /\ used.trouble = 0 => Rank(api'[p].prev) >= Rank(api[p].prev)
  <1>1. ASSUME CIInv, [Next]_vars PROVE A
    <2> SUFFICES ASSUME NEW p \in PJ, Present(api'[p]), used.trouble = 0
                 PROVE  Rank(api'[p].prev) >= Rank(api[p].prev)
      OBVIOUS
    <2> USE <1>1 DEF CIInv
    <2>1. \A s : Rank(s) \in 0..3
      BY DEF Rank
    <2>2. Rank("nil") = 0 /\ Rank("empty") = 0
      BY DEF Rank, Final
    <2>3. \A s, t \in State : Before(s, t) => Rank(t) >= Rank(s)
      BY DEF Before, Rank, State, Active, Final
    <2>4. api \in [PJ -> Version] /\ (api[p].state \notin State => api[p].state \in {"new", "gone"})
      BY DEF TypeOK, Version
    <2>5. CASE api'[p].prev = api[p].prev
      BY <2>1, <2>5
    <2>6. ASSUME NEW q \in PJ, Create(q) \/ Progress(q) \/ Touch(q) \/ Remove(q) PROVE Rank(api'[p].prev) >= Rank(api[p].prev)
      <3>1. CASE Create(q)
        <4>1. api[q].prev \in {"nil", "empty"}
          <5>1. lister[q].state = "new" /\ RecordBefore(q, lister[q].state)
            BY <2>6, <3>1, StatesAre DEF Create, StreamInv, RecordInv, Before, Final
          <5>2. api[q].prev \in State \cup {"nil", "empty"}
            BY <2>6 DEF TypeOK, Version
          <5> QED BY <5>1, <5>2 DEF RecordBefore, Before, State, Active, Final
        <4> QED BY <2>1, <2>2, <2>4, <2>5, <2>6, <3>1, <4>1 DEF Create, Store
      <3>2. CASE Progress(q)
        BY <2>4, <2>5, <2>6, <3>2 DEF Progress, Store, Version
      <3>3. CASE Touch(q)
        BY <2>1, <2>2, <2>4, <2>5, <2>6, <3>3 DEF Touch, Store, Version
      <3>4. CASE Remove(q)
        BY <2>4, <2>5, <2>6, <3>4 DEF Remove, Store, Missing, Present, State, Active, Final
      <3> QED BY <2>6, <3>1, <3>2, <3>3, <3>4
    <2>7. ASSUME NEW w \in conf.workers, Patch(w) PROVE Rank(api'[p].prev) >= Rank(api[p].prev)
      <3>1. w \in Worker /\ wk[w].pc = "patch"
        BY <2>7, SettingFacts DEF Patch
      <3>2. PICK q \in DOMAIN wk[w].todo : PatchOf(q, wk[w].todo[q]) \/ UNCHANGED api
        BY <2>7 DEF Patch
      <3>3. q \in PJ /\ wk[w].todo[q].state \in State /\ wk[w].todo[q] \in Held
        BY <3>1, TodoIs
      <3>4. RecordBefore(q, wk[w].todo[q].state)
        BY <3>1 DEF RecordInv
      <3>5. CASE api[q].prev \in {"nil", "empty"} \/ UNCHANGED api \/ p # q
        BY <2>1, <2>2, <2>4, <2>5, <3>2, <3>3, <3>5 DEF PatchOf, Store, Version
      <3>6. CASE p = q /\ PatchOf(q, wk[w].todo[q]) /\ api[q].prev \in State
        <4>1. api'[q].prev \in {api[q].prev, wk[w].todo[q].state}
          BY <2>4, <3>3, <3>6 DEF PatchOf, Store, Version
        <4>2. api[q].prev \notin {"nil", "empty"}
          BY <3>6 DEF State, Active, Final
        <4> QED BY <2>3, <2>5, <3>3, <3>4, <3>6, <4>1, <4>2 DEF RecordBefore
      <3> QED BY <2>4, <3>2, <3>3, <3>5, <3>6 DEF Version
    <2>8. ASSUME NEW w \in conf.workers, PatchAgain(w) PROVE FALSE
      BY <2>8, SettingFacts DEF PatchAgain, RecordInv
    <2>9. CASE UNCHANGED api
      BY <2>5, <2>9
    <2>10. CASE \E q \in conf.pjs : Create(q) \/ Progress(q) \/ Touch(q) \/ Remove(q) \/ Deliver(q) \/ Release(q)
      BY <2>6, <2>9, <2>10, SettingFacts DEF Deliver, Release
    <2>11. CASE \E w \in conf.workers : WorkerStep(w) \/ ReportFails(w)
      BY <2>7, <2>8, <2>9, <2>11
         DEF WorkerStep, Get, Process, Report, Poll, Refetch, PollFails, ReportFails
    <2> QED BY <2>9, <2>10, <2>11 DEF Next, Restart, Done, vars
  <1> QED BY <1>1, CInvariance, PTL DEF Spec, RecordNeverRegresses
=============================================================================
