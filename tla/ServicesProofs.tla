---------------------------- MODULE ServicesProofs ----------------------------
(***************************************************************************)
(* What the services beside plank and crier guarantee for every instance:  *)
(* the shutdown protocol and the throttler that the servers share, the     *)
(* Jenkins operator, and the pipeline controller.                          *)
(***************************************************************************)
EXTENDS Runtime, JenkinsOperator, Pipeline,
        FiniteSetTheorems, SequenceTheorems, WellFoundedInduction, TLAPS

-----------------------------------------------------------------------------
(* The shutdown protocol.                                                  *)

\* Any set of workers is finite.
LEMMA WorkersFinite ==
  ASSUME NEW s \in SUBSET {"run", "tick", "context", "hook", "server"}
  PROVE  IsFiniteSet(s)
  <1>1. IsFiniteSet({} \cup {"run"})
    BY FS_EmptySet, FS_AddElement
  <1>2. IsFiniteSet({} \cup {"run"} \cup {"tick"})
    BY <1>1, FS_AddElement
  <1>3. IsFiniteSet({} \cup {"run"} \cup {"tick"} \cup {"context"})
    BY <1>2, FS_AddElement
  <1>4. IsFiniteSet({} \cup {"run"} \cup {"tick"} \cup {"context"} \cup {"hook"})
    BY <1>3, FS_AddElement
  <1>5. IsFiniteSet({} \cup {"run"} \cup {"tick"} \cup {"context"} \cup {"hook"} \cup {"server"})
    BY <1>4, FS_AddElement
  <1>6. s \subseteq {} \cup {"run"} \cup {"tick"} \cup {"context"} \cup {"hook"} \cup {"server"}
    OBVIOUS
  <1> QED BY <1>5, <1>6, FS_Subset

\* A worker that goes on or off moves the number of engaged workers by one.
LEMMA EngagedMoves ==
  ASSUME ShutdownInv, NEW k \in ikinds, NEW to, UNCHANGED ikinds, iwork' = [iwork EXCEPT ![k] = to]
  PROVE  /\ iwork[k] = "new" /\ to = "on" => Cardinality(Engaged') = Cardinality(Engaged) + 1
         /\ iwork[k] \in {"on", "busy"} /\ to \in {"done", "cancelled"} =>
              Cardinality(Engaged') = Cardinality(Engaged) - 1 /\ Engaged' \subseteq Engaged
         /\ iwork[k] \in {"on", "busy"} /\ to \in {"on", "busy"} => Engaged' = Engaged
  <1>1. IsFiniteSet(Engaged)
    <2>1. Engaged \in SUBSET {"run", "tick", "context", "hook", "server"}
      BY DEF ShutdownInv, Engaged
    <2> QED BY <2>1, WorkersFinite
  <1>2. iwork[k] = "new" /\ to = "on" => Engaged' = Engaged \cup {k} /\ k \notin Engaged
    BY DEF ShutdownInv, Engaged
  <1>3. iwork[k] \in {"on", "busy"} /\ to \in {"done", "cancelled"} => Engaged' = Engaged \ {k} /\ k \in Engaged
    BY DEF ShutdownInv, Engaged
  <1>4. iwork[k] \in {"on", "busy"} /\ to \in {"on", "busy"} => Engaged' = Engaged
    BY DEF ShutdownInv, Engaged
  <1> QED BY <1>1, <1>2, <1>3, <1>4, FS_AddElement, FS_RemoveElement

LEMMA ShutdownInit == IInit => ShutdownInv
  <1> SUFFICES ASSUME IInit PROVE ShutdownInv
    OBVIOUS
  <1>1. Engaged = {}
    BY DEF IInit, Engaged
  <1> QED BY <1>1, FS_EmptySet, RuntimeAssumption DEF IInit, ShutdownInv

\* Registering, working and ending.
LEMMA WorkerStep ==
  ASSUME ShutdownInv, IEnd \/ TickWork \/ \E k \in ikinds : Register(k)
  PROVE  ShutdownInv'
  <1> USE DEF irest, IGo, IUp
  <1>1. ASSUME NEW k \in ikinds, Register(k) PROVE ShutdownInv'
    <2>1. Cardinality(Engaged') = Cardinality(Engaged) + 1
      BY <1>1, EngagedMoves DEF Register
    <2> QED BY <1>1, <2>1 DEF Register, ShutdownInv
  <1>2. CASE TickWork \/ TickWorked \/ HookStarts
    <2>1. Engaged' = Engaged
      BY <1>2, EngagedMoves DEF TickWork, TickWorked, HookStarts
    <2> QED BY <1>2, <2>1 DEF TickWork, TickWorked, HookStarts, ShutdownInv
  <1>3. CASE TickSignal
    <2>1. Engaged' = Engaged
      BY <1>3 DEF TickSignal, Engaged
    <2> QED BY <1>3, <2>1 DEF TickSignal, ShutdownInv
  <1>4. CASE RunEnds \/ TickStops \/ ContextCancelled
    <2>1. Cardinality(Engaged') = Cardinality(Engaged) - 1 /\ Engaged' \subseteq Engaged
      BY <1>4, EngagedMoves DEF RunEnds, TickStops, ContextCancelled
    <2> QED BY <1>4, <2>1 DEF RunEnds, TickStops, ContextCancelled, ShutdownInv
  <1>5. CASE ServerStops
    <2>1. Cardinality(Engaged') = Cardinality(Engaged) - 1 /\ Engaged' \subseteq Engaged
      BY <1>5, EngagedMoves DEF ServerStops
    <2> QED BY <1>5, <2>1 DEF ServerStops, ShutdownInv
  <1>6. CASE HookEnds
    <2>1. Cardinality(Engaged') = Cardinality(Engaged) - 1 /\ Engaged' \subseteq Engaged
      BY <1>6, EngagedMoves DEF HookEnds
    <2>2. \A r \in IRequests : ireq'[r] # "early"
      BY <1>6 DEF HookEnds, ActiveHandlers
    <2> QED BY <1>6, <2>1, <2>2 DEF HookEnds, ShutdownInv
  <1> QED BY <1>1, <1>2, <1>3, <1>4, <1>5, <1>6 DEF IEnd

\* The inductive invariant of the shutdown protocol (src/interrupts with hook's handlers): the
\* WaitGroup counts exactly the workers that are engaged, whatever set of workers a process has
\* and however many webhooks it gets.
THEOREM ShutdownInvariance == ISpec => []ShutdownInv
  <1>1. ShutdownInv /\ [INext]_shutdownVars => ShutdownInv'
    <2> SUFFICES ASSUME ShutdownInv, [INext]_shutdownVars PROVE ShutdownInv'
      OBVIOUS
    <2>1. CASE Interrupt
      BY <2>1 DEF Interrupt, ShutdownInv, Engaged
    <2>2. CASE TickWork \/ IEnd \/ \E k \in ikinds : Register(k)
      BY <2>2, WorkerStep
    <2>3. CASE WaitForGracefulShutdown
      <3>1. Engaged' = Engaged /\ (icount = 0 => Engaged = {})
        <4>1. IsFiniteSet(Engaged)
          BY WorkersFinite DEF ShutdownInv, Engaged
        <4> QED BY <2>3, <4>1, FS_EmptySet DEF WaitForGracefulShutdown, Engaged, ShutdownInv
      <3> QED BY <2>3, <3>1 DEF WaitForGracefulShutdown, ShutdownInv
    <2>4. CASE GracePeriodOver
      BY <2>4 DEF GracePeriodOver, ShutdownInv, Engaged
    <2>5. ASSUME NEW r \in IRequests, RequestStep(r) PROVE ShutdownInv'
      BY <2>5 DEF RequestStep, ShutdownInv, Engaged
    <2>6. CASE UNCHANGED shutdownVars
      BY <2>6 DEF shutdownVars, ShutdownInv, Engaged
    <2> QED BY <2>1, <2>2, <2>3, <2>4, <2>5, <2>6 DEF INext
  <1> QED BY ShutdownInit, <1>1, PTL DEF ISpec

\* When WaitForGracefulShutdown returns because all is finished, the work that was given to Run,
\* Tick or OnInterrupt is done, and so are the handlers that hook started before the signal.
THEOREM ShutdownGraceful == ISpec => []ShutdownIsGraceful
  <1>1. ShutdownInv => ShutdownIsGraceful
    BY DEF ShutdownInv, ShutdownIsGraceful, Engaged
  <1> QED BY <1>1, ShutdownInvariance, PTL

-----------------------------------------------------------------------------
(* The throttler of the GitHub client.                                     *)

\* What a step of one call does to the tokens that are held.
LEMMA HoldingMoves ==
  ASSUME ThrottleInv, NEW c \in TClients,
         \A d \in TClients : d # c => tcall'[d] = tcall[d]
  PROVE  /\ Cardinality(Holding) \in Nat /\ Cardinality(Holding') \in Nat
         /\ c \notin Holding /\ c \in Holding' => Cardinality(Holding') = Cardinality(Holding) + 1
         /\ c \in Holding /\ c \notin Holding' => Cardinality(Holding') = Cardinality(Holding) - 1
         /\ (c \in Holding <=> c \in Holding') => Cardinality(Holding') = Cardinality(Holding)
  <1>1. IsFiniteSet(Holding) /\ IsFiniteSet(Holding')
    BY RuntimeAssumption, FS_Subset DEF Holding
  <1>2. c \notin Holding /\ c \in Holding' => Holding' = Holding \cup {c}
    BY DEF Holding
  <1>3. c \in Holding /\ c \notin Holding' => Holding' = Holding \ {c}
    BY DEF Holding
  <1>4. (c \in Holding <=> c \in Holding') => Holding' = Holding
    BY DEF Holding
  <1> QED BY <1>1, <1>2, <1>3, <1>4, FS_AddElement, FS_RemoveElement, FS_CardinalityType

LEMMA ThrottleInit == TInit => ThrottleInv
  <1> SUFFICES ASSUME TInit PROVE ThrottleInv
    OBVIOUS
  <1>1. Holding = {} /\ Cardinality(Holding) = 0
    BY FS_EmptySet DEF TInit, Holding
  <1>2. tcall \in [TClients -> TCallRecord]
    BY DEF TInit, TCallRecord
  <1>3. tmode \in TModes /\ tmode.burst \in Nat /\ ttokens = tmode.burst /\ tticks = 0 /\ tcost = 0
    BY RuntimeAssumption DEF TInit
  <1>4. tcost + ttokens + Cardinality(Holding) <= tmode.burst + tticks
    BY <1>1, <1>3
  <1>5. \A c \in TClients : tcall[c].pc = "wait" /\ tcall[c].answer = ""
    BY DEF TInit
  <1>6. treaders = {} /\ twriter = {}
    BY DEF TInit
  <1>7. /\ treaders = {c \in TClients : tcall[c].pc \in {"token", "refunding"}}
        /\ twriter = {c \in TClients : tcall[c].pc = "query"}
    BY <1>5, <1>6
  <1>8. \A c \in TClients : tcall[c].answer \in {"ok", "free"} \/ tcall[c].pc = "end" => tcall[c].done
    BY <1>5
  <1>9. \A c, d \in twriter : c = d
    BY <1>6
  <1>10. ttokens \in Nat /\ tticks \in Nat /\ tcost \in Nat /\ ttokens <= tmode.burst
    BY <1>3
  <1> QED BY <1>2, <1>3, <1>4, <1>6, <1>7, <1>8, <1>9, <1>10 DEF ThrottleInv

\* A step of one call changes its own record only, which stays well-formed; what it says of the
\* answer is true.
LEMMA CallTypes ==
  ASSUME ThrottleInv, NEW c \in TClients, TCall(c)
  PROVE  /\ tcall' \in [TClients -> TCallRecord]
         /\ \A d \in TClients : d # c => tcall'[d] = tcall[d]
         /\ tcall'[c].answer \in {"ok", "free"} \/ tcall'[c].pc = "end" => tcall'[c].done
         /\ tmode' = tmode /\ tticks' = tticks
  <1>0. tcall \in [TClients -> TCallRecord] /\ tcall[c] \in TCallRecord
    BY DEF ThrottleInv
  <1>00. tcall[c].answer \in {"ok", "free"} => tcall[c].done
    BY DEF ThrottleInv
  <1>1. CASE WaitLocks(c) \/ WaitTakes(c) \/ QueryWaits(c) \/ QueryLocks(c) \/ RefundLocks(c) \/ Refund(c)
    <2>1. PICK pc \in {"token", "send", "lock", "locking", "query", "refunding", "answered"} :
            tcall' = [tcall EXCEPT ![c].pc = pc]
      BY <1>1 DEF WaitLocks, WaitTakes, QueryWaits, QueryLocks, RefundLocks, Refund, TGo
    <2>2. tmode' = tmode /\ tticks' = tticks
      BY <1>1 DEF WaitLocks, WaitTakes, QueryWaits, QueryLocks, RefundLocks, Refund
    <2> QED BY <1>0, <1>00, <2>1, <2>2 DEF TCallRecord
  <1>2. CASE QueryEnds(c)
    BY <1>0, <1>2 DEF QueryEnds, TCallRecord, Answers
  <1>3. CASE doRequest(c)
    <2>1. PICK a \in Answers, d \in BOOLEAN :
            /\ a \in {"ok", "free"} => d
            /\ tcall' = [tcall EXCEPT ![c].pc = IF a = "free" THEN "refund" ELSE "answered", ![c].answer = a,
                                      ![c].done = tcall[c].done \/ d]
      BY <1>3, Zenon DEF doRequest
    <2>2. tmode' = tmode /\ tticks' = tticks
      BY <1>3 DEF doRequest
    <2>3. tcall[c].done \in BOOLEAN
      BY <1>0 DEF TCallRecord
    <2>4. /\ \A e \in TClients : e # c => tcall'[e] = tcall[e]
          /\ tcall'[c].pc \in {"refund", "answered"} /\ tcall'[c].answer = a
          /\ tcall'[c].done = (tcall[c].done \/ d)
      BY <1>0, <2>1, <2>3 DEF TCallRecord
    <2>5. tcall' \in [TClients -> TCallRecord]
      BY <1>0, <2>1, <2>3 DEF TCallRecord
    <2> QED BY <2>1, <2>2, <2>3, <2>4, <2>5
  <1>4. CASE requestRetry(c)
    <2>1. PICK pc \in {"wait", "end", "error"}, n \in {tcall[c].retries + 1} :
            /\ tcall' = [tcall EXCEPT ![c].retries = n, ![c].answer = "", ![c].pc = pc]
            /\ pc = "end" => tcall[c].answer \in {"ok", "free"}
      BY <1>4 DEF requestRetry
    <2>2. n \in Nat
      <3>1. tcall[c].retries \in Nat
        BY <1>0 DEF TCallRecord
      <3>2. n = tcall[c].retries + 1
        BY <2>1
      <3> QED BY <3>1, <3>2
    <2>3. tmode' = tmode /\ tticks' = tticks
      BY <1>4 DEF requestRetry
    <2>4. /\ \A e \in TClients : e # c => tcall'[e] = tcall[e]
          /\ tcall'[c].pc = pc /\ tcall'[c].answer = "" /\ tcall'[c].done = tcall[c].done
      BY <1>0, <2>1, <2>2 DEF TCallRecord
    <2>5. tcall' \in [TClients -> TCallRecord]
      BY <1>0, <2>1, <2>2 DEF TCallRecord
    <2> QED BY <1>00, <2>1, <2>3, <2>4, <2>5
  <1> QED BY <1>1, <1>2, <1>3, <1>4 DEF TCall

\* The tokens: what a call takes, spends or gives back.
LEMMA TokensStep ==
  ASSUME ThrottleInv, NEW c \in TClients, TCall(c)
  PROVE  /\ ttokens' \in Nat /\ tcost' \in Nat /\ ttokens' <= tmode.burst
         /\ tcost' + ttokens' + Cardinality(Holding') <= tmode.burst + tticks
  <1>0. /\ ttokens \in Nat /\ tticks \in Nat /\ tcost \in Nat /\ tmode.burst \in Nat
        /\ ttokens <= tmode.burst
        /\ tcost + ttokens + Cardinality(Holding) <= tmode.burst + tticks
        /\ tcall \in [TClients -> TCallRecord]
    BY RuntimeAssumption DEF ThrottleInv
  <1>1. /\ Cardinality(Holding) \in Nat /\ Cardinality(Holding') \in Nat
        /\ c \notin Holding /\ c \in Holding' => Cardinality(Holding') = Cardinality(Holding) + 1
        /\ c \in Holding /\ c \notin Holding' => Cardinality(Holding') = Cardinality(Holding) - 1
        /\ (c \in Holding <=> c \in Holding') => Cardinality(Holding') = Cardinality(Holding)
    BY CallTypes, HoldingMoves
  <1> DEFINE holds(pc) == pc \in {"lock", "locking", "query", "send", "refund", "refunding"}
  <1>2. (c \in Holding <=> holds(tcall[c].pc)) /\ (c \in Holding' <=> holds(tcall'[c].pc))
    BY DEF Holding
  <1>3. CASE WaitLocks(c) \/ QueryWaits(c) \/ QueryLocks(c) \/ RefundLocks(c) \/ requestRetry(c)
    <2>1. UNCHANGED <<ttokens, tcost>>
      BY <1>3 DEF WaitLocks, QueryWaits, QueryLocks, RefundLocks, requestRetry
    <2>2. holds(tcall[c].pc) <=> holds(tcall'[c].pc)
      <3>1. CASE requestRetry(c)
        BY <1>0, <3>1 DEF requestRetry, TCallRecord
      <3>2. CASE WaitLocks(c) \/ QueryWaits(c) \/ QueryLocks(c) \/ RefundLocks(c)
        <4>1. CASE WaitLocks(c) \/ QueryLocks(c)
          BY <1>0, <4>1 DEF WaitLocks, QueryLocks, TGo, TCallRecord
        <4>2. CASE QueryWaits(c) \/ RefundLocks(c)
          BY <1>0, <4>2 DEF QueryWaits, RefundLocks, TGo, TCallRecord
        <4> QED BY <3>2, <4>1, <4>2
      <3> QED BY <1>3, <3>1, <3>2
    <2> QED BY <1>0, <1>1, <1>2, <2>1, <2>2
  <1>4. CASE WaitTakes(c)
    <2>1. ttokens > 0 /\ ttokens' = ttokens - 1 /\ tcost' = tcost
      BY <1>4 DEF WaitTakes
    <2>2. ~holds(tcall[c].pc) /\ holds(tcall'[c].pc)
      BY <1>0, <1>4 DEF WaitTakes, TGo, TCallRecord
    <2>3. Cardinality(Holding') = Cardinality(Holding) + 1
      BY <1>1, <1>2, <2>2
    <2> QED BY <1>0, <1>1, <2>1, <2>3
  <1>5. CASE QueryEnds(c)
    <2>1. ttokens' = ttokens /\ tcost' = tcost + 1
      BY <1>5 DEF QueryEnds
    <2>2. holds(tcall[c].pc) /\ ~holds(tcall'[c].pc)
      BY <1>0, <1>5 DEF QueryEnds, TCallRecord
    <2>3. Cardinality(Holding') = Cardinality(Holding) - 1
      BY <1>1, <1>2, <2>2
    <2> QED BY <1>0, <1>1, <2>1, <2>3
  <1>6. CASE doRequest(c)
    <2>1. PICK a \in Answers, d \in BOOLEAN :
            /\ tcall' = [tcall EXCEPT ![c].pc = IF a = "free" THEN "refund" ELSE "answered", ![c].answer = a,
                                      ![c].done = tcall[c].done \/ d]
            /\ tcost' = IF a = "free" THEN tcost ELSE tcost + 1
      BY <1>6, Zenon DEF doRequest
    <2>2. ttokens' = ttokens
      BY <1>6 DEF doRequest
    <2>3. holds(tcall[c].pc)
      BY <1>6 DEF doRequest
    <2>4. tcall'[c].pc = IF a = "free" THEN "refund" ELSE "answered"
      BY <1>0, <2>1 DEF TCallRecord
    <2>5. CASE a = "free"
      BY <1>0, <1>1, <1>2, <2>1, <2>2, <2>3, <2>4, <2>5
    <2>6. CASE a # "free"
      <3>1. Cardinality(Holding') = Cardinality(Holding) - 1
        BY <1>1, <1>2, <2>3, <2>4, <2>6
      <3>2. tcost' = tcost + 1
        BY <2>1, <2>6
      <3> QED BY <1>0, <1>1, <2>2, <3>1, <3>2
    <2> QED BY <2>5, <2>6
  <1>7. CASE Refund(c)
    <2>1. ttokens' = (IF ttokens < tmode.burst THEN ttokens + 1 ELSE ttokens) /\ tcost' = tcost
      BY <1>7 DEF Refund
    <2>2. holds(tcall[c].pc) /\ ~holds(tcall'[c].pc)
      BY <1>0, <1>7 DEF Refund, TGo, TCallRecord
    <2>3. Cardinality(Holding') = Cardinality(Holding) - 1
      BY <1>1, <1>2, <2>2
    <2> QED BY <1>0, <1>1, <2>1, <2>3
  <1> QED BY <1>3, <1>4, <1>5, <1>6, <1>7 DEF TCall

\* The lock: who holds it for reading, who for writing, and that they exclude each other.
LEMMA LockStep ==
  ASSUME ThrottleInv, NEW c \in TClients, TCall(c)
  PROVE  /\ treaders' = {d \in TClients : tcall'[d].pc \in {"token", "refunding"}}
         /\ twriter' = {d \in TClients : tcall'[d].pc = "query"}
         /\ \A d, e \in twriter' : d = e
         /\ twriter' = {} \/ treaders' = {}
  <1>0. /\ tcall \in [TClients -> TCallRecord]
        /\ treaders = {d \in TClients : tcall[d].pc \in {"token", "refunding"}}
        /\ twriter = {d \in TClients : tcall[d].pc = "query"}
        /\ \A d, e \in twriter : d = e
        /\ twriter = {} \/ treaders = {}
    BY DEF ThrottleInv
  <1>1. \A d \in TClients : d # c => tcall'[d] = tcall[d]
    BY CallTypes
  <1>2. CASE WaitLocks(c) \/ RefundLocks(c)
    <2>1. twriter = {} /\ treaders' = treaders \cup {c} /\ twriter' = twriter
      BY <1>2 DEF WaitLocks, RefundLocks, RLock
    <2>2. tcall'[c].pc \in {"token", "refunding"}
      BY <1>0, <1>2 DEF WaitLocks, RefundLocks, TGo, TCallRecord
    <2> QED BY <1>0, <1>1, <2>1, <2>2
  <1>3. CASE WaitTakes(c) \/ Refund(c)
    <2>1. treaders' = treaders \ {c} /\ twriter' = twriter
      BY <1>3 DEF WaitTakes, Refund, RUnlock
    <2>2. tcall[c].pc # "query" /\ tcall'[c].pc \notin {"token", "refunding", "query"}
      <3>1. CASE WaitTakes(c)
        BY <1>0, <3>1 DEF WaitTakes, TGo, TCallRecord
      <3>2. CASE Refund(c)
        BY <1>0, <3>2 DEF Refund, TGo, TCallRecord
      <3> QED BY <1>3, <3>1, <3>2
    <2> QED BY <1>0, <1>1, <2>1, <2>2
  <1>4. CASE QueryLocks(c)
    <2>1. treaders = {} /\ treaders' = treaders /\ twriter = {} /\ twriter' = {c}
      BY <1>4 DEF QueryLocks
    <2>2. tcall'[c].pc = "query"
      BY <1>0, <1>4 DEF QueryLocks, TGo, TCallRecord
    <2> QED BY <1>0, <1>1, <2>1, <2>2
  <1>5. CASE QueryEnds(c)
    <2>1. tcall[c].pc = "query" /\ treaders' = treaders /\ twriter' = {}
      BY <1>5 DEF QueryEnds
    <2>2. tcall'[c].pc = "end"
      BY <1>0, <1>5 DEF QueryEnds, TCallRecord
    <2>3. twriter = {c}
      BY <1>0, <2>1
    <2> QED BY <1>0, <1>1, <2>1, <2>2, <2>3
  <1>6. CASE QueryWaits(c) \/ doRequest(c) \/ requestRetry(c)
    <2>1. treaders' = treaders /\ twriter' = twriter
      BY <1>6 DEF QueryWaits, doRequest, requestRetry, tlock
    <2>2. tcall[c].pc \notin {"token", "refunding", "query"}
      BY <1>6 DEF QueryWaits, doRequest, requestRetry, TGo
    <2>3. tcall'[c].pc \notin {"token", "refunding", "query"}
      <3>1. CASE QueryWaits(c)
        BY <1>0, <3>1 DEF QueryWaits, TGo, TCallRecord
      <3>2. CASE doRequest(c)
        <4>1. PICK a \in Answers, d \in BOOLEAN :
                tcall' = [tcall EXCEPT ![c].pc = IF a = "free" THEN "refund" ELSE "answered", ![c].answer = a,
                                       ![c].done = tcall[c].done \/ d]
          BY <3>2, Zenon DEF doRequest
        <4> QED BY <1>0, <4>1 DEF TCallRecord
      <3>3. CASE requestRetry(c)
        <4> DEFINE n == tcall[c].retries + 1
                   over == Final(tcall[c].answer, tcall[c].retries) \/ n >= TMaxRetries
                   next == IF ~over THEN "wait" ELSE IF tcall[c].answer \in {"ok", "free"} THEN "end" ELSE "error"
        <4>1. tcall' = [tcall EXCEPT ![c].retries = n, ![c].answer = "", ![c].pc = next]
          BY Zenon, <3>3 DEF requestRetry
        <4>2. next \in {"wait", "end", "error"}
          OBVIOUS
        <4> HIDE DEF n, over, next
        <4> QED BY <1>0, <4>1, <4>2 DEF TCallRecord
      <3> QED BY <1>6, <3>1, <3>2, <3>3
    <2> QED BY <1>0, <1>1, <2>1, <2>2, <2>3
  <1> QED BY <1>2, <1>3, <1>4, <1>5, <1>6 DEF TCall

\* The inductive invariant of the throttler of the GitHub client (src/github/client.go): tokens
\* are neither lost track of nor made up, and a GraphQL query excludes everybody else, for any
\* number of calls, burst and number of retries.
THEOREM ThrottleInvariance == TSpec => []ThrottleInv
  <1>1. ThrottleInv /\ [TNext]_throttleVars => ThrottleInv'
    <2> SUFFICES ASSUME ThrottleInv, [TNext]_throttleVars PROVE ThrottleInv'
      OBVIOUS
    <2>1. ASSUME NEW c \in TClients, TCall(c) PROVE ThrottleInv'
      <3>1. /\ tcall' \in [TClients -> TCallRecord] /\ tmode' = tmode /\ tticks' = tticks
            /\ \A d \in TClients : d # c => tcall'[d] = tcall[d]
            /\ tcall'[c].answer \in {"ok", "free"} \/ tcall'[c].pc = "end" => tcall'[c].done
        BY <2>1, CallTypes
      <3>2. \A d \in TClients : tcall'[d].answer \in {"ok", "free"} \/ tcall'[d].pc = "end" => tcall'[d].done
        BY <3>1 DEF ThrottleInv
      <3>3. tmode' \in TModes /\ tticks' \in Nat
        BY <3>1 DEF ThrottleInv
      <3>4. /\ ttokens' \in Nat /\ tcost' \in Nat /\ ttokens' <= tmode'.burst
            /\ tcost' + ttokens' + Cardinality(Holding') <= tmode'.burst + tticks'
        BY <2>1, <3>1, TokensStep
      <3>5. /\ treaders' = {d \in TClients : tcall'[d].pc \in {"token", "refunding"}}
            /\ twriter' = {d \in TClients : tcall'[d].pc = "query"}
            /\ \A d, e \in twriter' : d = e
            /\ twriter' = {} \/ treaders' = {}
        BY <2>1, LockStep
      <3> QED BY <3>1, <3>2, <3>3, <3>4, <3>5 DEF ThrottleInv
    <2>2. CASE TTick
      <3>1. Holding' = Holding
        BY <2>2 DEF TTick, Holding
      <3>2. IsFiniteSet(Holding)
        BY RuntimeAssumption, FS_Subset DEF Holding
      <3>3. Cardinality(Holding) \in Nat /\ tmode.burst \in Nat
        BY <3>2, FS_CardinalityType, RuntimeAssumption DEF ThrottleInv
      <3>4. ttokens' = ttokens + 1 /\ tticks' = tticks + 1 /\ ttokens < tmode.burst
        BY <2>2 DEF TTick
      <3>5. /\ ttokens' \in Nat /\ tticks' \in Nat /\ ttokens' <= tmode.burst
            /\ tcost + ttokens' + Cardinality(Holding) <= tmode.burst + tticks'
        BY <3>3, <3>4 DEF ThrottleInv
      <3> QED BY <2>2, <3>1, <3>5 DEF TTick, tlock, ThrottleInv
    <2>3. CASE UNCHANGED throttleVars
      BY <2>3 DEF throttleVars, ThrottleInv, Holding
    <2> QED BY <2>1, <2>2, <2>3 DEF TNext
  <1> QED BY ThrottleInit, <1>1, PTL DEF TSpec

\* GitHub never counts more requests than the burst and the ticks allow, whatever is refunded or
\* tried again, and a call that returns without an error was carried out.
THEOREM ThrottleSound == TSpec => []ThrottleHolds
  <1>1. ThrottleInv => ThrottleHolds
    <2> SUFFICES ASSUME ThrottleInv PROVE ThrottleHolds
      OBVIOUS
    <2>1. IsFiniteSet(Holding)
      BY RuntimeAssumption, FS_Subset DEF Holding
    <2>2. Cardinality(Holding) \in Nat /\ tmode.burst \in Nat
      BY <2>1, FS_CardinalityType, RuntimeAssumption DEF ThrottleInv
    <2> QED BY <2>2 DEF ThrottleInv, ThrottleHolds
  <1> QED BY <1>1, ThrottleInvariance, PTL

-----------------------------------------------------------------------------
(* The Jenkins operator.                                                   *)

\* Builds are never forgotten, never go back to the queue, and keep their result.
BuildsGrow ==
  /\ DOMAIN jbuilds \subseteq DOMAIN jbuilds'
  /\ \A i \in DOMAIN jbuilds :
       /\ jbuilds'[i].id = jbuilds[i].id
       /\ jbuilds[i].st # "queued" => jbuilds'[i].st # "queued"
       /\ jbuilds[i].st \notin {"queued", "running"} => jbuilds'[i].st = jbuilds[i].st

LEMMA BuildsAreBuilds ==
  ASSUME JTypeOK
  PROVE  /\ Len(jbuilds) \in Nat /\ DOMAIN jbuilds = 1 .. Len(jbuilds)
         /\ \A i \in DOMAIN jbuilds : jbuilds[i] \in JBuild
  BY DEF JTypeOK

LEMMA BuildsMap ==
  ASSUME JTypeOK, NEW f, DOMAIN f = DOMAIN jbuilds, f = [i \in DOMAIN f |-> f[i]],
         \A i \in DOMAIN f : f[i] \in JBuild
  PROVE  f \in Seq(JBuild)
  <1>1. f \in [1 .. Len(jbuilds) -> JBuild] /\ Len(jbuilds) \in Nat
    BY BuildsAreBuilds
  <1> QED BY <1>1, SeqDef

LEMMA BuildMoves ==
  ASSUME JTypeOK, NEW i \in DOMAIN jbuilds, NEW st \in {"running", "ABORTED"} \cup JResults,
         jbuilds[i].st = "queued" \/ jbuilds[i].st = "running",
         jbuilds' = [jbuilds EXCEPT ![i].st = st]
  PROVE  BuildsGrow /\ jbuilds' \in Seq(JBuild)
  <1>1. \A k \in DOMAIN jbuilds : jbuilds[k] \in JBuild
    BY BuildsAreBuilds
  <1>2. st # "queued"
    BY JenkinsAssumption
  <1>3. /\ DOMAIN jbuilds' = DOMAIN jbuilds
        /\ \A k \in DOMAIN jbuilds : k # i => jbuilds'[k] = jbuilds[k]
        /\ jbuilds'[i].id = jbuilds[i].id /\ jbuilds'[i].st = st /\ jbuilds'[i] \in JBuild
    BY <1>1 DEF JBuild
  <1>4. jbuilds' \in Seq(JBuild)
    BY <1>1, <1>3, BuildsMap
  <1> QED BY <1>2, <1>3, <1>4 DEF BuildsGrow

LEMMA BuildsStop ==
  ASSUME JTypeOK, NEW j, Abort(j)
  PROVE  BuildsGrow /\ jbuilds' \in Seq(JBuild)
  <1>1. \A k \in DOMAIN jbuilds : jbuilds[k] \in JBuild
    BY BuildsAreBuilds
  <1>2. CASE UNCHANGED jbuilds
    BY <1>2 DEF BuildsGrow, JTypeOK
  <1>3. CASE jbuilds' = [i \in DOMAIN jbuilds |->
                   IF jbuilds[i].id = j /\ jbuilds[i].st = "running" THEN [jbuilds[i] EXCEPT !.st = "ABORTED"]
                   ELSE jbuilds[i]]
    <2>1. /\ DOMAIN jbuilds' = DOMAIN jbuilds
          /\ \A i \in DOMAIN jbuilds : /\ jbuilds'[i] \in JBuild /\ jbuilds'[i].id = jbuilds[i].id
                                       /\ \/ jbuilds[i].st = "running" /\ jbuilds'[i].st = "ABORTED"
                                          \/ jbuilds'[i] = jbuilds[i]
      BY <1>1, <1>3 DEF JBuild
    <2>2. jbuilds' \in Seq(JBuild)
      BY <1>3, <2>1, BuildsMap
    <2> QED BY <2>1, <2>2 DEF BuildsGrow
  <1> QED BY <1>2, <1>3 DEF Abort

LEMMA BuildsAdded ==
  ASSUME JTypeOK, NEW j \in JJobs, NEW n \in 0 .. 2,
         jbuilds' = jbuilds \o [i \in 1 .. n |-> [id |-> j, st |-> "queued"]]
  PROVE  /\ BuildsGrow /\ jbuilds' \in Seq(JBuild)
         /\ n > 0 => \E i \in DOMAIN jbuilds' : jbuilds'[i].id = j
  <1> DEFINE new == [i \in 1 .. n |-> [id |-> j, st |-> "queued"]]
  <1>1. jbuilds \in Seq(JBuild)
    BY DEF JTypeOK
  <1>2. new \in [1 .. n -> JBuild]
    BY DEF JBuild
  <1>3. new \in Seq(JBuild) /\ Len(new) = n
    <2>1. new \in Seq(JBuild)
      BY <1>2, SeqDef
    <2>2. DOMAIN new = 1 .. n
      OBVIOUS
    <2> HIDE DEF new
    <2> QED BY <2>1, <2>2, LenProperties
  <1>4. \A i \in 1 .. n : new[i].id = j
    OBVIOUS
  <1> HIDE DEF new
  <1>5. jbuilds' = jbuilds \o new
    BY DEF new
  <1>6. /\ jbuilds' \in Seq(JBuild) /\ Len(jbuilds') = Len(jbuilds) + n
        /\ \A i \in 1 .. Len(jbuilds) : jbuilds'[i] = jbuilds[i]
        /\ \A i \in 1 .. n : jbuilds'[Len(jbuilds) + i] = new[i]
    BY <1>1, <1>3, <1>5
  <1>7. BuildsGrow
    <2>1. Len(jbuilds) \in Nat /\ DOMAIN jbuilds = 1 .. Len(jbuilds) /\ DOMAIN jbuilds' = 1 .. Len(jbuilds')
      BY <1>1, <1>6
    <2>2. DOMAIN jbuilds \subseteq DOMAIN jbuilds' /\ \A i \in DOMAIN jbuilds : jbuilds'[i] = jbuilds[i]
      BY <1>6, <2>1
    <2> QED BY <2>2 DEF BuildsGrow
  <1>8. n > 0 => \E i \in DOMAIN jbuilds' : jbuilds'[i].id = j
    <2> SUFFICES ASSUME n > 0 PROVE Len(jbuilds) + 1 \in DOMAIN jbuilds' /\ jbuilds'[Len(jbuilds) + 1].id = j
      OBVIOUS
    <2>1. Len(jbuilds) \in Nat
      BY <1>1
    <2> QED BY <1>4, <1>6, <2>1
  <1> QED BY <1>6, <1>7, <1>8

LEMMA GrowthKeeps ==
  ASSUME BuildsGrow, NEW j
  PROVE  /\ BuildsOf(j) # {} => BuildsOf(j)' # {}
         /\ Unqueued(j) => Unqueued(j)'
         /\ \A r : r \notin {"queued", "running"} /\ (\E i \in BuildsOf(j) : jbuilds[i].st = r) =>
              \E i \in BuildsOf(j)' : jbuilds'[i].st = r
  <1>1. BuildsOf(j) \subseteq BuildsOf(j)'
    BY DEF BuildsGrow, BuildsOf
  <1> QED BY <1>1 DEF BuildsGrow, BuildsOf, Unqueued, IsEnqueued

LEMMA VerdictKept ==
  ASSUME BuildsGrow, UNCHANGED jcfg, NEW j \in JJobs, jpj'[j].state = jpj[j].state, JVerdict(j)
  PROVE  JVerdict(j)'
  <1>1. \A r \in {"SUCCESS", "FAILURE", "UNSTABLE", "ABORTED"} :
          (\E i \in BuildsOf(j) : jbuilds[i].st = r) => \E i \in BuildsOf(j)' : jbuilds'[i].st = r
    BY GrowthKeeps
  <1> QED BY <1>1 DEF JVerdict, IsSuccess, IsFailure, IsAborted

LEMMA FoundKept ==
  ASSUME JInv, BuildsGrow, NEW j \in DOMAIN jsync.jbs
  PROVE  /\ BuildsOf(j)' # {}
         /\ jsync.jbs[j] \in {"queued", "running"} \/ \E i \in BuildsOf(j)' : jbuilds'[i].st = jsync.jbs[j]
  <1>1. /\ BuildsOf(j) # {}
        /\ jsync.jbs[j] \in {"queued", "running"} \/ \E i \in BuildsOf(j) : jbuilds[i].st = jsync.jbs[j]
    BY DEF JInv, FoundInv
  <1> QED BY <1>1, GrowthKeeps

\* What holds of a sync goes on to hold when builds move and the sync and its ProwJobs do not.
LEMMA QuietStep ==
  ASSUME JInv, BuildsGrow, jbuilds' \in Seq(JBuild), UNCHANGED <<jcfg, jpj, jsync>>
  PROVE  JInv'
  <1>1. JTypeOK' /\ JSyncOK' /\ NewestInv'
    BY DEF JInv, JTypeOK, JSyncOK, NewestInv
  <1>2. PendingInv'
    BY GrowthKeeps DEF JInv, PendingInv, NextOK
  <1>3. FoundInv'
    <2>1. \A j \in DOMAIN jsync'.jbs :
            /\ BuildsOf(j)' # {}
            /\ jsync'.jbs[j] \in {"queued", "running"} \/ \E i \in BuildsOf(j)' : jbuilds'[i].st = jsync'.jbs[j]
      BY FoundKept
    <2>2. \A j \in JJobs : jsync'.pjs[j].state = "pending" =>
            /\ jsync'.pc = "builds" => j \in DOMAIN jsync'.jbs \/ Unqueued(j)'
            /\ jsync'.pc \in {"dupes", "pending"} => j \in DOMAIN jsync'.jbs
      BY GrowthKeeps DEF JInv, FoundInv
    <2>3. jsync'.pc = "pending" => jsync'.todo \subseteq InState("pending")'
      BY DEF JInv, FoundInv, InState
    <2> QED BY <2>1, <2>2, <2>3 DEF FoundInv
  <1>4. JVerdictOfBuild'
    BY VerdictKept DEF JInv, JVerdictOfBuild
  <1> QED BY <1>1, <1>2, <1>3, <1>4 DEF JInv

LEMMA SameBuilds ==
  ASSUME JTypeOK, UNCHANGED jbuilds
  PROVE  BuildsGrow /\ jbuilds' \in Seq(JBuild)
  BY DEF JTypeOK, BuildsGrow

LEMMA JIdleOK ==
  /\ JIdle = [pc |-> "idle", pjs |-> [j \in JJobs |-> JTriggered], jbs |-> [j \in {} |-> ""], idx |-> 1,
              dupes |-> [k \in {} |-> 0], todo |-> {}, pendingJobs |-> 0, cur |-> 0,
              next |-> JTriggered, reports |-> [j \in {} |-> ""]]
  /\ JTriggered \in JProwJob /\ JTriggered.state = "triggered"
  BY DEF JIdle, JTriggered, JState, JProwJob

\* The end of a sync.
LEMMA IdleStep ==
  ASSUME JInv, UNCHANGED <<jcfg, jpj, jbuilds>>, jsync' = JIdle
  PROVE  JInv'
  <1>0. /\ jsync'.pc = "idle" /\ jsync'.pjs = [j \in JJobs |-> JTriggered] /\ jsync'.idx = 1 /\ jsync'.cur = 0
        /\ DOMAIN jsync'.jbs = {} /\ DOMAIN jsync'.dupes = {}
    BY JIdleOK
  <1>1. JTypeOK' /\ NewestInv'
    BY <1>0 DEF JInv, JTypeOK, NewestInv
  <1>2. JSyncOK'
    <2>1. jsync' = [pc |-> jsync'.pc, pjs |-> jsync'.pjs, jbs |-> jsync'.jbs, idx |-> jsync'.idx,
                    dupes |-> jsync'.dupes, todo |-> jsync'.todo, pendingJobs |-> jsync'.pendingJobs,
                    cur |-> jsync'.cur, next |-> jsync'.next, reports |-> jsync'.reports]
      BY JIdleOK
    <2>2. jsync'.pjs \in [JJobs -> JProwJob] /\ jsync'.idx \in Nat /\ DOMAIN jsync'.jbs \subseteq JJobs
      <3>1. 1 \in Nat
        OBVIOUS
      <3> QED BY Zenon, <1>0, <3>1, JIdleOK
    <2> QED BY Zenon, <2>1, <2>2 DEF JSyncOK
  <1>3. PendingInv'
    BY <1>0, JIdleOK DEF JInv, PendingInv, NextOK, BuildsOf
  <1>4. FoundInv'
    BY <1>0, JIdleOK DEF FoundInv
  <1>5. JVerdictOfBuild'
    BY SameBuilds, VerdictKept DEF JInv, JVerdictOfBuild
  <1> QED BY <1>1, <1>2, <1>3, <1>4, <1>5 DEF JInv

LEMMA ListStep ==
  ASSUME JInv, ListProwJobs
  PROVE  JInv'
  <1> USE DEF ListProwJobs
  <1>0. /\ jsync'.pc = "queue" /\ jsync'.pjs = jpj /\ jsync'.idx = 1 /\ jsync'.cur = 0
        /\ DOMAIN jsync'.jbs = {} /\ DOMAIN jsync'.dupes = {}
    BY JIdleOK
  <1>1. JTypeOK' /\ NewestInv'
    BY <1>0 DEF JInv, JTypeOK, NewestInv
  <1>2. JSyncOK'
    <2>1. jsync' = [pc |-> jsync'.pc, pjs |-> jsync'.pjs, jbs |-> jsync'.jbs, idx |-> jsync'.idx,
                    dupes |-> jsync'.dupes, todo |-> jsync'.todo, pendingJobs |-> jsync'.pendingJobs,
                    cur |-> jsync'.cur, next |-> jsync'.next, reports |-> jsync'.reports]
      BY JIdleOK
    <2> QED BY <1>0, <2>1 DEF JSyncOK, JInv, JTypeOK
  <1>3. PendingInv'
    BY <1>0 DEF JInv, PendingInv, NextOK, BuildsOf
  <1>4. FoundInv'
    BY <1>0 DEF FoundInv
  <1>5. JVerdictOfBuild'
    BY SameBuilds, VerdictKept DEF JInv, JVerdictOfBuild
  <1> QED BY <1>1, <1>2, <1>3, <1>4, <1>5 DEF JInv

\* An update of the record of the sync keeps its shape.
JShape(s) ==
  s = [pc |-> s.pc, pjs |-> s.pjs, jbs |-> s.jbs, idx |-> s.idx, dupes |-> s.dupes, todo |-> s.todo,
       pendingJobs |-> s.pendingJobs, cur |-> s.cur, next |-> s.next, reports |-> s.reports]

LEMMA QueueStep ==
  ASSUME JInv, GetEnqueuedBuilds
  PROVE  JInv'
  <1>1. CASE EndSync
    BY <1>1, IdleStep DEF GetEnqueuedBuilds, EndSync
  <1> DEFINE found == {j \in getJenkinsJobs : \E i \in BuildsOf(j) : IsEnqueued(jbuilds[i].st)}
  <1>2. CASE jsync' = [jsync EXCEPT !.pc = "builds", !.jbs = [j \in found |-> "queued"]]
    <2>0. UNCHANGED <<jcfg, jpj, jbuilds>> /\ jsync.pc = "queue"
      BY <1>1, <1>2 DEF GetEnqueuedBuilds, EndSync
    <2>1. JShape(jsync)
      BY DEF JInv, JSyncOK, JShape
    <2>2. /\ JShape(jsync)' /\ jsync'.pc = "builds" /\ jsync'.jbs = [j \in found |-> "queued"]
          /\ jsync'.pjs = jsync.pjs /\ jsync'.idx = jsync.idx /\ jsync'.dupes = jsync.dupes
          /\ jsync'.cur = jsync.cur /\ jsync'.next = jsync.next
      BY <1>2, <2>1 DEF JShape
    <2>3. JTypeOK' /\ NewestInv'
      BY <2>0, <2>2 DEF JInv, JTypeOK, NewestInv
    <2>4. JSyncOK'
      BY <2>2 DEF JInv, JSyncOK, JShape, getJenkinsJobs
    <2>5. PendingInv'
      BY <2>0, <2>2 DEF JInv, PendingInv, NextOK, BuildsOf
    <2>6. FoundInv'
      <3>1. \A j \in JJobs : BuildsOf(j)' = BuildsOf(j) /\ (Unqueued(j)' <=> Unqueued(j))
        BY <2>0 DEF BuildsOf, Unqueued
      <3>2. \A j \in found : BuildsOf(j) # {}
        OBVIOUS
      <3>3. \A j \in JJobs : jsync.pjs[j].state = "pending" => j \in found \/ Unqueued(j)
        <4>1. \A j \in JJobs : jsync.pjs[j].state = "pending" => BuildsOf(j) # {} /\ j \in getJenkinsJobs
          BY DEF JInv, PendingInv, getJenkinsJobs, JComplete
        <4> QED BY <4>1 DEF Unqueued
      <3> QED BY <2>2, <3>1, <3>2, <3>3 DEF FoundInv, getJenkinsJobs
    <2>7. JVerdictOfBuild'
      BY <2>0, SameBuilds, VerdictKept DEF JInv, JVerdictOfBuild
    <2> QED BY <2>3, <2>4, <2>5, <2>6, <2>7 DEF JInv
  <1> QED BY <1>1, <1>2 DEF GetEnqueuedBuilds

\* The build that is kept of those that are listed is one of them.
LEMMA ListedBuild ==
  ASSUME JTypeOK, NEW j, Unqueued(j)
  PROVE  \E i \in BuildsOf(j) : ListedState(j) = jbuilds[i].st
  <1> DEFINE own == {i \in BuildsOf(j) : ~IsEnqueued(jbuilds[i].st)}
  <1>1. own \subseteq Nat /\ own # {}
    BY BuildsAreBuilds DEF Unqueued, BuildsOf
  <1>2. \E i \in own : \A k \in own : i <= k
    <2> DEFINE less == {ss \in Nat \X Nat : ss[1] < ss[2]}
    <2>1. IsWellFoundedOn(less, Nat)
      BY NatLessThanWellFounded DEF OpToRel
    <2> HIDE DEF own
    <2>2. PICK i \in own : \A k \in own : ~(<<k, i>> \in less)
      <3> HIDE DEF less
      <3> QED BY <1>1, <2>1, WFMin
    <2>3. \A k \in own : ~(k < i)
      BY <1>1, <2>2
    <2> QED BY <1>1, <2>3
  <1>3. ListedState(j) = jbuilds[CHOOSE i \in own : \A k \in own : i <= k].st
    BY <1>1 DEF ListedState
  <1> QED BY <1>2, <1>3

LEMMA BuildsStep ==
  ASSUME JInv, GetBuilds
  PROVE  JInv'
  <1>1. CASE EndSync
    BY <1>1, IdleStep DEF GetBuilds, EndSync
  <1> DEFINE found == {j \in JJobs : Unqueued(j)}
             all == found \cup DOMAIN jsync.jbs
  <1>2. CASE jsync' = [jsync EXCEPT !.pc = "dupes", !.jbs = [j \in all |-> ListedState(j)]]
    <2>0. UNCHANGED <<jcfg, jpj, jbuilds>> /\ jsync.pc = "builds"
      BY DEF GetBuilds
    <2>1. JShape(jsync)
      BY DEF JInv, JSyncOK, JShape
    <2>2. /\ JShape(jsync)' /\ jsync'.pc = "dupes" /\ jsync'.jbs = [j \in all |-> ListedState(j)]
          /\ jsync'.pjs = jsync.pjs /\ jsync'.idx = jsync.idx /\ jsync'.dupes = jsync.dupes
          /\ jsync'.cur = jsync.cur /\ jsync'.next = jsync.next
      BY <1>2, <2>1 DEF JShape
    <2>3. JTypeOK' /\ NewestInv'
      BY <2>0, <2>2 DEF JInv, JTypeOK, NewestInv
    <2>4. JSyncOK'
      BY <2>2 DEF JInv, JSyncOK, JShape
    <2>5. PendingInv'
      BY <2>0, <2>2 DEF JInv, PendingInv, NextOK, BuildsOf
    <2>6. FoundInv'
      <3>1. \A j \in JJobs : BuildsOf(j)' = BuildsOf(j)
        BY <2>0 DEF BuildsOf
      <3>2. ASSUME NEW j \in all
            PROVE  /\ j \in JJobs /\ BuildsOf(j) # {}
                   /\ \/ ListedState(j) \in {"queued", "running"}
                      \/ \E i \in BuildsOf(j) : jbuilds[i].st = ListedState(j)
        <4>1. CASE Unqueued(j)
          <5>1. j \in JJobs
            BY DEF JInv, JSyncOK
          <5> QED BY <4>1, <5>1, ListedBuild DEF JInv, Unqueued
        <4>2. CASE ~Unqueued(j)
          <5>1. j \in DOMAIN jsync.jbs /\ j \in JJobs
            BY <4>2 DEF JInv, JSyncOK
          <5>2. ListedState(j) = jsync.jbs[j]
            BY <4>2 DEF ListedState, Unqueued
          <5> QED BY <5>1, <5>2 DEF JInv, FoundInv
        <4> QED BY <4>1, <4>2
      <3>3. \A j \in JJobs : jsync.pjs[j].state = "pending" => j \in all
        BY <2>0 DEF JInv, FoundInv
      <3> HIDE DEF all
      <3>4. DOMAIN jsync'.jbs = all /\ \A j \in all : jsync'.jbs[j] = ListedState(j)
        BY Zenon, <2>2
      <3>5. ASSUME NEW j \in DOMAIN jsync'.jbs
            PROVE  /\ BuildsOf(j)' # {}
                   /\ \/ jsync'.jbs[j] \in {"queued", "running"}
                      \/ \E i \in BuildsOf(j)' : jbuilds'[i].st = jsync'.jbs[j]
        <4>1. j \in all /\ jsync'.jbs[j] = ListedState(j)
          BY Zenon, <3>4
        <4>2. BuildsOf(j)' = BuildsOf(j) /\ jbuilds' = jbuilds
          BY Zenon, <2>0, <3>1, <3>2, <4>1
        <4> QED BY Zenon, <3>2, <4>1, <4>2
      <3>6. \A j \in JJobs : jsync'.pjs[j].state = "pending" => j \in DOMAIN jsync'.jbs
        BY Zenon, <2>2, <3>3, <3>4
      <3>7. jsync'.pc # "builds" /\ jsync'.pc # "pending"
        BY <2>2
      <3> QED BY Zenon, <3>5, <3>6, <3>7 DEF FoundInv
    <2>7. JVerdictOfBuild'
      BY <2>0, SameBuilds, VerdictKept DEF JInv, JVerdictOfBuild
    <2> QED BY <2>3, <2>4, <2>5, <2>6, <2>7 DEF JInv
  <1> QED BY <1>1, <1>2 DEF GetBuilds, Unqueued

\* A step after the listings, which adds nothing to what they found: it is enough to look at what it
\* writes to the ProwJobs, and at what it notes to be written next.
LEMMA SyncStep ==
  ASSUME JInv, BuildsGrow, jbuilds' \in Seq(JBuild), UNCHANGED jcfg,
         JShape(jsync'), jsync'.jbs = jsync.jbs, jsync'.idx \in Nat,
         jsync'.pjs \in [JJobs -> JProwJob],
         \A j \in JJobs : jsync'.pjs[j].state = "pending" => jsync.pjs[j].state = "pending",
         jsync'.pc # "builds",
         jsync'.pc \in {"dupes", "pending"} => jsync.pc \in {"dupes", "pending"},
         jsync'.pc = "pending" => jsync'.todo \subseteq InState("pending")',
         NewestInv',
         NextOK',
         jpj' \in [JJobs -> JProwJob],
         \A j \in JJobs : \/ jpj'[j] = jpj[j]
                          \/ JVerdict(j)' /\ (jpj'[j].state = "pending" => BuildsOf(j)' # {})
  PROVE  JInv'
  <1>1. JTypeOK'
    BY DEF JInv, JTypeOK
  <1>2. JSyncOK'
    BY DEF JInv, JSyncOK, JShape
  <1>3. \A j \in JJobs : BuildsOf(j) # {} => BuildsOf(j)' # {}
    BY GrowthKeeps
  <1>4. PendingInv'
    BY <1>3 DEF JInv, PendingInv
  <1>5. FoundInv'
    <2>1. \A j \in DOMAIN jsync.jbs :
            /\ BuildsOf(j)' # {}
            /\ jsync.jbs[j] \in {"queued", "running"} \/ \E i \in BuildsOf(j)' : jbuilds'[i].st = jsync.jbs[j]
      BY FoundKept
    <2>2. \A j \in JJobs : jsync'.pjs[j].state = "pending" =>
            /\ jsync'.pc = "builds" => j \in DOMAIN jsync'.jbs \/ Unqueued(j)'
            /\ jsync'.pc \in {"dupes", "pending"} => j \in DOMAIN jsync'.jbs
      BY DEF JInv, FoundInv
    <2> QED BY <2>1, <2>2 DEF FoundInv
  <1>6. JVerdictOfBuild'
    <2> SUFFICES ASSUME NEW j \in JJobs PROVE JVerdict(j)'
      BY DEF JVerdictOfBuild
    <2>1. CASE jpj'[j] = jpj[j]
      BY <2>1, VerdictKept DEF JInv, JVerdictOfBuild
    <2> QED BY <2>1
  <1> QED BY <1>1, <1>2, <1>4, <1>5, <1>6 DEF JInv

LEMMA PartitionStep ==
  ASSUME JInv, PartitionPending \/ PartitionTriggered
  PROVE  JInv'
  <1>1. JShape(jsync)
    BY DEF JInv, JSyncOK, JShape
  <1>2. /\ JShape(jsync') /\ jsync'.jbs = jsync.jbs /\ jsync'.idx = jsync.idx /\ jsync'.pjs = jsync.pjs
        /\ jsync'.dupes = jsync.dupes /\ jsync'.cur = jsync.cur /\ jsync'.next = jsync.next
        /\ \/ jsync'.pc = "pending" /\ jsync'.todo = InState("pending") /\ jsync.pc = "dupes"
           \/ jsync'.pc = "triggered"
    BY <1>1 DEF JShape, PartitionPending, PartitionTriggered
  <1>3. UNCHANGED <<jcfg, jpj, jbuilds>> /\ jsync.pc # "triggered"
    BY DEF PartitionPending, PartitionTriggered
  <1>4. BuildsGrow /\ jbuilds' \in Seq(JBuild)
    BY <1>3, SameBuilds DEF JInv
  <1>5. NewestInv' /\ jsync'.idx \in Nat /\ jsync'.pjs \in [JJobs -> JProwJob] /\ jpj' \in [JJobs -> JProwJob]
    BY <1>2, <1>3 DEF JInv, NewestInv, JSyncOK, JTypeOK
  <1>6. NextOK'
    BY <1>2, <1>3 DEF JInv, PendingInv, NextOK, BuildsOf
  <1>7. jsync'.pc = "pending" => jsync'.todo \subseteq InState("pending")'
    BY <1>2 DEF InState
  <1> QED BY <1>2, <1>3, <1>4, <1>5, <1>6, <1>7, SyncStep

\* An update leaves every other ProwJob alone.
LEMMA UpdateStep ==
  ASSUME JTypeOK, NEW j \in JJobs, NEW new \in JProwJob, NEW out, UpdateProwJob(j, new, out)
  PROVE  /\ jpj' \in [JJobs -> JProwJob]
         /\ \A k \in JJobs \ {j} : jpj'[k] = jpj[k]
         /\ jpj'[j] = jpj[j] \/ (jpj'[j] = new /\ jpj[j] = jsync.pjs[j])
  BY DEF JTypeOK, UpdateProwJob

LEMMA TriggeredUpdateStep ==
  ASSUME JInv, UpdateTriggered
  PROVE  JInv'
  <1>0. UNCHANGED <<jcfg, jbuilds>> /\ jsync.cur # 0
    BY DEF UpdateTriggered
  <1>1. JShape(jsync)
    BY DEF JInv, JSyncOK, JShape
  <1>2. /\ JShape(jsync') /\ jsync'.jbs = jsync.jbs /\ jsync'.idx = jsync.idx /\ jsync'.pjs = jsync.pjs
        /\ jsync'.dupes = jsync.dupes /\ jsync'.cur = 0 /\ jsync'.pc = jsync.pc /\ jsync'.todo = jsync.todo
    BY <1>1 DEF JShape, UpdateTriggered
  <1>3. /\ jsync.cur \in JJobs /\ jsync.next \in JProwJob /\ jsync.next.state \in {"pending", "error"}
        /\ jsync.next.state = "pending" => BuildsOf(jsync.cur) # {}
    <2>1. /\ JState("pending", "enqueued") \in JProwJob /\ JState("pending", "enqueued").state = "pending"
          /\ JState("error", "cannot start") \in JProwJob /\ JState("error", "cannot start").state = "error"
      BY DEF JState, JProwJob
    <2> QED BY <1>0, <2>1 DEF JInv, PendingInv, NextOK
  <1>4. BuildsGrow /\ jbuilds' \in Seq(JBuild)
    BY <1>0, SameBuilds DEF JInv
  <1>5. PICK out \in Outcomes : UpdateProwJob(jsync.cur, jsync.next, out)
    BY Zenon DEF UpdateTriggered
  <1>6. /\ jpj' \in [JJobs -> JProwJob]
        /\ \A k \in JJobs \ {jsync.cur} : jpj'[k] = jpj[k]
        /\ jpj'[jsync.cur] = jpj[jsync.cur] \/ jpj'[jsync.cur] = jsync.next
    BY <1>3, <1>5, UpdateStep DEF JInv
  <1>7. \A j \in JJobs : \/ jpj'[j] = jpj[j]
                         \/ JVerdict(j)' /\ (jpj'[j].state = "pending" => BuildsOf(j)' # {})
    BY <1>0, <1>3, <1>6 DEF JVerdict, BuildsOf
  <1>8. NewestInv' /\ jsync'.idx \in Nat /\ jsync'.pjs \in [JJobs -> JProwJob] /\ NextOK'
    BY <1>0, <1>2 DEF JInv, NewestInv, JSyncOK, NextOK
  <1>9. jsync'.pc = "pending" => jsync'.todo \subseteq InState("pending")'
    BY <1>2 DEF JInv, FoundInv, InState
  <1>10. jsync'.pc # "builds"
    BY <1>0, <1>2 DEF JInv, PendingInv, NextOK
  <1> QED BY <1>0, <1>2, <1>4, <1>6, <1>7, <1>8, <1>9, <1>10, SyncStep

\* What a build says of a pending ProwJob.
LEMMA OutcomeOK ==
  ASSUME NEW p \in JProwJob, NEW st
  PROVE  /\ PendingOutcome(p, st) \in JProwJob
         /\ PendingOutcome(p, st) = p \/ PendingOutcome(p, st).state = "pending"
            \/ (PendingOutcome(p, st).state = "success" /\ IsSuccess(st))
            \/ (PendingOutcome(p, st).state = "failure" /\ IsFailure(st))
            \/ (PendingOutcome(p, st).state = "aborted" /\ IsAborted(st))
  <1>1. /\ JState("pending", "running") \in JProwJob /\ JState("pending", "running").state = "pending"
        /\ JState("success", "succeeded") \in JProwJob /\ JState("success", "succeeded").state = "success"
        /\ JState("failure", "failed") \in JProwJob /\ JState("failure", "failed").state = "failure"
        /\ JState("aborted", "aborted") \in JProwJob /\ JState("aborted", "aborted").state = "aborted"
    BY DEF JState, JProwJob
  <1>2. CASE IsRunning(st)
    BY <1>1, <1>2 DEF PendingOutcome, IsRunning, IsSuccess, IsFailure, IsAborted
  <1>3. CASE IsSuccess(st)
    BY <1>1, <1>3 DEF PendingOutcome, IsRunning, IsSuccess, IsFailure, IsAborted
  <1>4. CASE IsFailure(st)
    BY <1>1, <1>4 DEF PendingOutcome, IsRunning, IsSuccess, IsFailure, IsAborted
  <1>5. CASE IsAborted(st)
    BY <1>1, <1>5 DEF PendingOutcome, IsRunning, IsSuccess, IsFailure, IsAborted
  <1>6. CASE ~IsRunning(st) /\ ~IsSuccess(st) /\ ~IsFailure(st) /\ ~IsAborted(st)
    BY <1>6 DEF PendingOutcome
  <1> QED BY <1>2, <1>3, <1>4, <1>5, <1>6

LEMMA PendingStep ==
  ASSUME JInv, NEW j \in JJobs, syncPendingJob(j)
  PROVE  JInv'
  <1> DEFINE p == jsync.pjs[j]
             st == jsync.jbs[j]
             new == PendingOutcome(p, st)
  <1>0. UNCHANGED <<jcfg, jbuilds>> /\ jsync.pc = "pending" /\ j \in jsync.todo
    BY DEF syncPendingJob
  <1>1. JShape(jsync)
    BY DEF JInv, JSyncOK, JShape
  <1>2. /\ JShape(jsync') /\ jsync'.jbs = jsync.jbs /\ jsync'.idx = jsync.idx /\ jsync'.pjs = jsync.pjs
        /\ jsync'.dupes = jsync.dupes /\ jsync'.cur = jsync.cur /\ jsync'.pc = jsync.pc
        /\ jsync'.todo = jsync.todo \ {j}
    BY <1>1 DEF JShape, syncPendingJob
  <1>3. p \in JProwJob /\ p.state = "pending" /\ j \in DOMAIN jsync.jbs
    BY <1>0 DEF JInv, FoundInv, InState, JSyncOK
  <1>4. BuildsOf(j) # {} /\ (st \in {"queued", "running"} \/ \E i \in BuildsOf(j) : jbuilds[i].st = st)
    BY <1>3 DEF JInv, FoundInv
  <1>5. BuildsGrow /\ jbuilds' \in Seq(JBuild)
    BY <1>0, SameBuilds DEF JInv
  <1>6. UNCHANGED jpj \/ \E out \in Outcomes : UpdateProwJob(j, new, out)
    BY <1>3 DEF syncPendingJob
  <1> HIDE DEF p, st
  <1>7. /\ new \in JProwJob
        /\ new = p \/ new.state = "pending" \/ (new.state = "success" /\ IsSuccess(st))
           \/ (new.state = "failure" /\ IsFailure(st)) \/ (new.state = "aborted" /\ IsAborted(st))
    BY <1>3, OutcomeOK
  <1> HIDE DEF new
  <1>8. /\ jpj' \in [JJobs -> JProwJob]
        /\ \A k \in JJobs \ {j} : jpj'[k] = jpj[k]
        /\ jpj'[j] = jpj[j] \/ jpj'[j] = new
    <2>1. CASE UNCHANGED jpj
      BY <2>1 DEF JInv, JTypeOK
    <2> QED BY <1>6, <1>7, <2>1, UpdateStep DEF JInv
  <1>9. \A k \in JJobs : \/ jpj'[k] = jpj[k]
                         \/ JVerdict(k)' /\ (jpj'[k].state = "pending" => BuildsOf(k)' # {})
    <2>1. BuildsOf(j)' = BuildsOf(j)
      BY <1>0 DEF BuildsOf
    <2>2. jpj'[j] = new => JVerdict(j)' /\ BuildsOf(j)' # {}
      BY <1>0, <1>3, <1>4, <1>7, <2>1 DEF JVerdict, IsSuccess, IsFailure, IsAborted
    <2> QED BY <1>8, <2>2
  <1>10. NewestInv' /\ jsync'.idx \in Nat /\ jsync'.pjs \in [JJobs -> JProwJob] /\ NextOK'
    BY <1>0, <1>2 DEF JInv, NewestInv, JSyncOK, PendingInv, NextOK
  <1>11. jsync'.pc = "pending" => jsync'.todo \subseteq InState("pending")'
    BY <1>0, <1>2 DEF JInv, FoundInv, InState
  <1> QED BY <1>0, <1>2, <1>5, <1>8, <1>9, <1>10, <1>11, SyncStep

\* A ProwJob is only noted as pending once a build of it was found, or was started.
LEMMA TriggeredStep ==
  ASSUME JInv, NEW j \in JJobs, syncTriggeredJob(j)
  PROVE  JInv'
  <1>0. UNCHANGED <<jcfg, jpj>> /\ jsync.pc = "triggered" /\ jsync.cur = 0
    BY DEF syncTriggeredJob
  <1>1. JShape(jsync)
    BY DEF JInv, JSyncOK, JShape
  <1>2. /\ JShape(jsync') /\ jsync'.jbs = jsync.jbs /\ jsync'.idx = jsync.idx /\ jsync'.pjs = jsync.pjs
        /\ jsync'.dupes = jsync.dupes /\ jsync'.pc = jsync.pc
    BY <1>1 DEF JShape, syncTriggeredJob, LaunchBuild
  <1>3. BuildsGrow /\ jbuilds' \in Seq(JBuild) /\ NextOK'
    <2>1. CASE j \in DOMAIN jsync.jbs
      <3>1. UNCHANGED jbuilds /\ jsync'.cur = j /\ jsync'.next = JState("pending", "enqueued")
        BY <1>1, <2>1 DEF syncTriggeredJob, JShape
      <3>2. BuildsOf(j) # {}
        BY <2>1 DEF JInv, FoundInv
      <3>3. BuildsGrow /\ jbuilds' \in Seq(JBuild)
        BY <3>1, SameBuilds DEF JInv
      <3> QED BY <1>0, <1>2, <3>1, <3>2, <3>3 DEF NextOK, BuildsOf
    <2>2. CASE jsync'.cur = 0 /\ UNCHANGED jbuilds
      BY <2>2, SameBuilds DEF JInv, NextOK
    <2>3. ASSUME NEW n \in 0 .. 2, NEW ok \in BOOLEAN, ok => n > 0, LaunchBuild(j, n, ok)
          PROVE  BuildsGrow /\ jbuilds' \in Seq(JBuild) /\ NextOK'
      <3>1. jbuilds' = jbuilds \o [i \in 1 .. n |-> [id |-> j, st |-> "queued"]]
        BY <2>3 DEF LaunchBuild
      <3>2. jsync'.cur = j /\ jsync'.next = IF ok THEN JState("pending", "enqueued") ELSE JState("error", "cannot start")
        BY <1>1, <2>3 DEF LaunchBuild, JShape
      <3>3. /\ BuildsGrow /\ jbuilds' \in Seq(JBuild)
            /\ n > 0 => \E i \in DOMAIN jbuilds' : jbuilds'[i].id = j
        BY <3>1, BuildsAdded DEF JInv
      <3>4. ok => BuildsOf(j)' # {}
        BY <2>3, <3>3 DEF BuildsOf
      <3>5. NextOK'
        BY <1>0, <1>2, <3>2, <3>4 DEF NextOK, BuildsOf
      <3> QED BY <3>3, <3>5
    <2>4. \/ j \in DOMAIN jsync.jbs \/ (jsync'.cur = 0 /\ UNCHANGED jbuilds)
          \/ \E n \in 0 .. 2, ok \in BOOLEAN : (ok => n > 0) /\ LaunchBuild(j, n, ok)
      BY <1>0, <1>1 DEF syncTriggeredJob, JShape
    <2> QED BY <2>1, <2>2, <2>3, <2>4
  <1>4. NewestInv' /\ jsync'.idx \in Nat /\ jsync'.pjs \in [JJobs -> JProwJob] /\ jpj' \in [JJobs -> JProwJob]
    BY <1>0, <1>2 DEF JInv, NewestInv, JSyncOK, JTypeOK
  <1> QED BY <1>0, <1>2, <1>3, <1>4, SyncStep

\* ProwJobs are numbers.
LEMMA JobsAreNumbers == JJobs \subseteq Nat /\ Cardinality(JJobs) \in Nat /\ JJobs = 1 .. Cardinality(JJobs)
  <1>1. Cardinality(JJobs) \in Nat
    BY JenkinsAssumption, FS_CardinalityType
  <1> QED BY <1>1, JenkinsAssumption

LEMMA Ordered ==
  ASSUME NEW a \in Int, NEW b \in Int
  PROVE  (a < b => b >= a) /\ (~(a < b) => a >= b)
  OBVIOUS

LEMMA Below ==
  ASSUME NEW a \in Nat, NEW b \in Nat, NEW c \in Nat, a < b, b < c
  PROVE  a < c
  OBVIOUS

\* NewestInv holds of the index and the dupes that a step of terminateDupes notes.
LEMMA DupesNoted ==
  ASSUME NEW d, NEW n \in Nat, UNCHANGED jcfg,
         \A x \in DOMAIN d : d[x] \in JJobs /\ d[x] < n /\ jcfg.key[d[x]] = x,
         jsync'.dupes = d, jsync'.idx = n, jsync'.cur = 0
  PROVE  NewestInv' /\ NextOK' /\ jsync'.idx \in Nat
  <1>1. NewestInv'
    BY Zenon DEF NewestInv
  <1>2. NextOK'
    BY Zenon DEF NextOK
  <1> QED BY <1>1, <1>2

\* What terminateDupes aborts has another ProwJob with the same key, which started no earlier.
LEMMA DupesStep ==
  ASSUME JInv, terminateDupes
  PROVE  JInv'
  <1> DEFINE i == jsync.idx
             k == jcfg.key[i]
             seen == k \in DOMAIN jsync.dupes
             prev == jsync.dupes[k]
             older == jcfg.start[prev] < jcfg.start[i]
             cancel == IF older THEN prev ELSE i
             dupes == [x \in DOMAIN jsync.dupes \cup {k} |->
                         IF x # k THEN jsync.dupes[x] ELSE IF seen /\ ~older THEN prev ELSE i]
             exists == cancel \in DOMAIN jsync.jbs
             new == JState("aborted", jsync.pjs[cancel].desc)
  <1>0. UNCHANGED jcfg /\ jsync.pc = "dupes" /\ i \in JJobs
    BY DEF terminateDupes
  <1>1. JShape(jsync) /\ i \in Nat /\ i < Cardinality(JJobs) + 1 /\ Cardinality(JJobs) + 1 \in Nat
    <2>1. JShape(jsync)
      BY Zenon DEF JInv, JSyncOK, JShape
    <2>2. i \in Nat /\ i < Cardinality(JJobs) + 1 /\ Cardinality(JJobs) + 1 \in Nat
      BY <1>0, JobsAreNumbers
    <2> QED BY Zenon, <2>1, <2>2
  <1>2. \A x \in DOMAIN jsync.dupes : jsync.dupes[x] \in JJobs /\ jsync.dupes[x] \in Nat
                                      /\ jsync.dupes[x] < i /\ jcfg.key[jsync.dupes[x]] = x
    BY JobsAreNumbers DEF JInv, NewestInv
  <1>3. \A x \in DOMAIN dupes : dupes[x] \in JJobs /\ dupes[x] < i + 1 /\ jcfg.key[dupes[x]] = x
    <2> HIDE DEF older
    <2>1. \A x \in DOMAIN dupes : \/ x = k /\ dupes[x] = i
                                  \/ x \in DOMAIN jsync.dupes /\ dupes[x] = jsync.dupes[x]
      OBVIOUS
    <2>2. \A n \in Nat : n < i => n < i + 1
      BY <1>1
    <2>3. i < i + 1 /\ jcfg.key[i] = k
      BY <1>1
    <2> HIDE DEF dupes, k, i
    <2> QED BY <1>0, <1>2, <2>1, <2>2, <2>3 DEF i
  <1>4. \/ /\ jsync' = [jsync EXCEPT !.idx = i + 1] /\ UNCHANGED <<jpj, jbuilds>>
        \/ /\ jsync' = [jsync EXCEPT !.idx = i + 1, !.dupes = dupes] /\ UNCHANGED <<jpj, jbuilds>>
        \/ /\ seen /\ (Abort(cancel) \/ UNCHANGED jbuilds)
           /\ \E out \in Outcomes :
                  /\ UpdateProwJob(cancel, new, out)
                  /\ jsync' = IF UpdateSucceeds(cancel, out)
                              THEN [jsync EXCEPT !.idx = i + 1, !.dupes = dupes, !.pjs[cancel] = new]
                              ELSE [jsync EXCEPT !.idx = Cardinality(JJobs) + 1]
    BY Zenon DEF terminateDupes
  <1> HIDE DEF dupes, seen, cancel, new
  <1>n. /\ i + 1 \in Nat /\ i < i + 1
        /\ \A n \in {i + 1, Cardinality(JJobs) + 1}, x \in DOMAIN jsync.dupes :
             jsync.dupes[x] \in JJobs /\ jsync.dupes[x] < n /\ jcfg.key[jsync.dupes[x]] = x
    <2>1. i + 1 \in Nat /\ i < i + 1
      BY <1>1
    <2> HIDE DEF i
    <2>2. \A x \in DOMAIN jsync.dupes : jsync.dupes[x] < i + 1 /\ jsync.dupes[x] < Cardinality(JJobs) + 1
      BY Zenon, <1>1, <1>2, <2>1, Below
    <2> QED BY Zenon, <1>2, <2>1, <2>2
  <1>5. /\ jsync.jbs = jsync.jbs /\ jsync.pjs \in [JJobs -> JProwJob] /\ jpj \in [JJobs -> JProwJob]
        /\ jsync.cur = 0
    BY <1>0 DEF JInv, JSyncOK, JTypeOK, PendingInv, NextOK
  <1>6. CASE jsync' = [jsync EXCEPT !.idx = i + 1] /\ UNCHANGED <<jpj, jbuilds>>
    <2>1. /\ JShape(jsync') /\ jsync'.jbs = jsync.jbs /\ jsync'.idx = i + 1 /\ jsync'.pjs = jsync.pjs
          /\ jsync'.dupes = jsync.dupes /\ jsync'.pc = "dupes" /\ jsync'.cur = 0
      BY <1>0, <1>1, <1>5, <1>6 DEF JShape
    <2>2. NewestInv' /\ NextOK' /\ jsync'.idx \in Nat
      BY Zenon, <1>0, <1>n, <2>1, DupesNoted
    <2>3. BuildsGrow /\ jbuilds' \in Seq(JBuild)
      BY <1>6, SameBuilds DEF JInv
    <2> QED BY <1>0, <1>5, <1>6, <2>1, <2>2, <2>3, SyncStep
  <1>7. CASE jsync' = [jsync EXCEPT !.idx = i + 1, !.dupes = dupes] /\ UNCHANGED <<jpj, jbuilds>>
    <2>1. /\ JShape(jsync') /\ jsync'.jbs = jsync.jbs /\ jsync'.idx = i + 1 /\ jsync'.pjs = jsync.pjs
          /\ jsync'.dupes = dupes /\ jsync'.pc = "dupes" /\ jsync'.cur = 0
      BY <1>0, <1>1, <1>5, <1>7 DEF JShape
    <2>2. NewestInv' /\ NextOK' /\ jsync'.idx \in Nat
      BY Zenon, <1>0, <1>n, <1>3, <2>1, DupesNoted
    <2>3. BuildsGrow /\ jbuilds' \in Seq(JBuild)
      BY <1>7, SameBuilds DEF JInv
    <2> QED BY <1>0, <1>5, <1>7, <2>1, <2>2, <2>3, SyncStep
  <1>8. ASSUME NEW out \in Outcomes, seen, Abort(cancel) \/ UNCHANGED jbuilds, UpdateProwJob(cancel, new, out),
               jsync' = IF UpdateSucceeds(cancel, out)
                        THEN [jsync EXCEPT !.idx = i + 1, !.dupes = dupes, !.pjs[cancel] = new]
                        ELSE [jsync EXCEPT !.idx = Cardinality(JJobs) + 1]
        PROVE  JInv'
    <2>1. /\ cancel \in JJobs
          /\ \E x \in JJobs \ {cancel} : jcfg.key[x] = jcfg.key[cancel] /\ jcfg.start[x] >= jcfg.start[cancel]
      <3>1. prev \in JJobs /\ prev # i /\ jcfg.key[prev] = jcfg.key[i]
        BY <1>1, <1>2, <1>8 DEF seen
      <3>2. jcfg.start[prev] \in Int /\ jcfg.start[i] \in Int
        BY <1>0, <3>1, JenkinsAssumption DEF JInv, JTypeOK
      <3>3. CASE older
        <4>1. cancel = prev /\ jcfg.start[i] >= jcfg.start[prev]
          <5>1. cancel = prev /\ jcfg.start[prev] < jcfg.start[i]
            BY Zenon, <3>3 DEF cancel
          <5> QED BY Zenon, <3>2, <5>1, Ordered
        <4> HIDE DEF i, prev
        <4> QED BY <1>0, <3>1, <4>1
      <3>4. CASE ~older
        <4>1. cancel = i /\ jcfg.start[prev] >= jcfg.start[i]
          <5>1. cancel = i /\ ~(jcfg.start[prev] < jcfg.start[i])
            BY Zenon, <3>4 DEF cancel
          <5> QED BY Zenon, <3>2, <5>1, Ordered
        <4> HIDE DEF i, prev
        <4> QED BY <1>0, <3>1, <4>1
      <3> QED BY <3>3, <3>4
    <2>2. new \in JProwJob /\ new.state = "aborted"
      BY <1>5, <2>1 DEF new, JState, JProwJob
    <2>3. BuildsGrow /\ jbuilds' \in Seq(JBuild)
      BY <1>8, SameBuilds, BuildsStop DEF JInv
    <2>4. /\ jpj' \in [JJobs -> JProwJob]
          /\ \A j \in JJobs \ {cancel} : jpj'[j] = jpj[j]
          /\ jpj'[cancel] = jpj[cancel] \/ jpj'[cancel] = new
      BY <1>8, <2>1, <2>2, UpdateStep DEF JInv
    <2>5. \A j \in JJobs : j = cancel => JVerdict(j)' \/ jpj'[j] = jpj[j]
      BY <1>0, <2>1, <2>2, <2>4 DEF JVerdict
    <2>6. /\ JShape(jsync') /\ jsync'.jbs = jsync.jbs /\ jsync'.pc = "dupes" /\ jsync'.cur = 0
          /\ \/ /\ jsync'.idx = i + 1 /\ jsync'.dupes = dupes
                /\ jsync'.pjs = [jsync.pjs EXCEPT ![cancel] = new]
             \/ /\ jsync'.idx = Cardinality(JJobs) + 1 /\ jsync'.dupes = jsync.dupes
                /\ jsync'.pjs = jsync.pjs
      <3>1. CASE UpdateSucceeds(cancel, out)
        BY <1>0, <1>1, <1>5, <1>8, <3>1 DEF JShape
      <3>2. CASE ~UpdateSucceeds(cancel, out)
        BY <1>0, <1>1, <1>5, <1>8, <3>2 DEF JShape
      <3> QED BY <3>1, <3>2
    <2>7. /\ jsync'.pjs \in [JJobs -> JProwJob]
          /\ \A j \in JJobs : jsync'.pjs[j].state = "pending" => jsync.pjs[j].state = "pending"
      BY <1>5, <2>1, <2>2, <2>6
    <2>8. NewestInv' /\ NextOK' /\ jsync'.idx \in Nat
      <3>1. CASE jsync'.idx = i + 1 /\ jsync'.dupes = dupes
        BY Zenon, <1>0, <1>n, <1>3, <2>6, <3>1, DupesNoted
      <3>2. CASE jsync'.idx = Cardinality(JJobs) + 1 /\ jsync'.dupes = jsync.dupes
        BY Zenon, <1>0, <1>1, <1>n, <2>6, <3>2, DupesNoted
      <3> QED BY Zenon, <2>6, <3>1, <3>2
    <2>9. \A j \in JJobs : \/ jpj'[j] = jpj[j]
                           \/ JVerdict(j)' /\ (jpj'[j].state = "pending" => BuildsOf(j)' # {})
      BY <2>2, <2>4, <2>5
    <2> QED BY <1>0, <2>3, <2>4, <2>6, <2>7, <2>8, <2>9, SyncStep
  <1> QED BY <1>4, <1>6, <1>7, <1>8

LEMMA WorkStep ==
  ASSUME JInv, JWork
  PROVE  JInv'
  <1>1. PICK i \in DOMAIN jbuilds : StartBuild(i) \/ \E r \in JResults : FinishBuild(i, r)
    BY DEF JWork
  <1>2. BuildsGrow /\ jbuilds' \in Seq(JBuild) /\ UNCHANGED <<jcfg, jpj, jsync>>
    BY <1>1, BuildMoves DEF JInv, StartBuild, FinishBuild
  <1> QED BY <1>2, QuietStep

\* The inductive invariant of the Jenkins operator (src/jenkins/controller.go): while a Sync goes on,
\* and across crashes, a ProwJob is pending only if Jenkins has a build of it, and the queue listed
\* before the builds finds one for every pending ProwJob, for any ProwJobs, limits and failures.
THEOREM JInvariance == JSpec => []JInv
  <1>1. JInit => JInv
    <2> SUFFICES ASSUME JInit PROVE JInv
      OBVIOUS
    <2>0. /\ jsync.pc = "idle" /\ jsync.pjs = [j \in JJobs |-> JTriggered] /\ jsync.idx = 1 /\ jsync.cur = 0
          /\ DOMAIN jsync.jbs = {} /\ DOMAIN jsync.dupes = {} /\ JShape(jsync)
      BY JIdleOK DEF JInit, JShape
    <2>a. JTypeOK
      BY JIdleOK DEF JInit, JTypeOK
    <2>b. jsync.pjs \in [JJobs -> JProwJob] /\ jsync.idx \in Nat /\ DOMAIN jsync.jbs \subseteq JJobs
      <3>1. 1 \in Nat
        OBVIOUS
      <3> QED BY Zenon, <2>0, <3>1, JIdleOK
    <2>1. JTypeOK /\ JSyncOK
      BY Zenon, <2>0, <2>a, <2>b DEF JSyncOK, JShape
    <2>2. PendingInv /\ FoundInv /\ NewestInv /\ JVerdictOfBuild
      BY <2>0, JIdleOK DEF JInit, PendingInv, NextOK, FoundInv, NewestInv, JVerdictOfBuild, JVerdict
    <2> QED BY <2>1, <2>2 DEF JInv
  <1>2. JInv /\ [JNext]_jenkinsVars => JInv'
    <2> SUFFICES ASSUME JInv, [JNext]_jenkinsVars PROVE JInv'
      OBVIOUS
    <2>1. CASE UNCHANGED jenkinsVars
      BY <2>1, SameBuilds, QuietStep DEF jenkinsVars, JInv
    <2>2. CASE JWork
      BY <2>2, WorkStep
    <2>3. CASE OperatorCrash \/ ReportAll
      BY <2>3, IdleStep DEF OperatorCrash, ReportAll
    <2>4. CASE ListBuilds
      BY <2>4, QueueStep, BuildsStep DEF ListBuilds
    <2>5. CASE \E j \in JJobs : syncPendingJob(j) \/ syncTriggeredJob(j)
      BY <2>5, PendingStep, TriggeredStep
    <2> QED BY <2>1, <2>2, <2>3, <2>4, <2>5, ListStep, DupesStep, PartitionStep, TriggeredUpdateStep DEF JNext, JSync
  <1> QED BY <1>1, <1>2, PTL DEF JSpec

\* In Jenkins' syncPendingJob and terminateDupes: no ProwJob is given up as "Error finding Jenkins
\* job." while Jenkins has a build for it, and every verdict is one that a build had, or that of a
\* superseded presubmit.
THEOREM JenkinsVerdicts == JSpec => [](NoBuildLost /\ JVerdictOfBuild)
  <1>1. JInv => NoBuildLost /\ JVerdictOfBuild
    BY DEF JInv, JTypeOK, JProwJob, NoBuildLost
  <1> QED BY <1>1, JInvariance, PTL

-----------------------------------------------------------------------------
(* The pipeline controller.                                                *)

LEMMA ContextOf ==
  \A k : getPipelineConfig(k) \in PContexts /\ (k \in PContexts => getPipelineConfig(k) = k)
  BY PipelineAssumption DEF getPipelineConfig

\* What a worker that goes on, and one that ends, makes of the work.
LEMMA GotoWork ==
  ASSUME PTypeOK, UNCHANGED pcfg, NEW k \in PKeys, NEW w \in PWork, Goto(k, w)
  PROVE  /\ pwork' \in [DOMAIN pwork' -> PWork] /\ DOMAIN pwork' \subseteq PKeys'
         /\ k \in DOMAIN pwork' /\ pwork'[k] = w
         /\ \A x : x # k => /\ x \in DOMAIN pwork' <=> x \in DOMAIN pwork
                            /\ x \in DOMAIN pwork => pwork'[x] = pwork[x]
  BY DEF PTypeOK, Goto, PKeys

LEMMA DoneWork ==
  ASSUME PTypeOK, UNCHANGED pcfg, NEW k \in PKeys, Done(k)
  PROVE  /\ pwork' \in [DOMAIN pwork' -> PWork] /\ DOMAIN pwork' \subseteq PKeys'
         /\ k \notin DOMAIN pwork'
         /\ \A x : x # k => /\ x \in DOMAIN pwork' <=> x \in DOMAIN pwork
                            /\ x \in DOMAIN pwork => pwork'[x] = pwork[x]
  BY DEF PTypeOK, Done, PKeys

LEMMA WorkAt ==
  ASSUME PTypeOK, NEW k, NEW pc \in {"delete", "create", "resources", "run", "poll", "update"}, At(k, pc)
  PROVE  k \in DOMAIN pwork /\ pwork[k] \in PWork /\ pwork[k].pc = pc
  BY DEF PTypeOK, At

\* A verdict stays justified as runs end and requests fail.
LEMMA JustifiedKept ==
  ASSUME UNCHANGED pcfg, pended \subseteq pended', pfails \in Nat, pfails' \in Nat, pfails' >= pfails,
         NEW s, PJustified(s)
  PROVE  PJustified(s)'
  BY DEF PJustified

LEMMA FailCounts ==
  ASSUME PTypeOK, PFail
  PROVE  pfails' \in Nat /\ pfails' > 0 /\ pfails' >= pfails
  BY DEF PTypeOK, PFail

LEMMA NoFailBefore ==
  ASSUME pfails \in Nat, pfails' \in Nat, pfails' >= pfails, pfails' = 0
  PROVE  pfails = 0
  OBVIOUS

\* Steps that leave the workers alone: of Tekton, of people, of the informers.
LEMMA RunProgressStep ==
  ASSUME PInv, NEW c \in PContexts, RunProgress(c)
  PROVE  PInv'
  <1>1. UNCHANGED <<pcfg, ppj, pres, ppjl, prunl, pwork, pfails>>
    BY DEF RunProgress
  <1>2. PICK st \in {"running"} \cup PEnds :
          /\ pruns' = [pruns EXCEPT ![c].st = st]
          /\ pended \subseteq pended' /\ (st \in PEnds => st \in pended')
    <2>1. /\ DOMAIN RunSteps = {"scheduling", "running"}
          /\ RunSteps["scheduling"] = {"running", "nocondition"} /\ RunSteps["running"] = {"true", "false"}
      BY DEF RunSteps
    <2>2. PICK st \in RunSteps[pruns[c].st] :
            /\ pruns' = [pruns EXCEPT ![c].st = st]
            /\ pended' = IF st \in DOMAIN RunSteps THEN pended ELSE pended \cup {st}
      BY Zenon DEF RunProgress
    <2>3. pruns[c].st \in {"scheduling", "running"}
      BY <2>1 DEF RunProgress
    <2>4. st \in {"running"} \cup PEnds
      BY <2>1, <2>2, <2>3 DEF PEnds
    <2>5. pended \subseteq pended' /\ (st \in PEnds => st \in pended')
      BY <2>1, <2>2 DEF PEnds
    <2> QED BY <2>2, <2>4, <2>5
  <1>3. pruns \in [PContexts -> PRun]
    BY DEF PInv, PTypeOK
  <1>4. /\ pruns' \in [PContexts -> PRun] /\ pruns'[c].st = st
        /\ \A d \in PContexts : pruns'[d].life = pruns[d].life /\ pruns'[d].mine = pruns[d].mine
        /\ \A d \in PContexts \ {c} : pruns'[d] = pruns[d]
    BY <1>2, <1>3 DEF PRun
  <1>5. PTypeOK'
    BY <1>1, <1>4 DEF PInv, PTypeOK, PKeys
  <1>6. \A s : PJustified(s) => PJustified(s)'
    BY <1>1, <1>2, JustifiedKept DEF PInv, PTypeOK
  <1>7. ToldInv'
    BY <1>1, <1>2, <1>4, <1>6 DEF PInv, ToldInv
  <1>8. ResourcesInv'
    BY <1>1, <1>4 DEF PInv, ResourcesInv, PKeys, At, makeResources
  <1>9. KeyInv' /\ CreationInv'
    BY <1>1, <1>4 DEF PInv, KeyInv, CreationInv, CreationOK, PKeys, At, Creates
  <1> QED BY <1>5, <1>7, <1>8, <1>9 DEF PInv

LEMMA RunRemovedStep ==
  ASSUME PInv, NEW c \in PContexts, RunRemoved(c)
  PROVE  PInv'
  <1>1. UNCHANGED <<pcfg, ppj, pres, ppjl, prunl, pwork, pfails, pended>> /\ pruns[c].life = "deleting"
    BY DEF RunRemoved
  <1>2. NoRun \in PRun /\ NoRun.life = "gone" /\ NoRun.st = "scheduling" /\ NoRun.mine = FALSE
    BY DEF NoRun, PRun, PLife
  <1>3. /\ pruns' \in [PContexts -> PRun] /\ pruns'[c] = NoRun
        /\ \A d \in PContexts \ {c} : pruns'[d] = pruns[d]
    BY <1>2 DEF PInv, PTypeOK, RunRemoved
  <1>4. PTypeOK'
    BY <1>1, <1>3 DEF PInv, PTypeOK, PKeys
  <1>5. ToldInv'
    <2>1. \A s : PJustified(s)' <=> PJustified(s)
      BY <1>1 DEF PJustified
    <2> QED BY <1>1, <1>2, <1>3, <2>1 DEF PInv, ToldInv, PEnds
  <1>6. ResourcesInv'
    BY <1>1, <1>2, <1>3 DEF PInv, ResourcesInv, PKeys, At, makeResources
  <1>7. KeyInv'
    BY <1>1 DEF PInv, KeyInv, PKeys, At, Creates
  <1>8. CreationInv'
    BY <1>1, <1>2, <1>3 DEF PInv, CreationInv, CreationOK, At, Creates
  <1> QED BY <1>4, <1>5, <1>6, <1>7, <1>8 DEF PInv

LEMMA DeletedByHandStep ==
  ASSUME PInv, NEW c \in PContexts, RunDeletedByHand(c)
  PROVE  PInv'
  <1>1. UNCHANGED <<pcfg, ppj, pres, ppjl, prunl, pwork, pended>> /\ PFail
    BY DEF RunDeletedByHand
  <1>2. pfails' \in Nat /\ pfails' > 0 /\ pfails' >= pfails /\ pfails \in Nat
    BY <1>1, FailCounts DEF PInv, PTypeOK
  <1>3. /\ pruns' \in [PContexts -> PRun]
        /\ \A d \in PContexts : pruns'[d].st = pruns[d].st /\ pruns'[d].mine = pruns[d].mine
    BY DEF PInv, PTypeOK, PRun, PLife, RunDeletedByHand
  <1>4. PTypeOK'
    BY <1>1, <1>2, <1>3 DEF PInv, PTypeOK, PKeys
  <1>5. ToldInv'
    <2>1. \A s : PJustified(s) => PJustified(s)'
      BY <1>1, <1>2, JustifiedKept
    <2> QED BY <1>1, <1>3, <2>1 DEF PInv, ToldInv
  <1>6. ResourcesInv' /\ KeyInv'
    BY <1>1, <1>3 DEF PInv, ResourcesInv, KeyInv, PKeys, At, Creates, makeResources
  <1>7. CreationInv'
    BY <1>2 DEF CreationInv
  <1> QED BY <1>4, <1>5, <1>6, <1>7 DEF PInv

LEMMA ProwJobDeletedStep ==
  ASSUME PInv, ProwJobDeleted
  PROVE  PInv'
  <1>1. UNCHANGED <<pcfg, pruns, pres, ppjl, prunl, pwork, pended, pfails>>
    BY DEF ProwJobDeleted
  <1>2. ppj' \in PProwJob /\ ppj'.state = ppj.state /\ ppj'.life # "live"
    BY DEF ProwJobDeleted, PInv, PTypeOK, PProwJob, PLife
  <1>3. PTypeOK'
    BY <1>1, <1>2 DEF PInv, PTypeOK, PKeys
  <1>4. ToldInv'
    <2>1. \A s : PJustified(s)' <=> PJustified(s)
      BY <1>1 DEF PJustified
    <2> QED BY <1>1, <1>2, <2>1 DEF PInv, ToldInv
  <1>5. ResourcesInv' /\ KeyInv' /\ CreationInv'
    BY <1>1, <1>2 DEF PInv, ResourcesInv, KeyInv, CreationInv, CreationOK, PKeys, At, Creates, makeResources
  <1> QED BY <1>3, <1>4, <1>5 DEF PInv

LEMMA InformersStep ==
  ASSUME PInv, PInformers
  PROVE  PInv'
  <1>1. UNCHANGED <<pcfg, ppj, pruns, pres, pwork, pended>>
    BY DEF PInformers, ProwJobEvent, Resync, RunEvent
  <1>2. pfails' \in Nat /\ pfails' >= pfails /\ pfails \in Nat
    <2>1. PFail \/ UNCHANGED pfails
      BY Zenon DEF PInformers, ProwJobEvent, Resync, RunEvent
    <2>2. PTypeOK /\ pfails \in Nat
      BY Zenon DEF PInv, PTypeOK
    <2>3. CASE PFail
      BY Zenon, <2>2, <2>3, FailCounts
    <2>4. CASE UNCHANGED pfails
      BY <2>2, <2>4
    <2> QED BY Zenon, <2>1, <2>3, <2>4
  <1>3. \A s : PJustified(s) => PJustified(s)'
    BY <1>1, <1>2, JustifiedKept
  <1>4. CASE ppjl' = ppj /\ UNCHANGED prunl
    <2>1. PTypeOK' /\ ToldInv'
      BY <1>1, <1>2, <1>3, <1>4 DEF PInv, PTypeOK, PKeys, ToldInv
    <2>2. ResourcesInv' /\ KeyInv'
      BY <1>1, <1>4 DEF PInv, ResourcesInv, KeyInv, PKeys, At, Creates, makeResources
    <2>3. CreationInv'
      <3>1. pfails' = 0 => pfails = 0
        BY <1>2
      <3>2. ppjl'.life = "live" => ppjl.life = "live"
        BY <1>4 DEF PInv, KeyInv
      <3> QED BY <1>1, <1>4, <3>1, <3>2 DEF PInv, CreationInv, CreationOK, At, Creates
    <2> QED BY <2>1, <2>2, <2>3 DEF PInv
  <1>5. CASE UNCHANGED <<ppjl, prunl>>
    <2>1. PTypeOK' /\ ToldInv'
      BY <1>1, <1>2, <1>3, <1>5 DEF PInv, PTypeOK, PKeys, ToldInv
    <2>2. ResourcesInv' /\ KeyInv'
      BY <1>1, <1>5 DEF PInv, ResourcesInv, KeyInv, PKeys, At, Creates, makeResources
    <2>3. CreationInv'
      <3>1. pfails' = 0 => pfails = 0
        BY <1>2
      <3> QED BY <1>1, <1>5, <3>1 DEF PInv, CreationInv, CreationOK, At, Creates
    <2> QED BY <2>1, <2>2, <2>3 DEF PInv
  <1>6. ASSUME NEW c \in PContexts, RunEvent(c)
        PROVE  PInv'
    <2>1. UNCHANGED <<ppjl, pfails>>
      BY <1>6 DEF RunEvent
    <2>2. /\ prunl' \in [PContexts -> PRun] /\ prunl'[c] = pruns[c]
          /\ \A d \in PContexts \ {c} : prunl'[d] = prunl[d]
      BY <1>6 DEF RunEvent, PInv, PTypeOK
    <2>3. PTypeOK'
      BY <1>1, <1>2, <2>1, <2>2 DEF PInv, PTypeOK, PKeys
    <2>4. ToldInv'
      BY <1>1, <1>3, <2>2 DEF PInv, ToldInv
    <2>5. ResourcesInv' /\ KeyInv'
      BY <1>1, <2>1 DEF PInv, ResourcesInv, KeyInv, PKeys, At, Creates, makeResources
    <2>6. CreationInv'
      BY <1>1, <2>1, <2>2 DEF PInv, CreationInv, CreationOK, At, Creates
    <2> QED BY <2>3, <2>4, <2>5, <2>6 DEF PInv
  <1> QED BY <1>4, <1>5, <1>6 DEF PInformers, ProwJobEvent, Resync

\* A step of the worker of a key, which touches only the run in the cluster of that key.
LEMMA KeyStep ==
  ASSUME PInv, UNCHANGED <<pcfg, pended, ppjl, prunl>>, pfails' \in Nat, pfails' >= pfails,
         NEW k \in PKeys,
         ppj' \in PProwJob, ppj'.life = ppj.life, PJustified(ppj.state)',
         pres \subseteq pres',
         pruns' \in [PContexts -> PRun],
         \A c \in PContexts : /\ c # getPipelineConfig(k) => pruns'[c] = pruns[c]
                              /\ pruns'[c].st \in {pruns[c].st, "scheduling"}
                              /\ pruns'[c].mine => pruns[c].mine \/ makeResources \subseteq pres,
         pwork' \in [DOMAIN pwork' -> PWork], DOMAIN pwork' \subseteq PKeys',
         \A x : x # k => /\ x \in DOMAIN pwork' <=> x \in DOMAIN pwork
                         /\ x \in DOMAIN pwork => pwork'[x] = pwork[x],
         (k \in DOMAIN pwork => PJustified(pwork[k].state))',
         k \in DOMAIN pwork' =>
           /\ pwork'[k].pc = "run" => makeResources \subseteq pres
           /\ pwork'[k].pc \in {"create", "resources", "run", "poll"} => k = pcfg.cluster
           /\ pwork'[k].pc = "delete" /\ k = pcfg.cluster => ppjl.life # "live",
         pfails' = 0 /\ k = pcfg.cluster /\ k \in PContexts => CreationOK(k)'
  PROVE  PInv'
  <1>0. pfails \in Nat /\ (pfails' = 0 => pfails = 0)
    <2>1. pfails \in Nat
      BY Zenon DEF PInv, PTypeOK
    <2> QED BY Zenon, <2>1, NoFailBefore
  <1>1. PTypeOK'
    BY DEF PInv, PTypeOK
  <1>2. \A s : PJustified(s) => PJustified(s)'
    BY <1>0, JustifiedKept
  <1>3. ToldInv'
    <2>1. (\A x \in DOMAIN pwork : PJustified(pwork[x].state))'
      <3> SUFFICES ASSUME NEW x \in DOMAIN pwork' PROVE PJustified(pwork[x].state)'
        OBVIOUS
      <3>1. CASE x # k
        BY <1>2, <3>1 DEF PInv, ToldInv, PJustified
      <3> QED BY <3>1
    <2>2. \A c \in PContexts : {pruns'[c].st, prunl'[c].st} \cap PEnds \subseteq pended'
      BY DEF PInv, ToldInv, PEnds
    <2> QED BY <2>1, <2>2 DEF ToldInv
  <1>4. \A x, pc : x # k => (At(x, pc)' <=> At(x, pc))
    BY DEF At
  <1>5. \A pc : At(k, pc)' <=> k \in DOMAIN pwork' /\ pwork'[k].pc = pc
    BY DEF At
  <1>6. ResourcesInv'
    <2>1. makeResources' = makeResources /\ PKeys' = PKeys
      BY DEF makeResources, PKeys
    <2> QED BY <1>4, <1>5, <2>1 DEF PInv, ResourcesInv
  <1>7. KeyInv'
    <2>1. PKeys' = PKeys
      BY DEF PKeys
    <2>2. ppjl'.life # "live" => ppj'.life # "live"
      BY DEF PInv, KeyInv
    <2>3. ASSUME NEW x \in PKeys, Creates(x)' \/ At(x, "poll")'
          PROVE  x = pcfg.cluster
      <3>1. CASE x = k
        BY <1>5, <2>3, <3>1 DEF Creates
      <3>2. CASE x # k
        BY <1>4, <2>3, <3>2 DEF Creates, PInv, KeyInv
      <3> QED BY Zenon, <3>1, <3>2
    <2>4. At(pcfg.cluster, "delete")' => ppjl'.life # "live"
      <3>1. CASE pcfg.cluster = k
        BY <1>5, <3>1
      <3>2. CASE pcfg.cluster # k
        BY <1>4, <3>2 DEF PInv, KeyInv
      <3> QED BY Zenon, <3>1, <3>2
    <2> QED BY <2>1, <2>2, <2>3, <2>4 DEF KeyInv
  <1>8. CreationInv'
    <2> SUFFICES ASSUME pfails' = 0, pcfg.cluster \in PContexts, k # pcfg.cluster
                 PROVE  CreationOK(pcfg.cluster)'
      BY DEF CreationInv
    <2>1. \A x : x # k => (Creates(x)' <=> Creates(x))
      BY <1>4 DEF Creates
    <2>2. getPipelineConfig(k) # pcfg.cluster
      BY ContextOf DEF PKeys
    <2>3. pruns'[pcfg.cluster] = pruns[pcfg.cluster]
      BY <2>2
    <2> QED BY <1>0, <1>4, <2>1, <2>3 DEF PInv, CreationInv, CreationOK
  <1> QED BY <1>1, <1>3, <1>6, <1>7, <1>8 DEF PInv

\* The worker of a key that changes no more than its own work, and perhaps the count of failures.
LEMMA OwnWorkStep ==
  ASSUME PInv, UNCHANGED <<pcfg, pcluster, ppjl, prunl>>, pfails' \in Nat, pfails' >= pfails,
         NEW k \in PKeys,
         pwork' \in [DOMAIN pwork' -> PWork], DOMAIN pwork' \subseteq PKeys',
         \A x : x # k => /\ x \in DOMAIN pwork' <=> x \in DOMAIN pwork
                         /\ x \in DOMAIN pwork => pwork'[x] = pwork[x],
         (k \in DOMAIN pwork => PJustified(pwork[k].state))',
         k \in DOMAIN pwork' =>
           /\ pwork'[k].pc = "run" => makeResources \subseteq pres
           /\ pwork'[k].pc \in {"create", "resources", "run", "poll"} => k = pcfg.cluster
           /\ pwork'[k].pc = "delete" /\ k = pcfg.cluster => ppjl.life # "live",
         pfails' = 0 /\ k = pcfg.cluster /\ k \in PContexts => CreationOK(k)'
  PROVE  PInv'
  <1>1. UNCHANGED <<ppj, pruns, pres, pended>>
    BY DEF pcluster
  <1>2. ppj \in PProwJob /\ pruns \in [PContexts -> PRun] /\ pfails \in Nat /\ PJustified(ppj.state)
    BY DEF PInv, PTypeOK, ToldInv
  <1>3. PJustified(ppj.state)'
    BY <1>1, <1>2 DEF PJustified
  <1> QED BY <1>1, <1>2, <1>3, KeyStep

\* The worker of a key ends with that.
LEMMA EndWorkStep ==
  ASSUME PInv, UNCHANGED <<pcfg, pcluster, ppjl, prunl>>, pfails' \in Nat, pfails' >= pfails,
         NEW k \in PKeys, ~At(k, "poll"), Done(k)
  PROVE  PInv'
  <1>1. /\ pwork' \in [DOMAIN pwork' -> PWork] /\ DOMAIN pwork' \subseteq PKeys'
        /\ k \notin DOMAIN pwork'
        /\ \A x : x # k => /\ x \in DOMAIN pwork' <=> x \in DOMAIN pwork
                           /\ x \in DOMAIN pwork => pwork'[x] = pwork[x]
    BY DoneWork DEF PInv
  <1>2. pfails' = 0 /\ k = pcfg.cluster /\ k \in PContexts => CreationOK(k)'
    <2>1. pfails' = 0 => pfails = 0
      BY DEF PInv, PTypeOK
    <2> QED BY <1>1, <2>1 DEF PInv, CreationInv, CreationOK, Creates, At, pcluster
  <1> QED BY <1>1, <1>2, OwnWorkStep

LEMMA RunWorkerStep ==
  ASSUME PInv, NEW k \in PKeys, runWorker(k)
  PROVE  PInv'
  <1> DEFINE r == prunl[getPipelineConfig(k)]
  <1>0. UNCHANGED <<pcfg, pcluster, ppjl, prunl, pfails>> /\ k \notin DOMAIN pwork /\ Decide(k)
    BY DEF runWorker
  <1>1. PTypeOK /\ pfails \in Nat /\ ppjl \in PProwJob /\ r \in PRun
    BY ContextOf DEF PInv, PTypeOK
  <1>2. CASE UNCHANGED pwork
    <2>1. pwork' \in [DOMAIN pwork' -> PWork] /\ DOMAIN pwork' \subseteq PKeys' /\ k \notin DOMAIN pwork'
      BY <1>0, <1>2 DEF PInv, PTypeOK, PKeys
    <2>2. pfails' = 0 /\ k = pcfg.cluster /\ k \in PContexts => CreationOK(k)'
      BY <1>0, <1>2 DEF PInv, CreationInv, CreationOK, Creates, At, pcluster
    <2> QED BY <1>0, <1>1, <1>2, <2>1, <2>2, OwnWorkStep
  <1>3. CASE ~WantRun(k) /\ ~(ppjl.life # "gone" /\ pcfg.agent # "tekton") /\ Goto(k, Work("delete", "", "", FALSE))
    <2> DEFINE w == Work("delete", "", "", FALSE)
    <2>1. w \in PWork /\ w.pc = "delete" /\ w.state = ""
      BY <1>1 DEF Work, PWork, PState, PDesc
    <2> HIDE DEF w
    <2>2. /\ pwork' \in [DOMAIN pwork' -> PWork] /\ DOMAIN pwork' \subseteq PKeys'
          /\ k \in DOMAIN pwork' /\ pwork'[k] = w
          /\ \A x : x # k => /\ x \in DOMAIN pwork' <=> x \in DOMAIN pwork
                             /\ x \in DOMAIN pwork => pwork'[x] = pwork[x]
      BY <1>0, <1>1, <1>3, <2>1, GotoWork DEF w
    <2>3. k = pcfg.cluster => ppjl.life # "live"
      BY <1>3 DEF WantRun
    <2>4. (PJustified(pwork[k].state))'
      BY <2>1, <2>2 DEF PJustified
    <2>5. k = pcfg.cluster => CreationOK(k)'
      BY <1>0, <2>1, <2>2, <2>3 DEF CreationOK, Creates, At
    <2>6. /\ pwork'[k].pc = "run" => makeResources \subseteq pres
          /\ pwork'[k].pc \in {"create", "resources", "run", "poll"} => k = pcfg.cluster
          /\ pwork'[k].pc = "delete" /\ k = pcfg.cluster => ppjl.life # "live"
      BY <2>1, <2>2, <2>3
    <2>7. pfails' \in Nat /\ pfails' >= pfails
      BY <1>0, <1>1
    <2> QED BY <1>0, <2>2, <2>4, <2>5, <2>6, <2>7, OwnWorkStep
  <1>4. CASE WantRun(k) /\ r.life # "live" /\ Goto(k, Work("create", "", "", TRUE))
    <2> DEFINE w == Work("create", "", "", TRUE)
    <2>1. w \in PWork /\ w.pc = "create" /\ w.state = ""
      BY <1>1 DEF Work, PWork, PState, PDesc
    <2> HIDE DEF w
    <2>2. /\ pwork' \in [DOMAIN pwork' -> PWork] /\ DOMAIN pwork' \subseteq PKeys'
          /\ k \in DOMAIN pwork' /\ pwork'[k] = w
          /\ \A x : x # k => /\ x \in DOMAIN pwork' <=> x \in DOMAIN pwork
                             /\ x \in DOMAIN pwork => pwork'[x] = pwork[x]
      BY <1>0, <1>1, <1>4, <2>1, GotoWork DEF w
    <2>3. k = pcfg.cluster /\ ppjl.life = "live"
      BY <1>4 DEF WantRun
    <2>4. (PJustified(pwork[k].state))'
      BY <2>1, <2>2 DEF PJustified
    <2>5. pfails' = 0 /\ k \in PContexts => CreationOK(k)'
      <3> SUFFICES ASSUME pfails = 0, k \in PContexts PROVE CreationOK(k)'
        BY <1>0
      <3>1. prunl[k].life # "live" /\ ~At(k, "poll")
        BY <1>0, <1>4, ContextOf DEF At
      <3>2. pruns[k].life = "gone" /\ prunl[k].life = "gone"
        BY <2>3, <3>1 DEF PInv, CreationInv, CreationOK
      <3> QED BY <1>0, <2>1, <2>2, <3>2 DEF CreationOK, Creates, At, pcluster
    <2>6. /\ pwork'[k].pc = "run" => makeResources \subseteq pres
          /\ pwork'[k].pc \in {"create", "resources", "run", "poll"} => k = pcfg.cluster
          /\ pwork'[k].pc = "delete" /\ k = pcfg.cluster => ppjl.life # "live"
      BY <2>1, <2>2, <2>3
    <2>7. pfails' \in Nat /\ pfails' >= pfails
      BY <1>0, <1>1
    <2> QED BY <1>0, <2>2, <2>4, <2>5, <2>6, <2>7, OwnWorkStep
  <1>5. CASE WantRun(k) /\ r.life = "live" /\ Goto(k, Work("update", prowJobStatus(r.st), r.st, FALSE))
    <2> DEFINE w == Work("update", prowJobStatus(r.st), r.st, FALSE)
    <2>0. r.st \in {"scheduling", "running", "nocondition", "true", "false"} /\ (r.st \in PEnds => r.st \in pended)
      BY <1>1, ContextOf DEF PRun, PEnds, PInv, ToldInv
    <2>1. w \in PWork /\ w.pc = "update" /\ w.state = prowJobStatus(r.st)
      BY <1>1, <2>0 DEF Work, PWork, PState, PDesc, prowJobStatus, PEnds
    <2>2. PJustified(prowJobStatus(r.st))
      BY <2>0 DEF PJustified, prowJobStatus, PEnds
    <2> HIDE DEF w
    <2>3. /\ pwork' \in [DOMAIN pwork' -> PWork] /\ DOMAIN pwork' \subseteq PKeys'
          /\ k \in DOMAIN pwork' /\ pwork'[k] = w
          /\ \A x : x # k => /\ x \in DOMAIN pwork' <=> x \in DOMAIN pwork
                             /\ x \in DOMAIN pwork => pwork'[x] = pwork[x]
      BY <1>0, <1>1, <1>5, <2>1, GotoWork DEF w
    <2>4. (PJustified(pwork[k].state))'
      BY <1>0, <2>1, <2>2, <2>3 DEF PJustified, pcluster
    <2>5. pfails' = 0 /\ k = pcfg.cluster /\ k \in PContexts => CreationOK(k)'
      BY <1>0, <2>1, <2>3 DEF PInv, CreationInv, CreationOK, Creates, At, pcluster
    <2>6. /\ pwork'[k].pc = "run" => makeResources \subseteq pres
          /\ pwork'[k].pc \in {"create", "resources", "run", "poll"} => k = pcfg.cluster
          /\ pwork'[k].pc = "delete" /\ k = pcfg.cluster => ppjl.life # "live"
      BY <2>1, <2>3
    <2>7. pfails' \in Nat /\ pfails' >= pfails
      BY <1>0, <1>1
    <2> QED BY <1>0, <2>3, <2>4, <2>5, <2>6, <2>7, OwnWorkStep
  <1> QED BY <1>0, <1>2, <1>3, <1>4, <1>5 DEF Decide

LEMMA GetIDStep ==
  ASSUME PInv, NEW k \in PKeys, GetPipelineID(k)
  PROVE  PInv'
  <1>0. UNCHANGED <<pcfg, pcluster, ppjl, prunl>> /\ At(k, "create")
    BY DEF GetPipelineID, pcluster
  <1>1. PTypeOK /\ pfails \in Nat /\ pfails' \in Nat /\ pfails' >= pfails
    BY FailCounts DEF PInv, PTypeOK, GetPipelineID
  <1>2. CASE Done(k)
    <2>1. ~At(k, "poll")
      BY <1>0 DEF At
    <2> QED BY <1>0, <1>1, <1>2, <2>1, EndWorkStep
  <1>3. CASE Goto(k, [pwork[k] EXCEPT !.pc = "resources"])
    <2> DEFINE w == [pwork[k] EXCEPT !.pc = "resources"]
    <2>1. w \in PWork /\ w.pc = "resources" /\ w.state = pwork[k].state /\ k \in DOMAIN pwork
      BY <1>0, <1>1, WorkAt DEF PWork
    <2> HIDE DEF w
    <2>2. /\ pwork' \in [DOMAIN pwork' -> PWork] /\ DOMAIN pwork' \subseteq PKeys'
          /\ k \in DOMAIN pwork' /\ pwork'[k] = w
          /\ \A x : x # k => /\ x \in DOMAIN pwork' <=> x \in DOMAIN pwork
                             /\ x \in DOMAIN pwork => pwork'[x] = pwork[x]
      BY <1>0, <1>1, <1>3, <2>1, GotoWork DEF w
    <2>3. k = pcfg.cluster
      BY <1>0 DEF PInv, KeyInv, Creates
    <2>4. (PJustified(pwork[k].state))'
      BY <1>0, <1>1, <2>1, <2>2, JustifiedKept DEF PInv, ToldInv, pcluster, PJustified
    <2>5. pfails' = 0 /\ k \in PContexts => CreationOK(k)'
      <3> SUFFICES ASSUME pfails' = 0, k \in PContexts PROVE CreationOK(k)'
        OBVIOUS
      <3>1. pfails = 0
        BY Zenon, <1>1, NoFailBefore
      <3>2. CreationOK(k) /\ Creates(k)
        BY Zenon, <1>0, <2>3, <3>1 DEF PInv, CreationInv, Creates
      <3>3. pruns[k].life = "gone" /\ prunl[k].life = "gone"
        BY Zenon, <3>2 DEF CreationOK
      <3>4. ~At(k, "poll")'
        BY <2>1, <2>2 DEF At
      <3>5. pruns'[k].life = "gone" /\ prunl'[k].life = "gone"
        BY Zenon, <1>0, <3>3 DEF pcluster
      <3> QED BY Zenon, <3>4, <3>5 DEF CreationOK
    <2> QED BY <1>0, <1>1, <2>1, <2>2, <2>3, <2>4, <2>5, OwnWorkStep
  <1> QED BY <1>2, <1>3 DEF GetPipelineID

LEMMA ResourceStep ==
  ASSUME PInv, NEW k \in PKeys, createPipelineResource(k)
  PROVE  PInv'
  <1>0. UNCHANGED <<pcfg, ppj, pruns, ppjl, prunl, pended>> /\ At(k, "resources") /\ ~At(k, "poll")
    BY DEF createPipelineResource, At
  <1>1. PTypeOK /\ pfails \in Nat /\ pfails' \in Nat /\ pfails' >= pfails
    BY FailCounts DEF PInv, PTypeOK, createPipelineResource
  <1>2. CASE Done(k) /\ UNCHANGED pres
    BY <1>0, <1>1, <1>2, EndWorkStep DEF pcluster
  <1>3. CASE UNCHANGED <<pwork, pfails>> /\ pres \subseteq pres'
    <2>1. PTypeOK' /\ ToldInv' /\ KeyInv' /\ CreationInv'
      BY <1>0, <1>3 DEF PInv, PTypeOK, ToldInv, PJustified, KeyInv, CreationInv, CreationOK, Creates, At, PKeys
    <2>2. ResourcesInv'
      BY <1>0, <1>3 DEF PInv, ResourcesInv, makeResources, At, PKeys
    <2> QED BY <2>1, <2>2 DEF PInv
  <1>4. CASE makeResources \subseteq pres /\ Goto(k, [pwork[k] EXCEPT !.pc = "run"]) /\ UNCHANGED <<pres, pfails>>
    <2> DEFINE w == [pwork[k] EXCEPT !.pc = "run"]
    <2>1. w \in PWork /\ w.pc = "run" /\ w.state = pwork[k].state /\ k \in DOMAIN pwork
      BY <1>0, <1>1, WorkAt DEF PWork
    <2> HIDE DEF w
    <2>2. /\ pwork' \in [DOMAIN pwork' -> PWork] /\ DOMAIN pwork' \subseteq PKeys'
          /\ k \in DOMAIN pwork' /\ pwork'[k] = w
          /\ \A x : x # k => /\ x \in DOMAIN pwork' <=> x \in DOMAIN pwork
                             /\ x \in DOMAIN pwork => pwork'[x] = pwork[x]
      BY <1>0, <1>1, <1>4, <2>1, GotoWork DEF w
    <2>3. k = pcfg.cluster
      BY <1>0 DEF PInv, KeyInv, Creates
    <2>4. (PJustified(pwork[k].state))'
      BY <1>0, <1>4, <2>1, <2>2 DEF PInv, ToldInv, PJustified
    <2>5. pfails' = 0 /\ k \in PContexts => CreationOK(k)'
      BY <1>0, <1>4, <2>1, <2>2, <2>3 DEF PInv, CreationInv, CreationOK, Creates, At
    <2>6. /\ pwork'[k].pc = "run" => makeResources \subseteq pres
          /\ pwork'[k].pc # "delete" /\ UNCHANGED pcluster
      BY <1>0, <1>4, <2>1, <2>2 DEF pcluster
    <2> QED BY <1>0, <1>1, <2>2, <2>3, <2>4, <2>5, <2>6, OwnWorkStep
  <1> QED BY <1>2, <1>3, <1>4 DEF createPipelineResource

\* A start that failed is an error.
LEMMA ErrorWork ==
  ASSUME PTypeOK, UNCHANGED pcfg, NEW k \in PKeys, k \in DOMAIN pwork, ToError(k)
  PROVE  /\ pwork' \in [DOMAIN pwork' -> PWork] /\ DOMAIN pwork' \subseteq PKeys'
         /\ k \in DOMAIN pwork' /\ pwork'[k].pc = "update" /\ pwork'[k].state = "error"
         /\ \A x : x # k => /\ x \in DOMAIN pwork' <=> x \in DOMAIN pwork
                            /\ x \in DOMAIN pwork => pwork'[x] = pwork[x]
  <1> DEFINE w == [pwork[k] EXCEPT !.pc = "update", !.state = "error", !.desc = "start pipeline"]
  <1>1. pwork[k] \in PWork
    BY DEF PTypeOK
  <1>2. w \in PWork /\ w.pc = "update" /\ w.state = "error"
    BY <1>1 DEF PWork, PState, PDesc
  <1> HIDE DEF w
  <1> QED BY <1>2, GotoWork DEF w, ToError

LEMMA CreateRunStep ==
  ASSUME PInv, NEW k \in PKeys, createPipelineRun(k)
  PROVE  PInv'
  <1> DEFINE c == getPipelineConfig(k)
             new == [life |-> "live", st |-> "scheduling", mine |-> TRUE]
             made == [pruns EXCEPT ![c] = new]
  <1>0. UNCHANGED <<pcfg, ppj, pres, ppjl, prunl, pended>> /\ At(k, "run")
    BY DEF createPipelineRun
  <1>1. /\ PTypeOK /\ pfails \in Nat /\ pfails' \in Nat /\ pfails' >= pfails /\ c \in PContexts
        /\ pruns \in [PContexts -> PRun] /\ ppj \in PProwJob
    BY FailCounts, ContextOf DEF PInv, PTypeOK, createPipelineRun
  <1>2. /\ k = pcfg.cluster /\ makeResources \subseteq pres /\ k \in DOMAIN pwork /\ pwork[k] \in PWork
        /\ PJustified(pwork[k].state)
    BY <1>0, <1>1, WorkAt DEF PInv, KeyInv, Creates, ResourcesInv, ToldInv
  <1>3. new \in PRun /\ new.st = "scheduling"
    BY DEF PRun, PLife
  <1>4. /\ made \in [PContexts -> PRun] /\ made[c] = new
        /\ \A d \in PContexts \ {c} : made[d] = pruns[d]
    BY <1>1, <1>3
  <1>5. pruns' = pruns \/ pruns' = made
    BY DEF createPipelineRun
  <1> HIDE DEF new, made
  <1>6. /\ pruns' \in [PContexts -> PRun]
        /\ \A d \in PContexts : /\ d # c => pruns'[d] = pruns[d]
                                /\ pruns'[d].st \in {pruns[d].st, "scheduling"}
                                /\ pruns'[d].mine => pruns[d].mine \/ makeResources \subseteq pres
    BY <1>1, <1>2, <1>3, <1>4, <1>5
  <1>7. PJustified(ppj.state)'
    BY <1>0, <1>1, JustifiedKept DEF PInv, ToldInv, PJustified
  <1>8. pfails' = 0 /\ k \in PContexts => pfails = 0 /\ c = k /\ pruns[c].life = "gone" /\ prunl[c].life = "gone"
    <2> SUFFICES ASSUME pfails' = 0, k \in PContexts
                 PROVE  pfails = 0 /\ c = k /\ pruns[c].life = "gone" /\ prunl[c].life = "gone"
      OBVIOUS
    <2>1. pfails = 0
      BY <1>1, NoFailBefore
    <2>2. c = k
      BY Zenon, ContextOf
    <2>3. CreationOK(k)
      BY Zenon, <1>2, <2>1 DEF PInv, CreationInv
    <2> QED BY Zenon, <1>0, <2>1, <2>2, <2>3 DEF CreationOK, Creates
  <1>9. CASE ToError(k) /\ (pruns[c].life # "gone" \/ PFail)
    <2>1. /\ pwork' \in [DOMAIN pwork' -> PWork] /\ DOMAIN pwork' \subseteq PKeys'
          /\ k \in DOMAIN pwork' /\ pwork'[k].pc = "update" /\ pwork'[k].state = "error"
          /\ \A x : x # k => /\ x \in DOMAIN pwork' <=> x \in DOMAIN pwork
                             /\ x \in DOMAIN pwork => pwork'[x] = pwork[x]
      BY <1>0, <1>1, <1>2, <1>9, ErrorWork
    <2>2. ~(pfails' = 0 /\ k \in PContexts)
      <3>1. CASE PFail
        BY <1>1, <3>1, FailCounts
      <3>2. CASE pruns[c].life # "gone"
        BY Zenon, <1>8, <3>2
      <3> QED BY Zenon, <1>9, <3>1, <3>2
    <2>3. (PJustified(pwork[k].state))'
      <3>1. pfails' > 0 \/ pcfg.cluster \notin PContexts
        <4>1. pfails' \in Nat /\ pfails' # 0 => pfails' > 0
          OBVIOUS
        <4> QED BY Zenon, <1>1, <1>2, <2>2, <4>1
      <3>2. pcfg' = pcfg /\ pwork'[k].state = "error"
        BY Zenon, <1>0, <2>1
      <3> QED BY <3>1, <3>2 DEF PJustified
    <2> QED BY <1>0, <1>1, <1>6, <1>7, <2>1, <2>2, <2>3, KeyStep
  <1>10. CASE /\ pruns[c].life = "gone" /\ pruns' = made
              /\ Goto(k, [pwork[k] EXCEPT !.pc = "poll"]) /\ UNCHANGED pfails
    <2> DEFINE w == [pwork[k] EXCEPT !.pc = "poll"]
    <2>1. w \in PWork /\ w.pc = "poll" /\ w.state = pwork[k].state
      BY <1>2 DEF PWork
    <2> HIDE DEF w
    <2>2. /\ pwork' \in [DOMAIN pwork' -> PWork] /\ DOMAIN pwork' \subseteq PKeys'
          /\ k \in DOMAIN pwork' /\ pwork'[k] = w
          /\ \A x : x # k => /\ x \in DOMAIN pwork' <=> x \in DOMAIN pwork
                             /\ x \in DOMAIN pwork => pwork'[x] = pwork[x]
      BY <1>0, <1>1, <1>10, <2>1, GotoWork DEF w
    <2>3. (PJustified(pwork[k].state))'
      BY <1>0, <1>2, <1>10, <2>1, <2>2 DEF PJustified
    <2>4. pfails' = 0 /\ k \in PContexts => CreationOK(k)'
      BY <1>0, <1>4, <1>8, <1>10, <2>1, <2>2 DEF CreationOK, Creates, At, new
    <2> QED BY <1>0, <1>1, <1>2, <1>6, <1>7, <2>1, <2>2, <2>3, <2>4, KeyStep
  <1> QED BY <1>9, <1>10 DEF createPipelineRun, made, new

LEMMA PollStep ==
  ASSUME PInv, NEW k \in PKeys, PollLister(k)
  PROVE  PInv'
  <1> DEFINE c == getPipelineConfig(k)
  <1>0. UNCHANGED <<pcfg, pcluster, ppjl, prunl>> /\ At(k, "poll")
    BY DEF PollLister
  <1>1. PTypeOK /\ pfails \in Nat /\ pfails' \in Nat /\ pfails' >= pfails /\ c \in PContexts
    BY FailCounts, ContextOf DEF PInv, PTypeOK, PollLister
  <1>2. k = pcfg.cluster /\ k \in DOMAIN pwork /\ pwork[k] \in PWork
    BY <1>0, <1>1, WorkAt DEF PInv, KeyInv
  <1>3. pfails' = 0 /\ k \in PContexts =>
          pfails = 0 /\ c = k /\ pruns[c].life = "live" /\ prunl[c].life \in {"gone", "live"}
    <2> SUFFICES ASSUME pfails' = 0, k \in PContexts
                 PROVE  pfails = 0 /\ c = k /\ pruns[c].life = "live" /\ prunl[c].life \in {"gone", "live"}
      OBVIOUS
    <2>1. pfails = 0
      BY <1>1, NoFailBefore
    <2>2. c = k
      BY Zenon, ContextOf
    <2>3. CreationOK(k)
      BY Zenon, <1>2, <2>1 DEF PInv, CreationInv
    <2> QED BY Zenon, <1>0, <2>1, <2>2, <2>3 DEF CreationOK
  <1>4. CASE prunl[c].life # "gone"
    <2> DEFINE w == [pwork[k] EXCEPT !.pc = "update", !.state = "pending", !.desc = "scheduling"]
    <2>1. w \in PWork /\ w.pc = "update" /\ w.state = "pending"
      BY <1>2 DEF PWork, PState, PDesc
    <2>0. Goto(k, w)
      BY <1>4 DEF PollLister
    <2> HIDE DEF w
    <2>2. /\ pwork' \in [DOMAIN pwork' -> PWork] /\ DOMAIN pwork' \subseteq PKeys'
          /\ k \in DOMAIN pwork' /\ pwork'[k] = w
          /\ \A x : x # k => /\ x \in DOMAIN pwork' <=> x \in DOMAIN pwork
                             /\ x \in DOMAIN pwork => pwork'[x] = pwork[x]
      BY <1>0, <1>1, <2>0, <2>1, GotoWork
    <2>3. (PJustified(pwork[k].state))'
      BY <2>1, <2>2 DEF PJustified
    <2>4. pfails' = 0 /\ k \in PContexts => CreationOK(k)'
      BY <1>0, <1>3, <1>4, <2>1, <2>2 DEF CreationOK, Creates, At, pcluster
    <2> QED BY <1>0, <1>1, <1>2, <2>1, <2>2, <2>3, <2>4, OwnWorkStep
  <1>5. CASE prunl[c].life = "gone"
    <2>1. ToError(k) /\ (pruns[c].life = "gone" \/ PFail)
      BY <1>5 DEF PollLister
    <2>2. /\ pwork' \in [DOMAIN pwork' -> PWork] /\ DOMAIN pwork' \subseteq PKeys'
          /\ k \in DOMAIN pwork' /\ pwork'[k].pc = "update" /\ pwork'[k].state = "error"
          /\ \A x : x # k => /\ x \in DOMAIN pwork' <=> x \in DOMAIN pwork
                             /\ x \in DOMAIN pwork => pwork'[x] = pwork[x]
      BY <1>0, <1>1, <1>2, <2>1, ErrorWork
    <2>3. ~(pfails' = 0 /\ k \in PContexts)
      <3>1. CASE PFail
        BY <1>1, <3>1, FailCounts
      <3>2. CASE pruns[c].life = "gone"
        BY Zenon, <1>3, <3>2
      <3> QED BY Zenon, <2>1, <3>1, <3>2
    <2>4. (PJustified(pwork[k].state))'
      BY <1>0, <1>1, <1>2, <2>2, <2>3 DEF PJustified
    <2> QED BY <1>0, <1>1, <2>2, <2>3, <2>4, OwnWorkStep
  <1> QED BY <1>4, <1>5

\* What is deleted is not the run of a ProwJob that is there.
LEMMA DeleteRunStep ==
  ASSUME PInv, NEW k \in PKeys, deletePipelineRun(k)
  PROVE  PInv'
  <1> DEFINE c == getPipelineConfig(k)
  <1>0. UNCHANGED <<pcfg, ppj, pres, ppjl, prunl, pended>> /\ At(k, "delete") /\ Done(k)
    BY DEF deletePipelineRun
  <1>1. /\ PTypeOK /\ pfails \in Nat /\ pfails' \in Nat /\ pfails' >= pfails /\ c \in PContexts
        /\ pruns \in [PContexts -> PRun] /\ ppj \in PProwJob
    BY FailCounts, ContextOf DEF PInv, PTypeOK, deletePipelineRun
  <1>2. /\ pwork' \in [DOMAIN pwork' -> PWork] /\ DOMAIN pwork' \subseteq PKeys' /\ k \notin DOMAIN pwork'
        /\ \A x : x # k => /\ x \in DOMAIN pwork' <=> x \in DOMAIN pwork
                           /\ x \in DOMAIN pwork => pwork'[x] = pwork[x]
    BY <1>0, <1>1, DoneWork
  <1>3. /\ pruns' \in [PContexts -> PRun]
        /\ \A d \in PContexts : /\ d # c => pruns'[d] = pruns[d]
                                /\ pruns'[d].st = pruns[d].st /\ pruns'[d].mine = pruns[d].mine
    <2>1. pruns' = pruns \/ pruns' = [pruns EXCEPT ![c].life = IF @ = "live" THEN "deleting" ELSE @]
      BY DEF deletePipelineRun
    <2> QED BY <1>1, <2>1 DEF PRun, PLife
  <1>4. PJustified(ppj.state)'
    BY <1>0, <1>1, JustifiedKept DEF PInv, ToldInv, PJustified
  <1>5. k = pcfg.cluster => CreationOK(k)'
    BY <1>0, <1>2 DEF PInv, KeyInv, CreationOK, Creates, At
  <1> QED BY <1>0, <1>1, <1>2, <1>3, <1>4, <1>5, KeyStep

LEMMA UpdateStateStep ==
  ASSUME PInv, NEW k \in PKeys, updateProwJobState(k)
  PROVE  PInv'
  <1> DEFINE w == pwork[k]
             patched == [ppj EXCEPT !.state = IF w.pj.state # w.state THEN w.state ELSE @,
                                    !.desc = IF w.pj.desc # w.desc THEN w.desc ELSE @]
  <1>0. UNCHANGED <<pcfg, pruns, pres, ppjl, prunl, pended>> /\ At(k, "update") /\ Done(k)
    BY DEF updateProwJobState
  <1>1. /\ PTypeOK /\ pfails \in Nat /\ pfails' \in Nat /\ pfails' >= pfails
        /\ pruns \in [PContexts -> PRun] /\ ppj \in PProwJob /\ w \in PWork
        /\ PJustified(ppj.state) /\ PJustified(w.state)
    <2>1. pfails' \in Nat /\ pfails' >= pfails
      BY FailCounts DEF PInv, PTypeOK, updateProwJobState
    <2> QED BY <1>0, <2>1, WorkAt DEF PInv, PTypeOK, ToldInv
  <1>2. /\ pwork' \in [DOMAIN pwork' -> PWork] /\ DOMAIN pwork' \subseteq PKeys' /\ k \notin DOMAIN pwork'
        /\ \A x : x # k => /\ x \in DOMAIN pwork' <=> x \in DOMAIN pwork
                           /\ x \in DOMAIN pwork => pwork'[x] = pwork[x]
    BY <1>0, <1>1, DoneWork
  <1>3. ppj' = ppj \/ ppj' = patched
    BY DEF updateProwJobState
  <1> HIDE DEF w
  <1>4. patched \in PProwJob /\ patched.life = ppj.life /\ patched.state \in {ppj.state, w.state}
    BY <1>1 DEF PProwJob, PWork
  <1> HIDE DEF patched
  <1>5. ppj' \in PProwJob /\ ppj'.life = ppj.life /\ ppj'.state \in {ppj.state, w.state}
    BY <1>1, <1>3, <1>4
  <1>6. PJustified(ppj.state)'
    BY <1>0, <1>1, <1>5 DEF PJustified
  <1>7. pfails' = 0 /\ k = pcfg.cluster /\ k \in PContexts => CreationOK(k)'
    <2> SUFFICES ASSUME pfails' = 0, k = pcfg.cluster, k \in PContexts
                 PROVE  CreationOK(k)'
      OBVIOUS
    <2>1. pfails = 0
      BY <1>1, NoFailBefore
    <2>2. CreationOK(k)
      BY Zenon, <2>1 DEF PInv, CreationInv
    <2>3. ~Creates(k)' /\ ~At(k, "poll")' /\ ~At(k, "poll")
      BY <1>0, <1>2 DEF Creates, At
    <2> QED BY <1>0, <2>2, <2>3 DEF CreationOK
  <1> QED BY <1>0, <1>1, <1>2, <1>5, <1>6, <1>7, KeyStep

\* The inductive invariant of the pipeline controller (src/cmd/pipeline/controller.go): what a worker
\* took from the listers justifies what it is about to write, and while nothing fails the run that it
\* creates is not there yet, for any clusters, any number of failures and any notifications.
THEOREM PInvariance == PSpec => []PInv
  <1>1. PInit => PInv
    <2> SUFFICES ASSUME PInit PROVE PInv
      OBVIOUS
    <2>0. NoRun \in PRun /\ NoRun.st = "scheduling" /\ NoRun.mine = FALSE /\ NoRun.life = "gone"
      BY DEF NoRun, PRun, PLife
    <2>1. \A c \in PContexts : /\ pruns[c] \in PRun /\ pruns[c].st = "scheduling" /\ pruns[c].mine = FALSE
                               /\ pruns[c].life \in {"gone", "live"} /\ prunl[c] = pruns[c]
      BY <2>0 DEF PInit, PRun, PLife, NoRun
    <2>2. DOMAIN pwork = {} /\ pwork = [k \in {} |-> 0] /\ pfails = 0 /\ ppjl = ppj
      BY DEF PInit
    <2>3. ppj \in PProwJob /\ ppj.state = "triggered"
      BY DEF PInit, PProwJob, PLife, PState, PDesc
    <2>4. PTypeOK
      <3>1. pruns \in [PContexts -> PRun] /\ prunl \in [PContexts -> PRun]
        BY <2>1 DEF PInit
      <3> QED BY <2>2, <2>3, <3>1 DEF PTypeOK
    <2>5. ToldInv
      BY <2>1, <2>2, <2>3 DEF ToldInv, PJustified, PEnds
    <2>6. ResourcesInv /\ KeyInv /\ CreationInv
      BY <2>1, <2>2 DEF ResourcesInv, KeyInv, CreationInv, CreationOK, Creates, At
    <2> QED BY <2>4, <2>5, <2>6 DEF PInv
  <1>2. PInv /\ [PNext]_pipelineVars => PInv'
    <2> SUFFICES ASSUME PInv, [PNext]_pipelineVars PROVE PInv'
      OBVIOUS
    <2>1. CASE UNCHANGED pipelineVars
      BY <2>1 DEF pipelineVars, PInv, PTypeOK, ToldInv, PJustified, ResourcesInv, KeyInv, CreationInv,
                  CreationOK, Creates, At, PKeys, makeResources
    <2>2. CASE \E k \in PKeys : PWorker(k)
      BY <2>2, RunWorkerStep, DeleteRunStep, GetIDStep, ResourceStep, CreateRunStep, PollStep, UpdateStateStep
         DEF PWorker
    <2>3. CASE PTekton
      BY <2>3, RunProgressStep, RunRemovedStep DEF PTekton
    <2> QED BY <2>1, <2>2, <2>3, InformersStep, ProwJobDeletedStep, DeletedByHandStep DEF PNext
  <1> QED BY <1>1, <1>2, PTL DEF PSpec

\* What reconcile and updateProwJobState write: a ProwJob never has a verdict that no run of its name
\* had, nor an error out of nothing, and no run is there before its resources.
THEOREM PipelineVerdicts == PSpec => []PVerdictOfRun
  <1>1. PInv => PVerdictOfRun
    BY DEF PInv, ToldInv, ResourcesInv, PVerdictOfRun
  <1> QED BY <1>1, PInvariance, PTL
=============================================================================
