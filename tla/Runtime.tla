------------------------------- MODULE Runtime -------------------------------
(***************************************************************************)
(* What the servers share: the shutdown protocol of                        *)
(* src/interrupts/interrupts.go, with the handlers of hook's server, and   *)
(* the requests of src/github/client.go, which a throttler holds back and  *)
(* requestRetry repeats.                                                   *)
(***************************************************************************)
EXTENDS Integers, FiniteSets

CONSTANTS
  IKinds,      \* sets of the workers of a process: "run", "tick", "context", "hook", "server"
  IRequests,   \* the webhooks that GitHub sends
  TClients,    \* the calls of the GitHub client
  TModes,      \* [burst, kind]: the burst of the throttler, and for each call "v3" or "graph"
  TMaxTicks,   \* bound on the ticks that find room: as many as there can be attempts
  TMaxRetries, \* maxRetries and max404Retries of the client
  TMax404

ASSUME RuntimeAssumption ==
  /\ \A s \in IKinds : s \subseteq {"run", "tick", "context", "hook", "server"}
  /\ IsFiniteSet(TClients)
  /\ \A m \in TModes : m.burst \in Nat

VARIABLES
  ikinds,      \* the kinds of workers in this process: one of each
  iseen,       \* seenSignal
  iwork,       \* the state of each worker
  isig,        \* whether the tick's stop signal is in its channel
  icount,      \* the manager's WaitGroup
  ireq,        \* the webhooks: "new", "read", "early" or "late" (the handler runs), "done"
  iserving,    \* whether the HTTP server accepts connections
  iexit        \* what main does: "up", "waiting", "finished", "timeout"

shutdownVars == <<ikinds, iseen, iwork, isig, icount, ireq, iserving, iexit>>

IInit ==
  /\ ikinds \in IKinds /\ iseen = FALSE /\ isig = FALSE /\ icount = 0 /\ iserving = FALSE /\ iexit = "up"
  /\ iwork = [k \in ikinds |-> "new"]
  /\ ireq = [r \in IRequests |-> "new"]

IUp == iexit \in {"up", "waiting"}
IGo(k, from, to) == IUp /\ k \in ikinds /\ iwork[k] = from /\ iwork' = [iwork EXCEPT ![k] = to]
irest == <<ikinds, iseen, ireq, iserving, iexit>>

\* handleInterrupt
Interrupt == IUp /\ ~iseen /\ iseen' = TRUE /\ UNCHANGED <<ikinds, iwork, isig, icount, ireq, iserving, iexit>>

\* Run, Tick, Context, OnInterrupt and ListenAndServe add one to the WaitGroup.
Register(k) ==
  /\ iexit = "up" /\ IGo(k, "new", "on") /\ icount' = icount + 1
  /\ iserving' = (iserving \/ k = "server")
  /\ UNCHANGED <<ikinds, iseen, isig, ireq, iexit>>

\* Run: the work ends by itself, or when its context is cancelled.
RunEnds == IGo("run", "on", "done") /\ icount' = icount - 1 /\ UNCHANGED <<isig, irest>>

\* Tick: the timer and the stop signal may both be ready, and the select takes either.
TickWork == IGo("tick", "on", "busy") /\ UNCHANGED <<isig, icount, irest>>
TickWorked == IGo("tick", "busy", "on") /\ UNCHANGED <<isig, icount, irest>>
TickSignal == /\ IUp /\ iseen /\ "tick" \in ikinds /\ iwork["tick"] \in {"on", "busy"} /\ ~isig
              /\ isig' = TRUE /\ UNCHANGED <<iwork, icount, irest>>
TickStops == isig /\ IGo("tick", "on", "done") /\ icount' = icount - 1 /\ UNCHANGED <<isig, irest>>

\* Context: nobody waits for those who use it.
ContextCancelled == iseen /\ IGo("context", "on", "cancelled") /\ icount' = icount - 1 /\ UNCHANGED <<isig, irest>>

ActiveHandlers == {r \in IRequests : ireq[r] \in {"early", "late"}}

\* Mutant: the share of the WaitGroup is given back before the work.
HookDoneFirst == iseen /\ IGo("hook", "on", "busy") /\ icount' = icount - 1 /\ UNCHANGED <<isig, irest>>

\* OnInterrupt, with hook's GracefulShutdown: the work waits for the handlers.
HookStarts == iseen /\ IGo("hook", "on", "busy") /\ UNCHANGED <<isig, icount, irest>>

HookEnds == ActiveHandlers = {} /\ IGo("hook", "busy", "done") /\ icount' = icount - 1 /\ UNCHANGED <<isig, irest>>

\* shutdown: the server's ListenAndServe returns at once, whatever requests are under way.
ServerStops ==
  /\ iseen /\ IGo("server", "on", "done") /\ icount' = icount - 1 /\ iserving' = FALSE
  /\ UNCHANGED <<ikinds, iseen, isig, ireq, iexit>>

\* ServeHTTP: the request is read; demuxEvent counts and starts its handler; the handler ends.
RequestStep(r) ==
  /\ IUp
  /\ \/ ireq[r] = "new" /\ iserving /\ ireq' = [ireq EXCEPT ![r] = "read"]
     \/ ireq[r] = "read" /\ ireq' = [ireq EXCEPT ![r] = IF iseen THEN "late" ELSE "early"]
     \/ ireq[r] \in {"early", "late"} /\ ireq' = [ireq EXCEPT ![r] = "done"]
  /\ UNCHANGED <<ikinds, iseen, iwork, isig, icount, iserving, iexit>>

WaitForGracefulShutdown ==
  /\ \/ iexit = "up" /\ iseen /\ iexit' = "waiting"
     \/ iexit = "waiting" /\ icount = 0 /\ iexit' = "finished"
  /\ UNCHANGED <<ikinds, iseen, iwork, isig, icount, ireq, iserving>>
GracePeriodOver ==
  /\ iexit = "waiting" /\ iexit' = "timeout" /\ UNCHANGED <<ikinds, iseen, iwork, isig, icount, ireq, iserving>>

IEnd == RunEnds \/ TickWorked \/ TickSignal \/ TickStops \/ ContextCancelled \/ HookStarts \/ HookEnds \/ ServerStops
INext ==
  \/ Interrupt \/ TickWork \/ IEnd \/ WaitForGracefulShutdown \/ GracePeriodOver
  \/ \E k \in ikinds : Register(k)
  \/ \E r \in IRequests : RequestStep(r)

\* When main returns because all is finished, the work that was given to Run, Tick or OnInterrupt
\* is done, and every webhook handler that hook had started before the signal is done.
ShutdownIsGraceful ==
  iexit = "finished" =>
     /\ \A k \in ikinds : iwork[k] \in {"new", "done", "cancelled"}
     /\ "hook" \in ikinds /\ iwork["hook"] = "done" => \A r \in IRequests : ireq[r] # "early"

ISpec == IInit /\ [][INext]_shutdownVars

\* The workers that the WaitGroup waits for.
Engaged == {k \in ikinds : iwork[k] \in {"on", "busy"}}

\* The inductive invariant behind ShutdownIsGraceful: the WaitGroup counts the engaged workers,
\* main is finished only when there are none, and hook's work ends only after the signal, when
\* every handler that was started before it is done.
ShutdownInv ==
  /\ ikinds \subseteq {"run", "tick", "context", "hook", "server"} /\ iseen \in BOOLEAN
  /\ iwork \in [ikinds -> {"new", "on", "busy", "done", "cancelled"}]
  /\ ireq \in [IRequests -> {"new", "read", "early", "late", "done"}]
  /\ icount = Cardinality(Engaged)
  /\ iexit = "finished" => Engaged = {}
  /\ "hook" \in ikinds /\ iwork["hook"] \in {"busy", "done"} => iseen
  /\ "hook" \in ikinds /\ iwork["hook"] = "done" => \A r \in IRequests : ireq[r] # "early"

-----------------------------------------------------------------------------
VARIABLES
  tmode,
  tcall,       \* each call: pc, retries so far, done (whether GitHub has carried it out), answer
  treaders,    \* the calls that hold the throttler's lock for reading
  twriter,     \* the call that holds it for writing
  twaiting,    \* the calls that wait for writing: no new reader gets in
  ttokens,     \* the tokens in the channel
  tticks,      \* the tokens that the ticker has added
  tcost        \* the requests that GitHub has counted

throttleVars == <<tmode, tcall, treaders, twriter, twaiting, ttokens, tticks, tcost>>
tlock == <<treaders, twriter, twaiting>>

\* Throttle has filled the channel.
TInit ==
  /\ tmode \in TModes
  /\ tcall = [c \in TClients |-> [pc |-> "wait", retries |-> 0, done |-> FALSE, answer |-> ""]]
  /\ treaders = {} /\ twriter = {} /\ twaiting = {}
  /\ ttokens = tmode.burst /\ tticks = 0 /\ tcost = 0

TGo(c, from, to) == tcall[c].pc = from /\ tcall' = [tcall EXCEPT ![c].pc = to]
RLock(c) == twriter = {} /\ twaiting = {} /\ treaders' = treaders \cup {c} /\ UNCHANGED <<twriter, twaiting>>
RUnlock(c) == treaders' = treaders \ {c} /\ UNCHANGED <<twriter, twaiting>>

\* The refill goroutine; a full channel takes nothing.
TTick ==
  /\ ttokens < tmode.burst /\ tticks < TMaxTicks
  /\ ttokens' = ttokens + 1 /\ tticks' = tticks + 1
  /\ UNCHANGED <<tmode, tcall, tlock, tcost>>

\* Wait: a token is taken with the lock held.
WaitLocks(c) == TGo(c, "wait", "token") /\ RLock(c) /\ UNCHANGED <<tmode, ttokens, tticks, tcost>>
WaitTakes(c) ==
  /\ ttokens > 0 /\ ttokens' = ttokens - 1
  /\ TGo(c, "token", IF tmode.kind[c] = "v3" THEN "send" ELSE "lock") /\ RUnlock(c)
  /\ UNCHANGED <<tmode, tticks, tcost>>

\* Query: the lock is taken for writing, so nobody else waits or refunds until the answer.
QueryWaits(c) ==
  /\ TGo(c, "lock", "locking") /\ twaiting' = twaiting \cup {c}
  /\ UNCHANGED <<tmode, treaders, twriter, ttokens, tticks, tcost>>
QueryLocks(c) ==
  /\ TGo(c, "locking", "query") /\ treaders = {} /\ twriter = {}
  /\ twriter' = {c} /\ twaiting' = twaiting \ {c}
  /\ UNCHANGED <<tmode, treaders, ttokens, tticks, tcost>>
QueryEnds(c) ==
  /\ tcall[c].pc = "query" /\ tcall' = [tcall EXCEPT ![c].pc = "end", ![c].answer = "ok", ![c].done = TRUE]
  /\ twriter' = {} /\ tcost' = tcost + 1
  /\ UNCHANGED <<tmode, treaders, twaiting, ttokens, tticks>>

\* What comes back: an answer from the cache is free; a connection may break before or after
\* GitHub has carried out the request.
Answers == {"ok", "free", "404", "5xx", "limit", "long limit", "scopes", "403", "broken"}
doRequest(c) ==
  /\ tcall[c].pc = "send"
  /\ \E a \in Answers : \E d \in BOOLEAN :
       /\ a \in {"ok", "free"} => d
       /\ a \notin {"ok", "free", "5xx", "broken"} => ~d
       /\ tcall' = [tcall EXCEPT ![c].pc = IF a = "free" THEN "refund" ELSE "answered", ![c].answer = a,
                                 ![c].done = @ \/ d]
       /\ tcost' = IF a = "free" THEN tcost ELSE tcost + 1
  /\ UNCHANGED <<tmode, tlock, ttokens, tticks>>

RefundLocks(c) == TGo(c, "refund", "refunding") /\ RLock(c) /\ UNCHANGED <<tmode, ttokens, tticks, tcost>>
Refund(c) ==
  /\ TGo(c, "refunding", "answered") /\ RUnlock(c)
  /\ ttokens' = IF ttokens < tmode.burst THEN ttokens + 1 ELSE ttokens
  /\ UNCHANGED <<tmode, tticks, tcost>>

\* requestRetry: which answers end the loop; the others are tried again until there are no more
\* retries, and requestRaw makes an error of a status that is not expected.
Final(a, retries) ==
  \/ a \in {"ok", "free", "long limit", "scopes"}
  \/ a = "404" /\ retries >= TMax404
requestRetry(c) ==
  /\ tcall[c].pc = "answered"
  /\ LET a == tcall[c].answer
         n == tcall[c].retries + 1
         over == Final(a, tcall[c].retries) \/ n >= TMaxRetries
     IN tcall' = [tcall EXCEPT ![c].retries = n, ![c].answer = "",
                               ![c].pc = IF ~over THEN "wait" ELSE IF a \in {"ok", "free"} THEN "end" ELSE "error"]
  /\ UNCHANGED <<tmode, tlock, ttokens, tticks, tcost>>

TCall(c) == \/ WaitLocks(c) \/ WaitTakes(c) \/ QueryWaits(c) \/ QueryLocks(c) \/ QueryEnds(c)
            \/ doRequest(c) \/ RefundLocks(c) \/ Refund(c) \/ requestRetry(c)
TNext == TTick \/ \E c \in TClients : TCall(c)

\* The throttler: GitHub never counts more requests than the burst and the ticks allow, whatever
\* is refunded; and a call that returns without an error was carried out.
ThrottleHolds ==
  /\ tcost + ttokens <= tmode.burst + tticks
  /\ \A c \in TClients : tcall[c].pc = "end" => tcall[c].done

TSpec == TInit /\ [][TNext]_throttleVars

\* The calls that have taken a token which is neither spent nor given back.
Holding == {c \in TClients : tcall[c].pc \in {"lock", "locking", "query", "send", "refund", "refunding"}}

TCallRecord ==
  [pc : {"wait", "token", "lock", "locking", "query", "send", "refund", "refunding", "answered", "end", "error"},
   retries : Nat, done : BOOLEAN, answer : Answers \cup {""}]

\* The inductive invariant behind ThrottleHolds: a token in the channel, held by a call or spent
\* on a request came from the burst or from a tick; readers and the writer exclude each other.
ThrottleInv ==
  /\ tcall \in [TClients -> TCallRecord]
  /\ tmode \in TModes /\ ttokens \in Nat /\ tticks \in Nat /\ tcost \in Nat
  /\ ttokens <= tmode.burst
  /\ tcost + ttokens + Cardinality(Holding) <= tmode.burst + tticks
  /\ \A c \in TClients : tcall[c].answer \in {"ok", "free"} \/ tcall[c].pc = "end" => tcall[c].done
  /\ treaders = {c \in TClients : tcall[c].pc \in {"token", "refunding"}}
  /\ twriter = {c \in TClients : tcall[c].pc = "query"}
  /\ \A c, d \in twriter : c = d
  /\ twriter = {} \/ treaders = {}

\* Every call returns: the lock is not held against those who would free it.
CallsReturn == \A c \in TClients : (tcall[c].pc \in {"end", "error"})
=============================================================================
