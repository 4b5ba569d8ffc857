------------------------------ MODULE TideStatus ------------------------------
(***************************************************************************)
(* tide's status controller (src/tide/status.go): it keeps the tide        *)
(* context of every open pull request up to date. It runs beside the sync  *)
(* loop, which tells it about a new pool through a channel of capacity     *)
(* one, and it searches only for pull requests that were updated since the *)
(* latest one it found. A goroutine saves the position of this search now  *)
(* and then, without a lock, and a restarted tide continues from there.    *)
(*                                                                         *)
(* Time is counted in the 30 seconds by which searches overlap.            *)
(***************************************************************************)
EXTENDS Integers, FiniteSets, FiniteSetsExt

CONSTANTS
  PRs,
  Query,        \* the search queries that the config may lead to
  Covers,       \* the pull requests that a query covers
  Ready,        \* the pull requests that meet the requirements from the start
  Passed,       \* the pull requests whose jobs passed before
  Blocked,      \* may an issue block the branch: a set of Booleans
  MaxTime,      \* bound on the clock
  MaxMishaps    \* bound on failed requests, restarts and config changes

VARIABLES
  open,     \* the pull requests: whether they meet the requirements of a merge query, whether
            \* all required jobs passed on the current head and base, and UpdatedAt
  shown,    \* their tide context: "none", or what expectedStatus returned
  clock, mishaps,
  query,    \* the query of the current config
  pool,     \* poolPRs and blocks: what the sync loop found last
  newPoolPending, \* the channel of capacity one
  scpc,     \* where run is: "idle", "wait", "search" or "set"
  snap,     \* the pool that waitSync read, and the pull requests that are still to be processed
  mem,      \* storedState: LatestPR and PreviousQuery
  copy,     \* the copy of it that save is making
  file      \* what save wrote

statusVars == <<open, shown, clock, mishaps, query, pool, newPoolPending, scpc, snap, mem, copy, file>>

NoState == [latest |-> 0, query |-> "none"]
NoPool == [prs |-> {}, blocked |-> FALSE]
NoSnap == [pool |-> NoPool, todo |-> {}, found |-> {}]

StatusInit ==
  /\ open = [n \in PRs |-> [ok |-> n \in Ready, passed |-> n \in Passed, updated |-> 0]]
  /\ shown = [n \in PRs |-> "none"]
  /\ clock = 0 /\ mishaps = 0 /\ query \in Query
  /\ pool = NoPool /\ newPoolPending = FALSE
  /\ scpc = "idle" /\ snap = NoSnap /\ mem = NoState /\ copy = NoState /\ file = NoState

Mishap == mishaps < MaxMishaps /\ mishaps' = mishaps + 1

-----------------------------------------------------------------------------
(* Pull requests, jobs and the sync loop.                                  *)

Tick == clock < MaxTime /\ clock' = clock + 1
        /\ UNCHANGED <<open, shown, mishaps, query, pool, newPoolPending, scpc, snap, mem, copy, file>>

\* An update that matters, such as a label that is added or removed.
Update(n) ==
  /\ open[n].updated < clock
  /\ open' = [open EXCEPT ![n].ok = ~@, ![n].updated = clock]
  /\ UNCHANGED <<shown, clock, mishaps, query, pool, newPoolPending, scpc, snap, mem, copy, file>>

\* The required jobs pass on the current base, which is not an update.
JobsPass(n) ==
  /\ ~open[n].passed
  /\ open' = [open EXCEPT ![n].passed = TRUE]
  /\ UNCHANGED <<shown, clock, mishaps, query, pool, newPoolPending, scpc, snap, mem, copy, file>>

\* Controller.Sync notifies the status controller; the channel may already be full.
Notify ==
  /\ \E b \in Blocked : pool' = [prs |-> {n \in PRs : open[n].ok /\ n \in Covers[query]}, blocked |-> b]
  /\ newPoolPending' = TRUE
  /\ UNCHANGED <<open, shown, clock, mishaps, query, scpc, snap, mem, copy, file>>

Reconfigure ==
  /\ Mishap /\ query' \in Query \ {query}
  /\ UNCHANGED <<open, shown, clock, pool, newPoolPending, scpc, snap, mem, copy, file>>

-----------------------------------------------------------------------------
(* run, waitSync and sync.                                                 *)

Receive ==
  /\ scpc = "idle" /\ newPoolPending
  /\ newPoolPending' = FALSE /\ scpc' = "wait"
  /\ UNCHANGED <<open, shown, clock, mishaps, query, pool, snap, mem, copy, file>>

\* Pools that arrive during the minimum period are only received.
ReceiveMore ==
  /\ scpc = "wait" /\ newPoolPending
  /\ newPoolPending' = FALSE
  /\ UNCHANGED <<open, shown, clock, mishaps, query, pool, scpc, snap, mem, copy, file>>

PeriodOver ==
  /\ scpc = "wait"
  /\ snap' = [NoSnap EXCEPT !.pool = pool]
  /\ scpc' = "search"
  /\ UNCHANGED <<open, shown, clock, mishaps, query, pool, newPoolPending, mem, copy, file>>

\* As SearchFrom, but the pull requests of the pool that were not found are not processed.
SearchFoundOnly(from, upto) ==
  LET found == {n \in Covers[query] : open[n].updated >= from /\ open[n].updated <= upto}
  IN /\ mem' = [query |-> query,
                latest |-> IF found = {} THEN from ELSE Max({0, Max({open[n].updated : n \in found}) - 1})]
     /\ snap' = [snap EXCEPT !.found = {[n |-> n, ok |-> open[n].ok] : n \in found}, !.todo = found]

\* search: the start time is reset when the query changed; then it advances to 30 seconds
\* before the last result. A search that fails halfway keeps the older results.
SearchFrom(from, upto) ==
  LET found == {n \in Covers[query] : open[n].updated >= from /\ open[n].updated <= upto}
  IN /\ mem' = [query |-> query,
                latest |-> IF found = {} THEN from ELSE Max({0, Max({open[n].updated : n \in found}) - 1})]
     /\ snap' = [snap EXCEPT !.found = {[n |-> n, ok |-> open[n].ok] : n \in found},
                             !.todo = found \cup snap.pool.prs]

Search ==
  /\ scpc = "search"
  /\ \E upto \in 0 .. clock :
       /\ IF upto = clock THEN UNCHANGED mishaps ELSE Mishap
       /\ SearchFrom(IF mem.query = query THEN mem.latest ELSE 0, upto)
  /\ scpc' = "set"
  /\ UNCHANGED <<open, shown, clock, query, pool, newPoolPending, copy, file>>

\* expectedStatus. For a pull request outside of the pool it is the difference to the
\* closest query, which may be empty although the pull request is not in the pool.
expectedStatus(n) ==
  IF n \notin snap.pool.prs
  THEN IF snap.pool.blocked THEN "blocked"
       ELSE IF [n |-> n, ok |-> TRUE] \in snap.found THEN "unknown reason" ELSE "requirement missing"
  ELSE IF open[n].passed THEN "in pool" ELSE "retesting"

\* setStatuses: one pull request; a failure to write the context is only logged.
SetStatus(n) ==
  /\ scpc = "set" /\ n \in snap.todo
  /\ \/ shown' = [shown EXCEPT ![n] = expectedStatus(n)] /\ UNCHANGED mishaps
     \/ Mishap /\ UNCHANGED shown
  /\ snap' = [snap EXCEPT !.todo = @ \ {n}]
  /\ UNCHANGED <<open, clock, query, pool, newPoolPending, scpc, mem, copy, file>>

StatusDone ==
  /\ scpc = "set" /\ snap.todo = {}
  /\ scpc' = "idle" /\ snap' = NoSnap
  /\ UNCHANGED <<open, shown, clock, mishaps, query, pool, newPoolPending, mem, copy, file>>

\* save copies the state field by field while search may be writing it. What it writes is
\* read only by a tide that is restarted.
SaveLatest ==
  /\ mishaps < MaxMishaps
  /\ copy.latest # mem.latest
  /\ copy' = [copy EXCEPT !.latest = mem.latest]
  /\ UNCHANGED <<open, shown, clock, mishaps, query, pool, newPoolPending, scpc, snap, mem, file>>

SaveQuery ==
  /\ mishaps < MaxMishaps
  /\ file # [copy EXCEPT !.query = mem.query]
  /\ copy' = [copy EXCEPT !.query = mem.query]
  /\ file' = copy'
  /\ UNCHANGED <<open, shown, clock, mishaps, query, pool, newPoolPending, scpc, snap, mem>>

\* load, when tide starts again.
StatusRestart ==
  /\ Mishap
  /\ mem' = file /\ scpc' = "idle" /\ snap' = NoSnap /\ newPoolPending' = FALSE /\ pool' = NoPool
  /\ UNCHANGED <<open, shown, clock, query, copy, file>>

run == Receive \/ ReceiveMore \/ PeriodOver \/ Search \/ StatusDone \/ \E n \in PRs : SetStatus(n)

StatusNext ==
  \/ run \/ Notify \/ SaveLatest \/ SaveQuery \/ StatusRestart \/ Reconfigure \/ Tick
  \/ \E n \in PRs : Update(n) \/ JobsPass(n)

=============================================================================
