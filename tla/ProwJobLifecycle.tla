--------------------------- MODULE ProwJobLifecycle ---------------------------
(***************************************************************************)
(* What prow promises about a ProwJob, whichever controller runs it: it    *)
(* moves from triggered over pending to one final state                    *)
(* (src/apis/prowjobs/v1/types.go), and is only executed on the way.       *)
(***************************************************************************)
EXTENDS Integers

CONSTANT PJ

VARIABLES
  state,   \* state of each ProwJob
  runs     \* how many executions (pods) of it have been started

vars == <<state, runs>>

Terminal == {"success", "failure", "aborted", "error"}

Init == /\ state = [p \in PJ |-> "uncreated"]
        /\ runs = [p \in PJ |-> 0]

Move(p, from, to) ==
  /\ state[p] \in from
  /\ \E s \in to : state' = [state EXCEPT ![p] = s]
  /\ UNCHANGED runs

Create(p) == Move(p, {"uncreated"}, {"triggered"})
Begin(p)  == Move(p, {"triggered"}, {"pending"})
Finish(p) == Move(p, {"triggered", "pending"}, Terminal)
Delete(p) == Move(p, Terminal, {"deleted"})

\* An execution of p is started, not necessarily the first.
Execute(p) ==
  /\ state[p] \in {"triggered", "pending"}
  /\ runs' = [runs EXCEPT ![p] = @ + 1]
  /\ UNCHANGED state

Next == \E p \in PJ : Create(p) \/ Begin(p) \/ Finish(p) \/ Delete(p) \/ Execute(p)

Spec == Init /\ [][Next]_vars
=============================================================================
