------------------------------ MODULE MCCrier ------------------------------
(* Small instances of Crier: one or two ProwJobs of one revision. *)
EXTENDS Crier

MCRevision == [p \in PJ |-> "change"]
MCJobOf == [p \in PJ |-> p]
MCCreated == [p \in PJ |-> IF p = "p1" THEN 1 ELSE 2]

Bounds(touch, report, trouble, removal, crash) ==
    [touch |-> touch, report |-> report, trouble |-> trouble,
     removal |-> removal, crash |-> crash]

Plain(workers, bounds) ==
    [gerrit |-> FALSE, pjs |-> {"p1"}, workers |-> workers,
     outcomes |-> {"pending", "success"}, bounds |-> bounds]

\* A failing report, failing API calls, and a restart beside other reporters;
\* two jobs of one revision that the Gerrit reporter reports together.
MCSetting ==
    {Plain({"w1", "w2"}, Bounds(1, 1, 0, 0, 0)),
     Plain({"w1", "w2"}, Bounds(1, 0, 1, 1, 0)),
     Plain({"w1"}, Bounds(0, 0, 1, 1, 1)),
     [gerrit |-> TRUE, pjs |-> {"p1", "p2"}, workers |-> {"w1"},
      outcomes |-> {"success", "aborted"}, bounds |-> Bounds(0, 0, 0, 0, 0)]}
=============================================================================
