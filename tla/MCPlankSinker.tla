---------------------------- MODULE MCPlankSinker ----------------------------
(* Instances of PlankSinker for TLC. *)
EXTENDS PlankSinker

One == {"p1"}
OneRun ==
  [p \in One |-> [job |-> "ci", type |-> "presubmit", refs |-> 1, cluster |-> "default",
                  maxConcurrency |-> 0, errorOnEviction |-> FALSE, valid |-> TRUE]]
OneTime == [p \in One |-> 1]
=============================================================================
