------------------------------- MODULE MCPlank -------------------------------
(* Instances of Plank for TLC. *)
EXTENDS Plank

JobSpecOf(t, max) ==
  [job |-> "unit", type |-> t, refs |-> 1, cluster |-> "default",
   maxConcurrency |-> max, errorOnEviction |-> FALSE, valid |-> TRUE]

Two == {"p1", "p2"}

\* Two runs of a presubmit for the same commit.
TwoRuns == [p \in Two |-> [JobSpecOf("presubmit", 0) EXCEPT !.errorOnEviction = (p = "p1")]]

TwoOrdered == [p \in Two |-> IF p = "p1" THEN 1 ELSE 2]
TwoTied == [p \in Two |-> 1]

\* Two runs of an exclusive job, another job, a pod that the API server rejects and a job
\* for a cluster that plank does not know.
Mixed == {"a", "b", "c", "bad", "lost"}
MixedSpecs ==
  [p \in Mixed |-> [JobSpecOf("postsubmit", IF p \in {"a", "b"} THEN 1 ELSE 0) EXCEPT
                      !.job = IF p \in {"a", "b"} THEN "unit" ELSE p,
                      !.valid = (p # "bad"),
                      !.cluster = IF p = "lost" THEN "elsewhere" ELSE "default"]]
MixedTimes == [p \in Mixed |-> IF p = "a" THEN 1 ELSE IF p = "b" THEN 2 ELSE 3]

=============================================================================
