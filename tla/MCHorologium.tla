---------------------------- MODULE MCHorologium ----------------------------
(* Two runs of a periodic whose config changes between an interval and a cron string. *)
EXTENDS Horologium

MCPJ == {"p1", "p2"}
MCSpecs ==
  [p \in MCPJ |-> [job |-> "ci", type |-> "periodic", refs |-> 1,
                   cluster |-> "default", maxConcurrency |-> 0, errorOnEviction |-> FALSE, valid |-> TRUE]]
MCTimes == [p \in MCPJ |-> IF p = "p1" THEN 1 ELSE 2]
MCConfigs == {[ci |-> "interval"], [ci |-> "@every"]}
=============================================================================
