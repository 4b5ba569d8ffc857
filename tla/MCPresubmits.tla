---------------------------- MODULE MCPresubmits ----------------------------
(***************************************************************************)
(* GetPresubmits for two pull requests of one repo at the same time.  The  *)
(* config has one presubmit for the repo, in an array with room for three: *)
(* a JSON array is decoded into a slice with a capacity of at least four,  *)
(* and append rounds capacities up.                                        *)
(***************************************************************************)
EXTENDS ProwConfig

MCStatic == <<"s">>
MCYaml == <<<<"a">>, <<"b", "c">>>>
MCEnabled == {[k \in {"*"} |-> TRUE]}

PresubmitsInit ==
  /\ CallInit
  /\ cin = "" /\ cpc = "" /\ cfiles = "" /\ cnames = "" /\ cpresets = "" /\ cjobs = ""

PresubmitsSpec == PresubmitsInit /\ [][CallNext]_configVars
=============================================================================
