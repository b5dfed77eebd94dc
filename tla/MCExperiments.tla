--------------------------- MODULE MCExperiments ---------------------------
(***************************************************************************)
(* Two candidates, one evaluated at a time, and a third with the id of the *)
(* first, beyond the limit but refused all the same; two runs, one mishap  *)
(* (an edit, a misled hash or a failed removal) and one cancellation.      *)
(***************************************************************************)
EXTENDS Experiments, TLC

CONSTANTS c1, c2, c3

MCId == (c1 :> 1) @@ (c2 :> 2) @@ (c3 :> 1)
MCLists == {<<c1, c2>>, <<c1, c2, c3>>}
MCPassed == [compile |-> TRUE, tests |-> TRUE, skipped |-> FALSE]
MCFailed == [compile |-> TRUE, tests |-> FALSE, skipped |-> FALSE]
MCMeasured == {MCPassed, MCFailed}
MCSettings == {[baseline |-> MCPassed, evaluator |-> "default"]}
=============================================================================
