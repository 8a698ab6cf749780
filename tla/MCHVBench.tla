----------------------------- MODULE MCHVBench -----------------------------
(* Model-checking instance of HVBench.                                     *)
EXTENDS HVBench

CONSTANTS n1, l1, l2   \* model values

OneNode == {n1}
OneLoop == {l1}
TwoLoops == {l1, l2}

(* Two switches at once and an operator who does anything at any time, and  *)
(* two tenants of a patient operator.                                       *)
MCScenarios ==
  {[tenants |-> {1}, nodes |-> {n1}, loops |-> {l1, l2}, events |-> 2, patient |-> FALSE],
   [tenants |-> {1, 2}, nodes |-> {}, loops |-> {l1}, events |-> 3, patient |-> TRUE]}
MCPatientScenario ==
  {[tenants |-> {1}, nodes |-> {}, loops |-> {l1}, events |-> 1, patient |-> TRUE]}
=============================================================================
