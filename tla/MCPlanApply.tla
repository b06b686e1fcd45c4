----------------------------- MODULE MCPlanApply -----------------------------
(***************************************************************************)
(* Two requests for one plan.  With two attempts and two disturbances a job *)
(* is taken over and can run out of attempts; the two runs that look for a  *)
(* broken promise have the three attempts of the code.                      *)
(***************************************************************************)
EXTENDS PlanApply
=============================================================================
