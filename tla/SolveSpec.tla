------------------------------ MODULE SolveSpec ------------------------------
(***************************************************************************)
(* What one solve promises its caller, in one step: an optimal report      *)
(* carries a plan no other beats, a feasible report some plan that breaks  *)
(* no hard constraint, and a solve that proved nothing reports no plan and *)
(* a verdict on no order.                                                  *)
(***************************************************************************)
CONSTANTS
  Tasks,            \* the inputs a solve may be given
  Allowed(_),       \* the plans that break no hard constraint of a task
  IsBest(_, _),     \* no allowed plan of the task beats this one
  Outcomes(_, _)    \* the verdict on every order that goes with a plan

VARIABLES task, report

NoReport == [status |-> "NONE"]
Errored  == [status |-> "ERROR", outcomes |-> << >>]

Reported(status, plan) ==
  [status |-> status, plan |-> plan, outcomes |-> Outcomes(task, plan)]

Init == task \in Tasks /\ report = NoReport

Answer(r) ==
  \/ r = Errored
  \/ /\ r.status \in {"OPTIMAL", "FEASIBLE"}
     /\ r = Reported(r.status, r.plan)
     /\ r.plan \in Allowed(task)
     /\ r.status = "OPTIMAL" => IsBest(task, r.plan)

Solve == /\ report = NoReport
         /\ Answer(report')
         /\ UNCHANGED task

Spec == Init /\ [][Solve]_<<task, report>>
=============================================================================
