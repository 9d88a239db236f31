------------------------------ MODULE PlanModel ------------------------------
(***************************************************************************)
(* The optimisation model of app/solver: candidate pairs, the hard         *)
(* constraints, the staged objective and the per-order outcomes.  Pure     *)
(* operators over a task, the input of one solve:                          *)
(*   task.snap   the snapshot,                                             *)
(*   task.scope  for each order the list of services it may use,           *)
(*   task.search  what the caller asked: a baseline or an alternative.     *)
(* A plan is the set of the candidates whose variable is 1.                *)
(***************************************************************************)
EXTENDS PlanValidator

BaselineTask(snap) ==
  [snap |-> snap, scope |-> BaselineScope(snap), search |-> [opening |-> "BASELINE"]]

Evaluation(task) == EvaluateScenario(task.snap, task.scope)

Candidates(task) == UNION {CandidatesOf(task.snap, o, task.scope[o]) : o \in DOMAIN task.scope}

(***************************************************************************)
(* A service listed twice yields its candidates twice.  The two share one  *)
(* variable x[order, slot], so the pair counts as often as it is listed in *)
(* every sum over a candidate group.                                       *)
(***************************************************************************)
Copies(task, a) ==
  Cardinality({i \in DOMAIN task.scope[a.order] : task.scope[a.order][i] = a.service})

PickedIn(task, group) == SumFunction([a \in group |-> Copies(task, a)])

WeightIn(task, group) ==
  SumFunction([a \in group |-> Copies(task, a) * task.snap.orders[a.order].weight])

\* Mutant: no wagon limit.
MeetsUniqueness(task, plan) ==
  /\ \A o \in {a.order : a \in plan} : PickedIn(task, {a \in plan : a.order = o}) <= 1
  /\ \A l \in {a.slot : a \in plan} : PickedIn(task, {a \in plan : a.slot = l}) <= 1

\* Mutant: a wagon is full one unit too early.
MeetsStrictly(task, plan) ==
  /\ MeetsUniqueness(task, plan)
  /\ \A w \in {a.wagon : a \in plan} :
       WeightIn(task, {a \in plan : a.wagon = w}) < task.snap.wagons[w].capacity

\* At most one slot per order, one order per slot, and no wagon over its limit.
MeetsConstraints(task, plan) ==
  /\ \A o \in {a.order : a \in plan} : PickedIn(task, {a \in plan : a.order = o}) <= 1
  /\ \A l \in {a.slot : a \in plan} : PickedIn(task, {a \in plan : a.slot = l}) <= 1
  /\ \A w \in {a.wagon : a \in plan} :
       WeightIn(task, {a \in plan : a.wagon = w}) <= task.snap.wagons[w].capacity

HardPlans(task) == {plan \in SUBSET Candidates(task) : MeetsConstraints(task, plan)}

-----------------------------------------------------------------------------
(* The stages, each a cost to minimise; a maximised value is negated. *)

SolvedOrders(task) == {a.order : a \in Candidates(task)}

\* The n-th smallest element of a set of integers.
Nth(S, n) == CHOOSE x \in S : Cardinality({y \in S : y <= x}) = n

SlotRank(task, l) == Cardinality({m \in {a.slot : a \in Candidates(task)} : m <= l})

UnassignedPenalty(task) == Cardinality({a.slot : a \in Candidates(task)}) + 1

AssignedCount(plan) == Cardinality(plan)

PriorityScore(task, plan) ==
  SumFunction([a \in plan |-> task.snap.scores[task.snap.orders[a.order].priority]])

DueCost(task, plan) == SumFunction([a \in plan |-> task.snap.orders[a.order].due])

CanonicalCost(task, plan, o) ==
  IF \E a \in plan : a.order = o
  THEN SlotRank(task, (CHOOSE a \in plan : a.order = o).slot)
  ELSE UnassignedPenalty(task)

Cost(task, k, plan) ==
  CASE k = 1 -> -AssignedCount(plan)
    [] k = 2 -> -PriorityScore(task, plan)
    [] k = 3 -> DueCost(task, plan)
    [] OTHER -> CanonicalCost(task, plan, Nth(SolvedOrders(task), k - 3))

\* Mutant: no canonical stages.
NamedStages(task) == 3

Stages(task) == 3 + Cardinality(SolvedOrders(task))

-----------------------------------------------------------------------------
(* What is reported *)

Outcome(e, assigned) ==
  LET axes(assignment, primary) ==
        [input_state |-> e.input_state, eligibility_state |-> e.eligibility_state,
         assignment_state |-> assignment, alternative_state |-> "NOT_SEARCHED",
         primary |-> primary]
  IN IF e.eligibility_state # "ELIGIBLE" THEN axes("NOT_APPLICABLE", e.primary)
     ELSE IF assigned THEN axes("ASSIGNED", "ASSIGNED")
     ELSE axes("UNASSIGNED", "CAPACITY_CONFLICT")

BuildOutcomes(task, plan) ==
  LET evaluation == Evaluation(task)
  IN [o \in DOMAIN evaluation |-> Outcome(evaluation[o], \E a \in plan : a.order = o)]
=============================================================================
