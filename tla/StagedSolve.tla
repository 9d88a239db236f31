----------------------------- MODULE StagedSolve -----------------------------
(***************************************************************************)
(* The staged solve (app/solver/baseline.py solve_baseline) and what its   *)
(* two callers make of the result: the run endpoint                        *)
(* (services/planning.py run_baseline, routers/scenarios.py create_run)    *)
(* and the alternative search (services/alternatives.py                    *)
(* search_alternative, routers/runs.py create_alternative).                *)
(*                                                                         *)
(* CP-SAT is external.  A call on the current model returns OPTIMAL with   *)
(* a best plan, FEASIBLE with some plan, or UNKNOWN with none; a plan is   *)
(* always one the model admits.  It answers INFEASIBLE only for a model    *)
(* without a plan, which ModelStaysFeasible shows never occurs.            *)
(***************************************************************************)
EXTENDS Alternatives

CONSTANTS
  Snapshots,   \* the stored snapshots a baseline may be solved for
  Searches     \* the alternative searches: [snap, order, requested, before]

\* A request names a stored scenario and an order of it.
ASSUME RequestsNameStored ==
  /\ \A snap \in Snapshots : StoredSnapshot(snap)
  /\ \A q \in Searches : StoredSnapshot(q.snap) /\ q.order \in DOMAIN q.snap.orders

\* The inputs a solve may be given.
Tasks == {BaselineTask(snap) : snap \in Snapshots} \cup
         {SearchTask(q.snap, q.order, q.requested, q.before) : q \in Searches}

\* The plans of each task's model before any stage is pinned.
Admitted == [t \in Tasks |-> HardPlans(t)]

\* At the first stage where an admitted plan differs from this one, it costs more.
LexOptimal(t, plan) ==
  /\ plan \in Admitted[t]
  /\ \A other \in Admitted[t] : \A k \in 1 .. Stages(t) :
       /\ \A j \in 1 .. k - 1 : Cost(t, j, other) = Cost(t, j, plan)
       /\ Cost(t, k, other) # Cost(t, k, plan)
       => Cost(t, k, plan) <= Cost(t, k, other)

VARIABLES
  task,      \* the input of this solve
  stage,     \* number of stages closed
  pinned,    \* value each closed stage was pinned to (objective_values and model.Add)
  best,      \* the plan of the last closed stage
  optimal,   \* stages_optimal: every closed stage was proved optimal
  report,    \* the SolveResult, or Unreported
  run        \* what the caller stored or answered, or NotRun

vars == <<task, stage, pinned, best, optimal, report, run>>

Unreported == [status |-> "NONE"]
NotRun     == [answer |-> "PENDING"]

\* What a request is answered; AVAILABLE and NONE are verdicts on an order.
Answers == {"PENDING", "STORED", "SOLVER_UNAVAILABLE", "REFUSED", "AVAILABLE", "NONE"}

SolverStatuses == {"OPTIMAL", "FEASIBLE", "ERROR"}

TypeOK ==
  /\ task \in Tasks
  /\ stage \in Nat
  /\ DOMAIN pinned = 1 .. stage
  /\ best \subseteq Candidates(task)
  /\ optimal \in BOOLEAN
  /\ report.status \in SolverStatuses \cup {"NONE"}
  /\ run.answer \in Answers

Init ==
  /\ task \in Tasks
  /\ stage = 0
  /\ pinned = [k \in 1 .. 0 |-> 0]
  /\ best = {}
  /\ optimal = TRUE
  /\ report = Unreported
  /\ run = NotRun

\* The plans the model still admits: the hard constraints and every pin.
Pool == {plan \in Admitted[task] : \A k \in 1 .. stage : Cost(task, k, plan) = pinned[k]}

MinimisesStage(plan, k) == \A other \in Pool : Cost(task, k, plan) <= Cost(task, k, other)

\* A search that is refused or has nothing to change never reaches the solver.
Accepted == task.search.opening \in {"BASELINE", "SOLVE"}

Solving == Accepted /\ report = Unreported /\ Candidates(task) # {}

MoreStages == stage < Stages(task)

SolveResult(status, plan, objectives) ==
  [status |-> status, plan |-> plan, outcomes |-> BuildOutcomes(task, plan),
   objectives |-> objectives]

\* The named values: assigned_count, priority_score and due_cost are the
\* first three stages; the canonical ones are not reported.
NamedValues == [k \in 1 .. IF stage < 3 THEN stage ELSE 3 |-> pinned[k]]

\* No candidate pair at all is a valid run that assigns nothing.
NothingToPlace ==
  /\ Accepted
  /\ report = Unreported
  /\ Candidates(task) = {}
  /\ report' = SolveResult("OPTIMAL", {}, [k \in 1 .. 2 |-> 0])
  /\ UNCHANGED <<task, stage, pinned, best, optimal, run>>

\* Mutants: the value is not pinned; it is pinned one better than it is; the
\* plan of the first stage is kept.
CloseStageUnpinned(proved) ==
  /\ Solving
  /\ MoreStages
  /\ \E plan \in Pool : (proved => MinimisesStage(plan, stage + 1)) /\ best' = plan
  /\ stage' = stage + 1
  /\ optimal' = (optimal /\ proved)
  /\ UNCHANGED <<task, pinned, report, run>>

CloseStageBetter(proved) ==
  /\ Solving
  /\ MoreStages
  /\ \E plan \in Pool :
       /\ proved => MinimisesStage(plan, stage + 1)
       /\ best' = plan
       /\ pinned' = [k \in 1 .. stage + 1 |->
                       IF k = stage + 1 THEN Cost(task, stage + 1, plan) - 1 ELSE pinned[k]]
  /\ stage' = stage + 1
  /\ optimal' = (optimal /\ proved)
  /\ UNCHANGED <<task, report, run>>

CloseStageKeepsPlan(proved) ==
  /\ Solving
  /\ MoreStages
  /\ \E plan \in Pool :
       /\ proved => MinimisesStage(plan, stage + 1)
       /\ best' = IF stage = 0 THEN plan ELSE best
       /\ pinned' = [k \in 1 .. stage + 1 |->
                       IF k = stage + 1 THEN Cost(task, stage + 1, plan) ELSE pinned[k]]
  /\ stage' = stage + 1
  /\ optimal' = (optimal /\ proved)
  /\ UNCHANGED <<task, report, run>>

\* One stage returns a usable plan; its value is pinned before the next.
CloseStage(proved) ==
  /\ Solving
  /\ MoreStages
  /\ \E plan \in Pool :
       /\ proved => MinimisesStage(plan, stage + 1)
       /\ best' = plan
       /\ pinned' = [k \in 1 .. stage + 1 |->
                       IF k = stage + 1 THEN Cost(task, stage + 1, plan) ELSE pinned[k]]
  /\ stage' = stage + 1
  /\ optimal' = (optimal /\ proved)
  /\ UNCHANGED <<task, report, run>>

\* The first stage proves nothing: there is no plan to report.
FirstStageUnproved ==
  /\ Solving
  /\ stage = 0
  /\ report' = [status |-> "ERROR", plan |-> {}, outcomes |-> << >>, objectives |-> << >>]
  /\ UNCHANGED <<task, stage, pinned, best, optimal, run>>

\* Mutant: the stages never reached do not count against optimality.
StopEarlyOptimal ==
  /\ Solving
  /\ stage >= 1
  /\ MoreStages
  /\ report' = SolveResult(IF optimal THEN "OPTIMAL" ELSE "FEASIBLE", best, NamedValues)
  /\ UNCHANGED <<task, stage, pinned, best, optimal, run>>

\* The budget is gone before a later stage starts, or that stage proves
\* nothing: the plan already held is reported without a claim of optimality.
StopEarly ==
  /\ Solving
  /\ stage >= 1
  /\ MoreStages
  /\ optimal' = FALSE
  /\ report' = SolveResult("FEASIBLE", best, NamedValues)
  /\ UNCHANGED <<task, stage, pinned, best, run>>

\* Mutant: a plan whose stages were not all proved is never returned.
AllStagesProved ==
  /\ Solving
  /\ ~MoreStages
  /\ optimal
  /\ report' = SolveResult("OPTIMAL", best, NamedValues)
  /\ UNCHANGED <<task, stage, pinned, best, optimal, run>>

AllStagesClosed ==
  /\ Solving
  /\ ~MoreStages
  /\ report' = SolveResult(IF optimal THEN "OPTIMAL" ELSE "FEASIBLE", best, NamedValues)
  /\ UNCHANGED <<task, stage, pinned, best, optimal, run>>

\* run_baseline validates what was solved, and the endpoint stores it, except
\* that a solve without a plan is answered 503 and stored nowhere.
PublishRun ==
  /\ task.search.opening = "BASELINE"
  /\ report # Unreported
  /\ run = NotRun
  /\ run' = IF report.status = "ERROR" THEN [answer |-> "SOLVER_UNAVAILABLE"]
            ELSE [answer |-> "STORED",
                  findings |-> ValidatePlan(task.snap, report.plan, report.outcomes,
                                            Listed(task.snap.baseline))]
  /\ UNCHANGED <<task, stage, pinned, best, optimal, report>>

\* POLICY_VIOLATION or INVALID_INPUT, or no approved change at all.
AnswerUnsolved ==
  /\ ~Accepted
  /\ run = NotRun
  /\ run' = [answer |-> IF task.search.opening = "NO_CHANGE" THEN "NONE" ELSE "REFUSED"]
  /\ UNCHANGED <<task, stage, pinned, best, optimal, report>>

\* The order has an alternative when the derived plan places it and differs
\* from the plan before; the derived run is stored with its validation.  A
\* solve without a plan places nothing and ends in NONE like any other.
ConcludeSearch ==
  /\ task.search.opening = "SOLVE"
  /\ report # Unreported
  /\ run = NotRun
  /\ run' = IF /\ \E a \in report.plan : a.order = task.search.order
               /\ Deltas(task.search.before, report.plan) # {}
            THEN [answer |-> "AVAILABLE",
                  findings |-> ValidatePlan(task.snap, report.plan, report.outcomes,
                                            Listed(task.snap.baseline))]
            ELSE [answer |-> "NONE"]
  /\ UNCHANGED <<task, stage, pinned, best, optimal, report>>

Next ==
  \/ NothingToPlace
  \/ \E proved \in BOOLEAN : CloseStage(proved)
  \/ FirstStageUnproved
  \/ StopEarly
  \/ AllStagesClosed
  \/ PublishRun
  \/ AnswerUnsolved
  \/ ConcludeSearch

\* Every CP-SAT call is bounded by max_time_in_seconds, and nothing between
\* two calls waits, so a solve that can take a step takes one.
Fairness == WF_vars(Next)

Spec == Init /\ [][Next]_vars /\ Fairness
-----------------------------------------------------------------------------
(* Properties *)

\* The eligibility gate offers exactly the slots on which the independent
\* validator would accept the order alone (_evaluate_order, validate_plan).
GateAgreesWithValidator ==
  \A o \in DOMAIN task.snap.orders : \A l \in DOMAIN task.snap.slots :
    LET w     == task.snap.slots[l].wagon
        alone == [order |-> o, service |-> task.snap.wagons[w].service, wagon |-> w, slot |-> l]
        placed == [x \in {o} |-> [input_state |-> "VALID", eligibility_state |-> "ELIGIBLE",
                                  assignment_state |-> "ASSIGNED"]]
    IN (alone \in Candidates(task)) =
         (ValidatePlan(task.snap, {alone}, placed, Listed(task.scope[o])) = {})

\* A run that is stored, a derived one included, always passes the
\* independent validator: the gate, the model's constraints and the outcomes
\* agree with rules the validator states on its own (run_baseline,
\* search_alternative, validate_plan).
StoredRunsPass == run.answer \in {"STORED", "AVAILABLE"} => run.findings = {}

\* An added service is opened to the order searched for and to nobody else,
\* although the derived snapshot, and with it the validator, permits it to
\* all (derive_snapshot, search_alternative).
OthersStayOnBaseline ==
  run.answer = "AVAILABLE" =>
    \A a \in report.plan :
      a.order # task.search.order => a.service \in Listed(task.search.baseline)

\* NONE says that the approved changes were searched and none helps, so
\* there is a plan behind it (create_alternative's 200 response).
NoneWasSearched ==
  run.answer = "NONE" /\ task.search.opening = "SOLVE" => report.status # "ERROR"

\* The pins keep the plan already held admissible, so no later stage can make
\* the model infeasible and the MODEL_INFEASIBLE result is never returned
\* (solve_baseline, the pin after each stage).
ModelStaysFeasible == report = Unreported => Pool # {}

\* The objective values a report names are those of the plan beside them,
\* although they were read stage by stage from different solutions
\* (objective_values in solve_baseline).
ObjectivesDescribePlan ==
  report.status \in {"OPTIMAL", "FEASIBLE"} =>
    \A k \in DOMAIN report.objectives : report.objectives[k] = Cost(task, k, report.plan)

\* An optimal plan is the only plan of its task that could be reported as
\* optimal, so the same input yields the same result hash whatever order the
\* solver searched in (the canonical tie-break of solve_baseline).
OptimalPlanIsUnique ==
  report.status = "OPTIMAL" =>
    \A plan \in Admitted[task] : LexOptimal(task, plan) => plan = report.plan

\* A candidate of the order whose slot is free and whose wagon has the weight.
\* One whose service is listed twice has no room anywhere: its variable stands
\* twice in the sum that must not exceed 1.
RoomFor(plan, o) ==
  \E a \in Candidates(task) :
    /\ a.order = o
    /\ Copies(task, a) = 1
    /\ \A b \in plan : b.slot # a.slot
    /\ LoadedOn(task.snap, plan \cup {a}, a.wagon) <= task.snap.wagons[a.wagon].capacity

\* CAPACITY_CONFLICT is only said of an order that no slot could still take:
\* each of its candidates is occupied or would overload its wagon.  The code
\* labels every eligible order left out this way (_build_outcomes).
UnplacedMeansFull ==
  report.status = "OPTIMAL" =>
    \A o \in DOMAIN report.outcomes :
      report.outcomes[o].primary = "CAPACITY_CONFLICT" => ~RoomFor(report.plan, o)

\* The snapshot with every slot and wagon as free and as large as any order
\* needs.
PerfectSlots(snap) ==
  LET All(field) == UNION {snap.orders[o][field] : o \in DOMAIN snap.orders}
      Largest == Max({snap.orders[o].weight : o \in DOMAIN snap.orders} \cup
                     {snap.orders[o].dims[axis] : o \in DOMAIN snap.orders,
                                                  axis \in {"height", "width", "length"}})
  IN [snap EXCEPT
        !.wagons = [w \in DOMAIN @ |-> [@[w] EXCEPT !.available = TRUE, !.capacity = Largest]],
        !.slots  = [l \in DOMAIN @ |->
                      [wagon |-> @[l].wagon, available |-> TRUE, tags |-> All("tags"),
                       dims |-> [axis \in {"height", "width", "length"} |-> Largest],
                       weight |-> Largest]]]

\* An order that no slot could help is told why: the primary reason is the
\* one it would have with perfect slots on every train.  A code of a slot
\* outranking the reason that the whole service is out would send the
\* operator after the wrong cause (the stop before the slots in
\* _evaluate_order, select_primary).
SlotsNeverMaskService ==
  LET perfect == PerfectSlots(task.snap)
  IN \A o \in DOMAIN task.scope :
       LET hopeful == EvaluateOrder(perfect, o, task.scope[o])
       IN hopeful.eligibility_state = "INELIGIBLE" =>
            EvaluateOrder(task.snap, o, task.scope[o]).primary = hopeful.primary

\* The verdict of one solve as its caller sees it.
Verdict ==
  IF report.status \in {"OPTIMAL", "FEASIBLE"}
  THEN [status |-> report.status, plan |-> report.plan, outcomes |-> report.outcomes]
  ELSE IF report.status = "ERROR" THEN [status |-> "ERROR", outcomes |-> report.outcomes]
  ELSE [status |-> report.status]

Promise == INSTANCE SolveSpec WITH
  Allowed <- HardPlans, IsBest <- LexOptimal, Outcomes <- BuildOutcomes, report <- Verdict

\* The stages, pins and early stops together implement the one-step promise.
KeepsPromise == Promise!Spec

\* Every request is answered, however the solver behaves.
EventuallyAnswered == <>(run # NotRun)
=============================================================================
