-------------------------- MODULE StagedSolveProofs --------------------------
(***************************************************************************)
(* Proofs about StagedSolve, for every set of stored snapshots and          *)
(* searches.                                                               *)
(***************************************************************************)
EXTENDS StagedSolve, PlanProofs

(***************************************************************************)
(* The inductive invariant.  While a solve is running, the plan held is    *)
(* one of the model's, the pins are its costs, and as long as every stage  *)
(* was proved optimal no admitted plan is cheaper at the first closed      *)
(* stage where it differs.  Once reported, the verdict is about an         *)
(* admitted plan, the outcomes and the objectives are that plan's, and     *)
(* what the caller keeps was concluded from it.                            *)
(***************************************************************************)
Held == stage >= 1 => best \in Admitted[task]

PinsAreCostsOfBest == pinned = [k \in 1 .. stage |-> Cost(task, k, best)]

BestUpTo(n, plan) ==
  \A other \in Admitted[task] : \A k \in 1 .. n :
    /\ \A j \in 1 .. k - 1 : Cost(task, j, other) = Cost(task, j, plan)
    /\ Cost(task, k, other) # Cost(task, k, plan)
    => Cost(task, k, plan) <= Cost(task, k, other)

SoFarOptimal == optimal => BestUpTo(stage, best)

Reported ==
  \/ report = Unreported
  \/ report.status = "ERROR" /\ report.plan = {}
  \/ /\ report.status \in {"OPTIMAL", "FEASIBLE"}
     /\ report.plan \in Admitted[task]
     /\ report.outcomes = BuildOutcomes(task, report.plan)
     /\ \A k \in DOMAIN report.objectives : report.objectives[k] = Cost(task, k, report.plan)
     /\ report.status = "OPTIMAL" => LexOptimal(task, report.plan)

Concluded ==
  /\ run.answer = "AVAILABLE" => task.search.opening = "SOLVE"
  /\ run.answer \in {"STORED", "AVAILABLE"} =>
       /\ report.status \in {"OPTIMAL", "FEASIBLE"}
       /\ run.findings = ValidatePlan(task.snap, report.plan, report.outcomes,
                                      Listed(task.snap.baseline))

IInv ==
  /\ TypeOK
  /\ Held
  /\ PinsAreCostsOfBest
  /\ SoFarOptimal
  /\ Reported
  /\ Concluded

-----------------------------------------------------------------------------

\* The plan that assigns nothing breaks no constraint.
LEMMA EmptyPlanAdmitted ==
  ASSUME NEW t \in Tasks
  PROVE  {} \in Admitted[t]
BY DEF Admitted, HardPlans, MeetsConstraints

\* The plan held is still admitted by the model with every pin added.
LEMMA BestStaysInPool ==
  ASSUME IInv, stage >= 1
  PROVE  best \in Pool
BY DEF IInv, TypeOK, Held, PinsAreCostsOfBest, Pool

\* Closing a stage with an optimal plan extends the lexicographic claim by
\* one stage, and the pool guarantees it kept every earlier value.
LEMMA StageExtendsOptimum ==
  ASSUME IInv, BestUpTo(stage, best), NEW plan \in Pool, MinimisesStage(plan, stage + 1)
  PROVE  BestUpTo(stage + 1, plan)
<1>1. stage \in Nat /\ plan \in Admitted[task]
  BY DEF IInv, TypeOK, Pool
<1>2. ASSUME NEW j \in 1 .. stage
      PROVE  Cost(task, j, plan) = Cost(task, j, best)
  BY <1>1, <1>2 DEF IInv, PinsAreCostsOfBest, Pool
<1>3. SUFFICES ASSUME NEW other \in Admitted[task], NEW k \in 1 .. stage + 1,
                      \A j \in 1 .. k - 1 : Cost(task, j, other) = Cost(task, j, plan),
                      Cost(task, k, other) # Cost(task, k, plan)
               PROVE  Cost(task, k, plan) <= Cost(task, k, other)
  BY DEF BestUpTo
<1>4. CASE k <= stage
  <2>1. k \in 1 .. stage /\ \A j \in 1 .. k - 1 : j \in 1 .. stage
    BY <1>1, <1>4
  <2>2. \A j \in 1 .. k - 1 : Cost(task, j, other) = Cost(task, j, best)
    BY <1>2, <1>3, <2>1
  <2>3. Cost(task, k, other) # Cost(task, k, best)
    BY <1>2, <1>3, <2>1
  <2>4. Cost(task, k, best) <= Cost(task, k, other)
    BY <2>1, <2>2, <2>3 DEF BestUpTo
  <2> QED BY <1>2, <2>1, <2>4
<1>5. CASE k = stage + 1
  <2>1. \A j \in 1 .. stage : Cost(task, j, other) = pinned[j]
    BY <1>1, <1>2, <1>3, <1>5 DEF IInv, PinsAreCostsOfBest
  <2>2. other \in Pool
    BY <2>1 DEF Pool
  <2> QED BY <1>5, <2>2 DEF MinimisesStage
<1> QED BY <1>1, <1>4, <1>5

-----------------------------------------------------------------------------

\* Every input of a solve is a request on a stored snapshot, and a search
\* opens services to the order searched for and to no other.
LEMMA TaskIsRequest ==
  ASSUME NEW t \in Tasks
  PROVE  /\ RequestTask(t)
         /\ t.search.opening = "SOLVE" =>
              \A o \in DOMAIN t.scope : o # t.search.order => t.scope[o] = t.search.baseline
<1>1. CASE \E snap \in Snapshots : t = BaselineTask(snap)
  <2>1. PICK snap \in Snapshots : t = BaselineTask(snap)
    BY <1>1
  <2>2. RequestTask(t)
    BY <2>1, RequestsNameStored, BaselineIsRequest
  <2>3. t.search.opening = "BASELINE"
    BY <2>1 DEF BaselineTask
  <2> QED BY <2>2, <2>3
<1>2. CASE \E q \in Searches : t = SearchTask(q.snap, q.order, q.requested, q.before)
  <2>1. PICK q \in Searches : t = SearchTask(q.snap, q.order, q.requested, q.before)
    BY <1>2
  <2>2. StoredSnapshot(q.snap) /\ q.order \in DOMAIN q.snap.orders
    BY RequestsNameStored
  <2> QED BY <2>1, <2>2, SearchIsRequest
<1> QED BY <1>1, <1>2 DEF Tasks

\* With nothing to place, the empty plan is the only one.
LEMMA EmptyPlanOptimal ==
  ASSUME NEW t \in Tasks, Candidates(t) = {}
  PROVE  LexOptimal(t, {})
<1>1. \A other \in Admitted[t] : other = {}
  BY DEF Admitted, HardPlans
<1> QED BY <1>1, EmptyPlanAdmitted DEF LexOptimal

\* An empty plan assigns none and scores nothing.
LEMMA EmptyPlanCosts ==
  \A k \in 1 .. 2 : Cost(task, k, {}) = 0
<1>1. AssignedCount({}) = 0
  BY FS_EmptySet DEF AssignedCount
<1>2. PriorityScore(task, {}) = 0
  <2> DEFINE f == [a \in {} |-> task.snap.scores[task.snap.orders[a.order].priority]]
  <2>1. PriorityScore(task, {}) = SumFunctionOnSet(f, {})
    BY DEF PriorityScore, SumFunction
  <2> HIDE DEF f
  <2> QED BY <2>1, SumOfNone
<1> QED BY <1>1, <1>2 DEF Cost

LEMMA ClosedStagesOptimal ==
  ASSUME IInv, optimal, ~MoreStages
  PROVE  LexOptimal(task, best)
<1>1. Stages(task) \in Nat /\ Stages(task) >= 3 /\ stage \in Nat /\ task \in Tasks
  BY TaskIsRequest, StagesAreNatural DEF IInv, TypeOK
<1>2. stage >= Stages(task)
  BY <1>1 DEF MoreStages
<1>3. best \in Admitted[task]
  BY <1>1, <1>2 DEF IInv, Held
<1>4. BestUpTo(stage, best)
  BY DEF IInv, SoFarOptimal
<1>5. \A k \in 1 .. Stages(task) : k \in 1 .. stage
  BY <1>1, <1>2
<1> QED BY <1>3, <1>4, <1>5 DEF LexOptimal, BestUpTo

\* Whatever ends a solve with a plan reports one the model admits, with its
\* own costs, and calls it optimal only when no other beats it.
LEMMA ReportsHonestly ==
  ASSUME IInv, NothingToPlace \/ StopEarly \/ AllStagesClosed
  PROVE  /\ report = Unreported /\ UNCHANGED <<task, run>>
         /\ \E status \in {"OPTIMAL", "FEASIBLE"} : \E plan \in Admitted[task] : \E objectives :
              /\ report' = SolveResult(status, plan, objectives)
              /\ \A k \in DOMAIN objectives : objectives[k] = Cost(task, k, plan)
              /\ status = "OPTIMAL" => LexOptimal(task, plan)
<1>1. task \in Tasks /\ stage \in Nat /\ optimal \in BOOLEAN
  BY DEF IInv, TypeOK
<1>2. CASE NothingToPlace
  <2> DEFINE objectives == [k \in 1 .. 2 |-> 0]
  <2>1. {} \in Admitted[task] /\ LexOptimal(task, {})
    BY <1>1, <1>2, EmptyPlanAdmitted, EmptyPlanOptimal DEF NothingToPlace
  <2>2. \A k \in 1 .. 2 : Cost(task, k, {}) = 0
    BY EmptyPlanCosts
  <2>3. \A k \in DOMAIN objectives : objectives[k] = Cost(task, k, {})
    BY <2>2
  <2>4. report' = SolveResult("OPTIMAL", {}, objectives)
    BY <1>2 DEF NothingToPlace
  <2> HIDE DEF objectives
  <2> QED BY <1>2, <2>1, <2>3, <2>4 DEF NothingToPlace
<1>3. CASE StopEarly \/ AllStagesClosed
  <2>1. stage >= 1
    BY <1>1, <1>3, TaskIsRequest, StagesAreNatural DEF StopEarly, AllStagesClosed, MoreStages
  <2>2. best \in Admitted[task]
    BY <2>1 DEF IInv, Held
  <2>3. \A k \in DOMAIN NamedValues : NamedValues[k] = Cost(task, k, best)
    BY <1>1 DEF IInv, PinsAreCostsOfBest, NamedValues
  <2>4. CASE StopEarly
    BY <2>2, <2>3, <2>4 DEF StopEarly, Solving
  <2>5. CASE AllStagesClosed /\ optimal
    BY <2>2, <2>3, <2>5, ClosedStagesOptimal DEF AllStagesClosed, Solving
  <2>6. CASE AllStagesClosed /\ ~optimal
    BY <2>2, <2>3, <2>6 DEF AllStagesClosed, Solving
  <2> QED BY <1>3, <2>4, <2>5, <2>6
<1> QED BY <1>2, <1>3

-----------------------------------------------------------------------------

LEMMA InitEstablishes == Init => IInv
BY DEF Init, IInv, TypeOK, Held, PinsAreCostsOfBest, SoFarOptimal, BestUpTo, Reported, Concluded,
      Unreported, NotRun, Answers

LEMMA CloseStagePreserves ==
  ASSUME IInv, NEW proved \in BOOLEAN, CloseStage(proved)
  PROVE  IInv'
<1>1. PICK plan \in Pool :
        /\ proved => MinimisesStage(plan, stage + 1)
        /\ best' = plan
        /\ pinned' = [k \in 1 .. stage + 1 |->
                        IF k = stage + 1 THEN Cost(task, stage + 1, plan) ELSE pinned[k]]
  BY DEF CloseStage
<1>2. /\ stage' = stage + 1 /\ optimal' = (optimal /\ proved)
      /\ task' = task /\ report' = report /\ run' = run
  BY DEF CloseStage
<1>3. stage \in Nat /\ plan \in Admitted[task] /\ task \in Tasks
  BY DEF IInv, TypeOK, Pool
<1>4. plan \subseteq Candidates(task)
  BY <1>3 DEF Admitted, HardPlans
<1>5. TypeOK'
  BY <1>1, <1>2, <1>3, <1>4 DEF IInv, TypeOK
<1>6. Held'
  BY <1>1, <1>2, <1>3 DEF Held
<1>7. PinsAreCostsOfBest'
  <2>1. \A k \in 1 .. stage : pinned[k] = Cost(task, k, plan)
    BY DEF Pool
  <2>2. pinned' = [k \in 1 .. stage + 1 |-> Cost(task, k, plan)]
    BY <1>1, <1>3, <2>1
  <2> QED BY <1>1, <1>2, <2>2 DEF PinsAreCostsOfBest
<1>8. SoFarOptimal'
  <2>1. SUFFICES ASSUME optimal' PROVE BestUpTo(stage, best)'
    BY DEF SoFarOptimal
  <2>2. optimal /\ proved
    BY <1>2, <2>1 DEF IInv, TypeOK
  <2>3. BestUpTo(stage + 1, plan)
    BY <1>1, <2>2, StageExtendsOptimum DEF IInv, SoFarOptimal
  <2> QED BY <1>1, <1>2, <2>3 DEF BestUpTo
<1>9. Reported' /\ Concluded'
  BY <1>2 DEF IInv, Reported, Concluded, CloseStage, Solving
<1> QED BY <1>5, <1>6, <1>7, <1>8, <1>9 DEF IInv

LEMMA ReportPreserves ==
  ASSUME IInv, NothingToPlace \/ StopEarly \/ AllStagesClosed
  PROVE  IInv'
<1>1. /\ report = Unreported /\ UNCHANGED <<task, run, stage, pinned, best>>
      /\ optimal' = optimal \/ optimal' = FALSE
  BY ReportsHonestly DEF NothingToPlace, StopEarly, AllStagesClosed
<1>2. PICK status \in {"OPTIMAL", "FEASIBLE"} : \E plan \in Admitted[task] : \E objectives :
        /\ report' = SolveResult(status, plan, objectives)
        /\ \A k \in DOMAIN objectives : objectives[k] = Cost(task, k, plan)
        /\ status = "OPTIMAL" => LexOptimal(task, plan)
  BY ReportsHonestly
<1>3. PICK plan \in Admitted[task] : \E objectives :
        /\ report' = SolveResult(status, plan, objectives)
        /\ \A k \in DOMAIN objectives : objectives[k] = Cost(task, k, plan)
        /\ status = "OPTIMAL" => LexOptimal(task, plan)
  BY <1>2
<1>4. PICK objectives :
        /\ report' = SolveResult(status, plan, objectives)
        /\ \A k \in DOMAIN objectives : objectives[k] = Cost(task, k, plan)
        /\ status = "OPTIMAL" => LexOptimal(task, plan)
  BY <1>3
<1>5. /\ report'.status = status /\ report'.plan = plan /\ report'.objectives = objectives
      /\ report'.outcomes = BuildOutcomes(task, plan)
  BY <1>4 DEF SolveResult
<1>6. TypeOK'
  BY <1>1, <1>5 DEF IInv, TypeOK, SolverStatuses
<1>7. Held' /\ PinsAreCostsOfBest' /\ SoFarOptimal'
  BY <1>1 DEF IInv, TypeOK, Held, PinsAreCostsOfBest, SoFarOptimal, BestUpTo
<1>8. Reported'
  <2>1. task' = task
    BY <1>1
  <2> QED BY <1>4, <1>5, <2>1 DEF Reported, LexOptimal
<1>9. Concluded'
  <2>1. run.answer \notin {"STORED", "AVAILABLE"}
    BY <1>1 DEF IInv, Concluded, Unreported
  <2> QED BY <1>1, <2>1 DEF Concluded
<1> QED BY <1>6, <1>7, <1>8, <1>9 DEF IInv

LEMMA AnswerPreserves ==
  ASSUME IInv, PublishRun \/ AnswerUnsolved \/ ConcludeSearch
  PROVE  IInv'
<1>1. UNCHANGED <<task, stage, pinned, best, optimal, report>>
  BY DEF PublishRun, AnswerUnsolved, ConcludeSearch
<1>2. Held' /\ PinsAreCostsOfBest' /\ SoFarOptimal' /\ Reported'
  BY <1>1 DEF IInv, Held, PinsAreCostsOfBest, SoFarOptimal, BestUpTo, Reported, LexOptimal
<1>3. run'.answer \in Answers /\ Concluded'
  <2> DEFINE findings == ValidatePlan(task.snap, report.plan, report.outcomes,
                                      Listed(task.snap.baseline))
  <2>1. CASE PublishRun
    <3>1. CASE report.status = "ERROR"
      BY <1>1, <2>1, <3>1 DEF PublishRun, Answers, Concluded
    <3>2. CASE report.status # "ERROR"
      <4>1. run' = [answer |-> "STORED", findings |-> findings]
        BY <2>1, <3>2 DEF PublishRun
      <4>2. report.status \in {"OPTIMAL", "FEASIBLE"}
        BY <2>1, <3>2 DEF PublishRun, IInv, Reported
      <4> QED BY <1>1, <4>1, <4>2 DEF Answers, Concluded
    <3> QED BY <3>1, <3>2
  <2>2. CASE AnswerUnsolved
    BY <1>1, <2>2 DEF AnswerUnsolved, Answers, Concluded
  <2>3. CASE ConcludeSearch
    <3>1. CASE run' = [answer |-> "NONE"]
      BY <1>1, <3>1 DEF Answers, Concluded
    <3>2. CASE run' # [answer |-> "NONE"]
      <4>1. /\ run' = [answer |-> "AVAILABLE", findings |-> findings]
            /\ \E a \in report.plan : a.order = task.search.order
            /\ task.search.opening = "SOLVE" /\ report # Unreported
        BY <2>3, <3>2 DEF ConcludeSearch
      <4>2. report.status \in {"OPTIMAL", "FEASIBLE"}
        BY <4>1 DEF IInv, Reported
      <4> QED BY <1>1, <4>1, <4>2 DEF Answers, Concluded
    <3> QED BY <3>1, <3>2
  <2> QED BY <2>1, <2>2, <2>3
<1> QED BY <1>1, <1>2, <1>3 DEF IInv, TypeOK

LEMMA StepPreserves == IInv /\ [Next]_vars => IInv'
<1> SUFFICES ASSUME IInv, [Next]_vars PROVE IInv'
  OBVIOUS
<1>1. CASE NothingToPlace \/ StopEarly \/ AllStagesClosed
  BY <1>1, ReportPreserves
<1>2. ASSUME NEW proved \in BOOLEAN, CloseStage(proved) PROVE IInv'
  BY <1>2, CloseStagePreserves
<1>3. CASE FirstStageUnproved
  <2>1. report' = [status |-> "ERROR", plan |-> {}, outcomes |-> << >>, objectives |-> << >>]
        /\ UNCHANGED <<task, stage, pinned, best, optimal, run>> /\ report = Unreported
    BY <1>3 DEF FirstStageUnproved, Solving
  <2>2. TypeOK' /\ Held' /\ PinsAreCostsOfBest' /\ SoFarOptimal'
    BY <2>1 DEF IInv, TypeOK, SolverStatuses, Held, PinsAreCostsOfBest, SoFarOptimal, BestUpTo
  <2>3. Reported' /\ Concluded'
    BY <2>1 DEF IInv, Reported, Concluded, Unreported
  <2> QED BY <2>2, <2>3 DEF IInv
<1>4. CASE PublishRun \/ AnswerUnsolved \/ ConcludeSearch
  BY <1>4, AnswerPreserves
<1>5. CASE UNCHANGED vars
  BY <1>5 DEF vars, IInv, TypeOK, Held, PinsAreCostsOfBest, SoFarOptimal, BestUpTo, Reported,
              Concluded, LexOptimal
<1> QED BY <1>1, <1>2, <1>3, <1>4, <1>5 DEF Next

LEMMA Inductive == Spec => []IInv
BY InitEstablishes, StepPreserves, PTL DEF Spec

-----------------------------------------------------------------------------

\* Type correctness of the staged solve.
THEOREM TypeCorrect == Spec => []TypeOK
<1>1. IInv => TypeOK
  BY DEF IInv
<1> QED BY <1>1, Inductive, PTL

\* The model the next stage is solved on always has a plan, so the
\* MODEL_INFEASIBLE result of solve_baseline is never returned.
THEOREM NeverInfeasible == Spec => []ModelStaysFeasible
<1>1. IInv => ModelStaysFeasible
  <2> SUFFICES ASSUME IInv PROVE Pool # {}
    BY DEF ModelStaysFeasible
  <2>1. CASE stage >= 1
    BY <2>1, BestStaysInPool
  <2>2. CASE stage = 0
    <3>1. {} \in Admitted[task]
      BY EmptyPlanAdmitted DEF IInv, TypeOK
    <3> QED BY <2>2, <3>1 DEF Pool
  <2> QED BY <2>1, <2>2 DEF IInv, TypeOK
<1> QED BY <1>1, Inductive, PTL
-----------------------------------------------------------------------------
(* What is stored and reported *)

\* A stored run always passes the independent validator, the derived run of
\* an alternative included: the gate, the model and the outcomes agree with
\* rules the validator states on its own (run_baseline, search_alternative).
THEOREM StoredPlansPass == Spec => []StoredRunsPass
<1>1. IInv => StoredRunsPass
  <2> SUFFICES ASSUME IInv, run.answer \in {"STORED", "AVAILABLE"}
               PROVE  run.findings = {}
    BY DEF StoredRunsPass
  <2>1. /\ run.findings = ValidatePlan(task.snap, report.plan, report.outcomes,
                                      Listed(task.snap.baseline))
        /\ report.status \in {"OPTIMAL", "FEASIBLE"}
    BY DEF IInv, Concluded
  <2>2. report.plan \in Admitted[task] /\ report.outcomes = BuildOutcomes(task, report.plan)
    BY <2>1 DEF IInv, Reported, Unreported
  <2>3. task \in Tasks
    BY DEF IInv, TypeOK
  <2>4. report.plan \in HardPlans(task) /\ RequestTask(task)
    BY <2>2, <2>3, TaskIsRequest DEF Admitted
  <2> QED BY <2>1, <2>2, <2>4, PlansPass
<1> QED BY <1>1, Inductive, PTL

\* The gate offers a slot to an order exactly when the independent validator
\* would accept the order there alone (_evaluate_order, validate_plan).
THEOREM GateIsTheValidator == Spec => []GateAgreesWithValidator
<1>1. IInv => GateAgreesWithValidator
  <2> SUFFICES ASSUME IInv PROVE GateAgreesWithValidator
    OBVIOUS
  <2>1. RequestTask(task) /\ StoredSnapshot(task.snap)
    BY TaskIsRequest DEF IInv, TypeOK, RequestTask
  <2>2. ASSUME NEW o \in DOMAIN task.snap.orders, NEW l \in DOMAIN task.snap.slots
        PROVE  LET w     == task.snap.slots[l].wagon
                   alone == [order |-> o, service |-> task.snap.wagons[w].service,
                             wagon |-> w, slot |-> l]
                   placed == [x \in {o} |-> [input_state |-> "VALID",
                                             eligibility_state |-> "ELIGIBLE",
                                             assignment_state |-> "ASSIGNED"]]
               IN (alone \in Candidates(task)) =
                    (ValidatePlan(task.snap, {alone}, placed, Listed(task.scope[o])) = {})
    <3> DEFINE a == Placement(task.snap, o, l)
               placed == [x \in {o} |-> [input_state |-> "VALID",
                                         eligibility_state |-> "ELIGIBLE",
                                         assignment_state |-> "ASSIGNED"]]
               permitted == Listed(task.scope[o])
    <3>1. a \in Candidates(task) <=>
            /\ CheckAssignment(task.snap, a, permitted) = {}
            /\ ~ (task.snap.orders[o].weight > task.snap.wagons[a.wagon].capacity)
      BY <2>1, GateIsValidator
    <3>2. /\ DOMAIN placed = {o} /\ placed[o].input_state = "VALID"
          /\ placed[o].eligibility_state = "ELIGIBLE"
          /\ placed[o].assignment_state = "ASSIGNED"
      OBVIOUS
    <3>3. ValidatePlan(task.snap, {a}, placed, permitted) = {} <=>
            /\ CheckAssignment(task.snap, a, permitted) = {}
            /\ ~ (task.snap.orders[o].weight > task.snap.wagons[a.wagon].capacity)
      <4> HIDE DEF placed, permitted
      <4> QED BY <2>1, <3>2, AlonePasses
    <3>4. a \in Candidates(task) <=> ValidatePlan(task.snap, {a}, placed, permitted) = {}
      BY <3>1, <3>3
    <3>5. (a \in Candidates(task)) = (ValidatePlan(task.snap, {a}, placed, permitted) = {})
      <4> HIDE DEF a, placed, permitted
      <4> QED BY <3>4
    <3> QED BY <3>5 DEF Placement
  <2> QED BY <2>2 DEF GateAgreesWithValidator
<1> QED BY <1>1, Inductive, PTL

\* Whatever stage a solve stopped at and whichever solutions the values were
\* read from, the objectives in a report are those of the plan beside them.
THEOREM ObjectivesAreThePlans == Spec => []ObjectivesDescribePlan
<1>1. IInv => ObjectivesDescribePlan
  BY DEF IInv, Reported, Unreported, ObjectivesDescribePlan
<1> QED BY <1>1, Inductive, PTL

\* An added service carries nobody but the order searched for
\* (derive_snapshot, search_alternative).
THEOREM OthersStay == Spec => []OthersStayOnBaseline
<1>1. IInv => OthersStayOnBaseline
  <2> SUFFICES ASSUME IInv, run.answer = "AVAILABLE", NEW a \in report.plan,
                      a.order # task.search.order
               PROVE  a.service \in Listed(task.search.baseline)
    BY DEF OthersStayOnBaseline
  <2>1. /\ task.search.opening = "SOLVE" /\ report.status \in {"OPTIMAL", "FEASIBLE"}
        /\ task \in Tasks
    BY DEF IInv, Concluded, TypeOK
  <2>2. report.plan \in HardPlans(task)
    BY <2>1 DEF IInv, Reported, Unreported, Admitted
  <2>3. a \in Candidates(task) /\ RequestTask(task)
    BY <2>1, <2>2, TaskIsRequest, PlansFinite
  <2>4. /\ a.order \in DOMAIN task.snap.orders /\ a.slot \in DOMAIN task.snap.slots
        /\ a = Placement(task.snap, a.order, a.slot)
    BY <2>3, CandidatesArePlacements
  <2>5. a.service \in Listed(task.scope[a.order])
    BY <2>3, <2>4, Offered, PlacementFields
  <2>6. a.order \in DOMAIN task.scope
    BY <2>3, <2>4 DEF RequestTask
  <2> QED BY <2>1, <2>5, <2>6, TaskIsRequest
<1> QED BY <1>1, Inductive, PTL

\* Two plans that no other beats cost the same at every stage and are one.
LEMMA BestPlansAreOne ==
  ASSUME NEW t \in Tasks, NEW plan, NEW other, LexOptimal(t, plan), LexOptimal(t, other)
  PROVE  plan = other
<1>1. RequestTask(t) /\ plan \in HardPlans(t) /\ other \in HardPlans(t)
  BY TaskIsRequest DEF LexOptimal, Admitted
<1>2. SUFFICES ASSUME plan # other PROVE FALSE
  OBVIOUS
<1>3. PICK k \in 1 .. Stages(t) :
        /\ Cost(t, k, plan) # Cost(t, k, other)
        /\ \A j \in 1 .. k - 1 : Cost(t, j, plan) = Cost(t, j, other)
  BY <1>1, <1>2, FirstDifference
<1>4. Cost(t, k, plan) <= Cost(t, k, other) /\ Cost(t, k, other) <= Cost(t, k, plan)
  BY <1>3 DEF LexOptimal
<1>5. Cost(t, k, plan) \in Int /\ Cost(t, k, other) \in Int
  BY <1>1, StagesAreNatural, CostsAreIntegers
<1> QED BY <1>3, <1>4, <1>5

\* The same input has one optimal plan, so it has one result hash, whatever
\* order the solver searched in (the canonical tie-break of solve_baseline).
THEOREM OneOptimalPlan == Spec => []OptimalPlanIsUnique
<1>1. IInv => OptimalPlanIsUnique
  <2> SUFFICES ASSUME IInv, report.status = "OPTIMAL",
                      NEW plan \in Admitted[task], LexOptimal(task, plan)
               PROVE  plan = report.plan
    BY DEF OptimalPlanIsUnique
  <2>1. task \in Tasks /\ LexOptimal(task, report.plan)
    BY DEF IInv, TypeOK, Reported, Unreported
  <2> QED BY <2>1, BestPlansAreOne
<1> QED BY <1>1, Inductive, PTL

\* An optimal report says CAPACITY_CONFLICT only of orders that no slot could
\* still take: one that could would have made a plan with one order more.
THEOREM UnplacedHaveNoRoom == Spec => []UnplacedMeansFull
<1>1. IInv => UnplacedMeansFull
  <2> SUFFICES ASSUME IInv, report.status = "OPTIMAL", NEW o \in DOMAIN report.outcomes,
                      report.outcomes[o].primary = "CAPACITY_CONFLICT", RoomFor(report.plan, o)
               PROVE  FALSE
    BY DEF UnplacedMeansFull
  <2>1. /\ task \in Tasks /\ LexOptimal(task, report.plan)
        /\ report.outcomes = BuildOutcomes(task, report.plan)
    BY DEF IInv, TypeOK, Reported, Unreported
  <2>2. RequestTask(task) /\ report.plan \in HardPlans(task)
    BY <2>1, TaskIsRequest DEF LexOptimal, Admitted
  <2>3. PICK a \in Candidates(task) :
          /\ a.order = o
          /\ Copies(task, a) = 1
          /\ \A b \in report.plan : b.slot # a.slot
          /\ LoadedOn(task.snap, report.plan \cup {a}, a.wagon)
               <= task.snap.wagons[a.wagon].capacity
    BY DEF RoomFor
  <2>4. \A b \in report.plan : b.order # o
    <3>1. report.plan \subseteq Candidates(task)
      BY <2>2, PlansFinite
    <3>2. o \in DOMAIN task.snap.orders
      BY <2>2, <2>3, CandidatesArePlacements
    <3>3. (\E b \in report.plan : b.order = o) =>
            BuildOutcomes(task, report.plan)[o].primary = "ASSIGNED"
      BY <2>2, <3>1, <3>2, OutcomesOf
    <3> QED BY <2>1, <3>3
  <2>5. report.plan \cup {a} \in HardPlans(task)
    BY <2>2, <2>3, <2>4, OneMoreFits
  <2>6. Cost(task, 1, report.plan \cup {a}) < Cost(task, 1, report.plan)
    BY <2>2, <2>3, OneMoreCostsLess
  <2>7. /\ Cost(task, 1, report.plan) \in Int
        /\ Cost(task, 1, report.plan \cup {a}) \in Int
    BY <2>2, <2>5, CostsAreIntegers
  <2>8. Cost(task, 1, report.plan) <= Cost(task, 1, report.plan \cup {a})
    <3>1. report.plan \cup {a} \in Admitted[task]
      BY <2>1, <2>5 DEF Admitted
    <3>2. 1 \in 1 .. Stages(task) /\ \A j \in 1 .. 1 - 1 : FALSE
      BY <2>2, StagesAreNatural
    <3>3. Cost(task, 1, report.plan \cup {a}) # Cost(task, 1, report.plan)
      BY <2>6, <2>7
    <3> QED BY <2>1, <3>1, <3>2, <3>3 DEF LexOptimal
  <2> QED BY <2>6, <2>7, <2>8
<1> QED BY <1>1, Inductive, PTL

-----------------------------------------------------------------------------
(* Reasons *)

\* The largest weight or dimension of any order.
Needed(snap) ==
  {snap.orders[o].weight : o \in DOMAIN snap.orders} \cup
  {snap.orders[o].dims[axis] : o \in DOMAIN snap.orders, axis \in {"height", "width", "length"}}

LEMMA LargestCovers ==
  ASSUME NEW snap, StoredSnapshot(snap), NEW o \in DOMAIN snap.orders
  PROVE  LET order == snap.orders[o]
         IN  /\ order.weight <= Max(Needed(snap))
             /\ order.dims.height <= Max(Needed(snap))
             /\ order.dims.width <= Max(Needed(snap))
             /\ order.dims.length <= Max(Needed(snap))
             /\ Max(Needed(snap)) \in Int
             /\ order.weight \in Int /\ order.dims.height \in Int
             /\ order.dims.width \in Int /\ order.dims.length \in Int
<1> DEFINE Orders == DOMAIN snap.orders
           Axes == {"height", "width", "length"}
           weight == [p \in Orders |-> snap.orders[p].weight]
           size == [pair \in Orders \X Axes |-> snap.orders[pair[1]].dims[pair[2]]]
           weights == {snap.orders[p].weight : p \in Orders}
           sizes == {snap.orders[p].dims[axis] : p \in Orders, axis \in Axes}
<1>1. ASSUME NEW p \in Orders
      PROVE  /\ snap.orders[p].weight \in Nat
             /\ snap.orders[p].dims.height \in Nat
             /\ snap.orders[p].dims.width \in Nat
             /\ snap.orders[p].dims.length \in Nat
             /\ \A axis \in Axes : snap.orders[p].dims[axis] \in Nat
  BY OrderFields DEF Dimensions
<1>2. weights \cup sizes \subseteq Int
  BY <1>1
<1>3. IsFiniteSet(weights)
  <2>1. weight \in Surjection(Orders, weights)
    BY DEF Surjection
  <2>2. IsFiniteSet(Orders)
    BY DEF StoredSnapshot
  <2> HIDE DEF Orders, weight, weights
  <2> QED BY <2>1, <2>2, FS_Surjection
<1>4. IsFiniteSet(sizes)
  <2>1. IsFiniteSet(Axes)
    <3>1. Axes = ({"height"} \cup {"width"}) \cup {"length"}
      OBVIOUS
    <3>2. IsFiniteSet({"height"}) /\ IsFiniteSet({"width"}) /\ IsFiniteSet({"length"})
      BY FS_Singleton, Zenon
    <3> HIDE DEF Axes
    <3> QED BY <3>1, <3>2, FS_Union
  <2>2. IsFiniteSet(Orders)
    BY DEF StoredSnapshot
  <2>3. size \in Surjection(Orders \X Axes, sizes)
    <3> HIDE DEF Orders, Axes
    <3>1. ASSUME NEW n \in sizes
          PROVE  \E pair \in Orders \X Axes : size[pair] = n
      <4>1. PICK p \in Orders, axis \in Axes : n = snap.orders[p].dims[axis]
        OBVIOUS
      <4>2. <<p, axis>> \in Orders \X Axes /\ size[<<p, axis>>] = n
        BY <4>1
      <4> QED BY <4>2
    <3>2. size \in [(Orders \X Axes) -> sizes]
      OBVIOUS
    <3> HIDE DEF size, sizes
    <3> QED BY <3>1, <3>2 DEF Surjection
  <2> HIDE DEF Orders, Axes, size, sizes
  <2>4. IsFiniteSet(Orders \X Axes)
    BY <2>1, <2>2, FS_Product
  <2> QED BY <2>3, <2>4, FS_Surjection
<1>5. Needed(snap) = weights \cup sizes
  BY DEF Needed
<1>6. snap.orders[o].weight \in weights
  OBVIOUS
<1>7. /\ snap.orders[o].dims.height \in sizes
      /\ snap.orders[o].dims.width \in sizes
      /\ snap.orders[o].dims.length \in sizes
  OBVIOUS
<1>8. Max(Needed(snap)) \in Int /\ \A n \in Needed(snap) : n <= Max(Needed(snap))
  <2> HIDE DEF weights, sizes
  <2>1. IsFiniteSet(Needed(snap)) /\ Needed(snap) \subseteq Int /\ Needed(snap) # {}
    BY <1>2, <1>3, <1>4, <1>5, <1>6, FS_Union
  <2>2. \E n \in Needed(snap) : \A m \in Needed(snap) : m <= n
    BY <2>1, MaximumExists
  <2>3. \E n \in Needed(snap) : \A m \in Needed(snap) : n >= m
    BY <2>1, <2>2
  <2>4. Max(Needed(snap)) \in Needed(snap) /\ \A m \in Needed(snap) : Max(Needed(snap)) >= m
    BY <2>3 DEF Max
  <2> QED BY <2>1, <2>4
<1> HIDE DEF weights, sizes
<1> QED BY <1>1, <1>5, <1>6, <1>7, <1>8

LEMMA PerfectFields ==
  ASSUME NEW snap, StoredSnapshot(snap)
  PROVE  LET perfect == PerfectSlots(snap)
         IN  /\ perfect.orders = snap.orders /\ perfect.services = snap.services
             /\ perfect.terminals = snap.terminals /\ perfect.routes = snap.routes
             /\ DOMAIN perfect.slots = DOMAIN snap.slots
             /\ \A w \in DOMAIN snap.wagons :
                  /\ perfect.wagons[w].service = snap.wagons[w].service
                  /\ perfect.wagons[w].available
                  /\ perfect.wagons[w].capacity = Max(Needed(snap))
             /\ \A l \in DOMAIN snap.slots :
                  /\ perfect.slots[l].wagon = snap.slots[l].wagon
                  /\ perfect.slots[l].available
                  /\ \A o \in DOMAIN snap.orders : snap.orders[o].tags \subseteq perfect.slots[l].tags
                  /\ perfect.slots[l].dims.height = Max(Needed(snap))
                  /\ perfect.slots[l].dims.width = Max(Needed(snap))
                  /\ perfect.slots[l].dims.length = Max(Needed(snap))
                  /\ perfect.slots[l].weight = Max(Needed(snap))
<1> DEFINE largest == Max(Needed(snap))
           tags == UNION {snap.orders[o]["tags"] : o \in DOMAIN snap.orders}
           wagons == [w \in DOMAIN snap.wagons |->
                        [snap.wagons[w] EXCEPT !.available = TRUE, !.capacity = largest]]
           slots == [l \in DOMAIN snap.slots |->
                       [wagon |-> snap.slots[l].wagon, available |-> TRUE, tags |-> tags,
                        dims |-> [axis \in {"height", "width", "length"} |-> largest],
                        weight |-> largest]]
<1>1. PerfectSlots(snap) = [snap EXCEPT !.wagons = wagons, !.slots = slots]
  BY DEF PerfectSlots, Needed
<1> HIDE DEF largest
<1>2. ASSUME NEW w \in DOMAIN snap.wagons
      PROVE  /\ wagons[w].service = snap.wagons[w].service
             /\ wagons[w].available /\ wagons[w].capacity = largest
  <2>1. snap.wagons[w] \in Wagon(snap)
    BY DEF StoredSnapshot
  <2> QED BY <2>1 DEF Wagon
<1>3. \A o \in DOMAIN snap.orders : snap.orders[o].tags \subseteq tags
  OBVIOUS
<1> HIDE DEF tags
<1>4. \A l \in DOMAIN snap.slots :
        /\ slots[l].wagon = snap.slots[l].wagon /\ slots[l].available
        /\ slots[l].tags = tags /\ slots[l].weight = largest
        /\ slots[l].dims.height = largest /\ slots[l].dims.width = largest
        /\ slots[l].dims.length = largest
  OBVIOUS
<1>5. DOMAIN slots = DOMAIN snap.slots
  OBVIOUS
<1> HIDE DEF wagons, slots
<1>6. LET perfect == PerfectSlots(snap)
      IN  /\ perfect.orders = snap.orders /\ perfect.services = snap.services
          /\ perfect.terminals = snap.terminals /\ perfect.routes = snap.routes
          /\ perfect.wagons = wagons /\ perfect.slots = slots
  BY <1>1 DEF StoredSnapshot
<1> QED BY <1>2, <1>3, <1>4, <1>5, <1>6 DEF largest

\* With perfect slots, no slot has anything to say.
LEMMA PerfectSlotsPass ==
  ASSUME NEW snap, StoredSnapshot(snap),
         NEW o \in DOMAIN snap.orders, NEW l \in DOMAIN snap.slots
  PROVE  SlotCodes(PerfectSlots(snap), o, l) = {}
<1> DEFINE perfect == PerfectSlots(snap)
           order == perfect.orders[o]
           slot  == perfect.slots[l]
           wagon == perfect.wagons[slot.wagon]
<1>1. snap.slots[l].wagon \in DOMAIN snap.wagons
  BY SlotFields
<1>2. /\ order = snap.orders[o] /\ wagon.available /\ slot.available
      /\ wagon.capacity = Max(Needed(snap)) /\ slot.weight = Max(Needed(snap))
      /\ slot.dims.height = Max(Needed(snap)) /\ slot.dims.width = Max(Needed(snap))
      /\ slot.dims.length = Max(Needed(snap)) /\ order.tags \subseteq slot.tags
  BY <1>1, PerfectFields
<1>3. /\ order.weight <= Max(Needed(snap)) /\ order.dims.height <= Max(Needed(snap))
      /\ order.dims.width <= Max(Needed(snap)) /\ order.dims.length <= Max(Needed(snap))
      /\ Max(Needed(snap)) \in Int /\ order.weight \in Int /\ order.dims.height \in Int
      /\ order.dims.width \in Int /\ order.dims.length \in Int
  <2>1. order = snap.orders[o]
    BY <1>2
  <2> HIDE DEF order
  <2> QED BY <2>1, LargestCovers
<1>4. SlotCodes(perfect, o, l) = CheckSlot(order, wagon, slot)
  BY DEF SlotCodes
<1> HIDE DEF order, slot, wagon
<1>5. CheckSlot(order, wagon, slot) = {}
  BY <1>2, <1>3, SlotPasses
<1> QED BY <1>4, <1>5

ViolationsOf(snap, o, services) ==
  UNION {ServiceVerdict(snap, o, s) : s \in Listed(services)}

LEMMA VerdictWithoutCandidates ==
  ASSUME NEW snap, NEW o, NEW services,
         ValidateInput(snap.orders[o]) = {}, CandidatesOf(snap, o, services) = {}
  PROVE  EvaluateOrder(snap, o, services).primary =
           SelectPrimary(IF ViolationsOf(snap, o, services) = {} THEN {"NO_ELIGIBLE_SLOT"}
                         ELSE ViolationsOf(snap, o, services))
BY DEF EvaluateOrder, ViolationsOf

\* A slot's code never outranks the reason that rules out the whole service:
\* an order that perfect slots would not help has the reason it would have
\* with them (the stop before the slots in _evaluate_order).
THEOREM ServiceReasonsComeFirst == Spec => []SlotsNeverMaskService
<1>1. IInv => SlotsNeverMaskService
  <2> DEFINE snap == task.snap
             perfect == PerfectSlots(snap)
  <2> SUFFICES ASSUME IInv, NEW o \in DOMAIN task.scope,
                      EvaluateOrder(perfect, o, task.scope[o]).eligibility_state = "INELIGIBLE"
               PROVE  EvaluateOrder(snap, o, task.scope[o]).primary =
                        EvaluateOrder(perfect, o, task.scope[o]).primary
    BY DEF SlotsNeverMaskService
  <2> DEFINE services == task.scope[o]
  <2>1. RequestTask(task) /\ StoredSnapshot(snap)
    BY TaskIsRequest DEF IInv, TypeOK, RequestTask
  <2>2. o \in DOMAIN snap.orders
    BY <2>1 DEF RequestTask
  <2>3. ValidateInput(perfect.orders[o]) = {} /\ CandidatesOf(perfect, o, services) = {}
    BY EvaluationStates
  <2>4. /\ perfect.orders = snap.orders /\ perfect.services = snap.services
        /\ perfect.terminals = snap.terminals /\ perfect.routes = snap.routes
        /\ DOMAIN perfect.slots = DOMAIN snap.slots
        /\ \A w \in DOMAIN snap.wagons : perfect.wagons[w].service = snap.wagons[w].service
        /\ \A l \in DOMAIN snap.slots : perfect.slots[l].wagon = snap.slots[l].wagon
    BY <2>1, PerfectFields
  <2>5. \A l \in DOMAIN snap.slots : snap.slots[l].wagon \in DOMAIN snap.wagons
    BY <2>1, SlotFields
  <2>6. \A l \in DOMAIN snap.slots : SlotCodes(perfect, o, l) = {}
    BY <2>1, <2>2, PerfectSlotsPass
  <2> HIDE DEF snap, perfect, services
  <2>7. \A s : CheckService(perfect, perfect.orders[o], perfect.services[s]) =
                  CheckService(snap, snap.orders[o], snap.services[s])
    BY <2>4 DEF CheckService
  <2>8. \A s : SlotsOf(perfect, s) = SlotsOf(snap, s)
    BY <2>4, <2>5 DEF SlotsOf
  <2>9. ASSUME NEW s \in Listed(services),
               CheckService(snap, snap.orders[o], snap.services[s]) = {}
        PROVE  SlotsOf(snap, s) = {}
    <3>1. SUFFICES ASSUME NEW l \in SlotsOf(snap, s) PROVE FALSE
      OBVIOUS
    <3>2. s \in OpenServices(perfect, o, services)
      BY <2>7, <2>9 DEF OpenServices
    <3>3. l \in OpenSlots(perfect, o, s)
      BY <2>6, <2>8 DEF OpenSlots, SlotsOf
    <3> DEFINE a == [order |-> o, service |-> s, wagon |-> perfect.slots[l].wagon, slot |-> l]
    <3>4. a \in CandidatesOf(perfect, o, services)
      BY <2>3, <3>2, <3>3 DEF CandidatesOf
    <3> QED BY <2>3, <3>4
  <2>10. ValidateInput(snap.orders[o]) = {} /\ CandidatesOf(snap, o, services) = {}
    BY <2>3, <2>4, <2>9 DEF CandidatesOf, OpenServices, OpenSlots
  <2>11. \A s \in Listed(services) : ServiceVerdict(perfect, o, s) = ServiceVerdict(snap, o, s)
    BY <2>7, <2>8, <2>9 DEF ServiceVerdict
  <2>12. ViolationsOf(perfect, o, services) = ViolationsOf(snap, o, services)
    BY <2>11 DEF ViolationsOf
  <2>13. EvaluateOrder(snap, o, services).primary = EvaluateOrder(perfect, o, services).primary
    BY <2>3, <2>10, <2>12, VerdictWithoutCandidates
  <2> QED BY <2>13 DEF services
<1> QED BY <1>1, Inductive, PTL

-----------------------------------------------------------------------------
(* StagedSolve implements SolveSpec. *)

LEMMA AdmittedAreAllowed ==
  ASSUME NEW t \in Tasks
  PROVE  Admitted[t] = HardPlans(t)
BY DEF Admitted

LEMMA InitRefines == Init => Promise!Init
BY DEF Init, Promise!Init, Promise!NoReport, Verdict, Unreported

\* A step that reports a plan the promise allows is a step of the promise.
LEMMA ReportRefines ==
  ASSUME IInv, report = Unreported, task' = task,
         NEW status \in {"OPTIMAL", "FEASIBLE"}, NEW plan \in Admitted[task],
         NEW objectives,
         report' = SolveResult(status, plan, objectives),
         status = "OPTIMAL" => LexOptimal(task, plan)
  PROVE  Promise!Solve
<1>1. Verdict = Promise!NoReport
  BY DEF Verdict, Unreported, Promise!NoReport
<1>2. Verdict' = [status |-> status, plan |-> plan, outcomes |-> BuildOutcomes(task, plan)]
  BY DEF Verdict, SolveResult
<1>3. plan \in HardPlans(task)
  BY AdmittedAreAllowed DEF IInv, TypeOK
<1> QED BY <1>1, <1>2, <1>3 DEF Promise!Solve, Promise!Answer, Promise!Reported

LEMMA StepRefines ==
  ASSUME IInv, [Next]_vars
  PROVE  [Promise!Solve]_<<task, Verdict>>
<1>1. CASE NothingToPlace \/ StopEarly \/ AllStagesClosed
  BY <1>1, ReportsHonestly, ReportRefines
<1>2. ASSUME NEW proved \in BOOLEAN, CloseStage(proved)
      PROVE  [Promise!Solve]_<<task, Verdict>>
  BY <1>2 DEF CloseStage, Verdict
<1>3. CASE FirstStageUnproved
  <2>1. Verdict = Promise!NoReport
    BY <1>3 DEF FirstStageUnproved, Solving, Verdict, Unreported, Promise!NoReport
  <2>2. Verdict' = Promise!Errored /\ task' = task
    BY <1>3 DEF FirstStageUnproved, Verdict, Promise!Errored
  <2> QED BY <2>1, <2>2 DEF Promise!Solve, Promise!Answer
<1>4. CASE PublishRun
  BY <1>4 DEF PublishRun, Verdict
<1>5. CASE AnswerUnsolved
  BY <1>5 DEF AnswerUnsolved, Verdict
<1>6. CASE ConcludeSearch
  BY <1>6 DEF ConcludeSearch, Verdict
<1>7. CASE UNCHANGED vars
  BY <1>7 DEF vars, Verdict
<1> QED BY <1>1, <1>2, <1>3, <1>4, <1>5, <1>6, <1>7 DEF Next

\* Every behaviour of the staged solve, seen through its verdict, is one the
\* promise allows: an OPTIMAL report is the best plan, a FEASIBLE one breaks
\* no constraint, and an ERROR says nothing of any order.
THEOREM SolveKeepsPromise == Spec => KeepsPromise
<1>1. Init => Promise!Init
  BY InitRefines
<1>2. IInv /\ [Next]_vars => [Promise!Solve]_<<task, Verdict>>
  BY StepRefines
<1> QED BY <1>1, <1>2, Inductive, PTL DEF Spec, KeepsPromise, Promise!Spec
=============================================================================
