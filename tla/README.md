# Formal models of PIGGYON's planning service

PIGGYON plans container orders onto rail wagon slots. A FastAPI process keeps
scenarios, runs and decisions in Supabase (PostgREST over Postgres) or in its
own memory, decides which slots an order may use, lets CP-SAT choose a plan,
validates the plan independently, searches pre-approved alternatives for single
orders, and has a language model explain the results and read request
documents. The modules here model the planning core, the service around it over
either store, the numbering of its rows and the generative layer. TLC checks
them on small instances; TLAPS proves every safety property they check, each under
the conditions named below, for every input: the staged solve, the service over
either store, the numbering and the generated texts.

## 1. The system

| Component | State it keeps | Operations | Talks to |
|---|---|---|---|
| Snapshot contract `app/models/snapshot.py` | none (immutable input document) | parse, cross-reference checks | everything reads it |
| Eligibility gate `app/rules/` | none | `evaluate_scenario`, primary reason code | solver, validation, alternatives |
| Staged solver `app/solver/baseline.py`, `app/services/planning.py` | one model, one time budget, the pins and the best plan of one call | `solve_baseline`, `run_baseline` | CP-SAT |
| Plan validator `app/validation/plan_validator.py` | none | `validate_plan` | called on every plan before it is stored |
| Alternative search `app/services/alternatives.py` | none | `build_change_set`, `derive_snapshot`, `search_alternative`, `apply_to_baseline` | gate, solver, validator |
| Scenario endpoints `app/routers/scenarios.py` | none of their own | create, validate, run, delete, list, read | store, planning |
| Run endpoints `app/routers/runs.py` | none of their own | alternative, decision, export, read | store, alternatives |
| Explanation and AI endpoints `app/routers/ai.py` | a cached explanation per run | explanation, question, intake of one order or a batch | store, model client, `app/ai/` |
| Cards and guard `app/ai/explain.py` | none | `build_cards`, `rejection_reason_for_text` | model client |
| Suggestions `app/ai/suggest.py` | none | `build_suggestions`, `permitted_adjustments` | model client, guard |
| Answers `app/ai/answer.py` | none | `answer_question` | model client, guard |
| Intake `app/ai/intake.py` | none | `structure_request`, `structure_requests` | model client |
| Model client `app/ai/client.py` | none | `complete_json`: a call held to a schema, one retry without | the vendor's API |
| Store `app/storage.py` | tables scenarios, runs, decisions, trace; in the process: three sequence counters, one lock | one PostgREST statement per call; `update_order_outcome` under the lock | Postgres |
| Memory store `app/storage.py` | dictionaries of the documents themselves, counters, a lock | the same | used when Supabase is not configured or unreachable at start-up |

Handlers are plain functions, so FastAPI runs each in a thread: several are in
flight at once and interleave between any two store calls. (`create_scenario`
is the one coroutine; it awaits nothing that suspends.) Postgres makes each
statement atomic and enforces two foreign keys: a run needs its scenario, a
decision needs its run. No transaction spans two statements.

### What is hard

* **Interleaving.** Read-modify-write of whole JSON documents
  (`update_scenario_state`, `save_run` after a search), checks that are stale
  when acted on (children before a deletion, a run's status before a decision,
  a scenario's state before a validation).
* **Crashes and failing statements.** An alternative needs up to eight
  statements, a deletion five; the sequence counters live in memory and are
  resumed from the tables.
* **Lock.** Numbering and outcome updates share one lock held across database
  calls.
* **Staged optimisation under a time budget.** Up to 3 + n CP-SAT calls, each
  of which may prove optimality, only find a plan, or find nothing; each pins
  its value on the same model.
* **Shared documents.** The in-memory store returns the stored document, so
  what a handler edits is visible before it saves, and what was deleted lives
  on in the handlers that hold it.
* **Numbers resumed from text.** After a restart the last number is read off
  one page of ids ordered as text, in a table that holds two kinds of id.
* **Replies of a model.** Nothing a model says may be trusted: not its shape
  (the retry has no schema), its ids, its claims, or its choice of change.
* **Two statements of the same rule.** Gate and validator must agree at every
  boundary, and the derived snapshot of an alternative has a different scope
  for solving and for validating.

### What makes each component correct

* Gate: offers exactly the slots on which the independent validator would
  accept the order.
* Solver: an OPTIMAL report is the one best plan, a FEASIBLE one breaks no
  hard constraint, an ERROR carries no verdict; named objective values belong
  to the plan beside them; pins never make the model infeasible.
* Validator: a stored plan always passes.
* Alternative search: an added service is open to the requesting order only;
  NONE is said only after a search.
* Service: an acceptance stands on an optimal run; run and scenario rows are
  never given to another; links lead to what they name; a deletion leaves
  nothing behind and takes no scenario's parent; states do not go backwards;
  explanations match outcomes; the lock is always released.
* Memory store: sharing a document loses nobody's alternative; once requests
  are done, links lead to what they name and deletions leave nothing.
* Numbering: a number in hand belongs to nobody else.
* Generative layer: no sentence served names what the run does not contain or
  speaks of another order; labels, badges and sources tell the truth; a
  suggestion can be acted on; a draft called VALID is complete; a failing model
  costs no request.

## 2. Modules

| Module | Models | Kind |
|---|---|---|
| `Eligibility` | `rules/eligibility.py`, `rules/reason_codes.py` | operators over a snapshot |
| `PlanValidator` | `validation/plan_validator.py` | operators over snapshot and plan |
| `PlanModel` | candidates, constraints, objective stages, outcomes of `solver/baseline.py` | operators over a task |
| `Alternatives` | `services/alternatives.py` up to the solve, and the deltas | operators |
| `SolveSpec` | what a solve promises, in one step | abstract specification |
| `StagedSolve` | `solve_baseline` stage by stage, `run_baseline`, the outcome of `search_alternative` | state machine |
| `SetLemmas` | facts about finite sets, sums and functions | proofs |
| `PlanProofs` | facts about the operators of gate, validator, plans and searches | proofs |
| `StagedSolveProofs` | theorems about `StagedSolve` | proofs |
| `ScenarioService` | handlers of `routers/` over `SupabaseStore`, one action per store call | state machine |
| `ScenarioServiceProofs` | its types; what its tables keep while nothing is deleted | proofs |
| `LinkProofs` | its links, its outcomes under the lock, and all that needs one client | proofs |
| `Numbering` | `_highest_sequence` and the counters of `SupabaseStore` | state machine |
| `NumberingProofs` | theorems about `Numbering` | proofs |
| `MemoryService` | the same handlers over `MemoryStore` | state machine |
| `MemoryServiceProofs` | theorems about `MemoryService` | proofs |
| `TextGuard` | the guard of `ai/explain.py` | operators over a text |
| `Explanations` | `ai/explain.py`, `ai/suggest.py`, `ai/answer.py` as functions of run and reply | operators |
| `Intake` | `ai/intake.py` as functions of reply or document | operators |
| `GenerativeLayer` | `routers/ai.py` over `ai/client.py` | state machine |
| `GenerativeLayerProofs` | theorems about `GenerativeLayer` | proofs |
| `MCStagedSolve`, `MCScenarioService`, `MCNumbering`, `MCMemoryService`, `MCGenerativeLayer` | small instances | model checking |

`StagedSolve` extends `Alternatives`, which extends `PlanModel`,
`PlanValidator` and `Eligibility`; it instantiates `SolveSpec` under the
refinement mapping `Verdict`. `ScenarioService` stands beside it: there a solve
is one action choosing among the verdicts that `StagedSolve` shows possible
(OPTIMAL, FEASIBLE, or ERROR; a stored run always has validator PASS), and a
number is the next of its table. `Numbering` is that next number in detail,
`MemoryService` the same handlers over the other store. `GenerativeLayer`
extends `Intake` and `Explanations`, which extends `TextGuard` and, for the
snapshot, the run and what the alternative endpoint does with a suggestion,
`Alternatives`. `StagedSolveProofs` and `GenerativeLayerProofs` both extend
`PlanProofs`, `LinkProofs` extends `ScenarioServiceProofs`, and all of these
extend `SetLemmas`.

### StagedSolve and the code

A *task* is the input of one `solve_baseline` call: the snapshot, each order's
list of services (`service_ids_by_order`), and what asked for it. Tasks are
made, as in the code, from stored snapshots (`Snapshots`, baseline runs) and
from search requests (`Searches`). The destinations a window approves are a
list, as the contract admits one named twice: a search counts them and refuses
that one as ambiguous, too. A plan is the set of candidates whose variable is 1.

| Variable | Code |
|---|---|
| `stage`, `pinned` | stages passed and the `model.Add(expr == value)` after each |
| `best` | `best`, the snapshot of the last usable solution |
| `optimal` | `stages_optimal` |
| `report` | the returned `SolveResult` |
| `run` | what the caller answers and stores |

`CloseStage(proved)` is one usable CP-SAT call, proved optimal or not;
`FirstStageUnproved` is `_errored`; `StopEarly` is a budget that is gone or a
later call that proves nothing; `AllStagesClosed` and `NothingToPlace` are the
normal returns; `PublishRun` is validation, storing and the 503;
`AnswerUnsolved` and `ConcludeSearch` are the ends of a search. The
`MODEL_INFEASIBLE` branches have no action: `ModelStaysFeasible` (checked and
proved) shows the model always has a plan. CP-SAT is external and returns any
plan its contract allows, so nothing depends on the solver's search order.

Identifiers of orders and slots are naturals in text order, because sorted ids
decide ties. Times and sizes are small integers around each limit. Evidence
texts, hashes and message wording are left out.

### ScenarioService and the code

`pc[w]` names the next store call of the handler worker `w` is running and
`mem[w]` holds the documents it has read. Each handler is one group of actions
(`CreateRequest` ... `DeleteRequest`). Calls are joined only where no other
action can tell them apart; each action's comment says which. `Restart` keeps
the tables and drops workers, counters and lock. `Fail(w)` is one statement
that raises: the handler ends there and leaves a lock it held (`with`).
`Tolerate(w)` is the exception: a failed read or clearing of the explanation
column is taken for a missing column and logged, and the handler goes on
(`storage.py:48-71`).

Abstractions: ids are `<<kind, number>>`; a snapshot is reduced to whether any
order has a candidate and which order a derivation changed; outcomes keep only
the alternative verdict and the link; a stored explanation is the outcomes it
describes. A scenario's parent is whatever its caller names (`Nameable`): the
code does not look it up. Requests for unknown ids (404, no effect) are left
out. A rejection is recorded like a hold.

### Numbering and the code

`table` holds the ids of the rows stored, `counter` the process's counters
(`Unread` is the `None` of `_run_seq` and its like), `held` the id a request took
and has not saved. `TakeFirst` is the first number of a kind in a process, with
the scan; `TakeAfterFailedScan` the `except` that returns 0; `TakeNext` an
increment; `Save` the upsert. `TextAbove` is the text order of ids, `Page` the
rows a query returns, `PageOf` the query that leaves the other kind out before
it takes its page. `misread` is history: the kinds whose last number came from a
failed scan, or from a scan of a table that no longer fits on the page and holds
numbers past the padding.

### MemoryService and the code

`scenario` and `run` are heaps of all documents the process made; `kept` and
`saved` the ids in the store's dictionaries. A handler holds ids, not copies, so
an assignment of `apply_to_baseline` (`AltState`, `AltLink`) changes the stored
document at once. Every other action is one store call under the lock. `deleted`
and `overlapped` are history.

### GenerativeLayer and the code

`pc[c]` is the model call that client `c`'s handler waits for, `call[c]` how far
that call is. `Retry` is the second `_call` of `complete_json`, `Return` its end,
with nothing, with a reply of the schema's shape, or, after the retry only, with
another. What a handler does between two calls is one action. A text is what the
guard's patterns read off it: the orders, entities and codes it names, whether it
is blank and whether it makes a forbidden claim. A raw value of a draft is its
JSON type and its parts. A deletion by another client may take scenario and run
away while a handler waits.

## 3. Runs

| Run | Question | Result |
|---|---|---|
| `solve` | do gate, validator, stages, report and search agree with each other and with `SolveSpec`? | holds |
| `lifecycle` | create, validate, run, accept with two threads, a crash and a failing statement | holds |
| `search` | two searches that find something on one run, with a crash and a failing statement | holds |
| `delete` | does every request end when a scenario is deleted under searches and a decision? | holds |
| `sequential` | one client, every endpoint, one request after another, with a failing statement anywhere | holds |
| `numbering` | is a number in hand free, past padding and page, over deletions, restarts and a failed scan? | holds |
| `memory` | two threads over shared documents, with a restart | holds |
| `generative` | every reply of the model to every AI endpoint | holds |
| `unproved_search` | a search whose solve runs out of time | `NoneWasSearched` violated |
| `lost_update` | a search that finds nothing beside one that finds something | `AlternativesKept` violated |
| `stale_explanation` | explanations read around a search that finds nothing | `ExplanationFresh` violated |
| `malformed_reply` | a reply of the retry without a schema | `NeverFails` violated |

The violated properties each quote a comment or test of the repository in
`PROJECT.json` under `findings`.

### Known limits of the properties

These properties hold under a condition the run or the property names. Each
fails without it, and TLC shows it, in seconds for most, with the change given.

| Change | What fails | Where it bites |
|---|---|---|
| `RoomFor` without `Copies(task, a) = 1` | `UnplacedMeansFull`: under a baseline that lists a service twice each variable stands twice in its sum, so no order is placed beside free slots | `solver/baseline.py:134` |
| `search` with two alternatives, a crash, a validation and a run as its quota | `LinkLeadsToDerivedRun`: after the crash the number of the scenario without a run is issued again, and a run of that scenario, still writing its state, puts the old snapshot back | `storage.py:448` |
| `sequential` with two alternatives and a crash in its quota | `SnapshotsImmutable`: a crash between a derived scenario and its run re-issues the number and the upsert replaces the scenario | `storage.py:451` |
| `SolvedHasRun` without `s[1] = "BASE"`, in `search` | a crash between a derived scenario and its run leaves it SOLVED without one | `routers/runs.py:152` |
| `delete` with `PROPERTY ChildrenKeepParents` | a scenario derived after the children check loses its parent | `routers/scenarios.py:185` |
| `ExplanationFresh` without `Smooth` | clearing the explanation fails, is logged as a missing column, and the search answers 200 | `storage.py:425` |
| `delete` with one create, validate, run, decide and delete as its quota, FEASIBLE among its results, and `INVARIANT AcceptedOnlyAcceptable` | an acceptance is stored for a number that was given to a FEASIBLE run meanwhile | `routers/runs.py:236` |
| two workers in `sequential` (a minute) | `StateNeverBackwards`: a validation writes READY_TO_SOLVE over SOLVED | `routers/scenarios.py:226` |
| two workers in `sequential` | `ExplanationFresh`: an explanation is saved after a search cleared it | `routers/ai.py:97` |
| `ScanMayFail = TRUE` in `lifecycle` | `RunsNeverOverwritten`: a failed scan counts as an empty table | `storage.py:527` |
| `HeldIsFree` without its condition on `misread` | beyond number 999 the page of ids in text order may miss the last number | `storage.py:526` |
| `Clients = {c1, c2}` in `generative` | `WrittenOnce`: two first reads each generate, and the second save replaces the first | `routers/ai.py:76` |
| `SuggestionActionable` without its condition on terminals | with two listed destinations, be they the same, the suggestion is refused as ambiguous (400) | `services/alternatives.py:94` |
| `NothingLeftBehind` without `overlapped` | a deletion beside a run or a search leaves records without a scenario | `storage.py:174` |

More facts follow from definitions and are not errors of any stated
promise. A caller may name the id that his scenario is about to get as its
parent: it is then its own child, and no request can delete it (409). Two
searches on one order over the in-memory store may leave the state of one with
the link of the other (`services/alternatives.py:303`).

### Bounds, and why they are enough

* `solve`, gate part (`GateSnaps`): one order that meets every limit of two services
  *exactly*, with every set of at most two of 21 departures by one unit, under
  one baseline service and under two. Every comparison in gate and validator is
  met on both sides of its boundary, and pairs exercise the precedence of
  service over slot codes (`SlotsNeverMaskService`).
* `solve`, contest part (`ContestSnaps`): three orders, slots 1 and 2 on a
  shared wagon, slot 3 on its own, varied weights, priorities and due times with
  and without ties, and a baseline that lists a service twice, which the
  contract lets through.
  Three orders are the least for which the canonical stages have a tie to
  break after the first was pinned.
* `solve`, search part (`SolveSearches`): every way a search begins (refused, ambiguous, nothing
  to change, solved) and ends (available, none), from an optimal run and from
  one that had placed nothing, with one order that may use the added service
  and two that could but may not. Windows list no destination, one, two, and one
  twice.
* Service runs: two workers (the races are between two requests), one or two
  orders, and a quota per kind of request, crash and failure
  (`MCScenarioService`). Counters are bounded by the quotas. Each property's
  mutant shows that the bound is large enough to break it.
* `search` and `sequential` fix the verdict to FOUND because the NONE path
  breaks `AlternativesKept` and `ExplanationFresh`: the violation runs show
  it. `sequential` has one worker, since its properties do not survive overlap,
  and no crash, which `SnapshotsImmutable` does not survive (see the table
  above); that the others do is proved.
* The parents a caller names (`AnyName`) are ids in use, deleted or not issued
  yet, the one the new scenario will get itself among them. Where no property
  looks at parents, callers name none.
* `numbering`: `PadLimit` 4, `Radix` 4 and `PageSize` 2 stand for 1000, 10 and
  200. Six baseline ids pass the padding and the page, two alternatives fill a
  page, so both kinds can crowd the other out; two restarts allow a second
  resumed counter, one failed scan a misread one.
* `memory`: two workers, two orders, up to two searches and two deletions, one
  of every other request and one restart. Workers and orders are
  interchangeable, and so taken up to symmetry.
* `generative`: one client, since requests meet only in the stored explanation
  (two clients are in the table above). Five runs cover a single change, a pair
  that must travel together, a destination without a train, both verdicts of a
  search and a run with nothing to suggest. Replies are every list of one entry
  and every pair from a few, an entry for each thing the guard and the sanitiser
  look at, and lists with entries that are no object, cannot be hashed or cannot
  be iterated.
  `MaxBatch` 2 stands for 20 and is exceeded by one.
* Deadlock checking is off where the system really stops: a solve that was
  answered, a service without further requests, numbers used up. `generative`
  checks it.

### Fairness

* `StagedSolve`: weak fairness of `Next`. Every CP-SAT call has
  `max_time_in_seconds` and nothing between two calls waits.
* `ScenarioService`: weak fairness of each worker's next call once its handler
  has begun, since every store call is a bounded HTTP request. No request is
  obliged to arrive and no crash or failure to happen. A worker waiting for
  the lock needs no strong fairness: requests are finite, so the lock is free
  for good in the end if its holders release it.

* `GenerativeLayer`: weak fairness of each client's handler. A model call ends:
  the client library has a timeout, and every exception it raises is caught
  (`ai/client.py:94`).
* `Numbering` and `MemoryService` state safety only.

## 4. Proofs

Every theorem below is proved for every value of the constants: any snapshots,
workers, orders, quotas, replies and bounds. Assumptions on constants are named
in the module that declares them. A condition on a theorem is the one its run
has too, and the table of known limits says what happens without it; TLC was
run on every strengthened invariant before its proof.

### The staged solve (`StagedSolveProofs`, `PlanProofs`)

`RequestsNameStored` assumes that requests name snapshots that passed the
contract (`StoredSnapshot`) and orders of them. Proved of `Spec`:

| Theorem | States |
|---|---|
| `TypeCorrect` | `[]TypeOK` |
| `NeverInfeasible` | `[]ModelStaysFeasible` |
| `StoredPlansPass` | `[]StoredRunsPass` |
| `GateIsTheValidator` | `[]GateAgreesWithValidator` |
| `ObjectivesAreThePlans` | `[]ObjectivesDescribePlan` |
| `OthersStay` | `[]OthersStayOnBaseline` |
| `OneOptimalPlan` | `[]OptimalPlanIsUnique` |
| `UnplacedHaveNoRoom` | `[]UnplacedMeansFull` |
| `ServiceReasonsComeFirst` | `[]SlotsNeverMaskService` |
| `SolveKeepsPromise` | `KeepsPromise`: the staged solve implements `SolveSpec` under `Verdict` |

None of them is inductive with `TypeOK` alone. `IInv` adds that the plan held is
one the hard constraints admit (`Held`), that the pins are the costs of that
plan (`PinsAreCostsOfBest`), that while every closed stage was proved no
admitted plan is cheaper at the first closed stage where it differs
(`SoFarOptimal`), that a report's outcomes and objectives are its plan's
(`Reported`), and that what the caller keeps was concluded from the report
(`Concluded`).

* *Feasibility*: the held plan satisfies every pin.
* *Optimality*: a plan that ties on all closed stages is still in the pool the
  next stage minimises over, so a proved stage extends the claim by one
  (`StageExtendsOptimum`), and after the last stage the claim is `LexOptimal`.
  A report then maps to the one step of `SolveSpec`, every other step to a
  stutter.
* *Uniqueness*: a candidate's rank is its place in the sorted list, so the cost
  of an order's canonical stage tells which candidate it has, and plans that
  cost the same at every stage are the same plan (`SameCostsSamePlan`). Two
  different plans therefore differ at a first stage (`FirstDifference`), where
  one of them is dearer.
* *Unplaced means full*: a plan with one more candidate that has a slot, room on
  the wagon and one copy in the model is admitted (`OneMoreFits`) and cheaper at
  the first stage (`OneMoreCostsLess`).
* *Gate and validator*: `Offered` says what the gate's candidates are;
  `AssignmentPasses` takes the validator's checks one by one; a plan the model
  admits is a matching within the wagons' capacity, and its outcomes are the
  ones the validator expects (`PlansPass`). `AlonePasses` is the converse for a
  single order.
* *Service reasons*: a perfect slot has no violation of its own
  (`PerfectSlotsPass`), so an order without candidates there has reasons of
  services only, and `VerdictWithoutCandidates` gives the same primary reason on
  the snapshot as it is.

The prover cannot apply an induction theorem to an operator, so `SetLemmas` gets
the facts about sums from the well-foundedness of inclusion between finite
sets: a smallest counterexample has a smaller one.

### The service over Supabase (`ScenarioServiceProofs`, `LinkProofs`)

| Theorem | States | Needs |
|---|---|---|
| `TypeCorrect` | `[]TypeOK` | nothing |
| `RunsStayThemselves` | `RunsNeverOverwritten` | `Undisturbed` |
| `AcceptancesStand` | `[]AcceptedOnlyAcceptable` | `Undisturbed` |
| `SolvedShowsRun` | `[]SolvedHasRun` | `Undisturbed` |
| `RunsWereValidated` | `[]StoredRunWasValidated` | `Undisturbed` |
| `LinksStand` | `[]LinkLeadsToDerivedRun` | `Uncontested` |
| `AlternativesStand` | `AlternativesKept` | `Undisturbed`, no search ends with NONE |
| `ParentsStay` | `ChildrenKeepParents` | `Sole` |
| `NothingOutlives` | `[]NothingOutlivesItsScenario` | `Sole` |
| `StatesAdvance` | `StateNeverBackwards` | `Sole`, no failed scan |
| `SnapshotsStay` | `SnapshotsImmutable` | `Sole`, no failed scan, no crash |
| `ExplanationsFresh` | `[]ExplanationFresh`, until a crash or a failure (`Smooth`) | `Sole`, no failed scan, no NONE |

* `TypeInv` says of each store call what its handler has read by then, so that a
  call finds its arguments in hand.
* `Undisturbed` is no deletion and no failed scan; any number of clients,
  crashes and failing statements. Then the tables only grow (`Grows`), so what a
  handler has read stays true until it writes (`ReadingHolds`), and a number in
  hand is taken by no run (`CountersLead`, `HeldRunsFree`; these need each
  other). With a deletion a number can be given to another run while a decision
  about the first is in flight.
* `Uncontested` is `Undisturbed` without crashes, or without baseline runs.
  `LinkInv` follows a derived scenario and run from the search that makes them
  to the link: nothing rewrites a derived row except with what it says already.
* `LockInv` says that a handler about to write outcomes holds the lock and the
  outcomes stored now. A NONE is written outside it, which `lost_update` shows.
* `Sole` is one client, whose requests follow each other; crashes and failures
  remain unless a row excludes them. `SoleInv` says that what the tables refer
  to is there (`References`) and that what the handler has read is so
  (`SoleReading`). `CreationNumbered` and `DerivationNumbered` add that the
  number of a new scenario is new; the second is lost when the process ends
  between a derived scenario and its run, since counters resume from runs.
  `Explained` says that a stored explanation is the run's outcomes, except for a
  handler that is about to clear it; a search that a crash or a failure cuts off
  before that call, or whose clearing fails, leaves a stale one, and nothing
  clears it later.

### Numbering (`NumberingProofs`)

`ConstantsAssumption`: numbers stay below `PadLimit * Radix`, one digit beyond
the padding. `CountersLead` (`[]CounterLeads`), `NumbersAreFree`
(`[]HeldIsFree`) and `TypesHold` (`[]TypeOK`) are proved for any pad limit,
radix, page size and number of requests, restarts and failures. The first two
need each other: a counter leads because every id in hand is fresh when it is
saved, and an id is fresh because the counter led. `IInv` adds that the table is
finite. The heart is `PageKeepsLargest`: while numbers are padded, or the rows
fit on the page, the page in text order holds the largest number.

### The in-memory store (`MemoryServiceProofs`)

Assumes only that the parents callers name are ids (`NamesAreIds`), whether of
a scenario that exists, is deleted or never was. `TypeCorrect` (`[]TypeOK`,
which includes that ids lead to documents and that the next number is new),
`NoAlternativeIsLost` (`AlternativesKept`), `LinksLead`
(`[]LinkLeadsToDerivedRun`) and `NothingStays` (`[]NothingLeftBehind`), for any
workers, orders and quotas.

* `IInv` adds `Holding`: what a handler holds at each point of its path is
  allocated, and stays so whatever the others do, because documents are dropped
  only with the process. `AlternativesKept` is then one case per action: only
  `AltState` and `AltLink` change an outcome, and only that of their own order.
* `CleanInv` is what holds until a deletion overlaps another request: a deletion
  works alone (`Alone`), what the dictionaries name is stored (`Rows`), what a
  handler holds is stored as far as its path has stored it (`Handles`), and a
  link leads to documents that are stored or that one handler is about to store
  (`Links`). At rest no handler is, so the links lead to stored documents.

### The generative layer (`GenerativeLayerProofs`)

Four assumptions describe the model's replies and the runs: lists are lists
(`RepliesAreLists`), texts the model returned are the model's
(`ModelWritesCards`), a reply that kept to its schema is not one of those that
raise (`SchemasExcludeBroken`), and a run's outcomes are the ones its plan
produces, or an alternative's (`RunsAreSolved`). For any documents, deletions
and number of clients:

| Theorem | States |
|---|---|
| `TypeCorrect` | `[]TypeOK` |
| `ServedGrounded` | `[]ServedIsGrounded` |
| `CardsAgree` | `[]CardsAgreeWithRun` |
| `SourceIsHonest` | `[]SourceTellsServed` |
| `SuggestionsOpen` | `[]SuggestionActionable` |
| `DraftsHonestly` | `[]DraftsAreHonest` |
| `FailuresAreOffSchema` | `FailsOnlyOffSchema` |
| `OnceWritten` | `WrittenOnce`, for one client |

`IInv` says that whatever is served, stored or held between the two model calls
is honest (`Honest`, `HonestCards`), and that a reply in hand is one the call in
flight may have returned (`Arrived`). Below it stand lemmas about the operators:
the entry taken for a card is a member of `Accepted` (`ExtremesAreMembers`), so
its text speaks of its order only (`AcceptedSpeaks`); a template speaks of
nothing but its own codes; a finished draft is VALID exactly when nothing is
missing (`FinishedDraftsHonest`).

### Checked by TLC only

Liveness: `EventuallyAnswered` and `EveryRequestEnds` rest on fairness, hence on
`ENABLED`, which the prover does not handle. The four violation runs are
counterexamples and have nothing to prove. What two clients can do to the
properties under `Sole` is not claimed at all: the table of known limits shows
that it fails.

## 5. Not modelled

* Text: evidence, reasons' wording, hashes, prompts, CSV and export formatting,
  OpenAPI, and what the regular expressions of the rule extractor match.
* The 100-row limit of the scenario list behind the children check
  (`routers/scenarios.py:187`).
* What a text is beyond what the guard's patterns read off it: where a word ends
  beside Hangul, an order id in another spelling (ORD-04), and the headline, cut
  to its length after the check (`ai/explain.py:159`, `ai/explain.py:294`).
* The six-call export (`routers/runs.py:258`) as an observer.
* The choice of the store at start-up, `main.py`, `config.py`, `errors.py`,
  `dependencies.py`, the request and response models, the web client.

## 6. Plan

1. Derived scenarios' life: re-validation, re-run and searches on them, where
   the added service is open to every order; deleting one while a link leads to
   it; the export as an observer.
2. An abstract store that both stores implement, and the handlers stated over it
   once.
3. Proofs: what remains true of two clients where a theorem asks for one (a
   state goes backwards only while a validation overlaps a run, a derived
   scenario loses its parent only to an overlapping deletion), the exclusion of
   the lock as a property of its own, and the refinement of the abstract store.
