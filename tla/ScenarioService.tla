--------------------------- MODULE ScenarioService ---------------------------
(***************************************************************************)
(* The API process (app/routers) over the Supabase store (app/storage.py). *)
(*                                                                         *)
(* FastAPI runs each handler in a thread, so several are in flight at      *)
(* once.  A worker is one such thread: pc says which call of its handler   *)
(* comes next and mem what the handler has read so far.  Every PostgREST   *)
(* statement is atomic and none spans two of them, so each store call is   *)
(* an action of its own; calls whose interleaving no other action can tell *)
(* apart are joined, and the comment of the action says which.             *)
(*                                                                         *)
(* The process may crash and start again: the tables survive, the workers, *)
(* the sequence counters and the lock do not.  A single statement may fail *)
(* too: it raises and the handler ends where it stands, except that a      *)
(* failed read or clearing of the explanation column is only logged.       *)
(*                                                                         *)
(* Abstractions.  An id is <<kind, number>>: "BASE" for SCN-nnn and        *)
(* RUN-nnn, "ALT" for SCN-ALT-nnn and RUN-ALT-nnn.  A snapshot is reduced  *)
(* to whether any order has a candidate and which order a derivation       *)
(* changed.  The solver and the alternative search are choices among the   *)
(* verdicts they can return.  Requests for unknown ids answer 404 and      *)
(* change nothing; they are left out.                                      *)
(***************************************************************************)
EXTENDS Integers, FiniteSets, Functions

CONSTANTS
  Nothing,        \* the null of a column or a document
  Workers,        \* request threads
  Orders,         \* orders of every snapshot
  Nameable,       \* what a caller may name as the parent of a scenario
  Quota,          \* how many requests of each kind arrive, how many crashes and failures
  Verdicts,       \* what an alternative search may conclude: "FOUND", "NONE"
  SolverResults,  \* what a baseline solve may return
  ScanMayFail,    \* the query that resumes a sequence may fail
  StartSolved     \* the database holds one solved scenario at start

Kinds == {"create", "validate", "run", "alternative", "decide", "explain", "delete",
          "crash", "failure"}

Nobody == "nobody"

Ids == {"BASE", "ALT"} \X Nat

ASSUME QuotaIsBounded == Quota \in [Kinds -> Nat]

ASSUME ConstantsAssumption ==
  /\ Nobody \notin Workers
  /\ Nameable \subseteq Ids
  /\ Verdicts \subseteq {"FOUND", "NONE"}
  /\ SolverResults \subseteq {"OPTIMAL", "FEASIBLE", "ERROR"}

VARIABLES
  scenarios,   \* table: id -> [state, input, parent, validated]
  runs,        \* table: id -> [scenario, status, parent, outcomes, explanation]
  decisions,   \* table: set of [run, state]
  trace,       \* table: set of [scenario, event]
  seq,         \* the process's sequence counters, Unread until first used
  lock,        \* the worker holding the store's lock, or Nobody
  pc, mem,     \* per worker: next call of its handler, and what it has read
  quota        \* requests still to arrive

tables == <<scenarios, runs, decisions, trace>>
vars   == <<scenarios, runs, decisions, trace, seq, lock, pc, mem, quota>>

Unread == -1

NotSearched == [alternative_state |-> "NOT_SEARCHED", link |-> Nothing]
NoneFound   == [alternative_state |-> "NONE", link |-> Nothing]
Available(s) == [alternative_state |-> "AVAILABLE", link |-> s]

Upsert(table, id, row) ==
  [i \in DOMAIN table \cup {id} |-> IF i = id THEN row ELSE table[i]]

Without(table, ids) == Restrict(table, DOMAIN table \ ids)

Numbers(table, kind) == {id[2] : id \in {i \in DOMAIN table : i[1] = kind}}

Highest(S) == IF S = {} THEN 0 ELSE CHOOSE n \in S : \A m \in S : m <= n

RunsOf(s) == {r \in DOMAIN runs : runs[r].scenario = s}

ChildrenOf(s) == {c \in DOMAIN scenarios : scenarios[c].parent = s}

\* save_scenario: the upsert writes the document and leaves the
\* validation_result column alone.
SaveScenario(s, doc) ==
  scenarios' = Upsert(scenarios, s,
    [state |-> doc.state, input |-> doc.input, parent |-> doc.parent,
     validated |-> s \in DOMAIN scenarios /\ scenarios[s].validated])

\* save_run: likewise leaves the explanation column alone.
SaveRun(r, doc) ==
  runs' = Upsert(runs, r,
    [scenario |-> doc.scenario, status |-> doc.status, parent |-> doc.parent,
     outcomes |-> doc.outcomes,
     explanation |-> IF r \in DOMAIN runs THEN runs[r].explanation ELSE Nothing])

Trace(s, event) == trace' = trace \cup {[scenario |-> s, event |-> event]}

\* Mutant: numbering starts over with the process.
ScannedFromZero(numbers) == {0}

\* What _highest_sequence may return: a query that fails is taken for an
\* empty table.
Scanned(numbers) == {Highest(numbers)} \cup (IF ScanMayFail THEN {0} ELSE {})

\* Take the next number of a sequence, read off the table once per process;
\* the counters are guarded by the lock.
Number(name, numbers) ==
  /\ lock = Nobody
  /\ \E last \in IF seq[name] = Unread THEN Scanned(numbers) ELSE {seq[name]} :
       seq' = [seq EXCEPT ![name] = last + 1]

\* A request of this kind arrives at an idle worker and reaches `next`.
Arrive(w, kind, next, read) ==
  /\ pc[w] = "idle"
  /\ quota[kind] > 0
  /\ quota' = [quota EXCEPT ![kind] = @ - 1]
  /\ pc' = [pc EXCEPT ![w] = next]
  /\ mem' = [mem EXCEPT ![w] = read]

\* The worker's handler goes on from one call to another; done is "idle".
Continue(w, from, to) ==
  /\ pc[w] = from
  /\ pc' = [pc EXCEPT ![w] = to]
  /\ mem' = [mem EXCEPT ![w] = IF to = "idle" THEN Nothing ELSE @]
  /\ UNCHANGED quota

Remember(w, from, to, read) ==
  /\ pc[w] = from
  /\ pc' = [pc EXCEPT ![w] = to]
  /\ mem' = [mem EXCEPT ![w] = read]
  /\ UNCHANGED quota

-----------------------------------------------------------------------------
(* POST /v1/scenarios *)

\* The only coroutine: it runs on the event loop and awaits nothing that
\* suspends, so two creations never overlap.  The caller may name the
\* scenario its snapshot was derived from: a label, stored as it comes.
CreateNumber(w) ==
  \E candidates \in BOOLEAN, parent \in {Nothing} \cup Nameable :
    /\ \A v \in Workers : pc[v] \notin {"create_save", "create_trace"}
    /\ Number("scenario", Numbers(scenarios, "BASE"))
    /\ Arrive(w, "create", "create_save",
         [s |-> <<"BASE", seq'["scenario"]>>,
          doc |-> [state |-> "VALIDATION_REQUIRED", parent |-> parent,
                   input |-> [candidates |-> candidates, changed |-> Nothing]]])
    /\ UNCHANGED <<tables, lock>>

CreateSave(w) ==
  /\ Continue(w, "create_save", "create_trace")
  /\ SaveScenario(mem[w].s, mem[w].doc)
  /\ UNCHANGED <<runs, decisions, trace, seq, lock>>

CreateTrace(w) ==
  /\ Continue(w, "create_trace", "idle")
  /\ Trace(mem[w].s, "SCENARIO_CREATED")
  /\ UNCHANGED <<scenarios, runs, decisions, seq, lock>>

-----------------------------------------------------------------------------
(* update_scenario_state: get_scenario, then save_scenario of that document. *)

\* A missing scenario is left alone, and the handler goes on.
StateRead(w, from, save, after) ==
  /\ pc[w] = from
  /\ IF mem[w].s \in DOMAIN scenarios
     THEN Remember(w, from, save, [mem[w] EXCEPT !.doc = scenarios[mem[w].s]])
     ELSE Continue(w, from, after)
  /\ UNCHANGED <<tables, seq, lock>>

StateSave(w, from, state, after) ==
  /\ Continue(w, from, after)
  /\ SaveScenario(mem[w].s, [mem[w].doc EXCEPT !.state = state])
  /\ UNCHANGED <<runs, decisions, trace, seq, lock>>

-----------------------------------------------------------------------------
(* POST /v1/scenarios/{id}/validate *)

ValidateRead(w) ==
  \E s \in DOMAIN scenarios :
    /\ Arrive(w, "validate", "validate_save", [s |-> s, doc |-> scenarios[s]])
    /\ UNCHANGED <<tables, seq, lock>>

\* Mutant: validation sets the state whatever it was.
ValidateSaveAlways(w) ==
  /\ Continue(w, "validate_save", IF mem[w].doc.input.candidates THEN "validate_get" ELSE "validate_trace")
  /\ scenarios' = IF mem[w].s \in DOMAIN scenarios
                  THEN [scenarios EXCEPT ![mem[w].s].validated = TRUE] ELSE scenarios
  /\ UNCHANGED <<runs, decisions, trace, seq, lock>>

\* save_validation updates the row if it is still there.  The state moves
\* only for the scenario that was read, and never by what is stored now.
ValidateSave(w) ==
  LET advances == mem[w].doc.input.candidates /\ mem[w].doc.state = "VALIDATION_REQUIRED"
  IN /\ Continue(w, "validate_save", IF advances THEN "validate_get" ELSE "validate_trace")
     /\ scenarios' = IF mem[w].s \in DOMAIN scenarios
                     THEN [scenarios EXCEPT ![mem[w].s].validated = TRUE] ELSE scenarios
     /\ UNCHANGED <<runs, decisions, trace, seq, lock>>

ValidateStateRead(w) == StateRead(w, "validate_get", "validate_put", "validate_trace")

ValidateStateSave(w) == StateSave(w, "validate_put", "READY_TO_SOLVE", "validate_trace")

ValidateTrace(w) ==
  /\ Continue(w, "validate_trace", "idle")
  /\ Trace(mem[w].s, "VALIDATION_COMPLETED")
  /\ UNCHANGED <<scenarios, runs, decisions, seq, lock>>

-----------------------------------------------------------------------------
(* POST /v1/scenarios/{id}/runs *)

RunRead(w) ==
  \E s \in DOMAIN scenarios :
    /\ Arrive(w, "run", "run_number", [s |-> s, doc |-> scenarios[s], r |-> Nothing, status |-> Nothing])
    /\ UNCHANGED <<tables, seq, lock>>

\* Mutant: the stored validation is not asked for.
ValidatedUnasked(s) == s \in DOMAIN scenarios

Validated(s) == s \in DOMAIN scenarios /\ scenarios[s].validated

\* No stored validation: 422.
RunRefused(w) ==
  /\ Continue(w, "run_number", "idle")
  /\ ~Validated(mem[w].s)
  /\ UNCHANGED <<tables, seq, lock>>

\* Mutant: a solve without a plan is stored like any other.
RunSolveStoresErrors(w) ==
  /\ pc[w] = "run_number"
  /\ Validated(mem[w].s)
  /\ Number("run", Numbers(runs, "BASE"))
  /\ \E result \in SolverResults :
       Remember(w, "run_number", "run_save",
                [mem[w] EXCEPT !.r = <<"BASE", seq'["run"]>>, !.status = result])
  /\ UNCHANGED <<tables, lock>>

\* Mutant: a solve without a plan saves no run and still ends in SOLVED.
RunSolveSkipsSave(w) ==
  /\ pc[w] = "run_number"
  /\ Validated(mem[w].s)
  /\ Number("run", Numbers(runs, "BASE"))
  /\ \E result \in SolverResults :
       Remember(w, "run_number", IF result = "ERROR" THEN "run_get" ELSE "run_save",
                [mem[w] EXCEPT !.r = <<"BASE", seq'["run"]>>, !.status = result])
  /\ UNCHANGED <<tables, lock>>

\* get_validation, next_run_id and the solve: the number is taken whatever
\* the solver returns, and a solve without a plan is answered 503.  With no
\* candidate there is nothing to solve and the empty plan is optimal.
RunSolve(w) ==
  /\ pc[w] = "run_number"
  /\ Validated(mem[w].s)
  /\ Number("run", Numbers(runs, "BASE"))
  /\ \E result \in IF mem[w].doc.input.candidates THEN SolverResults ELSE {"OPTIMAL"} :
       IF result = "ERROR"
       THEN Continue(w, "run_number", "idle")
       ELSE Remember(w, "run_number", "run_save",
              [mem[w] EXCEPT !.r = <<"BASE", seq'["run"]>>, !.status = result])
  /\ UNCHANGED <<tables, lock>>

\* A run of a scenario that is gone is refused by the foreign key: 500.
RunSave(w) ==
  /\ pc[w] = "run_save"
  /\ IF mem[w].s \in DOMAIN scenarios
     THEN /\ Continue(w, "run_save", "run_get")
          /\ SaveRun(mem[w].r, [scenario |-> mem[w].s, status |-> mem[w].status,
                                parent |-> Nothing,
                                outcomes |-> [o \in Orders |-> NotSearched]])
     ELSE Continue(w, "run_save", "idle") /\ UNCHANGED runs
  /\ UNCHANGED <<scenarios, decisions, trace, seq, lock>>

RunStateRead(w) == StateRead(w, "run_get", "run_put", "run_trace")

RunStateSave(w) == StateSave(w, "run_put", "SOLVED", "run_trace")

RunTrace(w) ==
  /\ Continue(w, "run_trace", "idle")
  /\ Trace(mem[w].s, "RUN_COMPLETED")
  /\ UNCHANGED <<scenarios, runs, decisions, seq, lock>>

-----------------------------------------------------------------------------
(* POST /v1/runs/{id}/alternatives *)

AltRead(w) ==
  \E r \in DOMAIN runs, o \in Orders :
    /\ Arrive(w, "alternative", "alt_search",
         [r |-> r, o |-> o, doc |-> runs[r], verdict |-> Nothing, n |-> Nothing])
    /\ UNCHANGED <<tables, seq, lock>>

\* The run's scenario is gone: 404.
AltNoScenario(w) ==
  /\ Continue(w, "alt_search", "idle")
  /\ mem[w].doc.scenario \notin DOMAIN scenarios
  /\ UNCHANGED <<tables, seq, lock>>

\* get_scenario, next_alternative_sequence and the search.  The number is
\* taken even when the request is then refused (409, 400).
AltSearch(w) ==
  /\ pc[w] = "alt_search"
  /\ mem[w].doc.scenario \in DOMAIN scenarios
  /\ Number("alternative", Numbers(runs, "ALT"))
  /\ \/ Continue(w, "alt_search", "idle")
     \/ \E verdict \in Verdicts :
          Remember(w, "alt_search", IF verdict = "NONE" THEN "alt_none" ELSE "alt_scenario",
                   [mem[w] EXCEPT !.verdict = verdict, !.n = seq'["alternative"]])
  /\ UNCHANGED <<tables, lock>>

\* Nothing feasible: the whole run document, as it was read, is written back
\* with this order's outcome changed.  The explanation is not cleared.
AltNone(w) ==
  /\ pc[w] = "alt_none"
  /\ IF mem[w].doc.scenario \in DOMAIN scenarios
     THEN /\ Continue(w, "alt_none", "alt_trace")
          /\ SaveRun(mem[w].r, [mem[w].doc EXCEPT !.outcomes[mem[w].o] = NoneFound])
     ELSE Continue(w, "alt_none", "idle") /\ UNCHANGED runs
  /\ UNCHANGED <<scenarios, decisions, trace, seq, lock>>

Derived(w) == <<"ALT", mem[w].n>>

\* Mutant: the link is published before the derived run is stored.
AltSaveScenarioLinks(w) ==
  /\ Continue(w, "alt_scenario", "alt_lock")
  /\ SaveScenario(Derived(w),
       [state |-> "SOLVED", parent |-> mem[w].doc.scenario,
        input |-> [candidates |-> TRUE, changed |-> mem[w].o]])
  /\ UNCHANGED <<runs, decisions, trace, seq, lock>>

AltSaveScenario(w) ==
  /\ Continue(w, "alt_scenario", "alt_run")
  /\ SaveScenario(Derived(w),
       [state |-> "SOLVED", parent |-> mem[w].doc.scenario,
        input |-> [candidates |-> TRUE, changed |-> mem[w].o]])
  /\ UNCHANGED <<runs, decisions, trace, seq, lock>>

AltSaveRun(w) ==
  /\ pc[w] = "alt_run"
  /\ IF Derived(w) \in DOMAIN scenarios
     THEN /\ Continue(w, "alt_run", "alt_validation")
          /\ \E status \in SolverResults \ {"ERROR"} :
               SaveRun(Derived(w),
                 [scenario |-> Derived(w), status |-> status, parent |-> mem[w].r,
                  outcomes |-> [o \in Orders |-> IF o = mem[w].o THEN Available(Nothing)
                                                 ELSE NotSearched]])
     ELSE Continue(w, "alt_run", "idle") /\ UNCHANGED runs
  /\ UNCHANGED <<scenarios, decisions, trace, seq, lock>>

AltSaveValidation(w) ==
  /\ Continue(w, "alt_validation", "alt_lock")
  /\ scenarios' = IF Derived(w) \in DOMAIN scenarios
                  THEN [scenarios EXCEPT ![Derived(w)].validated = TRUE] ELSE scenarios
  /\ UNCHANGED <<runs, decisions, trace, seq, lock>>

\* Mutant: the document read at the start of the request is reused.
OutcomeReuse(w) ==
  /\ lock = Nobody
  /\ Continue(w, "alt_lock", "alt_outcome")
  /\ lock' = w
  /\ UNCHANGED <<tables, seq>>

\* update_order_outcome: re-read the run under the lock ...
OutcomeRead(w) ==
  /\ pc[w] = "alt_lock" /\ lock = Nobody
  /\ IF mem[w].r \in DOMAIN runs
     THEN /\ Remember(w, "alt_lock", "alt_outcome", [mem[w] EXCEPT !.doc = runs[mem[w].r]])
          /\ lock' = w
     ELSE Continue(w, "alt_lock", "alt_clear") /\ UNCHANGED lock
  /\ UNCHANGED <<tables, seq>>

\* Mutant: the lock stays taken by a write that is refused.
OutcomeSaveHoldsOnError(w) ==
  /\ pc[w] = "alt_outcome"
  /\ IF mem[w].doc.scenario \in DOMAIN scenarios
     THEN /\ Continue(w, "alt_outcome", "alt_clear") /\ lock' = Nobody
          /\ SaveRun(mem[w].r, [mem[w].doc EXCEPT !.outcomes[mem[w].o] = Available(Derived(w))])
     ELSE Continue(w, "alt_outcome", "idle") /\ UNCHANGED <<runs, lock>>
  /\ UNCHANGED <<scenarios, decisions, trace, seq>>

\* ... change one order and write it back, then release the lock.  A write
\* the foreign key refuses releases it too, and the request fails.
OutcomeSave(w) ==
  /\ pc[w] = "alt_outcome"
  /\ IF mem[w].doc.scenario \in DOMAIN scenarios
     THEN /\ Continue(w, "alt_outcome", "alt_clear")
          /\ SaveRun(mem[w].r, [mem[w].doc EXCEPT !.outcomes[mem[w].o] = Available(Derived(w))])
     ELSE Continue(w, "alt_outcome", "idle") /\ UNCHANGED runs
  /\ lock' = Nobody
  /\ UNCHANGED <<scenarios, decisions, trace, seq>>

\* Mutant: the explanation stays.
AltKeepExplanation(w) ==
  /\ Continue(w, "alt_clear", "alt_trace")
  /\ UNCHANGED <<tables, seq, lock>>

AltClearExplanation(w) ==
  /\ Continue(w, "alt_clear", "alt_trace")
  /\ runs' = IF mem[w].r \in DOMAIN runs
             THEN [runs EXCEPT ![mem[w].r].explanation = Nothing] ELSE runs
  /\ UNCHANGED <<scenarios, decisions, trace, seq, lock>>

AltTrace(w) ==
  /\ Continue(w, "alt_trace", IF mem[w].verdict = "FOUND" THEN "alt_trace_derived" ELSE "idle")
  /\ Trace(mem[w].doc.scenario, "ALTERNATIVE_CREATED")
  /\ UNCHANGED <<scenarios, runs, decisions, seq, lock>>

AltTraceDerived(w) ==
  /\ Continue(w, "alt_trace_derived", "idle")
  /\ Trace(Derived(w), "ALTERNATIVE_CREATED")
  /\ UNCHANGED <<scenarios, runs, decisions, seq, lock>>

-----------------------------------------------------------------------------
(* POST /v1/runs/{id}/decisions *)

\* Mutant: any run can be accepted.
DecideReadUnchecked(w) ==
  \E r \in DOMAIN runs, decision \in {"ACCEPTED", "HELD"} :
    /\ Arrive(w, "decide", "decide_save",
         [r |-> r, decision |-> decision, s |-> runs[r].scenario])
    /\ UNCHANGED <<tables, seq, lock>>

\* Only an optimal run can be accepted; any other acceptance is a 409.  Every
\* stored run has validator PASS (StagedSolve, StoredRunsPass), and a
\* rejection is recorded exactly like HELD.
DecideRead(w) ==
  \E r \in DOMAIN runs, decision \in {"ACCEPTED", "HELD"} :
    /\ decision = "ACCEPTED" => runs[r].status = "OPTIMAL"
    /\ Arrive(w, "decide", "decide_save",
         [r |-> r, decision |-> decision, s |-> runs[r].scenario])
    /\ UNCHANGED <<tables, seq, lock>>

DecideSave(w) ==
  /\ pc[w] = "decide_save"
  /\ IF mem[w].r \in DOMAIN runs
     THEN /\ Continue(w, "decide_save", "decide_trace")
          /\ decisions' = decisions \cup {[run |-> mem[w].r, state |-> mem[w].decision]}
     ELSE Continue(w, "decide_save", "idle") /\ UNCHANGED decisions
  /\ UNCHANGED <<scenarios, runs, trace, seq, lock>>

DecideTrace(w) ==
  /\ Continue(w, "decide_trace", "idle")
  /\ Trace(mem[w].s, "DECISION_RECORDED")
  /\ UNCHANGED <<scenarios, runs, decisions, seq, lock>>

-----------------------------------------------------------------------------
(* GET /v1/runs/{id}/explanation *)

ExplainRead(w) ==
  \E r \in DOMAIN runs :
    /\ Arrive(w, "explain", "explain_check", [r |-> r, outcomes |-> runs[r].outcomes])
    /\ UNCHANGED <<tables, seq, lock>>

\* A stored explanation is served; otherwise cards are built from the
\* document read before.
ExplainCheck(w) ==
  LET stored == mem[w].r \in DOMAIN runs /\ runs[mem[w].r].explanation # Nothing
  IN /\ Continue(w, "explain_check", IF stored THEN "idle" ELSE "explain_save")
     /\ UNCHANGED <<tables, seq, lock>>

ExplainSave(w) ==
  /\ Continue(w, "explain_save", "idle")
  /\ runs' = IF mem[w].r \in DOMAIN runs
             THEN [runs EXCEPT ![mem[w].r].explanation = mem[w].outcomes] ELSE runs
  /\ UNCHANGED <<scenarios, decisions, trace, seq, lock>>

-----------------------------------------------------------------------------
(* DELETE /v1/scenarios/{id} *)

\* Mutant: children do not matter.
DeleteUnchecked(w) ==
  \E s \in DOMAIN scenarios :
    /\ Arrive(w, "delete", "delete_list", [s |-> s, pending |-> {}])
    /\ UNCHANGED <<tables, seq, lock>>

\* The existence and children checks; children answer 409.
DeleteCheck(w) ==
  \E s \in DOMAIN scenarios :
    /\ ChildrenOf(s) = {}
    /\ Arrive(w, "delete", "delete_list", [s |-> s, pending |-> {}])
    /\ UNCHANGED <<tables, seq, lock>>

DeleteList(w) ==
  /\ Remember(w, "delete_list", "delete_decisions", [mem[w] EXCEPT !.pending = RunsOf(mem[w].s)])
  /\ UNCHANGED <<tables, seq, lock>>

\* The decisions of one listed run after another.
DeleteDecisions(w) ==
  /\ pc[w] = "delete_decisions"
  /\ \E r \in mem[w].pending :
       /\ Remember(w, "delete_decisions", "delete_decisions", [mem[w] EXCEPT !.pending = @ \ {r}])
       /\ decisions' = {d \in decisions : d.run # r}
  /\ UNCHANGED <<scenarios, runs, trace, seq, lock>>

\* Refused by the foreign key while a decision stands on one of the runs: 500.
DeleteRuns(w) ==
  /\ pc[w] = "delete_decisions" /\ mem[w].pending = {}
  /\ IF \E d \in decisions : d.run \in RunsOf(mem[w].s)
     THEN Continue(w, "delete_decisions", "idle") /\ UNCHANGED runs
     ELSE /\ Continue(w, "delete_decisions", "delete_trace")
          /\ runs' = Without(runs, RunsOf(mem[w].s))
  /\ UNCHANGED <<scenarios, decisions, trace, seq, lock>>

\* Mutant: the trace is kept.
DeleteKeepsTrace(w) ==
  /\ Continue(w, "delete_trace", "delete_row")
  /\ UNCHANGED <<tables, seq, lock>>

DeleteTrace(w) ==
  /\ Continue(w, "delete_trace", "delete_row")
  /\ trace' = {e \in trace : e.scenario # mem[w].s}
  /\ UNCHANGED <<scenarios, runs, decisions, seq, lock>>

\* Refused by the foreign key while a run refers to the scenario: 500.
DeleteRow(w) ==
  /\ Continue(w, "delete_row", "idle")
  /\ scenarios' = IF RunsOf(mem[w].s) = {} THEN Without(scenarios, {mem[w].s}) ELSE scenarios
  /\ UNCHANGED <<runs, decisions, trace, seq, lock>>

-----------------------------------------------------------------------------

CreateRequest(w) == CreateNumber(w) \/ CreateSave(w) \/ CreateTrace(w)

ValidateRequest(w) ==
  \/ ValidateRead(w) \/ ValidateSave(w)
  \/ ValidateStateRead(w) \/ ValidateStateSave(w) \/ ValidateTrace(w)

RunRequest(w) ==
  \/ RunRead(w) \/ RunRefused(w) \/ RunSolve(w) \/ RunSave(w)
  \/ RunStateRead(w) \/ RunStateSave(w) \/ RunTrace(w)

AlternativeRequest(w) ==
  \/ AltRead(w) \/ AltNoScenario(w) \/ AltSearch(w) \/ AltNone(w)
  \/ AltSaveScenario(w) \/ AltSaveRun(w) \/ AltSaveValidation(w)
  \/ OutcomeRead(w) \/ OutcomeSave(w) \/ AltClearExplanation(w)
  \/ AltTrace(w) \/ AltTraceDerived(w)

DecisionRequest(w) == DecideRead(w) \/ DecideSave(w) \/ DecideTrace(w)

ExplanationRequest(w) == ExplainRead(w) \/ ExplainCheck(w) \/ ExplainSave(w)

DeleteRequest(w) ==
  \/ DeleteCheck(w) \/ DeleteList(w) \/ DeleteDecisions(w)
  \/ DeleteRuns(w) \/ DeleteTrace(w) \/ DeleteRow(w)

Work(w) ==
  \/ CreateRequest(w) \/ ValidateRequest(w) \/ RunRequest(w) \/ AlternativeRequest(w)
  \/ DecisionRequest(w) \/ ExplanationRequest(w) \/ DeleteRequest(w)

\* The process dies between two statements and starts again.
Restart ==
  /\ quota["crash"] > 0
  /\ quota' = [quota EXCEPT !["crash"] = @ - 1]
  /\ seq' = [name \in DOMAIN seq |-> Unread]
  /\ lock' = Nobody
  /\ pc' = [w \in Workers |-> "idle"]
  /\ mem' = [w \in Workers |-> Nothing]
  /\ UNCHANGED tables

\* The calls that read and clear the explanation column, and where their
\* handlers go on when they fail: any error is taken for a missing column.
AfterFailure == [alt_clear |-> "alt_trace", explain_check |-> "explain_save"]

\* A statement of one handler raises: the request ends in a 500 and leaves a
\* lock it held.
Fail(w) ==
  /\ pc[w] \notin {"idle"} \cup DOMAIN AfterFailure
  /\ quota["failure"] > 0
  /\ quota' = [quota EXCEPT !["failure"] = @ - 1]
  /\ lock' = IF lock = w THEN Nobody ELSE lock
  /\ pc' = [pc EXCEPT ![w] = "idle"]
  /\ mem' = [mem EXCEPT ![w] = Nothing]
  /\ UNCHANGED <<tables, seq>>

\* The failure is logged and the handler goes on.  (A failed save of the
\* column is logged too, but it is the last thing its request does.)
Tolerate(w) ==
  /\ pc[w] \in DOMAIN AfterFailure
  /\ quota["failure"] > 0
  /\ quota' = [quota EXCEPT !["failure"] = @ - 1]
  /\ pc' = [pc EXCEPT ![w] = AfterFailure[@]]
  /\ UNCHANGED <<tables, seq, lock, mem>>

First == <<"BASE", 1>>

\* The process starts on an empty database or on one where an earlier
\* process created, validated and solved one scenario.
Init ==
  /\ scenarios = [s \in IF StartSolved THEN {First} ELSE {} |->
       [state |-> "SOLVED", parent |-> Nothing, validated |-> TRUE,
        input |-> [candidates |-> TRUE, changed |-> Nothing]]]
  /\ runs = [r \in IF StartSolved THEN {First} ELSE {} |->
       [scenario |-> First, status |-> "OPTIMAL", parent |-> Nothing,
        outcomes |-> [o \in Orders |-> NotSearched], explanation |-> Nothing]]
  /\ decisions = {}
  /\ trace = IF StartSolved
             THEN {[scenario |-> First, event |-> e] : e \in
                     {"SCENARIO_CREATED", "VALIDATION_COMPLETED", "RUN_COMPLETED"}}
             ELSE {}
  /\ seq = [name \in {"scenario", "run", "alternative"} |-> Unread]
  /\ lock = Nobody
  /\ pc = [w \in Workers |-> "idle"]
  /\ mem = [w \in Workers |-> Nothing]
  /\ quota = Quota

Next == Restart \/ \E w \in Workers : Work(w) \/ Fail(w) \/ Tolerate(w)

\* A thread with a call to make makes it; no request is obliged to arrive.
Fairness == \A w \in Workers : WF_vars(Work(w) /\ pc[w] # "idle")

Spec == Init /\ [][Next]_vars /\ Fairness

-----------------------------------------------------------------------------
(* Properties *)

ScenarioRow == [state : {"VALIDATION_REQUIRED", "READY_TO_SOLVE", "SOLVED"},
                input : [candidates : BOOLEAN, changed : Orders \cup {Nothing}],
                parent : Ids \cup {Nothing}, validated : BOOLEAN]

Outcomes == [Orders -> [alternative_state : {"NOT_SEARCHED", "NONE", "AVAILABLE"},
                        link : Ids \cup {Nothing}]]

RunRow == [scenario : Ids, status : {"OPTIMAL", "FEASIBLE"}, parent : Ids \cup {Nothing},
           outcomes : Outcomes, explanation : Outcomes \cup {Nothing}]

\* Tables, counters and workers hold the values the code writes to them: an
\* id is never issued without its number, a failed solve is never stored.
TypeOK ==
  /\ DOMAIN scenarios \subseteq Ids /\ \A s \in DOMAIN scenarios : scenarios[s] \in ScenarioRow
  /\ DOMAIN runs \subseteq Ids /\ \A r \in DOMAIN runs : runs[r] \in RunRow
  /\ \A d \in decisions : d.run \in Ids /\ d.state \in {"ACCEPTED", "HELD"}
  /\ \A e \in trace : e.scenario \in Ids
  /\ seq \in [{"scenario", "run", "alternative"} -> Nat \cup {Unread}]
  /\ lock \in Workers \cup {Nobody}
  /\ quota \in [Kinds -> Nat]

Idle == \A w \in Workers : pc[w] = "idle"

\* An acceptance on record stands on an optimal run, whatever crashes, fails
\* or is solved between the check of create_decision and its save
\* (runs.py:213-236).  While nothing is deleted: a deletion in between can
\* take the run away and leave its number to another.
AcceptedOnlyAcceptable ==
  \A d \in decisions :
    d.state = "ACCEPTED" => d.run \in DOMAIN runs /\ runs[d.run].status = "OPTIMAL"

\* An order's link leads to a stored scenario that changed this very order
\* and was derived from this run's scenario, and to its run derived from
\* this run: create_alternative commits all three before it publishes the
\* link (runs.py:153-172).
LinkLeadsToDerivedRun ==
  \A r \in DOMAIN runs : \A o \in Orders :
    LET s == runs[r].outcomes[o].link
    IN s # Nothing =>
         /\ s \in DOMAIN scenarios \cap DOMAIN runs
         /\ scenarios[s].parent = runs[r].scenario /\ scenarios[s].input.changed = o
         /\ runs[s].scenario = s /\ runs[s].parent = r

\* A SOLVED scenario has a run to show, and a run exists only for a scenario
\* whose validation is stored: create_run saves the run before the state
\* and create_alternative the other way round, so this is said of the
\* scenarios a caller created (scenarios.py:279-304).
SolvedHasRun ==
  \A s \in DOMAIN scenarios : s[1] = "BASE" =>
    (scenarios[s].state = "SOLVED" => RunsOf(s) # {})

StoredRunWasValidated ==
  \A r \in DOMAIN runs : r[1] = "BASE" =>
    runs[r].scenario \in DOMAIN scenarios /\ scenarios[runs[r].scenario].validated

\* No request takes away the scenario that another one names as its parent,
\* derived from it or declared so by its caller: deleting it would leave
\* the child pointing at nothing (scenarios.py:177-181).
ChildrenKeepParents ==
  [][\A s \in DOMAIN scenarios \cap DOMAIN scenarios' :
       scenarios[s].parent \in DOMAIN scenarios => scenarios[s].parent \in DOMAIN scenarios']_vars

\* Between requests, what is recorded is recorded against a scenario that
\* exists, and a decision against a run that does: a deletion leaves nothing
\* behind (scenarios.py:176, storage.py:337-345).
NothingOutlivesItsScenario ==
  Idle => /\ \A e \in trace : e.scenario \in DOMAIN scenarios
          /\ \A r \in DOMAIN runs : runs[r].scenario \in DOMAIN scenarios
          /\ \A d \in decisions : d.run \in DOMAIN runs

\* Nothing has crashed or failed so far.
Smooth == \A kind \in {"crash", "failure"} : quota[kind] = Quota[kind]

\* Between requests, a stored explanation describes the outcomes the run has
\* now: whatever changes a solved run clears it (ai.py:66-72).  As long as
\* no search was cut off before it cleared it, and no clearing failed.
ExplanationFresh ==
  Idle /\ Smooth => \A r \in DOMAIN runs : runs[r].explanation \in {Nothing, runs[r].outcomes}

\* A run keeps its scenario, status and parent for life: no later number,
\* re-save or restart puts another run in its row (storage.py:510-541).
RunsNeverOverwritten ==
  [][\A r \in DOMAIN runs \cap DOMAIN runs' :
       /\ runs'[r].scenario = runs[r].scenario
       /\ runs'[r].status = runs[r].status
       /\ runs'[r].parent = runs[r].parent]_vars

\* A stored scenario keeps the snapshot and the parent it was created with
\* (scenarios.py:52-56, storage.py:510-511).
SnapshotsImmutable ==
  [][\A s \in DOMAIN scenarios \cap DOMAIN scenarios' :
       /\ scenarios'[s].input = scenarios[s].input
       /\ scenarios'[s].parent = scenarios[s].parent]_vars

\* No request moves a scenario backwards (scenarios.py:221-227).
Progress == [state \in {"VALIDATION_REQUIRED", "READY_TO_SOLVE", "SOLVED"} |->
               CASE state = "VALIDATION_REQUIRED" -> 1
                 [] state = "READY_TO_SOLVE" -> 2
                 [] state = "SOLVED" -> 3]

StateNeverBackwards ==
  [][\A s \in DOMAIN scenarios \cap DOMAIN scenarios' :
       Progress[scenarios[s].state] <= Progress[scenarios'[s].state]]_vars

\* An alternative an order has is replaced only by a request about that
\* order: recording another order's does not revert it (storage.py:114-121).
AlternativesKept ==
  [][\A r \in DOMAIN runs \cap DOMAIN runs' : \A o \in Orders :
       \/ runs[r].outcomes[o].alternative_state # "AVAILABLE"
       \/ runs'[r].outcomes[o] = runs[r].outcomes[o]
       \/ \E w \in Workers : /\ pc[w] \in {"alt_none", "alt_outcome"}
                            /\ pc'[w] # pc[w] /\ mem[w].r = r /\ mem[w].o = o]_vars

\* Every request is answered, or dies with the process: a handler never
\* waits for ever on the store's lock, whatever branch its holder leaves by.
EveryRequestEnds == \A w \in Workers : pc[w] # "idle" ~> pc[w] = "idle"
=============================================================================
