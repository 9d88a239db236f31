------------------------ MODULE ScenarioServiceProofs ------------------------
(***************************************************************************)
(* Proofs about the routers over the Supabase store, for every set of      *)
(* workers and orders and every number of requests, crashes and failures.  *)
(***************************************************************************)
EXTENDS ScenarioService, SetLemmas

CreateCalls == {"create_save", "create_trace"}
ValidateCalls == {"validate_save", "validate_get", "validate_put", "validate_trace"}
RunCalls == {"run_save", "run_get", "run_put", "run_trace"}
AltCalls ==
  {"alt_none", "alt_scenario", "alt_run", "alt_validation", "alt_lock", "alt_outcome",
   "alt_clear", "alt_trace", "alt_trace_derived"}
DecideCalls == {"decide_save", "decide_trace"}
ExplainCalls == {"explain_check", "explain_save"}
DeleteCalls == {"delete_list", "delete_decisions", "delete_trace", "delete_row"}

Calls ==
  {"idle", "run_number", "alt_search"} \cup CreateCalls \cup ValidateCalls \cup RunCalls
  \cup AltCalls \cup DecideCalls \cup ExplainCalls \cup DeleteCalls

NewScenario ==
  [state : {"VALIDATION_REQUIRED"}, parent : Ids \cup {Nothing},
   input : [candidates : BOOLEAN, changed : Orders \cup {Nothing}]]

\* What a handler has read by the time of a call.
MemoryAt(call) ==
  IF call \in CreateCalls THEN [s : Ids, doc : NewScenario]
  ELSE IF call \in ValidateCalls THEN [s : Ids, doc : ScenarioRow]
  ELSE IF call = "run_number"
    THEN [s : Ids, doc : ScenarioRow, r : {Nothing}, status : {Nothing}]
  ELSE IF call \in RunCalls
    THEN [s : Ids, doc : ScenarioRow, r : Ids, status : {"OPTIMAL", "FEASIBLE"}]
  ELSE IF call = "alt_search"
    THEN [r : Ids, o : Orders, doc : RunRow, verdict : {Nothing}, n : {Nothing}]
  ELSE IF call \in AltCalls
    THEN [r : Ids, o : Orders, doc : RunRow, verdict : Verdicts, n : Nat]
  ELSE IF call \in DecideCalls THEN [r : Ids, decision : {"ACCEPTED", "HELD"}, s : Ids]
  ELSE IF call \in ExplainCalls THEN [r : Ids, outcomes : Outcomes]
  ELSE IF call \in DeleteCalls THEN [s : Ids, pending : SUBSET Ids]
  ELSE {Nothing}

WorkersOK ==
  /\ pc \in [Workers -> Calls]
  /\ mem = [w \in Workers |-> mem[w]]
  /\ \A w \in Workers : mem[w] \in MemoryAt(pc[w])

\* A scan of a table returns a number only because the table is finite.
ScenariosOK ==
  /\ DOMAIN scenarios \subseteq Ids /\ IsFiniteSet(DOMAIN scenarios)
  /\ \A s \in DOMAIN scenarios : scenarios[s] \in ScenarioRow

RunsOK ==
  /\ DOMAIN runs \subseteq Ids /\ IsFiniteSet(DOMAIN runs)
  /\ \A r \in DOMAIN runs : runs[r] \in RunRow

TypeInv == TypeOK /\ WorkersOK /\ ScenariosOK /\ RunsOK

-----------------------------------------------------------------------------
(* What the building blocks of the handlers do to the types. *)

\* The memory of each call, one family after the other.
LEMMA Memories ==
  /\ \A c \in CreateCalls : MemoryAt(c) = [s : Ids, doc : NewScenario]
  /\ \A c \in ValidateCalls : MemoryAt(c) = [s : Ids, doc : ScenarioRow]
  /\ MemoryAt("run_number") = [s : Ids, doc : ScenarioRow, r : {Nothing}, status : {Nothing}]
  /\ \A c \in RunCalls :
       MemoryAt(c) = [s : Ids, doc : ScenarioRow, r : Ids, status : {"OPTIMAL", "FEASIBLE"}]
  /\ MemoryAt("alt_search") =
       [r : Ids, o : Orders, doc : RunRow, verdict : {Nothing}, n : {Nothing}]
  /\ \A c \in AltCalls :
       MemoryAt(c) = [r : Ids, o : Orders, doc : RunRow, verdict : Verdicts, n : Nat]
  /\ \A c \in DecideCalls : MemoryAt(c) = [r : Ids, decision : {"ACCEPTED", "HELD"}, s : Ids]
  /\ \A c \in ExplainCalls : MemoryAt(c) = [r : Ids, outcomes : Outcomes]
  /\ \A c \in DeleteCalls : MemoryAt(c) = [s : Ids, pending : SUBSET Ids]
  /\ MemoryAt("idle") = {Nothing}
BY DEF MemoryAt, CreateCalls, ValidateCalls, RunCalls, AltCalls, DecideCalls, ExplainCalls,
       DeleteCalls

\* A worker that moves to a call with the memory of that call.
LEMMA MoveKeepsWorkers ==
  ASSUME WorkersOK, NEW w \in Workers, NEW to \in Calls, NEW read, read \in MemoryAt(to),
         pc' = [pc EXCEPT ![w] = to], mem' = [mem EXCEPT ![w] = read]
  PROVE  /\ WorkersOK'
         /\ pc'[w] = to /\ mem'[w] = read
         /\ \A v \in Workers \ {w} : pc'[v] = pc[v] /\ mem'[v] = mem[v]
BY DEF WorkersOK

LEMMA RememberKeepsWorkers ==
  ASSUME WorkersOK, NEW w \in Workers, NEW from, NEW to \in Calls, NEW read, read \in MemoryAt(to),
         Remember(w, from, to, read)
  PROVE  /\ WorkersOK' /\ quota' = quota
         /\ pc[w] = from /\ pc'[w] = to /\ mem'[w] = read
         /\ \A v \in Workers \ {w} : pc'[v] = pc[v] /\ mem'[v] = mem[v]
BY DEF WorkersOK, Remember

LEMMA ArriveKeepsWorkers ==
  ASSUME TypeInv, NEW w \in Workers, NEW kind \in Kinds, NEW next \in Calls,
         NEW read, read \in MemoryAt(next), Arrive(w, kind, next, read)
  PROVE  /\ WorkersOK' /\ quota' \in [Kinds -> Nat] /\ quota[kind] > 0
         /\ \A k \in Kinds : quota'[k] <= quota[k]
         /\ pc[w] = "idle" /\ pc'[w] = next /\ mem'[w] = read
         /\ \A v \in Workers \ {w} : pc'[v] = pc[v] /\ mem'[v] = mem[v]
<1>1. quota \in [Kinds -> Nat] /\ quota[kind] > 0 /\ quota' = [quota EXCEPT ![kind] = @ - 1]
  BY DEF TypeInv, TypeOK, Arrive
<1>2. quota' \in [Kinds -> Nat] /\ \A k \in Kinds : quota'[k] <= quota[k]
  BY <1>1
<1> QED BY <1>1, <1>2, MoveKeepsWorkers DEF TypeInv, Arrive

LEMMA ContinueKeepsWorkers ==
  ASSUME WorkersOK, NEW w \in Workers, NEW from, NEW to \in Calls, Continue(w, from, to),
         to = "idle" \/ mem[w] \in MemoryAt(to)
  PROVE  /\ WorkersOK' /\ quota' = quota
         /\ pc[w] = from /\ pc'[w] = to
         /\ mem'[w] = IF to = "idle" THEN Nothing ELSE mem[w]
         /\ \A v \in Workers \ {w} : pc'[v] = pc[v] /\ mem'[v] = mem[v]
<1> DEFINE read == IF to = "idle" THEN Nothing ELSE mem[w]
<1>1. read \in MemoryAt(to)
  BY Memories
<1>2. mem' = [mem EXCEPT ![w] = read]
  BY DEF Continue, WorkersOK
<1>3. pc[w] = from /\ pc' = [pc EXCEPT ![w] = to] /\ quota' = quota
  BY DEF Continue
<1> HIDE DEF read
<1>4. WorkersOK' /\ pc'[w] = to /\ mem'[w] = read
      /\ \A v \in Workers \ {w} : pc'[v] = pc[v] /\ mem'[v] = mem[v]
  BY <1>1, <1>2, <1>3, MoveKeepsWorkers
<1> QED BY <1>3, <1>4 DEF read

LEMMA SaveScenarioType ==
  ASSUME ScenariosOK, NEW s \in Ids, NEW doc, SaveScenario(s, doc),
         doc.state \in {"VALIDATION_REQUIRED", "READY_TO_SOLVE", "SOLVED"},
         doc.input \in [candidates : BOOLEAN, changed : Orders \cup {Nothing}],
         doc.parent \in Ids \cup {Nothing}
  PROVE  /\ ScenariosOK'
         /\ DOMAIN scenarios' = DOMAIN scenarios \cup {s}
         /\ \A t \in DOMAIN scenarios : t # s => scenarios'[t] = scenarios[t]
         /\ scenarios'[s] = [state |-> doc.state, input |-> doc.input, parent |-> doc.parent,
                             validated |-> s \in DOMAIN scenarios /\ scenarios[s].validated]
<1> DEFINE row == [state |-> doc.state, input |-> doc.input, parent |-> doc.parent,
                   validated |-> s \in DOMAIN scenarios /\ scenarios[s].validated]
<1>1. scenarios' = [i \in DOMAIN scenarios \cup {s} |-> IF i = s THEN row ELSE scenarios[i]]
  BY DEF SaveScenario, Upsert
<1>2. row \in ScenarioRow
  <2>1. (s \in DOMAIN scenarios /\ scenarios[s].validated) \in BOOLEAN
    BY DEF ScenariosOK, ScenarioRow
  <2> QED BY <2>1 DEF ScenarioRow
<1> HIDE DEF row
<1>3. /\ ScenariosOK'
      /\ DOMAIN scenarios' = DOMAIN scenarios \cup {s}
      /\ \A t \in DOMAIN scenarios : t # s => scenarios'[t] = scenarios[t]
      /\ scenarios'[s] = row
  BY <1>1, <1>2, FS_AddElement DEF ScenariosOK
<1> QED BY <1>3 DEF row

LEMMA SaveRunType ==
  ASSUME RunsOK, NEW r \in Ids, NEW doc, SaveRun(r, doc),
         doc.scenario \in Ids, doc.status \in {"OPTIMAL", "FEASIBLE"},
         doc.parent \in Ids \cup {Nothing}, doc.outcomes \in Outcomes
  PROVE  /\ RunsOK'
         /\ DOMAIN runs' = DOMAIN runs \cup {r}
         /\ \A q \in DOMAIN runs : q # r => runs'[q] = runs[q]
         /\ runs'[r] = [scenario |-> doc.scenario, status |-> doc.status, parent |-> doc.parent,
                        outcomes |-> doc.outcomes,
                        explanation |-> IF r \in DOMAIN runs THEN runs[r].explanation ELSE Nothing]
<1> DEFINE row == [scenario |-> doc.scenario, status |-> doc.status, parent |-> doc.parent,
                   outcomes |-> doc.outcomes,
                   explanation |-> IF r \in DOMAIN runs THEN runs[r].explanation ELSE Nothing]
<1>1. runs' = [i \in DOMAIN runs \cup {r} |-> IF i = r THEN row ELSE runs[i]]
  BY DEF SaveRun, Upsert
<1>2. row \in RunRow
  <2>1. (IF r \in DOMAIN runs THEN runs[r].explanation ELSE Nothing) \in Outcomes \cup {Nothing}
    BY DEF RunsOK, RunRow
  <2> QED BY <2>1 DEF RunRow
<1> HIDE DEF row
<1>3. /\ RunsOK'
      /\ DOMAIN runs' = DOMAIN runs \cup {r}
      /\ \A q \in DOMAIN runs : q # r => runs'[q] = runs[q]
      /\ runs'[r] = row
  BY <1>1, <1>2, FS_AddElement DEF RunsOK
<1> QED BY <1>3 DEF row

-----------------------------------------------------------------------------
(* Type correctness, one lemma per request. *)

\* A handler's next call may find what it holds as it is.
LEMMA WorkerHolds ==
  ASSUME TypeInv, NEW w \in Workers
  PROVE  /\ pc[w] \in Calls /\ mem[w] \in MemoryAt(pc[w])
         /\ ScenariosOK /\ RunsOK /\ WorkersOK
BY DEF TypeInv, TypeOK, WorkersOK, ScenariosOK, RunsOK

\* update_scenario_state, whatever handler calls it.
LEMMA StateReadType ==
  ASSUME TypeInv, NEW w \in Workers, NEW from, NEW save \in Calls, NEW after \in Calls,
         StateRead(w, from, save, after), mem[w] \in MemoryAt(save), mem[w] \in MemoryAt(after),
         save \in {"validate_put", "run_put"}
  PROVE  TypeInv'
<1>1. CASE mem[w].s \in DOMAIN scenarios
  <2>1. Remember(w, from, save, [mem[w] EXCEPT !.doc = scenarios[mem[w].s]])
    BY <1>1 DEF StateRead
  <2>2. scenarios[mem[w].s] \in ScenarioRow
    BY <1>1, WorkerHolds DEF ScenariosOK
  <2>3. [mem[w] EXCEPT !.doc = scenarios[mem[w].s]] \in MemoryAt(save)
    <3>1. CASE save = "validate_put"
      <4>1. MemoryAt(save) = [s : Ids, doc : ScenarioRow]
        BY <3>1, Memories DEF ValidateCalls
      <4> QED BY <4>1, <2>2
    <3>2. CASE save = "run_put"
      <4>1. MemoryAt(save) = [s : Ids, doc : ScenarioRow, r : Ids, status : {"OPTIMAL", "FEASIBLE"}]
        BY <3>2, Memories DEF RunCalls
      <4> QED BY <4>1, <2>2
    <3> QED BY <3>1, <3>2
  <2>4. WorkersOK' /\ quota' = quota
    BY <2>1, <2>3, WorkerHolds, RememberKeepsWorkers
  <2> QED BY <2>4 DEF StateRead, tables, TypeInv, TypeOK, ScenariosOK, RunsOK
<1>2. CASE mem[w].s \notin DOMAIN scenarios
  <2>1. Continue(w, from, after)
    BY <1>2 DEF StateRead
  <2>2. WorkersOK' /\ quota' = quota
    BY <2>1, WorkerHolds, ContinueKeepsWorkers
  <2> QED BY <2>2 DEF StateRead, tables, TypeInv, TypeOK, ScenariosOK, RunsOK
<1> QED BY <1>1, <1>2

LEMMA StateSaveType ==
  ASSUME TypeInv, NEW w \in Workers, NEW from, NEW after \in Calls,
         NEW state \in {"READY_TO_SOLVE", "SOLVED"}, StateSave(w, from, state, after),
         mem[w] \in MemoryAt(after), mem[w].s \in Ids, mem[w].doc \in ScenarioRow
  PROVE  TypeInv'
<1> DEFINE doc == [mem[w].doc EXCEPT !.state = state]
<1>1. doc.state = state /\ doc.input = mem[w].doc.input /\ doc.parent = mem[w].doc.parent
  BY DEF ScenarioRow
<1>2. SaveScenario(mem[w].s, doc) /\ Continue(w, from, after)
  BY DEF StateSave
<1> HIDE DEF doc
<1>3. ScenariosOK'
  BY <1>1, <1>2, WorkerHolds, SaveScenarioType DEF ScenarioRow
<1>4. WorkersOK' /\ quota' = quota
  BY <1>2, WorkerHolds, ContinueKeepsWorkers
<1> QED BY <1>3, <1>4 DEF StateSave, TypeInv, TypeOK, ScenariosOK, RunsOK

\* Trace.
LEMMA TraceType ==
  ASSUME TypeInv, NEW w \in Workers, NEW from, NEW after \in Calls, NEW s \in Ids, NEW event,
         Continue(w, from, after), after = "idle" \/ mem[w] \in MemoryAt(after), Trace(s, event),
         UNCHANGED <<scenarios, runs, decisions, seq, lock>>
  PROVE  TypeInv'
<1>1. WorkersOK' /\ quota' = quota
  BY WorkerHolds, ContinueKeepsWorkers
<1> QED BY <1>1 DEF Trace, TypeInv, TypeOK, ScenariosOK, RunsOK

\* What a scan of a finite table may return.
LEMMA HighestBounds ==
  ASSUME NEW S, IsFiniteSet(S), S \subseteq Nat
  PROVE  Highest(S) \in Nat /\ \A n \in S : n <= Highest(S)
<1>1. CASE S = {}
  BY <1>1 DEF Highest
<1>2. CASE S # {}
  <2>1. S \subseteq Int
    OBVIOUS
  <2>2. \E n \in S : \A m \in S : m <= n
    BY <1>2, <2>1, MaximumExists
  <2> QED BY <1>2, <2>2 DEF Highest
<1> QED BY <1>1, <1>2

LEMMA NumbersFinite ==
  ASSUME NEW table, NEW kind, IsFiniteSet(DOMAIN table), DOMAIN table \subseteq Ids
  PROVE  Numbers(table, kind) \subseteq Nat /\ IsFiniteSet(Numbers(table, kind))
<1> DEFINE rows == {i \in DOMAIN table : i[1] = kind}
           number == [i \in rows |-> i[2]]
<1>1. IsFiniteSet(rows)
  BY FS_Subset
<1>2. number \in Surjection(rows, Numbers(table, kind))
  BY DEF Surjection, Numbers
<1>3. IsFiniteSet(Numbers(table, kind))
  BY <1>1, <1>2, FS_Surjection
<1> QED BY <1>3 DEF Numbers, Ids

\* Taking a number.
LEMMA NumberType ==
  ASSUME TypeInv, NEW name \in {"scenario", "run", "alternative"}, NEW table, NEW kind,
         IsFiniteSet(DOMAIN table), DOMAIN table \subseteq Ids,
         Number(name, Numbers(table, kind))
  PROVE  /\ seq' \in [{"scenario", "run", "alternative"} -> Nat \cup {Unread}]
         /\ seq'[name] \in Nat
<1>1. PICK last \in IF seq[name] = Unread THEN Scanned(Numbers(table, kind)) ELSE {seq[name]} :
        seq' = [seq EXCEPT ![name] = last + 1]
  BY DEF Number
<1>2. seq \in [{"scenario", "run", "alternative"} -> Nat \cup {Unread}]
  BY DEF TypeInv, TypeOK
<1>3. last \in Nat
  BY <1>1, <1>2, NumbersFinite, HighestBounds DEF Scanned
<1> QED BY <1>1, <1>2, <1>3

LEMMA CreateType ==
  ASSUME TypeInv, NEW w \in Workers, CreateRequest(w)
  PROVE  TypeInv'
<1>1. CASE CreateNumber(w)
  <2>1. PICK candidates \in BOOLEAN, parent \in {Nothing} \cup Nameable :
          /\ Number("scenario", Numbers(scenarios, "BASE"))
          /\ Arrive(w, "create", "create_save",
               [s |-> <<"BASE", seq'["scenario"]>>,
                doc |-> [state |-> "VALIDATION_REQUIRED", parent |-> parent,
                         input |-> [candidates |-> candidates, changed |-> Nothing]]])
          /\ UNCHANGED <<tables, lock>>
    BY <1>1 DEF CreateNumber
  <2> DEFINE read == [s |-> <<"BASE", seq'["scenario"]>>,
                      doc |-> [state |-> "VALIDATION_REQUIRED", parent |-> parent,
                               input |-> [candidates |-> candidates, changed |-> Nothing]]]
  <2>2. /\ seq' \in [{"scenario", "run", "alternative"} -> Nat \cup {Unread}]
        /\ seq'["scenario"] \in Nat
    BY <2>1, WorkerHolds, NumberType DEF ScenariosOK
  <2>3. read \in MemoryAt("create_save")
    BY <2>2, ConstantsAssumption, Memories DEF CreateCalls, NewScenario, Ids
  <2> HIDE DEF read
  <2>4. WorkersOK' /\ quota' \in [Kinds -> Nat]
    BY <2>1, <2>3, ArriveKeepsWorkers DEF Calls, CreateCalls, Kinds, read
  <2> QED BY <2>1, <2>2, <2>4 DEF tables, TypeInv, TypeOK, ScenariosOK, RunsOK
<1>2. CASE CreateSave(w)
  <2>1. mem[w] \in [s : Ids, doc : NewScenario] /\ mem[w] \in MemoryAt("create_trace")
    BY <1>2, WorkerHolds, Memories DEF CreateSave, Continue, CreateCalls
  <2>2. ScenariosOK'
    BY <1>2, <2>1, WorkerHolds, SaveScenarioType DEF CreateSave, NewScenario
  <2>3. WorkersOK' /\ quota' = quota
    BY <1>2, <2>1, WorkerHolds, ContinueKeepsWorkers DEF CreateSave, Calls, CreateCalls
  <2> QED BY <1>2, <2>2, <2>3 DEF CreateSave, TypeInv, TypeOK, ScenariosOK, RunsOK
<1>3. CASE CreateTrace(w)
  <2>1. pc[w] = "create_trace"
    BY <1>3 DEF CreateTrace, Continue
  <2>2. mem[w] \in [s : Ids, doc : NewScenario]
    BY <2>1, WorkerHolds, Memories DEF CreateCalls
  <2> QED BY <1>3, <2>2, TraceType DEF CreateTrace, Calls
<1> QED BY <1>1, <1>2, <1>3 DEF CreateRequest

LEMMA ValidateType ==
  ASSUME TypeInv, NEW w \in Workers, ValidateRequest(w)
  PROVE  TypeInv'
<1>1. CASE ValidateRead(w)
  <2>1. PICK s \in DOMAIN scenarios :
          Arrive(w, "validate", "validate_save", [s |-> s, doc |-> scenarios[s]])
    BY <1>1 DEF ValidateRead
  <2>2. [s |-> s, doc |-> scenarios[s]] \in MemoryAt("validate_save")
    BY WorkerHolds, Memories DEF ValidateCalls, ScenariosOK
  <2>3. WorkersOK' /\ quota' \in [Kinds -> Nat]
    BY <2>1, <2>2, ArriveKeepsWorkers DEF Calls, ValidateCalls, Kinds
  <2> QED BY <1>1, <2>3 DEF ValidateRead, tables, TypeInv, TypeOK, ScenariosOK, RunsOK
<1> SUFFICES ASSUME pc[w] \in ValidateCalls PROVE TypeInv'
  BY <1>1 DEF ValidateRequest, ValidateSave, ValidateStateRead, StateRead, ValidateStateSave,
              StateSave, ValidateTrace, Continue, ValidateCalls
<1>2. /\ mem[w] \in [s : Ids, doc : ScenarioRow]
      /\ \A c \in ValidateCalls : mem[w] \in MemoryAt(c) /\ c \in Calls
  BY WorkerHolds, Memories DEF Calls
<1>3. CASE ValidateSave(w)
  <2>1. WorkersOK' /\ quota' = quota
    <3> DEFINE to == IF mem[w].doc.input.candidates /\ mem[w].doc.state = "VALIDATION_REQUIRED"
                     THEN "validate_get" ELSE "validate_trace"
    <3>1. to \in Calls /\ mem[w] \in MemoryAt(to) /\ Continue(w, "validate_save", to)
      BY <1>2, <1>3 DEF ValidateSave, ValidateCalls
    <3> QED BY <3>1, WorkerHolds, ContinueKeepsWorkers
  <2>2. ScenariosOK'
    <3>1. CASE mem[w].s \in DOMAIN scenarios
      <4>1. scenarios' = [scenarios EXCEPT ![mem[w].s].validated = TRUE]
        BY <1>3, <3>1 DEF ValidateSave
      <4>2. [scenarios[mem[w].s] EXCEPT !.validated = TRUE] \in ScenarioRow
        BY <3>1, WorkerHolds DEF ScenariosOK, ScenarioRow
      <4> QED BY <4>1, <4>2, WorkerHolds DEF ScenariosOK
    <3>2. CASE mem[w].s \notin DOMAIN scenarios
      BY <1>3, <3>2, WorkerHolds DEF ValidateSave, ScenariosOK
    <3> QED BY <3>1, <3>2
  <2> QED BY <1>3, <2>1, <2>2 DEF ValidateSave, TypeInv, TypeOK, ScenariosOK, RunsOK
<1>4. CASE ValidateStateRead(w)
  BY <1>2, <1>4, StateReadType DEF ValidateStateRead, ValidateCalls
<1>5. CASE ValidateStateSave(w)
  BY <1>2, <1>5, StateSaveType DEF ValidateStateSave, ValidateCalls
<1>6. CASE ValidateTrace(w)
  BY <1>2, <1>6, TraceType DEF ValidateTrace, Calls
<1> QED BY <1>1, <1>3, <1>4, <1>5, <1>6 DEF ValidateRequest

LEMMA RunType ==
  ASSUME TypeInv, NEW w \in Workers, RunRequest(w)
  PROVE  TypeInv'
<1>1. CASE RunRead(w)
  <2>1. PICK s \in DOMAIN scenarios :
          Arrive(w, "run", "run_number",
                 [s |-> s, doc |-> scenarios[s], r |-> Nothing, status |-> Nothing])
    BY <1>1 DEF RunRead
  <2>2. [s |-> s, doc |-> scenarios[s], r |-> Nothing, status |-> Nothing]
          \in MemoryAt("run_number")
    BY WorkerHolds, Memories DEF ScenariosOK
  <2>3. WorkersOK' /\ quota' \in [Kinds -> Nat]
    BY <2>1, <2>2, ArriveKeepsWorkers DEF Calls, Kinds
  <2> QED BY <1>1, <2>3 DEF RunRead, tables, TypeInv, TypeOK, ScenariosOK, RunsOK
<1>2. CASE RunRefused(w)
  <2>1. WorkersOK' /\ quota' = quota
    BY <1>2, WorkerHolds, ContinueKeepsWorkers DEF RunRefused, Calls
  <2> QED BY <1>2, <2>1 DEF RunRefused, tables, TypeInv, TypeOK, ScenariosOK, RunsOK
<1>3. CASE RunSolve(w)
  <2>1. PICK result \in IF mem[w].doc.input.candidates THEN SolverResults ELSE {"OPTIMAL"} :
          IF result = "ERROR"
          THEN Continue(w, "run_number", "idle")
          ELSE Remember(w, "run_number", "run_save",
                 [mem[w] EXCEPT !.r = <<"BASE", seq'["run"]>>, !.status = result])
    BY <1>3 DEF RunSolve
  <2>2. /\ seq' \in [{"scenario", "run", "alternative"} -> Nat \cup {Unread}]
        /\ seq'["run"] \in Nat
    BY <1>3, WorkerHolds, NumberType DEF RunSolve, RunsOK
  <2>3. WorkersOK' /\ quota' = quota
    <3>1. CASE result = "ERROR"
      BY <2>1, <3>1, WorkerHolds, ContinueKeepsWorkers DEF Calls
    <3>2. CASE result # "ERROR"
      <4> DEFINE read == [mem[w] EXCEPT !.r = <<"BASE", seq'["run"]>>, !.status = result]
      <4>1. result \in {"OPTIMAL", "FEASIBLE"}
        BY <3>2, ConstantsAssumption
      <4>2. mem[w] \in [s : Ids, doc : ScenarioRow, r : {Nothing}, status : {Nothing}]
        BY <1>3, WorkerHolds, Memories DEF RunSolve
      <4>3. read \in MemoryAt("run_save")
        BY <2>2, <4>1, <4>2, Memories DEF RunCalls, Ids
      <4>4. Remember(w, "run_number", "run_save", read)
        BY <2>1, <3>2
      <4> HIDE DEF read
      <4> QED BY <4>3, <4>4, WorkerHolds, RememberKeepsWorkers DEF Calls, RunCalls
    <3> QED BY <3>1, <3>2
  <2> QED BY <1>3, <2>2, <2>3 DEF RunSolve, tables, TypeInv, TypeOK, ScenariosOK, RunsOK
<1> SUFFICES ASSUME pc[w] \in RunCalls PROVE TypeInv'
  BY <1>1, <1>2, <1>3 DEF RunRequest, RunSave, RunStateRead, StateRead, RunStateSave,
              StateSave, RunTrace, Continue, RunCalls
<1>4. /\ mem[w] \in [s : Ids, doc : ScenarioRow, r : Ids, status : {"OPTIMAL", "FEASIBLE"}]
      /\ \A c \in RunCalls : mem[w] \in MemoryAt(c) /\ c \in Calls
  BY WorkerHolds, Memories DEF Calls
<1>5. CASE RunSave(w)
  <2>1. CASE mem[w].s \in DOMAIN scenarios
    <3> DEFINE doc == [scenario |-> mem[w].s, status |-> mem[w].status, parent |-> Nothing,
                       outcomes |-> [o \in Orders |-> NotSearched]]
    <3>1. doc.outcomes \in Outcomes /\ doc.scenario = mem[w].s /\ doc.status = mem[w].status
          /\ doc.parent = Nothing
      BY DEF Outcomes, NotSearched
    <3>2. Continue(w, "run_save", "run_get") /\ SaveRun(mem[w].r, doc)
      BY <1>5, <2>1 DEF RunSave
    <3> HIDE DEF doc
    <3>3. RunsOK'
      BY <1>4, <3>1, <3>2, WorkerHolds, SaveRunType
    <3>4. WorkersOK' /\ quota' = quota
      BY <1>4, <3>2, WorkerHolds, ContinueKeepsWorkers DEF RunCalls
    <3> QED BY <1>5, <3>3, <3>4 DEF RunSave, TypeInv, TypeOK, ScenariosOK, RunsOK
  <2>2. CASE mem[w].s \notin DOMAIN scenarios
    <3>1. WorkersOK' /\ quota' = quota
      BY <1>5, <2>2, WorkerHolds, ContinueKeepsWorkers DEF RunSave, Calls
    <3> QED BY <1>5, <2>2, <3>1 DEF RunSave, TypeInv, TypeOK, ScenariosOK, RunsOK
  <2> QED BY <2>1, <2>2
<1>6. CASE RunStateRead(w)
  BY <1>4, <1>6, StateReadType DEF RunStateRead, RunCalls
<1>7. CASE RunStateSave(w)
  BY <1>4, <1>7, StateSaveType DEF RunStateSave, RunCalls
<1>8. CASE RunTrace(w)
  BY <1>4, <1>8, TraceType DEF RunTrace, Calls
<1> QED BY <1>1, <1>2, <1>3, <1>5, <1>6, <1>7, <1>8 DEF RunRequest

\* A row with one column changed.
LEMMA OutcomesChange ==
  ASSUME NEW doc \in RunRow, NEW o \in Orders,
         NEW outcome, outcome \in [alternative_state : {"NOT_SEARCHED", "NONE", "AVAILABLE"},
                                   link : Ids \cup {Nothing}]
  PROVE  LET new == [doc EXCEPT !.outcomes[o] = outcome]
         IN /\ new \in RunRow
            /\ new.scenario = doc.scenario /\ new.status = doc.status /\ new.parent = doc.parent
            /\ new.outcomes = [doc.outcomes EXCEPT ![o] = outcome]
<1>1. [doc.outcomes EXCEPT ![o] = outcome] \in Outcomes
  BY DEF RunRow, Outcomes
<1> QED BY <1>1 DEF RunRow

LEMMA AlternativeStartType ==
  ASSUME TypeInv, NEW w \in Workers, AltRead(w) \/ AltNoScenario(w) \/ AltSearch(w)
  PROVE  TypeInv'
<1>1. CASE AltRead(w)
  <2>1. PICK r \in DOMAIN runs, o \in Orders :
          Arrive(w, "alternative", "alt_search",
                 [r |-> r, o |-> o, doc |-> runs[r], verdict |-> Nothing, n |-> Nothing])
    BY <1>1 DEF AltRead
  <2>2. [r |-> r, o |-> o, doc |-> runs[r], verdict |-> Nothing, n |-> Nothing]
          \in MemoryAt("alt_search")
    BY WorkerHolds, Memories DEF RunsOK
  <2>3. WorkersOK' /\ quota' \in [Kinds -> Nat]
    BY <2>1, <2>2, ArriveKeepsWorkers DEF Calls, Kinds
  <2> QED BY <1>1, <2>3 DEF AltRead, tables, TypeInv, TypeOK, ScenariosOK, RunsOK
<1>2. CASE AltNoScenario(w)
  <2>1. WorkersOK' /\ quota' = quota
    BY <1>2, WorkerHolds, ContinueKeepsWorkers DEF AltNoScenario, Calls
  <2> QED BY <1>2, <2>1 DEF AltNoScenario, tables, TypeInv, TypeOK, ScenariosOK, RunsOK
<1>3. CASE AltSearch(w)
  <2>1. /\ seq' \in [{"scenario", "run", "alternative"} -> Nat \cup {Unread}]
        /\ seq'["alternative"] \in Nat
    BY <1>3, WorkerHolds, NumberType DEF AltSearch, RunsOK
  <2>2. WorkersOK' /\ quota' = quota
    <3>1. CASE Continue(w, "alt_search", "idle")
      BY <3>1, WorkerHolds, ContinueKeepsWorkers DEF Calls
    <3>2. CASE ~ Continue(w, "alt_search", "idle")
      <4>1. PICK verdict \in Verdicts :
              Remember(w, "alt_search", IF verdict = "NONE" THEN "alt_none" ELSE "alt_scenario",
                       [mem[w] EXCEPT !.verdict = verdict, !.n = seq'["alternative"]])
        BY <1>3, <3>2 DEF AltSearch
      <4> DEFINE read == [mem[w] EXCEPT !.verdict = verdict, !.n = seq'["alternative"]]
                 to == IF verdict = "NONE" THEN "alt_none" ELSE "alt_scenario"
      <4>2. mem[w] \in [r : Ids, o : Orders, doc : RunRow, verdict : {Nothing}, n : {Nothing}]
        BY <1>3, WorkerHolds, Memories DEF AltSearch
      <4>3. to \in AltCalls /\ to \in Calls
        BY DEF AltCalls, Calls
      <4>4. read \in MemoryAt(to)
        BY <2>1, <4>2, <4>3, Memories
      <4> HIDE DEF read, to
      <4>5. Remember(w, "alt_search", to, read)
        BY <4>1 DEF read, to
      <4> QED BY <4>3, <4>4, <4>5, WorkerHolds, RememberKeepsWorkers
    <3> QED BY <3>1, <3>2
  <2> QED BY <1>3, <2>1, <2>2 DEF AltSearch, tables, TypeInv, TypeOK, ScenariosOK, RunsOK
<1> QED BY <1>1, <1>2, <1>3

\* The memory every call after the search shares.
LEMMA AlternativeHolds ==
  ASSUME TypeInv, NEW w \in Workers, pc[w] \in AltCalls
  PROVE  /\ mem[w] \in [r : Ids, o : Orders, doc : RunRow, verdict : Verdicts, n : Nat]
         /\ \A c \in AltCalls : mem[w] \in MemoryAt(c) /\ c \in Calls
         /\ Derived(w) \in Ids
<1>1. mem[w] \in [r : Ids, o : Orders, doc : RunRow, verdict : Verdicts, n : Nat]
  BY WorkerHolds, Memories
<1>2. \A c \in AltCalls : mem[w] \in MemoryAt(c) /\ c \in Calls
  BY <1>1, Memories DEF Calls
<1> QED BY <1>1, <1>2 DEF Derived, Ids

\* Writing the run searched from back with one outcome changed.
LEMMA WriteOutcomeType ==
  ASSUME TypeInv, NEW w \in Workers, pc[w] \in AltCalls,
         NEW outcome, outcome \in [alternative_state : {"NOT_SEARCHED", "NONE", "AVAILABLE"},
                                   link : Ids \cup {Nothing}],
         SaveRun(mem[w].r, [mem[w].doc EXCEPT !.outcomes[mem[w].o] = outcome])
  PROVE  /\ RunsOK'
         /\ DOMAIN runs' = DOMAIN runs \cup {mem[w].r}
         /\ \A q \in DOMAIN runs : q # mem[w].r => runs'[q] = runs[q]
         /\ runs'[mem[w].r] =
              [scenario |-> mem[w].doc.scenario, status |-> mem[w].doc.status,
               parent |-> mem[w].doc.parent,
               outcomes |-> [mem[w].doc.outcomes EXCEPT ![mem[w].o] = outcome],
               explanation |-> IF mem[w].r \in DOMAIN runs
                               THEN runs[mem[w].r].explanation ELSE Nothing]
<1> DEFINE doc == [mem[w].doc EXCEPT !.outcomes[mem[w].o] = outcome]
<1>1. mem[w].r \in Ids /\ mem[w].o \in Orders /\ mem[w].doc \in RunRow
  BY AlternativeHolds
<1>2. /\ doc \in RunRow
      /\ doc.scenario = mem[w].doc.scenario /\ doc.status = mem[w].doc.status
      /\ doc.parent = mem[w].doc.parent
      /\ doc.outcomes = [mem[w].doc.outcomes EXCEPT ![mem[w].o] = outcome]
  BY <1>1, OutcomesChange
<1>3. SaveRun(mem[w].r, doc)
  OBVIOUS
<1>4. /\ doc.scenario \in Ids /\ doc.status \in {"OPTIMAL", "FEASIBLE"}
      /\ doc.parent \in Ids \cup {Nothing} /\ doc.outcomes \in Outcomes
  BY <1>2 DEF RunRow
<1> HIDE DEF doc
<1>5. /\ RunsOK'
      /\ DOMAIN runs' = DOMAIN runs \cup {mem[w].r}
      /\ \A q \in DOMAIN runs : q # mem[w].r => runs'[q] = runs[q]
      /\ runs'[mem[w].r] =
           [scenario |-> doc.scenario, status |-> doc.status, parent |-> doc.parent,
            outcomes |-> doc.outcomes,
            explanation |-> IF mem[w].r \in DOMAIN runs
                            THEN runs[mem[w].r].explanation ELSE Nothing]
  BY <1>1, <1>3, <1>4, WorkerHolds, SaveRunType
<1> QED BY <1>2, <1>5

\* The scenario and the run a search makes, as they are stored.
LEMMA SaveDerivedScenario ==
  ASSUME TypeInv, NEW w \in Workers, AltSaveScenario(w)
  PROVE  /\ ScenariosOK'
         /\ DOMAIN scenarios' = DOMAIN scenarios \cup {Derived(w)}
         /\ \A t \in DOMAIN scenarios : t # Derived(w) => scenarios'[t] = scenarios[t]
         /\ scenarios'[Derived(w)] =
              [state |-> "SOLVED", input |-> [candidates |-> TRUE, changed |-> mem[w].o],
               parent |-> mem[w].doc.scenario,
               validated |-> Derived(w) \in DOMAIN scenarios /\ scenarios[Derived(w)].validated]
<1> DEFINE doc == [state |-> "SOLVED", parent |-> mem[w].doc.scenario,
                   input |-> [candidates |-> TRUE, changed |-> mem[w].o]]
<1>1. pc[w] \in AltCalls
  BY DEF AltSaveScenario, Continue, AltCalls
<1>2. Derived(w) \in Ids /\ mem[w].doc.scenario \in Ids /\ mem[w].o \in Orders
  BY <1>1, AlternativeHolds DEF RunRow
<1>3. /\ doc.state = "SOLVED" /\ doc.parent = mem[w].doc.scenario
      /\ doc.input = [candidates |-> TRUE, changed |-> mem[w].o]
      /\ SaveScenario(Derived(w), doc)
  BY DEF AltSaveScenario
<1> HIDE DEF doc
<1>4. /\ doc.input \in [candidates : BOOLEAN, changed : Orders \cup {Nothing}]
      /\ doc.state \in {"VALIDATION_REQUIRED", "READY_TO_SOLVE", "SOLVED"}
      /\ doc.parent \in Ids \cup {Nothing}
  BY <1>2, <1>3
<1>5. /\ ScenariosOK'
      /\ DOMAIN scenarios' = DOMAIN scenarios \cup {Derived(w)}
      /\ \A t \in DOMAIN scenarios : t # Derived(w) => scenarios'[t] = scenarios[t]
      /\ scenarios'[Derived(w)] =
           [state |-> doc.state, input |-> doc.input, parent |-> doc.parent,
            validated |-> Derived(w) \in DOMAIN scenarios /\ scenarios[Derived(w)].validated]
  BY <1>2, <1>3, <1>4, WorkerHolds, SaveScenarioType
<1> QED BY <1>3, <1>5

LEMMA SaveDerivedRun ==
  ASSUME TypeInv, NEW w \in Workers, AltSaveRun(w), Derived(w) \in DOMAIN scenarios
  PROVE  /\ RunsOK'
         /\ DOMAIN runs' = DOMAIN runs \cup {Derived(w)}
         /\ \A q \in DOMAIN runs : q # Derived(w) => runs'[q] = runs[q]
         /\ runs'[Derived(w)].scenario = Derived(w) /\ runs'[Derived(w)].parent = mem[w].r
         /\ \A o \in Orders : runs'[Derived(w)].outcomes[o].link = Nothing
<1>1. PICK status \in SolverResults \ {"ERROR"} :
        SaveRun(Derived(w),
          [scenario |-> Derived(w), status |-> status, parent |-> mem[w].r,
           outcomes |-> [o \in Orders |-> IF o = mem[w].o THEN Available(Nothing)
                                          ELSE NotSearched]])
  BY DEF AltSaveRun
<1> DEFINE outcomes == [o \in Orders |-> IF o = mem[w].o THEN Available(Nothing) ELSE NotSearched]
           doc == [scenario |-> Derived(w), status |-> status, parent |-> mem[w].r,
                   outcomes |-> outcomes]
<1>2. outcomes \in Outcomes /\ \A o \in Orders : outcomes[o].link = Nothing
  BY DEF Outcomes, Available, NotSearched
<1>3. pc[w] \in AltCalls /\ status \in {"OPTIMAL", "FEASIBLE"}
  BY ConstantsAssumption DEF AltSaveRun, AltCalls
<1>4. Derived(w) \in Ids /\ mem[w].r \in Ids
  BY <1>3, AlternativeHolds
<1> HIDE DEF outcomes
<1>5. /\ doc.scenario = Derived(w) /\ doc.status = status /\ doc.parent = mem[w].r
      /\ doc.outcomes = outcomes
  OBVIOUS
<1>6. SaveRun(Derived(w), doc)
  BY <1>1 DEF outcomes
<1> HIDE DEF doc
<1>7. /\ RunsOK'
      /\ DOMAIN runs' = DOMAIN runs \cup {Derived(w)}
      /\ \A q \in DOMAIN runs : q # Derived(w) => runs'[q] = runs[q]
      /\ runs'[Derived(w)] =
           [scenario |-> doc.scenario, status |-> doc.status, parent |-> doc.parent,
            outcomes |-> doc.outcomes,
            explanation |-> IF Derived(w) \in DOMAIN runs
                            THEN runs[Derived(w)].explanation ELSE Nothing]
  BY <1>2, <1>3, <1>4, <1>5, <1>6, WorkerHolds, SaveRunType
<1> QED BY <1>2, <1>5, <1>7

LEMMA AlternativeSaveType ==
  ASSUME TypeInv, NEW w \in Workers,
         AltNone(w) \/ AltSaveScenario(w) \/ AltSaveRun(w) \/ AltSaveValidation(w)
  PROVE  TypeInv'
<1>1. pc[w] \in AltCalls
  BY DEF AltNone, AltSaveScenario, AltSaveRun, AltSaveValidation, Continue, AltCalls
<1>2. \A c \in AltCalls : mem[w] \in MemoryAt(c) /\ c \in Calls
  BY <1>1, AlternativeHolds
<1>3. ASSUME NEW from, NEW to \in AltCalls \cup {"idle"}, Continue(w, from, to)
      PROVE  WorkersOK' /\ quota' = quota
  BY <1>2, <1>3, WorkerHolds, ContinueKeepsWorkers DEF Calls
<1>4. CASE AltNone(w)
  <2>1. WorkersOK' /\ quota' = quota
    BY <1>3, <1>4 DEF AltNone, AltCalls
  <2>2. RunsOK'
    <3>1. NoneFound \in [alternative_state : {"NOT_SEARCHED", "NONE", "AVAILABLE"},
                         link : Ids \cup {Nothing}]
      BY DEF NoneFound
    <3>2. CASE mem[w].doc.scenario \in DOMAIN scenarios
      BY <1>1, <1>4, <3>1, <3>2, WriteOutcomeType DEF AltNone
    <3>3. CASE mem[w].doc.scenario \notin DOMAIN scenarios
      BY <1>4, <3>3, WorkerHolds DEF AltNone, RunsOK
    <3> QED BY <3>2, <3>3
  <2> QED BY <1>4, <2>1, <2>2 DEF AltNone, TypeInv, TypeOK, ScenariosOK, RunsOK
<1>5. CASE AltSaveScenario(w)
  <2>1. WorkersOK' /\ quota' = quota
    BY <1>3, <1>5 DEF AltSaveScenario, AltCalls
  <2> QED BY <1>5, <2>1, SaveDerivedScenario DEF AltSaveScenario, TypeInv, TypeOK, ScenariosOK, RunsOK
<1>6. CASE AltSaveRun(w)
  <2>1. WorkersOK' /\ quota' = quota
    BY <1>3, <1>6 DEF AltSaveRun, AltCalls
  <2>2. RunsOK'
    BY <1>6, SaveDerivedRun, WorkerHolds DEF AltSaveRun, RunsOK
  <2> QED BY <1>6, <2>1, <2>2 DEF AltSaveRun, TypeInv, TypeOK, ScenariosOK, RunsOK
<1>7. CASE AltSaveValidation(w)
  <2>1. WorkersOK' /\ quota' = quota
    BY <1>3, <1>7 DEF AltSaveValidation, AltCalls
  <2>2. ScenariosOK'
    <3>1. CASE Derived(w) \in DOMAIN scenarios
      <4>1. scenarios' = [scenarios EXCEPT ![Derived(w)].validated = TRUE]
        BY <1>7, <3>1 DEF AltSaveValidation
      <4>2. [scenarios[Derived(w)] EXCEPT !.validated = TRUE] \in ScenarioRow
        BY <3>1, WorkerHolds DEF ScenariosOK, ScenarioRow
      <4> QED BY <4>1, <4>2, WorkerHolds DEF ScenariosOK
    <3>2. CASE Derived(w) \notin DOMAIN scenarios
      BY <1>7, <3>2, WorkerHolds DEF AltSaveValidation, ScenariosOK
    <3> QED BY <3>1, <3>2
  <2> QED BY <1>7, <2>1, <2>2 DEF AltSaveValidation, TypeInv, TypeOK, ScenariosOK, RunsOK
<1> QED BY <1>4, <1>5, <1>6, <1>7

LEMMA AlternativePublishType ==
  ASSUME TypeInv, NEW w \in Workers,
         \/ OutcomeRead(w) \/ OutcomeSave(w) \/ AltClearExplanation(w)
         \/ AltTrace(w) \/ AltTraceDerived(w)
  PROVE  TypeInv'
<1>1. pc[w] \in AltCalls
  BY DEF OutcomeRead, OutcomeSave, AltClearExplanation, AltTrace, AltTraceDerived, Continue, AltCalls
<1>2. /\ mem[w] \in [r : Ids, o : Orders, doc : RunRow, verdict : Verdicts, n : Nat]
      /\ \A c \in AltCalls : mem[w] \in MemoryAt(c) /\ c \in Calls
      /\ Derived(w) \in Ids
  BY <1>1, AlternativeHolds
<1>3. ASSUME NEW from, NEW to \in AltCalls \cup {"idle"}, Continue(w, from, to)
      PROVE  WorkersOK' /\ quota' = quota
  BY <1>2, <1>3, WorkerHolds, ContinueKeepsWorkers DEF Calls
<1>4. CASE OutcomeRead(w)
  <2>1. WorkersOK' /\ quota' = quota
    <3>1. CASE mem[w].r \in DOMAIN runs
      <4>1. runs[mem[w].r] \in RunRow
        BY <3>1, WorkerHolds DEF RunsOK
      <4>2. [mem[w] EXCEPT !.doc = runs[mem[w].r]] \in MemoryAt("alt_outcome")
        BY <1>2, <4>1, Memories DEF AltCalls
      <4> QED BY <1>2, <1>4, <3>1, <4>2, WorkerHolds, RememberKeepsWorkers DEF OutcomeRead, AltCalls
    <3>2. CASE mem[w].r \notin DOMAIN runs
      BY <1>3, <1>4, <3>2 DEF OutcomeRead, AltCalls
    <3> QED BY <3>1, <3>2
  <2>2. lock' \in Workers \cup {Nobody}
    BY <1>4 DEF OutcomeRead, TypeInv, TypeOK
  <2> QED BY <1>4, <2>1, <2>2 DEF OutcomeRead, tables, TypeInv, TypeOK, ScenariosOK, RunsOK
<1>5. CASE OutcomeSave(w)
  <2>1. WorkersOK' /\ quota' = quota
    BY <1>3, <1>5 DEF OutcomeSave, AltCalls
  <2>2. RunsOK'
    <3>1. Available(Derived(w)) \in [alternative_state : {"NOT_SEARCHED", "NONE", "AVAILABLE"},
                                     link : Ids \cup {Nothing}]
      BY <1>2 DEF Available
    <3>2. CASE mem[w].doc.scenario \in DOMAIN scenarios
      BY <1>1, <1>5, <3>1, <3>2, WriteOutcomeType DEF OutcomeSave
    <3>3. CASE mem[w].doc.scenario \notin DOMAIN scenarios
      BY <1>5, <3>3, WorkerHolds DEF OutcomeSave, RunsOK
    <3> QED BY <3>2, <3>3
  <2> QED BY <1>5, <2>1, <2>2 DEF OutcomeSave, TypeInv, TypeOK, ScenariosOK, RunsOK
<1>6. CASE AltClearExplanation(w)
  <2>1. WorkersOK' /\ quota' = quota
    BY <1>3, <1>6 DEF AltClearExplanation, AltCalls
  <2>2. RunsOK'
    BY <1>6, WorkerHolds DEF AltClearExplanation, RunsOK, RunRow
  <2> QED BY <1>6, <2>1, <2>2 DEF AltClearExplanation, TypeInv, TypeOK, ScenariosOK, RunsOK
<1>7. CASE AltTrace(w)
  <2> DEFINE to == IF mem[w].verdict = "FOUND" THEN "alt_trace_derived" ELSE "idle"
  <2>1. Continue(w, "alt_trace", to) /\ to \in Calls /\ (to = "idle" \/ mem[w] \in MemoryAt(to))
    BY <1>2, <1>7 DEF AltTrace, AltCalls, Calls
  <2>2. mem[w].doc.scenario \in Ids
    BY <1>2 DEF RunRow
  <2> HIDE DEF to
  <2> QED BY <1>7, <2>1, <2>2, TraceType DEF AltTrace
<1>8. CASE AltTraceDerived(w)
  BY <1>2, <1>8, TraceType DEF AltTraceDerived, Calls
<1> QED BY <1>4, <1>5, <1>6, <1>7, <1>8

LEMMA AlternativeType ==
  ASSUME TypeInv, NEW w \in Workers, AlternativeRequest(w)
  PROVE  TypeInv'
BY AlternativeStartType, AlternativeSaveType, AlternativePublishType DEF AlternativeRequest

LEMMA DecisionType ==
  ASSUME TypeInv, NEW w \in Workers, DecisionRequest(w)
  PROVE  TypeInv'
<1>1. CASE DecideRead(w)
  <2>1. PICK r \in DOMAIN runs, decision \in {"ACCEPTED", "HELD"} :
          Arrive(w, "decide", "decide_save",
                 [r |-> r, decision |-> decision, s |-> runs[r].scenario])
    BY <1>1 DEF DecideRead
  <2>2. [r |-> r, decision |-> decision, s |-> runs[r].scenario] \in MemoryAt("decide_save")
    BY WorkerHolds, Memories DEF DecideCalls, RunsOK, RunRow
  <2>3. WorkersOK' /\ quota' \in [Kinds -> Nat]
    BY <2>1, <2>2, ArriveKeepsWorkers DEF Calls, DecideCalls, Kinds
  <2> QED BY <1>1, <2>3 DEF DecideRead, tables, TypeInv, TypeOK, ScenariosOK, RunsOK
<1> SUFFICES ASSUME pc[w] \in DecideCalls PROVE TypeInv'
  BY <1>1 DEF DecisionRequest, DecideSave, DecideTrace, Continue, DecideCalls
<1>2. /\ mem[w] \in [r : Ids, decision : {"ACCEPTED", "HELD"}, s : Ids]
      /\ \A c \in DecideCalls : mem[w] \in MemoryAt(c) /\ c \in Calls
  BY WorkerHolds, Memories DEF Calls
<1>3. CASE DecideSave(w)
  <2>1. WorkersOK' /\ quota' = quota
    <3>1. PICK to \in {"decide_trace", "idle"} : Continue(w, "decide_save", to)
      BY <1>3 DEF DecideSave
    <3> QED BY <1>2, <3>1, WorkerHolds, ContinueKeepsWorkers DEF DecideCalls, Calls
  <2>2. \A d \in decisions' : d.run \in Ids /\ d.state \in {"ACCEPTED", "HELD"}
    BY <1>2, <1>3 DEF DecideSave, TypeInv, TypeOK
  <2> QED BY <1>3, <2>1, <2>2 DEF DecideSave, TypeInv, TypeOK, ScenariosOK, RunsOK
<1>4. CASE DecideTrace(w)
  BY <1>2, <1>4, TraceType DEF DecideTrace, Calls
<1> QED BY <1>1, <1>3, <1>4 DEF DecisionRequest

LEMMA ExplanationType ==
  ASSUME TypeInv, NEW w \in Workers, ExplanationRequest(w)
  PROVE  TypeInv'
<1>1. CASE ExplainRead(w)
  <2>1. PICK r \in DOMAIN runs :
          Arrive(w, "explain", "explain_check", [r |-> r, outcomes |-> runs[r].outcomes])
    BY <1>1 DEF ExplainRead
  <2>2. [r |-> r, outcomes |-> runs[r].outcomes] \in MemoryAt("explain_check")
    BY WorkerHolds, Memories DEF ExplainCalls, RunsOK, RunRow
  <2>3. WorkersOK' /\ quota' \in [Kinds -> Nat]
    BY <2>1, <2>2, ArriveKeepsWorkers DEF Calls, ExplainCalls, Kinds
  <2> QED BY <1>1, <2>3 DEF ExplainRead, tables, TypeInv, TypeOK, ScenariosOK, RunsOK
<1> SUFFICES ASSUME pc[w] \in ExplainCalls PROVE TypeInv'
  BY <1>1 DEF ExplanationRequest, ExplainCheck, ExplainSave, Continue, ExplainCalls
<1>2. /\ mem[w] \in [r : Ids, outcomes : Outcomes]
      /\ \A c \in ExplainCalls : mem[w] \in MemoryAt(c) /\ c \in Calls
  BY WorkerHolds, Memories DEF Calls
<1>3. CASE ExplainCheck(w)
  <2>1. WorkersOK' /\ quota' = quota
    <3>1. PICK to \in {"explain_save", "idle"} : Continue(w, "explain_check", to)
      BY <1>3 DEF ExplainCheck
    <3> QED BY <1>2, <3>1, WorkerHolds, ContinueKeepsWorkers DEF ExplainCalls, Calls
  <2> QED BY <1>3, <2>1 DEF ExplainCheck, tables, TypeInv, TypeOK, ScenariosOK, RunsOK
<1>4. CASE ExplainSave(w)
  <2>1. WorkersOK' /\ quota' = quota
    BY <1>2, <1>4, WorkerHolds, ContinueKeepsWorkers DEF ExplainSave, Calls
  <2>2. RunsOK'
    BY <1>2, <1>4, WorkerHolds DEF ExplainSave, RunsOK, RunRow
  <2> QED BY <1>4, <2>1, <2>2 DEF ExplainSave, TypeInv, TypeOK, ScenariosOK, RunsOK
<1> QED BY <1>1, <1>3, <1>4 DEF ExplanationRequest

LEMMA DeleteType ==
  ASSUME TypeInv, NEW w \in Workers, DeleteRequest(w)
  PROVE  TypeInv'
<1>1. CASE DeleteCheck(w)
  <2>1. PICK s \in DOMAIN scenarios :
          Arrive(w, "delete", "delete_list", [s |-> s, pending |-> {}])
    BY <1>1 DEF DeleteCheck
  <2>2. [s |-> s, pending |-> {}] \in MemoryAt("delete_list")
    BY WorkerHolds, Memories DEF DeleteCalls, ScenariosOK
  <2>3. WorkersOK' /\ quota' \in [Kinds -> Nat]
    BY <2>1, <2>2, ArriveKeepsWorkers DEF Calls, DeleteCalls, Kinds
  <2> QED BY <1>1, <2>3 DEF DeleteCheck, tables, TypeInv, TypeOK, ScenariosOK, RunsOK
<1> SUFFICES ASSUME pc[w] \in DeleteCalls PROVE TypeInv'
  BY <1>1 DEF DeleteRequest, DeleteList, DeleteDecisions, DeleteRuns, DeleteTrace, DeleteRow,
              Continue, Remember, DeleteCalls
<1>2. /\ mem[w] \in [s : Ids, pending : SUBSET Ids]
      /\ \A c \in DeleteCalls : mem[w] \in MemoryAt(c) /\ c \in Calls
  BY WorkerHolds, Memories DEF Calls
<1>3. ASSUME NEW pending, pending \subseteq Ids,
             NEW from, Remember(w, from, "delete_decisions", [mem[w] EXCEPT !.pending = pending])
      PROVE  WorkersOK' /\ quota' = quota
  <2>1. [mem[w] EXCEPT !.pending = pending] \in MemoryAt("delete_decisions")
    BY <1>2, <1>3, Memories DEF DeleteCalls
  <2> QED BY <1>3, <2>1, WorkerHolds, RememberKeepsWorkers DEF Calls, DeleteCalls
<1>4. CASE DeleteList(w)
  <2>1. RunsOf(mem[w].s) \subseteq Ids
    BY WorkerHolds DEF RunsOf, RunsOK
  <2>2. WorkersOK' /\ quota' = quota
    BY <1>3, <1>4, <2>1 DEF DeleteList
  <2> QED BY <1>4, <2>2 DEF DeleteList, tables, TypeInv, TypeOK, ScenariosOK, RunsOK
<1>5. CASE DeleteDecisions(w)
  <2>1. PICK r \in mem[w].pending :
          /\ Remember(w, "delete_decisions", "delete_decisions",
                      [mem[w] EXCEPT !.pending = mem[w].pending \ {r}])
          /\ decisions' = {d \in decisions : d.run # r}
    BY <1>5 DEF DeleteDecisions
  <2>2. mem[w].pending \ {r} \subseteq Ids
    BY <1>2
  <2>3. WorkersOK' /\ quota' = quota
    BY <1>3, <2>1, <2>2
  <2> QED BY <1>5, <2>1, <2>3 DEF DeleteDecisions, TypeInv, TypeOK, ScenariosOK, RunsOK
<1>6. CASE DeleteRuns(w)
  <2>1. WorkersOK' /\ quota' = quota
    <3>1. PICK to \in {"delete_trace", "idle"} : Continue(w, "delete_decisions", to)
      BY <1>6 DEF DeleteRuns
    <3> QED BY <1>2, <3>1, WorkerHolds, ContinueKeepsWorkers DEF DeleteCalls, Calls
  <2>2. RunsOK'
    <3>1. CASE runs' = Without(runs, RunsOf(mem[w].s))
      BY <3>1, WorkerHolds, FS_Subset DEF Without, Restrict, RunsOK
    <3>2. CASE runs' = runs
      BY <3>2, WorkerHolds DEF RunsOK
    <3> QED BY <1>6, <3>1, <3>2 DEF DeleteRuns
  <2> QED BY <1>6, <2>1, <2>2 DEF DeleteRuns, TypeInv, TypeOK, ScenariosOK, RunsOK
<1>7. CASE DeleteTrace(w)
  <2>1. WorkersOK' /\ quota' = quota
    BY <1>2, <1>7, WorkerHolds, ContinueKeepsWorkers DEF DeleteTrace, DeleteCalls
  <2> QED BY <1>7, <2>1 DEF DeleteTrace, TypeInv, TypeOK, ScenariosOK, RunsOK
<1>8. CASE DeleteRow(w)
  <2>1. WorkersOK' /\ quota' = quota
    BY <1>8, WorkerHolds, ContinueKeepsWorkers DEF DeleteRow, Calls
  <2>2. ScenariosOK'
    <3>1. CASE scenarios' = Without(scenarios, {mem[w].s})
      BY <3>1, WorkerHolds, FS_Subset DEF Without, Restrict, ScenariosOK
    <3>2. CASE scenarios' = scenarios
      BY <3>2, WorkerHolds DEF ScenariosOK
    <3> QED BY <1>8, <3>1, <3>2 DEF DeleteRow
  <2> QED BY <1>8, <2>1, <2>2 DEF DeleteRow, TypeInv, TypeOK, ScenariosOK, RunsOK
<1> QED BY <1>1, <1>4, <1>5, <1>6, <1>7, <1>8 DEF DeleteRequest

\* A request that fails, and a process that restarts.
LEMMA FailType ==
  ASSUME TypeInv, NEW w \in Workers, Fail(w)
  PROVE  /\ TypeInv' /\ pc'[w] = "idle" /\ mem'[w] = Nothing
         /\ \A k \in Kinds : quota'[k] <= quota[k]
         /\ \A v \in Workers \ {w} : pc'[v] = pc[v] /\ mem'[v] = mem[v]
<1>1. quota \in [Kinds -> Nat] /\ quota["failure"] > 0
      /\ quota' = [quota EXCEPT !["failure"] = @ - 1]
  BY DEF Fail, TypeInv, TypeOK
<1>2. quota' \in [Kinds -> Nat] /\ \A k \in Kinds : quota'[k] <= quota[k]
  BY <1>1 DEF Kinds
<1>3. Nothing \in MemoryAt("idle") /\ "idle" \in Calls
  BY Memories DEF Calls
<1>4. pc' = [pc EXCEPT ![w] = "idle"] /\ mem' = [mem EXCEPT ![w] = Nothing]
  BY DEF Fail
<1>5. /\ WorkersOK' /\ pc'[w] = "idle" /\ mem'[w] = Nothing
      /\ \A v \in Workers \ {w} : pc'[v] = pc[v] /\ mem'[v] = mem[v]
  BY <1>3, <1>4, WorkerHolds DEF WorkersOK
<1>6. lock' \in Workers \cup {Nobody}
  BY DEF Fail, TypeInv, TypeOK
<1> QED BY <1>2, <1>5, <1>6 DEF Fail, tables, TypeInv, TypeOK, ScenariosOK, RunsOK

LEMMA TolerateType ==
  ASSUME TypeInv, NEW w \in Workers, Tolerate(w)
  PROVE  /\ TypeInv' /\ mem'[w] = mem[w]
         /\ \/ pc[w] = "alt_clear" /\ pc'[w] = "alt_trace"
            \/ pc[w] = "explain_check" /\ pc'[w] = "explain_save"
         /\ \A k \in Kinds : quota'[k] <= quota[k]
         /\ \A v \in Workers \ {w} : pc'[v] = pc[v] /\ mem'[v] = mem[v]
<1>1. quota \in [Kinds -> Nat] /\ quota["failure"] > 0
      /\ quota' = [quota EXCEPT !["failure"] = @ - 1]
  BY DEF Tolerate, TypeInv, TypeOK
<1>2. quota' \in [Kinds -> Nat] /\ \A k \in Kinds : quota'[k] <= quota[k]
  BY <1>1 DEF Kinds
<1>3. PICK to : /\ pc' = [pc EXCEPT ![w] = to]
                /\ \/ pc[w] = "alt_clear" /\ to = "alt_trace"
                   \/ pc[w] = "explain_check" /\ to = "explain_save"
  <2>1. /\ DOMAIN AfterFailure = {"alt_clear", "explain_check"}
        /\ AfterFailure["alt_clear"] = "alt_trace"
        /\ AfterFailure["explain_check"] = "explain_save"
    BY DEF AfterFailure
  <2>2. pc[w] \in DOMAIN AfterFailure /\ pc' = [pc EXCEPT ![w] = AfterFailure[pc[w]]]
    BY DEF Tolerate
  <2> QED BY <2>1, <2>2
<1>4. to \in Calls /\ MemoryAt(to) = MemoryAt(pc[w])
  BY <1>3, Memories DEF Calls, AltCalls, ExplainCalls
<1>5. /\ WorkersOK' /\ pc'[w] = to /\ mem'[w] = mem[w]
      /\ \A v \in Workers \ {w} : pc'[v] = pc[v] /\ mem'[v] = mem[v]
  BY <1>3, <1>4, WorkerHolds DEF Tolerate, WorkersOK
<1> QED BY <1>2, <1>3, <1>5 DEF Tolerate, tables, TypeInv, TypeOK, ScenariosOK, RunsOK

LEMMA RestartType ==
  ASSUME TypeInv, Restart
  PROVE  /\ TypeInv' /\ \A k \in Kinds : quota'[k] <= quota[k]
         /\ \A w \in Workers : pc'[w] = "idle"
<1>1. quota \in [Kinds -> Nat] /\ quota["crash"] > 0
      /\ quota' = [quota EXCEPT !["crash"] = @ - 1]
  BY DEF Restart, TypeInv, TypeOK
<1>2. quota' \in [Kinds -> Nat] /\ \A k \in Kinds : quota'[k] <= quota[k]
  BY <1>1 DEF Kinds
<1>3. WorkersOK' /\ \A w \in Workers : pc'[w] = "idle"
  BY Memories DEF Restart, WorkersOK, Calls
<1>4. seq' \in [{"scenario", "run", "alternative"} -> Nat \cup {Unread}]
  BY DEF Restart, TypeInv, TypeOK
<1> QED BY <1>2, <1>3, <1>4 DEF Restart, tables, TypeInv, TypeOK, ScenariosOK, RunsOK

LEMMA InitTypes == Init => TypeInv
<1> SUFFICES ASSUME Init PROVE TypeInv
  OBVIOUS
<1>0. \A S \in {{}, {First}} : IsFiniteSet(S)
  <2>1. IsFiniteSet({})
    BY FS_EmptySet
  <2>2. IsFiniteSet({First})
    BY FS_Singleton, Zenon
  <2> QED BY <2>1, <2>2
<1>1. First \in Ids
  BY DEF First, Ids
<1>2. ScenariosOK
  <2>1. DOMAIN scenarios \in {{}, {First}}
    BY DEF Init
  <2>2. IsFiniteSet(DOMAIN scenarios)
    BY <2>1, <1>0
  <2> QED BY <1>1, <2>1, <2>2 DEF Init, ScenariosOK, ScenarioRow
<1>3. RunsOK
  <2>1. DOMAIN runs \in {{}, {First}}
    BY DEF Init
  <2>2. IsFiniteSet(DOMAIN runs)
    BY <2>1, <1>0
  <2>3. [o \in Orders |-> NotSearched] \in Outcomes
    BY DEF Outcomes, NotSearched
  <2> QED BY <1>1, <2>1, <2>2, <2>3 DEF Init, RunsOK, RunRow
<1>4. WorkersOK
  BY Memories DEF Init, WorkersOK, Calls
<1>5. \A e \in trace : e.scenario \in Ids
  BY <1>1 DEF Init
<1> QED BY <1>2, <1>3, <1>4, <1>5, QuotaIsBounded DEF Init, TypeInv, TypeOK, ScenariosOK, RunsOK

LEMMA StepTypes == TypeInv /\ [Next]_vars => TypeInv'
<1> SUFFICES ASSUME TypeInv, [Next]_vars PROVE TypeInv'
  OBVIOUS
<1>1. ASSUME NEW w \in Workers, Work(w)
      PROVE  TypeInv'
  BY <1>1, CreateType, ValidateType, RunType, AlternativeType, DecisionType, ExplanationType,
     DeleteType DEF Work
<1>2. CASE UNCHANGED vars
  BY <1>2 DEF vars, TypeInv, TypeOK, WorkersOK, ScenariosOK, RunsOK
<1> QED BY <1>1, <1>2, FailType, TolerateType, RestartType DEF Next

\* Tables, counters and workers hold the values the code writes to them, for
\* every number of workers, requests, crashes and failures, with deletions
\* and failed scans: every handler finds in hand what its next call reads.
THEOREM TypeCorrect == Spec => []TypeOK
<1>1. TypeInv => TypeOK
  BY DEF TypeInv
<1> QED BY InitTypes, StepTypes, <1>1, PTL DEF Spec

-----------------------------------------------------------------------------
(***************************************************************************)
(* As long as no deletion is requested and no scan fails, the tables only  *)
(* grow: rows stay, a run keeps what it is, a validation is never lost.    *)
(* What a handler has read therefore stays true until it writes.           *)
(***************************************************************************)
Undisturbed == ~ ScanMayFail /\ Quota["delete"] = 0

Counter(id) == IF id[1] = "BASE" THEN "run" ELSE "alternative"

\* The calls that still hold a number no run has taken, and the number.
HoldsRun(w) == pc[w] \in {"run_save", "alt_scenario", "alt_run"}
HeldRun(w) == IF pc[w] = "run_save" THEN mem[w].r ELSE Derived(w)

NothingDeleted == quota["delete"] = 0 /\ \A w \in Workers : pc[w] \notin DeleteCalls

\* A counter that was read is at or above every number of its kind.
CountersLead ==
  /\ \A r \in DOMAIN runs : seq[Counter(r)] # Unread => r[2] <= seq[Counter(r)]
  /\ \A w \in Workers : HoldsRun(w) =>
       seq[Counter(HeldRun(w))] # Unread /\ HeldRun(w)[2] <= seq[Counter(HeldRun(w))]

HeldRunsFree ==
  \A w \in Workers : HoldsRun(w) =>
    /\ HeldRun(w) \notin DOMAIN runs
    /\ \A v \in Workers \ {w} : HoldsRun(v) => HeldRun(v) # HeldRun(w)

\* What a handler has read about the tables still holds.
ReadingHolds(w) ==
  /\ pc[w] \in {"run_number"} \cup ValidateCalls \cup RunCalls => mem[w].s \in DOMAIN scenarios
  /\ pc[w] \in RunCalls => scenarios[mem[w].s].validated
  /\ pc[w] \in {"run_get", "run_put"} => \E r \in DOMAIN runs : runs[r].scenario = mem[w].s
  /\ pc[w] \in {"alt_search"} \cup AltCalls =>
       /\ mem[w].r \in DOMAIN runs
       /\ mem[w].doc.scenario = runs[mem[w].r].scenario
       /\ mem[w].doc.status = runs[mem[w].r].status
       /\ mem[w].doc.parent = runs[mem[w].r].parent
  /\ pc[w] = "decide_save" =>
       /\ mem[w].r \in DOMAIN runs
       /\ mem[w].decision = "ACCEPTED" => runs[mem[w].r].status = "OPTIMAL"

RunsHaveScenarios == \A r \in DOMAIN runs : runs[r].scenario \in DOMAIN scenarios

GrowthInv ==
  /\ NothingDeleted /\ CountersLead /\ HeldRunsFree
  /\ \A w \in Workers : ReadingHolds(w)
  /\ RunsHaveScenarios /\ StoredRunWasValidated /\ SolvedHasRun /\ AcceptedOnlyAcceptable

\* What no step takes back.
Grows ==
  /\ DOMAIN scenarios \subseteq DOMAIN scenarios' /\ DOMAIN runs \subseteq DOMAIN runs'
  /\ \A s \in DOMAIN scenarios : scenarios[s].validated => scenarios'[s].validated
  /\ \A r \in DOMAIN runs :
       /\ runs'[r].scenario = runs[r].scenario
       /\ runs'[r].status = runs[r].status
       /\ runs'[r].parent = runs[r].parent

OthersStay(w) == \A v \in Workers \ {w} : pc'[v] = pc[v] /\ mem'[v] = mem[v]

LEMMA ContinueMoves ==
  ASSUME WorkersOK, NEW w \in Workers, NEW from, NEW to, Continue(w, from, to)
  PROVE  /\ pc[w] = from /\ pc'[w] = to /\ OthersStay(w) /\ quota' = quota
         /\ mem'[w] = IF to = "idle" THEN Nothing ELSE mem[w]
BY DEF WorkersOK, Continue, OthersStay

LEMMA RememberMoves ==
  ASSUME WorkersOK, NEW w \in Workers, NEW from, NEW to, NEW read, Remember(w, from, to, read)
  PROVE  pc[w] = from /\ pc'[w] = to /\ mem'[w] = read /\ OthersStay(w) /\ quota' = quota
BY DEF WorkersOK, Remember, OthersStay

LEMMA ArriveMoves ==
  ASSUME TypeInv, NEW w \in Workers, NEW kind \in Kinds, NEW next, NEW read,
         Arrive(w, kind, next, read)
  PROVE  /\ pc[w] = "idle" /\ pc'[w] = next /\ mem'[w] = read /\ OthersStay(w)
         /\ quota[kind] > 0 /\ \A k \in Kinds : quota'[k] <= quota[k]
<1>1. quota \in [Kinds -> Nat] /\ quota' = [quota EXCEPT ![kind] = @ - 1] /\ quota[kind] > 0
  BY DEF TypeInv, TypeOK, Arrive
<1>2. \A k \in Kinds : quota'[k] <= quota[k]
  BY <1>1
<1> QED BY <1>1, <1>2 DEF TypeInv, WorkersOK, Arrive, OthersStay

LEMMA ReadingKept ==
  ASSUME TypeInv, Grows, NEW v \in Workers, ReadingHolds(v), pc'[v] = pc[v], mem'[v] = mem[v]
  PROVE  ReadingHolds(v)'
<1>1. pc[v] \in RunCalls => mem[v].s \in DOMAIN scenarios
  BY DEF ReadingHolds
<1> QED BY <1>1 DEF Grows, ReadingHolds

\* A step that takes no number: the runs it adds had their number from the
\* worker that takes the step.
LEMMA NumbersKept ==
  ASSUME TypeInv, CountersLead, HeldRunsFree, NEW w \in Workers, OthersStay(w),
         seq'["run"] = seq["run"], seq'["alternative"] = seq["alternative"],
         \A r \in DOMAIN runs' \ DOMAIN runs : HoldsRun(w) /\ r = HeldRun(w),
         HoldsRun(w)' => /\ HoldsRun(w) /\ HeldRun(w)' = HeldRun(w)
                         /\ DOMAIN runs' = DOMAIN runs
  PROVE  CountersLead' /\ HeldRunsFree'
<1>1. ASSUME NEW id
      PROVE  seq'[Counter(id)] = seq[Counter(id)]
  BY DEF Counter
<1>2. ASSUME NEW v \in Workers, HoldsRun(v)'
      PROVE  HoldsRun(v) /\ HeldRun(v)' = HeldRun(v) /\ HeldRun(v) \notin DOMAIN runs'
  <2>1. CASE v = w
    BY <1>2, <2>1 DEF HeldRunsFree
  <2>2. CASE v # w
    <3>1. pc'[v] = pc[v] /\ mem'[v] = mem[v]
      BY <2>2 DEF OthersStay
    <3>2. HoldsRun(v) /\ HeldRun(v)' = HeldRun(v)
      BY <1>2, <3>1 DEF HoldsRun, HeldRun, Derived
    <3> QED BY <2>2, <3>2 DEF HeldRunsFree
  <2> QED BY <2>1, <2>2
<1>3. CountersLead'
  <2>1. ASSUME NEW r \in DOMAIN runs', seq'[Counter(r)] # Unread
        PROVE  r[2] <= seq'[Counter(r)]
    <3>1. CASE r \in DOMAIN runs
      BY <1>1, <2>1, <3>1 DEF CountersLead
    <3>2. CASE r \notin DOMAIN runs
      BY <1>1, <2>1, <3>2 DEF CountersLead
    <3> QED BY <3>1, <3>2
  <2>2. ASSUME NEW v \in Workers, HoldsRun(v)'
        PROVE  /\ seq'[Counter(HeldRun(v)')] # Unread
               /\ HeldRun(v)'[2] <= seq'[Counter(HeldRun(v)')]
    BY <1>1, <1>2, <2>2 DEF CountersLead
  <2> QED BY <2>1, <2>2 DEF CountersLead, Counter
<1>4. HeldRunsFree'
  BY <1>2 DEF HeldRunsFree
<1> QED BY <1>3, <1>4

\* A step in which a worker takes the next number of a kind for a run it will
\* store: no stored run and no other worker has it.
LEMMA NumberTaken ==
  ASSUME TypeInv, CountersLead, HeldRunsFree, ~ ScanMayFail, NEW w \in Workers, OthersStay(w),
         runs' = runs, ~ HoldsRun(w), NEW kind \in {"BASE", "ALT"},
         Number(Counter(<<kind, 0>>), Numbers(runs, kind)),
         HoldsRun(w)' => HeldRun(w)' = <<kind, seq'[Counter(<<kind, 0>>)]>>
  PROVE  CountersLead' /\ HeldRunsFree'
<1> DEFINE name == Counter(<<kind, 0>>)
<1>1. PICK last \in IF seq[name] = Unread THEN Scanned(Numbers(runs, kind)) ELSE {seq[name]} :
        seq' = [seq EXCEPT ![name] = last + 1]
  BY DEF Number
<1>2. /\ seq \in [{"scenario", "run", "alternative"} -> Nat \cup {Unread}]
      /\ name \in {"run", "alternative"}
      /\ \A id : id[1] \in {"BASE", "ALT"} => (id[1] = kind <=> Counter(id) = name)
  BY DEF TypeInv, TypeOK, Counter
<1>3. Numbers(runs, kind) \subseteq Nat /\ IsFiniteSet(Numbers(runs, kind))
  BY WorkerHolds, NumbersFinite DEF TypeInv, RunsOK
<1>4. last \in Nat /\ \A r \in DOMAIN runs : r[1] = kind => r[2] <= last
  <2>1. CASE seq[name] = Unread
    <3>1. last = Highest(Numbers(runs, kind))
      BY <1>1, <2>1 DEF Scanned
    <3>2. last \in Nat /\ \A n \in Numbers(runs, kind) : n <= last
      BY <1>3, <3>1, HighestBounds
    <3> QED BY <3>2 DEF Numbers
  <2>2. CASE seq[name] # Unread
    <3>1. last = seq[name]
      BY <1>1, <2>2
    <3>2. \A r \in DOMAIN runs : r[1] = kind => Counter(r) = name
      BY <1>2
    <3> QED BY <1>2, <2>2, <3>1, <3>2 DEF CountersLead
  <2> QED BY <2>1, <2>2
<1>5. /\ seq'[name] = last + 1 /\ seq'[name] # Unread
      /\ \A other \in {"run", "alternative"} : other # name => seq'[other] = seq[other]
  BY <1>1, <1>2, <1>4 DEF Unread
<1>6. ASSUME NEW v \in Workers, HoldsRun(v)', v # w
      PROVE  HoldsRun(v) /\ HeldRun(v)' = HeldRun(v) /\ HeldRun(v) \in Ids
  <2>1. pc'[v] = pc[v] /\ mem'[v] = mem[v]
    BY <1>6 DEF OthersStay
  <2>2. HoldsRun(v) /\ HeldRun(v)' = HeldRun(v)
    BY <1>6, <2>1 DEF HoldsRun, HeldRun, Derived
  <2>3. CASE pc[v] = "run_save"
    <3>1. mem[v] \in [s : Ids, doc : ScenarioRow, r : Ids, status : {"OPTIMAL", "FEASIBLE"}]
      BY <2>3, WorkerHolds, Memories DEF RunCalls
    <3> QED BY <2>2, <2>3, <3>1 DEF HeldRun
  <2>4. CASE pc[v] # "run_save"
    <3>1. pc[v] \in AltCalls
      BY <2>2, <2>4 DEF HoldsRun, AltCalls
    <3> QED BY <2>2, <2>4, <3>1, AlternativeHolds DEF HeldRun
  <2> QED BY <2>2, <2>3, <2>4
<1>7. ASSUME NEW v \in Workers, HoldsRun(v)', v # w
      PROVE  /\ HeldRun(v) # <<kind, last + 1>>
             /\ seq'[Counter(HeldRun(v))] # Unread
             /\ HeldRun(v)[2] <= seq'[Counter(HeldRun(v))]
  <2>1. HoldsRun(v) /\ HeldRun(v) \in Ids
    BY <1>6, <1>7
  <2>2. /\ seq[Counter(HeldRun(v))] # Unread
        /\ HeldRun(v)[2] <= seq[Counter(HeldRun(v))]
        /\ HeldRun(v)[2] \in Nat /\ HeldRun(v)[1] \in {"BASE", "ALT"}
    BY <2>1 DEF CountersLead, Ids
  <2>3. CASE Counter(HeldRun(v)) = name
    <3>1. last = seq[name]
      BY <1>1, <2>2, <2>3
    <3>2. HeldRun(v)[2] <= last /\ seq'[Counter(HeldRun(v))] = last + 1
      BY <1>5, <2>2, <2>3, <3>1
    <3>3. HeldRun(v)[2] <= last + 1 /\ HeldRun(v)[2] # last + 1
      BY <1>4, <2>2, <3>2
    <3> QED BY <1>5, <2>3, <3>2, <3>3
  <2>4. CASE Counter(HeldRun(v)) # name
    <3>1. HeldRun(v)[1] # kind
      BY <1>2, <2>2, <2>4
    <3>2. Counter(HeldRun(v)) \in {"run", "alternative"}
      BY DEF Counter
    <3>3. seq'[Counter(HeldRun(v))] = seq[Counter(HeldRun(v))]
      BY <1>5, <2>4, <3>2
    <3> QED BY <2>2, <3>1, <3>3
  <2> QED BY <2>3, <2>4
<1>8. HoldsRun(w)' => HeldRun(w)' = <<kind, last + 1>> /\ Counter(<<kind, last + 1>>) = name
  BY <1>2, <1>5
<1>9. CountersLead'
  <2>1. ASSUME NEW r \in DOMAIN runs, seq'[Counter(r)] # Unread
        PROVE  r[2] <= seq'[Counter(r)]
    <3>1. r[1] \in {"BASE", "ALT"} /\ r[2] \in Nat
      BY WorkerHolds DEF TypeInv, RunsOK, Ids
    <3>2. CASE r[1] = kind
      BY <1>2, <1>4, <1>5, <3>1, <3>2
    <3>3. CASE r[1] # kind
      <4>1. Counter(r) # name /\ Counter(r) \in {"run", "alternative"}
        BY <1>2, <3>1, <3>3 DEF Counter
      <4> QED BY <1>5, <2>1, <4>1 DEF CountersLead
    <3> QED BY <3>2, <3>3
  <2>2. ASSUME NEW v \in Workers, HoldsRun(v)'
        PROVE  /\ seq'[Counter(HeldRun(v)')] # Unread
               /\ HeldRun(v)'[2] <= seq'[Counter(HeldRun(v)')]
    <3>1. CASE v = w
      BY <1>4, <1>5, <1>8, <2>2, <3>1
    <3>2. CASE v # w
      BY <1>6, <1>7, <2>2, <3>2
    <3> QED BY <3>1, <3>2
  <2> QED BY <2>1, <2>2 DEF CountersLead, Counter
<1>10. HeldRunsFree'
  <2>1. HoldsRun(w)' => HeldRun(w)' \notin DOMAIN runs
    <3>1. <<kind, last + 1>> \notin DOMAIN runs
      BY <1>4
    <3> QED BY <1>8, <3>1
  <2>2. ASSUME NEW v \in Workers, HoldsRun(v)', v # w
        PROVE  HeldRun(v)' \notin DOMAIN runs
    BY <1>6, <2>2 DEF HeldRunsFree
  <2>3. ASSUME NEW v \in Workers, HoldsRun(v)', NEW u \in Workers \ {v}, HoldsRun(u)'
        PROVE  HeldRun(u)' # HeldRun(v)'
    <3>1. CASE v = w
      BY <1>6, <1>7, <1>8, <2>3, <3>1
    <3>2. CASE u = w
      BY <1>6, <1>7, <1>8, <2>3, <3>2
    <3>3. CASE v # w /\ u # w
      BY <1>6, <2>3, <3>3 DEF HeldRunsFree
    <3> QED BY <3>1, <3>2, <3>3
  <2> QED BY <2>1, <2>2, <2>3 DEF HeldRunsFree
<1> QED BY <1>9, <1>10

\* What a growing step must add to keep what is said of the tables.
LEMMA TablesKept ==
  ASSUME TypeInv, TypeInv', GrowthInv, Grows,
         \A r \in DOMAIN runs' \ DOMAIN runs :
           /\ runs'[r].scenario \in DOMAIN scenarios
           /\ r[1] = "BASE" => scenarios[runs'[r].scenario].validated,
         \A s \in DOMAIN scenarios' : s[1] = "BASE" /\ scenarios'[s].state = "SOLVED" =>
           \/ s \in DOMAIN scenarios /\ scenarios[s].state = "SOLVED"
           \/ \E r \in DOMAIN runs : runs[r].scenario = s,
         \A d \in decisions' \ decisions : d.state = "ACCEPTED" =>
           d.run \in DOMAIN runs /\ runs[d.run].status = "OPTIMAL"
  PROVE  RunsHaveScenarios' /\ StoredRunWasValidated' /\ SolvedHasRun' /\ AcceptedOnlyAcceptable'
<1>1. RunsHaveScenarios'
  BY DEF GrowthInv, RunsHaveScenarios, Grows
<1>2. StoredRunWasValidated'
  <2> SUFFICES ASSUME NEW r \in DOMAIN runs', r[1] = "BASE"
               PROVE  /\ runs'[r].scenario \in DOMAIN scenarios'
                      /\ scenarios'[runs'[r].scenario].validated
    BY DEF StoredRunWasValidated
  <2>1. CASE r \in DOMAIN runs
    BY <2>1 DEF GrowthInv, StoredRunWasValidated, Grows
  <2>2. CASE r \notin DOMAIN runs
    BY <2>2 DEF Grows
  <2> QED BY <2>1, <2>2
<1>3. SolvedHasRun'
  <2> SUFFICES ASSUME NEW s \in DOMAIN scenarios', s[1] = "BASE", scenarios'[s].state = "SOLVED"
               PROVE  \E r \in DOMAIN runs' : runs'[r].scenario = s
    BY DEF SolvedHasRun, RunsOf
  <2>1. \E r \in DOMAIN runs : runs[r].scenario = s
    BY DEF GrowthInv, SolvedHasRun, RunsOf
  <2> QED BY <2>1 DEF Grows
<1>4. AcceptedOnlyAcceptable'
  <2> SUFFICES ASSUME NEW d \in decisions', d.state = "ACCEPTED"
               PROVE  d.run \in DOMAIN runs' /\ runs'[d.run].status = "OPTIMAL"
    BY DEF AcceptedOnlyAcceptable
  <2>1. d.run \in DOMAIN runs /\ runs[d.run].status = "OPTIMAL"
    BY DEF GrowthInv, AcceptedOnlyAcceptable
  <2> QED BY <2>1 DEF Grows
<1> QED BY <1>1, <1>2, <1>3, <1>4

\* A worker's growing step keeps the invariant if what it now holds is right.
LEMMA GrowthStep ==
  ASSUME TypeInv, TypeInv', GrowthInv, Grows, NEW w \in Workers, OthersStay(w),
         \A k \in Kinds : quota'[k] <= quota[k], pc'[w] \notin DeleteCalls,
         ReadingHolds(w)', CountersLead', HeldRunsFree', RunsHaveScenarios',
         StoredRunWasValidated', SolvedHasRun', AcceptedOnlyAcceptable'
  PROVE  GrowthInv'
<1>1. NothingDeleted'
  <2>1. quota'["delete"] <= 0 /\ quota'["delete"] \in Nat
    BY DEF GrowthInv, NothingDeleted, TypeInv, TypeOK, Kinds
  <2>2. \A v \in Workers : pc'[v] \notin DeleteCalls
    BY DEF GrowthInv, NothingDeleted, OthersStay
  <2> QED BY <2>1, <2>2 DEF NothingDeleted
<1>2. ASSUME NEW v \in Workers
      PROVE  ReadingHolds(v)'
  BY ReadingKept DEF GrowthInv, OthersStay
<1> QED BY <1>1, <1>2 DEF GrowthInv

\* A step that leaves scenarios, runs and numbers alone.
LEMMA QuietStep ==
  ASSUME TypeInv, TypeInv', GrowthInv, NEW w \in Workers, OthersStay(w),
         UNCHANGED <<scenarios, runs>>,
         seq'["run"] = seq["run"], seq'["alternative"] = seq["alternative"],
         \A k \in Kinds : quota'[k] <= quota[k], pc'[w] \notin DeleteCalls,
         ReadingHolds(w)', HoldsRun(w)' => HoldsRun(w) /\ HeldRun(w)' = HeldRun(w),
         \A d \in decisions' \ decisions : d.state = "ACCEPTED" =>
           d.run \in DOMAIN runs /\ runs[d.run].status = "OPTIMAL"
  PROVE  Grows /\ GrowthInv'
<1>1. Grows
  BY DEF Grows
<1>2. CountersLead' /\ HeldRunsFree'
  BY NumbersKept DEF GrowthInv
<1>3. RunsHaveScenarios' /\ StoredRunWasValidated' /\ SolvedHasRun' /\ AcceptedOnlyAcceptable'
  BY <1>1, TablesKept
<1> QED BY <1>1, <1>2, <1>3, GrowthStep

LEMMA QuotaSame ==
  ASSUME TypeInv, quota' = quota
  PROVE  \A k \in Kinds : quota'[k] <= quota[k]
<1>1. quota \in [Kinds -> Nat]
  BY DEF TypeInv, TypeOK
<1> QED BY <1>1

\* A scenario document written back keeps its row's validation.
LEMMA SaveGrows ==
  ASSUME TypeInv, NEW s \in Ids, NEW doc, SaveScenario(s, doc), runs' = runs
  PROVE  /\ Grows /\ DOMAIN scenarios' = DOMAIN scenarios \cup {s}
         /\ \A t \in DOMAIN scenarios : t # s => scenarios'[t] = scenarios[t]
         /\ scenarios'[s].state = doc.state
<1>1. scenarios' = [i \in DOMAIN scenarios \cup {s} |->
                      IF i = s THEN [state |-> doc.state, input |-> doc.input,
                                     parent |-> doc.parent,
                                     validated |-> s \in DOMAIN scenarios /\ scenarios[s].validated]
                      ELSE scenarios[i]]
  BY DEF SaveScenario, Upsert
<1>2. /\ DOMAIN scenarios' = DOMAIN scenarios \cup {s}
      /\ \A t \in DOMAIN scenarios : t # s => scenarios'[t] = scenarios[t]
      /\ scenarios'[s].state = doc.state
      /\ s \in DOMAIN scenarios => scenarios'[s].validated = scenarios[s].validated
  <2>1. s \in DOMAIN scenarios => scenarios[s].validated \in BOOLEAN
    BY DEF TypeInv, ScenariosOK, ScenarioRow
  <2> QED BY <1>1, <2>1
<1> QED BY <1>2 DEF Grows

LEMMA CreateGrows ==
  ASSUME TypeInv, TypeInv', GrowthInv, NEW w \in Workers, CreateRequest(w)
  PROVE  Grows /\ GrowthInv'
<1>0. "create_save" \notin DeleteCalls /\ "create_trace" \notin DeleteCalls /\ "idle" \notin DeleteCalls
  BY DEF DeleteCalls
<1>1. CASE CreateNumber(w)
  <2>1. PICK read : Arrive(w, "create", "create_save", read)
    BY <1>1 DEF CreateNumber
  <2>2. /\ pc'[w] = "create_save" /\ OthersStay(w) /\ \A k \in Kinds : quota'[k] <= quota[k]
    BY <2>1, ArriveMoves DEF Kinds
  <2>3. seq'["run"] = seq["run"] /\ seq'["alternative"] = seq["alternative"]
    BY <1>1 DEF CreateNumber, Number, TypeInv, TypeOK
  <2>4. ReadingHolds(w)' /\ ~ HoldsRun(w)'
    BY <2>2 DEF ReadingHolds, HoldsRun, ValidateCalls, RunCalls, AltCalls
  <2> QED BY <1>0, <1>1, <2>2, <2>3, <2>4, QuietStep DEF CreateNumber, tables
<1>2. CASE CreateSave(w)
  <2>1. /\ pc[w] = "create_save" /\ pc'[w] = "create_trace" /\ OthersStay(w) /\ quota' = quota
    BY <1>2, WorkerHolds, ContinueMoves DEF CreateSave
  <2>2. mem[w].s \in Ids /\ mem[w].doc.state = "VALIDATION_REQUIRED"
    <3>1. mem[w] \in [s : Ids, doc : NewScenario]
      BY <2>1, WorkerHolds, Memories DEF CreateCalls
    <3> QED BY <3>1 DEF NewScenario
  <2>3. /\ Grows /\ DOMAIN scenarios' = DOMAIN scenarios \cup {mem[w].s}
        /\ \A t \in DOMAIN scenarios : t # mem[w].s => scenarios'[t] = scenarios[t]
        /\ scenarios'[mem[w].s].state = "VALIDATION_REQUIRED"
    BY <1>2, <2>2, SaveGrows DEF CreateSave
  <2>4. ReadingHolds(w)' /\ ~ HoldsRun(w)'
    BY <2>1 DEF ReadingHolds, HoldsRun, ValidateCalls, RunCalls, AltCalls
  <2>5. CountersLead' /\ HeldRunsFree'
    BY <1>2, <2>1, <2>4, NumbersKept DEF CreateSave, GrowthInv
  <2>6. RunsHaveScenarios' /\ StoredRunWasValidated' /\ SolvedHasRun' /\ AcceptedOnlyAcceptable'
    BY <1>2, <2>3, TablesKept DEF CreateSave
  <2> QED BY <1>0, <2>1, <2>3, <2>4, <2>5, <2>6, QuotaSame, GrowthStep
<1>3. CASE CreateTrace(w)
  <2>1. pc'[w] = "idle" /\ OthersStay(w) /\ quota' = quota
    BY <1>3, WorkerHolds, ContinueMoves DEF CreateTrace
  <2>2. ReadingHolds(w)' /\ ~ HoldsRun(w)'
    BY <2>1 DEF ReadingHolds, HoldsRun, ValidateCalls, RunCalls, AltCalls
  <2> QED BY <1>0, <1>3, <2>1, <2>2, QuotaSame, QuietStep DEF CreateTrace
<1> QED BY <1>1, <1>2, <1>3 DEF CreateRequest

\* A step that neither writes a run nor takes or gives up a run number.
LEMMA ScenarioStep ==
  ASSUME TypeInv, TypeInv', GrowthInv, Grows, NEW w \in Workers, OthersStay(w),
         UNCHANGED <<runs, decisions, seq>>, quota' = quota, pc'[w] \notin DeleteCalls,
         ReadingHolds(w)', ~ HoldsRun(w)',
         \A s \in DOMAIN scenarios' : s[1] = "BASE" /\ scenarios'[s].state = "SOLVED" =>
           \/ s \in DOMAIN scenarios /\ scenarios[s].state = "SOLVED"
           \/ \E r \in DOMAIN runs : runs[r].scenario = s
  PROVE  GrowthInv'
<1>1. CountersLead' /\ HeldRunsFree'
  BY NumbersKept DEF GrowthInv
<1>2. RunsHaveScenarios' /\ StoredRunWasValidated' /\ SolvedHasRun' /\ AcceptedOnlyAcceptable'
  BY TablesKept
<1> QED BY <1>1, <1>2, QuotaSame, GrowthStep

\* A validation stored changes nothing else.
LEMMA MarkGrows ==
  ASSUME TypeInv, NEW s, runs' = runs,
         scenarios' = IF s \in DOMAIN scenarios
                      THEN [scenarios EXCEPT ![s].validated = TRUE] ELSE scenarios
  PROVE  /\ Grows /\ DOMAIN scenarios' = DOMAIN scenarios
         /\ \A t \in DOMAIN scenarios : /\ scenarios'[t].state = scenarios[t].state
                                        /\ scenarios'[t].input = scenarios[t].input
                                        /\ scenarios'[t].parent = scenarios[t].parent
                                        /\ t # s => scenarios'[t] = scenarios[t]
         /\ s \in DOMAIN scenarios => scenarios'[s].validated
<1>1. \A t \in DOMAIN scenarios : scenarios[t] \in ScenarioRow
  BY DEF TypeInv, ScenariosOK
<1>2. CASE s \in DOMAIN scenarios
  <2>1. scenarios' = [scenarios EXCEPT ![s] = [scenarios[s] EXCEPT !.validated = TRUE]]
    BY <1>2
  <2>2. /\ [scenarios[s] EXCEPT !.validated = TRUE].state = scenarios[s].state
        /\ [scenarios[s] EXCEPT !.validated = TRUE].input = scenarios[s].input
        /\ [scenarios[s] EXCEPT !.validated = TRUE].parent = scenarios[s].parent
        /\ [scenarios[s] EXCEPT !.validated = TRUE].validated = TRUE
    BY <1>1, <1>2 DEF ScenarioRow
  <2>3. /\ DOMAIN scenarios' = DOMAIN scenarios
        /\ scenarios'[s] = [scenarios[s] EXCEPT !.validated = TRUE]
        /\ \A t \in DOMAIN scenarios : t # s => scenarios'[t] = scenarios[t]
    BY <2>1, <1>2
  <2> QED BY <2>2, <2>3 DEF Grows
<1>3. CASE s \notin DOMAIN scenarios
  BY <1>3 DEF Grows
<1> QED BY <1>2, <1>3

LEMMA ValidateGrows ==
  ASSUME TypeInv, TypeInv', GrowthInv, NEW w \in Workers, ValidateRequest(w)
  PROVE  Grows /\ GrowthInv'
<1>0. "idle" \notin DeleteCalls /\ \A c \in ValidateCalls : c \notin DeleteCalls
  BY DEF DeleteCalls, ValidateCalls
<1>1. \A c \in ValidateCalls \cup {"idle"} :
        pc'[w] = c => /\ ~ HoldsRun(w)'
                      /\ (c # "idle" => mem'[w].s \in DOMAIN scenarios') => ReadingHolds(w)'
  BY DEF ReadingHolds, HoldsRun, ValidateCalls, RunCalls, AltCalls
<1>2. CASE ValidateRead(w)
  <2>1. PICK s \in DOMAIN scenarios :
          Arrive(w, "validate", "validate_save", [s |-> s, doc |-> scenarios[s]])
    BY <1>2 DEF ValidateRead
  <2>2. /\ pc'[w] = "validate_save" /\ mem'[w].s = s /\ OthersStay(w)
        /\ \A k \in Kinds : quota'[k] <= quota[k]
    BY <2>1, ArriveMoves DEF Kinds
  <2>3. ReadingHolds(w)' /\ ~ HoldsRun(w)'
    BY <1>1, <1>2, <2>2 DEF ValidateCalls, ValidateRead, tables
  <2> QED BY <1>0, <1>2, <2>2, <2>3, QuietStep DEF ValidateRead, tables, ValidateCalls
<1> SUFFICES ASSUME pc[w] \in ValidateCalls PROVE Grows /\ GrowthInv'
  BY <1>2 DEF ValidateRequest, ValidateSave, ValidateStateRead, StateRead, ValidateStateSave,
              StateSave, ValidateTrace, Continue, ValidateCalls
<1>3. mem[w].s \in DOMAIN scenarios
  BY DEF GrowthInv, ReadingHolds
<1>4. CASE ValidateSave(w)
  <2>1. PICK to \in ValidateCalls : Continue(w, "validate_save", to)
    BY <1>4 DEF ValidateSave, ValidateCalls
  <2>2. pc'[w] = to /\ to # "idle" /\ mem'[w] = mem[w] /\ OthersStay(w) /\ quota' = quota
    BY <2>1, WorkerHolds, ContinueMoves DEF ValidateCalls
  <2>3. /\ Grows /\ DOMAIN scenarios' = DOMAIN scenarios
        /\ \A t \in DOMAIN scenarios : scenarios'[t].state = scenarios[t].state
    BY <1>4, MarkGrows DEF ValidateSave
  <2>4. ReadingHolds(w)' /\ ~ HoldsRun(w)'
    BY <1>1, <1>3, <2>2, <2>3
  <2> QED BY <1>0, <1>4, <2>2, <2>3, <2>4, ScenarioStep DEF ValidateSave
<1>5. CASE ValidateStateRead(w)
  <2>1. Remember(w, "validate_get", "validate_put",
                 [mem[w] EXCEPT !.doc = scenarios[mem[w].s]])
    BY <1>3, <1>5 DEF ValidateStateRead, StateRead
  <2>2. pc'[w] = "validate_put" /\ OthersStay(w) /\ quota' = quota
        /\ mem'[w] = [mem[w] EXCEPT !.doc = scenarios[mem[w].s]]
    BY <2>1, WorkerHolds, RememberMoves
  <2>3. mem[w] \in [s : Ids, doc : ScenarioRow]
    BY WorkerHolds, Memories
  <2>4. ReadingHolds(w)' /\ ~ HoldsRun(w)'
    BY <1>1, <1>3, <1>5, <2>2, <2>3 DEF ValidateStateRead, StateRead, tables, ValidateCalls
  <2> QED BY <1>0, <1>5, <2>2, <2>4, QuotaSame, QuietStep
          DEF ValidateStateRead, StateRead, tables, ValidateCalls
<1>6. CASE ValidateStateSave(w)
  <2>1. pc'[w] = "validate_trace" /\ mem'[w] = mem[w] /\ OthersStay(w) /\ quota' = quota
    BY <1>6, WorkerHolds, ContinueMoves DEF ValidateStateSave, StateSave
  <2>2. mem[w] \in [s : Ids, doc : ScenarioRow]
    BY WorkerHolds, Memories
  <2> DEFINE doc == [mem[w].doc EXCEPT !.state = "READY_TO_SOLVE"]
  <2>3. doc.state = "READY_TO_SOLVE" /\ SaveScenario(mem[w].s, doc)
    BY <1>6, <2>2 DEF ValidateStateSave, StateSave, ScenarioRow
  <2> HIDE DEF doc
  <2>4. /\ Grows /\ DOMAIN scenarios' = DOMAIN scenarios \cup {mem[w].s}
        /\ \A t \in DOMAIN scenarios : t # mem[w].s => scenarios'[t] = scenarios[t]
        /\ scenarios'[mem[w].s].state = "READY_TO_SOLVE"
    BY <1>6, <2>2, <2>3, SaveGrows DEF ValidateStateSave, StateSave
  <2>5. ReadingHolds(w)' /\ ~ HoldsRun(w)'
    BY <1>1, <2>1, <2>4 DEF ValidateCalls
  <2> QED BY <1>0, <1>6, <2>1, <2>4, <2>5, ScenarioStep
          DEF ValidateStateSave, StateSave, ValidateCalls
<1>7. CASE ValidateTrace(w)
  <2>1. pc'[w] = "idle" /\ OthersStay(w) /\ quota' = quota
    BY <1>7, WorkerHolds, ContinueMoves DEF ValidateTrace
  <2>2. ReadingHolds(w)' /\ ~ HoldsRun(w)'
    BY <1>1, <2>1
  <2> QED BY <1>0, <1>7, <2>1, <2>2, QuotaSame, QuietStep DEF ValidateTrace
<1> QED BY <1>2, <1>4, <1>5, <1>6, <1>7 DEF ValidateRequest

LEMMA RunGrows ==
  ASSUME TypeInv, TypeInv', GrowthInv, ~ ScanMayFail, NEW w \in Workers, RunRequest(w)
  PROVE  Grows /\ GrowthInv'
<1>0. /\ "idle" \notin DeleteCalls /\ "run_number" \notin DeleteCalls
      /\ \A c \in RunCalls : c \notin DeleteCalls
  BY DEF DeleteCalls, RunCalls
<1>1. ASSUME pc'[w] \in RunCalls,
             mem'[w].s \in DOMAIN scenarios', scenarios'[mem'[w].s].validated,
             pc'[w] \in {"run_get", "run_put"} =>
               \E r \in DOMAIN runs' : runs'[r].scenario = mem'[w].s
      PROVE  ReadingHolds(w)'
  BY <1>1 DEF ReadingHolds, RunCalls, AltCalls
<1>2. pc'[w] = "idle" => ReadingHolds(w)' /\ ~ HoldsRun(w)'
  BY DEF ReadingHolds, HoldsRun, RunCalls, ValidateCalls, AltCalls
<1>3. CASE RunRead(w)
  <2>1. PICK s \in DOMAIN scenarios :
          Arrive(w, "run", "run_number",
                 [s |-> s, doc |-> scenarios[s], r |-> Nothing, status |-> Nothing])
    BY <1>3 DEF RunRead
  <2>2. /\ pc'[w] = "run_number" /\ mem'[w].s = s /\ OthersStay(w)
        /\ \A k \in Kinds : quota'[k] <= quota[k]
    BY <2>1, ArriveMoves DEF Kinds
  <2>3. ReadingHolds(w)' /\ ~ HoldsRun(w)'
    BY <1>3, <2>2 DEF ReadingHolds, HoldsRun, RunCalls, AltCalls, RunRead, tables
  <2> QED BY <1>0, <1>3, <2>2, <2>3, QuietStep DEF RunRead, tables
<1>4. CASE RunRefused(w)
  <2>1. pc'[w] = "idle" /\ OthersStay(w) /\ quota' = quota
    BY <1>4, WorkerHolds, ContinueMoves DEF RunRefused
  <2> QED BY <1>0, <1>2, <1>4, <2>1, QuotaSame, QuietStep DEF RunRefused, tables
<1>5. CASE RunSolve(w)
  <2>1. PICK result :
          IF result = "ERROR"
          THEN Continue(w, "run_number", "idle")
          ELSE Remember(w, "run_number", "run_save",
                 [mem[w] EXCEPT !.r = <<"BASE", seq'["run"]>>, !.status = result])
    BY <1>5 DEF RunSolve
  <2>2. mem[w].s \in DOMAIN scenarios /\ scenarios[mem[w].s].validated
    BY <1>5 DEF RunSolve, Validated
  <2>3. mem[w] \in [s : Ids, doc : ScenarioRow, r : {Nothing}, status : {Nothing}]
    BY <1>5, WorkerHolds, Memories DEF RunSolve
  <2>4. /\ OthersStay(w) /\ quota' = quota /\ pc'[w] \notin DeleteCalls
        /\ ReadingHolds(w)'
        /\ HoldsRun(w)' => HeldRun(w)' = <<"BASE", seq'["run"]>>
    <3>1. CASE result = "ERROR"
      <4>1. pc'[w] = "idle" /\ OthersStay(w) /\ quota' = quota
        BY <2>1, <3>1, WorkerHolds, ContinueMoves
      <4> QED BY <1>0, <1>2, <4>1
    <3>2. CASE result # "ERROR"
      <4> DEFINE read == [mem[w] EXCEPT !.r = <<"BASE", seq'["run"]>>, !.status = result]
      <4>1. read.r = <<"BASE", seq'["run"]>> /\ read.s = mem[w].s
        BY <2>3
      <4>2. Remember(w, "run_number", "run_save", read)
        BY <2>1, <3>2
      <4> HIDE DEF read
      <4>3. pc'[w] = "run_save" /\ mem'[w] = read /\ OthersStay(w) /\ quota' = quota
        BY <4>2, WorkerHolds, RememberMoves
      <4>4. ReadingHolds(w)'
        BY <1>1, <1>5, <2>2, <4>1, <4>3 DEF RunSolve, tables, RunCalls
      <4>5. HeldRun(w)' = <<"BASE", seq'["run"]>>
        BY <4>1, <4>3 DEF HeldRun
      <4> QED BY <1>0, <4>3, <4>4, <4>5 DEF RunCalls
    <3> QED BY <3>1, <3>2
  <2>5. Counter(<<"BASE", 0>>) = "run" /\ ~ HoldsRun(w)
    BY <1>5 DEF Counter, RunSolve, HoldsRun
  <2>6. CountersLead' /\ HeldRunsFree'
    BY <1>5, <2>4, <2>5, NumberTaken DEF RunSolve, tables, GrowthInv
  <2>7. Grows
    BY <1>5 DEF RunSolve, tables, Grows
  <2>8. RunsHaveScenarios' /\ StoredRunWasValidated' /\ SolvedHasRun' /\ AcceptedOnlyAcceptable'
    BY <1>5, <2>7, TablesKept DEF RunSolve, tables
  <2> QED BY <2>4, <2>6, <2>7, <2>8, QuotaSame, GrowthStep
<1> SUFFICES ASSUME pc[w] \in RunCalls PROVE Grows /\ GrowthInv'
  BY <1>3, <1>4, <1>5 DEF RunRequest, RunSave, RunStateRead, StateRead, RunStateSave,
              StateSave, RunTrace, Continue, RunCalls
<1>6. /\ mem[w] \in [s : Ids, doc : ScenarioRow, r : Ids, status : {"OPTIMAL", "FEASIBLE"}]
      /\ mem[w].s \in DOMAIN scenarios /\ scenarios[mem[w].s].validated
  BY WorkerHolds, Memories DEF GrowthInv, ReadingHolds
<1>7. CASE RunSave(w)
  <2> DEFINE doc == [scenario |-> mem[w].s, status |-> mem[w].status, parent |-> Nothing,
                     outcomes |-> [o \in Orders |-> NotSearched]]
  <2>1. doc.outcomes \in Outcomes /\ doc.scenario = mem[w].s /\ doc.status = mem[w].status
        /\ doc.parent = Nothing
    BY DEF Outcomes, NotSearched
  <2>2. Continue(w, "run_save", "run_get") /\ SaveRun(mem[w].r, doc)
    BY <1>6, <1>7 DEF RunSave
  <2> HIDE DEF doc
  <2>3. /\ pc[w] = "run_save" /\ pc'[w] = "run_get" /\ mem'[w] = mem[w]
        /\ OthersStay(w) /\ quota' = quota
    BY <2>2, WorkerHolds, ContinueMoves
  <2>4. /\ DOMAIN runs' = DOMAIN runs \cup {mem[w].r}
        /\ \A q \in DOMAIN runs : q # mem[w].r => runs'[q] = runs[q]
        /\ runs'[mem[w].r].scenario = mem[w].s
    BY <2>1, <2>2 DEF SaveRun, Upsert
  <2>5. mem[w].r \notin DOMAIN runs /\ HoldsRun(w) /\ HeldRun(w) = mem[w].r
    BY <2>3 DEF GrowthInv, HeldRunsFree, HoldsRun, HeldRun
  <2>6. Grows
    BY <1>7, <2>4, <2>5 DEF RunSave, Grows
  <2>7. ReadingHolds(w)'
    BY <1>1, <1>6, <1>7, <2>3, <2>4 DEF RunSave, RunCalls
  <2>8. CountersLead' /\ HeldRunsFree'
    BY <1>7, <2>3, <2>4, <2>5, NumbersKept DEF RunSave, GrowthInv, HoldsRun
  <2>9. RunsHaveScenarios' /\ StoredRunWasValidated' /\ SolvedHasRun' /\ AcceptedOnlyAcceptable'
    BY <1>6, <1>7, <2>4, <2>6, TablesKept DEF RunSave
  <2> QED BY <1>0, <2>3, <2>6, <2>7, <2>8, <2>9, QuotaSame, GrowthStep DEF RunCalls
<1>8. CASE RunStateRead(w)
  <2>1. Remember(w, "run_get", "run_put", [mem[w] EXCEPT !.doc = scenarios[mem[w].s]])
    BY <1>6, <1>8 DEF RunStateRead, StateRead
  <2>2. /\ pc[w] = "run_get" /\ pc'[w] = "run_put" /\ OthersStay(w) /\ quota' = quota
        /\ mem'[w] = [mem[w] EXCEPT !.doc = scenarios[mem[w].s]]
    BY <2>1, WorkerHolds, RememberMoves
  <2>3. mem'[w].s = mem[w].s
    BY <1>6, <2>2
  <2>4. ReadingHolds(w)' /\ ~ HoldsRun(w)'
    BY <1>1, <1>6, <1>8, <2>2, <2>3
       DEF RunStateRead, StateRead, tables, RunCalls, HoldsRun, GrowthInv, ReadingHolds
  <2> QED BY <1>0, <1>8, <2>2, <2>4, QuotaSame, QuietStep DEF RunStateRead, StateRead, tables, RunCalls
<1>9. CASE RunStateSave(w)
  <2>1. /\ pc[w] = "run_put" /\ pc'[w] = "run_trace" /\ mem'[w] = mem[w]
        /\ OthersStay(w) /\ quota' = quota
    BY <1>9, WorkerHolds, ContinueMoves DEF RunStateSave, StateSave
  <2> DEFINE doc == [mem[w].doc EXCEPT !.state = "SOLVED"]
  <2>2. SaveScenario(mem[w].s, doc)
    BY <1>9 DEF RunStateSave, StateSave
  <2> HIDE DEF doc
  <2>3. /\ Grows /\ DOMAIN scenarios' = DOMAIN scenarios \cup {mem[w].s}
        /\ \A t \in DOMAIN scenarios : t # mem[w].s => scenarios'[t] = scenarios[t]
    BY <1>6, <1>9, <2>2, SaveGrows DEF RunStateSave, StateSave
  <2>4. ReadingHolds(w)' /\ ~ HoldsRun(w)'
    <3>1. mem'[w].s \in DOMAIN scenarios' /\ scenarios'[mem'[w].s].validated
      BY <1>6, <2>1, <2>3 DEF Grows
    <3> QED BY <1>1, <2>1, <3>1 DEF RunCalls, HoldsRun
  <2>5. \E r \in DOMAIN runs : runs[r].scenario = mem[w].s
    BY <2>1 DEF GrowthInv, ReadingHolds
  <2> QED BY <1>0, <1>9, <2>1, <2>3, <2>4, <2>5, ScenarioStep DEF RunStateSave, StateSave, RunCalls
<1>10. CASE RunTrace(w)
  <2>1. pc'[w] = "idle" /\ OthersStay(w) /\ quota' = quota
    BY <1>10, WorkerHolds, ContinueMoves DEF RunTrace
  <2> QED BY <1>0, <1>2, <1>10, <2>1, QuotaSame, QuietStep DEF RunTrace
<1> QED BY <1>3, <1>4, <1>5, <1>7, <1>8, <1>9, <1>10 DEF RunRequest

\* What a worker between a search and its answer has read of the run.
LEMMA AlternativeReads ==
  ASSUME GrowthInv, NEW w \in Workers, pc[w] \in {"alt_search"} \cup AltCalls
  PROVE  /\ mem[w].r \in DOMAIN runs
         /\ mem[w].doc.scenario = runs[mem[w].r].scenario
         /\ mem[w].doc.status = runs[mem[w].r].status
         /\ mem[w].doc.parent = runs[mem[w].r].parent
         /\ mem[w].doc.scenario \in DOMAIN scenarios
BY DEF GrowthInv, ReadingHolds, RunsHaveScenarios

LEMMA AlternativeReadingKept ==
  ASSUME TypeInv, GrowthInv, Grows, NEW w \in Workers, pc[w] \in {"alt_search"} \cup AltCalls,
         pc'[w] \in {"idle"} \cup AltCalls,
         pc'[w] # "idle" => mem'[w].r = mem[w].r /\ mem'[w].doc = mem[w].doc
  PROVE  ReadingHolds(w)' /\ pc'[w] \notin DeleteCalls
<1>1. pc'[w] \in AltCalls => ReadingHolds(w)'
  BY AlternativeReads DEF ReadingHolds, AltCalls, RunCalls, ValidateCalls, Grows
<1>2. pc'[w] = "idle" => ReadingHolds(w)'
  BY DEF ReadingHolds, AltCalls, RunCalls, ValidateCalls
<1> QED BY <1>1, <1>2 DEF AltCalls, DeleteCalls

LEMMA AlternativeStartGrows ==
  ASSUME TypeInv, TypeInv', GrowthInv, ~ ScanMayFail, NEW w \in Workers,
         AltRead(w) \/ AltNoScenario(w) \/ AltSearch(w)
  PROVE  Grows /\ GrowthInv'
<1>1. CASE AltRead(w)
  <2>1. PICK r \in DOMAIN runs, o \in Orders :
          Arrive(w, "alternative", "alt_search",
                 [r |-> r, o |-> o, doc |-> runs[r], verdict |-> Nothing, n |-> Nothing])
    BY <1>1 DEF AltRead
  <2>2. /\ pc'[w] = "alt_search" /\ mem'[w].r = r /\ mem'[w].doc = runs[r] /\ OthersStay(w)
        /\ \A k \in Kinds : quota'[k] <= quota[k]
    BY <2>1, ArriveMoves DEF Kinds
  <2>3. ReadingHolds(w)' /\ ~ HoldsRun(w)' /\ pc'[w] \notin DeleteCalls
    BY <1>1, <2>2 DEF ReadingHolds, HoldsRun, RunCalls, ValidateCalls, AltCalls, DeleteCalls,
                      AltRead, tables
  <2> QED BY <1>1, <2>2, <2>3, QuietStep DEF AltRead, tables
<1>2. CASE AltNoScenario(w)
  <2>1. pc[w] = "alt_search" /\ mem[w].doc.scenario \notin DOMAIN scenarios
    BY <1>2 DEF AltNoScenario, Continue
  <2> QED BY <2>1, AlternativeReads
<1>3. CASE AltSearch(w)
  <2>1. Grows
    BY <1>3 DEF AltSearch, tables, Grows
  <2>2. /\ OthersStay(w) /\ quota' = quota
        /\ ReadingHolds(w)' /\ pc'[w] \notin DeleteCalls
        /\ HoldsRun(w)' => HeldRun(w)' = <<"ALT", seq'["alternative"]>>
    <3>1. CASE Continue(w, "alt_search", "idle")
      <4>1. pc'[w] = "idle" /\ OthersStay(w) /\ quota' = quota
        BY <3>1, WorkerHolds, ContinueMoves
      <4> QED BY <1>3, <2>1, <4>1, AlternativeReadingKept DEF AltSearch, HoldsRun
    <3>2. CASE ~ Continue(w, "alt_search", "idle")
      <4>1. PICK verdict \in Verdicts :
              Remember(w, "alt_search", IF verdict = "NONE" THEN "alt_none" ELSE "alt_scenario",
                       [mem[w] EXCEPT !.verdict = verdict, !.n = seq'["alternative"]])
        BY <1>3, <3>2 DEF AltSearch
      <4> DEFINE read == [mem[w] EXCEPT !.verdict = verdict, !.n = seq'["alternative"]]
      <4>2. mem[w] \in [r : Ids, o : Orders, doc : RunRow, verdict : {Nothing}, n : {Nothing}]
        BY <1>3, WorkerHolds, Memories DEF AltSearch
      <4>3. read.r = mem[w].r /\ read.doc = mem[w].doc /\ read.n = seq'["alternative"]
        BY <4>2
      <4>4. PICK to \in {"alt_none", "alt_scenario"} : Remember(w, "alt_search", to, read)
        BY <4>1
      <4> HIDE DEF read
      <4>5. pc'[w] = to /\ mem'[w] = read /\ OthersStay(w) /\ quota' = quota
        BY <4>4, WorkerHolds, RememberMoves
      <4>6. ReadingHolds(w)' /\ pc'[w] \notin DeleteCalls
        BY <1>3, <2>1, <4>3, <4>5, AlternativeReadingKept DEF AltSearch, AltCalls
      <4>7. HeldRun(w)' = <<"ALT", seq'["alternative"]>>
        BY <4>3, <4>5 DEF HeldRun, Derived
      <4> QED BY <4>5, <4>6, <4>7
    <3> QED BY <3>1, <3>2
  <2>3. Counter(<<"ALT", 0>>) = "alternative" /\ ~ HoldsRun(w)
    BY <1>3 DEF Counter, AltSearch, HoldsRun
  <2>4. CountersLead' /\ HeldRunsFree'
    BY <1>3, <2>2, <2>3, NumberTaken DEF AltSearch, tables, GrowthInv
  <2>5. RunsHaveScenarios' /\ StoredRunWasValidated' /\ SolvedHasRun' /\ AcceptedOnlyAcceptable'
    BY <1>3, <2>1, TablesKept DEF AltSearch, tables
  <2> QED BY <2>1, <2>2, <2>4, <2>5, QuotaSame, GrowthStep
<1> QED BY <1>1, <1>2, <1>3

\* A step that rewrites runs that are stored.
LEMMA RewriteStep ==
  ASSUME TypeInv, TypeInv', GrowthInv, Grows, NEW w \in Workers, OthersStay(w),
         UNCHANGED <<scenarios, decisions, seq>>, quota' = quota, DOMAIN runs' = DOMAIN runs,
         pc'[w] \notin DeleteCalls, ReadingHolds(w)', ~ HoldsRun(w)'
  PROVE  GrowthInv'
<1>1. CountersLead' /\ HeldRunsFree'
  BY NumbersKept DEF GrowthInv
<1>2. RunsHaveScenarios' /\ StoredRunWasValidated' /\ SolvedHasRun' /\ AcceptedOnlyAcceptable'
  BY TablesKept
<1> QED BY <1>1, <1>2, QuotaSame, GrowthStep

\* The document read under the lock or at the start of the request still
\* says what the run is, so writing it back overwrites no other run.
LEMMA WriteOutcomeGrows ==
  ASSUME TypeInv, GrowthInv, NEW w \in Workers, pc[w] \in AltCalls, scenarios' = scenarios,
         NEW outcome, outcome \in [alternative_state : {"NOT_SEARCHED", "NONE", "AVAILABLE"},
                                   link : Ids \cup {Nothing}],
         SaveRun(mem[w].r, [mem[w].doc EXCEPT !.outcomes[mem[w].o] = outcome])
  PROVE  Grows /\ DOMAIN runs' = DOMAIN runs
<1>1. /\ DOMAIN runs' = DOMAIN runs \cup {mem[w].r}
      /\ \A q \in DOMAIN runs : q # mem[w].r => runs'[q] = runs[q]
      /\ runs'[mem[w].r] =
           [scenario |-> mem[w].doc.scenario, status |-> mem[w].doc.status,
            parent |-> mem[w].doc.parent,
            outcomes |-> [mem[w].doc.outcomes EXCEPT ![mem[w].o] = outcome],
            explanation |-> IF mem[w].r \in DOMAIN runs
                            THEN runs[mem[w].r].explanation ELSE Nothing]
  BY WriteOutcomeType
<1>2. /\ mem[w].r \in DOMAIN runs
      /\ mem[w].doc.scenario = runs[mem[w].r].scenario
      /\ mem[w].doc.status = runs[mem[w].r].status
      /\ mem[w].doc.parent = runs[mem[w].r].parent
  BY AlternativeReads
<1>3. /\ runs'[mem[w].r].scenario = mem[w].doc.scenario
      /\ runs'[mem[w].r].status = mem[w].doc.status
      /\ runs'[mem[w].r].parent = mem[w].doc.parent
  BY <1>1
<1>4. DOMAIN runs' = DOMAIN runs
  BY <1>1, <1>2
<1>5. ASSUME NEW q \in DOMAIN runs
      PROVE  /\ runs'[q].scenario = runs[q].scenario
             /\ runs'[q].status = runs[q].status
             /\ runs'[q].parent = runs[q].parent
  <2>1. CASE q = mem[w].r
    BY <1>2, <1>3, <2>1
  <2>2. CASE q # mem[w].r
    <3>1. runs'[q] = runs[q]
      BY <1>1, <2>2
    <3> QED BY <3>1
  <2> QED BY <2>1, <2>2
<1> QED BY <1>4, <1>5 DEF Grows

LEMMA AlternativeSaveGrows ==
  ASSUME TypeInv, TypeInv', GrowthInv, NEW w \in Workers,
         AltNone(w) \/ AltSaveScenario(w) \/ AltSaveRun(w) \/ AltSaveValidation(w)
  PROVE  Grows /\ GrowthInv'
<1>1. CASE AltNone(w)
  <2>1. pc[w] = "alt_none" /\ pc[w] \in AltCalls
    BY <1>1 DEF AltNone, AltCalls
  <2>2. /\ Continue(w, "alt_none", "alt_trace")
        /\ SaveRun(mem[w].r, [mem[w].doc EXCEPT !.outcomes[mem[w].o] = NoneFound])
    BY <1>1, <2>1, AlternativeReads DEF AltNone
  <2>3. pc'[w] = "alt_trace" /\ mem'[w] = mem[w] /\ OthersStay(w) /\ quota' = quota
    BY <2>2, WorkerHolds, ContinueMoves
  <2>4. NoneFound \in [alternative_state : {"NOT_SEARCHED", "NONE", "AVAILABLE"},
                       link : Ids \cup {Nothing}]
    BY DEF NoneFound
  <2>5. Grows /\ DOMAIN runs' = DOMAIN runs
    BY <1>1, <2>1, <2>2, <2>4, WriteOutcomeGrows DEF AltNone
  <2>6. ReadingHolds(w)' /\ pc'[w] \notin DeleteCalls /\ ~ HoldsRun(w)'
    BY <2>1, <2>3, <2>5, AlternativeReadingKept DEF AltCalls, HoldsRun
  <2> QED BY <1>1, <2>3, <2>5, <2>6, RewriteStep DEF AltNone
<1>2. CASE AltSaveScenario(w)
  <2>1. /\ pc[w] = "alt_scenario" /\ pc'[w] = "alt_run" /\ mem'[w] = mem[w]
        /\ OthersStay(w) /\ quota' = quota
    BY <1>2, WorkerHolds, ContinueMoves DEF AltSaveScenario
  <2>2. /\ DOMAIN scenarios' = DOMAIN scenarios \cup {Derived(w)}
        /\ \A t \in DOMAIN scenarios : t # Derived(w) => scenarios'[t] = scenarios[t]
    BY <1>2, SaveDerivedScenario
  <2>3. Grows
    <3>1. Derived(w) \in Ids
      BY <2>1, AlternativeHolds DEF AltCalls
    <3> QED BY <1>2, <3>1, SaveGrows DEF AltSaveScenario
  <2>4. ReadingHolds(w)' /\ pc'[w] \notin DeleteCalls
    BY <2>1, <2>3, AlternativeReadingKept DEF AltCalls
  <2>5. HoldsRun(w) /\ HeldRun(w)' = HeldRun(w) /\ Derived(w)[1] = "ALT"
    BY <2>1 DEF HoldsRun, HeldRun, Derived
  <2>6. CountersLead' /\ HeldRunsFree'
    BY <1>2, <2>1, <2>5, NumbersKept DEF AltSaveScenario, GrowthInv
  <2>7. RunsHaveScenarios' /\ StoredRunWasValidated' /\ SolvedHasRun' /\ AcceptedOnlyAcceptable'
    BY <1>2, <2>2, <2>3, <2>5, TablesKept DEF AltSaveScenario
  <2> QED BY <2>1, <2>3, <2>4, <2>6, <2>7, QuotaSame, GrowthStep
<1>3. CASE AltSaveRun(w) /\ Derived(w) \in DOMAIN scenarios
  <2>1. Continue(w, "alt_run", "alt_validation")
    BY <1>3 DEF AltSaveRun
  <2>2. /\ pc[w] = "alt_run" /\ pc'[w] = "alt_validation" /\ mem'[w] = mem[w]
        /\ OthersStay(w) /\ quota' = quota
    BY <2>1, WorkerHolds, ContinueMoves
  <2>3. /\ DOMAIN runs' = DOMAIN runs \cup {Derived(w)}
        /\ \A q \in DOMAIN runs : q # Derived(w) => runs'[q] = runs[q]
        /\ runs'[Derived(w)].scenario = Derived(w)
    BY <1>3, SaveDerivedRun
  <2>4. /\ HoldsRun(w) /\ HeldRun(w) = Derived(w) /\ ~ HoldsRun(w)'
        /\ Derived(w)[1] = "ALT" /\ Derived(w) \notin DOMAIN runs
    <3>1. HoldsRun(w) /\ HeldRun(w) = Derived(w) /\ ~ HoldsRun(w)' /\ Derived(w)[1] = "ALT"
      BY <2>2 DEF HoldsRun, HeldRun, Derived
    <3> QED BY <3>1 DEF GrowthInv, HeldRunsFree
  <2>5. Grows
    BY <1>3, <2>3, <2>4 DEF AltSaveRun, Grows
  <2>6. ReadingHolds(w)' /\ pc'[w] \notin DeleteCalls
    BY <2>2, <2>5, AlternativeReadingKept DEF AltCalls
  <2>7. CountersLead' /\ HeldRunsFree'
    BY <1>3, <2>2, <2>3, <2>4, NumbersKept DEF AltSaveRun, GrowthInv
  <2>8. RunsHaveScenarios' /\ StoredRunWasValidated' /\ SolvedHasRun' /\ AcceptedOnlyAcceptable'
    BY <1>3, <2>3, <2>4, <2>5, TablesKept DEF AltSaveRun
  <2> QED BY <2>2, <2>5, <2>6, <2>7, <2>8, QuotaSame, GrowthStep
<1>4. CASE AltSaveRun(w) /\ Derived(w) \notin DOMAIN scenarios
  <2>1. Continue(w, "alt_run", "idle") /\ runs' = runs
    BY <1>4 DEF AltSaveRun
  <2>2. pc'[w] = "idle" /\ OthersStay(w) /\ quota' = quota
    BY <2>1, WorkerHolds, ContinueMoves
  <2>3. ReadingHolds(w)' /\ ~ HoldsRun(w)' /\ pc'[w] \notin DeleteCalls
    BY <2>2 DEF ReadingHolds, HoldsRun, RunCalls, ValidateCalls, AltCalls, DeleteCalls
  <2> QED BY <1>4, <2>1, <2>2, <2>3, QuotaSame, QuietStep DEF AltSaveRun
<1>5. CASE AltSaveValidation(w)
  <2>1. /\ pc[w] = "alt_validation" /\ pc'[w] = "alt_lock" /\ mem'[w] = mem[w]
        /\ OthersStay(w) /\ quota' = quota
    BY <1>5, WorkerHolds, ContinueMoves DEF AltSaveValidation
  <2>2. /\ Grows /\ DOMAIN scenarios' = DOMAIN scenarios
        /\ \A t \in DOMAIN scenarios : scenarios'[t].state = scenarios[t].state
    BY <1>5, MarkGrows DEF AltSaveValidation
  <2>3. ReadingHolds(w)' /\ pc'[w] \notin DeleteCalls /\ ~ HoldsRun(w)'
    BY <2>1, <2>2, AlternativeReadingKept DEF AltCalls, HoldsRun
  <2> QED BY <1>5, <2>1, <2>2, <2>3, ScenarioStep DEF AltSaveValidation
<1> QED BY <1>1, <1>2, <1>3, <1>4, <1>5

LEMMA AlternativePublishGrows ==
  ASSUME TypeInv, TypeInv', GrowthInv, NEW w \in Workers,
         \/ OutcomeRead(w) \/ OutcomeSave(w) \/ AltClearExplanation(w)
         \/ AltTrace(w) \/ AltTraceDerived(w)
  PROVE  Grows /\ GrowthInv'
<1>1. CASE OutcomeRead(w)
  <2>1. pc[w] = "alt_lock" /\ mem[w].r \in DOMAIN runs
    BY <1>1, AlternativeReads DEF OutcomeRead, AltCalls
  <2>2. Remember(w, "alt_lock", "alt_outcome", [mem[w] EXCEPT !.doc = runs[mem[w].r]])
    BY <1>1, <2>1 DEF OutcomeRead
  <2>3. pc'[w] = "alt_outcome" /\ OthersStay(w) /\ quota' = quota
        /\ mem'[w] = [mem[w] EXCEPT !.doc = runs[mem[w].r]]
    BY <2>2, WorkerHolds, RememberMoves
  <2>4. mem[w] \in [r : Ids, o : Orders, doc : RunRow, verdict : Verdicts, n : Nat]
    BY <2>1, AlternativeHolds DEF AltCalls
  <2>5. mem'[w].r = mem[w].r /\ mem'[w].doc = runs[mem[w].r]
    BY <2>3, <2>4
  <2>6. ReadingHolds(w)' /\ ~ HoldsRun(w)' /\ pc'[w] \notin DeleteCalls
    BY <1>1, <2>1, <2>3, <2>5
       DEF ReadingHolds, HoldsRun, RunCalls, ValidateCalls, AltCalls, DeleteCalls, OutcomeRead, tables
  <2> QED BY <1>1, <2>3, <2>6, QuotaSame, QuietStep DEF OutcomeRead, tables
<1>2. CASE OutcomeSave(w)
  <2>1. pc[w] = "alt_outcome" /\ pc[w] \in AltCalls
    BY <1>2 DEF OutcomeSave, AltCalls
  <2>2. /\ Continue(w, "alt_outcome", "alt_clear")
        /\ SaveRun(mem[w].r, [mem[w].doc EXCEPT !.outcomes[mem[w].o] = Available(Derived(w))])
    BY <1>2, <2>1, AlternativeReads DEF OutcomeSave
  <2>3. pc'[w] = "alt_clear" /\ mem'[w] = mem[w] /\ OthersStay(w) /\ quota' = quota
    BY <2>2, WorkerHolds, ContinueMoves
  <2>4. Available(Derived(w)) \in [alternative_state : {"NOT_SEARCHED", "NONE", "AVAILABLE"},
                                   link : Ids \cup {Nothing}]
    BY <2>1, AlternativeHolds DEF Available
  <2>5. Grows /\ DOMAIN runs' = DOMAIN runs
    BY <1>2, <2>1, <2>2, <2>4, WriteOutcomeGrows DEF OutcomeSave
  <2>6. ReadingHolds(w)' /\ pc'[w] \notin DeleteCalls /\ ~ HoldsRun(w)'
    BY <2>1, <2>3, <2>5, AlternativeReadingKept DEF AltCalls, HoldsRun
  <2> QED BY <1>2, <2>3, <2>5, <2>6, RewriteStep DEF OutcomeSave
<1>3. CASE AltClearExplanation(w)
  <2>1. /\ pc[w] = "alt_clear" /\ pc'[w] = "alt_trace" /\ mem'[w] = mem[w]
        /\ OthersStay(w) /\ quota' = quota
    BY <1>3, WorkerHolds, ContinueMoves DEF AltClearExplanation
  <2>2. Grows /\ DOMAIN runs' = DOMAIN runs
    BY <1>3, WorkerHolds DEF AltClearExplanation, Grows, RunsOK, RunRow
  <2>3. ReadingHolds(w)' /\ pc'[w] \notin DeleteCalls /\ ~ HoldsRun(w)'
    BY <2>1, <2>2, AlternativeReadingKept DEF AltCalls, HoldsRun
  <2> QED BY <1>3, <2>1, <2>2, <2>3, RewriteStep DEF AltClearExplanation
<1>4. CASE AltTrace(w)
  <2>1. PICK to \in {"alt_trace_derived", "idle"} : Continue(w, "alt_trace", to)
    BY <1>4 DEF AltTrace
  <2>2. /\ pc[w] = "alt_trace" /\ pc'[w] = to /\ (to # "idle" => mem'[w] = mem[w])
        /\ OthersStay(w) /\ quota' = quota
    BY <2>1, WorkerHolds, ContinueMoves
  <2>3. Grows
    BY <1>4 DEF AltTrace, Grows
  <2>4. ReadingHolds(w)' /\ pc'[w] \notin DeleteCalls /\ ~ HoldsRun(w)'
    BY <2>2, <2>3, AlternativeReadingKept DEF AltCalls, HoldsRun
  <2> QED BY <1>4, <2>2, <2>4, QuotaSame, QuietStep DEF AltTrace
<1>5. CASE AltTraceDerived(w)
  <2>1. pc[w] = "alt_trace_derived" /\ pc'[w] = "idle" /\ OthersStay(w) /\ quota' = quota
    BY <1>5, WorkerHolds, ContinueMoves DEF AltTraceDerived
  <2>2. Grows
    BY <1>5 DEF AltTraceDerived, Grows
  <2>3. ReadingHolds(w)' /\ pc'[w] \notin DeleteCalls /\ ~ HoldsRun(w)'
    BY <2>1, <2>2, AlternativeReadingKept DEF AltCalls, HoldsRun
  <2> QED BY <1>5, <2>1, <2>3, QuotaSame, QuietStep DEF AltTraceDerived
<1> QED BY <1>1, <1>2, <1>3, <1>4, <1>5

LEMMA DecisionGrows ==
  ASSUME TypeInv, TypeInv', GrowthInv, NEW w \in Workers, DecisionRequest(w)
  PROVE  Grows /\ GrowthInv'
<1>1. CASE DecideRead(w)
  <2>1. PICK r \in DOMAIN runs, decision \in {"ACCEPTED", "HELD"} :
          /\ decision = "ACCEPTED" => runs[r].status = "OPTIMAL"
          /\ Arrive(w, "decide", "decide_save",
                    [r |-> r, decision |-> decision, s |-> runs[r].scenario])
    BY <1>1 DEF DecideRead
  <2>2. /\ pc'[w] = "decide_save" /\ mem'[w].r = r /\ mem'[w].decision = decision
        /\ OthersStay(w) /\ \A k \in Kinds : quota'[k] <= quota[k]
    BY <2>1, ArriveMoves DEF Kinds
  <2>3. ReadingHolds(w)' /\ ~ HoldsRun(w)' /\ pc'[w] \notin DeleteCalls
    BY <1>1, <2>1, <2>2 DEF ReadingHolds, HoldsRun, RunCalls, ValidateCalls, AltCalls, DeleteCalls,
                            DecideRead, tables
  <2> QED BY <1>1, <2>2, <2>3, QuietStep DEF DecideRead, tables
<1>2. CASE DecideSave(w)
  <2>1. PICK to \in {"decide_trace", "idle"} : Continue(w, "decide_save", to)
    BY <1>2 DEF DecideSave
  <2>2. pc[w] = "decide_save" /\ pc'[w] = to /\ OthersStay(w) /\ quota' = quota
    BY <2>1, WorkerHolds, ContinueMoves
  <2>3. ReadingHolds(w)' /\ ~ HoldsRun(w)' /\ pc'[w] \notin DeleteCalls
    BY <2>2 DEF ReadingHolds, HoldsRun, RunCalls, ValidateCalls, AltCalls, DeleteCalls
  <2>4. \A d \in decisions' \ decisions : d.state = "ACCEPTED" =>
          d.run \in DOMAIN runs /\ runs[d.run].status = "OPTIMAL"
    BY <1>2, <2>2 DEF DecideSave, GrowthInv, ReadingHolds
  <2> QED BY <1>2, <2>2, <2>3, <2>4, QuotaSame, QuietStep DEF DecideSave
<1>3. CASE DecideTrace(w)
  <2>1. pc'[w] = "idle" /\ OthersStay(w) /\ quota' = quota
    BY <1>3, WorkerHolds, ContinueMoves DEF DecideTrace
  <2>2. ReadingHolds(w)' /\ ~ HoldsRun(w)' /\ pc'[w] \notin DeleteCalls
    BY <2>1 DEF ReadingHolds, HoldsRun, RunCalls, ValidateCalls, AltCalls, DeleteCalls
  <2> QED BY <1>3, <2>1, <2>2, QuotaSame, QuietStep DEF DecideTrace
<1> QED BY <1>1, <1>2, <1>3 DEF DecisionRequest

LEMMA ExplanationGrows ==
  ASSUME TypeInv, TypeInv', GrowthInv, NEW w \in Workers, ExplanationRequest(w)
  PROVE  Grows /\ GrowthInv'
<1>1. pc'[w] \in {"idle", "explain_check", "explain_save"} =>
        ReadingHolds(w)' /\ ~ HoldsRun(w)' /\ pc'[w] \notin DeleteCalls
  BY DEF ReadingHolds, HoldsRun, RunCalls, ValidateCalls, AltCalls, DeleteCalls
<1>2. CASE ExplainRead(w)
  <2>1. PICK read : Arrive(w, "explain", "explain_check", read)
    BY <1>2 DEF ExplainRead
  <2>2. pc'[w] = "explain_check" /\ OthersStay(w) /\ \A k \in Kinds : quota'[k] <= quota[k]
    BY <2>1, ArriveMoves DEF Kinds
  <2> QED BY <1>1, <1>2, <2>2, QuietStep DEF ExplainRead, tables
<1>3. CASE ExplainCheck(w)
  <2>1. PICK to \in {"idle", "explain_save"} : Continue(w, "explain_check", to)
    BY <1>3 DEF ExplainCheck
  <2>2. pc'[w] = to /\ OthersStay(w) /\ quota' = quota
    BY <2>1, WorkerHolds, ContinueMoves
  <2> QED BY <1>1, <1>3, <2>2, QuotaSame, QuietStep DEF ExplainCheck, tables
<1>4. CASE ExplainSave(w)
  <2>1. pc'[w] = "idle" /\ OthersStay(w) /\ quota' = quota
    BY <1>4, WorkerHolds, ContinueMoves DEF ExplainSave
  <2>2. Grows /\ DOMAIN runs' = DOMAIN runs
    BY <1>4, WorkerHolds DEF ExplainSave, Grows, RunsOK, RunRow
  <2> QED BY <1>1, <1>4, <2>1, <2>2, RewriteStep DEF ExplainSave
<1> QED BY <1>2, <1>3, <1>4 DEF ExplanationRequest

\* None arrives, and none is under way.
LEMMA NoDeletion ==
  ASSUME TypeInv, GrowthInv, NEW w \in Workers, DeleteRequest(w)
  PROVE  FALSE
BY DEF GrowthInv, NothingDeleted, DeleteRequest, DeleteCheck, Arrive, DeleteList, DeleteDecisions,
       DeleteRuns, DeleteTrace, DeleteRow, Continue, Remember, DeleteCalls

LEMMA FailGrows ==
  ASSUME TypeInv, TypeInv', GrowthInv, NEW w \in Workers, Fail(w)
  PROVE  Grows /\ GrowthInv'
<1>1. pc'[w] = "idle" /\ OthersStay(w) /\ \A k \in Kinds : quota'[k] <= quota[k]
  BY FailType DEF OthersStay
<1>2. ReadingHolds(w)' /\ ~ HoldsRun(w)' /\ pc'[w] \notin DeleteCalls
  BY <1>1 DEF ReadingHolds, HoldsRun, RunCalls, ValidateCalls, AltCalls, DeleteCalls
<1> QED BY <1>1, <1>2, QuietStep DEF Fail, tables

LEMMA TolerateGrows ==
  ASSUME TypeInv, TypeInv', GrowthInv, NEW w \in Workers, Tolerate(w)
  PROVE  Grows /\ GrowthInv'
<1>1. OthersStay(w) /\ \A k \in Kinds : quota'[k] <= quota[k]
  BY TolerateType DEF OthersStay
<1>2. /\ mem'[w] = mem[w]
      /\ \/ pc[w] = "alt_clear" /\ pc'[w] = "alt_trace"
         \/ pc[w] = "explain_check" /\ pc'[w] = "explain_save"
  BY TolerateType
<1>3. ReadingHolds(w)
  BY DEF GrowthInv
<1>4. UNCHANGED tables
  BY DEF Tolerate
<1>5. ReadingHolds(w)' /\ ~ HoldsRun(w)' /\ pc'[w] \notin DeleteCalls
  BY <1>2, <1>3, <1>4 DEF ReadingHolds, HoldsRun, RunCalls, ValidateCalls, AltCalls, DeleteCalls, tables
<1> QED BY <1>1, <1>5, QuietStep DEF Tolerate, tables

LEMMA RestartGrows ==
  ASSUME TypeInv, TypeInv', GrowthInv, Restart
  PROVE  Grows /\ GrowthInv'
<1>1. \A w \in Workers : pc'[w] = "idle"
  BY RestartType
<1>2. Grows
  BY DEF Restart, tables, Grows
<1>3. \A w \in Workers : ReadingHolds(w)' /\ ~ HoldsRun(w)' /\ pc'[w] \notin DeleteCalls
  BY <1>1 DEF ReadingHolds, HoldsRun, RunCalls, ValidateCalls, AltCalls, DeleteCalls
<1>4. quota'["delete"] = 0
  <2>1. quota'["delete"] <= 0 /\ quota'["delete"] \in Nat
    BY RestartType DEF GrowthInv, NothingDeleted, TypeInv, TypeOK, Kinds
  <2> QED BY <2>1
<1>5. CountersLead' /\ HeldRunsFree'
  <2>1. \A r : seq'[Counter(r)] = Unread
    BY DEF Restart, Counter, TypeInv, TypeOK
  <2> QED BY <1>3, <2>1 DEF CountersLead, HeldRunsFree, Counter
<1>6. RunsHaveScenarios' /\ StoredRunWasValidated' /\ SolvedHasRun' /\ AcceptedOnlyAcceptable'
  BY <1>2, TablesKept DEF Restart, tables
<1> QED BY <1>2, <1>3, <1>4, <1>5, <1>6 DEF GrowthInv, NothingDeleted

LEMMA InitGrowth == Undisturbed /\ Init => GrowthInv
<1> SUFFICES ASSUME Undisturbed, Init PROVE GrowthInv
  OBVIOUS
<1>1. NothingDeleted
  BY DEF Init, NothingDeleted, Undisturbed, DeleteCalls
<1>2. \A w \in Workers : ReadingHolds(w) /\ ~ HoldsRun(w)
  BY DEF Init, ReadingHolds, HoldsRun, RunCalls, ValidateCalls, AltCalls
<1>3. CountersLead /\ HeldRunsFree
  <2>1. \A r : seq[Counter(r)] = Unread
    BY DEF Init, Counter
  <2> QED BY <1>2, <2>1 DEF CountersLead, HeldRunsFree
<1>4. RunsHaveScenarios /\ StoredRunWasValidated /\ SolvedHasRun /\ AcceptedOnlyAcceptable
  BY DEF Init, RunsHaveScenarios, StoredRunWasValidated, SolvedHasRun, AcceptedOnlyAcceptable, RunsOf
<1> QED BY <1>1, <1>2, <1>3, <1>4 DEF GrowthInv

LEMMA StepGrows == ~ ScanMayFail /\ TypeInv /\ GrowthInv /\ [Next]_vars => Grows /\ GrowthInv'
<1> SUFFICES ASSUME ~ ScanMayFail, TypeInv, GrowthInv, [Next]_vars PROVE Grows /\ GrowthInv'
  OBVIOUS
<1>1. TypeInv'
  BY StepTypes
<1>2. ASSUME NEW w \in Workers, Work(w)
      PROVE  Grows /\ GrowthInv'
  BY <1>1, <1>2, CreateGrows, ValidateGrows, RunGrows, AlternativeStartGrows,
     AlternativeSaveGrows, AlternativePublishGrows, DecisionGrows, ExplanationGrows, NoDeletion
     DEF Work, AlternativeRequest
<1>3. CASE UNCHANGED vars
  <2>1. Grows
    BY <1>3 DEF vars, Grows
  <2>2. \A w \in Workers : HoldsRun(w)' = HoldsRun(w) /\ HeldRun(w)' = HeldRun(w)
    BY <1>3 DEF vars, HoldsRun, HeldRun, Derived
  <2>3. CountersLead' /\ HeldRunsFree'
    BY <1>3, <2>2 DEF vars, GrowthInv, CountersLead, HeldRunsFree, Counter
  <2>4. \A w \in Workers : ReadingHolds(w)'
    BY <1>3, <2>1, ReadingKept DEF vars, GrowthInv
  <2>5. RunsHaveScenarios' /\ StoredRunWasValidated' /\ SolvedHasRun' /\ AcceptedOnlyAcceptable'
    BY <1>1, <1>3, <2>1, TablesKept DEF vars
  <2> QED BY <1>3, <2>1, <2>3, <2>4, <2>5 DEF vars, GrowthInv, NothingDeleted
<1> QED BY <1>1, <1>2, <1>3, FailGrows, TolerateGrows, RestartGrows DEF Next

LEMMA TablesGrow ==
  ASSUME Undisturbed
  PROVE  Spec => [](TypeInv /\ GrowthInv)
<1>1. Init => TypeInv /\ GrowthInv
  BY InitTypes, InitGrowth
<1>2. (TypeInv /\ GrowthInv) /\ [Next]_vars => (TypeInv /\ GrowthInv)'
  BY StepTypes, StepGrows DEF Undisturbed
<1> QED BY <1>1, <1>2, PTL DEF Spec

\* A run keeps its scenario, status and parent for life, through every crash
\* and failure and however requests interleave: its number is never issued
\* again, and every document a handler writes back says what the run was.
\* Without deletions and failed scans; with either, a number can come back.
THEOREM RunsStayThemselves ==
  ASSUME Undisturbed
  PROVE  Spec => RunsNeverOverwritten
<1>1. TypeInv /\ GrowthInv /\ [Next]_vars =>
        [\A r \in DOMAIN runs \cap DOMAIN runs' :
           /\ runs'[r].scenario = runs[r].scenario
           /\ runs'[r].status = runs[r].status
           /\ runs'[r].parent = runs[r].parent]_vars
  BY StepGrows DEF Grows, Undisturbed
<1> QED BY <1>1, TablesGrow, PTL DEF Spec, RunsNeverOverwritten

\* An acceptance on record stands on a stored, optimal run.
THEOREM AcceptancesStand ==
  ASSUME Undisturbed
  PROVE  Spec => []AcceptedOnlyAcceptable
<1>1. GrowthInv => AcceptedOnlyAcceptable
  BY DEF GrowthInv
<1> QED BY <1>1, TablesGrow, PTL

\* A scenario a caller created is SOLVED only with a run to show.
THEOREM SolvedShowsRun ==
  ASSUME Undisturbed
  PROVE  Spec => []SolvedHasRun
<1>1. GrowthInv => SolvedHasRun
  BY DEF GrowthInv
<1> QED BY <1>1, TablesGrow, PTL

\* A run a caller asked for stands on a scenario whose validation is stored.
THEOREM RunsWereValidated ==
  ASSUME Undisturbed
  PROVE  Spec => []StoredRunWasValidated
<1>1. GrowthInv => StoredRunWasValidated
  BY DEF GrowthInv
<1> QED BY <1>1, TablesGrow, PTL
=============================================================================
