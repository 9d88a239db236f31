------------------------- MODULE MemoryServiceProofs -------------------------
(***************************************************************************)
(* The in-memory store, for every set of workers, orders and requests: its *)
(* documents are kept apart (IInv, type correctness), no interleaving of   *)
(* the handlers reverts an alternative, and as long as no deletion met     *)
(* another request every link leads to what it names and a deletion leaves *)
(* nothing behind (CleanInv).                                              *)
(***************************************************************************)
EXTENDS MemoryService, TLAPS

\* The calls of a handler that still names its scenario, its new run, the run
\* it searches from, and what the search made.
NamesScenario ==
  {"create_trace", "validate_save", "validate_check", "validate_state", "validate_trace",
   "run_solve", "run_save", "run_state", "run_trace", "delete"}
NamesBaseline ==
  {"alt_search", "alt_state", "alt_link", "alt_save", "alt_scenario", "alt_run",
   "alt_validation", "alt_clear", "alt_trace"}
NamesDerived == {"alt_scenario", "alt_run", "alt_validation"}

Calls ==
  NamesScenario \cup NamesBaseline \cup
  {"idle", "decide_save", "decide_trace", "explain_check", "explain_save"}

Made == DOMAIN scenario \cap DOMAIN run

\* What a handler holds are documents of this process.
Holding ==
  \A w \in Workers :
    /\ pc[w] \in NamesScenario => mem[w].s \in DOMAIN scenario
    /\ pc[w] = "run_save" => mem[w].r \in DOMAIN run
    /\ pc[w] \in NamesBaseline => mem[w] \in [r : DOMAIN run, o : Orders, d : Made \cup {Nothing}]
    /\ pc[w] \in NamesDerived => mem[w].d # Nothing

WorkersOK == pc \in [Workers -> Calls] /\ mem = [w \in Workers |-> mem[w]]

IInv == TypeOK /\ WorkersOK /\ Holding

\* Handlers only lose sight of documents when the process ends: as long as no
\* document disappears, what the others hold stays held.
LEMMA HoldingStep ==
  ASSUME IInv, WorkersOK', NEW w \in Workers,
         DOMAIN scenario \subseteq DOMAIN scenario', DOMAIN run \subseteq DOMAIN run',
         \A v \in Workers \ {w} : pc'[v] = pc[v] /\ mem'[v] = mem[v],
         pc'[w] \in NamesScenario => mem'[w].s \in DOMAIN scenario',
         pc'[w] = "run_save" => mem'[w].r \in DOMAIN run',
         pc'[w] \in NamesBaseline =>
           mem'[w] \in [r : DOMAIN run', o : Orders, d : (DOMAIN scenario' \cap DOMAIN run') \cup {Nothing}],
         pc'[w] \in NamesDerived => mem'[w].d # Nothing
  PROVE  Holding'
<1> SUFFICES ASSUME NEW v \in Workers
             PROVE  /\ pc'[v] \in NamesScenario => mem'[v].s \in DOMAIN scenario'
                    /\ pc'[v] = "run_save" => mem'[v].r \in DOMAIN run'
                    /\ pc'[v] \in NamesBaseline =>
                         mem'[v] \in [r : DOMAIN run', o : Orders,
                                      d : (DOMAIN scenario' \cap DOMAIN run') \cup {Nothing}]
                    /\ pc'[v] \in NamesDerived => mem'[v].d # Nothing
  BY DEF Holding, Made, NamesScenario, NamesBaseline, NamesDerived
<1>1. CASE v = w
  BY <1>1
<1>2. CASE v # w
  <2>1. pc'[v] = pc[v] /\ mem'[v] = mem[v]
    BY <1>2
  <2> QED BY <2>1 DEF IInv, Holding, Made
<1> QED BY <1>1, <1>2


LEMMA RememberWorkers ==
  ASSUME IInv, NEW w \in Workers, NEW from, NEW to \in Calls, NEW ids, Remember(w, from, to, ids)
  PROVE  /\ WorkersOK'
         /\ pc[w] = from /\ pc'[w] = to /\ mem'[w] = ids
         /\ \A v \in Workers \ {w} : pc'[v] = pc[v] /\ mem'[v] = mem[v]
BY DEF IInv, WorkersOK, Remember

LEMMA ArriveWorkers ==
  ASSUME IInv, NEW w \in Workers, NEW kind, NEW next \in Calls, NEW ids, Arrive(w, kind, next, ids)
  PROVE  /\ WorkersOK'
         /\ pc[w] = "idle" /\ pc'[w] = next /\ mem'[w] = ids
         /\ \A v \in Workers \ {w} : pc'[v] = pc[v] /\ mem'[v] = mem[v]
BY DEF IInv, WorkersOK, Arrive

\* A handler that goes on with what it holds.
LEMMA ContinueHolds ==
  ASSUME IInv, NEW w \in Workers, NEW from, NEW to \in Calls, Continue(w, from, to),
         DOMAIN scenario \subseteq DOMAIN scenario', DOMAIN run \subseteq DOMAIN run',
         to \in NamesScenario => from \in NamesScenario, to # "run_save",
         to \in NamesBaseline => from \in NamesBaseline,
         to \in NamesDerived => mem[w].d # Nothing
  PROVE  WorkersOK' /\ Holding'
<1>1. Remember(w, from, to, IF to = "idle" THEN Nothing ELSE mem[w])
  BY DEF Continue
<1>2. /\ WorkersOK'
      /\ pc[w] = from /\ pc'[w] = to /\ mem'[w] = IF to = "idle" THEN Nothing ELSE mem[w]
      /\ \A v \in Workers \ {w} : pc'[v] = pc[v] /\ mem'[v] = mem[v]
  BY <1>1, RememberWorkers
<1>3. to # "idle" => mem'[w] = mem[w]
  BY <1>2
<1>4. "idle" \notin NamesScenario \cup NamesBaseline \cup NamesDerived
  BY DEF NamesScenario, NamesBaseline, NamesDerived
<1>5. to \in NamesScenario => mem'[w].s \in DOMAIN scenario'
  BY <1>2, <1>3, <1>4 DEF IInv, Holding
<1>6. to \in NamesBaseline =>
        mem'[w] \in [r : DOMAIN run', o : Orders, d : (DOMAIN scenario' \cap DOMAIN run') \cup {Nothing}]
  BY <1>2, <1>3, <1>4 DEF IInv, Holding, Made
<1>7. to \in NamesDerived => mem'[w].d # Nothing
  BY <1>2, <1>3, <1>4
<1> QED BY <1>2, <1>5, <1>6, <1>7, HoldingStep

\* The heaps are as they were and the store keeps ids of theirs.
LEMMA TypeKept ==
  ASSUME TypeOK, UNCHANGED <<scenario, run, seq>>,
         kept' \subseteq DOMAIN scenario, saved' \subseteq DOMAIN run
  PROVE  TypeOK'
BY DEF TypeOK

-----------------------------------------------------------------------------
(* The handlers *)

LEMMA TraceStep ==
  ASSUME IInv, NEW w \in Workers, NEW from, NEW ids, Trace(w, from, ids)
  PROVE  IInv' /\ run' = run
<1>1. Continue(w, from, "idle") /\ UNCHANGED <<scenario, run, kept, saved, seq>>
  BY DEF Trace
<1>2. TypeOK'
  BY <1>1, TypeKept DEF IInv, TypeOK
<1>3. "idle" \notin NamesScenario \cup NamesBaseline \cup NamesDerived /\ "idle" \in Calls
  BY DEF NamesScenario, NamesBaseline, NamesDerived, Calls
<1>4. WorkersOK' /\ Holding'
  BY <1>1, <1>3, ContinueHolds
<1> QED BY <1>1, <1>2, <1>4 DEF IInv

LEMMA SetStateStep ==
  ASSUME IInv, NEW w \in Workers, NEW from \in NamesScenario, NEW to \in NamesScenario, to # "run_save",
         NEW state \in {"READY_TO_SOLVE", "SOLVED"}, SetState(w, from, to, state)
  PROVE  IInv' /\ run' = run
<1>1. Continue(w, from, to) /\ UNCHANGED <<run, kept, saved, seq>>
  BY DEF SetState
<1>2. DOMAIN scenario' = DOMAIN scenario /\ scenario' \in [DOMAIN scenario -> ScenarioDoc]
  <2>1. CASE mem[w].s \in kept
    <3>1. scenario' = [scenario EXCEPT ![mem[w].s].state = state]
      BY <2>1 DEF SetState
    <3>2. mem[w].s \in DOMAIN scenario /\ scenario \in [DOMAIN scenario -> ScenarioDoc]
      BY <2>1 DEF IInv, TypeOK
    <3>3. [scenario[mem[w].s] EXCEPT !.state = state] \in ScenarioDoc
      BY <3>2 DEF ScenarioDoc
    <3> QED BY <3>1, <3>2, <3>3
  <2>2. CASE mem[w].s \notin kept
    BY <2>2 DEF SetState, IInv, TypeOK
  <2> QED BY <2>1, <2>2
<1>3. TypeOK'
  BY <1>1, <1>2 DEF IInv, TypeOK
<1>4. to \notin NamesBaseline /\ to \notin NamesDerived /\ to \in Calls
  BY DEF NamesScenario, NamesBaseline, NamesDerived, Calls
<1>5. WorkersOK' /\ Holding'
  BY <1>1, <1>2, <1>4, ContinueHolds
<1> QED BY <1>1, <1>3, <1>5 DEF IInv

LEMMA SaveRunStep ==
  ASSUME IInv, NEW w \in Workers, NEW from, NEW to \in Calls, NEW r \in DOMAIN run,
         SaveRun(w, from, to, r), to \in NamesScenario => from \in NamesScenario, to # "run_save",
         to \in NamesBaseline => from \in NamesBaseline, to \in NamesDerived => mem[w].d # Nothing
  PROVE  IInv' /\ run' = run
<1>1. Continue(w, from, to) /\ saved' = saved \cup {r} /\ UNCHANGED <<scenario, run, kept, seq>>
  BY DEF SaveRun
<1>2. TypeOK'
  BY <1>1, TypeKept DEF IInv, TypeOK
<1>3. WorkersOK' /\ Holding'
  BY <1>1, ContinueHolds
<1> QED BY <1>1, <1>2, <1>3 DEF IInv


LEMMA CreateScenarioStep ==
  ASSUME IInv, NEW w \in Workers, CreateScenario(w)
  PROVE  IInv' /\ run' = run
<1> DEFINE s == <<"BASE", seq["scenario"] + 1>>
<1>1. PICK candidates \in BOOLEAN, parent \in {Nothing} \cup Nameable :
        /\ Arrive(w, "create", "create_trace", [s |-> s])
        /\ Number("scenario")
        /\ scenario' = Allocate(scenario, s, [state |-> "VALIDATION_REQUIRED", parent |-> parent,
                                              candidates |-> candidates, changed |-> Nothing])
        /\ kept' = kept \cup {s}
        /\ UNCHANGED <<run, saved>>
  BY DEF CreateScenario
<1> DEFINE doc == [state |-> "VALIDATION_REQUIRED", parent |-> parent,
                   candidates |-> candidates, changed |-> Nothing]
<1>2. /\ seq' \in [{"scenario", "run", "alternative"} -> Nat]
      /\ seq'["scenario"] = seq["scenario"] + 1 /\ seq["scenario"] \in Nat
      /\ seq'["run"] = seq["run"] /\ seq'["alternative"] = seq["alternative"]
  BY <1>1 DEF Number, IInv, TypeOK
<1>3. doc \in ScenarioDoc /\ s \in Ids
  BY <1>1, <1>2, NamesAreIds DEF ScenarioDoc, Ids, IInv, TypeOK
<1>4. DOMAIN scenario' = DOMAIN scenario \cup {s} /\ scenario' \in [DOMAIN scenario' -> ScenarioDoc]
  BY <1>1, <1>3 DEF Allocate, IInv, TypeOK
<1>5. TypeOK'
  <2>1. \A r \in DOMAIN run' : r[2] <= seq'[IF r[1] = "ALT" THEN "alternative" ELSE "run"]
    BY <1>1, <1>2 DEF IInv, TypeOK
  <2>2. ASSUME NEW i \in DOMAIN scenario'
        PROVE  i[2] <= seq'[IF i[1] = "ALT" THEN "alternative" ELSE "scenario"]
    <3>1. CASE i = s
      BY <3>1, <1>2
    <3>2. CASE i \in DOMAIN scenario
      <4>1. i[2] \in Nat /\ i[2] <= seq[IF i[1] = "ALT" THEN "alternative" ELSE "scenario"]
        BY <3>2 DEF IInv, TypeOK, Ids
      <4> QED BY <4>1, <1>2
    <3> QED BY <3>1, <3>2, <1>4
  <2> QED BY <1>1, <1>2, <1>3, <1>4, <2>1, <2>2 DEF IInv, TypeOK
<1>6. WorkersOK' /\ Holding'
  <2>1. /\ WorkersOK' /\ pc'[w] = "create_trace" /\ mem'[w] = [s |-> s]
        /\ \A v \in Workers \ {w} : pc'[v] = pc[v] /\ mem'[v] = mem[v]
    <3>1. "create_trace" \in Calls
      BY DEF Calls, NamesScenario
    <3> QED BY <3>1, <1>1, ArriveWorkers
  <2>2. mem'[w].s \in DOMAIN scenario'
    BY <2>1, <1>4
  <2>3. "create_trace" \notin NamesBaseline \cup NamesDerived
    BY DEF NamesBaseline, NamesDerived
  <2>4. run' = run /\ DOMAIN scenario \subseteq DOMAIN scenario'
    BY <1>1, <1>4
  <2> QED BY <2>1, <2>2, <2>3, <2>4, HoldingStep
<1> QED BY <1>1, <1>5, <1>6 DEF IInv


\* A handler goes on; neither a heap nor what the store keeps of it changes.
LEMMA QuietStep ==
  ASSUME IInv, NEW w \in Workers, NEW from, NEW to \in Calls, Continue(w, from, to),
         UNCHANGED <<scenario, run, kept, saved, seq>>,
         to \in NamesScenario => from \in NamesScenario, to # "run_save",
         to \in NamesBaseline => from \in NamesBaseline, to \in NamesDerived => mem[w].d # Nothing
  PROVE  IInv' /\ run' = run
<1>1. TypeOK'
  BY TypeKept DEF IInv, TypeOK
<1>2. WorkersOK' /\ Holding'
  BY ContinueHolds
<1> QED BY <1>1, <1>2 DEF IInv

\* A request arrives and reads what it will hold.
LEMMA ArriveStep ==
  ASSUME IInv, NEW w \in Workers, NEW kind, NEW next \in Calls, NEW ids, Arrive(w, kind, next, ids),
         UNCHANGED <<records, seq>>, next # "run_save", next \notin NamesDerived,
         next \in NamesScenario => ids.s \in DOMAIN scenario,
         next \in NamesBaseline => ids \in [r : DOMAIN run, o : Orders, d : Made \cup {Nothing}]
  PROVE  IInv' /\ run' = run
<1>1. UNCHANGED <<scenario, run, kept, saved>>
  BY DEF records
<1>2. TypeOK'
  BY <1>1, TypeKept DEF IInv, TypeOK
<1>3. /\ WorkersOK' /\ pc'[w] = next /\ mem'[w] = ids
      /\ \A v \in Workers \ {w} : pc'[v] = pc[v] /\ mem'[v] = mem[v]
  BY ArriveWorkers
<1>4. Holding'
  BY <1>1, <1>3, HoldingStep DEF Made
<1> QED BY <1>1, <1>2, <1>3, <1>4 DEF IInv

LEMMA RunSolveStep ==
  ASSUME IInv, NEW w \in Workers, RunSolve(w)
  PROVE  IInv' /\ (\A r \in DOMAIN run : r \in DOMAIN run' => run'[r] = run[r])
<1> DEFINE r == <<"BASE", seq'["run"]>>
<1>1. /\ pc[w] = "run_solve" /\ Number("run")
      /\ UNCHANGED <<scenario, kept, saved>>
  BY DEF RunSolve
<1>2. PICK status \in IF scenario[mem[w].s].candidates THEN SolverResults ELSE {"OPTIMAL"} :
        IF status = "ERROR" THEN Continue(w, "run_solve", "idle") /\ UNCHANGED run
        ELSE /\ Remember(w, "run_solve", "run_save", [s |-> mem[w].s, r |-> r])
             /\ run' = Allocate(run, r, [scenario |-> mem[w].s, status |-> status, parent |-> Nothing,
                                         outcomes |-> [o \in Orders |-> NotSearched]])
  BY DEF RunSolve
<1> DEFINE doc == [scenario |-> mem[w].s, status |-> status, parent |-> Nothing,
                   outcomes |-> [o \in Orders |-> NotSearched]]
<1>3. /\ seq' \in [{"scenario", "run", "alternative"} -> Nat]
      /\ seq'["run"] = seq["run"] + 1 /\ seq["run"] \in Nat
      /\ seq'["scenario"] = seq["scenario"] /\ seq'["alternative"] = seq["alternative"]
  BY <1>1 DEF Number, IInv, TypeOK
<1>4. \A i \in DOMAIN run : i[2] \in Nat /\ i[2] <= seq[IF i[1] = "ALT" THEN "alternative" ELSE "run"]
  BY DEF IInv, TypeOK, Ids
<1>5. r \notin DOMAIN run
  <2>1. SUFFICES ASSUME r \in DOMAIN run
                 PROVE  FALSE
    OBVIOUS
  <2>2. r[1] = "BASE" /\ r[2] = seq["run"] + 1
    BY <1>3
  <2>3. r[2] <= seq["run"]
    BY <2>1, <2>2, <1>4
  <2> QED BY <2>2, <2>3, <1>3
<1>6. \A s \in DOMAIN scenario' : s[2] <= seq'[IF s[1] = "ALT" THEN "alternative" ELSE "scenario"]
  BY <1>1, <1>3 DEF IInv, TypeOK
<1>7. mem[w].s \in DOMAIN scenario
  BY <1>1 DEF IInv, Holding, NamesScenario
<1>8. CASE status = "ERROR"
  <2>1. Continue(w, "run_solve", "idle") /\ run' = run
    BY <1>2, <1>8
  <2>2. "idle" \notin NamesScenario \cup NamesBaseline \cup NamesDerived /\ "idle" \in Calls
    BY DEF NamesScenario, NamesBaseline, NamesDerived, Calls
  <2>3. WorkersOK' /\ Holding'
    BY <2>1, <2>2, <1>1, ContinueHolds
  <2>4. \A i \in DOMAIN run' : i[2] <= seq'[IF i[1] = "ALT" THEN "alternative" ELSE "run"]
    BY <2>1, <1>3, <1>4
  <2>5. TypeOK'
    BY <2>1, <2>4, <1>1, <1>3, <1>6 DEF IInv, TypeOK
  <2> QED BY <2>1, <2>3, <2>5 DEF IInv
<1>9. CASE status # "ERROR"
  <2>1. /\ Remember(w, "run_solve", "run_save", [s |-> mem[w].s, r |-> r])
        /\ run' = Allocate(run, r, doc)
    BY <1>2, <1>9
  <2>2. doc \in RunDoc /\ r \in Ids
    <3>1. [o \in Orders |-> NotSearched] \in [Orders -> Outcome]
      BY DEF Outcome, NotSearched
    <3>2. status \in (SolverResults \ {"ERROR"}) \cup {"OPTIMAL"}
      BY <1>2, <1>9
    <3>3. mem[w].s \in Ids
      BY <1>7 DEF IInv, TypeOK
    <3> QED BY <3>1, <3>2, <3>3, <1>3 DEF RunDoc, Ids
  <2>3. /\ DOMAIN run' = DOMAIN run \cup {r} /\ run' \in [DOMAIN run' -> RunDoc]
        /\ run'[r] = doc /\ \A i \in DOMAIN run : run'[i] = run[i]
    BY <2>1, <2>2, <1>5 DEF Allocate, IInv, TypeOK
  <2>4. ASSUME NEW i \in DOMAIN run'
        PROVE  /\ i[2] <= seq'[IF i[1] = "ALT" THEN "alternative" ELSE "run"]
               /\ run'[i].scenario \in DOMAIN scenario'
    <3>1. CASE i = r
      BY <3>1, <2>3, <1>1, <1>3, <1>7
    <3>2. CASE i \in DOMAIN run
      <4>1. i[2] <= seq'[IF i[1] = "ALT" THEN "alternative" ELSE "run"]
        BY <3>2, <1>3, <1>4
      <4>2. run'[i] = run[i] /\ run[i].scenario \in DOMAIN scenario
        BY <3>2, <2>3 DEF IInv, TypeOK
      <4> QED BY <4>1, <4>2, <1>1
    <3> QED BY <3>1, <3>2, <2>3
  <2>5. TypeOK'
    BY <2>2, <2>3, <2>4, <1>1, <1>3, <1>6 DEF IInv, TypeOK
  <2>6. "run_save" \in NamesScenario /\ "run_save" \in Calls
        /\ "run_save" \notin NamesBaseline \cup NamesDerived
    BY DEF NamesScenario, NamesBaseline, NamesDerived, Calls
  <2>7. /\ WorkersOK' /\ pc'[w] = "run_save" /\ mem'[w] = [s |-> mem[w].s, r |-> r]
        /\ \A v \in Workers \ {w} : pc'[v] = pc[v] /\ mem'[v] = mem[v]
    BY <2>1, <2>6, RememberWorkers
  <2>8. mem'[w].s \in DOMAIN scenario' /\ mem'[w].r \in DOMAIN run'
    BY <2>3, <2>7, <1>1, <1>7
  <2>9. Holding'
    BY <2>3, <2>6, <2>7, <2>8, <1>1, HoldingStep
  <2> QED BY <2>3, <2>5, <2>7, <2>9 DEF IInv
<1> QED BY <1>8, <1>9


LEMMA AltSearchStep ==
  ASSUME IInv, NEW w \in Workers, AltSearch(w)
  PROVE  IInv' /\ (\A r \in DOMAIN run : r \in DOMAIN run' => run'[r] = run[r])
<1> DEFINE d == <<"ALT", seq["alternative"] + 1>>
           found == [mem[w] EXCEPT !.d = d]
<1>1. pc[w] = "alt_search" /\ Number("alternative") /\ UNCHANGED <<kept, saved>>
  BY DEF AltSearch
<1>2. /\ seq' \in [{"scenario", "run", "alternative"} -> Nat]
      /\ seq'["alternative"] = seq["alternative"] + 1 /\ seq["alternative"] \in Nat
      /\ seq'["scenario"] = seq["scenario"] /\ seq'["run"] = seq["run"]
  BY <1>1 DEF Number, IInv, TypeOK
<1>3. /\ \A i \in DOMAIN run : i[2] \in Nat /\ i[2] <= seq[IF i[1] = "ALT" THEN "alternative" ELSE "run"]
      /\ \A i \in DOMAIN scenario :
           i[2] \in Nat /\ i[2] <= seq[IF i[1] = "ALT" THEN "alternative" ELSE "scenario"]
  BY DEF IInv, TypeOK, Ids
<1>4. d \in Ids /\ d[1] = "ALT" /\ d[2] = seq'["alternative"]
  BY <1>2 DEF Ids
<1>5. d \notin DOMAIN run /\ d \notin DOMAIN scenario
  BY <1>2, <1>3, <1>4
<1>6. mem[w] \in [r : DOMAIN run, o : Orders, d : Made \cup {Nothing}]
  BY <1>1 DEF IInv, Holding, NamesBaseline
<1>7. "idle" \in Calls /\ "idle" \notin NamesScenario \cup NamesBaseline \cup NamesDerived
  BY DEF Calls, NamesScenario, NamesBaseline, NamesDerived
<1>8. /\ "alt_state" \in Calls /\ {"alt_search", "alt_state"} \subseteq NamesBaseline
      /\ "alt_state" \notin NamesScenario \cup NamesDerived
  BY DEF Calls, NamesScenario, NamesBaseline, NamesDerived
<1>9. ASSUME UNCHANGED <<scenario, run>>
      PROVE  TypeOK'
  <2>1. \A i \in DOMAIN run' : i[2] <= seq'[IF i[1] = "ALT" THEN "alternative" ELSE "run"]
    BY <1>2, <1>3, <1>9
  <2>2. \A i \in DOMAIN scenario' : i[2] <= seq'[IF i[1] = "ALT" THEN "alternative" ELSE "scenario"]
    BY <1>2, <1>3, <1>9
  <2> QED BY <2>1, <2>2, <1>1, <1>2, <1>9 DEF IInv, TypeOK
<1>10. CASE Continue(w, "alt_search", "idle") /\ UNCHANGED <<scenario, run>>
  <2>1. WorkersOK' /\ Holding'
    BY <1>7, <1>10, ContinueHolds
  <2> QED BY <2>1, <1>9, <1>10 DEF IInv
<1>11. CASE Continue(w, "alt_search", "alt_state") /\ UNCHANGED <<scenario, run>>
  <2>1. WorkersOK' /\ Holding'
    BY <1>8, <1>11, ContinueHolds
  <2> QED BY <2>1, <1>9, <1>11 DEF IInv
<1>12. ASSUME NEW status \in SolverResults \ {"ERROR"},
              Remember(w, "alt_search", "alt_state", found),
              scenario' = Allocate(scenario, d,
                [state |-> "SOLVED", parent |-> run[mem[w].r].scenario, candidates |-> TRUE,
                 changed |-> mem[w].o]),
              run' = Allocate(run, d,
                [scenario |-> d, status |-> status, parent |-> mem[w].r,
                 outcomes |-> [o \in Orders |-> IF o = mem[w].o
                                 THEN [NotSearched EXCEPT !.alternative_state = "AVAILABLE"]
                                 ELSE NotSearched]])
       PROVE  IInv' /\ (\A r \in DOMAIN run : r \in DOMAIN run' => run'[r] = run[r])
  <2> DEFINE sdoc == [state |-> "SOLVED", parent |-> run[mem[w].r].scenario, candidates |-> TRUE,
                      changed |-> mem[w].o]
             rdoc == [scenario |-> d, status |-> status, parent |-> mem[w].r,
                      outcomes |-> [o \in Orders |-> IF o = mem[w].o
                                      THEN [NotSearched EXCEPT !.alternative_state = "AVAILABLE"]
                                      ELSE NotSearched]]
  <2>1. mem[w].r \in DOMAIN run /\ mem[w].r \in Ids /\ mem[w].o \in Orders
        /\ run[mem[w].r].scenario \in Ids
    BY <1>6 DEF IInv, TypeOK
  <2>2. sdoc \in ScenarioDoc
    BY <2>1 DEF ScenarioDoc
  <2>3. rdoc \in RunDoc
    <3>1. NotSearched \in Outcome /\ [NotSearched EXCEPT !.alternative_state = "AVAILABLE"] \in Outcome
      BY DEF NotSearched, Outcome
    <3> QED BY <3>1, <2>1, <1>4 DEF RunDoc
  <2>4. /\ DOMAIN scenario' = DOMAIN scenario \cup {d} /\ scenario' \in [DOMAIN scenario' -> ScenarioDoc]
    BY <1>12, <2>2 DEF Allocate, IInv, TypeOK
  <2>5. /\ DOMAIN run' = DOMAIN run \cup {d} /\ run' \in [DOMAIN run' -> RunDoc]
        /\ run'[d] = rdoc /\ \A i \in DOMAIN run : run'[i] = run[i]
    BY <1>5, <1>12, <2>3 DEF Allocate, IInv, TypeOK
  <2>6. \A i \in DOMAIN run' : i[2] <= seq'[IF i[1] = "ALT" THEN "alternative" ELSE "run"]
    BY <2>5, <1>2, <1>3, <1>4
  <2>7. \A i \in DOMAIN scenario' : i[2] <= seq'[IF i[1] = "ALT" THEN "alternative" ELSE "scenario"]
    BY <2>4, <1>2, <1>3, <1>4
  <2>8. \A i \in DOMAIN run' : run'[i].scenario \in DOMAIN scenario'
    BY <2>4, <2>5 DEF IInv, TypeOK
  <2>9. TypeOK'
    BY <2>4, <2>5, <2>6, <2>7, <2>8, <1>1, <1>2, <1>4 DEF IInv, TypeOK
  <2>10. /\ WorkersOK' /\ pc'[w] = "alt_state" /\ mem'[w] = found
         /\ \A v \in Workers \ {w} : pc'[v] = pc[v] /\ mem'[v] = mem[v]
    BY <1>8, <1>12, RememberWorkers
  <2>11. found \in [r : DOMAIN run', o : Orders, d : (DOMAIN scenario' \cap DOMAIN run') \cup {Nothing}]
    BY <1>6, <2>4, <2>5 DEF Made
  <2>12. Holding'
    BY <1>8, <2>4, <2>5, <2>10, <2>11, HoldingStep
  <2> QED BY <2>5, <2>9, <2>10, <2>12 DEF IInv
<1> QED BY <1>10, <1>11, <1>12 DEF AltSearch


\* One assignment to an outcome: the other orders and the other documents are
\* as they were.
LEMMA EditStep ==
  ASSUME IInv, NEW w \in Workers, NEW from \in NamesBaseline, NEW to \in NamesBaseline, NEW field, NEW value,
         Edit(w, from, to, field, value), to \in NamesDerived => mem[w].d # Nothing,
         \/ field = "alternative_state" /\ value \in {"NONE", "AVAILABLE"}
         \/ field = "link" /\ value \in Ids \cup {Nothing}
  PROVE  /\ IInv'
         /\ \A r \in DOMAIN run : \A o \in Orders :
              r # mem[w].r \/ o # mem[w].o => run'[r].outcomes[o] = run[r].outcomes[o]
<1> DEFINE b == mem[w].r
           doc == run[b]
           old == doc.outcomes[mem[w].o]
           new == [old EXCEPT ![field] = value]
           list == [doc.outcomes EXCEPT ![mem[w].o] = new]
<1>1. /\ Continue(w, from, to) /\ UNCHANGED <<scenario, kept, saved, seq>>
      /\ run' = [run EXCEPT ![b].outcomes[mem[w].o][field] = value]
  BY DEF Edit
<1>2. pc[w] = from
  BY <1>1 DEF Continue, Remember
<1>3. b \in DOMAIN run /\ mem[w].o \in Orders
  BY <1>2 DEF IInv, Holding
<1>4. run \in [DOMAIN run -> RunDoc] /\ doc \in RunDoc /\ doc.outcomes \in [Orders -> Outcome]
  BY <1>3 DEF IInv, TypeOK, RunDoc
<1>5. new \in Outcome
  <2>1. old \in Outcome
    BY <1>3, <1>4
  <2>2. CASE field = "alternative_state" /\ value \in {"NONE", "AVAILABLE"}
    BY <2>1, <2>2 DEF Outcome
  <2>3. CASE field = "link" /\ value \in Ids \cup {Nothing}
    BY <2>1, <2>3 DEF Outcome
  <2> QED BY <2>2, <2>3
<1>6. list \in [Orders -> Outcome]
  BY <1>4, <1>5
<1>7. run' = [run EXCEPT ![b] = [doc EXCEPT !.outcomes = list]]
  BY <1>1
<1>8. [doc EXCEPT !.outcomes = list] \in RunDoc /\ [doc EXCEPT !.outcomes = list].outcomes = list
      /\ [doc EXCEPT !.outcomes = list].scenario = doc.scenario
  BY <1>4, <1>6 DEF RunDoc
<1>9. /\ run' \in [DOMAIN run -> RunDoc] /\ DOMAIN run' = DOMAIN run
      /\ \A r \in DOMAIN run : run'[r].scenario = run[r].scenario
      /\ \A r \in DOMAIN run : run'[r].outcomes = IF r = b THEN list ELSE run[r].outcomes
  BY <1>3, <1>4, <1>7, <1>8
<1>10. TypeOK'
  BY <1>1, <1>9 DEF IInv, TypeOK
<1>11. to \notin NamesScenario /\ to # "run_save" /\ to \in Calls
  BY DEF NamesScenario, NamesBaseline, Calls
<1>12. WorkersOK' /\ Holding'
  BY <1>1, <1>9, <1>11, ContinueHolds
<1>13. \A r \in DOMAIN run : \A o \in Orders :
         r # b \/ o # mem[w].o => run'[r].outcomes[o] = run[r].outcomes[o]
  BY <1>3, <1>4, <1>9
<1> QED BY <1>10, <1>12, <1>13 DEF IInv

LEMMA DeleteStep ==
  ASSUME IInv, NEW w \in Workers, Delete(w)
  PROVE  IInv' /\ run' = run
<1>1. /\ pc' = [pc EXCEPT ![w] = "idle"] /\ mem' = [mem EXCEPT ![w] = Nothing]
      /\ kept' \subseteq kept /\ saved' \subseteq saved /\ UNCHANGED <<scenario, run, seq>>
  BY DEF Delete
<1>2. "idle" \in Calls /\ "idle" \notin NamesScenario \cup NamesBaseline \cup NamesDerived
  BY DEF Calls, NamesScenario, NamesBaseline, NamesDerived
<1>3. TypeOK'
  BY <1>1, TypeKept DEF IInv, TypeOK
<1>4. WorkersOK' /\ pc'[w] = "idle" /\ \A v \in Workers \ {w} : pc'[v] = pc[v] /\ mem'[v] = mem[v]
  BY <1>1, <1>2 DEF IInv, WorkersOK
<1>5. Holding'
  BY <1>1, <1>2, <1>4, HoldingStep
<1> QED BY <1>1, <1>3, <1>4, <1>5 DEF IInv

\* An empty store, at the start of the process.
LEMMA EmptyIsTyped ==
  ASSUME scenario = [s \in {} |-> Nothing], run = [r \in {} |-> Nothing], kept = {}, saved = {},
         seq = [name \in {"scenario", "run", "alternative"} |-> 0],
         pc = [w \in Workers |-> "idle"], mem = [w \in Workers |-> Nothing]
  PROVE  IInv
<1>1. "idle" \in Calls /\ "idle" \notin NamesScenario \cup NamesBaseline \cup NamesDerived
  BY DEF Calls, NamesScenario, NamesBaseline, NamesDerived
<1>2. TypeOK
  BY DEF TypeOK
<1>3. WorkersOK
  BY <1>1 DEF WorkersOK
<1>4. Holding
  BY <1>1 DEF Holding, NamesScenario
<1> QED BY <1>2, <1>3, <1>4 DEF IInv

LEMMA RestartStep ==
  ASSUME IInv, Restart
  PROVE  IInv' /\ DOMAIN run' = {}
<1>1. /\ scenario' = [s \in {} |-> Nothing] /\ run' = [r \in {} |-> Nothing] /\ kept' = {} /\ saved' = {}
      /\ seq' = [name \in {"scenario", "run", "alternative"} |-> 0]
      /\ pc' = [w \in Workers |-> "idle"] /\ mem' = [w \in Workers |-> Nothing]
  BY DEF Restart, IInv, TypeOK
<1>2. "idle" \in Calls /\ "idle" \notin NamesScenario \cup NamesBaseline \cup NamesDerived
  BY DEF Calls, NamesScenario, NamesBaseline, NamesDerived
<1>3. TypeOK'
  BY <1>1 DEF TypeOK
<1>4. WorkersOK'
  BY <1>1, <1>2 DEF WorkersOK
<1>5. Holding'
  BY <1>1, <1>2 DEF Holding, NamesScenario
<1> QED BY <1>1, <1>3, <1>4, <1>5 DEF IInv


-----------------------------------------------------------------------------

\* What AlternativesKept says of one step.
OnlySearched ==
  \A r \in DOMAIN run \cap DOMAIN run' : \A o \in Orders :
    \/ run[r].outcomes[o].alternative_state # "AVAILABLE"
    \/ run'[r].outcomes[o] = run[r].outcomes[o]
    \/ \E w \in Workers : /\ pc[w] \in {"alt_state", "alt_link"}
                         /\ pc'[w] # pc[w] /\ mem[w].r = r /\ mem[w].o = o

LEMMA WorkStep ==
  ASSUME IInv, NEW w \in Workers, Work(w)
  PROVE  IInv' /\ OnlySearched
<1> DEFINE Kept == \A r \in DOMAIN run : r \in DOMAIN run' => run'[r] = run[r]
<1>1. SUFFICES \/ IInv' /\ Kept
               \/ IInv' /\ OnlySearched
  BY DEF OnlySearched
<1>2. IInv' /\ run' = run => IInv' /\ Kept
  OBVIOUS
<1>3. CASE CreateScenario(w)
  BY <1>2, <1>3, CreateScenarioStep
<1>4. CASE \/ CreateTrace(w) \/ ValidateTrace(w) \/ RunTrace(w)
           \/ AltTrace(w) \/ DecideTrace(w)
  BY <1>2, <1>4, TraceStep DEF CreateTrace, ValidateTrace, RunTrace, AltTrace, DecideTrace
<1>5. CASE ValidateRead(w) \/ RunRead(w) \/ DeleteCheck(w)
  <2>1. ASSUME NEW kind, NEW next \in {"validate_save", "run_solve", "delete"}, NEW s \in kept,
               Arrive(w, kind, next, [s |-> s]), UNCHANGED <<records, seq>>
        PROVE  IInv' /\ Kept
    <3>1. next \in Calls /\ next # "run_save" /\ next \notin NamesBaseline \cup NamesDerived
      BY DEF Calls, NamesScenario, NamesBaseline, NamesDerived
    <3>2. [s |-> s].s \in DOMAIN scenario
      BY DEF IInv, TypeOK
    <3> QED BY <1>2, <2>1, <3>1, <3>2, ArriveStep
  <2>2. CASE ValidateRead(w)
    BY <2>1, <2>2 DEF ValidateRead
  <2>3. CASE RunRead(w)
    BY <2>1, <2>3 DEF RunRead
  <2>4. CASE DeleteCheck(w)
    BY <2>1, <2>4 DEF DeleteCheck
  <2> QED BY <1>5, <2>2, <2>3, <2>4
<1>6. CASE AltRead(w)
  <2>1. PICK r \in saved, o \in Orders :
          /\ Arrive(w, "alternative", "alt_search", [r |-> r, o |-> o, d |-> Nothing])
          /\ UNCHANGED <<records, seq>>
    BY <1>6 DEF AltRead
  <2>2. /\ "alt_search" \in Calls /\ "alt_search" # "run_save"
        /\ "alt_search" \notin NamesScenario \cup NamesDerived
    BY DEF Calls, NamesScenario, NamesBaseline, NamesDerived
  <2>3. [r |-> r, o |-> o, d |-> Nothing] \in [r : DOMAIN run, o : Orders, d : Made \cup {Nothing}]
    BY DEF IInv, TypeOK
  <2> QED BY <1>2, <2>1, <2>2, <2>3, ArriveStep
<1>7. CASE DecideRead(w) \/ ExplainRead(w)
  <2>1. ASSUME NEW kind, NEW next \in {"decide_save", "explain_check"}, NEW ids,
               Arrive(w, kind, next, ids), UNCHANGED <<records, seq>>
        PROVE  IInv' /\ Kept
    <3>1. /\ next \in Calls /\ next # "run_save"
          /\ next \notin NamesScenario \cup NamesBaseline \cup NamesDerived
      BY DEF Calls, NamesScenario, NamesBaseline, NamesDerived
    <3> QED BY <1>2, <2>1, <3>1, ArriveStep
  <2>2. CASE DecideRead(w)
    BY <2>1, <2>2 DEF DecideRead
  <2>3. CASE ExplainRead(w)
    BY <2>1, <2>3 DEF ExplainRead
  <2> QED BY <1>7, <2>2, <2>3
<1>8. CASE ValidateState(w)
  <2>1. {"validate_state", "validate_trace"} \subseteq NamesScenario
    BY DEF NamesScenario
  <2> QED BY <1>2, <1>8, <2>1, SetStateStep DEF ValidateState
<1>9. CASE RunState(w)
  <2>1. {"run_state", "run_trace"} \subseteq NamesScenario
    BY DEF NamesScenario
  <2> QED BY <1>2, <1>9, <2>1, SetStateStep DEF RunState
<1>10. CASE RunSolve(w)
  BY <1>10, RunSolveStep
<1>11. CASE RunSave(w)
  <2>1. /\ {"run_save", "run_state"} \subseteq NamesScenario /\ "run_state" \in Calls
        /\ "run_state" \notin NamesBaseline \cup NamesDerived
    BY DEF NamesScenario, NamesBaseline, NamesDerived, Calls
  <2>2. mem[w].r \in DOMAIN run
    BY <1>11 DEF RunSave, SaveRun, Continue, Remember, IInv, Holding
  <2> QED BY <1>2, <1>11, <2>1, <2>2, SaveRunStep DEF RunSave
<1>12. CASE AltSearch(w)
  BY <1>12, AltSearchStep
<1>13. CASE AltState(w)
  <2>1. /\ {"alt_state", "alt_link"} \subseteq NamesBaseline /\ "alt_link" \notin NamesDerived
    BY DEF NamesBaseline, NamesDerived
  <2>2. /\ IInv'
        /\ \A r \in DOMAIN run : \A o \in Orders :
             r # mem[w].r \/ o # mem[w].o => run'[r].outcomes[o] = run[r].outcomes[o]
    BY <1>13, <2>1, EditStep DEF AltState
  <2>3. pc[w] = "alt_state" /\ pc'[w] = "alt_link"
    BY <1>13 DEF AltState, Edit, Continue, Remember, IInv, WorkersOK
  <2> QED BY <2>2, <2>3 DEF OnlySearched
<1>14. CASE AltLink(w)
  <2> DEFINE to == IF mem[w].d = Nothing THEN "alt_save" ELSE "alt_scenario"
  <2>1. /\ {"alt_link", "alt_save", "alt_scenario"} \subseteq NamesBaseline
        /\ "alt_save" \notin NamesDerived
    BY DEF NamesBaseline, NamesDerived
  <2>2. pc[w] = "alt_link" /\ pc'[w] = to
    BY <1>14 DEF AltLink, Edit, Continue, Remember, IInv, WorkersOK
  <2>3. mem[w].d \in Ids \cup {Nothing}
    BY <2>1, <2>2 DEF IInv, Holding, Made, TypeOK
  <2>4. /\ IInv'
        /\ \A r \in DOMAIN run : \A o \in Orders :
             r # mem[w].r \/ o # mem[w].o => run'[r].outcomes[o] = run[r].outcomes[o]
    BY <1>14, <2>1, <2>3, EditStep DEF AltLink
  <2>5. pc'[w] # pc[w]
    BY <2>2
  <2> QED BY <2>2, <2>4, <2>5 DEF OnlySearched
<1>15. CASE AltSave(w)
  <2>1. /\ {"alt_save", "alt_trace"} \subseteq NamesBaseline /\ "alt_trace" \in Calls
        /\ "alt_trace" \notin NamesScenario \cup NamesDerived /\ "alt_trace" # "run_save"
    BY DEF NamesScenario, NamesBaseline, NamesDerived, Calls
  <2>2. mem[w].r \in DOMAIN run
    BY <1>15, <2>1 DEF AltSave, SaveRun, Continue, Remember, IInv, Holding
  <2> QED BY <1>2, <1>15, <2>1, <2>2, SaveRunStep DEF AltSave
<1>16. CASE AltSaveRun(w)
  <2>1. /\ {"alt_run", "alt_validation"} \subseteq NamesBaseline \cap NamesDerived
        /\ "alt_validation" \in Calls /\ "alt_validation" \notin NamesScenario /\ "alt_validation" # "run_save"
    BY DEF NamesScenario, NamesBaseline, NamesDerived, Calls
  <2>2. pc[w] = "alt_run"
    BY <1>16 DEF AltSaveRun, SaveRun, Continue, Remember
  <2>3. mem[w].d \in DOMAIN run /\ mem[w].d # Nothing
    BY <2>1, <2>2 DEF IInv, Holding, Made
  <2> QED BY <1>2, <1>16, <2>1, <2>3, SaveRunStep DEF AltSaveRun
<1>17. CASE AltSaveScenario(w)
  <2>1. /\ {"alt_scenario", "alt_run"} \subseteq NamesBaseline \cap NamesDerived
        /\ "alt_run" \in Calls /\ "alt_run" \notin NamesScenario /\ "alt_run" # "run_save"
    BY DEF NamesScenario, NamesBaseline, NamesDerived, Calls
  <2>2. /\ Continue(w, "alt_scenario", "alt_run") /\ kept' = kept \cup {mem[w].d}
        /\ UNCHANGED <<scenario, run, saved, seq>>
    BY <1>17 DEF AltSaveScenario
  <2>3. pc[w] = "alt_scenario"
    BY <2>2 DEF Continue, Remember
  <2>4. mem[w].d \in DOMAIN scenario /\ mem[w].d # Nothing
    BY <2>1, <2>3 DEF IInv, Holding, Made
  <2>5. TypeOK'
    BY <2>2, <2>4, TypeKept DEF IInv, TypeOK
  <2>6. WorkersOK' /\ Holding'
    BY <2>1, <2>2, <2>4, ContinueHolds
  <2> QED BY <1>2, <2>2, <2>5, <2>6 DEF IInv
<1>18. CASE \/ ValidateSave(w) \/ ValidateCheck(w) \/ RunRefused(w) \/ AltNoScenario(w)
            \/ AltSaveValidation(w) \/ AltClearExplanation(w)
            \/ DecideSave(w) \/ ExplainCheck(w) \/ ExplainSave(w)
  <2> DEFINE quiet == UNCHANGED <<scenario, run, kept, saved, seq>>
  <2>1. \/ Continue(w, "validate_save", "validate_check") /\ quiet
        \/ Continue(w, "validate_check", "validate_state") /\ quiet
        \/ Continue(w, "validate_check", "validate_trace") /\ quiet
        \/ Continue(w, "run_solve", "idle") /\ quiet
        \/ Continue(w, "alt_search", "idle") /\ quiet
        \/ Continue(w, "alt_validation", "alt_clear") /\ quiet
        \/ Continue(w, "alt_clear", "alt_trace") /\ quiet
        \/ Continue(w, "decide_save", "decide_trace") /\ quiet
        \/ Continue(w, "explain_check", "idle") /\ quiet
        \/ Continue(w, "explain_check", "explain_save") /\ quiet
        \/ Continue(w, "explain_save", "idle") /\ quiet
    BY <1>18 DEF ValidateSave, ValidateCheck, RunRefused, AltNoScenario, AltSaveValidation,
                 AltClearExplanation, DecideSave, ExplainCheck, ExplainSave, records
  <2>2. \E from, to : /\ Continue(w, from, to) /\ quiet
                      /\ to \in Calls /\ to # "run_save" /\ to \notin NamesDerived
                      /\ to \in NamesScenario => from \in NamesScenario
                      /\ to \in NamesBaseline => from \in NamesBaseline
    BY <2>1 DEF Calls, NamesScenario, NamesBaseline, NamesDerived
  <2> QED BY <1>2, <2>2, QuietStep
<1>19. CASE Delete(w)
  BY <1>2, <1>19, DeleteStep
<1> QED BY <1>3, <1>4, <1>5, <1>6, <1>7, <1>8, <1>9, <1>10, <1>11, <1>12, <1>13, <1>14, <1>15,
           <1>16, <1>17, <1>18, <1>19 DEF Work

LEMMA NextStep == IInv /\ [Next]_vars => IInv' /\ OnlySearched
<1> SUFFICES ASSUME IInv, [Next]_vars
             PROVE  IInv' /\ OnlySearched
  OBVIOUS
<1>1. CASE Restart
  BY <1>1, RestartStep DEF OnlySearched
<1>2. CASE \E w \in Workers : Work(w)
  BY <1>2, WorkStep
<1>3. CASE UNCHANGED vars
  <2>1. UNCHANGED <<scenario, run, kept, saved, seq, pc, mem>>
    BY <1>3 DEF vars, records
  <2> QED BY <2>1 DEF IInv, TypeOK, WorkersOK, Holding, Made, OnlySearched
<1> QED BY <1>1, <1>2, <1>3 DEF Next

\* The store's ids lead to documents of this process and the numbers given out
\* are those its counters have reached, whatever the requests and however they
\* overlap.
THEOREM TypeCorrect == Spec => []TypeOK
<1>1. Init => IInv
  BY EmptyIsTyped DEF Init
<1>2. IInv /\ [Next]_vars => IInv'
  BY NextStep
<1>3. IInv => TypeOK
  BY DEF IInv
<1> QED BY <1>1, <1>2, <1>3, PTL DEF Spec

\* In the in-memory store no interleaving of any number of handlers reverts an
\* alternative that another order was given (storage.py:114-121).
THEOREM NoAlternativeIsLost == Spec => AlternativesKept
<1>1. Init => IInv
  BY EmptyIsTyped DEF Init
<1>2. IInv /\ [Next]_vars => IInv' /\ [OnlySearched]_vars
  BY NextStep
<1> QED BY <1>1, <1>2, PTL DEF Spec, AlternativesKept, OnlySearched

-----------------------------------------------------------------------------
(* Links and deletions *)

\* s is a scenario that changed order o and its run, derived from run r.
Fits(s, r, o) ==
  /\ s \in Made
  /\ scenario[s].parent = run[r].scenario /\ scenario[s].changed = o
  /\ run[s].scenario = s /\ run[s].parent = r

\* A deletion works alone.
Alone == \A w \in Workers : pc[w] = "delete" => \A v \in Workers \ {w} : pc[v] = "idle"

\* What the store's dictionaries hold leads to what they hold.
Rows ==
  /\ validated \cup traced \subseteq kept
  /\ \A r \in saved : run[r].scenario \in kept
  /\ explained \subseteq saved
  /\ \A d \in decisions : d.run \in saved
  /\ deleted \subseteq DOMAIN scenario /\ deleted \cap kept = {}
  /\ \A s \in kept : s[1] = "ALT" => scenario[s].parent \notin deleted

NamesRun == NamesBaseline \cup {"decide_save", "decide_trace", "explain_check", "explain_save"}

\* What a handler holds is stored, as far as its path has stored it.
Handles(w) ==
  /\ pc[w] \in NamesScenario => mem[w].s \in kept
  /\ pc[w] = "run_save" => run[mem[w].r].scenario = mem[w].s
  /\ pc[w] \in NamesRun => mem[w].r \in saved
  /\ pc[w] \in NamesBaseline /\ mem[w].d # Nothing =>
       Fits(mem[w].d, mem[w].r, mem[w].o) /\ mem[w].d \notin deleted
  /\ pc[w] = "alt_save" => mem[w].d = Nothing
  /\ pc[w] \in {"alt_run", "alt_validation"} => mem[w].d \in kept
  /\ pc[w] = "alt_validation" => mem[w].d \in saved
  /\ pc[w] \in {"alt_clear", "alt_trace"} => mem[w].d \in kept \cup {Nothing}
  /\ pc[w] = "delete" => \A c \in kept : scenario[c].parent # mem[w].s

\* s fits and is stored, or a handler is about to store it.
Leads(s, r, o) ==
  /\ Fits(s, r, o)
  /\ \/ s \in kept \cap saved \cap validated
     \/ \E w \in Workers : pc[w] \in NamesDerived /\ mem[w].d = s

Links ==
  \A r \in DOMAIN run : \A o \in Orders :
    \A s \in {run[r].outcomes[o].link} \ ({Nothing} \cup deleted) : Leads(s, r, o)

Clean == Alone /\ Rows /\ Links /\ \A w \in Workers : Handles(w)

\* Nothing is promised once a deletion met another request.
CleanInv == overlapped \in BOOLEAN /\ (overlapped \/ Clean)

\* What a step without a deletion does to the documents and the dictionaries.
Growing ==
  /\ DOMAIN scenario \subseteq DOMAIN scenario' /\ DOMAIN run \subseteq DOMAIN run'
  /\ \A s \in DOMAIN scenario : /\ scenario'[s].parent = scenario[s].parent
                                /\ scenario'[s].changed = scenario[s].changed
  /\ \A r \in DOMAIN run : run'[r].scenario = run[r].scenario /\ run'[r].parent = run[r].parent
  /\ kept \subseteq kept' /\ saved \subseteq saved' /\ validated \subseteq validated'
  /\ deleted' = deleted

Others(w) == \A v \in Workers \ {w} : pc'[v] = pc[v] /\ mem'[v] = mem[v]

\* A step after which nothing points to a document that was not there.
SameLinks == \A r \in DOMAIN run' : \A o \in Orders :
  \/ run'[r].outcomes[o].link = Nothing
  \/ r \in DOMAIN run /\ run'[r].outcomes[o].link = run[r].outcomes[o].link

\* The worker stays on its way from the link it set to what that names, or
\* has arrived.
Underway(w) ==
  pc[w] \in NamesDerived => \/ pc'[w] \in NamesDerived /\ mem'[w] = mem[w]
                            \/ mem[w].d \in kept' \cap saved' \cap validated'

LEMMA HeldRun ==
  ASSUME IInv, NEW w \in Workers
  PROVE  /\ pc[w] \in NamesBaseline => mem[w].r \in DOMAIN run
         /\ pc[w] = "run_save" => mem[w].r \in DOMAIN run
BY DEF IInv, Holding

LEMMA FitsStays ==
  ASSUME Growing, NEW s, NEW r \in DOMAIN run, NEW o, Fits(s, r, o)
  PROVE  Fits(s, r, o)'
BY DEF Growing, Fits, Made

LEMMA HandlesStay ==
  ASSUME IInv, Growing, NEW v \in Workers, pc'[v] = pc[v], mem'[v] = mem[v], pc[v] # "delete", Handles(v)
  PROVE  Handles(v)'
<1>1. pc[v] \in NamesBaseline /\ mem[v].d # Nothing =>
        Fits(mem[v].d, mem[v].r, mem[v].o)' /\ mem[v].d \notin deleted'
  BY HeldRun, FitsStays DEF Handles, Growing
<1>2. pc[v] = "run_save" => run'[mem[v].r].scenario = mem[v].s
  BY HeldRun DEF Handles, Growing
<1> QED BY <1>1, <1>2 DEF Handles, Growing

LEMMA LeadsStays ==
  ASSUME Growing, NEW w \in Workers, Others(w), Underway(w),
         NEW r \in DOMAIN run, NEW o, NEW s, Leads(s, r, o)
  PROVE  Leads(s, r, o)'
<1>1. Fits(s, r, o)'
  BY FitsStays DEF Leads
<1>2. CASE s \in kept \cap saved \cap validated
  BY <1>1, <1>2 DEF Leads, Growing
<1>3. CASE \E v \in Workers : pc[v] \in NamesDerived /\ mem[v].d = s
  <2>1. PICK v \in Workers : pc[v] \in NamesDerived /\ mem[v].d = s
    BY <1>3
  <2>2. CASE v = w
    BY <1>1, <2>1, <2>2 DEF Underway, Leads
  <2>3. CASE v # w
    <3>1. pc'[v] = pc[v] /\ mem'[v] = mem[v]
      BY <2>3 DEF Others
    <3> QED BY <1>1, <2>1, <3>1 DEF Leads
  <2> QED BY <2>2, <2>3
<1> QED BY <1>2, <1>3 DEF Leads

LEMMA LinksStay ==
  ASSUME Links, Growing, NEW w \in Workers, Others(w), SameLinks, Underway(w)
  PROVE  Links'
<1> SUFFICES ASSUME NEW r \in DOMAIN run', NEW o \in Orders, NEW s, s = run'[r].outcomes[o].link,
                    s \notin {Nothing} \cup deleted'
             PROVE  Leads(s, r, o)'
  BY DEF Links
<1>1. r \in DOMAIN run /\ s = run[r].outcomes[o].link /\ s \notin {Nothing} \cup deleted
  BY DEF SameLinks, Growing
<1>2. Leads(s, r, o)
  BY <1>1 DEF Links
<1> QED BY <1>1, <1>2, LeadsStays

\* A step of one handler, while no deletion is in flight.
LEMMA CleanStays ==
  ASSUME IInv, Clean, Growing, NEW w \in Workers, Others(w),
         \A v \in Workers : pc[v] # "delete",
         pc'[w] = "delete" => \A v \in Workers \ {w} : pc[v] = "idle",
         Rows', Links', Handles(w)'
  PROVE  Clean'
<1>1. Alone'
  BY DEF Alone, Others
<1>2. ASSUME NEW v \in Workers
      PROVE  Handles(v)'
  <2>1. CASE v = w
    BY <2>1
  <2>2. CASE v # w
    <3>1. pc'[v] = pc[v] /\ mem'[v] = mem[v] /\ pc[v] # "delete" /\ Handles(v)
      BY <2>2 DEF Others, Clean
    <3> QED BY <3>1, HandlesStay
  <2> QED BY <2>1, <2>2
<1> QED BY <1>1, <1>2 DEF Clean

\* Neither a document nor a link changes.
LEMMA QuietClean ==
  ASSUME IInv, Clean, NEW w \in Workers, Others(w),
         \A v \in Workers : pc[v] # "delete",
         pc'[w] = "delete" => \A v \in Workers \ {w} : pc[v] = "idle",
         UNCHANGED <<scenario, run, deleted>>,
         kept \subseteq kept', saved \subseteq saved', validated \subseteq validated',
         Underway(w), Rows', Handles(w)'
  PROVE  Clean'
<1>1. Growing /\ SameLinks
  BY DEF Growing, SameLinks
<1>2. Links'
  BY <1>1, LinksStay DEF Clean
<1> QED BY <1>1, <1>2, CleanStays

\* What a request that arrives without meeting a deletion finds.
LEMMA ArriveAlone ==
  ASSUME IInv, NEW w \in Workers, NEW kind, NEW next, NEW ids, Arrive(w, kind, next, ids), ~overlapped'
  PROVE  /\ pc[w] = "idle" /\ pc'[w] = next /\ mem'[w] = ids /\ Others(w) /\ deleted' = deleted
         /\ \A v \in Workers : pc[v] # "delete"
         /\ kind = "delete" => \A v \in Workers \ {w} : pc[v] = "idle"
         /\ Underway(w)
<1>1. /\ pc[w] = "idle" /\ pc' = [pc EXCEPT ![w] = next] /\ mem' = [mem EXCEPT ![w] = ids]
      /\ deleted' = deleted
      /\ overlapped' = (overlapped \/ IF kind = "delete" THEN InFlight # {}
                                      ELSE \E v \in InFlight : pc[v] = "delete")
  BY DEF Arrive
<1>2. pc'[w] = next /\ mem'[w] = ids /\ Others(w)
  BY <1>1 DEF Others, IInv, WorkersOK
<1>3. CASE kind = "delete"
  <2>1. InFlight = {}
    BY <1>1, <1>3
  <2> QED BY <1>1, <1>2, <1>3, <2>1 DEF InFlight, Underway, NamesDerived
<1>4. CASE kind # "delete"
  <2>1. \A v \in InFlight : pc[v] # "delete"
    BY <1>1, <1>4
  <2> QED BY <1>1, <1>2, <1>4, <2>1 DEF InFlight, Underway, NamesDerived
<1> QED BY <1>3, <1>4

LEMMA RememberAlone ==
  ASSUME IInv, Clean, NEW w \in Workers, NEW from, NEW to, NEW ids, Remember(w, from, to, ids),
         from # "idle", from # "delete"
  PROVE  /\ pc[w] = from /\ pc'[w] = to /\ mem'[w] = ids /\ Others(w) /\ deleted' = deleted
         /\ \A v \in Workers : pc[v] # "delete"
<1>1. /\ pc[w] = from /\ pc' = [pc EXCEPT ![w] = to] /\ mem' = [mem EXCEPT ![w] = ids]
      /\ deleted' = deleted
  BY DEF Remember
<1>2. pc'[w] = to /\ mem'[w] = ids /\ Others(w)
  BY <1>1 DEF Others, IInv, WorkersOK
<1>3. ASSUME NEW v \in Workers, pc[v] = "delete"
      PROVE  FALSE
  BY <1>1, <1>3 DEF Clean, Alone
<1> QED BY <1>1, <1>2, <1>3

LEMMA ContinueAlone ==
  ASSUME IInv, Clean, NEW w \in Workers, NEW from, NEW to, Continue(w, from, to),
         from # "idle", from # "delete"
  PROVE  /\ pc[w] = from /\ pc'[w] = to /\ Others(w) /\ deleted' = deleted
         /\ to # "idle" => mem'[w] = mem[w]
         /\ \A v \in Workers : pc[v] # "delete"
BY RememberAlone DEF Continue

LEMMA CreateScenarioClean ==
  ASSUME IInv, Clean, ~overlapped', NEW w \in Workers, CreateScenario(w)
  PROVE  Clean'
<1> DEFINE s == <<"BASE", seq["scenario"] + 1>>
<1>1. PICK candidates \in BOOLEAN, parent \in {Nothing} \cup Nameable :
        /\ Arrive(w, "create", "create_trace", [s |-> s])
        /\ scenario' = Allocate(scenario, s, [state |-> "VALIDATION_REQUIRED", parent |-> parent,
                                              candidates |-> candidates, changed |-> Nothing])
        /\ kept' = kept \cup {s}
        /\ UNCHANGED <<run, saved, validated, traced, explained, decisions>>
  BY DEF CreateScenario
<1>2. s \notin DOMAIN scenario /\ s[1] # "ALT"
  <2>1. SUFFICES ASSUME s \in DOMAIN scenario
                 PROVE  FALSE
    OBVIOUS
  <2>2. s[1] = "BASE" /\ s[2] = seq["scenario"] + 1 /\ seq["scenario"] \in Nat
    BY DEF IInv, TypeOK
  <2>3. s[2] <= seq["scenario"]
    BY <2>1, <2>2 DEF IInv, TypeOK
  <2> QED BY <2>2, <2>3
<1> HIDE DEF s
<1>3. /\ DOMAIN scenario' = DOMAIN scenario \cup {s}
      /\ \A i \in DOMAIN scenario : scenario'[i] = scenario[i]
  BY <1>1, <1>2 DEF Allocate
<1>4. /\ pc[w] = "idle" /\ pc'[w] = "create_trace" /\ mem'[w] = [s |-> s] /\ Others(w)
      /\ deleted' = deleted /\ Underway(w) /\ \A v \in Workers : pc[v] # "delete"
  BY <1>1, ArriveAlone
<1>5. Growing /\ SameLinks
  BY <1>1, <1>3, <1>4 DEF Growing, SameLinks
<1>6. Rows'
  <2>1. Rows /\ kept \subseteq DOMAIN scenario
    BY DEF Clean, IInv, TypeOK
  <2>2. ASSUME NEW c \in kept', c[1] = "ALT"
        PROVE  scenario'[c].parent \notin deleted'
    BY <1>1, <1>2, <1>3, <1>4, <2>1, <2>2 DEF Rows
  <2> QED BY <1>1, <1>2, <1>3, <1>4, <2>1, <2>2 DEF Rows
<1>7. Links'
  BY <1>4, <1>5, LinksStay DEF Clean
<1>8. Handles(w)'
  BY <1>1, <1>4 DEF Handles, NamesRun, NamesBaseline, NamesDerived
<1> QED BY <1>4, <1>5, <1>6, <1>7, <1>8, CleanStays

LEMMA IdleHandles == ASSUME NEW w, pc'[w] = "idle" PROVE Handles(w)'
BY DEF Handles, NamesScenario, NamesRun, NamesBaseline

\* An event is recorded for a scenario that is stored.
LEMMA TraceClean ==
  ASSUME IInv, Clean, NEW w \in Workers, NEW from, from \notin {"idle", "delete"} \cup NamesDerived,
         NEW ids \in SUBSET kept, Trace(w, from, ids)
  PROVE  Clean'
<1>1. /\ Continue(w, from, "idle") /\ traced' = traced \cup ids
      /\ UNCHANGED <<scenario, run, kept, saved, validated, explained, decisions>>
  BY DEF Trace
<1>2. /\ pc[w] = from /\ pc'[w] = "idle" /\ Others(w) /\ deleted' = deleted
      /\ \A v \in Workers : pc[v] # "delete"
  BY <1>1, ContinueAlone
<1>3. Rows'
  BY <1>1, <1>2 DEF Clean, Rows
<1>4. Handles(w)' /\ Underway(w)
  BY <1>2, IdleHandles DEF Underway
<1> QED BY <1>1, <1>2, <1>3, <1>4, QuietClean

LEMMA SetStateClean ==
  ASSUME IInv, Clean, NEW w \in Workers,
         NEW from \in NamesScenario \ {"delete"}, NEW to \in NamesScenario \ {"delete", "run_save"},
         NEW state, SetState(w, from, to, state)
  PROVE  Clean'
<1>1. Continue(w, from, to) /\ UNCHANGED <<run, kept, saved, validated, traced, explained, decisions>>
  BY DEF SetState
<1>2. /\ from \notin {"idle", "delete"} \cup NamesDerived
      /\ to \notin NamesRun \cup NamesBaseline \cup NamesDerived \cup {"idle"}
  BY DEF NamesScenario, NamesRun, NamesBaseline, NamesDerived
<1>3. /\ pc[w] = from /\ pc'[w] = to /\ Others(w) /\ deleted' = deleted /\ mem'[w] = mem[w]
      /\ \A v \in Workers : pc[v] # "delete"
  BY <1>1, <1>2, ContinueAlone
<1>4. /\ DOMAIN scenario' = DOMAIN scenario
      /\ \A s \in DOMAIN scenario : /\ scenario'[s].parent = scenario[s].parent
                                    /\ scenario'[s].changed = scenario[s].changed
  <2>1. CASE mem[w].s \in kept
    <3>1. scenario' = [scenario EXCEPT ![mem[w].s].state = state]
      BY <2>1 DEF SetState
    <3>2. mem[w].s \in DOMAIN scenario /\ scenario \in [DOMAIN scenario -> ScenarioDoc]
      BY <2>1 DEF IInv, TypeOK
    <3> QED BY <3>1, <3>2 DEF ScenarioDoc
  <2>2. CASE mem[w].s \notin kept
    BY <2>2 DEF SetState
  <2> QED BY <2>1, <2>2
<1>5. Growing /\ SameLinks /\ Underway(w)
  BY <1>1, <1>2, <1>3, <1>4 DEF Growing, SameLinks, Underway
<1>6. Rows'
  BY <1>1, <1>3, <1>4 DEF Clean, Rows, IInv, TypeOK
<1>7. Links'
  BY <1>3, <1>5, LinksStay DEF Clean
<1>8. Handles(w)'
  BY <1>1, <1>2, <1>3 DEF Clean, Handles, NamesBaseline
<1>9. pc'[w] # "delete"
  BY <1>3
<1> QED BY <1>3, <1>5, <1>6, <1>7, <1>8, <1>9, CleanStays

\* A request reads what is stored.
LEMMA ReadClean ==
  ASSUME IInv, Clean, ~overlapped', NEW w \in Workers, NEW kind, NEW next, NEW ids,
         Arrive(w, kind, next, ids), UNCHANGED records,
         next = "delete" => kind = "delete",
         Handles(w)'
  PROVE  Clean'
<1>1. UNCHANGED <<scenario, run, kept, saved, validated, traced, explained, decisions>>
  BY DEF records
<1>2. /\ pc'[w] = next /\ Others(w) /\ deleted' = deleted /\ Underway(w)
      /\ \A v \in Workers : pc[v] # "delete"
      /\ kind = "delete" => \A v \in Workers \ {w} : pc[v] = "idle"
  BY ArriveAlone
<1>3. Rows'
  BY <1>1, <1>2 DEF Clean, Rows
<1> QED BY <1>1, <1>2, <1>3, QuietClean

LEMMA ReadsClean ==
  ASSUME IInv, Clean, ~overlapped', NEW w \in Workers,
         \/ ValidateRead(w) \/ RunRead(w) \/ AltRead(w) \/ DecideRead(w) \/ ExplainRead(w) \/ DeleteCheck(w)
  PROVE  Clean'
<1>1. ASSUME NEW kind, NEW next \in {"validate_save", "run_solve"}, NEW s \in kept,
             Arrive(w, kind, next, [s |-> s]), UNCHANGED records
      PROVE  Clean'
  <2>1. pc'[w] = next /\ mem'[w] = [s |-> s]
    BY <1>1, ArriveAlone
  <2>2. Handles(w)'
    BY <1>1, <2>1 DEF Handles, records, NamesRun, NamesBaseline
  <2> QED BY <1>1, <2>2, ReadClean
<1>2. CASE ValidateRead(w)
  BY <1>1, <1>2 DEF ValidateRead
<1>3. CASE RunRead(w)
  BY <1>1, <1>3 DEF RunRead
<1>4. CASE AltRead(w)
  <2>1. PICK r \in saved, o \in Orders :
          /\ Arrive(w, "alternative", "alt_search", [r |-> r, o |-> o, d |-> Nothing])
          /\ UNCHANGED records
    BY <1>4 DEF AltRead
  <2>2. pc'[w] = "alt_search" /\ mem'[w] = [r |-> r, o |-> o, d |-> Nothing]
    BY <2>1, ArriveAlone
  <2>3. Handles(w)'
    BY <2>1, <2>2 DEF Handles, records, NamesScenario, NamesRun, NamesBaseline
  <2> QED BY <2>1, <2>3, ReadClean
<1>5. CASE DecideRead(w) \/ ExplainRead(w)
  <2>1. PICK kind \in {"decide", "explain"}, next \in {"decide_save", "explain_check"} :
          \E ids : ids.r \in saved /\ Arrive(w, kind, next, ids) /\ UNCHANGED records
    <3>1. CASE ExplainRead(w)
      <4>1. PICK r \in saved : Arrive(w, "explain", "explain_check", [r |-> r]) /\ UNCHANGED records
        BY <3>1 DEF ExplainRead
      <4>2. [r |-> r].r \in saved
        OBVIOUS
      <4> QED BY <4>1, <4>2
    <3>2. CASE DecideRead(w)
      <4>1. PICK r \in saved, decision \in {"ACCEPTED", "HELD"} :
              Arrive(w, "decide", "decide_save", [r |-> r, decision |-> decision]) /\ UNCHANGED records
        BY <3>2 DEF DecideRead
      <4>2. [r |-> r, decision |-> decision].r \in saved
        OBVIOUS
      <4> QED BY <4>1, <4>2
    <3> QED BY <1>5, <3>1, <3>2
  <2>2. PICK ids : ids.r \in saved /\ Arrive(w, kind, next, ids) /\ UNCHANGED records
    BY <2>1
  <2>3. pc'[w] = next /\ mem'[w] = ids
    BY <2>2, ArriveAlone
  <2>4. Handles(w)'
    BY <2>2, <2>3 DEF Handles, records, NamesScenario, NamesBaseline
  <2>5. next # "delete"
    OBVIOUS
  <2> QED BY <2>2, <2>4, <2>5, ReadClean
<1>6. CASE DeleteCheck(w)
  <2>1. PICK s \in kept :
          /\ \A c \in kept : scenario[c].parent # s
          /\ Arrive(w, "delete", "delete", [s |-> s]) /\ UNCHANGED records
    BY <1>6 DEF DeleteCheck
  <2>2. pc'[w] = "delete" /\ mem'[w] = [s |-> s]
    BY <2>1, ArriveAlone
  <2>3. Handles(w)'
    BY <2>1, <2>2 DEF Handles, records, NamesRun, NamesBaseline
  <2> QED BY <2>1, <2>3, ReadClean
<1> QED BY <1>2, <1>3, <1>4, <1>5, <1>6

\* The steps that only move on, or store what the handler holds.
LEMMA ScenarioQuietClean ==
  ASSUME IInv, Clean, NEW w \in Workers,
         \/ ValidateSave(w) \/ ValidateCheck(w) \/ RunRefused(w) \/ RunSave(w)
  PROVE  Clean'
<1>1. CASE ValidateSave(w)
  <2>1. Continue(w, "validate_save", "validate_check") /\ validated' = validated \cup {mem[w].s}
        /\ UNCHANGED <<scenario, run, kept, saved, traced, explained, decisions>>
    BY <1>1 DEF ValidateSave
  <2>2. /\ pc[w] = "validate_save" /\ pc'[w] = "validate_check" /\ mem'[w] = mem[w] /\ Others(w)
        /\ deleted' = deleted /\ \A v \in Workers : pc[v] # "delete"
    BY <2>1, ContinueAlone
  <2>3. mem[w].s \in kept
    BY <2>2 DEF Clean, Handles, NamesScenario
  <2>4. Rows' /\ Handles(w)' /\ Underway(w)
    BY <2>1, <2>2, <2>3 DEF Clean, Rows, Handles, Underway, NamesRun, NamesBaseline, NamesDerived
  <2> QED BY <2>1, <2>2, <2>4, QuietClean
<1>2. CASE ValidateCheck(w)
  <2>1. PICK to \in {"validate_state", "validate_trace"} : Continue(w, "validate_check", to)
    BY <1>2 DEF ValidateCheck
  <2>2. UNCHANGED <<scenario, run, kept, saved, validated, traced, explained, decisions>>
    BY <1>2 DEF ValidateCheck, records
  <2>3. /\ pc[w] = "validate_check" /\ pc'[w] = to /\ mem'[w] = mem[w] /\ Others(w)
        /\ deleted' = deleted /\ \A v \in Workers : pc[v] # "delete"
    BY <2>1, ContinueAlone
  <2>4. mem[w].s \in kept
    BY <2>3 DEF Clean, Handles, NamesScenario
  <2>5. Rows' /\ Handles(w)' /\ Underway(w)
    BY <2>2, <2>3, <2>4 DEF Clean, Rows, Handles, Underway, NamesRun, NamesBaseline, NamesDerived
  <2> QED BY <2>2, <2>3, <2>5, QuietClean
<1>3. CASE RunRefused(w)
  <2>1. Continue(w, "run_solve", "idle")
        /\ UNCHANGED <<scenario, run, kept, saved, validated, traced, explained, decisions>>
    BY <1>3 DEF RunRefused, records
  <2>2. /\ pc[w] = "run_solve" /\ pc'[w] = "idle" /\ Others(w)
        /\ deleted' = deleted /\ \A v \in Workers : pc[v] # "delete"
    BY <2>1, ContinueAlone
  <2>3. Rows' /\ Handles(w)' /\ Underway(w)
    BY <2>1, <2>2, IdleHandles DEF Clean, Rows, Underway, NamesDerived
  <2> QED BY <2>1, <2>2, <2>3, QuietClean
<1>4. CASE RunSave(w)
  <2>1. Continue(w, "run_save", "run_state") /\ saved' = saved \cup {mem[w].r}
        /\ UNCHANGED <<scenario, run, kept, validated, traced, explained, decisions>>
    BY <1>4 DEF RunSave, SaveRun
  <2>2. /\ pc[w] = "run_save" /\ pc'[w] = "run_state" /\ mem'[w] = mem[w] /\ Others(w)
        /\ deleted' = deleted /\ \A v \in Workers : pc[v] # "delete"
    BY <2>1, ContinueAlone
  <2>3. mem[w].s \in kept /\ run[mem[w].r].scenario \in kept
    BY <2>2 DEF Clean, Handles, NamesScenario
  <2>4. Rows' /\ Handles(w)' /\ Underway(w)
    BY <2>1, <2>2, <2>3 DEF Clean, Rows, Handles, Underway, NamesRun, NamesBaseline, NamesDerived
  <2> QED BY <2>1, <2>2, <2>4, QuietClean
<1> QED BY <1>1, <1>2, <1>3, <1>4

\* What a search stores goes below what it was derived from.
LEMMA AltQuietClean ==
  ASSUME IInv, Clean, NEW w \in Workers,
         \/ AltNoScenario(w) \/ AltSave(w) \/ AltSaveScenario(w) \/ AltSaveRun(w)
         \/ AltSaveValidation(w) \/ AltClearExplanation(w)
  PROVE  Clean'
<1> USE DEF NamesScenario, NamesRun, NamesBaseline, NamesDerived
<1>1. CASE AltNoScenario(w)
  <2>1. Continue(w, "alt_search", "idle")
        /\ UNCHANGED <<scenario, run, kept, saved, validated, traced, explained, decisions>>
    BY <1>1 DEF AltNoScenario, records
  <2>2. /\ pc[w] = "alt_search" /\ pc'[w] = "idle" /\ Others(w)
        /\ deleted' = deleted /\ \A v \in Workers : pc[v] # "delete"
    BY <2>1, ContinueAlone
  <2>3. Rows' /\ Handles(w)' /\ Underway(w)
    BY <2>1, <2>2, IdleHandles DEF Clean, Rows, Underway
  <2> QED BY <2>1, <2>2, <2>3, QuietClean
<1>2. CASE AltSave(w)
  <2>1. Continue(w, "alt_save", "alt_trace") /\ saved' = saved \cup {mem[w].r}
        /\ UNCHANGED <<scenario, run, kept, validated, traced, explained, decisions>>
    BY <1>2 DEF AltSave, SaveRun
  <2>2. /\ pc[w] = "alt_save" /\ pc'[w] = "alt_trace" /\ mem'[w] = mem[w] /\ Others(w)
        /\ deleted' = deleted /\ \A v \in Workers : pc[v] # "delete"
    BY <2>1, ContinueAlone
  <2>3. mem[w].r \in saved
    BY <2>2 DEF Clean, Handles
  <2>4. Rows' /\ Underway(w)
    BY <2>1, <2>2, <2>3 DEF Clean, Rows, Underway
  <2>5. Handles(w)'
    BY <2>1, <2>2, <2>3 DEF Clean, Handles, Fits, Made
  <2> QED BY <2>1, <2>2, <2>4, <2>5, QuietClean
<1>3. CASE AltSaveScenario(w)
  <2>1. Continue(w, "alt_scenario", "alt_run") /\ kept' = kept \cup {mem[w].d}
        /\ UNCHANGED <<scenario, run, saved, validated, traced, explained, decisions>>
    BY <1>3 DEF AltSaveScenario
  <2>2. /\ pc[w] = "alt_scenario" /\ pc'[w] = "alt_run" /\ mem'[w] = mem[w] /\ Others(w)
        /\ deleted' = deleted /\ \A v \in Workers : pc[v] # "delete"
    BY <2>1, ContinueAlone
  <2>3. mem[w].r \in saved /\ mem[w].d # Nothing
    BY <2>2 DEF Clean, Handles, IInv, Holding
  <2>4. Fits(mem[w].d, mem[w].r, mem[w].o) /\ mem[w].d \notin deleted
    BY <2>2, <2>3 DEF Clean, Handles
  <2>5. scenario[mem[w].d].parent \notin deleted
    <3>1. scenario[mem[w].d].parent = run[mem[w].r].scenario
      BY <2>4 DEF Fits
    <3> QED BY <2>3, <3>1 DEF Clean, Rows
  <2>6. Rows' /\ Underway(w)
    BY <2>1, <2>2, <2>4, <2>5 DEF Clean, Rows, Underway
  <2>7. Handles(w)'
    BY <2>1, <2>2, <2>3, <2>4 DEF Handles, Fits, Made
  <2> QED BY <2>1, <2>2, <2>6, <2>7, QuietClean
<1>4. CASE AltSaveRun(w)
  <2>1. Continue(w, "alt_run", "alt_validation") /\ saved' = saved \cup {mem[w].d}
        /\ UNCHANGED <<scenario, run, kept, validated, traced, explained, decisions>>
    BY <1>4 DEF AltSaveRun, SaveRun
  <2>2. /\ pc[w] = "alt_run" /\ pc'[w] = "alt_validation" /\ mem'[w] = mem[w] /\ Others(w)
        /\ deleted' = deleted /\ \A v \in Workers : pc[v] # "delete"
    BY <2>1, ContinueAlone
  <2>3. mem[w].r \in saved /\ mem[w].d # Nothing /\ mem[w].d \in kept
    BY <2>2 DEF Clean, Handles, IInv, Holding
  <2>4. Fits(mem[w].d, mem[w].r, mem[w].o) /\ mem[w].d \notin deleted
    BY <2>2, <2>3 DEF Clean, Handles
  <2>5. Rows' /\ Underway(w)
    BY <2>1, <2>2, <2>3, <2>4 DEF Clean, Rows, Underway, Fits
  <2>6. Handles(w)'
    BY <2>1, <2>2, <2>3, <2>4 DEF Handles, Fits, Made
  <2> QED BY <2>1, <2>2, <2>5, <2>6, QuietClean
<1>5. CASE AltSaveValidation(w)
  <2>1. Continue(w, "alt_validation", "alt_clear") /\ validated' = validated \cup {mem[w].d}
        /\ UNCHANGED <<scenario, run, kept, saved, traced, explained, decisions>>
    BY <1>5 DEF AltSaveValidation
  <2>2. /\ pc[w] = "alt_validation" /\ pc'[w] = "alt_clear" /\ mem'[w] = mem[w] /\ Others(w)
        /\ deleted' = deleted /\ \A v \in Workers : pc[v] # "delete"
    BY <2>1, ContinueAlone
  <2>3. mem[w].r \in saved /\ mem[w].d # Nothing /\ mem[w].d \in kept \cap saved
    BY <2>2 DEF Clean, Handles, IInv, Holding
  <2>4. Fits(mem[w].d, mem[w].r, mem[w].o) /\ mem[w].d \notin deleted
    BY <2>2, <2>3 DEF Clean, Handles
  <2>5. Rows' /\ Underway(w)
    BY <2>1, <2>2, <2>3 DEF Clean, Rows, Underway
  <2>6. Handles(w)'
    BY <2>1, <2>2, <2>3, <2>4 DEF Handles, Fits, Made
  <2> QED BY <2>1, <2>2, <2>5, <2>6, QuietClean
<1>6. CASE AltClearExplanation(w)
  <2>1. Continue(w, "alt_clear", "alt_trace") /\ explained' = explained \ {mem[w].r}
        /\ UNCHANGED <<scenario, run, kept, saved, validated, traced, decisions>>
    BY <1>6 DEF AltClearExplanation
  <2>2. /\ pc[w] = "alt_clear" /\ pc'[w] = "alt_trace" /\ mem'[w] = mem[w] /\ Others(w)
        /\ deleted' = deleted /\ \A v \in Workers : pc[v] # "delete"
    BY <2>1, ContinueAlone
  <2>3. Rows' /\ Underway(w)
    BY <2>1, <2>2 DEF Clean, Rows, Underway
  <2>4. Handles(w)'
    BY <2>1, <2>2 DEF Clean, Handles, Fits, Made
  <2> QED BY <2>1, <2>2, <2>3, <2>4, QuietClean
<1> QED BY <1>1, <1>2, <1>3, <1>4, <1>5, <1>6

LEMMA RequestQuietClean ==
  ASSUME IInv, Clean, NEW w \in Workers,
         DecideSave(w) \/ ExplainCheck(w) \/ ExplainSave(w)
  PROVE  Clean'
<1> USE DEF NamesScenario, NamesRun, NamesBaseline, NamesDerived
<1>1. CASE DecideSave(w)
  <2>1. /\ Continue(w, "decide_save", "decide_trace")
        /\ decisions' = decisions \cup {[run |-> mem[w].r, state |-> mem[w].decision]}
        /\ UNCHANGED <<scenario, run, kept, saved, validated, traced, explained>>
    BY <1>1 DEF DecideSave
  <2>2. /\ pc[w] = "decide_save" /\ pc'[w] = "decide_trace" /\ mem'[w] = mem[w] /\ Others(w)
        /\ deleted' = deleted /\ \A v \in Workers : pc[v] # "delete"
    BY <2>1, ContinueAlone
  <2>3. mem[w].r \in saved
    BY <2>2 DEF Clean, Handles
  <2>4. Rows' /\ Handles(w)' /\ Underway(w)
    BY <2>1, <2>2, <2>3 DEF Clean, Rows, Handles, Underway
  <2> QED BY <2>1, <2>2, <2>4, QuietClean
<1>2. CASE ExplainCheck(w)
  <2>1. PICK to \in {"idle", "explain_save"} : Continue(w, "explain_check", to)
    BY <1>2 DEF ExplainCheck
  <2>2. UNCHANGED <<scenario, run, kept, saved, validated, traced, explained, decisions>>
    BY <1>2 DEF ExplainCheck, records
  <2>3. /\ pc[w] = "explain_check" /\ pc'[w] = to /\ Others(w) /\ deleted' = deleted
        /\ to # "idle" => mem'[w] = mem[w]
        /\ \A v \in Workers : pc[v] # "delete"
    BY <2>1, ContinueAlone
  <2>4. mem[w].r \in saved
    BY <2>3 DEF Clean, Handles
  <2>5. Handles(w)'
    BY <2>2, <2>3, <2>4, IdleHandles DEF Handles
  <2>6. Rows' /\ Underway(w)
    BY <2>2, <2>3 DEF Clean, Rows, Underway
  <2> QED BY <2>2, <2>3, <2>5, <2>6, QuietClean
<1>3. CASE ExplainSave(w)
  <2>1. Continue(w, "explain_save", "idle") /\ explained' = explained \cup {mem[w].r}
        /\ UNCHANGED <<scenario, run, kept, saved, validated, traced, decisions>>
    BY <1>3 DEF ExplainSave
  <2>2. /\ pc[w] = "explain_save" /\ pc'[w] = "idle" /\ Others(w)
        /\ deleted' = deleted /\ \A v \in Workers : pc[v] # "delete"
    BY <2>1, ContinueAlone
  <2>3. mem[w].r \in saved
    BY <2>2 DEF Clean, Handles
  <2>4. Rows' /\ Handles(w)' /\ Underway(w)
    BY <2>1, <2>2, <2>3, IdleHandles DEF Clean, Rows, Underway
  <2> QED BY <2>1, <2>2, <2>4, QuietClean
<1> QED BY <1>1, <1>2, <1>3

LEMMA TracesClean ==
  ASSUME IInv, Clean, NEW w \in Workers,
         CreateTrace(w) \/ ValidateTrace(w) \/ RunTrace(w) \/ AltTrace(w) \/ DecideTrace(w)
  PROVE  Clean'
<1>1. CASE CreateTrace(w) \/ ValidateTrace(w) \/ RunTrace(w)
  <2>1. PICK from \in {"create_trace", "validate_trace", "run_trace"} : Trace(w, from, {mem[w].s})
    BY <1>1 DEF CreateTrace, ValidateTrace, RunTrace
  <2>2. pc[w] = from
    BY <2>1 DEF Trace, Continue, Remember
  <2>3. {mem[w].s} \in SUBSET kept /\ from \notin {"idle", "delete"} \cup NamesDerived
    BY <2>2 DEF Clean, Handles, NamesScenario, NamesDerived
  <2> QED BY <2>1, <2>3, TraceClean
<1>2. CASE AltTrace(w)
  <2>1. Trace(w, "alt_trace", {run[mem[w].r].scenario, mem[w].d} \ {Nothing})
    BY <1>2 DEF AltTrace
  <2>2. pc[w] = "alt_trace"
    BY <2>1 DEF Trace, Continue, Remember
  <2>3. mem[w].r \in saved /\ mem[w].d \in kept \cup {Nothing}
    BY <2>2 DEF Clean, Handles, NamesRun, NamesBaseline
  <2>4. {run[mem[w].r].scenario, mem[w].d} \ {Nothing} \in SUBSET kept
    BY <2>3 DEF Clean, Rows
  <2> QED BY <2>1, <2>4, TraceClean DEF NamesDerived
<1>3. CASE DecideTrace(w)
  <2>1. Trace(w, "decide_trace", {run[mem[w].r].scenario})
    BY <1>3 DEF DecideTrace
  <2>2. pc[w] = "decide_trace"
    BY <2>1 DEF Trace, Continue, Remember
  <2>3. mem[w].r \in saved
    BY <2>2 DEF Clean, Handles, NamesRun
  <2>4. {run[mem[w].r].scenario} \in SUBSET kept
    BY <2>3 DEF Clean, Rows
  <2> QED BY <2>1, <2>4, TraceClean DEF NamesDerived
<1> QED BY <1>1, <1>2, <1>3

\* The new run names no alternative yet.
LEMMA RunSolveClean ==
  ASSUME IInv, Clean, NEW w \in Workers, RunSolve(w)
  PROVE  Clean'
<1> DEFINE r == <<"BASE", seq'["run"]>>
<1>1. pc[w] = "run_solve" /\ UNCHANGED <<scenario, kept, saved, validated, traced, explained, decisions>>
  BY DEF RunSolve
<1>2. r \notin DOMAIN run
  <2>1. seq'["run"] = seq["run"] + 1 /\ seq["run"] \in Nat
    BY DEF RunSolve, Number, IInv, TypeOK
  <2>2. SUFFICES ASSUME r \in DOMAIN run
                 PROVE  FALSE
    OBVIOUS
  <2>3. r[1] = "BASE" /\ r[2] = seq["run"] + 1
    BY <2>1
  <2>4. r[2] <= seq["run"]
    BY <2>2, <2>3 DEF IInv, TypeOK
  <2> QED BY <2>1, <2>3, <2>4
<1>3. CASE Continue(w, "run_solve", "idle") /\ UNCHANGED run
  <2>1. /\ pc'[w] = "idle" /\ Others(w) /\ deleted' = deleted /\ \A v \in Workers : pc[v] # "delete"
    BY <1>3, ContinueAlone
  <2>2. Rows' /\ Handles(w)' /\ Underway(w)
    BY <1>1, <1>3, <2>1, IdleHandles DEF Clean, Rows, Underway, NamesDerived
  <2> QED BY <1>1, <1>3, <2>1, <2>2, QuietClean
<1>4. ASSUME NEW status,
             Remember(w, "run_solve", "run_save", [s |-> mem[w].s, r |-> r]),
             run' = Allocate(run, r, [scenario |-> mem[w].s, status |-> status, parent |-> Nothing,
                                      outcomes |-> [o \in Orders |-> NotSearched]])
      PROVE  Clean'
  <2> HIDE DEF r
  <2>1. /\ pc'[w] = "run_save" /\ mem'[w] = [s |-> mem[w].s, r |-> r] /\ Others(w)
        /\ deleted' = deleted /\ \A v \in Workers : pc[v] # "delete"
    BY <1>4, RememberAlone
  <2>2. /\ DOMAIN run' = DOMAIN run \cup {r} /\ run'[r].scenario = mem[w].s
        /\ \A o \in Orders : run'[r].outcomes[o].link = Nothing
        /\ \A i \in DOMAIN run : run'[i] = run[i]
    BY <1>2, <1>4 DEF Allocate, NotSearched
  <2>3. Growing /\ SameLinks /\ Underway(w)
    BY <1>1, <2>1, <2>2 DEF Growing, SameLinks, Underway, NamesDerived
  <2>4. Rows'
    BY <1>1, <2>1, <2>2 DEF Clean, Rows, IInv, TypeOK
  <2>5. Links'
    BY <2>1, <2>3, LinksStay DEF Clean
  <2>6. Handles(w)'
    BY <1>1, <2>1, <2>2 DEF Clean, Handles, NamesScenario, NamesRun, NamesBaseline
  <2> QED BY <2>1, <2>3, <2>4, <2>5, <2>6, CleanStays
<1> QED BY <1>1, <1>3, <1>4 DEF RunSolve

\* What a search finds fits the run and the order it was asked for.
LEMMA AltSearchClean ==
  ASSUME IInv, Clean, NEW w \in Workers, AltSearch(w)
  PROVE  Clean'
<1> DEFINE d == <<"ALT", seq["alternative"] + 1>>
<1>1. /\ pc[w] = "alt_search" /\ run[mem[w].r].scenario \in kept
      /\ UNCHANGED <<kept, saved, validated, traced, explained, decisions>>
  BY DEF AltSearch
<1>2. d \notin DOMAIN run \cup DOMAIN scenario
  <2>1. d[1] = "ALT" /\ d[2] = seq["alternative"] + 1 /\ seq["alternative"] \in Nat
    BY DEF IInv, TypeOK
  <2>2. d \in DOMAIN run => d[2] <= seq["alternative"]
    BY <2>1 DEF IInv, TypeOK
  <2>3. d \in DOMAIN scenario => d[2] <= seq["alternative"]
    BY <2>1 DEF IInv, TypeOK
  <2> QED BY <2>1, <2>2, <2>3
<1>3. mem[w].r \in saved /\ mem[w].r \in DOMAIN run /\ mem[w] \in [r : DOMAIN run, o : Orders, d : Made \cup {Nothing}]
  BY <1>1 DEF Clean, Handles, IInv, Holding, NamesRun, NamesBaseline
<1>4. ASSUME NEW to \in {"idle", "alt_state"}, Continue(w, "alt_search", to), UNCHANGED <<scenario, run>>
      PROVE  Clean'
  <2>1. /\ pc'[w] = to /\ Others(w) /\ deleted' = deleted /\ \A v \in Workers : pc[v] # "delete"
        /\ to # "idle" => mem'[w] = mem[w]
    BY <1>4, ContinueAlone
  <2>2. Rows' /\ Underway(w)
    BY <1>1, <1>4, <2>1 DEF Clean, Rows, Underway, NamesDerived
  <2>3. to = "alt_state" => Handles(w)'
    BY <1>1, <1>3, <1>4, <2>1 DEF Clean, Handles, NamesScenario, NamesRun, NamesBaseline, Fits, Made
  <2>4. Handles(w)'
    BY <2>1, <2>3, IdleHandles
  <2> QED BY <1>1, <1>4, <2>1, <2>2, <2>4, QuietClean
<1>5. ASSUME NEW status, NEW outcomes,
             \A o \in Orders : outcomes[o].link = Nothing,
             Remember(w, "alt_search", "alt_state", [mem[w] EXCEPT !.d = d]),
             scenario' = Allocate(scenario, d,
               [state |-> "SOLVED", parent |-> run[mem[w].r].scenario, candidates |-> TRUE,
                changed |-> mem[w].o]),
             run' = Allocate(run, d, [scenario |-> d, status |-> status, parent |-> mem[w].r,
                                      outcomes |-> outcomes])
      PROVE  Clean'
  <2> HIDE DEF d
  <2>1. /\ pc'[w] = "alt_state" /\ mem'[w] = [mem[w] EXCEPT !.d = d] /\ Others(w)
        /\ deleted' = deleted /\ \A v \in Workers : pc[v] # "delete"
    BY <1>5, RememberAlone
  <2>2. mem'[w].r = mem[w].r /\ mem'[w].o = mem[w].o /\ mem'[w].d = d
    BY <1>3, <2>1
  <2>3. /\ DOMAIN run' = DOMAIN run \cup {d}
        /\ run'[d].scenario = d /\ run'[d].parent = mem[w].r
        /\ \A o \in Orders : run'[d].outcomes[o].link = Nothing
        /\ \A i \in DOMAIN run : run'[i] = run[i]
    BY <1>2, <1>5 DEF Allocate
  <2>4. /\ DOMAIN scenario' = DOMAIN scenario \cup {d}
        /\ scenario'[d].parent = run[mem[w].r].scenario /\ scenario'[d].changed = mem[w].o
        /\ \A i \in DOMAIN scenario : scenario'[i] = scenario[i]
    BY <1>2, <1>5 DEF Allocate
  <2>5. Growing /\ SameLinks /\ Underway(w)
    BY <1>1, <2>1, <2>3, <2>4 DEF Growing, SameLinks, Underway, NamesDerived
  <2>6. Rows'
    BY <1>1, <2>1, <2>3, <2>4 DEF Clean, Rows, IInv, TypeOK
  <2>7. Links'
    BY <2>1, <2>5, LinksStay DEF Clean
  <2>8. Fits(mem[w].d, mem[w].r, mem[w].o)' /\ mem'[w].d \notin deleted'
    BY <1>2, <1>3, <2>1, <2>2, <2>3, <2>4 DEF Fits, Made, Clean, Rows
  <2>9. Handles(w)'
    BY <1>1, <1>3, <2>1, <2>2, <2>8 DEF Handles, NamesScenario, NamesRun, NamesBaseline
  <2> QED BY <2>1, <2>5, <2>6, <2>7, <2>9, CleanStays
<1>6. ASSUME NEW status \in SolverResults \ {"ERROR"},
             Remember(w, "alt_search", "alt_state", [mem[w] EXCEPT !.d = d]),
             scenario' = Allocate(scenario, d,
               [state |-> "SOLVED", parent |-> run[mem[w].r].scenario, candidates |-> TRUE,
                changed |-> mem[w].o]),
             run' = Allocate(run, d,
               [scenario |-> d, status |-> status, parent |-> mem[w].r,
                outcomes |-> [o \in Orders |-> IF o = mem[w].o
                                THEN [NotSearched EXCEPT !.alternative_state = "AVAILABLE"]
                                ELSE NotSearched]])
      PROVE  Clean'
  <2> DEFINE outcomes == [o \in Orders |-> IF o = mem[w].o
                            THEN [NotSearched EXCEPT !.alternative_state = "AVAILABLE"]
                            ELSE NotSearched]
  <2>1. \A o \in Orders : outcomes[o].link = Nothing
    BY DEF NotSearched
  <2>2. run' = Allocate(run, d, [scenario |-> d, status |-> status, parent |-> mem[w].r,
                                 outcomes |-> outcomes])
    BY <1>6
  <2> HIDE DEF outcomes
  <2> QED BY <1>5, <1>6, <2>1, <2>2
<1> QED BY <1>4, <1>6 DEF AltSearch

\* One assignment of apply_to_baseline changes one field of one outcome.
LEMMA EditShape ==
  ASSUME IInv, NEW w \in Workers, NEW from \in NamesBaseline, NEW to,
         NEW field \in {"alternative_state", "link"}, NEW value, Edit(w, from, to, field, value)
  PROVE  /\ DOMAIN run' = DOMAIN run
         /\ \A r \in DOMAIN run : run'[r].scenario = run[r].scenario /\ run'[r].parent = run[r].parent
         /\ \A r \in DOMAIN run : \A o \in Orders :
              run'[r].outcomes[o].link = IF field = "link" /\ r = mem[w].r /\ o = mem[w].o
                                         THEN value ELSE run[r].outcomes[o].link
<1> DEFINE b == mem[w].r
           doc == run[b]
           new == [doc.outcomes[mem[w].o] EXCEPT ![field] = value]
           list == [doc.outcomes EXCEPT ![mem[w].o] = new]
<1>1. run' = [run EXCEPT ![b] = [doc EXCEPT !.outcomes = list]]
  BY DEF Edit
<1>2. b \in DOMAIN run /\ mem[w].o \in Orders
  BY DEF Edit, Continue, Remember, IInv, Holding
<1>3. run \in [DOMAIN run -> RunDoc] /\ doc \in RunDoc /\ doc.outcomes \in [Orders -> Outcome]
  BY <1>2 DEF IInv, TypeOK, RunDoc
<1>4. new.link = IF field = "link" THEN value ELSE doc.outcomes[mem[w].o].link
  BY <1>2, <1>3 DEF Outcome
<1>5. \A o \in Orders : list[o] = IF o = mem[w].o THEN new ELSE doc.outcomes[o]
  BY <1>2, <1>3
<1>6. /\ [doc EXCEPT !.outcomes = list].outcomes = list
      /\ [doc EXCEPT !.outcomes = list].scenario = doc.scenario
      /\ [doc EXCEPT !.outcomes = list].parent = doc.parent
  BY <1>3 DEF RunDoc
<1> HIDE DEF list, new
<1>7. DOMAIN run' = DOMAIN run
      /\ run'[b].outcomes = list /\ run'[b].scenario = doc.scenario /\ run'[b].parent = doc.parent
      /\ \A r \in DOMAIN run \ {b} : run'[r] = run[r]
  BY <1>1, <1>2, <1>3, <1>6
<1>8. ASSUME NEW r \in DOMAIN run, NEW o \in Orders
      PROVE  run'[r].outcomes[o].link = IF field = "link" /\ r = mem[w].r /\ o = mem[w].o
                                        THEN value ELSE run[r].outcomes[o].link
  <2>1. CASE r = b
    <3>1. run'[r].outcomes[o] = IF o = mem[w].o THEN new ELSE doc.outcomes[o]
      BY <1>5, <1>7, <2>1
    <3> QED BY <1>4, <2>1, <3>1
  <2>2. CASE r # b
    BY <1>7, <2>2
  <2> QED BY <2>1, <2>2
<1>9. ASSUME NEW r \in DOMAIN run
      PROVE  run'[r].scenario = run[r].scenario /\ run'[r].parent = run[r].parent
  BY <1>7
<1> QED BY <1>7, <1>8, <1>9

\* The state is changed before the link, on the stored document.
LEMMA AltStateClean ==
  ASSUME IInv, Clean, NEW w \in Workers, AltState(w)
  PROVE  Clean'
<1>1. PICK value : Edit(w, "alt_state", "alt_link", "alternative_state", value)
  BY DEF AltState
<1>2. /\ Continue(w, "alt_state", "alt_link")
      /\ UNCHANGED <<scenario, kept, saved, validated, traced, explained, decisions>>
  BY <1>1 DEF Edit
<1>3. /\ pc[w] = "alt_state" /\ pc'[w] = "alt_link" /\ Others(w) /\ deleted' = deleted
      /\ mem'[w] = mem[w] /\ \A v \in Workers : pc[v] # "delete"
  BY <1>2, ContinueAlone
<1>4. /\ DOMAIN run' = DOMAIN run
      /\ \A r \in DOMAIN run : run'[r].scenario = run[r].scenario /\ run'[r].parent = run[r].parent
      /\ \A r \in DOMAIN run : \A o \in Orders : run'[r].outcomes[o].link = run[r].outcomes[o].link
  BY <1>1, EditShape DEF NamesBaseline
<1>5. Growing /\ SameLinks /\ Underway(w)
  BY <1>2, <1>3, <1>4 DEF Growing, SameLinks, Underway, NamesDerived
<1>6. Rows'
  BY <1>2, <1>3, <1>4 DEF Clean, Rows, IInv, TypeOK
<1>7. Links'
  BY <1>3, <1>5, LinksStay DEF Clean
<1>8. mem[w].r \in saved /\ mem[w].r \in DOMAIN run
  BY <1>3 DEF Clean, Handles, NamesRun, NamesBaseline, IInv, Holding
<1>9. mem[w].d # Nothing => Fits(mem[w].d, mem[w].r, mem[w].o)' /\ mem[w].d \notin deleted
  <2>1. mem[w].d # Nothing => Fits(mem[w].d, mem[w].r, mem[w].o) /\ mem[w].d \notin deleted
    BY <1>3 DEF Clean, Handles, NamesBaseline
  <2> QED BY <1>2, <1>3, <1>4, <1>8, <2>1 DEF Fits, Made
<1>10. Handles(w)'
  BY <1>2, <1>3, <1>8, <1>9 DEF Handles, NamesScenario, NamesRun, NamesBaseline
<1> QED BY <1>3, <1>5, <1>6, <1>7, <1>10, CleanStays

\* The link is set before what it names is stored: its handler is on the way.
LEMMA AltLinkClean ==
  ASSUME IInv, Clean, NEW w \in Workers, AltLink(w)
  PROVE  Clean'
<1> DEFINE to == IF mem[w].d = Nothing THEN "alt_save" ELSE "alt_scenario"
<1>1. Edit(w, "alt_link", to, "link", mem[w].d)
  BY DEF AltLink
<1>2. /\ Continue(w, "alt_link", to)
      /\ UNCHANGED <<scenario, kept, saved, validated, traced, explained, decisions>>
  BY <1>1 DEF Edit
<1>3. /\ pc[w] = "alt_link" /\ pc'[w] = to /\ Others(w) /\ deleted' = deleted
      /\ mem'[w] = mem[w] /\ \A v \in Workers : pc[v] # "delete"
  BY <1>2, ContinueAlone
<1>4. /\ DOMAIN run' = DOMAIN run
      /\ \A r \in DOMAIN run : run'[r].scenario = run[r].scenario /\ run'[r].parent = run[r].parent
      /\ \A r \in DOMAIN run : \A o \in Orders :
           run'[r].outcomes[o].link = IF r = mem[w].r /\ o = mem[w].o
                                      THEN mem[w].d ELSE run[r].outcomes[o].link
  BY <1>1, EditShape DEF NamesBaseline
<1>5. Growing /\ Underway(w)
  BY <1>2, <1>3, <1>4 DEF Growing, Underway, NamesDerived
<1>6. Rows'
  BY <1>2, <1>3, <1>4 DEF Clean, Rows, IInv, TypeOK
<1>7. mem[w].r \in saved /\ mem[w].r \in DOMAIN run
  BY <1>3 DEF Clean, Handles, NamesRun, NamesBaseline, IInv, Holding
<1>8. mem[w].d # Nothing => Fits(mem[w].d, mem[w].r, mem[w].o)' /\ mem[w].d \notin deleted
  <2>1. mem[w].d # Nothing => Fits(mem[w].d, mem[w].r, mem[w].o) /\ mem[w].d \notin deleted
    BY <1>3 DEF Clean, Handles, NamesBaseline
  <2> QED BY <1>2, <1>3, <1>4, <1>7, <2>1 DEF Fits, Made
<1>9. Links'
  <2> SUFFICES ASSUME NEW r \in DOMAIN run', NEW o \in Orders, NEW s, s = run'[r].outcomes[o].link,
                      s \notin {Nothing} \cup deleted'
               PROVE  Leads(s, r, o)'
    BY DEF Links
  <2>1. CASE r = mem[w].r /\ o = mem[w].o
    <3>1. s = mem[w].d /\ mem[w].d # Nothing
      BY <1>4, <2>1
    <3>2. pc'[w] \in NamesDerived
      BY <1>3, <3>1 DEF NamesDerived
    <3>3. Fits(s, r, o)'
      BY <1>3, <1>8, <2>1, <3>1
    <3> QED BY <1>3, <3>1, <3>2, <3>3 DEF Leads
  <2>2. CASE ~(r = mem[w].r /\ o = mem[w].o)
    <3>1. r \in DOMAIN run /\ s = run[r].outcomes[o].link /\ s \notin {Nothing} \cup deleted
      BY <1>3, <1>4, <2>2
    <3>2. Leads(s, r, o)
      BY <3>1 DEF Clean, Links
    <3> QED BY <1>3, <1>5, <3>1, <3>2, LeadsStays
  <2> QED BY <2>1, <2>2
<1>10. Handles(w)'
  BY <1>2, <1>3, <1>7, <1>8 DEF Handles, NamesScenario, NamesRun, NamesBaseline
<1>11. pc'[w] # "delete"
  BY <1>3
<1> QED BY <1>3, <1>5, <1>6, <1>9, <1>10, <1>11, CleanStays

\* A deletion alone in flight takes away a scenario that nothing is derived
\* from, and everything of it.
LEMMA DeleteClean ==
  ASSUME IInv, Clean, NEW w \in Workers, Delete(w)
  PROVE  Clean'
<1> DEFINE s == mem[w].s
<1>1. /\ pc[w] = "delete"
      /\ pc' = [pc EXCEPT ![w] = "idle"] /\ mem' = [mem EXCEPT ![w] = Nothing]
      /\ kept' = kept \ {s} /\ validated' = validated \ {s} /\ traced' = traced \ {s}
      /\ saved' = saved \ RunsOf(s) /\ explained' = explained \ RunsOf(s)
      /\ decisions' = {d \in decisions : d.run \notin RunsOf(s)}
      /\ deleted' = deleted \cup {s} /\ UNCHANGED <<scenario, run>>
  BY DEF Delete
<1>2. \A v \in Workers \ {w} : pc[v] = "idle"
  BY <1>1 DEF Clean, Alone
<1>3. \A v \in Workers : pc'[v] = "idle"
  BY <1>1, <1>2 DEF IInv, WorkersOK
<1>4. s \in kept /\ \A c \in kept : scenario[c].parent # s
  BY <1>1 DEF Clean, Handles, NamesScenario
<1> HIDE DEF s
<1>5. Rows'
  BY <1>1, <1>4 DEF Clean, Rows, RunsOf, IInv, TypeOK
<1>6. Links'
  <2> SUFFICES ASSUME NEW r \in DOMAIN run', NEW o \in Orders, NEW i, i = run'[r].outcomes[o].link,
                      i \notin {Nothing} \cup deleted'
               PROVE  Leads(i, r, o)'
    BY DEF Links
  <2>1. i \notin {Nothing} \cup deleted /\ i # s /\ Leads(i, r, o)
    BY <1>1 DEF Clean, Links
  <2>2. Fits(i, r, o) /\ i \in kept \cap saved \cap validated
    BY <1>1, <1>2, <2>1 DEF Leads, NamesDerived
  <2>3. i \in kept' \cap saved' \cap validated'
    BY <1>1, <2>1, <2>2 DEF Fits, RunsOf
  <2> QED BY <1>1, <2>2, <2>3 DEF Leads, Fits, Made
<1>7. Alone' /\ \A v \in Workers : Handles(v)'
  BY <1>3, IdleHandles DEF Alone
<1> QED BY <1>5, <1>6, <1>7 DEF Clean

\* An empty store keeps every promise.
LEMMA EmptyIsClean ==
  ASSUME kept = {}, saved = {}, validated = {}, traced = {}, explained = {}, decisions = {},
         deleted = {}, run = [r \in {} |-> Nothing], \A w \in Workers : pc[w] = "idle"
  PROVE  Clean
<1>1. Alone /\ Rows
  BY DEF Alone, Rows
<1>2. Links
  BY DEF Links
<1>3. \A w \in Workers : Handles(w)
  BY DEF Handles, NamesScenario, NamesRun, NamesBaseline
<1> QED BY <1>1, <1>2, <1>3 DEF Clean

LEMMA RestartClean ==
  ASSUME Restart
  PROVE  Clean'
<1>1. /\ kept' = {} /\ saved' = {} /\ validated' = {} /\ traced' = {} /\ explained' = {}
      /\ decisions' = {} /\ deleted' = {} /\ run' = [r \in {} |-> Nothing]
      /\ \A w \in Workers : pc'[w] = "idle"
  BY DEF Restart
<1>2. Alone' /\ Rows'
  BY <1>1 DEF Alone, Rows
<1>3. Links'
  BY <1>1 DEF Links
<1>4. \A w \in Workers : Handles(w)'
  BY <1>1, IdleHandles
<1> QED BY <1>2, <1>3, <1>4 DEF Clean

\* Once a deletion met another request, it did until the process ends.
LEMMA OverlappedStays ==
  ASSUME overlapped \in BOOLEAN, NEW w \in Workers, Work(w)
  PROVE  overlapped' \in BOOLEAN /\ (overlapped => overlapped')
<1>1. ASSUME NEW kind, NEW next, NEW ids, Arrive(w, kind, next, ids)
      PROVE  overlapped' \in BOOLEAN /\ (overlapped => overlapped')
  <2>1. overlapped' = (overlapped \/ IF kind = "delete" THEN InFlight # {}
                                     ELSE \E v \in InFlight : pc[v] = "delete")
    BY <1>1 DEF Arrive
  <2> QED BY <2>1
<1>2. overlapped' = overlapped => overlapped' \in BOOLEAN /\ (overlapped => overlapped')
  OBVIOUS
<1>3. CASE CreateScenario(w)
  BY <1>1, <1>3 DEF CreateScenario
<1>4. CASE \/ ValidateRead(w) \/ RunRead(w) \/ AltRead(w) \/ DecideRead(w) \/ ExplainRead(w) \/ DeleteCheck(w)
  BY <1>1, <1>4 DEF ValidateRead, RunRead, AltRead, DecideRead, ExplainRead, DeleteCheck
<1>5. CASE CreateTrace(w) \/ ValidateTrace(w) \/ RunTrace(w) \/ AltTrace(w) \/ DecideTrace(w)
  BY <1>2, <1>5 DEF CreateTrace, ValidateTrace, RunTrace, AltTrace, DecideTrace, Trace, Continue, Remember
<1>6. CASE \/ ValidateSave(w) \/ ValidateCheck(w) \/ RunRefused(w) \/ RunSave(w)
           \/ ValidateState(w) \/ RunState(w) \/ RunSolve(w)
  BY <1>2, <1>6 DEF ValidateSave, ValidateCheck, RunRefused, RunSave, SaveRun, ValidateState, RunState,
                    SetState, RunSolve, Continue, Remember
<1>7. CASE \/ AltNoScenario(w) \/ AltSave(w) \/ AltSaveScenario(w) \/ AltSaveRun(w)
           \/ AltSaveValidation(w) \/ AltClearExplanation(w)
           \/ AltSearch(w) \/ AltState(w) \/ AltLink(w)
  BY <1>2, <1>7 DEF AltNoScenario, AltSave, SaveRun, AltSaveScenario, AltSaveRun, AltSaveValidation,
                    AltClearExplanation, AltSearch, AltState, AltLink, Edit, Continue, Remember
<1>8. CASE DecideSave(w) \/ ExplainCheck(w) \/ ExplainSave(w) \/ Delete(w)
  BY <1>2, <1>8 DEF DecideSave, ExplainCheck, ExplainSave, Delete, Continue, Remember
<1> QED BY <1>3, <1>4, <1>5, <1>6, <1>7, <1>8 DEF Work

LEMMA WorkClean ==
  ASSUME IInv, Clean, ~overlapped', NEW w \in Workers, Work(w)
  PROVE  Clean'
<1>1. CASE CreateScenario(w)
  BY <1>1, CreateScenarioClean
<1>2. CASE CreateTrace(w) \/ ValidateTrace(w) \/ RunTrace(w) \/ AltTrace(w) \/ DecideTrace(w)
  BY <1>2, TracesClean
<1>3. CASE \/ ValidateRead(w) \/ RunRead(w) \/ AltRead(w) \/ DecideRead(w) \/ ExplainRead(w) \/ DeleteCheck(w)
  BY <1>3, ReadsClean
<1>4. CASE ValidateSave(w) \/ ValidateCheck(w) \/ RunRefused(w) \/ RunSave(w)
  BY <1>4, ScenarioQuietClean
<1>5. CASE ValidateState(w) \/ RunState(w)
  BY <1>5, SetStateClean DEF ValidateState, RunState, NamesScenario
<1>6. CASE \/ AltNoScenario(w) \/ AltSave(w) \/ AltSaveScenario(w) \/ AltSaveRun(w)
           \/ AltSaveValidation(w) \/ AltClearExplanation(w)
  BY <1>6, AltQuietClean
<1>7. CASE DecideSave(w) \/ ExplainCheck(w) \/ ExplainSave(w)
  BY <1>7, RequestQuietClean
<1>8. CASE RunSolve(w)
  BY <1>8, RunSolveClean
<1>9. CASE AltSearch(w)
  BY <1>9, AltSearchClean
<1>10. CASE AltState(w)
  BY <1>10, AltStateClean
<1>11. CASE AltLink(w)
  BY <1>11, AltLinkClean
<1>12. CASE Delete(w)
  BY <1>12, DeleteClean
<1> QED BY <1>1, <1>2, <1>3, <1>4, <1>5, <1>6, <1>7, <1>8, <1>9, <1>10, <1>11, <1>12 DEF Work

LEMMA StaysClean == IInv /\ CleanInv /\ [Next]_vars => CleanInv'
<1> SUFFICES ASSUME IInv, CleanInv, [Next]_vars
             PROVE  CleanInv'
  OBVIOUS
<1>1. CASE Restart
  <2>1. overlapped' = FALSE
    BY <1>1 DEF Restart
  <2> QED BY <1>1, <2>1, RestartClean DEF CleanInv
<1>2. CASE \E w \in Workers : Work(w)
  <2>1. PICK w \in Workers : Work(w)
    BY <1>2
  <2>2. overlapped' \in BOOLEAN /\ (overlapped => overlapped')
    BY <2>1, OverlappedStays DEF CleanInv
  <2>3. CASE overlapped'
    BY <2>2, <2>3 DEF CleanInv
  <2>4. CASE ~overlapped'
    <3>1. Clean
      BY <2>2, <2>4 DEF CleanInv
    <3> QED BY <2>1, <2>2, <2>4, <3>1, WorkClean DEF CleanInv
  <2> QED BY <2>3, <2>4
<1>3. CASE UNCHANGED vars
  <2>1. UNCHANGED <<scenario, run, kept, saved, validated, traced, explained, decisions,
                    pc, mem, deleted, overlapped>>
    BY <1>3 DEF vars, records
  <2>2. Alone' = Alone /\ Rows' = Rows /\ Links' = Links
    BY <2>1 DEF Alone, Rows, Links, Leads, Fits, Made
  <2>3. \A w \in Workers : Handles(w) => Handles(w)'
    BY <2>1 DEF Handles, Fits, Made
  <2> QED BY <2>1, <2>2, <2>3 DEF CleanInv, Clean
<1> QED BY <1>1, <1>2, <1>3 DEF Next

\* In the in-memory store a link leads, once the requests are done, to a stored
\* and validated scenario that changed this very order and to its run derived
\* from this run, unless the scenario was deleted: for every number of workers
\* and requests, however the searches, solves and decisions overlap, as long as
\* no deletion met another request (runs.py:128-171, storage.py:172-182).
THEOREM LinksLead == Spec => []LinkLeadsToDerivedRun
<1>1. Init => IInv /\ CleanInv
  <2>1. Init => IInv
    BY EmptyIsTyped DEF Init
  <2>2. Init => CleanInv
    BY EmptyIsClean DEF Init, CleanInv
  <2> QED BY <2>1, <2>2
<1>2. IInv /\ CleanInv /\ [Next]_vars => (IInv /\ CleanInv)'
  BY NextStep, StaysClean
<1>3. IInv /\ CleanInv => LinkLeadsToDerivedRun
  <2> SUFFICES ASSUME IInv, CleanInv, InFlight = {}, ~overlapped, NEW r \in saved, NEW o \in Orders,
                      NEW s, s = run[r].outcomes[o].link, s \notin {Nothing} \cup deleted
               PROVE  /\ s \in kept \cap saved \cap validated
                      /\ scenario[s].parent = run[r].scenario /\ scenario[s].changed = o
                      /\ run[s].scenario = s /\ run[s].parent = r
    BY DEF LinkLeadsToDerivedRun, AtRest
  <2>1. Leads(s, r, o)
    BY DEF CleanInv, Clean, Links, IInv, TypeOK
  <2>2. \A w \in Workers : pc[w] \notin NamesDerived
    BY DEF InFlight, NamesDerived
  <2> QED BY <2>1, <2>2 DEF Leads, Fits
<1> QED BY <1>1, <1>2, <1>3, PTL DEF Spec

\* A deletion that met no other request leaves nothing of the scenario in any
\* dictionary of the store, and no scenario derived from it, whatever was
\* requested before and after it and whatever parents callers declared
\* (scenarios.py:176-181, storage.py:172-182).
THEOREM NothingStays == Spec => []NothingLeftBehind
<1>1. Init => IInv /\ CleanInv
  <2>1. Init => IInv
    BY EmptyIsTyped DEF Init
  <2>2. Init => CleanInv
    BY EmptyIsClean DEF Init, CleanInv
  <2> QED BY <2>1, <2>2
<1>2. IInv /\ CleanInv /\ [Next]_vars => (IInv /\ CleanInv)'
  BY NextStep, StaysClean
<1>3. CleanInv => NothingLeftBehind
  BY DEF CleanInv, Clean, Rows, NothingLeftBehind, AtRest
<1> QED BY <1>1, <1>2, <1>3, PTL DEF Spec

=============================================================================
