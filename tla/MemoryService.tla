---------------------------- MODULE MemoryService ----------------------------
(***************************************************************************)
(* The API process (app/routers) over the in-memory store (app/storage.py, *)
(* MemoryStore).                                                           *)
(*                                                                         *)
(* The store keeps references.  A document that a handler reads is the     *)
(* stored one, so what the handler edits is visible before it saves, and a *)
(* document that was deleted lives on in the handlers that hold it.        *)
(* scenario and run are therefore heaps of all the documents this process  *)
(* has made; kept and saved are the ids the store's dictionaries hold.     *)
(* Each store call takes the lock and is one atomic step; no statement can *)
(* fail, no foreign key is checked, and nothing survives the process.      *)
(*                                                                         *)
(* Ids, quotas and the reduction of snapshots, solver and search are those *)
(* of ScenarioService.  deleted and overlapped are history: the scenarios  *)
(* a deletion removed, and whether one was ever in flight together with    *)
(* another request.                                                        *)
(***************************************************************************)
EXTENDS Integers, FiniteSets, Functions

CONSTANTS Nothing, Workers, Orders, Nameable, Quota, SolverResults

Kinds == {"create", "validate", "run", "alternative", "decide", "explain", "delete", "crash"}

ASSUME QuotaIsBounded == Quota \in [Kinds -> Nat]

Ids == {"BASE", "ALT"} \X Nat

ASSUME NamesAreIds == Nameable \subseteq Ids

VARIABLES
  scenario,    \* heap: id -> [state, parent, candidates, changed]
  run,         \* heap: id -> [scenario, status, parent, outcomes]
  kept,        \* ids of the stored scenarios
  saved,       \* ids of the stored runs
  validated, traced, explained,  \* ids with a validation, with events, with an explanation
  decisions,   \* set of [run, state]
  seq,         \* the process's counters
  pc, mem,     \* per worker: next call of its handler, and the ids it holds
  quota,       \* requests still to arrive
  deleted, overlapped

records == <<scenario, run, kept, saved, validated, traced, explained, decisions>>
vars    == <<records, seq, pc, mem, quota, deleted, overlapped>>

NotSearched == [alternative_state |-> "NOT_SEARCHED", link |-> Nothing]

Allocate(heap, id, doc) == [i \in DOMAIN heap \cup {id} |-> IF i = id THEN doc ELSE heap[i]]

RunsOf(s) == {r \in saved : run[r].scenario = s}

Init ==
  /\ scenario = [s \in {} |-> Nothing] /\ run = [r \in {} |-> Nothing]
  /\ kept = {} /\ saved = {} /\ validated = {} /\ traced = {} /\ explained = {} /\ decisions = {}
  /\ seq = [name \in {"scenario", "run", "alternative"} |-> 0]
  /\ pc = [w \in Workers |-> "idle"] /\ mem = [w \in Workers |-> Nothing]
  /\ quota = Quota
  /\ deleted = {} /\ overlapped = FALSE

InFlight == {w \in Workers : pc[w] # "idle"}

\* A request of this kind arrives at an idle worker.
Arrive(w, kind, next, ids) ==
  /\ pc[w] = "idle" /\ quota[kind] > 0
  /\ quota' = [quota EXCEPT ![kind] = @ - 1]
  /\ pc' = [pc EXCEPT ![w] = next]
  /\ mem' = [mem EXCEPT ![w] = ids]
  /\ overlapped' = (overlapped \/ IF kind = "delete" THEN InFlight # {}
                                  ELSE \E v \in InFlight : pc[v] = "delete")
  /\ UNCHANGED deleted

Remember(w, from, to, ids) ==
  /\ pc[w] = from
  /\ pc' = [pc EXCEPT ![w] = to]
  /\ mem' = [mem EXCEPT ![w] = ids]
  /\ UNCHANGED <<quota, deleted, overlapped>>

\* The handler goes on from one call to another; done is "idle".
Continue(w, from, to) == Remember(w, from, to, IF to = "idle" THEN Nothing ELSE mem[w])


\* Mutant: the number is read and the counter left where it is.
NumberUnkept(name) == seq' = seq

\* Take the next number of a sequence: a counter of the process.
Number(name) == seq' = [seq EXCEPT ![name] = @ + 1]

-----------------------------------------------------------------------------
(* POST /v1/scenarios: on the event loop, so two creations never overlap. *)

\* The parent is stored as the caller named it.
CreateScenario(w) ==
  \E candidates \in BOOLEAN, parent \in {Nothing} \cup Nameable :
    LET s == <<"BASE", seq["scenario"] + 1>>
    IN /\ \A v \in Workers : pc[v] # "create_trace"
       /\ Arrive(w, "create", "create_trace", [s |-> s])
       /\ Number("scenario")
       /\ scenario' = Allocate(scenario, s, [state |-> "VALIDATION_REQUIRED", parent |-> parent,
                                             candidates |-> candidates, changed |-> Nothing])
       /\ kept' = kept \cup {s}
       /\ UNCHANGED <<run, saved, validated, traced, explained, decisions>>

\* append_trace of the handlers that end with it; nothing is asked of the id.
Trace(w, from, ids) ==
  /\ Continue(w, from, "idle")
  /\ traced' = traced \cup ids
  /\ UNCHANGED <<scenario, run, kept, saved, validated, explained, decisions, seq>>

CreateTrace(w) == Trace(w, "create_trace", {mem[w].s})

\* update_scenario_state: the stored document itself is changed.
SetState(w, from, to, state) ==
  /\ Continue(w, from, to)
  /\ scenario' = IF mem[w].s \in kept THEN [scenario EXCEPT ![mem[w].s].state = state] ELSE scenario
  /\ UNCHANGED <<run, kept, saved, validated, traced, explained, decisions, seq>>

-----------------------------------------------------------------------------
(* POST /v1/scenarios/{id}/validate *)

ValidateRead(w) ==
  \E s \in kept : Arrive(w, "validate", "validate_save", [s |-> s]) /\ UNCHANGED <<records, seq>>

ValidateSave(w) ==
  /\ Continue(w, "validate_save", "validate_check")
  /\ validated' = validated \cup {mem[w].s}
  /\ UNCHANGED <<scenario, run, kept, saved, traced, explained, decisions, seq>>

\* The state of the document now, whatever it was when it was read.
ValidateCheck(w) ==
  LET doc == scenario[mem[w].s]
  IN /\ Continue(w, "validate_check",
          IF doc.candidates /\ doc.state = "VALIDATION_REQUIRED" THEN "validate_state"
                                                                 ELSE "validate_trace")
     /\ UNCHANGED <<records, seq>>

ValidateState(w) == SetState(w, "validate_state", "validate_trace", "READY_TO_SOLVE")
ValidateTrace(w) == Trace(w, "validate_trace", {mem[w].s})

-----------------------------------------------------------------------------
(* POST /v1/scenarios/{id}/runs *)

RunRead(w) ==
  \E s \in kept : Arrive(w, "run", "run_solve", [s |-> s]) /\ UNCHANGED <<records, seq>>

RunRefused(w) ==
  /\ Continue(w, "run_solve", "idle")
  /\ mem[w].s \notin validated
  /\ UNCHANGED <<records, seq>>

\* The number is taken before the solve and lost with a solve without a plan.
RunSolve(w) ==
  /\ pc[w] = "run_solve" /\ mem[w].s \in validated
  /\ Number("run")
  /\ \E status \in IF scenario[mem[w].s].candidates THEN SolverResults ELSE {"OPTIMAL"} :
       LET r == <<"BASE", seq'["run"]>>
       IN IF status = "ERROR" THEN Continue(w, "run_solve", "idle") /\ UNCHANGED run
          ELSE /\ Remember(w, "run_solve", "run_save", [s |-> mem[w].s, r |-> r])
               /\ run' = Allocate(run, r, [scenario |-> mem[w].s, status |-> status, parent |-> Nothing,
                                           outcomes |-> [o \in Orders |-> NotSearched]])
  /\ UNCHANGED <<scenario, kept, saved, validated, traced, explained, decisions>>

\* save_run: the document, stored again if it was deleted meanwhile.
SaveRun(w, from, to, r) ==
  /\ Continue(w, from, to)
  /\ saved' = saved \cup {r}
  /\ UNCHANGED <<scenario, run, kept, validated, traced, explained, decisions, seq>>

RunSave(w)  == SaveRun(w, "run_save", "run_state", mem[w].r)
RunState(w) == SetState(w, "run_state", "run_trace", "SOLVED")
RunTrace(w) == Trace(w, "run_trace", {mem[w].s})

-----------------------------------------------------------------------------
(* POST /v1/runs/{id}/alternatives *)

AltRead(w) ==
  \E r \in saved, o \in Orders :
    Arrive(w, "alternative", "alt_search", [r |-> r, o |-> o, d |-> Nothing]) /\ UNCHANGED <<records, seq>>

AltNoScenario(w) ==
  /\ Continue(w, "alt_search", "idle")
  /\ run[mem[w].r].scenario \notin kept
  /\ UNCHANGED <<records, seq>>

\* The number is taken even when the request is then refused or finds
\* nothing.  What a search finds is a scenario and a run of that number.
AltSearch(w) ==
  LET d == <<"ALT", seq["alternative"] + 1>>
      r == mem[w].r
  IN /\ pc[w] = "alt_search" /\ run[r].scenario \in kept
     /\ Number("alternative")
     /\ \/ Continue(w, "alt_search", "idle") /\ UNCHANGED <<scenario, run>>
        \/ Continue(w, "alt_search", "alt_state") /\ UNCHANGED <<scenario, run>>
        \/ \E status \in SolverResults \ {"ERROR"} :
             /\ Remember(w, "alt_search", "alt_state", [mem[w] EXCEPT !.d = d])
             /\ scenario' = Allocate(scenario, d,
                  [state |-> "SOLVED", parent |-> run[r].scenario, candidates |-> TRUE,
                   changed |-> mem[w].o])
             /\ run' = Allocate(run, d,
                  [scenario |-> d, status |-> status, parent |-> r,
                   outcomes |-> [o \in Orders |-> IF o = mem[w].o
                                   THEN [NotSearched EXCEPT !.alternative_state = "AVAILABLE"]
                                   ELSE NotSearched]])
     /\ UNCHANGED <<kept, saved, validated, traced, explained, decisions>>

\* One assignment of apply_to_baseline, to the stored document.
Edit(w, from, to, field, value) ==
  /\ Continue(w, from, to)
  /\ run' = [run EXCEPT ![mem[w].r].outcomes[mem[w].o][field] = value]
  /\ UNCHANGED <<scenario, kept, saved, validated, traced, explained, decisions, seq>>

AltState(w) ==
  Edit(w, "alt_state", "alt_link", "alternative_state",
       IF mem[w].d = Nothing THEN "NONE" ELSE "AVAILABLE")

AltLink(w) ==
  Edit(w, "alt_link", IF mem[w].d = Nothing THEN "alt_save" ELSE "alt_scenario", "link", mem[w].d)

\* Mutant: a copy made when the run was solved is edited and saved.
AltSaveCopy(w) ==
  /\ Continue(w, "alt_save", "alt_trace")
  /\ saved' = saved \cup {mem[w].r}
  /\ run' = [run EXCEPT ![mem[w].r].outcomes =
               [o \in Orders |-> IF o = mem[w].o THEN @[o] ELSE NotSearched]]
  /\ UNCHANGED <<scenario, kept, validated, traced, explained, decisions, seq>>

\* Nothing was found: the edited document is saved as a whole.
AltSave(w) == SaveRun(w, "alt_save", "alt_trace", mem[w].r)

AltSaveScenario(w) ==
  /\ Continue(w, "alt_scenario", "alt_run")
  /\ kept' = kept \cup {mem[w].d}
  /\ UNCHANGED <<scenario, run, saved, validated, traced, explained, decisions, seq>>

\* Mutant: the run searched from is saved in place of the derived one.
AltSaveBaseline(w) == SaveRun(w, "alt_run", "alt_validation", mem[w].r)

AltSaveRun(w) == SaveRun(w, "alt_run", "alt_validation", mem[w].d)

AltSaveValidation(w) ==
  /\ Continue(w, "alt_validation", "alt_clear")
  /\ validated' = validated \cup {mem[w].d}
  /\ UNCHANGED <<scenario, run, kept, saved, traced, explained, decisions, seq>>

\* update_order_outcome puts the outcome edited above back where it is, so
\* clear_explanation is the next change.
AltClearExplanation(w) ==
  /\ Continue(w, "alt_clear", "alt_trace")
  /\ explained' = explained \ {mem[w].r}
  /\ UNCHANGED <<scenario, run, kept, saved, validated, traced, decisions, seq>>

AltTrace(w) == Trace(w, "alt_trace", {run[mem[w].r].scenario, mem[w].d} \ {Nothing})

-----------------------------------------------------------------------------
(* POST /v1/runs/{id}/decisions and GET /v1/runs/{id}/explanation *)

DecideRead(w) ==
  \E r \in saved, decision \in {"ACCEPTED", "HELD"} :
    /\ decision = "ACCEPTED" => run[r].status = "OPTIMAL"
    /\ Arrive(w, "decide", "decide_save", [r |-> r, decision |-> decision])
    /\ UNCHANGED <<records, seq>>

DecideSave(w) ==
  /\ Continue(w, "decide_save", "decide_trace")
  /\ decisions' = decisions \cup {[run |-> mem[w].r, state |-> mem[w].decision]}
  /\ UNCHANGED <<scenario, run, kept, saved, validated, traced, explained, seq>>

DecideTrace(w) == Trace(w, "decide_trace", {run[mem[w].r].scenario})

ExplainRead(w) ==
  \E r \in saved : Arrive(w, "explain", "explain_check", [r |-> r]) /\ UNCHANGED <<records, seq>>

ExplainCheck(w) ==
  /\ Continue(w, "explain_check", IF mem[w].r \in explained THEN "idle" ELSE "explain_save")
  /\ UNCHANGED <<records, seq>>

ExplainSave(w) ==
  /\ Continue(w, "explain_save", "idle")
  /\ explained' = explained \cup {mem[w].r}
  /\ UNCHANGED <<scenario, run, kept, saved, validated, traced, decisions, seq>>

-----------------------------------------------------------------------------
(* DELETE /v1/scenarios/{id} *)

DeleteCheck(w) ==
  \E s \in kept :
    /\ \A c \in kept : scenario[c].parent # s
    /\ Arrive(w, "delete", "delete", [s |-> s])
    /\ UNCHANGED <<records, seq>>

\* Mutant: a deleted run leaves its explanation and its decisions.
DeleteRowsOnly(w) ==
  LET s == mem[w].s
  IN /\ pc[w] = "delete"
     /\ pc' = [pc EXCEPT ![w] = "idle"] /\ mem' = [mem EXCEPT ![w] = Nothing]
     /\ kept' = kept \ {s} /\ validated' = validated \ {s} /\ traced' = traced \ {s}
     /\ saved' = saved \ RunsOf(s)
     /\ deleted' = deleted \cup {s}
     /\ UNCHANGED <<scenario, run, explained, decisions, seq, quota, overlapped>>

\* delete_scenario: everything at once, under the lock.
Delete(w) ==
  LET s == mem[w].s
  IN /\ pc[w] = "delete"
     /\ pc' = [pc EXCEPT ![w] = "idle"] /\ mem' = [mem EXCEPT ![w] = Nothing]
     /\ kept' = kept \ {s} /\ validated' = validated \ {s} /\ traced' = traced \ {s}
     /\ saved' = saved \ RunsOf(s)
     /\ explained' = explained \ RunsOf(s)
     /\ decisions' = {d \in decisions : d.run \notin RunsOf(s)}
     /\ deleted' = deleted \cup {s}
     /\ UNCHANGED <<scenario, run, seq, quota, overlapped>>

-----------------------------------------------------------------------------

Work(w) ==
  \/ CreateScenario(w) \/ CreateTrace(w)
  \/ ValidateRead(w) \/ ValidateSave(w) \/ ValidateCheck(w) \/ ValidateState(w) \/ ValidateTrace(w)
  \/ RunRead(w) \/ RunRefused(w) \/ RunSolve(w) \/ RunSave(w) \/ RunState(w) \/ RunTrace(w)
  \/ AltRead(w) \/ AltNoScenario(w) \/ AltSearch(w) \/ AltState(w) \/ AltLink(w) \/ AltSave(w)
  \/ AltSaveScenario(w) \/ AltSaveRun(w) \/ AltSaveValidation(w) \/ AltClearExplanation(w)
  \/ AltTrace(w)
  \/ DecideRead(w) \/ DecideSave(w) \/ DecideTrace(w)
  \/ ExplainRead(w) \/ ExplainCheck(w) \/ ExplainSave(w)
  \/ DeleteCheck(w) \/ Delete(w)

\* The process ends and starts again: the store is new and empty, and its
\* numbers start over.
Restart ==
  /\ quota["crash"] > 0
  /\ quota' = [quota EXCEPT !["crash"] = @ - 1]
  /\ scenario' = [s \in {} |-> Nothing] /\ run' = [r \in {} |-> Nothing]
  /\ kept' = {} /\ saved' = {} /\ validated' = {} /\ traced' = {} /\ explained' = {}
  /\ decisions' = {}
  /\ seq' = [name \in DOMAIN seq |-> 0]
  /\ pc' = [w \in Workers |-> "idle"] /\ mem' = [w \in Workers |-> Nothing]
  /\ deleted' = {} /\ overlapped' = FALSE

Next == Restart \/ \E w \in Workers : Work(w)

Spec == Init /\ [][Next]_vars

-----------------------------------------------------------------------------
(* Properties *)

ScenarioDoc ==
  [state : {"VALIDATION_REQUIRED", "READY_TO_SOLVE", "SOLVED"}, parent : Ids \cup {Nothing},
   candidates : BOOLEAN, changed : Orders \cup {Nothing}]

Outcome == [alternative_state : {"NOT_SEARCHED", "NONE", "AVAILABLE"}, link : Ids \cup {Nothing}]

RunDoc ==
  [scenario : Ids, status : (SolverResults \ {"ERROR"}) \cup {"OPTIMAL"}, parent : Ids \cup {Nothing},
   outcomes : [Orders -> Outcome]]

\* Every id the store hands out leads to a document, and no number was given
\* out that its counter has not reached.
TypeOK ==
  /\ DOMAIN scenario \subseteq Ids /\ scenario \in [DOMAIN scenario -> ScenarioDoc]
  /\ DOMAIN run \subseteq Ids /\ run \in [DOMAIN run -> RunDoc]
  /\ kept \subseteq DOMAIN scenario /\ saved \subseteq DOMAIN run
  /\ \A r \in DOMAIN run : run[r].scenario \in DOMAIN scenario
  /\ seq \in [{"scenario", "run", "alternative"} -> Nat]
  /\ \A r \in DOMAIN run : r[2] <= seq[IF r[1] = "ALT" THEN "alternative" ELSE "run"]
  /\ \A s \in DOMAIN scenario : s[2] <= seq[IF s[1] = "ALT" THEN "alternative" ELSE "scenario"]

\* Whatever two requests do to one document, an alternative that an order has
\* is only ever changed by a request about that order: the document that a
\* search without a result writes back is the one the other search edited
\* (storage.py:114-121).
AlternativesKept ==
  [][\A r \in DOMAIN run \cap DOMAIN run' : \A o \in Orders :
       \/ run[r].outcomes[o].alternative_state # "AVAILABLE"
       \/ run'[r].outcomes[o] = run[r].outcomes[o]
       \/ \E w \in Workers : /\ pc[w] \in {"alt_state", "alt_link"}
                            /\ pc'[w] # pc[w] /\ mem[w].r = r /\ mem[w].o = o]_vars

AtRest == InFlight = {} /\ ~overlapped

\* The link is set on the stored run before anything it names is stored.
\* Once the requests are done it leads to a scenario that changed this very
\* order and to its run derived from this run, unless the scenario was
\* deleted (runs.py:128-171).
LinkLeadsToDerivedRun ==
  AtRest => \A r \in saved : \A o \in Orders :
    LET s == run[r].outcomes[o].link
    IN s \notin {Nothing} \cup deleted =>
         /\ s \in kept \cap saved \cap validated
         /\ scenario[s].parent = run[r].scenario /\ scenario[s].changed = o
         /\ run[s].scenario = s /\ run[s].parent = r

\* A deletion that overlaps no other request leaves nothing behind it: no
\* run, decision, explanation, validation or event of what is gone, and no
\* scenario a search derived from it (scenarios.py:176-181,
\* storage.py:172-182).  What a caller declares as parent need not exist.
NothingLeftBehind ==
  AtRest =>
    /\ validated \cup traced \subseteq kept
    /\ \A r \in saved : run[r].scenario \in kept
    /\ explained \subseteq saved
    /\ \A d \in decisions : d.run \in saved
    /\ \A s \in kept : s[1] = "ALT" => scenario[s].parent \notin deleted
=============================================================================
