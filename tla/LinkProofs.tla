------------------------------ MODULE LinkProofs ------------------------------
(***************************************************************************)
(* Proofs about handlers of several calls over the Supabase store.  Of any *)
(* number of clients: where the link of an order leads, and what recording *)
(* one order's alternative does to the others.  Of one client: what a      *)
(* deletion leaves, what becomes of a stored scenario, and what a stored   *)
(* explanation says.                                                       *)
(***************************************************************************)
EXTENDS ScenarioServiceProofs

(***************************************************************************)
(* A search that a crash cuts off between its scenario and its run leaves  *)
(* a derived scenario whose number comes back; a run request that is       *)
(* writing that scenario's state at the same time puts the old snapshot    *)
(* back.  So the links are claimed where the process does not crash, or    *)
(* where no baseline run is asked for.                                     *)
(***************************************************************************)
Uncontested == Undisturbed /\ (Quota["crash"] = 0 \/ Quota["run"] = 0)

Searching == {"alt_search"} \cup AltCalls
Running == {"run_number"} \cup RunCalls

\* s is the stored alternative for order o of run r, a run of `scenario`.
LeadsTo(scenario, r, o, s) ==
  /\ s \in DOMAIN scenarios /\ s \in DOMAIN runs /\ s[1] = "ALT"
  /\ scenarios[s].parent = scenario /\ scenarios[s].input.changed = o
  /\ runs[s].scenario = s /\ runs[s].parent = r

\* Every link among the outcomes of run r leads where it should.
LinksLeadFrom(scenario, r, outcomes) ==
  \A o \in Orders : outcomes[o].link # Nothing => LeadsTo(scenario, r, o, outcomes[o].link)

LinksLead == \A r \in DOMAIN runs : LinksLeadFrom(runs[r].scenario, r, runs[r].outcomes)

RequestsLeft ==
  /\ quota["crash"] <= Quota["crash"] /\ quota["run"] <= Quota["run"]
  /\ Quota["run"] = 0 => \A w \in Workers : pc[w] \notin Running

DerivedSolved == \A s \in DOMAIN scenarios : s[1] = "ALT" => scenarios[s].state = "SOLVED"

\* Unless the process crashes, no derived scenario is ever overwritten.
DerivedNumbered ==
  Quota["crash"] = 0 =>
    /\ \A s \in DOMAIN scenarios : s[1] = "ALT" =>
         seq["alternative"] # Unread /\ s[2] <= seq["alternative"]
    /\ \A w \in Workers : pc[w] = "alt_scenario" => Derived(w) \notin DOMAIN scenarios

\* What a handler has read about derived scenarios still holds.
LinkReading(w) ==
  /\ pc[w] = "create_save" => mem[w].s[1] = "BASE"
  /\ pc[w] = "validate_save" /\ mem[w].s[1] = "ALT" => mem[w].doc.state = "SOLVED"
  /\ pc[w] \in {"validate_get", "validate_put"} => mem[w].s[1] = "BASE"
  /\ pc[w] = "run_put" /\ mem[w].s[1] = "ALT" =>
       /\ mem[w].doc.input = scenarios[mem[w].s].input
       /\ mem[w].doc.parent = scenarios[mem[w].s].parent
  /\ pc[w] \in Searching => LinksLeadFrom(mem[w].doc.scenario, mem[w].r, mem[w].doc.outcomes)
  /\ pc[w] = "alt_run" =>
       /\ Derived(w) \in DOMAIN scenarios
       /\ scenarios[Derived(w)].parent = mem[w].doc.scenario
       /\ scenarios[Derived(w)].input.changed = mem[w].o
  /\ pc[w] \in {"alt_validation", "alt_lock", "alt_outcome"} =>
       LeadsTo(mem[w].doc.scenario, mem[w].r, mem[w].o, Derived(w))

LinkInv ==
  /\ RequestsLeft /\ DerivedSolved /\ DerivedNumbered /\ LinksLead
  /\ \A w \in Workers : LinkReading(w)

(***************************************************************************)
(* A search that finds nothing writes its run back as it first read it     *)
(* and may lose what was recorded meanwhile (stale read); without one, the *)
(* outcomes a handler writes back are the stored ones.                     *)
(***************************************************************************)
UnderLock(w) ==
  /\ pc[w] # "alt_none"
  /\ pc[w] = "alt_outcome" => lock = w /\ mem[w].doc.outcomes = runs[mem[w].r].outcomes

LockInv == \A w \in Workers : UnderLock(w)

-----------------------------------------------------------------------------
(* What a step keeps. *)

\* A derived scenario keeps its snapshot and its parent, unless the step is
\* the one that writes the worker's own.
SnapshotsKept(w) ==
  \A s \in DOMAIN scenarios : s[1] = "ALT" =>
    \/ pc[w] = "alt_scenario" /\ s = Derived(w)
    \/ /\ scenarios'[s].input = scenarios[s].input
       /\ scenarios'[s].parent = scenarios[s].parent

\* The scenario a worker is about to write has no run, and no other worker
\* is between writing it and writing its run.
LEMMA OwnNumber ==
  ASSUME GrowthInv, NEW w \in Workers, pc[w] \in {"alt_scenario", "alt_run"}
  PROVE  /\ Derived(w) \notin DOMAIN runs
         /\ \A v \in Workers \ {w} : pc[v] \in {"alt_scenario", "alt_run"} => Derived(v) # Derived(w)
BY DEF GrowthInv, HeldRunsFree, HoldsRun, HeldRun

LEMMA LeadsToKept ==
  ASSUME GrowthInv, Grows, NEW w \in Workers, SnapshotsKept(w),
         NEW scenario, NEW r, NEW o, NEW s, LeadsTo(scenario, r, o, s)
  PROVE  LeadsTo(scenario, r, o, s)'
<1>1. ~ (pc[w] = "alt_scenario" /\ s = Derived(w))
  BY OwnNumber DEF LeadsTo
<1> QED BY <1>1 DEF LeadsTo, Grows, SnapshotsKept

LEMMA LinksLeadFromKept ==
  ASSUME GrowthInv, Grows, NEW w \in Workers, SnapshotsKept(w),
         NEW scenario, NEW r, NEW outcomes, LinksLeadFrom(scenario, r, outcomes)
  PROVE  \A o \in Orders : outcomes[o].link # Nothing => LeadsTo(scenario, r, o, outcomes[o].link)'
BY LeadsToKept DEF LinksLeadFrom

\* What another worker has read survives the step of w.
LEMMA LinkReadingKept ==
  ASSUME Uncontested, TypeInv, GrowthInv, LinkInv, Grows, NEW w \in Workers, SnapshotsKept(w),
         NEW v \in Workers \ {w}, pc'[v] = pc[v], mem'[v] = mem[v]
  PROVE  LinkReading(v)'
<1>1. LinkReading(v)
  BY DEF LinkInv
<1>2. CASE pc[v] = "run_put" /\ mem[v].s[1] = "ALT"
  <2>1. mem[v].s \in DOMAIN scenarios /\ pc[v] \in Running
    BY <1>2 DEF GrowthInv, ReadingHolds, RunCalls, Running
  <2>2. Quota["run"] # 0 /\ Quota["crash"] = 0
    BY <2>1 DEF Uncontested, LinkInv, RequestsLeft
  <2>3. ~ (pc[w] = "alt_scenario" /\ mem[v].s = Derived(w))
    BY <2>1, <2>2 DEF LinkInv, DerivedNumbered
  <2> QED BY <1>1, <1>2, <2>1, <2>3 DEF LinkReading, SnapshotsKept, Searching, AltCalls
<1>3. CASE pc[v] = "alt_run"
  <2>1. /\ Derived(v) \in DOMAIN scenarios /\ Derived(v)[1] = "ALT" /\ Derived(v)' = Derived(v)
        /\ scenarios[Derived(v)].parent = mem[v].doc.scenario
        /\ scenarios[Derived(v)].input.changed = mem[v].o
    BY <1>1, <1>3 DEF LinkReading, Derived
  <2>2. ~ (pc[w] = "alt_scenario" /\ Derived(v) = Derived(w))
    BY <1>3, OwnNumber
  <2>3. /\ Derived(v) \in DOMAIN scenarios'
        /\ scenarios'[Derived(v)].parent = mem[v].doc.scenario
        /\ scenarios'[Derived(v)].input.changed = mem[v].o
    BY <2>1, <2>2 DEF SnapshotsKept, Grows
  <2>4. \A o \in Orders : LET s == mem[v].doc.outcomes[o].link
          IN s # Nothing => LeadsTo(mem[v].doc.scenario, mem[v].r, o, s)'
    BY <1>1, <1>3, LinksLeadFromKept DEF LinkReading, Searching, AltCalls
  <2> QED BY <1>3, <2>1, <2>3, <2>4 DEF LinkReading, LinksLeadFrom
<1>4. CASE pc[v] \in Searching /\ pc[v] # "alt_run"
  <2>1. \A o \in Orders : LET s == mem[v].doc.outcomes[o].link
          IN s # Nothing => LeadsTo(mem[v].doc.scenario, mem[v].r, o, s)'
    BY <1>1, <1>4, LinksLeadFromKept DEF LinkReading
  <2>2. pc[v] \in {"alt_validation", "alt_lock", "alt_outcome"} =>
          LeadsTo(mem[v].doc.scenario, mem[v].r, mem[v].o, Derived(v))'
    <3>1. pc[v] \in {"alt_validation", "alt_lock", "alt_outcome"} =>
            LeadsTo(mem[v].doc.scenario, mem[v].r, mem[v].o, Derived(v))
      BY <1>1 DEF LinkReading
    <3>2. Derived(v)' = Derived(v)
      BY DEF Derived
    <3> QED BY <3>1, <3>2, LeadsToKept
  <2> QED BY <1>4, <2>1, <2>2 DEF LinkReading, LinksLeadFrom, Searching, AltCalls
<1>5. CASE pc[v] \notin Searching /\ ~ (pc[v] = "run_put" /\ mem[v].s[1] = "ALT")
  BY <1>1, <1>5 DEF LinkReading, Searching, AltCalls
<1> QED BY <1>2, <1>3, <1>4, <1>5 DEF Searching, AltCalls

\* The links after a step: kept, or leading where they should.
LEMMA LinksKept ==
  ASSUME GrowthInv, LinkInv, Grows, NEW w \in Workers, SnapshotsKept(w),
         \A r \in DOMAIN runs' : \A o \in Orders :
           \/ r \in DOMAIN runs /\ runs'[r].outcomes[o].link = runs[r].outcomes[o].link
           \/ runs'[r].outcomes[o].link = Nothing
           \/ LeadsTo(runs[r].scenario, r, o, runs[r].outcomes[o].link)'
  PROVE  LinksLead'
<1> SUFFICES ASSUME NEW r \in DOMAIN runs', NEW o \in Orders, runs'[r].outcomes[o].link # Nothing
             PROVE  LeadsTo(runs[r].scenario, r, o, runs[r].outcomes[o].link)'
  BY DEF LinksLead, LinksLeadFrom
<1>1. CASE r \in DOMAIN runs /\ runs'[r].outcomes[o].link = runs[r].outcomes[o].link
  <2>1. LeadsTo(runs[r].scenario, r, o, runs[r].outcomes[o].link)
    BY <1>1 DEF LinkInv, LinksLead, LinksLeadFrom
  <2>2. runs'[r].scenario = runs[r].scenario
    BY <1>1 DEF Grows
  <2> DEFINE s == runs[r].outcomes[o].link
             scenario == runs[r].scenario
  <2>3. LeadsTo(scenario, r, o, s) /\ runs'[r].outcomes[o].link = s /\ runs'[r].scenario = scenario
    BY <1>1, <2>1, <2>2
  <2> HIDE DEF s, scenario
  <2>4. /\ s \in DOMAIN scenarios' /\ s \in DOMAIN runs' /\ s[1] = "ALT"
        /\ scenarios'[s].parent = scenario /\ scenarios'[s].input.changed = o
        /\ runs'[s].scenario = s /\ runs'[s].parent = r
    BY <2>3, OwnNumber DEF LeadsTo, Grows, SnapshotsKept
  <2> QED BY <2>3, <2>4 DEF LeadsTo
<1> QED BY <1>1

\* A step that takes no number writes no derived scenario but its own.
LEMMA NumberedKept ==
  ASSUME GrowthInv, LinkInv, NEW w \in Workers, OthersStay(w),
         seq'["alternative"] = seq["alternative"], pc'[w] # "alt_scenario",
         \A s \in DOMAIN scenarios' \ DOMAIN scenarios :
           s[1] = "ALT" => pc[w] = "alt_scenario" /\ s = Derived(w)
  PROVE  DerivedNumbered'
<1> SUFFICES ASSUME Quota["crash"] = 0
             PROVE  /\ \A s \in DOMAIN scenarios' : s[1] = "ALT" =>
                         seq["alternative"] # Unread /\ s[2] <= seq["alternative"]
                    /\ \A v \in Workers : pc'[v] = "alt_scenario" => Derived(v)' \notin DOMAIN scenarios'
  BY DEF DerivedNumbered
<1>1. ASSUME NEW s \in DOMAIN scenarios', s[1] = "ALT"
      PROVE  seq["alternative"] # Unread /\ s[2] <= seq["alternative"]
  <2>1. CASE s \in DOMAIN scenarios
    BY <1>1, <2>1 DEF LinkInv, DerivedNumbered
  <2>2. CASE s \notin DOMAIN scenarios
    <3>1. pc[w] = "alt_scenario" /\ s = Derived(w)
      BY <1>1, <2>2
    <3>2. HoldsRun(w) /\ HeldRun(w) = s /\ Counter(s) = "alternative"
      BY <1>1, <3>1 DEF HoldsRun, HeldRun, Counter
    <3> QED BY <3>2 DEF GrowthInv, CountersLead
  <2> QED BY <2>1, <2>2
<1>2. ASSUME NEW v \in Workers, pc'[v] = "alt_scenario"
      PROVE  Derived(v)' \notin DOMAIN scenarios'
  <2>1. v # w /\ pc[v] = "alt_scenario" /\ Derived(v)' = Derived(v) /\ Derived(v)[1] = "ALT"
    BY <1>2 DEF OthersStay, Derived
  <2>2. Derived(v) \notin DOMAIN scenarios
    BY <2>1 DEF LinkInv, DerivedNumbered
  <2> QED BY <2>1, <2>2, OwnNumber
<1> QED BY <1>1, <1>2

LEMMA LinkStep ==
  ASSUME Uncontested, TypeInv, TypeInv', GrowthInv, LinkInv, Grows, NEW w \in Workers, OthersStay(w),
         SnapshotsKept(w), \A k \in Kinds : quota'[k] <= quota[k],
         Quota["run"] = 0 => pc'[w] \notin Running,
         DerivedSolved', DerivedNumbered', LinksLead', LinkReading(w)'
  PROVE  LinkInv'
<1>1. RequestsLeft'
  <2>1. /\ quota["crash"] \in Nat /\ quota["run"] \in Nat
        /\ quota'["crash"] \in Nat /\ quota'["run"] \in Nat
        /\ Quota["crash"] \in Nat /\ Quota["run"] \in Nat
    BY QuotaIsBounded DEF TypeInv, TypeOK, Kinds
  <2>2. quota'["crash"] <= quota["crash"] /\ quota'["run"] <= quota["run"]
    BY DEF Kinds
  <2> QED BY <2>1, <2>2 DEF LinkInv, RequestsLeft, OthersStay
<1>2. ASSUME NEW v \in Workers
      PROVE  LinkReading(v)'
  BY LinkReadingKept DEF OthersStay
<1> QED BY <1>1, <1>2 DEF LinkInv

\* A step that changes no row and takes no number.
LEMMA QuietLinks ==
  ASSUME Uncontested, TypeInv, TypeInv', GrowthInv, LinkInv, Grows, NEW w \in Workers, OthersStay(w),
         UNCHANGED <<scenarios, runs>>, seq'["alternative"] = seq["alternative"],
         \A k \in Kinds : quota'[k] <= quota[k], pc'[w] # "alt_scenario",
         Quota["run"] = 0 => pc'[w] \notin Running, LinkReading(w)'
  PROVE  LinkInv'
<1>1. SnapshotsKept(w)
  BY DEF SnapshotsKept
<1>2. DerivedSolved' /\ DerivedNumbered'
  BY NumberedKept DEF LinkInv, DerivedSolved
<1>3. LinksLead'
  BY <1>1, LinksKept
<1> QED BY <1>1, <1>2, <1>3, LinkStep

\* A step that writes no run and no derived scenario's snapshot.
LEMMA ScenarioLinks ==
  ASSUME Uncontested, TypeInv, TypeInv', GrowthInv, LinkInv, Grows, NEW w \in Workers, OthersStay(w),
         UNCHANGED <<runs, seq>>, quota' = quota, pc'[w] # "alt_scenario",
         Quota["run"] = 0 => pc'[w] \notin Running, LinkReading(w)', SnapshotsKept(w),
         \A s \in DOMAIN scenarios' : s[1] = "ALT" =>
           /\ s \in DOMAIN scenarios \/ (pc[w] = "alt_scenario" /\ s = Derived(w))
           /\ scenarios'[s].state = "SOLVED"
  PROVE  LinkInv'
<1>1. DerivedSolved' /\ DerivedNumbered'
  BY NumberedKept DEF DerivedSolved
<1>2. LinksLead'
  BY LinksKept
<1> QED BY <1>1, <1>2, LinkStep, QuotaSame

\* Calls that read nothing about links.
LEMMA NothingRead ==
  ASSUME NEW w \in Workers,
         pc'[w] \in {"idle", "create_trace", "validate_trace", "run_number", "run_save", "run_get",
                     "run_trace"} \cup DecideCalls \cup ExplainCalls
  PROVE  LinkReading(w)' /\ pc'[w] # "alt_scenario"
BY DEF LinkReading, Searching, AltCalls, DecideCalls, ExplainCalls

-----------------------------------------------------------------------------
(* The links, one lemma per request. *)

LEMMA CreateLinks ==
  ASSUME Uncontested, TypeInv, TypeInv', GrowthInv, LinkInv, Grows, NEW w \in Workers,
         CreateRequest(w)
  PROVE  LinkInv'
<1>1. CASE CreateNumber(w)
  <2>1. PICK candidates \in BOOLEAN, parent \in {Nothing} \cup Nameable :
          Arrive(w, "create", "create_save",
            [s |-> <<"BASE", seq'["scenario"]>>,
             doc |-> [state |-> "VALIDATION_REQUIRED", parent |-> parent,
                      input |-> [candidates |-> candidates, changed |-> Nothing]]])
    BY <1>1 DEF CreateNumber
  <2>2. /\ pc'[w] = "create_save" /\ mem'[w].s = <<"BASE", seq'["scenario"]>> /\ OthersStay(w)
        /\ \A k \in Kinds : quota'[k] <= quota[k]
    BY <2>1, ArriveMoves DEF Kinds
  <2>3. seq'["alternative"] = seq["alternative"]
    BY <1>1 DEF CreateNumber, Number, TypeInv, TypeOK
  <2>4. LinkReading(w)' /\ pc'[w] \notin Running
    BY <2>2 DEF LinkReading, Searching, AltCalls, Running, RunCalls
  <2> QED BY <1>1, <2>2, <2>3, <2>4, QuietLinks DEF CreateNumber, tables
<1>2. CASE CreateSave(w)
  <2>1. /\ pc[w] = "create_save" /\ pc'[w] = "create_trace" /\ OthersStay(w) /\ quota' = quota
    BY <1>2, WorkerHolds, ContinueMoves DEF CreateSave
  <2>2. mem[w].s \in Ids /\ mem[w].s[1] = "BASE"
    <3>1. mem[w] \in [s : Ids, doc : NewScenario]
      BY <2>1, WorkerHolds, Memories DEF CreateCalls
    <3> QED BY <2>1, <3>1 DEF LinkInv, LinkReading
  <2>3. /\ DOMAIN scenarios' = DOMAIN scenarios \cup {mem[w].s}
        /\ \A t \in DOMAIN scenarios : t # mem[w].s => scenarios'[t] = scenarios[t]
    BY <1>2, <2>2, SaveGrows DEF CreateSave
  <2>4. SnapshotsKept(w)
    BY <2>2, <2>3 DEF SnapshotsKept
  <2>5. LinkReading(w)' /\ pc'[w] \notin Running /\ pc'[w] # "alt_scenario"
    BY <2>1, NothingRead DEF Running, RunCalls
  <2> QED BY <1>2, <2>1, <2>2, <2>3, <2>4, <2>5, ScenarioLinks DEF CreateSave, LinkInv, DerivedSolved
<1>3. CASE CreateTrace(w)
  <2>1. pc'[w] = "idle" /\ OthersStay(w) /\ quota' = quota
    BY <1>3, WorkerHolds, ContinueMoves DEF CreateTrace
  <2>2. LinkReading(w)' /\ pc'[w] \notin Running /\ pc'[w] # "alt_scenario"
    BY <2>1, NothingRead DEF Running, RunCalls
  <2> QED BY <1>3, <2>1, <2>2, QuotaSame, QuietLinks DEF CreateTrace
<1> QED BY <1>1, <1>2, <1>3 DEF CreateRequest

\* A validation moves the state of a created scenario only: a derived one
\* was SOLVED when it was read.
LEMMA ValidateLinks ==
  ASSUME Uncontested, TypeInv, TypeInv', GrowthInv, LinkInv, Grows, NEW w \in Workers,
         ValidateRequest(w)
  PROVE  LinkInv'
<1>0. \A c \in ValidateCalls \cup {"idle"} : c \notin Running /\ c # "alt_scenario"
  BY DEF ValidateCalls, Running, RunCalls
<1>1. CASE ValidateRead(w)
  <2>1. PICK s \in DOMAIN scenarios :
          Arrive(w, "validate", "validate_save", [s |-> s, doc |-> scenarios[s]])
    BY <1>1 DEF ValidateRead
  <2>2. /\ pc'[w] = "validate_save" /\ mem'[w].s = s /\ mem'[w].doc = scenarios[s]
        /\ OthersStay(w) /\ \A k \in Kinds : quota'[k] <= quota[k]
    BY <2>1, ArriveMoves DEF Kinds
  <2>3. LinkReading(w)'
    BY <1>1, <2>2 DEF LinkReading, Searching, AltCalls, LinkInv, DerivedSolved
  <2> QED BY <1>0, <1>1, <2>2, <2>3, QuietLinks DEF ValidateRead, tables, ValidateCalls
<1> SUFFICES ASSUME pc[w] \in ValidateCalls PROVE LinkInv'
  BY <1>1 DEF ValidateRequest, ValidateSave, ValidateStateRead, StateRead, ValidateStateSave,
              StateSave, ValidateTrace, Continue, ValidateCalls
<1>2. /\ mem[w] \in [s : Ids, doc : ScenarioRow] /\ mem[w].s \in DOMAIN scenarios
      /\ LinkReading(w)
  BY WorkerHolds, Memories DEF GrowthInv, ReadingHolds, LinkInv
<1>3. CASE ValidateSave(w)
  <2>1. PICK to \in {"validate_get", "validate_trace"} :
          /\ Continue(w, "validate_save", to)
          /\ to = "validate_get" => mem[w].doc.state = "VALIDATION_REQUIRED"
    BY <1>3 DEF ValidateSave
  <2>2. /\ pc[w] = "validate_save" /\ pc'[w] = to /\ mem'[w] = mem[w]
        /\ OthersStay(w) /\ quota' = quota
    BY <2>1, WorkerHolds, ContinueMoves
  <2>3. LinkReading(w)'
    <3>1. to = "validate_get" => mem[w].s[1] # "ALT"
      BY <1>2, <2>1, <2>2 DEF LinkReading
    <3>2. to = "validate_get" => mem[w].s[1] = "BASE"
      BY <1>2, <3>1 DEF Ids
    <3> QED BY <2>2, <3>2 DEF LinkReading, Searching, AltCalls
  <2>4. /\ DOMAIN scenarios' = DOMAIN scenarios
        /\ \A t \in DOMAIN scenarios : /\ scenarios'[t].state = scenarios[t].state
                                       /\ scenarios'[t].input = scenarios[t].input
                                       /\ scenarios'[t].parent = scenarios[t].parent
    BY <1>3, MarkGrows DEF ValidateSave
  <2>5. SnapshotsKept(w)
    BY <2>4 DEF SnapshotsKept
  <2> QED BY <1>0, <1>3, <2>2, <2>3, <2>4, <2>5, ScenarioLinks
          DEF ValidateSave, LinkInv, DerivedSolved, ValidateCalls
<1>4. CASE ValidateStateRead(w)
  <2>1. Remember(w, "validate_get", "validate_put",
                 [mem[w] EXCEPT !.doc = scenarios[mem[w].s]])
    BY <1>2, <1>4 DEF ValidateStateRead, StateRead
  <2>2. /\ pc[w] = "validate_get" /\ pc'[w] = "validate_put" /\ OthersStay(w) /\ quota' = quota
        /\ mem'[w] = [mem[w] EXCEPT !.doc = scenarios[mem[w].s]]
    BY <2>1, WorkerHolds, RememberMoves
  <2>3. mem'[w].s = mem[w].s
    BY <1>2, <2>2
  <2>4. LinkReading(w)'
    BY <1>2, <2>2, <2>3 DEF LinkReading, Searching, AltCalls
  <2> QED BY <1>0, <1>4, <2>2, <2>4, QuotaSame, QuietLinks
          DEF ValidateStateRead, StateRead, tables, ValidateCalls
<1>5. CASE ValidateStateSave(w)
  <2>1. /\ pc[w] = "validate_put" /\ pc'[w] = "validate_trace" /\ OthersStay(w) /\ quota' = quota
    BY <1>5, WorkerHolds, ContinueMoves DEF ValidateStateSave, StateSave
  <2>2. /\ DOMAIN scenarios' = DOMAIN scenarios \cup {mem[w].s}
        /\ \A t \in DOMAIN scenarios : t # mem[w].s => scenarios'[t] = scenarios[t]
    BY <1>2, <1>5, SaveGrows DEF ValidateStateSave, StateSave
  <2>3. mem[w].s[1] = "BASE"
    BY <1>2, <2>1 DEF LinkReading
  <2>4. SnapshotsKept(w)
    BY <2>2, <2>3 DEF SnapshotsKept
  <2>5. LinkReading(w)'
    BY <2>1, NothingRead
  <2> QED BY <1>0, <1>5, <2>1, <2>2, <2>3, <2>4, <2>5, ScenarioLinks
          DEF ValidateStateSave, StateSave, LinkInv, DerivedSolved, ValidateCalls
<1>6. CASE ValidateTrace(w)
  <2>1. pc'[w] = "idle" /\ OthersStay(w) /\ quota' = quota
    BY <1>6, WorkerHolds, ContinueMoves DEF ValidateTrace
  <2>2. LinkReading(w)'
    BY <2>1, NothingRead
  <2> QED BY <1>0, <1>6, <2>1, <2>2, QuotaSame, QuietLinks DEF ValidateTrace
<1> QED BY <1>1, <1>3, <1>4, <1>5, <1>6 DEF ValidateRequest

\* A run request writes a derived scenario back as it found it.
LEMMA RunLinks ==
  ASSUME Uncontested, TypeInv, TypeInv', GrowthInv, LinkInv, Grows, NEW w \in Workers,
         RunRequest(w)
  PROVE  LinkInv'
<1>0. Quota["run"] # 0 \/ ~ RunRead(w)
  <2> SUFFICES ASSUME Quota["run"] = 0, RunRead(w) PROVE FALSE
    OBVIOUS
  <2>1. quota["run"] > 0 /\ quota["run"] <= 0 /\ quota["run"] \in Nat
    BY DEF RunRead, Arrive, LinkInv, RequestsLeft, TypeInv, TypeOK, Kinds
  <2> QED BY <2>1
<1>1. CASE RunRead(w)
  <2>1. PICK read : Arrive(w, "run", "run_number", read)
    BY <1>1 DEF RunRead
  <2>2. pc'[w] = "run_number" /\ OthersStay(w) /\ \A k \in Kinds : quota'[k] <= quota[k]
    BY <2>1, ArriveMoves DEF Kinds
  <2>3. LinkReading(w)' /\ pc'[w] # "alt_scenario"
    BY <2>2, NothingRead
  <2> QED BY <1>0, <1>1, <2>2, <2>3, QuietLinks DEF RunRead, tables
<1> SUFFICES ASSUME pc[w] \in Running PROVE LinkInv'
  BY <1>1 DEF RunRequest, RunRefused, RunSolve, RunSave, RunStateRead, StateRead, RunStateSave,
              StateSave, RunTrace, Continue, Running, RunCalls
<1>2. Quota["run"] # 0
  BY DEF LinkInv, RequestsLeft
<1>3. CASE RunRefused(w)
  <2>1. pc'[w] = "idle" /\ OthersStay(w) /\ quota' = quota
    BY <1>3, WorkerHolds, ContinueMoves DEF RunRefused
  <2>2. LinkReading(w)' /\ pc'[w] # "alt_scenario"
    BY <2>1, NothingRead
  <2> QED BY <1>2, <1>3, <2>1, <2>2, QuotaSame, QuietLinks DEF RunRefused, tables
<1>4. CASE RunSolve(w)
  <2>1. PICK result :
          IF result = "ERROR"
          THEN Continue(w, "run_number", "idle")
          ELSE Remember(w, "run_number", "run_save",
                 [mem[w] EXCEPT !.r = <<"BASE", seq'["run"]>>, !.status = result])
    BY <1>4 DEF RunSolve
  <2>2. pc'[w] \in {"idle", "run_save"} /\ OthersStay(w) /\ quota' = quota
    BY <2>1, WorkerHolds, ContinueMoves, RememberMoves
  <2>3. LinkReading(w)' /\ pc'[w] # "alt_scenario"
    BY <2>2, NothingRead
  <2>4. seq'["alternative"] = seq["alternative"]
    BY <1>4 DEF RunSolve, Number, TypeInv, TypeOK
  <2> QED BY <1>2, <1>4, <2>2, <2>3, <2>4, QuotaSame, QuietLinks DEF RunSolve, tables
<1> SUFFICES ASSUME pc[w] \in RunCalls PROVE LinkInv'
  BY <1>3, <1>4 DEF RunRequest, RunRead, Arrive, RunSave, RunStateRead, StateRead, RunStateSave,
              StateSave, RunTrace, Continue, Running, RunCalls
<1>5. /\ mem[w] \in [s : Ids, doc : ScenarioRow, r : Ids, status : {"OPTIMAL", "FEASIBLE"}]
      /\ mem[w].s \in DOMAIN scenarios /\ LinkReading(w)
  BY WorkerHolds, Memories DEF GrowthInv, ReadingHolds, LinkInv
<1>6. CASE RunSave(w)
  <2> DEFINE doc == [scenario |-> mem[w].s, status |-> mem[w].status, parent |-> Nothing,
                     outcomes |-> [o \in Orders |-> NotSearched]]
  <2>1. doc.outcomes = [o \in Orders |-> NotSearched]
    OBVIOUS
  <2>2. Continue(w, "run_save", "run_get") /\ SaveRun(mem[w].r, doc)
    BY <1>5, <1>6 DEF RunSave
  <2> HIDE DEF doc
  <2>3. pc[w] = "run_save" /\ pc'[w] = "run_get" /\ OthersStay(w) /\ quota' = quota
    BY <2>2, WorkerHolds, ContinueMoves
  <2>4. /\ \A q \in DOMAIN runs' : q # mem[w].r => q \in DOMAIN runs /\ runs'[q] = runs[q]
        /\ runs'[mem[w].r].outcomes = [o \in Orders |-> NotSearched]
    BY <2>1, <2>2 DEF SaveRun, Upsert
  <2>5. LinkReading(w)' /\ pc'[w] # "alt_scenario"
    BY <2>3, NothingRead
  <2>6. SnapshotsKept(w)
    BY <1>6 DEF RunSave, SnapshotsKept
  <2>7. DerivedSolved' /\ DerivedNumbered'
    BY <1>6, <2>3, <2>5, NumberedKept DEF RunSave, LinkInv, DerivedSolved
  <2>8. LinksLead'
    BY <2>4, <2>6, LinksKept DEF NotSearched
  <2> QED BY <1>2, <2>3, <2>5, <2>6, <2>7, <2>8, QuotaSame, LinkStep
<1>7. CASE RunStateRead(w)
  <2>1. Remember(w, "run_get", "run_put", [mem[w] EXCEPT !.doc = scenarios[mem[w].s]])
    BY <1>5, <1>7 DEF RunStateRead, StateRead
  <2>2. /\ pc'[w] = "run_put" /\ OthersStay(w) /\ quota' = quota
        /\ mem'[w] = [mem[w] EXCEPT !.doc = scenarios[mem[w].s]]
    BY <2>1, WorkerHolds, RememberMoves
  <2>3. mem'[w].s = mem[w].s /\ mem'[w].doc = scenarios[mem[w].s]
    BY <1>5, <2>2
  <2>4. LinkReading(w)'
    BY <1>7, <2>2, <2>3 DEF LinkReading, Searching, AltCalls, RunStateRead, StateRead, tables
  <2> QED BY <1>2, <1>7, <2>2, <2>4, QuotaSame, QuietLinks DEF RunStateRead, StateRead, tables
<1>8. CASE RunStateSave(w)
  <2>1. pc[w] = "run_put" /\ pc'[w] = "run_trace" /\ OthersStay(w) /\ quota' = quota
    BY <1>8, WorkerHolds, ContinueMoves DEF RunStateSave, StateSave
  <2> DEFINE doc == [mem[w].doc EXCEPT !.state = "SOLVED"]
  <2>2. /\ doc.state = "SOLVED" /\ doc.input = mem[w].doc.input /\ doc.parent = mem[w].doc.parent
    BY <1>5 DEF ScenarioRow
  <2>3. SaveScenario(mem[w].s, doc)
    BY <1>8 DEF RunStateSave, StateSave
  <2> HIDE DEF doc
  <2>4. /\ DOMAIN scenarios' = DOMAIN scenarios \cup {mem[w].s}
        /\ \A t \in DOMAIN scenarios : t # mem[w].s => scenarios'[t] = scenarios[t]
        /\ scenarios'[mem[w].s].state = "SOLVED"
        /\ scenarios'[mem[w].s].input = mem[w].doc.input
        /\ scenarios'[mem[w].s].parent = mem[w].doc.parent
    BY <2>2, <2>3 DEF SaveScenario, Upsert
  <2>5. SnapshotsKept(w)
    BY <1>5, <2>1, <2>4 DEF SnapshotsKept, LinkReading
  <2>6. LinkReading(w)' /\ pc'[w] # "alt_scenario"
    BY <2>1, NothingRead
  <2>7. \A s \in DOMAIN scenarios' : s[1] = "ALT" =>
          s \in DOMAIN scenarios /\ scenarios'[s].state = "SOLVED"
    BY <1>5, <2>4 DEF LinkInv, DerivedSolved
  <2>8. runs' = runs /\ seq' = seq
    BY <1>8 DEF RunStateSave, StateSave
  <2> QED BY <1>2, <2>1, <2>5, <2>6, <2>7, <2>8, ScenarioLinks
<1>9. CASE RunTrace(w)
  <2>1. pc'[w] = "idle" /\ OthersStay(w) /\ quota' = quota
    BY <1>9, WorkerHolds, ContinueMoves DEF RunTrace
  <2>2. LinkReading(w)' /\ pc'[w] # "alt_scenario"
    BY <2>1, NothingRead
  <2> QED BY <1>2, <1>9, <2>1, <2>2, QuotaSame, QuietLinks DEF RunTrace
<1> QED BY <1>3, <1>4, <1>6, <1>7, <1>8, <1>9 DEF RunRequest, RunRead, Arrive, RunCalls

\* The document a search goes on with keeps leading where it should.
LEMMA SearchGoesOn ==
  ASSUME GrowthInv, LinkInv, Grows, NEW w \in Workers, SnapshotsKept(w),
         pc[w] \in Searching, mem'[w].r = mem[w].r, mem'[w].doc = mem[w].doc
  PROVE  LinksLeadFrom(mem[w].doc.scenario, mem[w].r, mem[w].doc.outcomes)'
<1> DEFINE scenario == mem[w].doc.scenario
           r == mem[w].r
           outcomes == mem[w].doc.outcomes
<1>1. LinksLeadFrom(scenario, r, outcomes)
  BY DEF LinkInv, LinkReading
<1>2. \A o \in Orders : outcomes[o].link # Nothing =>
        LET s == outcomes[o].link
        IN /\ s \in DOMAIN scenarios' /\ s \in DOMAIN runs' /\ s[1] = "ALT"
           /\ scenarios'[s].parent = scenario /\ scenarios'[s].input.changed = o
           /\ runs'[s].scenario = s /\ runs'[s].parent = r
  <2> HIDE DEF scenario, r, outcomes
  <2> TAKE o \in Orders
  <2> HAVE outcomes[o].link # Nothing
  <2>1. LeadsTo(scenario, r, o, outcomes[o].link)
    BY <1>1 DEF LinksLeadFrom
  <2>2. ~ (pc[w] = "alt_scenario" /\ outcomes[o].link = Derived(w))
    BY <2>1, OwnNumber DEF LeadsTo
  <2> QED BY <2>1, <2>2 DEF LeadsTo, Grows, SnapshotsKept
<1> QED BY <1>2 DEF LinksLeadFrom, LeadsTo

LEMMA SearchStartLinks ==
  ASSUME Uncontested, TypeInv, TypeInv', GrowthInv, LinkInv, Grows, NEW w \in Workers,
         AltRead(w) \/ AltNoScenario(w) \/ AltSearch(w)
  PROVE  LinkInv'
<1>0. \A c \in Searching \cup {"idle"} : c \notin Running
  BY DEF Searching, AltCalls, Running, RunCalls
<1>1. CASE AltRead(w)
  <2>1. PICK r \in DOMAIN runs, o \in Orders :
          Arrive(w, "alternative", "alt_search",
                 [r |-> r, o |-> o, doc |-> runs[r], verdict |-> Nothing, n |-> Nothing])
    BY <1>1 DEF AltRead
  <2>2. /\ pc'[w] = "alt_search" /\ mem'[w].r = r /\ mem'[w].doc = runs[r] /\ OthersStay(w)
        /\ \A k \in Kinds : quota'[k] <= quota[k]
    BY <2>1, ArriveMoves DEF Kinds
  <2>3. LinksLeadFrom(mem[w].doc.scenario, mem[w].r, mem[w].doc.outcomes)'
    BY <1>1, <2>2 DEF AltRead, tables, LinkInv, LinksLead, LinksLeadFrom, LeadsTo
  <2>4. LinkReading(w)'
    BY <2>2, <2>3 DEF LinkReading
  <2> QED BY <1>0, <1>1, <2>2, <2>4, QuietLinks DEF AltRead, tables, Searching
<1>2. CASE AltNoScenario(w)
  <2>1. pc'[w] = "idle" /\ OthersStay(w) /\ quota' = quota
    BY <1>2, WorkerHolds, ContinueMoves DEF AltNoScenario
  <2>2. LinkReading(w)' /\ pc'[w] # "alt_scenario"
    BY <2>1, NothingRead
  <2> QED BY <1>0, <1>2, <2>1, <2>2, QuotaSame, QuietLinks DEF AltNoScenario, tables
<1>3. CASE AltSearch(w)
  <2>0. UNCHANGED <<scenarios, runs>> /\ pc[w] = "alt_search" /\ SnapshotsKept(w)
    BY <1>3 DEF AltSearch, tables, SnapshotsKept
  <2>1. PICK last \in IF seq["alternative"] = Unread THEN {Highest(Numbers(runs, "ALT"))}
                      ELSE {seq["alternative"]} :
          seq' = [seq EXCEPT !["alternative"] = last + 1]
    BY <1>3 DEF AltSearch, Number, Scanned, Uncontested, Undisturbed
  <2>2. /\ seq'["alternative"] = last + 1 /\ last \in Nat
        /\ seq["alternative"] # Unread => last = seq["alternative"]
    <3>1. /\ Numbers(runs, "ALT") \subseteq Nat /\ IsFiniteSet(Numbers(runs, "ALT"))
          /\ seq \in [{"scenario", "run", "alternative"} -> Nat \cup {Unread}]
      BY NumbersFinite, WorkerHolds DEF RunsOK, TypeInv, TypeOK
    <3>2. last \in Nat
      BY <2>1, <3>1, HighestBounds
    <3> QED BY <2>1, <3>1, <3>2
  <2>3. Quota["crash"] = 0 =>
          \A s \in DOMAIN scenarios : s[1] = "ALT" =>
            seq'["alternative"] # Unread /\ s[2] < seq'["alternative"]
    <3> SUFFICES ASSUME Quota["crash"] = 0, NEW s \in DOMAIN scenarios, s[1] = "ALT"
                 PROVE  seq'["alternative"] # Unread /\ s[2] < seq'["alternative"]
      OBVIOUS
    <3>1. seq["alternative"] # Unread /\ s[2] <= seq["alternative"] /\ s[2] \in Nat
      BY WorkerHolds DEF LinkInv, DerivedNumbered, ScenariosOK, Ids
    <3> QED BY <2>2, <3>1 DEF Unread
  <2>4. /\ OthersStay(w) /\ quota' = quota /\ pc'[w] \in {"idle", "alt_none", "alt_scenario"}
        /\ pc'[w] # "idle" => /\ mem'[w].r = mem[w].r /\ mem'[w].doc = mem[w].doc
                              /\ Derived(w)' = <<"ALT", seq'["alternative"]>>
    <3>1. CASE Continue(w, "alt_search", "idle")
      BY <3>1, WorkerHolds, ContinueMoves
    <3>2. CASE ~ Continue(w, "alt_search", "idle")
      <4>1. PICK verdict \in Verdicts :
              Remember(w, "alt_search", IF verdict = "NONE" THEN "alt_none" ELSE "alt_scenario",
                       [mem[w] EXCEPT !.verdict = verdict, !.n = seq'["alternative"]])
        BY <1>3, <3>2 DEF AltSearch
      <4> DEFINE read == [mem[w] EXCEPT !.verdict = verdict, !.n = seq'["alternative"]]
      <4>2. mem[w] \in [r : Ids, o : Orders, doc : RunRow, verdict : {Nothing}, n : {Nothing}]
        BY <2>0, WorkerHolds, Memories
      <4>3. read.r = mem[w].r /\ read.doc = mem[w].doc /\ read.n = seq'["alternative"]
        BY <4>2
      <4>4. PICK to \in {"alt_none", "alt_scenario"} : Remember(w, "alt_search", to, read)
        BY <4>1
      <4> HIDE DEF read
      <4>5. pc'[w] = to /\ mem'[w] = read /\ OthersStay(w) /\ quota' = quota
        BY <4>4, WorkerHolds, RememberMoves
      <4> QED BY <4>3, <4>5 DEF Derived
    <3> QED BY <3>1, <3>2
  <2>5. LinkReading(w)'
    <3>1. CASE pc'[w] = "idle"
      BY <3>1, NothingRead
    <3>2. CASE pc'[w] # "idle"
      <4>1. LinksLeadFrom(mem[w].doc.scenario, mem[w].r, mem[w].doc.outcomes)'
        BY <2>0, <2>4, <3>2, SearchGoesOn DEF Searching
      <4> QED BY <2>4, <3>2, <4>1 DEF LinkReading
    <3> QED BY <3>1, <3>2
  <2>6. DerivedNumbered'
    <3> SUFFICES ASSUME Quota["crash"] = 0
                 PROVE  /\ \A s \in DOMAIN scenarios : s[1] = "ALT" =>
                             seq'["alternative"] # Unread /\ s[2] <= seq'["alternative"]
                        /\ \A v \in Workers : pc'[v] = "alt_scenario" => Derived(v)' \notin DOMAIN scenarios
      BY <2>0 DEF DerivedNumbered
    <3>1. \A s \in DOMAIN scenarios : s[2] \in Nat
      BY WorkerHolds DEF ScenariosOK, Ids
    <3>2. \A s \in DOMAIN scenarios : s[1] = "ALT" =>
            seq'["alternative"] # Unread /\ s[2] <= seq'["alternative"]
      BY <2>2, <2>3, <3>1
    <3>3. pc'[w] = "alt_scenario" => Derived(w)' \notin DOMAIN scenarios
      BY <2>2, <2>3, <2>4, <3>1
    <3>4. \A v \in Workers \ {w} : pc'[v] = "alt_scenario" => Derived(v)' \notin DOMAIN scenarios
      BY <2>4 DEF OthersStay, Derived, LinkInv, DerivedNumbered
    <3> QED BY <3>2, <3>3, <3>4
  <2>7. DerivedSolved' /\ LinksLead'
    BY <2>0, LinksKept DEF LinkInv, DerivedSolved
  <2> QED BY <1>0, <2>0, <2>4, <2>5, <2>6, <2>7, QuotaSame, LinkStep DEF Searching, AltCalls
<1> QED BY <1>1, <1>2, <1>3

\* A run written back with one outcome changed: the other links were read
\* with the document.
LEMMA WriteOutcomeLinks ==
  ASSUME TypeInv, GrowthInv, LinkInv, Grows, NEW w \in Workers, pc[w] \in AltCalls,
         scenarios' = scenarios,
         NEW outcome, outcome \in [alternative_state : {"NOT_SEARCHED", "NONE", "AVAILABLE"},
                                   link : Ids \cup {Nothing}],
         \/ outcome.link = Nothing
         \/ LeadsTo(mem[w].doc.scenario, mem[w].r, mem[w].o, outcome.link),
         SaveRun(mem[w].r, [mem[w].doc EXCEPT !.outcomes[mem[w].o] = outcome])
  PROVE  LinksLead'
<1> DEFINE r == mem[w].r
           scenario == mem[w].doc.scenario
           outcomes == mem[w].doc.outcomes
           o == mem[w].o
<1>0. /\ DOMAIN runs' = DOMAIN runs \cup {r}
      /\ \A q \in DOMAIN runs : q # r => runs'[q] = runs[q]
      /\ runs'[r] = [scenario |-> scenario, status |-> mem[w].doc.status,
                     parent |-> mem[w].doc.parent,
                     outcomes |-> [outcomes EXCEPT ![o] = outcome],
                     explanation |-> IF r \in DOMAIN runs THEN runs[r].explanation ELSE Nothing]
  BY WriteOutcomeType
<1>1. runs'[r].scenario = scenario /\ runs'[r].outcomes = [outcomes EXCEPT ![o] = outcome]
  BY <1>0
<1>2. outcomes \in Outcomes /\ o \in Orders /\ r \in DOMAIN runs
  BY AlternativeHolds, AlternativeReads DEF RunRow
<1>3. LinksLeadFrom(scenario, r, outcomes)
  BY DEF LinkInv, LinkReading, Searching
<1>4. \A p \in Orders : runs'[r].outcomes[p] = IF p = o THEN outcome ELSE outcomes[p]
  BY <1>1, <1>2 DEF Outcomes
<1>5. outcome.link = Nothing \/ LeadsTo(scenario, r, o, outcome.link)
  OBVIOUS
<1> HIDE DEF r, scenario, outcomes, o
<1>6. ASSUME NEW q \in DOMAIN runs', NEW p \in Orders, runs'[q].outcomes[p].link # Nothing
      PROVE  LeadsTo(runs'[q].scenario, q, p, runs'[q].outcomes[p].link)
  <2>1. CASE q = r
    <3>1. CASE p = o
      BY <1>1, <1>4, <1>5, <1>6, <2>1, <3>1
    <3>2. CASE p # o
      BY <1>1, <1>3, <1>4, <1>6, <2>1, <3>2 DEF LinksLeadFrom
    <3> QED BY <3>1, <3>2
  <2>2. CASE q # r
    <3>1. q \in DOMAIN runs /\ runs'[q] = runs[q]
      BY <1>0, <2>2
    <3> QED BY <1>6, <3>1 DEF LinkInv, LinksLead, LinksLeadFrom
  <2> QED BY <2>1, <2>2
<1>7. ASSUME NEW q \in DOMAIN runs', NEW p \in Orders, runs'[q].outcomes[p].link # Nothing
      PROVE  LeadsTo(runs[q].scenario, q, p, runs[q].outcomes[p].link)'
  <2> DEFINE s == runs'[q].outcomes[p].link
             base == runs'[q].scenario
  <2>1. LeadsTo(base, q, p, s)
    BY <1>6, <1>7
  <2>2. /\ s \in DOMAIN scenarios' /\ s \in DOMAIN runs' /\ s[1] = "ALT"
        /\ scenarios'[s].parent = base /\ scenarios'[s].input.changed = p
        /\ runs'[s].scenario = s /\ runs'[s].parent = q
    <3> HIDE DEF s, base
    <3> QED BY <2>1 DEF LeadsTo, Grows
  <2> QED BY <2>2 DEF LeadsTo
<1> QED BY <1>7 DEF LinksLead, LinksLeadFrom

LEMMA SearchSaveLinks ==
  ASSUME Uncontested, TypeInv, TypeInv', GrowthInv, GrowthInv', LinkInv, Grows, NEW w \in Workers,
         AltNone(w) \/ AltSaveScenario(w) \/ AltSaveRun(w) \/ AltSaveValidation(w)
  PROVE  LinkInv'
<1>0. \A c \in AltCalls \cup {"idle"} : c \notin Running
  BY DEF AltCalls, Running, RunCalls
<1>1. CASE AltNone(w)
  <2>1. pc[w] = "alt_none" /\ pc[w] \in AltCalls
    BY <1>1 DEF AltNone, AltCalls
  <2>2. /\ Continue(w, "alt_none", "alt_trace")
        /\ SaveRun(mem[w].r, [mem[w].doc EXCEPT !.outcomes[mem[w].o] = NoneFound])
    BY <1>1, <2>1, AlternativeReads DEF AltNone
  <2>3. pc'[w] = "alt_trace" /\ mem'[w] = mem[w] /\ OthersStay(w) /\ quota' = quota
    BY <2>2, WorkerHolds, ContinueMoves
  <2>4. /\ NoneFound \in [alternative_state : {"NOT_SEARCHED", "NONE", "AVAILABLE"},
                          link : Ids \cup {Nothing}]
        /\ NoneFound.link = Nothing
    BY DEF NoneFound
  <2>5. LinksLead'
    BY <1>1, <2>1, <2>2, <2>4, WriteOutcomeLinks DEF AltNone
  <2>6. SnapshotsKept(w)
    BY <1>1 DEF AltNone, SnapshotsKept
  <2>7. LinkReading(w)'
    <3>1. LinksLeadFrom(mem[w].doc.scenario, mem[w].r, mem[w].doc.outcomes)'
      BY <2>1, <2>3, <2>6, SearchGoesOn DEF Searching
    <3> QED BY <2>3, <3>1 DEF LinkReading
  <2>8. DerivedSolved' /\ DerivedNumbered'
    BY <1>1, <2>3, NumberedKept DEF AltNone, LinkInv, DerivedSolved
  <2> QED BY <1>0, <2>3, <2>5, <2>6, <2>7, <2>8, QuotaSame, LinkStep DEF AltCalls
<1>2. CASE AltSaveScenario(w)
  <2>1. /\ pc[w] = "alt_scenario" /\ pc'[w] = "alt_run" /\ mem'[w] = mem[w]
        /\ OthersStay(w) /\ quota' = quota
    BY <1>2, WorkerHolds, ContinueMoves DEF AltSaveScenario
  <2>2. /\ DOMAIN scenarios' = DOMAIN scenarios \cup {Derived(w)}
        /\ \A t \in DOMAIN scenarios : t # Derived(w) => scenarios'[t] = scenarios[t]
        /\ scenarios'[Derived(w)].state = "SOLVED"
        /\ scenarios'[Derived(w)].parent = mem[w].doc.scenario
        /\ scenarios'[Derived(w)].input.changed = mem[w].o
    <3>1. scenarios'[Derived(w)] =
            [state |-> "SOLVED", input |-> [candidates |-> TRUE, changed |-> mem[w].o],
             parent |-> mem[w].doc.scenario,
             validated |-> Derived(w) \in DOMAIN scenarios /\ scenarios[Derived(w)].validated]
      BY <1>2, SaveDerivedScenario
    <3>2. /\ scenarios'[Derived(w)].state = "SOLVED"
          /\ scenarios'[Derived(w)].parent = mem[w].doc.scenario
          /\ scenarios'[Derived(w)].input.changed = mem[w].o
      BY <3>1
    <3> QED BY <1>2, <3>2, SaveDerivedScenario
  <2>3. SnapshotsKept(w)
    BY <2>1, <2>2 DEF SnapshotsKept
  <2>4. LinkReading(w)'
    <3>1. LinksLeadFrom(mem[w].doc.scenario, mem[w].r, mem[w].doc.outcomes)'
      BY <2>1, <2>3, SearchGoesOn DEF Searching, AltCalls
    <3>2. Derived(w)' = Derived(w)
      BY <2>1 DEF Derived
    <3> QED BY <2>1, <2>2, <3>1, <3>2 DEF LinkReading
  <2>5. \A s \in DOMAIN scenarios' : s[1] = "ALT" =>
          /\ s \in DOMAIN scenarios \/ (pc[w] = "alt_scenario" /\ s = Derived(w))
          /\ scenarios'[s].state = "SOLVED"
    BY <2>1, <2>2 DEF LinkInv, DerivedSolved
  <2> QED BY <1>0, <1>2, <2>1, <2>3, <2>4, <2>5, ScenarioLinks DEF AltSaveScenario, AltCalls
<1>3. CASE AltSaveRun(w)
  <2>0. pc[w] = "alt_run" /\ Derived(w) \in DOMAIN scenarios /\ Derived(w)[1] = "ALT"
    BY <1>3 DEF AltSaveRun, LinkInv, LinkReading, Derived
  <2>1. Continue(w, "alt_run", "alt_validation")
    BY <1>3, <2>0 DEF AltSaveRun
  <2>2. /\ pc'[w] = "alt_validation" /\ mem'[w] = mem[w] /\ OthersStay(w) /\ quota' = quota
    BY <2>1, WorkerHolds, ContinueMoves
  <2>3. /\ DOMAIN runs' = DOMAIN runs \cup {Derived(w)}
        /\ \A q \in DOMAIN runs : q # Derived(w) => runs'[q] = runs[q]
        /\ runs'[Derived(w)].scenario = Derived(w) /\ runs'[Derived(w)].parent = mem[w].r
        /\ \A o \in Orders : runs'[Derived(w)].outcomes[o].link = Nothing
    BY <1>3, <2>0, SaveDerivedRun
  <2>4. SnapshotsKept(w) /\ scenarios' = scenarios /\ seq' = seq
    BY <1>3 DEF AltSaveRun, SnapshotsKept
  <2>5. LinkReading(w)'
    <3>1. LinksLeadFrom(mem[w].doc.scenario, mem[w].r, mem[w].doc.outcomes)'
      BY <2>0, <2>2, <2>4, SearchGoesOn DEF Searching, AltCalls
    <3>2. Derived(w)' = Derived(w)
      BY <2>2 DEF Derived
    <3>3. LeadsTo(mem[w].doc.scenario, mem[w].r, mem[w].o, Derived(w))'
      BY <2>0, <2>2, <2>3, <2>4, <3>2 DEF LeadsTo, LinkInv, LinkReading
    <3> QED BY <2>2, <3>1, <3>3 DEF LinkReading
  <2>6. DerivedSolved' /\ DerivedNumbered'
    BY <2>2, <2>4, NumberedKept DEF LinkInv, DerivedSolved
  <2>7. LinksLead'
    <3>1. \A r \in DOMAIN runs' : \A o \in Orders :
            \/ r \in DOMAIN runs /\ runs'[r].outcomes[o].link = runs[r].outcomes[o].link
            \/ runs'[r].outcomes[o].link = Nothing
      BY <2>3
    <3> QED BY <2>4, <3>1, LinksKept
  <2> QED BY <1>0, <2>2, <2>4, <2>5, <2>6, <2>7, QuotaSame, LinkStep DEF AltCalls
<1>4. CASE AltSaveValidation(w)
  <2>1. /\ pc[w] = "alt_validation" /\ pc'[w] = "alt_lock" /\ mem'[w] = mem[w]
        /\ OthersStay(w) /\ quota' = quota
    BY <1>4, WorkerHolds, ContinueMoves DEF AltSaveValidation
  <2>2. /\ DOMAIN scenarios' = DOMAIN scenarios
        /\ \A t \in DOMAIN scenarios : /\ scenarios'[t].state = scenarios[t].state
                                       /\ scenarios'[t].input = scenarios[t].input
                                       /\ scenarios'[t].parent = scenarios[t].parent
    BY <1>4, MarkGrows DEF AltSaveValidation
  <2>3. SnapshotsKept(w)
    BY <2>2 DEF SnapshotsKept
  <2>4. LinkReading(w)'
    <3>1. LinksLeadFrom(mem[w].doc.scenario, mem[w].r, mem[w].doc.outcomes)'
      BY <2>1, <2>3, SearchGoesOn DEF Searching, AltCalls
    <3>2. LeadsTo(mem[w].doc.scenario, mem[w].r, mem[w].o, Derived(w))
      BY <2>1 DEF LinkInv, LinkReading
    <3>3. Derived(w)' = Derived(w) /\ runs' = runs
      BY <1>4, <2>1 DEF Derived, AltSaveValidation
    <3>4. LeadsTo(mem[w].doc.scenario, mem[w].r, mem[w].o, Derived(w))'
      BY <2>1, <2>2, <3>2, <3>3 DEF LeadsTo
    <3> QED BY <2>1, <3>1, <3>4 DEF LinkReading
  <2> QED BY <1>0, <1>4, <2>1, <2>2, <2>3, <2>4, ScenarioLinks
          DEF AltSaveValidation, LinkInv, DerivedSolved, AltCalls
<1> QED BY <1>1, <1>2, <1>3, <1>4

LEMMA PublishLinks ==
  ASSUME Uncontested, TypeInv, TypeInv', GrowthInv, LinkInv, Grows, NEW w \in Workers,
         \/ OutcomeRead(w) \/ OutcomeSave(w) \/ AltClearExplanation(w)
         \/ AltTrace(w) \/ AltTraceDerived(w)
  PROVE  LinkInv'
<1>0. \A c \in AltCalls \cup {"idle"} : c \notin Running
  BY DEF AltCalls, Running, RunCalls
<1>1. CASE OutcomeRead(w)
  <2>1. pc[w] = "alt_lock" /\ mem[w].r \in DOMAIN runs
    BY <1>1, AlternativeReads DEF OutcomeRead, AltCalls
  <2>2. Remember(w, "alt_lock", "alt_outcome", [mem[w] EXCEPT !.doc = runs[mem[w].r]])
    BY <1>1, <2>1 DEF OutcomeRead
  <2>3. pc'[w] = "alt_outcome" /\ OthersStay(w) /\ quota' = quota
        /\ mem'[w] = [mem[w] EXCEPT !.doc = runs[mem[w].r]]
    BY <2>2, WorkerHolds, RememberMoves
  <2>4. mem[w] \in [r : Ids, o : Orders, doc : RunRow, verdict : Verdicts, n : Nat]
    BY <2>1, AlternativeHolds DEF AltCalls
  <2>5. /\ mem'[w].r = mem[w].r /\ mem'[w].o = mem[w].o /\ mem'[w].n = mem[w].n
        /\ mem'[w].doc = runs[mem[w].r] /\ mem[w].doc.scenario = runs[mem[w].r].scenario
    BY <2>1, <2>3, <2>4, AlternativeReads DEF AltCalls
  <2>6. UNCHANGED <<scenarios, runs, seq>>
    BY <1>1 DEF OutcomeRead, tables
  <2>7. LinkReading(w)'
    <3>1. LinksLeadFrom(mem[w].doc.scenario, mem[w].r, mem[w].doc.outcomes)'
      BY <2>1, <2>5, <2>6 DEF LinkInv, LinksLead, LinksLeadFrom, LeadsTo
    <3>2. LeadsTo(mem[w].doc.scenario, mem[w].r, mem[w].o, Derived(w))
      BY <2>1 DEF LinkInv, LinkReading
    <3>3. LeadsTo(mem[w].doc.scenario, mem[w].r, mem[w].o, Derived(w))'
      BY <2>5, <2>6, <3>2 DEF LeadsTo, Derived
    <3> QED BY <2>3, <3>1, <3>3 DEF LinkReading
  <2> QED BY <1>0, <2>3, <2>6, <2>7, QuotaSame, QuietLinks DEF AltCalls
<1>2. CASE OutcomeSave(w)
  <2>1. pc[w] = "alt_outcome" /\ pc[w] \in AltCalls
    BY <1>2 DEF OutcomeSave, AltCalls
  <2>2. /\ Continue(w, "alt_outcome", "alt_clear")
        /\ SaveRun(mem[w].r, [mem[w].doc EXCEPT !.outcomes[mem[w].o] = Available(Derived(w))])
    BY <1>2, <2>1, AlternativeReads DEF OutcomeSave
  <2>3. pc'[w] = "alt_clear" /\ mem'[w] = mem[w] /\ OthersStay(w) /\ quota' = quota
    BY <2>2, WorkerHolds, ContinueMoves
  <2>4. /\ Available(Derived(w)) \in [alternative_state : {"NOT_SEARCHED", "NONE", "AVAILABLE"},
                                      link : Ids \cup {Nothing}]
        /\ Available(Derived(w)).link = Derived(w)
    BY <2>1, AlternativeHolds DEF Available
  <2>5. LeadsTo(mem[w].doc.scenario, mem[w].r, mem[w].o, Derived(w))
    BY <2>1 DEF LinkInv, LinkReading
  <2>6. LinksLead'
    <3> HIDE DEF Derived
    <3> DEFINE outcome == Available(Derived(w))
    <3>1. /\ outcome \in [alternative_state : {"NOT_SEARCHED", "NONE", "AVAILABLE"},
                          link : Ids \cup {Nothing}]
          /\ LeadsTo(mem[w].doc.scenario, mem[w].r, mem[w].o, outcome.link)
          /\ SaveRun(mem[w].r, [mem[w].doc EXCEPT !.outcomes[mem[w].o] = outcome])
          /\ scenarios' = scenarios
      BY <1>2, <2>2, <2>4, <2>5 DEF OutcomeSave
    <3> HIDE DEF outcome
    <3> QED BY <2>1, <3>1, WriteOutcomeLinks
  <2>7. SnapshotsKept(w) /\ scenarios' = scenarios /\ seq' = seq
    BY <1>2 DEF OutcomeSave, SnapshotsKept
  <2>8. LinkReading(w)'
    <3>1. LinksLeadFrom(mem[w].doc.scenario, mem[w].r, mem[w].doc.outcomes)'
      BY <2>1, <2>3, <2>7, SearchGoesOn DEF Searching
    <3> QED BY <2>3, <3>1 DEF LinkReading
  <2>9. DerivedSolved' /\ DerivedNumbered'
    BY <2>3, <2>7, NumberedKept DEF LinkInv, DerivedSolved
  <2> QED BY <1>0, <2>3, <2>6, <2>7, <2>8, <2>9, QuotaSame, LinkStep DEF AltCalls
<1>3. CASE AltClearExplanation(w)
  <2>1. /\ pc[w] = "alt_clear" /\ pc'[w] = "alt_trace" /\ mem'[w] = mem[w]
        /\ OthersStay(w) /\ quota' = quota
    BY <1>3, WorkerHolds, ContinueMoves DEF AltClearExplanation
  <2>2. DOMAIN runs' = DOMAIN runs /\ \A r \in DOMAIN runs : runs'[r].outcomes = runs[r].outcomes
    BY <1>3, WorkerHolds DEF AltClearExplanation, RunsOK, RunRow
  <2>3. SnapshotsKept(w) /\ scenarios' = scenarios /\ seq' = seq
    BY <1>3 DEF AltClearExplanation, SnapshotsKept
  <2>4. LinkReading(w)'
    <3>1. LinksLeadFrom(mem[w].doc.scenario, mem[w].r, mem[w].doc.outcomes)'
      BY <2>1, <2>3, SearchGoesOn DEF Searching, AltCalls
    <3> QED BY <2>1, <3>1 DEF LinkReading
  <2>5. DerivedSolved' /\ DerivedNumbered' /\ LinksLead'
    BY <2>1, <2>2, <2>3, NumberedKept, LinksKept DEF LinkInv, DerivedSolved
  <2> QED BY <1>0, <2>1, <2>3, <2>4, <2>5, QuotaSame, LinkStep DEF AltCalls
<1>4. CASE AltTrace(w) \/ AltTraceDerived(w)
  <2>1. PICK from \in {"alt_trace", "alt_trace_derived"}, to \in {"alt_trace_derived", "idle"} :
          Continue(w, from, to)
    BY <1>4 DEF AltTrace, AltTraceDerived
  <2>2. /\ pc[w] = from /\ pc'[w] = to /\ (to # "idle" => mem'[w] = mem[w])
        /\ OthersStay(w) /\ quota' = quota
    BY <2>1, WorkerHolds, ContinueMoves
  <2>3. UNCHANGED <<scenarios, runs, seq>> /\ SnapshotsKept(w)
    BY <1>4 DEF AltTrace, AltTraceDerived, SnapshotsKept
  <2>4. LinkReading(w)'
    <3>1. CASE to = "idle"
      BY <2>2, <3>1, NothingRead
    <3>2. CASE to # "idle"
      <4>1. LinksLeadFrom(mem[w].doc.scenario, mem[w].r, mem[w].doc.outcomes)'
        BY <2>2, <2>3, <3>2, SearchGoesOn DEF Searching, AltCalls
      <4> QED BY <2>2, <3>2, <4>1 DEF LinkReading
    <3> QED BY <3>1, <3>2
  <2> QED BY <1>0, <2>2, <2>3, <2>4, QuotaSame, QuietLinks DEF AltCalls
<1> QED BY <1>1, <1>2, <1>3, <1>4

\* Decisions and explanations change no outcome and no snapshot.
LEMMA OtherLinks ==
  ASSUME Uncontested, TypeInv, TypeInv', GrowthInv, LinkInv, Grows, NEW w \in Workers,
         DecisionRequest(w) \/ ExplanationRequest(w) \/ Fail(w)
  PROVE  LinkInv'
<1>1. /\ pc'[w] \in {"idle"} \cup DecideCalls \cup ExplainCalls
      /\ OthersStay(w) /\ \A k \in Kinds : quota'[k] <= quota[k]
  <2>1. CASE DecideRead(w)
    BY <2>1, ArriveMoves DEF DecideRead, Kinds, DecideCalls
  <2>2. CASE ExplainRead(w)
    BY <2>2, ArriveMoves DEF ExplainRead, Kinds, ExplainCalls
  <2>3. CASE DecideSave(w) \/ DecideTrace(w)
    BY <2>3, WorkerHolds, ContinueMoves, QuotaSame DEF DecideSave, DecideTrace, DecideCalls
  <2>4. CASE ExplainCheck(w) \/ ExplainSave(w)
    BY <2>4, WorkerHolds, ContinueMoves, QuotaSame DEF ExplainCheck, ExplainSave, ExplainCalls
  <2>5. CASE Fail(w)
    BY <2>5, FailType DEF OthersStay
  <2> QED BY <2>1, <2>2, <2>3, <2>4, <2>5 DEF DecisionRequest, ExplanationRequest
<1>2. scenarios' = scenarios /\ seq' = seq /\ SnapshotsKept(w)
  BY DEF DecisionRequest, DecideRead, DecideSave, DecideTrace, ExplanationRequest, ExplainRead,
         ExplainCheck, ExplainSave, Fail, tables, SnapshotsKept
<1>3. DOMAIN runs' = DOMAIN runs /\ \A r \in DOMAIN runs : runs'[r].outcomes = runs[r].outcomes
  <2>1. CASE ExplainSave(w)
    BY <2>1, WorkerHolds DEF ExplainSave, RunsOK, RunRow
  <2>2. CASE ~ ExplainSave(w)
    <3>1. runs' = runs
      BY <2>2 DEF DecisionRequest, DecideRead, DecideSave, DecideTrace, ExplanationRequest,
                  ExplainRead, ExplainCheck, Fail, tables
    <3> QED BY <3>1
  <2> QED BY <2>1, <2>2
<1>4. LinkReading(w)' /\ pc'[w] # "alt_scenario" /\ pc'[w] \notin Running
  BY <1>1, NothingRead DEF Running, RunCalls, DecideCalls, ExplainCalls
<1>5. DerivedSolved' /\ DerivedNumbered' /\ LinksLead'
  BY <1>1, <1>2, <1>3, <1>4, NumberedKept, LinksKept DEF LinkInv, DerivedSolved
<1> QED BY <1>1, <1>2, <1>4, <1>5, LinkStep

\* A clearing of the explanation that failed leaves the search where one
\* that did not would, and so does a reading of it.
LEMMA TolerateLinks ==
  ASSUME Uncontested, TypeInv, TypeInv', GrowthInv, LinkInv, Grows, NEW w \in Workers, Tolerate(w)
  PROVE  LinkInv'
<1>1. /\ mem'[w] = mem[w] /\ OthersStay(w) /\ \A k \in Kinds : quota'[k] <= quota[k]
      /\ \/ pc[w] = "alt_clear" /\ pc'[w] = "alt_trace"
         \/ pc[w] = "explain_check" /\ pc'[w] = "explain_save"
  BY TolerateType DEF OthersStay
<1>2. UNCHANGED <<scenarios, runs, seq>> /\ SnapshotsKept(w)
  BY DEF Tolerate, tables, SnapshotsKept
<1>3. LinkReading(w)'
  <2>1. CASE pc'[w] = "explain_save"
    BY <2>1, NothingRead DEF ExplainCalls
  <2>2. CASE pc'[w] = "alt_trace"
    <3>1. LinksLeadFrom(mem[w].doc.scenario, mem[w].r, mem[w].doc.outcomes)'
      BY <1>1, <1>2, <2>2, SearchGoesOn DEF Searching, AltCalls
    <3> QED BY <1>1, <2>2, <3>1 DEF LinkReading
  <2> QED BY <1>1, <2>1, <2>2
<1> QED BY <1>1, <1>2, <1>3, QuietLinks DEF Running, RunCalls

LEMMA RestartLinks ==
  ASSUME Uncontested, TypeInv, TypeInv', GrowthInv, LinkInv, Restart
  PROVE  LinkInv'
<1>1. \A w \in Workers : pc'[w] = "idle"
  BY RestartType
<1>2. UNCHANGED <<scenarios, runs>>
  BY DEF Restart, tables
<1>3. RequestsLeft' /\ Quota["crash"] # 0
  <2>1. /\ quota["crash"] \in Nat /\ quota["run"] \in Nat
        /\ quota'["crash"] \in Nat /\ quota'["run"] \in Nat
        /\ Quota["crash"] \in Nat /\ Quota["run"] \in Nat
    BY QuotaIsBounded DEF TypeInv, TypeOK, Kinds
  <2>2. quota["crash"] > 0 /\ quota'["crash"] <= quota["crash"] /\ quota'["run"] <= quota["run"]
    BY RestartType DEF Restart, Kinds
  <2> QED BY <1>1, <2>1, <2>2 DEF LinkInv, RequestsLeft, Running, RunCalls
<1>4. \A w \in Workers : LinkReading(w)'
  BY <1>1, NothingRead
<1>5. DerivedSolved' /\ LinksLead' /\ DerivedNumbered'
  BY <1>2, <1>3 DEF LinkInv, DerivedSolved, LinksLead, LinksLeadFrom, LeadsTo, DerivedNumbered
<1> QED BY <1>3, <1>4, <1>5 DEF LinkInv

LEMMA InitLinks == Init => LinkInv
<1> SUFFICES ASSUME Init PROVE LinkInv
  OBVIOUS
<1>1. \A w \in Workers : LinkReading(w)
  BY DEF Init, LinkReading, Searching, AltCalls
<1>2. RequestsLeft
  BY QuotaIsBounded DEF Init, RequestsLeft, Running, RunCalls, Kinds
<1>3. DerivedSolved /\ DerivedNumbered
  BY DEF Init, DerivedSolved, DerivedNumbered, First
<1>4. LinksLead
  BY DEF Init, LinksLead, LinksLeadFrom, NotSearched
<1> QED BY <1>1, <1>2, <1>3, <1>4 DEF LinkInv

LEMMA StepLinks ==
  ASSUME Uncontested, TypeInv, GrowthInv, LinkInv, [Next]_vars
  PROVE  LinkInv'
<1>1. TypeInv' /\ Grows /\ GrowthInv'
  BY StepTypes, StepGrows DEF Uncontested, Undisturbed
<1>2. ASSUME NEW w \in Workers, Work(w) \/ Fail(w)
      PROVE  LinkInv'
  BY <1>1, <1>2, CreateLinks, ValidateLinks, RunLinks, SearchStartLinks, SearchSaveLinks,
     PublishLinks, OtherLinks, NoDeletion DEF Work, AlternativeRequest
<1>3. CASE UNCHANGED vars
  <2>1. RequestsLeft' /\ DerivedSolved' /\ DerivedNumbered'
    BY <1>3 DEF vars, LinkInv, RequestsLeft, DerivedSolved, DerivedNumbered, Derived
  <2>2. LinksLead'
    BY <1>3 DEF vars, LinkInv, LinksLead, LinksLeadFrom, LeadsTo
  <2>3. ASSUME NEW w \in Workers
        PROVE  LinkReading(w)'
    <3>1. LinkReading(w)
      BY DEF LinkInv
    <3> QED BY <1>3, <3>1 DEF vars, LinkReading, LinksLeadFrom, LeadsTo, Derived
  <2> QED BY <2>1, <2>2, <2>3 DEF LinkInv
<1> QED BY <1>1, <1>2, <1>3, TolerateLinks, RestartLinks DEF Next

\* An order's link leads to the stored scenario and run that were derived for
\* it, however searches, runs, validations and failures interleave
\* (runs.py:153-172): where the process does not crash, or where no baseline
\* run is requested.  With both, a cut off search and a run of the scenario
\* it leaves can undo the snapshot a link was published for.
THEOREM LinksStand ==
  ASSUME Uncontested
  PROVE  Spec => []LinkLeadsToDerivedRun
<1>1. Undisturbed
  BY DEF Uncontested
<1>2. Init => LinkInv
  BY InitLinks
<1>3. (TypeInv /\ GrowthInv) /\ LinkInv /\ [Next]_vars => LinkInv'
  BY StepLinks
<1>4. LinkInv => LinkLeadsToDerivedRun
  BY DEF LinkInv, LinksLead, LinksLeadFrom, LeadsTo, LinkLeadsToDerivedRun
<1> QED BY <1>1, <1>2, <1>3, <1>4, TablesGrow, PTL DEF Spec

-----------------------------------------------------------------------------
(* The outcomes of a run are written under the lock. *)

\* Every step but the two that record an outcome leaves outcomes and the
\* lock alone, and none of them reaches the write.
Unrecording(w) ==
  /\ \A r \in DOMAIN runs : runs'[r].outcomes = runs[r].outcomes
  /\ lock' = lock \/ (lock = w /\ pc'[w] = "idle")
  /\ OthersStay(w) /\ pc'[w] \notin {"alt_none", "alt_outcome"}

LEMMA RequestsUnrecording ==
  ASSUME TypeInv, NEW w \in Workers,
         \/ CreateRequest(w) \/ ValidateRequest(w) \/ DecisionRequest(w) \/ ExplanationRequest(w)
         \/ Fail(w) \/ Tolerate(w)
  PROVE  Unrecording(w)
<1>1. CASE CreateRequest(w)
  <2>1. runs' = runs /\ lock' = lock
    BY <1>1 DEF CreateRequest, CreateNumber, CreateSave, CreateTrace, tables
  <2>2. OthersStay(w) /\ pc'[w] \in {"create_save", "create_trace", "idle"}
    <3>1. CASE CreateNumber(w)
      BY <3>1, ArriveMoves DEF CreateNumber, Kinds
    <3>2. CASE CreateSave(w) \/ CreateTrace(w)
      BY <3>2, WorkerHolds, ContinueMoves DEF CreateSave, CreateTrace
    <3> QED BY <1>1, <3>1, <3>2 DEF CreateRequest
  <2> QED BY <2>1, <2>2 DEF Unrecording
<1>2. CASE ValidateRequest(w)
  <2>1. runs' = runs /\ lock' = lock
    BY <1>2 DEF ValidateRequest, ValidateRead, ValidateSave, ValidateStateRead, StateRead,
                ValidateStateSave, StateSave, ValidateTrace, tables
  <2>2. OthersStay(w) /\ pc'[w] \in ValidateCalls \cup {"idle"}
    <3>1. CASE ValidateRead(w)
      <4>1. PICK read : Arrive(w, "validate", "validate_save", read)
        BY <3>1 DEF ValidateRead
      <4> QED BY <4>1, ArriveMoves DEF Kinds, ValidateCalls
    <3>2. CASE ValidateSave(w)
      <4>1. PICK to \in {"validate_get", "validate_trace"} : Continue(w, "validate_save", to)
        BY <3>2 DEF ValidateSave
      <4> QED BY <4>1, WorkerHolds, ContinueMoves DEF ValidateCalls
    <3>3. CASE ValidateStateRead(w)
      BY <3>3, WorkerHolds, ContinueMoves, RememberMoves
         DEF ValidateStateRead, StateRead, ValidateCalls
    <3>4. CASE ValidateStateSave(w) \/ ValidateTrace(w)
      BY <3>4, WorkerHolds, ContinueMoves
         DEF ValidateStateSave, StateSave, ValidateTrace, ValidateCalls
    <3> QED BY <1>2, <3>1, <3>2, <3>3, <3>4 DEF ValidateRequest
  <2> QED BY <2>1, <2>2 DEF Unrecording, ValidateCalls
<1>3. CASE DecisionRequest(w)
  <2>1. runs' = runs /\ lock' = lock
    BY <1>3 DEF DecisionRequest, DecideRead, DecideSave, DecideTrace, tables
  <2>2. OthersStay(w) /\ pc'[w] \in DecideCalls \cup {"idle"}
    <3>1. CASE DecideRead(w)
      <4>1. PICK read : Arrive(w, "decide", "decide_save", read)
        BY <3>1 DEF DecideRead
      <4> QED BY <4>1, ArriveMoves DEF Kinds, DecideCalls
    <3>2. CASE DecideSave(w) \/ DecideTrace(w)
      BY <3>2, WorkerHolds, ContinueMoves DEF DecideSave, DecideTrace, DecideCalls
    <3> QED BY <1>3, <3>1, <3>2 DEF DecisionRequest
  <2> QED BY <2>1, <2>2 DEF Unrecording, DecideCalls
<1>4. CASE ExplanationRequest(w)
  <2>1. lock' = lock
    BY <1>4 DEF ExplanationRequest, ExplainRead, ExplainCheck, ExplainSave
  <2>2. \A r \in DOMAIN runs : runs'[r].outcomes = runs[r].outcomes
    <3>1. CASE ExplainSave(w)
      BY <3>1, WorkerHolds DEF ExplainSave, RunsOK, RunRow
    <3>2. CASE ExplainRead(w) \/ ExplainCheck(w)
      <4>1. runs' = runs
        BY <3>2 DEF ExplainRead, ExplainCheck, tables
      <4> QED BY <4>1
    <3> QED BY <1>4, <3>1, <3>2 DEF ExplanationRequest
  <2>3. OthersStay(w) /\ pc'[w] \in ExplainCalls \cup {"idle"}
    <3>1. CASE ExplainRead(w)
      <4>1. PICK read : Arrive(w, "explain", "explain_check", read)
        BY <3>1 DEF ExplainRead
      <4> QED BY <4>1, ArriveMoves DEF Kinds, ExplainCalls
    <3>2. CASE ExplainCheck(w)
      <4>1. PICK to \in {"idle", "explain_save"} : Continue(w, "explain_check", to)
        BY <3>2 DEF ExplainCheck
      <4> QED BY <4>1, WorkerHolds, ContinueMoves DEF ExplainCalls
    <3>3. CASE ExplainSave(w)
      BY <3>3, WorkerHolds, ContinueMoves DEF ExplainSave
    <3> QED BY <1>4, <3>1, <3>2, <3>3 DEF ExplanationRequest
  <2> QED BY <2>1, <2>2, <2>3 DEF Unrecording, ExplainCalls
<1>5. CASE Fail(w)
  <2>1. pc'[w] = "idle" /\ OthersStay(w) /\ runs' = runs
    BY <1>5, FailType DEF Fail, tables, OthersStay
  <2>2. lock' = lock \/ lock = w
    BY <1>5 DEF Fail
  <2> QED BY <2>1, <2>2 DEF Unrecording
<1>6. CASE Tolerate(w)
  <2>1. pc'[w] \in {"alt_trace", "explain_save"} /\ OthersStay(w)
    BY <1>6, TolerateType DEF OthersStay
  <2> QED BY <1>6, <2>1 DEF Tolerate, tables, Unrecording
<1> QED BY <1>1, <1>2, <1>3, <1>4, <1>5, <1>6

\* A stored run is a new row.
LEMMA RunUnrecording ==
  ASSUME TypeInv, GrowthInv, NEW w \in Workers, RunRequest(w)
  PROVE  Unrecording(w)
<1>1. lock' = lock
  BY DEF RunRequest, RunRead, RunRefused, RunSolve, RunSave, RunStateRead, StateRead,
         RunStateSave, StateSave, RunTrace
<1>2. OthersStay(w) /\ pc'[w] \in {"idle", "run_number"} \cup RunCalls
  <2>1. CASE RunRead(w)
    BY <2>1, ArriveMoves DEF RunRead, Kinds
  <2>2. CASE RunSolve(w)
    BY <2>2, WorkerHolds, ContinueMoves, RememberMoves DEF RunSolve, RunCalls
  <2>3. CASE RunSave(w)
    BY <2>3, WorkerHolds, ContinueMoves DEF RunSave, RunCalls
  <2>4. CASE RunStateRead(w)
    BY <2>4, WorkerHolds, ContinueMoves, RememberMoves DEF RunStateRead, StateRead, RunCalls
  <2>5. CASE RunRefused(w) \/ RunStateSave(w) \/ RunTrace(w)
    BY <2>5, WorkerHolds, ContinueMoves DEF RunRefused, RunStateSave, StateSave, RunTrace, RunCalls
  <2> QED BY <2>1, <2>2, <2>3, <2>4, <2>5 DEF RunRequest
<1>3. \A r \in DOMAIN runs : runs'[r] = runs[r]
  <2>1. CASE RunSave(w)
    <3>1. mem[w].r \notin DOMAIN runs
      BY <2>1 DEF RunSave, GrowthInv, HeldRunsFree, HoldsRun, HeldRun
    <3> QED BY <2>1, <3>1 DEF RunSave, SaveRun, Upsert
  <2>2. CASE ~ RunSave(w)
    BY <2>2 DEF RunRequest, RunRead, RunRefused, RunSolve, RunStateRead, StateRead,
                RunStateSave, StateSave, RunTrace, tables
  <2> QED BY <2>1, <2>2
<1> QED BY <1>1, <1>2, <1>3 DEF Unrecording, RunCalls

LEMMA SearchUnrecording ==
  ASSUME TypeInv, GrowthInv, "NONE" \notin Verdicts, NEW w \in Workers, UnderLock(w),
         AlternativeRequest(w), ~ OutcomeRead(w), ~ OutcomeSave(w)
  PROVE  Unrecording(w)
<1>0. ~ AltNone(w)
  BY DEF AltNone, UnderLock
<1>1. lock' = lock
  BY <1>0 DEF AlternativeRequest, AltRead, AltNoScenario, AltSearch, AltSaveScenario, AltSaveRun,
              AltSaveValidation, AltClearExplanation, AltTrace, AltTraceDerived
<1>2. OthersStay(w) /\ pc'[w] \notin {"alt_none", "alt_outcome"}
  <2>1. CASE AltRead(w)
    BY <2>1, ArriveMoves DEF AltRead, Kinds
  <2>2. CASE AltSearch(w)
    <3>1. CASE Continue(w, "alt_search", "idle")
      BY <3>1, WorkerHolds, ContinueMoves
    <3>2. CASE ~ Continue(w, "alt_search", "idle")
      <4>1. PICK verdict \in Verdicts :
              \E read : Remember(w, "alt_search",
                                 IF verdict = "NONE" THEN "alt_none" ELSE "alt_scenario", read)
        BY <2>2, <3>2 DEF AltSearch
      <4>2. PICK read : Remember(w, "alt_search", "alt_scenario", read)
        BY <4>1
      <4> QED BY <4>2, WorkerHolds, RememberMoves
    <3> QED BY <3>1, <3>2
  <2>3. CASE AltTrace(w)
    <3>1. PICK to \in {"alt_trace_derived", "idle"} : Continue(w, "alt_trace", to)
      BY <2>3 DEF AltTrace
    <3> QED BY <3>1, WorkerHolds, ContinueMoves
  <2>4. CASE AltNoScenario(w) \/ AltSaveScenario(w) \/ AltSaveRun(w) \/ AltSaveValidation(w)
             \/ AltClearExplanation(w) \/ AltTraceDerived(w)
    BY <2>4, WorkerHolds, ContinueMoves
       DEF AltNoScenario, AltSaveScenario, AltSaveRun, AltSaveValidation, AltClearExplanation,
           AltTraceDerived
  <2> QED BY <1>0, <2>1, <2>2, <2>3, <2>4 DEF AlternativeRequest
<1>3. \A r \in DOMAIN runs : runs'[r].outcomes = runs[r].outcomes
  <2>1. CASE AltSaveRun(w)
    <3>1. Derived(w) \notin DOMAIN runs
      BY <2>1, OwnNumber DEF AltSaveRun
    <3> QED BY <2>1, <3>1 DEF AltSaveRun, SaveRun, Upsert
  <2>2. CASE AltClearExplanation(w)
    BY <2>2, WorkerHolds DEF AltClearExplanation, RunsOK, RunRow
  <2>3. CASE ~ AltSaveRun(w) /\ ~ AltClearExplanation(w)
    <3>1. runs' = runs
      BY <1>0, <2>3 DEF AlternativeRequest, AltRead, AltNoScenario, AltSearch, AltSaveScenario,
                        AltSaveValidation, AltTrace, AltTraceDerived, tables
    <3> QED BY <3>1
  <2> QED BY <2>1, <2>2, <2>3
<1> QED BY <1>1, <1>2, <1>3 DEF Unrecording

\* The write under the lock changes the one outcome it is about.
LEMMA OutcomeWritten ==
  ASSUME TypeInv, GrowthInv, NEW w \in Workers, UnderLock(w), OutcomeSave(w)
  PROVE  /\ OthersStay(w) /\ pc[w] = "alt_outcome" /\ pc'[w] = "alt_clear"
         /\ lock = w /\ lock' = Nobody
         /\ \A r \in DOMAIN runs : r # mem[w].r => runs'[r] = runs[r]
         /\ \A o \in Orders \ {mem[w].o} :
              runs'[mem[w].r].outcomes[o] = runs[mem[w].r].outcomes[o]
<1>1. pc[w] = "alt_outcome" /\ pc[w] \in AltCalls
  BY DEF OutcomeSave, AltCalls
<1>2. /\ Continue(w, "alt_outcome", "alt_clear")
      /\ SaveRun(mem[w].r, [mem[w].doc EXCEPT !.outcomes[mem[w].o] = Available(Derived(w))])
  BY <1>1, AlternativeReads DEF OutcomeSave
<1>3. pc'[w] = "alt_clear" /\ OthersStay(w)
  BY <1>2, WorkerHolds, ContinueMoves
<1>4. lock = w /\ lock' = Nobody /\ mem[w].doc.outcomes = runs[mem[w].r].outcomes
  BY <1>1 DEF UnderLock, OutcomeSave
<1> DEFINE outcome == Available(Derived(w))
<1>5. outcome \in [alternative_state : {"NOT_SEARCHED", "NONE", "AVAILABLE"},
                   link : Ids \cup {Nothing}]
  BY <1>1, AlternativeHolds DEF Available
<1> HIDE DEF outcome
<1>6. /\ \A q \in DOMAIN runs : q # mem[w].r => runs'[q] = runs[q]
      /\ runs'[mem[w].r] =
           [scenario |-> mem[w].doc.scenario, status |-> mem[w].doc.status,
            parent |-> mem[w].doc.parent,
            outcomes |-> [mem[w].doc.outcomes EXCEPT ![mem[w].o] = outcome],
            explanation |-> IF mem[w].r \in DOMAIN runs
                            THEN runs[mem[w].r].explanation ELSE Nothing]
  BY <1>1, <1>2, <1>5, WriteOutcomeType DEF outcome
<1>7. runs'[mem[w].r].outcomes = [mem[w].doc.outcomes EXCEPT ![mem[w].o] = outcome]
  BY <1>6
<1>8. mem[w].doc.outcomes \in Outcomes
  BY <1>1, AlternativeHolds DEF RunRow
<1>9. \A o \in Orders \ {mem[w].o} :
        runs'[mem[w].r].outcomes[o] = runs[mem[w].r].outcomes[o]
  BY <1>4, <1>7, <1>8 DEF Outcomes
<1> QED BY <1>1, <1>3, <1>4, <1>6, <1>9

\* What the two steps that record outcomes may do, seen by the others.
LEMMA StepUnderLock ==
  ASSUME ~ ScanMayFail, TypeInv, GrowthInv, LockInv, "NONE" \notin Verdicts,
         NEW w \in Workers, Work(w) \/ Fail(w) \/ Tolerate(w)
  PROVE  Unrecording(w) \/ OutcomeRead(w) \/ OutcomeSave(w)
<1>1. UnderLock(w) /\ ~ DeleteRequest(w)
  BY NoDeletion DEF LockInv
<1> QED BY <1>1, RequestsUnrecording, RunUnrecording, SearchUnrecording DEF Work

LEMMA StepKeepsLock ==
  ASSUME ~ ScanMayFail, TypeInv, GrowthInv, LockInv, "NONE" \notin Verdicts,
         NEW w \in Workers, Work(w) \/ Fail(w) \/ Tolerate(w)
  PROVE  LockInv'
<1>1. \A v \in Workers : v # Nobody
  BY ConstantsAssumption
<1>2. \A v \in Workers : /\ pc[v] # "alt_none"
                         /\ pc[v] = "alt_outcome" =>
                              /\ lock = v /\ mem[v].r \in DOMAIN runs
                              /\ mem[v].doc.outcomes = runs[mem[v].r].outcomes
  BY AlternativeReads DEF LockInv, UnderLock, AltCalls
<1>3. CASE Unrecording(w)
  BY <1>2, <1>3 DEF Unrecording, OthersStay, LockInv, UnderLock
<1>4. CASE OutcomeRead(w)
  <2>1. pc[w] = "alt_lock" /\ lock = Nobody /\ mem[w].r \in DOMAIN runs
    BY <1>4, AlternativeReads DEF OutcomeRead, AltCalls
  <2>2. Remember(w, "alt_lock", "alt_outcome", [mem[w] EXCEPT !.doc = runs[mem[w].r]]) /\ lock' = w
    BY <1>4, <2>1 DEF OutcomeRead
  <2>3. pc'[w] = "alt_outcome" /\ OthersStay(w)
        /\ mem'[w] = [mem[w] EXCEPT !.doc = runs[mem[w].r]]
    BY <2>2, WorkerHolds, RememberMoves
  <2>4. mem[w] \in [r : Ids, o : Orders, doc : RunRow, verdict : Verdicts, n : Nat]
    BY <2>1, AlternativeHolds DEF AltCalls
  <2>5. mem'[w].r = mem[w].r /\ mem'[w].doc = runs[mem[w].r] /\ runs' = runs
    BY <1>4, <2>3, <2>4 DEF OutcomeRead, tables
  <2>6. \A v \in Workers \ {w} : pc[v] # "alt_outcome"
    BY <1>1, <1>2, <2>1
  <2>7. \A v \in Workers \ {w} : UnderLock(v)'
    BY <1>2, <2>3, <2>6 DEF OthersStay, UnderLock
  <2>8. UnderLock(w)'
    BY <2>2, <2>3, <2>5 DEF UnderLock
  <2> QED BY <2>7, <2>8 DEF LockInv
<1>5. CASE OutcomeSave(w)
  <2>1. /\ OthersStay(w) /\ pc[w] = "alt_outcome" /\ pc'[w] = "alt_clear" /\ lock = w
    BY <1>5, OutcomeWritten DEF LockInv
  <2>2. \A v \in Workers \ {w} : pc[v] # "alt_outcome"
    BY <1>2, <2>1
  <2> QED BY <1>2, <2>1, <2>2 DEF OthersStay, LockInv, UnderLock
<1> QED BY <1>3, <1>4, <1>5, StepUnderLock

AlternativeKept(r, o) ==
  \/ runs'[r].outcomes[o] = runs[r].outcomes[o]
  \/ \E w \in Workers : /\ pc[w] \in {"alt_none", "alt_outcome"}
                        /\ pc'[w] # pc[w] /\ mem[w].r = r /\ mem[w].o = o

LEMMA StepKeepsAlternatives ==
  ASSUME ~ ScanMayFail, TypeInv, GrowthInv, LockInv, "NONE" \notin Verdicts, [Next]_vars
  PROVE  LockInv' /\ \A r \in DOMAIN runs : \A o \in Orders : AlternativeKept(r, o)
<1>1. ASSUME NEW w \in Workers, Work(w) \/ Fail(w) \/ Tolerate(w)
      PROVE  LockInv' /\ \A r \in DOMAIN runs : \A o \in Orders : AlternativeKept(r, o)
  <2>1. LockInv'
    BY <1>1, StepKeepsLock
  <2>2. CASE Unrecording(w)
    BY <2>1, <2>2 DEF Unrecording, AlternativeKept
  <2>3. CASE OutcomeRead(w)
    BY <2>1, <2>3 DEF OutcomeRead, tables, AlternativeKept
  <2>4. CASE OutcomeSave(w)
    <3>1. /\ pc[w] = "alt_outcome" /\ pc'[w] # pc[w]
          /\ \A r \in DOMAIN runs : r # mem[w].r => runs'[r] = runs[r]
          /\ \A o \in Orders \ {mem[w].o} :
               runs'[mem[w].r].outcomes[o] = runs[mem[w].r].outcomes[o]
      BY <2>4, OutcomeWritten DEF LockInv
    <3> QED BY <2>1, <3>1 DEF AlternativeKept
  <2> QED BY <1>1, <2>2, <2>3, <2>4, StepUnderLock
<1>2. CASE Restart
  <2>1. \A w \in Workers : pc'[w] = "idle"
    BY <1>2, RestartType
  <2>2. runs' = runs
    BY <1>2 DEF Restart, tables
  <2> QED BY <2>1, <2>2 DEF LockInv, UnderLock, AlternativeKept
<1>3. CASE UNCHANGED vars
  BY <1>3 DEF vars, LockInv, UnderLock, AlternativeKept
<1> QED BY <1>1, <1>2, <1>3 DEF Next

\* Recording one order's alternative never reverts another's, however many
\* searches record at once: the lock is held from the re-read to the write
\* (storage.py:114-121).  A search that finds nothing writes outside the
\* lock and can (the lost update the run lost_update shows), so this is
\* claimed of searches that find one.
THEOREM AlternativesStand ==
  ASSUME Undisturbed, "NONE" \notin Verdicts
  PROVE  Spec => AlternativesKept
<1>1. Init => LockInv
  BY DEF Init, LockInv, UnderLock
<1>2. ~ ScanMayFail
  BY DEF Undisturbed
<1>3. (TypeInv /\ GrowthInv) /\ LockInv /\ [Next]_vars => LockInv'
  BY <1>2, StepKeepsAlternatives
<1>4. (TypeInv /\ GrowthInv) /\ LockInv /\ [Next]_vars =>
        [\A r \in DOMAIN runs \cap DOMAIN runs' : \A o \in Orders :
           \/ runs[r].outcomes[o].alternative_state # "AVAILABLE"
           \/ runs'[r].outcomes[o] = runs[r].outcomes[o]
           \/ \E w \in Workers : /\ pc[w] \in {"alt_none", "alt_outcome"}
                                /\ pc'[w] # pc[w] /\ mem[w].r = r /\ mem[w].o = o]_vars
  BY <1>2, StepKeepsAlternatives DEF AlternativeKept
<1> QED BY <1>1, <1>3, <1>4, TablesGrow, PTL DEF Spec, AlternativesKept

-----------------------------------------------------------------------------
(***************************************************************************)
(* One client that does one thing after another: nothing happens between   *)
(* the calls of a handler, but the process may end and a statement fail    *)
(* between any two of them.                                                *)
(***************************************************************************)
Sole == \A v, w \in Workers : v = w

Moving == {"validate_save", "validate_get", "validate_put"}
OnScenario == ValidateCalls \cup {"run_number"} \cup RunCalls
OnDerived == {"alt_run", "alt_validation", "alt_lock", "alt_outcome", "alt_clear", "alt_trace_derived"}

\* What the tables refer to is there.
References ==
  /\ \A e \in trace : e.scenario \in DOMAIN scenarios
  /\ \A r \in DOMAIN runs : runs[r].scenario \in DOMAIN scenarios
  /\ \A d \in decisions : d.run \in DOMAIN runs

\* What a handler has read is still so.
SoleReading(w) ==
  /\ pc[w] \in {"create_trace"} \cup OnScenario \cup DecideCalls => mem[w].s \in DOMAIN scenarios
  /\ pc[w] \in OnScenario => /\ mem[w].doc.input = scenarios[mem[w].s].input
                             /\ mem[w].doc.parent = scenarios[mem[w].s].parent
  /\ pc[w] \in Moving => mem[w].doc.state = scenarios[mem[w].s].state
  /\ pc[w] \in {"validate_get", "validate_put"} => mem[w].doc.state = "VALIDATION_REQUIRED"
  /\ pc[w] \in Searching => mem[w].doc.scenario \in DOMAIN scenarios
  /\ pc[w] = "alt_none" => mem[w].verdict = "NONE"
  /\ pc[w] \in OnDerived \/ (pc[w] = "alt_trace" /\ mem[w].verdict = "FOUND") =>
       Derived(w) \in DOMAIN scenarios
  /\ pc[w] \in DeleteCalls => ChildrenOf(mem[w].s) = {}
  /\ pc[w] = "delete_row" => \A e \in trace : e.scenario # mem[w].s

SoleInv == References /\ \A w \in Workers : SoleReading(w)

\* A created scenario's number is new, as long as no scan fails ...
CreationNumbered ==
  /\ seq["scenario"] # Unread =>
       \A s \in DOMAIN scenarios : s[1] = "BASE" => s[2] <= seq["scenario"]
  /\ \A w \in Workers : pc[w] = "create_save" =>
       /\ mem[w].s[1] = "BASE" /\ mem[w].s \notin DOMAIN scenarios
       /\ seq["scenario"] # Unread /\ mem[w].s[2] <= seq["scenario"]

\* ... and a derived one's, as long as the process does not end either.
DerivationNumbered ==
  /\ \A s \in DOMAIN scenarios : s[1] = "ALT" =>
       seq["alternative"] # Unread /\ s[2] <= seq["alternative"]
  /\ \A w \in Workers : pc[w] = "alt_scenario" =>
       /\ Derived(w) \notin DOMAIN scenarios
       /\ seq["alternative"] # Unread /\ mem[w].n <= seq["alternative"]

\* An explanation is the run's outcomes until the handler that changed them
\* clears it; a handler that works on a run finds it there.
Explained ==
  /\ \A r \in DOMAIN runs :
       \/ runs[r].explanation \in {Nothing, runs[r].outcomes}
       \/ \E w \in Workers : pc[w] = "alt_clear" /\ mem[w].r = r
  /\ \A w \in Workers : pc[w] \in ExplainCalls \cup Searching => mem[w].r \in DOMAIN runs
  /\ \A w \in Workers : pc[w] \in ExplainCalls => mem[w].outcomes = runs[mem[w].r].outcomes

LEMMA SoleStep ==
  ASSUME Sole, NEW w \in Workers, References', SoleReading(w)'
  PROVE  SoleInv'
<1>1. \A v \in Workers : v = w
  BY DEF Sole
<1> QED BY <1>1 DEF SoleInv

LEMMA SoleIdle == ASSUME NEW w, pc'[w] = "idle" PROVE SoleReading(w)'
BY DEF SoleReading, OnScenario, Moving, Searching, OnDerived, ValidateCalls, RunCalls, AltCalls,
       DecideCalls, DeleteCalls

LEMMA ReferencesKept ==
  ASSUME References, UNCHANGED <<runs, decisions, trace>>,
         DOMAIN scenarios \subseteq DOMAIN scenarios'
  PROVE  References'
BY DEF References

LEMMA TracedKept ==
  ASSUME References, UNCHANGED <<scenarios, runs, decisions>>, NEW s \in DOMAIN scenarios, NEW event,
         Trace(s, event)
  PROVE  References'
BY DEF References, Trace

\* The handlers' paths share no call.
LEMMA Paths ==
  /\ \A c \in CreateCalls : c \notin OnScenario \cup Searching \cup DecideCalls \cup DeleteCalls
  /\ \A c \in OnScenario : c \notin CreateCalls \cup Searching \cup DecideCalls \cup DeleteCalls
  /\ \A c \in Searching : c \notin CreateCalls \cup OnScenario \cup DecideCalls \cup DeleteCalls
  /\ \A c \in DecideCalls : c \notin CreateCalls \cup OnScenario \cup Searching \cup DeleteCalls
  /\ \A c \in ExplainCalls :
       c \notin CreateCalls \cup OnScenario \cup Searching \cup DecideCalls \cup DeleteCalls
  /\ \A c \in DeleteCalls : c \notin CreateCalls \cup OnScenario \cup Searching \cup DecideCalls
  /\ Moving \subseteq OnScenario /\ OnDerived \subseteq Searching
BY DEF CreateCalls, OnScenario, Searching, DecideCalls, ExplainCalls, DeleteCalls, Moving, OnDerived,
       ValidateCalls, RunCalls, AltCalls

LEMMA SoleCreate ==
  ASSUME Sole, TypeInv, SoleInv, NEW w \in Workers, CreateRequest(w)
  PROVE  SoleInv'
<1> USE DEF CreateCalls
<1>1. CASE CreateNumber(w)
  <2>1. PICK candidates \in BOOLEAN, parent \in {Nothing} \cup Nameable :
          Arrive(w, "create", "create_save",
            [s |-> <<"BASE", seq'["scenario"]>>,
             doc |-> [state |-> "VALIDATION_REQUIRED", parent |-> parent,
                      input |-> [candidates |-> candidates, changed |-> Nothing]]])
    BY <1>1 DEF CreateNumber
  <2>2. pc'[w] = "create_save"
    BY <2>1, ArriveMoves DEF Kinds
  <2>3. UNCHANGED tables
    BY <1>1 DEF CreateNumber
  <2>4. References'
    BY <2>3 DEF tables, SoleInv, References
  <2>5. SoleReading(w)'
    BY <2>2, <2>3, Paths DEF SoleReading, tables
  <2> QED BY <2>4, <2>5, SoleStep
<1>2. CASE CreateSave(w)
  <2>1. pc[w] = "create_save" /\ pc'[w] = "create_trace" /\ mem'[w] = mem[w]
    BY <1>2, WorkerHolds, ContinueMoves DEF CreateSave
  <2>2. DOMAIN scenarios' = DOMAIN scenarios \cup {mem[w].s}
    BY <1>2 DEF CreateSave, SaveScenario, Upsert
  <2>3. References'
    BY <1>2, <2>2, ReferencesKept DEF CreateSave, SoleInv
  <2>4. SoleReading(w)'
    BY <2>1, <2>2, Paths DEF SoleReading
  <2> QED BY <2>3, <2>4, SoleStep
<1>3. CASE CreateTrace(w)
  <2>1. pc[w] = "create_trace" /\ pc'[w] = "idle"
    BY <1>3, WorkerHolds, ContinueMoves DEF CreateTrace
  <2>2. mem[w].s \in DOMAIN scenarios
    BY <2>1 DEF SoleInv, SoleReading
  <2>3. References'
    BY <1>3, <2>2, TracedKept DEF CreateTrace, SoleInv
  <2> QED BY <2>1, <2>3, SoleIdle, SoleStep
<1> QED BY <1>1, <1>2, <1>3 DEF CreateRequest

\* update_scenario_state reads what is stored ...
LEMMA SoleStateRead ==
  ASSUME Sole, TypeInv, SoleInv, NEW w \in Workers, NEW from \in {"validate_get", "run_get"}, NEW save, NEW after,
         StateRead(w, from, save, after), save \in {"validate_put", "run_put"},
         (save = "validate_put") <=> (from = "validate_get")
  PROVE  SoleInv'
<1>1. pc[w] = from
  BY DEF StateRead
<1>2. mem[w].s \in DOMAIN scenarios /\ pc[w] \in OnScenario
  BY <1>1 DEF SoleInv, SoleReading, OnScenario, ValidateCalls, RunCalls
<1>3. Remember(w, from, save, [mem[w] EXCEPT !.doc = scenarios[mem[w].s]]) /\ UNCHANGED tables
  BY <1>2 DEF StateRead
<1>4. pc'[w] = save /\ mem'[w] = [mem[w] EXCEPT !.doc = scenarios[mem[w].s]]
  BY <1>3, WorkerHolds, RememberMoves
<1>5. \/ mem[w] \in [s : Ids, doc : ScenarioRow]
      \/ mem[w] \in [s : Ids, doc : ScenarioRow, r : Ids, status : {"OPTIMAL", "FEASIBLE"}]
  BY <1>1, WorkerHolds, Memories DEF ValidateCalls, RunCalls
<1>6. mem'[w].s = mem[w].s /\ mem'[w].doc = scenarios[mem[w].s]
  BY <1>4, <1>5
<1>7. save = "validate_put" => scenarios[mem[w].s].state = "VALIDATION_REQUIRED"
  BY <1>1 DEF SoleInv, SoleReading, Moving
<1>8. save \in OnScenario /\ save \notin {"create_save", "create_trace"} /\ (save \in Moving => save = "validate_put")
  BY DEF OnScenario, ValidateCalls, RunCalls, Moving
<1>9. SoleReading(w)'
  BY <1>2, <1>3, <1>4, <1>6, <1>7, <1>8, Paths DEF SoleReading, tables, Searching, AltCalls
<1>10. References'
  BY <1>3 DEF tables, SoleInv, References
<1> QED BY <1>9, <1>10, SoleStep

\* ... and writes it back with the state changed.
LEMMA SoleStateSave ==
  ASSUME Sole, TypeInv, SoleInv, NEW w \in Workers, NEW from \in {"validate_put", "run_put"},
         NEW after \in {"validate_trace", "run_trace"}, NEW state \in {"READY_TO_SOLVE", "SOLVED"},
         StateSave(w, from, state, after)
  PROVE  /\ SoleInv' /\ mem[w].s \in DOMAIN scenarios /\ DOMAIN scenarios' = DOMAIN scenarios
         /\ \A t \in DOMAIN scenarios : t # mem[w].s => scenarios'[t] = scenarios[t]
         /\ scenarios'[mem[w].s].state = state
         /\ scenarios'[mem[w].s].input = scenarios[mem[w].s].input
         /\ scenarios'[mem[w].s].parent = scenarios[mem[w].s].parent
<1> DEFINE doc == [mem[w].doc EXCEPT !.state = state]
<1>1. pc[w] = from /\ pc'[w] = after /\ mem'[w] = mem[w]
  BY WorkerHolds, ContinueMoves DEF StateSave
<1>2. mem[w].s \in DOMAIN scenarios /\ pc[w] \in OnScenario
      /\ mem[w].doc.input = scenarios[mem[w].s].input /\ mem[w].doc.parent = scenarios[mem[w].s].parent
  BY <1>1 DEF SoleInv, SoleReading, OnScenario, ValidateCalls, RunCalls
<1>3. mem[w].s \in Ids /\ mem[w].doc \in ScenarioRow
  <2>1. \/ mem[w] \in [s : Ids, doc : ScenarioRow]
        \/ mem[w] \in [s : Ids, doc : ScenarioRow, r : Ids, status : {"OPTIMAL", "FEASIBLE"}]
    BY <1>1, WorkerHolds, Memories DEF ValidateCalls, RunCalls
  <2> QED BY <2>1
<1>4. /\ doc.state = state /\ doc.input = mem[w].doc.input /\ doc.parent = mem[w].doc.parent
      /\ SaveScenario(mem[w].s, doc)
  BY <1>3 DEF StateSave, ScenarioRow
<1> HIDE DEF doc
<1>5. /\ DOMAIN scenarios' = DOMAIN scenarios \cup {mem[w].s}
      /\ \A t \in DOMAIN scenarios : t # mem[w].s => scenarios'[t] = scenarios[t]
      /\ scenarios'[mem[w].s] = [state |-> doc.state, input |-> doc.input, parent |-> doc.parent,
                                 validated |-> mem[w].s \in DOMAIN scenarios /\ scenarios[mem[w].s].validated]
  BY <1>3, <1>4, WorkerHolds, SaveScenarioType DEF ScenarioRow
<1>6. /\ DOMAIN scenarios' = DOMAIN scenarios
      /\ scenarios'[mem[w].s].state = state
      /\ scenarios'[mem[w].s].input = scenarios[mem[w].s].input
      /\ scenarios'[mem[w].s].parent = scenarios[mem[w].s].parent
  BY <1>2, <1>4, <1>5
<1>7. References'
  BY <1>6, ReferencesKept DEF StateSave, SoleInv
<1>8. after \in OnScenario /\ after \notin {"create_save", "create_trace"} \cup Moving
  BY DEF OnScenario, ValidateCalls, RunCalls, Moving
<1>9. SoleReading(w)'
  BY <1>1, <1>2, <1>6, <1>8, Paths DEF SoleReading, Searching, AltCalls, Moving
<1> QED BY <1>2, <1>5, <1>6, <1>7, <1>9, SoleStep

LEMMA SoleValidate ==
  ASSUME Sole, TypeInv, SoleInv, NEW w \in Workers, ValidateRequest(w)
  PROVE  SoleInv'
<1>1. CASE ValidateRead(w)
  <2>1. PICK s \in DOMAIN scenarios :
          Arrive(w, "validate", "validate_save", [s |-> s, doc |-> scenarios[s]])
    BY <1>1 DEF ValidateRead
  <2>2. pc'[w] = "validate_save" /\ mem'[w].s = s /\ mem'[w].doc = scenarios[s]
    BY <2>1, ArriveMoves DEF Kinds
  <2>3. References'
    BY <1>1 DEF ValidateRead, tables, SoleInv, References
  <2>4. SoleReading(w)'
    BY <1>1, <2>2, Paths DEF ValidateRead, tables, SoleReading, OnScenario, ValidateCalls, CreateCalls,
                             Searching, AltCalls
  <2> QED BY <2>3, <2>4, SoleStep
<1>2. CASE ValidateSave(w)
  <2>1. PICK to \in {"validate_get", "validate_trace"} :
          /\ Continue(w, "validate_save", to)
          /\ to = "validate_get" => mem[w].doc.state = "VALIDATION_REQUIRED"
    BY <1>2 DEF ValidateSave
  <2>2. pc[w] = "validate_save" /\ pc'[w] = to /\ mem'[w] = mem[w]
    BY <2>1, WorkerHolds, ContinueMoves
  <2>3. /\ DOMAIN scenarios' = DOMAIN scenarios
        /\ \A t \in DOMAIN scenarios : /\ scenarios'[t].state = scenarios[t].state
                                       /\ scenarios'[t].input = scenarios[t].input
                                       /\ scenarios'[t].parent = scenarios[t].parent
    BY <1>2, MarkGrows DEF ValidateSave
  <2>4. References'
    BY <1>2, <2>3, ReferencesKept DEF ValidateSave, SoleInv, References
  <2>5. /\ pc[w] \in OnScenario /\ pc[w] \in Moving /\ to \in OnScenario
        /\ to \notin {"create_save", "create_trace"} \cup Searching \cup DecideCalls \cup DeleteCalls
    BY <2>2, Paths DEF OnScenario, Moving, ValidateCalls, CreateCalls
  <2>6. SoleReading(w)'
    BY <2>1, <2>2, <2>3, <2>5 DEF SoleInv, SoleReading, Searching, AltCalls, OnDerived
  <2> QED BY <2>4, <2>6, SoleStep
<1>3. CASE ValidateStateRead(w)
  BY <1>3, SoleStateRead DEF ValidateStateRead
<1>4. CASE ValidateStateSave(w)
  BY <1>4, SoleStateSave DEF ValidateStateSave
<1>5. CASE ValidateTrace(w)
  <2>1. pc[w] = "validate_trace" /\ pc'[w] = "idle"
    BY <1>5, WorkerHolds, ContinueMoves DEF ValidateTrace
  <2>2. mem[w].s \in DOMAIN scenarios
    BY <2>1 DEF SoleInv, SoleReading, OnScenario, ValidateCalls
  <2>3. References'
    BY <1>5, <2>2, TracedKept DEF ValidateTrace, SoleInv
  <2> QED BY <2>1, <2>3, SoleIdle, SoleStep
<1> QED BY <1>1, <1>2, <1>3, <1>4, <1>5 DEF ValidateRequest

\* A handler that goes on with a scenario's document as it is.
LEMMA SoleGoesOn ==
  ASSUME Sole, SoleInv, NEW w \in Workers, pc[w] \in OnScenario, pc'[w] \in OnScenario \ Moving,
         mem'[w].s = mem[w].s, mem'[w].doc = mem[w].doc, scenarios' = scenarios, References'
  PROVE  SoleInv'
<1>1. pc'[w] \notin {"create_save", "create_trace", "alt_none", "alt_trace", "validate_get", "validate_put",
                     "delete_row"} \cup Searching \cup DecideCalls \cup DeleteCalls \cup OnDerived
  BY Paths DEF CreateCalls, Searching, AltCalls, Moving, DeleteCalls
<1>2. SoleReading(w)'
  BY <1>1 DEF SoleInv, SoleReading
<1> QED BY <1>2, SoleStep

LEMMA SoleRun ==
  ASSUME Sole, TypeInv, SoleInv, NEW w \in Workers, RunRequest(w)
  PROVE  SoleInv'
<1>1. CASE RunRead(w)
  <2>1. PICK s \in DOMAIN scenarios :
          Arrive(w, "run", "run_number", [s |-> s, doc |-> scenarios[s], r |-> Nothing, status |-> Nothing])
    BY <1>1 DEF RunRead
  <2>2. pc'[w] = "run_number" /\ mem'[w].s = s /\ mem'[w].doc = scenarios[s]
    BY <2>1, ArriveMoves DEF Kinds
  <2>3. References'
    BY <1>1 DEF RunRead, tables, SoleInv, References
  <2>4. SoleReading(w)'
    BY <1>1, <2>2, Paths DEF RunRead, tables, SoleReading, OnScenario, ValidateCalls, CreateCalls,
                             Searching, AltCalls, Moving
  <2> QED BY <2>3, <2>4, SoleStep
<1>2. CASE RunRefused(w)
  <2>1. pc'[w] = "idle"
    BY <1>2, WorkerHolds, ContinueMoves DEF RunRefused
  <2>2. References'
    BY <1>2 DEF RunRefused, tables, SoleInv, References
  <2> QED BY <2>1, <2>2, SoleIdle, SoleStep
<1>3. CASE RunSolve(w)
  <2>1. pc[w] = "run_number" /\ UNCHANGED tables
    BY <1>3 DEF RunSolve
  <2>2. References'
    BY <2>1 DEF tables, SoleInv, References
  <2>3. CASE Continue(w, "run_number", "idle")
    <3>1. pc'[w] = "idle"
      BY <2>3, WorkerHolds, ContinueMoves
    <3> QED BY <2>2, <3>1, SoleIdle, SoleStep
  <2>4. ASSUME NEW r, NEW status,
               Remember(w, "run_number", "run_save", [mem[w] EXCEPT !.r = r, !.status = status])
        PROVE  SoleInv'
    <3>1. mem[w] \in [s : Ids, doc : ScenarioRow, r : {Nothing}, status : {Nothing}]
      BY <2>1, WorkerHolds, Memories
    <3>2. pc'[w] = "run_save" /\ mem'[w] = [mem[w] EXCEPT !.r = r, !.status = status]
      BY <2>4, WorkerHolds, RememberMoves
    <3>3. mem'[w].s = mem[w].s /\ mem'[w].doc = mem[w].doc
      BY <3>1, <3>2
    <3>4. pc[w] \in OnScenario /\ pc'[w] \in OnScenario \ Moving
      BY <2>1, <3>2 DEF OnScenario, RunCalls, Moving
    <3> QED BY <2>1, <2>2, <3>3, <3>4, SoleGoesOn DEF tables
  <2> QED BY <1>3, <2>3, <2>4 DEF RunSolve
<1>4. CASE RunSave(w)
  <2>1. pc[w] = "run_save"
    BY <1>4 DEF RunSave
  <2>2. mem[w].s \in DOMAIN scenarios /\ pc[w] \in OnScenario
    BY <2>1 DEF SoleInv, SoleReading, OnScenario, RunCalls
  <2> DEFINE doc == [scenario |-> mem[w].s, status |-> mem[w].status, parent |-> Nothing,
                     outcomes |-> [o \in Orders |-> NotSearched]]
  <2>3. Continue(w, "run_save", "run_get") /\ SaveRun(mem[w].r, doc)
    BY <1>4, <2>2 DEF RunSave
  <2>4. mem[w] \in [s : Ids, doc : ScenarioRow, r : Ids, status : {"OPTIMAL", "FEASIBLE"}]
    BY <2>1, WorkerHolds, Memories DEF RunCalls
  <2>5. /\ doc.scenario = mem[w].s /\ doc.scenario \in Ids /\ doc.status \in {"OPTIMAL", "FEASIBLE"}
        /\ doc.parent \in Ids \cup {Nothing} /\ doc.outcomes \in Outcomes
    BY <2>4 DEF Outcomes, NotSearched
  <2> HIDE DEF doc
  <2>6. /\ DOMAIN runs' = DOMAIN runs \cup {mem[w].r}
        /\ \A q \in DOMAIN runs : q # mem[w].r => runs'[q] = runs[q]
        /\ runs'[mem[w].r].scenario = mem[w].s
    <3>1. /\ DOMAIN runs' = DOMAIN runs \cup {mem[w].r}
          /\ \A q \in DOMAIN runs : q # mem[w].r => runs'[q] = runs[q]
          /\ runs'[mem[w].r] =
               [scenario |-> doc.scenario, status |-> doc.status, parent |-> doc.parent,
                outcomes |-> doc.outcomes,
                explanation |-> IF mem[w].r \in DOMAIN runs THEN runs[mem[w].r].explanation ELSE Nothing]
      BY <2>3, <2>4, <2>5, WorkerHolds, SaveRunType
    <3> QED BY <2>5, <3>1
  <2>7. References'
    BY <1>4, <2>2, <2>6 DEF RunSave, SoleInv, References
  <2>8. pc'[w] = "run_get" /\ mem'[w] = mem[w]
    BY <2>3, WorkerHolds, ContinueMoves
  <2>9. pc'[w] \in OnScenario \ Moving
    BY <2>8 DEF OnScenario, RunCalls, Moving
  <2> QED BY <1>4, <2>2, <2>7, <2>8, <2>9, SoleGoesOn DEF RunSave
<1>5. CASE RunStateRead(w)
  BY <1>5, SoleStateRead DEF RunStateRead
<1>6. CASE RunStateSave(w)
  BY <1>6, SoleStateSave DEF RunStateSave
<1>7. CASE RunTrace(w)
  <2>1. pc[w] = "run_trace" /\ pc'[w] = "idle"
    BY <1>7, WorkerHolds, ContinueMoves DEF RunTrace
  <2>2. mem[w].s \in DOMAIN scenarios
    BY <2>1 DEF SoleInv, SoleReading, OnScenario, RunCalls
  <2>3. References'
    BY <1>7, <2>2, TracedKept DEF RunTrace, SoleInv
  <2> QED BY <2>1, <2>3, SoleIdle, SoleStep
<1> QED BY <1>1, <1>2, <1>3, <1>4, <1>5, <1>6, <1>7 DEF RunRequest


\* A search that goes on, with the scenarios it refers to in place.
LEMMA SoleSearchOn ==
  ASSUME Sole, SoleInv, NEW w \in Workers, pc'[w] \in Searching, References',
         mem'[w].doc.scenario \in DOMAIN scenarios',
         pc'[w] = "alt_none" => mem'[w].verdict = "NONE",
         pc'[w] \in OnDerived \/ (pc'[w] = "alt_trace" /\ mem'[w].verdict = "FOUND") =>
           Derived(w)' \in DOMAIN scenarios'
  PROVE  SoleInv'
<1>1. pc'[w] \notin {"create_save", "create_trace", "delete_row"} \cup OnScenario \cup Moving \cup DecideCalls
                    \cup DeleteCalls \cup {"validate_get", "validate_put"}
  BY Paths DEF CreateCalls, DeleteCalls, OnScenario, Moving, ValidateCalls
<1>2. SoleReading(w)'
  BY <1>1 DEF SoleReading
<1> QED BY <1>2, SoleStep

LEMMA SoleSearchStart ==
  ASSUME Sole, TypeInv, SoleInv, NEW w \in Workers, AltRead(w) \/ AltNoScenario(w) \/ AltSearch(w)
  PROVE  SoleInv'
<1>1. UNCHANGED tables
  BY DEF AltRead, AltNoScenario, AltSearch
<1>2. References'
  BY <1>1 DEF tables, SoleInv, References
<1>3. CASE AltRead(w)
  <2>1. PICK r \in DOMAIN runs, o \in Orders :
          Arrive(w, "alternative", "alt_search",
            [r |-> r, o |-> o, doc |-> runs[r], verdict |-> Nothing, n |-> Nothing])
    BY <1>3 DEF AltRead
  <2>2. pc'[w] = "alt_search" /\ mem'[w].doc = runs[r]
    BY <2>1, ArriveMoves DEF Kinds
  <2>3. mem'[w].doc.scenario \in DOMAIN scenarios
    BY <2>2 DEF SoleInv, References
  <2> QED BY <1>1, <1>2, <2>2, <2>3, SoleSearchOn DEF Searching, OnDerived, tables
<1>4. CASE AltNoScenario(w)
  <2>1. pc'[w] = "idle"
    BY <1>4, WorkerHolds, ContinueMoves DEF AltNoScenario
  <2> QED BY <1>2, <2>1, SoleIdle, SoleStep
<1>5. CASE AltSearch(w)
  <2>1. CASE Continue(w, "alt_search", "idle")
    <3>1. pc'[w] = "idle"
      BY <2>1, WorkerHolds, ContinueMoves
    <3> QED BY <1>2, <3>1, SoleIdle, SoleStep
  <2>2. ASSUME NEW verdict \in Verdicts,
               Remember(w, "alt_search", IF verdict = "NONE" THEN "alt_none" ELSE "alt_scenario",
                        [mem[w] EXCEPT !.verdict = verdict, !.n = seq'["alternative"]])
        PROVE  SoleInv'
    <3> DEFINE to == IF verdict = "NONE" THEN "alt_none" ELSE "alt_scenario"
               read == [mem[w] EXCEPT !.verdict = verdict, !.n = seq'["alternative"]]
    <3>1. Remember(w, "alt_search", to, read)
      BY <2>2
    <3>2. pc[w] = "alt_search" /\ mem[w].doc.scenario \in DOMAIN scenarios
      BY <1>5 DEF AltSearch
    <3>3. mem[w] \in [r : Ids, o : Orders, doc : RunRow, verdict : {Nothing}, n : {Nothing}]
      BY <3>2, WorkerHolds, Memories
    <3>4. read.verdict = verdict /\ read.doc = mem[w].doc
      BY <3>3
    <3>5. to \in {"alt_none", "alt_scenario"} /\ (to = "alt_none" => verdict = "NONE")
      OBVIOUS
    <3> HIDE DEF to, read
    <3>6. pc'[w] = to /\ mem'[w] = read
      BY <3>1, WorkerHolds, RememberMoves
    <3>7. pc'[w] \in Searching /\ pc'[w] \notin OnDerived /\ pc'[w] # "alt_trace"
      BY <3>5, <3>6 DEF Searching, AltCalls, OnDerived
    <3> QED BY <1>1, <1>2, <3>2, <3>4, <3>5, <3>6, <3>7, SoleSearchOn DEF tables
  <2> QED BY <1>5, <2>1, <2>2 DEF AltSearch
<1> QED BY <1>3, <1>4, <1>5

\* A run's document written back still refers to a scenario that is there.
LEMMA SoleWriteOutcome ==
  ASSUME TypeInv, SoleInv, NEW w \in Workers, pc[w] \in AltCalls,
         UNCHANGED <<scenarios, decisions, trace>>,
         NEW outcome, outcome \in [alternative_state : {"NOT_SEARCHED", "NONE", "AVAILABLE"},
                                   link : Ids \cup {Nothing}],
         SaveRun(mem[w].r, [mem[w].doc EXCEPT !.outcomes[mem[w].o] = outcome])
  PROVE  References'
<1>1. mem[w].doc.scenario \in DOMAIN scenarios
  BY DEF SoleInv, SoleReading, Searching
<1>2. /\ DOMAIN runs' = DOMAIN runs \cup {mem[w].r}
      /\ \A q \in DOMAIN runs : q # mem[w].r => runs'[q] = runs[q]
      /\ runs'[mem[w].r].scenario = mem[w].doc.scenario
  <2>1. /\ DOMAIN runs' = DOMAIN runs \cup {mem[w].r}
        /\ \A q \in DOMAIN runs : q # mem[w].r => runs'[q] = runs[q]
        /\ runs'[mem[w].r] =
              [scenario |-> mem[w].doc.scenario, status |-> mem[w].doc.status,
               parent |-> mem[w].doc.parent,
               outcomes |-> [mem[w].doc.outcomes EXCEPT ![mem[w].o] = outcome],
               explanation |-> IF mem[w].r \in DOMAIN runs
                               THEN runs[mem[w].r].explanation ELSE Nothing]
    BY WriteOutcomeType
  <2> QED BY <2>1
<1> QED BY <1>1, <1>2 DEF SoleInv, References

LEMMA SoleSearchSave ==
  ASSUME Sole, TypeInv, SoleInv, NEW w \in Workers,
         AltNone(w) \/ AltSaveScenario(w) \/ AltSaveRun(w) \/ AltSaveValidation(w)
  PROVE  SoleInv'
<1>1. pc[w] \in {"alt_none", "alt_scenario", "alt_run", "alt_validation"}
  BY DEF AltNone, AltSaveScenario, AltSaveRun, AltSaveValidation, Continue
<1>2. pc[w] \in AltCalls /\ pc[w] \in Searching
  BY <1>1 DEF AltCalls, Searching
<1>3. /\ mem[w] \in [r : Ids, o : Orders, doc : RunRow, verdict : Verdicts, n : Nat]
      /\ Derived(w) \in Ids
  BY <1>2, AlternativeHolds
<1>4. mem[w].doc.scenario \in DOMAIN scenarios
  BY <1>2 DEF SoleInv, SoleReading
<1>5. mem'[w] = mem[w] => Derived(w)' = Derived(w)
  BY DEF Derived
<1>6. CASE AltNone(w)
  <2>1. /\ Continue(w, "alt_none", "alt_trace")
        /\ SaveRun(mem[w].r, [mem[w].doc EXCEPT !.outcomes[mem[w].o] = NoneFound])
        /\ UNCHANGED <<scenarios, decisions, trace>>
    BY <1>4, <1>6 DEF AltNone
  <2>2. NoneFound \in [alternative_state : {"NOT_SEARCHED", "NONE", "AVAILABLE"},
                       link : Ids \cup {Nothing}]
    BY DEF NoneFound
  <2>3. References'
    BY <1>2, <2>1, <2>2, SoleWriteOutcome
  <2>4. pc[w] = "alt_none" /\ pc'[w] = "alt_trace" /\ mem'[w] = mem[w]
    BY <2>1, WorkerHolds, ContinueMoves
  <2>5. mem[w].verdict = "NONE"
    BY <2>4 DEF SoleInv, SoleReading
  <2> QED BY <1>4, <2>1, <2>3, <2>4, <2>5, SoleSearchOn DEF Searching, AltCalls, OnDerived
<1>7. CASE AltSaveScenario(w)
  <2>1. pc'[w] = "alt_run" /\ mem'[w] = mem[w]
    BY <1>7, WorkerHolds, ContinueMoves DEF AltSaveScenario
  <2>2. DOMAIN scenarios' = DOMAIN scenarios \cup {Derived(w)}
    BY <1>7, SaveDerivedScenario
  <2>3. References'
    BY <1>7, <2>2, ReferencesKept DEF AltSaveScenario, SoleInv
  <2> QED BY <1>4, <1>5, <2>1, <2>2, <2>3, SoleSearchOn DEF Searching, AltCalls
<1>8. CASE AltSaveRun(w)
  <2>1. pc[w] = "alt_run" /\ Derived(w) \in DOMAIN scenarios
    BY <1>8 DEF AltSaveRun, SoleInv, SoleReading, OnDerived
  <2>2. pc'[w] = "alt_validation" /\ mem'[w] = mem[w]
    BY <1>8, <2>1, WorkerHolds, ContinueMoves DEF AltSaveRun
  <2>3. /\ DOMAIN runs' = DOMAIN runs \cup {Derived(w)}
        /\ \A q \in DOMAIN runs : q # Derived(w) => runs'[q] = runs[q]
        /\ runs'[Derived(w)].scenario = Derived(w)
    BY <1>8, <2>1, SaveDerivedRun
  <2>4. References'
    BY <1>8, <2>1, <2>3 DEF AltSaveRun, SoleInv, References
  <2>5. UNCHANGED scenarios
    BY <1>8 DEF AltSaveRun
  <2> QED BY <1>4, <1>5, <2>1, <2>2, <2>4, <2>5, SoleSearchOn DEF Searching, AltCalls
<1>9. CASE AltSaveValidation(w)
  <2>1. pc[w] = "alt_validation" /\ pc'[w] = "alt_lock" /\ mem'[w] = mem[w]
    BY <1>9, WorkerHolds, ContinueMoves DEF AltSaveValidation
  <2>2. Derived(w) \in DOMAIN scenarios
    BY <2>1 DEF SoleInv, SoleReading, OnDerived
  <2>3. /\ DOMAIN scenarios' = DOMAIN scenarios
        /\ \A t \in DOMAIN scenarios : scenarios'[t].parent = scenarios[t].parent
    BY <1>9, MarkGrows DEF AltSaveValidation
  <2>4. References'
    BY <1>9, <2>3, ReferencesKept DEF AltSaveValidation, SoleInv, References
  <2> QED BY <1>4, <1>5, <2>1, <2>2, <2>3, <2>4, SoleSearchOn DEF Searching, AltCalls
<1> QED BY <1>6, <1>7, <1>8, <1>9

LEMMA SolePublish ==
  ASSUME Sole, TypeInv, SoleInv, NEW w \in Workers,
         \/ OutcomeRead(w) \/ OutcomeSave(w) \/ AltClearExplanation(w)
         \/ AltTrace(w) \/ AltTraceDerived(w)
  PROVE  SoleInv'
<1>1. pc[w] \in {"alt_lock", "alt_outcome", "alt_clear", "alt_trace", "alt_trace_derived"}
  BY DEF OutcomeRead, OutcomeSave, AltClearExplanation, AltTrace, AltTraceDerived, Continue
<1>2. pc[w] \in AltCalls /\ pc[w] \in Searching
  BY <1>1 DEF AltCalls, Searching
<1>3. /\ mem[w] \in [r : Ids, o : Orders, doc : RunRow, verdict : Verdicts, n : Nat]
      /\ Derived(w) \in Ids
  BY <1>2, AlternativeHolds
<1>4. mem[w].doc.scenario \in DOMAIN scenarios
  BY <1>2 DEF SoleInv, SoleReading
<1>5. pc[w] # "alt_trace" => Derived(w) \in DOMAIN scenarios
  BY <1>1 DEF SoleInv, SoleReading, OnDerived
<1>6. mem'[w].n = mem[w].n => Derived(w)' = Derived(w)
  BY DEF Derived
<1>7. CASE OutcomeRead(w)
  <2>1. UNCHANGED tables /\ pc[w] = "alt_lock"
    BY <1>7 DEF OutcomeRead
  <2>2. References'
    BY <2>1 DEF tables, SoleInv, References
  <2>3. CASE mem[w].r \in DOMAIN runs
    <3> DEFINE read == [mem[w] EXCEPT !.doc = runs[mem[w].r]]
    <3>1. Remember(w, "alt_lock", "alt_outcome", read)
      BY <1>7, <2>3 DEF OutcomeRead
    <3>2. read.doc = runs[mem[w].r] /\ read.n = mem[w].n
      BY <1>3
    <3> HIDE DEF read
    <3>3. pc'[w] = "alt_outcome" /\ mem'[w] = read
      BY <3>1, WorkerHolds, RememberMoves
    <3>4. mem'[w].doc.scenario \in DOMAIN scenarios
      BY <2>3, <3>2, <3>3 DEF SoleInv, References
    <3> QED BY <1>5, <1>6, <2>1, <2>2, <3>2, <3>3, <3>4, SoleSearchOn DEF Searching, AltCalls, tables
  <2>4. CASE mem[w].r \notin DOMAIN runs
    <3>1. pc'[w] = "alt_clear" /\ mem'[w] = mem[w]
      BY <1>7, <2>4, WorkerHolds, ContinueMoves DEF OutcomeRead
    <3> QED BY <1>4, <1>5, <1>6, <2>1, <2>2, <3>1, SoleSearchOn DEF Searching, AltCalls, tables
  <2> QED BY <2>3, <2>4
<1>8. CASE OutcomeSave(w)
  <2>1. /\ Continue(w, "alt_outcome", "alt_clear")
        /\ SaveRun(mem[w].r, [mem[w].doc EXCEPT !.outcomes[mem[w].o] = Available(Derived(w))])
        /\ UNCHANGED <<scenarios, decisions, trace>>
    BY <1>4, <1>8 DEF OutcomeSave
  <2>2. Available(Derived(w)) \in [alternative_state : {"NOT_SEARCHED", "NONE", "AVAILABLE"},
                                   link : Ids \cup {Nothing}]
    BY <1>3 DEF Available
  <2>3. References'
    BY <1>2, <2>1, <2>2, SoleWriteOutcome
  <2>4. pc[w] = "alt_outcome" /\ pc'[w] = "alt_clear" /\ mem'[w] = mem[w]
    BY <2>1, WorkerHolds, ContinueMoves
  <2> QED BY <1>4, <1>5, <1>6, <2>1, <2>3, <2>4, SoleSearchOn DEF Searching, AltCalls
<1>9. CASE AltClearExplanation(w)
  <2>1. pc[w] = "alt_clear" /\ pc'[w] = "alt_trace" /\ mem'[w] = mem[w]
    BY <1>9, WorkerHolds, ContinueMoves DEF AltClearExplanation
  <2>2. DOMAIN runs' = DOMAIN runs /\ \A r \in DOMAIN runs : runs'[r].scenario = runs[r].scenario
    <3>1. \A r \in DOMAIN runs : runs[r] \in RunRow
      BY WorkerHolds DEF RunsOK
    <3> QED BY <1>9, <3>1 DEF AltClearExplanation, RunRow
  <2>3. References'
    BY <1>9, <2>2 DEF AltClearExplanation, SoleInv, References
  <2>4. UNCHANGED scenarios
    BY <1>9 DEF AltClearExplanation
  <2> QED BY <1>4, <1>5, <1>6, <2>1, <2>3, <2>4, SoleSearchOn DEF Searching, AltCalls
<1>10. CASE AltTrace(w)
  <2> DEFINE to == IF mem[w].verdict = "FOUND" THEN "alt_trace_derived" ELSE "idle"
  <2>1. Continue(w, "alt_trace", to) /\ Trace(mem[w].doc.scenario, "ALTERNATIVE_CREATED")
        /\ UNCHANGED <<scenarios, runs, decisions>>
    BY <1>10 DEF AltTrace
  <2>2. to \in {"idle", "alt_trace_derived"} /\ (to # "idle" => mem[w].verdict = "FOUND")
    OBVIOUS
  <2> HIDE DEF to
  <2>3. pc[w] = "alt_trace" /\ pc'[w] = to /\ (to # "idle" => mem'[w] = mem[w])
    BY <2>1, WorkerHolds, ContinueMoves
  <2>4. References'
    BY <1>4, <2>1, TracedKept DEF SoleInv
  <2>5. to # "idle" => Derived(w) \in DOMAIN scenarios
    BY <2>2, <2>3 DEF SoleInv, SoleReading
  <2>6. CASE to = "idle"
    BY <2>3, <2>4, <2>6, SoleIdle, SoleStep
  <2>7. CASE to = "alt_trace_derived"
    BY <1>4, <1>6, <2>1, <2>3, <2>4, <2>5, <2>7, SoleSearchOn DEF Searching, AltCalls
  <2> QED BY <2>2, <2>6, <2>7
<1>11. CASE AltTraceDerived(w)
  <2>1. pc[w] = "alt_trace_derived" /\ pc'[w] = "idle"
    BY <1>11, WorkerHolds, ContinueMoves DEF AltTraceDerived
  <2>2. Derived(w) \in DOMAIN scenarios
    BY <1>5, <2>1
  <2>3. References'
    BY <1>11, <2>2, TracedKept DEF AltTraceDerived, SoleInv
  <2> QED BY <2>1, <2>3, SoleIdle, SoleStep
<1> QED BY <1>7, <1>8, <1>9, <1>10, <1>11

LEMMA SoleDecide ==
  ASSUME Sole, TypeInv, SoleInv, NEW w \in Workers, DecisionRequest(w)
  PROVE  SoleInv'
<1>1. CASE DecideRead(w)
  <2>1. PICK r \in DOMAIN runs, decision \in {"ACCEPTED", "HELD"} :
          Arrive(w, "decide", "decide_save", [r |-> r, decision |-> decision, s |-> runs[r].scenario])
    BY <1>1 DEF DecideRead
  <2>2. pc'[w] = "decide_save" /\ mem'[w].s = runs[r].scenario
    BY <2>1, ArriveMoves DEF Kinds
  <2>3. UNCHANGED tables
    BY <1>1 DEF DecideRead
  <2>4. References'
    BY <2>3 DEF tables, SoleInv, References
  <2>5. mem'[w].s \in DOMAIN scenarios'
    BY <2>2, <2>3 DEF tables, SoleInv, References
  <2>6. pc'[w] \in DecideCalls /\ pc'[w] \notin {"create_save", "create_trace"}
    BY <2>2 DEF DecideCalls
  <2>7. SoleReading(w)'
    BY <2>2, <2>5, <2>6, Paths DEF SoleReading, Searching, AltCalls, DeleteCalls, Moving
  <2> QED BY <2>4, <2>7, SoleStep
<1>2. CASE DecideSave(w)
  <2>1. pc[w] = "decide_save" /\ UNCHANGED <<scenarios, runs, trace>>
    BY <1>2 DEF DecideSave
  <2>2. mem[w].s \in DOMAIN scenarios
    BY <2>1 DEF SoleInv, SoleReading, DecideCalls
  <2>3. CASE mem[w].r \in DOMAIN runs
    <3>1. pc'[w] = "decide_trace" /\ mem'[w] = mem[w]
      BY <1>2, <2>3, WorkerHolds, ContinueMoves DEF DecideSave
    <3>2. References'
      BY <1>2, <2>1, <2>3 DEF DecideSave, SoleInv, References
    <3>3. pc'[w] \in DecideCalls /\ pc'[w] \notin {"create_save", "create_trace"}
      BY <3>1 DEF DecideCalls
    <3>4. SoleReading(w)'
      BY <2>1, <2>2, <3>1, <3>3, Paths DEF SoleReading, Searching, AltCalls, DeleteCalls, Moving
    <3> QED BY <3>2, <3>4, SoleStep
  <2>4. CASE mem[w].r \notin DOMAIN runs
    <3>1. pc'[w] = "idle"
      BY <1>2, <2>4, WorkerHolds, ContinueMoves DEF DecideSave
    <3>2. References'
      BY <1>2, <2>1, <2>4 DEF DecideSave, SoleInv, References
    <3> QED BY <3>1, <3>2, SoleIdle, SoleStep
  <2> QED BY <2>3, <2>4
<1>3. CASE DecideTrace(w)
  <2>1. pc[w] = "decide_trace" /\ pc'[w] = "idle"
    BY <1>3, WorkerHolds, ContinueMoves DEF DecideTrace
  <2>2. mem[w].s \in DOMAIN scenarios
    BY <2>1 DEF SoleInv, SoleReading, DecideCalls
  <2>3. References'
    BY <1>3, <2>2, TracedKept DEF DecideTrace, SoleInv
  <2> QED BY <2>1, <2>3, SoleIdle, SoleStep
<1> QED BY <1>1, <1>2, <1>3 DEF DecisionRequest

LEMMA SoleExplain ==
  ASSUME Sole, TypeInv, SoleInv, NEW w \in Workers, ExplanationRequest(w)
  PROVE  SoleInv'
<1>1. pc'[w] \in {"explain_check", "explain_save", "idle"}
  <2>1. CASE ExplainRead(w)
    BY <2>1, ArriveMoves DEF ExplainRead, Kinds
  <2>2. CASE ExplainCheck(w)
    BY <2>2, WorkerHolds, ContinueMoves DEF ExplainCheck
  <2>3. CASE ExplainSave(w)
    BY <2>3, WorkerHolds, ContinueMoves DEF ExplainSave
  <2> QED BY <2>1, <2>2, <2>3 DEF ExplanationRequest
<1>2. UNCHANGED <<scenarios, decisions, trace>> /\ DOMAIN runs' = DOMAIN runs
      /\ \A r \in DOMAIN runs : runs'[r].scenario = runs[r].scenario
  <2>1. \A r \in DOMAIN runs : runs[r] \in RunRow
    BY WorkerHolds DEF RunsOK
  <2>2. CASE ExplainRead(w) \/ ExplainCheck(w)
    BY <2>2 DEF ExplainRead, ExplainCheck, tables
  <2>3. CASE ExplainSave(w)
    BY <2>1, <2>3 DEF ExplainSave, RunRow
  <2> QED BY <2>2, <2>3 DEF ExplanationRequest
<1>3. References'
  BY <1>2 DEF SoleInv, References
<1>4. SoleReading(w)'
  BY <1>1 DEF SoleReading, OnScenario, Moving, Searching, OnDerived, ValidateCalls, RunCalls, AltCalls,
              DecideCalls, DeleteCalls
<1> QED BY <1>3, <1>4, SoleStep

\* A deletion that goes on: its scenario still has no children.
LEMMA SoleDeleteOn ==
  ASSUME Sole, SoleInv, NEW w \in Workers, pc[w] \in DeleteCalls, pc'[w] \in DeleteCalls,
         mem'[w].s = mem[w].s, scenarios' = scenarios, References',
         pc'[w] = "delete_row" => \A e \in trace' : e.scenario # mem[w].s
  PROVE  SoleInv'
<1>1. ChildrenOf(mem[w].s) = {}
  BY DEF SoleInv, SoleReading
<1>2. (ChildrenOf(mem[w].s))' = {}
  BY <1>1 DEF ChildrenOf
<1>3. pc'[w] \notin {"create_save", "create_trace", "alt_none", "alt_trace", "validate_get", "validate_put"}
                    \cup OnScenario \cup Moving \cup Searching \cup DecideCalls \cup OnDerived
  BY Paths DEF CreateCalls, OnScenario, Searching, AltCalls, ValidateCalls
<1>4. SoleReading(w)'
  BY <1>2, <1>3 DEF SoleReading
<1> QED BY <1>4, SoleStep

LEMMA SoleDelete ==
  ASSUME Sole, TypeInv, SoleInv, NEW w \in Workers, DeleteRequest(w)
  PROVE  SoleInv'
<1> USE DEF DeleteCalls
<1>1. CASE DeleteCheck(w)
  <2>1. PICK s \in DOMAIN scenarios :
          /\ ChildrenOf(s) = {}
          /\ Arrive(w, "delete", "delete_list", [s |-> s, pending |-> {}])
    BY <1>1 DEF DeleteCheck
  <2>2. pc'[w] = "delete_list" /\ mem'[w].s = s
    BY <2>1, ArriveMoves DEF Kinds
  <2>3. UNCHANGED tables
    BY <1>1 DEF DeleteCheck
  <2>4. References'
    BY <2>3 DEF tables, SoleInv, References
  <2>5. ChildrenOf(mem[w].s)' = {}
    BY <2>1, <2>2, <2>3 DEF ChildrenOf, tables
  <2>6. SoleReading(w)'
    BY <2>2, <2>5, Paths DEF SoleReading, Moving, OnDerived, OnScenario, ValidateCalls, RunCalls, Searching,
                             AltCalls, DecideCalls
  <2> QED BY <2>4, <2>6, SoleStep
<1>2. CASE DeleteList(w)
  <2> DEFINE read == [mem[w] EXCEPT !.pending = RunsOf(mem[w].s)]
  <2>1. Remember(w, "delete_list", "delete_decisions", read) /\ UNCHANGED tables
    BY <1>2 DEF DeleteList
  <2>2. pc[w] = "delete_list"
    BY <2>1 DEF Remember
  <2>3. read.s = mem[w].s
    <3>1. mem[w] \in [s : Ids, pending : SUBSET Ids]
      BY <2>2, WorkerHolds, Memories
    <3> QED BY <3>1
  <2> HIDE DEF read
  <2>4. pc'[w] = "delete_decisions" /\ mem'[w] = read
    BY <2>1, WorkerHolds, RememberMoves
  <2>5. References'
    BY <2>1 DEF tables, SoleInv, References
  <2> QED BY <2>1, <2>2, <2>3, <2>4, <2>5, SoleDeleteOn DEF tables
<1>3. CASE DeleteDecisions(w)
  <2>1. PICK r \in mem[w].pending :
          /\ Remember(w, "delete_decisions", "delete_decisions", [mem[w] EXCEPT !.pending = @ \ {r}])
          /\ decisions' = {d \in decisions : d.run # r}
    BY <1>3 DEF DeleteDecisions
  <2> DEFINE read == [mem[w] EXCEPT !.pending = @ \ {r}]
  <2>2. pc[w] = "delete_decisions" /\ UNCHANGED <<scenarios, runs, trace>>
    BY <1>3 DEF DeleteDecisions
  <2>3. read.s = mem[w].s
    <3>1. mem[w] \in [s : Ids, pending : SUBSET Ids]
      BY <2>2, WorkerHolds, Memories
    <3> QED BY <3>1
  <2>4. Remember(w, "delete_decisions", "delete_decisions", read)
    BY <2>1
  <2> HIDE DEF read
  <2>5. pc'[w] = "delete_decisions" /\ mem'[w] = read
    BY <2>4, WorkerHolds, RememberMoves
  <2>6. References'
    BY <2>1, <2>2 DEF SoleInv, References
  <2> QED BY <2>2, <2>3, <2>5, <2>6, SoleDeleteOn
<1>4. CASE DeleteRuns(w)
  <2>1. pc[w] = "delete_decisions" /\ UNCHANGED <<scenarios, decisions, trace>>
    BY <1>4 DEF DeleteRuns
  <2>2. CASE \E d \in decisions : d.run \in RunsOf(mem[w].s)
    <3>1. pc'[w] = "idle" /\ runs' = runs
      BY <1>4, <2>2, WorkerHolds, ContinueMoves DEF DeleteRuns
    <3>2. References'
      BY <2>1, <3>1 DEF SoleInv, References
    <3> QED BY <3>1, <3>2, SoleIdle, SoleStep
  <2>3. CASE ~ \E d \in decisions : d.run \in RunsOf(mem[w].s)
    <3>1. pc'[w] = "delete_trace" /\ mem'[w] = mem[w] /\ runs' = Without(runs, RunsOf(mem[w].s))
      BY <1>4, <2>3, WorkerHolds, ContinueMoves DEF DeleteRuns
    <3>2. /\ DOMAIN runs' = DOMAIN runs \ RunsOf(mem[w].s)
          /\ \A r \in DOMAIN runs' : runs'[r] = runs[r]
      BY <3>1 DEF Without, Restrict
    <3>3. References'
      BY <2>1, <2>3, <3>2 DEF SoleInv, References
    <3> QED BY <2>1, <3>1, <3>3, SoleDeleteOn
  <2> QED BY <2>2, <2>3
<1>5. CASE DeleteTrace(w)
  <2>1. pc[w] = "delete_trace" /\ pc'[w] = "delete_row" /\ mem'[w] = mem[w]
    BY <1>5, WorkerHolds, ContinueMoves DEF DeleteTrace
  <2>2. UNCHANGED <<scenarios, runs, decisions>> /\ trace' = {e \in trace : e.scenario # mem[w].s}
    BY <1>5 DEF DeleteTrace
  <2>3. References'
    BY <2>2 DEF SoleInv, References
  <2> QED BY <2>1, <2>2, <2>3, SoleDeleteOn
<1>6. CASE DeleteRow(w)
  <2>1. pc[w] = "delete_row" /\ pc'[w] = "idle" /\ UNCHANGED <<runs, decisions, trace>>
    BY <1>6, WorkerHolds, ContinueMoves DEF DeleteRow
  <2>2. ChildrenOf(mem[w].s) = {} /\ \A e \in trace : e.scenario # mem[w].s
    BY <2>1 DEF SoleInv, SoleReading
  <2>3. CASE RunsOf(mem[w].s) = {}
    <3>1. /\ DOMAIN scenarios' = DOMAIN scenarios \ {mem[w].s}
          /\ \A s \in DOMAIN scenarios' : scenarios'[s] = scenarios[s]
      BY <1>6, <2>3 DEF DeleteRow, Without, Restrict
    <3>2. References'
      BY <2>1, <2>2, <2>3, <3>1 DEF SoleInv, References, ChildrenOf, RunsOf
    <3> QED BY <2>1, <3>2, SoleIdle, SoleStep
  <2>4. CASE RunsOf(mem[w].s) # {}
    <3>1. References'
      BY <1>6, <2>1, <2>4 DEF DeleteRow, SoleInv, References
    <3> QED BY <2>1, <3>1, SoleIdle, SoleStep
  <2> QED BY <2>3, <2>4
<1> QED BY <1>1, <1>2, <1>3, <1>4, <1>5, <1>6 DEF DeleteRequest

LEMMA SoleInit == Init => SoleInv
<1> SUFFICES ASSUME Init PROVE SoleInv
  OBVIOUS
<1>1. \A w \in Workers : pc[w] = "idle"
  BY DEF Init
<1>2. \A w \in Workers : SoleReading(w)
  BY <1>1 DEF SoleReading, OnScenario, Moving, Searching, OnDerived, ValidateCalls, RunCalls, AltCalls,
              DecideCalls, DeleteCalls
<1> DEFINE Start == IF StartSolved THEN {First} ELSE {}
<1>3. /\ DOMAIN scenarios = Start
      /\ DOMAIN runs = Start /\ \A r \in Start : runs[r].scenario = First
  BY DEF Init
<1>4. decisions = {} /\ \A e \in trace : StartSolved /\ e.scenario = First
  BY DEF Init
<1>5. References
  BY <1>3, <1>4 DEF References
<1> QED BY <1>2, <1>5 DEF SoleInv

LEMMA SoleKept ==
  ASSUME Sole, TypeInv, SoleInv, [Next]_vars
  PROVE  SoleInv'
<1>1. CASE UNCHANGED vars
  BY <1>1 DEF vars, SoleInv, References, SoleReading, Derived, ChildrenOf
<1>2. CASE Restart
  <2>1. \A w \in Workers : pc'[w] = "idle"
    BY <1>2, RestartType
  <2>2. References'
    BY <1>2 DEF Restart, tables, SoleInv, References
  <2> QED BY <2>1, <2>2, SoleIdle DEF SoleInv
<1>3. ASSUME NEW w \in Workers, Fail(w)
      PROVE  SoleInv'
  <2>1. pc'[w] = "idle"
    BY <1>3, FailType
  <2>2. References'
    BY <1>3 DEF Fail, tables, SoleInv, References
  <2> QED BY <2>1, <2>2, SoleIdle, SoleStep
<1>4. ASSUME NEW w \in Workers, Tolerate(w)
      PROVE  SoleInv'
  <2>1. /\ mem'[w] = mem[w]
        /\ \/ pc[w] = "alt_clear" /\ pc'[w] = "alt_trace"
           \/ pc[w] = "explain_check" /\ pc'[w] = "explain_save"
    BY <1>4, TolerateType
  <2>2. References' /\ scenarios' = scenarios
    BY <1>4 DEF Tolerate, tables, SoleInv, References
  <2>3. CASE pc'[w] = "alt_trace"
    <3>1. mem[w].doc.scenario \in DOMAIN scenarios /\ Derived(w) \in DOMAIN scenarios
      BY <2>1, <2>3 DEF SoleInv, SoleReading, Searching, AltCalls, OnDerived
    <3>2. Derived(w)' = Derived(w)
      BY <2>1 DEF Derived
    <3> QED BY <2>1, <2>2, <2>3, <3>1, <3>2, SoleSearchOn DEF Searching, AltCalls
  <2>4. CASE pc'[w] = "explain_save"
    <3>1. SoleReading(w)'
      BY <2>4 DEF SoleReading, OnScenario, Moving, Searching, OnDerived, ValidateCalls, RunCalls, AltCalls,
                  DecideCalls, DeleteCalls
    <3> QED BY <2>2, <3>1, SoleStep
  <2> QED BY <2>1, <2>3, <2>4
<1>5. ASSUME NEW w \in Workers, Work(w)
      PROVE  SoleInv'
  BY <1>5, SoleCreate, SoleValidate, SoleRun, SoleSearchStart, SoleSearchSave, SolePublish, SoleDecide,
     SoleExplain, SoleDelete DEF Work, AlternativeRequest
<1> QED BY <1>1, <1>2, <1>3, <1>4, <1>5 DEF Next

LEMMA SoleAlways ==
  ASSUME Sole
  PROVE  Spec => [](TypeInv /\ SoleInv)
<1>1. Init => TypeInv /\ SoleInv
  BY InitTypes, SoleInit
<1>2. TypeInv /\ SoleInv /\ [Next]_vars => TypeInv' /\ SoleInv'
  BY StepTypes, SoleKept
<1> QED BY <1>1, <1>2, PTL DEF Spec

LEMMA ScenarioWriters ==
  ASSUME NEW w \in Workers, Work(w)
  PROVE  \/ CreateSave(w) \/ AltSaveScenario(w) \/ ValidateSave(w) \/ AltSaveValidation(w)
         \/ ValidateStateSave(w) \/ RunStateSave(w) \/ DeleteRow(w) \/ scenarios' = scenarios
<1>1. CreateRequest(w) => CreateSave(w) \/ scenarios' = scenarios
  BY DEF CreateRequest, CreateNumber, CreateTrace, tables
<1>2. ValidateRequest(w) => ValidateSave(w) \/ ValidateStateSave(w) \/ scenarios' = scenarios
  BY DEF ValidateRequest, ValidateRead, ValidateStateRead, StateRead, ValidateTrace, tables
<1>3. RunRequest(w) => RunStateSave(w) \/ scenarios' = scenarios
  BY DEF RunRequest, RunRead, RunRefused, RunSolve, RunSave, RunStateRead, StateRead, RunTrace, tables
<1>4. AlternativeRequest(w) => AltSaveScenario(w) \/ AltSaveValidation(w) \/ scenarios' = scenarios
  BY DEF AlternativeRequest, AltRead, AltNoScenario, AltSearch, AltNone, AltSaveRun, OutcomeRead,
         OutcomeSave, AltClearExplanation, AltTrace, AltTraceDerived, tables
<1>5. DecisionRequest(w) \/ ExplanationRequest(w) => scenarios' = scenarios
  BY DEF DecisionRequest, DecideRead, DecideSave, DecideTrace, ExplanationRequest, ExplainRead,
         ExplainCheck, ExplainSave, tables
<1>6. DeleteRequest(w) => DeleteRow(w) \/ scenarios' = scenarios
  BY DEF DeleteRequest, DeleteCheck, DeleteList, DeleteDecisions, DeleteRuns, DeleteTrace, tables
<1> QED BY <1>1, <1>2, <1>3, <1>4, <1>5, <1>6 DEF Work

\* Only a deletion takes a scenario away, and it deletes one without children.
LEMMA StepKeepsParents ==
  ASSUME TypeInv, SoleInv, [Next]_vars
  PROVE  \A s \in DOMAIN scenarios \cap DOMAIN scenarios' :
           scenarios[s].parent \in DOMAIN scenarios => scenarios[s].parent \in DOMAIN scenarios'
<1>1. CASE DOMAIN scenarios \subseteq DOMAIN scenarios'
  BY <1>1
<1>2. ASSUME NEW w \in Workers, Work(w), ~ DOMAIN scenarios \subseteq DOMAIN scenarios'
      PROVE  DeleteRow(w)
  <2>1. ~ CreateSave(w) /\ ~ AltSaveScenario(w)
    BY <1>2 DEF CreateSave, AltSaveScenario, SaveScenario, Upsert
  <2>2. ~ ValidateSave(w) /\ ~ AltSaveValidation(w)
    BY <1>2 DEF ValidateSave, AltSaveValidation
  <2>3. ~ ValidateStateSave(w) /\ ~ RunStateSave(w)
    BY <1>2 DEF ValidateStateSave, RunStateSave, StateSave, SaveScenario, Upsert
  <2> QED BY <1>2, <2>1, <2>2, <2>3, ScenarioWriters
<1>3. ASSUME NEW w \in Workers, DeleteRow(w)
      PROVE  \A s \in DOMAIN scenarios :
               scenarios[s].parent \in DOMAIN scenarios => scenarios[s].parent \in DOMAIN scenarios'
  <2>1. ChildrenOf(mem[w].s) = {}
    BY <1>3 DEF DeleteRow, Continue, SoleInv, SoleReading, DeleteCalls
  <2>2. DOMAIN scenarios \ {mem[w].s} \subseteq DOMAIN scenarios'
    BY <1>3 DEF DeleteRow, Without, Restrict
  <2> QED BY <2>1, <2>2 DEF ChildrenOf
<1> QED BY <1>1, <1>2, <1>3 DEF Next, vars, Restart, Fail, Tolerate, tables

\* For a client that sends one request after another, no scenario's stored
\* parent is deleted while it stands, whether a search derived it or its
\* caller named the parent, and whatever crashes or fails: the deletion
\* checked for children (scenarios.py:177-181).  Of two clients, one may
\* derive from a scenario the other has just checked.
THEOREM ParentsStay ==
  ASSUME Sole
  PROVE  Spec => ChildrenKeepParents
<1>1. TypeInv /\ SoleInv /\ [Next]_vars =>
        [\A s \in DOMAIN scenarios \cap DOMAIN scenarios' :
           scenarios[s].parent \in DOMAIN scenarios => scenarios[s].parent \in DOMAIN scenarios']_vars
  BY StepKeepsParents
<1> QED BY <1>1, SoleAlways, PTL DEF Spec, ChildrenKeepParents

\* Nor does a deletion leave a trace, a run or a decision behind, wherever
\* it is cut off (scenarios.py:176, storage.py:337-345).
THEOREM NothingOutlives ==
  ASSUME Sole
  PROVE  Spec => []NothingOutlivesItsScenario
<1>1. SoleInv => NothingOutlivesItsScenario
  BY DEF SoleInv, References, NothingOutlivesItsScenario
<1> QED BY <1>1, SoleAlways, PTL

-----------------------------------------------------------------------------
(* One client: a stored scenario's snapshot and state. *)

LEMMA CountersStay ==
  ASSUME TypeInv, NEW w \in Workers, Work(w) \/ Fail(w) \/ Tolerate(w)
  PROVE  /\ CreateNumber(w) \/ (seq'["scenario"] = seq["scenario"] /\ pc'[w] # "create_save")
         /\ AltSearch(w) \/ (seq'["alternative"] = seq["alternative"] /\ pc'[w] # "alt_scenario")
<1> DEFINE Stay == /\ seq'["scenario"] = seq["scenario"] /\ seq'["alternative"] = seq["alternative"]
                   /\ pc'[w] \notin {"create_save", "alt_scenario"}
<1>1. pc \in [Workers -> Calls]
      /\ seq \in [{"scenario", "run", "alternative"} -> Nat \cup {Unread}]
  BY DEF TypeInv, TypeOK, WorkersOK
<1>2. CASE Fail(w) \/ Tolerate(w)
  <2>1. Stay
    BY <1>1, <1>2, TolerateType DEF Fail, Tolerate
  <2> QED BY <2>1
<1>3. CASE CreateNumber(w)
  <2>1. seq'["alternative"] = seq["alternative"]
    BY <1>1, <1>3 DEF CreateNumber, Number
  <2>2. pc'[w] = "create_save"
    BY <1>1, <1>3 DEF CreateNumber, Arrive
  <2> QED BY <1>3, <2>1, <2>2
<1>4. CASE CreateSave(w) \/ CreateTrace(w)
  <2>1. Stay
    BY <1>1, <1>4 DEF CreateSave, CreateTrace, Continue
  <2> QED BY <2>1
<1>5. CASE ValidateRequest(w)
  <2>1. seq' = seq
    BY <1>5 DEF ValidateRequest, ValidateRead, ValidateSave, ValidateStateRead, ValidateStateSave,
                ValidateTrace, StateRead, StateSave
  <2>2. CASE ValidateRead(w) \/ ValidateTrace(w)
    BY <1>1, <2>1, <2>2 DEF ValidateRead, ValidateTrace, Arrive, Continue
  <2>3. CASE ValidateSave(w)
    BY <1>1, <2>1, <2>3 DEF ValidateSave, Continue
  <2>4. CASE ValidateStateRead(w) \/ ValidateStateSave(w)
    BY <1>1, <2>1, <2>4 DEF ValidateStateRead, ValidateStateSave, StateRead, StateSave, Continue, Remember
  <2> QED BY <1>5, <2>2, <2>3, <2>4 DEF ValidateRequest
<1>6. CASE RunRequest(w)
  <2>1. seq'["scenario"] = seq["scenario"] /\ seq'["alternative"] = seq["alternative"]
    <3>1. CASE RunSolve(w)
      BY <1>1, <3>1 DEF RunSolve, Number
    <3> QED BY <1>6, <3>1 DEF RunRequest, RunRead, RunRefused, RunSave, RunStateRead, RunStateSave,
                              RunTrace, StateRead, StateSave
  <2>2. CASE RunRead(w) \/ RunRefused(w) \/ RunTrace(w)
    BY <1>1, <2>1, <2>2 DEF RunRead, RunRefused, RunTrace, Arrive, Continue
  <2>3. CASE RunSolve(w)
    BY <1>1, <2>1, <2>3 DEF RunSolve, Continue, Remember
  <2>4. CASE RunSave(w)
    BY <1>1, <2>1, <2>4 DEF RunSave, Continue
  <2>5. CASE RunStateRead(w) \/ RunStateSave(w)
    BY <1>1, <2>1, <2>5 DEF RunStateRead, RunStateSave, StateRead, StateSave, Continue, Remember
  <2> QED BY <1>6, <2>2, <2>3, <2>4, <2>5 DEF RunRequest
<1>7. CASE AltSearch(w)
  <2>1. seq'["scenario"] = seq["scenario"]
    BY <1>1, <1>7 DEF AltSearch, Number
  <2>2. pc'[w] # "create_save"
    BY <1>1, <1>7 DEF AltSearch, Continue, Remember
  <2> QED BY <1>7, <2>1, <2>2
<1>8. CASE AlternativeRequest(w) /\ ~ AltSearch(w)
  <2>1. seq' = seq
    BY <1>8 DEF AlternativeRequest, AltRead, AltNoScenario, AltNone, AltSaveScenario, AltSaveRun,
                AltSaveValidation, OutcomeRead, OutcomeSave, AltClearExplanation, AltTrace, AltTraceDerived
  <2>2. CASE AltRead(w) \/ AltNoScenario(w) \/ AltNone(w) \/ AltSaveScenario(w)
    BY <1>1, <2>1, <2>2 DEF AltRead, AltNoScenario, AltNone, AltSaveScenario, Arrive, Continue
  <2>3. CASE AltSaveRun(w) \/ AltSaveValidation(w) \/ OutcomeRead(w)
    BY <1>1, <2>1, <2>3 DEF AltSaveRun, AltSaveValidation, OutcomeRead, Continue, Remember
  <2>4. CASE OutcomeSave(w) \/ AltClearExplanation(w) \/ AltTrace(w) \/ AltTraceDerived(w)
    BY <1>1, <2>1, <2>4 DEF OutcomeSave, AltClearExplanation, AltTrace, AltTraceDerived, Continue
  <2> QED BY <1>8, <2>2, <2>3, <2>4 DEF AlternativeRequest
<1>9. CASE DecisionRequest(w) \/ ExplanationRequest(w)
  <2>1. Stay
    BY <1>1, <1>9 DEF DecisionRequest, DecideRead, DecideSave, DecideTrace, ExplanationRequest,
                      ExplainRead, ExplainCheck, ExplainSave, Arrive, Continue
  <2> QED BY <2>1
<1>10. CASE DeleteRequest(w)
  <2>1. Stay
    BY <1>1, <1>10 DEF DeleteRequest, DeleteCheck, DeleteList, DeleteDecisions, DeleteRuns, DeleteTrace,
                       DeleteRow, Arrive, Continue, Remember
  <2> QED BY <2>1
<1> QED BY <1>2, <1>3, <1>4, <1>5, <1>6, <1>7, <1>8, <1>9, <1>10 DEF Work, CreateRequest

\* A scenario's row keeps its snapshot and its parent, and its state does not
\* move backwards.
Onward(s) ==
  /\ scenarios'[s].input = scenarios[s].input /\ scenarios'[s].parent = scenarios[s].parent
  /\ Progress[scenarios[s].state] <= Progress[scenarios'[s].state]

LEMMA ProgressOrder ==
  /\ \A state \in {"VALIDATION_REQUIRED", "READY_TO_SOLVE", "SOLVED"} :
       Progress[state] <= Progress[state] /\ Progress[state] <= Progress["SOLVED"]
  /\ Progress["VALIDATION_REQUIRED"] <= Progress["READY_TO_SOLVE"]
<1>1. /\ Progress["VALIDATION_REQUIRED"] = 1
      /\ Progress["READY_TO_SOLVE"] = 2 /\ Progress["SOLVED"] = 3
  BY DEF Progress
<1> QED BY <1>1

\* What each call does to the scenarios that were there.
LEMMA ScenarioTable ==
  ASSUME Sole, TypeInv, SoleInv, NEW w \in Workers, Work(w)
  PROVE  \/ CreateSave(w) \/ AltSaveScenario(w)
         \/ /\ DOMAIN scenarios' \subseteq DOMAIN scenarios
            /\ \A s \in DOMAIN scenarios' : Onward(s)
<1> DEFINE Moved == /\ DOMAIN scenarios' \subseteq DOMAIN scenarios
                    /\ \A s \in DOMAIN scenarios' : Onward(s)
<1>1. \A s \in DOMAIN scenarios : scenarios[s] \in ScenarioRow
  BY WorkerHolds DEF ScenariosOK
<1>2. \A s \in DOMAIN scenarios : Progress[scenarios[s].state] <= Progress[scenarios[s].state]
  BY <1>1, ProgressOrder DEF ScenarioRow
<1>3. ASSUME DOMAIN scenarios' \subseteq DOMAIN scenarios,
             \A s \in DOMAIN scenarios' : /\ scenarios'[s].state = scenarios[s].state
                                          /\ scenarios'[s].input = scenarios[s].input
                                          /\ scenarios'[s].parent = scenarios[s].parent
      PROVE  Moved
  BY <1>2, <1>3 DEF Onward
<1>4. ASSUME NEW from \in {"validate_put", "run_put"}, NEW after \in {"validate_trace", "run_trace"},
             NEW state \in {"READY_TO_SOLVE", "SOLVED"}, StateSave(w, from, state, after),
             from = "validate_put" <=> state = "READY_TO_SOLVE"
      PROVE  Moved
  <2>1. /\ mem[w].s \in DOMAIN scenarios /\ DOMAIN scenarios' = DOMAIN scenarios
        /\ \A t \in DOMAIN scenarios : t # mem[w].s => scenarios'[t] = scenarios[t]
        /\ scenarios'[mem[w].s].state = state
        /\ scenarios'[mem[w].s].input = scenarios[mem[w].s].input
        /\ scenarios'[mem[w].s].parent = scenarios[mem[w].s].parent
    BY <1>4, SoleStateSave
  <2>2. pc[w] = from
    BY <1>4 DEF StateSave, Continue
  <2>3. from = "validate_put" => scenarios[mem[w].s].state = "VALIDATION_REQUIRED"
    BY <2>2 DEF SoleInv, SoleReading, Moving
  <2>4. Progress[scenarios[mem[w].s].state] <= Progress[state]
    BY <1>1, <1>4, <2>1, <2>3, ProgressOrder DEF ScenarioRow
  <2>5. \A s \in DOMAIN scenarios' : Onward(s)
    BY <1>2, <2>1, <2>4 DEF Onward
  <2> QED BY <2>1, <2>5
<1>5. CASE scenarios' = scenarios
  BY <1>3, <1>5
<1>6. CASE ValidateSave(w) \/ AltSaveValidation(w)
  <2>1. PICK s : scenarios' = IF s \in DOMAIN scenarios
                              THEN [scenarios EXCEPT ![s].validated = TRUE] ELSE scenarios
    BY <1>6 DEF ValidateSave, AltSaveValidation
  <2>2. runs' = runs
    BY <1>6 DEF ValidateSave, AltSaveValidation
  <2>3. /\ DOMAIN scenarios' = DOMAIN scenarios
        /\ \A t \in DOMAIN scenarios : /\ scenarios'[t].state = scenarios[t].state
                                       /\ scenarios'[t].input = scenarios[t].input
                                       /\ scenarios'[t].parent = scenarios[t].parent
    BY <2>1, <2>2, MarkGrows
  <2> QED BY <1>3, <2>3
<1>7. CASE ValidateStateSave(w) \/ RunStateSave(w)
  <2>1. CASE ValidateStateSave(w)
    BY <1>4, <2>1 DEF ValidateStateSave
  <2>2. CASE RunStateSave(w)
    BY <1>4, <2>2 DEF RunStateSave
  <2> QED BY <1>7, <2>1, <2>2
<1>8. CASE DeleteRow(w)
  <2>1. /\ DOMAIN scenarios' \subseteq DOMAIN scenarios
        /\ \A s \in DOMAIN scenarios' : scenarios'[s] = scenarios[s]
    BY <1>8 DEF DeleteRow, Without, Restrict
  <2> QED BY <1>3, <2>1
<1>9. \/ CreateSave(w) \/ AltSaveScenario(w) \/ ValidateSave(w) \/ AltSaveValidation(w)
      \/ ValidateStateSave(w) \/ RunStateSave(w) \/ DeleteRow(w) \/ scenarios' = scenarios
  BY ScenarioWriters
<1> QED BY <1>5, <1>6, <1>7, <1>8, <1>9

LEMMA SoleWorker == ASSUME Sole, NEW w \in Workers PROVE \A v \in Workers : v = w
BY DEF Sole

\* A number read off the scenarios is beyond those a caller created.
LEMMA CreationTaken ==
  ASSUME Sole, TypeInv, ~ ScanMayFail, CreationNumbered, NEW w \in Workers, CreateNumber(w)
  PROVE  CreationNumbered'
<1> DEFINE n == seq'["scenario"]
           numbers == Numbers(scenarios, "BASE")
<1>1. Number("scenario", numbers) /\ scenarios' = scenarios
  BY DEF CreateNumber, tables
<1>2. DOMAIN scenarios \subseteq Ids /\ IsFiniteSet(DOMAIN scenarios)
      /\ seq \in [{"scenario", "run", "alternative"} -> Nat \cup {Unread}]
  BY WorkerHolds DEF ScenariosOK, TypeInv, TypeOK
<1>3. numbers \subseteq Nat /\ IsFiniteSet(numbers)
  BY <1>2, NumbersFinite
<1>4. \A s \in DOMAIN scenarios : s[1] = "BASE" => s[2] \in numbers
  BY DEF Numbers
<1> HIDE DEF numbers
<1>5. PICK last \in IF seq["scenario"] = Unread THEN Scanned(numbers) ELSE {seq["scenario"]} :
        seq' = [seq EXCEPT !["scenario"] = last + 1]
  BY <1>1 DEF Number
<1>6. last \in Nat /\ \A s \in DOMAIN scenarios : s[1] = "BASE" => s[2] <= last
  <2>1. CASE seq["scenario"] = Unread
    BY <1>3, <1>4, <1>5, <2>1, HighestBounds DEF Scanned
  <2>2. CASE seq["scenario"] # Unread
    BY <1>2, <1>5, <2>2 DEF CreationNumbered
  <2> QED BY <2>1, <2>2
<1>7. n = last + 1
  BY <1>2, <1>5
<1>8. pc'[w] = "create_save" /\ mem'[w].s = <<"BASE", n>>
  <2>1. PICK candidates \in BOOLEAN, parent \in {Nothing} \cup Nameable :
          Arrive(w, "create", "create_save",
            [s |-> <<"BASE", seq'["scenario"]>>,
             doc |-> [state |-> "VALIDATION_REQUIRED", parent |-> parent,
                      input |-> [candidates |-> candidates, changed |-> Nothing]]])
    BY DEF CreateNumber
  <2> QED BY <2>1, ArriveMoves DEF Kinds
<1> HIDE DEF n
<1>9. n \in Nat /\ n # Unread /\ \A s \in DOMAIN scenarios : s[1] = "BASE" => s[2] < n
  BY <1>2, <1>6, <1>7 DEF Unread, Ids
<1>10. seq'["scenario"] = n
  BY DEF n
<1>11. mem'[w].s \notin DOMAIN scenarios /\ mem'[w].s[1] = "BASE" /\ mem'[w].s[2] = n
  BY <1>8, <1>9
<1> QED BY <1>1, <1>2, <1>9, <1>10, <1>11, SoleWorker DEF CreationNumbered, Ids

LEMMA CreationKept ==
  ASSUME Sole, TypeInv, SoleInv, ~ ScanMayFail, CreationNumbered, [Next]_vars
  PROVE  CreationNumbered'
<1>1. CASE UNCHANGED vars
  BY <1>1 DEF vars, CreationNumbered
<1>2. CASE Restart
  <2>1. seq'["scenario"] = Unread /\ \A w \in Workers : pc'[w] = "idle"
    BY <1>2 DEF Restart, TypeInv, TypeOK
  <2> QED BY <2>1 DEF CreationNumbered
<1>3. ASSUME NEW w \in Workers, Work(w) \/ Fail(w) \/ Tolerate(w), ~ CreateNumber(w)
      PROVE  CreationNumbered'
  <2>1. seq'["scenario"] = seq["scenario"] /\ pc'[w] # "create_save"
    BY <1>3, CountersStay
  <2>2. \A s \in DOMAIN scenarios' :
          s[1] = "BASE" => s \in DOMAIN scenarios \/ (pc[w] = "create_save" /\ s = mem[w].s)
    <3>1. CASE Fail(w) \/ Tolerate(w)
      BY <3>1 DEF Fail, Tolerate, tables
    <3>2. CASE CreateSave(w)
      <4>1. pc[w] = "create_save" /\ DOMAIN scenarios' = DOMAIN scenarios \cup {mem[w].s}
        BY <3>2 DEF CreateSave, Continue, SaveScenario, Upsert
      <4> QED BY <4>1
    <3>3. CASE AltSaveScenario(w)
      <4>1. DOMAIN scenarios' = DOMAIN scenarios \cup {Derived(w)} /\ Derived(w)[1] = "ALT"
        BY <3>3, SaveDerivedScenario DEF Derived
      <4> QED BY <4>1
    <3> QED BY <1>3, <3>1, <3>2, <3>3, ScenarioTable
  <2> QED BY <2>1, <2>2, SoleWorker DEF CreationNumbered
<1> QED BY <1>1, <1>2, <1>3, CreationTaken DEF Next

\* A scenario created under a number that is new leaves the others alone.
LEMMA CreateLeavesOthers ==
  ASSUME TypeInv, SoleInv, CreationNumbered, NEW w \in Workers, CreateSave(w)
  PROVE  \A s \in DOMAIN scenarios \cap DOMAIN scenarios' : Onward(s)
<1>1. pc[w] = "create_save"
  BY DEF CreateSave, Continue
<1>2. mem[w].s \notin DOMAIN scenarios
  BY <1>1 DEF CreationNumbered
<1>3. \A s \in DOMAIN scenarios : scenarios'[s] = scenarios[s] /\ scenarios[s] \in ScenarioRow
  BY <1>2, WorkerHolds DEF CreateSave, SaveScenario, Upsert, ScenariosOK
<1> QED BY <1>3, ProgressOrder DEF Onward, ScenarioRow

LEMMA StepNeverBackwards ==
  ASSUME Sole, TypeInv, SoleInv, CreationNumbered, [Next]_vars
  PROVE  \A s \in DOMAIN scenarios \cap DOMAIN scenarios' :
           Progress[scenarios[s].state] <= Progress[scenarios'[s].state]
<1>1. \A s \in DOMAIN scenarios :
        Progress[scenarios[s].state] <= Progress[scenarios[s].state]
        /\ Progress[scenarios[s].state] <= Progress["SOLVED"]
  BY ProgressOrder DEF ScenarioRow, TypeInv, TypeOK
<1>2. CASE scenarios' = scenarios
  BY <1>1, <1>2
<1>3. ASSUME NEW w \in Workers, Work(w)
      PROVE  \A s \in DOMAIN scenarios \cap DOMAIN scenarios' :
               Progress[scenarios[s].state] <= Progress[scenarios'[s].state]
  <2>1. CASE AltSaveScenario(w)
    <3>1. \A t \in DOMAIN scenarios : t # Derived(w) => scenarios'[t] = scenarios[t]
      BY <2>1, SaveDerivedScenario
    <3>2. scenarios'[Derived(w)].state = "SOLVED"
      <4>1. scenarios'[Derived(w)] =
              [state |-> "SOLVED", input |-> [candidates |-> TRUE, changed |-> mem[w].o],
               parent |-> mem[w].doc.scenario,
               validated |-> Derived(w) \in DOMAIN scenarios /\ scenarios[Derived(w)].validated]
        BY <2>1, SaveDerivedScenario
      <4> QED BY <4>1
    <3> QED BY <1>1, <3>1, <3>2
  <2> QED BY <1>3, <2>1, ScenarioTable, CreateLeavesOthers DEF Onward
<1> QED BY <1>2, <1>3 DEF Next, vars, Restart, Fail, Tolerate, tables

\* For a client that sends one request after another, no request moves a
\* scenario backwards (scenarios.py:221-227), across restarts too: a state
\* is written over the one its handler read, and a created scenario takes a
\* number no stored one has, as long as the scan for it does not fail.  Two
\* clients can: a validation writes READY_TO_SOLVE over the SOLVED of a run.
THEOREM StatesAdvance ==
  ASSUME Sole, ~ ScanMayFail
  PROVE  Spec => StateNeverBackwards
<1>1. Init => CreationNumbered
  BY DEF Init, CreationNumbered
<1>2. TypeInv /\ SoleInv /\ CreationNumbered /\ [Next]_vars => CreationNumbered'
  BY CreationKept
<1>3. TypeInv /\ SoleInv /\ CreationNumbered /\ [Next]_vars =>
        [\A s \in DOMAIN scenarios \cap DOMAIN scenarios' :
           Progress[scenarios[s].state] <= Progress[scenarios'[s].state]]_vars
  BY StepNeverBackwards
<1> QED BY <1>1, <1>2, <1>3, SoleAlways, PTL DEF Spec, StateNeverBackwards

LEMMA DerivationTaken ==
  ASSUME Sole, TypeInv, DerivationNumbered, NEW w \in Workers, AltSearch(w)
  PROVE  DerivationNumbered'
<1> DEFINE n == seq'["alternative"]
<1>1. pc[w] = "alt_search" /\ scenarios' = scenarios /\ Number("alternative", Numbers(runs, "ALT"))
  BY DEF AltSearch, tables
<1>2. seq \in [{"scenario", "run", "alternative"} -> Nat \cup {Unread}] /\ RunsOK
      /\ DOMAIN scenarios \subseteq Ids
  BY WorkerHolds DEF TypeInv, TypeOK, ScenariosOK
<1>3. n \in Nat
  BY <1>1, <1>2, NumberType DEF RunsOK
<1>4. seq["alternative"] # Unread => n = seq["alternative"] + 1
  BY <1>1, <1>2 DEF Number
<1> HIDE DEF n
<1>5. n # Unread /\ \A s \in DOMAIN scenarios : s[1] = "ALT" => s[2] < n
  BY <1>2, <1>3, <1>4 DEF DerivationNumbered, Unread, Ids
<1>6. seq'["alternative"] = n
  BY DEF n
<1>7. pc'[w] = "alt_scenario" => mem'[w].n = n
  <2>1. mem[w] \in [r : Ids, o : Orders, doc : RunRow, verdict : {Nothing}, n : {Nothing}]
    BY <1>1, WorkerHolds, Memories
  <2>2. CASE Continue(w, "alt_search", "idle")
    BY <2>2, WorkerHolds, ContinueMoves
  <2>3. ASSUME NEW verdict \in Verdicts, NEW to,
               Remember(w, "alt_search", to, [mem[w] EXCEPT !.verdict = verdict, !.n = n])
        PROVE  mem'[w].n = n
    <3> DEFINE read == [mem[w] EXCEPT !.verdict = verdict, !.n = n]
    <3>1. read.n = n /\ Remember(w, "alt_search", to, read)
      BY <2>1, <2>3
    <3> HIDE DEF read
    <3>2. mem'[w] = read
      BY <3>1, WorkerHolds, RememberMoves
    <3> QED BY <3>1, <3>2
  <2> QED BY <1>6, <2>2, <2>3 DEF AltSearch
<1>8. pc'[w] = "alt_scenario" => Derived(w)' = <<"ALT", n>>
  BY <1>7 DEF Derived
<1>9. pc'[w] = "alt_scenario" => Derived(w)' \notin DOMAIN scenarios
  BY <1>2, <1>5, <1>8 DEF Ids
<1>10. \A s \in DOMAIN scenarios' : s[1] = "ALT" => s[2] <= n
  BY <1>1, <1>2, <1>3, <1>5 DEF Ids
<1>11. \A v \in Workers : pc'[v] = "alt_scenario" =>
         Derived(v)' \notin DOMAIN scenarios' /\ mem'[v].n <= n
  BY <1>1, <1>3, <1>7, <1>9, SoleWorker
<1> QED BY <1>5, <1>6, <1>10, <1>11 DEF DerivationNumbered

LEMMA DerivationKept ==
  ASSUME Sole, TypeInv, SoleInv, CreationNumbered, DerivationNumbered, [Next]_vars, ~ Restart
  PROVE  DerivationNumbered'
<1>1. CASE UNCHANGED vars
  BY <1>1 DEF vars, DerivationNumbered, Derived
<1>2. ASSUME NEW w \in Workers, Work(w) \/ Fail(w) \/ Tolerate(w), ~ AltSearch(w)
      PROVE  DerivationNumbered'
  <2>1. seq'["alternative"] = seq["alternative"] /\ pc'[w] # "alt_scenario"
    BY <1>2, CountersStay
  <2>2. \A s \in DOMAIN scenarios' :
          s[1] = "ALT" => s \in DOMAIN scenarios \/ (pc[w] = "alt_scenario" /\ s[2] = mem[w].n)
    <3>1. CASE Fail(w) \/ Tolerate(w)
      BY <3>1 DEF Fail, Tolerate, tables
    <3>2. CASE CreateSave(w)
      <4>1. mem[w].s[1] = "BASE" /\ DOMAIN scenarios' = DOMAIN scenarios \cup {mem[w].s}
        BY <3>2 DEF CreateSave, Continue, SaveScenario, Upsert, CreationNumbered
      <4> QED BY <4>1
    <3>3. CASE AltSaveScenario(w)
      <4>1. pc[w] = "alt_scenario" /\ DOMAIN scenarios' = DOMAIN scenarios \cup {Derived(w)}
        BY <3>3, SaveDerivedScenario DEF AltSaveScenario, Continue
      <4> QED BY <4>1 DEF Derived
    <3> QED BY <1>2, <3>1, <3>2, <3>3, ScenarioTable
  <2> QED BY <2>1, <2>2, SoleWorker DEF DerivationNumbered
<1> QED BY <1>1, <1>2, DerivationTaken DEF Next

\* A crash or a failure takes one of those left to happen, and no request
\* adds to them.
LEMMA QuotaFalls ==
  ASSUME TypeInv, NEW kind \in {"crash", "failure"}, [Next]_vars
  PROVE  /\ quota[kind] \in Nat /\ quota'[kind] \in Nat /\ quota'[kind] <= quota[kind]
         /\ kind = "crash" /\ Restart => quota'[kind] < quota[kind]
         /\ \A w \in Workers :
              kind = "failure" /\ (Fail(w) \/ Tolerate(w)) => quota'[kind] < quota[kind]
<1>1. quota \in [Kinds -> Nat] /\ kind \in Kinds
  BY DEF TypeInv, TypeOK, Kinds
<1>2. CASE UNCHANGED vars
  BY <1>1, <1>2 DEF vars, Restart, Fail, Tolerate
<1>3. ASSUME Restart
      PROVE  /\ quota'[kind] = IF kind = "crash" THEN quota[kind] - 1 ELSE quota[kind]
             /\ kind = "crash" => quota[kind] > 0
  BY <1>1, <1>3 DEF Restart
<1>4. ASSUME NEW w \in Workers, Fail(w) \/ Tolerate(w)
      PROVE  /\ quota'[kind] = IF kind = "failure" THEN quota[kind] - 1 ELSE quota[kind]
             /\ kind = "failure" => quota[kind] > 0
  BY <1>1, <1>4 DEF Fail, Tolerate
<1>5. ASSUME NEW w \in Workers, Work(w)
      PROVE  quota'[kind] = quota[kind]
  <2>1. CASE quota' = quota
    BY <2>1
  <2>2. ASSUME NEW k \in Kinds \ {"crash", "failure"}, quota' = [quota EXCEPT ![k] = @ - 1]
        PROVE  quota'[kind] = quota[kind]
    BY <1>1, <2>2
  <2>3. CASE CreateRequest(w) \/ ValidateRequest(w)
    BY <2>1, <2>2, <2>3 DEF CreateRequest, CreateNumber, CreateSave, CreateTrace, ValidateRequest,
         ValidateRead, ValidateSave, ValidateStateRead, ValidateStateSave, ValidateTrace, StateRead,
         StateSave, Arrive, Continue, Remember, Kinds
  <2>4. CASE RunRequest(w)
    BY <2>1, <2>2, <2>4 DEF RunRequest, RunRead, RunRefused, RunSolve, RunSave, RunStateRead,
         RunStateSave, RunTrace, StateRead, StateSave, Arrive, Continue, Remember, Kinds
  <2>5. CASE AlternativeRequest(w)
    <3>1. CASE AltRead(w) \/ AltNoScenario(w) \/ AltSearch(w) \/ AltNone(w) \/ AltSaveScenario(w)
      BY <2>1, <2>2, <3>1 DEF AltRead, AltNoScenario, AltSearch, AltNone, AltSaveScenario, Arrive, Continue,
           Remember, Kinds
    <3>2. CASE \/ AltSaveRun(w) \/ AltSaveValidation(w) \/ OutcomeRead(w) \/ OutcomeSave(w)
               \/ AltClearExplanation(w) \/ AltTrace(w) \/ AltTraceDerived(w)
      BY <2>1, <3>2 DEF AltSaveRun, AltSaveValidation, OutcomeRead, OutcomeSave, AltClearExplanation,
           AltTrace, AltTraceDerived, Continue, Remember
    <3> QED BY <2>5, <3>1, <3>2 DEF AlternativeRequest
  <2>6. CASE DecisionRequest(w) \/ ExplanationRequest(w) \/ DeleteRequest(w)
    BY <2>1, <2>2, <2>6 DEF DecisionRequest, DecideRead, DecideSave, DecideTrace, ExplanationRequest,
         ExplainRead, ExplainCheck, ExplainSave, DeleteRequest, DeleteCheck, DeleteList, DeleteDecisions,
         DeleteRuns, DeleteTrace, DeleteRow, Arrive, Continue, Remember, Kinds
  <2> QED BY <1>5, <2>3, <2>4, <2>5, <2>6 DEF Work
<1>6. \/ UNCHANGED vars \/ Restart
      \/ \E w \in Workers : Work(w) \/ Fail(w) \/ Tolerate(w)
  BY DEF Next
<1>7. quota[kind] \in Nat
  BY <1>1
<1>8. CASE Restart
  BY <1>3, <1>4, <1>7, <1>8
<1>9. CASE \E w \in Workers : Fail(w) \/ Tolerate(w)
  BY <1>3, <1>4, <1>7, <1>9
<1>10. CASE /\ ~ Restart /\ \A w \in Workers : ~ Fail(w) /\ ~ Tolerate(w)
            /\ \E w \in Workers : Work(w)
  BY <1>5, <1>7, <1>10
<1> QED BY <1>2, <1>6, <1>8, <1>9, <1>10

LEMMA QuotaSpent ==
  ASSUME TypeInv, NEW kind \in {"crash", "failure"}, quota[kind] = 0, [Next]_vars
  PROVE  /\ quota'[kind] = 0
         /\ kind = "crash" => ~ Restart
         /\ kind = "failure" => \A w \in Workers : ~ Fail(w) /\ ~ Tolerate(w)
BY QuotaFalls

LEMMA StepKeepsSnapshots ==
  ASSUME Sole, TypeInv, SoleInv, CreationNumbered, DerivationNumbered, [Next]_vars
  PROVE  \A s \in DOMAIN scenarios \cap DOMAIN scenarios' :
           /\ scenarios'[s].input = scenarios[s].input
           /\ scenarios'[s].parent = scenarios[s].parent
<1>1. ASSUME NEW w \in Workers, Work(w)
      PROVE  \A s \in DOMAIN scenarios \cap DOMAIN scenarios' :
               /\ scenarios'[s].input = scenarios[s].input
               /\ scenarios'[s].parent = scenarios[s].parent
  <2>1. CASE AltSaveScenario(w)
    <3>1. pc[w] = "alt_scenario"
      BY <2>1 DEF AltSaveScenario, Continue
    <3>2. Derived(w) \notin DOMAIN scenarios
      BY <3>1 DEF DerivationNumbered
    <3>3. \A t \in DOMAIN scenarios : t # Derived(w) => scenarios'[t] = scenarios[t]
      BY <2>1, SaveDerivedScenario
    <3> QED BY <3>2, <3>3
  <2> QED BY <1>1, <2>1, ScenarioTable, CreateLeavesOthers DEF Onward
<1> QED BY <1>1 DEF Next, vars, Restart, Fail, Tolerate, tables

\* For a client that sends one request after another, a stored scenario
\* keeps the snapshot and the parent it was created with (scenarios.py:52-56,
\* storage.py:510-511), as long as the process stays up.  A crash between a
\* derived scenario and its run loses the number the scenario was given, and
\* the next search writes its own scenario over it.
THEOREM SnapshotsStay ==
  ASSUME Sole, ~ ScanMayFail, Quota["crash"] = 0
  PROVE  Spec => SnapshotsImmutable
<1> DEFINE Numbered == CreationNumbered /\ DerivationNumbered /\ quota["crash"] = 0
<1>1. Init => Numbered
  BY DEF Init, CreationNumbered, DerivationNumbered, First
<1>2. TypeInv /\ SoleInv /\ Numbered /\ [Next]_vars => Numbered'
  BY CreationKept, DerivationKept, QuotaSpent
<1>3. TypeInv /\ SoleInv /\ Numbered /\ [Next]_vars =>
        [\A s \in DOMAIN scenarios \cap DOMAIN scenarios' :
           /\ scenarios'[s].input = scenarios[s].input
           /\ scenarios'[s].parent = scenarios[s].parent]_vars
  BY StepKeepsSnapshots
<1> HIDE DEF Numbered
<1> QED BY <1>1, <1>2, <1>3, SoleAlways, PTL DEF Spec, SnapshotsImmutable

-----------------------------------------------------------------------------
(* One client: what a stored explanation says. *)

FreshInv == CountersLead /\ HeldRunsFree /\ Explained

LEMMA SoleOthersStay == ASSUME Sole, NEW w \in Workers PROVE OthersStay(w)
BY DEF Sole, OthersStay

\* Only the handler that changed a run's outcomes has an explanation to clear.
LEMMA ExplanationsStand ==
  ASSUME Sole, Explained, NEW w \in Workers, pc[w] # "alt_clear"
  PROVE  \A r \in DOMAIN runs : runs[r].explanation \in {Nothing, runs[r].outcomes}
BY SoleWorker DEF Explained

LEMMA ExplainedKept ==
  ASSUME Sole, NEW w \in Workers,
         \A r \in DOMAIN runs' : \/ runs'[r].explanation \in {Nothing, runs'[r].outcomes}
                                 \/ pc'[w] = "alt_clear" /\ mem'[w].r = r,
         pc'[w] \in ExplainCalls \cup Searching => mem'[w].r \in DOMAIN runs',
         pc'[w] \in ExplainCalls => mem'[w].outcomes = runs'[mem'[w].r].outcomes
  PROVE  Explained'
BY SoleWorker DEF Explained

\* A call that leaves the runs and their numbers alone.
Quiet(w) ==
  /\ runs' = runs /\ seq'["run"] = seq["run"] /\ seq'["alternative"] = seq["alternative"]
  /\ pc[w] # "alt_clear" /\ ~ HoldsRun(w)'
  /\ \/ pc'[w] \notin ExplainCalls \cup Searching
     \/ pc[w] \in Searching /\ pc'[w] \in Searching /\ mem'[w].r = mem[w].r

LEMMA QuietFresh ==
  ASSUME Sole, TypeInv, FreshInv, NEW w \in Workers, Quiet(w)
  PROVE  FreshInv'
<1>1. CountersLead' /\ HeldRunsFree'
  BY SoleOthersStay, NumbersKept DEF Quiet, FreshInv
<1>2. \A r \in DOMAIN runs : runs[r].explanation \in {Nothing, runs[r].outcomes}
  BY ExplanationsStand DEF Quiet, FreshInv
<1>3. pc'[w] \in ExplainCalls \cup Searching => mem'[w].r \in DOMAIN runs
  BY DEF Quiet, FreshInv, Explained
<1>4. pc'[w] \notin ExplainCalls
  BY Paths DEF Quiet
<1> QED BY <1>1, <1>2, <1>3, <1>4, ExplainedKept DEF Quiet, FreshInv

\* The calls with which the runs, their numbers or the explanations change.
Changing(w) ==
  \/ RunSolve(w) \/ RunSave(w) \/ AltRead(w) \/ AltSearch(w) \/ AltSaveScenario(w) \/ AltSaveRun(w)
  \/ OutcomeSave(w) \/ AltClearExplanation(w) \/ ExplanationRequest(w) \/ DeleteRuns(w)

LEMMA OthersQuiet ==
  ASSUME TypeInv, SoleInv, "NONE" \notin Verdicts, NEW w \in Workers, Work(w), ~ Changing(w)
  PROVE  Quiet(w)
<1> DEFINE Elsewhere == pc[w] # "alt_clear" /\ ~ HoldsRun(w)' /\ pc'[w] \notin ExplainCalls \cup Searching
<1>1. pc \in [Workers -> Calls]
  BY DEF TypeInv, WorkersOK
<1>2. seq'["run"] = seq["run"] /\ seq'["alternative"] = seq["alternative"]
  <2>1. CASE CreateNumber(w)
    BY <2>1 DEF CreateNumber, Number, TypeInv, TypeOK
  <2>2. CASE Work(w) /\ ~ CreateNumber(w) /\ ~ RunSolve(w) /\ ~ AltSearch(w)
    <3>1. seq' = seq
      BY <2>2 DEF Work, CreateRequest, CreateSave, CreateTrace, ValidateRequest, ValidateRead, ValidateSave,
           ValidateStateRead, ValidateStateSave, ValidateTrace, RunRequest, RunRead, RunRefused, RunSave,
           RunStateRead, RunStateSave, RunTrace, StateRead, StateSave, AlternativeRequest, AltRead,
           AltNoScenario, AltNone, AltSaveScenario, AltSaveRun, AltSaveValidation, OutcomeRead, OutcomeSave,
           AltClearExplanation, AltTrace, AltTraceDerived, DecisionRequest, DecideRead, DecideSave,
           DecideTrace, ExplanationRequest, ExplainRead, ExplainCheck, ExplainSave, DeleteRequest,
           DeleteCheck, DeleteList, DeleteDecisions, DeleteRuns, DeleteTrace, DeleteRow
    <3> QED BY <3>1
  <2> QED BY <2>1, <2>2 DEF Changing
<1>3. ASSUME runs' = runs, Elsewhere
      PROVE  Quiet(w)
  BY <1>2, <1>3 DEF Quiet
<1> DEFINE Targets == {"idle"} \cup CreateCalls \cup ValidateCalls \cup {"run_number", "run_get", "run_put", "run_trace"}
                      \cup DecideCalls \cup DeleteCalls
<1>4. ASSUME runs' = runs, pc[w] # "alt_clear", pc'[w] \in Targets
      PROVE  Quiet(w)
  <2>1. Elsewhere
    BY <1>4 DEF HoldsRun, CreateCalls, ValidateCalls, DecideCalls, DeleteCalls, ExplainCalls, Searching,
                AltCalls
  <2> QED BY <1>3, <1>4, <2>1
<1>5. CASE CreateRequest(w)
  <2>1. runs' = runs /\ pc[w] # "alt_clear" /\ pc'[w] \in {"idle"} \cup CreateCalls
    BY <1>1, <1>5 DEF CreateRequest, CreateNumber, CreateSave, CreateTrace, Arrive, Continue, CreateCalls,
                      tables
  <2> QED BY <1>4, <2>1
<1>6. CASE ValidateRequest(w)
  <2>1. runs' = runs /\ pc[w] # "alt_clear"
    BY <1>6 DEF ValidateRequest, ValidateRead, ValidateSave, ValidateStateRead, ValidateStateSave,
                ValidateTrace, StateRead, StateSave, Arrive, Continue, tables
  <2>2. pc'[w] \in {"idle"} \cup ValidateCalls
    <3>1. CASE ValidateRead(w) \/ ValidateTrace(w) \/ ValidateSave(w)
      BY <1>1, <3>1 DEF ValidateRead, ValidateTrace, ValidateSave, Arrive, Continue, ValidateCalls
    <3>2. CASE ValidateStateRead(w) \/ ValidateStateSave(w)
      BY <1>1, <3>2 DEF ValidateStateRead, ValidateStateSave, StateRead, StateSave, Continue, Remember,
                        ValidateCalls
    <3> QED BY <1>6, <3>1, <3>2 DEF ValidateRequest
  <2> QED BY <1>4, <2>1, <2>2
<1>7. CASE RunRead(w) \/ RunRefused(w) \/ RunStateRead(w) \/ RunStateSave(w) \/ RunTrace(w)
  <2>1. runs' = runs /\ pc[w] # "alt_clear"
    BY <1>7 DEF RunRead, RunRefused, RunStateRead, RunStateSave, RunTrace, StateRead, StateSave, Arrive,
                Continue, tables
  <2>2. pc'[w] \in {"idle", "run_number", "run_get", "run_put", "run_trace"}
    <3>1. CASE RunRead(w) \/ RunRefused(w) \/ RunTrace(w)
      BY <1>1, <3>1 DEF RunRead, RunRefused, RunTrace, Arrive, Continue
    <3>2. CASE RunStateRead(w) \/ RunStateSave(w)
      BY <1>1, <3>2 DEF RunStateRead, RunStateSave, StateRead, StateSave, Continue, Remember
    <3> QED BY <1>7, <3>1, <3>2
  <2> QED BY <1>4, <2>1, <2>2
<1>8. CASE DecisionRequest(w)
  <2>1. runs' = runs /\ pc[w] # "alt_clear" /\ pc'[w] \in {"idle"} \cup DecideCalls
    BY <1>1, <1>8 DEF DecisionRequest, DecideRead, DecideSave, DecideTrace, Arrive, Continue, DecideCalls,
                      tables
  <2> QED BY <1>4, <2>1
<1>9. CASE DeleteRequest(w)
  <2>1. runs' = runs /\ pc[w] # "alt_clear" /\ pc'[w] \in {"idle"} \cup DeleteCalls
    BY <1>1, <1>9 DEF Changing, DeleteRequest, DeleteCheck, DeleteList, DeleteDecisions, DeleteTrace,
                      DeleteRow, Arrive, Continue, Remember, DeleteCalls, tables
  <2> QED BY <1>4, <2>1
<1>10. CASE AltNoScenario(w)
  <2>1. runs' = runs /\ pc[w] # "alt_clear" /\ pc'[w] = "idle"
    BY <1>1, <1>10 DEF AltNoScenario, Continue, tables
  <2> QED BY <1>4, <2>1
<1>11. CASE AltNone(w)
  <2>1. pc[w] = "alt_none"
    BY <1>11 DEF AltNone
  <2>2. mem[w].verdict \in Verdicts
    <3>1. mem[w] \in [r : Ids, o : Orders, doc : RunRow, verdict : Verdicts, n : Nat]
      BY <2>1, AlternativeHolds DEF AltCalls
    <3> QED BY <3>1
  <2> QED BY <2>1, <2>2 DEF SoleInv, SoleReading
<1>12. CASE AltSaveValidation(w) \/ OutcomeRead(w) \/ AltTrace(w) \/ AltTraceDerived(w)
  <2>1. runs' = runs /\ pc[w] \in {"alt_validation", "alt_lock", "alt_trace", "alt_trace_derived"}
    BY <1>12 DEF AltSaveValidation, OutcomeRead, AltTrace, AltTraceDerived, Continue, tables
  <2>2. pc[w] \in AltCalls /\ pc[w] \in Searching
    BY <2>1 DEF AltCalls, Searching
  <2>3. mem[w] \in [r : Ids, o : Orders, doc : RunRow, verdict : Verdicts, n : Nat]
    BY <2>2, AlternativeHolds
  <2>4. CASE AltSaveValidation(w)
    <3>1. pc'[w] = "alt_lock" /\ mem'[w] = mem[w]
      BY <2>4, WorkerHolds, ContinueMoves DEF AltSaveValidation
    <3> QED BY <1>2, <2>1, <2>2, <3>1 DEF Quiet, HoldsRun, Searching, AltCalls
  <2>5. CASE OutcomeRead(w)
    <3>1. CASE mem[w].r \in DOMAIN runs
      <4> DEFINE read == [mem[w] EXCEPT !.doc = runs[mem[w].r]]
      <4>1. Remember(w, "alt_lock", "alt_outcome", read) /\ read.r = mem[w].r
        BY <2>3, <2>5, <3>1 DEF OutcomeRead
      <4> HIDE DEF read
      <4>2. pc'[w] = "alt_outcome" /\ mem'[w] = read
        BY <4>1, WorkerHolds, RememberMoves
      <4> QED BY <1>2, <2>1, <2>2, <4>1, <4>2 DEF Quiet, HoldsRun, Searching, AltCalls
    <3>2. CASE mem[w].r \notin DOMAIN runs
      <4>1. pc'[w] = "alt_clear" /\ mem'[w] = mem[w]
        BY <2>5, <3>2, WorkerHolds, ContinueMoves DEF OutcomeRead
      <4> QED BY <1>2, <2>1, <2>2, <4>1 DEF Quiet, HoldsRun, Searching, AltCalls
    <3> QED BY <3>1, <3>2
  <2>6. CASE AltTrace(w)
    <3>1. PICK to \in {"alt_trace_derived", "idle"} : Continue(w, "alt_trace", to)
      BY <2>6 DEF AltTrace
    <3>2. pc'[w] = to /\ (to # "idle" => mem'[w] = mem[w])
      BY <3>1, WorkerHolds, ContinueMoves
    <3>3. CASE to = "idle"
      BY <1>4, <2>1, <3>2, <3>3
    <3>4. CASE to = "alt_trace_derived"
      BY <1>2, <2>1, <2>2, <3>2, <3>4 DEF Quiet, HoldsRun, Searching, AltCalls
    <3> QED BY <3>3, <3>4
  <2>7. CASE AltTraceDerived(w)
    <3>1. pc'[w] = "idle"
      BY <2>7, WorkerHolds, ContinueMoves DEF AltTraceDerived
    <3> QED BY <1>4, <2>1, <3>1
  <2> QED BY <1>12, <2>4, <2>5, <2>6, <2>7
<1> QED BY <1>5, <1>6, <1>7, <1>8, <1>9, <1>10, <1>11, <1>12 DEF Work, RunRequest, AlternativeRequest, Changing

LEMMA NumberFresh ==
  ASSUME Sole, TypeInv, FreshInv, ~ ScanMayFail, NEW w \in Workers, RunSolve(w) \/ AltSearch(w)
  PROVE  FreshInv'
<1>1. runs' = runs /\ pc[w] \in {"run_number", "alt_search"} /\ ~ HoldsRun(w)
  BY DEF RunSolve, AltSearch, tables, HoldsRun
<1>2. \A r \in DOMAIN runs : runs[r].explanation \in {Nothing, runs[r].outcomes}
  BY <1>1, ExplanationsStand DEF FreshInv
<1>3. CASE RunSolve(w)
  <2>1. /\ HoldsRun(w)' => HeldRun(w)' = <<"BASE", seq'["run"]>>
        /\ pc'[w] \notin ExplainCalls \cup Searching
    <3>1. CASE Continue(w, "run_number", "idle")
      <4>1. pc'[w] = "idle"
        BY <3>1, WorkerHolds, ContinueMoves
      <4> QED BY <4>1 DEF HoldsRun, ExplainCalls, Searching, AltCalls
    <3>2. ASSUME NEW result,
                 Remember(w, "run_number", "run_save",
                          [mem[w] EXCEPT !.r = <<"BASE", seq'["run"]>>, !.status = result])
          PROVE  HeldRun(w)' = <<"BASE", seq'["run"]>> /\ pc'[w] = "run_save"
      <4> DEFINE read == [mem[w] EXCEPT !.r = <<"BASE", seq'["run"]>>, !.status = result]
      <4>1. mem[w] \in [s : Ids, doc : ScenarioRow, r : {Nothing}, status : {Nothing}]
        BY <1>3, WorkerHolds, Memories DEF RunSolve
      <4>2. read.r = <<"BASE", seq'["run"]>> /\ Remember(w, "run_number", "run_save", read)
        BY <3>2, <4>1
      <4> HIDE DEF read
      <4>3. pc'[w] = "run_save" /\ mem'[w] = read
        BY <4>2, WorkerHolds, RememberMoves
      <4> QED BY <4>2, <4>3 DEF HeldRun
    <3>3. \/ Continue(w, "run_number", "idle")
          \/ \E result : Remember(w, "run_number", "run_save",
                           [mem[w] EXCEPT !.r = <<"BASE", seq'["run"]>>, !.status = result])
      BY <1>3 DEF RunSolve
    <3> QED BY <3>1, <3>2, <3>3 DEF ExplainCalls, Searching, AltCalls
  <2>2. Counter(<<"BASE", 0>>) = "run"
    BY DEF Counter
  <2>3. CountersLead' /\ HeldRunsFree'
    BY <1>1, <1>3, <2>1, <2>2, SoleOthersStay, NumberTaken DEF RunSolve, FreshInv
  <2> QED BY <1>1, <1>2, <2>1, <2>3, ExplainedKept DEF FreshInv
<1>4. CASE AltSearch(w)
  <2>1. pc[w] = "alt_search" /\ mem[w].r \in DOMAIN runs
    BY <1>4 DEF AltSearch, FreshInv, Explained, Searching
  <2>2. /\ HoldsRun(w)' => HeldRun(w)' = <<"ALT", seq'["alternative"]>>
        /\ pc'[w] \notin ExplainCalls
        /\ pc'[w] \in Searching => mem'[w].r = mem[w].r
    <3>1. CASE Continue(w, "alt_search", "idle")
      <4>1. pc'[w] = "idle"
        BY <3>1, WorkerHolds, ContinueMoves
      <4> QED BY <4>1 DEF HoldsRun, ExplainCalls, Searching, AltCalls
    <3>2. ASSUME NEW verdict \in Verdicts, NEW to \in {"alt_none", "alt_scenario"},
                 Remember(w, "alt_search", to,
                          [mem[w] EXCEPT !.verdict = verdict, !.n = seq'["alternative"]])
          PROVE  /\ pc'[w] = to /\ mem'[w].r = mem[w].r
                 /\ HoldsRun(w)' => HeldRun(w)' = <<"ALT", seq'["alternative"]>>
      <4> DEFINE read == [mem[w] EXCEPT !.verdict = verdict, !.n = seq'["alternative"]]
      <4>1. mem[w] \in [r : Ids, o : Orders, doc : RunRow, verdict : {Nothing}, n : {Nothing}]
        BY <2>1, WorkerHolds, Memories
      <4>2. read.r = mem[w].r /\ read.n = seq'["alternative"] /\ Remember(w, "alt_search", to, read)
        BY <3>2, <4>1
      <4> HIDE DEF read
      <4>3. pc'[w] = to /\ mem'[w] = read
        BY <4>2, WorkerHolds, RememberMoves
      <4> QED BY <4>2, <4>3 DEF HeldRun, Derived
    <3>3. \/ Continue(w, "alt_search", "idle")
          \/ \E verdict \in Verdicts, to \in {"alt_none", "alt_scenario"} :
               Remember(w, "alt_search", to,
                        [mem[w] EXCEPT !.verdict = verdict, !.n = seq'["alternative"]])
      BY <1>4 DEF AltSearch
    <3> QED BY <3>1, <3>2, <3>3 DEF ExplainCalls
  <2>3. Counter(<<"ALT", 0>>) = "alternative"
    BY DEF Counter
  <2>4. CountersLead' /\ HeldRunsFree'
    BY <1>1, <1>4, <2>2, <2>3, SoleOthersStay, NumberTaken DEF AltSearch, FreshInv
  <2> QED BY <1>1, <1>2, <2>1, <2>2, <2>4, ExplainedKept DEF FreshInv
<1> QED BY <1>3, <1>4

\* A new run has no explanation: no row had its number.
LEMMA SaveFresh ==
  ASSUME Sole, TypeInv, SoleInv, FreshInv, NEW w \in Workers,
         RunSave(w) \/ AltSaveScenario(w) \/ AltSaveRun(w)
  PROVE  FreshInv'
<1>1. pc[w] \in {"run_save", "alt_scenario", "alt_run"} /\ seq' = seq
  BY DEF RunSave, AltSaveScenario, AltSaveRun, Continue
<1>2. \A r \in DOMAIN runs : runs[r].explanation \in {Nothing, runs[r].outcomes}
  BY <1>1, ExplanationsStand DEF FreshInv
<1>3. HoldsRun(w) /\ HeldRun(w) \notin DOMAIN runs
  BY <1>1 DEF HoldsRun, FreshInv, HeldRunsFree
<1>4. CASE RunSave(w)
  <2>1. pc[w] = "run_save"
    BY <1>4 DEF RunSave
  <2>2. mem[w].s \in DOMAIN scenarios
    BY <2>1 DEF SoleInv, SoleReading, OnScenario, RunCalls
  <2>3. /\ pc'[w] = "run_get"
        /\ \E doc : SaveRun(mem[w].r, doc)
    BY <1>4, <2>2, WorkerHolds, ContinueMoves DEF RunSave
  <2>4. mem[w].r \notin DOMAIN runs
    BY <1>3, <2>1 DEF HeldRun
  <2>5. /\ DOMAIN runs' = DOMAIN runs \cup {mem[w].r}
        /\ \A r \in DOMAIN runs : runs'[r] = runs[r]
        /\ runs'[mem[w].r].explanation = Nothing
    BY <2>3, <2>4 DEF SaveRun, Upsert
  <2>6. ~ HoldsRun(w)' /\ pc'[w] \notin ExplainCalls \cup Searching
    BY <2>3 DEF HoldsRun, ExplainCalls, Searching, AltCalls
  <2>7. CountersLead' /\ HeldRunsFree'
    BY <1>1, <1>3, <2>1, <2>5, <2>6, SoleOthersStay, NumbersKept DEF FreshInv, HeldRun
  <2> QED BY <1>2, <2>5, <2>6, <2>7, ExplainedKept DEF FreshInv
<1>5. CASE AltSaveScenario(w)
  <2>1. pc[w] = "alt_scenario" /\ pc'[w] = "alt_run" /\ mem'[w] = mem[w] /\ runs' = runs
    BY <1>5, WorkerHolds, ContinueMoves DEF AltSaveScenario
  <2>2. HoldsRun(w)' => HeldRun(w)' = HeldRun(w)
    BY <2>1 DEF HeldRun, Derived
  <2>3. CountersLead' /\ HeldRunsFree'
    BY <1>1, <1>3, <2>1, <2>2, SoleOthersStay, NumbersKept DEF FreshInv
  <2>4. mem[w].r \in DOMAIN runs
    BY <2>1 DEF FreshInv, Explained, Searching, AltCalls
  <2> QED BY <1>2, <2>1, <2>3, <2>4, ExplainedKept DEF FreshInv, ExplainCalls
<1>6. CASE AltSaveRun(w)
  <2>1. pc[w] = "alt_run" /\ Derived(w) \in DOMAIN scenarios
    BY <1>6 DEF AltSaveRun, SoleInv, SoleReading, OnDerived
  <2>2. /\ pc'[w] = "alt_validation" /\ mem'[w] = mem[w]
        /\ \E doc : SaveRun(Derived(w), doc)
    BY <1>6, <2>1, WorkerHolds, ContinueMoves DEF AltSaveRun
  <2>3. Derived(w) \notin DOMAIN runs
    BY <1>3, <2>1 DEF HeldRun
  <2>4. /\ DOMAIN runs' = DOMAIN runs \cup {Derived(w)}
        /\ \A r \in DOMAIN runs : runs'[r] = runs[r]
        /\ runs'[Derived(w)].explanation = Nothing
    BY <2>2, <2>3 DEF SaveRun, Upsert
  <2>5. ~ HoldsRun(w)' /\ pc'[w] \notin ExplainCalls
    BY <2>2 DEF HoldsRun, ExplainCalls
  <2>6. CountersLead' /\ HeldRunsFree'
    BY <1>1, <1>3, <2>1, <2>4, <2>5, SoleOthersStay, NumbersKept DEF FreshInv, HeldRun
  <2>7. mem[w].r \in DOMAIN runs
    BY <2>1 DEF FreshInv, Explained, Searching, AltCalls
  <2> QED BY <1>2, <2>2, <2>4, <2>5, <2>6, <2>7, ExplainedKept DEF FreshInv
<1> QED BY <1>4, <1>5, <1>6

LEMMA OutcomeFresh ==
  ASSUME Sole, TypeInv, SoleInv, FreshInv, NEW w \in Workers, OutcomeSave(w) \/ AltClearExplanation(w)
  PROVE  FreshInv'
<1>1. pc[w] \in {"alt_outcome", "alt_clear"} /\ seq' = seq
  BY DEF OutcomeSave, AltClearExplanation, Continue
<1>2. pc[w] \in Searching /\ mem[w].r \in DOMAIN runs
  BY <1>1 DEF FreshInv, Explained, Searching, AltCalls
<1>3. CASE OutcomeSave(w)
  <2>1. pc[w] = "alt_outcome" /\ mem[w].doc.scenario \in DOMAIN scenarios
    BY <1>2, <1>3 DEF OutcomeSave, SoleInv, SoleReading
  <2>2. /\ pc'[w] = "alt_clear" /\ mem'[w] = mem[w]
        /\ \E doc : SaveRun(mem[w].r, doc)
    BY <1>3, <2>1, WorkerHolds, ContinueMoves DEF OutcomeSave
  <2>3. DOMAIN runs' = DOMAIN runs /\ \A r \in DOMAIN runs : r # mem[w].r => runs'[r] = runs[r]
    BY <1>2, <2>2 DEF SaveRun, Upsert
  <2>4. \A r \in DOMAIN runs : runs[r].explanation \in {Nothing, runs[r].outcomes}
    BY <2>1, ExplanationsStand DEF FreshInv
  <2>5. ~ HoldsRun(w)' /\ pc'[w] \notin ExplainCalls
    BY <2>2 DEF HoldsRun, ExplainCalls
  <2>6. CountersLead' /\ HeldRunsFree'
    BY <1>1, <2>3, <2>5, SoleOthersStay, NumbersKept DEF FreshInv
  <2> QED BY <1>2, <2>2, <2>3, <2>4, <2>5, <2>6, ExplainedKept DEF FreshInv
<1>4. CASE AltClearExplanation(w)
  <2>1. pc[w] = "alt_clear" /\ pc'[w] = "alt_trace" /\ mem'[w] = mem[w]
    BY <1>4, WorkerHolds, ContinueMoves DEF AltClearExplanation
  <2>2. runs' = [runs EXCEPT ![mem[w].r].explanation = Nothing]
    BY <1>2, <1>4 DEF AltClearExplanation
  <2>3. \A r \in DOMAIN runs : runs[r] \in RunRow
    BY WorkerHolds DEF RunsOK
  <2>4. /\ DOMAIN runs' = DOMAIN runs /\ runs'[mem[w].r].explanation = Nothing
        /\ \A r \in DOMAIN runs : r # mem[w].r => runs'[r] = runs[r]
    BY <1>2, <2>2, <2>3 DEF RunRow
  <2>5. \A r \in DOMAIN runs : r # mem[w].r => runs[r].explanation \in {Nothing, runs[r].outcomes}
    BY SoleWorker DEF FreshInv, Explained
  <2>6. ~ HoldsRun(w)' /\ pc'[w] \notin ExplainCalls
    BY <2>1 DEF HoldsRun, ExplainCalls
  <2>7. CountersLead' /\ HeldRunsFree'
    BY <1>1, <2>4, <2>6, SoleOthersStay, NumbersKept DEF FreshInv
  <2> QED BY <1>2, <2>1, <2>4, <2>5, <2>6, <2>7, ExplainedKept DEF FreshInv
<1> QED BY <1>3, <1>4

LEMMA ReadFresh ==
  ASSUME Sole, TypeInv, FreshInv, NEW w \in Workers, AltRead(w)
  PROVE  FreshInv'
<1>1. PICK r \in DOMAIN runs, o \in Orders :
        Arrive(w, "alternative", "alt_search",
          [r |-> r, o |-> o, doc |-> runs[r], verdict |-> Nothing, n |-> Nothing])
  BY DEF AltRead
<1>2. pc[w] = "idle" /\ pc'[w] = "alt_search" /\ mem'[w].r = r
  BY <1>1, ArriveMoves DEF Kinds
<1>3. runs' = runs /\ seq' = seq
  BY DEF AltRead, tables
<1>4. ~ HoldsRun(w)' /\ pc'[w] \notin ExplainCalls
  BY <1>2 DEF HoldsRun, ExplainCalls
<1>5. CountersLead' /\ HeldRunsFree'
  BY <1>3, <1>4, SoleOthersStay, NumbersKept DEF FreshInv
<1>6. \A q \in DOMAIN runs : runs[q].explanation \in {Nothing, runs[q].outcomes}
  BY <1>2, ExplanationsStand DEF FreshInv
<1> QED BY <1>2, <1>3, <1>4, <1>5, <1>6, ExplainedKept DEF FreshInv

LEMMA ExplainFresh ==
  ASSUME Sole, TypeInv, FreshInv, NEW w \in Workers, ExplanationRequest(w)
  PROVE  FreshInv'
<1>1. pc[w] # "alt_clear" /\ seq' = seq
  BY DEF ExplanationRequest, ExplainRead, ExplainCheck, ExplainSave, Arrive, Continue
<1>2. \A r \in DOMAIN runs : runs[r].explanation \in {Nothing, runs[r].outcomes}
  BY <1>1, ExplanationsStand DEF FreshInv
<1>3. pc[w] \in ExplainCalls => mem[w].r \in DOMAIN runs /\ mem[w].outcomes = runs[mem[w].r].outcomes
  BY DEF FreshInv, Explained
<1>4. ASSUME DOMAIN runs' = DOMAIN runs, pc'[w] \in {"explain_check", "explain_save", "idle"}
      PROVE  CountersLead' /\ HeldRunsFree' /\ pc'[w] \notin Searching
  <2>1. ~ HoldsRun(w)' /\ pc'[w] \notin Searching
    BY <1>4 DEF HoldsRun, Searching, AltCalls
  <2>2. CountersLead' /\ HeldRunsFree'
    BY <1>1, <1>4, <2>1, SoleOthersStay, NumbersKept DEF FreshInv
  <2> QED BY <2>1, <2>2
<1>5. CASE ExplainRead(w)
  <2>1. PICK r \in DOMAIN runs :
          Arrive(w, "explain", "explain_check", [r |-> r, outcomes |-> runs[r].outcomes])
    BY <1>5 DEF ExplainRead
  <2>2. pc'[w] = "explain_check" /\ mem'[w].r = r /\ mem'[w].outcomes = runs[r].outcomes
    BY <2>1, ArriveMoves DEF Kinds
  <2>3. runs' = runs
    BY <1>5 DEF ExplainRead, tables
  <2> QED BY <1>2, <1>4, <2>2, <2>3, ExplainedKept DEF FreshInv
<1>6. CASE ExplainCheck(w)
  <2>1. PICK to \in {"idle", "explain_save"} : Continue(w, "explain_check", to)
    BY <1>6 DEF ExplainCheck
  <2>2. pc[w] = "explain_check" /\ pc'[w] = to /\ (to # "idle" => mem'[w] = mem[w])
    BY <2>1, WorkerHolds, ContinueMoves
  <2>3. runs' = runs
    BY <1>6 DEF ExplainCheck, tables
  <2> QED BY <1>2, <1>3, <1>4, <2>2, <2>3, ExplainedKept DEF FreshInv, ExplainCalls
<1>7. CASE ExplainSave(w)
  <2>1. pc[w] = "explain_save" /\ pc'[w] = "idle"
    BY <1>7, WorkerHolds, ContinueMoves DEF ExplainSave
  <2>2. mem[w].r \in DOMAIN runs /\ mem[w].outcomes = runs[mem[w].r].outcomes
    BY <1>3, <2>1 DEF ExplainCalls
  <2>3. \A r \in DOMAIN runs : runs[r] \in RunRow
    BY WorkerHolds DEF RunsOK
  <2>4. /\ DOMAIN runs' = DOMAIN runs
        /\ \A r \in DOMAIN runs : r # mem[w].r => runs'[r] = runs[r]
        /\ runs'[mem[w].r].explanation = mem[w].outcomes
        /\ runs'[mem[w].r].outcomes = runs[mem[w].r].outcomes
    BY <1>7, <2>2, <2>3 DEF ExplainSave, RunRow
  <2>5. \A r \in DOMAIN runs' : runs'[r].explanation \in {Nothing, runs'[r].outcomes}
    BY <1>2, <2>2, <2>4
  <2>6. pc'[w] \notin ExplainCalls
    BY <2>1 DEF ExplainCalls
  <2> QED BY <1>4, <2>1, <2>4, <2>5, <2>6, ExplainedKept DEF FreshInv
<1> QED BY <1>5, <1>6, <1>7 DEF ExplanationRequest

LEMMA DeleteFresh ==
  ASSUME Sole, TypeInv, FreshInv, NEW w \in Workers, DeleteRuns(w)
  PROVE  FreshInv'
<1>1. pc[w] = "delete_decisions" /\ seq' = seq
  BY DEF DeleteRuns
<1>2. pc'[w] \in {"idle", "delete_trace"}
  BY WorkerHolds, ContinueMoves DEF DeleteRuns
<1>3. DOMAIN runs' \subseteq DOMAIN runs /\ \A r \in DOMAIN runs' : runs'[r] = runs[r]
  BY DEF DeleteRuns, Without, Restrict
<1>4. \A r \in DOMAIN runs : runs[r].explanation \in {Nothing, runs[r].outcomes}
  BY <1>1, ExplanationsStand DEF FreshInv
<1>5. ~ HoldsRun(w)' /\ pc'[w] \notin ExplainCalls \cup Searching
  BY <1>2 DEF HoldsRun, ExplainCalls, Searching, AltCalls
<1>6. CountersLead' /\ HeldRunsFree'
  BY <1>1, <1>3, <1>5, SoleOthersStay, NumbersKept DEF FreshInv
<1> QED BY <1>3, <1>4, <1>5, <1>6, ExplainedKept DEF FreshInv

LEMMA InitFresh == Init => FreshInv
<1> SUFFICES ASSUME Init PROVE FreshInv
  OBVIOUS
<1>1. \A w \in Workers : pc[w] = "idle"
  BY DEF Init
<1>2. \A name \in {"run", "alternative"} : seq[name] = Unread
  BY DEF Init
<1>3. \A r \in DOMAIN runs : runs[r].explanation = Nothing
  BY DEF Init
<1>4. CountersLead /\ HeldRunsFree
  BY <1>1, <1>2 DEF CountersLead, HeldRunsFree, HoldsRun, Counter
<1>5. Explained
  BY <1>1, <1>3 DEF Explained, ExplainCalls, Searching, AltCalls
<1> QED BY <1>4, <1>5 DEF FreshInv

LEMMA FreshKept ==
  ASSUME Sole, ~ ScanMayFail, "NONE" \notin Verdicts, TypeInv, SoleInv, FreshInv, [Next]_vars,
         ~ Restart, \A w \in Workers : ~ Fail(w) /\ ~ Tolerate(w)
  PROVE  FreshInv'
<1>1. CASE UNCHANGED vars
  BY <1>1 DEF vars, FreshInv, CountersLead, HeldRunsFree, HoldsRun, HeldRun, Derived, Explained
<1>2. ASSUME NEW w \in Workers, Work(w)
      PROVE  FreshInv'
  <2>1. CASE Changing(w)
    BY <2>1, NumberFresh, SaveFresh, OutcomeFresh, ReadFresh, ExplainFresh, DeleteFresh DEF Changing
  <2>2. CASE ~ Changing(w)
    BY <1>2, <2>2, OthersQuiet, QuietFresh
  <2> QED BY <2>1, <2>2
<1> QED BY <1>1, <1>2 DEF Next

\* For a client that sends one request after another, a stored explanation
\* describes the outcomes its run has now (ai.py:66-72): the search that
\* changes one clears it, and a new run takes a number no stored run has.
\* It says so until a crash or a failure, since nothing repairs a search cut
\* off before it clears, and takes searches that find an alternative, since
\* one that does not clears nothing.
THEOREM ExplanationsFresh ==
  ASSUME Sole, ~ ScanMayFail, "NONE" \notin Verdicts
  PROVE  Spec => []ExplanationFresh
<1> DEFINE Spent == \A kind \in {"crash", "failure"} : quota[kind] <= Quota[kind]
           Inv == Spent /\ (Smooth => FreshInv)
<1>1. Init => Inv
  BY InitFresh, QuotaIsBounded DEF Init, Kinds
<1>2. TypeInv /\ SoleInv /\ Inv /\ [Next]_vars => Inv'
  <2> SUFFICES ASSUME TypeInv, SoleInv, Inv, [Next]_vars
               PROVE  Inv'
    OBVIOUS
  <2>1. \A kind \in {"crash", "failure"} : Quota[kind] \in Nat
    BY QuotaIsBounded DEF Kinds
  <2>2. Spent'
    BY <2>1, QuotaFalls
  <2>3. ASSUME Smooth'
        PROVE  FreshInv'
    <3>1. \A kind \in {"crash", "failure"} : quota'[kind] = quota[kind] /\ quota[kind] = Quota[kind]
      BY <2>1, <2>3, QuotaFalls DEF Smooth
    <3>2. Smooth /\ ~ Restart /\ \A w \in Workers : ~ Fail(w) /\ ~ Tolerate(w)
      BY <3>1, QuotaFalls DEF Smooth
    <3> QED BY <3>2, FreshKept
  <2> QED BY <2>2, <2>3
<1>3. Inv => ExplanationFresh
  BY DEF FreshInv, Explained, ExplanationFresh, Idle
<1> HIDE DEF Inv
<1> QED BY <1>1, <1>2, <1>3, SoleAlways, PTL DEF Spec
=============================================================================
