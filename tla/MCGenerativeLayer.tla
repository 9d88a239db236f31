-------------------------- MODULE MCGenerativeLayer --------------------------
(***************************************************************************)
(* Small inputs for GenerativeLayer: solved runs on two slots, one reply   *)
(* of each kind the guards tell apart, and pairs of them.                  *)
(***************************************************************************)
EXTENDS GenerativeLayer, TLC

-----------------------------------------------------------------------------
(* Runs: order 1 is assigned; order 2 finds its slot taken; order 3 is too
   tall for the baseline's route and could travel on s2 to C. *)

Window(services, terminals) == [services |-> services, terminals |-> terminals]

Snap(window2, window3, weight2, tall) ==
  LET Train(to, route) == [available |-> TRUE, origin |-> "A", destination |-> to, cutoff |-> 3,
                           arrival |-> 5, route |-> route]
      Cargo(weight, height, window) ==
        [origins |-> {"A"}, destinations |-> {"B"}, ready |-> 0, due |-> 9, weight |-> weight,
         dims |-> [height |-> height, width |-> 1, length |-> 1], tags |-> {},
         priority |-> "P1", window |-> window]
  IN [baseline  |-> <<"s1">>,
      scores    |-> [P1 |-> 3, P2 |-> 2, P3 |-> 1],
      allowed   |-> {AddService, ChangeTerminal},
      forbidden |-> {"CHANGE_DUE_AT"},
      terminals |-> [t \in {"A", "B", "C"} |-> [tags |-> {}, handling |-> 0]],
      routes    |-> [low |-> [height |-> 2, width |-> 9, weight |-> 9],
                     high |-> [height |-> 9, width |-> 9, weight |-> 9]],
      services  |-> [s1 |-> Train("B", "low"), s2 |-> Train("C", "high")],
      wagons    |-> [w1 |-> [service |-> "s1", available |-> TRUE, capacity |-> 9],
                     w2 |-> [service |-> "s2", available |-> TRUE, capacity |-> 9]],
      slots     |-> [l \in 1 .. 2 |->
                       [wagon |-> IF l = 1 THEN "w1" ELSE "w2", available |-> TRUE, tags |-> {},
                        dims |-> [height |-> 9, width |-> 9, length |-> 9], weight |-> 9]],
      orders    |-> <<Cargo(1, 1, Window({}, << >>)), Cargo(weight2, 1, window2),
                      Cargo(1, tall, window3)>>]

\* The run a baseline solve stores, with what a later search found.
Solved(snap, found) ==
  LET task == BaselineTask(snap)
      plan == CHOOSE p \in HardPlans(task) : p # {} /\ \A a \in p : a.order = 1
      base == BuildOutcomes(task, plan)
      After(o) == [base[o] EXCEPT !.alternative_state = IF o \in DOMAIN found THEN found[o] ELSE @]
  IN [task |-> task, plan |-> plan, eligible |-> {a.slot : a \in Candidates(task)},
      outcomes |-> <<After(1), After(2), After(3)>>]

NotYet == [o \in {} |-> "NONE"]

MCRuns == {
  \* a service for order 2; a pair that must travel together for order 3
  Solved(Snap(Window({"s2"}, << >>), Window({"s2"}, <<"C">>), 1, 3), NotYet),
  \* the approved destination is the baseline's own; order 2 lacks its weight
  Solved(Snap(Window({"s2"}, <<"C">>), Window({"s2"}, <<"B">>), NullWeight, 3), NotYet),
  \* a terminal listed twice, without a train and without a service; searches that ended
  Solved(Snap(Window({}, <<"C", "C">>), Window({"s2"}, <<"C">>), 1, 3), 2 :> "NONE" @@ 3 :> "AVAILABLE"),
  Solved(Snap(Window({"s2"}, <<"C">>), Window({}, <<"B">>), 1, 3), 2 :> "AVAILABLE" @@ 3 :> "NONE"),
  \* nothing approved
  Solved(Snap(Window({}, << >>), Window({}, << >>), 1, 1), NotYet)}

-----------------------------------------------------------------------------
(* Replies *)

Plain == [blank |-> FALSE, claim |-> FALSE, orders |-> {}, entities |-> {}, codes |-> {},
          by |-> "model"]

\* A sentence about an order that names all it may.
Full(o) == [Plain EXCEPT !.orders = {o}, !.entities = {Entity("slot", 1)},
                         !.codes = {"ASSIGNED", "NONE"}]

\* Sentences with one thing wrong, as a card of some order at least.
Naming(o)   == [Plain EXCEPT !.orders = {o}]
Pointing(e) == [Plain EXCEPT !.entities = {e}]
Shouting    == [Plain EXCEPT !.codes = {"SLOT_TAG_NOT_SUPPORTED"}]
Claiming    == [Plain EXCEPT !.claim = TRUE]
Blank       == [Plain EXCEPT !.blank = TRUE]
ToService   == Pointing(Entity("service", "s2"))

Faulty == {Naming(9), ToService, Shouting, Claiming, Blank}

CardEntries == [kind : {"object"}, order : {1, 2}, text : {Plain, Full(1)} \cup Faulty]
                 \cup [kind : {"object"}, order : {9}, text : {Plain}]

FewCards == {e \in CardEntries : e.text \in {Plain, Full(1), Claiming}}

Items == [kind : {"object"}, order : {2, 3},
          types : {{}, {AddService}, {ChangeTerminal}, {AddService, ChangeTerminal}, {"CHANGE_DUE_AT"}},
          text : {ToService, Naming(3)}]
           \cup [kind : {"object"}, order : {2, 9}, types : {{AddService}}, text : Faulty]

FewItems == {i \in Items : i.text \in {ToService, Naming(3)} /\ AddService \in i.types}

\* Every list of one, and every pair from a few of them.
Lists(S, few) == {<< >>} \cup {<<e>> : e \in S} \cup (few \X few)

Entries(S) == {[given |-> TRUE, entries |-> list] : list \in S}

Odd(kind, entry) == [entry EXCEPT !.kind = kind]

\* An entry of each odd kind, alone or beside a good one.
OddLists(entry) ==
  {<<Odd(kind, entry)>> : kind \in {"junk", "broken"}} \cup
  {<<entry, Odd(kind, entry)>> : kind \in {"junk", "broken"}}

GoodCard == [kind |-> "object", order |-> 1, text |-> Plain]
GoodItem == [kind |-> "object", order |-> 3, types |-> {AddService}, text |-> Plain]

AnswerReplies ==
  [given : {TRUE}, kind : {"object"}, used : {{1, 9}},
   text : {Plain, Full(1), Pointing(Entity("terminal", "C")), Pointing(Entity("wagon", "w9"))}
            \cup Faulty]

-----------------------------------------------------------------------------
(* Drafts: a complete one, and departures from it. *)

Value(type, parts) == [type |-> type, parts |-> parts]
Word(id)  == Value("text", {Bare(id)})
Words(ids) == Value("list", {Bare(id) : id \in ids})
Number(as) == [id |-> "kg", as |-> as]
Axis(axis, as) == [id |-> axis, as |-> as]

Complete ==
  [shipper_id |-> Value("text", {[id |-> "SHP-1", as |-> "named"]}),
   origin_terminal_ids |-> Words({"A"}), destination_terminal_ids |-> Words({"B"}),
   ready_at |-> Word("t1"), due_at |-> Word("t2"),
   gross_weight_kg |-> Value("int", {Number("positive")}),
   dimensions_mm |-> Value("object", {Axis(a, "positive") : a \in Axes}),
   compatibility_tags |-> Words({"TRAILER_TALL"}), priority_class |-> Word("P1"),
   order_id |-> Null]

Departures ==
  <<[f |-> "shipper_id", v |-> Word("SHP-9")],
    [f |-> "shipper_id", v |-> Words({"SHP-1"})],
    [f |-> "origin_terminal_ids", v |-> Words({"A", "X"})],
    [f |-> "destination_terminal_ids", v |-> Value("list", {[id |-> "X", as |-> "named"]})],
    [f |-> "gross_weight_kg", v |-> Value("int", {Number("nonpositive")})],
    [f |-> "gross_weight_kg", v |-> Value("text", {Number("positive")})],
    [f |-> "dimensions_mm", v |-> Value("object", {Axis("length", "positive"), Axis("width", "nonpositive")})],
    [f |-> "compatibility_tags", v |-> Words({"REEFER"})],
    [f |-> "priority_class", v |-> Word("P9")],
    [f |-> "due_at", v |-> Null],
    [f |-> "order_id", v |-> Word("ORD-1")]>>

Depart(draft, i) == [draft EXCEPT ![Departures[i].f] = Departures[i].v]

\* One departure, or no due time and another.
RawDrafts ==
  {Complete} \cup UNION {{Depart(d, i) : i \in DOMAIN Departures} : d \in {Complete, Depart(Complete, 10)}}

Evidence == <<[kind |-> "object", field |-> <<"due_at">>],
              [kind |-> "object", field |-> <<"dimensions_mm", "width">>],
              [kind |-> "object", field |-> <<"shipper_id">>]>>

Entry(kind, draft, evidence) == [kind |-> kind, draft |-> draft, evidence |-> evidence]

GoodEntry == Entry("object", Complete, Evidence)
JunkEvidence == Entry("object", Complete, <<[kind |-> "junk", field |-> <<"due_at">>]>>)

BatchDrafts == {GoodEntry, Entry("object", Depart(Complete, 7), Evidence)}

-----------------------------------------------------------------------------

Cards       == Entries(Lists(CardEntries, FewCards))
Suggestions == Entries(Lists(Items, FewItems))
Singles     == {[given |-> TRUE, entry |-> Entry("object", d, Evidence)] : d \in RawDrafts}
Batches     == Entries(Lists(BatchDrafts, BatchDrafts)
                       \cup (BatchDrafts \X BatchDrafts \X BatchDrafts))

MCConforming(what) ==
  CASE what = "cards"       -> Cards
    [] what = "suggestions" -> Suggestions
    [] what = "answer"      -> AnswerReplies
    [] what = "single"      -> Singles
    [] what = "batch"       -> Batches

OddCards       == Entries(OddLists(GoodCard))

\* Types that are no list, of an order with something to suggest and of an
\* unknown one.
UnlistedTypes == {<<Odd("no_list", [GoodItem EXCEPT !.order = o])>> : o \in {3, 9}}

OddSuggestions == Entries(OddLists(GoodItem) \cup UnlistedTypes)
OddAnswers     == {[given |-> TRUE, kind |-> "broken", used |-> {}, text |-> Plain]}
OddSingles     == {[given |-> TRUE, entry |-> e] : e \in {Odd("broken", GoodEntry), JunkEvidence}}
OddBatches     == Entries(OddLists(GoodEntry) \cup {<<JunkEvidence>>})

MCOffSchema(what) ==
  CASE what = "cards"       -> OddCards
    [] what = "suggestions" -> OddSuggestions
    [] what = "answer"      -> OddAnswers
    [] what = "single"      -> OddSingles
    [] what = "batch"       -> OddBatches

\* Documents: nothing to lift, and two terminals, two times and a word.
MCDocuments ==
  {NoDocument,
   [terminals |-> <<"A", "X", "B">>, times |-> <<"t1", "t2">>,
    tags |-> {"TRAILER_TALL", "TRAILER_STANDARD"},
    first |-> [shipper_id |-> Word("SHP-1"), gross_weight_kg |-> Value("int", {Number("positive")})]],
   [terminals |-> <<"A", "B">>, times |-> <<"t1">>, tags |-> {"TRAILER_STANDARD"},
    first |-> [priority_class |-> Word("P1")]]}
=============================================================================
