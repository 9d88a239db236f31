---------------------------- MODULE Explanations ----------------------------
(***************************************************************************)
(* What the generative layer says of a solved run (app/ai): the cards, the *)
(* suggested changes and the answers, as functions of the run and of what  *)
(* the model replied.  Pure operators.                                     *)
(*                                                                         *)
(* A run is [task, plan, outcomes, eligible]; eligible are the slots that  *)
(* the evidence of its outcomes lists.  A reply is a sequence of entries   *)
(* of kind "object" (usable), "junk" (no object at all), "broken" (an      *)
(* object whose order_id cannot be hashed) or, among suggestions,          *)
(* "no_list" (adjustment types that cannot be iterated).                   *)
(***************************************************************************)
EXTENDS Alternatives, TextGuard

Orders(run) == DOMAIN run.outcomes

Entity(kind, id) == <<kind, id>>

\* Every id the run contains: its plan and the slots its orders could use.
EntityIds(run) ==
  UNION {{Entity("service", a.service), Entity("wagon", a.wagon), Entity("slot", a.slot)} :
           a \in run.plan}
  \cup {Entity("slot", l) : l \in run.eligible}

Codes(run) == {run.outcomes[o].primary : o \in Orders(run)}

RunFacts(run) == [orders |-> Orders(run), codes |-> Codes(run), entities |-> EntityIds(run)]

\* Where a generated list speaks of an order; what is no object is dropped.
About(entries, o) == {i \in DOMAIN entries : entries[i].kind = "object" /\ entries[i].order = o}

\* Hashing the order id of a broken entry raises.
Raises(entries) == \E i \in DOMAIN entries : entries[i].kind = "broken"

-----------------------------------------------------------------------------
(* Cards *)

\* Two-way split: what was found counts as what was not.
TwoWayLabel(outcome) ==
  IF outcome.input_state = "REVIEW_REQUIRED" THEN "CHECK_INPUT"
  ELSE IF outcome.eligibility_state = "ELIGIBLE" THEN "CAN_BE_PLANNED"
  ELSE IF outcome.alternative_state = "NOT_SEARCHED" THEN "BASELINE_FAILED_UNSEARCHED"
  ELSE "IMPOSSIBLE"

DisplayLabel(outcome) ==
  IF outcome.input_state = "REVIEW_REQUIRED" THEN "CHECK_INPUT"
  ELSE CASE outcome.eligibility_state = "ELIGIBLE" ->
              IF outcome.assignment_state = "ASSIGNED" THEN "CAN_BE_PLANNED" ELSE "UNASSIGNED"
         [] outcome.eligibility_state = "INELIGIBLE" ->
              CASE outcome.alternative_state = "AVAILABLE" -> "BASELINE_FAILED"
                [] outcome.alternative_state = "NONE"      -> "IMPOSSIBLE"
                [] OTHER                                   -> "BASELINE_FAILED_UNSEARCHED"
         [] OTHER -> "CHECK_INPUT"

\* The badge of a conditional alternative.
HasBadge(outcome) == outcome.alternative_state = "AVAILABLE"

\* The codes the template has a sentence for; it spells the others out.
ReasonText ==
  {"ASSIGNED", "CAPACITY_CONFLICT", "MISSING_REQUIRED_FIELD", "READY_AFTER_CUTOFF",
   "DUE_TIME_EXCEEDED", "TUNNEL_HEIGHT_EXCEEDED", "TERMINAL_NOT_COMPATIBLE",
   "ALTERNATIVE_AVAILABLE"}

TemplateText(codes) ==
  [blank |-> FALSE, claim |-> FALSE, orders |-> {}, entities |-> {}, codes |-> codes,
   by |-> "template"]

Card(outcome, text) == [text |-> text, label |-> DisplayLabel(outcome), badge |-> HasBadge(outcome)]

TemplateCard(outcome) == Card(outcome, TemplateText({outcome.primary} \ ReasonText))

Accepted(run, entries, o) ==
  {i \in About(entries, o) : ~Rejected(entries[i].text, RunFacts(run), {o})}

\* The first entry that passes, and no later one, is the order's card.
CardOf(run, entries, o) ==
  LET accepted == Accepted(run, entries, o)
  IN IF accepted = {} THEN TemplateCard(run.outcomes[o])
                      ELSE Card(run.outcomes[o], entries[Min(accepted)].text)

\* Mutant: an order is listed only when an entry of its own was rejected.
QuietReplacements(run, entries, o) ==
  Cardinality(About(entries, o) \ Accepted(run, entries, o))

\* How often the order is listed as replaced: once for each entry that was
\* rejected before one passed, and once if there was none at all.
Replacements(run, entries, o) ==
  LET about    == About(entries, o)
      accepted == Accepted(run, entries, o)
  IN IF accepted # {} THEN Cardinality({i \in about : i < Min(accepted)})
     ELSE IF about = {} THEN 1
     ELSE Cardinality(about)

TemplateCards(run) ==
  [cards |-> [o \in Orders(run) |-> TemplateCard(run.outcomes[o])],
   source |-> "TEMPLATE", replaced |-> {}]

BuildCards(run, entries) ==
  LET times(o) == Replacements(run, entries, o)
  IN [cards    |-> [o \in Orders(run) |-> CardOf(run, entries, o)],
      source   |-> IF SumFunction([o \in Orders(run) |-> times(o)]) < Cardinality(Orders(run))
                   THEN "LLM" ELSE "TEMPLATE",
      replaced |-> {o \in Orders(run) : times(o) > 0}]

-----------------------------------------------------------------------------
(* Suggestions *)

\* What the order's window approves; the policy's own lists are not asked.
Permitted(order) ==
  {t \in {AddService, ChangeTerminal} :
     IF t = AddService THEN order.window.services # {} ELSE order.window.terminals # << >>}

\* Changing the destination only helps if a train of the baseline runs there.
NeedsPairing(snap, order) ==
  /\ order.window.terminals # << >>
  /\ \A s \in Listed(snap.baseline) :
       snap.services[s].destination \notin Listed(order.window.terminals)

AdjustmentForReason ==
  [code \in {"READY_AFTER_CUTOFF", "DUE_TIME_EXCEEDED", "CAPACITY_CONFLICT",
             "SERVICE_UNAVAILABLE", "SLOT_UNAVAILABLE", "WAGON_UNAVAILABLE",
             "TERMINAL_NOT_COMPATIBLE", "TERMINAL_NOT_ON_SERVICE_ROUTE",
             "TUNNEL_HEIGHT_EXCEEDED", "ROUTE_WIDTH_EXCEEDED", "ROUTE_WEIGHT_EXCEEDED"} |->
     IF code \in {"READY_AFTER_CUTOFF", "DUE_TIME_EXCEEDED", "CAPACITY_CONFLICT",
                  "SERVICE_UNAVAILABLE", "SLOT_UNAVAILABLE", "WAGON_UNAVAILABLE"}
     THEN AddService ELSE ChangeTerminal]

Proposal(types, text) == [types |-> types, text |-> text]

\* The pair where it must travel together, else the change aimed at the
\* blocking reason, else everything permitted.
Template(run, o) ==
  LET order     == run.task.snap.orders[o]
      permitted == Permitted(order)
      preferred == {AdjustmentForReason[c] : c \in {run.outcomes[o].primary}
                                                    \cap DOMAIN AdjustmentForReason} \cap permitted
  IN Proposal(IF \/ NeedsPairing(run.task.snap, order) /\ permitted = {AddService, ChangeTerminal}
                 \/ preferred = {}
              THEN permitted ELSE preferred, TemplateText({}))

\* The orders left out that still have something approved to try.
Suggestible(run) ==
  {o \in Orders(run) : /\ run.outcomes[o].input_state = "VALID"
                       /\ run.outcomes[o].assignment_state # "ASSIGNED"
                       /\ Permitted(run.task.snap.orders[o]) # {}}

\* Adjustment types are read only where the order has something to suggest.
ItemsRaise(run, items) ==
  \/ Raises(items)
  \/ \E i \in DOMAIN items : items[i].kind = "no_list" /\ items[i].order \in Suggestible(run)

\* A suggestion may also name what any order's window approves.
WindowIds(snap) ==
  UNION {{Entity("service", s) : s \in snap.orders[o].window.services} \cup
         {Entity("terminal", t) : t \in Listed(snap.orders[o].window.terminals)} : o \in DOMAIN snap.orders}

SuggestionFacts(run) == [RunFacts(run) EXCEPT !.entities = @ \cup WindowIds(run.task.snap)]

Chosen(run, o, item) == item.types \cap Permitted(run.task.snap.orders[o])

Usable(run, items, o) ==
  {i \in About(items, o) : /\ Chosen(run, o, items[i]) # {}
                           /\ ~Rejected(items[i].text, SuggestionFacts(run), {o})}

\* Mutant: the model's sentence and set are kept where two changes travel together.
UnpairedSuggestion(run, items, o) ==
  LET usable == Usable(run, items, o)
  IN IF usable = {} THEN Template(run, o)
     ELSE Proposal(Chosen(run, o, items[Max(usable)]), items[Max(usable)].text)

\* The last usable item wins; a pair stays computed, sentence and set.
SuggestionOf(run, items, o) ==
  LET usable == Usable(run, items, o)
  IN IF usable = {} \/ NeedsPairing(run.task.snap, run.task.snap.orders[o])
     THEN Template(run, o)
     ELSE Proposal(Chosen(run, o, items[Max(usable)]), items[Max(usable)].text)

\* The items that were not usable, each listed as replaced.
ReplacedItems(run, items, o) == Cardinality(About(items, o) \ Usable(run, items, o))

TemplateSuggestions(run) ==
  [suggestions |-> [o \in Suggestible(run) |-> Template(run, o)], source |-> "TEMPLATE"]

\* An order the model said nothing of counts as served by the model.
BuildSuggestions(run, items) ==
  LET times(o) == ReplacedItems(run, items, o)
  IN [suggestions |-> [o \in Suggestible(run) |-> SuggestionOf(run, items, o)],
      source |-> IF SumFunction([o \in Suggestible(run) |-> times(o)]) < Cardinality(Suggestible(run))
                 THEN "LLM" ELSE "TEMPLATE"]

-----------------------------------------------------------------------------
(* Answers *)

\* What an answer may name besides the run's own ids.  Shippers are not in
\* the model, and order ids are checked by the guard's own list.
SnapshotIds(snap) ==
  {Entity("service", s) : s \in DOMAIN snap.services} \cup
  {Entity("wagon", w) : w \in DOMAIN snap.wagons} \cup
  {Entity("slot", l) : l \in DOMAIN snap.slots} \cup
  {Entity("terminal", t) : t \in DOMAIN snap.terminals} \cup
  {Entity("route", r) : r \in DOMAIN snap.routes}

AnswerFacts(run) == [RunFacts(run) EXCEPT !.entities = @ \cup SnapshotIds(run.task.snap)]

NoText == [TemplateText({}) EXCEPT !.blank = TRUE]

Unavailable ==
  [text |-> TemplateText({}), source |-> "UNAVAILABLE", grounded |-> FALSE, used |-> {}]

AnswerFrom(run, reply) ==
  IF Rejected(reply.text, AnswerFacts(run), Orders(run))
  THEN [text |-> NoText, source |-> "LLM", grounded |-> FALSE, used |-> {}]
  ELSE [text |-> reply.text, source |-> "LLM", grounded |-> TRUE,
        used |-> reply.used \cap Orders(run)]
=============================================================================
