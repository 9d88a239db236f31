--------------------------- MODULE GenerativeLayer ---------------------------
(***************************************************************************)
(* The generative endpoints (app/routers/ai.py) over the model client      *)
(* (app/ai/client.py): the explanation of one solved run, questions about  *)
(* it, and the intake of single documents and batches.                     *)
(*                                                                         *)
(* Each client has one request in flight.  pc is the model call its        *)
(* handler waits for, call how far that call is: held to a schema, retried *)
(* without one, or returned.  Only the retry may return a reply of a shape *)
(* the schema excludes.  What a handler does between two model calls is    *)
(* one step; scenario and run may be deleted while it waits.               *)
(*                                                                         *)
(* Texts, entries and replies are those of TextGuard, Explanations and     *)
(* Intake.  A reply of the model is [given, ...]; one that is absent,      *)
(* unparsable or without the list asked for is NoReply.                    *)
(***************************************************************************)
EXTENDS Explanations, Intake

CONSTANTS
  Clients,
  Runs,        \* the solved runs a check starts from
  Configured,  \* whether an API key may be set
  Conforming(_), \* per call: the replies its schema admits
  OffSchema(_), \* per call: the further replies of the schema-less retry
  Documents    \* what the rule extractor may find in a document

Calls == {"cards", "suggestions", "answer", "single", "batch"}

\* A list a model returned has no holes.
IsList(entries) == Len(entries) \in Nat /\ DOMAIN entries = 1 .. Len(entries)

ASSUME RepliesAreLists ==
  \A what \in {"cards", "suggestions", "batch"} :
    \A r \in Conforming(what) \cup OffSchema(what) : r.given /\ IsList(r.entries)

\* What by says of a text the model returned.
ASSUME ModelWritesCards ==
  \A r \in Conforming("cards") \cup OffSchema("cards") :
    \A i \in DOMAIN r.entries : r.entries[i].kind = "object" => r.entries[i].text.by = "model"

\* Every schema types the ids, and makes evidence a list of objects and the
\* adjustment types a list.
ASSUME SchemasExcludeBroken ==
  /\ \A what \in {"cards", "suggestions", "batch"} :
       \A r \in Conforming(what) : ~Raises(r.entries)
  /\ \A r \in Conforming("suggestions") :
       \A i \in DOMAIN r.entries : r.entries[i].kind # "no_list"
  /\ \A r \in Conforming("answer") : r.kind # "broken"
  /\ \A r \in Conforming("single") : ~SingleRaises(r.entry)

\* A run holds the outcomes of its plan, where a search may have recorded its
\* verdict since.  Only an order whose input is valid is ever placed by one.
ASSUME RunsAreSolved ==
  \A r \in Runs :
    /\ StoredSnapshot(r.task.snap) /\ DOMAIN r.task.scope = DOMAIN r.task.snap.orders
    /\ DOMAIN r.outcomes = DOMAIN r.task.scope
    /\ \A o \in DOMAIN r.outcomes :
         LET built == BuildOutcomes(r.task, r.plan)[o]
             verdict == r.outcomes[o].alternative_state
         IN /\ r.outcomes[o] = [built EXCEPT !.alternative_state = verdict]
            /\ verdict \in {"NOT_SEARCHED", "NONE", "AVAILABLE"}
            /\ verdict = "AVAILABLE" => built.input_state = "VALID"

VARIABLES
  run,        \* the run asked about
  present,    \* its rows have not been deleted
  key,        \* an API key is configured
  stored,     \* the run's stored explanation
  pc,         \* per client: the model call awaited, or "idle"
  call,       \* per client: "structured", "plain" or "returned"
  reply,      \* per client: what the model call returned
  drawn,      \* per client: the cards built before the suggestions are asked for
  doc,        \* per client: the document sent
  served      \* per client: the response to its last request

asked == <<run, present, key, stored>>
vars  == <<run, present, key, stored, pc, call, reply, drawn, doc, served>>

NoReply  == [given |-> FALSE]
Absent   == [made |-> FALSE]
NoDocument == [terminals |-> << >>, times |-> << >>, tags |-> {}, first |-> [f \in {} |-> Null]]

Response(status, body) == [status |-> status, body |-> body]
Unasked == Response("none", Absent)

Init ==
  /\ run \in Runs /\ key \in Configured
  /\ present = TRUE /\ stored = Absent
  /\ pc = [c \in Clients |-> "idle"]
  /\ call = [c \in Clients |-> "structured"]
  /\ reply = [c \in Clients |-> NoReply]
  /\ drawn = [c \in Clients |-> Absent]
  /\ doc = [c \in Clients |-> NoDocument]
  /\ served = [c \in Clients |-> Unasked]

-----------------------------------------------------------------------------
(* The model client *)

Await(c, what) ==
  /\ pc' = [pc EXCEPT ![c] = what]
  /\ call' = [call EXCEPT ![c] = "structured"]
  /\ reply' = [reply EXCEPT ![c] = NoReply]

\* A new request; the response to the last one has been read.
Open(c, what) ==
  /\ Await(c, what)
  /\ served' = [served EXCEPT ![c] = Unasked]

\* Mutant: the cards drawn stay behind.
RespondOnly(c, status, body) ==
  /\ Await(c, "idle")
  /\ served' = [served EXCEPT ![c] = Response(status, body)]
  /\ doc' = [doc EXCEPT ![c] = NoDocument]
  /\ UNCHANGED drawn

Respond(c, status, body) ==
  /\ Await(c, "idle")
  /\ served' = [served EXCEPT ![c] = Response(status, body)]
  /\ drawn' = [drawn EXCEPT ![c] = Absent]
  /\ doc' = [doc EXCEPT ![c] = NoDocument]

\* Mutant: the retry is retried, with the schema again.
RetryAgain(c) ==
  /\ key /\ pc[c] # "idle" /\ call[c] # "returned"
  /\ call' = [call EXCEPT ![c] = IF @ = "plain" THEN "structured" ELSE "plain"]
  /\ UNCHANGED <<asked, pc, reply, drawn, doc, served>>

\* The structured call failed: once more, in plain JSON mode.
Retry(c) ==
  /\ key /\ pc[c] # "idle" /\ call[c] = "structured"
  /\ call' = [call EXCEPT ![c] = "plain"]
  /\ UNCHANGED <<asked, pc, reply, drawn, doc, served>>

\* What complete_json may return now.
Replies(c) ==
  {NoReply} \cup IF ~key THEN {}
                 ELSE Conforming(pc[c]) \cup IF call[c] = "plain" THEN OffSchema(pc[c]) ELSE {}

Return(c) ==
  /\ pc[c] # "idle" /\ call[c] # "returned"
  /\ \E r \in Replies(c) : reply' = [reply EXCEPT ![c] = r]
  /\ call' = [call EXCEPT ![c] = "returned"]
  /\ UNCHANGED <<asked, pc, drawn, doc, served>>

Returned(c, what) == pc[c] = what /\ call[c] = "returned"

Failed(c) == Respond(c, "500", Absent) /\ UNCHANGED asked

-----------------------------------------------------------------------------
(* GET /runs/{id}/explanation *)

NotFound(c) == Respond(c, "404", Absent) /\ UNCHANGED asked

\* Mutant: the stored explanation is not looked at.
GetAfresh(c) ==
  /\ pc[c] = "idle"
  /\ IF ~present THEN NotFound(c) ELSE Open(c, "cards") /\ UNCHANGED <<asked, drawn, doc>>

\* Read if there is one, generated otherwise.
GetExplanation(c) ==
  /\ pc[c] = "idle"
  /\ IF ~present THEN NotFound(c)
     ELSE IF stored.made THEN Respond(c, "200", stored) /\ UNCHANGED asked
     ELSE Open(c, "cards") /\ UNCHANGED <<asked, drawn, doc>>

Explanation(cards, proposed) ==
  [made |-> TRUE, cards |-> cards.cards, source |-> cards.source, replaced |-> cards.replaced,
   suggestions |-> proposed.suggestions, suggestion_source |-> proposed.source]

\* Saving updates the run's row, which a deletion may have taken away.
Save(c, explanation) ==
  /\ stored' = IF present THEN explanation ELSE stored
  /\ Respond(c, "200", explanation)
  /\ UNCHANGED <<run, present, key>>

NoSuggestions == [suggestions |-> [o \in {} |-> Template(run, o)], source |-> "ABSENT"]

CardsFrom(r) == IF r.given THEN BuildCards(run, r.entries) ELSE TemplateCards(run)

SuggestionsFrom(r) == IF r.given THEN BuildSuggestions(run, r.entries) ELSE TemplateSuggestions(run)

\* Mutant: the template of an order nobody knows is looked up.
UnknownUnreadable(r) ==
  r.given /\ \E i \in DOMAIN r.entries :
    \/ r.entries[i].kind = "broken"
    \/ r.entries[i].kind = "object" /\ r.entries[i].order \notin Orders(run)

Unreadable(r) == r.given /\ Raises(r.entries)

\* The cards are built; the suggestions follow if the scenario is still there
\* and some order has something to suggest.
DrawCards(c) ==
  /\ Returned(c, "cards")
  /\ IF Unreadable(reply[c]) THEN Failed(c)
     ELSE IF ~present THEN Save(c, Explanation(CardsFrom(reply[c]), NoSuggestions))
     ELSE IF Suggestible(run) = {}
          THEN Save(c, Explanation(CardsFrom(reply[c]), TemplateSuggestions(run)))
     ELSE /\ drawn' = [drawn EXCEPT ![c] = CardsFrom(reply[c])]
          /\ Await(c, "suggestions")
          /\ UNCHANGED <<asked, doc, served>>

Suggest(c) ==
  /\ Returned(c, "suggestions")
  /\ IF reply[c].given /\ ItemsRaise(run, reply[c].entries) THEN Failed(c)
     ELSE Save(c, Explanation(drawn[c], SuggestionsFrom(reply[c])))

-----------------------------------------------------------------------------
(* POST /runs/{id}/questions *)

AskQuestion(c) ==
  /\ pc[c] = "idle"
  /\ IF ~present THEN NotFound(c) ELSE Open(c, "answer") /\ UNCHANGED <<asked, drawn, doc>>

AnswerQuestion(c) ==
  /\ Returned(c, "answer")
  /\ IF ~reply[c].given THEN Respond(c, "200", Unavailable)
     ELSE IF reply[c].kind = "broken" THEN Respond(c, "500", Absent)
     ELSE Respond(c, "200", AnswerFrom(run, reply[c]))
  /\ UNCHANGED asked

-----------------------------------------------------------------------------
(* POST /intake/orders and /intake/order-batches *)

Drafts(orders, source, truncated) ==
  [orders |-> orders, source |-> source, truncated |-> truncated]

PostDocument(c, what) ==
  /\ pc[c] = "idle"
  /\ \E d \in Documents : doc' = [doc EXCEPT ![c] = d]
  /\ Open(c, what)
  /\ UNCHANGED <<asked, drawn>>

StructureRequest(c) ==
  /\ Returned(c, "single")
  /\ IF reply[c].given /\ SingleRaises(reply[c].entry) THEN Respond(c, "500", Absent)
     ELSE LET draft == IF reply[c].given THEN FinishedDraft(reply[c].entry, "LLM")
                                         ELSE RuleBased(doc[c])
          IN Respond(c, "200", Drafts(<<draft>>, draft.source, FALSE))
  /\ UNCHANGED asked

\* A reply without a list of orders falls back to the single-order path,
\* with a model call of its own.
StructureBatch(c) ==
  /\ Returned(c, "batch")
  /\ IF ~reply[c].given \/ reply[c].entries = << >>
     THEN Await(c, "single") /\ UNCHANGED <<drawn, doc, served>>
     ELSE LET kept == BatchEntries(reply[c].entries)
          IN IF Raises(kept) THEN Respond(c, "500", Absent)
             ELSE Respond(c, "200",
                    Drafts([i \in DOMAIN kept |-> FinishedDraft(kept[i], "LLM")], "LLM",
                           Truncated(reply[c].entries)))
  /\ UNCHANGED asked

-----------------------------------------------------------------------------

\* DELETE /scenarios/{id}, by another client: the run goes with it.
DeleteScenario ==
  /\ present
  /\ present' = FALSE /\ stored' = Absent
  /\ UNCHANGED <<run, key, pc, call, reply, drawn, doc, served>>

Handle(c) ==
  \/ Retry(c) \/ Return(c)
  \/ DrawCards(c) \/ Suggest(c)
  \/ AnswerQuestion(c)
  \/ StructureRequest(c) \/ StructureBatch(c)

Request(c) ==
  \/ GetExplanation(c) \/ AskQuestion(c)
  \/ PostDocument(c, "single") \/ PostDocument(c, "batch")

Next == \/ \E c \in Clients : Request(c) \/ Handle(c)
        \/ DeleteScenario

\* A handler runs on, and a model call returns or fails: the client library
\* times out and every exception is caught (client.py:94).
Fairness == \A c \in Clients : WF_vars(Handle(c))

Spec == Init /\ [][Next]_vars /\ Fairness

-----------------------------------------------------------------------------
(* Properties *)

\* A request waits for a call only in the states its handler can be in: cards
\* are held exactly while the suggestions are asked for.
TypeOK ==
  /\ run \in Runs /\ present \in BOOLEAN /\ key \in Configured
  /\ pc \in [Clients -> Calls \cup {"idle"}]
  /\ call \in [Clients -> {"structured", "plain", "returned"}]
  /\ \A c \in Clients : reply[c].given => key /\ call[c] = "returned"
  /\ \A c \in Clients : pc[c] = "suggestions" <=> drawn[c] # Absent
  /\ \A c \in Clients : served[c].status \in {"none", "200", "404", "500"}
  /\ stored.made => present

\* Everything a client can read of the explanation.
Shown == {stored} \cup {served[c].body : c \in Clients}

Explained == {b \in Shown : "made" \in DOMAIN b /\ b.made}

Answers == {b \in Shown : "grounded" \in DOMAIN b}

DraftsServed ==
  UNION {{b.orders[i] : i \in DOMAIN b.orders} : b \in {x \in Shown : "orders" \in DOMAIN x}}

\* A sentence speaks of these orders only, names nothing but these entities
\* and the run's own reason codes, and claims nothing.
SpeaksOf(text, orders, entities) ==
  /\ ~text.claim
  /\ text.orders \subseteq orders
  /\ text.entities \subseteq entities
  /\ text.codes \subseteq Codes(run) \cup SchemaVocabulary

\* Whatever the model replied, and whichever of its entries were taken, a card
\* and a suggestion speak of their own order only, and no sentence served or
\* stored names what the run does not contain (explain.py:1-7).
ServedIsGrounded ==
  /\ \A b \in Explained :
       /\ \A o \in DOMAIN b.cards : SpeaksOf(b.cards[o].text, {o}, EntityIds(run))
       /\ \A o \in DOMAIN b.suggestions :
            SpeaksOf(b.suggestions[o].text, {o}, EntityIds(run) \cup WindowIds(run.task.snap))
  /\ \A b \in Answers :
       SpeaksOf(b.text, Orders(run), EntityIds(run) \cup SnapshotIds(run.task.snap))

\* Every order has a card, and its label and badge tell the operator one
\* story: IMPOSSIBLE is said only of an order that was searched in vain, and
\* never beside the badge of an alternative (explain.py:370-404).
CardsAgreeWithRun ==
  \A b \in Explained :
    /\ DOMAIN b.cards = Orders(run)
    /\ \A o \in Orders(run) : LET card == b.cards[o] IN
         /\ card.label = "IMPOSSIBLE" => run.outcomes[o].alternative_state = "NONE"
         /\ card.badge => card.label = "BASELINE_FAILED" \/ run.outcomes[o].eligibility_state = "ELIGIBLE"
         /\ run.outcomes[o].alternative_state = "AVAILABLE" => card.badge

\* A swap to the template is never silent: where the response says the model
\* wrote the cards, it wrote at least one, and every order whose card it did
\* not write is listed as replaced (explain.py:127-182).
SourceTellsServed ==
  \A b \in Explained : b.source = "LLM" =>
    /\ \E o \in DOMAIN b.cards : b.cards[o].text.by = "model"
    /\ \A o \in DOMAIN b.cards : b.cards[o].text.by = "template" => o \in b.replaced

\* A suggestion can be acted on: sent to the alternative endpoint as it
\* stands it is neither refused nor without effect, and where no train of the
\* baseline runs to the approved terminal, a change of terminal never travels
\* without the service (suggest.py:125-127).  For windows that list at most
\* one destination and policies that allow both changes.
SuggestionActionable ==
  LET snap == run.task.snap
  IN \A b \in Explained : \A o \in DOMAIN b.suggestions :
       LET window == snap.orders[o].window
           types  == b.suggestions[o].types
       IN Len(window.terminals) <= 1 /\ {AddService, ChangeTerminal} \subseteq snap.allowed
          => /\ Opening(snap, o, types) = "SOLVE"
             /\ NeedsPairing(snap, snap.orders[o]) /\ window.services # {}
                => (ChangeTerminal \in types => AddService \in types)

\* A draft holds no id outside the closed lists and no size that is not
\* positive, is called VALID only when nothing an order needs is open, and
\* quotes no evidence for a field that has no value (intake.py:1-6).
DraftsAreHonest ==
  \A d \in DraftsServed :
    /\ \A f \in DOMAIN Vocabulary : d.draft[f] \subseteq Vocabulary[f]
    /\ d.draft["dimensions_mm"] \subseteq Axes
    /\ d.input_state = "VALID" =>
         (\A f \in RequiredFields : d.draft[f] # {}) /\ d.draft["dimensions_mm"] = Axes
    /\ \A e \in d.evidence : d.draft[e[1]] # {}

\* A reply held to its schema never costs the request: a 500 can only follow
\* the retry without one (explain.py:70-74, intake.py:204-207).
FailsOnlyOffSchema ==
  [][\A c \in Clients : served'[c].status = "500" /\ served'[c] # served[c]
                        => reply[c] \notin Conforming(pc[c])]_vars

\* A badly shaped reply costs its own sentence, never the request.
NeverFails == \A c \in Clients : served[c].status # "500"

\* Once written, the explanation of a run stays what it is until the run goes.
WrittenOnce == [][stored.made /\ present' => stored' = stored]_vars

\* Every request is answered, with a model or without, whichever calls fail.
EveryRequestEnds == \A c \in Clients : pc[c] # "idle" ~> pc[c] = "idle"
=============================================================================
