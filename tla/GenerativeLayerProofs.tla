------------------------ MODULE GenerativeLayerProofs ------------------------
(* What the generative layer serves and stores is grounded, tells the truth *)
(* about the run and about who wrote it, and can be acted on: for every     *)
(* solved run, every reply of the model and any number of clients.          *)
EXTENDS GenerativeLayer, PlanProofs

-----------------------------------------------------------------------------
(* Which entry of a list is taken *)

\* A finite set that is not empty has an element no other is above.
LEMMA MaximalExists ==
  ASSUME NEW S, IsFiniteSet(S), S # {}, NEW R,
         \A a \in S : <<a, a>> \notin R,
         \A a, b, c \in S : <<a, b>> \in R /\ <<b, c>> \in R => <<a, c>> \in R
  PROVE  \E a \in S : \A b \in S : <<a, b>> \notin R
<1> DEFINE Above(a) == {b \in S : <<a, b>> \in R}
           above == {Above(a) : a \in S}
<1>1. IsWellFoundedOn(StrictSubsetOrdering(S), FiniteSubsetsOf(S))
  BY FS_StrictSubsetOrderingWellFounded
<1>2. above \subseteq FiniteSubsetsOf(S) /\ above # {}
  <2>1. ASSUME NEW a \in S
        PROVE  Above(a) \in FiniteSubsetsOf(S)
    <3>1. Above(a) \subseteq S
      OBVIOUS
    <3>2. IsFiniteSet(Above(a))
      BY <3>1, FS_Subset
    <3> QED BY <3>1, <3>2 DEF FiniteSubsetsOf
  <2>2. above \subseteq FiniteSubsetsOf(S)
    <3> HIDE DEF Above
    <3> QED BY <2>1
  <2>3. PICK a \in S : TRUE
    OBVIOUS
  <2>4. Above(a) \in above
    BY <2>3
  <2> QED BY <2>2, <2>4
<1>3. PICK least \in above : \A U \in above : <<U, least>> \notin StrictSubsetOrdering(S)
  BY <1>1, <1>2, WFMin, Zenon
<1>4. PICK a \in S : least = Above(a)
  BY <1>3
<1>5. ASSUME NEW b \in S, <<a, b>> \in R
      PROVE  FALSE
  <2>1. Above(b) \subseteq Above(a) /\ b \in Above(a) /\ b \notin Above(b)
    BY <1>5
  <2>2. <<Above(b), Above(a)>> \in StrictSubsetOrdering(S)
    BY <2>1 DEF StrictSubsetOrdering
  <2> QED BY <2>2, <1>3, <1>4
<1> QED BY <1>5

LEMMA ExtremesAreMembers ==
  ASSUME NEW n \in Nat, NEW S, S \subseteq 1 .. n, S # {}
  PROVE  Min(S) \in S /\ Max(S) \in S
<1>1. IsFiniteSet(S) /\ S \subseteq Int
  <2>1. IsFiniteSet(1 .. n)
    BY FS_Interval
  <2>2. IsFiniteSet(S)
    BY <2>1, FS_Subset
  <2> QED BY <2>2
<1>2. \E a \in S : \A b \in S : a <= b
  <2> DEFINE R == {p \in S \X S : p[1] > p[2]}
  <2>1. \A a \in S : <<a, a>> \notin R
    BY <1>1
  <2>2. \A a, b, c \in S : <<a, b>> \in R /\ <<b, c>> \in R => <<a, c>> \in R
    BY <1>1
  <2>3. \E a \in S : \A b \in S : <<a, b>> \notin R
    <3> HIDE DEF R
    <3> QED BY <1>1, <2>1, <2>2, MaximalExists
  <2>4. PICK a \in S : \A b \in S : <<a, b>> \notin R
    BY <2>3
  <2>5. ASSUME NEW b \in S
        PROVE  a <= b
    <3>1. ~ (a > b)
      BY <2>4
    <3> QED BY <3>1, <1>1
  <2> QED BY <2>5
<1>3. \E a \in S : \A b \in S : b <= a
  <2> DEFINE R == {p \in S \X S : p[1] < p[2]}
  <2>1. \A a \in S : <<a, a>> \notin R
    BY <1>1
  <2>2. \A a, b, c \in S : <<a, b>> \in R /\ <<b, c>> \in R => <<a, c>> \in R
    BY <1>1
  <2>3. \E a \in S : \A b \in S : <<a, b>> \notin R
    <3> HIDE DEF R
    <3> QED BY <1>1, <2>1, <2>2, MaximalExists
  <2>4. PICK a \in S : \A b \in S : <<a, b>> \notin R
    BY <2>3
  <2>5. ASSUME NEW b \in S
        PROVE  b <= a
    <3>1. ~ (a < b)
      BY <2>4
    <3> QED BY <3>1, <1>1
  <2> QED BY <2>5
<1> QED BY <1>2, <1>3 DEF Min, Max

-----------------------------------------------------------------------------
(* What the texts built from a run and a reply say *)

\* SpeaksOf, of run r.
Speaks(r, text, orders, entities) ==
  /\ ~text.claim
  /\ text.orders \subseteq orders
  /\ text.entities \subseteq entities
  /\ text.codes \subseteq Codes(r) \cup SchemaVocabulary

GroundedCards(r, cards) == \A o \in DOMAIN cards : Speaks(r, cards[o].text, {o}, EntityIds(r))

GroundedSuggestions(r, suggestions) ==
  \A o \in DOMAIN suggestions :
    Speaks(r, suggestions[o].text, {o}, EntityIds(r) \cup WindowIds(r.task.snap))

GroundedAnswer(r, text) ==
  Speaks(r, text, Orders(r), EntityIds(r) \cup SnapshotIds(r.task.snap))

LEMMA AcceptedSpeaks ==
  ASSUME NEW r, NEW text, NEW facts, NEW scope, facts.codes = Codes(r), ~Rejected(text, facts, scope)
  PROVE  Speaks(r, text, scope, facts.entities)
BY DEF Rejected, Speaks

LEMMA TemplateSpeaks ==
  ASSUME NEW r, NEW codes \in SUBSET Codes(r), NEW orders, NEW entities
  PROVE  Speaks(r, TemplateText(codes), orders, entities)
BY DEF Speaks, TemplateText

\* The card an order gets: the template, or the first entry that passed.
LEMMA CardOfCases ==
  ASSUME NEW r, NEW entries, IsList(entries), NEW o
  PROVE  \/ /\ Accepted(r, entries, o) = {}
            /\ CardOf(r, entries, o) = TemplateCard(r.outcomes[o])
         \/ \E i \in Accepted(r, entries, o) :
              CardOf(r, entries, o) = Card(r.outcomes[o], entries[i].text)
<1> DEFINE accepted == Accepted(r, entries, o)
<1>1. CASE accepted = {}
  BY <1>1 DEF CardOf
<1>2. CASE accepted # {}
  <2>1. accepted \subseteq 1 .. Len(entries) /\ Len(entries) \in Nat
    BY DEF Accepted, About, IsList
  <2>2. Min(accepted) \in accepted
    BY <1>2, <2>1, ExtremesAreMembers
  <2>3. CardOf(r, entries, o) = Card(r.outcomes[o], entries[Min(accepted)].text)
    BY <1>2 DEF CardOf
  <2> QED BY <2>2, <2>3
<1> QED BY <1>1, <1>2

LEMMA TemplateCardSpeaks ==
  ASSUME NEW r, NEW o \in Orders(r), NEW entities
  PROVE  Speaks(r, TemplateCard(r.outcomes[o]).text, {o}, entities)
<1>1. {r.outcomes[o].primary} \ ReasonText \in SUBSET Codes(r)
  BY DEF Codes
<1>2. TemplateCard(r.outcomes[o]).text = TemplateText({r.outcomes[o].primary} \ ReasonText)
  BY DEF TemplateCard, Card
<1> QED BY <1>1, <1>2, TemplateSpeaks

LEMMA CardsGrounded ==
  ASSUME NEW r
  PROVE  /\ GroundedCards(r, TemplateCards(r).cards)
         /\ \A entries : IsList(entries) => GroundedCards(r, BuildCards(r, entries).cards)
<1>1. GroundedCards(r, TemplateCards(r).cards)
  BY TemplateCardSpeaks DEF GroundedCards, TemplateCards
<1>2. ASSUME NEW entries, IsList(entries), NEW o \in Orders(r)
      PROVE  Speaks(r, CardOf(r, entries, o).text, {o}, EntityIds(r))
  <2>1. ASSUME NEW i \in Accepted(r, entries, o),
               CardOf(r, entries, o) = Card(r.outcomes[o], entries[i].text)
        PROVE  Speaks(r, CardOf(r, entries, o).text, {o}, EntityIds(r))
    <3>1. CardOf(r, entries, o).text = entries[i].text
      BY <2>1 DEF Card
    <3>2. ~Rejected(entries[i].text, RunFacts(r), {o})
      BY <2>1 DEF Accepted
    <3>3. RunFacts(r).codes = Codes(r) /\ RunFacts(r).entities = EntityIds(r)
      BY DEF RunFacts
    <3> QED BY <3>1, <3>2, <3>3, AcceptedSpeaks
  <2> QED BY <1>2, <2>1, CardOfCases, TemplateCardSpeaks
<1>3. ASSUME NEW entries, IsList(entries)
      PROVE  GroundedCards(r, BuildCards(r, entries).cards)
  <2>1. BuildCards(r, entries).cards = [o \in Orders(r) |-> CardOf(r, entries, o)]
    BY DEF BuildCards
  <2> QED BY <1>2, <1>3, <2>1 DEF GroundedCards
<1> QED BY <1>1, <1>3

LEMMA TemplateSuggestionSpeaks ==
  ASSUME NEW r, NEW o, NEW entities
  PROVE  Speaks(r, Template(r, o).text, {o}, entities)
<1>1. Template(r, o).text = TemplateText({})
  BY DEF Template, Proposal
<1> QED BY <1>1, TemplateSpeaks

\* The suggestion an order gets: the template, which it always is where two
\* changes travel together, or the last usable item.
LEMMA SuggestionOfCases ==
  ASSUME NEW r, NEW items, IsList(items), NEW o
  PROVE  \/ SuggestionOf(r, items, o) = Template(r, o)
         \/ /\ ~NeedsPairing(r.task.snap, r.task.snap.orders[o])
            /\ \E i \in Usable(r, items, o) :
                 SuggestionOf(r, items, o) = Proposal(Chosen(r, o, items[i]), items[i].text)
<1> DEFINE usable == Usable(r, items, o)
<1>1. CASE usable = {} \/ NeedsPairing(r.task.snap, r.task.snap.orders[o])
  BY <1>1 DEF SuggestionOf
<1>2. CASE ~ (usable = {} \/ NeedsPairing(r.task.snap, r.task.snap.orders[o]))
  <2>1. usable \subseteq 1 .. Len(items) /\ Len(items) \in Nat /\ usable # {}
    BY <1>2 DEF Usable, About, IsList
  <2>2. Max(usable) \in usable
    BY <2>1, ExtremesAreMembers
  <2>3. SuggestionOf(r, items, o) = Proposal(Chosen(r, o, items[Max(usable)]), items[Max(usable)].text)
    BY <1>2 DEF SuggestionOf
  <2> QED BY <1>2, <2>2, <2>3
<1> QED BY <1>1, <1>2

LEMMA SuggestionsGrounded ==
  ASSUME NEW r
  PROVE  /\ GroundedSuggestions(r, TemplateSuggestions(r).suggestions)
         /\ \A items : IsList(items) => GroundedSuggestions(r, BuildSuggestions(r, items).suggestions)
<1> DEFINE entities == EntityIds(r) \cup WindowIds(r.task.snap)
<1>1. GroundedSuggestions(r, TemplateSuggestions(r).suggestions)
  BY TemplateSuggestionSpeaks DEF GroundedSuggestions, TemplateSuggestions
<1>2. ASSUME NEW items, IsList(items), NEW o \in Suggestible(r)
      PROVE  Speaks(r, SuggestionOf(r, items, o).text, {o}, entities)
  <2>1. ASSUME NEW i \in Usable(r, items, o),
               SuggestionOf(r, items, o) = Proposal(Chosen(r, o, items[i]), items[i].text)
        PROVE  Speaks(r, SuggestionOf(r, items, o).text, {o}, entities)
    <3>1. SuggestionOf(r, items, o).text = items[i].text
      BY <2>1 DEF Proposal
    <3>2. ~Rejected(items[i].text, SuggestionFacts(r), {o})
      BY <2>1 DEF Usable
    <3>3. SuggestionFacts(r).codes = Codes(r) /\ SuggestionFacts(r).entities = entities
      BY DEF RunFacts, SuggestionFacts
    <3> QED BY <3>1, <3>2, <3>3, AcceptedSpeaks
  <2> QED BY <1>2, <2>1, SuggestionOfCases, TemplateSuggestionSpeaks
<1>3. ASSUME NEW items, IsList(items)
      PROVE  GroundedSuggestions(r, BuildSuggestions(r, items).suggestions)
  <2>1. BuildSuggestions(r, items).suggestions = [o \in Suggestible(r) |-> SuggestionOf(r, items, o)]
    BY DEF BuildSuggestions
  <2> QED BY <1>2, <1>3, <2>1 DEF GroundedSuggestions
<1> QED BY <1>1, <1>3

LEMMA AnswersGrounded ==
  ASSUME NEW r
  PROVE  /\ GroundedAnswer(r, Unavailable.text)
         /\ \A reply_ : GroundedAnswer(r, AnswerFrom(r, reply_).text)
<1>1. GroundedAnswer(r, TemplateText({})) /\ Unavailable.text = TemplateText({})
  BY TemplateSpeaks DEF GroundedAnswer, Unavailable
<1>2. GroundedAnswer(r, NoText)
  BY DEF GroundedAnswer, NoText, Speaks, TemplateText
<1>3. ASSUME NEW a
      PROVE  GroundedAnswer(r, AnswerFrom(r, a).text)
  <2>1. CASE Rejected(a.text, AnswerFacts(r), Orders(r))
    <3>1. AnswerFrom(r, a).text = NoText
      BY <2>1 DEF AnswerFrom
    <3> QED BY <3>1, <1>2
  <2>2. CASE ~Rejected(a.text, AnswerFacts(r), Orders(r))
    <3>1. AnswerFrom(r, a).text = a.text
      BY <2>2 DEF AnswerFrom
    <3>2. /\ AnswerFacts(r).codes = Codes(r)
          /\ AnswerFacts(r).entities = EntityIds(r) \cup SnapshotIds(r.task.snap)
      BY DEF RunFacts, AnswerFacts
    <3> QED BY <2>2, <3>1, <3>2, AcceptedSpeaks DEF GroundedAnswer
  <2> QED BY <2>1, <2>2
<1> QED BY <1>1, <1>3

-----------------------------------------------------------------------------
(* Cards: labels, badges and source *)

OneStory(r, cards) ==
  /\ DOMAIN cards = Orders(r)
  /\ \A o \in Orders(r) : LET card == cards[o] IN
       /\ card.label = "IMPOSSIBLE" => r.outcomes[o].alternative_state = "NONE"
       /\ card.badge => card.label = "BASELINE_FAILED" \/ r.outcomes[o].eligibility_state = "ELIGIBLE"
       /\ r.outcomes[o].alternative_state = "AVAILABLE" => card.badge

SourceTold(drawing) ==
  drawing.source = "LLM" =>
    /\ \E o \in DOMAIN drawing.cards : drawing.cards[o].text.by = "model"
    /\ \A o \in DOMAIN drawing.cards :
         drawing.cards[o].text.by = "template" => o \in drawing.replaced

\* What a solved run says of one order: its outcome is that of the gate's
\* verdict, and only an order the gate evaluated has an alternative.
LEMMA SolvedRun ==
  ASSUME NEW r \in Runs, NEW o \in Orders(r)
  PROVE  /\ r.outcomes[o].eligibility_state \in {"NOT_EVALUATED", "ELIGIBLE", "INELIGIBLE"}
         /\ r.outcomes[o].input_state = "VALID" <=>
              r.outcomes[o].eligibility_state # "NOT_EVALUATED"
         /\ r.outcomes[o].input_state \in {"VALID", "REVIEW_REQUIRED"}
         /\ r.outcomes[o].alternative_state \in {"NOT_SEARCHED", "NONE", "AVAILABLE"}
         /\ r.outcomes[o].alternative_state = "AVAILABLE" => r.outcomes[o].input_state = "VALID"
<1> DEFINE e == EvaluateOrder(r.task.snap, o, r.task.scope[o])
           built == BuildOutcomes(r.task, r.plan)[o]
           verdict == r.outcomes[o].alternative_state
<1>1. o \in DOMAIN r.task.snap.orders /\ DOMAIN r.task.scope = DOMAIN r.task.snap.orders
  BY RunsAreSolved DEF Orders
<1>2. /\ r.outcomes[o] = [built EXCEPT !.alternative_state = verdict]
      /\ verdict \in {"NOT_SEARCHED", "NONE", "AVAILABLE"}
      /\ verdict = "AVAILABLE" => built.input_state = "VALID"
  BY RunsAreSolved DEF Orders
<1>3. \E assigned \in BOOLEAN : built = Outcome(e, assigned)
  <2>1. Evaluation(r.task)[o] = e /\ DOMAIN Evaluation(r.task) = DOMAIN r.task.snap.orders
    BY <1>1 DEF Evaluation, EvaluateScenario
  <2>2. built = Outcome(e, \E a \in r.plan : a.order = o)
    <3> HIDE DEF e
    <3> QED BY <1>1, <2>1 DEF BuildOutcomes
  <2>3. CASE \E a \in r.plan : a.order = o
    <3>1. built = Outcome(e, TRUE)
      <4> HIDE DEF e, built
      <4> QED BY <2>2, <2>3 DEF Outcome
    <3> HIDE DEF e, built
    <3> QED BY <3>1
  <2>4. CASE ~ \E a \in r.plan : a.order = o
    <3>1. built = Outcome(e, FALSE)
      <4> HIDE DEF e, built
      <4> QED BY <2>2, <2>4 DEF Outcome
    <3> HIDE DEF e, built
    <3> QED BY <3>1
  <2> QED BY <2>3, <2>4
<1>4. built.input_state = e.input_state /\ built.eligibility_state = e.eligibility_state
  <2> HIDE DEF e, built
  <2> QED BY <1>3, OutcomeStates
<1>5. /\ e.eligibility_state \in {"NOT_EVALUATED", "ELIGIBLE", "INELIGIBLE"}
      /\ e.input_state = "VALID" <=> e.eligibility_state # "NOT_EVALUATED"
      /\ e.input_state \in {"VALID", "REVIEW_REQUIRED"}
  BY EvaluationStates
<1>6. /\ r.outcomes[o].input_state = built.input_state
      /\ r.outcomes[o].eligibility_state = built.eligibility_state
  <2> HIDE DEF verdict
  <2> QED BY <1>2
<1> QED BY <1>2, <1>4, <1>5, <1>6

\* Label and badge are two readings of one outcome.
LEMMA CardTellsOneStory ==
  ASSUME NEW r \in Runs, NEW o \in Orders(r), NEW text
  PROVE  LET card == Card(r.outcomes[o], text)
         IN  /\ card.label = "IMPOSSIBLE" => r.outcomes[o].alternative_state = "NONE"
             /\ card.badge => \/ card.label = "BASELINE_FAILED"
                              \/ r.outcomes[o].eligibility_state = "ELIGIBLE"
             /\ r.outcomes[o].alternative_state = "AVAILABLE" => card.badge
<1> DEFINE out == r.outcomes[o]
<1>1. /\ out.eligibility_state \in {"NOT_EVALUATED", "ELIGIBLE", "INELIGIBLE"}
      /\ out.input_state = "VALID" <=> out.eligibility_state # "NOT_EVALUATED"
      /\ out.input_state \in {"VALID", "REVIEW_REQUIRED"}
      /\ out.alternative_state \in {"NOT_SEARCHED", "NONE", "AVAILABLE"}
      /\ out.alternative_state = "AVAILABLE" => out.input_state = "VALID"
  BY SolvedRun
<1> HIDE DEF out
<1>2. DisplayLabel(out) = "IMPOSSIBLE" => out.alternative_state = "NONE"
  BY <1>1 DEF DisplayLabel
<1>3. out.alternative_state = "AVAILABLE" =>
        DisplayLabel(out) = "BASELINE_FAILED" \/ out.eligibility_state = "ELIGIBLE"
  BY <1>1 DEF DisplayLabel
<1>4. Card(out, text).label = DisplayLabel(out) /\ Card(out, text).badge = HasBadge(out)
  BY DEF Card
<1>5. HasBadge(out) <=> out.alternative_state = "AVAILABLE"
  BY DEF HasBadge
<1>6. LET card == Card(out, text)
      IN  /\ card.label = "IMPOSSIBLE" => out.alternative_state = "NONE"
          /\ card.badge => card.label = "BASELINE_FAILED" \/ out.eligibility_state = "ELIGIBLE"
          /\ out.alternative_state = "AVAILABLE" => card.badge
  BY <1>2, <1>3, <1>4, <1>5
<1> QED BY <1>6 DEF out

LEMMA CardsTellOneStory ==
  ASSUME NEW r \in Runs
  PROVE  /\ OneStory(r, TemplateCards(r).cards)
         /\ \A entries : IsList(entries) => OneStory(r, BuildCards(r, entries).cards)
<1>1. ASSUME NEW o \in Orders(r), NEW card, \E text : card = Card(r.outcomes[o], text)
      PROVE  /\ card.label = "IMPOSSIBLE" => r.outcomes[o].alternative_state = "NONE"
             /\ card.badge => \/ card.label = "BASELINE_FAILED"
                              \/ r.outcomes[o].eligibility_state = "ELIGIBLE"
             /\ r.outcomes[o].alternative_state = "AVAILABLE" => card.badge
  BY <1>1, CardTellsOneStory
<1>2. OneStory(r, TemplateCards(r).cards)
  <2>1. TemplateCards(r).cards = [o \in Orders(r) |-> TemplateCard(r.outcomes[o])]
    BY DEF TemplateCards
  <2>2. \A o \in Orders(r) : \E text : TemplateCards(r).cards[o] = Card(r.outcomes[o], text)
    BY <2>1 DEF TemplateCard
  <2> QED BY <1>1, <2>1, <2>2 DEF OneStory
<1>3. ASSUME NEW entries, IsList(entries)
      PROVE  OneStory(r, BuildCards(r, entries).cards)
  <2>1. BuildCards(r, entries).cards = [o \in Orders(r) |-> CardOf(r, entries, o)]
    BY DEF BuildCards
  <2>2. \A o \in Orders(r) : \E text : CardOf(r, entries, o) = Card(r.outcomes[o], text)
    BY <1>3, CardOfCases DEF TemplateCard
  <2> QED BY <1>1, <2>1, <2>2 DEF OneStory
<1> QED BY <1>2, <1>3

\* An order whose card no entry supplied is counted at least once.
LEMMA ReplacementsCount ==
  ASSUME NEW r, NEW entries, IsList(entries), NEW o
  PROVE  /\ Replacements(r, entries, o) \in Nat
         /\ Accepted(r, entries, o) = {} => Replacements(r, entries, o) >= 1
<1> DEFINE about == About(entries, o)
           accepted == Accepted(r, entries, o)
           before == {i \in about : i < Min(accepted)}
<1>1. IsFiniteSet(about) /\ IsFiniteSet(before)
  <2>1. about \subseteq 1 .. Len(entries) /\ Len(entries) \in Nat
    BY DEF About, IsList
  <2>2. IsFiniteSet(1 .. Len(entries))
    BY <2>1, FS_Interval
  <2>3. before \subseteq about
    OBVIOUS
  <2> HIDE DEF about, before
  <2> QED BY <2>1, <2>2, <2>3, FS_Subset
<1>2. /\ Cardinality(about) \in Nat /\ Cardinality(before) \in Nat
      /\ Cardinality(about) = 0 <=> about = {}
  <2> HIDE DEF about, before
  <2> QED BY <1>1, FS_CardinalityType, FS_EmptySet
<1>3. Replacements(r, entries, o) =
        IF accepted # {} THEN Cardinality(before)
        ELSE IF about = {} THEN 1 ELSE Cardinality(about)
  BY DEF Replacements
<1> HIDE DEF about, accepted, before
<1>4. /\ Replacements(r, entries, o) \in Nat
      /\ accepted = {} => Replacements(r, entries, o) >= 1
  BY <1>2, <1>3
<1> QED BY <1>4 DEF accepted

\* The response says LLM only if some order was never replaced, and lists
\* every order whose card the model did not write.
LEMMA SourceIsTold ==
  ASSUME NEW r \in Runs, NEW entries, IsList(entries),
         \A i \in DOMAIN entries : entries[i].kind = "object" => entries[i].text.by = "model"
  PROVE  SourceTold(BuildCards(r, entries))
<1> DEFINE f == [o \in Orders(r) |-> Replacements(r, entries, o)]
           drawing == BuildCards(r, entries)
<1>1. /\ drawing.cards = [o \in Orders(r) |-> CardOf(r, entries, o)]
      /\ drawing.source = IF SumFunction(f) < Cardinality(Orders(r)) THEN "LLM" ELSE "TEMPLATE"
      /\ drawing.replaced = {o \in Orders(r) : Replacements(r, entries, o) > 0}
  BY DEF BuildCards
<1>2. ASSUME NEW o \in Orders(r)
      PROVE  \/ Accepted(r, entries, o) = {} /\ Replacements(r, entries, o) >= 1
             \/ Accepted(r, entries, o) # {} /\ CardOf(r, entries, o).text.by = "model"
  <2>1. CASE Accepted(r, entries, o) = {}
    BY <2>1, ReplacementsCount
  <2>2. CASE Accepted(r, entries, o) # {}
    <3>1. PICK i \in Accepted(r, entries, o) : CardOf(r, entries, o) = Card(r.outcomes[o], entries[i].text)
      BY <2>2, CardOfCases
    <3>2. entries[i].text.by = "model"
      BY DEF Accepted, About
    <3> QED BY <2>2, <3>1, <3>2 DEF Card
  <2> QED BY <2>1, <2>2
<1>3. \A o \in Orders(r) : f[o] \in Nat
  BY ReplacementsCount
<1>4. IsFiniteSet(Orders(r))
  BY RunsAreSolved DEF Orders, StoredSnapshot
<1>5. SumFunction(f) = SumFunctionOnSet(f, Orders(r))
  BY DEF SumFunction
<1>6. f = [o \in Orders(r) |-> Replacements(r, entries, o)]
  OBVIOUS
<1> HIDE DEF f, drawing
<1>7. ASSUME drawing.source = "LLM"
      PROVE  \E o \in Orders(r) : CardOf(r, entries, o).text.by = "model"
  <2>1. ~ (SumFunctionOnSet(f, Orders(r)) >= Cardinality(Orders(r)))
    <3>1. SumFunctionOnSet(f, Orders(r)) < Cardinality(Orders(r))
      BY <1>1, <1>5, <1>7
    <3>2. SumFunctionOnSet(f, Orders(r)) \in Nat /\ Cardinality(Orders(r)) \in Nat
      BY <1>3, <1>4, SumBounds, FS_CardinalityType
    <3> QED BY <3>1, <3>2
  <2>2. PICK o \in Orders(r) : ~ (f[o] >= 1)
    <3>1. (\A x \in Orders(r) : f[x] \in Nat /\ f[x] >= 1)
             => SumFunctionOnSet(f, Orders(r)) >= Cardinality(Orders(r))
      BY <1>4, SumAtLeastCount
    <3> QED BY <1>3, <2>1, <3>1
  <2>3. ~ (Replacements(r, entries, o) >= 1)
    BY <1>6, <2>2
  <2> QED BY <1>2, <2>3
<1>8. \A o \in Orders(r) : CardOf(r, entries, o).text.by = "template" => o \in drawing.replaced
  <2>1. ASSUME NEW o \in Orders(r), CardOf(r, entries, o).text.by = "template"
        PROVE  o \in drawing.replaced
    <3>1. Replacements(r, entries, o) >= 1 /\ Replacements(r, entries, o) \in Nat
      BY <1>2, <2>1, ReplacementsCount
    <3> QED BY <1>1, <3>1
  <2> QED BY <2>1
<1>9. SourceTold(drawing)
  BY <1>1, <1>7, <1>8 DEF SourceTold
<1> QED BY <1>9 DEF drawing

-----------------------------------------------------------------------------
(* Suggestions: what the alternative endpoint does with them *)

Actionable(r, suggestions) ==
  LET snap == r.task.snap
  IN \A o \in DOMAIN suggestions :
       LET window == snap.orders[o].window
           types  == suggestions[o].types
       IN Len(window.terminals) <= 1 /\ {AddService, ChangeTerminal} \subseteq snap.allowed
          => /\ Opening(snap, o, types) = "SOLVE"
             /\ NeedsPairing(snap, snap.orders[o]) /\ window.services # {}
                => (ChangeTerminal \in types => AddService \in types)

\* The changes a set of permitted types stands for, where the policy allows both.
LEMMA ChangesOf ==
  ASSUME NEW snap, NEW o, {AddService, ChangeTerminal} \subseteq snap.allowed,
         NEW S, snap.orders[o].window.terminals \in Seq(S),
         NEW types \in SUBSET Permitted(snap.orders[o])
  PROVE  LET changes == ChangeSet(snap, o, types)
         IN  types # {} => changes # {}
<1> DEFINE changes == ChangeSet(snap, o, types)
           window == snap.orders[o].window
<1>1. /\ types \subseteq {AddService, ChangeTerminal} /\ types \cap snap.allowed = types
      /\ AddService \in types => window.services # {}
      /\ ChangeTerminal \in types => window.terminals # << >>
  BY DEF Permitted, AddService, ChangeTerminal
<1>2. changes = (IF ChangeTerminal \in types
                 THEN {[type |-> ChangeTerminal, to |-> t] : t \in Listed(window.terminals)} ELSE {})
                \cup (IF AddService \in types
                      THEN {[type |-> AddService, to |-> t] : t \in window.services} ELSE {})
  BY <1>1 DEF ChangeSet
<1> HIDE DEF changes, window
<1>3. types # {} => changes # {}
  <2>1. CASE AddService \in types
    <3>1. PICK s \in window.services : TRUE
      BY <1>1, <2>1
    <3>2. [type |-> AddService, to |-> s] \in changes
      BY <1>2, <2>1, <3>1
    <3> QED BY <3>2
  <2>2. CASE ChangeTerminal \in types
    <3>1. PICK t \in Listed(window.terminals) : TRUE
      <4>1. window.terminals # << >> /\ window.terminals \in Seq(S)
        BY <1>1, <2>2 DEF window
      <4>2. \A list \in Seq(S) : list # << >> => 1 \in DOMAIN list
        OBVIOUS
      <4> QED BY <4>1, <4>2 DEF Listed
    <3>2. [type |-> ChangeTerminal, to |-> t] \in changes
      BY <1>2, <2>2, <3>1
    <3> QED BY <3>2
  <2> QED BY <1>1, <2>1, <2>2
<1> QED BY <1>3 DEF changes

LEMMA PermittedOpens ==
  ASSUME NEW r \in Runs, NEW o \in Orders(r),
         Len(r.task.snap.orders[o].window.terminals) <= 1,
         {AddService, ChangeTerminal} \subseteq r.task.snap.allowed,
         NEW types \in SUBSET Permitted(r.task.snap.orders[o]), types # {}
  PROVE  Opening(r.task.snap, o, types) = "SOLVE"
<1> DEFINE snap == r.task.snap
           changes == ChangeSet(snap, o, types)
<1>1. StoredSnapshot(snap) /\ o \in DOMAIN snap.orders
  BY RunsAreSolved DEF Orders
<1>2. types \cap snap.forbidden = {}
  BY <1>1 DEF StoredSnapshot, ForbiddenAdjustment, Permitted, AddService, ChangeTerminal
<1>3. snap.orders[o].window.terminals \in Seq(DOMAIN snap.terminals)
  <2> HIDE DEF snap
  <2> QED BY <1>1, OrderFields DEF AdjustmentWindow
<1>4. changes # {}
  BY <1>3, ChangesOf
<1>5. ~ Ambiguous(snap, o, types)
  BY <1>3 DEF Ambiguous
<1>6. Opening(snap, o, types) =
        IF types \cap snap.forbidden # {} THEN "POLICY_VIOLATION"
        ELSE IF Ambiguous(snap, o, types) THEN "AMBIGUOUS"
        ELSE IF changes = {} THEN "NO_CHANGE" ELSE "SOLVE"
  BY DEF Opening
<1> HIDE DEF changes
<1> QED BY <1>2, <1>4, <1>5, <1>6

LEMMA TemplateTypes ==
  ASSUME NEW r, NEW o, Permitted(r.task.snap.orders[o]) # {}
  PROVE  /\ Template(r, o).types # {}
         /\ Template(r, o).types \subseteq Permitted(r.task.snap.orders[o])
         /\ NeedsPairing(r.task.snap, r.task.snap.orders[o])
              /\ r.task.snap.orders[o].window.services # {}
            => AddService \in Template(r, o).types
<1> DEFINE order == r.task.snap.orders[o]
           permitted == Permitted(order)
           preferred == {AdjustmentForReason[c] : c \in {r.outcomes[o].primary}
                                                         \cap DOMAIN AdjustmentForReason} \cap permitted
           pairing == NeedsPairing(r.task.snap, order)
<1>1. Template(r, o).types =
        IF (pairing /\ permitted = {AddService, ChangeTerminal}) \/ preferred = {}
        THEN permitted ELSE preferred
  BY DEF Template, Proposal
<1>2. preferred \subseteq permitted
  OBVIOUS
<1>3. pairing /\ order.window.services # {} => permitted = {AddService, ChangeTerminal}
  BY DEF Permitted, NeedsPairing, AddService, ChangeTerminal
<1> HIDE DEF preferred, permitted, pairing
<1>4. permitted # {}
  BY DEF permitted
<1>5. /\ Template(r, o).types # {} /\ Template(r, o).types \subseteq permitted
      /\ pairing /\ order.window.services # {} => AddService \in Template(r, o).types
  BY <1>1, <1>2, <1>3, <1>4
<1> QED BY <1>5 DEF permitted, pairing

LEMMA SuggestionsActionable ==
  ASSUME NEW r \in Runs
  PROVE  /\ Actionable(r, TemplateSuggestions(r).suggestions)
         /\ \A items : IsList(items) => Actionable(r, BuildSuggestions(r, items).suggestions)
<1> DEFINE Fits(o, s) ==
             /\ s.types # {}
             /\ s.types \subseteq Permitted(r.task.snap.orders[o])
             /\ NeedsPairing(r.task.snap, r.task.snap.orders[o])
                  /\ r.task.snap.orders[o].window.services # {}
                => AddService \in s.types
<1>1. ASSUME NEW suggestions, DOMAIN suggestions \subseteq Orders(r),
             \A o \in DOMAIN suggestions : Fits(o, suggestions[o])
      PROVE  Actionable(r, suggestions)
  <2> SUFFICES ASSUME NEW o \in DOMAIN suggestions,
                      Len(r.task.snap.orders[o].window.terminals) <= 1,
                      {AddService, ChangeTerminal} \subseteq r.task.snap.allowed
               PROVE  /\ Opening(r.task.snap, o, suggestions[o].types) = "SOLVE"
                      /\ NeedsPairing(r.task.snap, r.task.snap.orders[o])
                           /\ r.task.snap.orders[o].window.services # {}
                         => (ChangeTerminal \in suggestions[o].types
                               => AddService \in suggestions[o].types)
    BY DEF Actionable
  <2>1. Fits(o, suggestions[o]) /\ o \in Orders(r)
    BY <1>1
  <2> QED BY <2>1, PermittedOpens
<1>2. ASSUME NEW o \in Suggestible(r)
      PROVE  o \in Orders(r) /\ Fits(o, Template(r, o))
  BY TemplateTypes DEF Suggestible
<1>3. Actionable(r, TemplateSuggestions(r).suggestions)
  <2> DEFINE suggestions == [o \in Suggestible(r) |-> Template(r, o)]
  <2>1. Actionable(r, suggestions)
    <3>1. /\ DOMAIN suggestions = Suggestible(r)
          /\ \A o \in DOMAIN suggestions : suggestions[o] = Template(r, o)
      OBVIOUS
    <3> HIDE DEF suggestions, Fits
    <3> QED BY <1>1, <1>2, <3>1
  <2> QED BY <2>1 DEF TemplateSuggestions
<1>4. ASSUME NEW items, IsList(items)
      PROVE  Actionable(r, BuildSuggestions(r, items).suggestions)
  <2> DEFINE suggestions == [o \in Suggestible(r) |-> SuggestionOf(r, items, o)]
  <2>1. ASSUME NEW o \in Suggestible(r)
        PROVE  Fits(o, SuggestionOf(r, items, o))
    <3>1. CASE SuggestionOf(r, items, o) = Template(r, o)
      <4> HIDE DEF Fits
      <4> QED BY <1>2, <3>1
    <3>2. ASSUME ~NeedsPairing(r.task.snap, r.task.snap.orders[o]),
                 NEW i \in Usable(r, items, o),
                 SuggestionOf(r, items, o) = Proposal(Chosen(r, o, items[i]), items[i].text)
          PROVE  Fits(o, SuggestionOf(r, items, o))
      <4>1. SuggestionOf(r, items, o).types = Chosen(r, o, items[i])
        BY <3>2 DEF Proposal
      <4>2. Chosen(r, o, items[i]) # {}
        BY DEF Usable
      <4>3. Chosen(r, o, items[i]) \subseteq Permitted(r.task.snap.orders[o])
        BY DEF Chosen
      <4> QED BY <3>2, <4>1, <4>2, <4>3
    <3> HIDE DEF Fits
    <3> QED BY <1>4, <3>1, <3>2, SuggestionOfCases
  <2>2. Actionable(r, suggestions)
    <3>1. /\ DOMAIN suggestions = Suggestible(r)
          /\ \A o \in DOMAIN suggestions : suggestions[o] = SuggestionOf(r, items, o)
      OBVIOUS
    <3> HIDE DEF suggestions, Fits
    <3> QED BY <1>1, <1>2, <2>1, <3>1
  <2> QED BY <2>2 DEF BuildSuggestions
<1> QED BY <1>3, <1>4

-----------------------------------------------------------------------------
(* Drafts *)

HonestDraft(d) ==
  /\ \A f \in DOMAIN Vocabulary : d.draft[f] \subseteq Vocabulary[f]
  /\ d.draft["dimensions_mm"] \subseteq Axes
  /\ d.input_state = "VALID" =>
       (\A f \in RequiredFields : d.draft[f] # {}) /\ d.draft["dimensions_mm"] = Axes
  /\ \A e \in d.evidence : d.draft[e[1]] # {}

\* What is sanitised holds nothing from outside the closed lists, whatever
\* the entry.
LEMMA Sanitised ==
  ASSUME NEW raw
  PROVE  /\ \A f \in DOMAIN Vocabulary : Sanitise(raw)[f] \subseteq Vocabulary[f]
         /\ Sanitise(raw)["dimensions_mm"] \subseteq Axes
<1>1. DOMAIN Vocabulary = {"shipper_id", "origin_terminal_ids", "destination_terminal_ids",
                           "priority_class", "compatibility_tags"}
  BY DEF Vocabulary
<1>2. DOMAIN Vocabulary \subseteq DraftFields /\ "dimensions_mm" \in DraftFields
  BY <1>1 DEF DraftFields, RequiredFields
<1>3. ASSUME NEW f \in DraftFields, NEW id \in Sanitise(raw)[f]
      PROVE  \E part : id = part.id /\ Keeps(f, part)
  <2>1. id \in IF raw[f].type # FieldType[f] THEN {}
               ELSE {p.id : p \in {q \in raw[f].parts : Keeps(f, q)}}
    BY <1>3 DEF Sanitise
  <2> QED BY <2>1
<1>4. ASSUME NEW f \in DOMAIN Vocabulary, NEW id \in Sanitise(raw)[f]
      PROVE  id \in Vocabulary[f]
  BY <1>2, <1>3 DEF Keeps
<1>5. ASSUME NEW id \in Sanitise(raw)["dimensions_mm"]
      PROVE  id \in Axes
  BY <1>2, <1>3 DEF Keeps
<1> QED BY <1>4, <1>5

LEMMA FinishedDraftsHonest ==
  ASSUME NEW entry, NEW source
  PROVE  HonestDraft(FinishedDraft(entry, source))
<1> DEFINE draft == Sanitise(entry.draft)
           missing == MissingFields(draft)
           d == FinishedDraft(entry, source)
<1>1. /\ d.draft = draft
      /\ d.input_state = "VALID" <=> missing = {}
      /\ d.evidence = EvidenceKept(draft, entry.evidence)
  BY DEF FinishedDraft
<1>2. /\ \A f \in DOMAIN Vocabulary : draft[f] \subseteq Vocabulary[f]
      /\ draft["dimensions_mm"] \subseteq Axes
  BY Sanitised
<1> HIDE DEF draft
<1>3. missing = {} => (\A f \in RequiredFields : draft[f] # {}) /\ draft["dimensions_mm"] = Axes
  <2>1. ASSUME missing = {}, NEW f \in RequiredFields, draft[f] = {}
        PROVE  FALSE
    <3>1. <<f>> \in missing
      BY <2>1 DEF MissingFields
    <3> QED BY <2>1, <3>1
  <2>2. "dimensions_mm" \in RequiredFields
    BY DEF RequiredFields
  <2>3. ASSUME missing = {}, NEW axis \in Axes, axis \notin draft["dimensions_mm"]
        PROVE  FALSE
    <3>1. draft["dimensions_mm"] # {}
      BY <2>1, <2>2, <2>3
    <3>2. <<"dimensions_mm", axis>> \in missing
      BY <2>3, <3>1 DEF MissingFields
    <3> QED BY <2>3, <3>2
  <2> QED BY <1>2, <2>1, <2>3
<1>4. \A e \in EvidenceKept(draft, entry.evidence) : draft[e[1]] # {}
  BY DEF EvidenceKept
<1> HIDE DEF missing, d
<1>5. HonestDraft(d)
  BY <1>1, <1>2, <1>3, <1>4 DEF HonestDraft
<1> QED BY <1>5 DEF d

-----------------------------------------------------------------------------
(* The invariant *)

\* Cards as they may be served: grounded, one story with the run, and with
\* the source they have.
HonestCards(r, drawing) ==
  /\ GroundedCards(r, drawing.cards)
  /\ OneStory(r, drawing.cards)
  /\ SourceTold(drawing)

\* What a response or the stored row may be.
Honest(r, body) ==
  /\ "made" \in DOMAIN body /\ body.made =>
       HonestCards(r, body) /\ GroundedSuggestions(r, body.suggestions) /\ Actionable(r, body.suggestions)
  /\ "grounded" \in DOMAIN body => GroundedAnswer(r, body.text)
  /\ "orders" \in DOMAIN body => \A i \in DOMAIN body.orders : HonestDraft(body.orders[i])

\* A reply is one the call in flight may have returned.
Arrived(c) ==
  /\ key /\ call[c] = "returned"
  /\ reply[c] \in Conforming(pc[c]) \cup OffSchema(pc[c])

\* What one request carries from one model call to the next.
Carried(c) ==
  /\ pc[c] \in Calls \cup {"idle"}
  /\ call[c] \in {"structured", "plain", "returned"}
  /\ reply[c] = NoReply \/ Arrived(c)
  /\ pc[c] = "suggestions" <=> drawn[c] # Absent
  /\ pc[c] = "suggestions" => HonestCards(run, drawn[c])
  /\ served[c].status \in {"none", "200", "404", "500"}
  /\ Honest(run, served[c].body)

\* Besides what is shown, the invariant follows the reply and the cards each
\* handler holds: the cards are held back while the suggestions are asked for.
IInv ==
  /\ run \in Runs /\ present \in BOOLEAN /\ key \in Configured
  /\ pc = [c \in Clients |-> pc[c]] /\ call = [c \in Clients |-> call[c]]
  /\ reply = [c \in Clients |-> reply[c]] /\ drawn = [c \in Clients |-> drawn[c]]
  /\ served = [c \in Clients |-> served[c]]
  /\ stored.made => present
  /\ Honest(run, stored)
  /\ \A c \in Clients : Carried(c)

LEMMA AbsentHonest == ASSUME NEW r PROVE Honest(r, Absent)
BY DEF Honest, Absent

\* The cards of an explanation, whether the model wrote them or not.
LEMMA CardsHonest ==
  ASSUME IInv, NEW c \in Clients, pc[c] = "cards"
  PROVE  /\ HonestCards(run, CardsFrom(reply[c]))
         /\ CardsFrom(reply[c]) # Absent
<1>1. reply[c] = NoReply \/ reply[c] \in Conforming("cards") \cup OffSchema("cards")
  BY DEF IInv, Carried, Arrived
<1>2. run \in Runs
  BY DEF IInv
<1>3. CASE ~reply[c].given
  <2>1. CardsFrom(reply[c]) = TemplateCards(run)
    BY <1>3 DEF CardsFrom
  <2>2. SourceTold(TemplateCards(run)) /\ DOMAIN TemplateCards(run) # {"made"}
    BY DEF SourceTold, TemplateCards
  <2> QED BY <1>2, <2>1, <2>2, CardsGrounded, CardsTellOneStory DEF HonestCards, Absent
<1>4. CASE reply[c].given
  <2>1. CardsFrom(reply[c]) = BuildCards(run, reply[c].entries)
    BY <1>4 DEF CardsFrom
  <2>2. reply[c] \in Conforming("cards") \cup OffSchema("cards")
    BY <1>1, <1>4 DEF NoReply
  <2>3. /\ IsList(reply[c].entries)
        /\ \A i \in DOMAIN reply[c].entries :
             reply[c].entries[i].kind = "object" => reply[c].entries[i].text.by = "model"
    BY <2>2, RepliesAreLists, ModelWritesCards
  <2>4. DOMAIN BuildCards(run, reply[c].entries) # {"made"}
    BY DEF BuildCards
  <2>5. SourceTold(BuildCards(run, reply[c].entries))
    BY <1>2, <2>3, SourceIsTold
  <2> QED BY <1>2, <2>1, <2>3, <2>4, <2>5, CardsGrounded, CardsTellOneStory DEF HonestCards, Absent
<1> QED BY <1>3, <1>4

LEMMA ProposalsHonest ==
  ASSUME IInv
  PROVE  /\ GroundedSuggestions(run, NoSuggestions.suggestions)
         /\ Actionable(run, NoSuggestions.suggestions)
         /\ GroundedSuggestions(run, TemplateSuggestions(run).suggestions)
         /\ Actionable(run, TemplateSuggestions(run).suggestions)
         /\ \A c \in Clients : pc[c] = "suggestions" =>
              /\ GroundedSuggestions(run, SuggestionsFrom(reply[c]).suggestions)
              /\ Actionable(run, SuggestionsFrom(reply[c]).suggestions)
<1>1. run \in Runs
  BY DEF IInv
<1>2. DOMAIN NoSuggestions.suggestions = {}
  BY DEF NoSuggestions
<1>3. /\ GroundedSuggestions(run, NoSuggestions.suggestions)
      /\ Actionable(run, NoSuggestions.suggestions)
  BY <1>2 DEF GroundedSuggestions, Actionable
<1>4. /\ GroundedSuggestions(run, TemplateSuggestions(run).suggestions)
      /\ Actionable(run, TemplateSuggestions(run).suggestions)
  BY <1>1, SuggestionsGrounded, SuggestionsActionable
<1>5. ASSUME NEW c \in Clients, pc[c] = "suggestions"
      PROVE  /\ GroundedSuggestions(run, SuggestionsFrom(reply[c]).suggestions)
             /\ Actionable(run, SuggestionsFrom(reply[c]).suggestions)
  <2>1. CASE ~reply[c].given
    <3>1. SuggestionsFrom(reply[c]) = TemplateSuggestions(run)
      BY <2>1 DEF SuggestionsFrom
    <3> QED BY <1>4, <3>1
  <2>2. CASE reply[c].given
    <3>1. SuggestionsFrom(reply[c]) = BuildSuggestions(run, reply[c].entries)
      BY <2>2 DEF SuggestionsFrom
    <3>2. reply[c] \in Conforming("suggestions") \cup OffSchema("suggestions")
      BY <1>5, <2>2 DEF IInv, Carried, Arrived, NoReply
    <3>3. IsList(reply[c].entries)
      BY <3>2, RepliesAreLists
    <3> QED BY <1>1, <3>1, <3>3, SuggestionsGrounded, SuggestionsActionable
  <2> QED BY <2>1, <2>2
<1> QED BY <1>3, <1>4, <1>5

LEMMA ExplanationHonest ==
  ASSUME NEW r, NEW cards, HonestCards(r, cards),
         NEW proposed, GroundedSuggestions(r, proposed.suggestions), Actionable(r, proposed.suggestions)
  PROVE  Honest(r, Explanation(cards, proposed))
<1> DEFINE body == Explanation(cards, proposed)
<1>1. /\ body.cards = cards.cards /\ body.source = cards.source /\ body.replaced = cards.replaced
      /\ body.suggestions = proposed.suggestions
      /\ "grounded" \notin DOMAIN body /\ "orders" \notin DOMAIN body
  BY DEF Explanation
<1> HIDE DEF body
<1>2. HonestCards(r, body)
  BY <1>1 DEF HonestCards, SourceTold
<1>3. Honest(r, body)
  BY <1>1, <1>2 DEF Honest
<1> QED BY <1>3 DEF body

LEMMA DraftsHonest ==
  ASSUME NEW r, NEW orders, \A i \in DOMAIN orders : HonestDraft(orders[i]), NEW source, NEW truncated
  PROVE  Honest(r, Drafts(orders, source, truncated))
<1>1. /\ Drafts(orders, source, truncated).orders = orders
      /\ "made" \notin DOMAIN Drafts(orders, source, truncated)
      /\ "grounded" \notin DOMAIN Drafts(orders, source, truncated)
  BY DEF Drafts
<1> QED BY <1>1 DEF Honest

LEMMA AnswersHonest ==
  ASSUME NEW r, NEW a
  PROVE  Honest(r, Unavailable) /\ Honest(r, AnswerFrom(r, a))
<1>1. /\ "made" \notin DOMAIN Unavailable /\ "orders" \notin DOMAIN Unavailable
      /\ "made" \notin DOMAIN AnswerFrom(r, a) /\ "orders" \notin DOMAIN AnswerFrom(r, a)
  BY DEF Unavailable, AnswerFrom
<1> QED BY <1>1, AnswersGrounded DEF Honest

-----------------------------------------------------------------------------
(* Every step preserves it *)

\* A step of one request leaves the others as they are.
LEMMA OneClient ==
  ASSUME IInv, run' = run, key' = key, present' = present,
         stored'.made => present, Honest(run, stored'),
         NEW c \in Clients,
         pc' = pc \/ \E x : pc' = [pc EXCEPT ![c] = x],
         call' = call \/ \E x : call' = [call EXCEPT ![c] = x],
         reply' = reply \/ \E x : reply' = [reply EXCEPT ![c] = x],
         drawn' = drawn \/ \E x : drawn' = [drawn EXCEPT ![c] = x],
         served' = served \/ \E x : served' = [served EXCEPT ![c] = x],
         Carried(c)'
  PROVE  IInv'
<1>1. /\ pc' = [d \in Clients |-> pc'[d]] /\ \A d \in Clients : d # c => pc'[d] = pc[d]
  BY DEF IInv
<1>2. /\ call' = [d \in Clients |-> call'[d]] /\ \A d \in Clients : d # c => call'[d] = call[d]
  BY DEF IInv
<1>3. /\ reply' = [d \in Clients |-> reply'[d]] /\ \A d \in Clients : d # c => reply'[d] = reply[d]
  BY DEF IInv
<1>4. /\ drawn' = [d \in Clients |-> drawn'[d]] /\ \A d \in Clients : d # c => drawn'[d] = drawn[d]
  BY DEF IInv
<1>5. /\ served' = [d \in Clients |-> served'[d]] /\ \A d \in Clients : d # c => served'[d] = served[d]
  BY DEF IInv
<1>6. ASSUME NEW d \in Clients, d # c
      PROVE  Carried(d)'
  <2>1. Carried(d)
    BY DEF IInv
  <2> QED BY <1>1, <1>2, <1>3, <1>4, <1>5, <1>6, <2>1 DEF Carried, Arrived
<1>7. \A d \in Clients : Carried(d)'
  BY <1>6
<1>8. Honest(run, stored)' /\ (stored.made => present)'
  OBVIOUS
<1>9. run' \in Runs /\ present' \in BOOLEAN /\ key' \in Configured
  BY DEF IInv
<1> QED BY <1>1, <1>2, <1>3, <1>4, <1>5, <1>7, <1>8, <1>9 DEF IInv

\* A response ends the request; it may be of anything honest.
LEMMA RespondKeeps ==
  ASSUME IInv, run' = run, key' = key, present' = present,
         stored'.made => present, Honest(run, stored'),
         NEW c \in Clients, NEW status \in {"200", "404", "500"}, NEW body, Honest(run, body),
         Respond(c, status, body)
  PROVE  IInv'
<1>1. /\ pc' = [pc EXCEPT ![c] = "idle"] /\ call' = [call EXCEPT ![c] = "structured"]
      /\ reply' = [reply EXCEPT ![c] = NoReply] /\ drawn' = [drawn EXCEPT ![c] = Absent]
      /\ served' = [served EXCEPT ![c] = Response(status, body)]
  BY DEF Respond, Await
<1>2. /\ pc'[c] = "idle" /\ call'[c] = "structured" /\ reply'[c] = NoReply /\ drawn'[c] = Absent
      /\ served'[c].status = status /\ served'[c].body = body
  BY <1>1 DEF IInv, Response
<1>3. Carried(c)'
  BY <1>2 DEF Carried
<1> QED BY <1>1, <1>3, OneClient

LEMMA RespondAside ==
  ASSUME IInv, UNCHANGED asked,
         NEW c \in Clients, NEW status \in {"200", "404", "500"}, NEW body, Honest(run, body),
         Respond(c, status, body)
  PROVE  IInv'
<1>1. /\ run' = run /\ key' = key /\ present' = present
      /\ stored'.made => present
      /\ Honest(run, stored')
  BY DEF asked, IInv
<1> QED BY <1>1, RespondKeeps

\* What is asked of the model next; the cards it waits with are honest.
LEMMA AwaitKeeps ==
  ASSUME IInv, UNCHANGED asked,
         NEW c \in Clients, NEW what \in Calls, Await(c, what),
         \/ served' = served
         \/ served' = [served EXCEPT ![c] = Unasked],
         \/ what # "suggestions" /\ drawn' = drawn /\ drawn[c] = Absent
         \/ /\ what = "suggestions"
            /\ \E cards : /\ HonestCards(run, cards) /\ cards # Absent
                          /\ drawn' = [drawn EXCEPT ![c] = cards]
  PROVE  IInv'
<1>1. /\ pc' = [pc EXCEPT ![c] = what] /\ call' = [call EXCEPT ![c] = "structured"]
      /\ reply' = [reply EXCEPT ![c] = NoReply]
  BY DEF Await
<1>2. pc'[c] = what /\ call'[c] = "structured" /\ reply'[c] = NoReply
  BY <1>1 DEF IInv
<1>3. /\ run' = run /\ key' = key /\ present' = present
      /\ stored'.made => present
      /\ Honest(run, stored')
  BY DEF asked, IInv
<1>4. what = "suggestions" <=> drawn'[c] # Absent
  BY DEF IInv
<1>5. what = "suggestions" => HonestCards(run, drawn'[c])
  BY DEF IInv
<1>6. served'[c].status \in {"none", "200", "404", "500"} /\ Honest(run, served'[c].body)
  <2>1. Carried(c)
    BY DEF IInv
  <2>2. CASE served' = served
    BY <2>1, <2>2 DEF Carried
  <2>3. CASE served' = [served EXCEPT ![c] = Unasked]
    <3>1. served'[c] = Unasked
      BY <2>3 DEF IInv
    <3> QED BY <3>1, AbsentHonest DEF Unasked, Response
  <2> QED BY <2>2, <2>3
<1>7. Carried(c)'
  BY <1>2, <1>3, <1>4, <1>5, <1>6 DEF Carried
<1> QED BY <1>1, <1>3, <1>7, OneClient

\* Nothing shown or carried changes.
LEMMA QuietStep ==
  ASSUME IInv, UNCHANGED <<run, present, key, stored, pc, call, reply, drawn, served>>
  PROVE  IInv'
<1>1. \A c \in Clients : Carried(c) => Carried(c)'
  BY DEF Carried, Arrived
<1>2. (\A c \in Clients : Carried(c))'
  BY <1>1 DEF IInv
<1> QED BY <1>2 DEF IInv

\* The model client returns.
LEMMA ReturnKeeps ==
  ASSUME IInv, NEW c \in Clients, Return(c)
  PROVE  IInv'
<1>1. PICK r \in Replies(c) : reply' = [reply EXCEPT ![c] = r]
  BY DEF Return
<1>2. /\ run' = run /\ key' = key /\ present' = present /\ stored' = stored
      /\ pc' = pc /\ drawn' = drawn /\ served' = served
      /\ call' = [call EXCEPT ![c] = "returned"]
  BY DEF Return, asked
<1>3. call'[c] = "returned" /\ reply'[c] = r
  BY <1>1, <1>2 DEF IInv
<1>4. r = NoReply \/ (key /\ r \in Conforming(pc[c]) \cup OffSchema(pc[c]))
  BY DEF Replies
<1>5. reply'[c] = NoReply \/ Arrived(c)'
  BY <1>2, <1>3, <1>4 DEF Arrived
<1>6. Carried(c)
  BY DEF IInv
<1>7. Carried(c)'
  BY <1>2, <1>3, <1>5, <1>6 DEF Carried
<1>8. /\ stored'.made => present
      /\ Honest(run, stored')
  BY <1>2 DEF IInv
<1> QED BY <1>1, <1>2, <1>7, <1>8, OneClient

\* Retrying drops nothing: the call had not returned.
LEMMA RetryKeeps ==
  ASSUME IInv, NEW c \in Clients, Retry(c)
  PROVE  IInv'
<1>1. /\ run' = run /\ key' = key /\ present' = present /\ stored' = stored
      /\ pc' = pc /\ reply' = reply /\ drawn' = drawn /\ served' = served
      /\ call[c] = "structured" /\ call' = [call EXCEPT ![c] = "plain"]
  BY DEF Retry, asked
<1>2. Carried(c) /\ call'[c] = "plain"
  BY <1>1 DEF IInv
<1>3. Carried(c)'
  BY <1>1, <1>2 DEF Carried, Arrived
<1>4. /\ stored'.made => present
      /\ Honest(run, stored')
  BY <1>1 DEF IInv
<1> QED BY <1>1, <1>3, <1>4, OneClient

LEMMA FailedKeeps ==
  ASSUME IInv, NEW c \in Clients, Respond(c, "500", Absent), UNCHANGED asked
  PROVE  IInv'
BY AbsentHonest, RespondAside

LEMMA OpenKeeps ==
  ASSUME IInv, NEW c \in Clients, pc[c] = "idle",
         NEW what \in Calls, what # "suggestions", Open(c, what), UNCHANGED asked, drawn' = drawn
  PROVE  IInv'
<1>1. drawn[c] = Absent
  BY DEF IInv, Carried
<1>2. Await(c, what) /\ served' = [served EXCEPT ![c] = Unasked]
  BY DEF Open
<1> QED BY <1>1, <1>2, AwaitKeeps

LEMMA NotFoundKeeps ==
  ASSUME IInv, NEW c \in Clients, NotFound(c)
  PROVE  IInv'
BY AbsentHonest, RespondAside DEF NotFound

LEMMA GetExplanationKeeps ==
  ASSUME IInv, NEW c \in Clients, GetExplanation(c)
  PROVE  IInv'
<1>1. CASE NotFound(c)
  BY <1>1, NotFoundKeeps
<1>2. CASE Respond(c, "200", stored) /\ UNCHANGED asked
  <2>1. Honest(run, stored)
    BY DEF IInv
  <2> QED BY <1>2, <2>1, RespondAside
<1>3. CASE Open(c, "cards") /\ UNCHANGED <<asked, drawn, doc>>
  <2>1. pc[c] = "idle" /\ "cards" \in Calls /\ UNCHANGED asked /\ drawn' = drawn
    BY <1>3 DEF GetExplanation, Calls, asked
  <2> QED BY <1>3, <2>1, OpenKeeps
<1> QED BY <1>1, <1>2, <1>3 DEF GetExplanation

LEMMA SaveKeeps ==
  ASSUME IInv, NEW c \in Clients, NEW explanation, Honest(run, explanation), Save(c, explanation)
  PROVE  IInv'
<1>1. /\ run' = run /\ present' = present /\ key' = key
      /\ stored' = IF present THEN explanation ELSE stored
      /\ Respond(c, "200", explanation)
  BY DEF Save
<1>2. /\ stored'.made => present
      /\ Honest(run, stored')
  BY <1>1 DEF IInv
<1> QED BY <1>1, <1>2, RespondKeeps

LEMMA DrawCardsKeeps ==
  ASSUME IInv, NEW c \in Clients, DrawCards(c)
  PROVE  IInv'
<1> DEFINE cards == CardsFrom(reply[c])
<1>1. HonestCards(run, cards) /\ cards # Absent
  BY CardsHonest DEF DrawCards, Returned
<1> HIDE DEF cards
<1>2. CASE Failed(c)
  BY <1>2, FailedKeeps DEF Failed
<1>3. CASE Save(c, Explanation(cards, NoSuggestions))
  BY <1>1, <1>3, ProposalsHonest, ExplanationHonest, SaveKeeps
<1>4. CASE Save(c, Explanation(cards, TemplateSuggestions(run)))
  BY <1>1, <1>4, ProposalsHonest, ExplanationHonest, SaveKeeps
<1>5. CASE /\ drawn' = [drawn EXCEPT ![c] = cards]
           /\ Await(c, "suggestions")
           /\ UNCHANGED <<asked, doc, served>>
  <2>1. "suggestions" \in Calls /\ UNCHANGED asked /\ served' = served
    BY <1>5 DEF Calls, asked
  <2> QED BY <1>1, <1>5, <2>1, AwaitKeeps
<1> QED BY <1>2, <1>3, <1>4, <1>5 DEF DrawCards, cards

LEMMA SuggestKeeps ==
  ASSUME IInv, NEW c \in Clients, Suggest(c)
  PROVE  IInv'
<1> DEFINE proposed == SuggestionsFrom(reply[c])
<1>1. pc[c] = "suggestions"
  BY DEF Suggest, Returned
<1>2. HonestCards(run, drawn[c])
  BY <1>1 DEF IInv, Carried
<1>3. GroundedSuggestions(run, proposed.suggestions) /\ Actionable(run, proposed.suggestions)
  BY <1>1, ProposalsHonest
<1> HIDE DEF proposed
<1>4. CASE Failed(c)
  BY <1>4, FailedKeeps DEF Failed
<1>5. CASE Save(c, Explanation(drawn[c], proposed))
  BY <1>2, <1>3, <1>5, ExplanationHonest, SaveKeeps
<1> QED BY <1>4, <1>5 DEF Suggest, proposed

LEMMA AskQuestionKeeps ==
  ASSUME IInv, NEW c \in Clients, AskQuestion(c)
  PROVE  IInv'
<1>1. CASE NotFound(c)
  BY <1>1, NotFoundKeeps
<1>2. CASE Open(c, "answer") /\ UNCHANGED <<asked, drawn, doc>>
  <2>1. pc[c] = "idle" /\ "answer" \in Calls /\ UNCHANGED asked /\ drawn' = drawn
    BY <1>2 DEF AskQuestion, Calls, asked
  <2> QED BY <1>2, <2>1, OpenKeeps
<1> QED BY <1>1, <1>2 DEF AskQuestion

LEMMA AnswerQuestionKeeps ==
  ASSUME IInv, NEW c \in Clients, AnswerQuestion(c)
  PROVE  IInv'
<1>1. UNCHANGED asked
  BY DEF AnswerQuestion
<1>2. CASE Respond(c, "200", Unavailable)
  BY <1>1, <1>2, AnswersHonest, RespondAside
<1>3. CASE Respond(c, "500", Absent)
  BY <1>1, <1>3, FailedKeeps
<1>4. CASE Respond(c, "200", AnswerFrom(run, reply[c]))
  BY <1>1, <1>4, AnswersHonest, RespondAside
<1> QED BY <1>2, <1>3, <1>4 DEF AnswerQuestion

LEMMA PostDocumentKeeps ==
  ASSUME IInv, NEW c \in Clients, NEW what \in {"single", "batch"}, PostDocument(c, what)
  PROVE  IInv'
<1>1. /\ pc[c] = "idle" /\ what \in Calls /\ what # "suggestions" /\ Open(c, what)
      /\ UNCHANGED asked /\ drawn' = drawn
  BY DEF PostDocument, Calls, asked
<1> QED BY <1>1, OpenKeeps

LEMMA StructureRequestKeeps ==
  ASSUME IInv, NEW c \in Clients, StructureRequest(c)
  PROVE  IInv'
<1> DEFINE draft == IF reply[c].given THEN FinishedDraft(reply[c].entry, "LLM") ELSE RuleBased(doc[c])
<1>1. UNCHANGED asked
  BY DEF StructureRequest
<1>2. HonestDraft(draft)
  BY FinishedDraftsHonest DEF RuleBased
<1>3. CASE Respond(c, "500", Absent)
  BY <1>1, <1>3, FailedKeeps
<1>4. CASE Respond(c, "200", Drafts(<<draft>>, draft.source, FALSE))
  <2> HIDE DEF draft
  <2>1. \A i \in DOMAIN <<draft>> : HonestDraft(<<draft>>[i])
    BY <1>2
  <2>2. Honest(run, Drafts(<<draft>>, draft.source, FALSE))
    BY <2>1, DraftsHonest
  <2> QED BY <1>1, <1>4, <2>2, RespondAside
<1> QED BY <1>3, <1>4 DEF StructureRequest

LEMMA StructureBatchKeeps ==
  ASSUME IInv, NEW c \in Clients, StructureBatch(c)
  PROVE  IInv'
<1> DEFINE kept == BatchEntries(reply[c].entries)
           orders == [i \in DOMAIN kept |-> FinishedDraft(kept[i], "LLM")]
<1>1. UNCHANGED asked
  BY DEF StructureBatch
<1>2. CASE Await(c, "single") /\ UNCHANGED <<drawn, doc, served>>
  <2>1. pc[c] = "batch"
    BY DEF StructureBatch, Returned
  <2>2. drawn[c] = Absent
    BY <2>1 DEF IInv, Carried
  <2>3. "single" \in Calls
    BY DEF Calls
  <2> QED BY <1>1, <1>2, <2>2, <2>3, AwaitKeeps
<1>3. CASE Respond(c, "500", Absent)
  BY <1>1, <1>3, FailedKeeps
<1>4. CASE Respond(c, "200", Drafts(orders, "LLM", Truncated(reply[c].entries)))
  <2>1. \A i \in DOMAIN orders : HonestDraft(orders[i])
    <3> HIDE DEF kept
    <3> QED BY FinishedDraftsHonest
  <2> HIDE DEF orders
  <2>2. Honest(run, Drafts(orders, "LLM", Truncated(reply[c].entries)))
    BY <2>1, DraftsHonest
  <2> QED BY <1>1, <1>4, <2>2, RespondAside
<1> QED BY <1>2, <1>3, <1>4 DEF StructureBatch

LEMMA DeleteScenarioKeeps ==
  ASSUME IInv, DeleteScenario
  PROVE  IInv'
<1>1. /\ run' = run /\ key' = key /\ present' = FALSE /\ stored' = Absent
      /\ pc' = pc /\ call' = call /\ reply' = reply /\ drawn' = drawn /\ served' = served
  BY DEF DeleteScenario
<1>2. \A c \in Clients : Carried(c) => Carried(c)'
  BY <1>1 DEF Carried, Arrived
<1>3. (\A c \in Clients : Carried(c))'
  BY <1>2 DEF IInv
<1>4. /\ Honest(run, stored)'
      /\ ~ stored'.made
  BY <1>1, AbsentHonest DEF Absent
<1> QED BY <1>1, <1>3, <1>4 DEF IInv

LEMMA InitHolds == Init => IInv
<1> SUFFICES ASSUME Init
             PROVE  IInv
  OBVIOUS
<1>1. /\ run \in Runs /\ key \in Configured /\ present = TRUE /\ stored = Absent
      /\ pc = [c \in Clients |-> "idle"] /\ call = [c \in Clients |-> "structured"]
      /\ reply = [c \in Clients |-> NoReply]
      /\ drawn = [c \in Clients |-> Absent] /\ served = [c \in Clients |-> Unasked]
  BY DEF Init
<1>2. Unasked.body = Absent /\ Unasked.status = "none" /\ ~ Absent.made
  BY DEF Unasked, Response, Absent
<1>3. \A c \in Clients : Carried(c)
  BY <1>1, <1>2, AbsentHonest DEF Carried
<1> QED BY <1>1, <1>2, <1>3, AbsentHonest DEF IInv

LEMMA NextKeeps == IInv /\ [Next]_vars => IInv'
<1> SUFFICES ASSUME IInv, [Next]_vars
             PROVE  IInv'
  OBVIOUS
<1>1. ASSUME NEW c \in Clients, Request(c)
      PROVE  IInv'
  BY <1>1, GetExplanationKeeps, AskQuestionKeeps, PostDocumentKeeps DEF Request
<1>2. ASSUME NEW c \in Clients, Handle(c)
      PROVE  IInv'
  BY <1>2, RetryKeeps, ReturnKeeps, DrawCardsKeeps, SuggestKeeps, AnswerQuestionKeeps,
     StructureRequestKeeps, StructureBatchKeeps DEF Handle
<1>3. CASE DeleteScenario
  BY <1>3, DeleteScenarioKeeps
<1>4. CASE UNCHANGED vars
  BY <1>4, QuietStep DEF vars
<1> QED BY <1>1, <1>2, <1>3, <1>4 DEF Next

LEMMA Invariant == Spec => []IInv
BY InitHolds, NextKeeps, PTL DEF Spec

-----------------------------------------------------------------------------
(* What follows for every state *)

\* A request waits for a call only in the states its handler can be in, and
\* holds cards exactly while the suggestions are asked for.
THEOREM TypeCorrect == Spec => []TypeOK
<1>1. IInv => TypeOK
  <2> SUFFICES ASSUME IInv
               PROVE  TypeOK
    OBVIOUS
  <2>1. /\ pc \in [Clients -> Calls \cup {"idle"}]
        /\ call \in [Clients -> {"structured", "plain", "returned"}]
    BY DEF IInv, Carried
  <2>2. \A c \in Clients : reply[c].given => key /\ call[c] = "returned"
    BY DEF IInv, Carried, Arrived, NoReply
  <2> QED BY <2>1, <2>2 DEF IInv, Carried, TypeOK
<1> QED BY <1>1, Invariant, PTL

LEMMA ShownHonest == IInv => \A b \in Shown : Honest(run, b)
BY DEF IInv, Carried, Shown

\* Whatever the model replies, in whatever shape, and whichever requests are
\* in flight: no sentence served or stored speaks of another order than its
\* own or names what the run does not contain (explain.py:1-7).
THEOREM ServedGrounded == Spec => []ServedIsGrounded
<1>1. IInv => ServedIsGrounded
  BY ShownHonest DEF ServedIsGrounded, SpeaksOf, Explained, Answers, Honest, HonestCards, GroundedCards,
                     GroundedSuggestions, GroundedAnswer, Speaks
<1> QED BY <1>1, Invariant, PTL

\* No two client requests and no search since can make a card say IMPOSSIBLE
\* of an order that has an alternative, or show a badge beside it
\* (explain.py:370-404).
THEOREM CardsAgree == Spec => []CardsAgreeWithRun
<1>1. IInv => CardsAgreeWithRun
  BY ShownHonest DEF CardsAgreeWithRun, Explained, Honest, HonestCards, OneStory
<1> QED BY <1>1, Invariant, PTL

\* A response that names the model as its source has a card of the model's,
\* and every card it did not write is listed (explain.py:127-182).
THEOREM SourceIsHonest == Spec => []SourceTellsServed
<1>1. IInv => SourceTellsServed
  BY ShownHonest DEF SourceTellsServed, Explained, Honest, HonestCards, SourceTold
<1> QED BY <1>1, Invariant, PTL

\* Every suggestion, sent to the alternative endpoint as it stands, is solved,
\* and a change of terminal that needs the service travels with it
\* (suggest.py:125-127).
THEOREM SuggestionsOpen == Spec => []SuggestionActionable
<1>1. IInv => SuggestionActionable
  BY ShownHonest DEF SuggestionActionable, Explained, Honest, Actionable
<1> QED BY <1>1, Invariant, PTL

\* A draft keeps to the closed lists, is VALID only when complete, and quotes
\* no evidence for what it does not say (intake.py:1-6).
THEOREM DraftsHonestly == Spec => []DraftsAreHonest
<1>1. IInv => DraftsAreHonest
  <2> SUFFICES ASSUME IInv, NEW d \in DraftsServed
               PROVE  HonestDraft(d)
    BY DEF DraftsAreHonest, HonestDraft
  <2>1. PICK b \in Shown : "orders" \in DOMAIN b /\ \E i \in DOMAIN b.orders : d = b.orders[i]
    BY DEF DraftsServed
  <2> QED BY <2>1, ShownHonest DEF Honest
<1> QED BY <1>1, Invariant, PTL

-----------------------------------------------------------------------------
(* What follows for every step *)

LEMMA OwnResponse ==
  ASSUME IInv, NEW c \in Clients, NEW status, NEW body, Respond(c, status, body),
         NEW d \in Clients, served'[d] # served[d]
  PROVE  d = c /\ served'[d].status = status
<1>1. served' = [served EXCEPT ![c] = Response(status, body)]
  BY DEF Respond
<1> QED BY <1>1 DEF IInv, Response

LEMMA OpenClears ==
  ASSUME IInv, NEW c \in Clients, NEW what, Open(c, what),
         NEW d \in Clients, served'[d] # served[d]
  PROVE  served'[d].status = "none"
<1>1. served' = [served EXCEPT ![c] = Unasked]
  BY DEF Open
<1> QED BY <1>1 DEF IInv, Unasked, Response

\* A reply that cost the request is not of the shape its schema admits.
LEMMA CostlyReply ==
  ASSUME NEW c \in Clients,
         \/ pc[c] \in {"cards", "batch"} /\ Raises(reply[c].entries)
         \/ pc[c] = "suggestions" /\ ItemsRaise(run, reply[c].entries)
         \/ pc[c] = "answer" /\ reply[c].kind = "broken"
         \/ pc[c] = "single" /\ SingleRaises(reply[c].entry)
  PROVE  reply[c] \notin Conforming(pc[c])
BY SchemasExcludeBroken DEF ItemsRaise

\* A 500 can only follow a reply of the retry without a schema
\* (explain.py:70-74, intake.py:204-207).
THEOREM FailuresAreOffSchema == Spec => FailsOnlyOffSchema
<1> DEFINE Good == \A c \in Clients : served'[c].status = "500" /\ served'[c] # served[c]
                                      => reply[c] \notin Conforming(pc[c])
<1>1. ASSUME IInv, [Next]_vars
      PROVE  [Good]_vars
  <2> SUFFICES ASSUME Next, NEW d \in Clients, served'[d].status = "500", served'[d] # served[d]
               PROVE  reply[d] \notin Conforming(pc[d])
    BY <1>1
  <2>1. ASSUME NEW c \in Clients, Request(c)
        PROVE  FALSE
    <3>1. \/ \E body : Respond(c, "404", body) \/ Respond(c, "200", body)
          \/ \E what : Open(c, what)
      BY <2>1 DEF Request, GetExplanation, AskQuestion, PostDocument, NotFound
    <3> QED BY <1>1, <3>1, OwnResponse, OpenClears
  <2>2. ASSUME NEW c \in Clients, Handle(c)
        PROVE  reply[d] \notin Conforming(pc[d])
    <3>1. CASE DrawCards(c)
      <4>1. \/ pc[c] = "cards" /\ Raises(reply[c].entries) /\ \E body : Respond(c, "500", body)
            \/ \E body : Respond(c, "200", body)
            \/ served' = served
        BY <3>1 DEF DrawCards, Returned, Unreadable, Failed, Save
      <4> QED BY <1>1, <4>1, OwnResponse, CostlyReply
    <3>2. CASE Suggest(c)
      <4>1. \/ /\ pc[c] = "suggestions" /\ ItemsRaise(run, reply[c].entries)
               /\ \E body : Respond(c, "500", body)
            \/ \E body : Respond(c, "200", body)
        BY <3>2 DEF Suggest, Returned, Failed, Save
      <4> QED BY <1>1, <4>1, OwnResponse, CostlyReply
    <3>3. CASE AnswerQuestion(c)
      <4>1. \/ pc[c] = "answer" /\ reply[c].kind = "broken" /\ \E body : Respond(c, "500", body)
            \/ \E body : Respond(c, "200", body)
        BY <3>3 DEF AnswerQuestion, Returned
      <4> QED BY <1>1, <4>1, OwnResponse, CostlyReply
    <3>4. CASE StructureRequest(c)
      <4>1. \/ pc[c] = "single" /\ SingleRaises(reply[c].entry) /\ \E body : Respond(c, "500", body)
            \/ \E body : Respond(c, "200", body)
        BY <3>4 DEF StructureRequest, Returned
      <4> QED BY <1>1, <4>1, OwnResponse, CostlyReply
    <3>5. CASE StructureBatch(c)
      <4>1. \/ /\ pc[c] = "batch" /\ Raises(BatchEntries(reply[c].entries))
               /\ \E body : Respond(c, "500", body)
            \/ \E body : Respond(c, "200", body)
            \/ served' = served
        BY <3>5 DEF StructureBatch, Returned
      <4>2. Raises(BatchEntries(reply[c].entries)) => Raises(reply[c].entries)
        BY DEF Raises, BatchEntries
      <4> QED BY <1>1, <4>1, <4>2, OwnResponse, CostlyReply
    <3>6. CASE Retry(c) \/ Return(c)
      BY <3>6 DEF Retry, Return
    <3> QED BY <2>2, <3>1, <3>2, <3>3, <3>4, <3>5, <3>6 DEF Handle
  <2>3. CASE DeleteScenario
    BY <2>3 DEF DeleteScenario
  <2> QED BY <2>1, <2>2, <2>3 DEF Next
<1>2. IInv /\ [Next]_vars => [Good]_vars
  BY <1>1
<1>3. Spec => [][Good]_vars
  BY <1>2, Invariant, PTL DEF Spec
<1> QED BY <1>3 DEF FailsOnlyOffSchema

\* While one request at a time is in flight, no explanation is drawn beside
\* one that is stored.
DrawnOnce == \A c \in Clients : pc[c] \in {"cards", "suggestions"} => ~stored.made

LEMMA OnceOnly ==
  ASSUME \A c, d \in Clients : c = d, IInv, DrawnOnce, [Next]_vars
  PROVE  /\ DrawnOnce'
         /\ [stored.made /\ present' => stored' = stored]_vars
<1> DEFINE Fine == DrawnOnce' /\ (stored.made /\ present' => stored' = stored)
<1>1. ASSUME NEW c \in Clients, Await(c, "idle")
      PROVE  DrawnOnce'
  <2>1. \A d \in Clients : pc'[d] = "idle"
    BY <1>1 DEF Await, IInv
  <2> QED BY <2>1 DEF DrawnOnce
<1>2. ASSUME NEW c \in Clients, NEW status, NEW body, Respond(c, status, body), UNCHANGED asked
      PROVE  Fine
  BY <1>1, <1>2 DEF Respond, asked
<1>3. ASSUME NEW c \in Clients, NEW explanation, Save(c, explanation), ~stored.made
      PROVE  Fine
  BY <1>1, <1>3 DEF Respond, Save
<1>4. ASSUME NEW c \in Clients, NEW what, Await(c, what), UNCHANGED asked,
             what \in {"cards", "suggestions"} => ~stored.made
      PROVE  Fine
  <2>1. \A d \in Clients : pc'[d] = what
    BY <1>4 DEF Await, IInv
  <2> QED BY <1>4, <2>1 DEF DrawnOnce, asked
<1>5. ASSUME UNCHANGED <<pc, stored>>
      PROVE  Fine
  BY <1>5 DEF DrawnOnce
<1>6. ASSUME NEW c \in Clients, Request(c)
      PROVE  Fine
  <2>1. CASE GetExplanation(c)
    <3>1. CASE NotFound(c)
      BY <1>2, <3>1 DEF NotFound
    <3>2. CASE Respond(c, "200", stored) /\ UNCHANGED asked
      BY <1>2, <3>2
    <3>3. CASE ~stored.made /\ Open(c, "cards") /\ UNCHANGED <<asked, drawn, doc>>
      BY <1>4, <3>3 DEF Open, asked
    <3> QED BY <2>1, <3>1, <3>2, <3>3 DEF GetExplanation
  <2>2. CASE AskQuestion(c)
    <3>1. CASE NotFound(c)
      BY <1>2, <3>1 DEF NotFound
    <3>2. CASE Open(c, "answer") /\ UNCHANGED <<asked, drawn, doc>>
      BY <1>4, <3>2 DEF Open, asked
    <3> QED BY <2>2, <3>1, <3>2 DEF AskQuestion
  <2>3. ASSUME NEW what \in {"single", "batch"}, PostDocument(c, what)
        PROVE  Fine
    BY <1>4, <2>3 DEF PostDocument, Open, asked
  <2> QED BY <1>6, <2>1, <2>2, <2>3 DEF Request
<1>7. ASSUME NEW c \in Clients, Handle(c)
      PROVE  Fine
  <2>1. CASE Retry(c) \/ Return(c)
    BY <1>5, <2>1 DEF Retry, Return, asked
  <2>2. CASE DrawCards(c)
    <3>1. ~stored.made
      BY <2>2 DEF DrawnOnce, DrawCards, Returned
    <3>2. CASE Failed(c)
      BY <1>2, <3>2 DEF Failed
    <3>3. CASE \E explanation : Save(c, explanation)
      BY <1>3, <3>1, <3>3
    <3>4. CASE Await(c, "suggestions") /\ UNCHANGED <<asked, doc, served>>
      BY <1>4, <3>1, <3>4 DEF asked
    <3> QED BY <2>2, <3>2, <3>3, <3>4 DEF DrawCards
  <2>3. CASE Suggest(c)
    <3>1. ~stored.made
      BY <2>3 DEF DrawnOnce, Suggest, Returned
    <3>2. CASE Failed(c)
      BY <1>2, <3>2 DEF Failed
    <3>3. CASE \E explanation : Save(c, explanation)
      BY <1>3, <3>1, <3>3
    <3> QED BY <2>3, <3>2, <3>3 DEF Suggest
  <2>4. CASE AnswerQuestion(c)
    <3>1. \E status, body : Respond(c, status, body) /\ UNCHANGED asked
      BY <2>4 DEF AnswerQuestion
    <3> QED BY <1>2, <3>1
  <2>5. CASE StructureRequest(c)
    <3>1. \E status, body : Respond(c, status, body) /\ UNCHANGED asked
      BY <2>5 DEF StructureRequest
    <3> QED BY <1>2, <3>1
  <2>6. CASE StructureBatch(c)
    <3>1. UNCHANGED asked /\ \/ Await(c, "single")
                             \/ \E status, body : Respond(c, status, body)
      BY <2>6 DEF StructureBatch
    <3> QED BY <1>2, <1>4, <3>1 DEF asked
  <2> QED BY <1>7, <2>1, <2>2, <2>3, <2>4, <2>5, <2>6 DEF Handle
<1>8. CASE DeleteScenario
  <2>1. stored' = Absent /\ present' = FALSE
    BY <1>8 DEF DeleteScenario
  <2> QED BY <2>1 DEF DrawnOnce, Absent
<1>9. CASE UNCHANGED vars
  BY <1>5, <1>9 DEF vars
<1> QED BY <1>6, <1>7, <1>8, <1>9 DEF Next

\* With one request at a time, an explanation once written stays what it is
\* until its run goes (ai.py: read if there is one, generated otherwise).
THEOREM OnceWritten ==
  ASSUME \A c, d \in Clients : c = d
  PROVE  Spec => WrittenOnce
<1>1. Init => DrawnOnce
  BY DEF Init, DrawnOnce
<1>2. IInv /\ DrawnOnce /\ [Next]_vars
        => DrawnOnce' /\ [stored.made /\ present' => stored' = stored]_vars
  BY OnceOnly
<1>3. Spec => [][stored.made /\ present' => stored' = stored]_vars
  BY <1>1, <1>2, Invariant, PTL DEF Spec
<1> QED BY <1>3 DEF WrittenOnce

=============================================================================
