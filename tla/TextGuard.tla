------------------------------ MODULE TextGuard ------------------------------
(***************************************************************************)
(* The wall every generated sentence passes before it is served            *)
(* (app/ai/explain.py).  Pure operators.                                   *)
(*                                                                         *)
(* A text is what the guard's patterns read off a sentence:                *)
(*   blank     nothing but spaces,                                         *)
(*   claim     it makes one of the forbidden claims,                       *)
(*   orders    the orders it names in the spelling ORD-ddd,                *)
(*   entities  the slots, wagons, services, terminals and routes it names, *)
(*   codes     its SHOUTY tokens that are no part of a named id,           *)
(* and by, who wrote it, which no operator below looks at.  An order id in *)
(* another spelling (ORD-4) is in none of the sets: the first pattern does *)
(* not read it and the check of the entities leaves ids with that prefix   *)
(* to the first.                                                           *)
(*                                                                         *)
(* Facts are the orders, entities and reason codes a sentence may name.    *)
(***************************************************************************)
EXTENDS FiniteSets, Sequences

\* Values fixed by the contract: naming one invents nothing.
SchemaVocabulary ==
  {"TRAILER_STANDARD", "TRAILER_TALL", "VALID", "REVIEW_REQUIRED", "ELIGIBLE", "INELIGIBLE",
   "NOT_EVALUATED", "ASSIGNED", "UNASSIGNED", "NOT_APPLICABLE", "AVAILABLE", "NONE",
   "NOT_SEARCHED", "DEMO_ASSUMPTION"}

\* Mutant: any order of the run may be named.
UnscopedRejected(text, facts, scope) ==
  \/ text.blank \/ text.claim
  \/ ~(text.orders \subseteq facts.orders)
  \/ ~(text.entities \subseteq facts.entities)
  \/ ~(text.codes \subseteq facts.codes \cup SchemaVocabulary)

\* Why a sentence cannot be served.  Its scope is the orders it may speak of:
\* one for a card or a suggestion, all of them for an answer.
Rejected(text, facts, scope) ==
  \/ text.blank
  \/ text.claim
  \/ ~(text.orders \subseteq facts.orders \cap scope)
  \/ ~(text.entities \subseteq facts.entities)
  \/ ~(text.codes \subseteq facts.codes \cup SchemaVocabulary)
=============================================================================
