------------------------------- MODULE Intake -------------------------------
(***************************************************************************)
(* Turning a request document into order drafts (app/ai/intake.py).  Pure  *)
(* operators.                                                              *)
(*                                                                         *)
(* A raw value is [type, parts]: what JSON type the model answered with    *)
(* and its elements, each [id, as], where as is "bare" for an id or word   *)
(* as it stands, "named" for an id with a display name behind it, and      *)
(* "positive" or "nonpositive" for a number.  The parts of dimensions are  *)
(* its axes.  A raw draft gives every field a raw value; a clean draft     *)
(* gives every field the set of the ids kept, empty for null.              *)
(*                                                                         *)
(* An entry is one order of a reply: [kind, draft, evidence], of kind      *)
(* "object", "junk" (not an object) or "broken" (an object whose draft is  *)
(* no object, or whose tags or priority hold what cannot be hashed).  Its  *)
(* evidence is a sequence of [kind, field], "junk" being a bare string.    *)
(***************************************************************************)
EXTENDS Integers, FiniteSets, Sequences

CONSTANTS KnownTerminals, KnownShippers,   \* the closed lists of ids
          MaxBatch                         \* MAX_BATCH_ORDERS

ASSUME MaxBatchPositive == MaxBatch \in Nat \ {0}

RequiredFields ==
  {"shipper_id", "origin_terminal_ids", "destination_terminal_ids", "ready_at", "due_at",
   "gross_weight_kg", "dimensions_mm", "compatibility_tags", "priority_class"}

DraftFields == RequiredFields \cup {"order_id"}

Axes == {"length", "width", "height"}

Null == [type |-> "null", parts |-> {}]

Vocabulary ==
  [shipper_id |-> KnownShippers, origin_terminal_ids |-> KnownTerminals,
   destination_terminal_ids |-> KnownTerminals, priority_class |-> {"P1", "P2", "P3"},
   compatibility_tags |-> {"TRAILER_STANDARD", "TRAILER_TALL"}]

FieldType ==
  [f \in DraftFields |->
     CASE f \in {"origin_terminal_ids", "destination_terminal_ids", "compatibility_tags"} -> "list"
       [] f = "gross_weight_kg" -> "int"
       [] f = "dimensions_mm"   -> "object"
       [] OTHER                 -> "text"]

\* Whether a part survives.  Only ids are recovered from behind a name; the
\* text of a time or of the order id is not looked at.
Keeps(f, part) ==
  /\ f \in {"gross_weight_kg", "dimensions_mm"} => part.as = "positive"
  /\ f = "dimensions_mm" => part.id \in Axes
  /\ f \in {"compatibility_tags", "priority_class"} => part.as = "bare"
  /\ f \in DOMAIN Vocabulary => part.id \in Vocabulary[f]

Sanitise(raw) ==
  [f \in DraftFields |->
     IF raw[f].type # FieldType[f] THEN {} ELSE {p.id : p \in {q \in raw[f].parts : Keeps(f, q)}}]

\* Mutant: the block is missing, never one of its axes.
WholeBlocks(draft) == {<<f>> : f \in {g \in RequiredFields : draft[g] = {}}}

\* A half-filled block is missing its axes, not itself.
MissingFields(draft) ==
  {<<f>> : f \in {g \in RequiredFields : draft[g] = {}}}
  \cup {<<"dimensions_mm", axis>> : axis \in IF draft["dimensions_mm"] = {} THEN {}
                                             ELSE Axes \ draft["dimensions_mm"]}

\* Evidence is kept for fields that still have a value; a field of an axis,
\* dimensions_mm.width, counts as its block.
EvidenceKept(draft, evidence) ==
  {evidence[i].field : i \in {j \in DOMAIN evidence :
     /\ evidence[j].kind = "object"
     /\ evidence[j].field[1] \in DraftFields
     /\ draft[evidence[j].field[1]] # {}}}

FinishedDraft(entry, source) ==
  LET draft   == Sanitise(entry.draft)
      missing == MissingFields(draft)
  IN [draft       |-> draft,
      missing     |-> missing,
      evidence    |-> EvidenceKept(draft, entry.evidence),
      input_state |-> IF missing = {} THEN "VALID" ELSE "REVIEW_REQUIRED",
      source      |-> source]

\* Evidence that is a bare string raises in a single request and is dropped
\* in a batch.
SingleRaises(entry) ==
  \/ entry.kind = "broken"
  \/ \E i \in DOMAIN entry.evidence : entry.evidence[i].kind = "junk"

-----------------------------------------------------------------------------
(***************************************************************************)
(* The rule extractor, for when there is no model.  A document is what its *)
(* patterns find: [terminals, times] in the order of the text, the two     *)
(* trailer words and the first priority, weight (kg, else tonnes), shipper *)
(* and order id, as raw values.                                            *)
(***************************************************************************)
Bare(id) == [id |-> id, as |-> "bare"]

Lifted(type, ids) == [type |-> type, parts |-> {Bare(id) : id \in ids}]

TagOf(tags) ==
  IF "TRAILER_TALL" \in tags THEN {"TRAILER_TALL"} ELSE tags \cap {"TRAILER_STANDARD"}

ExtractWithRules(doc) ==
  [f \in DraftFields |->
     CASE f = "origin_terminal_ids" /\ Len(doc.terminals) >= 2      -> Lifted("list", {doc.terminals[1]})
       [] f = "destination_terminal_ids" /\ Len(doc.terminals) >= 2 -> Lifted("list", {doc.terminals[2]})
       [] f = "ready_at" /\ Len(doc.times) >= 2                     -> Lifted("text", {doc.times[1]})
       [] f = "due_at" /\ Len(doc.times) >= 2                       -> Lifted("text", {doc.times[2]})
       [] f = "compatibility_tags" /\ TagOf(doc.tags) # {}          -> Lifted("list", TagOf(doc.tags))
       [] f \in DOMAIN doc.first                                    -> doc.first[f]
       [] OTHER                                                     -> Null]

RuleBased(doc) ==
  FinishedDraft([kind |-> "object", draft |-> ExtractWithRules(doc), evidence |-> << >>], "RULE_BASED")

\* The entries of a batch that become drafts, each at its place: of the first
\* MaxBatch, the ones that are objects.
BatchEntries(entries) ==
  [i \in {j \in DOMAIN entries : j <= MaxBatch /\ entries[j].kind # "junk"} |-> entries[i]]

Truncated(entries) == Len(entries) > MaxBatch
=============================================================================
