----------------------------- MODULE Alternatives -----------------------------
(***************************************************************************)
(* The alternative search (app/services/alternatives.py) up to its solve:  *)
(* which pre-approved changes a request may apply to one order, and the    *)
(* task derived from them.  Pure operators.                                *)
(*                                                                         *)
(* An order's window is [services, terminals], both empty when the order   *)
(* has none; snap.allowed and snap.forbidden are the policy's adjustment   *)
(* types.                                                                  *)
(***************************************************************************)
EXTENDS PlanModel, SequencesExt

ChangeTerminal == "CHANGE_TO_APPROVED_TERMINAL"
AddService     == "ADD_ORDER_APPROVED_SERVICE"

\* Only what the order's own window approves and the policy allows.
ChangeSet(snap, o, requested) ==
  LET types     == requested \cap snap.allowed
      window    == snap.orders[o].window
      Of(type, targets) == IF type \in types THEN {[type |-> type, to |-> t] : t \in targets}
                                             ELSE {}
  IN Of(ChangeTerminal, Listed(window.terminals)) \cup Of(AddService, window.services)

Targets(changes, type) == {c.to : c \in {d \in changes : d.type = type}}

\* Asked to change the destination of an order whose window lists several,
\* be they all the same one.
Ambiguous(snap, o, requested) ==
  ChangeTerminal \in requested \cap snap.allowed /\ Len(snap.orders[o].window.terminals) > 1

\* How a request begins: refused for a forbidden type (409) or for more than
\* one destination (400), without anything to change, or with a solve.
Opening(snap, o, requested) ==
  IF requested \cap snap.forbidden # {} THEN "POLICY_VIOLATION"
  ELSE IF Ambiguous(snap, o, requested) THEN "AMBIGUOUS"
  ELSE IF ChangeSet(snap, o, requested) = {} THEN "NO_CHANGE"
  ELSE "SOLVE"

\* The destination is replaced, the services are added to the validation scope.
DeriveSnapshot(snap, o, changes) ==
  LET added        == Targets(changes, AddService) \ Listed(snap.baseline)
      destinations == Targets(changes, ChangeTerminal)
  IN [snap EXCEPT
        !.baseline = @ \o SetToSeq(added),
        !.orders[o].destinations = IF destinations = {} THEN @ ELSE destinations]

\* Mutant: the scope of every order is read off the derived snapshot.
WidenedScope(snap, derived, o) == BaselineScope(derived)

\* The order searched for may use the added services, everyone else the
\* original baseline.
SearchScope(snap, derived, o) ==
  [other \in DOMAIN snap.orders |-> IF other = o THEN derived.baseline ELSE snap.baseline]

\* `before` is the plan of the run the search starts from.
SearchTask(snap, o, requested, before) ==
  LET changes == ChangeSet(snap, o, requested)
      derived == DeriveSnapshot(snap, o, changes)
  IN [snap |-> derived, scope |-> SearchScope(snap, derived, o),
      search |-> [opening |-> Opening(snap, o, requested), order |-> o, before |-> before,
                  baseline |-> snap.baseline]]

\* Every order whose placement changed.
Deltas(before, after) == {a.order : a \in (before \ after) \cup (after \ before)}
=============================================================================
