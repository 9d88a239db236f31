----------------------------- MODULE Eligibility -----------------------------
(***************************************************************************)
(* The eligibility gate (app/rules): which slots an order could legally    *)
(* occupy, and otherwise the reason codes that block it.  Pure operators   *)
(* over one input snapshot; no state.                                      *)
(*                                                                         *)
(* A snapshot is a record of functions from identifiers to entities:       *)
(*   orders, services, wagons, slots, terminals, routes,                   *)
(*   baseline  the sequence baseline_service_ids,                          *)
(*   scores    the policy's priority_scores.                               *)
(* Identifiers of orders and slots are naturals in the text order of the   *)
(* ids, because sorting by id decides ties.  Times are integers relative   *)
(* to as_of.  A weight of 0 is a null gross_weight_kg (the field is at     *)
(* least 1 when present).                                                  *)
(***************************************************************************)
EXTENDS Integers, FiniteSets, Sequences

NullWeight == 0

(***************************************************************************)
(* What a stored snapshot has passed: its fields have their types and the  *)
(* ids that one entity names another by resolve.  This makes the "unknown  *)
(* service / terminal / route" branches of the gate unreachable, so the    *)
(* operators below look entities up directly.  A service may be listed     *)
(* twice.                                                                  *)
(***************************************************************************)
Dimensions == [height : Nat, width : Nat, length : Nat]

Terminal == [tags : SUBSET STRING, handling : Nat]

RouteConstraint == [height : Nat, width : Nat, weight : Nat]

Service(snap) ==
  [available : BOOLEAN, origin : DOMAIN snap.terminals, destination : DOMAIN snap.terminals,
   cutoff : Int, arrival : Int, route : DOMAIN snap.routes]

Wagon(snap) == [service : DOMAIN snap.services, available : BOOLEAN, capacity : Nat]

Slot(snap) ==
  [wagon : DOMAIN snap.wagons, available : BOOLEAN, tags : SUBSET STRING, dims : Dimensions,
   weight : Nat]

\* Both are empty when the order has no adjustment window.  The approved
\* destinations stay a list, which may name one twice: a search asks for its
\* length.  Services listed twice are added once.
AdjustmentWindow(snap) ==
  [services : SUBSET DOMAIN snap.services, terminals : Seq(DOMAIN snap.terminals)]

Order(snap) ==
  [origins : (SUBSET DOMAIN snap.terminals) \ {{}},
   destinations : (SUBSET DOMAIN snap.terminals) \ {{}},
   ready : Int, due : Int, weight : Nat, dims : Dimensions, tags : SUBSET STRING,
   priority : {"P1", "P2", "P3"}, window : AdjustmentWindow(snap)]

AllowedAdjustment == {"ADD_ORDER_APPROVED_SERVICE", "CHANGE_TO_APPROVED_TERMINAL"}

ForbiddenAdjustment ==
  {"CHANGE_WEIGHT_LIMIT", "CHANGE_DIMENSION_LIMIT", "CHANGE_ROUTE_CLEARANCE", "CHANGE_DUE_AT"}

StoredSnapshot(snap) ==
  /\ DOMAIN snap = {"baseline", "scores", "allowed", "forbidden", "terminals", "routes",
                    "services", "wagons", "slots", "orders"}
  /\ snap.terminals \in [DOMAIN snap.terminals -> Terminal]
  /\ snap.routes \in [DOMAIN snap.routes -> RouteConstraint]
  /\ snap.services \in [DOMAIN snap.services -> Service(snap)]
  /\ snap.wagons \in [DOMAIN snap.wagons -> Wagon(snap)]
  /\ snap.slots \in [DOMAIN snap.slots -> Slot(snap)]
  /\ snap.orders \in [DOMAIN snap.orders -> Order(snap)]
  /\ snap.scores \in [{"P1", "P2", "P3"} -> Int]
  /\ snap.allowed \subseteq AllowedAdjustment /\ snap.forbidden \subseteq ForbiddenAdjustment
  /\ snap.baseline \in Seq(DOMAIN snap.services) \ {<< >>}
  /\ \A s \in DOMAIN snap.services : snap.services[s].cutoff < snap.services[s].arrival
  /\ DOMAIN snap.orders \cup DOMAIN snap.slots \subseteq Nat
  /\ IsFiniteSet(DOMAIN snap.terminals) /\ IsFiniteSet(DOMAIN snap.services)
  /\ IsFiniteSet(DOMAIN snap.slots) /\ IsFiniteSet(DOMAIN snap.orders)

\* The codes whose condition holds, given a record from code to condition.
Violated(checks) == {code \in DOMAIN checks : checks[code]}

-----------------------------------------------------------------------------
(* Reason codes *)

\* Every code a verdict can carry, family by family and in text order inside
\* a family: earlier in this sequence outranks later.
PrimaryOrder == <<
  "INVALID_TIME_RANGE", "MISSING_REQUIRED_FIELD",
  "DUE_TIME_EXCEEDED", "READY_AFTER_CUTOFF",
  "TERMINAL_NOT_COMPATIBLE", "TERMINAL_NOT_ON_SERVICE_ROUTE",
  "ROUTE_WEIGHT_EXCEEDED", "ROUTE_WIDTH_EXCEEDED", "SLOT_HEIGHT_EXCEEDED",
  "SLOT_LENGTH_EXCEEDED", "SLOT_WEIGHT_EXCEEDED", "SLOT_WIDTH_EXCEEDED",
  "TUNNEL_HEIGHT_EXCEEDED", "WAGON_WEIGHT_EXCEEDED",
  "NO_ELIGIBLE_SLOT", "SERVICE_UNAVAILABLE", "SLOT_TAG_NOT_SUPPORTED",
  "SLOT_UNAVAILABLE", "WAGON_UNAVAILABLE",
  "CAPACITY_CONFLICT" >>

ReasonCodes == {PrimaryOrder[i] : i \in DOMAIN PrimaryOrder}

NoCode == "None"

SelectPrimary(codes) ==
  IF codes = {} THEN NoCode
  ELSE PrimaryOrder[CHOOSE i \in DOMAIN PrimaryOrder :
         /\ PrimaryOrder[i] \in codes
         /\ \A j \in 1 .. i - 1 : PrimaryOrder[j] \notin codes]

-----------------------------------------------------------------------------
(* The gate *)

ValidateInput(order) == Violated([
  MISSING_REQUIRED_FIELD |-> order.weight = NullWeight,
  INVALID_TIME_RANGE     |-> order.ready >= order.due])

\* Constraints that depend on the service and not on one of its slots.  A
\* null weight is 0 and exceeds no limit, as in the code, which skips it.
CheckService(snap, order, service) ==
  LET origin      == snap.terminals[service.origin]
      destination == snap.terminals[service.destination]
      route       == snap.routes[service.route]
  IN Violated([
       SERVICE_UNAVAILABLE           |-> ~service.available,
       TERMINAL_NOT_ON_SERVICE_ROUTE |-> \/ service.origin \notin order.origins
                                         \/ service.destination \notin order.destinations,
       TERMINAL_NOT_COMPATIBLE       |-> ~(order.tags \subseteq origin.tags \cap destination.tags),
       READY_AFTER_CUTOFF            |-> order.ready > service.cutoff,
       DUE_TIME_EXCEEDED             |-> service.arrival + destination.handling > order.due,
       TUNNEL_HEIGHT_EXCEEDED        |-> order.dims.height > route.height,
       ROUTE_WIDTH_EXCEEDED          |-> order.dims.width > route.width,
       ROUTE_WEIGHT_EXCEEDED         |-> order.weight > route.weight])

CheckSlot(order, wagon, slot) == Violated([
  WAGON_UNAVAILABLE      |-> ~wagon.available,
  SLOT_UNAVAILABLE       |-> ~slot.available,
  SLOT_TAG_NOT_SUPPORTED |-> ~(order.tags \subseteq slot.tags),
  SLOT_HEIGHT_EXCEEDED   |-> order.dims.height > slot.dims.height,
  SLOT_WIDTH_EXCEEDED    |-> order.dims.width > slot.dims.width,
  SLOT_LENGTH_EXCEEDED   |-> order.dims.length > slot.dims.length,
  SLOT_WEIGHT_EXCEEDED   |-> order.weight > slot.weight,
  WAGON_WEIGHT_EXCEEDED  |-> order.weight > wagon.capacity])

SlotsOf(snap, s) ==
  {l \in DOMAIN snap.slots : snap.wagons[snap.slots[l].wagon].service = s}

SlotCodes(snap, o, l) ==
  CheckSlot(snap.orders[o], snap.wagons[snap.slots[l].wagon], snap.slots[l])

Listed(ids) == {ids[i] : i \in DOMAIN ids}

OpenServices(snap, o, services) ==
  {s \in Listed(services) : CheckService(snap, snap.orders[o], snap.services[s]) = {}}

\* Mutant: the slots of an open service are not checked.
AnySlots(snap, o, s) == SlotsOf(snap, s)

OpenSlots(snap, o, s) == {l \in SlotsOf(snap, s) : SlotCodes(snap, o, l) = {}}

\* The slots of one order on a list of services.  An order whose input failed
\* is never given any; a service that fails as a whole contributes none.
CandidatesOf(snap, o, services) ==
  IF ValidateInput(snap.orders[o]) # {} THEN {}
  ELSE UNION {{[order |-> o, service |-> s, wagon |-> snap.slots[l].wagon, slot |-> l] :
                  l \in OpenSlots(snap, o, s)} : s \in OpenServices(snap, o, services)}

\* Mutant: the slots are looked at whatever the service says.
ServiceVerdictDescends(snap, o, s) ==
  CheckService(snap, snap.orders[o], snap.services[s])
    \cup UNION {SlotCodes(snap, o, l) : l \in SlotsOf(snap, s)}

\* Codes one service gives an order: its own, and only when it has none the
\* codes of its slots, so that a slot-level code never outranks the reason
\* the whole service is out.
ServiceVerdict(snap, o, s) ==
  LET own == CheckService(snap, snap.orders[o], snap.services[s])
  IN IF own # {} THEN own ELSE UNION {SlotCodes(snap, o, l) : l \in SlotsOf(snap, s)}

EvaluateOrder(snap, o, services) ==
  LET input      == ValidateInput(snap.orders[o])
      candidates == CandidatesOf(snap, o, services)
      violations == UNION {ServiceVerdict(snap, o, s) : s \in Listed(services)}
      verdict(in, elig, codes) ==
        [order |-> o, input_state |-> in, eligibility_state |-> elig,
         reason_codes |-> codes, primary |-> SelectPrimary(codes), candidates |-> candidates]
  IN IF input # {} THEN verdict("REVIEW_REQUIRED", "NOT_EVALUATED", input)
     ELSE IF candidates # {} THEN verdict("VALID", "ELIGIBLE", {})
     ELSE verdict("VALID", "INELIGIBLE",
                  IF violations = {} THEN {"NO_ELIGIBLE_SLOT"} ELSE violations)

\* `scope` is the list of services each order may use: the snapshot's
\* baseline for everyone, except where a caller names an order.
BaselineScope(snap) == [o \in DOMAIN snap.orders |-> snap.baseline]

EvaluateScenario(snap, scope) ==
  [o \in DOMAIN snap.orders |-> EvaluateOrder(snap, o, scope[o])]
=============================================================================
