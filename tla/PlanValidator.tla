---------------------------- MODULE PlanValidator ----------------------------
(***************************************************************************)
(* The independent plan validator (app/validation): it re-checks a whole   *)
(* plan against the snapshot and shares no rule with the eligibility gate. *)
(* Pure operators: ValidatePlan returns the set of kinds of finding, and   *)
(* the plan passes when there is none.                                     *)
(*                                                                         *)
(* A plan is a set of assignments [order, service, wagon, slot]; outcomes  *)
(* is a function from the reported orders to their state axes.             *)
(***************************************************************************)
EXTENDS Eligibility, FiniteSetsExt

CheckUniqueness(plan) == Violated([
  duplicate_order |-> \E a, b \in plan : a # b /\ a.order = b.order,
  duplicate_slot  |-> \E a, b \in plan : a # b /\ a.slot = b.slot])

CheckTerminals(snap, order, service) == Violated([terminal |->
  \/ service.origin \notin order.origins
  \/ service.destination \notin order.destinations
  \/ \E t \in {service.origin, service.destination} :
       ~(order.tags \subseteq snap.terminals[t].tags)])

CheckTimes(snap, order, service) == Violated([time |->
  \/ order.ready > service.cutoff
  \/ service.arrival + snap.terminals[service.destination].handling > order.due])

CheckDimensions(snap, order, service, slot) ==
  LET route == snap.routes[service.route]
  IN Violated([
       dimension |-> \E axis \in {"height", "width", "length"} :
                       order.dims[axis] > slot.dims[axis],
       weight    |-> order.weight > slot.weight,
       tag       |-> ~(order.tags \subseteq slot.tags),
       route     |-> \/ order.dims.height > route.height
                     \/ order.dims.width > route.width
                     \/ order.weight > route.weight])

\* Everything the validator says about one assignment.
CheckAssignment(snap, a, permitted) ==
  IF \/ a.order \notin DOMAIN snap.orders \/ a.service \notin DOMAIN snap.services
     \/ a.wagon \notin DOMAIN snap.wagons \/ a.slot \notin DOMAIN snap.slots
  THEN {"reference"}
  ELSE LET order   == snap.orders[a.order]
           service == snap.services[a.service]
           wagon   == snap.wagons[a.wagon]
           slot    == snap.slots[a.slot]
       IN UNION {
            Violated([
              service_scope |-> a.service \notin permitted,
              topology      |-> slot.wagon # a.wagon \/ wagon.service # a.service,
              availability  |-> ~(service.available /\ wagon.available /\ slot.available),
              input         |-> order.weight = NullWeight]),
            CheckTerminals(snap, order, service),
            CheckTimes(snap, order, service),
            CheckDimensions(snap, order, service, slot)}

LoadedOn(snap, plan, w) ==
  SumFunction([a \in {b \in plan : b.wagon = w /\ b.order \in DOMAIN snap.orders} |->
                 snap.orders[a.order].weight])

CheckWagonCapacity(snap, plan) == Violated([wagon_capacity |->
  \E w \in {a.wagon : a \in plan} \cap DOMAIN snap.wagons :
    LoadedOn(snap, plan, w) > snap.wagons[w].capacity])

CheckOutcomeConsistency(plan, outcomes) ==
  LET assigned == {a.order : a \in plan}
  IN Violated([outcome |->
       \/ \E o \in DOMAIN outcomes :
            \/ (o \in assigned) # (outcomes[o].assignment_state = "ASSIGNED")
            \/ o \in assigned /\ outcomes[o].eligibility_state # "ELIGIBLE"
            \/ o \in assigned /\ outcomes[o].input_state = "REVIEW_REQUIRED"
       \/ ~(assigned \subseteq DOMAIN outcomes)])

ValidatePlan(snap, plan, outcomes, permitted) ==
  UNION ({CheckAssignment(snap, a, permitted) : a \in plan} \cup
         {CheckUniqueness(plan), CheckWagonCapacity(snap, plan),
          CheckOutcomeConsistency(plan, outcomes)})
=============================================================================
