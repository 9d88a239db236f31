----------------------------- MODULE PlanProofs -----------------------------
(***************************************************************************)
(* Facts about the operators a solve is built from, for every stored       *)
(* snapshot: what the eligibility gate offers, what the validator accepts, *)
(* what a plan that meets the model's constraints looks like, and what its *)
(* costs say about it.                                                     *)
(***************************************************************************)
EXTENDS Alternatives, SetLemmas, SequenceTheorems

\* What every input of a solve is: a stored snapshot, for each order a list
\* of services among those the validator permits.
RequestTask(t) ==
  /\ StoredSnapshot(t.snap)
  /\ DOMAIN t.scope = DOMAIN t.snap.orders
  /\ \A o \in DOMAIN t.scope :
       /\ t.scope[o] \in Seq(DOMAIN t.snap.services)
       /\ Listed(t.scope[o]) \subseteq Listed(t.snap.baseline)

\* The one way an order can stand on a slot.
Placement(snap, o, l) ==
  [order |-> o, service |-> snap.wagons[snap.slots[l].wagon].service,
   wagon |-> snap.slots[l].wagon, slot |-> l]

-----------------------------------------------------------------------------
(* The entities of a stored snapshot *)

LEMMA OrderFields ==
  ASSUME NEW snap, StoredSnapshot(snap), NEW o \in DOMAIN snap.orders
  PROVE  /\ snap.orders[o].origins \subseteq DOMAIN snap.terminals
         /\ snap.orders[o].destinations \subseteq DOMAIN snap.terminals
         /\ snap.orders[o].origins # {} /\ snap.orders[o].destinations # {}
         /\ snap.orders[o].ready \in Int /\ snap.orders[o].due \in Int
         /\ snap.orders[o].weight \in Nat
         /\ snap.orders[o].dims \in Dimensions
         /\ snap.orders[o].priority \in {"P1", "P2", "P3"}
         /\ snap.orders[o].window \in AdjustmentWindow(snap)
         /\ o \in Nat
<1>1. snap.orders[o] \in Order(snap)
  BY DEF StoredSnapshot
<1>2. o \in Nat
  BY DEF StoredSnapshot
<1> QED BY <1>1, <1>2 DEF Order

LEMMA SlotFields ==
  ASSUME NEW snap, StoredSnapshot(snap), NEW l \in DOMAIN snap.slots
  PROVE  /\ snap.slots[l].wagon \in DOMAIN snap.wagons
         /\ snap.slots[l].available \in BOOLEAN
         /\ snap.slots[l].dims \in Dimensions
         /\ snap.slots[l].weight \in Nat
         /\ l \in Nat
<1>1. snap.slots[l] \in Slot(snap)
  BY DEF StoredSnapshot
<1>2. l \in Nat
  BY DEF StoredSnapshot
<1> QED BY <1>1, <1>2 DEF Slot

LEMMA WagonFields ==
  ASSUME NEW snap, StoredSnapshot(snap), NEW w \in DOMAIN snap.wagons
  PROVE  /\ snap.wagons[w].service \in DOMAIN snap.services
         /\ snap.wagons[w].available \in BOOLEAN
         /\ snap.wagons[w].capacity \in Nat
<1>1. snap.wagons[w] \in Wagon(snap)
  BY DEF StoredSnapshot
<1> QED BY <1>1 DEF Wagon

LEMMA ServiceFields ==
  ASSUME NEW snap, StoredSnapshot(snap), NEW s \in DOMAIN snap.services
  PROVE  /\ snap.services[s].available \in BOOLEAN
         /\ snap.services[s].origin \in DOMAIN snap.terminals
         /\ snap.services[s].destination \in DOMAIN snap.terminals
         /\ snap.services[s].cutoff \in Int /\ snap.services[s].arrival \in Int
         /\ snap.services[s].cutoff < snap.services[s].arrival
         /\ snap.services[s].route \in DOMAIN snap.routes
<1>1. snap.services[s] \in Service(snap) /\ snap.services[s].cutoff < snap.services[s].arrival
  BY DEF StoredSnapshot
<1> QED BY <1>1 DEF Service

LEMMA RouteFields ==
  ASSUME NEW snap, StoredSnapshot(snap), NEW r \in DOMAIN snap.routes
  PROVE  snap.routes[r].height \in Nat /\ snap.routes[r].width \in Nat /\ snap.routes[r].weight \in Nat
<1>1. snap.routes[r] \in RouteConstraint
  BY DEF StoredSnapshot
<1> QED BY <1>1 DEF RouteConstraint

LEMMA TerminalFields ==
  ASSUME NEW snap, StoredSnapshot(snap), NEW h \in DOMAIN snap.terminals
  PROVE  snap.terminals[h].handling \in Nat
<1>1. snap.terminals[h] \in Terminal
  BY DEF StoredSnapshot
<1> QED BY <1>1 DEF Terminal

-----------------------------------------------------------------------------
(* Both requests are such a task. *)

\* A baseline is solved on the snapshot's own list (evaluate_scenario).
LEMMA BaselineIsRequest ==
  ASSUME NEW snap, StoredSnapshot(snap)
  PROVE  RequestTask(BaselineTask(snap))
BY DEF RequestTask, BaselineTask, BaselineScope, StoredSnapshot

LEMMA SequenceOfSet ==
  ASSUME NEW S, IsFiniteSet(S)
  PROVE  SetToSeq(S) \in Seq(S)
<1>1. Cardinality(S) \in Nat /\ ExistsBijection(1 .. Cardinality(S), S)
  BY FS_CardinalityType
<1>2. PICK f : f \in Bijection(1 .. Cardinality(S), S)
  BY <1>1 DEF ExistsBijection
<1>3. f \in [1 .. Cardinality(S) -> S] /\ IsInjective(f)
  BY <1>2 DEF Bijection, Injection, IsInjective
<1>4. SetToSeq(S) \in [1 .. Cardinality(S) -> S]
  BY <1>3 DEF SetToSeq
<1> QED BY <1>1, <1>4

LEMMA ListExtended ==
  ASSUME NEW S, NEW p \in Seq(S), NEW q \in Seq(S), p # << >>
  PROVE  /\ p \o q \in Seq(S)
         /\ p \o q # << >>
         /\ \A i \in DOMAIN p : i \in DOMAIN (p \o q) /\ (p \o q)[i] = p[i]
<1>1. /\ p \o q \in Seq(S) /\ Len(p \o q) = Len(p) + Len(q)
      /\ \A i \in 1 .. Len(p) + Len(q) : i <= Len(p) => (p \o q)[i] = p[i]
  BY ConcatProperties
<1>2. /\ DOMAIN p = 1 .. Len(p) /\ Len(p) \in Nat /\ Len(q) \in Nat /\ Len(p) # 0
      /\ DOMAIN (p \o q) = 1 .. Len(p) + Len(q)
  BY <1>1, EmptySeq
<1>3. p \o q # << >>
  BY <1>1, <1>2
<1> QED BY <1>1, <1>2, <1>3

\* The derived snapshot of a search is one the contract would accept, and
\* everyone but the order searched for keeps the original baseline
\* (derive_snapshot, search_alternative).
LEMMA SearchIsRequest ==
  ASSUME NEW snap, StoredSnapshot(snap), NEW o \in DOMAIN snap.orders,
         NEW requested, NEW before
  PROVE  LET t == SearchTask(snap, o, requested, before)
         IN  /\ RequestTask(t)
             /\ t.search.order = o
             /\ \A other \in DOMAIN t.scope : other # o => t.scope[other] = t.search.baseline
<1> DEFINE changes == ChangeSet(snap, o, requested)
           derived == DeriveSnapshot(snap, o, changes)
           added == Targets(changes, AddService) \ Listed(snap.baseline)
           destinations == Targets(changes, ChangeTerminal)
           t == SearchTask(snap, o, requested, before)
<1>1. /\ snap.orders[o].window \in AdjustmentWindow(snap)
      /\ snap.orders \in [DOMAIN snap.orders -> Order(snap)]
      /\ IsFiniteSet(DOMAIN snap.services)
  BY OrderFields DEF StoredSnapshot
<1>2. added \subseteq DOMAIN snap.services /\ destinations \subseteq DOMAIN snap.terminals
  BY <1>1 DEF ChangeSet, Targets, Listed, AdjustmentWindow, AddService, ChangeTerminal
<1>3. SetToSeq(added) \in Seq(DOMAIN snap.services)
  <2>1. IsFiniteSet(added)
    BY <1>1, <1>2, FS_Subset
  <2> HIDE DEF added
  <2>2. SetToSeq(added) \in Seq(added)
    BY <2>1, SequenceOfSet
  <2> QED BY <1>2, <2>2
<1> DEFINE list == snap.baseline \o SetToSeq(added)
           reached == IF destinations = {} THEN snap.orders[o].destinations ELSE destinations
           orders == [snap.orders EXCEPT ![o].destinations = reached]
<1>4. derived = [snap EXCEPT !.baseline = list, !.orders = orders]
  BY DEF DeriveSnapshot
<1> HIDE DEF added, destinations, derived
<1>5. list \in Seq(DOMAIN snap.services) /\ list # << >>
      /\ \A i \in DOMAIN snap.baseline : i \in DOMAIN list /\ list[i] = snap.baseline[i]
  <2>1. snap.baseline \in Seq(DOMAIN snap.services) /\ snap.baseline # << >>
    BY DEF StoredSnapshot
  <2> DEFINE S == DOMAIN snap.services
             p == snap.baseline
             q == SetToSeq(added)
  <2>2. p \in Seq(S) /\ q \in Seq(S) /\ p # << >>
    BY <1>3, <2>1
  <2>3. /\ p \o q \in Seq(S) /\ p \o q # << >>
        /\ \A i \in DOMAIN p : i \in DOMAIN (p \o q) /\ (p \o q)[i] = p[i]
    <3> HIDE DEF S, p, q
    <3> QED BY <2>2, ListExtended
  <2> QED BY <2>3
<1>6. orders \in [DOMAIN snap.orders -> Order(snap)]
  <2>1. snap.orders[o] \in Order(snap)
    BY <1>1
  <2>2. reached \in (SUBSET DOMAIN snap.terminals) \ {{}}
    BY <1>2, OrderFields
  <2>3. [snap.orders[o] EXCEPT !.destinations = reached] \in Order(snap)
    <3> HIDE DEF reached
    <3> QED BY <2>1, <2>2 DEF Order
  <2> QED BY <1>1, <2>3
<1> HIDE DEF list, orders
<1>7. /\ derived.baseline = list /\ derived.orders = orders
      /\ derived.services = snap.services /\ derived.wagons = snap.wagons
      /\ derived.slots = snap.slots /\ derived.terminals = snap.terminals
      /\ derived.routes = snap.routes /\ derived.scores = snap.scores
      /\ derived.allowed = snap.allowed /\ derived.forbidden = snap.forbidden
      /\ DOMAIN derived = DOMAIN snap
  BY <1>4 DEF StoredSnapshot
<1>8. Order(derived) = Order(snap) /\ Service(derived) = Service(snap)
      /\ Wagon(derived) = Wagon(snap) /\ Slot(derived) = Slot(snap)
  BY <1>7 DEF Order, Service, Wagon, Slot, AdjustmentWindow
<1>9. StoredSnapshot(derived)
  <2>1. DOMAIN orders = DOMAIN snap.orders
    BY <1>6
  <2> QED BY <1>5, <1>6, <1>7, <1>8, <2>1 DEF StoredSnapshot
<1>10. /\ t.snap = derived /\ t.search.order = o /\ t.search.baseline = snap.baseline
       /\ t.scope = [other \in DOMAIN snap.orders |-> IF other = o THEN list ELSE snap.baseline]
  BY <1>7 DEF SearchTask, SearchScope, derived
<1> HIDE DEF t
<1>11. \A other \in DOMAIN snap.orders :
         /\ t.scope[other] \in Seq(DOMAIN snap.services)
         /\ Listed(t.scope[other]) \subseteq Listed(list)
  BY <1>5, <1>10 DEF Listed, StoredSnapshot
<1>12. RequestTask(t)
  BY <1>6, <1>7, <1>9, <1>10, <1>11 DEF RequestTask
<1> QED BY <1>10, <1>12 DEF t

-----------------------------------------------------------------------------
(* The gate and the validator, rule by rule *)

LEMMA NoneViolated ==
  ASSUME NEW checks
  PROVE  Violated(checks) = {} <=> \A code \in DOMAIN checks : ~ checks[code]
BY DEF Violated

LEMMA InputPasses ==
  ASSUME NEW order
  PROVE  ValidateInput(order) = {} <=> order.weight # NullWeight /\ ~ (order.ready >= order.due)
<1> DEFINE checks == [MISSING_REQUIRED_FIELD |-> order.weight = NullWeight,
                      INVALID_TIME_RANGE     |-> order.ready >= order.due]
<1>1. DOMAIN checks = {"MISSING_REQUIRED_FIELD", "INVALID_TIME_RANGE"}
  OBVIOUS
<1>2. /\ checks["MISSING_REQUIRED_FIELD"] <=> order.weight = NullWeight
      /\ checks["INVALID_TIME_RANGE"] <=> order.ready >= order.due
  OBVIOUS
<1>3. ValidateInput(order) = Violated(checks)
  BY DEF ValidateInput
<1> HIDE DEF checks
<1>4. Violated(checks) = {} <=> \A code \in DOMAIN checks : ~ checks[code]
  BY NoneViolated
<1> QED BY <1>1, <1>2, <1>3, <1>4

LEMMA ServicePasses ==
  ASSUME NEW snap, NEW order, NEW service
  PROVE  CheckService(snap, order, service) = {} <=>
           /\ service.available
           /\ service.origin \in order.origins /\ service.destination \in order.destinations
           /\ order.tags \subseteq snap.terminals[service.origin].tags
           /\ order.tags \subseteq snap.terminals[service.destination].tags
           /\ ~ (order.ready > service.cutoff)
           /\ ~ (service.arrival + snap.terminals[service.destination].handling > order.due)
           /\ ~ (order.dims.height > snap.routes[service.route].height)
           /\ ~ (order.dims.width > snap.routes[service.route].width)
           /\ ~ (order.weight > snap.routes[service.route].weight)
<1> DEFINE origin      == snap.terminals[service.origin]
           destination == snap.terminals[service.destination]
           route       == snap.routes[service.route]
           checks == [
             SERVICE_UNAVAILABLE           |-> ~service.available,
             TERMINAL_NOT_ON_SERVICE_ROUTE |-> \/ service.origin \notin order.origins
                                               \/ service.destination \notin order.destinations,
             TERMINAL_NOT_COMPATIBLE       |-> ~(order.tags \subseteq origin.tags \cap destination.tags),
             READY_AFTER_CUTOFF            |-> order.ready > service.cutoff,
             DUE_TIME_EXCEEDED             |-> service.arrival + destination.handling > order.due,
             TUNNEL_HEIGHT_EXCEEDED        |-> order.dims.height > route.height,
             ROUTE_WIDTH_EXCEEDED          |-> order.dims.width > route.width,
             ROUTE_WEIGHT_EXCEEDED         |-> order.weight > route.weight]
<1>1. DOMAIN checks = {"SERVICE_UNAVAILABLE", "TERMINAL_NOT_ON_SERVICE_ROUTE",
                       "TERMINAL_NOT_COMPATIBLE", "READY_AFTER_CUTOFF", "DUE_TIME_EXCEEDED",
                       "TUNNEL_HEIGHT_EXCEEDED", "ROUTE_WIDTH_EXCEEDED", "ROUTE_WEIGHT_EXCEEDED"}
  OBVIOUS
<1>2. /\ checks["SERVICE_UNAVAILABLE"] <=> ~service.available
      /\ checks["TERMINAL_NOT_ON_SERVICE_ROUTE"] <=>
           (service.origin \notin order.origins \/ service.destination \notin order.destinations)
      /\ checks["TERMINAL_NOT_COMPATIBLE"] <=>
           ~(order.tags \subseteq origin.tags \cap destination.tags)
  OBVIOUS
<1>3. /\ checks["READY_AFTER_CUTOFF"] <=> order.ready > service.cutoff
      /\ checks["DUE_TIME_EXCEEDED"] <=> service.arrival + destination.handling > order.due
      /\ checks["TUNNEL_HEIGHT_EXCEEDED"] <=> order.dims.height > route.height
      /\ checks["ROUTE_WIDTH_EXCEEDED"] <=> order.dims.width > route.width
      /\ checks["ROUTE_WEIGHT_EXCEEDED"] <=> order.weight > route.weight
  OBVIOUS
<1>4. CheckService(snap, order, service) = Violated(checks)
  BY DEF CheckService
<1> HIDE DEF checks
<1>5. Violated(checks) = {} <=> \A code \in DOMAIN checks : ~ checks[code]
  BY NoneViolated
<1> QED BY <1>1, <1>2, <1>3, <1>4, <1>5

LEMMA SlotPasses ==
  ASSUME NEW order, NEW wagon, NEW slot
  PROVE  CheckSlot(order, wagon, slot) = {} <=>
           /\ wagon.available /\ slot.available
           /\ order.tags \subseteq slot.tags
           /\ ~ (order.dims.height > slot.dims.height)
           /\ ~ (order.dims.width > slot.dims.width)
           /\ ~ (order.dims.length > slot.dims.length)
           /\ ~ (order.weight > slot.weight)
           /\ ~ (order.weight > wagon.capacity)
<1> DEFINE checks == [
      WAGON_UNAVAILABLE      |-> ~wagon.available,
      SLOT_UNAVAILABLE       |-> ~slot.available,
      SLOT_TAG_NOT_SUPPORTED |-> ~(order.tags \subseteq slot.tags),
      SLOT_HEIGHT_EXCEEDED   |-> order.dims.height > slot.dims.height,
      SLOT_WIDTH_EXCEEDED    |-> order.dims.width > slot.dims.width,
      SLOT_LENGTH_EXCEEDED   |-> order.dims.length > slot.dims.length,
      SLOT_WEIGHT_EXCEEDED   |-> order.weight > slot.weight,
      WAGON_WEIGHT_EXCEEDED  |-> order.weight > wagon.capacity]
<1>1. DOMAIN checks = {"WAGON_UNAVAILABLE", "SLOT_UNAVAILABLE", "SLOT_TAG_NOT_SUPPORTED",
                       "SLOT_HEIGHT_EXCEEDED", "SLOT_WIDTH_EXCEEDED", "SLOT_LENGTH_EXCEEDED",
                       "SLOT_WEIGHT_EXCEEDED", "WAGON_WEIGHT_EXCEEDED"}
  OBVIOUS
<1>2. /\ checks["WAGON_UNAVAILABLE"] <=> ~wagon.available
      /\ checks["SLOT_UNAVAILABLE"] <=> ~slot.available
      /\ checks["SLOT_TAG_NOT_SUPPORTED"] <=> ~(order.tags \subseteq slot.tags)
  OBVIOUS
<1>3. /\ checks["SLOT_HEIGHT_EXCEEDED"] <=> order.dims.height > slot.dims.height
      /\ checks["SLOT_WIDTH_EXCEEDED"] <=> order.dims.width > slot.dims.width
      /\ checks["SLOT_LENGTH_EXCEEDED"] <=> order.dims.length > slot.dims.length
      /\ checks["SLOT_WEIGHT_EXCEEDED"] <=> order.weight > slot.weight
      /\ checks["WAGON_WEIGHT_EXCEEDED"] <=> order.weight > wagon.capacity
  OBVIOUS
<1>4. CheckSlot(order, wagon, slot) = Violated(checks)
  BY DEF CheckSlot
<1> HIDE DEF checks
<1>5. Violated(checks) = {} <=> \A code \in DOMAIN checks : ~ checks[code]
  BY NoneViolated
<1> QED BY <1>1, <1>2, <1>3, <1>4, <1>5

LEMMA TerminalsPass ==
  ASSUME NEW snap, NEW order, NEW service
  PROVE  CheckTerminals(snap, order, service) = {} <=>
           /\ service.origin \in order.origins /\ service.destination \in order.destinations
           /\ order.tags \subseteq snap.terminals[service.origin].tags
           /\ order.tags \subseteq snap.terminals[service.destination].tags
<1> DEFINE off == \/ service.origin \notin order.origins
                  \/ service.destination \notin order.destinations
                  \/ \E h \in {service.origin, service.destination} :
                       ~(order.tags \subseteq snap.terminals[h].tags)
           checks == [terminal |-> off]
<1>1. DOMAIN checks = {"terminal"} /\ (checks["terminal"] <=> off)
  <2> HIDE DEF off
  <2> QED OBVIOUS
<1>2. CheckTerminals(snap, order, service) = Violated(checks)
  BY DEF CheckTerminals
<1> HIDE DEF checks
<1>3. Violated(checks) = {} <=> \A code \in DOMAIN checks : ~ checks[code]
  BY NoneViolated
<1> QED BY <1>1, <1>2, <1>3

LEMMA TimesPass ==
  ASSUME NEW snap, NEW order, NEW service
  PROVE  CheckTimes(snap, order, service) = {} <=>
           /\ ~ (order.ready > service.cutoff)
           /\ ~ (service.arrival + snap.terminals[service.destination].handling > order.due)
<1> DEFINE late == \/ order.ready > service.cutoff
                   \/ service.arrival + snap.terminals[service.destination].handling > order.due
           checks == [time |-> late]
<1>1. DOMAIN checks = {"time"} /\ (checks["time"] <=> late)
  <2> HIDE DEF late
  <2> QED OBVIOUS
<1>2. CheckTimes(snap, order, service) = Violated(checks)
  BY DEF CheckTimes
<1> HIDE DEF checks
<1>3. Violated(checks) = {} <=> \A code \in DOMAIN checks : ~ checks[code]
  BY NoneViolated
<1> QED BY <1>1, <1>2, <1>3

LEMMA DimensionsPass ==
  ASSUME NEW snap, NEW order, NEW service, NEW slot
  PROVE  CheckDimensions(snap, order, service, slot) = {} <=>
           /\ ~ (order.dims.height > slot.dims.height)
           /\ ~ (order.dims.width > slot.dims.width)
           /\ ~ (order.dims.length > slot.dims.length)
           /\ ~ (order.weight > slot.weight)
           /\ order.tags \subseteq slot.tags
           /\ ~ (order.dims.height > snap.routes[service.route].height)
           /\ ~ (order.dims.width > snap.routes[service.route].width)
           /\ ~ (order.weight > snap.routes[service.route].weight)
<1> DEFINE route == snap.routes[service.route]
           large == \E axis \in {"height", "width", "length"} :
                      order.dims[axis] > slot.dims[axis]
           heavy == order.weight > slot.weight
           untagged == ~(order.tags \subseteq slot.tags)
           beyond == \/ order.dims.height > route.height
                     \/ order.dims.width > route.width
                     \/ order.weight > route.weight
           checks == [dimension |-> large, weight |-> heavy, tag |-> untagged, route |-> beyond]
<1>1. /\ DOMAIN checks = {"dimension", "weight", "tag", "route"}
      /\ checks["dimension"] <=> large
      /\ checks["weight"] <=> heavy
      /\ checks["tag"] <=> untagged
      /\ checks["route"] <=> beyond
  <2> HIDE DEF large, heavy, untagged, beyond
  <2> QED OBVIOUS
<1>2. CheckDimensions(snap, order, service, slot) = Violated(checks)
  BY DEF CheckDimensions
<1> HIDE DEF checks
<1>3. Violated(checks) = {} <=> \A code \in DOMAIN checks : ~ checks[code]
  BY NoneViolated
<1> QED BY <1>1, <1>2, <1>3

LEMMA AssignmentPasses ==
  ASSUME NEW snap, NEW a, NEW permitted,
         a.order \in DOMAIN snap.orders, a.service \in DOMAIN snap.services,
         a.wagon \in DOMAIN snap.wagons, a.slot \in DOMAIN snap.slots
  PROVE  LET order   == snap.orders[a.order]
             service == snap.services[a.service]
             wagon   == snap.wagons[a.wagon]
             slot    == snap.slots[a.slot]
         IN  CheckAssignment(snap, a, permitted) = {} <=>
               /\ a.service \in permitted
               /\ slot.wagon = a.wagon /\ wagon.service = a.service
               /\ service.available /\ wagon.available /\ slot.available
               /\ order.weight # NullWeight
               /\ CheckTerminals(snap, order, service) = {}
               /\ CheckTimes(snap, order, service) = {}
               /\ CheckDimensions(snap, order, service, slot) = {}
<1> DEFINE order   == snap.orders[a.order]
           service == snap.services[a.service]
           wagon   == snap.wagons[a.wagon]
           slot    == snap.slots[a.slot]
           elsewhere == slot.wagon # a.wagon \/ wagon.service # a.service
           out == ~(service.available /\ wagon.available /\ slot.available)
           checks == [service_scope |-> a.service \notin permitted,
                      topology      |-> elsewhere,
                      availability  |-> out,
                      input         |-> order.weight = NullWeight]
<1>1. /\ DOMAIN checks = {"service_scope", "topology", "availability", "input"}
      /\ checks["service_scope"] <=> a.service \notin permitted
      /\ checks["topology"] <=> elsewhere
      /\ checks["availability"] <=> out
      /\ checks["input"] <=> order.weight = NullWeight
  <2> HIDE DEF elsewhere, out
  <2> QED OBVIOUS
<1>2. CheckAssignment(snap, a, permitted) =
        UNION {Violated(checks), CheckTerminals(snap, order, service),
               CheckTimes(snap, order, service), CheckDimensions(snap, order, service, slot)}
  BY DEF CheckAssignment
<1> HIDE DEF checks
<1>3. Violated(checks) = {} <=> \A code \in DOMAIN checks : ~ checks[code]
  BY NoneViolated
<1>4. Violated(checks) = {} <=>
        a.service \in permitted /\ ~elsewhere /\ ~out /\ order.weight # NullWeight
  BY <1>1, <1>3
<1> QED BY <1>2, <1>4

-----------------------------------------------------------------------------
(* Candidates *)

\* A slot is offered exactly when the order's input is complete and neither
\* the service nor the slot has anything against it.
LEMMA Offered ==
  ASSUME NEW t, RequestTask(t), NEW o \in DOMAIN t.snap.orders, NEW l \in DOMAIN t.snap.slots
  PROVE  LET order   == t.snap.orders[o]
             slot    == t.snap.slots[l]
             wagon   == t.snap.wagons[slot.wagon]
             service == t.snap.services[wagon.service]
         IN  Placement(t.snap, o, l) \in Candidates(t) <=>
               /\ ValidateInput(order) = {}
               /\ wagon.service \in Listed(t.scope[o])
               /\ CheckService(t.snap, order, service) = {}
               /\ CheckSlot(order, wagon, slot) = {}
<1> DEFINE s == t.snap.wagons[t.snap.slots[l].wagon].service
           a == Placement(t.snap, o, l)
           offered == /\ ValidateInput(t.snap.orders[o]) = {}
                      /\ s \in Listed(t.scope[o])
                      /\ CheckService(t.snap, t.snap.orders[o], t.snap.services[s]) = {}
                      /\ SlotCodes(t.snap, o, l) = {}
<1>1. o \in DOMAIN t.scope
  BY DEF RequestTask
<1>2. a.order = o /\ a.service = s /\ a.slot = l /\ a.wagon = t.snap.slots[l].wagon
  BY DEF Placement
<1>3. ASSUME offered PROVE a \in Candidates(t)
  <2>1. s \in OpenServices(t.snap, o, t.scope[o]) /\ l \in OpenSlots(t.snap, o, s)
    BY <1>3 DEF OpenServices, OpenSlots, SlotsOf
  <2>2. a = [order |-> o, service |-> s, wagon |-> t.snap.slots[l].wagon, slot |-> l]
    BY DEF Placement
  <2>3. a \in {[order |-> o, service |-> s, wagon |-> t.snap.slots[m].wagon, slot |-> m] :
                 m \in OpenSlots(t.snap, o, s)}
    BY <2>1, <2>2
  <2>4. a \in CandidatesOf(t.snap, o, t.scope[o])
    <3> HIDE DEF a
    <3> QED BY <1>3, <2>1, <2>3 DEF CandidatesOf
  <2> QED BY <1>1, <2>4 DEF Candidates
<1>4. ASSUME a \in Candidates(t) PROVE offered
  <2>1. PICK p \in DOMAIN t.scope : a \in CandidatesOf(t.snap, p, t.scope[p])
    BY <1>4 DEF Candidates
  <2>2. ValidateInput(t.snap.orders[p]) = {}
    BY <2>1 DEF CandidatesOf
  <2>3. PICK r \in OpenServices(t.snap, p, t.scope[p]) :
          \E m \in OpenSlots(t.snap, p, r) :
            a = [order |-> p, service |-> r, wagon |-> t.snap.slots[m].wagon, slot |-> m]
    BY <2>1, <2>2 DEF CandidatesOf
  <2>4. PICK m \in OpenSlots(t.snap, p, r) :
          a = [order |-> p, service |-> r, wagon |-> t.snap.slots[m].wagon, slot |-> m]
    BY <2>3
  <2>5. p = o /\ r = s /\ m = l
    BY <1>2, <2>4
  <2> QED BY <2>2, <2>5 DEF OpenServices, OpenSlots
<1> QED BY <1>3, <1>4 DEF SlotCodes

\* A candidate is an order's placement on a slot.
LEMMA CandidatesArePlacements ==
  ASSUME NEW t, RequestTask(t), NEW a \in Candidates(t)
  PROVE  /\ a.order \in DOMAIN t.snap.orders /\ a.slot \in DOMAIN t.snap.slots
         /\ a = Placement(t.snap, a.order, a.slot)
<1>1. PICK p \in DOMAIN t.scope : a \in CandidatesOf(t.snap, p, t.scope[p])
  BY DEF Candidates
<1>2. PICK r \in OpenServices(t.snap, p, t.scope[p]) :
        \E m \in OpenSlots(t.snap, p, r) :
          a = [order |-> p, service |-> r, wagon |-> t.snap.slots[m].wagon, slot |-> m]
  <2>1. ValidateInput(t.snap.orders[p]) = {}
    BY <1>1 DEF CandidatesOf
  <2> QED BY <1>1, <2>1 DEF CandidatesOf
<1>3. PICK m \in OpenSlots(t.snap, p, r) :
        a = [order |-> p, service |-> r, wagon |-> t.snap.slots[m].wagon, slot |-> m]
  BY <1>2
<1>4. m \in DOMAIN t.snap.slots /\ t.snap.wagons[t.snap.slots[m].wagon].service = r
  BY DEF OpenSlots, SlotsOf
<1>5. a.order = p /\ a.slot = m
  BY <1>3
<1>6. p \in DOMAIN t.snap.orders
  BY DEF RequestTask
<1> QED BY <1>3, <1>4, <1>5, <1>6 DEF Placement

LEMMA PlacementFields ==
  ASSUME NEW snap, NEW o, NEW l
  PROVE  LET a == Placement(snap, o, l)
         IN  /\ a.order = o /\ a.slot = l /\ a.wagon = snap.slots[l].wagon
             /\ a.service = snap.wagons[snap.slots[l].wagon].service
BY DEF Placement

\* The validator accepts a placement alone exactly when the gate offers it:
\* the two implementations share no rule and agree on every one.
LEMMA GateIsValidator ==
  ASSUME NEW t, RequestTask(t), NEW o \in DOMAIN t.snap.orders, NEW l \in DOMAIN t.snap.slots
  PROVE  LET a == Placement(t.snap, o, l)
         IN  a \in Candidates(t) <=>
               /\ CheckAssignment(t.snap, a, Listed(t.scope[o])) = {}
               /\ ~ (t.snap.orders[o].weight > t.snap.wagons[a.wagon].capacity)
<1> DEFINE snap    == t.snap
           a       == Placement(snap, o, l)
           order   == snap.orders[o]
           slot    == snap.slots[l]
           wagon   == snap.wagons[slot.wagon]
           service == snap.services[wagon.service]
<1>1. StoredSnapshot(snap)
  BY DEF RequestTask
<1>2. slot.wagon \in DOMAIN snap.wagons
  BY <1>1, SlotFields
<1>3. wagon.service \in DOMAIN snap.services
  BY <1>1, <1>2, WagonFields
<1>4. /\ service.cutoff \in Int /\ service.arrival \in Int /\ service.cutoff < service.arrival
      /\ service.destination \in DOMAIN snap.terminals
  BY <1>1, <1>3, ServiceFields
<1>5. snap.terminals[service.destination].handling \in Nat
  BY <1>1, <1>4, TerminalFields
<1>6. order.ready \in Int /\ order.due \in Int
  BY <1>1, OrderFields
<1>7. a.order = o /\ a.slot = l /\ a.wagon = slot.wagon /\ a.service = wagon.service
  BY PlacementFields
<1>8. CheckAssignment(snap, a, Listed(t.scope[o])) = {} <=>
        /\ wagon.service \in Listed(t.scope[o])
        /\ service.available /\ wagon.available /\ slot.available
        /\ order.weight # NullWeight
        /\ CheckTerminals(snap, order, service) = {}
        /\ CheckTimes(snap, order, service) = {}
        /\ CheckDimensions(snap, order, service, slot) = {}
  <2>1. /\ a.order \in DOMAIN snap.orders /\ snap.orders[a.order] = order
        /\ a.slot \in DOMAIN snap.slots /\ snap.slots[a.slot] = slot
        /\ a.wagon \in DOMAIN snap.wagons /\ snap.wagons[a.wagon] = wagon
        /\ a.service \in DOMAIN snap.services /\ snap.services[a.service] = service
        /\ slot.wagon = a.wagon /\ wagon.service = a.service
    <3> HIDE DEF a
    <3> QED BY <1>2, <1>3, <1>7
  <2> HIDE DEF snap, a, order, slot, wagon, service
  <2> QED BY <2>1, AssignmentPasses
<1>9. a \in Candidates(t) <=>
        /\ ValidateInput(order) = {}
        /\ wagon.service \in Listed(t.scope[o])
        /\ CheckService(snap, order, service) = {}
        /\ CheckSlot(order, wagon, slot) = {}
  BY Offered
<1>10. CheckTimes(snap, order, service) = {} => ~ (order.ready >= order.due)
  <2> HIDE DEF snap, order, service
  <2> QED BY <1>4, <1>5, <1>6, TimesPass
<1> HIDE DEF snap, a, order, slot, wagon, service
<1>11. a \in Candidates(t) <=>
         /\ CheckAssignment(snap, a, Listed(t.scope[o])) = {}
         /\ ~ (order.weight > wagon.capacity)
  BY <1>8, <1>9, <1>10, InputPasses, ServicePasses, SlotPasses, TerminalsPass, TimesPass,
     DimensionsPass
<1> QED BY <1>7, <1>11 DEF snap, a, order, slot, wagon, service

LEMMA CandidatesFinite ==
  ASSUME NEW t, RequestTask(t)
  PROVE  IsFiniteSet(Candidates(t))
<1> DEFINE P == (DOMAIN t.snap.orders) \X (DOMAIN t.snap.slots)
           f == [a \in Candidates(t) |-> <<a.order, a.slot>>]
<1>1. IsFiniteSet(P)
  <2>1. IsFiniteSet(DOMAIN t.snap.orders) /\ IsFiniteSet(DOMAIN t.snap.slots)
    BY DEF RequestTask, StoredSnapshot
  <2> QED BY <2>1, FS_Product
<1>2. f \in [Candidates(t) -> P]
  BY CandidatesArePlacements
<1>3. ASSUME NEW a \in Candidates(t), NEW b \in Candidates(t), f[a] = f[b]
      PROVE  a = b
  <2>1. a.order = b.order /\ a.slot = b.slot
    BY <1>3
  <2> QED BY <2>1, CandidatesArePlacements
<1>4. f \in Injection(Candidates(t), P)
  BY <1>2, <1>3 DEF Injection, IsInjective
<1> QED BY <1>1, <1>4, FS_Injection

\* A candidate stands at least once in its groups' sums.
LEMMA CopiesPositive ==
  ASSUME NEW t, RequestTask(t), NEW a \in Candidates(t)
  PROVE  Copies(t, a) \in Nat /\ Copies(t, a) >= 1
<1> DEFINE list == t.scope[a.order]
           places == {i \in DOMAIN list : list[i] = a.service}
<1>1. /\ a.order \in DOMAIN t.snap.orders /\ a.slot \in DOMAIN t.snap.slots
      /\ a = Placement(t.snap, a.order, a.slot)
  BY CandidatesArePlacements
<1>2. a.service \in Listed(list)
  BY <1>1, Offered, PlacementFields
<1>3. list \in Seq(DOMAIN t.snap.services)
  BY <1>1 DEF RequestTask
<1>4. IsFiniteSet(DOMAIN list)
  <2> HIDE DEF list
  <2>1. Len(list) \in Nat /\ DOMAIN list = 1 .. Len(list)
    BY <1>3, LenProperties
  <2> QED BY <2>1, FS_Interval
<1>5. IsFiniteSet(places) /\ places # {}
  BY <1>2, <1>4, FS_Subset DEF Listed
<1>6. Cardinality(places) \in Nat /\ Cardinality(places) # 0
  BY <1>5, FS_CardinalityType, FS_EmptySet
<1> QED BY <1>6 DEF Copies

-----------------------------------------------------------------------------
(* Plans *)

LEMMA PlansFinite ==
  ASSUME NEW t, RequestTask(t), NEW plan \in HardPlans(t)
  PROVE  plan \subseteq Candidates(t) /\ IsFiniteSet(plan)
BY CandidatesFinite, FS_Subset DEF HardPlans

\* A group whose sum is at most one holds at most one candidate of a plan,
\* and that one is listed once.
LEMMA GroupsHoldOne ==
  ASSUME NEW t, RequestTask(t), NEW plan, plan \subseteq Candidates(t), IsFiniteSet(plan),
         NEW group \in SUBSET plan, PickedIn(t, group) <= 1
  PROVE  \A a, b \in group : a = b /\ Copies(t, a) = 1
<1> DEFINE f == [a \in group |-> Copies(t, a)]
<1>1. IsFiniteSet(group)
  BY FS_Subset
<1>2. \A a \in group : f[a] \in Nat /\ f[a] >= 1
  BY CopiesPositive
<1>3. PickedIn(t, group) = SumFunctionOnSet(f, group)
  BY DEF PickedIn, SumFunction
<1>4. \A a \in group : f[a] = Copies(t, a)
  OBVIOUS
<1> HIDE DEF f
<1> QED BY <1>1, <1>2, <1>3, <1>4, OneTermAtMost

\* No order and no slot is used twice.
LEMMA PlansAreMatchings ==
  ASSUME NEW t, RequestTask(t), NEW plan \in HardPlans(t), NEW a \in plan
  PROVE  /\ Copies(t, a) = 1
         /\ \A b \in plan : a.order = b.order \/ a.slot = b.slot => a = b
<1>1. plan \subseteq Candidates(t) /\ IsFiniteSet(plan)
  BY PlansFinite
<1>2. /\ PickedIn(t, {c \in plan : c.order = a.order}) <= 1
      /\ PickedIn(t, {c \in plan : c.slot = a.slot}) <= 1
  BY DEF HardPlans, MeetsConstraints
<1> DEFINE O == {c \in plan : c.order = a.order}
           L == {c \in plan : c.slot = a.slot}
<1>3. O \in SUBSET plan /\ L \in SUBSET plan /\ a \in O /\ a \in L
  OBVIOUS
<1>4. \A b \in O : a = b /\ Copies(t, a) = 1
  <2> HIDE DEF O
  <2>1. PickedIn(t, O) <= 1
    BY <1>2 DEF O
  <2> QED BY <1>1, <1>3, <2>1, GroupsHoldOne
<1>5. \A b \in L : a = b
  <2> HIDE DEF L
  <2>1. PickedIn(t, L) <= 1
    BY <1>2 DEF L
  <2> QED BY <1>1, <1>3, <2>1, GroupsHoldOne
<1> QED BY <1>3, <1>4, <1>5

\* As long as every candidate is listed once, the model's sum over a wagon is
\* the weight the validator adds up.
LEMMA WeightIsLoad ==
  ASSUME NEW t, RequestTask(t), NEW plan, plan \subseteq Candidates(t),
         \A a \in plan : Copies(t, a) = 1, NEW w
  PROVE  WeightIn(t, {a \in plan : a.wagon = w}) = LoadedOn(t.snap, plan, w)
<1> DEFINE group == {a \in plan : a.wagon = w}
           riding == {b \in plan : b.wagon = w /\ b.order \in DOMAIN t.snap.orders}
           f == [a \in group |-> Copies(t, a) * t.snap.orders[a.order].weight]
           g == [a \in riding |-> t.snap.orders[a.order].weight]
<1>1. \A a \in plan : a.order \in DOMAIN t.snap.orders
  BY CandidatesArePlacements
<1>2. group = riding
  BY <1>1
<1>3. \A a \in group : Copies(t, a) * t.snap.orders[a.order].weight
                         = t.snap.orders[a.order].weight
  <2>1. ASSUME NEW a \in group
        PROVE  Copies(t, a) = 1 /\ t.snap.orders[a.order].weight \in Nat
    BY <1>1, OrderFields DEF RequestTask
  <2> QED BY <2>1
<1>4. f = g
  BY <1>2, <1>3
<1>5. WeightIn(t, group) = SumFunction(f) /\ LoadedOn(t.snap, plan, w) = SumFunction(g)
  BY DEF WeightIn, LoadedOn
<1> QED BY <1>4, <1>5

LEMMA LoadIsNatural ==
  ASSUME NEW t, RequestTask(t), NEW plan, plan \subseteq Candidates(t), IsFiniteSet(plan), NEW w
  PROVE  LoadedOn(t.snap, plan, w) \in Nat
<1> DEFINE riding == {b \in plan : b.wagon = w /\ b.order \in DOMAIN t.snap.orders}
           g == [a \in riding |-> t.snap.orders[a.order].weight]
<1>1. IsFiniteSet(riding)
  BY FS_Subset
<1>2. \A a \in riding : g[a] \in Nat
  BY OrderFields DEF RequestTask
<1>3. LoadedOn(t.snap, plan, w) = SumFunctionOnSet(g, riding)
  BY DEF LoadedOn, SumFunction
<1> HIDE DEF g, riding
<1> QED BY <1>1, <1>2, <1>3, SumBounds

-----------------------------------------------------------------------------
(* Outcomes *)

LEMMA EvaluationStates ==
  ASSUME NEW snap, NEW o, NEW services
  PROVE  LET e == EvaluateOrder(snap, o, services)
             input == ValidateInput(snap.orders[o])
         IN  /\ e.input_state = (IF input # {} THEN "REVIEW_REQUIRED" ELSE "VALID")
             /\ e.eligibility_state =
                  (IF input # {} THEN "NOT_EVALUATED"
                   ELSE IF CandidatesOf(snap, o, services) # {} THEN "ELIGIBLE" ELSE "INELIGIBLE")
BY DEF EvaluateOrder

LEMMA OutcomeStates ==
  ASSUME NEW e, NEW assigned \in BOOLEAN
  PROVE  /\ Outcome(e, assigned).input_state = e.input_state
         /\ Outcome(e, assigned).eligibility_state = e.eligibility_state
         /\ Outcome(e, assigned).assignment_state = "ASSIGNED" <=>
              e.eligibility_state = "ELIGIBLE" /\ assigned
         /\ e.eligibility_state = "ELIGIBLE" /\ assigned => Outcome(e, assigned).primary = "ASSIGNED"
<1>1. CASE e.eligibility_state # "ELIGIBLE"
  BY <1>1 DEF Outcome
<1>2. CASE e.eligibility_state = "ELIGIBLE" /\ assigned
  BY <1>2 DEF Outcome
<1>3. CASE e.eligibility_state = "ELIGIBLE" /\ ~assigned
  BY <1>3 DEF Outcome
<1> QED BY <1>1, <1>2, <1>3

LEMMA CandidateOfItsOrder ==
  ASSUME NEW t, RequestTask(t), NEW a \in Candidates(t)
  PROVE  /\ a \in CandidatesOf(t.snap, a.order, t.scope[a.order])
         /\ ValidateInput(t.snap.orders[a.order]) = {}
<1>1. PICK p \in DOMAIN t.scope : a \in CandidatesOf(t.snap, p, t.scope[p])
  BY DEF Candidates
<1>2. ValidateInput(t.snap.orders[p]) = {}
  BY <1>1 DEF CandidatesOf
<1>3. a.order = p
  BY <1>1, <1>2 DEF CandidatesOf
<1> QED BY <1>1, <1>2, <1>3

\* A search changes no field the gate reads an order's input from, so only an
\* order whose input is valid is ever placed by one.
LEMMA SearchPlacesValidInput ==
  ASSUME NEW snap, StoredSnapshot(snap), NEW o \in DOMAIN snap.orders, NEW requested, NEW before,
         NEW a \in Candidates(SearchTask(snap, o, requested, before)), a.order = o
  PROVE  ValidateInput(snap.orders[o]) = {}
<1> DEFINE t == SearchTask(snap, o, requested, before)
<1>1. RequestTask(t)
  BY SearchIsRequest
<1>2. t.snap = DeriveSnapshot(snap, o, ChangeSet(snap, o, requested))
  BY DEF SearchTask
<1>3. ValidateInput(t.snap.orders[o]) = {}
  <2> HIDE DEF t
  <2> QED BY <1>1, CandidateOfItsOrder DEF t
<1>4. \E reached : t.snap.orders = [snap.orders EXCEPT ![o].destinations = reached]
  <2> DEFINE changes == ChangeSet(snap, o, requested)
  <2>1. "orders" \in DOMAIN snap
    BY DEF StoredSnapshot
  <2>2. DeriveSnapshot(snap, o, changes).orders =
          [snap.orders EXCEPT ![o].destinations =
             IF Targets(changes, ChangeTerminal) = {} THEN @ ELSE Targets(changes, ChangeTerminal)]
    <3> HIDE DEF changes
    <3> QED BY <2>1 DEF DeriveSnapshot
  <2> QED BY <1>2, <2>2
<1>5. snap.orders[o] \in Order(snap) /\ DOMAIN snap.orders = DOMAIN snap.orders
  BY DEF StoredSnapshot
<1>6. /\ t.snap.orders[o].weight = snap.orders[o].weight
      /\ t.snap.orders[o].ready = snap.orders[o].ready
      /\ t.snap.orders[o].due = snap.orders[o].due
  <2>1. PICK reached : t.snap.orders = [snap.orders EXCEPT ![o].destinations = reached]
    BY <1>4
  <2> HIDE DEF t
  <2>2. t.snap.orders[o] = [snap.orders[o] EXCEPT !.destinations = reached]
    BY <2>1 DEF StoredSnapshot
  <2> QED BY <1>5, <2>2 DEF Order
<1> HIDE DEF t
<1> QED BY <1>3, <1>6 DEF ValidateInput, Violated

LEMMA OutcomesOf ==
  ASSUME NEW t, RequestTask(t), NEW plan, plan \subseteq Candidates(t)
  PROVE  LET outcomes == BuildOutcomes(t, plan)
         IN  /\ DOMAIN outcomes = DOMAIN t.snap.orders
             /\ \A a \in plan : a.order \in DOMAIN t.snap.orders
             /\ \A o \in DOMAIN t.snap.orders :
                  /\ (\E a \in plan : a.order = o) =>
                       /\ outcomes[o].input_state = "VALID"
                       /\ outcomes[o].eligibility_state = "ELIGIBLE"
                       /\ outcomes[o].assignment_state = "ASSIGNED"
                       /\ outcomes[o].primary = "ASSIGNED"
                  /\ ~ (\E a \in plan : a.order = o) => outcomes[o].assignment_state # "ASSIGNED"
<1> DEFINE outcomes == BuildOutcomes(t, plan)
           e(o) == EvaluateOrder(t.snap, o, t.scope[o])
<1>1. \A a \in plan : a.order \in DOMAIN t.snap.orders
  BY CandidatesArePlacements
<1>2. DOMAIN outcomes = DOMAIN t.snap.orders
  BY DEF BuildOutcomes, Evaluation, EvaluateScenario
<1>3. ASSUME NEW o \in DOMAIN t.snap.orders
      PROVE  outcomes[o] = Outcome(e(o), \E a \in plan : a.order = o)
  <2>1. Evaluation(t)[o] = e(o) /\ DOMAIN Evaluation(t) = DOMAIN t.snap.orders
    BY DEF Evaluation, EvaluateScenario
  <2> HIDE DEF e
  <2> QED BY <2>1 DEF BuildOutcomes
<1>4. ASSUME NEW a \in plan
      PROVE  e(a.order).input_state = "VALID" /\ e(a.order).eligibility_state = "ELIGIBLE"
  <2>1. /\ CandidatesOf(t.snap, a.order, t.scope[a.order]) # {}
        /\ ValidateInput(t.snap.orders[a.order]) = {}
    BY CandidateOfItsOrder
  <2> QED BY <2>1, EvaluationStates
<1> HIDE DEF outcomes, e
<1>5. ASSUME NEW o \in DOMAIN t.snap.orders, \E a \in plan : a.order = o
      PROVE  /\ outcomes[o] = Outcome(e(o), TRUE)
             /\ e(o).input_state = "VALID" /\ e(o).eligibility_state = "ELIGIBLE"
  <2>1. outcomes[o] = Outcome(e(o), TRUE)
    BY <1>3, <1>5 DEF Outcome
  <2> QED BY <1>4, <1>5, <2>1
<1>6. ASSUME NEW o \in DOMAIN t.snap.orders, ~ (\E a \in plan : a.order = o)
      PROVE  outcomes[o] = Outcome(e(o), FALSE)
  BY <1>3, <1>6 DEF Outcome
<1>7. ASSUME NEW o \in DOMAIN t.snap.orders
      PROVE  /\ (\E a \in plan : a.order = o) =>
                  /\ outcomes[o].input_state = "VALID"
                  /\ outcomes[o].eligibility_state = "ELIGIBLE"
                  /\ outcomes[o].assignment_state = "ASSIGNED"
                  /\ outcomes[o].primary = "ASSIGNED"
             /\ ~ (\E a \in plan : a.order = o) => outcomes[o].assignment_state # "ASSIGNED"
  <2>1. ASSUME \E a \in plan : a.order = o
        PROVE  /\ outcomes[o].input_state = "VALID"
               /\ outcomes[o].eligibility_state = "ELIGIBLE"
               /\ outcomes[o].assignment_state = "ASSIGNED"
               /\ outcomes[o].primary = "ASSIGNED"
    <3>1. /\ Outcome(e(o), TRUE).input_state = e(o).input_state
          /\ Outcome(e(o), TRUE).eligibility_state = e(o).eligibility_state
          /\ Outcome(e(o), TRUE).assignment_state = "ASSIGNED" <=>
               e(o).eligibility_state = "ELIGIBLE" /\ TRUE
          /\ e(o).eligibility_state = "ELIGIBLE" /\ TRUE =>
               Outcome(e(o), TRUE).primary = "ASSIGNED"
      BY OutcomeStates
    <3>2. /\ outcomes[o] = Outcome(e(o), TRUE)
          /\ e(o).input_state = "VALID" /\ e(o).eligibility_state = "ELIGIBLE"
      BY <1>5, <2>1
    <3> QED BY <3>1, <3>2
  <2>2. ASSUME ~ (\E a \in plan : a.order = o)
        PROVE  outcomes[o].assignment_state # "ASSIGNED"
    BY <1>6, <2>2, OutcomeStates
  <2> QED BY <2>1, <2>2
<1> QED BY <1>1, <1>2, <1>7 DEF outcomes, e

-----------------------------------------------------------------------------
(* The validator has nothing to say of a plan of the model. *)

LEMMA UniquenessPasses ==
  ASSUME NEW plan, \A a, b \in plan : a.order = b.order \/ a.slot = b.slot => a = b
  PROVE  CheckUniqueness(plan) = {}
<1> DEFINE orders == \E a, b \in plan : a # b /\ a.order = b.order
           slots == \E a, b \in plan : a # b /\ a.slot = b.slot
           checks == [duplicate_order |-> orders, duplicate_slot |-> slots]
<1>1. /\ DOMAIN checks = {"duplicate_order", "duplicate_slot"}
      /\ checks["duplicate_order"] <=> orders
      /\ checks["duplicate_slot"] <=> slots
  <2> HIDE DEF orders, slots
  <2> QED OBVIOUS
<1>2. ~orders /\ ~slots
  OBVIOUS
<1>3. CheckUniqueness(plan) = Violated(checks)
  BY DEF CheckUniqueness
<1> HIDE DEF orders, slots, checks
<1> QED BY <1>1, <1>2, <1>3, NoneViolated

LEMMA CapacityPasses ==
  ASSUME NEW snap, NEW plan
  PROVE  CheckWagonCapacity(snap, plan) = {} <=>
           \A w \in {a.wagon : a \in plan} \cap DOMAIN snap.wagons :
             ~ (LoadedOn(snap, plan, w) > snap.wagons[w].capacity)
<1> DEFINE over == \E w \in {a.wagon : a \in plan} \cap DOMAIN snap.wagons :
                     LoadedOn(snap, plan, w) > snap.wagons[w].capacity
           checks == [wagon_capacity |-> over]
<1>1. DOMAIN checks = {"wagon_capacity"} /\ (checks["wagon_capacity"] <=> over)
  <2> HIDE DEF over
  <2> QED OBVIOUS
<1>2. CheckWagonCapacity(snap, plan) = Violated(checks)
  BY DEF CheckWagonCapacity
<1> HIDE DEF over, checks
<1>3. CheckWagonCapacity(snap, plan) = {} <=> ~over
  BY <1>1, <1>2, NoneViolated
<1> QED BY <1>3 DEF over

LEMMA OutcomesPass ==
  ASSUME NEW plan, NEW outcomes, \A a \in plan : a.order \in DOMAIN outcomes,
         \A o \in DOMAIN outcomes :
           /\ (\E a \in plan : a.order = o) =>
                /\ outcomes[o].input_state = "VALID"
                /\ outcomes[o].eligibility_state = "ELIGIBLE"
                /\ outcomes[o].assignment_state = "ASSIGNED"
           /\ ~ (\E a \in plan : a.order = o) => outcomes[o].assignment_state # "ASSIGNED"
  PROVE  CheckOutcomeConsistency(plan, outcomes) = {}
<1> DEFINE assigned == {a.order : a \in plan}
           wrong == \/ \E o \in DOMAIN outcomes :
                         \/ (o \in assigned) # (outcomes[o].assignment_state = "ASSIGNED")
                         \/ o \in assigned /\ outcomes[o].eligibility_state # "ELIGIBLE"
                         \/ o \in assigned /\ outcomes[o].input_state = "REVIEW_REQUIRED"
                    \/ ~(assigned \subseteq DOMAIN outcomes)
           checks == [outcome |-> wrong]
<1>1. DOMAIN checks = {"outcome"} /\ (checks["outcome"] <=> wrong)
  <2> HIDE DEF wrong
  <2> QED OBVIOUS
<1>2. CheckOutcomeConsistency(plan, outcomes) = Violated(checks)
  BY DEF CheckOutcomeConsistency
<1> HIDE DEF checks
<1>3. ~wrong
  <2>1. \A o : o \in assigned <=> \E a \in plan : a.order = o
    OBVIOUS
  <2> HIDE DEF assigned
  <2> QED BY <2>1
<1> HIDE DEF wrong
<1> QED BY <1>1, <1>2, <1>3, NoneViolated

\* Gate, model and outcomes on one side, the validator on the other: whatever
\* plan the model admits, the validator passes (run_baseline).
LEMMA PlansPass ==
  ASSUME NEW t, RequestTask(t), NEW plan \in HardPlans(t)
  PROVE  ValidatePlan(t.snap, plan, BuildOutcomes(t, plan), Listed(t.snap.baseline)) = {}
<1> DEFINE permitted == Listed(t.snap.baseline)
<1>1. plan \subseteq Candidates(t)
  BY PlansFinite
<1>2. ASSUME NEW a \in plan
      PROVE  CheckAssignment(t.snap, a, permitted) = {}
  <2>1. /\ a \in Candidates(t) /\ a.order \in DOMAIN t.snap.orders
        /\ a.slot \in DOMAIN t.snap.slots
        /\ a = Placement(t.snap, a.order, a.slot)
    BY <1>1, CandidatesArePlacements
  <2>2. CheckAssignment(t.snap, a, Listed(t.scope[a.order])) = {}
    BY <2>1, GateIsValidator
  <2>3. Listed(t.scope[a.order]) \subseteq permitted
    BY <2>1 DEF RequestTask
  <2>4. /\ a.wagon \in DOMAIN t.snap.wagons
        /\ a.service \in DOMAIN t.snap.services
    BY <2>1, PlacementFields, SlotFields, WagonFields DEF RequestTask
  <2> HIDE DEF permitted
  <2> QED BY <2>1, <2>2, <2>3, <2>4, AssignmentPasses
<1>3. CheckUniqueness(plan) = {}
  BY PlansAreMatchings, UniquenessPasses
<1>4. CheckWagonCapacity(t.snap, plan) = {}
  <2>1. ASSUME NEW w \in {a.wagon : a \in plan} \cap DOMAIN t.snap.wagons
        PROVE  ~ (LoadedOn(t.snap, plan, w) > t.snap.wagons[w].capacity)
    <3>1. WeightIn(t, {a \in plan : a.wagon = w}) <= t.snap.wagons[w].capacity
      BY DEF HardPlans, MeetsConstraints
    <3>2. WeightIn(t, {a \in plan : a.wagon = w}) = LoadedOn(t.snap, plan, w)
      BY <1>1, PlansAreMatchings, WeightIsLoad
    <3>3. t.snap.wagons[w].capacity \in Nat
      BY WagonFields DEF RequestTask
    <3>4. LoadedOn(t.snap, plan, w) \in Nat
      BY <1>1, PlansFinite, LoadIsNatural
    <3> QED BY <3>1, <3>2, <3>3, <3>4
  <2> QED BY <2>1, CapacityPasses
<1>5. CheckOutcomeConsistency(plan, BuildOutcomes(t, plan)) = {}
  <2> DEFINE outcomes == BuildOutcomes(t, plan)
             placed(o) == \E a \in plan : a.order = o
  <2>1. /\ DOMAIN outcomes = DOMAIN t.snap.orders
        /\ \A a \in plan : a.order \in DOMAIN t.snap.orders
    BY <1>1, OutcomesOf
  <2>2. ASSUME NEW o \in DOMAIN t.snap.orders
        PROVE  /\ placed(o) =>
                    /\ outcomes[o].input_state = "VALID"
                    /\ outcomes[o].eligibility_state = "ELIGIBLE"
                    /\ outcomes[o].assignment_state = "ASSIGNED"
               /\ ~ placed(o) => outcomes[o].assignment_state # "ASSIGNED"
    BY <1>1, OutcomesOf
  <2> HIDE DEF outcomes
  <2>3. CheckOutcomeConsistency(plan, outcomes) = {}
    BY <2>1, <2>2, OutcomesPass
  <2> QED BY <2>3 DEF outcomes
<1> QED BY <1>2, <1>3, <1>4, <1>5 DEF ValidatePlan

-----------------------------------------------------------------------------
(* A placement alone *)

\* With one assignment, marked as placed, the validator is left with the rules
\* about the assignment and with the wagon's capacity.
LEMMA AlonePasses ==
  ASSUME NEW snap, StoredSnapshot(snap),
         NEW o \in DOMAIN snap.orders, NEW l \in DOMAIN snap.slots,
         NEW outcomes, DOMAIN outcomes = {o},
         outcomes[o].input_state = "VALID", outcomes[o].eligibility_state = "ELIGIBLE",
         outcomes[o].assignment_state = "ASSIGNED", NEW permitted
  PROVE  LET a == Placement(snap, o, l)
         IN  ValidatePlan(snap, {a}, outcomes, permitted) = {} <=>
               /\ CheckAssignment(snap, a, permitted) = {}
               /\ ~ (snap.orders[o].weight > snap.wagons[a.wagon].capacity)
<1> DEFINE a == Placement(snap, o, l)
<1>1. a.order = o /\ a.slot = l /\ a.wagon \in DOMAIN snap.wagons
  BY PlacementFields, SlotFields
<1> HIDE DEF a
<1>2. CheckUniqueness({a}) = {}
  BY UniquenessPasses
<1>3. CheckOutcomeConsistency({a}, outcomes) = {}
  BY <1>1, OutcomesPass
<1>4. LoadedOn(snap, {a}, a.wagon) = snap.orders[o].weight
  <2> DEFINE riding == {b \in {a} : b.wagon = a.wagon /\ b.order \in DOMAIN snap.orders}
             f == [b \in riding |-> snap.orders[b.order].weight]
  <2>1. riding = {a}
    BY <1>1
  <2>2. DOMAIN f = {a} /\ f[a] = snap.orders[o].weight /\ f[a] \in Int
    BY <1>1, <2>1, OrderFields
  <2>3. LoadedOn(snap, {a}, a.wagon) = SumFunction(f)
    BY DEF LoadedOn
  <2>4. SumFunction(f) = SumFunctionOnSet(f, DOMAIN f)
    BY DEF SumFunction
  <2> HIDE DEF f
  <2>5. SumFunctionOnSet(f, {a}) = f[a]
    BY <2>2, SumOfOne
  <2> QED BY <2>2, <2>3, <2>4, <2>5
<1>5. CheckWagonCapacity(snap, {a}) = {} <=>
        ~ (LoadedOn(snap, {a}, a.wagon) > snap.wagons[a.wagon].capacity)
  <2>1. {b.wagon : b \in {a}} \cap DOMAIN snap.wagons = {a.wagon}
    BY <1>1
  <2> QED BY <2>1, CapacityPasses
<1>6. ValidatePlan(snap, {a}, outcomes, permitted) =
        CheckAssignment(snap, a, permitted) \cup CheckUniqueness({a})
          \cup CheckWagonCapacity(snap, {a}) \cup CheckOutcomeConsistency({a}, outcomes)
  BY DEF ValidatePlan
<1> QED BY <1>2, <1>3, <1>4, <1>5, <1>6 DEF a

-----------------------------------------------------------------------------
(* Costs *)

SlotsOffered(t) == {a.slot : a \in Candidates(t)}

LEMMA OffersFinite ==
  ASSUME NEW t, RequestTask(t)
  PROVE  /\ IsFiniteSet(SolvedOrders(t)) /\ SolvedOrders(t) \subseteq Int
         /\ IsFiniteSet(SlotsOffered(t)) /\ SlotsOffered(t) \subseteq Int
<1>1. SolvedOrders(t) \in SUBSET DOMAIN t.snap.orders
  BY CandidatesArePlacements DEF SolvedOrders
<1>2. SlotsOffered(t) \in SUBSET DOMAIN t.snap.slots
  BY CandidatesArePlacements DEF SlotsOffered
<1>3. /\ IsFiniteSet(DOMAIN t.snap.orders) /\ IsFiniteSet(DOMAIN t.snap.slots)
      /\ DOMAIN t.snap.orders \subseteq Nat /\ DOMAIN t.snap.slots \subseteq Nat
  BY DEF RequestTask, StoredSnapshot
<1> QED BY <1>1, <1>2, <1>3, FS_Subset

\* Three named stages and one for each order that has a candidate.
LEMMA StagesAreNatural ==
  ASSUME NEW t, RequestTask(t)
  PROVE  Stages(t) \in Nat /\ Stages(t) >= 3
BY OffersFinite, FS_CardinalityType DEF Stages

LEMMA OrderHasStage ==
  ASSUME NEW t, RequestTask(t), NEW o \in SolvedOrders(t)
  PROVE  \E k \in 4 .. Stages(t) : Nth(SolvedOrders(t), k - 3) = o
<1> DEFINE S == SolvedOrders(t)
           n == RankIn(S, o)
<1>1. IsFiniteSet(S) /\ S \subseteq Int /\ o \in S
  BY OffersFinite
<1>2. Stages(t) = 3 + Cardinality(S)
  BY DEF Stages
<1> HIDE DEF S
<1>3. n \in 1 .. Cardinality(S)
  BY <1>1, RankBounds
<1>4. Cardinality(S) \in Nat
  BY <1>1, FS_CardinalityType
<1>5. \A x \in S : RankIn(S, x) = n => x = o
  BY <1>1, RankInjective
<1>6. Nth(S, n) = o
  <2>1. Nth(S, n) = CHOOSE x \in S : RankIn(S, x) = n
    BY DEF Nth, RankIn
  <2> QED BY <1>1, <1>5, <2>1
<1> HIDE DEF n
<1>7. n + 3 \in 4 .. Stages(t) /\ (n + 3) - 3 = n
  BY <1>2, <1>3, <1>4
<1> QED BY <1>6, <1>7 DEF S

\* An order costs the rank of its slot, and more than any rank when it has
\* none.
LEMMA CanonicalCosts ==
  ASSUME NEW t, RequestTask(t), NEW plan \in HardPlans(t), NEW o
  PROVE  /\ UnassignedPenalty(t) \in Int
         /\ \A a \in plan : a.order = o =>
              /\ CanonicalCost(t, plan, o) = RankIn(SlotsOffered(t), a.slot)
              /\ a.slot \in SlotsOffered(t)
              /\ RankIn(SlotsOffered(t), a.slot) \in Int
              /\ RankIn(SlotsOffered(t), a.slot) < UnassignedPenalty(t)
         /\ ~ (\E a \in plan : a.order = o) => CanonicalCost(t, plan, o) = UnassignedPenalty(t)
<1> DEFINE S == SlotsOffered(t)
<1>1. IsFiniteSet(S) /\ S \subseteq Int
  BY OffersFinite
<1>2. Cardinality(S) \in Nat /\ UnassignedPenalty(t) = Cardinality(S) + 1
  BY <1>1, FS_CardinalityType DEF UnassignedPenalty, SlotsOffered
<1>3. ASSUME NEW a \in plan, a.order = o
      PROVE  /\ CanonicalCost(t, plan, o) = RankIn(S, a.slot)
             /\ a.slot \in S
             /\ RankIn(S, a.slot) \in Int
             /\ RankIn(S, a.slot) < UnassignedPenalty(t)
  <2>1. a.slot \in S
    BY PlansFinite DEF SlotsOffered
  <2>2. RankIn(S, a.slot) \in 1 .. Cardinality(S)
    <3> HIDE DEF S
    <3> QED BY <1>1, <2>1, RankBounds
  <2>3. (CHOOSE b \in plan : b.order = o) = a
    BY <1>3, PlansAreMatchings
  <2>4. CanonicalCost(t, plan, o) = SlotRank(t, a.slot)
    BY <1>3, <2>3 DEF CanonicalCost
  <2>5. SlotRank(t, a.slot) = RankIn(S, a.slot)
    BY DEF SlotRank, RankIn, SlotsOffered
  <2> QED BY <1>2, <2>1, <2>2, <2>4, <2>5
<1>4. ~ (\E a \in plan : a.order = o) => CanonicalCost(t, plan, o) = UnassignedPenalty(t)
  BY DEF CanonicalCost
<1> QED BY <1>2, <1>3, <1>4

LEMMA CostsAreIntegers ==
  ASSUME NEW t, RequestTask(t), NEW plan \in HardPlans(t), NEW k \in Nat
  PROVE  Cost(t, k, plan) \in Int
<1> DEFINE score == [a \in plan |-> t.snap.scores[t.snap.orders[a.order].priority]]
           due   == [a \in plan |-> t.snap.orders[a.order].due]
<1>1. IsFiniteSet(plan)
  BY PlansFinite
<1>2. ASSUME NEW a \in plan
      PROVE  score[a] \in Int /\ due[a] \in Int
  <2>1. a.order \in DOMAIN t.snap.orders
    BY PlansFinite, CandidatesArePlacements
  <2>2. /\ t.snap.orders[a.order].priority \in {"P1", "P2", "P3"}
        /\ t.snap.orders[a.order].due \in Int
    BY <2>1, OrderFields DEF RequestTask
  <2>3. t.snap.scores \in [{"P1", "P2", "P3"} -> Int]
    BY DEF RequestTask, StoredSnapshot
  <2> QED BY <2>2, <2>3
<1>3. PriorityScore(t, plan) = SumFunctionOnSet(score, plan)
  BY DEF PriorityScore, SumFunction
<1>4. DueCost(t, plan) = SumFunctionOnSet(due, plan)
  BY DEF DueCost, SumFunction
<1> HIDE DEF score, due
<1>5. PriorityScore(t, plan) \in Int /\ DueCost(t, plan) \in Int
  BY <1>1, <1>2, <1>3, <1>4, SumIsInteger
<1>6. AssignedCount(plan) \in Int
  BY <1>1, FS_CardinalityType DEF AssignedCount
<1>7. \A o : CanonicalCost(t, plan, o) \in Int
  <2> TAKE o
  <2>1. CASE \E a \in plan : a.order = o
    BY <2>1, CanonicalCosts
  <2>2. CASE ~ (\E a \in plan : a.order = o)
    BY <2>2, CanonicalCosts
  <2> QED BY <2>1, <2>2
<1> QED BY <1>5, <1>6, <1>7 DEF Cost

\* Plans that cost the same at every stage are one plan: the canonical stages
\* tell where each order stands, and an order stands on a slot in one way.
LEMMA SameCostsSamePlan ==
  ASSUME NEW t, RequestTask(t), NEW plan \in HardPlans(t), NEW other \in HardPlans(t),
         \A k \in 1 .. Stages(t) : Cost(t, k, plan) = Cost(t, k, other)
  PROVE  plan = other
<1>1. ASSUME NEW p \in HardPlans(t), NEW q \in HardPlans(t), NEW a \in p,
             \A k \in 1 .. Stages(t) : Cost(t, k, p) = Cost(t, k, q)
      PROVE  a \in q
  <2> DEFINE o == a.order
             S == SlotsOffered(t)
  <2>1. a \in Candidates(t) /\ o \in SolvedOrders(t)
    BY PlansFinite DEF SolvedOrders
  <2>2. PICK k \in 4 .. Stages(t) : Nth(SolvedOrders(t), k - 3) = o
    BY <2>1, OrderHasStage
  <2>3. k \in 1 .. Stages(t) /\ k \in Int /\ k > 3
    BY StagesAreNatural
  <2>4. CanonicalCost(t, p, o) = CanonicalCost(t, q, o)
    <3>1. Cost(t, k, p) = CanonicalCost(t, p, o) /\ Cost(t, k, q) = CanonicalCost(t, q, o)
      BY <2>2, <2>3 DEF Cost
    <3> QED BY <1>1, <2>3, <3>1
  <2>5. /\ CanonicalCost(t, p, o) = RankIn(S, a.slot) /\ a.slot \in S
        /\ RankIn(S, a.slot) \in Int /\ RankIn(S, a.slot) < UnassignedPenalty(t)
        /\ UnassignedPenalty(t) \in Int
    BY CanonicalCosts
  <2>6. PICK b \in q : b.order = o
    <3>1. SUFFICES ASSUME ~ (\E b \in q : b.order = o) PROVE FALSE
      OBVIOUS
    <3>2. CanonicalCost(t, q, o) = UnassignedPenalty(t)
      BY <3>1, CanonicalCosts
    <3>3. UnassignedPenalty(t) = RankIn(S, a.slot)
      BY <2>4, <2>5, <3>2
    <3> HIDE DEF S
    <3> QED BY <2>5, <3>3
  <2>7. CanonicalCost(t, q, o) = RankIn(S, b.slot) /\ b.slot \in S
    BY <2>6, CanonicalCosts
  <2>8. a.slot = b.slot
    <3>1. IsFiniteSet(S) /\ S \subseteq Int
      BY OffersFinite
    <3>2. RankIn(S, a.slot) = RankIn(S, b.slot) /\ a.slot \in S /\ b.slot \in S
      BY <2>4, <2>5, <2>7
    <3> HIDE DEF S
    <3> QED BY <3>1, <3>2, RankInjective
  <2>9. b \in Candidates(t)
    BY PlansFinite
  <2>10. a = Placement(t.snap, a.order, a.slot) /\ b = Placement(t.snap, b.order, b.slot)
    BY <2>1, <2>9, CandidatesArePlacements
  <2> QED BY <2>6, <2>8, <2>10
<1>2. \A k \in 1 .. Stages(t) : Cost(t, k, other) = Cost(t, k, plan)
  OBVIOUS
<1> QED BY <1>1, <1>2

\* Where two plans cost differently, there is a first stage where they do.
LEMMA FirstDifference ==
  ASSUME NEW t, RequestTask(t), NEW plan \in HardPlans(t), NEW other \in HardPlans(t),
         plan # other
  PROVE  \E k \in 1 .. Stages(t) :
           /\ Cost(t, k, plan) # Cost(t, k, other)
           /\ \A j \in 1 .. k - 1 : Cost(t, j, plan) = Cost(t, j, other)
<1> DEFINE differ == {k \in 1 .. Stages(t) : Cost(t, k, plan) # Cost(t, k, other)}
           negated == {0 - k : k \in differ}
           f == [k \in differ |-> 0 - k]
<1>0. Stages(t) \in Nat
  BY StagesAreNatural
<1>1. differ # {} /\ differ \in SUBSET (1 .. Stages(t))
  BY SameCostsSamePlan
<1>2. IsFiniteSet(differ) /\ differ \subseteq Int
  <2> HIDE DEF differ
  <2>1. IsFiniteSet(1 .. Stages(t)) /\ 1 .. Stages(t) \subseteq Int
    BY <1>0, FS_Interval
  <2>2. IsFiniteSet(differ)
    BY <1>1, <2>1, FS_Subset
  <2>3. differ \subseteq Int
    BY <1>1, <2>1
  <2> QED BY <2>2, <2>3
<1>3. IsFiniteSet(negated)
  <2> HIDE DEF differ
  <2>1. f \in Surjection(differ, negated)
    BY DEF Surjection
  <2> HIDE DEF f, negated
  <2> QED BY <1>2, <2>1, FS_Surjection
<1>4. negated # {} /\ negated \subseteq Int
  <2> HIDE DEF differ
  <2>1. \A k \in differ : 0 - k \in Int
    BY <1>2
  <2> QED BY <1>1, <2>1
<1>5. PICK n \in negated : \A m \in negated : m <= n
  <2> HIDE DEF negated
  <2> QED BY <1>3, <1>4, MaximumExists
<1>6. PICK k \in differ : n = 0 - k
  BY <1>5
<1>7. k \in 1 .. Stages(t) /\ Cost(t, k, plan) # Cost(t, k, other)
  OBVIOUS
<1>8. ASSUME NEW j \in 1 .. k - 1
      PROVE  Cost(t, j, plan) = Cost(t, j, other)
  <2>1. j \in 1 .. Stages(t) /\ j \in Int /\ k \in Int /\ ~ (0 - j <= 0 - k)
    BY <1>0, <1>7
  <2>2. SUFFICES ASSUME j \in differ PROVE FALSE
    BY <2>1
  <2>3. 0 - j \in negated
    BY <2>2
  <2> HIDE DEF negated, differ
  <2> QED BY <1>5, <1>6, <2>1, <2>3
<1> QED BY <1>7, <1>8

-----------------------------------------------------------------------------
(* Room for one more *)

LEMMA GroupOfOne ==
  ASSUME NEW t, NEW group, \A a, b \in group : a = b /\ Copies(t, a) = 1
  PROVE  PickedIn(t, group) <= 1
<1> DEFINE f == [a \in group |-> Copies(t, a)]
<1>1. PickedIn(t, group) = SumFunctionOnSet(f, group)
  BY DEF PickedIn, SumFunction
<1>2. CASE group = {}
  <2> HIDE DEF f
  <2> QED BY <1>1, <1>2, SumOfNone
<1>3. CASE group # {}
  <2>1. PICK a \in group : group = {a}
    BY <1>3
  <2>2. f[a] = 1
    OBVIOUS
  <2> HIDE DEF f
  <2>3. SumFunctionOnSet(f, {a}) = 1
    BY <2>2, SumOfOne
  <2> QED BY <1>1, <2>1, <2>3
<1> QED BY <1>2, <1>3

\* A candidate of an order without a slot, on a slot without an order and a
\* wagon with the weight, can be added to a plan.
LEMMA OneMoreFits ==
  ASSUME NEW t, RequestTask(t), NEW plan \in HardPlans(t), NEW a \in Candidates(t),
         Copies(t, a) = 1,
         \A b \in plan : b.order # a.order /\ b.slot # a.slot,
         LoadedOn(t.snap, plan \cup {a}, a.wagon) <= t.snap.wagons[a.wagon].capacity
  PROVE  plan \cup {a} \in HardPlans(t)
<1> DEFINE more == plan \cup {a}
<1>1. plan \subseteq Candidates(t) /\ more \subseteq Candidates(t)
  BY PlansFinite
<1>2. \A b \in more : Copies(t, b) = 1
  BY PlansAreMatchings
<1>3. \A b, c \in more : b.order = c.order \/ b.slot = c.slot => b = c
  BY PlansAreMatchings
<1>4. more \in SUBSET Candidates(t)
  BY <1>1
<1> HIDE DEF more
<1>5. ASSUME NEW o
      PROVE  PickedIn(t, {c \in more : c.order = o}) <= 1
  <2> DEFINE group == {c \in more : c.order = o}
  <2>1. \A b, c \in group : b = c /\ Copies(t, b) = 1
    BY <1>2, <1>3
  <2> HIDE DEF group
  <2>2. PickedIn(t, group) <= 1
    BY <2>1, GroupOfOne
  <2> QED BY <2>2 DEF group
<1>6. ASSUME NEW l
      PROVE  PickedIn(t, {c \in more : c.slot = l}) <= 1
  <2> DEFINE group == {c \in more : c.slot = l}
  <2>1. \A b, c \in group : b = c /\ Copies(t, b) = 1
    BY <1>2, <1>3
  <2> HIDE DEF group
  <2>2. PickedIn(t, group) <= 1
    BY <2>1, GroupOfOne
  <2> QED BY <2>2 DEF group
<1>7. ASSUME NEW w \in {c.wagon : c \in more}
      PROVE  WeightIn(t, {c \in more : c.wagon = w}) <= t.snap.wagons[w].capacity
  <2>1. CASE w = a.wagon
    <3>1. WeightIn(t, {c \in more : c.wagon = w}) = LoadedOn(t.snap, more, w)
      BY <1>1, <1>2, WeightIsLoad
    <3> QED BY <2>1, <3>1 DEF more
  <2>2. CASE w # a.wagon
    <3>1. {c \in more : c.wagon = w} = {c \in plan : c.wagon = w} /\ w \in {c.wagon : c \in plan}
      BY <1>7, <2>2 DEF more
    <3> QED BY <3>1 DEF HardPlans, MeetsConstraints
  <2> QED BY <2>1, <2>2
<1>8. MeetsConstraints(t, more)
  BY <1>5, <1>6, <1>7 DEF MeetsConstraints
<1> QED BY <1>4, <1>8 DEF HardPlans, more

LEMMA OneMoreCostsLess ==
  ASSUME NEW t, RequestTask(t), NEW plan \in HardPlans(t), NEW a, a \notin plan
  PROVE  Cost(t, 1, plan \cup {a}) < Cost(t, 1, plan)
<1>1. IsFiniteSet(plan)
  BY PlansFinite
<1>2. Cardinality(plan) \in Nat /\ Cardinality(plan \cup {a}) = Cardinality(plan) + 1
  BY <1>1, FS_CardinalityType, FS_AddElement
<1> QED BY <1>2 DEF Cost, AssignedCount
=============================================================================
