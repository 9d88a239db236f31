---------------------------- MODULE MCStagedSolve ----------------------------
(***************************************************************************)
(* Small inputs for StagedSolve.                                           *)
(*                                                                         *)
(* GateSnaps: one order that exactly meets every limit of two services, or *)
(* of one, with every combination of up to two departures from it, so that *)
(* each comparison is exercised on both sides of its boundary.             *)
(* ContestSnaps: three orders that compete for three slots, one departure  *)
(* from a base case at a time: weights that do or do not share a wagon,    *)
(* priorities and due times that break or leave ties, a service listed     *)
(* twice.                                                                  *)
(* SolveSearches: alternative searches on one contest, every way a request *)
(* can begin and end.                                                      *)
(***************************************************************************)
EXTENDS StagedSolve, TLC

Cube(n) == [height |-> n, width |-> n, length |-> n]

Faults == {"null_weight", "ready_late", "due_early", "origin", "destination", "tags",
           "tall", "wide", "long", "heavy", "service_off", "wagon_off", "slot_off",
           "terminal_tags", "slot_tags", "route_low", "route_narrow", "route_light",
           "slot_light", "wagon_light", "slow_handling"}

FaultSets == {{a, b} : a, b \in Faults} \cup {{}}

GateSnap(f, baseline) ==
  LET If(fault, bad, good) == IF fault \in f THEN bad ELSE good
  IN [baseline  |-> baseline,
      scores    |-> [P1 |-> 3, P2 |-> 2, P3 |-> 1],
      allowed   |-> {},
      forbidden |-> {},
      terminals |-> [A |-> [tags |-> {"std", "reefer"}, handling |-> 1],
                     B |-> [tags |-> If("terminal_tags", {}, {"std"}),
                            handling |-> If("slow_handling", 2, 1)],
                     C |-> [tags |-> {"std"}, handling |-> 1]],
      routes    |-> [r |-> [height |-> If("route_low", 1, 2), width |-> If("route_narrow", 1, 2),
                            weight |-> If("route_light", 1, 2)]],
      services  |-> [s1 |-> [available |-> "service_off" \notin f, origin |-> "A",
                             destination |-> "B", cutoff |-> 3, arrival |-> 5, route |-> "r"],
                     s2 |-> [available |-> TRUE, origin |-> "A",
                             destination |-> "C", cutoff |-> 2, arrival |-> 4, route |-> "r"]],
      wagons    |-> [w1 |-> [service |-> "s1", available |-> "wagon_off" \notin f,
                             capacity |-> If("wagon_light", 1, 2)],
                     w2 |-> [service |-> "s2", available |-> TRUE, capacity |-> 3]],
      slots     |-> (1 :> [wagon |-> "w1", available |-> "slot_off" \notin f,
                           tags |-> If("slot_tags", {}, {"std"}), dims |-> Cube(2),
                           weight |-> If("slot_light", 1, 2)] @@
                     2 :> [wagon |-> "w2", available |-> TRUE,
                           tags |-> {"std", "reefer"}, dims |-> Cube(3), weight |-> 3]),
      orders    |-> (1 :> [origins |-> If("origin", {"C"}, {"A"}),
                           destinations |-> If("destination", {"C"}, {"B"}),
                           ready |-> If("ready_late", 6, 3), due |-> If("due_early", 5, 6),
                           weight |-> If("null_weight", NullWeight, If("heavy", 3, 2)),
                           dims |-> [height |-> If("tall", 3, 2), width |-> If("wide", 3, 2),
                                     length |-> If("long", 3, 2)],
                           tags |-> If("tags", {"std", "reefer"}, {"std"}),
                           priority |-> "P1",
                           window |-> [services |-> {}, terminals |-> << >>]])]

GateSnaps == {GateSnap(f, baseline) : f \in FaultSets, baseline \in {<<"s1">>, <<"s1", "s2">>}}

\* Three orders A -> B on one service; slots 1 and 2 share a wagon, slot 3 has
\* its own, and slot 4 travels on a second service.
ContestSnap(weights, priorities, dues, capacity) ==
  LET train == [available |-> TRUE, origin |-> "A", destination |-> "B", cutoff |-> 3,
                arrival |-> 5, route |-> "r"]
      Cargo(o) == [origins |-> {"A"}, destinations |-> {"B"}, ready |-> 0, due |-> dues[o],
                   weight |-> weights[o], dims |-> Cube(1), tags |-> {},
                   priority |-> priorities[o], window |-> [services |-> {}, terminals |-> << >>]]
  IN [baseline  |-> <<"s1">>,
      scores    |-> [P1 |-> 3, P2 |-> 2, P3 |-> 1],
      allowed   |-> {AddService, ChangeTerminal},
      forbidden |-> {"CHANGE_DUE_AT"},
      terminals |-> [t \in {"A", "B", "C"} |-> [tags |-> {}, handling |-> 0]],
      routes    |-> [r |-> [height |-> 9, width |-> 9, weight |-> 9]],
      services  |-> [s1 |-> train, s2 |-> train],
      wagons    |-> [w1 |-> [service |-> "s1", available |-> TRUE, capacity |-> capacity],
                     w2 |-> [service |-> "s1", available |-> TRUE, capacity |-> 9],
                     w3 |-> [service |-> "s2", available |-> TRUE, capacity |-> 9]],
      slots     |-> [l \in 1 .. 4 |->
                       [wagon |-> CASE l = 4 -> "w3" [] l = 3 -> "w2" [] OTHER -> "w1",
                        available |-> TRUE, tags |-> {}, dims |-> Cube(9),
                        weight |-> IF l = 3 THEN 1 ELSE 9]],
      orders    |-> <<Cargo(1), Cargo(2), Cargo(3)>>]

ContestSnaps ==
  {ContestSnap(weights, <<"P1", "P1", "P1">>, <<9, 9, 9>>, 3) :
     weights \in {<<1, 1, 2>>, <<2, 2, 2>>, <<2, 1, 3>>}} \cup
  {ContestSnap(<<2, 2, 2>>, priorities, dues, 3) :
     priorities \in {<<"P2", "P1", "P1">>, <<"P2", "P2", "P1">>},
     dues \in {<<9, 9, 9>>, <<9, 8, 9>>, <<7, 9, 8>>}} \cup
  {ContestSnap(<<2, 2, 1>>, <<"P1", "P2", "P1">>, <<9, 9, 7>>, 4)} \cup
  {[ContestSnap(<<2, 2, 2>>, <<"P1", "P1", "P2">>, <<9, 9, 9>>, 3) EXCEPT !.baseline = services] :
     services \in {<<"s1", "s1">>, <<"s1", "s1", "s2">>}}

\* A window that approves service s2 and lists destinations for order 2;
\* s2 runs to the given terminal.
SearchSnap(terminals, runsTo) ==
  LET snap == ContestSnap(<<2, 2, 2>>, <<"P1", "P2", "P1">>, <<9, 9, 8>>, 3)
      window == [services |-> {"s2"}, terminals |-> terminals]
  IN [snap EXCEPT !.services["s2"].destination = runsTo, !.orders[2].window = window]

\* The plan of the optimal run of each of these: the earliest due order.
Before == {[order |-> 3, service |-> "s1", wagon |-> "w1", slot |-> 1]}

\* Searches from the optimal run and, once, from a run cut short before it
\* placed anything.
SolveSearches ==
  LET toB == SearchSnap(<< >>, "B")
      toC == SearchSnap(<<"C">>, "C")
      two == SearchSnap(<<"B", "C">>, "C")
      twice == SearchSnap(<<"C", "C">>, "C")
      Search(snap, o, requested, before) ==
        [snap |-> snap, order |-> o, requested |-> requested, before |-> before]
  IN {Search(toB, 2, {AddService}, Before), Search(toB, 2, {AddService}, {}),
      Search(toC, 2, {AddService, ChangeTerminal}, Before),
      Search(toC, 2, {ChangeTerminal}, Before),
      Search(two, 2, {ChangeTerminal}, Before),
      Search(twice, 2, {AddService, ChangeTerminal}, Before),
      Search(toB, 1, {AddService}, Before),
      Search(toB, 2, {AddService, "CHANGE_DUE_AT"}, Before)}

SolveSnaps == GateSnaps \cup ContestSnaps

NoSnaps == {}
=============================================================================
