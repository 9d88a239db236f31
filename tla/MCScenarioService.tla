-------------------------- MODULE MCScenarioService --------------------------
(* Small instances of ScenarioService: which requests arrive, and how many. *)
EXTENDS ScenarioService

Requests(some) == [kind \in Kinds |-> IF kind \in DOMAIN some THEN some[kind] ELSE 0]

\* What a caller calls the parent of a new scenario: the one there is at the
\* start, the very id it will get, and one that exists only if a search found it.
AnyName == {<<"BASE", 1>>, <<"BASE", 2>>, <<"ALT", 1>>}

NoName == {}

\* A scenario from its creation to an accepted run, with a crash and a failure anywhere.
LifecycleQuota ==
  Requests([create |-> 1, validate |-> 2, run |-> 2, decide |-> 1, crash |-> 1,
            failure |-> 1])

\* Two searches at once on one run, with a crash and a failure anywhere.
SearchQuota == Requests([alternative |-> 2, crash |-> 1, failure |-> 1])

\* A deletion while other requests work on the scenario.
DeleteQuota == Requests([alternative |-> 2, decide |-> 1, delete |-> 1])

\* One client that does one thing after another, with a failure anywhere.
SequentialQuota ==
  Requests([create |-> 1, validate |-> 1, run |-> 1, alternative |-> 1, decide |-> 1,
            explain |-> 1, delete |-> 2, failure |-> 1])

\* Reading explanations between searches.
ReadingQuota == Requests([alternative |-> 2, explain |-> 2])
=============================================================================
