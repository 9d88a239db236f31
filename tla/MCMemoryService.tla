--------------------------- MODULE MCMemoryService ---------------------------
(* A small instance of MemoryService: which requests arrive, and how many. *)
EXTENDS MemoryService, TLC

\* The caller's own scenario to be, and one that exists only if a search found it.
AnyName == {<<"BASE", 1>>, <<"ALT", 1>>}

MemoryQuota ==
  [create |-> 1, validate |-> 1, run |-> 1, alternative |-> 2, decide |-> 1, explain |-> 1,
   delete |-> 2, crash |-> 1]

\* Workers and orders are model values that nothing tells apart.
Alike == Permutations(Workers) \cup Permutations(Orders)
=============================================================================
