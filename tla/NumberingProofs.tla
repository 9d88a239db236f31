--------------------------- MODULE NumberingProofs ---------------------------
(* An id is never taken twice, for every page size, pad limit and number of *)
(* requests, restarts and failed scans.                                     *)
EXTENDS Numbering, FiniteSetTheorems, TLAPS

\* The page holds the largest number of a kind whenever the table is
\* scannable: padded numbers sort as text in their own order, and rows that
\* fit the page are all on it (_highest_sequence).
LEMMA PageKeepsLargest ==
  ASSUME TypeOK, IsFiniteSet(table), NEW kind \in Kinds, Scannable(kind),
         NEW a \in Of(kind, table), \A b \in Of(kind, table) : b[2] <= a[2]
  PROVE  a \in PageOf(kind)
<1> DEFINE rows == Of(kind, table)
           above == {b \in rows : TextAbove(b, a)}
<1>1. /\ IsFiniteSet(rows) /\ rows \subseteq Ids /\ a \in rows
      /\ \A b \in rows : b[1] = kind /\ b[2] \in Nat
  <2>1. rows \subseteq table
    BY DEF Of
  <2>2. IsFiniteSet(rows)
    BY <2>1, FS_Subset
  <2> QED BY <2>1, <2>2 DEF TypeOK, Of, Ids
<1>2. IsFiniteSet(above) /\ Cardinality(above) \in Nat
  BY <1>1, FS_Subset, FS_CardinalityType
<1>3. PageSize \in Nat /\ PageSize > 0
  BY ConstantsAssumption
<1>4. Cardinality(above) < PageSize
  <2>1. CASE \A b \in rows : b[2] < PadLimit
    <3>1. above = {}
      BY <1>1, <2>1 DEF TextAbove, Stem, Kinds
    <3> QED BY <3>1, <1>3, FS_EmptySet
  <2>2. CASE Cardinality(rows) <= PageSize
    <3>1. a \notin above
      <4>1. Stem(a[2]) \in Int
        BY <1>1, ConstantsAssumption DEF Stem
      <4>2. ~ (Stem(a[2]) > Stem(a[2])) /\ ~ (a[2] > a[2])
        BY <4>1, <1>1
      <4>3. ~ (a[1] = "ALT" /\ a[1] = "BASE")
        OBVIOUS
      <4> QED BY <4>2, <4>3 DEF TextAbove
    <3>2. above \subseteq rows \ {a}
      BY <3>1
    <3>3. Cardinality(rows \ {a}) = Cardinality(rows) - 1 /\ IsFiniteSet(rows \ {a})
      BY <1>1, FS_RemoveElement
    <3>4. Cardinality(above) <= Cardinality(rows \ {a})
      BY <3>2, <3>3, FS_Subset
    <3>5. Cardinality(rows) \in Nat
      BY <1>1, FS_CardinalityType
    <3> QED BY <2>2, <3>3, <3>4, <3>5, <1>2, <1>3
  <2> QED BY <2>1, <2>2 DEF Scannable
<1> QED BY <1>1, <1>4 DEF PageOf, Page

\* A finite set of ids that is not empty has one with the largest number.
LEMMA LargestExists ==
  ASSUME NEW rows, IsFiniteSet(rows), rows # {}, \A b \in rows : b[2] \in Nat
  PROVE  \E a \in rows : \A b \in rows : b[2] <= a[2]
<1> DEFINE Larger(a) == {b \in rows : b[2] > a[2]}
           larger == {Larger(a) : a \in rows}
<1>1. IsWellFoundedOn(StrictSubsetOrdering(rows), FiniteSubsetsOf(rows))
  BY FS_StrictSubsetOrderingWellFounded
<1>2. larger \subseteq FiniteSubsetsOf(rows) /\ larger # {}
  <2>1. ASSUME NEW a \in rows
        PROVE  Larger(a) \in FiniteSubsetsOf(rows)
    <3>1. Larger(a) \subseteq rows
      OBVIOUS
    <3>2. IsFiniteSet(Larger(a))
      BY <3>1, FS_Subset
    <3> QED BY <3>1, <3>2 DEF FiniteSubsetsOf
  <2> QED BY <2>1
<1>3. PICK least \in larger : \A U \in larger : <<U, least>> \notin StrictSubsetOrdering(rows)
  BY <1>1, <1>2, WFMin, Zenon
<1>4. PICK a \in rows : least = Larger(a)
  BY <1>3
<1>5. ASSUME NEW b \in rows, ~ (b[2] <= a[2])
      PROVE  FALSE
  <2>1. Larger(b) \subseteq Larger(a) /\ b \in Larger(a) /\ b \notin Larger(b)
    BY <1>5
  <2>2. <<Larger(b), Larger(a)>> \in StrictSubsetOrdering(rows)
    BY <2>1 DEF StrictSubsetOrdering
  <2> QED BY <2>2, <1>3, <1>4
<1> QED BY <1>5

\* What a scan returns bounds every stored number of the kind.
LEMMA LastBoundsTable ==
  ASSUME TypeOK, IsFiniteSet(table), NEW kind \in Kinds, Scannable(kind),
         NEW last \in Last(kind)
  PROVE  last \in Nat /\ \A id \in Of(kind, table) : id[2] <= last
<1> DEFINE rows == Of(kind, table)
<1>1. IsFiniteSet(rows) /\ \A id \in rows : id[2] \in Nat
  BY FS_Subset DEF Of, TypeOK, Ids
<1>2. CASE rows = {}
  BY <1>2 DEF Last, PageOf, Page
<1>3. CASE rows # {}
  <2>1. PICK a \in rows : \A b \in rows : b[2] <= a[2]
    BY <1>1, <1>3, LargestExists
  <2>2. a \in PageOf(kind)
    BY <2>1, PageKeepsLargest
  <2>3. PageOf(kind) \subseteq rows
    BY DEF PageOf, Page
  <2>4. \E b \in PageOf(kind) : last = b[2] /\ \A c \in PageOf(kind) : c[2] <= b[2]
    BY <2>2 DEF Last
  <2> QED BY <1>1, <2>1, <2>2, <2>3, <2>4
<1> QED BY <1>2, <1>3

-----------------------------------------------------------------------------

\* Counters and ids in hand together: neither invariant is inductive alone,
\* and a scan bounds the table only because the table is finite.
IInv == TypeOK /\ IsFiniteSet(table) /\ CounterLeads /\ HeldIsFree

\* Taking the number after one that bounds its kind keeps the invariant.
LEMMA TakePreserves ==
  ASSUME IInv, NEW q \in Requests, NEW kind \in Kinds, NEW last \in Nat,
         Take(q, kind, last), misread \subseteq misread', misread' \subseteq Kinds,
         failures' \in Nat,
         kind \notin misread' => \A id \in Of(kind, table \cup HeldIds) : id[2] <= last
  PROVE  IInv'
<1> DEFINE id == <<kind, last + 1>>
<1>1. TypeOK' /\ IsFiniteSet(table)'
  BY ConstantsAssumption DEF IInv, TypeOK, Take, Ids
<1>2. /\ table' = table /\ held' = [held EXCEPT ![q] = id]
      /\ held[q] = Nothing /\ id # Nothing
      /\ counter' = [counter EXCEPT ![kind] = last + 1]
      /\ held \in [Requests -> Ids \cup {Nothing}]
      /\ counter \in [Kinds -> Nat \cup {Unread}]
      /\ table \subseteq Ids
  BY ConstantsAssumption DEF IInv, TypeOK, Take, Ids
<1>3. HeldIds' = HeldIds \cup {id}
  BY <1>2 DEF HeldIds
<1>4. HeldIds \subseteq Ids
  BY <1>2 DEF HeldIds
<1>5. CounterLeads'
  <2> SUFFICES ASSUME NEW k \in Kinds, k \notin misread'
               PROVE  IF counter'[k] = Unread
                      THEN Of(k, HeldIds') = {}
                      ELSE \A i \in Of(k, table' \cup HeldIds') : i[2] <= counter'[k]
    BY DEF CounterLeads, Of
  <2>1. k \notin misread
    OBVIOUS
  <2>2. CASE k = kind
    <3>1. counter'[k] = last + 1 /\ counter'[k] # Unread
      BY <1>2, <2>2 DEF Unread
    <3>2. ASSUME NEW i \in Of(k, table' \cup HeldIds')
          PROVE  i[2] <= last + 1
      <4>1. i = id \/ i \in Of(kind, table \cup HeldIds)
        BY <1>2, <1>3, <2>2, <3>2 DEF Of
      <4>2. CASE i = id
        BY <4>2
      <4>3. CASE i \in Of(kind, table \cup HeldIds)
        <5>1. i[2] <= last /\ i[2] \in Nat
          BY <4>3, <2>2, <1>2, <1>4 DEF Of, Ids
        <5> QED BY <5>1
      <4> QED BY <4>1, <4>2, <4>3
    <3> QED BY <3>1, <3>2
  <2>3. CASE k # kind
    <3>1. counter'[k] = counter[k]
      BY <1>2, <2>3
    <3>2. Of(k, HeldIds') = Of(k, HeldIds)
      BY <1>3, <2>3 DEF Of
    <3>3. Of(k, table' \cup HeldIds') = Of(k, table \cup HeldIds)
      BY <1>2, <1>3, <2>3 DEF Of
    <3> QED BY <2>1, <3>1, <3>2, <3>3 DEF IInv, CounterLeads
  <2> QED BY <2>2, <2>3
<1>6. HeldIsFree'
  <2> SUFFICES ASSUME NEW p \in Requests, held'[p] # Nothing, held'[p][1] \notin misread'
               PROVE  /\ held'[p] \notin table'
                      /\ \A other \in Requests \ {p} : held'[other] # held'[p]
    BY DEF HeldIsFree
  <2>1. kind \notin misread' => id \notin table /\ id \notin HeldIds
    BY DEF Of
  <2>2. CASE p = q
    <3>1. held'[p] = id /\ kind \notin misread'
      BY <1>2, <2>2
    <3>2. \A other \in Requests \ {p} : held'[other] = held[other]
      BY <1>2, <2>2
    <3>3. \A other \in Requests : held[other] # id
      BY <1>2, <2>1, <3>1 DEF HeldIds
    <3> QED BY <1>2, <2>1, <3>1, <3>2, <3>3
  <2>3. CASE p # q
    <3>1. held'[p] = held[p] /\ held'[q] = id
      BY <1>2, <2>3
    <3>2. held[p] \notin table /\ \A other \in Requests \ {p} : held[other] # held[p]
      BY <3>1 DEF IInv, HeldIsFree
    <3>3. held[p] # id
      <4>1. SUFFICES ASSUME held[p] = id PROVE FALSE
        OBVIOUS
      <4>2. kind \notin misread' /\ id \in HeldIds
        BY <4>1, <3>1, <1>2 DEF HeldIds
      <4> QED BY <4>2, <2>1
    <3>4. \A other \in Requests \ {p} : held'[other] # held'[p]
      BY <1>2, <3>1, <3>2, <3>3
    <3> QED BY <1>2, <3>1, <3>2, <3>4
  <2> QED BY <2>2, <2>3
<1> QED BY <1>1, <1>5, <1>6 DEF IInv

LEMMA InitEstablishes == Init => IInv
<1> SUFFICES ASSUME Init PROVE IInv
  OBVIOUS
<1>1. TypeOK
  BY ConstantsAssumption DEF Init, TypeOK, Ids, Unread
<1>2. HeldIds = {}
  BY DEF Init, HeldIds
<1> QED BY <1>1, <1>2, FS_EmptySet DEF Init, IInv, CounterLeads, HeldIsFree, Of, Unread

LEMMA StepPreserves == IInv /\ [Next]_vars => IInv'
<1> SUFFICES ASSUME IInv, [Next]_vars PROVE IInv'
  OBVIOUS
<1> USE DEF IInv
<1>1. ASSUME NEW q \in Requests, TakeFirst(q)
      PROVE  IInv'
  <2>1. PICK kind \in Kinds :
          /\ counter[kind] = Unread
          /\ \E last \in Last(kind) : Take(q, kind, last)
          /\ misread' = IF Scannable(kind) THEN misread ELSE misread \cup {kind}
          /\ UNCHANGED failures
    BY <1>1 DEF TakeFirst
  <2>2. PICK last \in Last(kind) : Take(q, kind, last)
    BY <2>1
  <2>3. last \in Nat
    <3>1. PageOf(kind) \subseteq table
      BY DEF PageOf, Page, Of
    <3> QED BY <3>1 DEF Last, TypeOK, Ids
  <2>4. misread \subseteq misread' /\ misread' \subseteq Kinds /\ failures' \in Nat
    BY <2>1 DEF TypeOK
  <2>5. ASSUME kind \notin misread'
        PROVE  \A id \in Of(kind, table \cup HeldIds) : id[2] <= last
    <3>1. Scannable(kind) /\ kind \notin misread
      BY <2>1, <2>5
    <3>2. Of(kind, HeldIds) = {}
      BY <2>1, <3>1 DEF CounterLeads
    <3>3. \A id \in Of(kind, table) : id[2] <= last
      BY <3>1, LastBoundsTable
    <3> QED BY <3>2, <3>3 DEF Of
  <2> QED BY <2>2, <2>3, <2>4, <2>5, TakePreserves
<1>2. ASSUME NEW q \in Requests, TakeAfterFailedScan(q)
      PROVE  IInv'
  <2>1. PICK kind \in Kinds :
          /\ failures > 0 /\ failures' = failures - 1
          /\ Take(q, kind, 0)
          /\ misread' = misread \cup {kind}
    BY <1>2 DEF TakeAfterFailedScan
  <2>2. misread \subseteq misread' /\ misread' \subseteq Kinds /\ failures' \in Nat
        /\ kind \in misread' /\ 0 \in Nat
    BY <2>1 DEF TypeOK
  <2> QED BY <2>1, <2>2, TakePreserves
<1>3. ASSUME NEW q \in Requests, TakeNext(q)
      PROVE  IInv'
  <2>1. PICK kind \in Kinds :
          /\ counter[kind] # Unread
          /\ Take(q, kind, counter[kind])
          /\ UNCHANGED <<misread, failures>>
    BY <1>3 DEF TakeNext
  <2>2. counter[kind] \in Nat /\ misread' \subseteq Kinds /\ failures' \in Nat
    BY <2>1 DEF TypeOK
  <2>3. kind \notin misread' => \A id \in Of(kind, table \cup HeldIds) : id[2] <= counter[kind]
    BY <2>1 DEF CounterLeads
  <2> QED BY <2>1, <2>2, <2>3, TakePreserves
<1>4. ASSUME NEW q \in Requests, Save(q)
      PROVE  IInv'
  <2>1. /\ held[q] \in Ids /\ table' = table \cup {held[q]}
        /\ held' = [held EXCEPT ![q] = Nothing]
        /\ UNCHANGED <<counter, misread, crashes, failures>>
    BY <1>4 DEF Save, TypeOK
  <2>2. TypeOK' /\ IsFiniteSet(table)'
    BY <2>1, FS_AddElement DEF TypeOK
  <2>3. HeldIds' \subseteq HeldIds /\ table' \cup HeldIds' \subseteq table \cup HeldIds
    BY <2>1, <1>4 DEF HeldIds, TypeOK, Save
  <2>4. CounterLeads'
    BY <2>1, <2>3 DEF CounterLeads, Of
  <2>5. HeldIsFree'
    BY <2>1, ConstantsAssumption DEF HeldIsFree, TypeOK
  <2> QED BY <2>2, <2>4, <2>5
<1>5. ASSUME NEW q \in Requests, Abandon(q)
      PROVE  IInv'
  <2>1. /\ held' = [held EXCEPT ![q] = Nothing]
        /\ UNCHANGED <<table, counter, misread, crashes, failures>>
    BY <1>5 DEF Abandon
  <2>2. TypeOK'
    BY <2>1 DEF TypeOK
  <2>3. HeldIds' \subseteq HeldIds
    BY <2>1 DEF HeldIds, TypeOK
  <2>4. CounterLeads'
    BY <2>1, <2>3 DEF CounterLeads, Of
  <2>5. HeldIsFree'
    BY <2>1 DEF HeldIsFree, TypeOK
  <2> QED BY <2>1, <2>2, <2>4, <2>5
<1>6. ASSUME Delete
      PROVE  IInv'
  <2>1. /\ table' \subseteq table
        /\ UNCHANGED <<counter, held, misread, crashes, failures>>
    BY <1>6 DEF Delete
  <2>2. TypeOK' /\ IsFiniteSet(table)'
    BY <2>1, FS_Subset DEF TypeOK
  <2>3. HeldIds' = HeldIds
    BY <2>1 DEF HeldIds
  <2>4. CounterLeads'
    BY <2>1, <2>3 DEF CounterLeads, Of
  <2>5. HeldIsFree'
    BY <2>1 DEF HeldIsFree
  <2> QED BY <2>2, <2>4, <2>5
<1>7. ASSUME Restart
      PROVE  IInv'
  <2>1. TypeOK' /\ IsFiniteSet(table)'
    BY <1>7 DEF Restart, TypeOK
  <2>2. HeldIds' = {}
    BY <1>7 DEF Restart, HeldIds
  <2>3. CounterLeads' /\ HeldIsFree'
    BY <1>7, <2>2 DEF Restart, CounterLeads, HeldIsFree, Of
  <2> QED BY <2>1, <2>3
<1>8. CASE UNCHANGED vars
  <2>1. HeldIds' = HeldIds
    BY <1>8 DEF vars, HeldIds
  <2> QED BY <1>8, <2>1 DEF vars, TypeOK, CounterLeads, HeldIsFree, Of
<1> QED BY <1>1, <1>2, <1>3, <1>4, <1>5, <1>6, <1>7, <1>8 DEF Next

\* A counter that was read never falls behind the numbers stored and in hand,
\* through restarts, deletions and requests that give their number up, unless
\* a scan of its kind failed or outgrew the page (storage.py:363-370).
THEOREM CountersLead == Spec => []CounterLeads
<1>1. IInv => CounterLeads
  BY DEF IInv
<1> QED BY InitEstablishes, StepPreserves, <1>1, PTL DEF Spec

\* An id in hand is neither stored nor in another request's hand, so the
\* upsert that saves it overwrites no row (storage.py:510-541).
THEOREM NumbersAreFree == Spec => []HeldIsFree
<1>1. IInv => HeldIsFree
  BY DEF IInv
<1> QED BY InitEstablishes, StepPreserves, <1>1, PTL DEF Spec

\* Type correctness of the numbering: every number in hand, stored or on a
\* counter is one the code can produce.
THEOREM TypesHold == Spec => []TypeOK
<1>1. IInv => TypeOK
  BY DEF IInv
<1> QED BY InitEstablishes, StepPreserves, <1>1, PTL DEF Spec
=============================================================================
