------------------------------ MODULE SetLemmas ------------------------------
(* Facts about finite sets of numbers and sums over them that the proofs of *)
(* several components need.                                                 *)
EXTENDS Integers, FiniteSets, Functions, FiniteSetTheorems, TLAPS

\* A finite set of numbers that is not empty has a largest one.
LEMMA MaximumExists ==
  ASSUME NEW S, IsFiniteSet(S), S # {}, S \subseteq Int
  PROVE  \E n \in S : \A m \in S : m <= n
<1> DEFINE Above(n) == {m \in S : m > n}
           sets == {Above(n) : n \in S}
<1>1. IsWellFoundedOn(StrictSubsetOrdering(S), FiniteSubsetsOf(S))
  BY FS_StrictSubsetOrderingWellFounded
<1>2. sets \subseteq FiniteSubsetsOf(S) /\ sets # {}
  <2>1. ASSUME NEW n \in S
        PROVE  Above(n) \in FiniteSubsetsOf(S)
    <3>1. Above(n) \subseteq S
      OBVIOUS
    <3> QED BY <3>1, FS_Subset DEF FiniteSubsetsOf
  <2> QED BY <2>1
<1>3. PICK least \in sets : \A U \in sets : <<U, least>> \notin StrictSubsetOrdering(S)
  BY <1>1, <1>2, WFMin, Zenon
<1>4. PICK n \in S : least = Above(n)
  BY <1>3
<1>5. ASSUME NEW m \in S, ~ (m <= n)
      PROVE  FALSE
  <2>0. m \in Int /\ n \in Int /\ m > n /\ \A k \in S : k \in Int
    BY <1>5
  <2>1. Above(m) \subseteq Above(n) /\ m \in Above(n) /\ m \notin Above(m)
    <3>1. ASSUME NEW k \in Above(m)
          PROVE  k \in Above(n)
      <4>1. k \in S /\ k > m /\ k \in Int
        BY <2>0
      <4>2. k > n
        BY <4>1, <2>0
      <4> QED BY <4>1, <4>2
    <3>2. m \in Above(n) /\ ~ (m > m)
      BY <2>0
    <3> QED BY <3>1, <3>2
  <2>2. <<Above(m), Above(n)>> \in StrictSubsetOrdering(S)
    BY <2>1 DEF StrictSubsetOrdering
  <2> QED BY <2>2, <1>3, <1>4
<1> QED BY <1>5

-----------------------------------------------------------------------------

\* A set of finite sets that is not empty has a member with no smaller one.
LEMMA SmallestExists ==
  ASSUME NEW S, IsFiniteSet(S), NEW sets \in SUBSET SUBSET S, sets # {}
  PROVE  \E least \in sets : \A U \in sets : U \subseteq least => U = least
<1>1. IsWellFoundedOn(StrictSubsetOrdering(S), FiniteSubsetsOf(S))
  BY FS_StrictSubsetOrderingWellFounded
<1>2. sets \subseteq FiniteSubsetsOf(S)
  BY FS_Subset DEF FiniteSubsetsOf
<1>3. PICK least \in sets : \A U \in sets : <<U, least>> \notin StrictSubsetOrdering(S)
  BY <1>1, <1>2, WFMin, Zenon
<1> QED BY <1>3 DEF StrictSubsetOrdering

(***************************************************************************)
(* Sums.  The community modules define a sum through the function of the   *)
(* partial sums over all subsets, each obtained from a smaller one; that   *)
(* this function exists is proved here, and with it the sum's unrolling.   *)
(***************************************************************************)
Member(s) == CHOOSE x \in s : TRUE

IsPartialSums(h, f, T) ==
  h = [s \in SUBSET T |-> IF s = {} THEN 0 ELSE f[Member(s)] + h[s \ {Member(s)}]]

PartialSums(f, T) == CHOOSE h : IsPartialSums(h, f, T)

LEMMA SumIsPartial ==
  ASSUME NEW f, NEW T
  PROVE  SumFunctionOnSet(f, T) = PartialSums(f, T)[T]
BY DEF SumFunctionOnSet, FoldFunctionOnSet, MapThenFoldSet, IsPartialSums, PartialSums, Member

LEMMA MemberIsIn ==
  ASSUME NEW s, s # {}
  PROVE  Member(s) \in s
BY DEF Member

LEMMA PartialSumsAt ==
  ASSUME NEW f, NEW T, NEW h, IsPartialSums(h, f, T), NEW s \in SUBSET T
  PROVE  h[s] = IF s = {} THEN 0 ELSE f[Member(s)] + h[s \ {Member(s)}]
<1> DEFINE e(u) == IF u = {} THEN 0 ELSE f[Member(u)] + h[u \ {Member(u)}]
<1>1. h = [u \in SUBSET T |-> e(u)]
  BY DEF IsPartialSums
<1> HIDE DEF e
<1>2. h[s] = e(s)
  BY <1>1
<1> QED BY <1>2 DEF e

\* Partial sums over a set and over a subset of it agree.
LEMMA PartialSumsAgree ==
  ASSUME NEW f, NEW T, NEW U, IsFiniteSet(U), U \subseteq T,
         NEW g, IsPartialSums(g, f, T), NEW h, IsPartialSums(h, f, U)
  PROVE  \A s \in SUBSET U : g[s] = h[s]
<1> DEFINE differing == {s \in SUBSET U : g[s] # h[s]}
<1>1. SUFFICES ASSUME differing # {} PROVE FALSE
  OBVIOUS
<1>2. PICK s \in differing : \A u \in differing : u \subseteq s => u = s
  <2>1. differing \in SUBSET SUBSET U
    OBVIOUS
  <2> HIDE DEF differing
  <2> QED BY <1>1, <2>1, SmallestExists
<1>3. s \in SUBSET U /\ s \in SUBSET T /\ g[s] # h[s]
  BY <1>2
<1>4. s # {}
  <2>1. ASSUME s = {} PROVE g[s] = 0 /\ h[s] = 0
    BY <1>3, <2>1, PartialSumsAt
  <2> QED BY <1>3, <2>1
<1>5. Member(s) \in s
  BY <1>4, MemberIsIn
<1>6. g[s] = f[Member(s)] + g[s \ {Member(s)}] /\ h[s] = f[Member(s)] + h[s \ {Member(s)}]
  BY <1>3, <1>4, PartialSumsAt
<1>7. s \ {Member(s)} \notin differing
  BY <1>2, <1>5
<1>8. g[s \ {Member(s)}] = h[s \ {Member(s)}]
  BY <1>3, <1>7
<1> QED BY <1>3, <1>6, <1>8

LEMMA PartialSumsExist ==
  ASSUME NEW f, NEW S, IsFiniteSet(S)
  PROVE  IsPartialSums(PartialSums(f, S), f, S)
<1> DEFINE Has(T) == \E h : IsPartialSums(h, f, T)
           without == {T \in SUBSET S : ~Has(T)}
<1>1. SUFFICES ASSUME without # {} PROVE FALSE
  <2>1. CASE Has(S)
    BY <2>1 DEF PartialSums
  <2> QED BY <1>1, <2>1
<1>2. PICK T \in without : \A U \in without : U \subseteq T => U = T
  <2>1. without \in SUBSET SUBSET S
    OBVIOUS
  <2> HIDE DEF without
  <2> QED BY <1>1, <2>1, SmallestExists
<1> DEFINE Part(u) == PartialSums(f, u)
           Rest(s) == s \ {Member(s)}
           sums == [s \in SUBSET T |-> IF s = {} THEN 0 ELSE f[Member(s)] + Part(Rest(s))[Rest(s)]]
<1>3. ASSUME NEW u \in SUBSET T, u # T
      PROVE  IsPartialSums(Part(u), f, u) /\ IsFiniteSet(u)
  <2>1. Has(u)
    BY <1>2, <1>3
  <2>2. IsFiniteSet(u)
    BY <1>2, FS_Subset
  <2> QED BY <2>1, <2>2 DEF PartialSums
<1>4. ASSUME NEW s \in SUBSET T, s # {}
      PROVE  Rest(s) \in SUBSET T /\ Rest(s) # T /\ Rest(s) \subseteq s
  BY <1>4, MemberIsIn
<1>5. ASSUME NEW u \in SUBSET T, u # T
      PROVE  sums[u] = Part(u)[u]
  <2>1. IsPartialSums(Part(u), f, u)
    BY <1>3, <1>5
  <2>2. CASE u = {}
    <3>1. Part(u)[u] = 0
      BY <2>1, <2>2, PartialSumsAt
    <3> QED BY <2>2, <3>1
  <2>3. CASE u # {}
    <3>1. Part(u)[u] = f[Member(u)] + Part(u)[Rest(u)]
      BY <2>1, <2>3, PartialSumsAt
    <3>2. Rest(u) \in SUBSET T /\ Rest(u) # T /\ Rest(u) \subseteq u
      BY <1>4, <2>3
    <3>3. IsPartialSums(Part(Rest(u)), f, Rest(u)) /\ IsFiniteSet(Rest(u))
      BY <1>3, <3>2
    <3>4. Part(u)[Rest(u)] = Part(Rest(u))[Rest(u)]
      <4> HIDE DEF Part, Rest
      <4>1. Rest(u) \in SUBSET Rest(u)
        OBVIOUS
      <4> QED BY <2>1, <3>2, <3>3, <4>1, PartialSumsAgree
    <3>5. sums[u] = f[Member(u)] + Part(Rest(u))[Rest(u)]
      <4> HIDE DEF Part, Rest
      <4> QED BY <2>3
    <3> QED BY <3>1, <3>4, <3>5
  <2> QED BY <2>2, <2>3
<1>6. ASSUME NEW s \in SUBSET T, s # {}
      PROVE  Part(Rest(s))[Rest(s)] = sums[Rest(s)]
  <2>1. Rest(s) \in SUBSET T /\ Rest(s) # T
    BY <1>4, <1>6
  <2> HIDE DEF sums, Part, Rest
  <2> QED BY <1>5, <2>1
<1>7. sums = [s \in SUBSET T |-> IF s = {} THEN 0 ELSE f[Member(s)] + sums[Rest(s)]]
  <2> DEFINE e(s) == IF s = {} THEN 0 ELSE f[Member(s)] + Part(Rest(s))[Rest(s)]
             d(s) == IF s = {} THEN 0 ELSE f[Member(s)] + sums[Rest(s)]
  <2>1. ASSUME NEW s \in SUBSET T
        PROVE  e(s) = d(s)
    <3> HIDE DEF sums, Part, Rest
    <3> QED BY <1>6
  <2>2. sums = [s \in SUBSET T |-> e(s)]
    OBVIOUS
  <2> HIDE DEF sums, e, d
  <2>3. sums = [s \in SUBSET T |-> d(s)]
    BY <2>1, <2>2
  <2> QED BY <2>3 DEF d
<1>8. IsPartialSums(sums, f, T)
  <2> HIDE DEF sums
  <2> QED BY <1>7 DEF IsPartialSums
<1> QED BY <1>2, <1>8

-----------------------------------------------------------------------------

LEMMA SumOfNone ==
  ASSUME NEW f
  PROVE  SumFunctionOnSet(f, {}) = 0
<1>1. IsFiniteSet({})
  BY FS_EmptySet
<1>2. IsPartialSums(PartialSums(f, {}), f, {})
  BY <1>1, PartialSumsExist
<1>3. PartialSums(f, {})[{}] = 0
  BY <1>2, PartialSumsAt
<1> QED BY <1>3, SumIsPartial

\* A sum is one of its terms and the sum of the others.
LEMMA SumUnrolls ==
  ASSUME NEW f, NEW S, IsFiniteSet(S), S # {}
  PROVE  \E x \in S : SumFunctionOnSet(f, S) = f[x] + SumFunctionOnSet(f, S \ {x})
<1> DEFINE x == Member(S)
           R == S \ {x}
<1>1. x \in S /\ R \subseteq S /\ IsFiniteSet(R)
  BY MemberIsIn, FS_Subset
<1>2. IsPartialSums(PartialSums(f, S), f, S) /\ IsPartialSums(PartialSums(f, R), f, R)
  BY <1>1, PartialSumsExist
<1>3. PartialSums(f, S)[S] = f[x] + PartialSums(f, S)[R]
  BY <1>2, PartialSumsAt
<1>4. PartialSums(f, S)[R] = PartialSums(f, R)[R]
  <2> HIDE DEF R
  <2>1. R \in SUBSET R
    OBVIOUS
  <2> QED BY <1>1, <1>2, <2>1, PartialSumsAgree
<1>5. SumFunctionOnSet(f, S) = f[x] + SumFunctionOnSet(f, R)
  BY <1>3, <1>4, SumIsPartial
<1> QED BY <1>1, <1>5

LEMMA SumIsInteger ==
  ASSUME NEW S, IsFiniteSet(S), NEW f, \A x \in S : f[x] \in Int
  PROVE  SumFunctionOnSet(f, S) \in Int
<1> DEFINE others == {T \in SUBSET S : SumFunctionOnSet(f, T) \notin Int}
<1>1. SUFFICES ASSUME others # {} PROVE FALSE
  OBVIOUS
<1>2. PICK T \in others : \A U \in others : U \subseteq T => U = T
  <2>1. others \in SUBSET SUBSET S
    OBVIOUS
  <2> HIDE DEF others
  <2> QED BY <1>1, <2>1, SmallestExists
<1>3. T # {} /\ IsFiniteSet(T)
  <2>1. SumFunctionOnSet(f, {}) \in Int
    BY SumOfNone
  <2> QED BY <1>2, <2>1, FS_Subset
<1>4. PICK x \in T : SumFunctionOnSet(f, T) = f[x] + SumFunctionOnSet(f, T \ {x})
  BY <1>3, SumUnrolls
<1>5. SumFunctionOnSet(f, T \ {x}) \in Int
  BY <1>2
<1>6. f[x] \in Int
  BY <1>2
<1> QED BY <1>2, <1>4, <1>5, <1>6

\* Any term of a sum can be taken out.
LEMMA SumTakesOut ==
  ASSUME NEW S, IsFiniteSet(S), NEW f, \A x \in S : f[x] \in Int
  PROVE  \A x \in S : SumFunctionOnSet(f, S) = f[x] + SumFunctionOnSet(f, S \ {x})
<1> DEFINE Out(T) == \A x \in T : SumFunctionOnSet(f, T) = f[x] + SumFunctionOnSet(f, T \ {x})
           others == {T \in SUBSET S : ~Out(T)}
<1>1. SUFFICES ASSUME others # {} PROVE FALSE
  OBVIOUS
<1>2. PICK T \in others : \A U \in others : U \subseteq T => U = T
  <2>1. others \in SUBSET SUBSET S
    OBVIOUS
  <2> HIDE DEF others
  <2> QED BY <1>1, <2>1, SmallestExists
<1>3. PICK x \in T : SumFunctionOnSet(f, T) # f[x] + SumFunctionOnSet(f, T \ {x})
  BY <1>2
<1>4. IsFiniteSet(T) /\ T \subseteq S
  BY <1>2, FS_Subset
<1>5. PICK z \in T : SumFunctionOnSet(f, T) = f[z] + SumFunctionOnSet(f, T \ {z})
  BY <1>4, SumUnrolls
<1> DEFINE U == (T \ {x}) \ {z}
<1>6. x # z
  BY <1>3, <1>5
<1>7. Out(T \ {x}) /\ Out(T \ {z})
  BY <1>2
<1>8. (T \ {z}) \ {x} = U
  OBVIOUS
<1>9. /\ SumFunctionOnSet(f, T \ {z}) = f[x] + SumFunctionOnSet(f, U)
      /\ SumFunctionOnSet(f, T \ {x}) = f[z] + SumFunctionOnSet(f, U)
  <2> HIDE DEF U
  <2>1. x \in T \ {z} /\ z \in T \ {x}
    BY <1>6
  <2>2. (T \ {x}) \ {z} = U
    BY DEF U
  <2> QED BY <1>7, <1>8, <2>1, <2>2
<1>10. SumFunctionOnSet(f, U) \in Int
  <2>1. IsFiniteSet(U) /\ \A u \in U : f[u] \in Int
    BY <1>4, FS_Subset
  <2> HIDE DEF U
  <2> QED BY <2>1, SumIsInteger
<1>11. f[x] \in Int /\ f[z] \in Int
  BY <1>4
<1> HIDE DEF U
<1>12. f[z] + (f[x] + SumFunctionOnSet(f, U)) = f[x] + (f[z] + SumFunctionOnSet(f, U))
  BY <1>10, <1>11
<1> QED BY <1>3, <1>5, <1>9, <1>12

\* No term exceeds a sum of naturals.
LEMMA SumBounds ==
  ASSUME NEW S, IsFiniteSet(S), NEW f, \A x \in S : f[x] \in Nat
  PROVE  /\ SumFunctionOnSet(f, S) \in Nat
         /\ \A x \in S : f[x] <= SumFunctionOnSet(f, S)
<1> DEFINE Natural(T) == SumFunctionOnSet(f, T) \in Nat
           others == {T \in SUBSET S : ~Natural(T)}
<1>1. ASSUME others # {} PROVE FALSE
  <2>1. PICK T \in others : \A U \in others : U \subseteq T => U = T
    <3>1. others \in SUBSET SUBSET S
      OBVIOUS
    <3> HIDE DEF others
    <3> QED BY <1>1, <3>1, SmallestExists
  <2>2. T # {} /\ IsFiniteSet(T)
    <3>1. SumFunctionOnSet(f, {}) \in Nat
      BY SumOfNone
    <3> QED BY <2>1, <3>1, FS_Subset
  <2>3. PICK x \in T : SumFunctionOnSet(f, T) = f[x] + SumFunctionOnSet(f, T \ {x})
    BY <2>2, SumUnrolls
  <2>4. SumFunctionOnSet(f, T \ {x}) \in Nat
    BY <2>1
  <2>5. f[x] \in Nat
    BY <2>1
  <2> QED BY <2>1, <2>3, <2>4, <2>5
<1>2. \A T \in SUBSET S : Natural(T)
  BY <1>1
<1>3. ASSUME NEW x \in S PROVE f[x] <= SumFunctionOnSet(f, S)
  <2>1. SumFunctionOnSet(f, S) = f[x] + SumFunctionOnSet(f, S \ {x})
    <3>1. \A y \in S : f[y] \in Int
      OBVIOUS
    <3> QED BY <3>1, SumTakesOut
  <2>2. SumFunctionOnSet(f, S \ {x}) \in Nat /\ f[x] \in Nat
    BY <1>2
  <2> QED BY <2>1, <2>2
<1> QED BY <1>2, <1>3

\* A sum of naturals that is at most one has at most one term that is not zero.
LEMMA OneTermAtMost ==
  ASSUME NEW S, IsFiniteSet(S), NEW f, \A x \in S : f[x] \in Nat,
         SumFunctionOnSet(f, S) <= 1,
         NEW x \in S, f[x] >= 1, NEW y \in S, f[y] >= 1
  PROVE  x = y /\ f[x] = 1
<1> DEFINE T == S \ {x}
<1>1. SumFunctionOnSet(f, S) = f[x] + SumFunctionOnSet(f, T)
  <2>1. \A z \in S : f[z] \in Int
    OBVIOUS
  <2> QED BY <2>1, SumTakesOut
<1>2. IsFiniteSet(T) /\ \A z \in T : f[z] \in Nat
  BY FS_Subset
<1> HIDE DEF T
<1>3. SumFunctionOnSet(f, T) \in Nat /\ \A z \in T : f[z] <= SumFunctionOnSet(f, T)
  BY <1>2, SumBounds
<1>4. f[x] \in Nat /\ f[y] \in Nat
  OBVIOUS
<1>5. f[x] = 1 /\ SumFunctionOnSet(f, T) = 0
  BY <1>1, <1>3, <1>4
<1>6. y \notin T
  BY <1>3, <1>4, <1>5
<1> QED BY <1>5, <1>6 DEF T

\* The sum of one term is the term.
LEMMA SumOfOne ==
  ASSUME NEW f, NEW x, f[x] \in Int
  PROVE  SumFunctionOnSet(f, {x}) = f[x]
<1>1. IsFiniteSet({x})
  BY FS_Singleton, Zenon
<1>2. PICK y \in {x} : SumFunctionOnSet(f, {x}) = f[y] + SumFunctionOnSet(f, {x} \ {y})
  BY <1>1, SumUnrolls
<1>3. {x} \ {y} = {} /\ y = x
  OBVIOUS
<1> QED BY <1>2, <1>3, SumOfNone

\* Terms of which none is zero add up to their number at least.
LEMMA SumAtLeastCount ==
  ASSUME NEW S, IsFiniteSet(S), NEW f, \A x \in S : f[x] \in Nat /\ f[x] >= 1
  PROVE  SumFunctionOnSet(f, S) >= Cardinality(S)
<1> DEFINE Enough(T) == SumFunctionOnSet(f, T) >= Cardinality(T)
           others == {T \in SUBSET S : ~Enough(T)}
<1>1. SUFFICES ASSUME others # {} PROVE FALSE
  <2>1. S \in SUBSET S
    OBVIOUS
  <2> QED BY <2>1
<1>2. PICK T \in others : \A U \in others : U \subseteq T => U = T
  <2>1. others \in SUBSET SUBSET S
    OBVIOUS
  <2> HIDE DEF others
  <2> QED BY <1>1, <2>1, SmallestExists
<1>3. T # {} /\ IsFiniteSet(T)
  <2>1. Enough({})
    BY SumOfNone, FS_EmptySet
  <2> QED BY <1>2, <2>1, FS_Subset
<1>4. PICK x \in T : SumFunctionOnSet(f, T) = f[x] + SumFunctionOnSet(f, T \ {x})
  BY <1>3, SumUnrolls
<1>5. Enough(T \ {x})
  BY <1>2
<1>6. IsFiniteSet(T \ {x}) /\ Cardinality(T \ {x}) = Cardinality(T) - 1
  BY <1>3, FS_RemoveElement
<1>7. SumFunctionOnSet(f, T \ {x}) \in Int
  <2>1. \A y \in T \ {x} : f[y] \in Int
    BY <1>2
  <2> DEFINE U == T \ {x}
  <2> HIDE DEF U
  <2> QED BY <1>6, <2>1, SumIsInteger DEF U
<1>8. Cardinality(T) \in Nat /\ f[x] \in Nat /\ f[x] >= 1
  BY <1>2, <1>3, FS_CardinalityType
<1>9. Enough(T)
  BY <1>4, <1>5, <1>6, <1>7, <1>8
<1> QED BY <1>2, <1>9

-----------------------------------------------------------------------------
(* Ranks *)

RankIn(S, x) == Cardinality({y \in S : y <= x})

\* The ranks of a finite set of numbers are 1 to its size, one for each member.
LEMMA RankBounds ==
  ASSUME NEW S, IsFiniteSet(S), S \subseteq Int, NEW x \in S
  PROVE  RankIn(S, x) \in 1 .. Cardinality(S)
<1> DEFINE below == {y \in S : y <= x}
<1>1. below \in SUBSET S /\ x \in below
  OBVIOUS
<1> HIDE DEF below
<1>2. /\ Cardinality(S) \in Nat /\ IsFiniteSet(below)
      /\ Cardinality(below) \in Nat /\ Cardinality(below) <= Cardinality(S)
  BY <1>1, FS_Subset, FS_CardinalityType
<1>3. Cardinality(below) # 0
  BY <1>1, <1>2, FS_EmptySet
<1> QED BY <1>2, <1>3 DEF RankIn, below

LEMMA RankInjective ==
  ASSUME NEW S, IsFiniteSet(S), S \subseteq Int, NEW x \in S, NEW y \in S,
         RankIn(S, x) = RankIn(S, y)
  PROVE  x = y
<1> DEFINE below(z) == {n \in S : n <= z}
<1>1. ASSUME NEW m \in S, NEW n \in S, m <= n, RankIn(S, m) = RankIn(S, n)
      PROVE  m = n
  <2>1. below(m) \in SUBSET below(n)
    <3>1. ASSUME NEW k \in below(m)
          PROVE  k \in below(n)
      <4>1. k \in S /\ k <= m /\ k \in Int /\ m \in Int /\ n \in Int
        OBVIOUS
      <4>2. k <= n
        BY <1>1, <4>1
      <4> QED BY <4>1, <4>2
    <3> QED BY <3>1
  <2>2. n \in below(n) /\ below(n) \in SUBSET S
    BY <1>1
  <2>3. Cardinality(below(n)) = Cardinality(below(m))
    BY <1>1 DEF RankIn
  <2>4. below(n) = below(m)
    <3> HIDE DEF below
    <3>1. IsFiniteSet(below(n))
      BY <2>2, FS_Subset
    <3> QED BY <2>1, <2>3, <3>1, FS_Subset
  <2>5. n \in below(m)
    BY <2>2, <2>4
  <2> QED BY <1>1, <2>5
<1>2. x <= y \/ y <= x
  OBVIOUS
<1> QED BY <1>1, <1>2
=============================================================================
