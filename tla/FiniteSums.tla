----------------------------- MODULE FiniteSums -----------------------------
(***************************************************************************)
(* Laws of SumFunctionOnSet, the sum of the values of a function over a    *)
(* finite set.  Induction over the set is by least counterexample: the     *)
(* sets are compared by cardinality, and a set of naturals has a least     *)
(* member.  And from them: what the allocation of an AUTO receipt to the   *)
(* open invoices spends, on whom, and in which order.                      *)
(***************************************************************************)
EXTENDS AutoAllocation, FiniteSetTheorems, WellFoundedInduction, TLAPS

(* The member of a set that a sum takes first.                              *)
Pick(s) == CHOOSE x \in s : TRUE

(* g is the table of the sums of f over the subsets of S.                   *)
SumTable(f, S, g) ==
  g = [s \in SUBSET S |-> IF s = {} THEN 0 ELSE f[Pick(s)] + g[s \ {Pick(s)}]]

(* Every set of naturals that is not empty has a least member.              *)
LEMMA LeastNatural ==
  ASSUME NEW T \in SUBSET Nat, T # {}
  PROVE  \E i \in T : \A j \in T : i <= j
<1>1. IsWellFoundedOn(OpToRel(<, Nat), Nat)
  BY NatLessThanWellFounded
<1>2. PICK i \in T : \A j \in T : ~ (<<j, i>> \in OpToRel(<, Nat))
  BY <1>1, WFMin
<1>3. \A j \in T : ~ (j < i)
  BY <1>2 DEF OpToRel
<1>4. QED
  BY <1>3

(* Of the finite sets in a set of them that is not empty, one has no more   *)
(* elements than the others.                                                *)
LEMMA SmallestSet ==
  ASSUME NEW B, B # {}, \A s \in B : IsFiniteSet(s)
  PROVE  \E s \in B : \A t \in B : Cardinality(s) <= Cardinality(t)
<1> DEFINE C == {Cardinality(s) : s \in B}
<1>1. \A s \in B : Cardinality(s) \in Nat
  BY FS_CardinalityType
<1>2. C \in SUBSET Nat /\ C # {}
  BY <1>1
<1>3. PICK n \in C : \A m \in C : n <= m
  BY <1>2, LeastNatural
<1>4. QED
  BY <1>3

(* What is to be shown of all subsets of a finite set may be assumed of the *)
(* smaller ones.  B is the set of those of which it does not hold.          *)
LEMMA NoSmallest ==
  ASSUME NEW S, IsFiniteSet(S), NEW B \in SUBSET (SUBSET S),
         \A s \in B : \E x \in s : s \ {x} \in B
  PROVE  B = {}
<1> SUFFICES ASSUME B # {} PROVE FALSE
  OBVIOUS
<1>1. \A s \in B : IsFiniteSet(s)
  BY FS_Subset
<1>2. PICK s \in B : \A t \in B : Cardinality(s) <= Cardinality(t)
  BY <1>1, SmallestSet
<1>3. PICK x \in s : s \ {x} \in B
  OBVIOUS
<1>4. Cardinality(s \ {x}) = Cardinality(s) - 1 /\ Cardinality(s) \in Nat
  BY <1>1, <1>3, FS_RemoveElement, FS_CardinalityType
<1>5. QED
  BY <1>2, <1>3, <1>4

-----------------------------------------------------------------------------
(* Two tables agree on the whole of the smaller one.                        *)
LEMMA TablesAgree ==
  ASSUME NEW f, NEW S, IsFiniteSet(S), NEW g, SumTable(f, S, g),
         NEW T, T \subseteq S, NEW h, SumTable(f, T, h)
  PROVE  g[T] = h[T]
<1> DEFINE B == {t \in SUBSET T : g[t] # h[t]}
<1>1. ASSUME NEW t \in B
      PROVE  \E x \in t : t \ {x} \in B
  <2>1. t # {}
    BY DEF SumTable
  <2>2. Pick(t) \in t
    BY <2>1 DEF Pick
  <2>3. g[t] = f[Pick(t)] + g[t \ {Pick(t)}] /\ h[t] = f[Pick(t)] + h[t \ {Pick(t)}]
    BY <2>1 DEF SumTable
  <2>4. QED
    BY <2>2, <2>3
<1>2. IsFiniteSet(T)
  BY FS_Subset
<1>3. B = {}
  BY <1>1, <1>2, NoSmallest
<1>4. QED
  BY <1>3

(* Every finite set has a table of the sums over its subsets.               *)
LEMMA TableExists ==
  ASSUME NEW f, NEW S, IsFiniteSet(S)
  PROVE  \E g : SumTable(f, S, g)
<1> DEFINE B == {T \in SUBSET S : ~ \E g : SumTable(f, T, g)}
<1>1. ASSUME NEW T \in B
      PROVE  \E x \in T : T \ {x} \in B
  <2> SUFFICES ASSUME \A x \in T : T \ {x} \notin B
               PROVE  \E g : SumTable(f, T, g)
    OBVIOUS
  <2> DEFINE tab(U) == CHOOSE h : SumTable(f, U, h)
             val(s) == IF s = {} THEN 0 ELSE f[Pick(s)] + tab(s \ {Pick(s)})[s \ {Pick(s)}]
             G == [s \in SUBSET T |-> val(s)]
  <2>1. \A x \in T : \E g : SumTable(f, T \ {x}, g)
    OBVIOUS
  <2>2. ASSUME NEW U \in SUBSET T, U # T
        PROVE  \E g : SumTable(f, U, g)
    <3>1. PICK x \in T : x \notin U
      BY <2>2
    <3>2. PICK g : SumTable(f, T \ {x}, g)
      BY <2>1
    <3> DEFINE h == [s \in SUBSET U |-> g[s]]
    <3>3. \A s \in SUBSET U : s # {} => Pick(s) \in s
      BY DEF Pick
    <3>4. SumTable(f, U, h)
      BY <3>1, <3>2, <3>3 DEF SumTable
    <3>5. QED
      BY <3>4
  <2>3. \A U \in SUBSET T : U # T => SumTable(f, U, tab(U))
    BY <2>2
  <2>4. ASSUME NEW s \in SUBSET T, s # {}
        PROVE  G[s \ {Pick(s)}] = tab(s \ {Pick(s)})[s \ {Pick(s)}]
    <3>1. Pick(s) \in s
      BY <2>4 DEF Pick
    <3> DEFINE u == s \ {Pick(s)}
    <3>2. u \in SUBSET T /\ u # T
      BY <3>1
    <3>3. SumTable(f, u, tab(u))
      BY <2>3, <3>2
    <3>4. CASE u = {}
      BY <3>2, <3>3, <3>4 DEF SumTable
    <3>5. CASE u # {}
      <4>1. Pick(u) \in u
        BY <3>5 DEF Pick
      <4> DEFINE v == u \ {Pick(u)}
      <4>2. tab(u)[u] = f[Pick(u)] + tab(u)[v]
        BY <3>3, <3>5 DEF SumTable
      <4>3. v \in SUBSET T /\ v # T /\ v \in SUBSET u
        BY <3>2
      <4>4. SumTable(f, v, tab(v))
        BY <2>3, <4>1, <4>3
      <4>5. IsFiniteSet(u)
        BY <3>2, FS_Subset
      <4>6. tab(u)[v] = tab(v)[v]
        <5>1. v \subseteq u
          BY <4>3
        <5> HIDE DEF tab, u, v
        <5> QED
          BY <3>3, <4>4, <4>5, <5>1, TablesAgree
      <4>7. G[u] = f[Pick(u)] + tab(v)[v]
        BY <3>2, <3>5
      <4>8. QED
        BY <4>2, <4>6, <4>7
    <3>6. QED
      BY <3>4, <3>5
  <2>5. \A s \in SUBSET T : s # {} => Pick(s) \in s
    BY DEF Pick
  <2>6. SumTable(f, T, G)
    <3> HIDE DEF tab
    <3>1. \A s \in SUBSET T : G[s] = IF s = {} THEN 0 ELSE f[Pick(s)] + G[s \ {Pick(s)}]
      BY <2>4, <2>5
    <3> HIDE DEF G
    <3>2. G = [s \in SUBSET T |-> G[s]]
      BY DEF G
    <3>3. QED
      BY <3>1, <3>2 DEF SumTable
  <2>7. QED
    BY <2>6
<1>2. B = {}
  BY <1>1, NoSmallest
<1>3. QED
  BY <1>2

-----------------------------------------------------------------------------
(* The sum is an entry of the table.                                        *)
LEMMA SumByTable ==
  ASSUME NEW f, NEW S, IsFiniteSet(S), NEW g, SumTable(f, S, g),
         NEW T, T \subseteq S
  PROVE  SumFunctionOnSet(f, T) = g[T]
<1> DEFINE h == CHOOSE iter : SumTable(f, T, iter)
<1>1. SumFunctionOnSet(f, T) = h[T]
  BY DEF SumFunctionOnSet, FoldFunctionOnSet, MapThenFoldSet, SumTable, Pick
<1>2. IsFiniteSet(T)
  BY FS_Subset
<1>3. SumTable(f, T, h)
  BY <1>2, TableExists
<1> HIDE DEF h
<1>4. g[T] = h[T]
  BY <1>3, TablesAgree
<1>5. QED
  BY <1>1, <1>4

(* The sum over no element is zero.                                         *)
LEMMA SumEmpty == \A f : SumFunctionOnSet(f, {}) = 0
<1> SUFFICES ASSUME NEW f PROVE SumFunctionOnSet(f, {}) = 0
  OBVIOUS
<1>1. IsFiniteSet({})
  BY FS_EmptySet
<1>2. PICK g : SumTable(f, {}, g)
  BY <1>1, TableExists
<1>3. SumFunctionOnSet(f, {}) = g[{}]
  BY <1>1, <1>2, SumByTable
<1>4. QED
  BY <1>2, <1>3 DEF SumTable

(* The element the sum takes first.                                         *)
LEMMA SumTakesPick ==
  ASSUME NEW f, NEW S, IsFiniteSet(S), S # {}
  PROVE  /\ Pick(S) \in S
         /\ SumFunctionOnSet(f, S) = f[Pick(S)] + SumFunctionOnSet(f, S \ {Pick(S)})
<1>1. PICK g : SumTable(f, S, g)
  BY TableExists
<1>2. S \subseteq S /\ S \ {Pick(S)} \subseteq S
  OBVIOUS
<1>3. SumFunctionOnSet(f, S) = g[S]
  BY <1>1, <1>2, SumByTable
<1>4. SumFunctionOnSet(f, S \ {Pick(S)}) = g[S \ {Pick(S)}]
  BY <1>1, <1>2, SumByTable
<1>5. Pick(S) \in S
  BY DEF Pick
<1>6. QED
  BY <1>1, <1>2, <1>3, <1>4, <1>5 DEF SumTable

(* A sum of integers is an integer.                                         *)
LEMMA SumInt ==
  ASSUME NEW f, NEW S, IsFiniteSet(S), \A x \in S : f[x] \in Int
  PROVE  SumFunctionOnSet(f, S) \in Int
<1> DEFINE B == {s \in SUBSET S : SumFunctionOnSet(f, s) \notin Int}
<1>1. ASSUME NEW s \in B
      PROVE  \E x \in s : s \ {x} \in B
  <2>1. s # {}
    BY SumEmpty
  <2>2. IsFiniteSet(s)
    BY FS_Subset
  <2>3. /\ Pick(s) \in s
        /\ SumFunctionOnSet(f, s) = f[Pick(s)] + SumFunctionOnSet(f, s \ {Pick(s)})
    BY <2>1, <2>2, SumTakesPick
  <2>4. QED
    BY <2>3
<1>2. B = {}
  BY <1>1, NoSmallest
<1>3. QED
  BY <1>2

(* A sum of naturals is a natural.                                          *)
LEMMA SumNat ==
  ASSUME NEW f, NEW S, IsFiniteSet(S), \A x \in S : f[x] \in Nat
  PROVE  SumFunctionOnSet(f, S) \in Nat
<1> DEFINE B == {s \in SUBSET S : SumFunctionOnSet(f, s) \notin Nat}
<1>1. ASSUME NEW s \in B
      PROVE  \E x \in s : s \ {x} \in B
  <2>1. s # {}
    BY SumEmpty
  <2>2. IsFiniteSet(s)
    BY FS_Subset
  <2>3. /\ Pick(s) \in s
        /\ SumFunctionOnSet(f, s) = f[Pick(s)] + SumFunctionOnSet(f, s \ {Pick(s)})
    BY <2>1, <2>2, SumTakesPick
  <2>4. QED
    BY <2>3
<1>2. B = {}
  BY <1>1, NoSmallest
<1>3. QED
  BY <1>2

(* Any element can be taken out of a sum.                                   *)
LEMMA SumRemove ==
  ASSUME NEW f, NEW S, IsFiniteSet(S), \A x \in S : f[x] \in Int, NEW x \in S
  PROVE  SumFunctionOnSet(f, S) = f[x] + SumFunctionOnSet(f, S \ {x})
<1> DEFINE sum(s) == SumFunctionOnSet(f, s)
           B == {s \in SUBSET S : \E z \in s : sum(s) # f[z] + sum(s \ {z})}
<1>1. ASSUME NEW s \in B, \A y \in s : s \ {y} \notin B
      PROVE  FALSE
  <2> DEFINE y == Pick(s)
  <2>1. s # {} /\ IsFiniteSet(s) /\ s \subseteq S
    BY FS_Subset
  <2>2. y \in s /\ sum(s) = f[y] + sum(s \ {y})
    BY <2>1, SumTakesPick
  <2>3. PICK z \in s : sum(s) # f[z] + sum(s \ {z})
    OBVIOUS
  <2>4. \A u \in SUBSET S : sum(u) \in Int
    <3>1. TAKE u \in SUBSET S
    <3>2. IsFiniteSet(u) /\ \A v \in u : f[v] \in Int
      BY FS_Subset
    <3>3. QED
      BY <3>2, SumInt
  <2> HIDE DEF sum, y
  <2>5. y # z
    BY <2>2, <2>3
  <2>6. sum(s \ {y}) = f[z] + sum((s \ {y}) \ {z})
    BY <1>1, <2>1, <2>2, <2>5
  <2>7. sum(s \ {z}) = f[y] + sum((s \ {z}) \ {y})
    BY <1>1, <2>1, <2>2, <2>5
  <2>8. (s \ {y}) \ {z} = (s \ {z}) \ {y}
    OBVIOUS
  <2>9. sum((s \ {y}) \ {z}) \in Int /\ f[y] \in Int /\ f[z] \in Int
    BY <2>1, <2>2, <2>4
  <2>10. QED
    BY <2>2, <2>3, <2>6, <2>7, <2>8, <2>9
<1>2. B = {}
  <2> HIDE DEF B
  <2> QED
    BY <1>1, NoSmallest DEF B
<1>3. QED
  BY <1>2

(* Sums add up element by element.                                          *)
LEMMA SumAdd ==
  ASSUME NEW f, NEW g, NEW h, NEW S, IsFiniteSet(S),
         \A x \in S : f[x] \in Int /\ g[x] \in Int /\ h[x] = f[x] + g[x]
  PROVE  SumFunctionOnSet(h, S) = SumFunctionOnSet(f, S) + SumFunctionOnSet(g, S)
<1> DEFINE F(s) == SumFunctionOnSet(f, s)
           G(s) == SumFunctionOnSet(g, s)
           H(s) == SumFunctionOnSet(h, s)
           B == {s \in SUBSET S : H(s) # F(s) + G(s)}
<1>1. F({}) = 0 /\ G({}) = 0 /\ H({}) = 0
  BY SumEmpty
<1>2. ASSUME NEW s \in SUBSET S
      PROVE  F(s) \in Int /\ G(s) \in Int /\ H(s) \in Int
  <2>1. IsFiniteSet(s)
    BY FS_Subset
  <2>2. F(s) \in Int
    BY <2>1, SumInt
  <2>3. G(s) \in Int
    BY <2>1, SumInt
  <2>4. H(s) \in Int
    BY <2>1, SumInt
  <2>5. QED
    BY <2>2, <2>3, <2>4
<1>3. ASSUME NEW s \in SUBSET S, NEW x \in s
      PROVE  /\ F(s) = f[x] + F(s \ {x})
             /\ G(s) = g[x] + G(s \ {x})
             /\ H(s) = h[x] + H(s \ {x})
  <2>1. IsFiniteSet(s)
    BY FS_Subset
  <2>2. F(s) = f[x] + F(s \ {x})
    BY <2>1, SumRemove
  <2>3. G(s) = g[x] + G(s \ {x})
    BY <2>1, SumRemove
  <2>4. H(s) = h[x] + H(s \ {x})
    BY <2>1, SumRemove
  <2>5. QED
    BY <2>2, <2>3, <2>4
<1> HIDE DEF F, G, H
<1>4. ASSUME NEW s \in B
      PROVE  \E x \in s : s \ {x} \in B
  <2>1. PICK x \in s : TRUE
    BY <1>1
  <2>2. SUFFICES ASSUME s \ {x} \notin B
                 PROVE  FALSE
    BY <2>1
  <2>3. s \in SUBSET S /\ s \ {x} \in SUBSET S /\ x \in s /\ x \in S
    BY <2>1
  <2>4. H(s \ {x}) = F(s \ {x}) + G(s \ {x})
    BY <2>2, <2>3
  <2>5. H(s) # F(s) + G(s)
    OBVIOUS
  <2>6. /\ f[x] \in Int /\ g[x] \in Int /\ h[x] = f[x] + g[x]
        /\ F(s \ {x}) \in Int /\ G(s \ {x}) \in Int
    BY <1>2, <2>3
  <2>7. F(s) = f[x] + F(s \ {x}) /\ G(s) = g[x] + G(s \ {x}) /\ H(s) = h[x] + H(s \ {x})
    BY <1>3, <2>3
  <2>8. QED
    BY <2>4, <2>5, <2>6, <2>7
<1>5. B = {}
  BY <1>4, NoSmallest
<1>6. H(S) = F(S) + G(S)
  BY <1>5
<1>7. QED
  BY <1>6 DEF F, G, H

(* A sum of zeros is zero.                                                  *)
LEMMA SumZero ==
  ASSUME NEW f, NEW S, IsFiniteSet(S), \A x \in S : f[x] = 0
  PROVE  SumFunctionOnSet(f, S) = 0
<1> DEFINE n == SumFunctionOnSet(f, S)
<1>1. n \in Int
  BY SumInt
<1>2. n = n + n
  BY SumAdd
<1> HIDE DEF n
<1>3. n = 0
  BY <1>1, <1>2
<1>4. QED
  BY <1>3 DEF n

(* Two functions with the same values have the same sum.                    *)
LEMMA SumSame ==
  ASSUME NEW f, NEW g, NEW S, IsFiniteSet(S),
         \A x \in S : f[x] \in Int /\ g[x] = f[x]
  PROVE  SumFunctionOnSet(g, S) = SumFunctionOnSet(f, S)
<1> DEFINE z == [x \in S |-> 0]
<1>1. SumFunctionOnSet(z, S) = 0
  BY SumZero
<1>2. \A x \in S : z[x] = 0
  OBVIOUS
<1> HIDE DEF z
<1>3. SumFunctionOnSet(g, S) = SumFunctionOnSet(f, S) + SumFunctionOnSet(z, S)
  BY <1>2, SumAdd
<1>4. SumFunctionOnSet(f, S) \in Int
  BY SumInt
<1>5. QED
  BY <1>1, <1>3, <1>4

(* A sum grows with the values.                                             *)
LEMMA SumMonotone ==
  ASSUME NEW f, NEW g, NEW S, IsFiniteSet(S),
         \A x \in S : f[x] \in Int /\ g[x] \in Int /\ f[x] <= g[x]
  PROVE  SumFunctionOnSet(f, S) <= SumFunctionOnSet(g, S)
<1> DEFINE d == [x \in S |-> g[x] - f[x]]
<1>1. \A x \in S : d[x] \in Nat /\ d[x] \in Int /\ g[x] = f[x] + d[x]
  OBVIOUS
<1> HIDE DEF d
<1>2. SumFunctionOnSet(d, S) \in Nat
  BY <1>1, SumNat
<1>3. SumFunctionOnSet(g, S) = SumFunctionOnSet(f, S) + SumFunctionOnSet(d, S)
  BY <1>1, SumAdd
<1>4. SumFunctionOnSet(f, S) \in Int
  BY SumInt
<1>5. QED
  BY <1>2, <1>3, <1>4

(* When one value changes, the sum changes by as much.                      *)
LEMMA SumChange ==
  ASSUME NEW f, NEW g, NEW S, IsFiniteSet(S), NEW x \in S, g[x] \in Int,
         \A y \in S : f[y] \in Int,
         \A y \in S \ {x} : g[y] = f[y]
  PROVE  SumFunctionOnSet(g, S) = SumFunctionOnSet(f, S) + (g[x] - f[x])
<1> DEFINE R == S \ {x}
<1>1. IsFiniteSet(R) /\ \A y \in R : f[y] \in Int /\ g[y] = f[y]
  BY FS_RemoveElement
<1>2. SumFunctionOnSet(f, R) \in Int
  <2> HIDE DEF R
  <2> QED BY <1>1, SumInt
<1>3. SumFunctionOnSet(g, R) = SumFunctionOnSet(f, R)
  <2> HIDE DEF R
  <2> QED BY <1>1, SumSame
<1>4. SumFunctionOnSet(f, S) = f[x] + SumFunctionOnSet(f, R)
  BY SumRemove
<1>5. \A y \in S : g[y] \in Int
  OBVIOUS
<1>6. SumFunctionOnSet(g, S) = g[x] + SumFunctionOnSet(g, R)
  BY <1>5, SumRemove
<1>7. QED
  BY <1>2, <1>3, <1>4, <1>6

(* A sum over one more element.                                             *)
LEMMA SumOneMore ==
  ASSUME NEW f, NEW g, NEW S, IsFiniteSet(S), NEW x, x \notin S, g[x] \in Int,
         \A y \in S : f[y] \in Int /\ g[y] = f[y]
  PROVE  SumFunctionOnSet(g, S \cup {x}) = SumFunctionOnSet(f, S) + g[x]
<1> DEFINE T == S \cup {x}
<1>1. IsFiniteSet(T) /\ T \ {x} = S /\ x \in T
  BY FS_AddElement
<1>2. \A y \in T : g[y] \in Int
  OBVIOUS
<1> HIDE DEF T
<1>3. SumFunctionOnSet(g, T) = g[x] + SumFunctionOnSet(g, S)
  BY <1>1, <1>2, SumRemove
<1>4. SumFunctionOnSet(g, S) = SumFunctionOnSet(f, S)
  BY SumSame
<1>5. SumFunctionOnSet(f, S) \in Int
  BY SumInt
<1>6. SumFunctionOnSet(g, T) = SumFunctionOnSet(f, S) + g[x]
  BY <1>3, <1>4, <1>5
<1> QED
  BY <1>6 DEF T

(* The sum over a part is the sum of what is zero outside of it.            *)
LEMMA SumPart ==
  ASSUME NEW f, NEW g, NEW S, IsFiniteSet(S), NEW T, T \subseteq S,
         \A x \in T : f[x] \in Int /\ g[x] = f[x],
         \A x \in S \ T : g[x] = 0
  PROVE  SumFunctionOnSet(g, S) = SumFunctionOnSet(f, T)
<1> DEFINE G(s) == SumFunctionOnSet(g, s)
           B == {s \in SUBSET S : T \subseteq s /\ G(s) # G(T)}
<1>1. ASSUME NEW s \in B
      PROVE  \E x \in s : s \ {x} \in B
  <2>1. IsFiniteSet(s) /\ \A x \in s : g[x] \in Int
    BY FS_Subset
  <2>2. PICK x \in s : x \notin T
    OBVIOUS
  <2>3. G(s) = g[x] + G(s \ {x})
    BY <2>1, SumRemove
  <2>4. IsFiniteSet(s \ {x}) /\ \A y \in s \ {x} : g[y] \in Int
    BY <2>1, FS_RemoveElement
  <2>5. G(s \ {x}) \in Int
    BY <2>4, SumInt
  <2>6. G(s \ {x}) = G(s)
    BY <2>2, <2>3, <2>5
  <2>7. QED
    BY <2>2, <2>6
<1>2. B = {}
  <2>1. B \in SUBSET (SUBSET S)
    OBVIOUS
  <2> HIDE DEF B, G
  <2>2. QED
    BY <1>1, <2>1, NoSmallest
<1>3. G(S) = G(T)
  BY <1>2
<1>4. IsFiniteSet(T)
  BY FS_Subset
<1>5. G(T) = SumFunctionOnSet(f, T)
  BY <1>4, SumSame
<1>6. QED
  BY <1>3, <1>5

(* Natural numbers: a part of the set has no greater sum.                   *)
LEMMA SumSubset ==
  ASSUME NEW f, NEW S, IsFiniteSet(S), \A x \in S : f[x] \in Nat, NEW T, T \subseteq S
  PROVE  SumFunctionOnSet(f, T) <= SumFunctionOnSet(f, S)
<1> DEFINE g == [x \in S |-> IF x \in T THEN f[x] ELSE 0]
<1>1. \A x \in S : f[x] \in Int /\ g[x] \in Int /\ g[x] <= f[x]
  OBVIOUS
<1>2. (\A x \in T : f[x] \in Int /\ g[x] = f[x]) /\ (\A x \in S \ T : g[x] = 0)
  OBVIOUS
<1> HIDE DEF g
<1>3. SumFunctionOnSet(g, S) = SumFunctionOnSet(f, T)
  BY <1>2, SumPart
<1>4. SumFunctionOnSet(g, S) <= SumFunctionOnSet(f, S)
  BY <1>1, SumMonotone
<1>5. QED
  BY <1>3, <1>4

(* A sum over a few elements, written out.                                  *)
LEMMA SumOfTwo ==
  ASSUME NEW f, NEW a, NEW b, a # b, f[a] \in Int, f[b] \in Int
  PROVE  IsFiniteSet({a, b}) /\ SumFunctionOnSet(f, {a, b}) = f[a] + f[b]
<1> DEFINE S == {a, b}
           T == {b}
<1>1. /\ S \ {a} = T /\ T \ {b} = {} /\ T \cup {a} = S /\ a \in S /\ b \in T
      /\ \A x \in S : f[x] \in Int
      /\ \A x \in T : f[x] \in Int
  OBVIOUS
<1>2. IsFiniteSet(T)
  BY FS_Singleton
<1> HIDE DEF S, T
<1>3. IsFiniteSet(S)
  BY <1>1, <1>2, FS_AddElement
<1>4. SumFunctionOnSet(f, T) = f[b] + SumFunctionOnSet(f, {})
  BY <1>1, <1>2, SumRemove
<1>5. SumFunctionOnSet(f, T) = f[b]
  BY <1>4, SumEmpty
<1>6. SumFunctionOnSet(f, S) = f[a] + SumFunctionOnSet(f, T)
  BY <1>1, <1>3, SumRemove
<1>7. QED
  BY <1>3, <1>5, <1>6 DEF S

(* The same for three elements.                                             *)
LEMMA SumOfThree ==
  ASSUME NEW f, NEW a, NEW b, NEW c, a # b, a # c, b # c,
         f[a] \in Int, f[b] \in Int, f[c] \in Int
  PROVE  /\ IsFiniteSet({a, b, c})
         /\ SumFunctionOnSet(f, {a, b, c}) = f[a] + (f[b] + f[c])
<1> DEFINE S == {a, b, c}
           T == {b, c}
<1>1. /\ S \ {a} = T /\ T \cup {a} = S /\ a \in S
      /\ \A x \in S : f[x] \in Int
  OBVIOUS
<1>2. IsFiniteSet(T) /\ SumFunctionOnSet(f, T) = f[b] + f[c]
  BY SumOfTwo
<1> HIDE DEF S, T
<1>3. IsFiniteSet(S)
  BY <1>1, <1>2, FS_AddElement
<1>4. SumFunctionOnSet(f, S) = f[a] + SumFunctionOnSet(f, T)
  BY <1>1, <1>3, SumRemove
<1>5. QED
  BY <1>2, <1>3, <1>4 DEF S

(* The same for four elements.                                              *)
LEMMA SumOfFour ==
  ASSUME NEW f, NEW a, NEW b, NEW c, NEW d,
         a # b, a # c, a # d, b # c, b # d, c # d,
         f[a] \in Int, f[b] \in Int, f[c] \in Int, f[d] \in Int
  PROVE  /\ IsFiniteSet({a, b, c, d})
         /\ SumFunctionOnSet(f, {a, b, c, d}) = f[a] + (f[b] + (f[c] + f[d]))
<1> DEFINE S == {a, b, c, d}
           T == {b, c, d}
           R == {c, d}
<1>1. /\ S \ {a} = T /\ T \cup {a} = S /\ a \in S
      /\ T \ {b} = R /\ R \cup {b} = T /\ b \in T
      /\ \A x \in S : f[x] \in Int
      /\ \A x \in T : f[x] \in Int
  OBVIOUS
<1>2. IsFiniteSet(R) /\ SumFunctionOnSet(f, R) = f[c] + f[d]
  BY SumOfTwo
<1> HIDE DEF S, T, R
<1>3. IsFiniteSet(T) /\ IsFiniteSet(S)
  BY <1>1, <1>2, FS_AddElement
<1>4. SumFunctionOnSet(f, T) = f[b] + SumFunctionOnSet(f, R)
  BY <1>1, <1>3, SumRemove
<1>5. SumFunctionOnSet(f, S) = f[a] + SumFunctionOnSet(f, T)
  BY <1>1, <1>3, SumRemove
<1>6. QED
  BY <1>2, <1>3, <1>4, <1>5 DEF S

-----------------------------------------------------------------------------
(* The allocation of an AUTO receipt.                                       *)

(* A finite set of naturals that is not empty has a greatest member.        *)
LEMMA GreatestNatural ==
  ASSUME NEW S \in SUBSET Nat, IsFiniteSet(S), S # {}
  PROVE  \E i \in S : \A j \in S : j <= i
<1> DEFINE B == {T \in SUBSET S : T # {} /\ \A i \in T : \E j \in T : ~(j <= i)}
<1>1. ASSUME NEW T \in B
      PROVE  \E x \in T : T \ {x} \in B
  <2>1. PICK x \in T : TRUE
    OBVIOUS
  <2> DEFINE R == T \ {x}
  <2>2. R # {}
    BY <2>1
  <2>3. ASSUME NEW i \in R, \A j \in R : j <= i
        PROVE  FALSE
    <3>1. CASE x <= i
      BY <2>3, <3>1
    <3>2. CASE ~(x <= i)
      BY <2>3, <3>2
    <3>3. QED
      BY <3>1, <3>2
  <2>4. QED
    BY <2>1, <2>2, <2>3
<1>2. B \in SUBSET (SUBSET S)
  OBVIOUS
<1> HIDE DEF B
<1>3. B = {}
  BY <1>1, <1>2, NoSmallest
<1>4. QED
  BY <1>3 DEF B

(* What the allocations are made from: invoices numbered by their due dates *)
(* and their balances.                                                      *)
Seen(seen) ==
  /\ IsFiniteSet(DOMAIN seen)
  /\ DOMAIN seen \subseteq Nat
  /\ \A i \in DOMAIN seen : seen[i].balance \in Nat

(* What the invoices before i take first, and what then goes to i.          *)
Before(seen, i) == BalanceOf(seen, {j \in DOMAIN seen : j < i})

Share(seen, amount, i) ==
  IF amount - Before(seen, i) <= 0 THEN 0
  ELSE IF amount - Before(seen, i) < seen[i].balance THEN amount - Before(seen, i)
  ELSE seen[i].balance

(* The balance of some invoices is a natural number, none without invoices. *)
LEMMA BalanceNat ==
  ASSUME NEW seen, Seen(seen), NEW S, S \subseteq DOMAIN seen
  PROVE  BalanceOf(seen, S) \in Nat
<1> DEFINE f == [i \in DOMAIN seen |-> seen[i].balance]
<1>1. IsFiniteSet(S) /\ \A i \in S : f[i] \in Nat
  BY FS_Subset DEF Seen
<1> HIDE DEF f
<1>2. SumFunctionOnSet(f, S) \in Nat
  BY <1>1, SumNat
<1>3. QED
  BY <1>2 DEF BalanceOf, f

(* The allocations are exactly the shares that are not zero.                *)
LEMMA AllocationShares ==
  ASSUME NEW seen, Seen(seen), NEW amount \in Nat
  PROVE  /\ DOMAIN AllocationsOldestFirst(seen, amount)
              = {i \in DOMAIN seen : amount - Before(seen, i) > 0}
         /\ \A i \in DOMAIN AllocationsOldestFirst(seen, amount) :
              AllocationsOldestFirst(seen, amount)[i] = Share(seen, amount, i)
<1>1. \A i \in DOMAIN seen : Before(seen, i) \in Nat
  BY BalanceNat DEF Before
<1>2. AllocationsOldestFirst(seen, amount)
        = [i \in {j \in DOMAIN seen : amount - Before(seen, j) > 0} |->
             IF amount - Before(seen, i) < seen[i].balance
             THEN amount - Before(seen, i) ELSE seen[i].balance]
  BY DEF AllocationsOldestFirst, Before
<1>3. QED
  BY <1>1, <1>2 DEF Share

(* No invoice gets more than it owes or than was received, and each invoice *)
(* that gets something gets more than nothing.                              *)
LEMMA AllocationBounds ==
  ASSUME NEW seen, Seen(seen), NEW amount \in Nat,
         \A i \in DOMAIN seen : seen[i].balance > 0
  PROVE  /\ DOMAIN AllocationsOldestFirst(seen, amount) \subseteq DOMAIN seen
         /\ AllocationsOldestFirst(seen, amount)
              \in [DOMAIN AllocationsOldestFirst(seen, amount) -> 1 .. amount]
         /\ \A i \in DOMAIN AllocationsOldestFirst(seen, amount) :
              /\ AllocationsOldestFirst(seen, amount)[i] \in 1 .. amount
              /\ AllocationsOldestFirst(seen, amount)[i] <= seen[i].balance
<1>1. \A i \in DOMAIN seen : Before(seen, i) \in Nat /\ seen[i].balance \in Nat
  BY BalanceNat DEF Before, Seen
<1>2. \A i \in DOMAIN seen : amount - Before(seen, i) > 0 =>
        Share(seen, amount, i) \in 1 .. amount /\ Share(seen, amount, i) <= seen[i].balance
  BY <1>1 DEF Share
<1>3. \A i \in DOMAIN AllocationsOldestFirst(seen, amount) :
        /\ AllocationsOldestFirst(seen, amount)[i] \in 1 .. amount
        /\ AllocationsOldestFirst(seen, amount)[i] <= seen[i].balance
  BY <1>2, AllocationShares
<1>4. DOMAIN AllocationsOldestFirst(seen, amount) \subseteq DOMAIN seen
  BY AllocationShares
<1>5. AllocationsOldestFirst(seen, amount)
        = [i \in DOMAIN AllocationsOldestFirst(seen, amount) |->
             AllocationsOldestFirst(seen, amount)[i]]
  BY DEF AllocationsOldestFirst
<1>6. QED
  BY <1>3, <1>4, <1>5

(* A receipt for a customer with open invoices goes to the oldest first.    *)
LEMMA AllocationSome ==
  ASSUME NEW seen, Seen(seen), DOMAIN seen # {}, NEW amount \in Nat, amount > 0
  PROVE  DOMAIN AllocationsOldestFirst(seen, amount) # {}
<1>1. PICK i \in DOMAIN seen : \A j \in DOMAIN seen : i <= j
  BY LeastNatural DEF Seen
<1>2. {j \in DOMAIN seen : j < i} = {}
  BY <1>1 DEF Seen
<1>3. Before(seen, i) = 0
  BY <1>2, SumEmpty DEF Before, BalanceOf
<1>4. DOMAIN AllocationsOldestFirst(seen, amount)
        = {j \in DOMAIN seen : amount - Before(seen, j) > 0}
  BY AllocationShares
<1>5. amount - Before(seen, i) > 0
  BY <1>3
<1>6. i \in DOMAIN AllocationsOldestFirst(seen, amount)
  BY <1>4, <1>5
<1>7. QED
  BY <1>6

(* What no invoice takes is at most the receipt.                            *)
LEMMA RestBounds ==
  ASSUME NEW seen, Seen(seen), NEW amount \in Nat
  PROVE  AutoRest(seen, amount) \in 0 .. amount
<1>1. BalanceOf(seen, DOMAIN seen) \in Nat
  BY BalanceNat
<1>2. QED
  BY <1>1 DEF AutoRest

(* The older invoices together take the receipt or all that they owe.       *)
LEMMA SharesAddUp ==
  ASSUME NEW seen, Seen(seen), NEW amount \in Nat
  PROVE  SumFunctionOnSet([i \in DOMAIN seen |-> Share(seen, amount, i)], DOMAIN seen)
           = IF amount < BalanceOf(seen, DOMAIN seen) THEN amount
             ELSE BalanceOf(seen, DOMAIN seen)
<1> DEFINE D == DOMAIN seen
           f == [i \in D |-> seen[i].balance]
           g == [i \in D |-> Share(seen, amount, i)]
           owed(s) == SumFunctionOnSet(f, s)
           taken(s) == SumFunctionOnSet(g, s)
           Downward(s) == \A i \in s, j \in D : j < i => j \in s
           Right(s) == taken(s) = IF amount < owed(s) THEN amount ELSE owed(s)
           B == {s \in SUBSET D : Downward(s) /\ ~Right(s)}
<1>1. IsFiniteSet(D) /\ D \subseteq Nat /\ \A i \in D : f[i] \in Nat
  BY DEF Seen
<1>2. \A i \in D : Before(seen, i) \in Nat
  BY BalanceNat DEF Before
<1>3. \A i \in D : g[i] \in Nat
  BY <1>1, <1>2 DEF Share
<1>4. \A i \in D : f[i] = seen[i].balance
  OBVIOUS
<1>5. \A i \in D : Before(seen, i) = owed({j \in D : j < i})
  BY DEF Before, BalanceOf
<1>6. \A i \in D : g[i] = Share(seen, amount, i)
  OBVIOUS
<1>7. BalanceOf(seen, D) = owed(D)
  BY DEF BalanceOf
<1> HIDE DEF D, f, g
<1>8. ASSUME NEW s \in B
      PROVE  \E x \in s : s \ {x} \in B
  <2>1. s # {}
    <3>1. taken({}) = 0 /\ owed({}) = 0
      BY SumEmpty
    <3>2. Right({})
      BY <3>1
    <3>3. QED
      BY <3>2
  <2>2. IsFiniteSet(s) /\ s \subseteq D
    BY <1>1, FS_Subset
  <2>3. PICK m \in s : \A j \in s : j <= m
    BY <1>1, <2>1, <2>2, GreatestNatural
  <2> DEFINE t == s \ {m}
  <2>4. t = {j \in D : j < m}
    <3>1. s \subseteq Nat /\ m \in s
      BY <1>1, <2>2
    <3>2. \A j \in t : j \in D /\ j < m
      BY <2>2, <2>3, <3>1
    <3>3. \A j \in D : j < m => j \in s /\ j # m
      BY <1>1, <3>1
    <3>4. QED
      BY <3>2, <3>3
  <2>5. t \in SUBSET D /\ Downward(t) /\ IsFiniteSet(t)
    BY <1>1, <2>2, <2>4, FS_RemoveElement
  <2>6. owed(s) = f[m] + owed(t)
    <3>1. \A i \in s : f[i] \in Int
      BY <1>1, <2>2
    <3>2. QED
      BY <2>2, <3>1, SumRemove
  <2>7. taken(s) = g[m] + taken(t)
    <3>1. \A i \in s : g[i] \in Int
      BY <1>3, <2>2
    <3>2. QED
      BY <2>2, <3>1, SumRemove
  <2>8. m \in D /\ Before(seen, m) = owed(t)
    BY <1>5, <2>2, <2>4
  <2>9. f[m] \in Nat /\ f[m] = seen[m].balance /\ Before(seen, m) \in Nat
    BY <1>1, <1>2, <1>4, <2>8
  <2>10. g[m] = IF amount - owed(t) <= 0 THEN 0
                ELSE IF amount - owed(t) < f[m] THEN amount - owed(t)
                ELSE f[m]
    BY <1>6, <2>8, <2>9 DEF Share
  <2>11. owed(t) \in Nat
    BY <2>8, <2>9
  <2>12. ASSUME Right(t)
         PROVE  Right(s)
    <3> DEFINE P == owed(t)
               Q == taken(t)
               Ps == owed(s)
               Qs == taken(s)
               v == f[m]
               w == g[m]
    <3>1. /\ P \in Nat /\ v \in Nat
          /\ Ps = v + P /\ Qs = w + Q
          /\ w = IF amount - P <= 0 THEN 0 ELSE IF amount - P < v THEN amount - P ELSE v
          /\ Q = IF amount < P THEN amount ELSE P
      BY <2>6, <2>7, <2>9, <2>10, <2>11, <2>12
    <3> HIDE DEF P, Q, Ps, Qs, v, w
    <3>2. Qs = IF amount < Ps THEN amount ELSE Ps
      BY <3>1
    <3>3. QED
      BY <3>2 DEF Ps, Qs
  <2>13. ~Right(s)
    OBVIOUS
  <2>14. t \in B
    BY <2>5, <2>12, <2>13
  <2>15. QED
    BY <2>14
<1>9. B \in SUBSET (SUBSET D)
  OBVIOUS
<1>10. Downward(D) /\ D \in SUBSET D
  OBVIOUS
<1>11. B = {}
  <2> HIDE DEF B
  <2>1. QED
    BY <1>1, <1>8, <1>9, NoSmallest
<1>12. Right(D)
  BY <1>10, <1>11
<1>13. QED
  BY <1>7, <1>12 DEF D, g

(* An AUTO receipt is spent to the last unit: what the invoices take and    *)
(* what is left over are the amount received.                               *)
THEOREM ReceiptSpent ==
  ASSUME NEW seen, Seen(seen), NEW amount \in Nat
  PROVE  SumFunctionOnSet(AllocationsOldestFirst(seen, amount),
                          DOMAIN AllocationsOldestFirst(seen, amount))
           + AutoRest(seen, amount) = amount
<1> DEFINE a == AllocationsOldestFirst(seen, amount)
           A == DOMAIN a
           D == DOMAIN seen
           g == [i \in D |-> Share(seen, amount, i)]
           owed == BalanceOf(seen, D)
<1>1. \A i \in D : Before(seen, i) \in Nat /\ seen[i].balance \in Nat
  BY BalanceNat DEF Before, Seen
<1>2. A \subseteq D /\ IsFiniteSet(D)
  BY AllocationShares DEF Seen
<1>3. \A i \in A : a[i] \in Int /\ g[i] = a[i]
  <2>1. \A i \in A : a[i] = Share(seen, amount, i)
    BY AllocationShares
  <2>2. \A i \in D : Share(seen, amount, i) \in Int
    BY <1>1 DEF Share
  <2>3. QED
    BY <1>2, <2>1, <2>2
<1>4. \A i \in D \ A : g[i] = 0
  <2>1. A = {i \in D : amount - Before(seen, i) > 0}
    BY AllocationShares
  <2>2. \A i \in D \ A : amount - Before(seen, i) <= 0
    BY <1>1, <2>1
  <2>3. QED
    BY <2>2 DEF Share
<1>5. SumFunctionOnSet(g, D) = IF amount < owed THEN amount ELSE owed
  BY SharesAddUp
<1>6. owed \in Nat /\ AutoRest(seen, amount) = IF amount > owed THEN amount - owed ELSE 0
  BY BalanceNat DEF AutoRest
<1> HIDE DEF a, A, D, g, owed
<1>7. SumFunctionOnSet(g, D) = SumFunctionOnSet(a, A)
  BY <1>2, <1>3, <1>4, SumPart
<1>8. SumFunctionOnSet(a, A) + AutoRest(seen, amount) = amount
  BY <1>5, <1>6, <1>7
<1>9. QED
  BY <1>8 DEF a, A

(* Once an invoice gets something, the older ones have got all they owe.    *)
THEOREM OlderServedFirst ==
  ASSUME NEW seen, Seen(seen), NEW amount \in Nat, NEW i \in DOMAIN seen,
         NEW j \in DOMAIN AllocationsOldestFirst(seen, amount), i < j
  PROVE  /\ i \in DOMAIN AllocationsOldestFirst(seen, amount)
         /\ AllocationsOldestFirst(seen, amount)[i] = seen[i].balance
<1> DEFINE D == DOMAIN seen
           f == [k \in D |-> seen[k].balance]
           older == {k \in D : k < i}
           upTo == {k \in D : k <= i}
           before == {k \in D : k < j}
<1>1. IsFiniteSet(D) /\ D \subseteq Nat /\ \A k \in D : f[k] \in Nat
  BY DEF Seen
<1>2. i \in Nat /\ j \in D /\ j \in Nat
  BY <1>1, AllocationShares
<1>3. /\ Before(seen, i) = SumFunctionOnSet(f, older)
      /\ Before(seen, j) = SumFunctionOnSet(f, before)
      /\ f[i] = seen[i].balance /\ f[i] \in Nat
  BY <1>1 DEF Before, BalanceOf
<1>4. /\ IsFiniteSet(before) /\ IsFiniteSet(upTo)
      /\ upTo \subseteq before /\ i \in upTo
      /\ upTo \ {i} = older
  <2>1. \A k \in D : k \in Nat
    BY <1>1
  <2>2. IsFiniteSet(before) /\ IsFiniteSet(upTo)
    BY <1>1, FS_Subset
  <2>3. upTo \subseteq before /\ i \in upTo /\ upTo \ {i} = older
    BY <1>2, <2>1
  <2>4. QED
    BY <2>2, <2>3
<1>5. /\ \A k \in before : f[k] \in Nat
      /\ \A k \in upTo : f[k] \in Int
  BY <1>1
<1>6. /\ Before(seen, i) \in Nat
      /\ Before(seen, j) \in Nat
  BY <1>2, BalanceNat DEF Before
<1> HIDE DEF D, f, older, upTo, before
<1>7. SumFunctionOnSet(f, upTo) = f[i] + SumFunctionOnSet(f, older)
  BY <1>4, <1>5, SumRemove
<1>8. SumFunctionOnSet(f, upTo) <= SumFunctionOnSet(f, before)
  BY <1>4, <1>5, SumSubset
<1>9. f[i] + Before(seen, i) <= Before(seen, j)
  BY <1>3, <1>7, <1>8
<1>10. amount - Before(seen, j) > 0
  BY AllocationShares
<1>11. amount - Before(seen, i) > f[i]
  BY <1>3, <1>6, <1>9, <1>10
<1>12. i \in DOMAIN AllocationsOldestFirst(seen, amount)
  <2>1. amount - Before(seen, i) > 0
    BY <1>3, <1>6, <1>11
  <2>2. QED
    BY <2>1, AllocationShares
<1>13. Share(seen, amount, i) = seen[i].balance
  BY <1>3, <1>6, <1>11 DEF Share
<1>14. QED
  BY <1>12, <1>13, AllocationShares
=============================================================================
