--------------------------- MODULE SendQueueProofs ---------------------------
(***************************************************************************)
(* Proofs about SendQueue, for every number of threads and blocks: no      *)
(* block of a connection leaks or is shared, a chunk that is queued is     *)
(* never forgotten, and none of what it holds is lost.                     *)
(***************************************************************************)
EXTENDS SendQueue, FiniteSetTheorems, WellFoundedInduction, TLAPS

-----------------------------------------------------------------------------
(* Sequences of blocks without repetition.                                 *)

LEMMA AppendOne ==
  ASSUME NEW s \in Seq(Blocks), NEW b \in Blocks
  PROVE  /\ Append(s, b) \in Seq(Blocks) /\ Len(Append(s, b)) = Len(s) + 1
         /\ ToSet(Append(s, b)) = ToSet(s) \cup {b}
         /\ IsInjective(s) /\ b \notin ToSet(s) => IsInjective(Append(s, b))
<1>1. Append(s, b) \in Seq(Blocks) /\ Len(Append(s, b)) = Len(s) + 1
  OBVIOUS
<1>2. Append(s, b)[Len(s) + 1] = b /\ \A i \in 1 .. Len(s) : Append(s, b)[i] = s[i]
  OBVIOUS
<1>3. ToSet(Append(s, b)) = ToSet(s) \cup {b}
  BY <1>1, <1>2 DEF ToSet
<1>4. IsInjective(s) /\ b \notin ToSet(s) => IsInjective(Append(s, b))
  BY <1>1, <1>2 DEF ToSet, IsInjective
<1> QED  BY <1>1, <1>3, <1>4

LEMMA TailLessOne ==
  ASSUME NEW s \in Seq(Blocks), s # <<>>, IsInjective(s)
  PROVE  /\ Head(s) \in ToSet(s) /\ Head(s) \in Blocks
         /\ Tail(s) \in Seq(Blocks) /\ Len(Tail(s)) = Len(s) - 1
         /\ ToSet(Tail(s)) = ToSet(s) \ {Head(s)} /\ IsInjective(Tail(s))
<1>1. Tail(s) \in Seq(Blocks) /\ Len(Tail(s)) = Len(s) - 1
      /\ DOMAIN Tail(s) = 1 .. Len(s) - 1
      /\ \A i \in 1 .. Len(s) - 1 : Tail(s)[i] = s[i + 1]
  OBVIOUS
<1>2. Len(s) \in Nat \ {0} /\ Head(s) = s[1]
  OBVIOUS
<1>3. Head(s) \in ToSet(s) /\ Head(s) \in Blocks
  BY <1>2 DEF ToSet
<1>4. ToSet(Tail(s)) \subseteq ToSet(s) \ {Head(s)}
  BY <1>1, <1>2 DEF ToSet, IsInjective
<1>5. ASSUME NEW b \in ToSet(s) \ {Head(s)}  PROVE b \in ToSet(Tail(s))
  <2>1. PICK i \in 1 .. Len(s) : b = s[i]
    BY DEF ToSet
  <2>2. i # 1
    BY <1>2, <2>1
  <2>3. i - 1 \in 1 .. Len(s) - 1 /\ Tail(s)[i - 1] = b
    BY <1>1, <2>1, <2>2
  <2> QED  BY <1>1, <2>3 DEF ToSet
<1>6. IsInjective(Tail(s))
  BY <1>1, <1>2 DEF IsInjective
<1> QED  BY <1>1, <1>3, <1>4, <1>5, <1>6

LEMMA FrontLessOne ==
  ASSUME NEW s \in Seq(Blocks), s # <<>>, IsInjective(s)
  PROVE  /\ Last(s) \in ToSet(s) /\ Last(s) \in Blocks
         /\ Front(s) \in Seq(Blocks) /\ Len(Front(s)) = Len(s) - 1
         /\ ToSet(Front(s)) = ToSet(s) \ {Last(s)} /\ IsInjective(Front(s))
<1>1. Front(s) \in Seq(Blocks) /\ Len(Front(s)) = Len(s) - 1
      /\ DOMAIN Front(s) = 1 .. Len(s) - 1
      /\ \A i \in 1 .. Len(s) - 1 : Front(s)[i] = s[i]
  <2>1. Len(s) - 1 \in 0 .. Len(s) /\ Len(s) \in Nat
    OBVIOUS
  <2>2. Front(s) = [i \in 1 .. Len(s) - 1 |-> s[i]]
    BY <2>1 DEF Front
  <2>3. \A i \in 1 .. Len(s) - 1 : s[i] \in Blocks
    OBVIOUS
  <2> QED  BY <2>1, <2>2, <2>3
<1>2. Len(s) \in Nat \ {0} /\ Last(s) = s[Len(s)]
  BY DEF Last
<1>3. Last(s) \in ToSet(s) /\ Last(s) \in Blocks
  BY <1>2 DEF ToSet
<1>4. ToSet(Front(s)) \subseteq ToSet(s) \ {Last(s)}
  BY <1>1, <1>2 DEF ToSet, IsInjective
<1>5. ASSUME NEW b \in ToSet(s) \ {Last(s)}  PROVE b \in ToSet(Front(s))
  <2>1. PICK i \in 1 .. Len(s) : b = s[i]
    BY DEF ToSet
  <2>2. i # Len(s)
    BY <1>2, <2>1
  <2> QED  BY <1>1, <2>1, <2>2 DEF ToSet
<1>6. IsInjective(Front(s))
  BY <1>1, <1>2 DEF IsInjective
<1> QED  BY <1>1, <1>3, <1>4, <1>5, <1>6

LEMMA Concatenation ==
  ASSUME NEW s \in Seq(Blocks), NEW t \in Seq(Blocks)
  PROVE  /\ s \o t \in Seq(Blocks) /\ Len(s \o t) = Len(s) + Len(t)
         /\ ToSet(s \o t) = ToSet(s) \cup ToSet(t)
         /\ IsInjective(s \o t) <=>
              IsInjective(s) /\ IsInjective(t) /\ ToSet(s) \cap ToSet(t) = {}
<1>1. s \o t \in Seq(Blocks) /\ Len(s \o t) = Len(s) + Len(t)
  OBVIOUS
<1>2. \A i \in 1 .. Len(s) : (s \o t)[i] = s[i]
  OBVIOUS
<1>3. \A i \in 1 .. Len(t) : (s \o t)[Len(s) + i] = t[i]
  OBVIOUS
<1>4. \A i \in 1 .. Len(s \o t) :
        i \in 1 .. Len(s) \/ \E j \in 1 .. Len(t) : i = Len(s) + j
  <2> SUFFICES ASSUME NEW i \in 1 .. Len(s \o t), i \notin 1 .. Len(s)
               PROVE  i - Len(s) \in 1 .. Len(t) /\ i = Len(s) + (i - Len(s))
    OBVIOUS
  <2> QED  BY <1>1
<1>5. ToSet(s \o t) = ToSet(s) \cup ToSet(t)
  <2>1. ToSet(s \o t) \subseteq ToSet(s) \cup ToSet(t)
    BY <1>1, <1>2, <1>3, <1>4 DEF ToSet
  <2>2. ToSet(s) \subseteq ToSet(s \o t)
    BY <1>1, <1>2 DEF ToSet
  <2>3. ToSet(t) \subseteq ToSet(s \o t)
    <3> SUFFICES ASSUME NEW i \in 1 .. Len(t)  PROVE t[i] \in ToSet(s \o t)
      BY DEF ToSet
    <3>1. Len(s) + i \in 1 .. Len(s \o t)
      BY <1>1
    <3> QED  BY <1>1, <1>3, <3>1 DEF ToSet
  <2> QED  BY <2>1, <2>2, <2>3
<1>6. ASSUME IsInjective(s \o t)
      PROVE  IsInjective(s) /\ IsInjective(t) /\ ToSet(s) \cap ToSet(t) = {}
  <2>1. IsInjective(s)
    BY <1>1, <1>2, <1>6 DEF IsInjective
  <2>2. IsInjective(t)
    <3> SUFFICES ASSUME NEW i \in 1 .. Len(t), NEW j \in 1 .. Len(t), t[i] = t[j]
                 PROVE  i = j
      BY DEF IsInjective
    <3>1. Len(s) + i \in 1 .. Len(s \o t) /\ Len(s) + j \in 1 .. Len(s \o t)
      BY <1>1
    <3>2. Len(s) + i = Len(s) + j
      BY <1>1, <1>3, <1>6, <3>1 DEF IsInjective
    <3> QED  BY <3>2
  <2>3. ASSUME NEW i \in 1 .. Len(s), NEW j \in 1 .. Len(t), s[i] = t[j]
        PROVE  FALSE
    <3>1. i \in 1 .. Len(s \o t) /\ Len(s) + j \in 1 .. Len(s \o t) /\ i # Len(s) + j
      BY <1>1
    <3>2. (s \o t)[i] = (s \o t)[Len(s) + j]
      BY <1>2, <1>3, <2>3
    <3> QED  BY <1>1, <1>6, <3>1, <3>2 DEF IsInjective
  <2> QED  BY <2>1, <2>2, <2>3 DEF ToSet
<1>7. ASSUME IsInjective(s), IsInjective(t), ToSet(s) \cap ToSet(t) = {}
      PROVE  IsInjective(s \o t)
  <2>1. \A i \in 1 .. Len(s), j \in 1 .. Len(t) : s[i] # t[j]
    BY <1>7 DEF ToSet
  <2> SUFFICES ASSUME NEW i \in 1 .. Len(s \o t), NEW j \in 1 .. Len(s \o t),
                      (s \o t)[i] = (s \o t)[j]
               PROVE  i = j
    BY <1>1 DEF IsInjective
  <2>2. CASE i \in 1 .. Len(s) /\ j \in 1 .. Len(s)
    BY <1>2, <1>7, <2>2 DEF IsInjective
  <2>3. CASE i \in 1 .. Len(s) /\ \E l \in 1 .. Len(t) : j = Len(s) + l
    BY <1>2, <1>3, <2>1, <2>3
  <2>4. CASE (\E k \in 1 .. Len(t) : i = Len(s) + k) /\ j \in 1 .. Len(s)
    BY <1>2, <1>3, <2>1, <2>4
  <2>5. ASSUME NEW k \in 1 .. Len(t), NEW l \in 1 .. Len(t), i = Len(s) + k, j = Len(s) + l
        PROVE  i = j
    <3>1. t[k] = t[l]
      BY <1>3, <2>5
    <3> QED  BY <1>7, <2>5, <3>1 DEF IsInjective
  <2> QED  BY <1>4, <2>2, <2>3, <2>4, <2>5
<1> QED  BY <1>1, <1>5, <1>6, <1>7

-----------------------------------------------------------------------------
(* Sums over finite sets.                                                  *)

LEMMA LeastOf ==
  ASSUME NEW N, N \subseteq Nat, N # {}
  PROVE  \E x \in N : \A y \in N : ~(y < x)
<1> DEFINE R == OpToRel(<, Nat)
<1>1. IsWellFoundedOn(R, Nat)
  BY NatLessThanWellFounded
<1>2. PICK x \in N : \A y \in N : <<y, x>> \notin R
  BY ONLY <1>1, WFMin, N \subseteq Nat, N # {}
<1> QED  BY <1>2 DEF OpToRel

(* A family of subsets of a finite set has a member that contains no other.*)
LEMMA SmallestOf ==
  ASSUME NEW S, IsFiniteSet(S), NEW B \in SUBSET SUBSET S, B # {}
  PROVE  \E s \in B : \A t \in B : t \subseteq s => t = s
<1> DEFINE N == {Cardinality(s) : s \in B}
<1>1. \A s \in B : IsFiniteSet(s) /\ Cardinality(s) \in Nat
  BY FS_Subset, FS_CardinalityType
<1>2. N \subseteq Nat /\ N # {}
  BY <1>1
<1>5. PICK n \in N : \A m \in N : ~(m < n)
  <2> HIDE DEF N
  <2> QED  BY <1>2, LeastOf
<1>6. PICK s \in B : n = Cardinality(s)
  OBVIOUS
<1>7. ASSUME NEW t \in B, t \subseteq s, t # s
      PROVE  FALSE
  <2>1. Cardinality(t) < Cardinality(s)
    BY <1>1, <1>7, FS_Subset
  <2> QED  BY <1>5, <1>6, <2>1
<1> QED  BY <1>7

(* The equation that FoldFunctionOnSet solves: one element at a time.      *)
One(s) == CHOOSE x \in s : TRUE

Solves(f, S, g) ==
  g = [s \in SUBSET S |-> IF s = {} THEN 0 ELSE f[One(s)] + g[s \ {One(s)}]]

Sum(f, S) == FoldFunctionOnSet(+, 0, f, S)

LEMMA OneIs ==
  ASSUME NEW s, s # {}
  PROVE  One(s) \in s
BY DEF One

LEMMA SumIs ==
  ASSUME NEW f, NEW S
  PROVE  Sum(f, S) = (CHOOSE g : Solves(f, S, g))[S]
BY DEF Sum, Solves, One, FoldFunctionOnSet, MapThenFoldSet

(* Two solutions agree where both are defined: they could not differ on a  *)
(* smallest set.                                                           *)
LEMMA SolutionsAgree ==
  ASSUME NEW S, IsFiniteSet(S), NEW T \in SUBSET S, NEW f, NEW g, NEW h,
         Solves(f, S, g), Solves(f, T, h)
  PROVE  \A s \in SUBSET T : g[s] = h[s]
<1> DEFINE B == {s \in SUBSET T : g[s] # h[s]}
<1>1. SUFFICES ASSUME B # {}
               PROVE  FALSE
  OBVIOUS
<1>2. PICK s \in B : \A t \in B : t \subseteq s => t = s
  <2>1. B \in SUBSET SUBSET S
    OBVIOUS
  <2> HIDE DEF B
  <2> QED  BY <1>1, <2>1, SmallestOf
<1>3. s \in SUBSET T /\ s \in SUBSET S
  OBVIOUS
<1>4. /\ g[s] = IF s = {} THEN 0 ELSE f[One(s)] + g[s \ {One(s)}]
      /\ h[s] = IF s = {} THEN 0 ELSE f[One(s)] + h[s \ {One(s)}]
  BY <1>3 DEF Solves
<1>5. s # {}
  BY <1>2, <1>4
<1>6. g[s \ {One(s)}] = h[s \ {One(s)}]
  BY <1>2, <1>3, <1>5, OneIs
<1> QED  BY <1>2, <1>4, <1>5, <1>6

(* The equation has a solution: a solution for the proper subsets of a set *)
(* extends to the set.                                                     *)
LEMMA SolutionExists ==
  ASSUME NEW S, IsFiniteSet(S), NEW f
  PROVE  \E g : Solves(f, S, g)
<1> DEFINE B == {s \in SUBSET S : ~\E g : Solves(f, s, g)}
<1>1. SUFFICES ASSUME B # {}
               PROVE  FALSE
  OBVIOUS
<1>2. PICK s \in B : \A t \in B : t \subseteq s => t = s
  <2>1. B \in SUBSET SUBSET S
    OBVIOUS
  <2> HIDE DEF B
  <2> QED  BY <1>1, <2>1, SmallestOf
<1>3. s \in SUBSET S /\ ~\E g : Solves(f, s, g)
  OBVIOUS
<1>4. \A t \in SUBSET s : IsFiniteSet(t)
  BY <1>3, FS_Subset
<1> DEFINE G(t) == CHOOSE g : Solves(f, t, g)
           Val(t) == IF t = {} THEN 0 ELSE f[One(t)] + G(t \ {One(t)})[t \ {One(t)}]
           V == [t \in SUBSET s |-> Val(t)]
<1>5. \A t \in SUBSET s : t # s => Solves(f, t, G(t))
  <2> SUFFICES ASSUME NEW t \in SUBSET s, t # s
               PROVE  \E g : Solves(f, t, g)
    BY Zenon
  <2> QED  BY <1>2, <1>3
<1>6. \A t \in SUBSET s : t # s => V[t] = G(t)[t]
  <2> SUFFICES ASSUME NEW t \in SUBSET s, t # s
               PROVE  Val(t) = G(t)[t]
    OBVIOUS
  <2>1. Solves(f, t, G(t))
    BY <1>5
  <2> DEFINE g == G(t)
  <2>2. g[t] = IF t = {} THEN 0 ELSE f[One(t)] + g[t \ {One(t)}]
    <3> HIDE DEF g
    <3>1. Solves(f, t, g) /\ t \in SUBSET t
      BY <2>1 DEF g
    <3> QED  BY <3>1 DEF Solves
  <2>3. CASE t = {}
    BY <2>2, <2>3
  <2>4. CASE t # {}
    <3> DEFINE u == t \ {One(t)}
    <3>1. u \in SUBSET t /\ u \in SUBSET s /\ u # s
      BY <2>4, OneIs
    <3>2. Solves(f, u, G(u))
      BY <1>5, <3>1
    <3>3. IsFiniteSet(t)
      BY <1>4
    <3>4. g[u] = G(u)[u]
      <4> DEFINE h == G(u)
      <4>1. Solves(f, t, g) /\ Solves(f, u, h)
        BY <2>1, <3>2
      <4> HIDE DEF g, h, G, u
      <4>2. \A v \in SUBSET u : g[v] = h[v]
        BY <3>1, <3>3, <4>1, SolutionsAgree
      <4> QED  BY <4>2 DEF h
    <3> QED  BY <2>2, <2>4, <3>4
  <2> QED  BY <2>3, <2>4
<1>7. \A t \in SUBSET s : V[t] = IF t = {} THEN 0 ELSE f[One(t)] + V[t \ {One(t)}]
  <2> SUFFICES ASSUME NEW t \in SUBSET s
               PROVE  V[t] = IF t = {} THEN 0 ELSE f[One(t)] + V[t \ {One(t)}]
    OBVIOUS
  <2>1. V[t] = Val(t)
    OBVIOUS
  <2>2. CASE t = {}
    BY <2>1, <2>2
  <2>3. CASE t # {}
    <3>1. t \ {One(t)} \in SUBSET s /\ t \ {One(t)} # s
      BY <2>3, OneIs
    <3>2. V[t \ {One(t)}] = G(t \ {One(t)})[t \ {One(t)}]
      BY <1>6, <3>1
    <3> HIDE DEF G, V
    <3> QED  BY <2>1, <2>3, <3>2
  <2> QED  BY <2>2, <2>3
<1>8. Solves(f, s, V)
  <2>1. V = [t \in SUBSET s |-> V[t]]
    OBVIOUS
  <2> HIDE DEF V
  <2> QED  BY <1>7, <2>1 DEF Solves
<1> QED  BY <1>3, <1>8

LEMMA SumOne ==
  ASSUME NEW S, IsFiniteSet(S), NEW f
  PROVE  Sum(f, S) = IF S = {} THEN 0 ELSE f[One(S)] + Sum(f, S \ {One(S)})
<1> DEFINE T == S \ {One(S)}
           g == CHOOSE w : Solves(f, S, w)
           h == CHOOSE w : Solves(f, T, w)
<1>1. T \in SUBSET S /\ IsFiniteSet(T)
  BY FS_Subset
<1>2. Solves(f, S, g) /\ Solves(f, T, h)
  <2>1. (\E w : Solves(f, S, w)) /\ \E w : Solves(f, T, w)
    <3> HIDE DEF T
    <3> QED  BY <1>1, SolutionExists
  <2> QED  BY <2>1, Zenon
<1>3. Sum(f, S) = g[S] /\ Sum(f, T) = h[T]
  BY SumIs
<1> HIDE DEF g, h
<1>4. g[T] = h[T]
  <2> HIDE DEF T
  <2> QED  BY <1>1, <1>2, SolutionsAgree
<1>5. g[S] = IF S = {} THEN 0 ELSE f[One(S)] + g[T]
  BY <1>2 DEF Solves
<1> QED  BY <1>3, <1>4, <1>5

LEMMA SumEmpty ==
  ASSUME NEW f
  PROVE  Sum(f, {}) = 0
BY FS_EmptySet, SumOne

LEMMA SumInt ==
  ASSUME NEW S, IsFiniteSet(S), NEW f, \A x \in S : f[x] \in Int
  PROVE  Sum(f, S) \in Int
<1> DEFINE B == {s \in SUBSET S : Sum(f, s) \notin Int}
<1>1. SUFFICES ASSUME B # {}
               PROVE  FALSE
  OBVIOUS
<1>2. PICK s \in B : \A t \in B : t \subseteq s => t = s
  <2>1. B \in SUBSET SUBSET S
    OBVIOUS
  <2> HIDE DEF B
  <2> QED  BY <1>1, <2>1, SmallestOf
<1>3. s \in SUBSET S /\ IsFiniteSet(s) /\ Sum(f, s) \notin Int
  BY FS_Subset
<1>4. s # {}
  BY <1>3, SumEmpty
<1>5. One(s) \in s /\ Sum(f, s) = f[One(s)] + Sum(f, s \ {One(s)})
  BY <1>3, <1>4, OneIs, SumOne
<1>6. s \ {One(s)} \in SUBSET S /\ s \ {One(s)} # s
  BY <1>3, <1>5
<1>7. Sum(f, s \ {One(s)}) \in Int
  BY <1>2, <1>6
<1> QED  BY <1>3, <1>5, <1>7

(* Any element can be taken out, not only the one that the fold takes.     *)
LEMMA SumRemove ==
  ASSUME NEW S, IsFiniteSet(S), NEW f, \A x \in S : f[x] \in Int, NEW z \in S
  PROVE  Sum(f, S) = f[z] + Sum(f, S \ {z})
<1> DEFINE Bad(s) == \E y \in s : Sum(f, s) # f[y] + Sum(f, s \ {y})
           B == {s \in SUBSET S : Bad(s)}
<1>1. SUFFICES ASSUME B # {}
               PROVE  FALSE
  <2> SUFFICES B = {}
    OBVIOUS
  <2> HIDE DEF B
  <2> QED  OBVIOUS
<1>2. PICK s \in B : \A t \in B : t \subseteq s => t = s
  <2>1. B \in SUBSET SUBSET S
    OBVIOUS
  <2> HIDE DEF B
  <2> QED  BY <1>1, <2>1, SmallestOf
<1>3. s \in SUBSET S /\ IsFiniteSet(s) /\ Bad(s)
  BY FS_Subset
<1>4. PICK y \in s : Sum(f, s) # f[y] + Sum(f, s \ {y})
  BY <1>3
<1> DEFINE x == One(s)
<1>5. x \in s /\ Sum(f, s) = f[x] + Sum(f, s \ {x})
  BY <1>3, <1>4, OneIs, SumOne
<1> HIDE DEF x
<1>6. x # y
  BY <1>4, <1>5
<1>7. ASSUME NEW t \in SUBSET S, t \subseteq s, t # s, NEW w \in t
      PROVE  Sum(f, t) = f[w] + Sum(f, t \ {w})
  BY <1>2, <1>7
<1>8. Sum(f, s \ {x}) = f[y] + Sum(f, (s \ {x}) \ {y})
  <2>1. s \ {x} \in SUBSET S /\ s \ {x} # s /\ y \in s \ {x}
    BY <1>3, <1>5, <1>6
  <2> QED  BY <1>7, <2>1
<1>9. Sum(f, s \ {y}) = f[x] + Sum(f, (s \ {x}) \ {y})
  <2>1. s \ {y} \in SUBSET S /\ s \ {y} # s /\ x \in s \ {y}
    BY <1>3, <1>5, <1>6
  <2>2. (s \ {y}) \ {x} = (s \ {x}) \ {y}
    OBVIOUS
  <2> QED  BY <1>7, <2>1, <2>2
<1>10. f[x] \in Int /\ f[y] \in Int /\ Sum(f, (s \ {x}) \ {y}) \in Int
  <2>1. IsFiniteSet((s \ {x}) \ {y}) /\ \A w \in (s \ {x}) \ {y} : f[w] \in Int
    BY <1>3, FS_Subset
  <2> QED  BY <1>3, <1>5, <2>1, SumInt
<1> QED  BY ONLY <1>4, <1>5, <1>8, <1>9, <1>10

(* The sum is of the values in the set, whatever the function is outside.  *)
LEMMA SumAgree ==
  ASSUME NEW S, IsFiniteSet(S), NEW f, NEW g, \A x \in S : f[x] = g[x]
  PROVE  Sum(f, S) = Sum(g, S)
<1> DEFINE B == {s \in SUBSET S : Sum(f, s) # Sum(g, s)}
<1>1. SUFFICES ASSUME B # {}
               PROVE  FALSE
  OBVIOUS
<1>2. PICK s \in B : \A t \in B : t \subseteq s => t = s
  <2>1. B \in SUBSET SUBSET S
    OBVIOUS
  <2> HIDE DEF B
  <2> QED  BY <1>1, <2>1, SmallestOf
<1>3. s \in SUBSET S /\ IsFiniteSet(s) /\ Sum(f, s) # Sum(g, s)
  BY FS_Subset
<1>4. s # {}
  BY <1>3, SumEmpty
<1> DEFINE x == One(s)
<1>5. x \in s
  BY <1>4, OneIs
<1>6. Sum(f, s) = f[x] + Sum(f, s \ {x}) /\ Sum(g, s) = g[x] + Sum(g, s \ {x})
  BY <1>3, <1>4, SumOne
<1> HIDE DEF x
<1>7. s \ {x} \in SUBSET S /\ s \ {x} # s
  BY <1>3, <1>5
<1>8. Sum(f, s \ {x}) = Sum(g, s \ {x})
  BY <1>2, <1>7
<1> QED  BY <1>3, <1>5, <1>6, <1>8

-----------------------------------------------------------------------------
(* The inductive invariant.                                                *)

(* The threads that have a block in hand.                                  *)
Held == {u \in Users : user[u].block # None}

(* BlocksAccounted, one place at a time.                                   *)
Apart ==
  /\ IsInjective(sendq) /\ IsInjective(qleft)
  /\ ToSet(sendq) \cap ToSet(qleft) = {}
  /\ \A u, v \in Held : user[u].block = user[v].block => u = v
  /\ \A u \in Held : user[u].block \notin ToSet(sendq) \cup ToSet(qleft)
  /\ Len(sendq) + Len(qleft) + Cardinality(Held) = nblocks

(* The blocks of qblocks that were never taken are in no place.            *)
FreshUntouched ==
  /\ \A b \in ToSet(sendq) \cup ToSet(qleft) : b < nblocks
  /\ \A u \in Held : user[u].block < nblocks

(* A thread has a block exactly while it fills and queues it, and the      *)
(* waiting thread a pointer to the head while it writes.                   *)
HandsFit ==
  /\ \A u \in Users : user[u].at \in {"held", "filled"} <=> user[u].block # None
  /\ writer.at \in {"write", "drop"} => writer.cp \in Blocks

Announced ==
  \/ armed \/ outs > 0 \/ ends > 0
  \/ \E u \in Users : user[u].at \in {"queued", "clearing"}

(* QueueIsWatched, with what the waiting thread relies on: an event called *)
(* it, and stays armed until it decides, or OUT did, and then it arms the  *)
(* event at the end.                                                       *)
Watched ==
  /\ writer.at \notin {"idle", "return"} /\ ~writer.out => armed
  /\ /\ sendq # <<>> /\ ~closed
     /\ writer.at = "idle" \/ (writer.at = "return" /\ ~writer.out)
     => Announced

Places == Apart /\ FreshUntouched

IInv == TypeOK /\ Places /\ HandsFit /\ Watched

(* The state of a thread as a type of its own.                             *)
UserTypes ==
  user \in [Users -> [at : {"idle", "held", "filled", "queued", "clearing"},
                     block : Blocks \cup {None}]]

QueueTypes ==
  /\ sendq \in Seq(Blocks) /\ qleft \in Seq(Blocks)
  /\ nblocks \in 0 .. QBlockMax

LEMMA ApartIsAccounted ==
  ASSUME QueueTypes, Apart
  PROVE  BlocksAccounted
<1>1. /\ sendq \o qleft \in Seq(Blocks)
      /\ Len(sendq \o qleft) = Len(sendq) + Len(qleft)
      /\ ToSet(sendq \o qleft) = ToSet(sendq) \cup ToSet(qleft)
      /\ IsInjective(sendq \o qleft)
  BY Concatenation DEF QueueTypes, Apart
<1> QED  BY <1>1 DEF Apart, BlocksAccounted, Held

LEMMA HeldIsFinite == IsFiniteSet(Held) /\ IsFiniteSet(Held')
<1>1. Held \in SUBSET Users /\ Held' \in SUBSET Users
  BY DEF Held
<1> QED  BY <1>1, SendAssumption, FS_Subset

-----------------------------------------------------------------------------
(* How blocks move.                                                        *)

(* Nobody moves.                                                           *)
LEMMA StayApart ==
  ASSUME Places, UNCHANGED <<sendq, qleft, nblocks>>,
         \A u \in Users : user'[u].block = user[u].block
  PROVE  Places'
<1>1. Held' = Held
  BY DEF Held
<1>2. \A u \in Held : u \in Users
  BY DEF Held
<1> QED  BY <1>1, <1>2 DEF Places, Apart, FreshUntouched

(* conn_popchunk: from qleft or qblocks to a thread.                       *)
LEMMA TakeBlock ==
  ASSUME QueueTypes, UserTypes, Places, NEW u \in Users, user[u].block = None,
         NEW b \in Blocks, PopChunk(b), NEW at, To(u, at, b), sendq' = sendq
  PROVE  QueueTypes' /\ Places'
<1>1. user'[u].block = b /\ \A v \in Users \ {u} : user'[v].block = user[v].block
  BY DEF To, UserTypes
<1>2. b # None
  BY SendAssumption DEF Blocks, None
<1>3. Held' = Held \cup {u} /\ u \notin Held
  BY <1>1, <1>2 DEF Held
<1>4. Cardinality(Held') = Cardinality(Held) + 1 /\ Cardinality(Held) \in Nat
  BY <1>3, HeldIsFinite, FS_AddElement, FS_CardinalityType
<1>5. \A v \in Held : v \in Users \ {u} /\ user'[v].block = user[v].block
  BY <1>1, <1>3 DEF Held
<1>6. CASE qleft # <<>> /\ b = Last(qleft) /\ qleft' = Front(qleft) /\ UNCHANGED nblocks
  <2>1. /\ b \in ToSet(qleft) /\ qleft' \in Seq(Blocks) /\ Len(qleft') = Len(qleft) - 1
        /\ ToSet(qleft') = ToSet(qleft) \ {b} /\ IsInjective(qleft')
    BY <1>6, FrontLessOne DEF QueueTypes, Places, Apart
  <2>2. QueueTypes'
    BY <1>6, <2>1 DEF QueueTypes
  <2>3. Len(sendq) \in Nat /\ Len(qleft) \in Nat
    BY DEF QueueTypes
  <2>4. Apart'
    BY <1>1, <1>3, <1>4, <1>5, <1>6, <2>1, <2>3 DEF Places, Apart
  <2>5. FreshUntouched'
    BY <1>1, <1>3, <1>5, <1>6, <2>1 DEF Places, FreshUntouched
  <2> QED  BY <2>2, <2>4, <2>5 DEF Places
<1>7. CASE /\ qleft = <<>> /\ nblocks < QBlockMax /\ b = nblocks
           /\ nblocks' = nblocks + 1 /\ UNCHANGED qleft
  <2>1. QueueTypes'
    BY <1>7, SendAssumption DEF QueueTypes
  <2>2. nblocks \in Nat /\ Len(sendq) \in Nat /\ Len(qleft) \in Nat
    BY SendAssumption DEF QueueTypes
  <2>3. b \notin ToSet(sendq) \cup ToSet(qleft) /\ \A v \in Held : user[v].block # b
    BY <1>7, <2>2 DEF Places, FreshUntouched
  <2>4. Apart'
    BY <1>1, <1>3, <1>4, <1>5, <1>7, <2>2, <2>3 DEF Places, Apart
  <2>5. FreshUntouched'
    <3>1. \A c \in Blocks : c \in Int
      BY SendAssumption DEF Blocks
    <3>2. ToSet(sendq) \subseteq Blocks /\ ToSet(qleft) \subseteq Blocks
      BY DEF QueueTypes, ToSet
    <3>3. \A v \in Held : user[v].block \in Blocks
      BY DEF Held, UserTypes
    <3>4. \A c \in ToSet(sendq) \cup ToSet(qleft) : c < nblocks'
      BY <1>7, <2>2, <3>1, <3>2 DEF Places, FreshUntouched
    <3>5. \A v \in Held : user[v].block < nblocks'
      BY <1>7, <2>2, <3>1, <3>3 DEF Places, FreshUntouched
    <3>6. b < nblocks'
      BY <1>7, <2>2
    <3> QED  BY <1>1, <1>3, <1>5, <1>7, <3>4, <3>5, <3>6 DEF FreshUntouched
  <2> QED  BY <2>1, <2>4, <2>5 DEF Places
<1> QED  BY <1>6, <1>7 DEF PopChunk

(* A thread puts its block at the end of qleft (conn_freechunk) or of      *)
(* sendq (SENDQPUSH).                                                      *)
LEMMA GiveBlock ==
  ASSUME QueueTypes, UserTypes, Places, NEW u \in Users, user[u].block # None,
         NEW at, To(u, at, None), UNCHANGED nblocks,
         \/ qleft' = Append(qleft, user[u].block) /\ sendq' = sendq
         \/ sendq' = Append(sendq, user[u].block) /\ qleft' = qleft
  PROVE  QueueTypes' /\ Places'
<1> DEFINE b == user[u].block
<1>1. user'[u].block = None /\ \A v \in Users \ {u} : user'[v].block = user[v].block
  BY DEF To, UserTypes
<1>2. b \in Blocks /\ u \in Held
  BY DEF Held, UserTypes
<1>3. Held' = Held \ {u}
  BY <1>1 DEF Held
<1>4. Cardinality(Held') = Cardinality(Held) - 1 /\ Cardinality(Held) \in Nat
  BY <1>2, <1>3, HeldIsFinite, FS_RemoveElement, FS_CardinalityType
<1>5. \A v \in Held' : v \in Held /\ v # u /\ user'[v].block = user[v].block
  BY <1>1, <1>3 DEF Held
<1>6. b \notin ToSet(sendq) \cup ToSet(qleft) /\ b < nblocks
  BY <1>2 DEF Places, Apart, FreshUntouched
<1>7. \A v \in Held' : user'[v].block # b
  BY <1>2, <1>5 DEF Places, Apart
<1>8. Len(sendq) \in Nat /\ Len(qleft) \in Nat
  BY DEF QueueTypes
<1> HIDE DEF b
<1>9. CASE qleft' = Append(qleft, b) /\ sendq' = sendq
  <2>1. /\ qleft' \in Seq(Blocks) /\ Len(qleft') = Len(qleft) + 1
        /\ ToSet(qleft') = ToSet(qleft) \cup {b} /\ IsInjective(qleft')
    BY <1>2, <1>6, <1>9, AppendOne DEF QueueTypes, Places, Apart
  <2>2. Apart'
    BY <1>3, <1>4, <1>5, <1>6, <1>7, <1>8, <1>9, <2>1 DEF Places, Apart
  <2>3. FreshUntouched'
    BY <1>5, <1>6, <1>9, <2>1 DEF Places, FreshUntouched
  <2> QED  BY <1>9, <2>1, <2>2, <2>3 DEF Places, QueueTypes
<1>10. CASE sendq' = Append(sendq, b) /\ qleft' = qleft
  <2>1. /\ sendq' \in Seq(Blocks) /\ Len(sendq') = Len(sendq) + 1
        /\ ToSet(sendq') = ToSet(sendq) \cup {b} /\ IsInjective(sendq')
    BY <1>2, <1>6, <1>10, AppendOne DEF QueueTypes, Places, Apart
  <2>2. Apart'
    BY <1>3, <1>4, <1>5, <1>6, <1>7, <1>8, <1>10, <2>1 DEF Places, Apart
  <2>3. FreshUntouched'
    BY <1>5, <1>6, <1>10, <2>1 DEF Places, FreshUntouched
  <2> QED  BY <1>10, <2>1, <2>2, <2>3 DEF Places, QueueTypes
<1> QED  BY <1>9, <1>10 DEF b

(* SENDQPOP and conn_freechunk: from the head of sendq to qleft.           *)
LEMMA DropBlock ==
  ASSUME QueueTypes, Places, left \in [Blocks -> 0 .. MaxSize], DropHead,
         UNCHANGED nblocks, \A u \in Users : user'[u].block = user[u].block
  PROVE  QueueTypes' /\ Places' /\ left' \in [Blocks -> 0 .. MaxSize]
<1>1. CASE sendq = <<>>
  BY <1>1, StayApart DEF DropHead, QueueTypes
<1>2. CASE sendq # <<>>
  <2> DEFINE b == Head(sendq)
  <2>1. /\ sendq' = Tail(sendq) /\ qleft' = Append(qleft, b)
        /\ left' = [left EXCEPT ![b] = 0]
    BY <1>2 DEF DropHead
  <2>2. /\ b \in ToSet(sendq) /\ b \in Blocks
        /\ sendq' \in Seq(Blocks) /\ Len(sendq') = Len(sendq) - 1
        /\ ToSet(sendq') = ToSet(sendq) \ {b} /\ IsInjective(sendq')
    BY <1>2, <2>1, TailLessOne DEF QueueTypes, Places, Apart
  <2>3. /\ qleft' \in Seq(Blocks) /\ Len(qleft') = Len(qleft) + 1
        /\ ToSet(qleft') = ToSet(qleft) \cup {b} /\ IsInjective(qleft')
    BY <2>1, <2>2, AppendOne DEF QueueTypes, Places, Apart
  <2>4. Held' = Held /\ \A u \in Held : user'[u].block = user[u].block
    BY DEF Held
  <2>5. Cardinality(Held) \in Nat /\ Len(sendq) \in Nat /\ Len(qleft) \in Nat
    BY HeldIsFinite, FS_CardinalityType DEF QueueTypes
  <2> HIDE DEF b
  <2>6. Apart'
    <3>1. ToSet(sendq') \cap ToSet(qleft') = {}
      BY <2>2, <2>3 DEF Places, Apart
    <3>2. \A u \in Held' : user'[u].block \notin ToSet(sendq') \cup ToSet(qleft')
      BY <2>2, <2>3, <2>4 DEF Places, Apart
    <3>3. \A u, v \in Held' : user'[u].block = user'[v].block => u = v
      BY <2>4 DEF Places, Apart
    <3>4. Len(sendq') + Len(qleft') + Cardinality(Held') = nblocks'
      BY <2>2, <2>3, <2>4, <2>5 DEF Places, Apart
    <3> QED  BY <2>2, <2>3, <3>1, <3>2, <3>3, <3>4 DEF Apart
  <2>7. FreshUntouched'
    BY <2>2, <2>3, <2>4 DEF Places, FreshUntouched
  <2>8. left' \in [Blocks -> 0 .. MaxSize]
    <3>1. 0 \in 0 .. MaxSize
      BY SendAssumption
    <3> QED  BY <2>1, <2>2, <3>1
  <2> QED  BY <2>2, <2>3, <2>6, <2>7, <2>8 DEF Places, QueueTypes
<1> QED  BY <1>1, <1>2

(* conn_reset: all of sendq goes to qleft.                                 *)
LEMMA ResetBlocks ==
  ASSUME QueueTypes, Places, sendq' = <<>>, qleft' = qleft \o sendq,
         UNCHANGED <<user, nblocks>>
  PROVE  QueueTypes' /\ Places'
<1>1. /\ qleft' \in Seq(Blocks) /\ Len(qleft') = Len(qleft) + Len(sendq)
      /\ ToSet(qleft') = ToSet(qleft) \cup ToSet(sendq) /\ IsInjective(qleft')
  BY Concatenation DEF QueueTypes, Places, Apart
<1>2. sendq' \in Seq(Blocks) /\ Len(sendq') = 0 /\ ToSet(sendq') = {} /\ IsInjective(sendq')
  BY DEF ToSet, IsInjective
<1>3. Held' = Held
  BY DEF Held
<1>4. Len(sendq) \in Nat /\ Len(qleft) \in Nat /\ Cardinality(Held) \in Nat
  BY HeldIsFinite, FS_CardinalityType DEF QueueTypes
<1>5. Apart'
  BY <1>1, <1>2, <1>3, <1>4 DEF Places, Apart
<1>6. FreshUntouched'
  BY <1>1, <1>2, <1>3 DEF Places, FreshUntouched
<1> QED  BY <1>1, <1>2, <1>5, <1>6 DEF Places, QueueTypes

-----------------------------------------------------------------------------
(* Steps of the threads that send.                                         *)

UserStates == {"idle", "held", "filled", "queued", "clearing"}

LEMMA TypesApply ==
  ASSUME TypeOK
  PROVE  /\ QueueTypes /\ UserTypes /\ left \in [Blocks -> 0 .. MaxSize]
         /\ None \notin Blocks
BY SendAssumption DEF TypeOK, QueueTypes, UserTypes, None, Blocks

(* A thread goes on to its next step.                                      *)
LEMMA UserGoesOn ==
  ASSUME IInv, NEW u \in Users, NEW at \in UserStates, NEW b \in Blocks \cup {None},
         To(u, at, b), at \in {"held", "filled"} <=> b # None, writer' = writer
  PROVE  /\ UserTypes' /\ HandsFit'
         /\ user'[u] = [at |-> at, block |-> b]
         /\ \A v \in Users \ {u} : user'[v] = user[v]
<1>1. UserTypes
  BY TypesApply DEF IInv
<1>2. UserTypes'
  BY <1>1 DEF To, UserTypes, UserStates
<1>3. user'[u] = [at |-> at, block |-> b] /\ \A v \in Users \ {u} : user'[v] = user[v]
  BY <1>1 DEF To, UserTypes
<1>4. HandsFit'
  BY <1>3 DEF IInv, HandsFit
<1> QED  BY <1>2, <1>3, <1>4

(* Nothing is forgotten in a step that leaves queue and events alone and   *)
(* lets no announcement go.                                                *)
LEMMA StillWatched ==
  ASSUME Watched, UNCHANGED <<sendq, closed, writer, armed, outs, ends>>,
         \A u \in Users : user[u].at \in {"queued", "clearing"} =>
                          user'[u].at \in {"queued", "clearing"}
  PROVE  Watched'
BY DEF Watched, Announced

(* conn_push_chunk and conn_newchunk.                                      *)
LEMMA TakeStep ==
  ASSUME IInv, NEW u \in Users, NEW size \in 0 .. MaxSize,
         PushChunk(u, size) \/ NewChunk(u, size)
  PROVE  IInv'
<1>1. PICK b \in Blocks, at \in {"filled", "held"} :
        /\ PopChunk(b) /\ left' = [left EXCEPT ![b] = size] /\ To(u, at, b)
  BY DEF PushChunk, NewChunk
<1>2. user[u].at = "idle" /\ UNCHANGED <<mode, sendq, pushes, writer, waitVars, closed, historyVars>>
  BY DEF PushChunk, NewChunk
<1>3. user[u].block = None
  BY <1>2 DEF IInv, HandsFit
<1>4. QueueTypes' /\ Places'
  BY <1>1, <1>2, <1>3, TakeBlock, TypesApply DEF IInv
<1>5. b # None
  BY TypesApply DEF IInv
<1>6. /\ UserTypes' /\ HandsFit' /\ user'[u] = [at |-> at, block |-> b]
      /\ \A v \in Users \ {u} : user'[v] = user[v]
  BY <1>1, <1>2, <1>5, UserGoesOn DEF UserStates
<1>7. left' \in [Blocks -> 0 .. MaxSize]
  BY <1>1, TypesApply DEF IInv
<1>8. TypeOK'
  BY <1>2, <1>4, <1>6, <1>7 DEF waitVars, historyVars, IInv, TypeOK, QueueTypes, UserTypes
<1>9. Watched'
  BY <1>2, <1>6, StillWatched DEF waitVars, IInv
<1> QED  BY <1>4, <1>6, <1>8, <1>9 DEF IInv

(* CONN_CHECK of conn_send_chunk.                                          *)
LEMMA SendChunkStep ==
  ASSUME IInv, NEW u \in Users, SendChunk(u)
  PROVE  IInv'
<1>1. /\ user[u].at = "held" /\ To(u, "filled", user[u].block)
      /\ UNCHANGED <<queueVars, pushes, writer, waitVars, closed, historyVars>>
  BY DEF SendChunk
<1>2. user[u].block # None /\ user[u].block \in Blocks
  BY <1>1, TypesApply DEF IInv, HandsFit, UserTypes
<1>3. /\ UserTypes' /\ HandsFit' /\ user'[u] = [at |-> "filled", block |-> user[u].block]
      /\ \A v \in Users \ {u} : user'[v] = user[v]
  BY <1>1, <1>2, UserGoesOn DEF UserStates
<1>4. Places'
  BY <1>1, <1>3, StayApart DEF queueVars, IInv
<1>5. TypeOK'
  BY <1>1, <1>3 DEF queueVars, waitVars, historyVars, IInv, TypeOK, UserTypes
<1>6. Watched'
  BY <1>1, <1>3, StillWatched DEF queueVars, waitVars, IInv
<1> QED  BY <1>3, <1>4, <1>5, <1>6 DEF IInv

LEMMA FreeChunkStep ==
  ASSUME IInv, NEW u \in Users, FreeChunk(u)
  PROVE  IInv'
<1> DEFINE b == user[u].block
<1>1. /\ user[u].at = "held" /\ To(u, "idle", None)
      /\ left' = [left EXCEPT ![b] = 0] /\ qleft' = Append(qleft, b)
      /\ UNCHANGED <<mode, sendq, nblocks, pushes, writer, waitVars, closed, historyVars>>
  BY DEF FreeChunk
<1>2. b # None
  BY <1>1 DEF IInv, HandsFit
<1>3. QueueTypes' /\ Places'
  BY <1>1, <1>2, GiveBlock, TypesApply DEF IInv
<1>4. /\ UserTypes' /\ HandsFit' /\ user'[u] = [at |-> "idle", block |-> None]
      /\ \A v \in Users \ {u} : user'[v] = user[v]
  BY <1>1, UserGoesOn DEF UserStates
<1>5. left' \in [Blocks -> 0 .. MaxSize]
  <2>1. 0 \in 0 .. MaxSize
    BY SendAssumption
  <2> QED  BY <1>1, <2>1, TypesApply DEF IInv
<1>6. TypeOK'
  BY <1>1, <1>3, <1>4, <1>5 DEF waitVars, historyVars, IInv, TypeOK, QueueTypes, UserTypes
<1>7. Watched'
  BY <1>1, <1>4, StillWatched DEF waitVars, IInv
<1> QED  BY <1>3, <1>4, <1>6, <1>7 DEF IInv

LEMMA EnqueueStep ==
  ASSUME IInv, NEW u \in Users, Enqueue(u)
  PROVE  IInv'
<1> DEFINE b == user[u].block
<1>1. /\ user[u].at = "filled" /\ To(u, "queued", None) /\ sendq' = Append(sendq, b)
      /\ pushes < MaxPushes /\ pushes' = pushes + 1 /\ owed' = owed + left[b]
      /\ UNCHANGED <<mode, left, qleft, nblocks, writer, waitVars, closed, crossed>>
  BY DEF Enqueue
<1>2. b # None /\ b \in Blocks
  BY <1>1, TypesApply DEF IInv, HandsFit, UserTypes
<1>3. QueueTypes' /\ Places'
  BY <1>1, <1>2, GiveBlock, TypesApply DEF IInv
<1>4. /\ UserTypes' /\ HandsFit' /\ user'[u] = [at |-> "queued", block |-> None]
      /\ \A v \in Users \ {u} : user'[v] = user[v]
  BY <1>1, UserGoesOn DEF UserStates
<1>5. owed' \in Int /\ pushes' \in 0 .. MaxPushes
  <2>1. left[b] \in Int
    BY <1>2, SendAssumption, TypesApply DEF IInv
  <2> QED  BY <1>1, <2>1, SendAssumption DEF IInv, TypeOK
<1>6. TypeOK'
  BY <1>1, <1>3, <1>4, <1>5 DEF waitVars, IInv, TypeOK, QueueTypes, UserTypes
<1>7. Watched'
  BY <1>1, <1>4 DEF waitVars, IInv, Watched, Announced
<1> QED  BY <1>3, <1>4, <1>6, <1>7 DEF IInv

LEMMA NotifyAnnounces ==
  ASSUME TypeOK, Notify
  PROVE  /\ armed' \in BOOLEAN /\ outs' \in Nat
         /\ armed' \/ outs' > 0
         /\ armed => armed'
<1>1. CASE armed' = TRUE /\ UNCHANGED outs
  BY <1>1 DEF TypeOK
<1>2. CASE outs' = outs + 1 /\ UNCHANGED armed
  <2>1. outs' \in Nat /\ outs' > 0
    BY <1>2 DEF TypeOK
  <2>2. armed' \in BOOLEAN
    BY <1>2 DEF TypeOK
  <2> QED  BY <1>2, <2>1, <2>2
<1> QED  BY <1>1, <1>2 DEF Notify

LEMMA AnnounceStep ==
  ASSUME IInv, NEW u \in Users, Announce(u)
  PROVE  IInv'
<1>1. /\ user[u].at = "queued" /\ To(u, "idle", None) /\ Notify
      /\ UNCHANGED <<queueVars, pushes, writer, ends, closed, historyVars>>
  BY DEF Announce
<1>2. user[u].block = None
  BY <1>1 DEF IInv, HandsFit
<1>3. /\ UserTypes' /\ HandsFit' /\ user'[u] = [at |-> "idle", block |-> None]
      /\ \A v \in Users \ {u} : user'[v] = user[v]
  BY <1>1, UserGoesOn DEF UserStates
<1>4. Places'
  BY <1>1, <1>2, <1>3, StayApart DEF queueVars, IInv
<1>5. armed' \in BOOLEAN /\ outs' \in Nat /\ (armed' \/ outs' > 0) /\ (armed => armed')
  BY <1>1, NotifyAnnounces DEF IInv
<1>6. TypeOK'
  BY <1>1, <1>3, <1>5 DEF queueVars, historyVars, IInv, TypeOK, UserTypes
<1>7. Watched'
  BY <1>1, <1>5 DEF IInv, Watched, Announced
<1> QED  BY <1>3, <1>4, <1>6, <1>7 DEF IInv

(* conn_start_cstate begins.                                               *)
LEMMA StartCstateStep ==
  ASSUME IInv, NEW u \in Users, StartCstate(u)
  PROVE  IInv'
<1>1. /\ user[u].at = "idle" /\ To(u, "clearing", None)
      /\ UNCHANGED <<queueVars, pushes, writer, waitVars, closed, historyVars>>
  BY DEF StartCstate
<1>2. user[u].block = None
  BY <1>1 DEF IInv, HandsFit
<1>3. /\ UserTypes' /\ HandsFit' /\ user'[u] = [at |-> "clearing", block |-> None]
      /\ \A v \in Users \ {u} : user'[v] = user[v]
  BY <1>1, UserGoesOn DEF UserStates
<1>4. Places'
  BY <1>1, <1>2, <1>3, StayApart DEF queueVars, IInv
<1>5. TypeOK'
  BY <1>1, <1>3 DEF queueVars, waitVars, historyVars, IInv, TypeOK, UserTypes
<1>6. Watched'
  BY <1>1, <1>3, StillWatched DEF queueVars, waitVars, IInv
<1> QED  BY <1>3, <1>4, <1>5, <1>6 DEF IInv

(* conn_start_cstate drops one chunk, or finds no more.                    *)
LEMMA ClearOneStep ==
  ASSUME IInv, NEW u \in Users, ClearOne(u)
  PROVE  IInv'
<1>1. /\ user[u].at = "clearing" /\ DropHead
      /\ UNCHANGED <<mode, nblocks, pushes, writer, waitVars, closed>>
  BY DEF ClearOne
<1>2. user[u].block = None
  BY <1>1 DEF IInv, HandsFit
<1>3. CASE /\ sendq # <<>> /\ UNCHANGED user
           /\ owed' = owed - left[Head(sendq)]
           /\ crossed' = (crossed \/ writer.at # "idle")
  <2>1. QueueTypes' /\ Places' /\ left' \in [Blocks -> 0 .. MaxSize]
    BY <1>1, <1>3, DropBlock, TypesApply DEF IInv
  <2>2. owed' \in Int
    <3>1. Head(sendq) \in Blocks
      BY <1>3 DEF IInv, TypeOK
    <3>2. left[Head(sendq)] \in Int
      BY <3>1, SendAssumption DEF IInv, TypeOK
    <3> QED  BY <1>3, <3>2 DEF IInv, TypeOK
  <2>3. crossed' \in BOOLEAN
    BY <1>3 DEF IInv, TypeOK
  <2>4. TypeOK'
    BY <1>1, <1>3, <2>1, <2>2, <2>3 DEF waitVars, IInv, TypeOK, QueueTypes
  <2>5. HandsFit'
    BY <1>1, <1>3 DEF IInv, HandsFit
  <2>6. Watched'
    BY <1>1, <1>3 DEF waitVars, IInv, Watched, Announced
  <2> QED  BY <2>1, <2>4, <2>5, <2>6 DEF IInv
<1>4. CASE sendq = <<>> /\ To(u, "idle", None) /\ UNCHANGED historyVars
  <2>1. /\ UserTypes' /\ HandsFit' /\ user'[u] = [at |-> "idle", block |-> None]
        /\ \A v \in Users \ {u} : user'[v] = user[v]
    BY <1>1, <1>4, UserGoesOn DEF UserStates
  <2>2. UNCHANGED <<sendq, left, qleft>>
    BY <1>1, <1>4 DEF DropHead
  <2>3. Places'
    BY <1>1, <1>2, <2>1, <2>2, StayApart DEF IInv
  <2>4. TypeOK'
    BY <1>1, <1>4, <2>1, <2>2 DEF waitVars, historyVars, IInv, TypeOK, UserTypes
  <2>5. Watched'
    BY <1>1, <1>4, <2>2 DEF waitVars, IInv, Watched
  <2> QED  BY <2>1, <2>3, <2>4, <2>5 DEF IInv
<1> QED  BY <1>3, <1>4 DEF ClearOne

-----------------------------------------------------------------------------
(* Steps of the waiting thread.                                            *)

WriterRecords ==
  [at : {"idle", "head", "write", "drop", "peek", "decide", "disarm", "return"},
   cp : Blocks \cup {None}, over : BOOLEAN, out : BOOLEAN]

(* A step that moves no block.                                             *)
LEMMA WriterStep ==
  ASSUME IInv, UNCHANGED <<queueVars, user, pushes, historyVars>>,
         writer' \in WriterRecords, armed' \in BOOLEAN, closed' \in BOOLEAN,
         outs' \in Nat, ends' \in Nat,
         writer'.at \in {"write", "drop"} => writer'.cp \in Blocks,
         Watched'
  PROVE  IInv'
<1>1. TypeOK'
  BY DEF queueVars, historyVars, WriterRecords, IInv, TypeOK
<1>2. Places'
  BY StayApart DEF queueVars, IInv
<1>3. HandsFit'
  BY DEF IInv, HandsFit
<1> QED  BY <1>1, <1>2, <1>3 DEF IInv

LEMMA FailStep ==
  ASSUME IInv, Fail, UNCHANGED <<queueVars, user, pushes, historyVars, ends>>,
         outs' \in Nat
  PROVE  IInv'
<1>1. writer' = Waiting /\ armed' = FALSE /\ closed' = TRUE
  BY DEF Fail
<1>2. writer' \in WriterRecords /\ writer'.at = "idle"
  BY <1>1 DEF Waiting, WriterRecords
<1>3. Watched'
  BY <1>1, <1>2 DEF Watched
<1>4. ends' \in Nat
  BY DEF IInv, TypeOK
<1> QED  BY <1>1, <1>2, <1>3, <1>4, WriterStep

LEMMA WriteEventStep ==
  ASSUME IInv, WriteEvent
  PROVE  IInv'
<1>1. /\ armed /\ UNCHANGED <<queueVars, user, pushes, outs, ends, historyVars>>
      /\ outs' \in Nat /\ ends' \in Nat
  BY DEF WriteEvent, IInv, TypeOK
<1>2. CASE Fail
  BY <1>1, <1>2, FailStep
<1>3. CASE writer' = [Waiting EXCEPT !.at = "head"] /\ UNCHANGED <<armed, closed>>
  <2>1. writer' \in WriterRecords /\ writer'.at = "head"
    BY <1>3 DEF Waiting, WriterRecords
  <2>2. Watched'
    BY <1>1, <1>3, <2>1 DEF Watched
  <2>3. armed' \in BOOLEAN /\ closed' \in BOOLEAN
    BY <1>3 DEF IInv, TypeOK
  <2> QED  BY <1>1, <2>1, <2>2, <2>3, WriterStep
<1>4. CASE writer.at = "idle" /\ sendq = <<>> /\ armed' = FALSE /\ UNCHANGED <<writer, closed>>
  <2>1. Watched'
    BY <1>1, <1>4 DEF queueVars, Watched
  <2>2. writer' \in WriterRecords /\ closed' \in BOOLEAN
    BY <1>4 DEF WriterRecords, IInv, TypeOK
  <2> QED  BY <1>1, <1>4, <2>1, <2>2, WriterStep
<1> QED  BY <1>2, <1>3, <1>4 DEF WriteEvent

LEMMA HandleOutStep ==
  ASSUME IInv, HandleOut
  PROVE  IInv'
<1>1. /\ writer.at = "idle" /\ UNCHANGED <<queueVars, user, pushes, ends, historyVars>>
      /\ outs' \in Nat /\ ends' \in Nat
  BY DEF HandleOut, IInv, TypeOK
<1>2. CASE Fail
  BY <1>1, <1>2, FailStep
<1>3. CASE /\ writer' = [Waiting EXCEPT !.at = "head", !.out = TRUE]
           /\ UNCHANGED <<armed, closed>>
  <2>1. writer' \in WriterRecords /\ writer'.at = "head" /\ writer'.out
    BY <1>3 DEF Waiting, WriterRecords
  <2>2. Watched'
    BY <2>1 DEF Watched
  <2>3. armed' \in BOOLEAN /\ closed' \in BOOLEAN
    BY <1>3 DEF IInv, TypeOK
  <2> QED  BY <1>1, <2>1, <2>2, <2>3, WriterStep
<1>4. CASE sendq = <<>> /\ UNCHANGED <<writer, armed, closed>>
  <2>1. Watched'
    BY <1>1, <1>4 DEF queueVars, Watched
  <2>2. writer' \in WriterRecords /\ armed' \in BOOLEAN /\ closed' \in BOOLEAN
    BY <1>4 DEF WriterRecords, IInv, TypeOK
  <2> QED  BY <1>1, <1>4, <2>1, <2>2, WriterStep
<1> QED  BY <1>2, <1>3, <1>4 DEF HandleOut

LEMMA LookAtHeadStep ==
  ASSUME IInv, LookAtHead
  PROVE  IInv'
<1>1. /\ writer.at = "head" /\ UNCHANGED <<queueVars, user, pushes, outs, ends, historyVars>>
      /\ outs' \in Nat /\ ends' \in Nat
  BY DEF LookAtHead, IInv, TypeOK
<1>2. CASE Fail
  BY <1>1, <1>2, FailStep
<1>3. CASE /\ sendq # <<>> /\ UNCHANGED <<armed, closed>>
           /\ writer' = [writer EXCEPT !.at = "write", !.cp = Head(sendq)]
  <2>1. Head(sendq) \in Blocks
    BY <1>3 DEF IInv, TypeOK
  <2>2. /\ writer' \in WriterRecords /\ writer'.at = "write" /\ writer'.cp \in Blocks
        /\ writer'.out = writer.out
    BY <1>3, <2>1 DEF WriterRecords, IInv, TypeOK
  <2>3. Watched'
    BY <1>1, <1>3, <2>2 DEF IInv, Watched
  <2>4. armed' \in BOOLEAN /\ closed' \in BOOLEAN
    BY <1>3 DEF IInv, TypeOK
  <2> QED  BY <1>1, <2>2, <2>3, <2>4, WriterStep
<1> QED  BY <1>2, <1>3 DEF LookAtHead

LEMMA DecideStep ==
  ASSUME IInv, Decide
  PROVE  IInv'
<1>1. /\ writer.at = "decide" /\ UNCHANGED <<queueVars, user, pushes, outs, ends, historyVars>>
      /\ outs' \in Nat /\ ends' \in Nat
  BY DEF Decide, IInv, TypeOK
<1>2. ASSUME NEW at \in {"return", "disarm"}, At(at)
      PROVE  writer' \in WriterRecords /\ writer'.at = at /\ writer'.out = writer.out
  BY <1>2 DEF At, WriterRecords, IInv, TypeOK
<1>3. CASE armed' = FALSE /\ closed' = TRUE /\ At("return")
  <2>1. Watched'
    BY <1>2, <1>3 DEF Watched
  <2> QED  BY <1>1, <1>2, <1>3, <2>1, WriterStep
<1>4. CASE At("disarm") /\ UNCHANGED <<armed, closed>>
  <2>1. Watched'
    BY <1>1, <1>2, <1>4 DEF IInv, Watched
  <2>2. armed' \in BOOLEAN /\ closed' \in BOOLEAN
    BY <1>4 DEF IInv, TypeOK
  <2> QED  BY <1>1, <1>2, <1>4, <2>1, <2>2, WriterStep
<1>5. CASE At("return") /\ UNCHANGED <<armed, closed>>
  <2>1. Watched'
    BY <1>1, <1>2, <1>5 DEF IInv, Watched, Announced
  <2>2. armed' \in BOOLEAN /\ closed' \in BOOLEAN
    BY <1>5 DEF IInv, TypeOK
  <2> QED  BY <1>1, <1>2, <1>5, <2>1, <2>2, WriterStep
<1> QED  BY <1>3, <1>4, <1>5 DEF Decide

(* What was queued between the test and CONN_OUTEVENT_DEL is announced by  *)
(* the END message.                                                        *)
LEMMA DisarmStep ==
  ASSUME IInv, Disarm
  PROVE  IInv'
<1>1. /\ armed' = FALSE /\ At("return")
      /\ ends' = IF closed THEN ends ELSE ends + 1
      /\ UNCHANGED <<queueVars, user, pushes, outs, closed, historyVars>>
  BY DEF Disarm
<1>2. writer' \in WriterRecords /\ writer'.at = "return"
  BY <1>1 DEF At, WriterRecords, IInv, TypeOK
<1>3. ends' \in Nat /\ (closed \/ ends' > 0) /\ outs' \in Nat /\ closed' \in BOOLEAN
  <2>1. ends' \in Nat /\ (closed \/ ends' > 0)
    BY <1>1 DEF IInv, TypeOK
  <2>2. outs' \in Nat /\ closed' \in BOOLEAN
    BY <1>1 DEF IInv, TypeOK
  <2> QED  BY <2>1, <2>2
<1>4. Watched'
  BY <1>1, <1>2, <1>3 DEF Watched, Announced
<1> QED  BY <1>1, <1>2, <1>3, <1>4, WriterStep

LEMMA ReturnStep ==
  ASSUME IInv, Return
  PROVE  IInv'
<1>1. /\ writer.at = "return" /\ armed' = (armed \/ (writer.out /\ sendq # <<>>))
      /\ writer' = Waiting
      /\ UNCHANGED <<queueVars, user, pushes, outs, ends, closed, historyVars>>
  BY DEF Return
<1>2. writer' \in WriterRecords /\ writer'.at = "idle"
  BY <1>1 DEF Waiting, WriterRecords
<1>3. Watched'
  BY <1>1, <1>2 DEF queueVars, IInv, Watched, Announced
<1>4. armed' \in BOOLEAN
  BY <1>1 DEF IInv, TypeOK
<1>5. outs' \in Nat /\ ends' \in Nat /\ closed' \in BOOLEAN
  BY <1>1 DEF IInv, TypeOK
<1> QED  BY <1>1, <1>2, <1>3, <1>4, <1>5, WriterStep

LEMMA WriteChunkStep ==
  ASSUME IInv, WriteChunk
  PROVE  IInv'
<1> DEFINE b == writer.cp
<1>1. /\ writer.at = "write" /\ b \in Blocks
      /\ UNCHANGED <<mode, sendq, qleft, nblocks, user, pushes, outs, ends, crossed>>
      /\ outs' \in Nat /\ ends' \in Nat
  BY DEF WriteChunk, IInv, TypeOK, HandsFit
<1>2. CASE Fail /\ UNCHANGED <<left, owed>>
  BY <1>1, <1>2, FailStep DEF queueVars, historyVars
<1>3. CASE /\ UNCHANGED <<left, owed, armed, closed>>
           /\ At("drop") \/ writer' = [writer EXCEPT !.at = "drop", !.over = TRUE]
  <2>1. /\ writer' \in WriterRecords /\ writer'.at = "drop" /\ writer'.cp = b
        /\ writer'.out = writer.out
    BY <1>3 DEF At, WriterRecords, IInv, TypeOK
  <2>2. Watched'
    BY <1>1, <1>3, <2>1 DEF IInv, Watched
  <2>3. armed' \in BOOLEAN /\ closed' \in BOOLEAN
    BY <1>3 DEF IInv, TypeOK
  <2> QED  BY <1>1, <1>3, <2>1, <2>2, <2>3, WriterStep DEF queueVars, historyVars
<1>4. ASSUME NEW n \in Written(b), left' = [left EXCEPT ![b] = @ - n],
             owed' = owed - n, At("drop"), UNCHANGED <<armed, closed>>
      PROVE  IInv'
  <2>1. /\ writer' \in WriterRecords /\ writer'.at = "drop" /\ writer'.cp = b
        /\ writer'.out = writer.out
    BY <1>4 DEF At, WriterRecords, IInv, TypeOK
  <2>2. left[b] \in 0 .. MaxSize /\ n \in 1 .. left[b]
    BY <1>1 DEF Written, IInv, TypeOK
  <2>3. left[b] - n \in 0 .. MaxSize /\ owed' \in Int
    BY <1>4, <2>2, SendAssumption DEF IInv, TypeOK
  <2>4. left' \in [Blocks -> 0 .. MaxSize]
    BY <1>4, <2>3 DEF IInv, TypeOK
  <2>5. TypeOK'
    BY <1>1, <1>4, <2>1, <2>3, <2>4 DEF IInv, TypeOK, WriterRecords
  <2>6. Places'
    BY <1>1, StayApart DEF IInv
  <2>7. HandsFit'
    BY <1>1, <2>1 DEF IInv, HandsFit
  <2>8. Watched'
    BY <1>1, <1>4, <2>1 DEF IInv, Watched
  <2> QED  BY <2>5, <2>6, <2>7, <2>8 DEF IInv
<1> QED  BY <1>2, <1>3, <1>4 DEF WriteChunk

(* A step that may move the head to qleft and goes on before the decision. *)
LEMMA DropStep ==
  ASSUME IInv, DropHead \/ UNCHANGED <<sendq, left, qleft>>,
         writer.at \in {"drop", "peek"}, writer'.at \in {"peek", "decide"},
         writer' \in WriterRecords, writer'.out = writer.out,
         UNCHANGED <<mode, nblocks, user, pushes, waitVars, closed, historyVars>>
  PROVE  IInv'
<1>1. QueueTypes' /\ Places' /\ left' \in [Blocks -> 0 .. MaxSize]
  <2>1. CASE DropHead
    BY <2>1, DropBlock, TypesApply DEF IInv
  <2>2. CASE UNCHANGED <<sendq, left, qleft>>
    BY <2>2, StayApart, TypesApply DEF IInv, QueueTypes
  <2> QED  BY <2>1, <2>2
<1>2. TypeOK'
  BY <1>1 DEF waitVars, historyVars, IInv, TypeOK, QueueTypes, WriterRecords
<1>3. HandsFit'
  BY DEF IInv, HandsFit
<1>4. Watched'
  BY DEF waitVars, IInv, Watched
<1> QED  BY <1>1, <1>2, <1>3, <1>4 DEF IInv

LEMMA DropSentStep ==
  ASSUME IInv, DropSent
  PROVE  IInv'
<1>1. /\ writer.at = "drop" /\ At("peek")
      /\ DropHead \/ UNCHANGED <<sendq, left, qleft>>
      /\ UNCHANGED <<mode, nblocks, user, pushes, waitVars, closed, historyVars>>
  BY DEF DropSent
<1>2. writer' \in WriterRecords /\ writer'.at = "peek" /\ writer'.out = writer.out
  BY <1>1 DEF At, WriterRecords, IInv, TypeOK
<1> QED  BY <1>1, <1>2, DropStep

LEMMA PeekMarkerStep ==
  ASSUME IInv, PeekMarker
  PROVE  IInv'
<1>1. /\ writer.at = "peek"
      /\ At("decide") \/ writer' = [writer EXCEPT !.at = "decide", !.over = TRUE]
      /\ DropHead \/ UNCHANGED <<sendq, left, qleft>>
      /\ UNCHANGED <<mode, nblocks, user, pushes, waitVars, closed, historyVars>>
  BY DEF PeekMarker
<1>2. writer' \in WriterRecords /\ writer'.at = "decide" /\ writer'.out = writer.out
  BY <1>1 DEF At, WriterRecords, IInv, TypeOK
<1> QED  BY <1>1, <1>2, DropStep

-----------------------------------------------------------------------------
(* Other steps.                                                            *)

(* END announces again what it finds queued.                               *)
LEMMA HandleEndStep ==
  ASSUME IInv, HandleEnd
  PROVE  IInv'
<1>1. /\ ends > 0 /\ ends' = ends - 1
      /\ UNCHANGED <<queueVars, user, pushes, writer, closed, historyVars>>
  BY DEF HandleEnd
<1>2. CASE sendq # <<>> /\ ~closed /\ Notify
  <2>1. armed' \in BOOLEAN /\ outs' \in Nat /\ (armed' \/ outs' > 0) /\ (armed => armed')
    BY <1>2, NotifyAnnounces DEF IInv
  <2>2. Watched'
    BY <1>1, <2>1 DEF IInv, Watched, Announced
  <2>3. ends' \in Nat
    BY <1>1 DEF IInv, TypeOK
  <2>4. writer' \in WriterRecords /\ closed' \in BOOLEAN
        /\ (writer'.at \in {"write", "drop"} => writer'.cp \in Blocks)
    BY <1>1 DEF WriterRecords, IInv, TypeOK, HandsFit
  <2> QED  BY <1>1, <2>1, <2>2, <2>3, <2>4, WriterStep
<1>3. CASE ~(sendq # <<>> /\ ~closed) /\ UNCHANGED <<armed, outs>>
  <2>1. Watched'
    BY <1>1, <1>3 DEF queueVars, IInv, Watched
  <2>2. ends' \in Nat
    BY <1>1 DEF IInv, TypeOK
  <2>3. writer' \in WriterRecords /\ closed' \in BOOLEAN
        /\ (writer'.at \in {"write", "drop"} => writer'.cp \in Blocks)
    BY <1>1 DEF WriterRecords, IInv, TypeOK, HandsFit
  <2>4. armed' \in BOOLEAN /\ outs' \in Nat
    BY <1>3 DEF IInv, TypeOK
  <2> QED  BY <1>1, <2>1, <2>2, <2>3, <2>4, WriterStep
<1> QED  BY <1>2, <1>3 DEF HandleEnd

LEMMA CloseStep ==
  ASSUME IInv, Close
  PROVE  IInv'
<1>1. closed' = TRUE /\ UNCHANGED <<queueVars, user, pushes, writer, waitVars, historyVars>>
  BY DEF Close
<1>2. Watched'
  BY <1>1 DEF waitVars, IInv, Watched
<1>3. writer' \in WriterRecords /\ (writer'.at \in {"write", "drop"} => writer'.cp \in Blocks)
  BY <1>1 DEF WriterRecords, IInv, TypeOK, HandsFit
<1>4. armed' \in BOOLEAN /\ outs' \in Nat /\ ends' \in Nat
  BY <1>1 DEF waitVars, IInv, TypeOK
<1> QED  BY <1>1, <1>2, <1>3, <1>4, WriterStep

LEMMA ResetStep ==
  ASSUME IInv, Reset
  PROVE  IInv'
<1>1. /\ sendq' = <<>> /\ qleft' = qleft \o sendq
      /\ left' = [b \in Blocks |-> IF b \in ToSet(sendq) THEN 0 ELSE left[b]]
      /\ closed' = FALSE /\ armed' = FALSE /\ outs' = 0 /\ ends' = 0
      /\ owed' = 0 /\ crossed' = FALSE
      /\ writer.at = "idle" /\ UNCHANGED <<mode, nblocks, user, pushes, writer>>
  BY DEF Reset
<1>2. QueueTypes' /\ Places'
  BY <1>1, ResetBlocks, TypesApply DEF IInv
<1>3. left' \in [Blocks -> 0 .. MaxSize]
  <2>1. 0 \in 0 .. MaxSize /\ left \in [Blocks -> 0 .. MaxSize]
    BY SendAssumption DEF IInv, TypeOK
  <2> QED  BY <1>1, <2>1
<1>4. TypeOK'
  <2>1. outs' \in Nat /\ ends' \in Nat /\ owed' \in Int
    BY <1>1
  <2>2. armed' \in BOOLEAN /\ closed' \in BOOLEAN /\ crossed' \in BOOLEAN
    BY <1>1
  <2>3. UNCHANGED <<mode, user, pushes, writer>>
    BY <1>1
  <2> QED  BY <1>2, <1>3, <2>1, <2>2, <2>3 DEF IInv, TypeOK, QueueTypes
<1>5. HandsFit' /\ Watched'
  BY <1>1 DEF IInv, HandsFit, Watched
<1> QED  BY <1>2, <1>4, <1>5 DEF IInv

-----------------------------------------------------------------------------
(* The invariant holds.                                                    *)

LEMMA InvInit == Init => IInv
<1> SUFFICES ASSUME Init  PROVE IInv
  OBVIOUS
<1>1. sendq = <<>> /\ qleft = <<>> /\ nblocks = 0 /\ user = [u \in Users |-> Idle]
  BY DEF Init
<1>2. Held = {}
  BY <1>1 DEF Held, Idle
<1>3. Places
  <2>1. ToSet(sendq) = {} /\ ToSet(qleft) = {} /\ Len(sendq) = 0 /\ Len(qleft) = 0
        /\ IsInjective(sendq) /\ IsInjective(qleft)
    BY <1>1 DEF ToSet, IsInjective
  <2> QED  BY <1>1, <1>2, <2>1, FS_EmptySet DEF Places, Apart, FreshUntouched
<1>4. TypeOK
  <2>1. left \in [Blocks -> 0 .. MaxSize]
    BY SendAssumption DEF Init
  <2>2. user \in [Users -> [at : {"idle", "held", "filled", "queued", "clearing"},
                            block : Blocks \cup {None}]]
    BY <1>1 DEF Idle
  <2>3. writer \in [at : {"idle", "head", "write", "drop", "peek", "decide", "disarm", "return"},
                    cp : Blocks \cup {None}, over : BOOLEAN, out : BOOLEAN]
    BY DEF Init, Waiting
  <2>4. /\ mode \in Modes /\ nblocks \in 0 .. QBlockMax /\ pushes \in 0 .. MaxPushes
        /\ outs \in Nat /\ ends \in Nat /\ owed \in Int
        /\ sendq \in Seq(Blocks) /\ qleft \in Seq(Blocks)
    BY SendAssumption DEF Init
  <2>5. armed \in BOOLEAN /\ closed \in BOOLEAN /\ crossed \in BOOLEAN
    BY DEF Init
  <2> QED  BY <2>1, <2>2, <2>3, <2>4, <2>5 DEF TypeOK
<1>5. HandsFit
  BY DEF Init, HandsFit, Idle, Waiting
<1>6. Watched
  BY DEF Init, Watched, Waiting
<1> QED  BY <1>3, <1>4, <1>5, <1>6 DEF IInv

LEMMA InvStep == IInv /\ [Next]_vars => IInv'
<1> SUFFICES ASSUME IInv, [Next]_vars  PROVE IInv'
  OBVIOUS
<1>1. CASE Writer
  BY <1>1, WriteEventStep, HandleOutStep, LookAtHeadStep, WriteChunkStep, DropSentStep,
     PeekMarkerStep, DecideStep, DisarmStep, ReturnStep DEF Writer
<1>2. CASE HandleEnd \/ Close \/ Reset
  BY <1>2, HandleEndStep, CloseStep, ResetStep
<1>3. ASSUME NEW u \in Users, NEW size \in 0 .. MaxSize,
             PushChunk(u, size) \/ NewChunk(u, size)
      PROVE  IInv'
  BY <1>3, TakeStep
<1>4. ASSUME NEW u \in Users, StartCstate(u)  PROVE IInv'
  BY <1>4, StartCstateStep
<1>5. ASSUME NEW u \in Users, Call(u)  PROVE IInv'
  BY <1>5, SendChunkStep, FreeChunkStep, EnqueueStep, AnnounceStep, ClearOneStep DEF Call
<1>6. CASE UNCHANGED vars
  <2>1. TypeOK'
    BY <1>6 DEF vars, queueVars, waitVars, historyVars, IInv, TypeOK
  <2>2. Places'
    BY <1>6, StayApart DEF vars, queueVars, IInv
  <2>3. HandsFit' /\ Watched'
    BY <1>6 DEF vars, queueVars, waitVars, IInv, HandsFit, Watched, Announced
  <2> QED  BY <2>1, <2>2, <2>3 DEF IInv
<1> QED
  BY <1>1, <1>2, <1>3, <1>4, <1>5, <1>6 DEF Next

THEOREM Invariant == Spec => []IInv
<1> QED  BY InvInit, InvStep, PTL DEF Spec

-----------------------------------------------------------------------------
(* Nothing is lost.                                                        *)

(* What the chunks of the queue have left.                                 *)
Owing == Sum(left, ToSet(sendq))

(* The pointer of write_handler is the head of the queue from              *)
(* conn_write_chunk until it is dropped, unless conn_start_cstate popped.  *)
HeadKept ==
  writer.at \in {"write", "drop"} /\ ~crossed =>
    sendq # <<>> /\ writer.cp = Head(sendq)

Owes == HeadKept /\ (crossed \/ owed = Owing)

(* The sum is of finitely many numbers.                                    *)
LEMMA QueueIsFinite ==
  ASSUME IInv
  PROVE  /\ IsFiniteSet(ToSet(sendq)) /\ ToSet(sendq) \subseteq Blocks
         /\ \A b \in Blocks : left[b] \in 0 .. MaxSize /\ left[b] \in Int
         /\ Owing \in Int
<1>1. ToSet(sendq) \in SUBSET Blocks
  BY DEF IInv, TypeOK, ToSet
<1>2. IsFiniteSet(Blocks)
  BY SendAssumption, FS_Interval DEF Blocks
<1>3. IsFiniteSet(ToSet(sendq))
  BY <1>1, <1>2, FS_Subset
<1>4. \A b \in Blocks : left[b] \in 0 .. MaxSize /\ left[b] \in Int
  BY SendAssumption DEF IInv, TypeOK
<1>5. Owing \in Int
  BY <1>1, <1>3, <1>4, SumInt DEF Owing
<1> QED  BY <1>1, <1>3, <1>4, <1>5

(* Steps that change no queued chunk.                                      *)
LEMMA SameOwing ==
  ASSUME IInv, sendq' = sendq, \A b \in ToSet(sendq) : left'[b] = left[b]
  PROVE  Owing' = Owing
<1>1. Sum(left', ToSet(sendq)) = Sum(left, ToSet(sendq))
  BY QueueIsFinite, SumAgree
<1>2. Owing' = Sum(left', ToSet(sendq))
  BY DEF Owing
<1> QED  BY <1>1, <1>2 DEF Owing

(* A popped chunk takes what it has left with it.                          *)
LEMMA HeadOwes ==
  ASSUME IInv, DropHead, sendq # <<>>
  PROVE  /\ Owing = left[Head(sendq)] + Owing'
         /\ left[Head(sendq)] \in Int /\ Owing' \in Int
<1> DEFINE h == Head(sendq)
<1>1. /\ sendq' = Tail(sendq) /\ left' = [left EXCEPT ![h] = 0]
      /\ left \in [Blocks -> 0 .. MaxSize]
  BY DEF DropHead, IInv, TypeOK
<1>2. h \in ToSet(sendq) /\ h \in Blocks /\ ToSet(sendq') = ToSet(sendq) \ {h}
  BY <1>1, TailLessOne DEF IInv, TypeOK, Places, Apart
<1>3. Sum(left, ToSet(sendq)) = left[h] + Sum(left, ToSet(sendq) \ {h})
  BY <1>2, QueueIsFinite, SumRemove
<1>4. \A b \in ToSet(sendq) \ {h} : left'[b] = left[b]
  BY <1>1, QueueIsFinite
<1>5. /\ Sum(left', ToSet(sendq) \ {h}) = Sum(left, ToSet(sendq) \ {h})
      /\ Sum(left, ToSet(sendq) \ {h}) \in Int
  <2>1. /\ IsFiniteSet(ToSet(sendq) \ {h})
        /\ \A b \in ToSet(sendq) \ {h} : left[b] \in Int
    BY QueueIsFinite, FS_Subset
  <2> QED  BY <1>4, <2>1, SumAgree, SumInt
<1>6. Owing' = Sum(left', ToSet(sendq) \ {h})
  BY <1>2 DEF Owing
<1> QED  BY <1>2, <1>3, <1>5, <1>6, QueueIsFinite DEF Owing

(* Most steps of the waiting thread move its pointer only.                 *)
LEMMA OwesUntouched ==
  ASSUME IInv, Owes, UNCHANGED <<sendq, left, historyVars>>,
         writer'.at \in {"write", "drop"} =>
           \/ writer'.at = "write" /\ sendq # <<>> /\ writer'.cp = Head(sendq)
           \/ writer' = writer
  PROVE  Owes'
<1>1. Owing' = Owing
  BY SameOwing
<1>2. HeadKept'
  BY DEF historyVars, Owes, HeadKept
<1> QED  BY <1>1, <1>2 DEF historyVars, Owes

LEMMA WriterOwes ==
  ASSUME IInv, Owes, WriteEvent \/ HandleOut \/ LookAtHead \/ Decide \/ Disarm \/ Return
  PROVE  Owes'
<1>1. UNCHANGED <<sendq, left, historyVars>>
  BY DEF WriteEvent, HandleOut, LookAtHead, Decide, Disarm, Return, queueVars
<1>2. writer \in WriterRecords
  BY DEF IInv, TypeOK, WriterRecords
<1>3. CASE WriteEvent \/ HandleOut
  <2>1. writer.at = "idle" /\ (Fail \/ writer'.at = "head" \/ writer' = writer)
    BY <1>3 DEF WriteEvent, HandleOut, Waiting
  <2>2. writer'.at \notin {"write", "drop"}
    BY <2>1 DEF Fail, Waiting
  <2> QED  BY <1>1, <2>2, OwesUntouched
<1>4. CASE LookAtHead
  <2>1. CASE sendq # <<>> /\ writer' = [writer EXCEPT !.at = "write", !.cp = Head(sendq)]
    <3>1. writer'.at = "write" /\ writer'.cp = Head(sendq)
      BY <1>2, <2>1 DEF WriterRecords
    <3> QED  BY <1>1, <2>1, <3>1, OwesUntouched
  <2>2. CASE Fail
    <3>1. writer'.at = "idle"
      BY <2>2 DEF Fail, Waiting
    <3> QED  BY <1>1, <3>1, OwesUntouched
  <2> QED  BY <1>4, <2>1, <2>2 DEF LookAtHead
<1>5. CASE Decide \/ Disarm \/ Return
  <2>1. writer'.at \notin {"write", "drop"}
    BY <1>2, <1>5 DEF Decide, Disarm, Return, At, Waiting, WriterRecords
  <2> QED  BY <1>1, <2>1, OwesUntouched
<1> QED  BY <1>3, <1>4, <1>5

(* A block that a thread takes, fills or gives back is not in the queue.   *)
LEMMA BlockOwes ==
  ASSUME IInv, Owes, NEW b \in Blocks, b \notin ToSet(sendq), NEW n,
         left' = [left EXCEPT ![b] = n], UNCHANGED <<sendq, writer, historyVars>>
  PROVE  Owes'
<1>1. \A c \in ToSet(sendq) : left'[c] = left[c]
  BY QueueIsFinite DEF IInv, TypeOK
<1>2. Owing' = Owing
  BY <1>1, SameOwing
<1> QED  BY <1>2 DEF historyVars, Owes, HeadKept

LEMMA TakeOwes ==
  ASSUME IInv, Owes, NEW u \in Users, NEW size \in 0 .. MaxSize,
         PushChunk(u, size) \/ NewChunk(u, size)
  PROVE  Owes'
<1>1. PICK b \in Blocks : PopChunk(b) /\ left' = [left EXCEPT ![b] = size]
  BY DEF PushChunk, NewChunk
<1>2. UNCHANGED <<sendq, writer, historyVars>>
  BY DEF PushChunk, NewChunk
<1>3. b \notin ToSet(sendq)
  <2>1. CASE qleft # <<>> /\ b = Last(qleft)
    <3>1. b \in ToSet(qleft)
      BY <2>1, FrontLessOne DEF IInv, TypeOK, Places, Apart
    <3> QED  BY <3>1 DEF IInv, Places, Apart
  <2>2. CASE b = nblocks
    BY <2>2, SendAssumption DEF IInv, TypeOK, Places, FreshUntouched
  <2> QED  BY <1>1, <2>1, <2>2 DEF PopChunk
<1> QED  BY <1>1, <1>2, <1>3, BlockOwes

(* The block of a thread with a chunk is in its hands only.                *)
LEMMA HandIsApart ==
  ASSUME IInv, NEW u \in Users, user[u].at \in {"held", "filled"}
  PROVE  user[u].block \in Blocks /\ user[u].block \notin ToSet(sendq)
<1>1. user[u].block # None /\ u \in Held
  BY DEF IInv, HandsFit, Held
<1> QED  BY <1>1 DEF IInv, TypeOK, Places, Apart

LEMMA FreeOwes ==
  ASSUME IInv, Owes, NEW u \in Users, FreeChunk(u)
  PROVE  Owes'
<1> DEFINE b == user[u].block
<1>1. b \in Blocks /\ b \notin ToSet(sendq)
  BY HandIsApart DEF FreeChunk
<1>2. left' = [left EXCEPT ![b] = 0] /\ UNCHANGED <<sendq, writer, historyVars>>
  BY DEF FreeChunk
<1> QED  BY <1>1, <1>2, BlockOwes

LEMMA EnqueueOwes ==
  ASSUME IInv, Owes, NEW u \in Users, Enqueue(u)
  PROVE  Owes'
<1> DEFINE b == user[u].block
<1>1. b \in Blocks /\ b \notin ToSet(sendq)
  BY HandIsApart DEF Enqueue
<1>2. sendq' = Append(sendq, b) /\ owed' = owed + left[b] /\ UNCHANGED <<left, writer, crossed>>
  BY DEF Enqueue
<1>3. sendq \in Seq(Blocks)
  BY DEF IInv, TypeOK
<1> HIDE DEF b
<1>4. ToSet(sendq') = ToSet(sendq) \cup {b}
  BY <1>1, <1>2, <1>3, AppendOne
<1>5. Owing' = left[b] + Owing
  <2>1. Owing' = Sum(left, ToSet(sendq) \cup {b})
    BY <1>2, <1>4 DEF Owing
  <2>2. (ToSet(sendq) \cup {b}) \ {b} = ToSet(sendq)
    BY <1>1
  <2>3. /\ IsFiniteSet(ToSet(sendq) \cup {b})
        /\ \A c \in ToSet(sendq) \cup {b} : left[c] \in Int
    BY <1>1, QueueIsFinite, FS_AddElement
  <2> QED  BY <2>1, <2>2, <2>3, SumRemove DEF Owing
<1>6. HeadKept'
  <2>1. sendq # <<>> => sendq' # <<>> /\ Head(sendq') = Head(sendq)
    BY <1>1, <1>2, <1>3
  <2> QED  BY <1>2, <2>1 DEF Owes, HeadKept
<1>7. left[b] \in Int /\ Owing \in Int /\ owed \in Int
  BY <1>1, QueueIsFinite DEF IInv, TypeOK
<1> QED  BY <1>2, <1>5, <1>6, <1>7 DEF Owes

(* conn_start_cstate discards the head; where write_handler was at work,   *)
(* nothing is said any more.                                               *)
LEMMA ClearOwes ==
  ASSUME IInv, Owes, NEW u \in Users, ClearOne(u)
  PROVE  Owes'
<1>1. DropHead /\ UNCHANGED writer
  BY DEF ClearOne
<1>2. CASE sendq = <<>> /\ UNCHANGED historyVars
  <2>1. UNCHANGED <<sendq, left>>
    BY <1>1, <1>2 DEF DropHead
  <2> QED  BY <1>1, <1>2, <2>1, OwesUntouched
<1>3. CASE /\ sendq # <<>> /\ owed' = owed - left[Head(sendq)]
           /\ crossed' = (crossed \/ writer.at # "idle")
  <2>1. Owing = left[Head(sendq)] + Owing' /\ left[Head(sendq)] \in Int /\ Owing' \in Int
    BY <1>1, <1>3, HeadOwes
  <2>2. owed = Owing => owed' = Owing'
    BY <1>3, <2>1
  <2>3. HeadKept'
    BY <1>1, <1>3 DEF HeadKept
  <2> QED  BY <1>3, <2>2, <2>3 DEF Owes
<1> QED  BY <1>2, <1>3 DEF ClearOne

(* What is written of the head is no longer owed.                          *)
LEMMA WriteOwes ==
  ASSUME IInv, Owes, WriteChunk
  PROVE  Owes'
<1> DEFINE b == writer.cp
<1>1. writer.at = "write" /\ b \in Blocks /\ UNCHANGED <<sendq, crossed>>
  BY DEF WriteChunk, IInv, HandsFit
<1>2. CASE Fail /\ UNCHANGED <<left, owed>>
  <2>1. writer'.at = "idle"
    BY <1>2 DEF Fail, Waiting
  <2> QED  BY <1>1, <1>2, <2>1, OwesUntouched DEF historyVars
<1>3. ASSUME At("drop") \/ writer' = [writer EXCEPT !.at = "drop", !.over = TRUE]
      PROVE  HeadKept'
  <2>1. writer'.cp = b
    BY <1>3 DEF At, IInv, TypeOK
  <2> QED  BY <1>1, <2>1 DEF Owes, HeadKept
<1>4. CASE /\ UNCHANGED <<left, owed>>
           /\ At("drop") \/ writer' = [writer EXCEPT !.at = "drop", !.over = TRUE]
  <2>1. Owing' = Owing
    BY <1>1, <1>4, SameOwing
  <2> QED  BY <1>1, <1>3, <1>4, <2>1 DEF Owes
<1>5. ASSUME NEW n \in Written(b), left' = [left EXCEPT ![b] = @ - n],
             owed' = owed - n, At("drop")
      PROVE  Owes'
  <2>1. CASE crossed
    BY <1>1, <1>3, <1>5, <2>1 DEF Owes
  <2>2. CASE ~crossed
    <3>1. sendq # <<>> /\ b = Head(sendq)
      BY <1>1, <2>2 DEF Owes, HeadKept
    <3>2. b \in ToSet(sendq)
      BY <3>1, TailLessOne DEF IInv, TypeOK, Places, Apart
    <3> DEFINE others == ToSet(sendq) \ {b}
    <3>3. Owing = left[b] + Sum(left, others)
      BY <3>2, QueueIsFinite, SumRemove DEF Owing
    <3>4. left[b] \in Int /\ n \in Int /\ left'[b] = left[b] - n
          /\ \A c \in others : left'[c] = left[c]
      BY <1>1, <1>5, QueueIsFinite DEF Written, IInv, TypeOK
    <3>5. IsFiniteSet(others) /\ \A c \in others : left[c] \in Int
      BY QueueIsFinite, FS_Subset
    <3>6. Sum(left', others) = Sum(left, others) /\ Sum(left, others) \in Int
      BY <3>4, <3>5, SumAgree, SumInt
    <3>7. Owing' = left'[b] + Sum(left', others)
      <4>1. \A c \in ToSet(sendq) : left'[c] \in Int
        BY <3>4, <3>5
      <4>2. Sum(left', ToSet(sendq)) = left'[b] + Sum(left', others)
        BY <3>2, <4>1, QueueIsFinite, SumRemove
      <4> QED  BY <1>1, <4>2 DEF Owing
    <3>8. owed = Owing
      BY <2>2 DEF Owes
    <3> HIDE DEF others
    <3>9. owed' = Owing'
      BY <1>5, <3>3, <3>4, <3>6, <3>7, <3>8
    <3> QED  BY <1>3, <1>5, <3>9 DEF Owes
  <2> QED  BY <2>1, <2>2
<1> QED  BY <1>2, <1>4, <1>5 DEF WriteChunk

(* A chunk is dropped when nothing of it is left.                          *)
LEMMA DropOwes ==
  ASSUME IInv, Owes, UNCHANGED historyVars, writer'.at \notin {"write", "drop"},
         \/ UNCHANGED <<sendq, left>>
         \/ DropHead /\ (~crossed => sendq # <<>> /\ left[Head(sendq)] = 0)
  PROVE  Owes'
<1>1. HeadKept'
  BY DEF HeadKept
<1>2. CASE UNCHANGED <<sendq, left>>
  BY <1>1, <1>2, SameOwing DEF historyVars, Owes
<1>3. CASE crossed
  BY <1>1, <1>3 DEF historyVars, Owes
<1>4. CASE DropHead /\ ~crossed /\ sendq # <<>> /\ left[Head(sendq)] = 0
  <2>1. Owing = Owing'
    BY <1>4, HeadOwes
  <2> QED  BY <1>1, <1>4, <2>1 DEF historyVars, Owes
<1> QED  BY <1>2, <1>3, <1>4

LEMMA ResetOwes ==
  ASSUME Reset
  PROVE  Owes'
<1>1. sendq' = <<>> /\ owed' = 0 /\ writer.at = "idle" /\ writer' = writer
  BY DEF Reset
<1>2. ToSet(sendq') = {}
  BY <1>1 DEF ToSet
<1>3. Owing' = 0
  BY <1>2, SumEmpty DEF Owing
<1> QED  BY <1>1, <1>3 DEF Owes, HeadKept

(* The steps, one by one.                                                  *)
LEMMA OwesStep == IInv /\ Owes /\ [Next]_vars => Owes'
<1> SUFFICES ASSUME IInv, Owes, [Next]_vars  PROVE Owes'
  OBVIOUS
<1>1. CASE WriteEvent \/ HandleOut \/ LookAtHead \/ Decide \/ Disarm \/ Return
  BY <1>1, WriterOwes
<1>2. CASE WriteChunk
  BY <1>2, WriteOwes
<1>3. CASE DropSent
  <2>1. UNCHANGED historyVars /\ writer'.at \notin {"write", "drop"}
    BY <1>3 DEF DropSent, At, IInv, TypeOK
  <2>2. CASE left[writer.cp] = 0 /\ DropHead
    <3>1. ~crossed => sendq # <<>> /\ left[Head(sendq)] = 0
      BY <1>3, <2>2 DEF DropSent, Owes, HeadKept
    <3> QED  BY <2>1, <2>2, <3>1, DropOwes
  <2>3. CASE UNCHANGED <<sendq, left, qleft>>
    BY <2>1, <2>3, DropOwes
  <2> QED  BY <1>3, <2>2, <2>3 DEF DropSent
<1>4. CASE PeekMarker
  <2>1. UNCHANGED historyVars /\ writer'.at \notin {"write", "drop"}
    BY <1>4 DEF PeekMarker, At, IInv, TypeOK
  <2> QED  BY <1>4, <2>1, DropOwes DEF PeekMarker
<1>5. CASE HandleEnd \/ Close \/ UNCHANGED vars
  <2>1. UNCHANGED <<sendq, left, historyVars, writer>>
    BY <1>5 DEF HandleEnd, Close, vars, queueVars
  <2> QED  BY <2>1, OwesUntouched
<1>6. CASE Reset
  BY <1>6, ResetOwes
<1>7. ASSUME NEW u \in Users, NEW size \in 0 .. MaxSize,
             PushChunk(u, size) \/ NewChunk(u, size)
      PROVE  Owes'
  BY <1>7, TakeOwes
<1>8. ASSUME NEW u \in Users, StartCstate(u) \/ SendChunk(u) \/ Announce(u)
      PROVE  Owes'
  <2>1. UNCHANGED <<sendq, left, historyVars, writer>>
    BY <1>8 DEF StartCstate, SendChunk, Announce, queueVars
  <2> QED  BY <2>1, OwesUntouched
<1>9. ASSUME NEW u \in Users, FreeChunk(u) \/ Enqueue(u) \/ ClearOne(u)
      PROVE  Owes'
  BY <1>9, FreeOwes, EnqueueOwes, ClearOwes
<1> QED
  BY <1>1, <1>2, <1>3, <1>4, <1>5, <1>6, <1>7, <1>8, <1>9 DEF Next, Writer, Call

LEMMA OwesInit == Init => Owes
<1> SUFFICES ASSUME Init  PROVE Owes
  OBVIOUS
<1>1. ToSet(sendq) = {} /\ owed = 0 /\ writer.at = "idle"
  BY DEF Init, Waiting, ToSet
<1>2. Owing = 0
  BY <1>1, SumEmpty DEF Owing
<1> QED  BY <1>1, <1>2 DEF Owes, HeadKept

-----------------------------------------------------------------------------
(* The properties.                                                         *)

(* The fields of the queue and of the threads keep their types; a chunk    *)
(* never has less than nothing left.                                       *)
THEOREM SendTypeCorrect == Spec => []TypeOK
<1>1. IInv => TypeOK
  BY DEF IInv
<1> QED  BY <1>1, Invariant, PTL

(* No block of a connection leaks, and no two chunks share one: each is    *)
(* free, queued, or in the hands of one thread, through the lives of the   *)
(* connection and although conn_start_cstate empties the queue under       *)
(* write_handler.                                                          *)
THEOREM NoBlockLeaks == Spec => []BlocksAccounted
<1>1. IInv => BlocksAccounted
  BY ApartIsAccounted, TypesApply DEF IInv, Places
<1> QED  BY <1>1, Invariant, PTL

(* A chunk that is queued on an open connection is never forgotten, though *)
(* write_handler disarms the event behind the back of conn_push_chunk.     *)
THEOREM QueuedIsWatched == Spec => []QueueIsWatched
<1>1. IInv => QueueIsWatched
  BY DEF IInv, Watched, Announced, QueueIsWatched
<1> QED  BY <1>1, Invariant, PTL

(* Every unit that was queued in this life of the connection is sent, or   *)
(* discarded by conn_start_cstate, or still in the queue: write_handler    *)
(* frees the chunk that it sent and no other, unless conn_start_cstate     *)
(* popped behind its back.                                                 *)
THEOREM NothingLost == Spec => []NothingIsLost
<1>1. Owes => NothingIsLost
  BY DEF Owes, Owing, Sum, NothingIsLost
<1>2. Spec => []Owes
  BY InvInit, InvStep, OwesInit, OwesStep, PTL DEF Spec
<1> QED  BY <1>1, <1>2, PTL
=============================================================================
