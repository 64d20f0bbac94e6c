----------------------------- MODULE FiniteSums -----------------------------
(***************************************************************************)
(* What SumFunctionOnSet of the community modules computes on finite sets: *)
(* it adds up in whatever order, over disjoint sets, and value by value.   *)
(*                                                                         *)
(* The fold is a recursive function on the subsets of the set, which takes *)
(* one element after the other by CHOOSE.  Each lemma looks at a least     *)
(* subset that would contradict it.                                        *)
(***************************************************************************)
EXTENDS Integers, Functions, FiniteSetTheorems, WellFoundedInduction, TLAPS

Any(s) == CHOOSE x \in s : TRUE

(* h is the fold of g on all the subsets of S. *)
IsFold(h, g, S) == h = [s \in SUBSET S |-> IF s = {} THEN 0 ELSE g[Any(s)] + h[s \ {Any(s)}]]
Iter(g, S) == CHOOSE h : IsFold(h, g, S)

(* A nonempty set of subsets of a finite set has a least one. *)
LEMMA LeastSubset ==
    ASSUME NEW S, IsFiniteSet(S), NEW B \in SUBSET SUBSET S, B # {}
    PROVE  \E s \in B : \A t \in SUBSET s : t # s => t \notin B
<1>1. IsWellFoundedOn(StrictSubsetOrdering(S), SUBSET S)
    BY FS_StrictSubsetOrderingWellFounded, FS_FiniteSubsetsOfFinite
<1>2. PICK s \in B : \A t \in B : <<t, s>> \notin StrictSubsetOrdering(S)
    BY <1>1, WFMin
<1>3. \A t \in SUBSET s : t # s /\ t \in B => <<t, s>> \in StrictSubsetOrdering(S)
    BY <1>2 DEF StrictSubsetOrdering
<1>4. \A t \in SUBSET s : t # s => t \notin B
    BY <1>2, <1>3
<1> QED
    BY <1>4

(* The fold of the community modules is what its recursion defines. *)
LEMMA SumIsIter ==
    ASSUME NEW g, NEW S
    PROVE  SumFunctionOnSet(g, S) = Iter(g, S)[S]
BY DEF SumFunctionOnSet, FoldFunctionOnSet, MapThenFoldSet, Iter, IsFold, Any

(* What the recursion says of each subset. *)
LEMMA FoldsAre ==
    ASSUME NEW g, NEW S, NEW h, IsFold(h, g, S), NEW s \in SUBSET S
    PROVE  h[s] = IF s = {} THEN 0 ELSE g[Any(s)] + h[s \ {Any(s)}]
BY Zenon DEF IsFold

(* Two functions that satisfy it agree where both are defined. *)
LEMMA FoldsAgree ==
    ASSUME NEW g, NEW S, NEW T, NEW h, NEW i, IsFiniteSet(S), T \subseteq S,
           IsFold(h, g, S), IsFold(i, g, T)
    PROVE  h[T] = i[T]
<1> DEFINE Bad == {s \in SUBSET T : h[s] # i[s]}
<1>1. IsFiniteSet(T)
    BY FS_Subset
<1>2. ASSUME Bad # {}
      PROVE  FALSE
  <2>1. PICK s \in SUBSET T : s \in Bad /\ \A t \in SUBSET s : t # s => t \notin Bad
    <3>1. Bad \in SUBSET SUBSET T
        OBVIOUS
    <3> HIDE DEF Bad
    <3> QED
        BY <1>1, <1>2, <3>1, LeastSubset
  <2>2. /\ h[s] = IF s = {} THEN 0 ELSE g[Any(s)] + h[s \ {Any(s)}]
        /\ i[s] = IF s = {} THEN 0 ELSE g[Any(s)] + i[s \ {Any(s)}]
      BY FoldsAre
  <2>3. s # {}
      BY <2>1, <2>2
  <2>4. Any(s) \in s
      BY <2>3 DEF Any
  <2>5. h[s \ {Any(s)}] = i[s \ {Any(s)}]
      BY <2>1, <2>4
  <2> QED
      BY <2>1, <2>2, <2>3, <2>5
<1> QED
    BY <1>2

(* So any function that satisfies it is the sum. *)
LEMMA FoldIs ==
    ASSUME NEW g, NEW S, IsFiniteSet(S), NEW h, IsFold(h, g, S)
    PROVE  SumFunctionOnSet(g, S) = h[S]
<1>1. IsFold(Iter(g, S), g, S)
    BY Zenon DEF Iter
<1> QED
    BY <1>1, FoldsAgree, SumIsIter

(* And there is one: on a least set without one it could be put together     *)
(* from those of the smaller sets.                                           *)
LEMMA FoldExists ==
    ASSUME NEW g, NEW S, IsFiniteSet(S)
    PROVE  IsFold(Iter(g, S), g, S)
<1> DEFINE Bad == {s \in SUBSET S : ~ \E h : IsFold(h, g, s)}
<1>1. ASSUME Bad # {}
      PROVE  FALSE
  <2>1. PICK T \in Bad : \A t \in SUBSET T : t # T => t \notin Bad
      BY ZenonT(60), <1>1, LeastSubset
  <2> DEFINE V(s) == Iter(g, s)[s]
             h == [s \in SUBSET T |-> IF s = {} THEN 0 ELSE g[Any(s)] + V(s \ {Any(s)})]
  <2>2. ASSUME NEW u \in SUBSET T, u # T
        PROVE  IsFold(Iter(g, u), g, u)
    <3>1. \E i : IsFold(i, g, u)
        BY <2>1, <2>2
    <3> QED
        BY <3>1, Zenon DEF Iter
  <2>3. ASSUME NEW u \in SUBSET T, u # T
        PROVE  V(u) = h[u]
    <3>1. V(u) = IF u = {} THEN 0 ELSE g[Any(u)] + Iter(g, u)[u \ {Any(u)}]
        BY <2>2, <2>3, FoldsAre
    <3>2. CASE u # {}
      <4> DEFINE w == u \ {Any(u)}
      <4>1. w \subseteq u /\ w \in SUBSET T /\ w # T
          BY <2>3
      <4>2. IsFiniteSet(u)
          BY <2>1, FS_Subset
      <4>3. Iter(g, u)[w] = V(w)
          BY <2>2, <2>3, <4>1, <4>2, FoldsAgree
      <4> QED
          BY <3>1, <3>2, <4>3
    <3>3. CASE u = {}
        BY <3>1, <3>3
    <3> QED
        BY <3>2, <3>3
  <2>4. ASSUME NEW s \in SUBSET T, s # {}
        PROVE  s \ {Any(s)} \in SUBSET T /\ s \ {Any(s)} # T
      BY <2>4 DEF Any
  <2>5. IsFold(h, g, T)
    <3> DEFINE k == [s \in SUBSET T |-> IF s = {} THEN 0 ELSE g[Any(s)] + h[s \ {Any(s)}]]
    <3>1. ASSUME NEW s \in SUBSET T
          PROVE  h[s] = k[s]
        BY <2>3, <2>4
    <3> HIDE DEF V
    <3>2. h = k
        BY <3>1
    <3> QED
        BY <3>2 DEF IsFold
  <2> QED
      BY <2>1, <2>5
<1>2. \E h : IsFold(h, g, S)
    BY <1>1
<1> QED
    BY <1>2, Zenon DEF Iter

(* Nothing adds up to 0. *)
LEMMA SumEmpty ==
    ASSUME NEW g
    PROVE  SumFunctionOnSet(g, {}) = 0
<1>1. IsFiniteSet({})
    BY FS_EmptySet
<1>2. IsFold(Iter(g, {}), g, {})
    BY <1>1, FoldExists
<1> QED
    BY <1>2, FoldsAre, SumIsIter

(* The element that is taken first, and the rest. *)
LEMMA SumStep ==
    ASSUME NEW g, NEW S, IsFiniteSet(S), S # {}
    PROVE  SumFunctionOnSet(g, S) = g[Any(S)] + SumFunctionOnSet(g, S \ {Any(S)})
<1> DEFINE T == S \ {Any(S)}
<1>1. IsFiniteSet(T) /\ T \subseteq S
    BY FS_Subset
<1>2. IsFold(Iter(g, S), g, S) /\ IsFold(Iter(g, T), g, T)
    BY <1>1, FoldExists
<1>3. Iter(g, S)[T] = Iter(g, T)[T]
    BY <1>1, <1>2, FoldsAgree
<1>4. Iter(g, S)[S] = g[Any(S)] + Iter(g, S)[T]
    BY <1>2, FoldsAre
<1> QED
    BY <1>3, <1>4, SumIsIter

(* Integers add up to an integer. *)
LEMMA SumType ==
    ASSUME NEW g, NEW S, IsFiniteSet(S), \A x \in S : g[x] \in Int
    PROVE  SumFunctionOnSet(g, S) \in Int
<1> DEFINE Bad == {s \in SUBSET S : SumFunctionOnSet(g, s) \notin Int}
<1>1. ASSUME Bad # {}
      PROVE  FALSE
  <2>1. PICK s \in SUBSET S : s \in Bad /\ \A t \in SUBSET s : t # s => t \notin Bad
    <3>1. Bad \in SUBSET SUBSET S
        OBVIOUS
    <3> HIDE DEF Bad
    <3> QED
        BY <1>1, <3>1, LeastSubset
  <2>2. s # {}
    <3>1. SumFunctionOnSet(g, s) # 0
        BY <2>1
    <3> QED
        BY <3>1, SumEmpty
  <2>3. Any(s) \in s
      BY <2>2 DEF Any
  <2>4. IsFiniteSet(s)
      BY <2>1, FS_Subset
  <2>5. SumFunctionOnSet(g, s) = g[Any(s)] + SumFunctionOnSet(g, s \ {Any(s)})
      BY <2>2, <2>4, SumStep
  <2>6. SumFunctionOnSet(g, s \ {Any(s)}) \in Int
      BY <2>1, <2>3
  <2>7. g[Any(s)] \in Int
      BY <2>1, <2>3
  <2> QED
      BY <2>1, <2>5, <2>6, <2>7
<1> QED
    BY <1>1

(* Any element may be taken first. *)
LEMMA SumRemove ==
    ASSUME NEW g, NEW S, IsFiniteSet(S), \A x \in S : g[x] \in Int, NEW x \in S
    PROVE  SumFunctionOnSet(g, S) = g[x] + SumFunctionOnSet(g, S \ {x})
<1> DEFINE Sum(s) == SumFunctionOnSet(g, s)
           Bad == {s \in SUBSET S : \E y \in s : Sum(s) # g[y] + Sum(s \ {y})}
<1>1. \A s \in SUBSET S : IsFiniteSet(s) /\ Sum(s) \in Int
    BY FS_Subset, SumType
<1>2. \A s \in SUBSET S : s # {} => Any(s) \in s /\ Sum(s) = g[Any(s)] + Sum(s \ {Any(s)})
  <2>1. \A s : s # {} => Any(s) \in s
      BY DEF Any
  <2> QED
      BY <1>1, <2>1, SumStep
<1> HIDE DEF Sum
<1>3. ASSUME Bad # {}
      PROVE  FALSE
  <2>1. PICK s \in SUBSET S : s \in Bad /\ \A t \in SUBSET s : t # s => t \notin Bad
    <3>1. Bad \in SUBSET SUBSET S
        OBVIOUS
    <3> HIDE DEF Bad
    <3> QED
        BY <1>3, <3>1, LeastSubset
  <2>2. PICK y \in s : Sum(s) # g[y] + Sum(s \ {y})
      BY <2>1
  <2> DEFINE z == Any(s)
  <2>3. z \in s /\ Sum(s) = g[z] + Sum(s \ {z})
      BY <1>2, <2>2
  <2> HIDE DEF z
  <2>4. y # z
      BY <2>2, <2>3
  <2>5. /\ s \ {z} \in SUBSET s /\ s \ {z} # s /\ y \in s \ {z}
        /\ s \ {y} \in SUBSET s /\ s \ {y} # s /\ z \in s \ {y}
        /\ s \ {z} \in SUBSET S /\ s \ {y} \in SUBSET S
      BY <2>2, <2>3, <2>4
  <2>6. s \ {z} \notin Bad /\ s \ {y} \notin Bad
      BY <2>1, <2>5
  <2> DEFINE rest == (s \ {z}) \ {y}
  <2>7. rest = (s \ {y}) \ {z}
      OBVIOUS
  <2>8. Sum(s \ {z}) = g[y] + Sum(rest) /\ Sum(s \ {y}) = g[z] + Sum(rest)
      BY <2>5, <2>6, <2>7
  <2>9. rest \in SUBSET S
      BY <2>1
  <2>10. g[y] \in Int /\ g[z] \in Int /\ Sum(rest) \in Int
      BY <1>1, <2>1, <2>2, <2>3, <2>9
  <2> QED
      BY <2>2, <2>3, <2>8, <2>10
<1> QED
    BY <1>3 DEF Sum

(* One more element, *)
LEMMA SumAdd ==
    ASSUME NEW g, NEW S, IsFiniteSet(S), NEW x, x \notin S,
           \A y \in S \union {x} : g[y] \in Int
    PROVE  SumFunctionOnSet(g, S \union {x}) = SumFunctionOnSet(g, S) + g[x]
<1>1. IsFiniteSet(S \union {x}) /\ (S \union {x}) \ {x} = S
    BY FS_AddElement
<1>2. SumFunctionOnSet(g, S \union {x}) = g[x] + SumFunctionOnSet(g, S)
    BY <1>1, SumRemove
<1>3. SumFunctionOnSet(g, S) \in Int /\ g[x] \in Int
    BY SumType
<1> QED
    BY <1>2, <1>3

(* and one alone. *)
LEMMA SumSingle ==
    ASSUME NEW g, NEW x, g[x] \in Int
    PROVE  SumFunctionOnSet(g, {x}) = g[x]
<1>1. IsFiniteSet({}) /\ {} \union {x} = {x}
    BY FS_EmptySet
<1>2. SumFunctionOnSet(g, {} \union {x}) = SumFunctionOnSet(g, {}) + g[x]
    BY <1>1, SumAdd
<1> QED
    BY <1>1, <1>2, SumEmpty

(* The tokens of two sets that have nothing in common. *)
LEMMA SumUnion ==
    ASSUME NEW g, NEW S, NEW T, IsFiniteSet(S), IsFiniteSet(T), S \intersect T = {},
           \A x \in S \union T : g[x] \in Int
    PROVE  SumFunctionOnSet(g, S \union T) = SumFunctionOnSet(g, S) + SumFunctionOnSet(g, T)
<1> DEFINE Sum(s) == SumFunctionOnSet(g, s)
           Bad == {t \in SUBSET T : Sum(S \union t) # Sum(S) + Sum(t)}
<1>1. \A t \in SUBSET T : /\ IsFiniteSet(t) /\ IsFiniteSet(S \union t)
                          /\ Sum(t) \in Int /\ Sum(S \union t) \in Int
  <2>1. \A t \in SUBSET T : IsFiniteSet(t) /\ IsFiniteSet(S \union t)
      BY FS_Subset, FS_Union
  <2> QED
      BY <2>1, SumType
<1>2. Sum(S) \in Int
    BY SumType
<1>3. ASSUME NEW t \in SUBSET T, NEW x \in t
      PROVE  /\ Sum(t) = g[x] + Sum(t \ {x})
             /\ Sum(S \union t) = g[x] + Sum(S \union (t \ {x}))
  <2>1. (S \union t) \ {x} = S \union (t \ {x})
      OBVIOUS
  <2>2. /\ IsFiniteSet(t) /\ IsFiniteSet(S \union t)
        /\ \A y \in t : g[y] \in Int
        /\ \A y \in S \union t : g[y] \in Int
      BY <1>1
  <2>3. Sum(t) = g[x] + Sum(t \ {x})
      BY <2>2, SumRemove
  <2>4. Sum(S \union t) = g[x] + Sum((S \union t) \ {x})
      BY <2>2, SumRemove
  <2> QED
      BY <2>1, <2>3, <2>4
<1>4. Sum({}) = 0
    BY SumEmpty
<1> HIDE DEF Sum
<1>5. ASSUME Bad # {}
      PROVE  FALSE
  <2>1. PICK t \in SUBSET T : t \in Bad /\ \A u \in SUBSET t : u # t => u \notin Bad
    <3>1. Bad \in SUBSET SUBSET T
        OBVIOUS
    <3> HIDE DEF Bad
    <3> QED
        BY <1>5, <3>1, LeastSubset
  <2>2. t # {}
    <3>1. S \union {} = S
        OBVIOUS
    <3>2. Sum(S \union t) # Sum(S) + Sum(t)
        BY <2>1
    <3>3. Sum(S \union {}) = Sum(S) + Sum({})
        BY <1>2, <1>4, <3>1
    <3> QED
        BY Zenon, <3>2, <3>3
  <2>3. PICK x : x \in t
      BY <2>2
  <2>4. t \ {x} \in SUBSET t /\ t \ {x} # t /\ t \ {x} \in SUBSET T
      BY <2>3
  <2>5. Sum(S \union (t \ {x})) = Sum(S) + Sum(t \ {x})
      BY <2>1, <2>4
  <2>6. g[x] \in Int /\ Sum(t \ {x}) \in Int
      BY <1>1, <2>3, <2>4
  <2>7. /\ Sum(t) = g[x] + Sum(t \ {x})
        /\ Sum(S \union t) = g[x] + Sum(S \union (t \ {x}))
      BY <1>3, <2>3
  <2>8. Sum(S \union t) # Sum(S) + Sum(t)
      BY <2>1
  <2> QED
      BY <1>2, <2>5, <2>6, <2>7, <2>8
<1> QED
    BY <1>5 DEF Sum

(* Sums of sums: what is added value by value is added in the end.           *)
LEMMA SumPlus ==
    ASSUME NEW f, NEW g, NEW h, NEW S, IsFiniteSet(S),
           \A x \in S : f[x] \in Int /\ g[x] \in Int /\ h[x] = f[x] + g[x]
    PROVE  SumFunctionOnSet(h, S) = SumFunctionOnSet(f, S) + SumFunctionOnSet(g, S)
<1> DEFINE Sum(k, s) == SumFunctionOnSet(k, s)
           Bad == {s \in SUBSET S : Sum(h, s) # Sum(f, s) + Sum(g, s)}
<1>1. \A s \in SUBSET S : IsFiniteSet(s) /\ Sum(f, s) \in Int /\ Sum(g, s) \in Int
  <2>1. \A s \in SUBSET S : IsFiniteSet(s)
      BY FS_Subset
  <2> QED
      BY <2>1, SumType
<1>2. ASSUME NEW s \in SUBSET S, NEW x \in s
      PROVE  /\ Sum(f, s) = f[x] + Sum(f, s \ {x})
             /\ Sum(g, s) = g[x] + Sum(g, s \ {x})
             /\ Sum(h, s) = h[x] + Sum(h, s \ {x})
  <2>1. IsFiniteSet(s) /\ \A y \in s : f[y] \in Int /\ g[y] \in Int /\ h[y] \in Int
      BY <1>1
  <2> QED
      BY <2>1, SumRemove
<1>3. Sum(f, {}) = 0 /\ Sum(g, {}) = 0 /\ Sum(h, {}) = 0
    BY SumEmpty
<1> HIDE DEF Sum
<1>4. ASSUME Bad # {}
      PROVE  FALSE
  <2>1. PICK s \in SUBSET S : s \in Bad /\ \A u \in SUBSET s : u # s => u \notin Bad
    <3>1. Bad \in SUBSET SUBSET S
        OBVIOUS
    <3> HIDE DEF Bad
    <3> QED
        BY <1>4, <3>1, LeastSubset
  <2>2. s # {}
    <3>1. Sum(h, s) # Sum(f, s) + Sum(g, s)
        BY <2>1
    <3>2. Sum(h, {}) = Sum(f, {}) + Sum(g, {})
        BY <1>3
    <3> QED
        BY Zenon, <3>1, <3>2
  <2>3. PICK x : x \in s
      BY <2>2
  <2>4. s \ {x} \in SUBSET s /\ s \ {x} # s /\ s \ {x} \in SUBSET S
      BY <2>3
  <2>5. Sum(h, s \ {x}) = Sum(f, s \ {x}) + Sum(g, s \ {x})
      BY <2>1, <2>4
  <2>6. /\ f[x] \in Int /\ g[x] \in Int /\ h[x] = f[x] + g[x]
        /\ Sum(f, s \ {x}) \in Int /\ Sum(g, s \ {x}) \in Int
      BY <1>1, <2>3, <2>4
  <2> QED
      BY <1>2, <2>1, <2>3, <2>5, <2>6
<1> QED
    BY <1>4 DEF Sum

(* Equal values have equal sums, and larger ones larger. *)
LEMMA SumMono ==
    ASSUME NEW f, NEW g, NEW S, IsFiniteSet(S),
           \A x \in S : f[x] \in Int /\ g[x] \in Int /\ f[x] <= g[x]
    PROVE  SumFunctionOnSet(f, S) <= SumFunctionOnSet(g, S)
<1> DEFINE Sum(k, s) == SumFunctionOnSet(k, s)
           Bad == {s \in SUBSET S : ~(Sum(f, s) <= Sum(g, s))}
<1>1. \A s \in SUBSET S : IsFiniteSet(s) /\ Sum(f, s) \in Int /\ Sum(g, s) \in Int
  <2>1. \A s \in SUBSET S : IsFiniteSet(s)
      BY FS_Subset
  <2> QED
      BY <2>1, SumType
<1>2. ASSUME NEW s \in SUBSET S, NEW x \in s
      PROVE  /\ Sum(f, s) = f[x] + Sum(f, s \ {x})
             /\ Sum(g, s) = g[x] + Sum(g, s \ {x})
  <2>1. IsFiniteSet(s) /\ \A y \in s : f[y] \in Int /\ g[y] \in Int
      BY <1>1
  <2> QED
      BY <2>1, SumRemove
<1>3. Sum(f, {}) = 0 /\ Sum(g, {}) = 0
    BY SumEmpty
<1> HIDE DEF Sum
<1>4. ASSUME Bad # {}
      PROVE  FALSE
  <2>1. PICK s \in SUBSET S : s \in Bad /\ \A u \in SUBSET s : u # s => u \notin Bad
    <3>1. Bad \in SUBSET SUBSET S
        OBVIOUS
    <3> HIDE DEF Bad
    <3> QED
        BY <1>4, <3>1, LeastSubset
  <2>2. s # {}
    <3>1. ~(Sum(f, s) <= Sum(g, s))
        BY <2>1
    <3> QED
        BY <1>3, <3>1
  <2>3. PICK x : x \in s
      BY <2>2
  <2>4. s \ {x} \in SUBSET s /\ s \ {x} # s /\ s \ {x} \in SUBSET S
      BY <2>3
  <2>5. Sum(f, s \ {x}) <= Sum(g, s \ {x})
      BY <2>1, <2>4
  <2>6. /\ f[x] \in Int /\ g[x] \in Int /\ f[x] <= g[x]
        /\ Sum(f, s \ {x}) \in Int /\ Sum(g, s \ {x}) \in Int
      BY <1>1, <2>3, <2>4
  <2> QED
      BY <1>2, <2>1, <2>3, <2>5, <2>6
<1> QED
    BY <1>4 DEF Sum

(* Naturals add up to a natural. *)
LEMMA SumNat ==
    ASSUME NEW g, NEW S, IsFiniteSet(S), \A x \in S : g[x] \in Nat
    PROVE  SumFunctionOnSet(g, S) \in Nat
<1> DEFINE zero == [x \in S |-> 0]
<1>1. \A x \in S : zero[x] \in Int /\ g[x] \in Int /\ zero[x] <= g[x] /\ zero[x] = zero[x] + zero[x]
    OBVIOUS
<1> HIDE DEF zero
<1>2. SumFunctionOnSet(zero, S) <= SumFunctionOnSet(g, S)
    BY <1>1, SumMono
<1>3. SumFunctionOnSet(zero, S) = SumFunctionOnSet(zero, S) + SumFunctionOnSet(zero, S)
    BY <1>1, SumPlus
<1>4. SumFunctionOnSet(zero, S) \in Int /\ SumFunctionOnSet(g, S) \in Int
    BY <1>1, SumType
<1> QED
    BY <1>2, <1>3, <1>4

(* The sum looks at the values on the set only. *)
LEMMA SumEqual ==
    ASSUME NEW f, NEW g, NEW S, IsFiniteSet(S), \A x \in S : f[x] \in Int /\ f[x] = g[x]
    PROVE  SumFunctionOnSet(f, S) = SumFunctionOnSet(g, S)
<1>1. SumFunctionOnSet(f, S) <= SumFunctionOnSet(g, S) /\ SumFunctionOnSet(g, S) <= SumFunctionOnSet(f, S)
  <2>1. \A x \in S : /\ f[x] \in Int /\ g[x] \in Int
                     /\ f[x] <= g[x] /\ g[x] <= f[x]
      OBVIOUS
  <2> QED
      BY <2>1, SumMono
<1>2. SumFunctionOnSet(f, S) \in Int /\ SumFunctionOnSet(g, S) \in Int
    BY SumType
<1> QED
    BY <1>1, <1>2

-----------------------------------------------------------------------------
(* Some integers have a largest and a least one. *)
LEMMA MaxExists ==
    ASSUME NEW S, IsFiniteSet(S), S \subseteq Int, S # {}
    PROVE  /\ \E x \in S : \A y \in S : x >= y
           /\ \E x \in S : \A y \in S : x <= y
<1> DEFINE Bad == {s \in SUBSET S : s # {} /\ ~ (\E x \in s : \A y \in s : x >= y)}
           Bad2 == {s \in SUBSET S : s # {} /\ ~ (\E x \in s : \A y \in s : x <= y)}
<1>1. ASSUME Bad # {}
      PROVE  FALSE
  <2>1. PICK s \in SUBSET S : s \in Bad /\ \A t \in SUBSET s : t # s => t \notin Bad
    <3>1. Bad \in SUBSET SUBSET S
        OBVIOUS
    <3> HIDE DEF Bad
    <3> QED
        BY <1>1, <3>1, LeastSubset
  <2>2. PICK x : x \in s
      BY <2>1
  <2>3. s \ {x} \notin Bad /\ s \ {x} \in SUBSET S
      BY <2>1, <2>2
  <2>4. CASE s \ {x} = {}
    <3>1. \A y \in s : x >= y
        BY <2>2, <2>4
    <3> QED
        BY <2>1, <2>2, <3>1
  <2>5. CASE s \ {x} # {}
    <3>1. PICK z \in s \ {x} : \A y \in s \ {x} : z >= y
        BY <2>3, <2>5
    <3>2. CASE z >= x
        BY <2>1, <3>1, <3>2
    <3>3. CASE ~(z >= x)
        BY <2>1, <2>2, <3>1, <3>3
    <3> QED
        BY <3>2, <3>3
  <2> QED
      BY <2>4, <2>5
<1>2. ASSUME Bad2 # {}
      PROVE  FALSE
  <2>1. PICK s \in SUBSET S : s \in Bad2 /\ \A t \in SUBSET s : t # s => t \notin Bad2
    <3>1. Bad2 \in SUBSET SUBSET S
        OBVIOUS
    <3> HIDE DEF Bad2
    <3> QED
        BY <1>2, <3>1, LeastSubset
  <2>2. PICK x : x \in s
      BY <2>1
  <2>3. s \ {x} \notin Bad2 /\ s \ {x} \in SUBSET S
      BY <2>1, <2>2
  <2>4. CASE s \ {x} = {}
    <3>1. \A y \in s : x <= y
        BY <2>2, <2>4
    <3> QED
        BY <2>1, <2>2, <3>1
  <2>5. CASE s \ {x} # {}
    <3>1. PICK z \in s \ {x} : \A y \in s \ {x} : z <= y
        BY <2>3, <2>5
    <3>2. CASE z <= x
        BY <2>1, <3>1, <3>2
    <3>3. CASE ~(z <= x)
        BY <2>1, <2>2, <3>1, <3>3
    <3> QED
        BY <3>2, <3>3
  <2> QED
      BY <2>4, <2>5
<1> QED
    BY <1>1, <1>2

(* What holds of 0 and is passed on from each number to the next holds of    *)
(* all the numbers up to n.                                                  *)
LEMMA UpTo ==
    ASSUME NEW n \in Nat, NEW B, 0 \in B, \A i \in 1 .. n : i - 1 \in B => i \in B
    PROVE  \A i \in 0 .. n : i \in B
<1> DEFINE Bad == {i \in 0 .. n : i \notin B}
<1>1. ASSUME Bad # {}
      PROVE  FALSE
  <2>1. Bad \subseteq Int /\ IsFiniteSet(Bad)
    <3>1. IsFiniteSet(0 .. n)
        BY FS_Interval
    <3> QED
        BY <3>1, FS_Subset
  <2>2. PICK i \in Bad : \A j \in Bad : i <= j
    <3> HIDE DEF Bad
    <3> QED
        BY <1>1, <2>1, MaxExists
  <2>3. i \in 1 .. n /\ i - 1 \in 0 .. n /\ ~(i <= i - 1)
      BY <2>2
  <2>4. i - 1 \in B
      BY <2>2, <2>3
  <2> QED
      BY <2>2, <2>3, <2>4
<1> QED
    BY <1>1

-----------------------------------------------------------------------------
(* A sum of natural numbers is positive if one of them is. *)
LEMMA SumPositive ==
    ASSUME NEW g, NEW S, IsFiniteSet(S), \A x \in S : g[x] \in Nat
    PROVE  SumFunctionOnSet(g, S) > 0 <=> \E x \in S : g[x] > 0
<1>1. ASSUME NEW x \in S, g[x] > 0
      PROVE  SumFunctionOnSet(g, S) > 0
  <2>1. IsFiniteSet(S \ {x}) /\ \A y \in S \ {x} : g[y] \in Nat
      BY FS_Subset
  <2>2. SumFunctionOnSet(g, S \ {x}) \in Nat
      BY <2>1, SumNat
  <2>3. SumFunctionOnSet(g, S) = g[x] + SumFunctionOnSet(g, S \ {x})
      BY SumRemove
  <2> QED
      BY <1>1, <2>2, <2>3
<1>2. ASSUME \A x \in S : ~(g[x] > 0)
      PROVE  ~(SumFunctionOnSet(g, S) > 0)
  <2>1. \A x \in S : g[x] \in Int /\ g[x] = g[x] + g[x]
      BY <1>2
  <2>2. SumFunctionOnSet(g, S) = SumFunctionOnSet(g, S) + SumFunctionOnSet(g, S)
      BY <2>1, SumPlus
  <2>3. SumFunctionOnSet(g, S) \in Nat
      BY SumNat
  <2> QED
      BY <2>2, <2>3
<1> QED
    BY <1>1, <1>2

(* A factor may be taken out. *)
LEMMA SumTimes ==
    ASSUME NEW g, NEW h, NEW S, IsFiniteSet(S), NEW r \in Int,
           \A x \in S : g[x] \in Int /\ h[x] = g[x] * r
    PROVE  SumFunctionOnSet(h, S) = SumFunctionOnSet(g, S) * r
<1> DEFINE SumOf(k, s) == SumFunctionOnSet(k, s)
           Bad == {s \in SUBSET S : SumOf(h, s) # SumOf(g, s) * r}
<1>1. \A s \in SUBSET S : IsFiniteSet(s) /\ SumOf(g, s) \in Int
  <2>1. \A s \in SUBSET S : IsFiniteSet(s)
      BY FS_Subset
  <2> QED
      BY <2>1, SumType
<1>2. ASSUME NEW s \in SUBSET S, NEW x \in s
      PROVE  /\ SumOf(g, s) = g[x] + SumOf(g, s \ {x})
             /\ SumOf(h, s) = h[x] + SumOf(h, s \ {x})
  <2>1. IsFiniteSet(s) /\ \A y \in s : g[y] \in Int /\ h[y] \in Int
      BY <1>1
  <2> QED
      BY <2>1, SumRemove
<1>3. SumOf(g, {}) = 0 /\ SumOf(h, {}) = 0
    BY SumEmpty
<1> HIDE DEF SumOf
<1>4. ASSUME Bad # {}
      PROVE  FALSE
  <2>1. PICK s \in SUBSET S : s \in Bad /\ \A u \in SUBSET s : u # s => u \notin Bad
    <3>1. Bad \in SUBSET SUBSET S
        OBVIOUS
    <3> HIDE DEF Bad
    <3> QED
        BY <1>4, <3>1, LeastSubset
  <2>2. SumOf(h, s) # SumOf(g, s) * r
      BY <2>1
  <2>3. s # {}
    <3>1. SumOf(h, {}) = SumOf(g, {}) * r
        BY <1>3
    <3> QED
        BY Zenon, <2>2, <3>1
  <2>4. PICK x : x \in s
      BY <2>3
  <2>5. s \ {x} \in SUBSET s /\ s \ {x} # s /\ s \ {x} \in SUBSET S
      BY <2>4
  <2>6. SumOf(h, s \ {x}) = SumOf(g, s \ {x}) * r
      BY <2>1, <2>5
  <2>7. PICK a \in Int, b \in Int : a = g[x] /\ b = SumOf(g, s \ {x})
      BY <1>1, <2>4, <2>5
  <2>8. SumOf(g, s) = a + b /\ SumOf(h, s) = a * r + b * r
      BY <1>2, <2>4, <2>6, <2>7
  <2>9. (a + b) * r = a * r + b * r
      OBVIOUS
  <2> QED
      BY <2>2, <2>8, <2>9
<1> QED
    BY <1>4 DEF SumOf

(* The sums over rows and those over columns have the same sum. *)
LEMMA SumSwap ==
    ASSUME NEW g, NEW S, NEW C, IsFiniteSet(S), IsFiniteSet(C),
           \A x \in S : \A c \in C : g[x][c] \in Int
    PROVE  SumFunctionOnSet([x \in S |-> SumFunctionOnSet(g[x], C)], S) =
             SumFunctionOnSet([c \in C |-> SumFunctionOnSet([x \in S |-> g[x][c]], S)], C)
<1> DEFINE SumOf(k, s) == SumFunctionOnSet(k, s)
           rows == [x \in S |-> SumOf(g[x], C)]
           column(c) == [x \in S |-> g[x][c]]
           Columns(s) == [c \in C |-> SumOf(column(c), s)]
           Bad == {s \in SUBSET S : SumOf(rows, s) # SumOf(Columns(s), C)}
<1>1. \A x \in S : rows[x] \in Int /\ rows[x] = SumOf(g[x], C)
    BY SumType
<1>2. \A c \in C : \A x \in S : column(c)[x] \in Int /\ column(c)[x] = g[x][c]
    OBVIOUS
<1> HIDE DEF column
<1>3. \A s \in SUBSET S : IsFiniteSet(s) /\ \A c \in C : SumOf(column(c), s) \in Int
  <2>1. \A s \in SUBSET S : IsFiniteSet(s)
      BY FS_Subset
  <2> QED
      BY <1>2, <2>1, SumType
<1>4. \A s \in SUBSET S : SumOf(Columns(s), C) \in Int
  <2>1. \A s \in SUBSET S : \A c \in C : Columns(s)[c] \in Int
      BY <1>3
  <2> HIDE DEF Columns
  <2> QED
      BY <2>1, SumType
<1>5. ASSUME NEW s \in SUBSET S, NEW x \in s
      PROVE  /\ SumOf(rows, s) = SumOf(g[x], C) + SumOf(rows, s \ {x})
             /\ SumOf(Columns(s), C) = SumOf(g[x], C) + SumOf(Columns(s \ {x}), C)
  <2>1. SumOf(rows, s) = SumOf(g[x], C) + SumOf(rows, s \ {x})
    <3> HIDE DEF rows
    <3>1. IsFiniteSet(s) /\ \A y \in s : rows[y] \in Int
        BY <1>1, <1>3
    <3>2. SumOf(rows, s) = rows[x] + SumOf(rows, s \ {x})
        BY <3>1, SumRemove
    <3> QED
        BY <1>1, <3>2
  <2>2. \A c \in C : SumOf(column(c), s) = g[x][c] + SumOf(column(c), s \ {x})
    <3>1. IsFiniteSet(s) /\ \A c \in C : \A y \in s : column(c)[y] \in Int
        BY <1>2, <1>3
    <3>2. \A c \in C : SumOf(column(c), s) = column(c)[x] + SumOf(column(c), s \ {x})
        BY <3>1, SumRemove
    <3> QED
        BY <1>2, <3>2
  <2>3. \A c \in C : /\ g[x][c] \in Int /\ Columns(s \ {x})[c] \in Int
                     /\ Columns(s)[c] = g[x][c] + Columns(s \ {x})[c]
    <3> HIDE DEF SumOf
    <3>1. s \ {x} \in SUBSET S
        OBVIOUS
    <3> QED
        BY <1>3, <2>2, <3>1
  <2> HIDE DEF Columns
  <2>4. SumOf(Columns(s), C) = SumOf(g[x], C) + SumOf(Columns(s \ {x}), C)
    <3>1. PICK a, b, d : a = g[x] /\ b = Columns(s \ {x}) /\ d = Columns(s)
        OBVIOUS
    <3>2. \A c \in C : a[c] \in Int /\ b[c] \in Int /\ d[c] = a[c] + b[c]
        BY <2>3, <3>1
    <3>3. SumFunctionOnSet(d, C) = SumFunctionOnSet(a, C) + SumFunctionOnSet(b, C)
        BY <3>2, SumPlus
    <3> QED
        BY Zenon, <3>1, <3>3
  <2> QED
      BY <2>1, <2>4
<1>6. SumOf(rows, {}) = 0 /\ SumOf(Columns({}), C) = 0
  <2>1. \A c \in C : Columns({})[c] = 0
      BY SumEmpty
  <2>2. ~(\E c \in C : Columns({})[c] > 0) /\ \A c \in C : Columns({})[c] \in Nat
      BY <2>1
  <2> HIDE DEF Columns
  <2>3. SumOf(Columns({}), C) \in Nat /\ ~(SumOf(Columns({}), C) > 0)
      BY <2>2, SumNat, SumPositive
  <2> QED
      BY <2>3, SumEmpty
<1> HIDE DEF SumOf, rows, Columns
<1>7. ASSUME Bad # {}
      PROVE  FALSE
  <2>1. PICK s \in SUBSET S : s \in Bad /\ \A u \in SUBSET s : u # s => u \notin Bad
    <3>1. Bad \in SUBSET SUBSET S
        OBVIOUS
    <3> HIDE DEF Bad
    <3> QED
        BY <1>7, <3>1, LeastSubset
  <2>2. SumOf(rows, s) # SumOf(Columns(s), C)
      BY <2>1
  <2>3. s # {}
      BY Zenon, <1>6, <2>2
  <2>4. PICK x : x \in s
      BY <2>3
  <2>5. s \ {x} \in SUBSET s /\ s \ {x} # s /\ s \ {x} \in SUBSET S
      BY <2>4
  <2>6. SumOf(rows, s \ {x}) = SumOf(Columns(s \ {x}), C)
      BY <2>1, <2>5
  <2> QED
      BY <1>5, <2>2, <2>4, <2>6
<1>8. SumOf(rows, S) = SumOf(Columns(S), C)
    BY <1>7
<1> QED
    BY <1>8 DEF SumOf, rows, Columns, column

(* S is divided by a key with values in K. *)
IsDivided(S, key, K, part) ==
    /\ \A x \in S : key[x] \in K
    /\ \A k \in K : part[k] = {x \in S : key[x] = k}
AreSums(parts, K, g, part) == \A k \in K : parts[k] = SumFunctionOnSet(g, part[k])

(* The sums over the parts of a set add up to the sum over the set. *)
LEMMA SumPartition ==
    ASSUME NEW g, NEW S, NEW key, NEW K, NEW part, NEW parts,
           IsFiniteSet(S), IsFiniteSet(K), \A x \in S : g[x] \in Int,
           IsDivided(S, key, K, part), AreSums(parts, K, g, part)
    PROVE  SumFunctionOnSet(parts, K) = SumFunctionOnSet(g, S)
<1> DEFINE SumOf(h, s) == SumFunctionOnSet(h, s)
           Of(L) == {x \in S : key[x] \in L}
           Bad == {L \in SUBSET K : SumOf(parts, L) # SumOf(g, Of(L))}
<1>1. \A L : IsFiniteSet(Of(L)) /\ SumOf(g, Of(L)) \in Int
  <2>1. \A L : IsFiniteSet(Of(L))
      BY FS_Subset
  <2>2. \A L : \A x \in Of(L) : g[x] \in Int
      OBVIOUS
  <2> HIDE DEF Of
  <2> QED
      BY <2>1, <2>2, SumType
<1>2. \A k \in K : parts[k] = SumOf(g, Of({k})) /\ parts[k] \in Int
  <2> TAKE k \in K
  <2>1. Of({k}) = part[k]
      BY DEF IsDivided
  <2> HIDE DEF Of
  <2>2. parts[k] = SumOf(g, Of({k}))
      BY Zenon, <2>1 DEF AreSums
  <2> HIDE DEF SumOf
  <2>3. parts[k] \in Int
      BY <1>1, <2>2
  <2> QED
      BY <2>2, <2>3
<1>3. ASSUME NEW L \in SUBSET K, NEW k \in L
      PROVE  /\ SumOf(parts, L) = parts[k] + SumOf(parts, L \ {k})
             /\ SumOf(g, Of(L)) = parts[k] + SumOf(g, Of(L \ {k}))
  <2>1. IsFiniteSet(L) /\ \A l \in L : parts[l] \in Int
      BY <1>2, FS_Subset
  <2>2. SumOf(parts, L) = parts[k] + SumOf(parts, L \ {k})
      BY <2>1, SumRemove
  <2>3. Of(L) = Of({k}) \union Of(L \ {k}) /\ Of({k}) \intersect Of(L \ {k}) = {}
      OBVIOUS
  <2>4. \A x \in Of({k}) \union Of(L \ {k}) : g[x] \in Int
      OBVIOUS
  <2> HIDE DEF Of
  <2>5. SumOf(g, Of({k}) \union Of(L \ {k})) = SumOf(g, Of({k})) + SumOf(g, Of(L \ {k}))
    <3>1. PICK A, B : A = Of({k}) /\ B = Of(L \ {k})
        OBVIOUS
    <3>2. /\ IsFiniteSet(A) /\ IsFiniteSet(B) /\ A \intersect B = {}
          /\ \A x \in A \union B : g[x] \in Int
        BY <1>1, <2>3, <2>4, <3>1
    <3>3. SumFunctionOnSet(g, A \union B) = SumFunctionOnSet(g, A) + SumFunctionOnSet(g, B)
        BY <3>2, SumUnion
    <3> QED
        BY Zenon, <3>1, <3>3
  <2> QED
      BY <1>2, <2>2, <2>3, <2>5
<1>4. SumOf(parts, {}) = SumOf(g, Of({}))
  <2>1. Of({}) = {}
      OBVIOUS
  <2> QED
      BY <2>1, SumEmpty
<1>5. Of(K) = S
    BY DEF IsDivided
<1> HIDE DEF SumOf, Of
<1>6. ASSUME Bad # {}
      PROVE  FALSE
  <2>1. PICK s \in SUBSET K : s \in Bad /\ \A u \in SUBSET s : u # s => u \notin Bad
    <3>1. Bad \in SUBSET SUBSET K
        OBVIOUS
    <3> HIDE DEF Bad
    <3> QED
        BY <1>6, <3>1, LeastSubset
  <2>2. SumOf(parts, s) # SumOf(g, Of(s))
      BY <2>1
  <2>3. s # {}
      BY Zenon, <1>4, <2>2
  <2>4. PICK k : k \in s
      BY <2>3
  <2>5. s \ {k} \in SUBSET s /\ s \ {k} # s /\ s \ {k} \in SUBSET K
      BY <2>4
  <2>6. SumOf(parts, s \ {k}) = SumOf(g, Of(s \ {k}))
      BY <2>1, <2>5
  <2> QED
      BY <1>3, <2>2, <2>4, <2>6
<1>7. SumOf(parts, K) = SumOf(g, Of(K))
    BY <1>6
<1> QED
    BY <1>5, <1>7 DEF SumOf

(* The values of a function on a finite set.                                 *)
LEMMA ImageFinite ==
    ASSUME NEW S, IsFiniteSet(S), NEW f
    PROVE  IsFiniteSet({f[x] : x \in S})
<1> DEFINE T == {f[x] : x \in S}
           g == [x \in S |-> f[x]]
<1>1. g \in Surjection(S, T)
    BY DEF Surjection
<1> QED
    BY <1>1, FS_Surjection

(* What is at most a bound in each part of a set is at most the sum of the   *)
(* bounds.                                                                   *)
LEMMA SumByKey ==
    ASSUME NEW f, NEW S, NEW key, NEW K, NEW g, IsFiniteSet(S), IsFiniteSet(K),
           \A x \in S : f[x] \in Int /\ key[x] \in K,
           \A k \in K : g[k] \in Int /\ SumFunctionOnSet(f, {x \in S : key[x] = k}) <= g[k]
    PROVE  SumFunctionOnSet(f, S) <= SumFunctionOnSet(g, K)
<1> DEFINE group == [k \in K |-> {x \in S : key[x] = k}]
           parts == [k \in K |-> SumFunctionOnSet(f, group[k])]
<1>1. \A k \in K : group[k] = {x \in S : key[x] = k} /\ parts[k] = SumFunctionOnSet(f, group[k])
    OBVIOUS
<1>2. IsDivided(S, key, K, group) /\ AreSums(parts, K, f, group)
    BY <1>1, Zenon DEF IsDivided, AreSums
<1>3. \A k \in K : parts[k] \in Int
  <2> TAKE k \in K
  <2>1. IsFiniteSet(group[k]) /\ \A x \in group[k] : f[x] \in Int
      BY <1>1, FS_Subset
  <2> HIDE DEF group, parts
  <2> QED
      BY <1>1, <2>1, SumType
<1>4. \A k \in K : parts[k] <= g[k]
    BY <1>1, Zenon
<1> HIDE DEF group, parts
<1>5. SumFunctionOnSet(parts, K) = SumFunctionOnSet(f, S)
    BY <1>2, SumPartition
<1>6. SumFunctionOnSet(parts, K) <= SumFunctionOnSet(g, K)
    BY <1>3, <1>4, SumMono
<1> QED
    BY <1>5, <1>6

(* Values that are found apart in T add up to no more than those of T.       *)
LEMMA SumInto ==
    ASSUME NEW f, NEW S, NEW h, NEW T, NEW g, IsFiniteSet(S), IsFiniteSet(T),
           \A x \in S : h[x] \in T /\ f[x] \in Int /\ f[x] <= g[h[x]],
           \A x, y \in S : h[x] = h[y] => x = y,
           \A t \in T : g[t] \in Nat
    PROVE  SumFunctionOnSet(f, S) <= SumFunctionOnSet(g, T)
<1>1. \A t \in T : SumFunctionOnSet(f, {x \in S : h[x] = t}) <= g[t]
  <2> TAKE t \in T
  <2>1. CASE {x \in S : h[x] = t} = {}
      BY <2>1, SumEmpty
  <2>2. CASE {x \in S : h[x] = t} # {}
    <3>1. PICK x \in S : h[x] = t /\ {y \in S : h[y] = t} = {x}
        BY <2>2
    <3>2. SumFunctionOnSet(f, {x}) = f[x]
        BY SumSingle
    <3> QED
        BY <3>1, <3>2
  <2> QED
      BY <2>1, <2>2
<1> QED
    BY <1>1, SumByKey

(* The same values under other names have the same sum.                      *)
LEMMA SumImage ==
    ASSUME NEW g, NEW S, NEW h, NEW f, IsFiniteSet(S),
           \A x \in S : g[x] \in Nat /\ f[h[x]] = g[x],
           \A x, y \in S : h[x] = h[y] => x = y
    PROVE  SumFunctionOnSet(f, {h[x] : x \in S}) = SumFunctionOnSet(g, S)
<1> DEFINE T == {h[x] : x \in S}
           back == [t \in T |-> CHOOSE x \in S : h[x] = t]
<1>1. IsFiniteSet(T) /\ \A x \in S : h[x] \in T
    BY ImageFinite
<1>2. \A t \in T : back[t] \in S /\ h[back[t]] = t
    OBVIOUS
<1>3. \A t \in T : f[t] \in Nat /\ f[t] = g[back[t]]
    BY <1>2
<1>4. \A t, u \in T : back[t] = back[u] => t = u
    BY <1>2
<1> HIDE DEF T, back
<1>5. SumFunctionOnSet(g, S) <= SumFunctionOnSet(f, T)
    BY <1>1, <1>3, SumInto
<1>6. SumFunctionOnSet(f, T) <= SumFunctionOnSet(g, S)
    BY <1>1, <1>2, <1>3, <1>4, SumInto
<1>7. SumFunctionOnSet(f, T) \in Int /\ SumFunctionOnSet(g, S) \in Int
    BY <1>1, <1>3, SumType
<1> QED
    BY <1>5, <1>6, <1>7 DEF T

=============================================================================
