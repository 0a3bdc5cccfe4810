----------------------------- MODULE SumLemmas -----------------------------
(***************************************************************************)
(* Sums over finite sets.  MapThenSumSet of the community modules adds the *)
(* values of a set's elements in an order it chooses; the lemmas say that  *)
(* the order does not matter.                                              *)
(***************************************************************************)
EXTENDS Integers, FiniteSetsExt, FiniteSetTheorems, WellFoundedInduction, TLAPS

(* The sum of a function over a set of its arguments.                      *)
Total(F, S) == MapThenSumSet(LAMBDA x : F[x], S)

(* The function MapThenSumSet is defined by.                               *)
Some(U) == CHOOSE x \in U : TRUE
Adds(g, F, S) ==
  g = [U \in SUBSET S |-> IF U = {} THEN 0 ELSE F[Some(U)] + g[U \ {Some(U)}]]

(* Partial sums over the subsets of at most n elements.                    *)
Small(S, n) == {U \in SUBSET S : Cardinality(U) <= n}
Partial(F, S, n) ==
  {g \in [Small(S, n) -> Int] :
     \A U \in Small(S, n) : g[U] = IF U = {} THEN 0 ELSE F[Some(U)] + g[U \ {Some(U)}]}

IsSum(g, F, S) == g \in [SUBSET S -> Int] /\ Adds(g, F, S)
IsInt(F, S) == \A x \in S : F[x] \in Int

-----------------------------------------------------------------------------
(* Every set of naturals has a least element: induction by counterexample. *)
LEMMA LeastNat ==
  ASSUME NEW T, T \subseteq Nat, T # {}
  PROVE  \E x \in T : \A y \in T : x <= y
<1>1. PICK x \in T : \A y \in T : ~(<<y, x>> \in OpToRel(<, Nat))
  BY NatLessThanWellFounded, WFMin
<1>2. \A y \in T : ~(y < x)
  BY <1>1 DEF OpToRel
<1> QED
  BY <1>2

(* A set of finite sets that is not empty has one of least cardinality.    *)
LEMMA LeastSet ==
  ASSUME NEW C, C # {}, \A U \in C : IsFiniteSet(U)
  PROVE  \E U \in C : \A V \in C : Cardinality(U) <= Cardinality(V)
<1> DEFINE T == {Cardinality(U) : U \in C}
<1>1. T \subseteq Nat
  BY FS_CardinalityType
<1>2. T # {}
  OBVIOUS
<1>3. PICK n \in T : \A m \in T : n <= m
  <2> HIDE DEF T
  <2> QED
    BY <1>1, <1>2, LeastNat
<1> QED
  BY <1>3

LEMMA SomeIn ==
  ASSUME NEW U, U # {}
  PROVE  Some(U) \in U
BY DEF Some

LEMMA OneLess ==
  ASSUME NEW S, IsFiniteSet(S), NEW U \in SUBSET S, NEW x \in U
  PROVE  /\ U \ {x} \in SUBSET S /\ IsFiniteSet(U) /\ IsFiniteSet(U \ {x})
         /\ Cardinality(U) \in Nat /\ Cardinality(U \ {x}) \in Nat
         /\ Cardinality(U \ {x}) = Cardinality(U) - 1
<1>1. IsFiniteSet(U)
  BY FS_Subset
<1>2. IsFiniteSet(U \ {x}) /\ Cardinality(U \ {x}) = Cardinality(U) - 1
  BY <1>1, FS_RemoveElement
<1> QED
  BY <1>1, <1>2, FS_CardinalityType

LEMMA PartialExists ==
  ASSUME NEW S, IsFiniteSet(S), NEW F, \A x \in S : F[x] \in Int
  PROVE  \A n \in Nat : Partial(F, S, n) # {}
<1> DEFINE T == {n \in Nat : Partial(F, S, n) = {}}
<1>1. SUFFICES ASSUME T # {} PROVE FALSE
  OBVIOUS
<1>2. PICK n \in T : \A m \in T : n <= m
  <2>1. T \subseteq Nat
    OBVIOUS
  <2> HIDE DEF T
  <2> QED
    BY <1>1, <2>1, LeastNat
<1>3. CASE n = 0
  <2>1. ASSUME NEW U \in Small(S, 0) PROVE U = {}
    <3>1. IsFiniteSet(U) /\ Cardinality(U) <= 0
      BY FS_Subset DEF Small
    <3> QED
      BY <3>1, FS_CardinalityType, FS_EmptySet
  <2>2. [U \in Small(S, 0) |-> 0] \in Partial(F, S, 0)
    BY <2>1 DEF Partial
  <2> QED
    BY <1>2, <1>3, <2>2
<1>4. CASE n # 0
  <2>1. n - 1 \in Nat /\ n - 1 \notin T
    BY <1>2, <1>4
  <2>2. PICK g : g \in Partial(F, S, n - 1)
    BY <2>1
  <2>3. ASSUME NEW U \in Small(S, n), U # {}
        PROVE  /\ Some(U) \in S /\ F[Some(U)] \in Int
               /\ U \ {Some(U)} \in Small(S, n - 1)
    <3>1. Some(U) \in U /\ U \in SUBSET S /\ Cardinality(U) <= n
      BY <2>3, SomeIn DEF Small
    <3>2. U \ {Some(U)} \in SUBSET S /\ Cardinality(U \ {Some(U)}) = Cardinality(U) - 1
          /\ Cardinality(U) \in Nat
      BY <3>1, OneLess
    <3> QED
      BY <1>2, <3>1, <3>2 DEF Small
  <2>4. Small(S, n - 1) \subseteq Small(S, n)
    BY <1>2, FS_Subset, FS_CardinalityType DEF Small
  <2> DEFINE h == [U \in Small(S, n) |-> IF U = {} THEN 0 ELSE F[Some(U)] + g[U \ {Some(U)}]]
  <2>5. h \in [Small(S, n) -> Int]
    BY <2>2, <2>3 DEF Partial
  <2>6. ASSUME NEW U \in Small(S, n - 1) PROVE h[U] = g[U]
    BY <2>2, <2>4 DEF Partial
  <2>7. \A U \in Small(S, n) : h[U] = IF U = {} THEN 0 ELSE F[Some(U)] + h[U \ {Some(U)}]
    BY <2>3, <2>6
  <2> HIDE DEF h
  <2>8. h \in Partial(F, S, n)
    BY <2>5, <2>7 DEF Partial
  <2> QED
    BY <1>2, <2>8
<1> QED
  BY <1>3, <1>4

LEMMA AddsExists ==
  ASSUME NEW S, IsFiniteSet(S), NEW F, \A x \in S : F[x] \in Int
  PROVE  \E g \in [SUBSET S -> Int] : Adds(g, F, S)
<1>1. Cardinality(S) \in Nat /\ \A U \in SUBSET S : Cardinality(U) <= Cardinality(S)
  BY FS_CardinalityType, FS_Subset
<1>2. Small(S, Cardinality(S)) = SUBSET S
  BY <1>1 DEF Small
<1>3. PICK g : g \in Partial(F, S, Cardinality(S))
  BY <1>1, PartialExists
<1>4. g \in [SUBSET S -> Int]
      /\ \A U \in SUBSET S : g[U] = IF U = {} THEN 0 ELSE F[Some(U)] + g[U \ {Some(U)}]
  BY <1>2, <1>3 DEF Partial
<1> QED
  BY <1>4 DEF Adds

LEMMA TotalIsChosen ==
  ASSUME NEW S, NEW F
  PROVE  Total(F, S) = (CHOOSE g : Adds(g, F, S))[S]
BY DEF Total, MapThenSumSet, MapThenFoldSet, Adds, Some

(* Two sums of one function over the subsets of T agree, whatever larger   *)
(* set they are sums over.                                                 *)
LEMMA AddsAgree ==
  ASSUME NEW T, IsFiniteSet(T), NEW S, NEW R, T \subseteq S, T \subseteq R, NEW F, NEW g, NEW h,
         Adds(g, F, S), Adds(h, F, R)
  PROVE  \A U \in SUBSET T : g[U] = h[U]
<1> DEFINE C == {U \in SUBSET T : g[U] # h[U]}
<1>1. SUFFICES ASSUME C # {} PROVE FALSE
  OBVIOUS
<1>2. PICK U \in C : \A V \in C : Cardinality(U) <= Cardinality(V)
  <2>1. \A V \in C : IsFiniteSet(V)
    BY FS_Subset
  <2> HIDE DEF C
  <2> QED
    BY <1>1, <2>1, LeastSet
<1>3. /\ g[U] = IF U = {} THEN 0 ELSE F[Some(U)] + g[U \ {Some(U)}]
      /\ h[U] = IF U = {} THEN 0 ELSE F[Some(U)] + h[U \ {Some(U)}]
  BY DEF Adds
<1>4. U # {}
  BY <1>3
<1>5. /\ U \ {Some(U)} \in SUBSET T
      /\ Cardinality(U) \in Nat /\ Cardinality(U \ {Some(U)}) = Cardinality(U) - 1
  BY <1>4, SomeIn, OneLess
<1>6. U \ {Some(U)} \notin C
  BY <1>2, <1>5
<1> QED
  BY <1>3, <1>5, <1>6

(* The element taken first does not matter.                                *)
LEMMA AddsAnyOrder ==
  ASSUME NEW S, IsFiniteSet(S), NEW F, IsInt(F, S), NEW g, IsSum(g, F, S)
  PROVE  \A U \in SUBSET S, y \in S : y \in U => g[U] = F[y] + g[U \ {y}]
<1> USE DEF IsSum, IsInt
<1> DEFINE C == {U \in SUBSET S : \E x \in U : g[U] # F[x] + g[U \ {x}]}
<1>1. SUFFICES ASSUME C # {} PROVE FALSE
  OBVIOUS
<1>2. PICK U \in C : \A V \in C : Cardinality(U) <= Cardinality(V)
  <2>1. \A V \in C : IsFiniteSet(V)
    BY FS_Subset
  <2> HIDE DEF C
  <2> QED
    BY <1>1, <2>1, LeastSet
<1>3. PICK x \in U : g[U] # F[x] + g[U \ {x}]
  BY <1>2
<1> DEFINE c == Some(U)
<1>4. c \in U /\ g[U] = F[c] + g[U \ {c}]
  <2>1. U # {}
    BY <1>3
  <2> QED
    BY <2>1, SomeIn DEF Adds
<1>5. x # c
  BY <1>3, <1>4
<1> HIDE DEF c
<1>6. ASSUME NEW y \in U, NEW z \in U \ {y} PROVE g[U \ {y}] = F[z] + g[(U \ {y}) \ {z}]
  <2>1. U \ {y} \in SUBSET S /\ Cardinality(U) \in Nat /\ Cardinality(U \ {y}) = Cardinality(U) - 1
    BY OneLess
  <2>2. U \ {y} \notin C
    BY <1>2, <2>1
  <2> QED
    BY <2>1, <2>2
<1>7. g[U \ {c}] = F[x] + g[(U \ {c}) \ {x}] /\ g[U \ {x}] = F[c] + g[(U \ {x}) \ {c}]
  BY <1>4, <1>5, <1>6
<1>8. (U \ {c}) \ {x} = (U \ {x}) \ {c}
  OBVIOUS
<1>9. F[x] \in Int /\ F[c] \in Int /\ g[(U \ {c}) \ {x}] \in Int
  BY <1>4
<1>10. g[U] = F[c] + (F[x] + g[(U \ {c}) \ {x}]) /\ g[U \ {x}] = F[c] + g[(U \ {c}) \ {x}]
  BY <1>4, <1>7, <1>8
<1> QED
  BY <1>3, <1>9, <1>10

-----------------------------------------------------------------------------
(* Sums                                                                    *)

LEMMA TotalFunction ==
  ASSUME NEW S, IsFiniteSet(S), NEW F, \A x \in S : F[x] \in Int
  PROVE  \E g \in [SUBSET S -> Int] : Adds(g, F, S) /\ Total(F, S) = g[S]
<1>1. PICK g \in [SUBSET S -> Int] : Adds(g, F, S)
  BY AddsExists
<1> DEFINE h == CHOOSE f : Adds(f, F, S)
<1>2. Adds(h, F, S)
  BY <1>1
<1>3. Total(F, S) = h[S]
  BY TotalIsChosen
<1> HIDE DEF h
<1>4. h[S] = g[S]
  BY <1>1, <1>2, AddsAgree
<1> QED
  BY <1>1, <1>3, <1>4

LEMMA TotalType ==
  ASSUME NEW S, IsFiniteSet(S), NEW F, \A x \in S : F[x] \in Int
  PROVE  Total(F, S) \in Int
<1>1. PICK g \in [SUBSET S -> Int] : Total(F, S) = g[S]
  BY TotalFunction
<1>2. g[S] \in Int
  OBVIOUS
<1> QED
  BY <1>1, <1>2

LEMMA TotalEmpty ==
  ASSUME NEW F
  PROVE  Total(F, {}) = 0
<1>1. IsFiniteSet({}) /\ \A x \in {} : F[x] \in Int
  BY FS_EmptySet
<1>2. PICK g : Adds(g, F, {}) /\ Total(F, {}) = g[{}]
  BY <1>1, TotalFunction
<1>3. g[{}] = 0
  BY <1>2 DEF Adds
<1> QED
  BY <1>2, <1>3

LEMMA TotalRemove ==
  ASSUME NEW S, IsFiniteSet(S), NEW F, \A x \in S : F[x] \in Int, NEW x \in S
  PROVE  Total(F, S) = F[x] + Total(F, S \ {x})
<1>1. PICK g \in [SUBSET S -> Int] : Adds(g, F, S) /\ Total(F, S) = g[S]
  BY TotalFunction
<1>6. \A U \in SUBSET S, y \in S : y \in U => g[U] = F[y] + g[U \ {y}]
  <2>1. IsInt(F, S)
    BY DEF IsInt
  <2>2. IsSum(g, F, S)
    BY <1>1 DEF IsSum
  <2> QED
    BY <2>1, <2>2, AddsAnyOrder
<1> DEFINE T == S \ {x}
<1>2. IsFiniteSet(T) /\ T \subseteq S /\ \A y \in T : F[y] \in Int
  BY FS_RemoveElement
<1>3. PICK h : Adds(h, F, T) /\ Total(F, T) = h[T]
  BY <1>2, TotalFunction
<1>4. g[T] = h[T]
  <2> HIDE DEF T
  <2> QED
    BY <1>1, <1>2, <1>3, AddsAgree
<1>5. g[S] = F[x] + g[T]
  BY <1>6
<1> QED
  BY <1>1, <1>3, <1>4, <1>5

LEMMA TotalAdd ==
  ASSUME NEW S, IsFiniteSet(S), NEW F, \A x \in S : F[x] \in Int, NEW x, x \notin S, F[x] \in Int
  PROVE  Total(F, S \cup {x}) = Total(F, S) + F[x]
<1> DEFINE T == S \cup {x}
<1>1. IsFiniteSet(T) /\ x \in T /\ T \ {x} = S /\ \A y \in T : F[y] \in Int
  BY FS_AddElement
<1>2. Total(F, T) = F[x] + Total(F, S)
  <2> HIDE DEF T
  <2>1. Total(F, T) = F[x] + Total(F, T \ {x})
    BY <1>1, TotalRemove
  <2> QED
    BY <1>1, <2>1
<1>3. Total(F, S) \in Int
  BY TotalType
<1> QED
  BY <1>1, <1>2, <1>3

(* A sum looks at the values of its elements only.                         *)
LEMMA TotalAgree ==
  ASSUME NEW S, NEW F, NEW G, \A x \in S : F[x] = G[x]
  PROVE  Total(F, S) = Total(G, S)
<1>1. ASSUME NEW g PROVE Adds(g, F, S) <=> Adds(g, G, S)
  <2>1. \A U \in SUBSET S : U # {} => Some(U) \in S
    BY SomeIn
  <2>2. \A U \in SUBSET S : (IF U = {} THEN 0 ELSE F[Some(U)] + g[U \ {Some(U)}])
                           = (IF U = {} THEN 0 ELSE G[Some(U)] + g[U \ {Some(U)}])
    BY <2>1
  <2> QED
    BY <2>2 DEF Adds
<1>2. (CHOOSE g : Adds(g, F, S)) = (CHOOSE g : Adds(g, G, S))
  BY <1>1
<1> QED
  BY <1>2, TotalIsChosen

(* One element changes its value.                                          *)
LEMMA TotalChange ==
  ASSUME NEW S, IsFiniteSet(S), NEW x \in S, NEW F, NEW G,
         \A y \in S : F[y] \in Int /\ G[y] \in Int,
         \A y \in S : y # x => F[y] = G[y]
  PROVE  Total(G, S) = Total(F, S) - F[x] + G[x]
<1> DEFINE T == S \ {x}
<1>1. IsFiniteSet(T) /\ \A y \in T : F[y] \in Int /\ G[y] \in Int /\ F[y] = G[y]
  BY FS_RemoveElement
<1>2. Total(F, S) = F[x] + Total(F, T) /\ Total(G, S) = G[x] + Total(G, T)
  BY TotalRemove
<1> HIDE DEF T
<1>3. Total(F, T) = Total(G, T) /\ Total(F, T) \in Int
  BY <1>1, TotalAgree, TotalType
<1> QED
  BY <1>2, <1>3

(* Elements that add nothing may be left out.                              *)
LEMMA TotalZeros ==
  ASSUME NEW S, IsFiniteSet(S), NEW F, \A x \in S : F[x] \in Int,
         NEW T \in SUBSET S, \A x \in S \ T : F[x] = 0
  PROVE  Total(F, S) = Total(F, T)
<1> DEFINE C == {U \in SUBSET S : T \subseteq U /\ Total(F, U) # Total(F, T)}
<1>1. SUFFICES ASSUME C # {} PROVE FALSE
  OBVIOUS
<1>2. PICK U \in C : \A V \in C : Cardinality(U) <= Cardinality(V)
  <2>1. \A V \in C : IsFiniteSet(V)
    BY FS_Subset
  <2> HIDE DEF C
  <2> QED
    BY <1>1, <2>1, LeastSet
<1>3. PICK x \in U : x \notin T
  BY <1>2
<1>4. /\ U \ {x} \in SUBSET S /\ IsFiniteSet(U) /\ IsFiniteSet(U \ {x})
      /\ Cardinality(U) \in Nat /\ Cardinality(U \ {x}) = Cardinality(U) - 1
  BY <1>2, OneLess
<1>5. U \ {x} \notin C
  BY <1>2, <1>4
<1>6. Total(F, U) = F[x] + Total(F, U \ {x}) /\ F[x] = 0 /\ Total(F, U \ {x}) \in Int
  BY <1>2, <1>3, <1>4, TotalRemove, TotalType
<1> QED
  BY <1>2, <1>3, <1>4, <1>5, <1>6

LEMMA TotalNat ==
  ASSUME NEW S, IsFiniteSet(S), NEW F, \A x \in S : F[x] \in Nat
  PROVE  Total(F, S) \in Nat
<1> DEFINE C == {U \in SUBSET S : Total(F, U) \notin Nat}
<1>1. SUFFICES ASSUME C # {} PROVE FALSE
  OBVIOUS
<1>2. PICK U \in C : \A V \in C : Cardinality(U) <= Cardinality(V)
  <2>1. \A V \in C : IsFiniteSet(V)
    BY FS_Subset
  <2> HIDE DEF C
  <2> QED
    BY <1>1, <2>1, LeastSet
<1>3. U # {}
  BY <1>2, TotalEmpty
<1>4. PICK x : x \in U
  BY <1>3
<1>5. /\ U \ {x} \in SUBSET S /\ IsFiniteSet(U) /\ IsFiniteSet(U \ {x})
      /\ Cardinality(U) \in Nat /\ Cardinality(U \ {x}) = Cardinality(U) - 1
  BY <1>2, <1>4, OneLess
<1>6. Total(F, U \ {x}) \in Nat /\ F[x] \in Nat /\ \A y \in U : F[y] \in Int
  BY <1>2, <1>4, <1>5
<1>7. Total(F, U) = F[x] + Total(F, U \ {x})
  BY <1>4, <1>5, <1>6, TotalRemove
<1> QED
  BY <1>2, <1>6, <1>7

(* Naturals: each is at most their sum, and a larger set has a larger sum. *)
LEMMA TotalGrows ==
  ASSUME NEW S, IsFiniteSet(S), NEW F, \A x \in S : F[x] \in Nat, NEW T \in SUBSET S
  PROVE  Total(F, T) <= Total(F, S)
<1> DEFINE G == [x \in S |-> IF x \in T THEN 0 ELSE F[x]]
<1> DEFINE H == [x \in S |-> IF x \in T THEN F[x] ELSE 0]
<1> DEFINE C == {U \in SUBSET S : Total(F, U) # Total(G, U) + Total(H, U)}
<1>1. \A x \in S : G[x] \in Nat /\ H[x] \in Nat /\ F[x] = G[x] + H[x] /\ F[x] \in Int
                    /\ G[x] \in Int /\ H[x] \in Int
  OBVIOUS
<1>2. ASSUME C # {} PROVE FALSE
  <2>1. PICK U \in C : \A V \in C : Cardinality(U) <= Cardinality(V)
    <3>1. \A V \in C : IsFiniteSet(V)
      BY FS_Subset
    <3> HIDE DEF C
    <3> QED
      BY <1>2, <3>1, LeastSet
  <2> HIDE DEF G, H
  <2>2. U # {}
    BY <2>1, TotalEmpty
  <2>3. PICK x : x \in U
    BY <2>2
  <2>4. /\ U \ {x} \in SUBSET S /\ IsFiniteSet(U) /\ IsFiniteSet(U \ {x})
        /\ Cardinality(U) \in Nat /\ Cardinality(U \ {x}) = Cardinality(U) - 1
    BY <2>1, <2>3, OneLess
  <2>5. Total(F, U \ {x}) = Total(G, U \ {x}) + Total(H, U \ {x})
    BY <2>1, <2>4
  <2>6. /\ Total(F, U) = F[x] + Total(F, U \ {x})
        /\ Total(G, U) = G[x] + Total(G, U \ {x})
        /\ Total(H, U) = H[x] + Total(H, U \ {x})
    BY <1>1, <2>1, <2>3, <2>4, TotalRemove
  <2>7. Total(G, U \ {x}) \in Int /\ Total(H, U \ {x}) \in Int
    BY <1>1, <2>1, <2>4, TotalType
  <2> QED
    BY <1>1, <2>1, <2>3, <2>5, <2>6, <2>7
<1>3. Total(F, S) = Total(G, S) + Total(H, S)
  BY <1>2
<1>4. Total(G, S) \in Nat /\ Total(H, S) \in Nat
  <2> HIDE DEF G, H
  <2> QED
    BY <1>1, TotalNat
<1>5. Total(H, S) = Total(H, T) /\ Total(H, T) = Total(F, T)
  <2>1. \A x \in S \ T : H[x] = 0
    OBVIOUS
  <2>2. \A x \in T : H[x] = F[x]
    OBVIOUS
  <2> HIDE DEF G, H
  <2> QED
    BY <1>1, <2>1, <2>2, TotalZeros, TotalAgree
<1> QED
  BY <1>3, <1>4, <1>5

(* Greater terms, greater sum.                                             *)
LEMMA TotalOrder ==
  ASSUME NEW S, IsFiniteSet(S), NEW F, NEW G,
         \A x \in S : F[x] \in Int /\ G[x] \in Int /\ F[x] <= G[x]
  PROVE  Total(F, S) <= Total(G, S)
<1> DEFINE C == {U \in SUBSET S : ~(Total(F, U) <= Total(G, U))}
<1>1. SUFFICES ASSUME C # {} PROVE FALSE
  OBVIOUS
<1>2. PICK U \in C : \A V \in C : Cardinality(U) <= Cardinality(V)
  <2>1. \A V \in C : IsFiniteSet(V)
    BY FS_Subset
  <2> HIDE DEF C
  <2> QED
    BY <1>1, <2>1, LeastSet
<1>3. U # {}
  BY <1>2, TotalEmpty
<1>4. PICK x : x \in U
  BY <1>3
<1>5. /\ U \ {x} \in SUBSET S /\ IsFiniteSet(U) /\ IsFiniteSet(U \ {x})
      /\ Cardinality(U) \in Nat /\ Cardinality(U \ {x}) = Cardinality(U) - 1
  BY <1>2, <1>4, OneLess
<1>6. /\ Total(F, U \ {x}) <= Total(G, U \ {x})
      /\ Total(F, U \ {x}) \in Int /\ Total(G, U \ {x}) \in Int
  BY <1>2, <1>4, <1>5, TotalType
<1>7. /\ Total(F, U) = F[x] + Total(F, U \ {x})
      /\ Total(G, U) = G[x] + Total(G, U \ {x})
  BY <1>2, <1>4, <1>5, TotalRemove
<1>8. F[x] \in Int /\ G[x] \in Int /\ F[x] <= G[x]
  BY <1>2, <1>4
<1>9. Total(F, U) <= Total(G, U)
  BY <1>6, <1>7, <1>8
<1> QED
  BY <1>2, <1>9
=============================================================================
