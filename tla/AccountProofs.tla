---------------------------- MODULE AccountProofs ----------------------------
(***************************************************************************)
(* Proofs about the three components that keep an account: the durable     *)
(* store, whose transactions refuse what would make a run's payload too    *)
(* large; the Guest's file system, which refuses what would make its       *)
(* workspace too large; and the scheduling simulator, which integrates the *)
(* time that slots are held.  All are about sums over tables of any size,  *)
(* so the first part shows what such a sum is: it does not depend on the   *)
(* order of the addends, changes by what its addends change, and keeps its *)
(* value when the addends are renamed.                                     *)
(*                                                                         *)
(* The store: Schema is what Open has established, RowsKept that the check *)
(* of every transaction is right about what its row will add.              *)
(*                                                                         *)
(* The file system: QuotaInv says of the tree that every entry is in       *)
(* directories up to the root, so that renaming a directory moves whole    *)
(* subtrees to names that are free; of the account that it has every file  *)
(* with its size and has charged bytes with every size it has; and of the  *)
(* handles that each is counted under the path it was opened with, which   *)
(* is on disk.                                                             *)
(*                                                                         *)
(* The simulator: SimInv says that every task is in exactly one place (a   *)
(* queue, an event, its end), that its fields agree with the place, that   *)
(* the counters are the numbers of tasks that hold each capacity, and that *)
(* the areas are the time spent so far.  Each method is shown to carry a   *)
(* task that is in its hands from one place to another.                    *)
(***************************************************************************)
EXTENDS DurableStore, WorkspaceQuota, SchedulingSim, FiniteSetTheorems,
        SequenceTheorems, WellFoundedInduction, TLAPS

-----------------------------------------------------------------------------
(* Sums. *)

\* A set of numbers that is not empty has a least one: every induction below is
\* by a least counterexample.
LEMMA LeastNumber ==
    ASSUME NEW N \in SUBSET Nat, N # {}
    PROVE  \E n \in N : \A m \in N : n <= m
<1>1. PICK n \in N : \A m \in N : ~ (<<m, n>> \in OpToRel(<, Nat))
  BY NatLessThanWellFounded, WFMin
<1>2. \A m \in N : ~ (m < n)
  BY <1>1 DEF OpToRel
<1> QED
  BY <1>2

Some(S) == CHOOSE x \in S : TRUE

\* g adds up f over the subsets of D with at most n elements.
AddsUp(g, f, D, n) ==
    \A S \in SUBSET D :
        Cardinality(S) <= n =>
            g[S] = IF S = {} THEN 0 ELSE f[Some(S)] + g[S \ {Some(S)}]

\* Whatever an element more needs is known.
LEMMA SumGrows ==
    ASSUME NEW D, IsFiniteSet(D), NEW f, NEW n \in Nat,
           NEW g, AddsUp(g, f, D, n)
    PROVE  AddsUp([S \in SUBSET D |-> IF S = {} THEN 0 ELSE f[Some(S)] + g[S \ {Some(S)}]],
                  f, D, n + 1)
<1> DEFINE h == [S \in SUBSET D |-> IF S = {} THEN 0 ELSE f[Some(S)] + g[S \ {Some(S)}]]
<1> SUFFICES ASSUME NEW S \in SUBSET D, Cardinality(S) <= n + 1
             PROVE  h[S] = IF S = {} THEN 0 ELSE f[Some(S)] + h[S \ {Some(S)}]
  BY DEF AddsUp
<1>1. CASE S = {}
  BY <1>1
<1>2. CASE S # {}
  <2> DEFINE T == S \ {Some(S)}
  <2>1. Some(S) \in S
    BY <1>2 DEF Some
  <2>2. IsFiniteSet(S) /\ Cardinality(S) \in Nat
    BY FS_Subset, FS_CardinalityType
  <2>3. T \in SUBSET D /\ Cardinality(T) = Cardinality(S) - 1
    BY <2>1, <2>2, FS_RemoveElement
  <2>6. Cardinality(T) <= n
    BY <2>2, <2>3
  <2>4. g[T] = IF T = {} THEN 0 ELSE f[Some(T)] + g[T \ {Some(T)}]
    BY <2>3, <2>6 DEF AddsUp
  <2>5. h[T] = g[T]
    BY <2>3, <2>4
  <2> QED
    BY <1>2, <2>5
<1> QED
  BY <1>1, <1>2

LEMMA SumsExist ==
    ASSUME NEW D, IsFiniteSet(D), NEW f
    PROVE  \A n \in Nat : \E g : AddsUp(g, f, D, n)
<1> DEFINE Bad == {n \in Nat : ~ \E g : AddsUp(g, f, D, n)}
<1> SUFFICES ASSUME Bad # {} PROVE FALSE
  OBVIOUS
<1>1. PICK n \in Bad : \A m \in Bad : n <= m
  BY LeastNumber
<1>2. \E g : AddsUp(g, f, D, 0)
  <2> DEFINE g == [S \in SUBSET D |-> 0]
  <2>1. ASSUME NEW S \in SUBSET D, Cardinality(S) <= 0 PROVE S = {}
    <3>1. IsFiniteSet(S) /\ Cardinality(S) \in Nat
      BY FS_Subset, FS_CardinalityType
    <3> QED
      BY <2>1, <3>1, FS_EmptySet
  <2>2. AddsUp(g, f, D, 0)
    BY <2>1 DEF AddsUp
  <2> QED
    BY <2>2
<1>3. n # 0 /\ n - 1 \in Nat /\ n - 1 \notin Bad
  BY <1>1, <1>2
<1>4. PICK g : AddsUp(g, f, D, n - 1)
  BY <1>3
<1>5. \E h : AddsUp(h, f, D, n - 1 + 1)
  BY <1>3, <1>4, SumGrows
<1> QED
  BY <1>1, <1>3, <1>5

Adds(g, f) ==
    g = [S \in SUBSET DOMAIN f |-> IF S = {} THEN 0 ELSE f[Some(S)] + g[S \ {Some(S)}]]

\* The fold that Total is defined by satisfies its equation, on finite domains.
LEMMA TotalDef ==
    ASSUME NEW f, IsFiniteSet(DOMAIN f)
    PROVE  \E g : Adds(g, f) /\ Total(f) = g[DOMAIN f]
<1> DEFINE D == DOMAIN f
           Eq(g) == g = [S \in SUBSET D |-> IF S = {} THEN 0 ELSE f[Some(S)] + g[S \ {Some(S)}]]
<1>1. PICK g : AddsUp(g, f, D, Cardinality(D))
  BY SumsExist, FS_CardinalityType
<1> DEFINE h == [S \in SUBSET D |-> g[S]]
<1>2. \A S \in SUBSET D : Cardinality(S) <= Cardinality(D)
  BY FS_Subset
<1>3. \A S \in SUBSET D : h[S] = IF S = {} THEN 0 ELSE f[Some(S)] + h[S \ {Some(S)}]
  BY <1>1, <1>2 DEF AddsUp
<1>4. Eq(h)
  BY <1>3
<1>5. Eq(CHOOSE k : Eq(k))
  BY <1>4, Zenon
<1>6. Total(f) = (CHOOSE k : Eq(k))[D]
  BY DEF Total, MapThenSumSet, MapThenFoldSet, Some
<1> QED
  BY <1>5, <1>6 DEF Adds

\* The order in which the fold takes the elements does not matter.
LEMMA AnyOrder ==
    ASSUME NEW f, IsFiniteSet(DOMAIN f), \A x \in DOMAIN f : f[x] \in Nat,
           NEW g, Adds(g, f)
    PROVE  \A S \in SUBSET DOMAIN f :
               /\ g[S] \in Nat
               /\ \A x \in S : g[S] = f[x] + g[S \ {x}]
<1> DEFINE D == DOMAIN f
           Good(S) == g[S] \in Nat /\ \A x \in S : g[S] = f[x] + g[S \ {x}]
           Bad == {n \in Nat : \E S \in SUBSET D : Cardinality(S) = n /\ ~Good(S)}
<1> HIDE DEF D
<1>1. \A S \in SUBSET D : IsFiniteSet(S) /\ Cardinality(S) \in Nat
  BY FS_Subset, FS_CardinalityType DEF D
<1>2. \A S \in SUBSET D : S # {} => Some(S) \in S
  BY DEF Some
<1>3. \A S \in SUBSET D : g[S] = IF S = {} THEN 0 ELSE f[Some(S)] + g[S \ {Some(S)}]
  BY DEF Adds, D
<1> SUFFICES ASSUME Bad # {} PROVE FALSE
  BY <1>1 DEF D
<1>4. PICK n \in Bad : \A m \in Bad : n <= m
  <2> HIDE DEF Bad
  <2>1. Bad \in SUBSET Nat
    BY DEF Bad
  <2> QED
    BY <2>1, LeastNumber
<1>5. PICK S \in SUBSET D : Cardinality(S) = n /\ ~Good(S)
  BY <1>4
<1>6. \A T \in SUBSET D : Cardinality(T) < n => Good(T)
  BY <1>1, <1>4
<1> HIDE DEF Bad, Good
<1>7. S # {}
  BY <1>3, <1>5 DEF Good
<1> DEFINE c == Some(S)
<1>8. c \in S /\ f[c] \in Nat
  BY <1>2, <1>7 DEF D
<1>9. ASSUME NEW x \in S PROVE Good(S \ {x})
  <2>1. Cardinality(S \ {x}) = Cardinality(S) - 1
    BY <1>1, FS_RemoveElement
  <2>2. S \ {x} \in SUBSET D /\ Cardinality(S \ {x}) < n
    BY <2>1, <1>1, <1>5
  <2> QED
    BY <2>2, <1>6
<1>10. g[S] = f[c] + g[S \ {c}]
  BY <1>3, <1>7
<1>11. g[S] \in Nat
  <2>1. g[S \ {c}] \in Nat
    BY <1>8, <1>9 DEF Good
  <2> QED
    BY <2>1, <1>8, <1>10
<1>12. ASSUME NEW x \in S PROVE g[S] = f[x] + g[S \ {x}]
  <2>1. CASE x = c
    BY <2>1, <1>10
  <2>2. CASE x # c
    <3>1. x \in S \ {c} /\ c \in S \ {x} /\ (S \ {c}) \ {x} = (S \ {x}) \ {c}
      BY <2>2, <1>8
    <3>2. g[S \ {c}] = f[x] + g[(S \ {c}) \ {x}]
      BY <3>1, <1>8, <1>9 DEF Good
    <3>3. g[S \ {x}] = f[c] + g[(S \ {c}) \ {x}]
      BY <3>1, <1>9 DEF Good
    <3>4. f[x] \in Nat /\ g[S \ {c}] \in Nat /\ g[S \ {x}] \in Nat
      BY <1>8, <1>9 DEF D, Good
    <3>6. g[(S \ {c}) \ {x}] \in Nat
      <4> DEFINE T == S \ {c}
      <4>1. T \in SUBSET D /\ T \ {x} \in SUBSET D /\ x \in T
        BY <3>1
      <4>2. Cardinality(T) = Cardinality(S) - 1
        BY <1>1, <1>8, FS_RemoveElement
      <4>3. Cardinality(T \ {x}) = Cardinality(T) - 1
        BY <4>1, <1>1, FS_RemoveElement
      <4>4. Cardinality(T \ {x}) < n
        BY <4>1, <4>2, <4>3, <1>1, <1>5
      <4> QED
        BY <4>1, <4>4, <1>6 DEF Good
    <3> HIDE DEF c
    <3> QED
      BY <3>2, <3>3, <3>4, <3>6, <1>8, <1>10
  <2> QED
    BY <2>1, <2>2
<1> QED
  BY <1>5, <1>11, <1>12 DEF Good

\* Two folds agree on what their functions agree on.
LEMMA SameSum ==
    ASSUME NEW f, IsFiniteSet(DOMAIN f), NEW g, Adds(g, f),
           NEW e, NEW h, Adds(h, e), DOMAIN e \subseteq DOMAIN f,
           \A x \in DOMAIN e : e[x] = f[x]
    PROVE  \A S \in SUBSET DOMAIN e : h[S] = g[S]
<1> DEFINE D == DOMAIN e
           Bad == {n \in Nat : \E S \in SUBSET D : Cardinality(S) = n /\ h[S] # g[S]}
<1> HIDE DEF D
<1>1. \A S \in SUBSET D : IsFiniteSet(S) /\ Cardinality(S) \in Nat
  BY FS_Subset, FS_CardinalityType DEF D
<1>2. \A S \in SUBSET D : S # {} => Some(S) \in S
  BY DEF Some
<1>3. \A S \in SUBSET D : h[S] = IF S = {} THEN 0 ELSE e[Some(S)] + h[S \ {Some(S)}]
  BY DEF Adds, D
<1>4. \A S \in SUBSET D : g[S] = IF S = {} THEN 0 ELSE f[Some(S)] + g[S \ {Some(S)}]
  BY DEF Adds, D
<1> SUFFICES ASSUME Bad # {} PROVE FALSE
  BY <1>1 DEF D
<1>5. PICK n \in Bad : \A m \in Bad : n <= m
  <2> HIDE DEF Bad
  <2>1. Bad \in SUBSET Nat
    BY DEF Bad
  <2> QED
    BY <2>1, LeastNumber
<1>6. PICK S \in SUBSET D : Cardinality(S) = n /\ h[S] # g[S]
  BY <1>5
<1>7. S # {}
  BY <1>3, <1>4, <1>6
<1>8. Some(S) \in S /\ e[Some(S)] = f[Some(S)]
  BY <1>2, <1>7 DEF D
<1>9. Cardinality(S \ {Some(S)}) = Cardinality(S) - 1
  BY <1>1, <1>8, FS_RemoveElement
<1>10. h[S \ {Some(S)}] = g[S \ {Some(S)}]
  BY <1>1, <1>5, <1>6, <1>9
<1> QED
  BY <1>3, <1>4, <1>6, <1>7, <1>8, <1>10

-----------------------------------------------------------------------------
(* What the accounts need of sums. *)

Summable(f) == IsFiniteSet(DOMAIN f) /\ \A x \in DOMAIN f : f[x] \in Nat

LEMMA TotalType ==
    ASSUME NEW f, Summable(f)
    PROVE  Total(f) \in Nat /\ (DOMAIN f = {} => Total(f) = 0)
<1>1. PICK g : Adds(g, f) /\ Total(f) = g[DOMAIN f]
  BY TotalDef DEF Summable
<1>2. g[DOMAIN f] \in Nat
  BY <1>1, AnyOrder DEF Summable
<1>3. DOMAIN f = {} => g[DOMAIN f] = 0
  BY <1>1 DEF Adds
<1> QED
  BY <1>1, <1>2, <1>3

LEMMA TotalSame ==
    ASSUME NEW f, Summable(f), NEW e, DOMAIN e = DOMAIN f, \A y \in DOMAIN e : e[y] = f[y]
    PROVE  Total(e) = Total(f)
<1>1. PICK g : Adds(g, f) /\ Total(f) = g[DOMAIN f]
  BY TotalDef DEF Summable
<1>2. PICK h : Adds(h, e) /\ Total(e) = h[DOMAIN e]
  BY TotalDef DEF Summable
<1>3. h[DOMAIN e] = g[DOMAIN e]
  BY <1>1, <1>2, SameSum DEF Summable
<1> QED
  BY <1>1, <1>2, <1>3

\* One element taken out.
LEMMA TotalSplit ==
    ASSUME NEW f, Summable(f), NEW x \in DOMAIN f,
           NEW e, DOMAIN e = DOMAIN f \ {x}, \A y \in DOMAIN e : e[y] = f[y]
    PROVE  Summable(e) /\ Total(f) = f[x] + Total(e)
<1>1. Summable(e)
  BY FS_RemoveElement DEF Summable
<1>2. PICK g : Adds(g, f) /\ Total(f) = g[DOMAIN f]
  BY TotalDef DEF Summable
<1>3. PICK h : Adds(h, e) /\ Total(e) = h[DOMAIN e]
  BY <1>1, TotalDef DEF Summable
<1>4. h[DOMAIN e] = g[DOMAIN e]
  BY <1>2, <1>3, SameSum DEF Summable
<1>5. g[DOMAIN f] = f[x] + g[DOMAIN f \ {x}]
  <2>1. \A S \in SUBSET DOMAIN f :
            g[S] \in Nat /\ \A y \in S : g[S] = f[y] + g[S \ {y}]
    <3>1. IsFiniteSet(DOMAIN f) /\ \A y \in DOMAIN f : f[y] \in Nat
      BY DEF Summable
    <3>2. Adds(g, f)
      BY <1>2
    <3> QED
      BY ONLY <3>1, <3>2, AnyOrder
  <2>2. DOMAIN f \in SUBSET DOMAIN f
    OBVIOUS
  <2> QED
    BY <2>1, <2>2, Zenon
<1> QED
  BY <1>1, <1>2, <1>3, <1>4, <1>5

\* What f gives to x, or nothing.
Share(f, x) == IF x \in DOMAIN f THEN f[x] ELSE 0

\* A function that changes at one place only: the account of the change.
LEMMA TotalChange ==
    ASSUME NEW f, Summable(f), NEW e, NEW x,
           x \in DOMAIN e => e[x] \in Nat,
           DOMAIN e \ {x} = DOMAIN f \ {x},
           \A y \in DOMAIN e \ {x} : e[y] = f[y]
    PROVE  Summable(e) /\ Total(e) + Share(f, x) = Total(f) + Share(e, x)
<1> DEFINE r == [y \in DOMAIN f \ {x} |-> f[y]]
<1> HIDE DEF r
<1>1. DOMAIN r = DOMAIN f \ {x} /\ \A y \in DOMAIN r : r[y] = f[y]
  BY DEF r
<1>2. Summable(r) /\ Total(r) \in Nat
  <2>1. Summable(r)
    BY <1>1, FS_RemoveElement DEF Summable
  <2> QED
    BY <2>1, TotalType
<1>3. Summable(e)
  <2>1. IsFiniteSet((DOMAIN f \ {x}) \cup {x})
    BY FS_RemoveElement, FS_AddElement DEF Summable
  <2>2. DOMAIN e \in SUBSET ((DOMAIN f \ {x}) \cup {x})
    OBVIOUS
  <2>3. IsFiniteSet(DOMAIN e)
    BY <2>1, <2>2, FS_Subset
  <2> QED
    BY <2>3 DEF Summable
<1>4. Total(f) = Total(r) + Share(f, x)
  <2>1. CASE x \in DOMAIN f
    <3>1. Total(f) = f[x] + Total(r)
      BY <2>1, <1>1, TotalSplit
    <3> QED
      BY <3>1, <2>1, <1>2 DEF Share, Summable
  <2>2. CASE x \notin DOMAIN f
    <3>1. DOMAIN r = DOMAIN f /\ \A y \in DOMAIN f : r[y] = f[y]
      BY <2>2, <1>1
    <3>2. Total(r) = Total(f)
      BY <3>1, <1>2, TotalSame
    <3> QED
      BY <3>2, <2>2, <1>2 DEF Share
  <2> QED
    BY <2>1, <2>2
<1>5. Total(e) = Total(r) + Share(e, x)
  <2>1. CASE x \in DOMAIN e
    <3>1. DOMAIN r = DOMAIN e \ {x} /\ \A y \in DOMAIN r : r[y] = e[y]
      BY <1>1
    <3>2. Total(e) = e[x] + Total(r)
      BY <2>1, <3>1, <1>3, TotalSplit
    <3> QED
      BY <3>2, <2>1, <1>2 DEF Share
  <2>2. CASE x \notin DOMAIN e
    <3>1. DOMAIN r = DOMAIN e /\ \A y \in DOMAIN e : r[y] = e[y]
      BY <2>2, <1>1
    <3>2. Total(r) = Total(e)
      BY <3>1, <1>3, TotalSame
    <3> QED
      BY <3>2, <2>2, <1>2 DEF Share
  <2> QED
    BY <2>1, <2>2
<1>6. Share(f, x) \in Nat /\ Share(e, x) \in Nat
  BY DEF Share, Summable
<1> QED
  BY <1>2, <1>3, <1>4, <1>5, <1>6

\* Every addend of h is an addend of f of its own, so h adds up to no more.
Embedded(h, f, m) ==
    /\ Summable(f) /\ m \in [DOMAIN h -> DOMAIN f]
    /\ \A x, y \in DOMAIN h : m[x] = m[y] => x = y
    /\ \A x \in DOMAIN h : h[x] = f[m[x]]

LEMMA TotalEmbedded ==
    ASSUME NEW h, NEW f, NEW m, Embedded(h, f, m)
    PROVE  Summable(h) /\ Total(h) <= Total(f)
<1> DEFINE Bad == {n \in Nat : \E a, b, i : /\ Embedded(a, b, i) /\ Cardinality(DOMAIN a) = n
                                           /\ ~(Total(a) <= Total(b))}
<1>1. ASSUME NEW a, NEW b, NEW i, Embedded(a, b, i) PROVE Summable(a)
  <2>1. i \in Injection(DOMAIN a, DOMAIN b)
    BY <1>1 DEF Embedded, Injection, IsInjective
  <2>2. IsFiniteSet(DOMAIN a)
    BY <2>1, <1>1, FS_Injection DEF Embedded, Summable
  <2> QED
    BY <2>2, <1>1 DEF Embedded, Summable
<1> SUFFICES ASSUME ~(Total(h) <= Total(f)) PROVE FALSE
  BY <1>1
<1>2. Cardinality(DOMAIN h) \in Bad
  <2>1. Cardinality(DOMAIN h) \in Nat
    BY <1>1, FS_CardinalityType DEF Summable
  <2> QED
    BY <2>1
<1>3. PICK n \in Bad : \A k \in Bad : n <= k
  <2> HIDE DEF Bad
  <2>1. Bad \in SUBSET Nat
    BY DEF Bad
  <2> QED
    BY <2>1, <1>2, LeastNumber
<1>4. PICK a, b, i : Embedded(a, b, i) /\ Cardinality(DOMAIN a) = n /\ ~(Total(a) <= Total(b))
  BY <1>3
<1>5. Summable(a) /\ Summable(b) /\ Total(a) \in Nat /\ Total(b) \in Nat
  BY <1>1, <1>4, TotalType DEF Embedded
<1>6. PICK x \in DOMAIN a : TRUE
  BY <1>4, <1>5, TotalType
<1> DEFINE y == i[x]
           c == [z \in DOMAIN a \ {x} |-> a[z]]
           d == [z \in DOMAIN b \ {y} |-> b[z]]
           j == [z \in DOMAIN a \ {x} |-> i[z]]
<1>7. y \in DOMAIN b /\ a[x] = b[y] /\ b[y] \in Nat
  BY <1>4, <1>5, <1>6 DEF Embedded, Summable
<1>8. Summable(c) /\ Total(a) = a[x] + Total(c)
  BY <1>5, <1>6, TotalSplit
<1>9. Summable(d) /\ Total(b) = b[y] + Total(d)
  BY <1>5, <1>7, TotalSplit
<1>10. Embedded(c, d, j)
  BY <1>4, <1>6, <1>9 DEF Embedded
<1>11. Cardinality(DOMAIN c) = n - 1 /\ n - 1 \in Nat
  <2>1. Cardinality(DOMAIN a \ {x}) = Cardinality(DOMAIN a) - 1
    BY <1>5, <1>6, FS_RemoveElement DEF Summable
  <2>2. Cardinality(DOMAIN c) \in Nat
    BY <1>8, FS_CardinalityType DEF Summable
  <2> QED
    BY <1>4, <2>1, <2>2
<1>12. n - 1 \notin Bad
  BY <1>3, <1>11
<1>13. Total(c) <= Total(d)
  <2> HIDE DEF c, d, j
  <2> QED
    BY <1>10, <1>11, <1>12
<1>14. Total(c) \in Nat /\ Total(d) \in Nat
  BY <1>8, <1>9, TotalType
<1> HIDE DEF c, d, j, y, Bad
<1> QED
  BY <1>4, <1>5, <1>7, <1>8, <1>9, <1>13, <1>14

Shifted(f, S, d) == [x \in DOMAIN f |-> f[x] + (IF x \in S THEN d ELSE 0)]

\* Each of some elements has d more.
LEMMA TotalShift ==
    ASSUME NEW f, Summable(f), NEW d \in Nat, NEW S \in SUBSET DOMAIN f
    PROVE  Total(Shifted(f, S, d)) = Total(f) + Cardinality(S) * d
<1> DEFINE Bad(T) == Total(Shifted(f, T, d)) # Total(f) + Cardinality(T) * d
           N == {n \in Nat : \E T \in SUBSET DOMAIN f : Cardinality(T) = n /\ Bad(T)}
<1>0. IsFiniteSet(DOMAIN f) /\ \A x \in DOMAIN f : f[x] \in Nat
  BY DEF Summable
<1>1. \A T \in SUBSET DOMAIN f : IsFiniteSet(T) /\ Cardinality(T) \in Nat
  BY <1>0, FS_Subset, FS_CardinalityType
<1>2. ASSUME NEW T \in SUBSET DOMAIN f
      PROVE  /\ Summable(Shifted(f, T, d)) /\ DOMAIN Shifted(f, T, d) = DOMAIN f
             /\ \A x \in DOMAIN f : Shifted(f, T, d)[x] = f[x] + (IF x \in T THEN d ELSE 0)
  BY <1>0 DEF Summable, Shifted
<1> SUFFICES ASSUME Bad(S) PROVE FALSE
  OBVIOUS
<1>3. N \in SUBSET Nat /\ N # {}
  BY <1>1
<1>4. PICK n \in N : \A k \in N : n <= k
  BY <1>3, LeastNumber
<1>5. PICK T \in SUBSET DOMAIN f : Cardinality(T) = n /\ Bad(T)
  BY <1>4
<1>6. CASE T = {}
  <2>1. Cardinality(T) = 0
    BY <1>6, FS_EmptySet
  <2>2. \A x \in DOMAIN f : Shifted(f, T, d)[x] = f[x]
    BY <1>0, <1>2, <1>6
  <2>3. Total(Shifted(f, T, d)) = Total(f)
    BY <2>2, <1>2, TotalSame
  <2>4. Total(f) \in Nat
    BY TotalType
  <2> QED
    BY <2>1, <2>3, <2>4, <1>5
<1>7. CASE T # {}
  <2>1. PICK x \in T : TRUE
    BY <1>7
  <2> DEFINE U == T \ {x}
             e == Shifted(f, T, d)
             g == Shifted(f, U, d)
  <2>2. IsFiniteSet(U) /\ Cardinality(U) \in Nat /\ Cardinality(T) = Cardinality(U) + 1 /\ U \in SUBSET DOMAIN f
    BY <1>1, <2>1, FS_RemoveElement
  <2>3. ~Bad(U)
    <3>1. \A k \in N : Cardinality(T) <= k
      BY <1>4, <1>5
    <3>2. Cardinality(U) \notin N
      <4> HIDE DEF N, U
      <4> QED
        BY <2>2, <3>1
    <3> QED
      BY <3>2, <2>2
  <2>4. Summable(e) /\ Summable(g) /\ DOMAIN e = DOMAIN f /\ DOMAIN g = DOMAIN f
    BY <1>2, <2>2
  <2>5. e[x] = f[x] + d /\ g[x] = f[x] /\ f[x] \in Nat /\ x \in DOMAIN f
        /\ \A y \in DOMAIN f \ {x} : e[y] = g[y]
    BY <1>0, <1>2, <2>1, <2>2
  <2> HIDE DEF e, g, U
  <2>6. Total(e) + Share(g, x) = Total(g) + Share(e, x)
    BY <2>4, <2>5, TotalChange
  <2>7. Share(g, x) = f[x] /\ Share(e, x) = f[x] + d
    BY <2>4, <2>5 DEF Share
  <2>8. Total(e) \in Nat /\ Total(g) \in Nat /\ Total(f) \in Nat
    BY <2>4, TotalType
  <2> DEFINE a == Total(e)
             b == Total(g)
             c == f[x]
  <2>9. a = b + d
    <3>1. a + c = b + (c + d)
      BY <2>6, <2>7
    <3>2. a \in Nat /\ b \in Nat /\ c \in Nat /\ d \in Nat
      BY <2>5, <2>8
    <3> HIDE DEF a, b, c
    <3> QED
      BY ONLY <3>1, <3>2
  <2>10. Total(g) = Total(f) + Cardinality(U) * d
    BY <2>3 DEF g
  <2>11. \A k \in Nat : (k + 1) * d = k * d + d
    OBVIOUS
  <2>12. Cardinality(T) * d = Cardinality(U) * d + d /\ Cardinality(U) * d \in Nat
    BY <2>2, <2>11
  <2>13. Total(e) = Total(f) + Cardinality(T) * d
    BY <2>8, <2>9, <2>10, <2>12
  <2> QED
    BY <2>13, <1>5 DEF e
<1> QED
  BY <1>6, <1>7

\* Nothing adds up to nothing.
LEMMA TotalZero ==
    ASSUME NEW D, IsFiniteSet(D)
    PROVE  Total([x \in D |-> 0]) = 0
<1> DEFINE Bad(T) == Total([x \in T |-> 0]) # 0
           N == {n \in Nat : \E T \in SUBSET D : Cardinality(T) = n /\ Bad(T)}
<1>1. \A T \in SUBSET D : IsFiniteSet(T) /\ Cardinality(T) \in Nat
  BY FS_Subset, FS_CardinalityType
<1>2. ASSUME NEW T \in SUBSET D PROVE Summable([x \in T |-> 0])
  BY <1>1 DEF Summable
<1> SUFFICES ASSUME Bad(D) PROVE FALSE
  OBVIOUS
<1>3. N \in SUBSET Nat /\ N # {}
  BY <1>1
<1>4. PICK n \in N : \A k \in N : n <= k
  BY <1>3, LeastNumber
<1>5. PICK T \in SUBSET D : Cardinality(T) = n /\ Bad(T)
  BY <1>4
<1> DEFINE f == [x \in T |-> 0]
<1>6. Summable(f) /\ DOMAIN f = T
  BY <1>2
<1>7. T # {}
  <2>1. T = {} => Total(f) = 0
    BY <1>6, TotalType
  <2> QED
    BY <2>1, <1>5
<1>8. PICK x \in T : TRUE
  BY <1>7
<1> DEFINE U == T \ {x}
           e == [y \in U |-> 0]
<1>9. IsFiniteSet(U) /\ Cardinality(U) \in Nat /\ Cardinality(T) = Cardinality(U) + 1 /\ U \in SUBSET D
  BY <1>1, <1>8, FS_RemoveElement
<1>10. \A k \in N : Cardinality(T) <= k
  BY <1>4, <1>5
<1>11. Total(e) = 0
  <2>1. Cardinality(U) \notin N
    <3> HIDE DEF N, U
    <3> QED
      BY <1>9, <1>10
  <2> QED
    BY <2>1, <1>9
<1>12. DOMAIN e = DOMAIN f \ {x} /\ \A y \in DOMAIN e : e[y] = f[y]
  OBVIOUS
<1>13. f[x] = 0 /\ x \in DOMAIN f
  BY <1>8
<1> HIDE DEF e
<1>14. Total(f) = f[x] + Total(e)
  <2> HIDE DEF f
  <2> QED
    BY <1>6, <1>12, <1>13, TotalSplit
<1> QED
  BY <1>5, <1>11, <1>13, <1>14

-----------------------------------------------------------------------------
(* The database: what Open establishes. *)

\* The lock's holder alone is between the lock and its release, a transaction
\* has made tables of the schema only, and what is committed is nothing or all.
Schema ==
    /\ proc \in [Process -> {"none", "opening", "locked", "tx", "open"}]
    /\ initLock \in Process \cup {Nobody}
    /\ \A p \in Process : proc[p] \in {"locked", "tx"} <=> initLock = p
    /\ created \subseteq Table /\ version \in BOOLEAN
    /\ tables = IF version THEN Table ELSE {}
    /\ \A p \in Process : proc[p] = "open" => version

LEMMA SchemaInit == StoreInit => Schema
  BY StoreAssumption DEF StoreInit, Schema

LEMMA SchemaStep == Schema /\ [StoreNext]_storeVars => Schema'
<1> SUFFICES ASSUME Schema, [StoreNext]_storeVars PROVE Schema'
  OBVIOUS
<1> USE DEF Schema
<1>1. ASSUME NEW p \in Process, OpenBegins(p) \/ OpenLocks(p) \/ ConfigureOld(p) PROVE Schema'
  BY <1>1, StoreAssumption DEF OpenBegins, OpenLocks, ConfigureOld
<1>2. ASSUME NEW p \in Process, ConfigureBegins(p) \/ CreateTable(p) PROVE Schema'
  BY <1>2, StoreAssumption DEF ConfigureBegins, CreateTable
<1>3. ASSUME NEW p \in Process, ConfigureCommits(p) PROVE Schema'
  BY <1>3, StoreAssumption DEF ConfigureCommits
<1>4. ASSUME NEW p \in Process, Leave(p) PROVE Schema'
  BY <1>4, StoreAssumption DEF Leave
<1>5. ASSUME UNCHANGED schemaVars PROVE Schema'
  BY <1>5 DEF schemaVars
<1> QED
  BY <1>1, <1>2, <1>3, <1>4, <1>5
  DEF StoreNext, storeVars, Create, BeginCall, CompleteCall, EnsureWait, ResolveWait, SetState

\* The database that any process opens has its whole schema, for any number of
\* processes and tables, wherever processes die in Open.
THEOREM StoreOpenedIsWhole == StoreSpec => []OpenedIsWhole
<1>1. Schema => OpenedIsWhole
  BY DEF Schema, OpenedIsWhole, Open
<1> QED
  BY <1>1, SchemaInit, SchemaStep, PTL DEF StoreSpec

-----------------------------------------------------------------------------
(* The payload of a run. *)

Row == [state : {"pending", "waiting", "completed"}, wait : {"none", "open", "resolved"},
        arguments : Nat, outcome : Nat, request : Nat, decision : Nat]

\* What payloadSizeTx counts of one row.
Counted(c) == c.arguments + c.outcome + c.request + c.decision
Charge(s)  == [i \in DOMAIN s |-> Counted(s[i])]

RowsKept ==
    /\ definition \in Nat /\ ending \in Nat /\ calls \in Seq(Row)
    /\ status = "absent" => definition = 0 /\ ending = 0 /\ calls = <<>>
    /\ Payload <= MaxPayload

LEMMA CountedType ==
    ASSUME NEW c \in Row PROVE Counted(c) \in Nat
  BY DEF Row, Counted

LEMMA PayloadIs ==
    /\ Payload = definition + ending + Total(Charge(calls))
    /\ Payload' = definition' + ending' + Total(Charge(calls'))
  BY DEF Payload, Charge, Counted

LEMMA Charged ==
    ASSUME NEW s \in Seq(Row)
    PROVE  Summable(Charge(s)) /\ Total(Charge(s)) \in Nat /\ (s = <<>> => Total(Charge(s)) = 0)
<1>1. DOMAIN Charge(s) = 1 .. Len(s) /\ Len(s) \in Nat
  BY DEF Charge
<1>2. IsFiniteSet(1 .. Len(s))
  BY <1>1, FS_Interval
<1>3. \A i \in 1 .. Len(s) : Charge(s)[i] \in Nat
  <2> SUFFICES ASSUME NEW i \in 1 .. Len(s) PROVE Charge(s)[i] \in Nat
    OBVIOUS
  <2>1. Charge(s)[i] = Counted(s[i]) /\ s[i] \in Row
    BY DEF Charge
  <2> QED
    BY <2>1, CountedType
<1>4. Summable(Charge(s))
  BY <1>1, <1>2, <1>3 DEF Summable
<1>5. s = <<>> => DOMAIN Charge(s) = {}
  BY <1>1
<1> QED
  BY <1>4, <1>5, TotalType

\* A row that changes, or a new one, changes the payload by what it has more.
LEMMA ChargeChanges ==
    ASSUME NEW s \in Seq(Row), NEW t \in Seq(Row), NEW i \in 1 .. Len(t),
           DOMAIN t = DOMAIN s \cup {i}, \A j \in DOMAIN s \ {i} : t[j] = s[j]
    PROVE  Total(Charge(t)) = Total(Charge(s)) + Counted(t[i])
                              - (IF i \in DOMAIN s THEN Counted(s[i]) ELSE 0)
<1>1. DOMAIN Charge(s) = DOMAIN s /\ DOMAIN Charge(t) = DOMAIN t
  BY DEF Charge
<1>2. \A j \in DOMAIN Charge(t) \ {i} : Charge(t)[j] = Charge(s)[j]
  BY DEF Charge
<1>3. Charge(t)[i] = Counted(t[i]) /\ Counted(t[i]) \in Nat
  <2>1. Charge(t)[i] = Counted(t[i]) /\ t[i] \in Row
    BY DEF Charge
  <2> QED
    BY <2>1, CountedType
<1>4. Summable(Charge(s)) /\ Total(Charge(s)) \in Nat /\ Total(Charge(t)) \in Nat
  BY Charged
<1>5. Total(Charge(t)) + Share(Charge(s), i) = Total(Charge(s)) + Share(Charge(t), i)
  BY <1>1, <1>2, <1>3, <1>4, TotalChange
<1>6. Share(Charge(t), i) = Counted(t[i])
  BY <1>1, <1>3 DEF Share
<1>7. Share(Charge(s), i) = IF i \in DOMAIN s THEN Counted(s[i]) ELSE 0
  BY <1>1 DEF Share, Charge
<1>8. i \in DOMAIN s => Counted(s[i]) \in Nat
  BY CountedType
<1> QED
  BY <1>3, <1>4, <1>5, <1>6, <1>7, <1>8

\* The check of a transaction is right about what the row will have.
LEMMA CallFits ==
    ASSUME RowsKept, NEW n \in Nat, NEW i \in DOMAIN calls, NEW k \in Nat, NEW c \in Row,
           Fits(n), Counted(c) - Counted(calls[i]) <= n,
           calls' = [calls EXCEPT ![i] = c], status' # "absent", UNCHANGED <<definition, ending>>
    PROVE  RowsKept'
<1>1. calls' \in Seq(Row) /\ i \in 1 .. Len(calls') /\ DOMAIN calls' = DOMAIN calls \cup {i}
      /\ calls'[i] = c /\ \A j \in DOMAIN calls \ {i} : calls'[j] = calls[j]
  <2>1. calls \in Seq(Row) /\ i \in 1 .. Len(calls)
    BY DEF RowsKept
  <2>2. calls' \in Seq(Row) /\ Len(calls') = Len(calls)
    BY <2>1
  <2> QED
    BY <2>1, <2>2
<1>2. Total(Charge(calls')) = Total(Charge(calls)) + Counted(c) - Counted(calls[i])
  BY <1>1, ChargeChanges DEF RowsKept
<1>3. Payload' = definition + ending + Total(Charge(calls'))
  BY PayloadIs
<1>4. Total(Charge(calls)) \in Nat /\ Counted(c) \in Nat /\ Counted(calls[i]) \in Nat
  <2>1. calls \in Seq(Row) /\ calls[i] \in Row
    BY DEF RowsKept
  <2> QED
    BY <2>1, Charged, CountedType
<1>5. Payload = definition + ending + Total(Charge(calls)) /\ Payload + n <= MaxPayload
  BY <1>4, PayloadIs, StoreAssumption DEF Fits, Exceeds, RowsKept
<1> QED
  BY <1>1, <1>2, <1>3, <1>4, <1>5, StoreAssumption DEF RowsKept

LEMMA RowsKeptStep == RowsKept /\ [StoreNext]_storeVars => RowsKept'
<1> SUFFICES ASSUME RowsKept, [StoreNext]_storeVars PROVE RowsKept'
  OBVIOUS
<1>0. Total(Charge(calls)) \in Nat
  BY Charged DEF RowsKept
<1>1. ASSUME NEW n \in Length, Create(n) PROVE RowsKept'
  <2>1. n \in Nat /\ calls' = <<>> /\ calls' \in Seq(Row)
    BY <1>1, StoreAssumption DEF Create, RowsKept
  <2>2. Total(Charge(calls')) = 0
    BY <2>1, Charged
  <2>3. Payload' = n
    BY <1>1, <2>1, <2>2, PayloadIs DEF Create, RowsKept
  <2> QED
    BY <1>1, <2>1, <2>3 DEF Create, RowsKept
<1>2. ASSUME NEW n \in Length, BeginCall(n) PROVE RowsKept'
  <2> DEFINE c == CallRow("pending", n, 0, "none", 0, 0)
  <2>1. n \in Nat /\ c \in Row /\ Counted(c) = n
    BY StoreAssumption DEF Row, Counted, CallRow
  <2> HIDE DEF c
  <2>2. calls' = Append(calls, c) /\ calls \in Seq(Row)
    BY <1>2 DEF BeginCall, c, RowsKept
  <2>3. /\ calls' \in Seq(Row) /\ Len(calls) + 1 \in 1 .. Len(calls')
        /\ DOMAIN calls' = DOMAIN calls \cup {Len(calls) + 1}
        /\ Len(calls) + 1 \notin DOMAIN calls
        /\ calls'[Len(calls) + 1] = c
        /\ \A j \in DOMAIN calls \ {Len(calls) + 1} : calls'[j] = calls[j]
    BY <2>1, <2>2
  <2>4. Total(Charge(calls')) = Total(Charge(calls)) + n
    <3>1. Total(Charge(calls')) = Total(Charge(calls)) + Counted(c) - 0
      <4> DEFINE k == Len(calls) + 1
      <4>1. k \in 1 .. Len(calls') /\ DOMAIN calls' = DOMAIN calls \cup {k} /\ k \notin DOMAIN calls
            /\ calls'[k] = c /\ \A j \in DOMAIN calls \ {k} : calls'[j] = calls[j]
        BY <2>3
      <4>2. calls \in Seq(Row) /\ calls' \in Seq(Row)
        BY <2>2, <2>3
      <4> HIDE DEF k
      <4> QED
        BY <4>1, <4>2, ChargeChanges
    <3> QED
      BY <3>1, <2>1, <1>0
  <2>5. Payload + n <= MaxPayload /\ Payload = definition + ending + Total(Charge(calls))
    BY <1>0, <1>2, <2>1, PayloadIs, StoreAssumption DEF BeginCall, Fits, Exceeds, RowsKept
  <2>6. Payload' = definition + ending + Total(Charge(calls'))
    BY <1>2, PayloadIs DEF BeginCall
  <2> QED
    BY <1>0, <1>2, <2>1, <2>3, <2>4, <2>5, <2>6 DEF BeginCall, RowsKept
<1>3. ASSUME NEW n \in Length, NEW i \in DOMAIN calls, CompleteCall(i, n) PROVE RowsKept'
  <2> DEFINE c == CallRow("completed", calls[i].arguments, n, calls[i].wait, calls[i].request, calls[i].decision)
  <2>1. n \in Nat /\ calls[i] \in Row /\ status # "absent"
    BY StoreAssumption DEF RowsKept
  <2>2. c \in Row /\ Counted(c) - Counted(calls[i]) = n - calls[i].outcome
    BY <2>1 DEF Row, Counted, CallRow
  <2>3. ReplacementIncrease(calls[i].outcome, n) \in Nat
        /\ n - calls[i].outcome <= ReplacementIncrease(calls[i].outcome, n)
    BY <2>1 DEF ReplacementIncrease, Row
  <2>4. calls' = [calls EXCEPT ![i] = c]
    BY <1>3 DEF CompleteCall, RowsKept
  <2> HIDE DEF c
  <2> QED
    BY <1>3, <2>1, <2>2, <2>3, <2>4, CallFits DEF CompleteCall
<1>4. ASSUME NEW n \in Length, NEW i \in DOMAIN calls, EnsureWait(i, n) PROVE RowsKept'
  <2> DEFINE c == CallRow("waiting", calls[i].arguments, calls[i].outcome, "open", n, calls[i].decision)
  <2>1. n \in Nat /\ calls[i] \in Row
    BY StoreAssumption DEF RowsKept
  <2>2. c \in Row /\ Counted(c) - Counted(calls[i]) <= n
    BY <2>1 DEF Row, Counted, CallRow
  <2>4. calls' = [calls EXCEPT ![i] = c]
    BY <1>4 DEF EnsureWait, RowsKept
  <2> HIDE DEF c
  <2> QED
    BY <1>4, <2>1, <2>2, <2>4, CallFits DEF EnsureWait
<1>5. ASSUME NEW n \in Length, NEW i \in DOMAIN calls, ResolveWait(i, n) PROVE RowsKept'
  <2> DEFINE c == CallRow(calls[i].state, calls[i].arguments, calls[i].outcome, "resolved", calls[i].request, n)
  <2>1. n \in Nat /\ calls[i] \in Row /\ status # "absent"
    BY StoreAssumption DEF RowsKept
  <2>2. c \in Row /\ Counted(c) - Counted(calls[i]) <= n
    BY <2>1 DEF Row, Counted, CallRow
  <2>4. calls' = [calls EXCEPT ![i] = c]
    BY <1>5 DEF ResolveWait, RowsKept
  <2> HIDE DEF c
  <2> QED
    BY <1>5, <2>1, <2>2, <2>4, CallFits DEF ResolveWait
<1>6. ASSUME NEW n \in Length, NEW s \in Settled, SetState(s, n) PROVE RowsKept'
  <2>1. n \in Nat /\ n - ending <= ReplacementIncrease(ending, n)
        /\ ReplacementIncrease(ending, n) \in Nat
    BY StoreAssumption DEF RowsKept, ReplacementIncrease
  <2>2. Payload + ReplacementIncrease(ending, n) <= MaxPayload
        /\ Payload = definition + ending + Total(Charge(calls))
    BY <1>0, <1>6, <2>1, PayloadIs, StoreAssumption DEF SetState, Fits, Exceeds, RowsKept
  <2>3. Payload' = definition + n + Total(Charge(calls))
    BY <1>6, PayloadIs DEF SetState
  <2> QED
    BY <1>0, <1>6, <2>1, <2>2, <2>3, StoreAssumption DEF SetState, RowsKept, Settled, Terminal
<1>7. ASSUME UNCHANGED rowVars PROVE RowsKept'
  BY <1>7 DEF rowVars, RowsKept, Payload
<1> QED
  BY <1>1, <1>2, <1>3, <1>4, <1>5, <1>6, <1>7
  DEF StoreNext, storeVars, OpenBegins, OpenLocks, ConfigureOld, ConfigureBegins, CreateTable,
      ConfigureCommits, Leave

LEMMA RowsKeptInit == StoreInit => RowsKept
<1> SUFFICES ASSUME StoreInit PROVE RowsKept
  OBVIOUS
<1>1. calls \in Seq(Row) /\ calls = <<>>
  BY DEF StoreInit
<1>2. Payload = 0
  <2>1. Total(Charge(calls)) = 0
    BY <1>1, Charged
  <2> QED
    BY <2>1, PayloadIs DEF StoreInit
<1> QED
  BY <1>1, <1>2, StoreAssumption DEF StoreInit, RowsKept

\* For any limit, any lengths and any number of calls, no sequence of the
\* store's transactions makes a run retain more than MaxRunPayloadBytes.
THEOREM StorePayloadBounded == StoreSpec => []PayloadBounded
<1>1. RowsKept => PayloadBounded
  BY DEF RowsKept, PayloadBounded, Payload
<1> QED
  BY <1>1, RowsKeptInit, RowsKeptStep, PTL DEF StoreSpec

-----------------------------------------------------------------------------
(* Paths. *)

LEMMA PathIs == \A p : p \in Path <=> p \in Seq(Name) /\ Len(p) \in 1 .. MaxDepth
  BY QuotaAssumption DEF Path

\* The paths that the operations are called with, and Root, which is above all.
LEMMA PathSeq ==
    /\ Path \cup {Root} \subseteq Seq(Name)
    /\ Root \notin Path /\ Len(Root) = 0
<1>1. Root \in Seq(Name) /\ Len(Root) = 0
  BY EmptySeq DEF Root
<1>2. Path \subseteq Seq(Name) /\ \A p \in Path : Len(p) # 0
  BY PathIs
<1> QED
  BY <1>1, <1>2

LEMMA PrefixIs ==
    ASSUME NEW s \in Seq(Name), NEW t \in Seq(Name)
    PROVE  IsPrefix(s, t) <=> Len(s) <= Len(t) /\ \A i \in 1 .. Len(s) : s[i] = t[i]
<1>1. ASSUME IsPrefix(s, t) PROVE Len(s) <= Len(t) /\ \A i \in 1 .. Len(s) : s[i] = t[i]
  <2>1. Len(s) <= Len(t) /\ SubSeq(s, 1, Len(s)) = SubSeq(t, 1, Len(s))
    BY <1>1 DEF IsPrefix
  <2>2. \A i \in 1 .. Len(s) : SubSeq(s, 1, Len(s))[i] = s[i] /\ SubSeq(t, 1, Len(s))[i] = t[i]
    BY <2>1
  <2> QED
    BY <2>1, <2>2
<1>2. ASSUME Len(s) <= Len(t), \A i \in 1 .. Len(s) : s[i] = t[i] PROVE IsPrefix(s, t)
  <2>1. SubSeq(s, 1, Len(s)) = SubSeq(t, 1, Len(s))
    BY <1>2
  <2> QED
    BY <1>2, <2>1 DEF IsPrefix
<1> QED
  BY <1>1, <1>2

LEMMA SeqSame ==
    ASSUME NEW s \in Seq(Name), NEW t \in Seq(Name), Len(s) = Len(t),
           \A i \in 1 .. Len(s) : s[i] = t[i]
    PROVE  s = t
  BY SeqEqual

\* What is above a path is one chain.
LEMMA PrefixOrder ==
    ASSUME NEW p \in Seq(Name), NEW q \in Seq(Name), NEW r \in Seq(Name)
    PROVE  /\ IsPrefix(p, p)
           /\ IsPrefix(p, q) /\ IsPrefix(q, r) => IsPrefix(p, r)
           /\ IsPrefix(p, q) /\ IsPrefix(q, p) => p = q
           /\ IsPrefix(p, r) /\ IsPrefix(q, r) => IsPrefix(p, q) \/ IsPrefix(q, p)
<1>0. Len(p) \in Nat /\ Len(q) \in Nat /\ Len(r) \in Nat
  OBVIOUS
<1>1. IsPrefix(p, p)
  BY PrefixIs
<1>2. IsPrefix(p, q) /\ IsPrefix(q, r) => IsPrefix(p, r)
  BY <1>0, PrefixIs
<1>3. IsPrefix(p, q) /\ IsPrefix(q, p) => p = q
  BY <1>0, PrefixIs, SeqSame
<1>4. IsPrefix(p, r) /\ IsPrefix(q, r) => IsPrefix(p, q) \/ IsPrefix(q, p)
  BY <1>0, PrefixIs
<1> QED
  BY <1>1, <1>2, <1>3, <1>4

LEMMA PrefixesAre ==
    ASSUME NEW p \in Seq(Name)
    PROVE  \A q : q \in Prefixes(p) <=> q \in Seq(Name) /\ IsPrefix(q, p)
<1>1. ASSUME NEW q \in Prefixes(p) PROVE q \in Seq(Name) /\ IsPrefix(q, p)
  <2>1. PICK l \in 0 .. Len(p) : q = SubSeq(p, 1, l)
    BY <1>1 DEF Prefixes
  <2>2. q \in Seq(Name) /\ Len(q) = l /\ \A i \in 1 .. l : q[i] = p[i]
    BY <2>1
  <2> QED
    BY <2>2, PrefixIs
<1>2. ASSUME NEW q \in Seq(Name), IsPrefix(q, p) PROVE q \in Prefixes(p)
  <2>1. Len(q) \in 0 .. Len(p) /\ \A i \in 1 .. Len(q) : q[i] = p[i]
    BY <1>2, PrefixIs
  <2>2. /\ SubSeq(p, 1, Len(q)) \in Seq(Name) /\ Len(SubSeq(p, 1, Len(q))) = Len(q)
        /\ \A i \in 1 .. Len(q) : SubSeq(p, 1, Len(q))[i] = p[i]
    BY <2>1
  <2>3. q = SubSeq(p, 1, Len(q))
    BY <2>1, <2>2, SeqSame
  <2> QED
    BY <2>1, <2>3 DEF Prefixes
<1> QED
  BY <1>1, <1>2

\* validateComponents on a path: all directories above it are on disk.
LEMMA ComponentsAre ==
    ASSUME NEW p \in Path, NEW b \in BOOLEAN, ValidComponents(p, b)
    PROVE  \A q \in Path : IsStrictPrefix(q, p) => q \in dirs
<1> SUFFICES ASSUME NEW q \in Path, IsPrefix(q, p), q # p PROVE q \in dirs
  BY DEF IsStrictPrefix
<1>1. q \in Seq(Name) /\ p \in Seq(Name) /\ q # Root
  BY PathSeq
<1>2. q \in Prefixes(p)
  BY <1>1, PrefixesAre
<1> QED
  BY <1>1, <1>2 DEF ValidComponents

-----------------------------------------------------------------------------
(* Renaming. *)

\* The name that a path below from gets.
Moved(p, from, to) == to \o SubSeq(p, Len(from) + 1, Len(p))

LEMMA MovedIs ==
    ASSUME NEW from \in Seq(Name), NEW to \in Seq(Name), NEW p \in Seq(Name), IsPrefix(from, p)
    PROVE  /\ Moved(p, from, to) \in Seq(Name)
           /\ Len(Moved(p, from, to)) = Len(to) + Len(p) - Len(from)
           /\ \A i \in 1 .. Len(to) : Moved(p, from, to)[i] = to[i]
           /\ \A i \in Len(to) + 1 .. Len(to) + Len(p) - Len(from) :
                  Moved(p, from, to)[i] = p[i - Len(to) + Len(from)]
           /\ IsPrefix(to, Moved(p, from, to))
<1>1. Len(from) <= Len(p) /\ Len(from) \in Nat /\ Len(p) \in Nat /\ Len(to) \in Nat
  BY PrefixIs
<1> DEFINE s == SubSeq(p, Len(from) + 1, Len(p))
<1>2. s \in Seq(Name) /\ Len(s) = Len(p) - Len(from)
      /\ \A i \in 1 .. Len(p) - Len(from) : s[i] = p[Len(from) + i]
  BY <1>1
<1> HIDE DEF s
<1>3. Moved(p, from, to) = to \o s
  BY DEF Moved, s
<1>4. /\ to \o s \in Seq(Name) /\ Len(to \o s) = Len(to) + Len(s)
      /\ \A i \in 1 .. Len(to) : (to \o s)[i] = to[i]
      /\ \A i \in Len(to) + 1 .. Len(to) + Len(s) : (to \o s)[i] = s[i - Len(to)]
  <2>1. /\ to \o s \in Seq(Name) /\ Len(to \o s) = Len(to) + Len(s)
        /\ \A i \in 1 .. Len(to) + Len(s) :
               (to \o s)[i] = IF i <= Len(to) THEN to[i] ELSE s[i - Len(to)]
    BY <1>2, ConcatProperties
  <2>2. Len(s) \in Nat
    BY <1>2
  <2> DEFINE m == to \o s
  <2> HIDE DEF m
  <2>3. /\ \A i \in 1 .. Len(to) + Len(s) :
               m[i] = IF i <= Len(to) THEN to[i] ELSE s[i - Len(to)]
    BY <2>1 DEF m
  <2>4. /\ \A i \in 1 .. Len(to) : m[i] = to[i]
        /\ \A i \in Len(to) + 1 .. Len(to) + Len(s) : m[i] = s[i - Len(to)]
    BY <2>2, <2>3, <1>1
  <2> QED
    BY <2>1, <2>4 DEF m
<1> DEFINE m == to \o s
<1> HIDE DEF m
<1>6. /\ m \in Seq(Name) /\ Len(m) = Len(to) + Len(s)
      /\ \A i \in 1 .. Len(to) : m[i] = to[i]
      /\ \A i \in Len(to) + 1 .. Len(to) + Len(s) : m[i] = s[i - Len(to)]
  BY <1>4 DEF m
<1>5. IsPrefix(to, m)
  BY <1>1, <1>2, <1>6, PrefixIs
<1>7. ASSUME NEW i \in Len(to) + 1 .. Len(to) + Len(p) - Len(from)
      PROVE  m[i] = p[i - Len(to) + Len(from)]
  <2> DEFINE k == i - Len(to)
  <2>1. k \in 1 .. Len(p) - Len(from) /\ i \in Len(to) + 1 .. Len(to) + Len(s)
    BY <1>1, <1>2
  <2>2. m[i] = s[k] /\ s[k] = p[Len(from) + k]
    BY <2>1, <1>2, <1>6
  <2>3. Len(from) + k = i - Len(to) + Len(from)
    BY <1>1
  <2> QED
    BY <2>2, <2>3
<1> QED
  BY <1>1, <1>2, <1>3, <1>5, <1>6, <1>7 DEF m

LEMMA MovedOnce ==
    ASSUME NEW from \in Seq(Name), NEW to \in Seq(Name), NEW p \in Seq(Name), NEW q \in Seq(Name),
           IsPrefix(from, p), IsPrefix(from, q), Moved(p, from, to) = Moved(q, from, to)
    PROVE  p = q
<1>1. /\ Len(from) <= Len(p) /\ Len(from) \in Nat /\ Len(p) \in Nat /\ Len(to) \in Nat /\ Len(q) \in Nat
      /\ \A i \in 1 .. Len(from) : p[i] = from[i] /\ q[i] = from[i]
  BY PrefixIs
<1>2. Len(p) = Len(q)
  <2>1. Len(Moved(p, from, to)) = Len(to) + Len(p) - Len(from)
    BY MovedIs
  <2>2. Len(Moved(q, from, to)) = Len(to) + Len(q) - Len(from)
    BY MovedIs
  <2> QED
    BY <1>1, <2>1, <2>2
<1>3. ASSUME NEW i \in Len(from) + 1 .. Len(p) PROVE p[i] = q[i]
  <2> DEFINE k == i - Len(from) + Len(to)
  <2>1. k \in Len(to) + 1 .. Len(to) + Len(p) - Len(from) /\ k - Len(to) + Len(from) = i
    BY <1>1
  <2>2. Moved(p, from, to)[k] = p[i] /\ Moved(q, from, to)[k] = q[i]
    <3> HIDE DEF k
    <3>1. \A j \in Len(to) + 1 .. Len(to) + Len(p) - Len(from) :
              Moved(p, from, to)[j] = p[j - Len(to) + Len(from)]
      BY MovedIs
    <3>2. \A j \in Len(to) + 1 .. Len(to) + Len(q) - Len(from) :
              Moved(q, from, to)[j] = q[j - Len(to) + Len(from)]
      BY MovedIs
    <3> QED
      BY <3>1, <3>2, <2>1, <1>2
  <2> QED
    BY <2>2
<1> QED
  BY <1>1, <1>2, <1>3, SeqSame

\* Above a new name there is the way to to, and the new names of what was above.
LEMMA MovedAbove ==
    ASSUME NEW from \in Seq(Name), NEW to \in Seq(Name), NEW p \in Seq(Name), IsPrefix(from, p),
           NEW q \in Seq(Name), IsPrefix(q, Moved(p, from, to)), ~ IsStrictPrefix(q, to)
    PROVE  \E r \in Seq(Name) : IsPrefix(from, r) /\ IsPrefix(r, p) /\ q = Moved(r, from, to)
<1> DEFINE m == Moved(p, from, to)
           l == Len(q) - Len(to) + Len(from)
           r == SubSeq(p, 1, l)
<1>1. /\ Len(from) <= Len(p) /\ Len(from) \in Nat /\ Len(p) \in Nat /\ Len(to) \in Nat /\ Len(q) \in Nat
      /\ \A i \in 1 .. Len(from) : p[i] = from[i]
  BY PrefixIs
<1>2. /\ m \in Seq(Name) /\ Len(m) = Len(to) + Len(p) - Len(from) /\ IsPrefix(to, m)
      /\ \A i \in 1 .. Len(to) : m[i] = to[i]
      /\ \A i \in Len(to) + 1 .. Len(to) + Len(p) - Len(from) : m[i] = p[i - Len(to) + Len(from)]
  BY MovedIs, ZenonT(60)
<1> HIDE DEF m
<1>3. IsPrefix(q, m)
  BY DEF m
<1>4. IsPrefix(to, q)
  <2>1. IsPrefix(to, q) \/ IsPrefix(q, to)
    BY <1>2, <1>3, PrefixOrder
  <2>2. q = to => IsPrefix(to, q)
    BY PrefixOrder
  <2> QED
    BY <2>1, <2>2 DEF IsStrictPrefix
<1>5. Len(to) <= Len(q) /\ Len(q) <= Len(m) /\ \A i \in 1 .. Len(q) : q[i] = m[i]
  BY <1>2, <1>3, <1>4, PrefixIs
<1>6. l \in Len(from) .. Len(p) /\ r \in Seq(Name) /\ Len(r) = l /\ \A i \in 1 .. l : r[i] = p[i]
  BY <1>1, <1>2, <1>5
<1>7. IsPrefix(from, r) /\ IsPrefix(r, p)
  <2> HIDE DEF r, l
  <2>1. l <= Len(p) /\ Len(from) <= l /\ l \in Nat
    BY <1>6, <1>1
  <2>2. IsPrefix(r, p)
    BY <2>1, <1>6, PrefixIs
  <2>3. \A i \in 1 .. Len(from) : from[i] = r[i]
    BY <2>1, <1>1, <1>6
  <2> QED
    BY <2>1, <2>2, <2>3, <1>6, PrefixIs
<1> HIDE DEF r
<1> DEFINE w == Moved(r, from, to)
<1>8. /\ w \in Seq(Name) /\ Len(w) = Len(to) + l - Len(from)
      /\ \A i \in 1 .. Len(to) : w[i] = to[i]
      /\ \A i \in Len(to) + 1 .. Len(to) + l - Len(from) : w[i] = r[i - Len(to) + Len(from)]
  <2>1. /\ w \in Seq(Name) /\ Len(w) = Len(to) + Len(r) - Len(from)
        /\ \A i \in 1 .. Len(to) : w[i] = to[i]
        /\ \A i \in Len(to) + 1 .. Len(to) + Len(r) - Len(from) : w[i] = r[i - Len(to) + Len(from)]
    BY <1>6, <1>7, MovedIs
  <2> QED
    BY <2>1, <1>6
<1> HIDE DEF w
<1>9. Len(w) = Len(q)
  BY <1>1, <1>8
<1>10. ASSUME NEW i \in 1 .. Len(q) PROVE q[i] = w[i]
  <2>1. q[i] = m[i]
    BY <1>5
  <2>2. CASE i <= Len(to)
    BY <2>1, <2>2, <1>1, <1>2, <1>8
  <2>3. CASE i > Len(to)
    <3>1. i \in Len(to) + 1 .. Len(to) + l - Len(from)
          /\ i \in Len(to) + 1 .. Len(to) + Len(p) - Len(from)
          /\ i - Len(to) + Len(from) \in 1 .. l
      BY <2>3, <1>1, <1>2, <1>5
    <3>2. w[i] = r[i - Len(to) + Len(from)] /\ m[i] = p[i - Len(to) + Len(from)]
      BY <3>1, <1>2, <1>8
    <3> QED
      BY <3>1, <3>2, <2>1, <1>6
  <2> QED
    BY <2>2, <2>3, <1>1
<1>11. q = w
  BY <1>8, <1>9, <1>10, SeqSame
<1> QED
  BY <1>6, <1>7, <1>11 DEF w

\* The new names of the keys of f in moved.
NewNames(f, moved, from, to) == {Moved(p, from, to) : p \in moved \cap DOMAIN f}

\* f is about paths, and what moves of it is below from.
Movable(f, moved, from, to) ==
    /\ from \in Seq(Name) /\ to \in Seq(Name) /\ DOMAIN f \subseteq Seq(Name)
    /\ \A p \in moved \cap DOMAIN f : IsPrefix(from, p)

\* g is f with what moves under its new names.
Renamed(g, f, moved, from, to) ==
    /\ g = [n \in (DOMAIN f \ moved) \cup NewNames(f, moved, from, to) |-> g[n]]
    /\ \A p \in moved \cap DOMAIN f : g[Moved(p, from, to)] = f[p]
    /\ \A n \in DOMAIN f \ moved : n \notin NewNames(f, moved, from, to) => g[n] = f[n]

LEMMA RekeyIs ==
    ASSUME NEW f, NEW moved, NEW from, NEW to, Movable(f, moved, from, to),
           NEW g, g = Rekey(f, moved, from, to)
    PROVE  Renamed(g, f, moved, from, to)
<1> DEFINE new == [p \in moved \cap DOMAIN f |-> Moved(p, from, to)]
           old == [n \in Range(new) |-> CHOOSE p \in DOMAIN new : new[p] = n]
<1>1. g = [n \in (DOMAIN f \ moved) \cup DOMAIN old |-> IF n \in DOMAIN old THEN f[old[n]] ELSE f[n]]
  BY DEF Rekey, Moved
<1>2. Range(new) = NewNames(f, moved, from, to) /\ DOMAIN old = Range(new)
  BY DEF Range, NewNames
<1>3. ASSUME NEW p \in moved \cap DOMAIN f PROVE g[Moved(p, from, to)] = f[p]
  <2> DEFINE n == Moved(p, from, to)
             q == CHOOSE q \in DOMAIN new : new[q] = n
  <2>1. n \in DOMAIN old
    BY <1>2 DEF NewNames
  <2>2. q \in moved \cap DOMAIN f /\ Moved(q, from, to) = n
    <3>1. \E r \in DOMAIN new : new[r] = n
      OBVIOUS
    <3>2. q \in DOMAIN new /\ new[q] = n
      BY <3>1
    <3> QED
      BY <3>2
  <2>3. old[n] = q
    BY <2>1
  <2>4. q = p
    <3> HIDE DEF q
    <3> QED
      BY <2>2, MovedOnce DEF Movable
  <2>5. g[n] = f[old[n]]
    <3> HIDE DEF n, old
    <3> QED
      BY <1>1, <2>1
  <2> QED
    BY <2>3, <2>4, <2>5
<1> HIDE DEF old
<1> QED
  BY <1>1, <1>2, <1>3 DEF Renamed

\* Nothing that moves counts twice.
LEMMA RenamedEmbeds ==
    ASSUME NEW f, Summable(f), NEW moved, NEW from, NEW to, Movable(f, moved, from, to),
           NEW g, Renamed(g, f, moved, from, to)
    PROVE  Summable(g) /\ Total(g) <= Total(f)
<1> DEFINE N == NewNames(f, moved, from, to)
           m == [n \in DOMAIN g |-> IF n \in N
                                    THEN CHOOSE p \in moved \cap DOMAIN f : n = Moved(p, from, to)
                                    ELSE n]
<1>1. /\ DOMAIN g = (DOMAIN f \ moved) \cup N
      /\ \A p \in moved \cap DOMAIN f : g[Moved(p, from, to)] = f[p]
      /\ \A n \in DOMAIN f \ moved : n \notin N => g[n] = f[n]
  BY DEF Renamed
<1>2. ASSUME NEW n \in N PROVE m[n] \in moved \cap DOMAIN f /\ n = Moved(m[n], from, to)
  <2>1. \E p \in moved \cap DOMAIN f : n = Moved(p, from, to)
    BY DEF NewNames
  <2>2. m[n] = CHOOSE p \in moved \cap DOMAIN f : n = Moved(p, from, to)
    BY <1>1
  <2> HIDE DEF m, N
  <2> QED
    BY <2>1, <2>2
<1>3. ASSUME NEW n \in DOMAIN g, n \notin N PROVE m[n] = n /\ n \in DOMAIN f \ moved
  BY <1>1, <1>3
<1> HIDE DEF N
<1>4. \A n \in DOMAIN g : m[n] \in DOMAIN f /\ g[n] = f[m[n]]
  <2> HIDE DEF m
  <2> QED
    BY <1>1, <1>2, <1>3
<1>5. \A n, k \in DOMAIN g : m[n] = m[k] => n = k
  <2> HIDE DEF m
  <2> QED
    BY <1>2, <1>3
<1>6. Embedded(g, f, m)
  BY <1>4, <1>5 DEF Embedded
<1> QED
  BY <1>6, TotalEmbedded

\* Where no new name was taken, what is moved counts as before.
LEMMA RenamedKeeps ==
    ASSUME NEW f, Summable(f), NEW moved, NEW from, NEW to, Movable(f, moved, from, to),
           (DOMAIN f \ moved) \cap NewNames(f, moved, from, to) = {},
           NEW g, Renamed(g, f, moved, from, to)
    PROVE  /\ Summable(g) /\ Total(g) = Total(f)
           /\ Cardinality(DOMAIN g) = Cardinality(DOMAIN f)
<1> DEFINE N == NewNames(f, moved, from, to)
           m == [p \in DOMAIN f |-> IF p \in moved THEN Moved(p, from, to) ELSE p]
<1>1. /\ DOMAIN g = (DOMAIN f \ moved) \cup N
      /\ \A p \in moved \cap DOMAIN f : g[Moved(p, from, to)] = f[p]
      /\ \A n \in DOMAIN f \ moved : n \notin N => g[n] = f[n]
  BY DEF Renamed
<1>2. \A p \in moved \cap DOMAIN f : m[p] = Moved(p, from, to) /\ m[p] \in N
  BY DEF NewNames
<1>3. \A p \in DOMAIN f \ moved : m[p] = p /\ p \notin N
  OBVIOUS
<1>4. \A n \in N : \E p \in moved \cap DOMAIN f : n = m[p]
  BY <1>2 DEF NewNames
<1>5. ASSUME NEW p \in DOMAIN f, NEW q \in DOMAIN f, m[p] = m[q] PROVE p = q
  <2>1. CASE p \in moved /\ q \in moved
    <3>1. Moved(p, from, to) = Moved(q, from, to)
      BY <2>1, <1>5, <1>2
    <3> QED
      BY <3>1, <2>1, MovedOnce DEF Movable
  <2>2. CASE p \in moved /\ q \notin moved
    <3> HIDE DEF m, N
    <3> QED
      BY <2>2, <1>2, <1>3, <1>5
  <2>3. CASE p \notin moved /\ q \in moved
    <3> HIDE DEF m, N
    <3> QED
      BY <2>3, <1>2, <1>3, <1>5
  <2>4. CASE p \notin moved /\ q \notin moved
    <3> HIDE DEF m, N
    <3> QED
      BY <2>4, <1>3, <1>5
  <2> QED
    BY <2>1, <2>2, <2>3, <2>4
<1>6. m \in [DOMAIN f -> DOMAIN g]
  <2>1. \A p \in DOMAIN f : m[p] \in DOMAIN g
    <3> HIDE DEF m, N
    <3> QED
      BY <1>1, <1>2, <1>3
  <2> QED
    BY <2>1
<1>7. \A p \in DOMAIN f : f[p] = g[m[p]]
  <2> HIDE DEF m, N
  <2> QED
    BY <1>1, <1>2, <1>3
<1> HIDE DEF m, N
<1>8. Summable(g) /\ Total(g) <= Total(f)
  BY RenamedEmbeds
<1>9. Embedded(f, g, m)
  BY <1>5, <1>6, <1>7, <1>8 DEF Embedded
<1>10. Total(f) <= Total(g) /\ Total(f) \in Nat /\ Total(g) \in Nat
  BY <1>8, <1>9, TotalEmbedded, TotalType
<1>11. m \in Bijection(DOMAIN f, DOMAIN g)
  <2>1. \A n \in DOMAIN g : \E p \in DOMAIN f : m[p] = n
    BY <1>1, <1>3, <1>4
  <2> QED
    BY <2>1, <1>5, <1>6 DEF Bijection, Injection, IsInjective, Surjection
<1>12. Cardinality(DOMAIN g) = Cardinality(DOMAIN f)
  BY <1>11, FS_Bijection DEF Summable, ExistsBijection
<1> QED
  BY <1>8, <1>10, <1>12

-----------------------------------------------------------------------------
(* The account of a workspace. *)

LEMMA PutTotal ==
    ASSUME NEW f, Summable(f), NEW k, NEW v \in Nat
    PROVE  /\ Summable(Put(f, k, v)) /\ Total(Put(f, k, v)) = Total(f) - Lookup(f, k) + v
           /\ Total(f) \in Nat /\ Lookup(f, k) \in Nat /\ Lookup(f, k) <= Total(f)
<1> DEFINE e == Put(f, k, v)
           d == Drop(f, k)
<1>1. DOMAIN e = DOMAIN f \cup {k} /\ e[k] = v /\ \A x \in DOMAIN f \ {k} : e[x] = f[x]
  BY DEF Put
<1>2. DOMAIN d = DOMAIN f \ {k} /\ \A x \in DOMAIN f \ {k} : d[x] = f[x]
  BY DEF Drop, Restrict
<1> HIDE DEF e, d
<1>3. Summable(e) /\ Total(e) + Share(f, k) = Total(f) + Share(e, k)
  BY <1>1, TotalChange
<1>4. Summable(d) /\ Total(d) + Share(f, k) = Total(f) + Share(d, k)
  BY <1>2, TotalChange
<1>5. Share(f, k) = Lookup(f, k) /\ Share(e, k) = v /\ Share(d, k) = 0 /\ Lookup(f, k) \in Nat
  BY <1>1, <1>2 DEF Share, Lookup, Summable
<1>6. Total(f) \in Nat /\ Total(e) \in Nat /\ Total(d) \in Nat
  BY <1>3, <1>4, TotalType
<1>7. Total(e) = Total(f) - Lookup(f, k) + v /\ Lookup(f, k) <= Total(f)
  <2> DEFINE a == Total(e)
             b == Total(f)
             c == Total(d)
             l == Lookup(f, k)
  <2>1. a + l = b + v /\ c + l = b + 0
    BY <1>3, <1>4, <1>5
  <2>2. a \in Nat /\ b \in Nat /\ c \in Nat /\ l \in Nat
    BY <1>5, <1>6
  <2>3. v \in Nat
    OBVIOUS
  <2> HIDE DEF a, b, c, l
  <2>4. a = b - l + v /\ l <= b
    BY ONLY <2>1, <2>2, <2>3
  <2> QED
    BY <2>4 DEF a, b, l
<1> QED
  BY <1>3, <1>5, <1>6, <1>7 DEF e

LEMMA DropTotal ==
    ASSUME NEW f, Summable(f), NEW k
    PROVE  Summable(Drop(f, k)) /\ Total(Drop(f, k)) = Total(f) - Lookup(f, k)
<1> DEFINE d == Drop(f, k)
<1>2. DOMAIN d = DOMAIN f \ {k} /\ \A x \in DOMAIN f \ {k} : d[x] = f[x]
  BY DEF Drop, Restrict
<1> HIDE DEF d
<1>4. Summable(d) /\ Total(d) + Share(f, k) = Total(f) + Share(d, k)
  BY <1>2, TotalChange
<1>5. Share(f, k) = Lookup(f, k) /\ Share(d, k) = 0 /\ Lookup(f, k) \in Nat
  BY <1>2 DEF Share, Lookup, Summable
<1>6. Total(f) \in Nat /\ Total(d) \in Nat
  BY <1>4, TotalType
<1> QED
  BY <1>4, <1>5, <1>6 DEF d

\* The tree on disk: files and directories are apart, and every one of them is
\* in directories up to the root.
Tree ==
    /\ dirs \subseteq Path /\ IsFiniteSet(dirs)
    /\ DOMAIN data \subseteq Path /\ Summable(data)
    /\ dirs \cap DOMAIN data = {}
    /\ \A p \in DOMAIN data : data[p] <= MaxFileBytes
    /\ \A p \in dirs \cup DOMAIN data : \A q \in Path : IsStrictPrefix(q, p) => q \in dirs

\* The limits are kept.
Limited ==
    /\ Cardinality(dirs \cup DOMAIN data) <= MaxFiles
    /\ Total(data) <= MaxBytes

\* The account of the entries.
Entries == entries = ScanEntries /\ files = Cardinality(DOMAIN entries)

\* The account of the sizes.  A directory that was written to, or a path that
\* was one then, may have a size in it; bytes has paid for all of them.
Sizes ==
    /\ Summable(sizes) /\ DOMAIN sizes \subseteq Path \cup {Root}
    /\ \A p \in DOMAIN data : p \in DOMAIN sizes /\ sizes[p] = data[p]
    /\ bytes \in Nat /\ Total(sizes) <= bytes
    /\ ~dirWritten => DOMAIN sizes = DOMAIN data /\ bytes = Total(data)

Handles ==
    /\ IsFiniteSet(DOMAIN handle)
    /\ HandlesNameFiles
    /\ closed => handle = <<>>

QuotaInv == Tree /\ Limited /\ Entries /\ Sizes /\ Handles

LEMMA EntriesAre ==
    ASSUME Entries
    PROVE  /\ DOMAIN entries = dirs \cup DOMAIN data
           /\ \A p \in DOMAIN entries : entries[p] = "dir" <=> p \in dirs
           /\ files = Cardinality(dirs \cup DOMAIN data)
  BY DEF Entries, ScanEntries

LEMMA TreeCount ==
    ASSUME Tree PROVE IsFiniteSet(dirs \cup DOMAIN data) /\ Cardinality(dirs \cup DOMAIN data) \in Nat
  BY FS_Union, FS_CardinalityType DEF Tree, Summable

\* What the files have is in the account.
LEMMA DataCharged ==
    ASSUME NEW d, NEW s, Summable(s), \A p \in DOMAIN d : p \in DOMAIN s /\ s[p] = d[p]
    PROVE  Summable(d) /\ Total(d) <= Total(s) /\ Total(d) \in Nat /\ Total(s) \in Nat
<1> DEFINE m == [p \in DOMAIN d |-> p]
<1>1. Embedded(d, s, m)
  BY DEF Embedded
<1> QED
  BY <1>1, TotalEmbedded, TotalType

LEMMA QuotaProperties == QuotaInv => WithinLimits /\ AccountExact
<1> SUFFICES ASSUME QuotaInv PROVE WithinLimits /\ AccountExact
  OBVIOUS
<1>1. WithinLimits
  BY DEF QuotaInv, Tree, Limited, WithinLimits, ScanAccepts
<1>2. Total(data) <= Total(sizes) /\ Total(data) \in Nat /\ Total(sizes) \in Nat
  BY DataCharged DEF QuotaInv, Sizes
<1>3. BytesExact
  BY <1>2 DEF QuotaInv, Sizes, BytesExact
<1>4. UsageCovers
  BY DEF QuotaInv, Sizes, Entries, UsageCovers
<1> QED
  BY <1>1, <1>3, <1>4 DEF AccountExact, QuotaInv, Handles

LEMMA QuotaInit == Init => QuotaInv
<1> SUFFICES ASSUME Init PROVE QuotaInv
  OBVIOUS
<1>0. DOMAIN <<>> = {} /\ IsFiniteSet({}) /\ Cardinality({}) = 0
  BY FS_EmptySet
<1>1. DOMAIN data = {} /\ DOMAIN sizes = {} /\ DOMAIN open = {} /\ DOMAIN handle = {} /\ dirs = {}
  BY <1>0 DEF Init
<1>2. Summable(data) /\ Summable(sizes)
  BY <1>0, <1>1 DEF Summable
<1>3. Total(data) = 0 /\ Total(sizes) = 0
  BY <1>1, <1>2, TotalType
<1>4. Tree /\ Limited
  BY <1>0, <1>1, <1>2, <1>3, QuotaAssumption DEF Tree, Limited
<1>5. Entries
  <2>1. ScanEntries = <<>>
    BY <1>0, <1>1 DEF ScanEntries
  <2> QED
    BY <2>1, <1>0 DEF Entries, Init
<1>6. Sizes
  BY <1>1, <1>2, <1>3 DEF Sizes, Init
<1>7. Handles
  <2>1. \A p : {h \in DOMAIN handle : handle[h].name = p} = {}
    BY <1>1
  <2> QED
    BY <2>1, <1>0, <1>1 DEF Handles, HandlesNameFiles, Lookup
<1> QED
  BY <1>4, <1>5, <1>6, <1>7 DEF QuotaInv

-----------------------------------------------------------------------------
(* Handles. *)

Named(p) == {h \in DOMAIN handle : handle[h].name = p}

LEMMA NamedIs ==
    ASSUME Handles, NEW p \in Path \cup {Root}
    PROVE  /\ IsFiniteSet(Named(p)) /\ Lookup(open, p) = Cardinality(Named(p))
           /\ Lookup(open, p) \in Nat /\ (Lookup(open, p) = 0 <=> Named(p) = {})
<1>1. IsFiniteSet(Named(p))
  BY FS_Subset DEF Handles, Named
<1>2. Lookup(open, p) = Cardinality(Named(p))
  BY DEF Handles, HandlesNameFiles, Named
<1> QED
  BY <1>1, <1>2, FS_CardinalityType, FS_EmptySet

\* A path at or below which no file is open is the name of no handle.
LEMMA NoneOpen ==
    ASSUME Handles, NEW p \in Path, ~ OpenAtOrBelow(p), NEW q \in Path \cup {Root}, IsPrefix(p, q)
    PROVE  Named(q) = {}
  BY NamedIs DEF OpenAtOrBelow, Lookup

\* The tree may change where no handle points.
LEMMA HandlesKept ==
    ASSUME Handles, UNCHANGED <<open, handle, closed>>,
           \A h \in DOMAIN handle : handle[h].name \in OnDisk'
    PROVE  Handles'
  BY DEF Handles, HandlesNameFiles

LEMMA HandlesOpened ==
    ASSUME Handles, ~closed, closed' = closed, NEW h, h \notin DOMAIN handle, NEW p \in Path \cup {Root},
           NEW b, OnDisk \subseteq OnDisk', p \in OnDisk',
           open' = Put(open, p, Lookup(open, p) + 1),
           handle' = Put(handle, h, [name |-> p, append |-> b])
    PROVE  Handles'
<1>1. /\ DOMAIN handle' = DOMAIN handle \cup {h} /\ handle'[h].name = p
      /\ \A k \in DOMAIN handle : handle'[k] = handle[k]
  BY DEF Put
<1>2. /\ DOMAIN open' = DOMAIN open \cup {p} /\ open'[p] = Lookup(open, p) + 1
      /\ \A q \in DOMAIN open \ {p} : open'[q] = open[q]
  BY DEF Put
<1>3. Named(p)' = Named(p) \cup {h} /\ h \notin Named(p)
  BY <1>1 DEF Named
<1>4. \A q : q # p => Named(q)' = Named(q)
  BY <1>1 DEF Named
<1>5. ASSUME NEW q \in Path \cup {Root} PROVE Lookup(open', q) = Cardinality(Named(q)')
  <2>1. CASE q = p
    <3>1. Cardinality(Named(p)') = Cardinality(Named(p)) + 1
      BY <1>3, NamedIs, FS_AddElement
    <3> QED
      BY <3>1, <2>1, <1>2, NamedIs DEF Lookup
  <2>2. CASE q # p
    BY <2>2, <1>2, <1>4, NamedIs DEF Lookup
  <2> QED
    BY <2>1, <2>2
<1>6. IsFiniteSet(DOMAIN handle')
  BY <1>1, FS_AddElement DEF Handles
<1>7. \A k \in DOMAIN handle' : handle'[k].name \in OnDisk'
  BY <1>1 DEF Handles, HandlesNameFiles
<1> QED
  BY <1>5, <1>6, <1>7 DEF Handles, HandlesNameFiles, Named

LEMMA OnDiskPaths == Tree => OnDisk \subseteq Path \cup {Root}
  BY DEF Tree, OnDisk

LEMMA HandlesClosed ==
    ASSUME Handles, Tree, UNCHANGED <<dirs, data, closed>>, NEW h \in DOMAIN handle, Close(h)
    PROVE  Handles'
<1>p. PICK p \in Path \cup {Root} : p = handle[h].name
  BY OnDiskPaths DEF Handles, HandlesNameFiles
<1>0. OnDisk' = OnDisk
  BY DEF OnDisk
<1>1. /\ DOMAIN handle' = DOMAIN handle \ {h}
      /\ \A k \in DOMAIN handle \ {h} : handle'[k] = handle[k]
  BY DEF Close, Drop, Restrict
<1>2. open' = IF Lookup(open, p) <= 1 THEN Drop(open, p) ELSE [open EXCEPT ![p] = @ - 1]
  BY <1>p DEF Close
<1>3. h \in Named(p) /\ Named(p)' = Named(p) \ {h}
  BY <1>p, <1>1 DEF Named
<1>4. \A q : q # p => Named(q)' = Named(q)
  BY <1>p, <1>1 DEF Named
<1>5. IsFiniteSet(Named(p)) /\ Lookup(open, p) = Cardinality(Named(p)) /\ Lookup(open, p) \in Nat
      /\ Lookup(open, p) # 0
  BY <1>3, NamedIs
<1>6. Cardinality(Named(p)') = Cardinality(Named(p)) - 1
  BY <1>3, <1>5, FS_RemoveElement
<1>7. ASSUME NEW q \in Path \cup {Root} PROVE Lookup(open', q) = Cardinality(Named(q)')
  <2>1. CASE Lookup(open, p) <= 1
    <3>1. DOMAIN open' = DOMAIN open \ {p} /\ \A x \in DOMAIN open \ {p} : open'[x] = open[x]
      BY <1>2, <2>1 DEF Drop, Restrict
    <3>2. Lookup(open', p) = 0 /\ (q # p => Lookup(open', q) = Lookup(open, q))
      BY <3>1 DEF Lookup
    <3> QED
      BY <3>2, <2>1, <1>4, <1>5, <1>6, NamedIs
  <2>2. CASE ~ (Lookup(open, p) <= 1)
    <3>1. p \in DOMAIN open
      BY <2>2 DEF Lookup
    <3>2. DOMAIN open' = DOMAIN open /\ open'[p] = open[p] - 1 /\ \A x \in DOMAIN open \ {p} : open'[x] = open[x]
      BY <1>2, <2>2, <3>1
    <3>3. Lookup(open', p) = Lookup(open, p) - 1 /\ (q # p => Lookup(open', q) = Lookup(open, q))
      BY <3>1, <3>2 DEF Lookup
    <3> QED
      BY <3>3, <1>4, <1>5, <1>6, NamedIs
  <2> QED
    BY <2>1, <2>2
<1>8. IsFiniteSet(DOMAIN handle')
  BY <1>1, FS_RemoveElement DEF Handles
<1>9. \A k \in DOMAIN handle' : handle'[k].name \in OnDisk'
  BY <1>0, <1>1 DEF Handles, HandlesNameFiles
<1>10. closed => FALSE
  <2>1. DOMAIN <<>> = {}
    OBVIOUS
  <2> QED
    BY <2>1 DEF Handles
<1> QED
  BY <1>7, <1>8, <1>9, <1>10 DEF Handles, HandlesNameFiles, Named

LEMMA HandlesAppend ==
    ASSUME Handles, UNCHANGED <<dirs, data, closed>>, NEW h \in DOMAIN handle, NEW b, SetAppend(h, b)
    PROVE  Handles'
<1>1. /\ DOMAIN handle' = DOMAIN handle /\ open' = open
      /\ \A k \in DOMAIN handle : handle'[k].name = handle[k].name
  BY DEF SetAppend
<1>2. OnDisk' = OnDisk
  BY DEF OnDisk
<1>3. \A p : Named(p)' = Named(p)
  BY <1>1 DEF Named
<1>4. closed => FALSE
  <2>1. DOMAIN <<>> = {}
    OBVIOUS
  <2> QED
    BY <2>1 DEF Handles
<1> QED
  BY <1>1, <1>2, <1>3, <1>4 DEF Handles, HandlesNameFiles, Named

-----------------------------------------------------------------------------
(* Each operation keeps the account. *)

LEMMA StepRelease == QuotaInv /\ Release => QuotaInv'
<1> SUFFICES ASSUME QuotaInv, Release PROVE QuotaInv'
  OBVIOUS
<1>1. UNCHANGED <<dirs, data, entries, sizes, files, bytes, open, handle, dirWritten>> /\ handle = <<>>
  BY DEF Release, diskVars, usageVars, openVars
<1>2. Tree' /\ Limited'
  BY <1>1 DEF QuotaInv, Tree, Limited
<1>3. Entries' /\ Sizes'
  BY <1>1 DEF QuotaInv, Entries, ScanEntries, Sizes
<1>4. Handles'
  BY <1>1 DEF QuotaInv, Handles, HandlesNameFiles, OnDisk
<1> QED
  BY <1>2, <1>3, <1>4 DEF QuotaInv

LEMMA StepAcquire == QuotaInv /\ Acquire => QuotaInv'
<1> SUFFICES ASSUME QuotaInv, Acquire PROVE QuotaInv'
  OBVIOUS
<1>1. /\ UNCHANGED <<dirs, data, handle>> /\ handle = <<>> /\ open' = <<>> /\ ~dirWritten' /\ ~closed'
      /\ entries' = ScanEntries /\ sizes' = data
      /\ files' = Cardinality(dirs \cup DOMAIN data) /\ bytes' = Total(data)
  BY DEF Acquire, Scanned, diskVars, QuotaInv, Handles
<1>2. Tree' /\ Limited'
  BY <1>1 DEF QuotaInv, Tree, Limited
<1>3. Entries'
  BY <1>1 DEF Entries, ScanEntries
<1>4. Sizes'
  <2>1. Summable(data) /\ DOMAIN data \subseteq Path
    BY DEF QuotaInv, Tree
  <2>2. Total(data) \in Nat
    BY <2>1, TotalType
  <2>3. Total(data) <= Total(data)
    BY <2>2
  <2>4. Total(data') = Total(data) /\ Total(sizes') = Total(data)
    BY <1>1
  <2> QED
    BY <1>1, <2>1, <2>2, <2>3, <2>4 DEF Sizes
<1>5. Handles'
  <2>1. DOMAIN handle = {} /\ DOMAIN open' = {} /\ DOMAIN handle' = {}
    BY <1>1
  <2>2. \A p : {h \in DOMAIN handle' : handle'[h].name = p} = {}
    BY <2>1
  <2> QED
    BY <1>1, <2>1, <2>2, FS_EmptySet DEF Handles, HandlesNameFiles, Lookup
<1> QED
  BY <1>2, <1>3, <1>4, <1>5 DEF QuotaInv

LEMMA StepHandle ==
    ASSUME QuotaInv, NEW h \in Handle, Close(h) \/ \E b \in BOOLEAN : SetAppend(h, b)
    PROVE  QuotaInv'
<1>1. /\ UNCHANGED <<dirs, data, entries, sizes, files, bytes, dirWritten, closed>> /\ h \in DOMAIN handle
  BY DEF Close, SetAppend, diskVars, usageVars
<1>2. Tree' /\ Limited'
  BY <1>1 DEF QuotaInv, Tree, Limited
<1>3. Entries' /\ Sizes'
  BY <1>1 DEF QuotaInv, Entries, ScanEntries, Sizes
<1>4. Handles'
  BY <1>1, HandlesClosed, HandlesAppend DEF QuotaInv
<1> QED
  BY <1>2, <1>3, <1>4 DEF QuotaInv

LEMMA StepMkdir == ASSUME QuotaInv, NEW p \in Path, Mkdir(p) PROVE QuotaInv'
<1>1. /\ dirs' = dirs \cup {p} /\ entries' = Put(entries, p, "dir") /\ files' = files + 1
      /\ UNCHANGED <<data, sizes, bytes, open, handle, closed, dirWritten>>
      /\ p \notin OnDisk /\ files < MaxFiles
  BY DEF Mkdir, openVars
<1>2. \A q \in Path : IsStrictPrefix(q, p) => q \in dirs
  BY ComponentsAre DEF Mkdir
<1>3. /\ DOMAIN entries = dirs \cup DOMAIN data
      /\ \A q \in DOMAIN entries : entries[q] = "dir" <=> q \in dirs
      /\ files = Cardinality(dirs \cup DOMAIN data)
  BY EntriesAre DEF QuotaInv
<1>4. IsFiniteSet(dirs \cup DOMAIN data) /\ Cardinality(dirs \cup DOMAIN data) \in Nat
  BY TreeCount DEF QuotaInv
<1>5. p \notin dirs \cup DOMAIN data /\ dirs' \cup DOMAIN data' = (dirs \cup DOMAIN data) \cup {p}
  BY <1>1 DEF OnDisk
<1>6. Cardinality(dirs' \cup DOMAIN data') = files + 1
  BY <1>3, <1>4, <1>5, FS_AddElement, ZenonT(60)
<1>7. Tree'
  <2>1. IsFiniteSet(dirs')
    BY <1>1, FS_AddElement DEF QuotaInv, Tree
  <2> QED
    BY <2>1, <1>1, <1>2, <1>5 DEF QuotaInv, Tree
<1>8. Limited'
  BY <1>1, <1>3, <1>4, <1>6, QuotaAssumption DEF QuotaInv, Limited
<1>9. Entries'
  <2>1. entries' = ScanEntries'
    BY <1>1, <1>5 DEF QuotaInv, Entries, ScanEntries, Put
  <2>2. DOMAIN entries' = dirs' \cup DOMAIN data'
    BY <2>1 DEF ScanEntries
  <2> QED
    BY <2>1, <2>2, <1>1, <1>6 DEF Entries
<1>10. Sizes'
  BY <1>1 DEF QuotaInv, Sizes
<1>11. Handles'
  <2>1. OnDisk \subseteq OnDisk'
    BY <1>1 DEF OnDisk
  <2> QED
    BY <2>1, <1>1, HandlesKept DEF QuotaInv, Handles, HandlesNameFiles
<1> QED
  BY <1>7, <1>8, <1>9, <1>10, <1>11 DEF QuotaInv

LEMMA StepRmdir == ASSUME QuotaInv, NEW p \in Path, Rmdir(p) PROVE QuotaInv'
<1>1. /\ dirs' = dirs \ {p} /\ entries' = Drop(entries, p) /\ files' = files - 1
      /\ UNCHANGED <<data, sizes, bytes, open, handle, closed, dirWritten>>
      /\ p \in DOMAIN entries /\ entries[p] = "dir" /\ ~ OpenAtOrBelow(p)
      /\ \A q \in OnDisk : ~ IsStrictPrefix(p, q)
  BY DEF Rmdir, openVars
<1>3. /\ DOMAIN entries = dirs \cup DOMAIN data
      /\ \A q \in DOMAIN entries : entries[q] = "dir" <=> q \in dirs
      /\ files = Cardinality(dirs \cup DOMAIN data)
  BY EntriesAre DEF QuotaInv
<1>4. IsFiniteSet(dirs \cup DOMAIN data) /\ Cardinality(dirs \cup DOMAIN data) \in Nat
  BY TreeCount DEF QuotaInv
<1>5. p \in dirs /\ p \notin DOMAIN data /\ dirs' \cup DOMAIN data' = (dirs \cup DOMAIN data) \ {p}
  BY <1>1, <1>3 DEF QuotaInv, Tree
<1>6. Cardinality(dirs' \cup DOMAIN data') = files - 1
  BY <1>3, <1>4, <1>5, FS_RemoveElement
<1>7. Tree'
  <2>1. IsFiniteSet(dirs')
    BY <1>1, FS_RemoveElement DEF QuotaInv, Tree
  <2> QED
    BY <2>1, <1>1, <1>5 DEF QuotaInv, Tree, OnDisk
<1>8. Limited'
  BY <1>1, <1>3, <1>4, <1>6, QuotaAssumption DEF QuotaInv, Limited
<1>9. Entries'
  <2>1. entries' = ScanEntries'
    BY <1>1, <1>5 DEF QuotaInv, Entries, ScanEntries, Drop, Restrict
  <2>2. DOMAIN entries' = dirs' \cup DOMAIN data'
    BY <2>1 DEF ScanEntries
  <2> QED
    BY <2>1, <2>2, <1>1, <1>6 DEF Entries
<1>10. Sizes'
  BY <1>1 DEF QuotaInv, Sizes
<1>11. Handles'
  <2>1. OnDisk' = OnDisk \ {p}
    BY <1>1, <1>5, PathSeq DEF OnDisk
  <2>2. Named(p) = {}
    <3>1. IsPrefix(p, p)
      BY PathSeq, PrefixOrder
    <3> QED
      BY <3>1, <1>1, NoneOpen DEF QuotaInv
  <2> QED
    BY <2>1, <2>2, <1>1, HandlesKept DEF QuotaInv, Handles, HandlesNameFiles, Named
<1> QED
  BY <1>7, <1>8, <1>9, <1>10, <1>11 DEF QuotaInv

LEMMA StepUnlink == ASSUME QuotaInv, NEW p \in Path, Unlink(p) PROVE QuotaInv'
<1>1. /\ data' = Drop(data, p) /\ entries' = Drop(entries, p) /\ files' = files - 1
      /\ bytes' = bytes - Lookup(sizes, p) /\ sizes' = Drop(sizes, p)
      /\ UNCHANGED <<dirs, open, handle, closed, dirWritten>>
      /\ p \in DOMAIN entries /\ entries[p] = "file" /\ Lookup(open, p) = 0
  BY DEF Unlink, openVars
<1>3. /\ DOMAIN entries = dirs \cup DOMAIN data
      /\ \A q \in DOMAIN entries : entries[q] = "dir" <=> q \in dirs
      /\ files = Cardinality(dirs \cup DOMAIN data)
  BY EntriesAre DEF QuotaInv
<1>4. IsFiniteSet(dirs \cup DOMAIN data) /\ Cardinality(dirs \cup DOMAIN data) \in Nat
  BY TreeCount DEF QuotaInv
<1>2. DOMAIN data' = DOMAIN data \ {p} /\ \A q \in DOMAIN data' : data'[q] = data[q]
  BY <1>1 DEF Drop, Restrict
<1>5. p \notin dirs /\ p \in DOMAIN data /\ dirs' \cup DOMAIN data' = (dirs \cup DOMAIN data) \ {p}
  BY <1>1, <1>2, <1>3 DEF QuotaInv, Tree
<1>6. Cardinality(dirs' \cup DOMAIN data') = files - 1
  BY <1>3, <1>4, <1>5, FS_RemoveElement
<1>12. Summable(data') /\ Total(data') = Total(data) - data[p] /\ Total(data) \in Nat /\ data[p] \in Nat
  <2>1. Summable(data) /\ Lookup(data, p) = data[p] /\ data[p] \in Nat
    BY <1>5 DEF QuotaInv, Tree, Lookup, Summable
  <2> QED
    BY <2>1, <1>1, DropTotal, TotalType
<1>7. Tree'
  BY <1>1, <1>2, <1>5, <1>12 DEF QuotaInv, Tree
<1>8. Limited'
  BY <1>1, <1>3, <1>4, <1>6, <1>12, QuotaAssumption DEF QuotaInv, Limited
<1>9. Entries'
  <2>1. entries' = ScanEntries'
    BY <1>1, <1>5 DEF QuotaInv, Entries, ScanEntries, Drop, Restrict
  <2>2. DOMAIN entries' = dirs' \cup DOMAIN data'
    BY <2>1 DEF ScanEntries
  <2> QED
    BY <2>1, <2>2, <1>1, <1>6 DEF Entries
<1>10. Sizes'
  <2>1. Lookup(sizes, p) = data[p] /\ Summable(sizes) /\ Total(sizes) <= bytes /\ bytes \in Nat
    BY <1>5 DEF QuotaInv, Sizes, Lookup
  <2>2. Summable(sizes') /\ Total(sizes') = Total(sizes) - data[p] /\ Total(sizes) \in Nat /\ Total(sizes') \in Nat
    BY <2>1, <1>1, DropTotal, TotalType
  <2>3. DOMAIN sizes' = DOMAIN sizes \ {p} /\ \A q \in DOMAIN sizes' : sizes'[q] = sizes[q]
    BY <1>1 DEF Drop, Restrict
  <2>4. bytes' = bytes - data[p] /\ bytes' \in Nat /\ Total(sizes') <= bytes'
    BY <2>1, <2>2, <1>1, <1>12
  <2> QED
    BY <2>1, <2>2, <2>3, <2>4, <1>1, <1>2, <1>12 DEF QuotaInv, Sizes
<1>11. Handles'
  <2>1. OnDisk' = OnDisk \ {p}
    BY <1>1, <1>2, <1>5, PathSeq DEF OnDisk
  <2>2. Named(p) = {}
    BY <1>1, NamedIs DEF QuotaInv
  <2> QED
    BY <2>1, <2>2, <1>1, HandlesKept DEF QuotaInv, Handles, HandlesNameFiles, Named
<1> QED
  BY <1>7, <1>8, <1>9, <1>10, <1>11 DEF QuotaInv

\* The file at p gets the size v, and its account as well.  What bytes gets back
\* is what the account had for the file.
LEMMA FileResized ==
    ASSUME QuotaInv, NEW p \in DOMAIN data, NEW v \in Nat, v <= MaxFileBytes,
           DOMAIN data' = DOMAIN data, data'[p] = v, \A q \in DOMAIN data \ {p} : data'[q] = data[q],
           sizes' = Put(sizes, p, v),
           bytes' = bytes - Lookup(sizes, p) + v, v <= data[p] \/ bytes' <= MaxBytes,
           UNCHANGED <<dirs, entries, files>>, dirWritten => dirWritten'
    PROVE  (Tree /\ Limited /\ Entries /\ Sizes)'
<1>1. Summable(data) /\ Summable(sizes) /\ Lookup(sizes, p) = data[p] /\ Lookup(data, p) = data[p]
      /\ data[p] \in Nat /\ bytes \in Nat /\ Total(sizes) <= bytes /\ p \in Path
  BY DEF QuotaInv, Tree, Sizes, Lookup, Summable
<1>2. DOMAIN data' = DOMAIN data /\ data'[p] = v /\ \A q \in DOMAIN data \ {p} : data'[q] = data[q]
  OBVIOUS
<1>3. DOMAIN sizes' = DOMAIN sizes \cup {p} /\ sizes'[p] = v /\ \A q \in DOMAIN sizes \ {p} : sizes'[q] = sizes[q]
  BY DEF Put
<1>4. Summable(sizes') /\ Total(sizes') = Total(sizes) - data[p] + v /\ Total(sizes) \in Nat
      /\ data[p] <= Total(sizes)
  BY <1>1, PutTotal
<1>5. Summable(data') /\ Total(data') = Total(data) - data[p] + v /\ Total(data) \in Nat
  <2>1. Summable(data') /\ Total(data') + Share(data, p) = Total(data) + Share(data', p)
    BY <1>1, <1>2, TotalChange
  <2>2. Share(data, p) = data[p] /\ Share(data', p) = v
    BY <1>2 DEF Share
  <2>3. Total(data) \in Nat /\ Total(data') \in Nat
    BY <1>1, <2>1, TotalType
  <2> QED
    BY <2>1, <2>2, <2>3, <1>1
<1>6. Tree'
  BY <1>2, <1>5 DEF QuotaInv, Tree
<1>7. bytes' \in Nat /\ Total(sizes') <= bytes'
  BY <1>1, <1>4
<1>8. Sizes'
  <2>1. \A q \in DOMAIN data' : q \in DOMAIN sizes' /\ sizes'[q] = data'[q]
    BY <1>2, <1>3 DEF QuotaInv, Sizes
  <2>2. ~dirWritten' => DOMAIN sizes' = DOMAIN data' /\ bytes' = Total(data')
    BY <1>1, <1>2, <1>3, <1>5 DEF QuotaInv, Sizes
  <2>3. DOMAIN sizes' \subseteq Path \cup {Root}
    BY <1>1, <1>3 DEF QuotaInv, Sizes
  <2> QED
    BY <2>1, <2>2, <2>3, <1>4, <1>7 DEF Sizes
<1>9. Total(data') <= Total(sizes') /\ Total(data') \in Nat /\ Total(sizes') \in Nat
  BY <1>8, DataCharged DEF Sizes
<1>10. Limited'
  <2>1. Total(data') <= MaxBytes
    BY <1>1, <1>5, <1>7, <1>9, QuotaAssumption DEF QuotaInv, Limited
  <2> QED
    BY <2>1, <1>2 DEF QuotaInv, Limited
<1>11. Entries'
  BY <1>2 DEF QuotaInv, Entries, ScanEntries
<1> QED
  BY <1>6, <1>8, <1>10, <1>11

\* A new file, which the account may have an old size for.
LEMMA FileCreated ==
    ASSUME QuotaInv, NEW p \in Path, p \notin OnDisk, files < MaxFiles,
           \A q \in Path : IsStrictPrefix(q, p) => q \in dirs,
           data' = Put(data, p, 0), entries' = Put(entries, p, "file"), files' = files + 1,
           sizes' = Put(sizes, p, 0), UNCHANGED <<dirs, bytes, dirWritten>>
    PROVE  (Tree /\ Limited /\ Entries /\ Sizes)'
<1>1. /\ DOMAIN entries = dirs \cup DOMAIN data
      /\ \A q \in DOMAIN entries : entries[q] = "dir" <=> q \in dirs
      /\ files = Cardinality(dirs \cup DOMAIN data)
  BY EntriesAre DEF QuotaInv
<1>2. IsFiniteSet(dirs \cup DOMAIN data) /\ Cardinality(dirs \cup DOMAIN data) \in Nat
  BY TreeCount DEF QuotaInv
<1>3. DOMAIN data' = DOMAIN data \cup {p} /\ data'[p] = 0 /\ \A q \in DOMAIN data : data'[q] = data[q]
  BY DEF Put, OnDisk
<1>4. DOMAIN sizes' = DOMAIN sizes \cup {p} /\ sizes'[p] = 0 /\ \A q \in DOMAIN sizes \ {p} : sizes'[q] = sizes[q]
  BY DEF Put
<1>5. p \notin dirs \cup DOMAIN data /\ dirs' \cup DOMAIN data' = (dirs \cup DOMAIN data) \cup {p}
  BY <1>3 DEF OnDisk
<1>6. Cardinality(dirs' \cup DOMAIN data') = files + 1
  BY <1>1, <1>2, <1>5, FS_AddElement
<1>7. Summable(data') /\ Total(data') = Total(data) /\ Total(data) \in Nat
  <2>1. Lookup(data, p) = 0 /\ Summable(data)
    BY <1>5 DEF Lookup, QuotaInv, Tree
  <2> QED
    BY <2>1, PutTotal
<1>8. Summable(sizes') /\ Total(sizes') <= Total(sizes) /\ Total(sizes') \in Nat
  <2>1. Summable(sizes)
    BY DEF QuotaInv, Sizes
  <2> QED
    BY <2>1, PutTotal, TotalType
<1>9. Tree'
  BY <1>3, <1>5, <1>7, QuotaAssumption DEF QuotaInv, Tree
<1>10. Limited'
  BY <1>1, <1>2, <1>6, <1>7, QuotaAssumption DEF QuotaInv, Limited
<1>11. Entries'
  <2>1. entries' = ScanEntries'
    BY <1>3, <1>5 DEF QuotaInv, Entries, ScanEntries, Put
  <2>2. DOMAIN entries' = dirs' \cup DOMAIN data'
    BY <2>1 DEF ScanEntries
  <2> QED
    BY <2>1, <2>2, <1>6 DEF Entries
<1>12. Sizes'
  <2>1. \A q \in DOMAIN data' : q \in DOMAIN sizes' /\ sizes'[q] = data'[q]
    BY <1>3, <1>4, <1>5 DEF QuotaInv, Sizes
  <2>2. ~dirWritten' => DOMAIN sizes' = DOMAIN data' /\ bytes' = Total(data')
    BY <1>3, <1>4, <1>7 DEF QuotaInv, Sizes
  <2>3. DOMAIN sizes' \subseteq Path \cup {Root}
    BY <1>4 DEF QuotaInv, Sizes
  <2>4. bytes' \in Nat /\ Total(sizes') <= bytes'
    <3>1. Total(sizes) \in Nat /\ bytes \in Nat /\ Total(sizes) <= bytes
      BY TotalType DEF QuotaInv, Sizes
    <3> QED
      BY <3>1, <1>8
  <2> QED
    BY <2>1, <2>2, <2>3, <2>4, <1>8 DEF Sizes
<1> QED
  BY <1>9, <1>10, <1>11, <1>12

LEMMA StepOpenFile ==
    ASSUME QuotaInv, NEW h \in Handle, NEW p \in Path \cup {Root},
           NEW creating \in BOOLEAN, NEW trunc \in BOOLEAN, NEW append \in BOOLEAN,
           OpenFile(h, p, creating, trunc, append)
    PROVE  QuotaInv'
<1> DEFINE exists == p = Root \/ p \in DOMAIN entries
<1>1. /\ h \notin DOMAIN handle /\ ~closed /\ closed' = closed /\ dirs' = dirs /\ dirWritten' = dirWritten
      /\ ValidComponents(p, creating) /\ (exists <=> p \in OnDisk)
      /\ ~exists => files < MaxFiles
      /\ (creating \/ trunc) => p \notin dirs \cup {Root}
      /\ data' = IF ~exists \/ trunc THEN Put(data, p, 0) ELSE data
      /\ entries' = IF exists THEN entries ELSE Put(entries, p, "file")
      /\ files' = IF exists THEN files ELSE files + 1
      /\ trunc => bytes' = bytes - (IF exists THEN Lookup(sizes, p) ELSE 0) /\ sizes' = Put(sizes, p, 0)
      /\ ~trunc => bytes' = bytes /\ sizes' = IF exists THEN sizes ELSE Put(sizes, p, 0)
      /\ open' = Put(open, p, Lookup(open, p) + 1)
      /\ handle' = Put(handle, h, [name |-> p, append |-> append])
  BY DEF OpenFile, TruncateAccount
<1> HIDE DEF exists
<1>2. (Tree /\ Limited /\ Entries /\ Sizes)' /\ OnDisk \subseteq OnDisk' /\ p \in OnDisk'
  <2>1. CASE ~exists
    <3>1. p \in Path /\ p \notin OnDisk /\ bytes \in Nat
      BY <2>1, <1>1 DEF exists, QuotaInv, Sizes
    <3>2. \A q \in Path : IsStrictPrefix(q, p) => q \in dirs
      BY <3>1, <1>1, ComponentsAre
    <3>3. /\ data' = Put(data, p, 0) /\ entries' = Put(entries, p, "file") /\ files' = files + 1
          /\ sizes' = Put(sizes, p, 0) /\ UNCHANGED <<dirs, bytes, dirWritten>>
      BY <2>1, <3>1, <1>1
    <3>4. OnDisk \subseteq OnDisk' /\ p \in OnDisk'
      BY <3>3 DEF OnDisk, Put
    <3> QED
      BY <2>1, <3>1, <3>2, <3>3, <3>4, <1>1, FileCreated
  <2>2. CASE exists /\ trunc
    <3>1. p \in DOMAIN data
      BY <2>2, <1>1 DEF OnDisk
    <3>2. DOMAIN data' = DOMAIN data /\ data'[p] = 0 /\ \A q \in DOMAIN data \ {p} : data'[q] = data[q]
      BY <2>2, <3>1, <1>1 DEF Put
    <3>5. bytes \in Nat /\ Lookup(sizes, p) \in Nat /\ data[p] \in Nat
      BY <3>1 DEF QuotaInv, Sizes, Lookup, Tree, Summable
    <3>3. /\ UNCHANGED <<dirs, entries, files, dirWritten>> /\ sizes' = Put(sizes, p, 0)
          /\ bytes' = bytes - Lookup(sizes, p) + 0
      BY <2>2, <1>1, <3>5
    <3>4. OnDisk \subseteq OnDisk' /\ p \in OnDisk'
      BY <3>1, <3>2, <3>3 DEF OnDisk
    <3>6. 0 \in Nat /\ 0 <= MaxFileBytes /\ 0 <= data[p]
      BY <3>5, QuotaAssumption
    <3> QED
      BY <3>1, <3>2, <3>3, <3>4, <3>6, FileResized
  <2>3. CASE exists /\ ~trunc
    <3>1. UNCHANGED <<dirs, data, entries, files, sizes, bytes, dirWritten>>
      BY <2>3, <1>1
    <3>2. OnDisk' = OnDisk /\ p \in OnDisk
      BY <2>3, <3>1, <1>1 DEF OnDisk
    <3> QED
      BY <3>1, <3>2 DEF QuotaInv, Tree, Limited, Entries, ScanEntries, Sizes
  <2> QED
    BY <2>1, <2>2, <2>3
<1>3. Handles'
  BY <1>1, <1>2, HandlesOpened DEF QuotaInv
<1> QED
  BY <1>2, <1>3 DEF QuotaInv

LEMMA StepTruncate ==
    ASSUME QuotaInv, NEW h \in Handle, NEW size \in 0 .. MaxFileBytes, Truncate(h, size)
    PROVE  QuotaInv'
<1>0. PICK p : p = handle[h].name
  OBVIOUS
<1>1. /\ size <= Lookup(sizes, p) /\ p \in DOMAIN data /\ DOMAIN data' = DOMAIN data
      /\ data'[p] = size /\ \A q \in DOMAIN data \ {p} : data'[q] = data[q]
      /\ bytes' = bytes - (Lookup(sizes, p) - size) /\ sizes' = Put(sizes, p, size)
      /\ UNCHANGED <<dirs, entries, files, open, handle, closed, dirWritten>>
  BY <1>0 DEF Truncate, openVars
<1>2. size \in Nat /\ size <= MaxFileBytes /\ bytes \in Nat /\ Lookup(sizes, p) = data[p] /\ data[p] \in Nat
  BY <1>1, QuotaAssumption DEF QuotaInv, Sizes, Tree, Summable, Lookup
<1>3. bytes' = bytes - Lookup(sizes, p) + size
  BY <1>1, <1>2
<1>4. (Tree /\ Limited /\ Entries /\ Sizes)'
  BY <1>1, <1>2, <1>3, FileResized
<1>5. OnDisk' = OnDisk
  BY <1>1 DEF OnDisk
<1>6. Handles'
  BY <1>1, <1>5, HandlesKept DEF QuotaInv, Handles, HandlesNameFiles
<1> QED
  BY <1>4, <1>6 DEF QuotaInv

LEMMA MaxIs ==
    ASSUME NEW a \in Nat, NEW b \in Nat
    PROVE  Max({a, b}) = IF a >= b THEN a ELSE b
  BY DEF Max

\* A write to an open file or directory, at most where room was taken for it.
LEMMA StepWriteBytes ==
    ASSUME QuotaInv, ~StatMayFail, NEW h \in DOMAIN handle, NEW offset \in Nat, NEW at \in Nat,
           NEW len \in Nat, NEW n \in Nat, at + n <= offset + len \/ handle[h].name \notin DOMAIN data,
           WriteBytes(h, offset, at, len, n)
    PROVE  QuotaInv'
<1>0. PICK p : p = handle[h].name
  OBVIOUS
<1> DEFINE current == Lookup(sizes, p)
           end     == offset + len
<1>a. PICK actual : /\ actual = IF p \in DOMAIN data THEN data'[p] ELSE DirSize
                    /\ Reconcile(p, Max({current, end}), actual)
  BY <1>0 DEF WriteBytes
<1>1. /\ offset <= current /\ Reservable(p, end) /\ (n > 0 => p \in DOMAIN data)
      /\ data' = IF n > 0 THEN [data EXCEPT ![p] = Max({@, at + n})] ELSE data
      /\ dirWritten' = (dirWritten \/ p \notin DOMAIN data)
      /\ UNCHANGED <<dirs, entries, files, open, handle, closed>>
  BY <1>0 DEF WriteBytes, openVars
<1>2. bytes \in Nat /\ current \in Nat /\ end \in Nat /\ Max({current, end}) \in Nat
  <2>1. bytes \in Nat /\ current \in Nat /\ end \in Nat
    BY DEF QuotaInv, Sizes, Lookup, Summable
  <2> QED
    BY <2>1, MaxIs
<1>3. p \in Path \cup {Root} /\ p \in OnDisk
  BY <1>0, OnDiskPaths DEF QuotaInv, Handles, HandlesNameFiles
<1>4. OnDisk' = OnDisk /\ DOMAIN data' = DOMAIN data
  BY <1>1 DEF OnDisk
<1>5. Handles'
  BY <1>1, <1>4, HandlesKept DEF QuotaInv, Handles, HandlesNameFiles
<1>6. CASE p \in DOMAIN data
  <2> DEFINE v == IF n > 0 THEN Max({data[p], at + n}) ELSE data[p]
  <2>1. current = data[p] /\ data[p] \in Nat /\ data[p] <= MaxFileBytes /\ at + n <= end
    BY <1>6, <1>0 DEF QuotaInv, Tree, Sizes, Summable, Lookup
  <2>2. v \in Nat /\ v >= data[p] /\ (v = data[p] \/ v <= end)
    <3>1. at + n \in Nat
      OBVIOUS
    <3>2. n > 0 => v = IF data[p] >= at + n THEN data[p] ELSE at + n
      BY <3>1, <2>1, MaxIs
    <3> HIDE DEF v
    <3>3. ~(n > 0) => v = data[p]
      BY DEF v
    <3> QED
      BY <3>1, <3>2, <3>3, <2>1, <1>2
  <2>3. data'[p] = v /\ (\A q \in DOMAIN data \ {p} : data'[q] = data[q]) /\ actual = v
    <3>1. CASE n > 0
      BY <3>1, <1>1, <1>6, <1>a
    <3>2. CASE ~ (n > 0)
      BY <3>2, <1>1, <1>6, <1>a
    <3> QED
      BY <3>1, <3>2
  <2> HIDE DEF v, current, end
  <2>4. /\ sizes' = Put(sizes, p, v) /\ bytes' = bytes - current + v
    <3>1. sizes' = Put(sizes, p, v) /\ bytes' = (bytes + Max({current, end}) - current) + v - Max({current, end})
      BY <2>3, <1>a DEF Reconcile, current
    <3> QED
      BY <3>1, <2>2, <1>2
  <2>5. end <= current \/ (end <= MaxFileBytes /\ bytes <= MaxBytes /\ end - current <= MaxBytes - bytes)
    BY <1>1 DEF Reservable, current
  <2>6. v <= MaxFileBytes /\ (v <= data[p] \/ bytes' <= MaxBytes)
    BY <2>1, <2>2, <2>4, <2>5, <1>2, QuotaAssumption
  <2>7. dirWritten => dirWritten'
    BY <1>1
  <2>8. (Tree /\ Limited /\ Entries /\ Sizes)'
    BY <2>2, <2>3, <2>4, <2>6, <2>7, <1>1, <1>4, <1>6, FileResized DEF current
  <2> QED
    BY <2>8, <1>5 DEF QuotaInv
<1>7. CASE p \notin DOMAIN data
  <2> HIDE DEF current, end
  <2>1. data' = data /\ dirWritten' /\ actual = DirSize /\ DirSize \in Nat
    BY <1>1, <1>7, <1>a, QuotaAssumption
  <2>2. sizes' = Put(sizes, p, DirSize) /\ bytes' = bytes - current + DirSize
    <3>1. sizes' = Put(sizes, p, DirSize)
          /\ bytes' = (bytes + Max({current, end}) - current) + DirSize - Max({current, end})
      BY <2>1, <1>a DEF Reconcile, current
    <3> QED
      BY <3>1, <2>1, <1>2
  <2>3. Summable(sizes') /\ Total(sizes') = Total(sizes) - current + DirSize /\ Total(sizes) \in Nat
        /\ current <= Total(sizes)
    BY <2>1, <2>2, PutTotal DEF QuotaInv, Sizes, current
  <2>4. bytes' \in Nat /\ Total(sizes') <= bytes'
    BY <2>1, <2>2, <2>3, <1>2 DEF QuotaInv, Sizes
  <2>5. DOMAIN sizes' = DOMAIN sizes \cup {p} /\ \A q \in DOMAIN sizes \ {p} : sizes'[q] = sizes[q]
    BY <2>2 DEF Put
  <2>6. Sizes'
    BY <2>1, <2>3, <2>4, <2>5, <1>3, <1>7 DEF QuotaInv, Sizes
  <2>7. (Tree /\ Limited /\ Entries)'
    BY <2>1, <1>1 DEF QuotaInv, Tree, Limited, Entries, ScanEntries
  <2> QED
    BY <2>6, <2>7, <1>5 DEF QuotaInv
<1> QED
  BY <1>6, <1>7

LEMMA StepWrite ==
    ASSUME QuotaInv, ~StatMayFail, NEW h \in Handle, NEW offset \in 0 .. MaxFileBytes,
           NEW len \in 1 .. MaxLen, NEW n \in 0 .. len,
           Write(h, offset, len, n) \/ Pwrite(h, offset, len, n)
    PROVE  QuotaInv'
<1>1. h \in DOMAIN handle /\ offset \in Nat /\ len \in Nat /\ n \in Nat /\ n <= len
  BY QuotaAssumption DEF Write, Pwrite
<1>2. PICK p : p = handle[h].name
  OBVIOUS
<1>3. p \in DOMAIN data => Lookup(data, p) = Lookup(sizes, p)
  BY DEF QuotaInv, Sizes, Lookup
<1>4. Lookup(data, p) \in Nat /\ Lookup(sizes, p) \in Nat
  BY DEF QuotaInv, Sizes, Tree, Lookup, Summable
<1>5. CASE WriteBytes(h, offset, offset, len, n)
  BY <1>1, <1>5, StepWriteBytes
<1>6. CASE WriteBytes(h, Lookup(sizes, p), Lookup(data, p), len, n)
  BY <1>1, <1>2, <1>3, <1>4, <1>6, StepWriteBytes
<1> QED
  BY <1>2, <1>5, <1>6 DEF Write, Pwrite

\* What Rename moves, and that every new name is free.
LEMMA RenameMoves ==
    ASSUME QuotaInv, NEW from \in Path, NEW to \in Path, Rename(from, to),
           NEW moved, moved = {p \in dirs \cup DOMAIN data : IsPrefix(from, p)}
    PROVE  /\ \A p \in moved : Moved(p, from, to) \in Path \ (dirs \cup DOMAIN data)
           /\ \A p, q \in moved : Moved(p, from, to) = Moved(q, from, to) => p = q
           /\ dirs' = (dirs \ moved) \cup {Moved(p, from, to) : p \in moved \cap dirs}
           /\ Renamed(data', data, moved, from, to)
           /\ Renamed(entries', entries, moved, from, to)
           /\ Renamed(sizes', sizes, moved, from, to)
           /\ Movable(data, moved, from, to) /\ Movable(sizes, moved, from, to)
<1> DEFINE subdirs == [p \in dirs |-> TRUE]
           Below(S) == {p \in S : IsPrefix(from, p)}
<1>1. DOMAIN entries = dirs \cup DOMAIN data
  BY EntriesAre DEF QuotaInv
<1>2. /\ dirs \subseteq Path /\ DOMAIN data \subseteq Path /\ DOMAIN sizes \subseteq Seq(Name)
      /\ Path \subseteq Seq(Name)
  BY PathSeq DEF QuotaInv, Tree, Sizes
<1>3. /\ to \notin DOMAIN entries
      /\ \A p \in moved : Len(to) + Len(p) - Len(from) <= MaxDepth
      /\ dirs' = DOMAIN Rekey(subdirs, Below(dirs), from, to)
      /\ data' = Rekey(data, Below(DOMAIN data), from, to)
      /\ entries' = Rekey(entries, moved, from, to) /\ sizes' = Rekey(sizes, moved, from, to)
  BY <1>1 DEF Rename, ReplacementsClean, RekeyAccount
<1>4. ASSUME NEW q \in dirs \cup DOMAIN data PROVE ~ IsPrefix(to, q)
  <2>1. q # to /\ to \notin dirs
    BY <1>1, <1>3
  <2> QED
    BY <2>1 DEF QuotaInv, Tree, IsStrictPrefix
<1>5. ASSUME NEW p \in moved PROVE Moved(p, from, to) \in Path \ (dirs \cup DOMAIN data)
  <2>1. p \in Seq(Name) /\ from \in Seq(Name) /\ to \in Seq(Name) /\ IsPrefix(from, p)
    BY <1>2
  <2>2. /\ Moved(p, from, to) \in Seq(Name)
        /\ Len(Moved(p, from, to)) = Len(to) + Len(p) - Len(from)
        /\ IsPrefix(to, Moved(p, from, to))
    BY <2>1, MovedIs
  <2>3. Len(from) <= Len(p) /\ Len(from) \in Nat /\ Len(p) \in Nat /\ Len(to) \in 1 .. MaxDepth
    BY <2>1, PrefixIs, PathIs
  <2>4. Len(Moved(p, from, to)) \in 1 .. MaxDepth
    BY <2>2, <2>3, <1>3, QuotaAssumption
  <2>5. Moved(p, from, to) \in Path
    BY <2>2, <2>4, PathIs
  <2> QED
    BY <2>2, <2>5, <1>4
<1>6. ASSUME NEW p \in moved, NEW q \in moved, Moved(p, from, to) = Moved(q, from, to) PROVE p = q
  <2>1. p \in Seq(Name) /\ q \in Seq(Name) /\ from \in Seq(Name) /\ to \in Seq(Name)
        /\ IsPrefix(from, p) /\ IsPrefix(from, q)
    BY <1>2
  <2> QED
    BY <2>1, <1>6, MovedOnce
<1>7. ASSUME NEW f, DOMAIN f \subseteq Seq(Name), NEW S, \A p \in S : IsPrefix(from, p)
      PROVE  Movable(f, S, from, to)
  BY <1>2, <1>7 DEF Movable
<1>8. dirs' = (dirs \ moved) \cup {Moved(p, from, to) : p \in moved \cap dirs}
  <2>1. DOMAIN subdirs = dirs
    OBVIOUS
  <2> HIDE DEF subdirs
  <2>2. Movable(subdirs, Below(dirs), from, to)
    BY <1>2, <1>7, <2>1
  <2>3. Renamed(Rekey(subdirs, Below(dirs), from, to), subdirs, Below(dirs), from, to)
    BY <2>2, RekeyIs
  <2>4. dirs' = (dirs \ Below(dirs)) \cup NewNames(subdirs, Below(dirs), from, to)
    BY <2>1, <2>3, <1>3 DEF Renamed
  <2>5. NewNames(subdirs, Below(dirs), from, to) = {Moved(p, from, to) : p \in moved \cap dirs}
    BY <2>1 DEF NewNames
  <2> QED
    BY <2>4, <2>5
<1>9. Renamed(data', data, moved, from, to)
  <2>1. Movable(data, Below(DOMAIN data), from, to)
    BY <1>2, <1>7
  <2>2. Renamed(data', data, Below(DOMAIN data), from, to)
    BY <2>1, <1>3, RekeyIs
  <2>3. Below(DOMAIN data) \cap DOMAIN data = moved \cap DOMAIN data
        /\ DOMAIN data \ Below(DOMAIN data) = DOMAIN data \ moved
    OBVIOUS
  <2>4. NewNames(data, Below(DOMAIN data), from, to) = NewNames(data, moved, from, to)
    BY <2>3 DEF NewNames
  <2> HIDE DEF Below
  <2> QED
    BY <2>2, <2>3, <2>4 DEF Renamed
<1>10. Movable(data, moved, from, to) /\ Movable(sizes, moved, from, to) /\ Movable(entries, moved, from, to)
  BY <1>1, <1>2, <1>7
<1>11. Renamed(entries', entries, moved, from, to) /\ Renamed(sizes', sizes, moved, from, to)
  BY <1>3, <1>10, RekeyIs
<1> QED
  BY <1>5, <1>6, <1>8, <1>9, <1>10, <1>11

LEMMA StepRename == ASSUME QuotaInv, NEW from \in Path, NEW to \in Path, Rename(from, to) PROVE QuotaInv'
<1> DEFINE M(p) == Moved(p, from, to)
<1>0. PICK moved : moved = {p \in dirs \cup DOMAIN data : IsPrefix(from, p)}
  OBVIOUS
<1> DEFINE D == dirs \cup DOMAIN data
           N(S) == {Moved(p, from, to) : p \in moved \cap S}
<1>1. /\ \A p \in moved : M(p) \in Path \ D
      /\ \A p, q \in moved : M(p) = M(q) => p = q
      /\ dirs' = (dirs \ moved) \cup N(dirs)
      /\ Renamed(data', data, moved, from, to)
      /\ Renamed(entries', entries, moved, from, to)
      /\ Renamed(sizes', sizes, moved, from, to)
      /\ Movable(data, moved, from, to) /\ Movable(sizes, moved, from, to)
  BY <1>0, RenameMoves
<1>2. /\ UNCHANGED <<files, bytes, open, handle, closed, dirWritten>>
      /\ ValidComponents(to, TRUE) /\ ~ OpenAtOrBelow(from) /\ ~ IsPrefix(from, to)
  BY DEF Rename, openVars
<1>3. /\ DOMAIN entries = D /\ files = Cardinality(D)
      /\ \A p \in DOMAIN entries : entries[p] = IF p \in dirs THEN "dir" ELSE "file"
  BY DEF QuotaInv, Entries, ScanEntries
<1>4. /\ DOMAIN data' = (DOMAIN data \ moved) \cup N(DOMAIN data)
      /\ \A p \in moved \cap DOMAIN data : data'[M(p)] = data[p]
      /\ \A n \in DOMAIN data \ moved : data'[n] = data[n]
  <2>1. DOMAIN data' = (DOMAIN data \ moved) \cup N(DOMAIN data)
    BY <1>1 DEF Renamed, NewNames
  <2>2. \A n \in DOMAIN data : n \notin NewNames(data, moved, from, to)
    BY <1>1 DEF NewNames
  <2> QED
    BY <2>1, <2>2, <1>1 DEF Renamed
<1>5. /\ DOMAIN sizes' = (DOMAIN sizes \ moved) \cup N(DOMAIN sizes)
      /\ \A p \in moved \cap DOMAIN sizes : sizes'[M(p)] = sizes[p]
      /\ \A n \in (DOMAIN sizes \ moved) \cap DOMAIN data : sizes'[n] = sizes[n]
  <2>1. DOMAIN sizes' = (DOMAIN sizes \ moved) \cup N(DOMAIN sizes)
    BY <1>1 DEF Renamed, NewNames
  <2>2. \A n \in DOMAIN data : n \notin NewNames(sizes, moved, from, to)
    BY <1>1 DEF NewNames
  <2> QED
    BY <2>1, <2>2, <1>1 DEF Renamed
<1>6. /\ entries' = [n \in (D \ moved) \cup N(D) |-> entries'[n]]
      /\ \A p \in moved \cap D : entries'[M(p)] = entries[p]
      /\ \A n \in D \ moved : entries'[n] = entries[n]
  <2>1. NewNames(entries, moved, from, to) = N(D)
    BY <1>3 DEF NewNames
  <2>2. \A n \in D : n \notin N(D)
    BY <1>1
  <2> HIDE DEF D, N
  <2> QED
    BY <2>1, <2>2, <1>1, <1>3 DEF Renamed
<1>7. moved \subseteq D /\ \A p \in D : p \in moved <=> IsPrefix(from, p)
  BY <1>0
<1>8. dirs' \cup DOMAIN data' = (D \ moved) \cup N(D)
  BY <1>1, <1>4
<1>9. Cardinality(dirs' \cup DOMAIN data') = files /\ IsFiniteSet(dirs' \cup DOMAIN data')
  <2> DEFINE f == [p \in D |-> 0]
             g == [n \in dirs' \cup DOMAIN data' |-> 0]
  <2>1. Summable(f) /\ DOMAIN f = D
    BY TreeCount DEF QuotaInv, Summable
  <2>2. NewNames(f, moved, from, to) = N(D)
    BY <2>1 DEF NewNames
  <2>3. Renamed(g, f, moved, from, to)
    <3>1. \A p \in moved \cap D : M(p) \in N(D)
      OBVIOUS
    <3>2. DOMAIN g = (D \ moved) \cup N(D) /\ \A n \in DOMAIN g : g[n] = 0
      BY <1>8
    <3>3. \A p \in D : f[p] = 0
      OBVIOUS
    <3>4. g = [n \in (D \ moved) \cup N(D) |-> g[n]]
      BY <3>2
    <3> HIDE DEF f, g, N, D
    <3> QED
      BY <2>1, <2>2, <3>1, <3>2, <3>3, <3>4 DEF Renamed
  <2>4. (DOMAIN f \ moved) \cap NewNames(f, moved, from, to) = {}
    BY <2>1, <2>2, <1>1
  <2>5. Movable(f, moved, from, to)
    BY <2>1, <1>7, PathSeq DEF Movable, QuotaInv, Tree
  <2>6. Summable(g) /\ Cardinality(DOMAIN g) = Cardinality(DOMAIN f)
    <3> HIDE DEF f, g
    <3> QED
      BY <2>1, <2>3, <2>4, <2>5, RenamedKeeps
  <2>7. DOMAIN g = dirs' \cup DOMAIN data'
    OBVIOUS
  <2> HIDE DEF f, g
  <2> QED
    BY <2>1, <2>6, <2>7, <1>3 DEF Summable
<1>10. Summable(data') /\ Total(data') = Total(data)
  <2>1. (DOMAIN data \ moved) \cap NewNames(data, moved, from, to) = {}
    BY <1>1 DEF NewNames
  <2> QED
    BY <2>1, <1>1, RenamedKeeps DEF QuotaInv, Tree
<1>11. Tree'
  <2>1. dirs' \subseteq Path /\ DOMAIN data' \subseteq Path /\ dirs' \cap DOMAIN data' = {}
    BY <1>1, <1>4, <1>7 DEF QuotaInv, Tree
  <2>2. IsFiniteSet(dirs')
    BY <1>9, FS_Subset
  <2>3. \A n \in DOMAIN data' : data'[n] <= MaxFileBytes
    BY <1>4 DEF QuotaInv, Tree
  <2>4. ASSUME NEW n \in dirs' \cup DOMAIN data', NEW q \in Path, IsStrictPrefix(q, n) PROVE q \in dirs'
    <3>0. q \in Seq(Name) /\ from \in Seq(Name) /\ to \in Seq(Name) /\ IsPrefix(q, n) /\ q # n
      BY <2>4, PathSeq DEF IsStrictPrefix
    <3>1. CASE n \in D \ moved
      <4>1. n \in Seq(Name) /\ ~ IsPrefix(from, n)
        BY <3>1, <1>7, PathSeq DEF QuotaInv, Tree
      <4>2. q \in dirs
        BY <3>1, <2>4 DEF QuotaInv, Tree
      <4>3. ~ IsPrefix(from, q)
        BY <4>1, <3>0, PrefixOrder
      <4> QED
        BY <4>2, <4>3, <1>1, <1>7
    <3>2. CASE n \in N(D)
      <4>1. PICK p \in moved : n = M(p)
        BY <3>2
      <4>2. p \in Path /\ p \in Seq(Name) /\ p \in D /\ IsPrefix(from, p)
        BY <1>7, PathSeq DEF QuotaInv, Tree
      <4>3. CASE IsStrictPrefix(q, to)
        <5>1. q \in dirs
          BY <4>3, <1>2, ComponentsAre
        <5>2. ~ IsPrefix(from, q)
          BY <4>3, <1>2, <3>0, PrefixOrder DEF IsStrictPrefix
        <5> QED
          BY <5>1, <5>2, <1>1, <1>7
      <4>4. CASE ~ IsStrictPrefix(q, to)
        <5>1. PICK r \in Seq(Name) : IsPrefix(from, r) /\ IsPrefix(r, p) /\ q = M(r)
          BY <4>1, <4>2, <4>4, <3>0, MovedAbove
        <5>2. r # p
          BY <5>1, <4>1, <3>0
        <5>3. r \in Path
          <6>1. Len(from) <= Len(r) /\ Len(r) <= Len(p) /\ Len(r) \in Nat
            BY <5>1, <4>2, <3>0, PrefixIs
          <6> QED
            BY <6>1, <4>2, PathIs, QuotaAssumption
        <5>4. r \in dirs
          BY <5>1, <5>2, <5>3, <4>2 DEF QuotaInv, Tree, IsStrictPrefix
        <5>5. r \in moved \cap dirs
          BY <5>1, <5>4, <1>7
        <5> QED
          BY <5>1, <5>5, <1>1
      <4> QED
        BY <4>3, <4>4
    <3> QED
      BY <3>1, <3>2, <1>8
  <2> QED
    BY <2>1, <2>2, <2>3, <2>4, <1>10 DEF Tree
<1>12. Limited'
  BY <1>3, <1>9, <1>10 DEF QuotaInv, Limited
<1>13. Entries'
  <2>1. \A n \in D \ moved : n \in dirs' <=> n \in dirs
    BY <1>1
  <2>2. \A p \in moved : M(p) \in dirs' <=> p \in dirs
    BY <1>1
  <2>3. entries' = [n \in dirs' \cup DOMAIN data' |-> IF n \in dirs' THEN "dir" ELSE "file"]
    <3>1. ASSUME NEW n \in (D \ moved) \cup N(D) PROVE entries'[n] = IF n \in dirs' THEN "dir" ELSE "file"
      <4>1. CASE n \in D \ moved
        BY <4>1, <2>1, <1>3, <1>6
      <4>2. CASE n \in N(D)
        <5>1. PICK p \in moved \cap D : n = M(p)
          BY <4>2
        <5> QED
          BY <5>1, <2>2, <1>3, <1>6
      <4> QED
        BY <4>1, <4>2
    <3> HIDE DEF N, D, M
    <3> QED
      BY <3>1, <1>6, <1>8
  <2> QED
    BY <2>3, <1>2, <1>9 DEF Entries, ScanEntries
<1>14. Sizes'
  <2>1. Summable(sizes') /\ Total(sizes') <= Total(sizes) /\ Total(sizes') \in Nat /\ Total(sizes) \in Nat
    <3>1. Summable(sizes)
      BY DEF QuotaInv, Sizes
    <3> QED
      BY <3>1, <1>1, RenamedEmbeds, TotalType
  <2>2. DOMAIN sizes' \subseteq Path \cup {Root}
    BY <1>1, <1>5 DEF QuotaInv, Sizes
  <2>3. ASSUME NEW n \in DOMAIN data' PROVE n \in DOMAIN sizes' /\ sizes'[n] = data'[n]
    <3>1. CASE n \in DOMAIN data \ moved
      BY <3>1, <1>4, <1>5 DEF QuotaInv, Sizes
    <3>2. CASE n \in N(DOMAIN data)
      <4>1. PICK p \in moved \cap DOMAIN data : n = M(p)
        BY <3>2
      <4>2. p \in moved \cap DOMAIN sizes /\ sizes[p] = data[p]
        BY <4>1 DEF QuotaInv, Sizes
      <4> QED
        BY <4>1, <4>2, <1>4, <1>5
    <3> QED
      BY <3>1, <3>2, <1>4
  <2>4. ~dirWritten' => DOMAIN sizes' = DOMAIN data' /\ bytes' = Total(data')
    BY <1>2, <1>4, <1>5, <1>10 DEF QuotaInv, Sizes
  <2>5. bytes' \in Nat /\ Total(sizes') <= bytes'
    BY <1>2, <2>1 DEF QuotaInv, Sizes
  <2> QED
    BY <2>1, <2>2, <2>3, <2>4, <2>5 DEF Sizes
<1>15. Handles'
  <2>1. ASSUME NEW h \in DOMAIN handle PROVE handle[h].name \in OnDisk'
    <3>1. PICK q : q = handle[h].name
      OBVIOUS
    <3>2. q \in OnDisk /\ q \in Path \cup {Root} /\ h \in Named(q)
      BY <3>1, OnDiskPaths DEF QuotaInv, Handles, HandlesNameFiles, Named
    <3>3. ~ IsPrefix(from, q)
      BY <3>2, <1>2, NoneOpen DEF QuotaInv
    <3> QED
      BY <3>1, <3>2, <3>3, <1>7, <1>8 DEF OnDisk
  <2> QED
    BY <2>1, <1>2, HandlesKept DEF QuotaInv
<1> QED
  BY <1>11, <1>12, <1>13, <1>14, <1>15 DEF QuotaInv

LEMMA QuotaStep == ASSUME ~StatMayFail, QuotaInv, [Next]_vars PROVE QuotaInv'
<1>1. CASE UNCHANGED vars
  <2>1. UNCHANGED <<dirs, data, entries, sizes, files, bytes, open, handle, closed, dirWritten>>
    BY <1>1 DEF vars, diskVars, usageVars, openVars
  <2>2. Tree' /\ Limited' /\ Entries' /\ Sizes'
    BY <2>1 DEF QuotaInv, Tree, Limited, Entries, ScanEntries, Sizes
  <2>3. Handles'
    BY <2>1 DEF QuotaInv, Handles, HandlesNameFiles, OnDisk
  <2> QED
    BY <2>2, <2>3 DEF QuotaInv
<1>2. CASE Next
  BY <1>2, StepRelease, StepAcquire, StepHandle, StepMkdir, StepRmdir, StepUnlink, StepRename,
     StepOpenFile, StepWrite, StepTruncate DEF Next
<1> QED
  BY <1>1, <1>2

\* Where the Host's Stat does not fail after a write, no sequence of a Guest's
\* calls of OpenFile, Write, Rename and the others makes its workspace pass the
\* limits, the depth of its paths included, so that no later scan refuses it: for
\* any limits, any names and any number of open files.
THEOREM QuotaWithinLimits ==
    ASSUME ~StatMayFail
    PROVE  Spec => []WithinLimits
<1>1. QuotaInv /\ [Next]_vars => QuotaInv'
  BY QuotaStep
<1> QED
  BY <1>1, QuotaInit, QuotaProperties, PTL DEF Spec

\* And treeUsage is true of the tree: reserveSize, reconcileSize and the loop of
\* Rename neither lose an entry, a size or a byte nor charge one twice.
THEOREM QuotaAccountExact ==
    ASSUME ~StatMayFail
    PROVE  Spec => []AccountExact
<1>1. QuotaInv /\ [Next]_vars => QuotaInv'
  BY QuotaStep
<1> QED
  BY <1>1, QuotaInit, QuotaProperties, PTL DEF Spec

-----------------------------------------------------------------------------
(* The simulator: its types, and what its methods do to the record. *)

EventKind == {"arrival", "cpuDone", "ioDone", "waitDone"}
EventType == [at : Nat, seq : Nat, kind : EventKind, task : Task, phase : Nat \ {0}]
StateType == [phase : Nat \ {0}, admitted : BOOLEAN, continuation : BOOLEAN, readySeq : Nat,
              holdsRunning : BOOLEAN, inToolQueue : BOOLEAN, end : {"none", "completed", "rejected"}]
SimType   == [now : Nat, seq : Nat, events : SUBSET EventType, batch : SUBSET EventType,
              state : [Task -> StateType], ready : Seq(Task), admission : Seq(Task),
              toolQueue : Seq(Task), running : Int, resident : Int, tools : Int,
              slotTime : Int, toolTime : Int, error : BOOLEAN]

InputType ==
    /\ config \in Configs
    /\ task \in [Task -> [arrival : Arrivals, priority : Priorities, phases : {p \in Traces : Valid(p)}]]

LEMMA InputIs ==
    ASSUME InputType
    PROVE  /\ config.MaxRunning \in Nat \ {0} /\ config.MaxResident \in Nat
           /\ config.MaxInflightTools \in Nat \ {0} /\ config.MaxQueued \in Nat
           /\ config.LiveIO \in BOOLEAN /\ config.MaxResident >= config.MaxRunning
           /\ config.Policy \in Policy
           /\ Task \subseteq Nat /\ IsFiniteSet(Task) /\ 0 \notin Task
           /\ \A t \in Task :
                 /\ task[t].priority \in Int /\ task[t].arrival \in Nat
                 /\ task[t].phases \in Seq([kind : PhaseKind, duration : Nat])
                 /\ Valid(task[t].phases)
<1>1. config \in [MaxRunning : Nat \ {0}, MaxResident : Nat, MaxInflightTools : Nat \ {0},
                  MaxQueued : Nat, LiveIO : BOOLEAN, Policy : Policy]
      /\ config.MaxResident >= config.MaxRunning
  BY SimAssumption DEF InputType
<1>2. Task \subseteq Nat /\ 0 \notin Task
  BY SimAssumption DEF Task
<1>3. IsFiniteSet(Task)
  BY SimAssumption, FS_Interval DEF Task
<1>4. ASSUME NEW t \in Task
      PROVE  /\ task[t].priority \in Int /\ task[t].arrival \in Nat
             /\ task[t].phases \in Seq([kind : PhaseKind, duration : Nat])
             /\ Valid(task[t].phases)
  <2>1. task[t] \in [arrival : Arrivals, priority : Priorities, phases : {p \in Traces : Valid(p)}]
    BY DEF InputType
  <2> QED
    BY <2>1, SimAssumption
<1> QED
  BY <1>1, <1>2, <1>3, <1>4

\* A task's record with one field changed.
LEMMA StateFields ==
    ASSUME NEW x \in StateType
    PROVE  /\ \A n \in Nat : [x EXCEPT !.readySeq = n] \in StateType
           /\ \A b \in BOOLEAN : /\ [x EXCEPT !.admitted = b] \in StateType
                                 /\ [x EXCEPT !.continuation = b] \in StateType
                                 /\ [x EXCEPT !.holdsRunning = b] \in StateType
                                 /\ [x EXCEPT !.inToolQueue = b] \in StateType
           /\ [x EXCEPT !.phase = x.phase + 1] \in StateType
           /\ [x EXCEPT !.end = "completed"] \in StateType
           /\ [x EXCEPT !.end = "rejected"] \in StateType
<1>1. \A n \in Nat : [x EXCEPT !.readySeq = n] \in StateType
  BY DEF StateType
<1>2. \A b \in BOOLEAN : [x EXCEPT !.admitted = b] \in StateType
  BY DEF StateType
<1>3. \A b \in BOOLEAN : [x EXCEPT !.continuation = b] \in StateType
  BY DEF StateType
<1>4. \A b \in BOOLEAN : [x EXCEPT !.holdsRunning = b] \in StateType
  BY DEF StateType
<1>5. \A b \in BOOLEAN : [x EXCEPT !.inToolQueue = b] \in StateType
  BY DEF StateType
<1>6. [x EXCEPT !.phase = x.phase + 1] \in StateType
  BY DEF StateType
<1>7. [x EXCEPT !.end = "completed"] \in StateType /\ [x EXCEPT !.end = "rejected"] \in StateType
  BY DEF StateType
<1> QED
  BY <1>1, <1>2, <1>3, <1>4, <1>5, <1>6, <1>7

LEMMA SimFields ==
    ASSUME NEW s \in SimType
    PROVE  /\ s.now \in Nat /\ s.seq \in Nat /\ s.events \subseteq EventType /\ s.batch \subseteq EventType
           /\ s.state \in [Task -> StateType] /\ s.ready \in Seq(Task) /\ s.admission \in Seq(Task)
           /\ s.toolQueue \in Seq(Task) /\ s.running \in Int /\ s.resident \in Int
           /\ s.tools \in Int /\ s.slotTime \in Int /\ s.toolTime \in Int /\ s.error \in BOOLEAN
           /\ \A t \in Task : /\ s.state[t] \in StateType
                              /\ s.state[t].phase \in Nat \ {0} /\ s.state[t].readySeq \in Nat
                              /\ s.state[t].admitted \in BOOLEAN /\ s.state[t].holdsRunning \in BOOLEAN
                              /\ s.state[t].inToolQueue \in BOOLEAN
                              /\ s.state[t].continuation \in BOOLEAN
<1>1. s.state \in [Task -> StateType]
  BY DEF SimType
<1>2. ASSUME NEW t \in Task
      PROVE  /\ s.state[t] \in StateType
             /\ s.state[t].phase \in Nat \ {0} /\ s.state[t].readySeq \in Nat
             /\ s.state[t].admitted \in BOOLEAN /\ s.state[t].holdsRunning \in BOOLEAN
             /\ s.state[t].inToolQueue \in BOOLEAN
             /\ s.state[t].continuation \in BOOLEAN
  <2>1. s.state[t] \in StateType
    BY <1>1
  <2> QED
    BY <2>1 DEF StateType
<1> QED
  BY <1>1, <1>2 DEF SimType

\* What a method leaves alone.
SameQueues(r, s) == r.ready = s.ready /\ r.admission = s.admission /\ r.toolQueue = s.toolQueue
SameCounts(r, s) == r.running = s.running /\ r.resident = s.resident /\ r.tools = s.tools
SameClock(r, s)  == r.now = s.now /\ r.slotTime = s.slotTime /\ r.toolTime = s.toolTime /\ r.error = s.error
SameHeap(r, s)   == r.events = s.events /\ r.batch = s.batch

\* r has x as the state of t, and s's states otherwise.
Sets(r, s, t, x) == x \in StateType /\ r.state = [s.state EXCEPT ![t] = x]

LEMMA SetsIs ==
    ASSUME NEW s \in SimType, NEW r, NEW t \in Task, NEW x, Sets(r, s, t, x)
    PROVE  r.state[t] = x /\ \A u \in Task \ {t} : r.state[u] = s.state[u]
  BY SimFields DEF Sets

LEMMA PushIs ==
    ASSUME NEW s \in SimType, NEW at \in Nat, NEW kind \in EventKind, NEW t \in Task,
           NEW r, r = PushEvent(s, at, kind, t)
    PROVE  /\ r \in SimType
           /\ r.seq = s.seq + 1 /\ r.batch = s.batch /\ r.state = s.state
           /\ r.events = s.events \cup {[at |-> at, seq |-> s.seq + 1, kind |-> kind, task |-> t,
                                         phase |-> s.state[t].phase]}
           /\ SameQueues(r, s) /\ SameCounts(r, s) /\ SameClock(r, s)
<1> DEFINE e == [at |-> at, seq |-> s.seq + 1, kind |-> kind, task |-> t, phase |-> s.state[t].phase]
<1>1. e \in EventType /\ s.seq + 1 \in Nat
  BY SimFields DEF EventType
<1>2. s.events \cup {e} \in SUBSET EventType
  BY <1>1, SimFields
<1>3. r = [s EXCEPT !.seq = s.seq + 1, !.events = s.events \cup {e}]
  BY DEF PushEvent, SimType
<1> HIDE DEF e
<1>4. r \in SimType
  BY <1>1, <1>2, <1>3 DEF SimType
<1> QED
  BY <1>3, <1>4 DEF SimType, SameQueues, SameCounts, SameClock, e

LEMMA AdmissionIs ==
    ASSUME NEW s \in SimType, NEW t \in Task, NEW c \in BOOLEAN,
           NEW r, r = EnqueueAdmission(s, t, c)
    PROVE  /\ r \in SimType /\ r.seq = s.seq + 1
           /\ Sets(r, s, t, [s.state[t] EXCEPT !.continuation = c, !.readySeq = s.seq + 1])
           /\ r.admission = Append(s.admission, t) /\ r.ready = s.ready /\ r.toolQueue = s.toolQueue
           /\ SameHeap(r, s) /\ SameCounts(r, s) /\ SameClock(r, s)
<1> DEFINE y == [s.state[t] EXCEPT !.continuation = c]
           z == [y EXCEPT !.readySeq = s.seq + 1]
           q == [s.state EXCEPT ![t] = z]
<1>1. s.seq + 1 \in Nat /\ s.state[t] \in StateType /\ s.state \in [Task -> StateType]
      /\ Append(s.admission, t) \in Seq(Task)
  BY SimFields
<1>2. y \in StateType
  BY <1>1, StateFields
<1>3. z \in StateType
  BY <1>1, <1>2, StateFields
<1>4. q \in [Task -> StateType]
  BY <1>1, <1>3
<1>5. [[s.state EXCEPT ![t].continuation = c] EXCEPT ![t].readySeq = s.seq + 1] = q
  BY <1>1 DEF StateType
<1>6. r = [s EXCEPT !.seq = s.seq + 1, !.admission = Append(s.admission, t), !.state = q]
  BY <1>5, <1>1 DEF EnqueueAdmission, SimType
<1>7. z = [s.state[t] EXCEPT !.continuation = c, !.readySeq = s.seq + 1]
  OBVIOUS
<1> HIDE DEF q, z
<1>8. r \in SimType
  BY <1>1, <1>4, <1>6 DEF SimType
<1> QED
  BY <1>3, <1>6, <1>7, <1>8 DEF SimType, SameHeap, SameCounts, SameClock, Sets, q

LEMMA ReadyIs ==
    ASSUME NEW s \in SimType, NEW t \in Task, NEW c \in BOOLEAN,
           NEW r, r = EnqueueReady(s, t, c)
    PROVE  /\ r \in SimType /\ r.seq = s.seq + 1
           /\ Sets(r, s, t, [s.state[t] EXCEPT !.continuation = c, !.readySeq = s.seq + 1])
           /\ r.ready = Append(s.ready, t) /\ r.admission = s.admission /\ r.toolQueue = s.toolQueue
           /\ SameHeap(r, s) /\ SameCounts(r, s) /\ SameClock(r, s)
<1> DEFINE y == [s.state[t] EXCEPT !.continuation = c]
           z == [y EXCEPT !.readySeq = s.seq + 1]
           q == [s.state EXCEPT ![t] = z]
<1>1. s.seq + 1 \in Nat /\ s.state[t] \in StateType /\ s.state \in [Task -> StateType]
      /\ Append(s.ready, t) \in Seq(Task)
  BY SimFields
<1>2. y \in StateType
  BY <1>1, StateFields
<1>3. z \in StateType
  BY <1>1, <1>2, StateFields
<1>4. q \in [Task -> StateType]
  BY <1>1, <1>3
<1>5. [[s.state EXCEPT ![t].continuation = c] EXCEPT ![t].readySeq = s.seq + 1] = q
  BY <1>1 DEF StateType
<1>6. r = [s EXCEPT !.seq = s.seq + 1, !.ready = Append(s.ready, t), !.state = q]
  BY <1>5, <1>1 DEF EnqueueReady, SimType
<1>7. z = [s.state[t] EXCEPT !.continuation = c, !.readySeq = s.seq + 1]
  OBVIOUS
<1> HIDE DEF q, z
<1>8. r \in SimType
  BY <1>1, <1>4, <1>6 DEF SimType
<1> QED
  BY <1>3, <1>6, <1>7, <1>8 DEF SimType, SameHeap, SameCounts, SameClock, Sets, q

\* One field of a task's state is changed, and nothing else.
LEMMA OneSet ==
    ASSUME NEW s \in SimType, NEW t \in Task, NEW x \in StateType,
           NEW r, r = [s EXCEPT !.state = [s.state EXCEPT ![t] = x]]
    PROVE  /\ r \in SimType /\ Sets(r, s, t, x) /\ r.seq = s.seq
           /\ SameQueues(r, s) /\ SameHeap(r, s) /\ SameCounts(r, s) /\ SameClock(r, s)
<1> DEFINE q == [s.state EXCEPT ![t] = x]
<1>1. q \in [Task -> StateType]
  BY SimFields
<1> HIDE DEF q
<1>2. r \in SimType
  BY <1>1 DEF SimType, q
<1> QED
  BY <1>2 DEF SimType, Sets, SameQueues, SameHeap, SameCounts, SameClock

LEMMA ToolIs ==
    ASSUME NEW s \in SimType, NEW t \in Task, NEW r, r = EnqueueTool(s, t)
    PROVE  /\ r \in SimType /\ r.seq = s.seq
           /\ Sets(r, s, t, [s.state[t] EXCEPT !.inToolQueue = TRUE])
           /\ r.toolQueue = Append(s.toolQueue, t) /\ r.ready = s.ready /\ r.admission = s.admission
           /\ SameHeap(r, s) /\ SameCounts(r, s) /\ SameClock(r, s)
<1> DEFINE z == [s.state[t] EXCEPT !.inToolQueue = TRUE]
           q == [s.state EXCEPT ![t] = z]
<1>1. Append(s.toolQueue, t) \in Seq(Task) /\ s.state[t] \in StateType
  BY SimFields
<1>2. z \in StateType
  BY <1>1, StateFields
<1>3. r = [s EXCEPT !.toolQueue = Append(s.toolQueue, t), !.state = q]
  BY DEF EnqueueTool, SimType
<1> HIDE DEF z
<1>4. q \in [Task -> StateType]
  BY <1>2, SimFields
<1> HIDE DEF q
<1>5. r \in SimType
  BY <1>1, <1>3, <1>4 DEF SimType
<1> QED
  BY <1>2, <1>3, <1>5 DEF SimType, SameHeap, SameCounts, SameClock, Sets, q, z

LEMMA ReleaseIs ==
    ASSUME NEW s \in SimType, NEW t \in Task, s.state[t].admitted, NEW r, r = ReleaseResident(s, t)
    PROVE  /\ r \in SimType /\ r.seq = s.seq
           /\ Sets(r, s, t, [s.state[t] EXCEPT !.admitted = FALSE])
           /\ r.resident = s.resident - 1 /\ r.running = s.running /\ r.tools = s.tools
           /\ SameQueues(r, s) /\ SameHeap(r, s) /\ SameClock(r, s)
<1> DEFINE z == [s.state[t] EXCEPT !.admitted = FALSE]
           q == [s.state EXCEPT ![t] = z]
<1>1. s.resident - 1 \in Int /\ s.state[t] \in StateType
  BY SimFields
<1>2. z \in StateType
  BY <1>1, StateFields
<1>3. r = [s EXCEPT !.state = q, !.resident = s.resident - 1]
  BY DEF ReleaseResident, SimType
<1> HIDE DEF z
<1>4. q \in [Task -> StateType]
  BY <1>2, SimFields
<1> HIDE DEF q
<1>5. r \in SimType
  BY <1>1, <1>3, <1>4 DEF SimType
<1> QED
  BY <1>2, <1>3, <1>5 DEF SimType, SameQueues, SameHeap, SameClock, Sets, q, z

LEMMA GiveBackIs ==
    ASSUME NEW s \in SimType, NEW t \in Task, NEW r, r = GiveBackRunning(s, t)
    PROVE  /\ r \in SimType /\ r.seq = s.seq
           /\ Sets(r, s, t, [s.state[t] EXCEPT !.holdsRunning = FALSE])
           /\ r.running = s.running - 1 /\ r.resident = s.resident /\ r.tools = s.tools
           /\ SameQueues(r, s) /\ SameHeap(r, s) /\ SameClock(r, s)
<1> DEFINE z == [s.state[t] EXCEPT !.holdsRunning = FALSE]
           q == [s.state EXCEPT ![t] = z]
<1>1. s.running - 1 \in Int /\ s.state[t] \in StateType
  BY SimFields
<1>2. z \in StateType
  BY <1>1, StateFields
<1>3. r = [s EXCEPT !.state = q, !.running = s.running - 1]
  BY DEF GiveBackRunning, SimType
<1> HIDE DEF z
<1>4. q \in [Task -> StateType]
  BY <1>2, SimFields
<1> HIDE DEF q
<1>5. r \in SimType
  BY <1>1, <1>3, <1>4 DEF SimType
<1> QED
  BY <1>2, <1>3, <1>5 DEF SimType, SameQueues, SameHeap, SameClock, Sets, q, z

LEMMA AdmitIs ==
    ASSUME NEW s \in SimType, NEW t \in Task, NEW r, r = Admit(s, t)
    PROVE  /\ r \in SimType /\ r.seq = s.seq
           /\ Sets(r, s, t, [s.state[t] EXCEPT !.admitted = TRUE])
           /\ r.resident = s.resident + 1 /\ r.running = s.running /\ r.tools = s.tools
           /\ SameQueues(r, s) /\ SameHeap(r, s) /\ SameClock(r, s)
<1> DEFINE z == [s.state[t] EXCEPT !.admitted = TRUE]
           q == [s.state EXCEPT ![t] = z]
<1>1. s.resident + 1 \in Int /\ s.state[t] \in StateType
  BY SimFields
<1>2. z \in StateType
  BY <1>1, StateFields
<1>3. r = [s EXCEPT !.state = q, !.resident = s.resident + 1]
  BY DEF Admit, SimType
<1> HIDE DEF z
<1>4. q \in [Task -> StateType]
  BY <1>2, SimFields
<1> HIDE DEF q
<1>5. r \in SimType
  BY <1>1, <1>3, <1>4 DEF SimType
<1> QED
  BY <1>2, <1>3, <1>5 DEF SimType, SameQueues, SameHeap, SameClock, Sets, q, z

-----------------------------------------------------------------------------
(* Where every task of the simulation is. *)

\* A task is in a queue, waits for its event, has ended, or is in the hands of
\* the method that handles it.
Place == EventKind \cup {"ready", "admission", "toolQueue", "ended", "hand"}

\* What the fields of a task say at each place.
Fit(s, t, p) ==
    LET x == s.state[t] IN
    /\ p = "ended" <=> x.end # "none"
    /\ x.phase <= Len(task[t].phases) + 1
    /\ p \notin {"ended", "hand"} => ~Over(s, t)
    /\ p # "hand" =>
        /\ x.admitted <=> p \in {"ready", "toolQueue", "cpuDone", "ioDone"}
        /\ x.inToolQueue <=> p \in {"toolQueue", "ioDone"}
        /\ x.holdsRunning <=> p = "cpuDone" \/ (p \in {"toolQueue", "ioDone"} /\ ~config.LiveIO)
    /\ p \in {"arrival", "admission", "cpuDone"} => Kind(s, t) = "cpu"
    /\ p \in {"toolQueue", "ioDone"} => Kind(s, t) = "external_io"
    /\ p = "ready" => Kind(s, t) = "cpu" \/ (Kind(s, t) = "external_io" /\ ~config.LiveIO)
    /\ p = "waitDone" => Kind(s, t) = "durable_wait"

Standing(s, pl) == pl \in [Task -> Place] /\ \A t \in Task : Fit(s, t, pl[t])

At(pl, p) == {t \in Task : pl[t] = p}

\* A queue that has the tasks of S, each once.
Lists(q, S) ==
    /\ q \in Seq(Task) /\ {q[i] : i \in DOMAIN q} = S
    /\ \A i, j \in DOMAIN q : q[i] = q[j] => i = j

Queued(s, pl) ==
    /\ Lists(s.ready, At(pl, "ready")) /\ Lists(s.admission, At(pl, "admission"))
    /\ Lists(s.toolQueue, At(pl, "toolQueue"))

\* The queues' order is total.
Ordered(s, pl) ==
    /\ \A t \in Task : s.state[t].readySeq <= s.seq
    /\ \A t, u \in At(pl, "ready") \cup At(pl, "admission") :
           s.state[t].readySeq = s.state[u].readySeq => t = u

Pending(s) == s.events \cup s.batch

\* A task that waits for an event has just that one, which is due at due[t], and
\* was pushed for the phase the task is in.
Scheduled(s, pl, due) ==
    /\ due \in [Task -> Nat]
    /\ \A e \in Pending(s) : /\ pl[e.task] = e.kind /\ due[e.task] = e.at
                             /\ e.phase = s.state[e.task].phase
    /\ \A e, f \in Pending(s) : e.task = f.task => e = f
    /\ \A t \in Task : pl[t] \in EventKind =>
           /\ \E e \in Pending(s) : e.task = t
           /\ due[t] >= s.now
           /\ pl[t] # "arrival" => due[t] <= s.now + Duration(s, t)
    /\ \A e \in s.batch : e.at = s.now /\ e \notin s.events

Holding(s)  == {t \in Task : s.state[t].holdsRunning}
Admitted(s) == {t \in Task : s.state[t].admitted}

Tallied(s, pl) ==
    /\ s.running = Cardinality(Holding(s)) /\ s.running <= config.MaxRunning
    /\ s.resident = Cardinality(Admitted(s)) /\ s.resident <= config.MaxResident
    /\ s.tools = Cardinality(At(pl, "ioDone")) /\ s.tools <= config.MaxInflightTools

\* The time a task has spent so far in phases that a slot is held for: those it
\* has behind it, and what has passed of the one it is in.
Elapsed(s, pl, due, t, K) == IF pl[t] \in K THEN s.now + Duration(s, t) - due[t] ELSE 0
ToolUse(s, pl, due) ==
    [t \in Task |-> Spent(s, t, "external_io") + Elapsed(s, pl, due, t, {"ioDone"})]
SlotKinds == IF config.LiveIO THEN {"cpuDone"} ELSE {"cpuDone", "ioDone"}
SlotUse(s, pl, due) ==
    [t \in Task |-> Spent(s, t, "cpu") + (IF config.LiveIO THEN 0 ELSE Spent(s, t, "external_io"))
                    + Elapsed(s, pl, due, t, SlotKinds)]

Ledger(s, pl, due) ==
    /\ s.toolTime = Total(ToolUse(s, pl, due))
    /\ IF config.LiveIO THEN s.slotTime = Total(SlotUse(s, pl, due))
       ELSE s.slotTime >= Total(SlotUse(s, pl, due))

Placed(s, pl, due) ==
    /\ s \in SimType /\ ~s.error
    /\ Standing(s, pl) /\ Queued(s, pl) /\ Ordered(s, pl) /\ Scheduled(s, pl, due)
    /\ Tallied(s, pl) /\ Ledger(s, pl, due)

-----------------------------------------------------------------------------
(* Queues. *)

LEMMA ListRange == ASSUME NEW q, NEW S, Lists(q, S) PROVE Range(q) = S /\ S \subseteq Task
  BY DEF Lists, Range

LEMMA ListAppend ==
    ASSUME NEW q, NEW S, Lists(q, S), NEW t \in Task, t \notin S
    PROVE  Lists(Append(q, t), S \cup {t})
<1>1. q \in Seq(Task) /\ DOMAIN q = 1 .. Len(q) /\ Len(q) \in Nat
  BY DEF Lists
<1> DEFINE a == Append(q, t)
<1>2. a \in Seq(Task) /\ DOMAIN a = 1 .. Len(q) + 1 /\ a[Len(q) + 1] = t
      /\ \A i \in 1 .. Len(q) : a[i] = q[i]
  BY <1>1
<1> HIDE DEF a
<1>3. \A i \in DOMAIN a : i \in DOMAIN q \/ i = Len(q) + 1
  BY <1>1, <1>2
<1>4. {a[i] : i \in DOMAIN a} = S \cup {t}
  <2>1. \A i \in DOMAIN a : a[i] \in S \cup {t}
    BY <1>1, <1>2, <1>3 DEF Lists
  <2>2. \A x \in S : \E i \in DOMAIN a : a[i] = x
    <3> SUFFICES ASSUME NEW x \in S PROVE \E i \in DOMAIN a : a[i] = x
      OBVIOUS
    <3>1. PICK i \in DOMAIN q : q[i] = x
      BY DEF Lists
    <3> QED
      BY <3>1, <1>1, <1>2
  <2>3. Len(q) + 1 \in DOMAIN a
    BY <1>1, <1>2
  <2> QED
    BY <2>1, <2>2, <2>3, <1>2
<1>5. ASSUME NEW i \in DOMAIN a, NEW j \in DOMAIN a, a[i] = a[j] PROVE i = j
  <2>1. \A k \in DOMAIN q : q[k] \in S
    BY DEF Lists
  <2> QED
    BY <1>1, <1>2, <1>3, <1>5, <2>1 DEF Lists
<1> QED
  BY <1>2, <1>4, <1>5 DEF Lists, a

\* Element number k taken out: what removeState and toolQueue[1:] leave.
LEMMA ListDrop ==
    ASSUME NEW q, NEW S, Lists(q, S), NEW k \in DOMAIN q, NEW r \in Seq(Task),
           Len(r) = Len(q) - 1,
           \A i \in 1 .. Len(r) : r[i] = IF i < k THEN q[i] ELSE q[i + 1]
    PROVE  Lists(r, S \ {q[k]})
<1> DEFINE at(i) == IF i < k THEN i ELSE i + 1
<1>1. q \in Seq(Task) /\ DOMAIN q = 1 .. Len(q) /\ Len(q) \in Nat /\ k \in 1 .. Len(q)
  BY DEF Lists
<1>2. DOMAIN r = 1 .. Len(q) - 1 /\ Len(r) \in Nat
  OBVIOUS
<1>3. \A i \in DOMAIN r : at(i) \in DOMAIN q /\ at(i) # k /\ r[i] = q[at(i)]
  BY <1>1, <1>2
<1>4. ASSUME NEW i \in DOMAIN q, i # k PROVE \E j \in DOMAIN r : r[j] = q[i]
  <2>1. CASE i < k
    <3>1. i \in DOMAIN r /\ r[i] = q[i]
      BY <2>1, <1>1, <1>2
    <3> QED
      BY <3>1
  <2>2. CASE i > k
    <3>1. i - 1 \in DOMAIN r /\ r[i - 1] = q[i]
      BY <2>2, <1>1, <1>2
    <3> QED
      BY <3>1
  <2> QED
    BY <1>1, <1>4, <2>1, <2>2
<1>5. {r[i] : i \in DOMAIN r} = S \ {q[k]}
  <2>1. \A i \in DOMAIN r : r[i] \in S \ {q[k]}
    BY <1>3 DEF Lists
  <2>2. \A x \in S \ {q[k]} : \E j \in DOMAIN r : r[j] = x
    BY <1>4 DEF Lists
  <2> QED
    BY <2>1, <2>2
<1>6. ASSUME NEW i \in DOMAIN r, NEW j \in DOMAIN r, r[i] = r[j] PROVE i = j
  <2>1. at(i) = at(j)
    BY <1>3, <1>6 DEF Lists
  <2> QED
    BY <2>1, <1>1, <1>2
<1> QED
  BY <1>5, <1>6 DEF Lists

LEMMA ListTail ==
    ASSUME NEW q, NEW S, Lists(q, S), q # <<>>
    PROVE  Head(q) \in S /\ Lists(Tail(q), S \ {Head(q)})
<1>1. q \in Seq(Task) /\ 1 \in DOMAIN q /\ Head(q) = q[1] /\ Tail(q) \in Seq(Task)
      /\ Len(Tail(q)) = Len(q) - 1 /\ \A i \in 1 .. Len(Tail(q)) : Tail(q)[i] = q[i + 1]
  BY HeadTailProperties DEF Lists
<1>2. \A i \in 1 .. Len(Tail(q)) : Tail(q)[i] = IF i < 1 THEN q[i] ELSE q[i + 1]
  BY <1>1
<1>3. Lists(Tail(q), S \ {q[1]})
  BY <1>1, <1>2, ListDrop
<1> QED
  BY <1>1, <1>3 DEF Lists

LEMMA ListWithout ==
    ASSUME NEW q, NEW S, Lists(q, S), NEW t \in S
    PROVE  Lists(Without(q, t), S \ {t})
<1>1. PICK k \in DOMAIN q : q[k] = t
  BY DEF Lists
<1>2. q \in Seq(Task) /\ DOMAIN q = 1 .. Len(q) /\ Len(q) \in Nat
  BY DEF Lists
<1> DEFINE I == {i \in 1 .. Len(q) : q[i] = t}
<1>3. I = {k}
  BY <1>1, <1>2 DEF Lists
<1>4. Min(I) = k
  BY <1>2, <1>3 DEF Min
<1>5. Without(q, t) = RemoveAt(q, k)
  BY <1>1, <1>2, <1>3, <1>4 DEF Without, RemoveFirst, SelectInSeq
<1> DEFINE a == SubSeq(q, 1, k - 1)
           b == SubSeq(q, k + 1, Len(q))
           r == a \o b
<1>6. a \in Seq(Task) /\ Len(a) = k - 1 /\ \A i \in 1 .. k - 1 : a[i] = q[i]
  BY <1>2
<1>7. b \in Seq(Task) /\ Len(b) = Len(q) - k /\ \A i \in 1 .. Len(q) - k : b[i] = q[k + i]
  BY <1>2
<1>8. RemoveAt(q, k) = r
  BY DEF RemoveAt
<1> HIDE DEF a, b
<1>9. r \in Seq(Task) /\ Len(r) = Len(q) - 1
  <2>1. r \in Seq(Task) /\ Len(r) = Len(a) + Len(b)
    BY <1>6, <1>7, ConcatProperties
  <2> QED
    BY <2>1, <1>2, <1>6, <1>7
<1>10. ASSUME NEW i \in 1 .. Len(r) PROVE r[i] = IF i < k THEN q[i] ELSE q[i + 1]
  <2>1. CASE i < k
    BY <2>1, <1>2, <1>6, <1>7, <1>9
  <2>2. CASE i >= k
    <3>1. r[i] = b[i - (k - 1)] /\ i - (k - 1) \in 1 .. Len(q) - k
      BY <2>2, <1>2, <1>6, <1>7, <1>9
    <3> QED
      BY <3>1, <2>2, <1>2, <1>7, <1>9, SMTT(60)
  <2> QED
    BY <2>1, <2>2, <1>2
<1> HIDE DEF r
<1>11. Lists(r, S \ {q[k]})
  BY <1>9, <1>10, ListDrop
<1> QED
  BY <1>1, <1>5, <1>8, <1>11

-----------------------------------------------------------------------------
(* One task moves, the others stay. *)

Moves(pl, t, p) == [pl EXCEPT ![t] = p]
OthersStay(r, s, t) == \A u \in Task \ {t} : r.state[u] = s.state[u]

LEMMA AtMoves ==
    ASSUME NEW pl \in [Task -> Place], NEW t \in Task, NEW p \in Place
    PROVE  /\ Moves(pl, t, p) \in [Task -> Place]
           /\ Moves(pl, t, p)[t] = p /\ \A u \in Task \ {t} : Moves(pl, t, p)[u] = pl[u]
           /\ At(Moves(pl, t, p), p) = At(pl, p) \cup {t}
           /\ \A q : q # p => At(Moves(pl, t, p), q) = At(pl, q) \ {t}
           /\ \A q : q # pl[t] => t \notin At(pl, q)
  BY DEF Moves, At

LEMMA FitSame ==
    ASSUME NEW s, NEW r, NEW t, r.state[t] = s.state[t], NEW p, Fit(s, t, p)
    PROVE  Fit(r, t, p)
  BY DEF Fit, Over, Kind

LEMMA StandingMoves ==
    ASSUME NEW s, NEW r, NEW pl, Standing(s, pl), NEW t \in Task, NEW p \in Place,
           OthersStay(r, s, t), Fit(r, t, p)
    PROVE  Standing(r, Moves(pl, t, p))
<1>1. pl \in [Task -> Place]
  BY DEF Standing
<1>2. ASSUME NEW u \in Task PROVE Fit(r, u, Moves(pl, t, p)[u])
  <2>1. CASE u = t
    BY <2>1, <1>1, AtMoves
  <2>2. CASE u # t
    <3>1. r.state[u] = s.state[u] /\ Moves(pl, t, p)[u] = pl[u] /\ Fit(s, u, pl[u])
      BY <2>2, <1>1, AtMoves DEF OthersStay, Standing
    <3> QED
      BY <3>1, FitSame
  <2> QED
    BY <2>1, <2>2
<1> QED
  BY <1>1, <1>2, AtMoves DEF Standing

\* No event is concerned.
LEMMA ScheduledMoves ==
    ASSUME NEW s, NEW r, NEW pl \in [Task -> Place], NEW due, s \in SimType, Scheduled(s, pl, due),
           NEW t \in Task, NEW p \in Place, OthersStay(r, s, t), SameHeap(r, s), r.now = s.now,
           pl[t] \notin EventKind, p \notin EventKind
    PROVE  Scheduled(r, Moves(pl, t, p), due)
<1> DEFINE m == Moves(pl, t, p)
<1>1. m[t] = p /\ \A u \in Task \ {t} : m[u] = pl[u]
  BY AtMoves
<1> HIDE DEF m
<1>2. Pending(r) = Pending(s) /\ r.batch = s.batch /\ r.events = s.events
  BY DEF SameHeap, Pending
<1>3. \A e \in Pending(s) : e.task \in Task /\ e.task # t
  <2>1. \A e \in Pending(s) : e \in EventType
    BY SimFields DEF Pending
  <2>2. \A e \in Pending(s) : e.task \in Task /\ e.kind \in EventKind
    BY <2>1 DEF EventType
  <2> QED
    BY <2>2 DEF Scheduled
<1>4. \A u \in Task \ {t} : Duration(r, u) = Duration(s, u)
  BY DEF Duration, OthersStay
<1>5. \A e \in Pending(r) : m[e.task] = e.kind /\ due[e.task] = e.at
                            /\ e.phase = r.state[e.task].phase
  BY <1>1, <1>2, <1>3 DEF Scheduled, OthersStay
<1>6. ASSUME NEW u \in Task, m[u] \in EventKind
      PROVE  /\ \E e \in Pending(r) : e.task = u
             /\ due[u] >= r.now
             /\ m[u] # "arrival" => due[u] <= r.now + Duration(r, u)
  <2>1. u # t /\ m[u] = pl[u]
    BY <1>1, <1>6
  <2> QED
    BY <2>1, <1>2, <1>4, <1>6 DEF Scheduled
<1>7. \A e \in r.batch : e.at = r.now /\ e \notin r.events
  BY <1>2 DEF Scheduled
<1>8. due \in [Task -> Nat] /\ \A e, f \in Pending(r) : e.task = f.task => e = f
  BY <1>2 DEF Scheduled
<1> QED
  BY <1>5, <1>6, <1>7, <1>8 DEF Scheduled, m

LEMMA OrderedMoves ==
    ASSUME NEW s, NEW r, NEW pl \in [Task -> Place], s \in SimType, r \in SimType, Ordered(s, pl),
           NEW t \in Task, NEW p \in Place, OthersStay(r, s, t), r.seq >= s.seq,
           r.state[t].readySeq <= r.seq,
           p \notin {"ready", "admission"} \/ r.state[t].readySeq > s.seq
    PROVE  Ordered(r, Moves(pl, t, p))
<1> DEFINE W == At(pl, "ready") \cup At(pl, "admission")
           m == Moves(pl, t, p)
           V == At(m, "ready") \cup At(m, "admission")
<1>1. \A u \in Task : s.state[u].readySeq \in Nat /\ r.state[u].readySeq \in Nat
                      /\ s.state[u].readySeq <= s.seq
  BY SimFields DEF Ordered
<1>2. s.seq \in Nat /\ r.seq \in Nat
  BY SimFields
<1>3. \A u \in Task \ {t} : r.state[u].readySeq = s.state[u].readySeq
  BY DEF OthersStay
<1>4. \A u \in V : u \in Task /\ (u # t => u \in W)
  BY DEF Moves, At
<1>5. t \in V => r.state[t].readySeq > s.seq
  BY DEF Moves, At
<1>6. \A u \in Task : r.state[u].readySeq <= r.seq
  BY <1>1, <1>2, <1>3
<1>7. \A u, v \in W : s.state[u].readySeq = s.state[v].readySeq => u = v
  BY DEF Ordered
<1> HIDE DEF V, W
<1>8. ASSUME NEW u \in V, NEW v \in V, r.state[u].readySeq = r.state[v].readySeq PROVE u = v
  <2>1. CASE u = t /\ v # t
    BY <2>1, <1>1, <1>2, <1>3, <1>4, <1>5, <1>8
  <2>2. CASE u # t /\ v = t
    BY <2>2, <1>1, <1>2, <1>3, <1>4, <1>5, <1>8
  <2>3. CASE u # t /\ v # t
    BY <2>3, <1>3, <1>4, <1>7, <1>8
  <2> QED
    BY <2>1, <2>2, <2>3
<1> QED
  BY <1>6, <1>8 DEF Ordered, V, m

\* The books are kept when no phase ends and no time passes.
LEMMA LedgerKept ==
    ASSUME NEW s, NEW r, NEW pl, NEW due, NEW m, NEW d, Ledger(s, pl, due),
           SameClock(r, s), \A u \in Task : r.state[u].phase = s.state[u].phase,
           \A u \in Task : /\ Elapsed(r, m, d, u, {"ioDone"}) = Elapsed(s, pl, due, u, {"ioDone"})
                           /\ Elapsed(r, m, d, u, SlotKinds) = Elapsed(s, pl, due, u, SlotKinds)
    PROVE  Ledger(r, m, d)
<1>1. \A u \in Task, k \in PhaseKind : Spent(r, u, k) = Spent(s, u, k)
  BY DEF Spent, Behind
<1>2. ToolUse(r, m, d) = ToolUse(s, pl, due)
  BY <1>1 DEF ToolUse, PhaseKind
<1>3. SlotUse(r, m, d) = SlotUse(s, pl, due)
  BY <1>1 DEF SlotUse, PhaseKind
<1> QED
  BY <1>2, <1>3 DEF Ledger, SameClock

LEMMA LedgerMoves ==
    ASSUME NEW s, NEW r, NEW pl \in [Task -> Place], NEW due, Ledger(s, pl, due),
           NEW t \in Task, NEW p \in Place, OthersStay(r, s, t), SameClock(r, s),
           r.state[t].phase = s.state[t].phase,
           pl[t] \notin EventKind, p \notin EventKind
    PROVE  Ledger(r, Moves(pl, t, p), due)
<1> DEFINE m == Moves(pl, t, p)
<1>1. m[t] = p /\ \A u \in Task \ {t} : m[u] = pl[u]
  BY AtMoves
<1> HIDE DEF m
<1>2. \A u \in Task : r.state[u].phase = s.state[u].phase
  BY DEF OthersStay
<1>3. \A u \in Task : Duration(r, u) = Duration(s, u)
  BY <1>2 DEF Duration
<1>4. r.now = s.now
  BY DEF SameClock
<1>5. \A u \in Task : Elapsed(r, m, due, u, {"ioDone"}) = Elapsed(s, pl, due, u, {"ioDone"})
  BY <1>1, <1>3, <1>4 DEF Elapsed, EventKind
<1>6. \A u \in Task : Elapsed(r, m, due, u, SlotKinds) = Elapsed(s, pl, due, u, SlotKinds)
  BY <1>1, <1>3, <1>4 DEF Elapsed, EventKind, SlotKinds
<1> QED
  BY <1>2, <1>5, <1>6, LedgerKept DEF m

InHand(s, t) == \E pl \in [Task -> Place], due \in [Task -> Nat] :
                    Placed(s, pl, due) /\ At(pl, "hand") = {t}
AtRest(s)   == \E pl \in [Task -> Place], due \in [Task -> Nat] :
                    Placed(s, pl, due) /\ At(pl, "hand") = {}

Bit(b) == IF b THEN 1 ELSE 0

\* A set that gains or loses one element.
LEMMA CardMoves ==
    ASSUME NEW S, NEW T, NEW t, IsFiniteSet(S), S \ {t} = T \ {t}
    PROVE  /\ IsFiniteSet(T) /\ Cardinality(S) \in Nat
           /\ Cardinality(T) = Cardinality(S) + Bit(t \in T) - Bit(t \in S)
<1>1. Cardinality(S) \in Nat
  BY FS_CardinalityType
<1>2. CASE (t \in T) = (t \in S)
  <2>1. S = T
    BY <1>2
  <2> QED
    BY <1>1, <1>2, <2>1 DEF Bit
<1>3. CASE t \in T /\ t \notin S
  <2>1. T = S \cup {t}
    BY <1>3
  <2>2. IsFiniteSet(T) /\ Cardinality(T) = Cardinality(S) + 1
    BY <2>1, <1>3, FS_AddElement
  <2> QED
    BY <1>1, <1>3, <2>2 DEF Bit
<1>4. CASE t \notin T /\ t \in S
  <2>1. T = S \ {t}
    BY <1>4
  <2>2. IsFiniteSet(T) /\ Cardinality(T) = Cardinality(S) - 1
    BY <2>1, <1>4, FS_RemoveElement
  <2> QED
    BY <1>1, <1>4, <2>2 DEF Bit
<1> QED
  BY <1>2, <1>3, <1>4

LEMMA FlagsCount ==
    ASSUME InputType, NEW s, NEW r, NEW t \in Task, OthersStay(r, s, t)
    PROVE  /\ Cardinality(Holding(r)) = Cardinality(Holding(s))
                   + Bit(r.state[t].holdsRunning) - Bit(s.state[t].holdsRunning)
           /\ Cardinality(Admitted(r)) = Cardinality(Admitted(s))
                   + Bit(r.state[t].admitted) - Bit(s.state[t].admitted)
<1>1. IsFiniteSet(Task)
  BY InputIs
<1>2. IsFiniteSet(Holding(s)) /\ IsFiniteSet(Admitted(s))
  BY <1>1, FS_Subset DEF Holding, Admitted
<1>3. Holding(s) \ {t} = Holding(r) \ {t}
  BY DEF Holding, OthersStay
<1>4. Admitted(s) \ {t} = Admitted(r) \ {t}
  BY DEF Admitted, OthersStay
<1>5. (t \in Holding(s) <=> s.state[t].holdsRunning) /\ (t \in Holding(r) <=> r.state[t].holdsRunning)
  BY DEF Holding
<1>6. (t \in Admitted(s) <=> s.state[t].admitted) /\ (t \in Admitted(r) <=> r.state[t].admitted)
  BY DEF Admitted
<1>7. Cardinality(Holding(r)) = Cardinality(Holding(s)) + Bit(t \in Holding(r)) - Bit(t \in Holding(s))
  BY <1>2, <1>3, CardMoves
<1>8. Cardinality(Admitted(r)) = Cardinality(Admitted(s)) + Bit(t \in Admitted(r)) - Bit(t \in Admitted(s))
  BY <1>2, <1>4, CardMoves
<1> QED
  BY <1>5, <1>6, <1>7, <1>8 DEF Bit

\* r is s with t put from a method's hands to p, where no event is due: the
\* counters follow its fields, and one queue has it as the last.
Puts(r, s, t, p) ==
    /\ r \in SimType /\ OthersStay(r, s, t) /\ SameHeap(r, s) /\ SameClock(r, s)
    /\ r.state[t].phase = s.state[t].phase
    /\ p \in Place \ EventKind /\ Fit(r, t, p)
    /\ r.running = s.running + Bit(r.state[t].holdsRunning) - Bit(s.state[t].holdsRunning)
    /\ r.running <= config.MaxRunning
    /\ r.resident = s.resident + Bit(r.state[t].admitted) - Bit(s.state[t].admitted)
    /\ r.resident <= config.MaxResident /\ r.tools = s.tools
    /\ r.seq >= s.seq /\ r.state[t].readySeq <= r.seq
    /\ p \in {"ready", "admission"} => r.state[t].readySeq > s.seq
    /\ r.ready = (IF p = "ready" THEN Append(s.ready, t) ELSE s.ready)
    /\ r.admission = (IF p = "admission" THEN Append(s.admission, t) ELSE s.admission)
    /\ r.toolQueue = (IF p = "toolQueue" THEN Append(s.toolQueue, t) ELSE s.toolQueue)

LEMMA HandMoves ==
    ASSUME InputType, NEW s, NEW t \in Task, InHand(s, t), NEW r, NEW p, Puts(r, s, t, p)
    PROVE  (p = "hand" => InHand(r, t)) /\ (p # "hand" => AtRest(r))
<1> USE DEF Puts
<1>1. PICK pl \in [Task -> Place], due \in [Task -> Nat] : Placed(s, pl, due) /\ At(pl, "hand") = {t}
  BY DEF InHand
<1> DEFINE m == Moves(pl, t, p)
<1>2. pl[t] = "hand" /\ pl[t] \notin EventKind /\ p \in Place /\ p \notin EventKind
  BY <1>1 DEF At, EventKind
<1>3. /\ s \in SimType /\ ~s.error /\ Standing(s, pl) /\ Queued(s, pl) /\ Ordered(s, pl)
      /\ Scheduled(s, pl, due) /\ Tallied(s, pl) /\ Ledger(s, pl, due)
  BY <1>1 DEF Placed
<1>4. /\ m \in [Task -> Place] /\ At(m, p) = At(pl, p) \cup {t}
      /\ \A q : q # p => At(m, q) = At(pl, q) \ {t}
      /\ \A q : q # "hand" => t \notin At(pl, q)
  BY <1>2, AtMoves
<1>5. Standing(r, m)
  BY <1>3, StandingMoves
<1>6. Ordered(r, m)
  BY <1>3, OrderedMoves
<1>7. Scheduled(r, m, due)
  BY <1>2, <1>3, ScheduledMoves DEF SameClock
<1>8. Ledger(r, m, due)
  BY <1>2, <1>3, LedgerMoves
<1> HIDE DEF m
<1>9. Tallied(r, m)
  <2>1. At(m, "ioDone") = At(pl, "ioDone")
    <3>1. p # "ioDone" /\ t \notin At(pl, "ioDone")
      BY <1>2, <1>4 DEF EventKind
    <3>2. At(m, "ioDone") = At(pl, "ioDone") \ {t}
      BY <3>1, <1>4
    <3> QED
      BY <3>1, <3>2
  <2>2. /\ r.running = Cardinality(Holding(r)) /\ r.resident = Cardinality(Admitted(r))
    BY <1>3, FlagsCount DEF Tallied
  <2> QED
    BY <2>1, <2>2, <1>3 DEF Tallied
<1>10. Queued(r, m)
  <2>1. Lists(r.ready, At(m, "ready"))
    <3>1. Lists(s.ready, At(pl, "ready")) /\ t \notin At(pl, "ready")
      BY <1>3, <1>4 DEF Queued
    <3>2. CASE p = "ready"
      BY <3>1, <3>2, <1>4, ListAppend
    <3>3. CASE p # "ready"
      <4>1. At(m, "ready") = At(pl, "ready")
        BY <3>1, <3>3, <1>4
      <4> QED
        BY <4>1, <3>1, <3>3
    <3> QED
      BY <3>2, <3>3
  <2>2. Lists(r.admission, At(m, "admission"))
    <3>1. Lists(s.admission, At(pl, "admission")) /\ t \notin At(pl, "admission")
      BY <1>3, <1>4 DEF Queued
    <3>2. CASE p = "admission"
      BY <3>1, <3>2, <1>4, ListAppend
    <3>3. CASE p # "admission"
      <4>1. At(m, "admission") = At(pl, "admission")
        BY <3>1, <3>3, <1>4, ZenonT(60)
      <4> QED
        BY <4>1, <3>1, <3>3
    <3> QED
      BY <3>2, <3>3
  <2>3. Lists(r.toolQueue, At(m, "toolQueue"))
    <3>1. Lists(s.toolQueue, At(pl, "toolQueue")) /\ t \notin At(pl, "toolQueue")
      BY <1>3, <1>4 DEF Queued
    <3>2. CASE p = "toolQueue"
      BY <3>1, <3>2, <1>4, ListAppend
    <3>3. CASE p # "toolQueue"
      <4>1. At(m, "toolQueue") = At(pl, "toolQueue")
        BY <3>1, <3>3, <1>4, ZenonT(60)
      <4> QED
        BY <4>1, <3>1, <3>3
    <3> QED
      BY <3>2, <3>3
  <2> QED
    BY <2>1, <2>2, <2>3 DEF Queued
<1>11. Placed(r, m, due)
  BY <1>3, <1>5, <1>6, <1>7, <1>8, <1>9, <1>10 DEF Placed, SameClock
<1>12. CASE p = "hand"
  BY <1>1, <1>4, <1>11, <1>12 DEF InHand
<1>13. CASE p # "hand"
  <2>1. At(m, "hand") = {}
    BY <1>1, <1>4, <1>13
  <2> QED
    BY <2>1, <1>4, <1>11, <1>13 DEF AtRest
<1> QED
  BY <1>12, <1>13

\* An event is pushed for a task that waits for none.
LEMMA PushMoves ==
    ASSUME NEW s \in SimType, NEW pl \in [Task -> Place], NEW due,
           Scheduled(s, pl, due), Ledger(s, pl, due),
           NEW t \in Task, pl[t] \notin EventKind, NEW k \in EventKind,
           Duration(s, t) \in Nat, NEW r, r = PushEvent(s, s.now + Duration(s, t), k, t)
    PROVE  LET m == Moves(pl, t, k)  d == [due EXCEPT ![t] = s.now + Duration(s, t)]
           IN  d \in [Task -> Nat] /\ Scheduled(r, m, d) /\ Ledger(r, m, d)
<1> DEFINE m == Moves(pl, t, k)
           at == s.now + Duration(s, t)
           d == [due EXCEPT ![t] = at]
           e == [at |-> at, seq |-> s.seq + 1, kind |-> k, task |-> t, phase |-> s.state[t].phase]
<1>1. k \in Place /\ s.now \in Nat /\ at \in Nat /\ due \in [Task -> Nat]
  BY SimFields DEF Place, Scheduled
<1>2. m[t] = k /\ \A u \in Task \ {t} : m[u] = pl[u]
  BY <1>1, AtMoves
<1>3. d \in [Task -> Nat] /\ d[t] = at /\ \A u \in Task \ {t} : d[u] = due[u]
  BY <1>1
<1>4. /\ r \in SimType /\ r.batch = s.batch /\ r.state = s.state /\ r.events = s.events \cup {e}
      /\ SameQueues(r, s) /\ SameCounts(r, s) /\ SameClock(r, s)
  BY <1>1, PushIs
<1>5. Pending(r) = Pending(s) \cup {e}
  BY <1>4 DEF Pending
<1>6. \A f \in Pending(s) : f.task \in Task /\ f.task # t
  <2>1. \A f \in Pending(s) : f \in EventType
    BY SimFields DEF Pending
  <2>2. \A f \in Pending(s) : f.task \in Task /\ f.kind \in EventKind
    BY <2>1 DEF EventType
  <2> QED
    BY <2>2 DEF Scheduled
<1>7. e.task = t /\ e.kind = k /\ e.at = at /\ e.phase = s.state[t].phase
  OBVIOUS
<1>8. \A u \in Task : Duration(r, u) = Duration(s, u)
  BY <1>4 DEF Duration
<1>9. r.now = s.now
  BY <1>4 DEF SameClock
<1> HIDE DEF m, d, e
<1>10. Scheduled(r, m, d)
  <2>1. \A f \in Pending(r) : m[f.task] = f.kind /\ d[f.task] = f.at /\ f.phase = r.state[f.task].phase
    BY <1>2, <1>3, <1>4, <1>5, <1>6, <1>7 DEF Scheduled
  <2>2. \A f, g \in Pending(r) : f.task = g.task => f = g
    BY <1>5, <1>6, <1>7 DEF Scheduled
  <2>3. ASSUME NEW u \in Task, m[u] \in EventKind
        PROVE  /\ \E f \in Pending(r) : f.task = u
               /\ d[u] >= r.now
               /\ m[u] # "arrival" => d[u] <= r.now + Duration(r, u)
    <3>1. CASE u = t
      BY <3>1, <1>1, <1>3, <1>5, <1>7, <1>8, <1>9
    <3>2. CASE u # t
      BY <3>2, <2>3, <1>2, <1>3, <1>5, <1>8, <1>9 DEF Scheduled
    <3> QED
      BY <3>1, <3>2
  <2>4. \A f \in r.batch : f.at = r.now /\ f \notin r.events
    <3>1. \A f \in s.batch : f \in Pending(s)
      BY DEF Pending
    <3>2. \A f \in s.batch : f # e
      BY <3>1, <1>6, <1>7
    <3> QED
      BY <3>2, <1>4, <1>9 DEF Scheduled
  <2> QED
    BY <2>1, <2>2, <2>3, <2>4, <1>3 DEF Scheduled
<1>11. Ledger(r, m, d)
  <2>1. ASSUME NEW u \in Task, NEW K, K \subseteq EventKind
        PROVE  Elapsed(r, m, d, u, K) = Elapsed(s, pl, due, u, K)
    <3>1. CASE u = t
      <4>1. Elapsed(s, pl, due, u, K) = 0
        BY <3>1, <2>1 DEF Elapsed
      <4>2. r.now + Duration(r, t) - d[t] = 0
        BY <1>1, <1>3, <1>8, <1>9
      <4> QED
        BY <4>1, <4>2, <3>1 DEF Elapsed
    <3>2. CASE u # t
      BY <3>2, <1>2, <1>3, <1>8, <1>9 DEF Elapsed
    <3> QED
      BY <3>1, <3>2
  <2>2. {"ioDone"} \subseteq EventKind /\ SlotKinds \subseteq EventKind
    BY DEF EventKind, SlotKinds
  <2>3. \A u \in Task : /\ Elapsed(r, m, d, u, {"ioDone"}) = Elapsed(s, pl, due, u, {"ioDone"})
                        /\ Elapsed(r, m, d, u, SlotKinds) = Elapsed(s, pl, due, u, SlotKinds)
    BY <2>1, <2>2
  <2> QED
    BY <2>3, <1>4, LedgerKept
<1> QED
  BY <1>3, <1>10, <1>11 DEF m, d

-----------------------------------------------------------------------------
(* The simulator's methods, on a task in their hands. *)

LEMMA HandIs ==
    ASSUME InputType, NEW s, NEW t \in Task, InHand(s, t)
    PROVE  /\ s \in SimType /\ ~s.error /\ s.state[t].end = "none"
           /\ s.running <= config.MaxRunning /\ s.resident <= config.MaxResident
           /\ s.state[t].readySeq <= s.seq
           /\ s.state[t].phase <= Len(task[t].phases) + 1
<1>1. PICK pl \in [Task -> Place], due \in [Task -> Nat] : Placed(s, pl, due) /\ At(pl, "hand") = {t}
  BY DEF InHand
<1>2. pl[t] = "hand" /\ Fit(s, t, pl[t])
  BY <1>1 DEF At, Placed, Standing
<1> QED
  BY <1>1, <1>2 DEF Placed, Tallied, Ordered, Fit

\* The phase a task is in.
LEMMA PhaseIs ==
    ASSUME InputType, NEW s \in SimType, NEW t \in Task, ~Over(s, t)
    PROVE  /\ s.state[t].phase \in DOMAIN task[t].phases
           /\ Kind(s, t) \in PhaseKind /\ Duration(s, t) \in Nat
<1>1. task[t].phases \in Seq([kind : PhaseKind, duration : Nat]) /\ s.state[t].phase \in Nat \ {0}
  BY InputIs, SimFields
<1>2. s.state[t].phase \in 1 .. Len(task[t].phases)
  BY <1>1 DEF Over
<1>3. task[t].phases[s.state[t].phase] \in [kind : PhaseKind, duration : Nat]
  BY <1>1, <1>2, ElementOfSeq
<1> QED
  BY <1>1, <1>2, <1>3 DEF Kind, Duration

\* Fit, Over, Kind and Duration depend on these fields only.
LEMMA SamePhase ==
    ASSUME NEW s, NEW r, NEW t, r.state[t].phase = s.state[t].phase
    PROVE  (Over(r, t) <=> Over(s, t)) /\ Kind(r, t) = Kind(s, t) /\ Duration(r, t) = Duration(s, t)
  BY DEF Over, Kind, Duration

LEMMA HandAdmission ==
    ASSUME InputType, NEW s, NEW t \in Task, InHand(s, t), NEW c \in BOOLEAN,
           ~s.state[t].admitted, ~s.state[t].holdsRunning, ~s.state[t].inToolQueue,
           ~Over(s, t), Kind(s, t) = "cpu"
    PROVE  AtRest(EnqueueAdmission(s, t, c))
<1> DEFINE r == EnqueueAdmission(s, t, c)
           x == [s.state[t] EXCEPT !.continuation = c, !.readySeq = s.seq + 1]
<1> HIDE DEF r
<1>1. s \in SimType /\ s.state[t] \in StateType /\ s.seq \in Nat /\ s.running \in Int /\ s.resident \in Int
  BY HandIs, SimFields
<1>2. /\ r \in SimType /\ r.seq = s.seq + 1 /\ Sets(r, s, t, x)
      /\ r.admission = Append(s.admission, t) /\ r.ready = s.ready /\ r.toolQueue = s.toolQueue
      /\ SameHeap(r, s) /\ SameCounts(r, s) /\ SameClock(r, s)
  BY <1>1, AdmissionIs, ZenonT(60) DEF r
<1>3. r.state[t] = x /\ OthersStay(r, s, t)
  BY <1>1, <1>2, SetsIs DEF OthersStay
<1>4. /\ x.phase = s.state[t].phase /\ x.readySeq = s.seq + 1 /\ x.end = s.state[t].end
      /\ x.admitted = s.state[t].admitted /\ x.holdsRunning = s.state[t].holdsRunning
      /\ x.inToolQueue = s.state[t].inToolQueue
  BY <1>1 DEF StateType
<1> HIDE DEF x
<1>5. Fit(r, t, "admission")
  BY <1>3, <1>4, SamePhase, HandIs DEF Fit
<1>6. "admission" \in Place \ EventKind
  BY DEF Place, EventKind
<1>7. /\ r.running = s.running + Bit(r.state[t].holdsRunning) - Bit(s.state[t].holdsRunning)
      /\ r.resident = s.resident + Bit(r.state[t].admitted) - Bit(s.state[t].admitted)
      /\ r.running <= config.MaxRunning /\ r.resident <= config.MaxResident /\ r.tools = s.tools
  BY <1>1, <1>2, <1>3, <1>4, HandIs DEF SameCounts, Bit
<1>8. /\ r.seq >= s.seq /\ r.state[t].readySeq <= r.seq
      /\ r.state[t].phase = s.state[t].phase /\ r.state[t].readySeq > s.seq
  BY <1>1, <1>2, <1>3, <1>4, HandIs
<1>9. Puts(r, s, t, "admission")
  BY ONLY <1>2, <1>3, <1>5, <1>6, <1>7, <1>8 DEF Puts
<1> QED
  BY <1>9, HandMoves DEF r

LEMMA HandReady ==
    ASSUME InputType, NEW s, NEW t \in Task, InHand(s, t), NEW c \in BOOLEAN,
           s.state[t].admitted, ~s.state[t].holdsRunning, ~s.state[t].inToolQueue,
           ~Over(s, t), Kind(s, t) = "cpu" \/ (Kind(s, t) = "external_io" /\ ~config.LiveIO)
    PROVE  AtRest(EnqueueReady(s, t, c))
<1> DEFINE r == EnqueueReady(s, t, c)
           x == [s.state[t] EXCEPT !.continuation = c, !.readySeq = s.seq + 1]
<1> HIDE DEF r
<1>1. s \in SimType /\ s.state[t] \in StateType /\ s.seq \in Nat /\ s.running \in Int /\ s.resident \in Int
  BY HandIs, SimFields
<1>2. /\ r \in SimType /\ r.seq = s.seq + 1 /\ Sets(r, s, t, x)
      /\ r.ready = Append(s.ready, t) /\ r.admission = s.admission /\ r.toolQueue = s.toolQueue
      /\ SameHeap(r, s) /\ SameCounts(r, s) /\ SameClock(r, s)
  <2>1. r = EnqueueReady(s, t, c) /\ c \in BOOLEAN
    BY DEF r
  <2> QED
    BY ONLY <1>1, <2>1, t \in Task, ReadyIs, ZenonT(60)
<1>3. r.state[t] = x /\ OthersStay(r, s, t)
  BY <1>1, <1>2, SetsIs DEF OthersStay
<1>4. /\ x.phase = s.state[t].phase /\ x.readySeq = s.seq + 1 /\ x.end = s.state[t].end
      /\ x.admitted = s.state[t].admitted /\ x.holdsRunning = s.state[t].holdsRunning
      /\ x.inToolQueue = s.state[t].inToolQueue
  BY <1>1 DEF StateType
<1> HIDE DEF x
<1>5. Fit(r, t, "ready")
  BY <1>3, <1>4, SamePhase, HandIs DEF Fit
<1>6. "ready" \in Place \ EventKind
  BY DEF Place, EventKind
<1>7. /\ r.running = s.running + Bit(r.state[t].holdsRunning) - Bit(s.state[t].holdsRunning)
      /\ r.resident = s.resident + Bit(r.state[t].admitted) - Bit(s.state[t].admitted)
      /\ r.running <= config.MaxRunning /\ r.resident <= config.MaxResident /\ r.tools = s.tools
  BY <1>1, <1>2, <1>3, <1>4, HandIs DEF SameCounts, Bit
<1>8. /\ r.seq >= s.seq /\ r.state[t].readySeq <= r.seq
      /\ r.state[t].phase = s.state[t].phase /\ r.state[t].readySeq > s.seq
  BY <1>1, <1>2, <1>3, <1>4, HandIs
<1>9. Puts(r, s, t, "ready")
  BY ONLY <1>2, <1>3, <1>5, <1>6, <1>7, <1>8 DEF Puts
<1> QED
  BY <1>9, HandMoves DEF r

LEMMA HandTool ==
    ASSUME InputType, NEW s, NEW t \in Task, InHand(s, t),
           s.state[t].admitted, s.state[t].holdsRunning <=> ~config.LiveIO,
           ~Over(s, t), Kind(s, t) = "external_io"
    PROVE  AtRest(EnqueueTool(s, t))
<1> DEFINE r == EnqueueTool(s, t)
           x == [s.state[t] EXCEPT !.inToolQueue = TRUE]
<1> HIDE DEF r
<1>1. s \in SimType /\ s.state[t] \in StateType /\ s.seq \in Nat /\ s.running \in Int /\ s.resident \in Int
  BY HandIs, SimFields
<1>2. /\ r \in SimType /\ r.seq = s.seq /\ Sets(r, s, t, x)
      /\ r.toolQueue = Append(s.toolQueue, t) /\ r.ready = s.ready /\ r.admission = s.admission
      /\ SameHeap(r, s) /\ SameCounts(r, s) /\ SameClock(r, s)
  BY <1>1, ToolIs DEF r
<1>3. r.state[t] = x /\ OthersStay(r, s, t)
  BY <1>1, <1>2, SetsIs DEF OthersStay
<1>4. /\ x.phase = s.state[t].phase /\ x.readySeq = s.state[t].readySeq /\ x.end = s.state[t].end
      /\ x.admitted = s.state[t].admitted /\ x.holdsRunning = s.state[t].holdsRunning
      /\ x.inToolQueue
  BY <1>1 DEF StateType
<1> HIDE DEF x
<1>5. Fit(r, t, "toolQueue")
  BY <1>3, <1>4, SamePhase, HandIs DEF Fit
<1>6. "toolQueue" \in Place \ EventKind
  BY DEF Place, EventKind
<1>7. /\ r.running = s.running + Bit(r.state[t].holdsRunning) - Bit(s.state[t].holdsRunning)
      /\ r.resident = s.resident + Bit(r.state[t].admitted) - Bit(s.state[t].admitted)
      /\ r.running <= config.MaxRunning /\ r.resident <= config.MaxResident /\ r.tools = s.tools
  BY <1>1, <1>2, <1>3, <1>4, HandIs DEF SameCounts, Bit
<1>8. /\ r.seq >= s.seq /\ r.state[t].readySeq <= r.seq
      /\ r.state[t].phase = s.state[t].phase
  BY <1>1, <1>2, <1>3, <1>4, HandIs
<1>9. Puts(r, s, t, "toolQueue")
  BY ONLY <1>2, <1>3, <1>5, <1>6, <1>7, <1>8 DEF Puts
<1> QED
  BY <1>9, HandMoves DEF r

\* A task in hand changes one field of its state or a count with it: it stays in hand.
LEMMA HandRelease ==
    ASSUME InputType, NEW s, NEW t \in Task, InHand(s, t), s.state[t].admitted
    PROVE  LET r == ReleaseResident(s, t) IN
           /\ InHand(r, t) /\ ~r.state[t].admitted /\ r.now = s.now
           /\ r.state[t].phase = s.state[t].phase
           /\ r.state[t].holdsRunning = s.state[t].holdsRunning
           /\ r.state[t].inToolQueue = s.state[t].inToolQueue
<1> DEFINE r == ReleaseResident(s, t)
           x == [s.state[t] EXCEPT !.admitted = FALSE]
<1> HIDE DEF r
<1>1. s \in SimType /\ s.state[t] \in StateType /\ s.seq \in Nat /\ s.running \in Int /\ s.resident \in Int
      /\ config.MaxResident \in Nat
  BY HandIs, SimFields, InputIs
<1>2. /\ r \in SimType /\ r.seq = s.seq /\ Sets(r, s, t, x)
      /\ r.resident = s.resident - 1 /\ r.running = s.running /\ r.tools = s.tools
      /\ SameQueues(r, s) /\ SameHeap(r, s) /\ SameClock(r, s)
  BY <1>1, ReleaseIs DEF r
<1>3. r.state[t] = x /\ OthersStay(r, s, t)
  BY <1>1, <1>2, SetsIs DEF OthersStay
<1>4. /\ x.phase = s.state[t].phase /\ x.readySeq = s.state[t].readySeq /\ x.end = s.state[t].end
      /\ ~x.admitted /\ x.holdsRunning = s.state[t].holdsRunning
      /\ x.inToolQueue = s.state[t].inToolQueue
  BY <1>1 DEF StateType
<1> HIDE DEF x
<1>5. Fit(r, t, "hand")
  BY <1>3, <1>4, HandIs DEF Fit
<1>6. "hand" \in Place \ EventKind
  BY DEF Place, EventKind
<1>7. Puts(r, s, t, "hand")
  BY <1>1, <1>2, <1>3, <1>4, <1>5, <1>6, HandIs DEF Puts, SameQueues, Bit
<1>8. InHand(r, t)
  BY <1>7, HandMoves
<1> QED
  BY <1>2, <1>3, <1>4, <1>8 DEF r, SameClock

LEMMA HandGiveBack ==
    ASSUME InputType, NEW s, NEW t \in Task, InHand(s, t), s.state[t].holdsRunning
    PROVE  LET r == GiveBackRunning(s, t) IN
           /\ InHand(r, t) /\ ~r.state[t].holdsRunning /\ r.now = s.now
           /\ r.state[t].phase = s.state[t].phase
           /\ r.state[t].admitted = s.state[t].admitted
           /\ r.state[t].inToolQueue = s.state[t].inToolQueue
<1> DEFINE r == GiveBackRunning(s, t)
           x == [s.state[t] EXCEPT !.holdsRunning = FALSE]
<1> HIDE DEF r
<1>1. s \in SimType /\ s.state[t] \in StateType /\ s.seq \in Nat /\ s.running \in Int /\ s.resident \in Int
      /\ config.MaxRunning \in Nat
  BY HandIs, SimFields, InputIs
<1>2. /\ r \in SimType /\ r.seq = s.seq /\ Sets(r, s, t, x)
      /\ r.running = s.running - 1 /\ r.resident = s.resident /\ r.tools = s.tools
      /\ SameQueues(r, s) /\ SameHeap(r, s) /\ SameClock(r, s)
  BY <1>1, GiveBackIs DEF r
<1>3. r.state[t] = x /\ OthersStay(r, s, t)
  BY <1>1, <1>2, SetsIs DEF OthersStay
<1>4. /\ x.phase = s.state[t].phase /\ x.readySeq = s.state[t].readySeq /\ x.end = s.state[t].end
      /\ ~x.holdsRunning /\ x.admitted = s.state[t].admitted
      /\ x.inToolQueue = s.state[t].inToolQueue
  BY <1>1 DEF StateType
<1> HIDE DEF x
<1>5. Fit(r, t, "hand")
  BY <1>3, <1>4, HandIs DEF Fit
<1>6. "hand" \in Place \ EventKind
  BY DEF Place, EventKind
<1>7. Puts(r, s, t, "hand")
  BY <1>1, <1>2, <1>3, <1>4, <1>5, <1>6, HandIs DEF Puts, SameQueues, Bit
<1>8. InHand(r, t)
  BY <1>7, HandMoves
<1> QED
  BY <1>2, <1>3, <1>4, <1>8 DEF r, SameClock

LEMMA HandComplete ==
    ASSUME InputType, NEW s, NEW t \in Task, InHand(s, t),
           ~s.state[t].holdsRunning, ~s.state[t].inToolQueue
    PROVE  AtRest(Complete(s, t))
<1> DEFINE x == [s.state[t] EXCEPT !.end = "completed"]
           a == [s EXCEPT !.state[t].end = "completed"]
           r == Complete(s, t)
           y == [a.state[t] EXCEPT !.admitted = FALSE]
<1>1. /\ s \in SimType /\ s.state[t] \in StateType /\ s.seq \in Nat /\ s.running \in Int /\ s.resident \in Int
      /\ config.MaxResident \in Nat /\ s.state[t].admitted \in BOOLEAN
  BY HandIs, SimFields, InputIs
<1>2. x \in StateType
  BY <1>1, StateFields
<1>3. a = [s EXCEPT !.state = [s.state EXCEPT ![t] = x]]
  BY <1>1 DEF SimType
<1>4. r = ReleaseResident(a, t)
  BY DEF Complete
<1>5. /\ x.phase = s.state[t].phase /\ x.readySeq = s.state[t].readySeq /\ x.end = "completed"
      /\ x.admitted = s.state[t].admitted /\ x.holdsRunning = s.state[t].holdsRunning
      /\ x.inToolQueue = s.state[t].inToolQueue
  BY <1>1 DEF StateType
<1> HIDE DEF a, r, x
<1>6. /\ a \in SimType /\ Sets(a, s, t, x) /\ a.seq = s.seq
      /\ SameQueues(a, s) /\ SameHeap(a, s) /\ SameCounts(a, s) /\ SameClock(a, s)
  BY <1>1, <1>2, <1>3, OneSet
<1>7. a.state[t] = x /\ OthersStay(a, s, t)
  BY <1>1, <1>6, SetsIs DEF OthersStay
<1>8. /\ r \in SimType /\ r.seq = s.seq /\ OthersStay(r, s, t)
      /\ r.state[t].phase = s.state[t].phase /\ r.state[t].readySeq = s.state[t].readySeq
      /\ r.state[t].end = "completed" /\ ~r.state[t].admitted
      /\ r.state[t].holdsRunning = s.state[t].holdsRunning
      /\ r.state[t].inToolQueue = s.state[t].inToolQueue
      /\ r.resident = s.resident - Bit(s.state[t].admitted) /\ r.running = s.running /\ r.tools = s.tools
      /\ SameQueues(r, s) /\ SameHeap(r, s) /\ SameClock(r, s)
  <2>1. CASE s.state[t].admitted
    <3>1. /\ r \in SimType /\ r.seq = a.seq /\ Sets(r, a, t, y)
          /\ r.resident = a.resident - 1 /\ r.running = a.running /\ r.tools = a.tools
          /\ SameQueues(r, a) /\ SameHeap(r, a) /\ SameClock(r, a)
      BY <2>1, <1>4, <1>5, <1>6, <1>7, ReleaseIs, ZenonT(60)
    <3>2. r.state[t] = y /\ \A u \in Task \ {t} : r.state[u] = a.state[u]
      BY <3>1, <1>6, SetsIs
    <3>3. /\ y.phase = x.phase /\ y.readySeq = x.readySeq /\ y.end = x.end /\ ~y.admitted
          /\ y.holdsRunning = x.holdsRunning /\ y.inToolQueue = x.inToolQueue
      BY <1>2, <1>7 DEF StateType
    <3> HIDE DEF y
    <3>4. OthersStay(r, s, t)
      BY <3>2, <1>7 DEF OthersStay
    <3>5. SameQueues(r, s) /\ SameHeap(r, s) /\ SameClock(r, s)
      BY <3>1, <1>6 DEF SameQueues, SameHeap, SameClock
    <3>6. /\ r.resident = s.resident - Bit(s.state[t].admitted) /\ r.running = s.running
          /\ r.tools = s.tools /\ r.seq = s.seq
      BY <3>1, <2>1, <1>6 DEF SameCounts, Bit
    <3> QED
      BY <3>1, <3>2, <3>3, <3>4, <3>5, <3>6, <1>5
  <2>2. CASE ~s.state[t].admitted
    <3>1. r = a
      BY <2>2, <1>4, <1>5, <1>7 DEF ReleaseResident
    <3> QED
      BY <3>1, <2>2, <1>1, <1>5, <1>6, <1>7 DEF SameCounts, Bit
  <2> QED
    BY <2>1, <2>2
<1>9. Fit(r, t, "ended")
  BY <1>8, HandIs DEF Fit
<1>10. /\ r.running = s.running + Bit(r.state[t].holdsRunning) - Bit(s.state[t].holdsRunning)
       /\ r.resident = s.resident + Bit(r.state[t].admitted) - Bit(s.state[t].admitted)
       /\ r.running <= config.MaxRunning /\ r.resident <= config.MaxResident
       /\ r.seq >= s.seq /\ r.state[t].readySeq <= r.seq
  BY <1>1, <1>8, HandIs DEF Bit
<1>11. "ended" \in Place \ EventKind
  BY DEF Place, EventKind
<1>12. Puts(r, s, t, "ended")
  BY ONLY <1>8, <1>9, <1>10, <1>11 DEF Puts, SameQueues
<1> QED
  BY <1>12, HandMoves DEF r

LEMMA HandPush ==
    ASSUME InputType, NEW s, NEW t \in Task, InHand(s, t),
           NEW k \in {"cpuDone", "waitDone"}, Fit(s, t, k)
    PROVE  AtRest(PushEvent(s, s.now + Duration(s, t), k, t))
<1> DEFINE r == PushEvent(s, s.now + Duration(s, t), k, t)
<1>1. PICK pl \in [Task -> Place], due \in [Task -> Nat] : Placed(s, pl, due) /\ At(pl, "hand") = {t}
  BY DEF InHand
<1>2. /\ s \in SimType /\ ~s.error /\ Standing(s, pl) /\ Queued(s, pl) /\ Ordered(s, pl)
      /\ Scheduled(s, pl, due) /\ Tallied(s, pl) /\ Ledger(s, pl, due)
  BY <1>1 DEF Placed
<1>3. pl[t] = "hand" /\ pl[t] \notin EventKind /\ k \in EventKind /\ k \in Place
  BY <1>1 DEF At, EventKind, Place
<1>4. Duration(s, t) \in Nat /\ s.now \in Nat /\ s.now + Duration(s, t) \in Nat
  BY <1>2, PhaseIs, SimFields DEF Fit
<1> DEFINE m == Moves(pl, t, k)
           d == [due EXCEPT ![t] = s.now + Duration(s, t)]
<1>5. d \in [Task -> Nat] /\ Scheduled(r, m, d) /\ Ledger(r, m, d)
  BY <1>2, <1>3, <1>4, PushMoves
<1>6. /\ r \in SimType /\ r.seq = s.seq + 1 /\ r.state = s.state
      /\ SameQueues(r, s) /\ SameCounts(r, s) /\ SameClock(r, s)
  BY <1>2, <1>3, <1>4, PushIs, SMTT(60)
<1> HIDE DEF r
<1>7. /\ m \in [Task -> Place] /\ At(m, k) = At(pl, k) \cup {t}
      /\ \A q : q # k => At(m, q) = At(pl, q) \ {t}
      /\ \A q : q # "hand" => t \notin At(pl, q)
  BY <1>3, AtMoves
<1>8. OthersStay(r, s, t) /\ r.state[t].readySeq <= r.seq /\ r.seq >= s.seq
  BY <1>2, <1>6, SimFields DEF OthersStay, Ordered
<1>9. Standing(r, m)
  BY <1>2, <1>3, <1>6, <1>8, FitSame, StandingMoves
<1>10. Ordered(r, m)
  <2>1. k \notin {"ready", "admission"}
    OBVIOUS
  <2> QED
    BY <2>1, <1>2, <1>3, <1>6, <1>8, OrderedMoves
<1> HIDE DEF m
<1>11. \A q \in {"ready", "admission", "toolQueue", "ioDone"} : At(m, q) = At(pl, q)
  <2> SUFFICES ASSUME NEW q \in {"ready", "admission", "toolQueue", "ioDone"} PROVE At(m, q) = At(pl, q)
    OBVIOUS
  <2>1. q # k /\ q # "hand"
    OBVIOUS
  <2>2. At(m, q) = At(pl, q) \ {t} /\ t \notin At(pl, q)
    BY <2>1, <1>7
  <2> QED
    BY <2>2
<1>12. Queued(r, m)
  BY <1>2, <1>6, <1>11 DEF Queued, SameQueues
<1>13. Tallied(r, m)
  <2>1. Holding(r) = Holding(s) /\ Admitted(r) = Admitted(s)
    BY <1>6 DEF Holding, Admitted
  <2> QED
    BY <2>1, <1>2, <1>6, <1>11 DEF Tallied, SameCounts
<1>14. Placed(r, m, d)
  BY <1>2, <1>5, <1>6, <1>9, <1>10, <1>12, <1>13 DEF Placed, SameClock
<1>15. At(m, "hand") = {}
  BY <1>1, <1>7
<1> QED
  BY <1>5, <1>7, <1>14, <1>15 DEF AtRest, r

\* advance.
LEMMA HandAdvance ==
    ASSUME InputType, NEW s, NEW t \in Task, InHand(s, t),
           ~s.state[t].holdsRunning, ~s.state[t].inToolQueue,
           ~s.state[t].admitted /\ ~Over(s, t) => Kind(s, t) = "cpu"
    PROVE  AtRest(Advance(s, t))
<1>1. /\ s \in SimType /\ s.state[t] \in StateType /\ s.state[t].phase \in Nat
      /\ s.state[t].admitted \in BOOLEAN /\ s.state[t].end = "none"
  BY HandIs, SimFields
<1>2. (s.state[t].phase > 1) \in BOOLEAN
  BY <1>1
<1>3. CASE Over(s, t)
  BY <1>3, HandComplete DEF Advance
<1>4. CASE ~Over(s, t) /\ ~s.state[t].admitted
  <2>1. Advance(s, t) = EnqueueAdmission(s, t, s.state[t].phase > 1)
    BY <1>4 DEF Advance
  <2> QED
    BY <2>1, <1>2, <1>4, HandAdmission
<1>5. CASE ~Over(s, t) /\ s.state[t].admitted
  <2>0. Kind(s, t) \in PhaseKind
    BY <1>1, <1>5, PhaseIs
  <2>1. CASE Kind(s, t) = "cpu"
    <3>1. Advance(s, t) = EnqueueReady(s, t, s.state[t].phase > 1)
      BY <1>5, <2>1 DEF Advance
    <3> QED
      BY <3>1, <2>1, <1>2, <1>5, HandReady
  <2>2. CASE Kind(s, t) = "external_io" /\ ~config.LiveIO
    <3>1. Advance(s, t) = EnqueueReady(s, t, TRUE)
      BY <1>5, <2>2 DEF Advance
    <3> QED
      BY <3>1, <2>2, <1>5, HandReady
  <2>3. CASE Kind(s, t) = "external_io" /\ config.LiveIO
    <3> DEFINE a == [s EXCEPT !.state[t].continuation = TRUE]
               x == [s.state[t] EXCEPT !.continuation = TRUE]
    <3>1. Advance(s, t) = EnqueueTool(a, t)
      BY <1>5, <2>3 DEF Advance
    <3>2. x \in StateType
      BY <1>1, StateFields
    <3>3. a = [s EXCEPT !.state = [s.state EXCEPT ![t] = x]]
      BY <1>1 DEF SimType
    <3>4. /\ x.phase = s.state[t].phase /\ x.readySeq = s.state[t].readySeq /\ x.end = s.state[t].end
          /\ x.admitted = s.state[t].admitted /\ x.holdsRunning = s.state[t].holdsRunning
          /\ x.inToolQueue = s.state[t].inToolQueue
      BY <1>1 DEF StateType
    <3> HIDE DEF a, x
    <3>5. /\ a \in SimType /\ Sets(a, s, t, x) /\ a.seq = s.seq
          /\ SameQueues(a, s) /\ SameHeap(a, s) /\ SameCounts(a, s) /\ SameClock(a, s)
      BY <1>1, <3>2, <3>3, OneSet
    <3>6. a.state[t] = x /\ OthersStay(a, s, t)
      BY <1>1, <3>5, SetsIs DEF OthersStay
    <3>7. /\ a.running = s.running + Bit(a.state[t].holdsRunning) - Bit(s.state[t].holdsRunning)
          /\ a.resident = s.resident + Bit(a.state[t].admitted) - Bit(s.state[t].admitted)
          /\ a.running <= config.MaxRunning /\ a.resident <= config.MaxResident /\ a.tools = s.tools
          /\ a.seq >= s.seq /\ a.state[t].readySeq <= a.seq /\ a.state[t].phase = s.state[t].phase
      BY <1>1, <3>4, <3>5, <3>6, HandIs, SimFields DEF SameCounts, Bit
    <3>8. Fit(a, t, "hand") /\ "hand" \in Place \ EventKind
      BY <1>1, <3>4, <3>6, HandIs DEF Fit, Place, EventKind
    <3>9. Puts(a, s, t, "hand")
      BY ONLY <3>5, <3>6, <3>7, <3>8 DEF Puts, SameQueues
    <3>10. InHand(a, t)
      BY <3>9, HandMoves
    <3>11. ~Over(a, t) /\ Kind(a, t) = "external_io" /\ a.state[t].admitted /\ ~a.state[t].holdsRunning
      BY <3>4, <3>6, <2>3, <1>5, SamePhase
    <3> QED
      BY <3>1, <3>10, <3>11, <2>3, HandTool
  <2>4. CASE Kind(s, t) = "durable_wait"
    <3> DEFINE a == ReleaseResident(s, t)
    <3>1. Advance(s, t) = PushEvent(a, s.now + Duration(s, t), "waitDone", t)
      BY <1>5, <2>4 DEF Advance
    <3>2. /\ InHand(a, t) /\ ~a.state[t].admitted /\ a.now = s.now
          /\ a.state[t].phase = s.state[t].phase
          /\ a.state[t].holdsRunning = s.state[t].holdsRunning
          /\ a.state[t].inToolQueue = s.state[t].inToolQueue
      BY <1>5, HandRelease
    <3> HIDE DEF a
    <3>3. ~Over(a, t) /\ Kind(a, t) = Kind(s, t) /\ Duration(a, t) = Duration(s, t)
      BY <3>2, <1>5, SamePhase
    <3>4. a.state[t].end = "none"
      BY <3>2, HandIs
    <3>5. Fit(a, t, "waitDone")
      BY <3>2, <3>3, <3>4, <2>4, HandIs DEF Fit
    <3> QED
      BY <3>1, <3>2, <3>3, <3>5, HandPush
  <2> QED
    BY <2>0, <2>1, <2>2, <2>3, <2>4 DEF PhaseKind
<1> QED
  BY <1>3, <1>4, <1>5

-----------------------------------------------------------------------------
(* An event is handled. *)

LEMMA BehindSums ==
    ASSUME InputType, NEW s \in SimType, NEW t \in Task, NEW k,
           s.state[t].phase <= Len(task[t].phases) + 1
    PROVE  Summable(Behind(s, t, k)) /\ Spent(s, t, k) \in Nat
<1> DEFINE n == s.state[t].phase
           I == {i \in 1 .. n - 1 : task[t].phases[i].kind = k}
<1>1. task[t].phases \in Seq([kind : PhaseKind, duration : Nat]) /\ n \in Nat \ {0}
  BY InputIs, SimFields
<1>2. \A i \in 1 .. n - 1 : i \in 1 .. Len(task[t].phases)
  BY <1>1
<1>3. ASSUME NEW i \in 1 .. n - 1 PROVE task[t].phases[i].duration \in Nat
  <2>1. task[t].phases[i] \in [kind : PhaseKind, duration : Nat]
    BY <1>1, <1>2, ElementOfSeq
  <2> QED
    BY <2>1
<1>4. IsFiniteSet(1 .. n - 1)
  BY <1>1, FS_Interval
<1>5. IsFiniteSet(I)
  BY <1>4, FS_Subset
<1>6. DOMAIN Behind(s, t, k) = I
      /\ \A i \in I : Behind(s, t, k)[i] = task[t].phases[i].duration
  BY DEF Behind
<1>7. Summable(Behind(s, t, k))
  BY <1>3, <1>5, <1>6 DEF Summable
<1> QED
  BY <1>7, TotalType DEF Spent

\* A phase is over: its time is spent.
LEMMA SpentNext ==
    ASSUME InputType, NEW s \in SimType, NEW r \in SimType, NEW t \in Task, NEW k, ~Over(s, t),
           r.state[t].phase = s.state[t].phase + 1
    PROVE  /\ Spent(s, t, k) \in Nat
           /\ Spent(r, t, k) = Spent(s, t, k) + (IF Kind(s, t) = k THEN Duration(s, t) ELSE 0)
<1> DEFINE n == s.state[t].phase
           f == Behind(s, t, k)
           g == Behind(r, t, k)
<1>1. n \in Nat \ {0} /\ Len(task[t].phases) \in Nat /\ n <= Len(task[t].phases)
  BY InputIs, SimFields DEF Over
<1>2. Kind(s, t) = task[t].phases[n].kind /\ Duration(s, t) = task[t].phases[n].duration
      /\ Duration(s, t) \in Nat
  BY PhaseIs DEF Kind, Duration
<1>3. Summable(f) /\ Spent(s, t, k) \in Nat
  BY <1>1, BehindSums
<1>4. \A i : i \in DOMAIN f <=> i \in 1 .. n - 1 /\ task[t].phases[i].kind = k
  BY DEF Behind
<1>5. \A i : i \in DOMAIN g <=> i \in 1 .. n /\ task[t].phases[i].kind = k
  BY <1>1 DEF Behind
<1>6. /\ \A i \in DOMAIN f : f[i] = task[t].phases[i].duration
      /\ \A i \in DOMAIN g : g[i] = task[t].phases[i].duration
  BY DEF Behind
<1> HIDE DEF f, g, n
<1>7. n \notin DOMAIN f /\ DOMAIN g \ {n} = DOMAIN f \ {n} /\ (n \in DOMAIN g <=> Kind(s, t) = k)
  BY <1>1, <1>2, <1>4, <1>5
<1>8. (n \in DOMAIN g => g[n] = Duration(s, t)) /\ \A i \in DOMAIN g \ {n} : g[i] = f[i]
  BY <1>2, <1>6, <1>7
<1>9. Summable(g) /\ Total(g) + Share(f, n) = Total(f) + Share(g, n)
  BY <1>2, <1>3, <1>7, <1>8, TotalChange
<1>10. Share(f, n) = 0 /\ Share(g, n) = IF Kind(s, t) = k THEN Duration(s, t) ELSE 0
  BY <1>7, <1>8 DEF Share
<1>11. Total(f) \in Nat /\ Total(g) \in Nat
  BY <1>3, <1>9, TotalType
<1>12. Spent(s, t, k) = Total(f) /\ Spent(r, t, k) = Total(g)
  BY DEF Spent, f, g
<1> QED
  BY <1>2, <1>9, <1>10, <1>11, <1>12

\* a is s with e taken from the batch, and e's task in hand; if e is not its
\* arrival, a phase of the task has ended.
Takes(a, s, e) ==
    LET t == e.task  x == s.state[e.task]  y == a.state[e.task] IN
    /\ a \in SimType /\ OthersStay(a, s, t) /\ SameQueues(a, s) /\ SameClock(a, s)
    /\ a.events = s.events /\ a.batch = s.batch \ {e} /\ a.seq = s.seq
    /\ a.running = s.running /\ a.resident = s.resident
    /\ a.tools = s.tools - Bit(e.kind = "ioDone")
    /\ y.phase = (IF e.kind = "arrival" THEN x.phase ELSE x.phase + 1)
    /\ y.end = x.end /\ y.readySeq = x.readySeq
    /\ y.admitted = x.admitted /\ y.holdsRunning = x.holdsRunning

LEMMA EventIs ==
    ASSUME InputType, NEW s, NEW pl \in [Task -> Place], NEW due, Placed(s, pl, due), NEW e \in s.batch
    PROVE  /\ s \in SimType /\ e \in EventType /\ e.task \in Task /\ e.kind \in EventKind
           /\ e \in Pending(s) /\ pl[e.task] = e.kind /\ due[e.task] = s.now /\ e.at = s.now
           /\ e.phase = s.state[e.task].phase /\ Fit(s, e.task, e.kind) /\ ~Over(s, e.task)
           /\ s.state[e.task].end = "none"
<1>1. s \in SimType /\ Scheduled(s, pl, due) /\ Standing(s, pl)
  BY DEF Placed
<1>2. e \in EventType /\ e \in Pending(s)
  BY <1>1, SimFields DEF Pending
<1>3. e.task \in Task /\ e.kind \in EventKind
  BY <1>2 DEF EventType
<1>4. /\ pl[e.task] = e.kind /\ due[e.task] = s.now /\ e.at = s.now
      /\ e.phase = s.state[e.task].phase
  BY <1>1, <1>2 DEF Scheduled
<1>5. Fit(s, e.task, e.kind)
  BY <1>1, <1>3, <1>4 DEF Standing
<1>6. ~Over(s, e.task) /\ s.state[e.task].end = "none"
  BY <1>3, <1>5 DEF Fit, EventKind
<1> QED
  BY <1>1, <1>2, <1>3, <1>4, <1>5, <1>6

LEMMA TakenScheduled ==
    ASSUME InputType, NEW s, NEW pl \in [Task -> Place], NEW due \in [Task -> Nat], Placed(s, pl, due),
           NEW e \in s.batch, NEW a, Takes(a, s, e)
    PROVE  Scheduled(a, Moves(pl, e.task, "hand"), due)
<1> DEFINE t == e.task
           m == Moves(pl, t, "hand")
<1>1. Scheduled(s, pl, due)
  BY DEF Placed
<1>2. t \in Task /\ e \in Pending(s) /\ "hand" \in Place /\ "hand" \notin EventKind /\ s \in SimType
  BY EventIs DEF Place, EventKind
<1>3. m[t] = "hand" /\ \A u \in Task \ {t} : m[u] = pl[u]
  BY <1>2 DEF Moves
<1> HIDE DEF m
<1>4. /\ a.events = s.events /\ a.batch = s.batch \ {e} /\ a.now = s.now
      /\ \A u \in Task \ {t} : a.state[u] = s.state[u]
  BY DEF Takes, SameClock, OthersStay
<1>5. Pending(a) = Pending(s) \ {e}
  BY <1>1, <1>4 DEF Pending, Scheduled
<1>6. \A f \in Pending(a) : f \in Pending(s) /\ f.task \in Task /\ f.task # t
  <2>1. \A f \in Pending(s) : f \in EventType
    BY <1>2, SimFields DEF Pending
  <2>2. \A f \in Pending(s) : f.task \in Task
    BY <2>1 DEF EventType
  <2> QED
    BY <2>2, <1>1, <1>2, <1>5 DEF Scheduled
<1>7. \A u \in Task \ {t} : Duration(a, u) = Duration(s, u)
  BY <1>4 DEF Duration
<1>8. \A f \in Pending(a) : m[f.task] = f.kind /\ due[f.task] = f.at /\ f.phase = a.state[f.task].phase
  BY <1>1, <1>3, <1>4, <1>6 DEF Scheduled
<1>9. \A f, g \in Pending(a) : f.task = g.task => f = g
  BY <1>1, <1>6 DEF Scheduled
<1>10. ASSUME NEW u \in Task, m[u] \in EventKind
       PROVE  /\ \E f \in Pending(a) : f.task = u
              /\ due[u] >= a.now
              /\ m[u] # "arrival" => due[u] <= a.now + Duration(a, u)
  <2>1. u # t /\ m[u] = pl[u]
    BY <1>2, <1>3, <1>10
  <2>2. PICK f \in Pending(s) : f.task = u
    BY <2>1, <1>1, <1>10 DEF Scheduled
  <2>3. f \in Pending(a)
    BY <2>1, <2>2, <1>5
  <2> QED
    BY <2>1, <2>2, <2>3, <1>1, <1>4, <1>7, <1>10 DEF Scheduled
<1>11. \A f \in a.batch : f.at = a.now /\ f \notin a.events
  BY <1>1, <1>4 DEF Scheduled
<1> QED
  BY <1>8, <1>9, <1>10, <1>11 DEF Scheduled, m

LEMMA TakenLedger ==
    ASSUME InputType, NEW s, NEW pl \in [Task -> Place], NEW due \in [Task -> Nat], Placed(s, pl, due),
           NEW e \in s.batch, NEW a, Takes(a, s, e)
    PROVE  Ledger(a, Moves(pl, e.task, "hand"), due)
<1> DEFINE t == e.task
           k == e.kind
           m == Moves(pl, t, "hand")
<1>1. /\ s \in SimType /\ t \in Task /\ k \in EventKind /\ pl[t] = k /\ due[t] = s.now
      /\ Fit(s, t, k) /\ ~Over(s, t) /\ "hand" \in Place
  BY EventIs, ZenonT(60) DEF Place
<1>2. m[t] = "hand" /\ \A u \in Task \ {t} : m[u] = pl[u]
  BY <1>1, AtMoves
<1> HIDE DEF m
<1>3. /\ a \in SimType /\ a.now = s.now /\ a.toolTime = s.toolTime /\ a.slotTime = s.slotTime
      /\ \A u \in Task \ {t} : a.state[u] = s.state[u]
      /\ a.state[t].phase = IF k = "arrival" THEN s.state[t].phase ELSE s.state[t].phase + 1
  BY DEF Takes, SameClock, OthersStay
<1>4. Duration(s, t) \in Nat /\ s.now \in Nat
  BY <1>1, PhaseIs, SimFields
<1>5. \A K : Elapsed(s, pl, due, t, K) = IF k \in K THEN Duration(s, t) ELSE 0
  BY <1>1, <1>4 DEF Elapsed
<1>6. ASSUME NEW K, K \subseteq EventKind PROVE Elapsed(a, m, due, t, K) = 0
  BY <1>2, <1>6 DEF Elapsed, EventKind
<1>7. ASSUME NEW u \in Task \ {t}
      PROVE  /\ \A K : Elapsed(a, m, due, u, K) = Elapsed(s, pl, due, u, K)
             /\ \A c : Spent(a, u, c) = Spent(s, u, c)
  BY <1>2, <1>3 DEF Elapsed, Duration, Spent, Behind
<1>8. \A c : Spent(s, t, c) \in Nat /\ Spent(a, t, c) = Spent(s, t, c)
                  + (IF k # "arrival" /\ Kind(s, t) = c THEN Duration(s, t) ELSE 0)
  <2> SUFFICES ASSUME NEW c
               PROVE  Spent(s, t, c) \in Nat /\ Spent(a, t, c) = Spent(s, t, c)
                        + (IF k # "arrival" /\ Kind(s, t) = c THEN Duration(s, t) ELSE 0)
    OBVIOUS
  <2>1. CASE k # "arrival"
    BY <2>1, <1>1, <1>3, SpentNext
  <2>2. CASE k = "arrival"
    <3>1. Spent(a, t, c) = Spent(s, t, c)
      BY <2>2, <1>3 DEF Spent, Behind
    <3>2. Spent(s, t, c) \in Nat
      <4>1. s.state[t].phase <= Len(task[t].phases) + 1
        BY <1>1 DEF Fit
      <4> QED
        BY <4>1, <1>1, BehindSums
    <3> QED
      BY <3>1, <3>2, <2>2
  <2> QED
    BY <2>1, <2>2
<1>9. /\ {"ioDone"} \subseteq EventKind /\ SlotKinds \subseteq EventKind
      /\ config.LiveIO \in BOOLEAN
  BY InputIs DEF EventKind, SlotKinds
<1>10. /\ k = "ioDone" => Kind(s, t) = "external_io"
       /\ k = "cpuDone" => Kind(s, t) = "cpu"
       /\ k = "waitDone" => Kind(s, t) = "durable_wait"
  BY <1>1 DEF Fit
<1> HIDE DEF t, k
<1>11. Spent(a, t, "external_io") + Elapsed(a, m, due, t, {"ioDone"})
        = Spent(s, t, "external_io") + Elapsed(s, pl, due, t, {"ioDone"})
  <2>1. Elapsed(a, m, due, t, {"ioDone"}) = 0
    BY <1>6, <1>9
  <2> QED
    BY <2>1, <1>1, <1>4, <1>5, <1>8, <1>10 DEF EventKind
<1>12. Spent(a, t, "cpu") + (IF config.LiveIO THEN 0 ELSE Spent(a, t, "external_io"))
                    + Elapsed(a, m, due, t, SlotKinds)
        = Spent(s, t, "cpu") + (IF config.LiveIO THEN 0 ELSE Spent(s, t, "external_io"))
                    + Elapsed(s, pl, due, t, SlotKinds)
  <2>1. Elapsed(a, m, due, t, SlotKinds) = 0
    BY <1>6, <1>9
  <2>2. CASE config.LiveIO
    BY <2>1, <2>2, <1>1, <1>4, <1>5, <1>8, <1>10 DEF EventKind, SlotKinds
  <2>3. CASE ~config.LiveIO
    BY <2>1, <2>3, <1>1, <1>4, <1>5, <1>8, <1>10 DEF EventKind, SlotKinds
  <2> QED
    BY <2>2, <2>3
<1>13. ToolUse(a, m, due) = ToolUse(s, pl, due)
  BY <1>7, <1>11 DEF ToolUse
<1>14. SlotUse(a, m, due) = SlotUse(s, pl, due)
  BY <1>7, <1>12 DEF SlotUse
<1>15. Ledger(s, pl, due)
  BY DEF Placed
<1> QED
  BY <1>3, <1>13, <1>14, <1>15 DEF Ledger, m, t

LEMMA TakenHand ==
    ASSUME InputType, NEW s, AtRest(s), NEW e \in s.batch, NEW a, Takes(a, s, e)
    PROVE  InHand(a, e.task)
<1>1. PICK pl \in [Task -> Place], due \in [Task -> Nat] : Placed(s, pl, due) /\ At(pl, "hand") = {}
  BY DEF AtRest
<1> DEFINE t == e.task
           m == Moves(pl, t, "hand")
<1>2. /\ s \in SimType /\ t \in Task /\ e.kind \in EventKind /\ pl[t] = e.kind
      /\ Fit(s, t, e.kind) /\ ~Over(s, t) /\ s.state[t].end = "none" /\ "hand" \in Place
  BY <1>1, EventIs, ZenonT(60) DEF Place
<1>3. Scheduled(a, m, due)
  BY <1>1, TakenScheduled
<1>4. Ledger(a, m, due)
  BY <1>1, TakenLedger
<1>5. /\ m \in [Task -> Place] /\ At(m, "hand") = At(pl, "hand") \cup {t}
      /\ \A q : q # "hand" => At(m, q) = At(pl, q) \ {t}
      /\ \A q : q # e.kind => t \notin At(pl, q)
  BY <1>2 DEF Moves, At
<1>6. /\ a \in SimType /\ OthersStay(a, s, t) /\ SameQueues(a, s) /\ SameClock(a, s)
      /\ a.seq = s.seq /\ a.running = s.running /\ a.resident = s.resident
      /\ a.tools = s.tools - Bit(e.kind = "ioDone")
      /\ a.state[t].phase = (IF e.kind = "arrival" THEN s.state[t].phase ELSE s.state[t].phase + 1)
      /\ a.state[t].end = "none" /\ a.state[t].readySeq = s.state[t].readySeq
      /\ a.state[t].admitted = s.state[t].admitted
      /\ a.state[t].holdsRunning = s.state[t].holdsRunning
  BY <1>2 DEF Takes
<1> HIDE DEF t
<1>7. /\ ~s.error /\ Standing(s, pl) /\ Queued(s, pl) /\ Ordered(s, pl) /\ Tallied(s, pl)
  BY <1>1 DEF Placed
<1>8. Fit(a, t, "hand")
  <2>1. s.state[t].phase \in Nat /\ Len(task[t].phases) \in Nat
    BY <1>2, SimFields, InputIs
  <2>2. a.state[t].phase <= Len(task[t].phases) + 1
    BY <2>1, <1>2, <1>6 DEF Over
  <2> QED
    BY <2>2, <1>6 DEF Fit
<1>9. Standing(a, m)
  BY <1>2, <1>6, <1>7, <1>8, StandingMoves
<1>10. Ordered(a, m)
  <2>1. a.state[t].readySeq <= a.seq /\ a.seq >= s.seq
    BY <1>2, <1>6, <1>7, SimFields DEF Ordered
  <2> QED
    BY <2>1, <1>2, <1>6, <1>7, OrderedMoves
<1> HIDE DEF m
<1>11. \A q \in {"ready", "admission", "toolQueue"} : At(m, q) = At(pl, q)
  <2> SUFFICES ASSUME NEW q \in {"ready", "admission", "toolQueue"} PROVE At(m, q) = At(pl, q)
    OBVIOUS
  <2>1. q # e.kind /\ q # "hand"
    BY <1>2 DEF EventKind
  <2>2. At(m, q) = At(pl, q) \ {t} /\ t \notin At(pl, q)
    BY <2>1, <1>5
  <2> QED
    BY <2>2
<1>12. Queued(a, m)
  BY <1>6, <1>7, <1>11 DEF Queued, SameQueues
<1>13. Tallied(a, m)
  <2>1. a.running = Cardinality(Holding(a)) /\ a.resident = Cardinality(Admitted(a))
    <3>1. /\ Cardinality(Holding(a)) = Cardinality(Holding(s)) + Bit(a.state[t].holdsRunning)
                                       - Bit(s.state[t].holdsRunning)
          /\ Cardinality(Admitted(a)) = Cardinality(Admitted(s)) + Bit(a.state[t].admitted)
                                        - Bit(s.state[t].admitted)
      BY <1>2, <1>6, FlagsCount
    <3>2. s.running \in Int /\ s.resident \in Int
      BY <1>2, SimFields
    <3> QED
      BY <3>1, <3>2, <1>6, <1>7 DEF Tallied, Bit
  <2>2. At(m, "ioDone") = At(pl, "ioDone") \ {t}
    BY <1>5
  <2>3. t \in At(pl, "ioDone") <=> e.kind = "ioDone"
    BY <1>2 DEF At
  <2>4. IsFiniteSet(At(pl, "ioDone"))
    BY InputIs, FS_Subset DEF At
  <2>5. /\ Cardinality(At(pl, "ioDone")) \in Nat
        /\ Cardinality(At(m, "ioDone")) = Cardinality(At(pl, "ioDone")) - Bit(e.kind = "ioDone")
    <3>1. Cardinality(At(pl, "ioDone")) \in Nat
          /\ Cardinality(At(m, "ioDone")) = Cardinality(At(pl, "ioDone"))
                + Bit(t \in At(m, "ioDone")) - Bit(t \in At(pl, "ioDone"))
      <4>1. At(pl, "ioDone") \ {t} = At(m, "ioDone") \ {t}
        BY <2>2
      <4> QED
        BY <4>1, <2>4, CardMoves
    <3> QED
      BY <3>1, <2>2, <2>3 DEF Bit
  <2>6. config.MaxInflightTools \in Nat
    BY InputIs
  <2> QED
    BY <2>1, <2>5, <2>6, <1>6, <1>7 DEF Tallied, Bit
<1>14. Placed(a, m, due)
  BY <1>3, <1>4, <1>6, <1>7, <1>9, <1>10, <1>12, <1>13 DEF Placed, SameClock
<1> QED
  BY <1>1, <1>5, <1>14 DEF InHand, t

\* What becomes of the record when the event leaves the batch, and of the state
\* of its task when a phase ends.
LEMMA BatchIs ==
    ASSUME NEW s \in SimType, NEW e, NEW r, r = [s EXCEPT !.batch = @ \ {e}]
    PROVE  /\ r \in SimType /\ r.batch = s.batch \ {e} /\ r.events = s.events /\ r.state = s.state
           /\ r.seq = s.seq /\ SameQueues(r, s) /\ SameCounts(r, s) /\ SameClock(r, s)
<1>1. s.batch \ {e} \in SUBSET EventType
  BY SimFields
<1>2. r = [s EXCEPT !.batch = s.batch \ {e}]
  OBVIOUS
<1>3. r \in SimType
  BY <1>1, <1>2 DEF SimType
<1> QED
  BY <1>2, <1>3 DEF SimType, SameQueues, SameCounts, SameClock

LEMMA PhaseEnds ==
    ASSUME NEW s \in SimType, NEW t \in Task, NEW r, r = [s EXCEPT !.state[t].phase = @ + 1]
    PROVE  /\ r \in SimType /\ Sets(r, s, t, [s.state[t] EXCEPT !.phase = s.state[t].phase + 1])
           /\ r.seq = s.seq
           /\ SameQueues(r, s) /\ SameHeap(r, s) /\ SameCounts(r, s) /\ SameClock(r, s)
<1> DEFINE x == [s.state[t] EXCEPT !.phase = s.state[t].phase + 1]
<1>1. x \in StateType
  BY SimFields, StateFields
<1>2. r = [s EXCEPT !.state = [s.state EXCEPT ![t] = x]]
  BY SimFields DEF SimType
<1> HIDE DEF x
<1>3. /\ r \in SimType /\ Sets(r, s, t, x) /\ r.seq = s.seq
      /\ SameQueues(r, s) /\ SameHeap(r, s) /\ SameCounts(r, s) /\ SameClock(r, s)
  BY <1>1, <1>2, OneSet
<1> QED
  BY <1>3 DEF x

LEMMA ToolEnds ==
    ASSUME NEW s \in SimType, NEW t \in Task,
           NEW r, r = ToolReturned(s, t),
           NEW x, x = [s.state[t] EXCEPT !.phase = s.state[t].phase + 1, !.inToolQueue = FALSE]
    PROVE  /\ r \in SimType /\ Sets(r, s, t, x)
           /\ r.seq = s.seq /\ r.tools = s.tools - 1 /\ r.running = s.running /\ r.resident = s.resident
           /\ SameQueues(r, s) /\ SameHeap(r, s) /\ SameClock(r, s)
<1> DEFINE y == [s.state[t] EXCEPT !.phase = s.state[t].phase + 1]
           z == [y EXCEPT !.inToolQueue = FALSE]
           q == [s.state EXCEPT ![t] = z]
<1>1. s.tools - 1 \in Int /\ s.state[t] \in StateType /\ s.state \in [Task -> StateType]
  BY SimFields
<1>2. y \in StateType
  BY <1>1, StateFields
<1>3. z \in StateType
  BY <1>2, StateFields
<1>4. q \in [Task -> StateType]
  BY <1>1, <1>3
<1>5. [[s.state EXCEPT ![t].phase = s.state[t].phase + 1] EXCEPT ![t].inToolQueue = FALSE] = q
  BY <1>1 DEF StateType
<1>6. r = [s EXCEPT !.state = q, !.tools = s.tools - 1]
  BY <1>5, <1>1 DEF SimType, ToolReturned
<1>7. z = x
  OBVIOUS
<1> HIDE DEF q, z
<1>8. r \in SimType
  BY <1>1, <1>4, <1>6 DEF SimType
<1> QED
  BY <1>3, <1>6, <1>7, <1>8 DEF SimType, SameQueues, SameHeap, SameClock, Sets, q

\* The next phase of a task that waited is a CPU phase, by validateSimulation.
LEMMA CPUAfterWait ==
    ASSUME InputType, NEW s \in SimType, NEW r, NEW t \in Task, ~Over(s, t), Kind(s, t) = "durable_wait",
           r.state[t].phase = s.state[t].phase + 1, ~Over(r, t)
    PROVE  Kind(r, t) = "cpu"
<1>1. s.state[t].phase \in DOMAIN task[t].phases /\ Valid(task[t].phases)
      /\ Len(task[t].phases) \in Nat /\ s.state[t].phase \in Nat
  BY PhaseIs, InputIs, SimFields
<1>2. s.state[t].phase < Len(task[t].phases)
  BY <1>1 DEF Over
<1> QED
  BY <1>1, <1>2 DEF Valid, Kind

\* handle: the event's task goes where its next phase wants it, and no event is stale.
LEMMA EventHandled ==
    ASSUME InputType, NEW s, AtRest(s), NEW e \in s.batch
    PROVE  AtRest(HandleEvent([s EXCEPT !.batch = @ \ {e}], e))
<1> DEFINE b == [s EXCEPT !.batch = @ \ {e}]
           t == e.task
           k == e.kind
<1>1. PICK pl \in [Task -> Place], due \in [Task -> Nat] : Placed(s, pl, due) /\ At(pl, "hand") = {}
  BY DEF AtRest
<1>2. /\ s \in SimType /\ e \in EventType /\ t \in Task /\ k \in EventKind
      /\ e.phase = s.state[t].phase /\ Fit(s, t, k) /\ ~Over(s, t) /\ s.state[t].end = "none"
  BY <1>1, EventIs
<1>3. /\ b \in SimType /\ b.batch = s.batch \ {e} /\ b.events = s.events /\ b.state = s.state
      /\ b.seq = s.seq /\ SameQueues(b, s) /\ SameCounts(b, s) /\ SameClock(b, s)
  BY <1>2, BatchIs
<1> HIDE DEF b
<1>4. /\ s.state[t] \in StateType /\ s.tools \in Int /\ s.state[t].phase \in Nat
      /\ s.state[t].admitted \in BOOLEAN /\ s.state[t].holdsRunning \in BOOLEAN
      /\ config.LiveIO \in BOOLEAN
  BY <1>2, SimFields, InputIs
<1>5. ~Stale(b, e)
  BY <1>2, <1>3 DEF Stale, Fit
<1>6. HandleEvent(b, e) = CASE k = "arrival"  -> EnqueueAdmission(b, t, FALSE)
                            [] k = "cpuDone"  -> HandleCPUDone(b, t)
                            [] k = "ioDone"   -> HandleIODone(b, t)
                            [] k = "waitDone" -> HandleWaitDone(b, t)
  BY <1>2, <1>3, <1>5 DEF HandleEvent
<1>7. CASE k = "arrival"
  <2>1. HandleEvent(b, e) = EnqueueAdmission(b, t, FALSE)
    BY <1>6, <1>7
  <2>2. Takes(b, s, e)
    BY <1>2, <1>3, <1>4, <1>7 DEF Takes, OthersStay, SameCounts, Bit
  <2>3. InHand(b, t)
    BY <2>2, TakenHand
  <2>4. /\ ~b.state[t].admitted /\ ~b.state[t].holdsRunning /\ ~b.state[t].inToolQueue
        /\ ~Over(b, t) /\ Kind(b, t) = "cpu"
    BY <1>2, <1>3, <1>7, SamePhase DEF Fit
  <2> QED
    BY <2>1, <2>3, <2>4, <1>2, HandAdmission DEF b
<1>8. ASSUME k \in {"cpuDone", "waitDone"}, NEW n, n = [b EXCEPT !.state[t].phase = @ + 1]
      PROVE  /\ InHand(n, t) /\ n.state[t].phase = s.state[t].phase + 1
             /\ n.state[t].admitted = s.state[t].admitted
             /\ n.state[t].holdsRunning = s.state[t].holdsRunning
             /\ n.state[t].inToolQueue = s.state[t].inToolQueue
  <2> DEFINE x == [b.state[t] EXCEPT !.phase = b.state[t].phase + 1]
  <2>1. /\ n \in SimType /\ Sets(n, b, t, x) /\ n.seq = b.seq
        /\ SameQueues(n, b) /\ SameHeap(n, b) /\ SameCounts(n, b) /\ SameClock(n, b)
    BY <1>2, <1>3, <1>8, PhaseEnds
  <2> HIDE DEF x
  <2>2. n.state[t] = x /\ OthersStay(n, b, t)
    BY <2>1, <1>2, <1>3, SetsIs, SMTT(60) DEF OthersStay
  <2>3. /\ x.phase = s.state[t].phase + 1 /\ x.end = s.state[t].end
        /\ x.readySeq = s.state[t].readySeq /\ x.admitted = s.state[t].admitted
        /\ x.holdsRunning = s.state[t].holdsRunning /\ x.inToolQueue = s.state[t].inToolQueue
    BY <1>3, <1>4 DEF StateType, x
  <2>4. OthersStay(n, s, t)
    BY <2>2, <1>3 DEF OthersStay
  <2>5. SameQueues(n, s) /\ SameClock(n, s) /\ n.events = s.events /\ n.batch = s.batch \ {e}
        /\ n.running = s.running /\ n.resident = s.resident /\ n.tools = s.tools /\ n.seq = s.seq
    BY <2>1, <1>3 DEF SameQueues, SameClock, SameHeap, SameCounts
  <2>6. k # "arrival" /\ Bit(k = "ioDone") = 0
    BY <1>8 DEF Bit
  <2>7. n.tools = s.tools - Bit(k = "ioDone")
    BY <2>5, <2>6, <1>4
  <2>8. Takes(n, s, e)
    BY <2>1, <2>2, <2>3, <2>4, <2>5, <2>6, <2>7 DEF Takes
  <2>9. InHand(n, t)
    BY <2>8, TakenHand
  <2> QED
    BY <2>2, <2>3, <2>9
<1>9. CASE k = "cpuDone"
  <2> DEFINE n == [b EXCEPT !.state[t].phase = @ + 1]
             g == GiveBackRunning(n, t)
  <2>1. HandleEvent(b, e) = HandleCPUDone(b, t)
    BY <1>6, <1>9
  <2>2. HandleCPUDone(b, t) = IF ~Over(n, t) /\ Kind(n, t) = "external_io" /\ ~config.LiveIO
                              THEN EnqueueTool(n, t) ELSE Advance(g, t)
    BY DEF HandleCPUDone
  <2>3. /\ InHand(n, t) /\ n.state[t].phase = s.state[t].phase + 1
        /\ n.state[t].admitted /\ n.state[t].holdsRunning /\ ~n.state[t].inToolQueue
    BY <1>2, <1>8, <1>9 DEF Fit
  <2> HIDE DEF n
  <2>4. CASE ~Over(n, t) /\ Kind(n, t) = "external_io" /\ ~config.LiveIO
    BY <2>1, <2>2, <2>3, <2>4, <1>2, HandTool DEF b
  <2>5. CASE ~(~Over(n, t) /\ Kind(n, t) = "external_io" /\ ~config.LiveIO)
    <3>1. /\ InHand(g, t) /\ ~g.state[t].holdsRunning /\ g.state[t].admitted /\ ~g.state[t].inToolQueue
      BY <2>3, <1>2, HandGiveBack
    <3> HIDE DEF g
    <3>2. AtRest(Advance(g, t))
      BY <3>1, <1>2, HandAdvance
    <3> QED
      BY <3>2, <2>1, <2>2, <2>5 DEF b
  <2> QED
    BY <2>4, <2>5
<1>10. CASE k = "waitDone"
  <2> DEFINE n == [b EXCEPT !.state[t].phase = @ + 1]
  <2>1. HandleEvent(b, e) = Advance(n, t)
    BY <1>6, <1>10 DEF HandleWaitDone
  <2>2. /\ InHand(n, t) /\ n.state[t].phase = s.state[t].phase + 1
        /\ ~n.state[t].admitted /\ ~n.state[t].holdsRunning /\ ~n.state[t].inToolQueue
    BY <1>2, <1>8, <1>10 DEF Fit
  <2> HIDE DEF n
  <2>3. ~Over(n, t) => Kind(n, t) = "cpu"
    BY <2>2, <1>2, <1>10, CPUAfterWait DEF Fit
  <2>4. AtRest(Advance(n, t))
    BY <2>2, <2>3, <1>2, HandAdvance
  <2> QED
    BY <2>1, <2>4 DEF b
<1>11. CASE k = "ioDone"
  <2> DEFINE n == ToolReturned(b, t)
             x == [b.state[t] EXCEPT !.phase = b.state[t].phase + 1, !.inToolQueue = FALSE]
             g == GiveBackRunning(n, t)
  <2>1. HandleEvent(b, e) = HandleIODone(b, t)
    BY <1>6, <1>11
  <2>2. HandleIODone(b, t) =
            IF ~n.state[t].holdsRunning THEN Advance(n, t)
            ELSE IF ~Over(n, t) /\ Kind(n, t) = "cpu"
            THEN PushEvent(n, n.now + Duration(n, t), "cpuDone", t)
            ELSE Advance(g, t)
    BY DEF HandleIODone
  <2>a. /\ n = ToolReturned(b, t)
        /\ x = [b.state[t] EXCEPT !.phase = b.state[t].phase + 1, !.inToolQueue = FALSE]
    OBVIOUS
  <2> HIDE DEF n, x
  <2>3. /\ n \in SimType /\ Sets(n, b, t, x)
        /\ n.seq = b.seq /\ n.tools = b.tools - 1 /\ n.running = b.running /\ n.resident = b.resident
        /\ SameQueues(n, b) /\ SameHeap(n, b) /\ SameClock(n, b)
    BY ONLY <2>a, <1>2, <1>3, ToolEnds, ZenonT(60)
  <2>4. n.state[t] = x /\ OthersStay(n, b, t)
    <3>1. n.state[t] = x /\ \A u \in Task \ {t} : n.state[u] = b.state[u]
      BY ONLY <2>3, <1>2, <1>3, SetsIs, SMTT(60)
    <3> QED
      BY <3>1 DEF OthersStay
  <2>5. /\ x.phase = s.state[t].phase + 1 /\ x.end = s.state[t].end
        /\ x.readySeq = s.state[t].readySeq /\ x.admitted = s.state[t].admitted
        /\ x.holdsRunning = s.state[t].holdsRunning /\ ~x.inToolQueue
    BY <1>3, <1>4 DEF StateType, x
  <2>6. OthersStay(n, s, t)
    BY <2>4, <1>3 DEF OthersStay
  <2>7. SameQueues(n, s) /\ SameClock(n, s) /\ n.events = s.events /\ n.batch = s.batch \ {e}
        /\ n.running = s.running /\ n.resident = s.resident /\ n.seq = s.seq
    BY <2>3, <1>3 DEF SameQueues, SameClock, SameHeap, SameCounts
  <2>8. n.tools = s.tools - Bit(k = "ioDone")
    BY <2>3, <1>3, <1>11 DEF SameCounts, Bit
  <2>9. Takes(n, s, e)
    BY <2>3, <2>4, <2>5, <2>6, <2>7, <2>8, <1>11 DEF Takes
  <2>10. InHand(n, t)
    BY <2>9, TakenHand
  <2>11. n.state[t].admitted /\ ~n.state[t].inToolQueue /\ n.state[t].holdsRunning \in BOOLEAN
         /\ n.state[t].end = "none" /\ n.state[t].phase <= Len(task[t].phases) + 1
    BY <2>3, <2>4, <2>5, <2>10, <1>2, <1>11, HandIs, SimFields DEF Fit
  <2>12. CASE ~n.state[t].holdsRunning
    BY <2>1, <2>2, <2>10, <2>11, <2>12, <1>2, HandAdvance DEF b
  <2>13. CASE n.state[t].holdsRunning /\ ~Over(n, t) /\ Kind(n, t) = "cpu"
    <3>1. Fit(n, t, "cpuDone")
      BY <2>11, <2>13 DEF Fit
    <3> QED
      BY <3>1, <2>1, <2>2, <2>10, <2>13, <1>2, HandPush DEF b
  <2>14. CASE n.state[t].holdsRunning /\ ~(~Over(n, t) /\ Kind(n, t) = "cpu")
    <3>1. /\ InHand(g, t) /\ ~g.state[t].holdsRunning /\ g.state[t].admitted /\ ~g.state[t].inToolQueue
      BY <2>10, <2>11, <2>14, <1>2, HandGiveBack
    <3> HIDE DEF g
    <3>2. AtRest(Advance(g, t))
      BY <3>1, <1>2, HandAdvance
    <3> QED
      BY <3>2, <2>1, <2>2, <2>14 DEF b
  <2> QED
    BY <2>11, <2>12, <2>13, <2>14
<1> QED
  BY <1>2, <1>7, <1>9, <1>10, <1>11 DEF EventKind

-----------------------------------------------------------------------------
(* Capacity is handed out. *)

LEMMA ToolStarts ==
    ASSUME InputType, NEW s, AtRest(s), CanStartTool(s)
    PROVE  AtRest(StartTool(s))
<1>1. PICK pl \in [Task -> Place], due \in [Task -> Nat] : Placed(s, pl, due) /\ At(pl, "hand") = {}
  BY DEF AtRest
<1>2. /\ s \in SimType /\ ~s.error /\ Standing(s, pl) /\ Queued(s, pl) /\ Ordered(s, pl)
      /\ Scheduled(s, pl, due) /\ Tallied(s, pl) /\ Ledger(s, pl, due)
  BY <1>1 DEF Placed
<1> DEFINE t == Head(s.toolQueue)
           a == [s EXCEPT !.toolQueue = Tail(@), !.tools = @ + 1]
           r == PushEvent(a, s.now + Duration(s, t), "ioDone", t)
<1>3. StartTool(s) = r
  BY DEF StartTool
<1>4. t \in At(pl, "toolQueue") /\ Lists(Tail(s.toolQueue), At(pl, "toolQueue") \ {t})
  BY <1>2, ListTail DEF Queued, CanStartTool
<1>5. /\ t \in Task /\ pl[t] = "toolQueue" /\ Fit(s, t, "toolQueue") /\ ~Over(s, t)
      /\ "ioDone" \in EventKind /\ "ioDone" \in Place /\ pl[t] \notin EventKind
  BY <1>2, <1>4 DEF At, Standing, Fit, EventKind, Place
<1>6. /\ a \in SimType /\ a.state = s.state /\ a.seq = s.seq /\ SameHeap(a, s) /\ SameClock(a, s)
      /\ a.ready = s.ready /\ a.admission = s.admission /\ a.toolQueue = Tail(s.toolQueue)
      /\ a.running = s.running /\ a.resident = s.resident /\ a.tools = s.tools + 1
  <2>1. Tail(s.toolQueue) \in Seq(Task) /\ s.tools + 1 \in Int
    BY <1>2, <1>4, SimFields DEF Lists
  <2>2. a = [s EXCEPT !.toolQueue = Tail(s.toolQueue), !.tools = s.tools + 1]
    BY <1>2 DEF SimType
  <2>3. a \in SimType
    BY <2>1, <2>2, <1>2 DEF SimType
  <2> QED
    BY <2>2, <2>3, <1>2 DEF SimType, SameHeap, SameClock
<1> HIDE DEF a, t
<1>7. Duration(a, t) = Duration(s, t) /\ Duration(s, t) \in Nat /\ a.now = s.now /\ s.now \in Nat
  BY <1>2, <1>5, <1>6, PhaseIs, SimFields DEF Duration, SameClock
<1>8. Scheduled(a, pl, due)
  <2>1. Pending(a) = Pending(s) /\ \A u \in Task : Duration(a, u) = Duration(s, u)
    BY <1>6 DEF Pending, SameHeap, Duration
  <2> QED
    BY <2>1, <1>2, <1>6, <1>7 DEF Scheduled, SameHeap
<1>9. Ledger(a, pl, due)
  <2>1. \A u \in Task : \A K : Elapsed(a, pl, due, u, K) = Elapsed(s, pl, due, u, K)
    BY <1>6, <1>7 DEF Elapsed, Duration
  <2> QED
    BY <2>1, <1>2, <1>6, LedgerKept
<1> DEFINE m == Moves(pl, t, "ioDone")
           d == [due EXCEPT ![t] = a.now + Duration(a, t)]
<1>10. r = PushEvent(a, a.now + Duration(a, t), "ioDone", t)
  BY <1>7
<1> HIDE DEF r
<1>11. d \in [Task -> Nat] /\ Scheduled(r, m, d) /\ Ledger(r, m, d)
  BY <1>5, <1>6, <1>7, <1>8, <1>9, <1>10, PushMoves
<1>12. /\ r \in SimType /\ r.seq = a.seq + 1 /\ r.state = a.state
       /\ SameQueues(r, a) /\ SameCounts(r, a) /\ SameClock(r, a)
  BY <1>5, <1>6, <1>7, <1>10, PushIs
<1>13. /\ m \in [Task -> Place] /\ At(m, "ioDone") = At(pl, "ioDone") \cup {t}
       /\ \A q : q # "ioDone" => At(m, q) = At(pl, q) \ {t}
       /\ \A q : q # "toolQueue" => t \notin At(pl, q)
  BY <1>5 DEF Moves, At
<1>14. OthersStay(r, s, t) /\ r.state[t] = s.state[t] /\ r.state[t].readySeq <= r.seq /\ r.seq >= s.seq
  BY <1>2, <1>5, <1>6, <1>12, SimFields DEF OthersStay, Ordered
<1>15. Standing(r, m)
  <2>1. Fit(s, t, "ioDone")
    BY <1>5 DEF Fit
  <2> QED
    BY <2>1, <1>2, <1>5, <1>14, FitSame, StandingMoves
<1>16. Ordered(r, m)
  BY <1>2, <1>5, <1>12, <1>14, OrderedMoves
<1> HIDE DEF m, d
<1>17. Queued(r, m)
  <2>1. At(m, "ready") = At(pl, "ready") /\ At(m, "admission") = At(pl, "admission")
        /\ At(m, "toolQueue") = At(pl, "toolQueue") \ {t}
    BY <1>13
  <2> QED
    BY <2>1, <1>2, <1>4, <1>6, <1>12 DEF Queued, SameQueues
<1>18. Tallied(r, m)
  <2>1. Holding(r) = Holding(s) /\ Admitted(r) = Admitted(s)
    BY <1>6, <1>12 DEF Holding, Admitted
  <2>2. IsFiniteSet(At(pl, "ioDone"))
    BY InputIs, FS_Subset DEF At
  <2>3. /\ Cardinality(At(pl, "ioDone")) \in Nat
        /\ Cardinality(At(m, "ioDone")) = Cardinality(At(pl, "ioDone")) + 1
    BY <2>2, <1>13, FS_AddElement, FS_CardinalityType
  <2>4. s.tools < config.MaxInflightTools /\ config.MaxInflightTools \in Nat
    BY InputIs DEF CanStartTool
  <2> QED
    BY <2>1, <2>3, <2>4, <1>2, <1>6, <1>12 DEF Tallied, SameCounts
<1>19. Placed(r, m, d)
  BY <1>2, <1>6, <1>11, <1>12, <1>15, <1>16, <1>17, <1>18 DEF Placed, SameClock
<1>20. At(m, "hand") = {}
  BY <1>1, <1>13
<1> QED
  BY <1>3, <1>11, <1>13, <1>19, <1>20 DEF AtRest

\* a is s with t taken from the ready queue or the admission queue, to the hands
\* of drain or to its end.
Picks(a, s, t, p) ==
    LET x == s.state[t]  y == a.state[t] IN
    /\ a \in SimType /\ OthersStay(a, s, t) /\ SameHeap(a, s) /\ SameClock(a, s)
    /\ a.seq = s.seq /\ a.running = s.running /\ a.tools = s.tools
    /\ a.resident = s.resident + Bit(y.admitted) - Bit(x.admitted) /\ a.resident <= config.MaxResident
    /\ y.phase = x.phase /\ y.readySeq = x.readySeq /\ y.holdsRunning = x.holdsRunning
    /\ p \in {"hand", "ended"} /\ Fit(a, t, p)
    /\ a.toolQueue = s.toolQueue
    /\ t \in Range(s.ready) \cup Range(s.admission)
    /\ a.ready = (IF t \in Range(s.ready) THEN Without(s.ready, t) ELSE s.ready)
    /\ a.admission = (IF t \in Range(s.ready) THEN s.admission ELSE Without(s.admission, t))

LEMMA PickedMoves ==
    ASSUME InputType, NEW s, AtRest(s), NEW t, NEW a, NEW p, Picks(a, s, t, p)
    PROVE  t \in Task /\ (p = "hand" => InHand(a, t)) /\ (p # "hand" => AtRest(a))
<1>1. PICK pl \in [Task -> Place], due \in [Task -> Nat] : Placed(s, pl, due) /\ At(pl, "hand") = {}
  BY DEF AtRest
<1>2. /\ s \in SimType /\ ~s.error /\ Standing(s, pl) /\ Queued(s, pl) /\ Ordered(s, pl)
      /\ Scheduled(s, pl, due) /\ Tallied(s, pl) /\ Ledger(s, pl, due)
  BY <1>1 DEF Placed
<1>3. Range(s.ready) = At(pl, "ready") /\ Range(s.admission) = At(pl, "admission")
  BY <1>2, ListRange DEF Queued
<1>4. t \in Task /\ pl[t] \in {"ready", "admission"} /\ (t \in Range(s.ready) <=> pl[t] = "ready")
  BY <1>3 DEF Picks, At
<1>5. pl[t] \notin EventKind /\ p \in Place /\ p \notin EventKind /\ p \notin {"ready", "admission"}
  BY <1>4 DEF EventKind, Place, Picks
<1> DEFINE m == Moves(pl, t, p)
<1>6. /\ m \in [Task -> Place] /\ At(m, p) = At(pl, p) \cup {t}
      /\ \A q : q # p => At(m, q) = At(pl, q) \ {t}
      /\ \A q : q # pl[t] => t \notin At(pl, q)
  BY <1>4, <1>5 DEF Moves, At
<1>7. /\ a \in SimType /\ OthersStay(a, s, t) /\ SameHeap(a, s) /\ SameClock(a, s) /\ a.now = s.now
      /\ a.seq = s.seq /\ a.running = s.running /\ a.tools = s.tools
      /\ a.resident = s.resident + Bit(a.state[t].admitted) - Bit(s.state[t].admitted)
      /\ a.resident <= config.MaxResident
      /\ a.state[t].phase = s.state[t].phase /\ a.state[t].readySeq = s.state[t].readySeq
      /\ a.state[t].holdsRunning = s.state[t].holdsRunning
      /\ Fit(a, t, p) /\ a.toolQueue = s.toolQueue
      /\ a.ready = (IF t \in Range(s.ready) THEN Without(s.ready, t) ELSE s.ready)
      /\ a.admission = (IF t \in Range(s.ready) THEN s.admission ELSE Without(s.admission, t))
  BY DEF Picks, SameClock
<1>8. Standing(a, m)
  BY <1>2, <1>4, <1>5, <1>7, StandingMoves
<1>9. Ordered(a, m)
  <2>1. a.state[t].readySeq <= a.seq /\ a.seq >= s.seq
    BY <1>2, <1>4, <1>7, SimFields DEF Ordered
  <2> QED
    BY <2>1, <1>2, <1>4, <1>5, <1>7, OrderedMoves
<1>10. Scheduled(a, m, due)
  BY <1>2, <1>4, <1>5, <1>7, ScheduledMoves
<1>11. Ledger(a, m, due)
  BY <1>2, <1>4, <1>5, <1>7, LedgerMoves
<1> HIDE DEF m
<1>12. Tallied(a, m)
  <2>1. /\ Cardinality(Holding(a)) = Cardinality(Holding(s)) + Bit(a.state[t].holdsRunning)
                                     - Bit(s.state[t].holdsRunning)
        /\ Cardinality(Admitted(a)) = Cardinality(Admitted(s)) + Bit(a.state[t].admitted)
                                      - Bit(s.state[t].admitted)
    BY <1>4, <1>7, FlagsCount
  <2>2. s.running \in Int
    BY <1>2, SimFields
  <2>3. a.running = Cardinality(Holding(a)) /\ a.resident = Cardinality(Admitted(a))
    BY <2>1, <2>2, <1>2, <1>7 DEF Tallied, Bit
  <2>4. At(m, "ioDone") = At(pl, "ioDone")
    <3>1. p # "ioDone" /\ pl[t] # "ioDone"
      BY <1>4, <1>5 DEF EventKind
    <3>2. At(m, "ioDone") = At(pl, "ioDone") \ {t} /\ t \notin At(pl, "ioDone")
      BY <3>1, <1>6
    <3> QED
      BY <3>2
  <2> QED
    BY <2>3, <2>4, <1>2, <1>7 DEF Tallied
<1>13. Queued(a, m)
  <2>1. At(m, "ready") = At(pl, "ready") \ {t} /\ At(m, "admission") = At(pl, "admission") \ {t}
    BY <1>5, <1>6
  <2>2. Lists(s.ready, At(pl, "ready")) /\ Lists(s.admission, At(pl, "admission"))
        /\ Lists(s.toolQueue, At(pl, "toolQueue"))
    BY <1>2 DEF Queued
  <2>3. At(m, "toolQueue") = At(pl, "toolQueue")
    <3>1. p # "toolQueue" /\ pl[t] # "toolQueue"
      BY <1>4 DEF Picks
    <3>2. At(m, "toolQueue") = At(pl, "toolQueue") \ {t} /\ t \notin At(pl, "toolQueue")
      BY <3>1, <1>6
    <3> QED
      BY <3>2
  <2>4. CASE t \in Range(s.ready)
    <3>1. t \in At(pl, "ready") /\ t \notin At(pl, "admission")
      BY <2>4, <1>3, <1>4 DEF At
    <3>2. Lists(a.ready, At(m, "ready"))
      BY <3>1, <2>1, <2>2, <2>4, <1>7, ListWithout
    <3>3. At(m, "admission") = At(pl, "admission")
      BY <3>1, <2>1
    <3> QED
      BY <3>2, <3>3, <2>2, <2>3, <2>4, <1>7 DEF Queued
  <2>5. CASE t \notin Range(s.ready)
    <3>1. t \notin At(pl, "ready") /\ t \in At(pl, "admission")
      BY <2>5, <1>3, <1>4 DEF At
    <3>2. Lists(a.admission, At(m, "admission"))
      BY <3>1, <2>1, <2>2, <2>5, <1>7, ListWithout
    <3>3. At(m, "ready") = At(pl, "ready")
      BY <3>1, <2>1
    <3> QED
      BY <3>2, <3>3, <2>2, <2>3, <2>5, <1>7 DEF Queued
  <2> QED
    BY <2>4, <2>5
<1>14. Placed(a, m, due)
  BY <1>2, <1>7, <1>8, <1>9, <1>10, <1>11, <1>12, <1>13 DEF Placed, SameClock
<1>15. CASE p = "hand"
  BY <1>1, <1>4, <1>6, <1>14, <1>15 DEF InHand
<1>16. CASE p # "hand"
  <2>1. At(m, "hand") = {}
    BY <1>1, <1>6, <1>16
  <2> QED
    BY <2>1, <1>4, <1>6, <1>14, <1>16 DEF AtRest
<1> QED
  BY <1>4, <1>15, <1>16

\* The first in the queues' order.
LEMMA FirstQueued ==
    ASSUME NEW s \in SimType, NEW C \in SUBSET Task, C # {},
           \A t, u \in C : s.state[t].readySeq = s.state[u].readySeq => t = u
    PROVE  \E t \in C : \A u \in C \ {t} : s.state[t].readySeq < s.state[u].readySeq
<1> DEFINE N == {s.state[t].readySeq : t \in C}
<1>1. \A t \in C : s.state[t].readySeq \in Nat
  BY SimFields
<1>2. N \in SUBSET Nat /\ N # {}
  BY <1>1
<1>3. PICK n \in N : \A k \in N : n <= k
  BY <1>2, LeastNumber
<1>4. PICK t \in C : s.state[t].readySeq = n
  BY <1>3
<1>5. ASSUME NEW u \in C \ {t} PROVE s.state[t].readySeq < s.state[u].readySeq
  <2>1. s.state[u].readySeq \in N
    OBVIOUS
  <2>2. n <= s.state[u].readySeq
    BY <1>3, <2>1
  <2>3. s.state[t].readySeq # s.state[u].readySeq
    OBVIOUS
  <2> HIDE DEF N
  <2> QED
    BY <1>1, <1>4, <2>2, <2>3
<1> QED
  BY <1>5

LEMMA RemainingIs ==
    ASSUME InputType, NEW s \in SimType, NEW t \in Task
    PROVE  RemainingDuration(s, t) \in Nat
<1> DEFINE f == [i \in s.state[t].phase .. Len(task[t].phases) |-> task[t].phases[i].duration]
<1>1. task[t].phases \in Seq([kind : PhaseKind, duration : Nat]) /\ s.state[t].phase \in Nat \ {0}
  BY InputIs, SimFields
<1>2. ASSUME NEW i \in DOMAIN f PROVE f[i] \in Nat
  <2>1. i \in 1 .. Len(task[t].phases)
    BY <1>1
  <2>2. task[t].phases[i] \in [kind : PhaseKind, duration : Nat]
    BY <2>1, <1>1, ElementOfSeq
  <2> QED
    BY <2>2
<1>3. IsFiniteSet(DOMAIN f)
  <2>1. Len(task[t].phases) \in Int /\ s.state[t].phase \in Int
    BY <1>1, LenProperties
  <2>2. IsFiniteSet(s.state[t].phase .. Len(task[t].phases))
    BY ONLY <2>1, FS_Interval
  <2> QED
    BY <2>2
<1>4. Summable(f)
  BY <1>2, <1>3 DEF Summable
<1>5. RemainingDuration(s, t) = Total(f)
  BY DEF RemainingDuration
<1> HIDE DEF f
<1> QED
  BY <1>4, <1>5, TotalType

\* Among some tasks one has the highest priority.
LEMMA HighestPriority ==
    ASSUME InputType, NEW C \in SUBSET Task, C # {}
    PROVE  \E t \in C : \A u \in C : task[u].priority <= task[t].priority
<1> DEFINE f == [t \in Task |-> IF task[t].priority > 0 THEN task[t].priority ELSE 0]
<1>1. IsFiniteSet(Task) /\ \A t \in Task : task[t].priority \in Int
  BY InputIs
<1>2. \A t \in Task : f[t] \in Nat /\ task[t].priority <= f[t]
  BY <1>1
<1>3. Summable(f) /\ DOMAIN f = Task
  BY <1>1, <1>2 DEF Summable
<1> HIDE DEF f
<1>4. ASSUME NEW t \in Task PROVE task[t].priority <= Total(f)
  <2> DEFINE g == [u \in Task \ {t} |-> f[u]]
  <2>1. Summable(g) /\ Total(f) = f[t] + Total(g)
    BY <1>3, TotalSplit
  <2>2. Total(g) \in Nat /\ Total(f) \in Nat
    BY <2>1, <1>3, TotalType
  <2> HIDE DEF g
  <2>3. f[t] \in Nat /\ task[t].priority <= f[t] /\ task[t].priority \in Int
    BY <1>1, <1>2
  <2>4. f[t] <= Total(f)
    BY <2>1, <2>2, <2>3
  <2> QED
    BY <2>2, <2>3, <2>4
<1> DEFINE N == {Total(f) - task[t].priority : t \in C}
<1>5. \A t \in C : Total(f) - task[t].priority \in Nat /\ task[t].priority \in Int /\ Total(f) \in Nat
  BY <1>1, <1>3, <1>4, TotalType
<1>6. N \in SUBSET Nat /\ N # {}
  BY <1>5
<1>7. PICK n \in N : \A k \in N : n <= k
  BY <1>6, LeastNumber
<1>8. PICK t \in C : n = Total(f) - task[t].priority
  BY <1>7
<1>9. ASSUME NEW u \in C PROVE task[u].priority <= task[t].priority
  <2>1. Total(f) - task[t].priority <= Total(f) - task[u].priority
    BY <1>7, <1>8
  <2> QED
    BY <2>1, <1>5
<1> QED
  BY <1>9

\* Among some tasks one has the least to do.
LEMMA LeastRemaining ==
    ASSUME InputType, NEW s \in SimType, NEW C \in SUBSET Task, C # {}
    PROVE  \E t \in C : \A u \in C : RemainingDuration(s, t) <= RemainingDuration(s, u)
<1> DEFINE N == {RemainingDuration(s, t) : t \in C}
<1>1. N \in SUBSET Nat /\ N # {}
  BY RemainingIs
<1>2. PICK n \in N : \A k \in N : n <= k
  BY <1>1, LeastNumber
<1> QED
  BY <1>2

\* prefer has a best among the candidates, whatever the policy, so that
\* chooseRunnable's scan and the choice of the model agree.
LEMMA BestExists ==
    ASSUME InputType, NEW s \in SimType, NEW C \in SUBSET Task, C # {},
           \A t, u \in C : s.state[t].readySeq = s.state[u].readySeq => t = u
    PROVE  \E t \in C : \A u \in C \ {t} : Prefer(s, t, u)
<1>0. config.Policy \in Policy
  BY InputIs
<1>1. CASE config.Policy = "fifo"
  <2>1. PICK t \in C : \A u \in C \ {t} : s.state[t].readySeq < s.state[u].readySeq
    BY FirstQueued
  <2>2. \A u \in C \ {t} : Prefer(s, t, u)
    BY <2>1, <1>1 DEF Prefer
  <2> QED
    BY <2>2
<1>2. CASE config.Policy = "ready_first"
  <2> DEFINE D == {t \in C : s.state[t].continuation}
             E == IF D # {} THEN D ELSE C
  <2>1. E \in SUBSET Task /\ E # {} /\ E \subseteq C
    OBVIOUS
  <2>2. PICK t \in E : \A u \in E \ {t} : s.state[t].readySeq < s.state[u].readySeq
    BY <2>1, FirstQueued
  <2>3. ASSUME NEW u \in C \ {t} PROVE Prefer(s, t, u)
    <3>1. s.state[t].continuation \in BOOLEAN /\ s.state[u].continuation \in BOOLEAN
      BY <2>1, SimFields
    <3>2. CASE s.state[t].continuation # s.state[u].continuation
      <4>1. s.state[t].continuation
        BY <3>1, <3>2
      <4> QED
        BY <4>1, <3>2, <1>2 DEF Prefer
    <3>3. CASE s.state[t].continuation = s.state[u].continuation
      <4>1. u \in E
        BY <3>3
      <4> QED
        BY <4>1, <3>3, <2>2, <1>2 DEF Prefer
    <3> QED
      BY <3>2, <3>3
  <2> QED
    BY <2>1, <2>3
<1>3. CASE config.Policy = "finish_soon"
  <2>1. PICK x \in C : \A u \in C : RemainingDuration(s, x) <= RemainingDuration(s, u)
    BY LeastRemaining
  <2> DEFINE D == {t \in C : RemainingDuration(s, t) = RemainingDuration(s, x)}
  <2>2. D \in SUBSET Task /\ D # {}
    OBVIOUS
  <2>3. PICK y \in D : \A u \in D : task[u].priority <= task[y].priority
    BY <2>2, HighestPriority
  <2> DEFINE E == {t \in D : task[t].priority = task[y].priority}
  <2>4. E \in SUBSET Task /\ E # {} /\ E \subseteq D /\ D \subseteq C
    BY <2>2
  <2>a. \A t, u \in E : s.state[t].readySeq = s.state[u].readySeq => t = u
    BY <2>4
  <2>b. \E t \in E : \A u \in E \ {t} : s.state[t].readySeq < s.state[u].readySeq
    <3> HIDE DEF E
    <3> QED
      BY <2>4, <2>a, FirstQueued
  <2>5. PICK t \in E : \A u \in E \ {t} : s.state[t].readySeq < s.state[u].readySeq
    BY <2>b
  <2>6. ASSUME NEW u \in C \ {t} PROVE Prefer(s, t, u)
    <3>1. RemainingDuration(s, t) \in Nat /\ RemainingDuration(s, u) \in Nat
          /\ task[t].priority \in Int /\ task[u].priority \in Int
      BY <2>4, RemainingIs, InputIs
    <3>2. CASE RemainingDuration(s, t) # RemainingDuration(s, u)
      <4>1. RemainingDuration(s, t) < RemainingDuration(s, u)
        BY <3>1, <3>2, <2>1, <2>4
      <4> QED
        BY <4>1, <3>2, <1>3 DEF Prefer
    <3>3. CASE RemainingDuration(s, t) = RemainingDuration(s, u) /\ task[t].priority # task[u].priority
      <4>1. u \in D /\ task[t].priority = task[y].priority
        BY <3>3, <2>4
      <4>2. task[t].priority > task[u].priority
        BY <4>1, <3>1, <3>3, <2>3
      <4> QED
        BY <4>2, <3>3, <1>3 DEF Prefer
    <3>4. CASE RemainingDuration(s, t) = RemainingDuration(s, u) /\ task[t].priority = task[u].priority
      <4>1. u \in E
        BY <3>4, <2>4
      <4> QED
        BY <4>1, <3>4, <2>5, <1>3 DEF Prefer
    <3> QED
      BY <3>2, <3>3, <3>4
  <2> QED
    BY <2>4, <2>6
<1> QED
  BY <1>0, <1>1, <1>2, <1>3 DEF Policy

LEMMA ChosenIs ==
    ASSUME InputType, NEW s, AtRest(s), Candidates(s) # {}
    PROVE  ChooseRunnable(s) \in Candidates(s)
<1>1. PICK pl \in [Task -> Place], due \in [Task -> Nat] : Placed(s, pl, due) /\ At(pl, "hand") = {}
  BY DEF AtRest
<1>2. s \in SimType /\ Queued(s, pl) /\ Ordered(s, pl)
  BY <1>1 DEF Placed
<1> DEFINE C == Candidates(s)
<1>3. C \subseteq At(pl, "ready") \cup At(pl, "admission") /\ C \in SUBSET Task
  <2>1. Range(s.ready) = At(pl, "ready") /\ Range(s.admission) = At(pl, "admission")
    BY <1>2, ListRange DEF Queued
  <2> QED
    BY <2>1 DEF Candidates, At
<1>4. \A t, u \in C : s.state[t].readySeq = s.state[u].readySeq => t = u
  BY <1>2, <1>3 DEF Ordered
<1> HIDE DEF C
<1>5. \E t \in C : \A u \in C \ {t} : Prefer(s, t, u)
  BY <1>2, <1>3, <1>4, BestExists DEF C
<1> QED
  BY <1>5 DEF ChooseRunnable, C

\* drain: the task chosen takes a running slot.
LEMMA RunningStarts ==
    ASSUME InputType, NEW s, AtRest(s), CanStartRunning(s)
    PROVE  AtRest(StartRunning(s))
<1> DEFINE t == ChooseRunnable(s)
           b == [s EXCEPT !.ready = Without(@, t)]
           c == [s EXCEPT !.admission = Without(@, t)]
           a == IF t \in Range(s.ready) THEN b ELSE Admit(c, t)
           n == [a EXCEPT !.running = @ + 1, !.state[t].holdsRunning = TRUE]
<1>1. StartRunning(s) = IF Kind(n, t) = "cpu" THEN PushEvent(n, n.now + Duration(n, t), "cpuDone", t)
                        ELSE EnqueueTool(n, t)
  BY DEF StartRunning
<1>2. t \in Candidates(s) /\ s.running < config.MaxRunning
  BY ChosenIs DEF CanStartRunning
<1> HIDE DEF t
<1>3. t \in Range(s.ready) \cup Range(s.admission)
      /\ (t \notin Range(s.ready) => t \in Range(s.admission) /\ s.resident < config.MaxResident)
  BY <1>2 DEF Candidates
<1>4. PICK pl \in [Task -> Place], due \in [Task -> Nat] : Placed(s, pl, due) /\ At(pl, "hand") = {}
  BY DEF AtRest
<1>5. s \in SimType /\ Queued(s, pl) /\ Standing(s, pl) /\ Tallied(s, pl)
  BY <1>4 DEF Placed
<1>6. /\ t \in Task /\ (t \in Range(s.ready) => Fit(s, t, "ready"))
      /\ (t \notin Range(s.ready) => Fit(s, t, "admission"))
      /\ (t \in Range(s.ready) => Lists(Without(s.ready, t), At(pl, "ready") \ {t}))
      /\ (t \notin Range(s.ready) => Lists(Without(s.admission, t), At(pl, "admission") \ {t}))
  <2>1. Range(s.ready) = At(pl, "ready") /\ Range(s.admission) = At(pl, "admission")
    BY <1>5, ListRange DEF Queued
  <2> QED
    BY <2>1, <1>3, <1>5, ListWithout DEF Queued, Standing, At
<1>7. /\ ~Over(s, t) /\ s.state[t].end = "none" /\ ~s.state[t].holdsRunning /\ ~s.state[t].inToolQueue
      /\ s.state[t].phase <= Len(task[t].phases) + 1
      /\ s.state[t].admitted <=> t \in Range(s.ready)
      /\ Kind(s, t) = "cpu" \/ (Kind(s, t) = "external_io" /\ ~config.LiveIO)
  BY <1>6 DEF Fit
<1>8. s.running \in Int /\ s.resident \in Int /\ s.seq \in Nat /\ s.resident <= config.MaxResident
      /\ config.MaxResident \in Nat /\ config.MaxRunning \in Nat /\ s.state[t] \in StateType
      /\ s.state[t].admitted \in BOOLEAN
  BY <1>5, <1>6, SimFields, InputIs DEF Tallied
<1>9. Picks(a, s, t, "hand") /\ a.state[t].admitted /\ a.state[t].inToolQueue = s.state[t].inToolQueue
      /\ a.state[t].end = "none"
  <2>1. CASE t \in Range(s.ready)
    <3>1. a = b
      BY <2>1
    <3>2. Without(s.ready, t) \in Seq(Task)
      BY <2>1, <1>6 DEF Lists
    <3>3. b \in SimType /\ b.ready = Without(s.ready, t) /\ b.admission = s.admission
          /\ b.toolQueue = s.toolQueue /\ b.state = s.state /\ b.seq = s.seq
          /\ SameHeap(b, s) /\ SameClock(b, s) /\ SameCounts(b, s)
      BY <3>2, <1>5 DEF SimType, SameHeap, SameClock, SameCounts
    <3> HIDE DEF b, a
    <3>4. Fit(a, t, "hand")
      BY <3>1, <3>3, <1>7 DEF Fit
    <3>5. a.resident = s.resident + Bit(a.state[t].admitted) - Bit(s.state[t].admitted)
          /\ a.resident <= config.MaxResident
      BY <3>1, <3>3, <1>8 DEF SameCounts, Bit
    <3> QED
      BY <3>1, <3>3, <3>4, <3>5, <2>1, <1>3, <1>6, <1>7 DEF Picks, OthersStay, SameCounts
  <2>2. CASE t \notin Range(s.ready)
    <3> DEFINE x == [c.state[t] EXCEPT !.admitted = TRUE]
    <3>1. a = Admit(c, t)
      BY <2>2
    <3>2. Without(s.admission, t) \in Seq(Task)
      BY <2>2, <1>6 DEF Lists
    <3>3. c \in SimType /\ c.admission = Without(s.admission, t) /\ c.ready = s.ready
          /\ c.toolQueue = s.toolQueue /\ c.state = s.state /\ c.seq = s.seq
          /\ SameHeap(c, s) /\ SameClock(c, s) /\ SameCounts(c, s)
      BY <3>2, <1>5 DEF SimType, SameHeap, SameClock, SameCounts
    <3> HIDE DEF c, a
    <3>4. /\ a \in SimType /\ a.seq = c.seq /\ Sets(a, c, t, x)
          /\ a.resident = c.resident + 1 /\ a.running = c.running /\ a.tools = c.tools
          /\ SameQueues(a, c) /\ SameHeap(a, c) /\ SameClock(a, c)
      BY <3>1, <3>3, <1>6, AdmitIs
    <3>5. x.phase = s.state[t].phase /\ x.readySeq = s.state[t].readySeq /\ x.end = s.state[t].end
          /\ x.holdsRunning = s.state[t].holdsRunning /\ x.inToolQueue = s.state[t].inToolQueue
          /\ x.admitted
      BY <3>3, <1>8 DEF StateType
    <3> HIDE DEF x
    <3>6. a.state[t] = x /\ \A u \in Task \ {t} : a.state[u] = c.state[u]
      BY <3>3, <3>4, <1>6, SetsIs
    <3>7. OthersStay(a, s, t) /\ SameHeap(a, s) /\ SameClock(a, s) /\ a.seq = s.seq
          /\ a.running = s.running /\ a.tools = s.tools /\ a.toolQueue = s.toolQueue
          /\ a.ready = s.ready /\ a.admission = Without(s.admission, t)
      BY <3>3, <3>4, <3>6 DEF OthersStay, SameHeap, SameClock, SameCounts, SameQueues
    <3>8. a.resident = s.resident + Bit(a.state[t].admitted) - Bit(s.state[t].admitted)
          /\ a.resident <= config.MaxResident
      BY <3>3, <3>4, <3>5, <3>6, <2>2, <1>3, <1>7, <1>8 DEF SameCounts, Bit
    <3>9. Fit(a, t, "hand")
      BY <3>5, <3>6, <1>7 DEF Fit
    <3> QED
      BY <3>4, <3>5, <3>6, <3>7, <3>8, <3>9, <2>2, <1>3, <1>7 DEF Picks
  <2> QED
    BY <2>1, <2>2
<1> HIDE DEF a
<1>10. InHand(a, t) /\ a \in SimType /\ a.state[t] \in StateType
       /\ a.running = s.running /\ a.state[t].phase = s.state[t].phase
       /\ ~a.state[t].holdsRunning /\ a.running \in Int /\ a.resident \in Int /\ a.seq \in Nat
  <2>1. InHand(a, t) /\ a \in SimType /\ a.running = s.running /\ a.state[t].phase = s.state[t].phase
        /\ ~a.state[t].holdsRunning
    BY <1>7, <1>9, PickedMoves DEF Picks
  <2> QED
    BY <2>1, <1>6, SimFields
<1> DEFINE z == [a.state[t] EXCEPT !.holdsRunning = TRUE]
           q == [a.state EXCEPT ![t] = z]
<1>11. z \in StateType
  BY <1>10, StateFields
<1>12. n = [a EXCEPT !.running = a.running + 1, !.state = q]
  BY <1>10 DEF SimType
<1>13. /\ z.phase = a.state[t].phase /\ z.readySeq = a.state[t].readySeq /\ z.end = a.state[t].end
       /\ z.holdsRunning /\ z.inToolQueue = a.state[t].inToolQueue /\ z.admitted = a.state[t].admitted
  BY <1>10 DEF StateType
<1> HIDE DEF n, z
<1>14. q \in [Task -> StateType] /\ q[t] = z /\ \A u \in Task \ {t} : q[u] = a.state[u]
  BY <1>6, <1>10, <1>11, SimFields
<1> HIDE DEF q
<1>15. /\ n \in SimType /\ n.state = q /\ n.running = a.running + 1 /\ n.resident = a.resident
       /\ n.tools = a.tools /\ n.seq = a.seq /\ SameHeap(n, a) /\ SameClock(n, a) /\ SameQueues(n, a)
  <2>1. a.running + 1 \in Int
    BY <1>10
  <2>2. n \in SimType
    BY <2>1, <1>10, <1>12, <1>14 DEF SimType
  <2> QED
    BY <2>2, <1>10, <1>12 DEF SimType, SameHeap, SameClock, SameQueues
<1>16. n.state[t] = z /\ OthersStay(n, a, t)
  BY <1>14, <1>15 DEF OthersStay
<1>17. Fit(n, t, "hand") /\ "hand" \in Place \ EventKind
  BY <1>7, <1>9, <1>10, <1>13, <1>16 DEF Fit, Place, EventKind
<1>18. /\ n.running = a.running + Bit(n.state[t].holdsRunning) - Bit(a.state[t].holdsRunning)
       /\ n.resident = a.resident + Bit(n.state[t].admitted) - Bit(a.state[t].admitted)
       /\ n.running <= config.MaxRunning /\ n.resident <= config.MaxResident
       /\ n.seq >= a.seq /\ n.state[t].readySeq <= n.seq /\ n.state[t].phase = a.state[t].phase
  BY <1>2, <1>6, <1>8, <1>10, <1>13, <1>15, <1>16, HandIs DEF Bit
<1>19. Puts(n, a, t, "hand")
  BY ONLY <1>15, <1>16, <1>17, <1>18 DEF Puts, SameQueues
<1>20. InHand(n, t)
  BY <1>6, <1>10, <1>19, HandMoves
<1>21. /\ ~Over(n, t) /\ Kind(n, t) = Kind(s, t) /\ n.state[t].admitted /\ n.state[t].holdsRunning
       /\ ~n.state[t].inToolQueue /\ n.state[t].end = "none"
       /\ n.state[t].phase <= Len(task[t].phases) + 1
  <2>1. n.state[t].phase = s.state[t].phase
    BY <1>10, <1>13, <1>16
  <2>2. Kind(n, t) = Kind(s, t) /\ Over(n, t) = Over(s, t)
    BY <2>1 DEF Kind, Over
  <2>3. /\ n.state[t].admitted /\ n.state[t].holdsRunning /\ n.state[t].end = "none"
        /\ n.state[t].inToolQueue = s.state[t].inToolQueue
    BY <1>9, <1>13, <1>16
  <2> QED
    BY <2>1, <2>2, <2>3, <1>7
<1>22. CASE Kind(n, t) = "cpu"
  <2>1. Fit(n, t, "cpuDone")
    BY <1>21, <1>22 DEF Fit
  <2> QED
    BY <2>1, <1>1, <1>6, <1>20, <1>22, HandPush
<1>23. CASE Kind(n, t) # "cpu"
  BY <1>1, <1>6, <1>7, <1>20, <1>21, <1>23, HandTool
<1> QED
  BY <1>22, <1>23

\* enforceQueueLimit: the newest of the admission queue ends.
LEMMA Rejected ==
    ASSUME InputType, NEW s, AtRest(s), s.admission # <<>>
    PROVE  AtRest(Reject(s))
<1>1. PICK pl \in [Task -> Place], due \in [Task -> Nat] : Placed(s, pl, due) /\ At(pl, "hand") = {}
  BY DEF AtRest
<1>2. s \in SimType /\ Queued(s, pl) /\ Standing(s, pl) /\ Tallied(s, pl) /\ Ordered(s, pl)
  BY <1>1 DEF Placed
<1>3. Range(s.ready) = At(pl, "ready") /\ Range(s.admission) = At(pl, "admission")
  BY <1>2, ListRange DEF Queued
<1> DEFINE C == Range(s.admission)
           IsNewest(t) == \A u \in C : s.state[u].readySeq <= s.state[t].readySeq
           t == CHOOSE t \in C : IsNewest(t)
           N == {s.seq - s.state[u].readySeq : u \in C}
<1>4. C \subseteq Task /\ C # {}
  <2>1. s.admission \in Seq(Task)
    BY <1>2, SimFields
  <2>2. 1 \in DOMAIN s.admission
    BY <2>1
  <2>3. s.admission[1] \in C
    BY <2>2 DEF Range
  <2> QED
    BY <2>3, <1>3 DEF At
<1>5. \A u \in C : s.state[u].readySeq \in Nat /\ s.seq \in Nat /\ s.state[u].readySeq <= s.seq
  BY <1>2, <1>4, SimFields DEF Ordered
<1>6. N \in SUBSET Nat /\ N # {}
  BY <1>4, <1>5
<1>7. PICK n \in N : \A k \in N : n <= k
  BY <1>6, LeastNumber
<1>8. PICK w \in C : n = s.seq - s.state[w].readySeq
  BY <1>7
<1>9. \A u \in C : s.state[u].readySeq <= s.state[w].readySeq
  <2> SUFFICES ASSUME NEW u \in C PROVE s.state[u].readySeq <= s.state[w].readySeq
    OBVIOUS
  <2>1. n <= s.seq - s.state[u].readySeq
    BY <1>7
  <2> QED
    BY <2>1, <1>5, <1>8
<1>10. t \in C
  BY <1>9
<1>11. Reject(s) = [s EXCEPT !.admission = Without(@, t), !.state[t].end = "rejected"]
  BY DEF Reject
<1> HIDE DEF t
<1>12. /\ t \in Task /\ t \in Range(s.admission) /\ t \notin Range(s.ready) /\ Fit(s, t, "admission")
       /\ Without(s.admission, t) \in Seq(Task)
  <2>1. pl[t] = "admission" /\ t \in Task
    BY <1>3, <1>10 DEF At
  <2>2. Lists(Without(s.admission, t), At(pl, "admission") \ {t})
    BY <1>2, <1>3, <1>10, ListWithout DEF Queued
  <2> QED
    BY <2>1, <2>2, <1>2, <1>3, <1>10 DEF At, Standing, Lists
<1> DEFINE x == s.state[t]
           y == [x EXCEPT !.end = "rejected"]
           r == [s EXCEPT !.admission = Without(s.admission, t), !.state = [s.state EXCEPT ![t] = y]]
<1>13. Reject(s) = r
  BY <1>2, <1>11, <1>12 DEF SimType
<1>14. x \in StateType /\ y \in StateType
  BY <1>2, <1>12, SimFields, StateFields
<1>15. /\ y.end = "rejected" /\ y.phase = x.phase /\ y.readySeq = x.readySeq
       /\ y.admitted = x.admitted /\ y.holdsRunning = x.holdsRunning /\ y.inToolQueue = x.inToolQueue
  BY <1>14 DEF StateType
<1> HIDE DEF y
<1>16. [s.state EXCEPT ![t] = y] \in [Task -> StateType]
       /\ [s.state EXCEPT ![t] = y][t] = y
       /\ \A u \in Task \ {t} : [s.state EXCEPT ![t] = y][u] = s.state[u]
  BY <1>2, <1>12, <1>14, SimFields
<1>17. /\ r \in SimType /\ r.state = [s.state EXCEPT ![t] = y] /\ r.seq = s.seq
       /\ SameHeap(r, s) /\ SameClock(r, s) /\ SameCounts(r, s)
       /\ r.ready = s.ready /\ r.toolQueue = s.toolQueue /\ r.admission = Without(s.admission, t)
  <2>1. r \in SimType
    BY <1>2, <1>12, <1>16 DEF SimType
  <2> QED
    BY <2>1, <1>2 DEF SimType, SameHeap, SameClock, SameCounts
<1> HIDE DEF r
<1>18. r.state[t] = y /\ OthersStay(r, s, t)
  BY <1>16, <1>17 DEF OthersStay
<1>19. Fit(r, t, "ended")
  BY <1>12, <1>15, <1>18 DEF Fit
<1>20. s.resident \in Int /\ s.resident <= config.MaxResident
  BY <1>2, SimFields DEF Tallied
<1>21. r.resident = s.resident + Bit(r.state[t].admitted) - Bit(s.state[t].admitted)
       /\ r.resident <= config.MaxResident /\ r.running = s.running /\ r.tools = s.tools
  BY <1>15, <1>17, <1>18, <1>20 DEF Bit, SameCounts
<1>22. Picks(r, s, t, "ended")
  BY <1>12, <1>15, <1>17, <1>18, <1>19, <1>21 DEF Picks
<1> QED
  BY <1>13, <1>22, PickedMoves

-----------------------------------------------------------------------------
(* The clock advances. *)

LEMMA UseSums ==
    ASSUME InputType, NEW s, NEW pl \in [Task -> Place], NEW due \in [Task -> Nat], Placed(s, pl, due)
    PROVE  Summable(ToolUse(s, pl, due)) /\ Summable(SlotUse(s, pl, due))
<1>1. s \in SimType /\ Standing(s, pl) /\ Scheduled(s, pl, due) /\ IsFiniteSet(Task) /\ s.now \in Nat
  BY InputIs, SimFields DEF Placed
<1>2. ASSUME NEW t \in Task, NEW k PROVE Spent(s, t, k) \in Nat
  <2>1. s.state[t].phase <= Len(task[t].phases) + 1
    BY <1>1 DEF Standing, Fit
  <2> QED
    BY <2>1, <1>1, BehindSums
<1>3. ASSUME NEW t \in Task, NEW K, K \subseteq {"cpuDone", "ioDone"}
      PROVE  Elapsed(s, pl, due, t, K) \in Nat
  <2>1. CASE pl[t] \in K
    <3>1. pl[t] \in EventKind /\ pl[t] # "arrival" /\ pl[t] \notin {"ended", "hand"}
      BY <2>1, <1>3 DEF EventKind
    <3>2. ~Over(s, t)
      BY <3>1, <1>1 DEF Standing, Fit
    <3>3. due[t] <= s.now + Duration(s, t) /\ due[t] \in Nat
      BY <3>1, <1>1 DEF Scheduled
    <3>4. Duration(s, t) \in Nat
      BY <3>2, <1>1, PhaseIs
    <3> QED
      BY <2>1, <3>3, <3>4, <1>1 DEF Elapsed
  <2>2. CASE pl[t] \notin K
    BY <2>2 DEF Elapsed
  <2> QED
    BY <2>1, <2>2
<1>4. SlotKinds \subseteq {"cpuDone", "ioDone"} /\ {"ioDone"} \subseteq {"cpuDone", "ioDone"}
      /\ config.LiveIO \in BOOLEAN
  BY InputIs DEF SlotKinds
<1>5. \A t \in Task : ToolUse(s, pl, due)[t] \in Nat
  <2> SUFFICES ASSUME NEW t \in Task PROVE ToolUse(s, pl, due)[t] \in Nat
    OBVIOUS
  <2>1. Spent(s, t, "external_io") \in Nat /\ Elapsed(s, pl, due, t, {"ioDone"}) \in Nat
    BY <1>2, <1>3, <1>4
  <2> QED
    BY <2>1 DEF ToolUse
<1>6. \A t \in Task : SlotUse(s, pl, due)[t] \in Nat
  <2> SUFFICES ASSUME NEW t \in Task PROVE SlotUse(s, pl, due)[t] \in Nat
    OBVIOUS
  <2>1. Spent(s, t, "external_io") \in Nat /\ Spent(s, t, "cpu") \in Nat
        /\ Elapsed(s, pl, due, t, SlotKinds) \in Nat
    BY <1>2, <1>3, <1>4
  <2> QED
    BY <2>1, <1>4 DEF SlotUse
<1>7. DOMAIN ToolUse(s, pl, due) = Task /\ DOMAIN SlotUse(s, pl, due) = Task
  BY DEF ToolUse, SlotUse
<1> QED
  BY <1>1, <1>5, <1>6, <1>7 DEF Summable

\* The instant that Simulate takes from the heap.
Instant(s) == Min({e.at : e \in s.events})
Due(s)     == {e \in s.events : e.at = Instant(s)}
Taken(s)   == [Integrate(s, Instant(s)) EXCEPT !.events = @ \ Due(s), !.batch = Due(s)]

LEMMA InstantIs ==
    ASSUME NEW s \in SimType, s.events # {}
    PROVE  /\ Instant(s) \in Nat /\ \A e \in s.events : Instant(s) <= e.at
           /\ \E e \in s.events : e.at = Instant(s)
<1> DEFINE N == {e.at : e \in s.events}
<1>1. \A e \in s.events : e.at \in Nat
  BY SimFields DEF EventType
<1>2. N \in SUBSET Nat /\ N # {}
  BY <1>1
<1>3. PICK n \in N : \A k \in N : n <= k
  BY <1>2, LeastNumber
<1>4. Instant(s) = CHOOSE x \in N : \A k \in N : x <= k
  BY DEF Instant, Min
<1>5. Instant(s) \in N /\ \A k \in N : Instant(s) <= k
  BY <1>3, <1>4
<1> QED
  BY <1>2, <1>5

LEMMA TakenIs ==
    ASSUME NEW s \in SimType, s.events # {}
    PROVE  /\ Taken(s) \in SimType /\ Taken(s).now = Instant(s)
           /\ Taken(s).events = s.events \ Due(s) /\ Taken(s).batch = Due(s)
           /\ Taken(s).state = s.state /\ Taken(s).seq = s.seq /\ Taken(s).error = s.error
           /\ Taken(s).slotTime = s.slotTime + s.running * (Instant(s) - s.now)
           /\ Taken(s).toolTime = s.toolTime + s.tools * (Instant(s) - s.now)
           /\ SameQueues(Taken(s), s) /\ SameCounts(Taken(s), s)
<1> DEFINE at == Instant(s)
           x == s.slotTime + s.running * (at - s.now)
           y == s.toolTime + s.tools * (at - s.now)
           a == [s EXCEPT !.slotTime = x, !.toolTime = y, !.now = at]
           r == [a EXCEPT !.events = s.events \ Due(s), !.batch = Due(s)]
<1>1. at \in Nat /\ s.now \in Nat /\ s.running \in Int /\ s.tools \in Int /\ s.slotTime \in Int /\ s.toolTime \in Int
  BY InstantIs, SimFields
<1>2. Integrate(s, at) = a
  BY DEF Integrate, SimType
<1>3. x \in Int /\ y \in Int
  BY <1>1
<1> HIDE DEF x, y, at
<1>4. a \in SimType /\ a.events = s.events /\ a.now = at /\ a.state = s.state /\ a.seq = s.seq
      /\ a.error = s.error /\ a.slotTime = x /\ a.toolTime = y
      /\ SameQueues(a, s) /\ SameCounts(a, s)
  <2>1. a \in SimType
    BY <1>1, <1>3 DEF SimType
  <2> QED
    BY <2>1 DEF SimType, SameQueues, SameCounts
<1>5. Taken(s) = r
  <2>1. Taken(s) = [a EXCEPT !.events = @ \ Due(s), !.batch = Due(s)]
    BY <1>2 DEF Taken, at
  <2> HIDE DEF a
  <2> QED
    BY <2>1, <1>4 DEF SimType
<1>6. s.events \ Due(s) \in SUBSET EventType /\ Due(s) \in SUBSET EventType
  BY SimFields DEF Due
<1> HIDE DEF a
<1>7. r \in SimType
  BY <1>4, <1>6 DEF SimType
<1>8. /\ r.now = at /\ r.events = s.events \ Due(s) /\ r.batch = Due(s) /\ r.state = s.state
      /\ r.seq = s.seq /\ r.error = s.error /\ r.slotTime = x /\ r.toolTime = y
  BY <1>4, <1>7 DEF SimType
<1>9. SameQueues(r, s) /\ SameCounts(r, s)
  BY <1>4, <1>7 DEF SimType, SameQueues, SameCounts
<1> HIDE DEF r
<1> QED
  BY <1>5, <1>7, <1>8, <1>9 DEF x, y, at

\* While the clock advances, the time of those who hold a slot is integrated.
LEMMA InstantTaken ==
    ASSUME InputType, NEW s, AtRest(s), s.batch = {}, s.events # {}
    PROVE  AtRest(Taken(s))
<1>1. PICK pl \in [Task -> Place], due \in [Task -> Nat] : Placed(s, pl, due) /\ At(pl, "hand") = {}
  BY DEF AtRest
<1>2. /\ s \in SimType /\ ~s.error /\ Standing(s, pl) /\ Queued(s, pl) /\ Ordered(s, pl)
      /\ Scheduled(s, pl, due) /\ Tallied(s, pl) /\ Ledger(s, pl, due)
  BY <1>1 DEF Placed
<1> DEFINE r == Taken(s)
           at == Instant(s)
           d == at - s.now
<1>3. at \in Nat /\ (\A e \in s.events : at <= e.at) /\ \E e \in s.events : e.at = at
  BY <1>2, InstantIs
<1>4. /\ r \in SimType /\ r.now = at /\ r.events = s.events \ Due(s) /\ r.batch = Due(s)
      /\ r.state = s.state /\ r.seq = s.seq /\ r.error = s.error
      /\ r.slotTime = s.slotTime + s.running * d /\ r.toolTime = s.toolTime + s.tools * d
      /\ SameQueues(r, s) /\ SameCounts(r, s)
  BY <1>2, TakenIs
<1> HIDE DEF r, at
<1>5. Pending(s) = s.events /\ Pending(r) = s.events /\ s.now \in Nat
      /\ \A e \in s.events : e \in EventType /\ e.task \in Task /\ e.kind \in EventKind
  BY <1>2, <1>4, SimFields DEF Pending, Due, EventType
<1>6. at >= s.now /\ d \in Nat
  <2>1. PICK e \in s.events : e.at = at
    BY <1>3
  <2>2. due[e.task] >= s.now /\ due[e.task] = at
    BY <2>1, <1>2, <1>5 DEF Scheduled
  <2> QED
    BY <2>2, <1>3, <1>5
<1> HIDE DEF d
<1>7. Standing(r, pl)
  BY <1>2, <1>4, FitSame DEF Standing
<1>8. Queued(r, pl) /\ Ordered(r, pl)
  BY <1>2, <1>4 DEF Queued, Ordered, SameQueues
<1>9. Tallied(r, pl)
  BY <1>2, <1>4 DEF Tallied, SameCounts, Holding, Admitted
<1>10. Scheduled(r, pl, due)
  <2>1. \A e \in Pending(r) : /\ pl[e.task] = e.kind /\ due[e.task] = e.at
                              /\ e.phase = r.state[e.task].phase
    BY <1>2, <1>4, <1>5 DEF Scheduled
  <2>2. \A e, f \in Pending(r) : e.task = f.task => e = f
    BY <1>2, <1>5 DEF Scheduled
  <2>3. ASSUME NEW t \in Task, pl[t] \in EventKind
        PROVE  /\ \E e \in Pending(r) : e.task = t
               /\ due[t] >= r.now
               /\ pl[t] # "arrival" => due[t] <= r.now + Duration(r, t)
    <3>1. PICK e \in s.events : e.task = t
      BY <2>3, <1>2, <1>5 DEF Scheduled
    <3>2. due[t] = e.at /\ due[t] \in Nat
      BY <3>1, <1>2, <1>5 DEF Scheduled
    <3>3. due[t] >= at
      BY <3>1, <3>2, <1>3
    <3>4. ASSUME pl[t] # "arrival" PROVE due[t] <= at + Duration(s, t)
      <4>1. due[t] <= s.now + Duration(s, t)
        BY <3>4, <2>3, <1>2 DEF Scheduled
      <4>2. Duration(s, t) \in Nat
        <5>1. ~Over(s, t)
          BY <2>3, <1>2 DEF Standing, Fit, EventKind
        <5> QED
          BY <5>1, <1>2, PhaseIs
      <4> QED
        BY <4>1, <4>2, <3>2, <1>3, <1>5, <1>6
    <3>5. Duration(r, t) = Duration(s, t)
      BY <1>4 DEF Duration
    <3> QED
      BY <3>1, <3>3, <3>4, <3>5, <1>4, <1>5
  <2>4. \A e \in r.batch : e.at = r.now /\ e \notin r.events
    BY <1>4 DEF Due, at
  <2> QED
    BY <2>1, <2>2, <2>3, <2>4 DEF Scheduled
<1>11. ASSUME NEW t \in Task
       PROVE  /\ \A k : Spent(r, t, k) = Spent(s, t, k)
              /\ \A K : Elapsed(r, pl, due, t, K) = IF pl[t] \in K THEN at + Duration(s, t) - due[t] ELSE 0
              /\ \A K : Elapsed(s, pl, due, t, K) = IF pl[t] \in K THEN s.now + Duration(s, t) - due[t] ELSE 0
  BY <1>4 DEF Elapsed, Duration, Spent, Behind
<1>12. ASSUME NEW t \in Task, NEW K, K \subseteq {"cpuDone", "ioDone"}
       PROVE  Elapsed(s, pl, due, t, K) \in Nat
              /\ Elapsed(r, pl, due, t, K) = Elapsed(s, pl, due, t, K) + (IF pl[t] \in K THEN d ELSE 0)
  <2>1. CASE pl[t] \in K
    <3>1. pl[t] \in EventKind /\ pl[t] # "arrival" /\ pl[t] \notin {"ended", "hand"}
      BY <2>1, <1>12 DEF EventKind
    <3>2. ~Over(s, t)
      BY <3>1, <1>2 DEF Standing, Fit
    <3>3. due[t] <= s.now + Duration(s, t) /\ due[t] \in Nat
      BY <3>1, <1>2 DEF Scheduled
    <3>4. Duration(s, t) \in Nat
      BY <3>2, <1>2, PhaseIs
    <3> QED
      BY <2>1, <3>3, <3>4, <1>3, <1>5, <1>11 DEF d
  <2>2. CASE pl[t] \notin K
    BY <2>2, <1>11
  <2> QED
    BY <2>1, <2>2
<1> DEFINE f == ToolUse(s, pl, due)
           g == SlotUse(s, pl, due)
           H == {t \in Task : pl[t] \in SlotKinds}
<1>13. SlotKinds \subseteq {"cpuDone", "ioDone"} /\ {"ioDone"} \subseteq {"cpuDone", "ioDone"}
       /\ config.LiveIO \in BOOLEAN
  BY InputIs DEF SlotKinds
<1>14. Summable(f) /\ Summable(g) /\ DOMAIN f = Task /\ DOMAIN g = Task
  BY <1>1, UseSums DEF ToolUse, SlotUse
<1>15. ASSUME NEW t \in Task, NEW k PROVE Spent(s, t, k) \in Nat
  <2>1. s.state[t].phase <= Len(task[t].phases) + 1
    BY <1>2 DEF Standing, Fit
  <2> QED
    BY <2>1, <1>2, BehindSums
<1>16. ToolUse(r, pl, due) = Shifted(f, At(pl, "ioDone"), d)
  <2>1. ASSUME NEW t \in Task
        PROVE  ToolUse(r, pl, due)[t] = f[t] + (IF t \in At(pl, "ioDone") THEN d ELSE 0)
    <3>1. /\ Elapsed(r, pl, due, t, {"ioDone"})
              = Elapsed(s, pl, due, t, {"ioDone"}) + (IF pl[t] = "ioDone" THEN d ELSE 0)
          /\ Elapsed(s, pl, due, t, {"ioDone"}) \in Nat
      BY <1>12, <1>13
    <3>2. Spent(r, t, "external_io") = Spent(s, t, "external_io") /\ Spent(s, t, "external_io") \in Nat
      BY <1>11, <1>15
    <3>3. /\ ToolUse(r, pl, due)[t] = Spent(r, t, "external_io") + Elapsed(r, pl, due, t, {"ioDone"})
          /\ f[t] = Spent(s, t, "external_io") + Elapsed(s, pl, due, t, {"ioDone"})
          /\ (t \in At(pl, "ioDone") <=> pl[t] = "ioDone")
      BY DEF ToolUse, At
    <3> HIDE DEF f
    <3> QED
      BY <3>1, <3>2, <3>3, <1>6
  <2>2. ToolUse(r, pl, due) = [t \in Task |-> ToolUse(r, pl, due)[t]]
    BY DEF ToolUse
  <2> HIDE DEF f
  <2> QED
    BY <2>1, <2>2, <1>14 DEF Shifted
<1>17. SlotUse(r, pl, due) = Shifted(g, H, d)
  <2>1. ASSUME NEW t \in Task
        PROVE  SlotUse(r, pl, due)[t] = g[t] + (IF t \in H THEN d ELSE 0)
    <3> DEFINE c == Spent(s, t, "cpu")
               i == IF config.LiveIO THEN 0 ELSE Spent(s, t, "external_io")
               x == Elapsed(s, pl, due, t, SlotKinds)
               y == Elapsed(r, pl, due, t, SlotKinds)
    <3>1. y = x + (IF pl[t] \in SlotKinds THEN d ELSE 0) /\ x \in Nat
      BY <1>12, <1>13
    <3>2. c \in Nat /\ i \in Nat
      BY <1>13, <1>15
    <3>3. SlotUse(r, pl, due)[t] = c + i + y /\ g[t] = c + i + x
          /\ (t \in H <=> pl[t] \in SlotKinds)
      BY <1>11 DEF SlotUse
    <3> HIDE DEF g, H, c, i, x, y
    <3> QED
      BY <3>1, <3>2, <3>3, <1>6
  <2>2. SlotUse(r, pl, due) = [t \in Task |-> SlotUse(r, pl, due)[t]]
    BY DEF SlotUse
  <2> HIDE DEF g, H
  <2> QED
    BY <2>1, <2>2, <1>14 DEF Shifted
<1>18. H \subseteq Holding(s) /\ (config.LiveIO => H = Holding(s))
  <2>1. ASSUME NEW t \in Task
        PROVE  /\ pl[t] \in SlotKinds => s.state[t].holdsRunning
               /\ config.LiveIO /\ s.state[t].holdsRunning => pl[t] \in SlotKinds
    <3>1. pl[t] # "hand" /\ Fit(s, t, pl[t])
      BY <1>1, <1>2 DEF At, Standing
    <3>2. s.state[t].holdsRunning <=> pl[t] = "cpuDone" \/ (pl[t] \in {"toolQueue", "ioDone"} /\ ~config.LiveIO)
      BY <3>1 DEF Fit
    <3> QED
      BY <3>2, <1>13 DEF SlotKinds
  <2> QED
    BY <2>1 DEF Holding
<1> HIDE DEF f, g, H
<1>19. At(pl, "ioDone") \in SUBSET DOMAIN f /\ H \in SUBSET DOMAIN g
  BY <1>14, <1>18 DEF At, Holding
<1>20. /\ Total(ToolUse(r, pl, due)) = Total(f) + Cardinality(At(pl, "ioDone")) * d
       /\ Total(SlotUse(r, pl, due)) = Total(g) + Cardinality(H) * d
  BY <1>6, <1>14, <1>16, <1>17, <1>19, TotalShift
<1>21. Total(f) \in Nat /\ Total(g) \in Nat
  BY <1>14, TotalType
<1>22. Cardinality(H) \in Nat /\ Cardinality(Holding(s)) \in Nat /\ Cardinality(H) <= Cardinality(Holding(s))
  <2>1. IsFiniteSet(Holding(s))
    BY InputIs, FS_Subset DEF Holding
  <2> QED
    BY <2>1, <1>18, FS_Subset, FS_CardinalityType
<1>23. Ledger(r, pl, due)
  <2>1. s.tools = Cardinality(At(pl, "ioDone")) /\ s.running = Cardinality(Holding(s))
    BY <1>2 DEF Tallied
  <2>2. s.toolTime = Total(f) /\ (config.LiveIO => s.slotTime = Total(g))
        /\ (~config.LiveIO => s.slotTime >= Total(g)) /\ s.slotTime \in Int
    BY <1>2, SimFields DEF Ledger, f, g
  <2>3. r.toolTime = Total(ToolUse(r, pl, due))
    BY <2>1, <2>2, <1>4, <1>20
  <2>4. CASE config.LiveIO
    BY <2>1, <2>2, <2>3, <2>4, <1>4, <1>18, <1>20 DEF Ledger
  <2>5. CASE ~config.LiveIO
    <3>1. \A m, n, k \in Nat : m <= n => m * k <= n * k /\ m * k \in Nat /\ n * k \in Nat
      OBVIOUS
    <3>2. Cardinality(H) * d <= s.running * d /\ Cardinality(H) * d \in Nat /\ s.running * d \in Nat
      BY <3>1, <2>1, <1>6, <1>22
    <3>3. r.slotTime >= Total(SlotUse(r, pl, due))
      BY <3>2, <2>2, <2>5, <1>4, <1>20, <1>21
    <3> QED
      BY <3>3, <2>3, <2>5 DEF Ledger
  <2> QED
    BY <2>4, <2>5, <1>13
<1>24. Placed(r, pl, due)
  BY <1>2, <1>4, <1>7, <1>8, <1>9, <1>10, <1>23 DEF Placed
<1> QED
  BY <1>1, <1>24 DEF AtRest, r

-----------------------------------------------------------------------------
(* The simulator starts, and every step keeps the invariant. *)

\* Every task waits for its arrival.
LEMMA StartAtRest ==
    ASSUME SimInit
    PROVE  InputType /\ AtRest(sim)
<1> DEFINE pl  == [t \in Task |-> "arrival"]
           due == [t \in Task |-> task[t].arrival]
<1>1. InputType
  BY DEF SimInit, InputType
<1>2. /\ Task \subseteq Nat /\ IsFiniteSet(Task) /\ 0 \notin Task
      /\ config.MaxRunning \in Nat /\ config.MaxResident \in Nat /\ config.MaxInflightTools \in Nat
      /\ \A t \in Task : /\ task[t].arrival \in Nat /\ Valid(task[t].phases)
                         /\ task[t].phases \in Seq([kind : PhaseKind, duration : Nat])
  BY <1>1, InputIs
<1>3. pl \in [Task -> Place] /\ due \in [Task -> Nat]
  BY <1>2 DEF Place, EventKind
<1>4. NewState \in StateType
  BY DEF NewState, StateType
<1>5. ASSUME NEW t \in Task PROVE Arrivals0[t] \in EventType
  <2>1. task[t].arrival \in Nat /\ t \in Nat
    BY <1>2
  <2> QED
    BY <2>1 DEF Arrivals0, EventType, EventKind
<1>6. Range(Arrivals0) = {Arrivals0[t] : t \in Task}
  BY DEF Range, Arrivals0
<1>7. Range(Arrivals0) \in SUBSET EventType
  BY <1>5, <1>6
<1>8. /\ sim.now = 0 /\ sim.seq = Tasks /\ sim.events = Range(Arrivals0) /\ sim.batch = {}
      /\ sim.state = [t \in Task |-> NewState] /\ sim.ready = <<>> /\ sim.admission = <<>>
      /\ sim.toolQueue = <<>> /\ sim.running = 0 /\ sim.resident = 0 /\ sim.tools = 0
      /\ sim.slotTime = 0 /\ sim.toolTime = 0 /\ sim.error = FALSE
  BY DEF SimInit
<1>9. sim \in SimType
  <2>1. [t \in Task |-> NewState] \in [Task -> StateType]
    BY <1>4
  <2>2. Tasks \in Nat /\ <<>> \in Seq(Task)
    BY SimAssumption
  <2> QED
    BY <2>1, <2>2, <1>7 DEF SimInit, SimType
<1>10. ASSUME NEW t \in Task
       PROVE  /\ sim.state[t].phase = 1 /\ sim.state[t].readySeq = 0 /\ sim.state[t].end = "none"
              /\ ~sim.state[t].admitted /\ ~sim.state[t].holdsRunning /\ ~sim.state[t].inToolQueue
  BY <1>8 DEF NewState
<1>11. Standing(sim, pl)
  <2> SUFFICES ASSUME NEW t \in Task PROVE Fit(sim, t, "arrival")
    BY <1>3 DEF Standing
  <2>1. Len(task[t].phases) \in Nat /\ Len(task[t].phases) >= 1 /\ task[t].phases[1].kind = "cpu"
    BY <1>2 DEF Valid
  <2> QED
    BY <2>1, <1>10 DEF Fit, Over, Kind
<1>12. \A p : p # "arrival" => At(pl, p) = {}
  BY DEF At
<1>13. Queued(sim, pl)
  <2>1. Lists(<<>>, {})
    BY DEF Lists
  <2> QED
    BY <2>1, <1>8, <1>12 DEF Queued
<1>14. Ordered(sim, pl)
  BY <1>8, <1>10, <1>12, SimAssumption DEF Ordered
<1>15. Scheduled(sim, pl, due)
  <2>1. Pending(sim) = Range(Arrivals0)
    BY <1>8 DEF Pending
  <2>2. ASSUME NEW t \in Task
        PROVE  /\ Arrivals0[t].task = t /\ Arrivals0[t].kind = "arrival" /\ Arrivals0[t].phase = 1
               /\ Arrivals0[t].at = task[t].arrival
    BY DEF Arrivals0
  <2>3. \A e \in Pending(sim) : \E t \in Task : e = Arrivals0[t]
    BY <2>1, <1>6
  <2>4. \A e \in Pending(sim) : e.task \in Task /\ e = Arrivals0[e.task]
    BY <2>2, <2>3
  <2>5. \A e \in Pending(sim) : /\ pl[e.task] = e.kind /\ due[e.task] = e.at
                                /\ e.phase = sim.state[e.task].phase
    BY <2>2, <2>4, <1>10
  <2>6. \A e, f \in Pending(sim) : e.task = f.task => e = f
    BY <2>4
  <2>7. \A t \in Task : /\ \E e \in Pending(sim) : e.task = t
                        /\ due[t] >= sim.now
    BY <2>1, <2>2, <1>2, <1>6, <1>8
  <2> QED
    BY <2>5, <2>6, <2>7, <1>3, <1>8 DEF Scheduled
<1>16. Tallied(sim, pl)
  <2>1. Holding(sim) = {} /\ Admitted(sim) = {} /\ At(pl, "ioDone") = {}
    BY <1>10, <1>12 DEF Holding, Admitted
  <2>2. Cardinality({}) = 0
    BY FS_EmptySet
  <2>3. sim.running = Cardinality(Holding(sim)) /\ sim.resident = Cardinality(Admitted(sim))
        /\ sim.tools = Cardinality(At(pl, "ioDone"))
    BY <2>1, <2>2, <1>8
  <2>4. sim.running <= config.MaxRunning /\ sim.resident <= config.MaxResident
        /\ sim.tools <= config.MaxInflightTools
    BY <1>2, <1>8
  <2> QED
    BY <2>3, <2>4 DEF Tallied
<1>17. Ledger(sim, pl, due)
  <2>1. ASSUME NEW t \in Task, NEW k PROVE Spent(sim, t, k) = 0
    <3>1. sim.state[t].phase <= Len(task[t].phases) + 1
      BY <1>11 DEF Standing, Fit
    <3>2. Summable(Behind(sim, t, k))
      BY <3>1, <1>1, <1>9, BehindSums
    <3>3. DOMAIN Behind(sim, t, k) = {}
      BY <1>10 DEF Behind
    <3> QED
      BY <3>2, <3>3, TotalType DEF Spent
  <2>2. \A t \in Task : /\ Elapsed(sim, pl, due, t, {"ioDone"}) = 0
                        /\ Elapsed(sim, pl, due, t, SlotKinds) = 0
    BY DEF Elapsed, SlotKinds
  <2> DEFINE zero == [t \in Task |-> 0]
  <2>3. ToolUse(sim, pl, due) = zero
    BY <2>1, <2>2 DEF ToolUse
  <2>4. SlotUse(sim, pl, due) = zero
    BY <2>1, <2>2 DEF SlotUse
  <2>5. Total(zero) = 0
    BY <1>2, TotalZero
  <2> HIDE DEF zero
  <2> QED
    BY <2>3, <2>4, <2>5, <1>8 DEF Ledger
<1>18. Placed(sim, pl, due)
  BY <1>8, <1>9, <1>11, <1>13, <1>14, <1>15, <1>16, <1>17 DEF Placed
<1>19. At(pl, "hand") = {}
  BY <1>12
<1> HIDE DEF pl, due
<1> QED
  BY <1>1, <1>3, <1>18, <1>19 DEF AtRest

\* drain does not touch the events that are being handled.
LEMMA BatchStays ==
    ASSUME NEW s \in SimType
    PROVE  /\ StartTool(s).batch = s.batch /\ StartRunning(s).batch = s.batch
           /\ Reject(s).batch = s.batch
<1>1. StartTool(s).batch = s.batch
  BY DEF StartTool, PushEvent, SimType
<1>2. Reject(s).batch = s.batch
  BY DEF Reject, SimType
<1>3. StartRunning(s).batch = s.batch
  BY DEF StartRunning, PushEvent, EnqueueTool, Admit, SimType
<1> QED
  BY <1>1, <1>2, <1>3

-----------------------------------------------------------------------------
(* The invariant. *)

\* Nobody is in a method's hands between the steps; at the end of an instant no
\* capacity is left that somebody waits for.
SimInv ==
    /\ InputType
    /\ pc \in {"events", "handle", "drain", "done"}
    /\ AtRest(sim)
    /\ pc # "handle" => sim.batch = {}
    /\ pc \in {"events", "done"} => ~CanStartTool(sim) /\ ~CanStartRunning(sim)
    /\ pc = "done" => sim.events = {}

LEMMA SimStarts == SimInit => SimInv
<1> SUFFICES ASSUME SimInit PROVE SimInv
  OBVIOUS
<1>1. InputType /\ AtRest(sim)
  BY StartAtRest
<1>2. pc = "events" /\ sim.batch = {} /\ sim.toolQueue = <<>> /\ sim.ready = <<>> /\ sim.admission = <<>>
  BY DEF SimInit
<1>3. ~CanStartTool(sim) /\ ~CanStartRunning(sim)
  BY <1>2 DEF CanStartTool, CanStartRunning, Candidates, Range
<1> QED
  BY <1>1, <1>2, <1>3 DEF SimInv

LEMMA AtRestType == ASSUME NEW s, AtRest(s) PROVE s \in SimType /\ ~s.error
  BY DEF AtRest, Placed

\* The input never changes, so that what holds of the next simulator under this
\* step's input holds of it under the next one's.
LEMMA SameInput ==
    ASSUME InputType, AtRest(sim'), UNCHANGED input
    PROVE  InputType' /\ AtRest(sim)'
<1>0. config' = config /\ task' = task
  BY DEF input
<1>1. InputType'
  BY <1>0 DEF InputType
<1>2. PICK pl \in [Task -> Place], due \in [Task -> Nat] : Placed(sim', pl, due) /\ At(pl, "hand") = {}
  BY DEF AtRest
<1>3. /\ sim' \in SimType /\ ~sim'.error /\ Standing(sim', pl) /\ Queued(sim', pl) /\ Ordered(sim', pl)
      /\ Scheduled(sim', pl, due) /\ Tallied(sim', pl) /\ Ledger(sim', pl, due)
  BY <1>2 DEF Placed
<1>4. Standing(sim, pl)'
  BY <1>0, <1>3 DEF Standing, Fit, Over, Kind
<1>5. Queued(sim, pl)' /\ Ordered(sim, pl)'
  BY <1>3 DEF Queued, Ordered
<1>6. \A t \in Task : Duration(sim, t)' = Duration(sim', t)
  BY <1>0 DEF Duration
<1>7. Scheduled(sim, pl, due)'
  BY <1>3, <1>6 DEF Scheduled, Pending
<1>8. Tallied(sim, pl)'
  BY <1>0, <1>3 DEF Tallied, Holding, Admitted
<1>9. \A t \in Task, k \in PhaseKind : Spent(sim, t, k)' = Spent(sim', t, k)
  BY <1>0 DEF Spent, Behind
<1>10. /\ SlotKinds' = SlotKinds
       /\ \A t \in Task : \A K : Elapsed(sim, pl, due, t, K)' = Elapsed(sim', pl, due, t, K)
  BY <1>0, <1>6 DEF Elapsed, SlotKinds
<1>11. ToolUse(sim, pl, due)' = ToolUse(sim', pl, due)
  BY <1>9, <1>10 DEF ToolUse, PhaseKind
<1>12. SlotUse(sim, pl, due)' = SlotUse(sim', pl, due)
  BY <1>0, <1>9, <1>10 DEF SlotUse, PhaseKind
<1>13. Ledger(sim, pl, due)'
  BY <1>0, <1>3, <1>11, <1>12 DEF Ledger
<1>14. Placed(sim, pl, due)'
  BY <1>3, <1>4, <1>5, <1>7, <1>8, <1>13 DEF Placed
<1> QED
  BY <1>1, <1>2, <1>14 DEF AtRest

LEMMA SimStep == SimInv /\ [SimNext]_simVars => SimInv'
<1> SUFFICES ASSUME SimInv, [SimNext]_simVars PROVE SimInv'
  OBVIOUS
<1>1. InputType /\ AtRest(sim) /\ sim \in SimType
  BY AtRestType DEF SimInv
<1>2. CASE UNCHANGED simVars
  <2>1. sim' = sim /\ pc' = pc /\ config' = config /\ UNCHANGED input
    BY <1>2 DEF simVars, input
  <2>2. InputType' /\ AtRest(sim)'
    BY <2>1, <1>1, SameInput
  <2> QED
    BY <2>1, <2>2 DEF SimInv, CanStartTool, CanStartRunning, Candidates
<1>3. CASE NextInstant
  <2>1. pc = "events" /\ sim.events # {} /\ sim' = Taken(sim) /\ pc' = "handle" /\ UNCHANGED input
    BY <1>3 DEF NextInstant, Keep, Taken, Instant, Due
  <2>2. AtRest(sim')
    BY <2>1, <1>1, InstantTaken DEF SimInv
  <2>3. InputType' /\ AtRest(sim)'
    BY <2>1, <2>2, <1>1, SameInput
  <2> QED
    BY <2>1, <2>3 DEF SimInv
<1>4. CASE HandleNext
  <2> DEFINE e == CHOOSE e \in sim.batch : \A f \in sim.batch : e.seq <= f.seq
             N == {f.seq : f \in sim.batch}
  <2>1. pc = "handle" /\ sim.batch # {} /\ sim' = HandleEvent([sim EXCEPT !.batch = @ \ {e}], e)
        /\ pc' = (IF sim'.error THEN "error" ELSE "handle") /\ UNCHANGED input
    BY <1>4 DEF HandleNext, Keep
  <2>2. \A f \in sim.batch : f.seq \in Nat
    BY <1>1, SimFields DEF EventType
  <2>3. N \in SUBSET Nat /\ N # {}
    BY <2>1, <2>2
  <2>4. PICK n \in N : \A k \in N : n <= k
    BY <2>3, LeastNumber
  <2>5. \E f \in sim.batch : \A g \in sim.batch : f.seq <= g.seq
    BY <2>4
  <2>6. e \in sim.batch
    BY <2>5
  <2> HIDE DEF e
  <2>7. AtRest(sim')
    BY <2>1, <2>6, <1>1, EventHandled
  <2>8. InputType' /\ AtRest(sim)'
    BY <2>1, <2>7, <1>1, SameInput
  <2>9. pc' = "handle"
    BY <2>1, <2>7, AtRestType
  <2> QED
    BY <2>8, <2>9 DEF SimInv
<1>5. CASE Handled
  <2>1. pc = "handle" /\ sim.batch = {} /\ sim' = sim /\ pc' = "drain" /\ UNCHANGED input
    BY <1>5 DEF Handled, Keep
  <2>2. InputType' /\ AtRest(sim)'
    BY <2>1, <1>1, SameInput
  <2> QED
    BY <2>1, <2>2 DEF SimInv
<1>6. CASE DrainTool
  <2>1. pc = "drain" /\ CanStartTool(sim) /\ sim' = StartTool(sim) /\ pc' = pc /\ UNCHANGED input
    BY <1>6 DEF DrainTool, Keep
  <2>2. AtRest(sim') /\ sim'.batch = {}
    BY <2>1, <1>1, ToolStarts, BatchStays DEF SimInv
  <2>3. InputType' /\ AtRest(sim)'
    BY <2>1, <2>2, <1>1, SameInput
  <2> QED
    BY <2>1, <2>2, <2>3 DEF SimInv
<1>7. CASE DrainRunning
  <2>1. pc = "drain" /\ CanStartRunning(sim) /\ sim' = StartRunning(sim) /\ pc' = pc /\ UNCHANGED input
    BY <1>7 DEF DrainRunning, Keep
  <2>2. AtRest(sim') /\ sim'.batch = {}
    BY <2>1, <1>1, RunningStarts, BatchStays DEF SimInv
  <2>3. InputType' /\ AtRest(sim)'
    BY <2>1, <2>2, <1>1, SameInput
  <2> QED
    BY <2>1, <2>2, <2>3 DEF SimInv
<1>8. CASE EnforceQueueLimit
  <2>1. pc = "drain" /\ ~CanStartTool(sim) /\ ~CanStartRunning(sim) /\ UNCHANGED input
    BY <1>8 DEF EnforceQueueLimit, Keep
  <2>2. CASE config.MaxQueued > 0 /\ Len(sim.admission) > config.MaxQueued
    <3>1. sim' = Reject(sim) /\ pc' = pc
      BY <1>8, <2>2 DEF EnforceQueueLimit
    <3>2. sim.admission # <<>>
      <4>1. config.MaxQueued \in Nat
        BY <1>1, InputIs
      <4> QED
        BY <4>1, <2>2
    <3>3. AtRest(sim') /\ sim'.batch = {}
      BY <3>1, <3>2, <2>1, <1>1, Rejected, BatchStays DEF SimInv
    <3>4. InputType' /\ AtRest(sim)'
      BY <2>1, <3>3, <1>1, SameInput
    <3> QED
      BY <2>1, <3>1, <3>3, <3>4 DEF SimInv
  <2>3. CASE ~(config.MaxQueued > 0 /\ Len(sim.admission) > config.MaxQueued)
    <3>1. sim' = sim /\ pc' = "events"
      BY <1>8, <2>3 DEF EnforceQueueLimit
    <3>2. InputType' /\ AtRest(sim)' /\ config' = config
      BY <2>1, <3>1, <1>1, SameInput DEF input
    <3>3. ~CanStartTool(sim)' /\ ~CanStartRunning(sim)'
      BY <2>1, <3>1, <3>2 DEF CanStartTool, CanStartRunning, Candidates
    <3> QED
      BY <2>1, <3>1, <3>2, <3>3 DEF SimInv
  <2> QED
    BY <2>2, <2>3
<1>9. CASE Finish
  <2>1. pc = "events" /\ sim.events = {} /\ sim' = sim /\ pc' = "done" /\ UNCHANGED input
    BY <1>9 DEF Finish, Keep
  <2>2. InputType' /\ AtRest(sim)' /\ config' = config
    BY <2>1, <1>1, SameInput DEF input
  <2>3. ~CanStartTool(sim)' /\ ~CanStartRunning(sim)'
    BY <2>1, <2>2 DEF SimInv, CanStartTool, CanStartRunning, Candidates
  <2> QED
    BY <2>1, <2>2, <2>3 DEF SimInv
<1> QED
  BY <1>2, <1>3, <1>4, <1>5, <1>6, <1>7, <1>8, <1>9 DEF SimNext

\* When the events run out nobody waits: what could wait for an event has none,
\* and what could wait for capacity would have had it.
LEMMA NobodyWaits ==
    ASSUME SimInv, pc = "done",
           NEW pl \in [Task -> Place], NEW due \in [Task -> Nat], Placed(sim, pl, due), At(pl, "hand") = {}
    PROVE  /\ \A t \in Task : pl[t] = "ended"
           /\ sim.running = 0 /\ sim.resident = 0 /\ sim.tools = 0
<1>1. /\ sim \in SimType /\ Standing(sim, pl) /\ Queued(sim, pl) /\ Scheduled(sim, pl, due) /\ Tallied(sim, pl)
      /\ InputType
  BY DEF Placed, SimInv
<1>2. sim.events = {} /\ sim.batch = {} /\ ~CanStartTool(sim) /\ ~CanStartRunning(sim)
  BY DEF SimInv
<1>3. \A t \in Task : pl[t] \notin EventKind /\ pl[t] # "hand"
  BY <1>1, <1>2 DEF Scheduled, Pending, At
<1>4. /\ config.MaxRunning \in Nat \ {0} /\ config.MaxInflightTools \in Nat \ {0}
      /\ config.MaxResident \in Nat /\ config.MaxResident >= config.MaxRunning
  BY <1>1, InputIs
<1>5. /\ Range(sim.ready) = At(pl, "ready") /\ Range(sim.admission) = At(pl, "admission")
      /\ Range(sim.toolQueue) = At(pl, "toolQueue")
  BY <1>1, ListRange DEF Queued
<1>6. sim.tools = 0
  <2>1. At(pl, "ioDone") = {}
    BY <1>3 DEF At, EventKind
  <2> QED
    BY <2>1, <1>1, FS_EmptySet DEF Tallied
<1>7. \A t \in Task : pl[t] # "toolQueue"
  <2>1. sim.toolQueue = <<>>
    BY <1>2, <1>4, <1>6 DEF CanStartTool
  <2>2. At(pl, "toolQueue") = {}
    BY <2>1, <1>5 DEF Range
  <2> QED
    BY <2>2 DEF At
<1>8. sim.running = 0
  <2>1. \A t \in Task : ~sim.state[t].holdsRunning
    BY <1>1, <1>3, <1>7 DEF Standing, Fit, EventKind
  <2>2. Holding(sim) = {}
    BY <2>1 DEF Holding
  <2> QED
    BY <2>2, <1>1, FS_EmptySet DEF Tallied
<1>9. Candidates(sim) = {}
  BY <1>2, <1>4, <1>8 DEF CanStartRunning
<1>10. \A t \in Task : pl[t] # "ready"
  BY <1>5, <1>9 DEF Candidates, At
<1>11. sim.resident = 0
  <2>1. \A t \in Task : ~sim.state[t].admitted
    BY <1>1, <1>3, <1>7, <1>10 DEF Standing, Fit, EventKind
  <2>2. Admitted(sim) = {}
    BY <2>1 DEF Admitted
  <2> QED
    BY <2>2, <1>1, FS_EmptySet DEF Tallied
<1>12. \A t \in Task : pl[t] # "admission"
  <2>1. sim.resident < config.MaxResident
    BY <1>4, <1>11
  <2> QED
    BY <2>1, <1>5, <1>9 DEF Candidates, At
<1> QED
  BY <1>3, <1>6, <1>7, <1>8, <1>10, <1>11, <1>12 DEF Place

LEMMA ConsistentHolds == SimInv => Consistent
<1> SUFFICES ASSUME SimInv PROVE Consistent
  OBVIOUS
<1>1. PICK pl \in [Task -> Place], due \in [Task -> Nat] : Placed(sim, pl, due) /\ At(pl, "hand") = {}
  BY DEF SimInv, AtRest
<1>2. sim \in SimType /\ Standing(sim, pl) /\ Tallied(sim, pl) /\ Ledger(sim, pl, due) /\ InputType
  BY <1>1 DEF Placed, SimInv
<1>3. pc # "error" /\ sim.running <= config.MaxRunning /\ sim.resident <= config.MaxResident
      /\ sim.tools <= config.MaxInflightTools
  BY <1>2 DEF SimInv, Tallied
<1>4. ASSUME pc = "done"
      PROVE  /\ \A t \in Task : sim.state[t].end # "none"
             /\ sim.running = 0 /\ sim.resident = 0 /\ sim.tools = 0
             /\ sim.toolTime = Total([t \in Task |-> Spent(sim, t, "external_io")])
             /\ IF config.LiveIO THEN sim.slotTime = Total([t \in Task |-> Spent(sim, t, "cpu")])
                ELSE sim.slotTime >= Total([t \in Task |-> Spent(sim, t, "cpu") + Spent(sim, t, "external_io")])
  <2>1. /\ \A t \in Task : pl[t] = "ended"
        /\ sim.running = 0 /\ sim.resident = 0 /\ sim.tools = 0
    BY <1>1, <1>4, NobodyWaits
  <2>2. \A t \in Task : sim.state[t].end # "none"
    BY <2>1, <1>2 DEF Standing, Fit
  <2>3. ASSUME NEW t \in Task, NEW k PROVE Spent(sim, t, k) \in Nat
    <3>1. sim.state[t].phase <= Len(task[t].phases) + 1
      BY <1>2 DEF Standing, Fit
    <3> QED
      BY <3>1, <1>2, BehindSums
  <2>4. \A t \in Task : Elapsed(sim, pl, due, t, {"ioDone"}) = 0 /\ Elapsed(sim, pl, due, t, SlotKinds) = 0
    BY <2>1 DEF Elapsed, SlotKinds
  <2>5. ToolUse(sim, pl, due) = [t \in Task |-> Spent(sim, t, "external_io")]
    BY <2>3, <2>4 DEF ToolUse
  <2>6. CASE config.LiveIO
    <3>1. SlotUse(sim, pl, due) = [t \in Task |-> Spent(sim, t, "cpu")]
      BY <2>3, <2>4, <2>6 DEF SlotUse
    <3> QED
      BY <3>1, <2>1, <2>2, <2>5, <2>6, <1>2 DEF Ledger
  <2>7. CASE ~config.LiveIO
    <3>1. SlotUse(sim, pl, due) = [t \in Task |-> Spent(sim, t, "cpu") + Spent(sim, t, "external_io")]
      BY <2>3, <2>4, <2>7 DEF SlotUse
    <3> QED
      BY <3>1, <2>1, <2>2, <2>5, <2>7, <1>2 DEF Ledger
  <2> QED
    BY <2>6, <2>7
<1> QED
  BY <1>3, <1>4 DEF Consistent

\* Whatever the traces, the arrivals, the priorities and the configuration, as
\* long as validateSimulation accepts them: Simulate never reports a stale
\* completion or unfinished tasks, never exceeds a capacity and gives back what it
\* has handed out; the tool area, and with live I/O the slot area, is exactly the
\* time of the phases that were executed, and with inline I/O the slot area is no
\* less than that.
THEOREM SimConsistent == SimSpec => []Consistent
<1>1. SimInit => SimInv
  BY SimStarts
<1>2. SimInv /\ [SimNext]_simVars => SimInv'
  BY SimStep
<1>3. SimInv => Consistent
  BY ConsistentHolds
<1> QED
  BY <1>1, <1>2, <1>3, PTL DEF SimSpec
=============================================================================
