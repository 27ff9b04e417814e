-------------------------- MODULE WarehouseProofs --------------------------
(***************************************************************************)
(* What a warehouse counts, for any table: facts about Count, Surplus,     *)
(* Least and Largest, which the theorems about checks and profiles cite.   *)
(*                                                                         *)
(* A sum over a set is a recursive function, and what it computes is shown *)
(* by induction over the set.  The induction is by minimal counterexample: *)
(* WFMin, of the finite subsets of a set ordered by inclusion.             *)
(***************************************************************************)
EXTENDS Warehouse, FiniteSetTheorems, TLAPS

(* Of some finite subsets of S, one has none of the others within it.       *)
LEMMA MinimalSubset ==
    ASSUME NEW S, NEW T \in SUBSET SUBSET S, T # {}, \A s \in T : IsFiniteSet(s)
    PROVE  \E s \in T : \A u \in T : u \subseteq s => u = s
<1>1. T \subseteq FiniteSubsetsOf(S)
  BY DEF FiniteSubsetsOf
<1>2. IsWellFoundedOn(StrictSubsetOrdering(S), FiniteSubsetsOf(S))
  BY FS_StrictSubsetOrderingWellFounded
<1>3. PICK s \in T : \A u \in T : ~ (<<u, s>> \in StrictSubsetOrdering(S))
  BY <1>1, <1>2, WFMin
<1>4. ASSUME NEW u \in T, u \subseteq s, u # s PROVE FALSE
  <2>1. u \in SUBSET S /\ s \in SUBSET S
    OBVIOUS
  <2>2. <<u, s>> \in StrictSubsetOrdering(S)
    BY <1>4, <2>1 DEF StrictSubsetOrdering
  <2> QED
    BY <1>3, <2>2
<1> QED
  BY <1>4

(* A set of finite subsets of S that has the empty one, and a set whenever  *)
(* it has that set less some element, has them all.                         *)
LEMMA SetInduction ==
    ASSUME NEW S, IsFiniteSet(S), NEW H \in SUBSET SUBSET S, {} \in H,
           \A s \in SUBSET S : s # {} /\ (\A x \in s : s \ {x} \in H) => s \in H
    PROVE  H = SUBSET S
<1> SUFFICES ASSUME H # SUBSET S PROVE FALSE
  OBVIOUS
<1> DEFINE T == (SUBSET S) \ H
<1>1. T # {} /\ T \in SUBSET SUBSET S /\ \A s \in T : IsFiniteSet(s)
  BY FS_Subset
<1> HIDE DEF T
<1>2. PICK s \in T : \A u \in T : u \subseteq s => u = s
  BY <1>1, MinimalSubset
<1>3. s \in SUBSET S /\ s \notin H /\ s # {}
  BY DEF T
<1>4. ASSUME NEW x \in s PROVE s \ {x} \in H
  <2>1. s \ {x} \in SUBSET S /\ s \ {x} \subseteq s /\ s \ {x} # s
    BY <1>3
  <2>2. s \ {x} \notin T
    BY <1>2, <2>1
  <2> QED
    BY <2>1, <2>2 DEF T
<1> QED
  BY <1>3, <1>4
---------------------------------------------------------------------------
(* Sums.  Iterates: g is the recursive function of a sum of f over S.       *)

First(s) == CHOOSE x \in s : TRUE

Iterates(f, S, g) ==
    g = [s \in SUBSET S |-> IF s = {} THEN 0 ELSE f[First(s)] + g[s \ {First(s)}]]

LEMMA FirstOf == ASSUME NEW s, s # {} PROVE First(s) \in s
BY DEF First

(* Such a function exists: up to any size of s there is one.                *)
LEMMA IterateExists ==
    ASSUME NEW f, NEW S, IsFiniteSet(S)
    PROVE  \E g : Iterates(f, S, g)
<1> DEFINE Upto(n) == {s \in SUBSET S : Cardinality(s) <= n}
           Step(g, s) == IF s = {} THEN 0 ELSE f[First(s)] + g[s \ {First(s)}]
           Good(n) == \E g : g = [s \in Upto(n) |-> Step(g, s)]
           size == Cardinality(S)
           N == 0 .. size
           H == {I \in SUBSET N : \A n \in N : I = 1 .. n => Good(n)}
<1>0. /\ size \in Nat /\ \A s \in SUBSET S : IsFiniteSet(s) /\ Cardinality(s) \in Nat /\ Cardinality(s) <= size
      /\ IsFiniteSet(N)
  <2>1. size \in Nat
    BY FS_CardinalityType
  <2>2. ASSUME NEW s \in SUBSET S
        PROVE  IsFiniteSet(s) /\ Cardinality(s) \in Nat /\ Cardinality(s) <= size
    <3>1. IsFiniteSet(s) /\ Cardinality(s) <= Cardinality(S)
      BY FS_Subset
    <3>2. Cardinality(s) \in Nat
      BY <3>1, FS_CardinalityType
    <3> QED
      BY <3>1, <3>2
  <2>3. IsFiniteSet(N)
    BY <2>1, FS_Interval
  <2> QED
    BY <2>1, <2>2, <2>3
<1>1. Good(0)
  <2>1. Upto(0) = {{}}
    BY <1>0, FS_EmptySet
  <2>2. [s \in {{}} |-> 0] = [s \in Upto(0) |-> Step([t \in {{}} |-> 0], s)]
    BY <2>1
  <2> QED
    BY <2>2
<1>2. ASSUME NEW n \in Nat, Good(n) PROVE Good(n + 1)
  <2>1. PICK g : g = [s \in Upto(n) |-> Step(g, s)]
    BY <1>2
  <2> DEFINE h == [s \in Upto(n + 1) |-> Step(g, s)]
  <2>2. ASSUME NEW s \in Upto(n + 1) PROVE Step(h, s) = Step(g, s)
    <3> SUFFICES ASSUME s # {} PROVE h[s \ {First(s)}] = g[s \ {First(s)}]
      OBVIOUS
    <3>1. First(s) \in s
      BY FirstOf
    <3> DEFINE r == s \ {First(s)}
    <3>2. r \in SUBSET S /\ Cardinality(r) = Cardinality(s) - 1
      BY <1>0, <3>1, FS_RemoveElement
    <3>3. r \in Upto(n) /\ r \in Upto(n + 1)
      BY <1>0, <3>2
    <3> HIDE DEF r, Step
    <3>4. h[r] = Step(g, r) /\ g[r] = Step(g, r)
      BY <2>1, <3>3
    <3> QED
      BY <3>4 DEF r
  <2>3. h = [s \in Upto(n + 1) |-> Step(h, s)]
    <3> HIDE DEF Step
    <3>1. \A s \in Upto(n + 1) : Step(h, s) = Step(g, s)
      BY <2>2
    <3> QED
      BY <3>1
  <2> HIDE DEF h
  <2> QED
    BY <2>3
<1> HIDE DEF Good
<1>3. \A n \in N : Good(n)
  <2>1. H \in SUBSET SUBSET N /\ {} \in H
    <3>1. \A n \in N : {} = 1 .. n => n = 0
      BY <1>0
    <3> QED
      BY <1>1, <3>1
  <2>2. ASSUME NEW I \in SUBSET N, I # {}, \A x \in I : I \ {x} \in H PROVE I \in H
    <3> SUFFICES ASSUME NEW n \in N, I = 1 .. n PROVE Good(n)
      OBVIOUS
    <3>1. n \in I /\ n - 1 \in N /\ n - 1 \in Nat /\ I \ {n} = 1 .. (n - 1)
      BY <1>0, <2>2
    <3>2. Good(n - 1)
      BY <2>2, <3>1
    <3>3. Good((n - 1) + 1)
      BY <1>2, <3>1, <3>2
    <3> QED
      BY <1>0, <3>3
  <2>3. H = SUBSET N
    <3> HIDE DEF H, N
    <3> QED
      BY <1>0, <2>1, <2>2, SetInduction
  <2>4. \A n \in N : 1 .. n \in SUBSET N
    BY <1>0
  <2> QED
    BY <2>3, <2>4
<1>4. PICK g : g = [s \in Upto(size) |-> Step(g, s)]
  <2>1. Good(size)
    BY <1>0, <1>3
  <2> QED
    BY <2>1 DEF Good
<1>5. Upto(size) = SUBSET S
  BY <1>0
<1> QED
  BY <1>4, <1>5 DEF Iterates

LEMMA IterateStep ==
    ASSUME NEW f, NEW S, NEW g, Iterates(f, S, g), NEW s \in SUBSET S
    PROVE  g[s] = IF s = {} THEN 0 ELSE f[First(s)] + g[s \ {First(s)}]
<1>1. g = [u \in SUBSET S |-> IF u = {} THEN 0 ELSE f[First(u)] + g[u \ {First(u)}]]
  BY DEF Iterates
<1> QED
  BY <1>1

LEMMA IterateInt ==
    ASSUME NEW f, NEW S, IsFiniteSet(S), \A x \in S : f[x] \in Int, NEW g, Iterates(f, S, g)
    PROVE  \A s \in SUBSET S : g[s] \in Int
<1> DEFINE H == {s \in SUBSET S : g[s] \in Int}
<1>0. ASSUME NEW s \in SUBSET S
      PROVE  g[s] = IF s = {} THEN 0 ELSE f[First(s)] + g[s \ {First(s)}]
  <2>1. g = [u \in SUBSET S |-> IF u = {} THEN 0 ELSE f[First(u)] + g[u \ {First(u)}]]
    BY DEF Iterates
  <2> QED
    BY <2>1
<1>1. {} \in H /\ H \in SUBSET SUBSET S
  BY <1>0
<1>2. ASSUME NEW s \in SUBSET S, s # {}, \A x \in s : s \ {x} \in H PROVE s \in H
  <2>1. First(s) \in s
    BY <1>2, FirstOf
  <2>2. g[s] = f[First(s)] + g[s \ {First(s)}]
    BY <1>0, <1>2
  <2>3. f[First(s)] \in Int /\ g[s \ {First(s)}] \in Int
    BY <1>2, <2>1
  <2> QED
    BY <2>2, <2>3
<1> HIDE DEF H
<1>3. H = SUBSET S
  BY <1>1, <1>2, SetInduction
<1> QED
  BY <1>3 DEF H

(* Its values are numbers, the same in whatever order elements are taken.   *)
LEMMA IterateAny ==
    ASSUME NEW f, NEW S, IsFiniteSet(S), \A x \in S : f[x] \in Int, NEW g, Iterates(f, S, g)
    PROVE  \A s \in SUBSET S : g[s] \in Int /\ \A x \in s : g[s] = f[x] + g[s \ {x}]
<1> DEFINE Good(s) == g[s] \in Int /\ \A x \in s : g[s] = f[x] + g[s \ {x}]
           H == {s \in SUBSET S : Good(s)}
<1>0. ASSUME NEW s \in SUBSET S
      PROVE  g[s] = IF s = {} THEN 0 ELSE f[First(s)] + g[s \ {First(s)}]
  <2>1. g = [u \in SUBSET S |-> IF u = {} THEN 0 ELSE f[First(u)] + g[u \ {First(u)}]]
    BY DEF Iterates
  <2> QED
    BY <2>1
<1>1. {} \in H /\ H \in SUBSET SUBSET S
  BY <1>0, IterateInt
<1>2. ASSUME NEW s \in SUBSET S, s # {}, \A x \in s : s \ {x} \in H PROVE s \in H
  <2> DEFINE y == First(s)
  <2>1. y \in s
    BY <1>2, FirstOf
  <2>2. g[s] = f[y] + g[s \ {y}]
    BY <1>0, <1>2
  <2> HIDE DEF y
  <2>3. f[y] \in Int /\ g[s \ {y}] \in Int
    BY <1>2, <2>1
  <2>4. ASSUME NEW x \in s PROVE g[s] = f[x] + g[s \ {x}]
    <3> SUFFICES ASSUME x # y PROVE g[s] = f[x] + g[s \ {x}]
      BY <2>2
    <3>1. (s \ {y}) \ {x} = (s \ {x}) \ {y}
      OBVIOUS
    <3>2. x \in s \ {y} /\ y \in s \ {x}
      BY <2>1
    <3>3. g[s \ {y}] = f[x] + g[(s \ {y}) \ {x}] /\ g[s \ {x}] = f[y] + g[(s \ {y}) \ {x}]
      BY <1>2, <2>1, <3>1, <3>2
    <3>4. f[x] \in Int /\ g[s \ {x}] \in Int
      BY <1>2
    <3>5. PICK u : u = g[(s \ {y}) \ {x}]
      OBVIOUS
    <3>6. u \in Int
      BY <3>5, IterateInt
    <3> QED
      BY <2>2, <2>3, <3>3, <3>4, <3>5, <3>6
  <2>5. g[s] \in Int
    BY <2>2, <2>3
  <2> QED
    BY <2>4, <2>5
<1> HIDE DEF H
<1>3. H = SUBSET S
  BY <1>1, <1>2, SetInduction
<1> QED
  BY <1>3 DEF H

(* Two of them that agree on the elements of T agree on its subsets.        *)
LEMMA IterateSame ==
    ASSUME NEW f, NEW S, NEW g, Iterates(f, S, g),
           NEW e, NEW T \in SUBSET S, NEW h, Iterates(e, T, h),
           IsFiniteSet(T), \A x \in T : f[x] = e[x]
    PROVE  \A s \in SUBSET T : g[s] = h[s]
<1> DEFINE H == {s \in SUBSET T : g[s] = h[s]}
<1>0. ASSUME NEW s \in SUBSET T
      PROVE  /\ g[s] = IF s = {} THEN 0 ELSE f[First(s)] + g[s \ {First(s)}]
             /\ h[s] = IF s = {} THEN 0 ELSE e[First(s)] + h[s \ {First(s)}]
  <2>1. s \in SUBSET S
    OBVIOUS
  <2>2. g[s] = IF s = {} THEN 0 ELSE f[First(s)] + g[s \ {First(s)}]
    BY <2>1, IterateStep
  <2>3. h[s] = IF s = {} THEN 0 ELSE e[First(s)] + h[s \ {First(s)}]
    BY IterateStep
  <2> QED
    BY <2>2, <2>3
<1>1. {} \in H /\ H \in SUBSET SUBSET T
  BY <1>0
<1>2. ASSUME NEW s \in SUBSET T, s # {}, \A x \in s : s \ {x} \in H PROVE s \in H
  <2>1. First(s) \in s
    BY <1>2, FirstOf
  <2>3. g[s] = f[First(s)] + g[s \ {First(s)}] /\ h[s] = e[First(s)] + h[s \ {First(s)}]
    BY <1>0, <1>2
  <2> QED
    BY <1>2, <2>1, <2>3
<1> HIDE DEF H
<1>3. H = SUBSET T
  BY <1>1, <1>2, SetInduction
<1> QED
  BY <1>3 DEF H

LEMMA CountIterates == ASSUME NEW table, NEW S, IsFiniteSet(S) PROVE \E g : Iterates(table, S, g) /\ Count(table, S) = g[S]
<1> DEFINE g == CHOOSE g : Iterates(table, S, g)
<1>1. Count(table, S) = g[S]
  BY DEF Count, MapThenSumSet, MapThenFoldSet, Iterates, First
<1>2. Iterates(table, S, g)
  BY IterateExists
<1> QED
  BY <1>1, <1>2

LEMMA SurplusIterates ==
    ASSUME NEW table, NEW S, IsFiniteSet(S)
    PROVE  LET R == Repeated(table, S) IN
           \E g : Iterates([c \in R |-> table[c] - 1], R, g) /\ Surplus(table, S) = g[R]
<1> DEFINE R == Repeated(table, S)
           f == [c \in R |-> table[c] - 1]
           Less(g) == g = [s \in SUBSET R |->
                            IF s = {} THEN 0 ELSE (table[First(s)] - 1) + g[s \ {First(s)}]]
           g == CHOOSE g : Less(g)
<1>1. Surplus(table, S) = g[R]
  BY DEF Surplus, MapThenSumSet, MapThenFoldSet, First
<1>2. IsFiniteSet(R)
  BY FS_Subset DEF Repeated
<1> HIDE DEF R
<1>3. PICK h : Iterates(f, R, h)
  BY <1>2, IterateExists
<1>4. ASSUME NEW e PROVE Less(e) <=> Iterates(f, R, e)
  <2>1. \A s \in SUBSET R : s # {} => First(s) \in R
    BY FirstOf
  <2>2. \A s \in SUBSET R : s # {} => f[First(s)] = table[First(s)] - 1
    BY <2>1
  <2> DEFINE A == [s \in SUBSET R |-> IF s = {} THEN 0 ELSE (table[First(s)] - 1) + e[s \ {First(s)}]]
             B == [s \in SUBSET R |-> IF s = {} THEN 0 ELSE f[First(s)] + e[s \ {First(s)}]]
  <2>3. A = B
    <3> HIDE DEF f
    <3> QED
      BY <2>2
  <2> QED
    BY <2>3 DEF Iterates
<1>5. Less(g)
  BY <1>3, <1>4
<1> QED
  BY <1>1, <1>4, <1>5 DEF R
---------------------------------------------------------------------------
(* COUNT.  The numbers of rows are those of the cells of a finite set S.    *)

LEMMA CellsFinite == \A S \in SUBSET Cells : IsFiniteSet(S)
<1>1. IsFiniteSet(Cells)
  BY ValuesAssumption, FS_AddElement DEF Cells
<1> QED
  BY <1>1, FS_Subset

LEMMA CountEmpty == ASSUME NEW t PROVE Count(t, {}) = 0
<1>1. PICK g : Iterates(t, {}, g) /\ Count(t, {}) = g[{}]
  BY FS_EmptySet, CountIterates
<1>2. g = [u \in SUBSET {} |-> IF u = {} THEN 0 ELSE t[First(u)] + g[u \ {First(u)}]]
  BY <1>1 DEF Iterates
<1> QED
  BY <1>1, <1>2

LEMMA CountRest ==
    ASSUME NEW t, NEW S, IsFiniteSet(S), \A x \in S : t[x] \in Nat, NEW c \in S
    PROVE  Count(t, S) = t[c] + Count(t, S \ {c})
<1> DEFINE R == S \ {c}
<1>1. PICK g : Iterates(t, S, g) /\ Count(t, S) = g[S]
  BY CountIterates
<1>2. IsFiniteSet(R) /\ R \in SUBSET S
  BY FS_Subset
<1>3. PICK h : Iterates(t, R, h) /\ Count(t, R) = h[R]
  BY <1>2, CountIterates
<1>4. g[R] = h[R]
  <2> HIDE DEF R
  <2>1. \A s \in SUBSET R : g[s] = h[s]
    BY <1>1, <1>2, <1>3, IterateSame
  <2> QED
    BY <2>1
<1>5. g[S] = t[c] + g[R]
  <2>1. \A x \in S : t[x] \in Int
    OBVIOUS
  <2>2. Iterates(t, S, g)
    BY <1>1
  <2>3. \A s \in SUBSET S : g[s] \in Int /\ \A x \in s : g[s] = t[x] + g[s \ {x}]
    BY <2>1, <2>2, IterateAny
  <2>4. S \in SUBSET S
    OBVIOUS
  <2> QED
    BY <2>3, <2>4
<1> QED
  BY <1>1, <1>3, <1>4, <1>5

LEMMA CountType ==
    ASSUME NEW t, NEW S, IsFiniteSet(S), \A x \in S : t[x] \in Nat
    PROVE  Count(t, S) \in Nat
<1> DEFINE H == {s \in SUBSET S : Count(t, s) \in Nat}
<1>1. {} \in H /\ H \in SUBSET SUBSET S
  BY CountEmpty
<1>2. ASSUME NEW s \in SUBSET S, s # {}, \A x \in s : s \ {x} \in H PROVE s \in H
  <2>1. PICK c : c \in s
    BY <1>2
  <2>2. IsFiniteSet(s)
    BY FS_Subset
  <2>3. Count(t, s) = t[c] + Count(t, s \ {c})
    BY <2>1, <2>2, CountRest
  <2>4. t[c] \in Nat /\ Count(t, s \ {c}) \in Nat
    BY <1>2, <2>1
  <2> QED
    BY <2>3, <2>4
<1> HIDE DEF H
<1>3. H = SUBSET S
  BY <1>1, <1>2, SetInduction
<1> QED
  BY <1>3 DEF H

LEMMA CountOne ==
    ASSUME NEW t, NEW c, t[c] \in Nat
    PROVE  Count(t, {c}) = t[c]
<1>1. IsFiniteSet({c}) /\ {c} \ {c} = {}
  BY FS_Singleton
<1>2. Count(t, {c}) = t[c] + Count(t, {c} \ {c})
  BY <1>1, CountRest
<1> QED
  BY <1>1, <1>2, CountEmpty

(* The rows of S are those of A and those of the rest.                      *)
LEMMA CountParts ==
    ASSUME NEW t, NEW S, IsFiniteSet(S), \A x \in S : t[x] \in Nat, NEW A \in SUBSET S
    PROVE  Count(t, S) = Count(t, A) + Count(t, S \ A)
<1> DEFINE B == S \ A
           H == {a \in SUBSET A : Count(t, a \cup B) = Count(t, a) + Count(t, B)}
<1>0. \A s \in SUBSET S : IsFiniteSet(s) /\ Count(t, s) \in Nat
  BY FS_Subset, CountType
<1>1. {} \in H /\ H \in SUBSET SUBSET A
  <2>1. {} \cup B = B /\ Count(t, B) \in Nat
    BY <1>0
  <2> QED
    BY <2>1, CountEmpty
<1>2. ASSUME NEW a \in SUBSET A, a # {}, \A x \in a : a \ {x} \in H PROVE a \in H
  <2>1. PICK c : c \in a
    BY <1>2
  <2>2. (a \cup B) \ {c} = (a \ {c}) \cup B /\ a \cup B \in SUBSET S /\ a \in SUBSET S /\ c \in S
    BY <2>1
  <2>3. Count(t, a \cup B) = t[c] + Count(t, (a \ {c}) \cup B)
    BY <1>0, <2>1, <2>2, CountRest
  <2>4. Count(t, a) = t[c] + Count(t, a \ {c})
    BY <1>0, <2>1, <2>2, CountRest
  <2>5. Count(t, (a \ {c}) \cup B) = Count(t, a \ {c}) + Count(t, B)
    BY <1>2, <2>1
  <2>6. t[c] \in Nat /\ Count(t, a \ {c}) \in Nat /\ Count(t, B) \in Nat
    BY <1>0, <2>2
  <2> HIDE DEF B
  <2> QED
    BY <2>3, <2>4, <2>5, <2>6
<1>3. H = SUBSET A
  <2>1. IsFiniteSet(A)
    BY <1>0
  <2> HIDE DEF H
  <2> QED
    BY <1>1, <1>2, <2>1, SetInduction
<1>4. A \cup B = S /\ A \in H
  BY <1>3
<1> QED
  BY <1>4

LEMMA CountWithin ==
    ASSUME NEW t, NEW S, IsFiniteSet(S), \A x \in S : t[x] \in Nat, NEW A \in SUBSET S
    PROVE  Count(t, A) \in Nat /\ Count(t, S) \in Nat /\ Count(t, A) <= Count(t, S)
<1>1. IsFiniteSet(A) /\ IsFiniteSet(S \ A)
  BY FS_Subset
<1>2. Count(t, A) \in Nat /\ Count(t, S \ A) \in Nat
  BY <1>1, CountType
<1> QED
  BY <1>2, CountParts

(* No rows, exactly when no cell has one.                                   *)
LEMMA CountZero ==
    ASSUME NEW t, NEW S, IsFiniteSet(S), \A x \in S : t[x] \in Nat
    PROVE  Count(t, S) = 0 <=> \A x \in S : t[x] = 0
<1>1. ASSUME Count(t, S) = 0, NEW c \in S PROVE t[c] = 0
  <2>1. {c} \in SUBSET S /\ Count(t, {c}) = t[c]
    BY CountOne
  <2>2. Count(t, {c}) <= 0
    BY <1>1, <2>1, CountWithin
  <2> QED
    BY <2>1, <2>2
<1>2. ASSUME \A x \in S : t[x] = 0 PROVE Count(t, S) = 0
  <2> DEFINE H == {s \in SUBSET S : Count(t, s) = 0}
  <2>1. {} \in H /\ H \in SUBSET SUBSET S
    BY CountEmpty
  <2>2. ASSUME NEW s \in SUBSET S, s # {}, \A x \in s : s \ {x} \in H PROVE s \in H
    <3>1. PICK c : c \in s
      BY <2>2
    <3>2. Count(t, s) = t[c] + Count(t, s \ {c})
      BY <3>1, FS_Subset, CountRest
    <3> QED
      BY <1>2, <2>2, <3>1, <3>2
  <2> HIDE DEF H
  <2>3. H = SUBSET S
    BY <2>1, <2>2, SetInduction
  <2> QED
    BY <2>3 DEF H
<1> QED
  BY <1>1, <1>2

LEMMA CountPresent ==
    ASSUME NEW t, NEW S, IsFiniteSet(S), \A x \in S : t[x] \in Nat
    PROVE  Count(t, Present(t, S)) = Count(t, S)
<1> DEFINE A == Present(t, S)
<1>1. A \in SUBSET S /\ \A x \in S \ A : t[x] = 0
  BY DEF Present
<1> HIDE DEF A
<1>2. IsFiniteSet(S \ A) /\ IsFiniteSet(A)
  BY <1>1, FS_Subset
<1>3. Count(t, S \ A) = 0
  BY <1>1, <1>2, CountZero
<1>4. Count(t, A) \in Nat
  BY <1>1, <1>2, CountType
<1>5. Count(t, S) = Count(t, A) + Count(t, S \ A)
  BY <1>1, CountParts
<1> QED
  BY <1>3, <1>4, <1>5 DEF A

LEMMA CountSame ==
    ASSUME NEW t, NEW e, NEW S, IsFiniteSet(S), \A x \in S : t[x] = e[x]
    PROVE  Count(t, S) = Count(e, S)
<1>1. PICK g : Iterates(t, S, g) /\ Count(t, S) = g[S]
  BY CountIterates
<1>2. PICK h : Iterates(e, S, h) /\ Count(e, S) = h[S]
  BY CountIterates
<1>3. \A s \in SUBSET S : g[s] = h[s]
  BY <1>1, <1>2, IterateSame
<1> QED
  BY <1>1, <1>2, <1>3

(* As many rows as cells, at least, where every cell has one.               *)
LEMMA CountCells ==
    ASSUME NEW t, NEW S, IsFiniteSet(S), \A x \in S : t[x] \in Nat /\ t[x] > 0
    PROVE  /\ Cardinality(S) <= Count(t, S)
           /\ Cardinality(S) = Count(t, S) <=> \A x \in S : t[x] = 1
<1> DEFINE Good(s) == /\ Cardinality(s) <= Count(t, s)
                      /\ Cardinality(s) = Count(t, s) <=> \A x \in s : t[x] = 1
           H == {s \in SUBSET S : Good(s)}
<1>0. ASSUME NEW s \in SUBSET S PROVE IsFiniteSet(s) /\ Count(t, s) \in Nat /\ Cardinality(s) \in Nat
  <2>1. IsFiniteSet(s)
    BY FS_Subset
  <2> QED
    BY <2>1, CountType, FS_CardinalityType
<1>1. {} \in H /\ H \in SUBSET SUBSET S
  BY CountEmpty, FS_EmptySet
<1>2. ASSUME NEW s \in SUBSET S, s # {}, \A x \in s : s \ {x} \in H PROVE s \in H
  <2>1. PICK c : c \in s
    BY <1>2
  <2> DEFINE r == s \ {c}
  <2>2. r \in SUBSET S
    OBVIOUS
  <2>3. Count(t, s) = t[c] + Count(t, r)
    BY <1>0, <2>1, CountRest
  <2>4. Cardinality(r) = Cardinality(s) - 1
    BY <1>0, <2>1, FS_RemoveElement
  <2>5. Good(r)
    BY <1>2, <2>1
  <2>6. s = r \cup {c}
    BY <2>1
  <2>7. Count(t, s) \in Nat /\ Cardinality(s) \in Nat /\ Count(t, r) \in Nat /\ t[c] \in Nat /\ t[c] > 0
    BY <1>0, <2>1, <2>2
  <2> HIDE DEF r
  <2>8. Cardinality(s) <= Count(t, s)
    BY <2>3, <2>4, <2>5, <2>7
  <2>9. Cardinality(s) = Count(t, s) <=> \A x \in s : t[x] = 1
    <3>1. Cardinality(s) = Count(t, s) <=> t[c] = 1 /\ Cardinality(r) = Count(t, r)
      BY <2>3, <2>4, <2>5, <2>7
    <3>2. (\A x \in s : t[x] = 1) <=> t[c] = 1 /\ \A x \in r : t[x] = 1
      BY <2>6
    <3> QED
      BY <2>5, <3>1, <3>2
  <2> QED
    BY <2>8, <2>9
<1>3. H = SUBSET S
  <2> HIDE DEF H
  <2> QED
    BY <1>1, <1>2, SetInduction
<1>4. S \in H
  BY <1>3
<1> QED
  BY <1>4

(* What is one too many: the rows less the groups.                          *)
LEMMA SurplusType ==
    ASSUME NEW t, NEW S, IsFiniteSet(S), \A x \in S : t[x] \in Nat
    PROVE  /\ Surplus(t, S) \in Nat
           /\ Surplus(t, S) = Count(t, Repeated(t, S)) - Cardinality(Repeated(t, S))
<1> DEFINE R == Repeated(t, S)
           f == [c \in R |-> t[c] - 1]
<1>1. R \in SUBSET S /\ \A x \in R : t[x] \in Nat /\ t[x] > 1
  BY DEF Repeated
<1>2. PICK g : Iterates(f, R, g) /\ Surplus(t, S) = g[R]
  BY SurplusIterates
<1> HIDE DEF R
<1>3. IsFiniteSet(R) /\ \A s \in SUBSET R : IsFiniteSet(s)
  BY <1>1, FS_Subset
<1>4. PICK h : Iterates(t, R, h) /\ Count(t, R) = h[R]
  BY <1>3, CountIterates
<1>5. \A s \in SUBSET R : g[s] \in Int /\ \A x \in s : g[s] = f[x] + g[s \ {x}]
  <2>1. \A x \in R : f[x] \in Int
    BY <1>1
  <2> HIDE DEF f
  <2> QED
    BY <1>2, <1>3, <2>1, IterateAny
<1>6. \A s \in SUBSET R : h[s] \in Int /\ \A x \in s : h[s] = t[x] + h[s \ {x}]
  <2>1. \A x \in R : t[x] \in Int
    BY <1>1
  <2> QED
    BY <1>3, <1>4, <2>1, IterateAny
<1> DEFINE H == {s \in SUBSET R : g[s] >= 0 /\ g[s] = h[s] - Cardinality(s)}
<1>7. {} \in H /\ H \in SUBSET SUBSET R
  <2>1. g[{}] = 0
    BY <1>2 DEF Iterates
  <2>2. h[{}] = 0
    BY <1>4 DEF Iterates
  <2> QED
    BY <2>1, <2>2, FS_EmptySet
<1>8. ASSUME NEW s \in SUBSET R, s # {}, \A x \in s : s \ {x} \in H PROVE s \in H
  <2>1. PICK c : c \in s
    BY <1>8
  <2> DEFINE r == s \ {c}
  <2>2. Cardinality(r) = Cardinality(s) - 1 /\ Cardinality(s) \in Nat
    BY <1>3, <2>1, FS_RemoveElement, FS_CardinalityType
  <2>3. g[r] >= 0 /\ g[r] = h[r] - Cardinality(r) /\ r \in SUBSET R
    BY <1>8, <2>1
  <2> HIDE DEF r
  <2>4. g[s] = f[c] + g[r] /\ h[s] = t[c] + h[r]
    BY <1>5, <1>6, <2>1 DEF r
  <2>5. g[r] \in Int /\ h[r] \in Int
    BY <1>5, <1>6, <2>3
  <2>6. f[c] = t[c] - 1 /\ t[c] \in Nat /\ t[c] > 1
    BY <1>1, <2>1
  <2> HIDE DEF f
  <2> QED
    BY <2>2, <2>3, <2>4, <2>5, <2>6
<1>9. H = SUBSET R
  <2> HIDE DEF H
  <2> QED
    BY <1>3, <1>7, <1>8, SetInduction
<1>10. R \in H
  BY <1>9
<1>11. g[R] \in Int
  BY <1>5
<1>12. Surplus(t, S) = Count(t, R) - Cardinality(R) /\ Surplus(t, S) \in Nat
  BY <1>2, <1>4, <1>10, <1>11
<1> QED
  BY <1>12 DEF R

LEMMA SurplusCounts ==
    ASSUME NEW t, NEW S, IsFiniteSet(S), \A x \in S : t[x] \in Nat
    PROVE  /\ Surplus(t, S) = Count(t, Present(t, S)) - Cardinality(Present(t, S))
           /\ Surplus(t, S) = 0 <=> Repeated(t, S) = {}
<1> DEFINE R == Repeated(t, S)
           A == Present(t, S)
<1>1. R \in SUBSET A /\ A \in SUBSET S /\ \A x \in A : t[x] \in Nat /\ t[x] > 0
  BY DEF Repeated, Present
<1>2. \A x \in A \ R : t[x] = 1
  BY DEF Repeated, Present
<1>3. Surplus(t, S) \in Nat /\ Surplus(t, S) = Count(t, R) - Cardinality(R)
  BY SurplusType
<1>4. \A x \in R : t[x] > 1
  BY DEF Repeated
<1> HIDE DEF R, A
<1>5. IsFiniteSet(A) /\ IsFiniteSet(R) /\ IsFiniteSet(A \ R)
  BY <1>1, FS_Subset
<1>6. Count(t, A) = Count(t, R) + Count(t, A \ R)
  BY <1>1, <1>5, CountParts
<1>7. Cardinality(A \ R) = Count(t, A \ R)
  BY <1>1, <1>2, <1>5, CountCells
<1>8. Cardinality(A) = Cardinality(R) + Cardinality(A \ R)
  <2>1. A = R \cup (A \ R) /\ R \cap (A \ R) = {}
    BY <1>1
  <2>2. Cardinality(R \cup (A \ R)) = Cardinality(R) + Cardinality(A \ R) - Cardinality(R \cap (A \ R))
    BY <1>5, FS_Union
  <2>3. Cardinality(R) \in Nat /\ Cardinality(A \ R) \in Nat
    BY <1>5, FS_CardinalityType
  <2> QED
    BY <2>1, <2>2, <2>3, FS_EmptySet
<1>9. Cardinality(R) \in Nat /\ Cardinality(A \ R) \in Nat /\ Count(t, R) \in Nat
  BY <1>1, <1>5, FS_CardinalityType, CountType
<1>10. Surplus(t, S) = Count(t, A) - Cardinality(A)
  BY <1>3, <1>6, <1>7, <1>8, <1>9
<1>11. Surplus(t, S) = 0 <=> Cardinality(R) = Count(t, R)
  BY <1>3, <1>9
<1>12. Cardinality(R) = Count(t, R) <=> \A x \in R : t[x] = 1
  BY <1>1, <1>5, CountCells
<1>13. (\A x \in R : t[x] = 1) <=> R = {}
  BY <1>4
<1> QED
  BY <1>10, <1>11, <1>12, <1>13 DEF R, A

---------------------------------------------------------------------------
(* MIN and MAX.                                                             *)

LEMMA SmallestNumber ==
    ASSUME NEW S \in SUBSET Int, IsFiniteSet(S), S # {}
    PROVE  /\ Min(S) \in S /\ \A y \in S : Min(S) <= y
           /\ Max(S) \in S /\ \A y \in S : Max(S) >= y
<1> DEFINE Lows(s)  == \E x \in s : \A y \in s : x =< y
           Highs(s) == \E x \in s : \A y \in s : x >= y
           H == {s \in SUBSET S : s = {} \/ (Lows(s) /\ Highs(s))}
<1>1. {} \in H /\ H \in SUBSET SUBSET S
  OBVIOUS
<1>2. ASSUME NEW s \in SUBSET S, s # {}, \A x \in s : s \ {x} \in H PROVE s \in H
  <2>1. PICK c : c \in s
    BY <1>2
  <2> DEFINE r == s \ {c}
  <2>2. r \in H
    BY <1>2, <2>1
  <2>3. CASE r = {}
    <3>1. \A y \in s : y = c
      BY <2>3
    <3>2. c \in Int
      BY <2>1
    <3> QED
      BY <2>1, <3>1, <3>2
  <2>4. CASE r # {}
    <3>1. PICK l \in r : \A y \in r : l =< y
      BY <2>2, <2>4
    <3>2. PICK u \in r : \A y \in r : u >= y
      BY <2>2, <2>4
    <3>3. \A y \in s : y \in Int /\ (y = c \/ y \in r)
      OBVIOUS
    <3>4. l \in s /\ u \in s /\ l \in Int /\ u \in Int /\ c \in Int
      BY <2>1
    <3> HIDE DEF r
    <3>5. Lows(s)
      <4>1. CASE l =< c
        BY <3>1, <3>3, <3>4, <4>1
      <4>2. CASE c < l
        BY <2>1, <3>1, <3>3, <3>4, <4>2
      <4> QED
        BY <3>4, <4>1, <4>2
    <3>6. Highs(s)
      <4>1. CASE u >= c
        BY <3>2, <3>3, <3>4, <4>1
      <4>2. CASE c > u
        BY <2>1, <3>2, <3>3, <3>4, <4>2
      <4> QED
        BY <3>4, <4>1, <4>2
    <3> QED
      BY <3>5, <3>6
  <2> QED
    BY <2>3, <2>4
<1>3. H = SUBSET S
  <2> HIDE DEF H
  <2> QED
    BY <1>1, <1>2, SetInduction
<1>4. Lows(S) /\ Highs(S)
  BY <1>3
<1> QED
  BY <1>4 DEF Min, Max

LEMMA LeastLargest ==
    ASSUME NEW t \in [Cells -> Nat], NEW S \in SUBSET Cells
    PROVE  LET held == Present(t, S \cap Values) IN
           /\ held = {} => Least(t, S) = None /\ Largest(t, S) = None
           /\ held # {} => /\ Least(t, S) \in held /\ Largest(t, S) \in held
                           /\ \A c \in held : c \in Int /\ Least(t, S) <= c /\ c <= Largest(t, S)
<1> DEFINE held == Present(t, S \cap Values)
<1>1. held \in SUBSET Int /\ IsFiniteSet(held)
  <2>1. held \in SUBSET Values
    BY DEF Present
  <2> QED
    BY <2>1, ValuesAssumption, FS_Subset
<1>2. Least(t, S) = IF held = {} THEN None ELSE Min(held)
  BY DEF Least
<1>3. Largest(t, S) = IF held = {} THEN None ELSE Max(held)
  BY DEF Largest
<1> HIDE DEF held
<1>4. CASE held = {}
  BY <1>2, <1>3, <1>4 DEF held
<1>5. CASE held # {}
  <2>1. /\ Min(held) \in held /\ \A y \in held : Min(held) <= y
        /\ Max(held) \in held /\ \A y \in held : Max(held) >= y
    BY <1>1, <1>5, SmallestNumber
  <2>2. \A c \in held : c \in Int /\ Least(t, S) <= c /\ c <= Largest(t, S)
    BY <1>1, <1>2, <1>3, <1>5, <2>1
  <2> QED
    BY <1>2, <1>3, <1>5, <2>1, <2>2 DEF held
<1> QED
  BY <1>4, <1>5
=============================================================================
