----------------------------- MODULE FiniteSums -----------------------------
(***************************************************************************)
(* Facts about maxima and sums over finite sets that the proofs of the     *)
(* components cite: money is a sum over rows, messages or transactions.    *)
(*                                                                         *)
(* Every induction is an argument by a minimal counterexample: among the   *)
(* subsets of a finite set that violate the claim there is one all of      *)
(* whose proper subsets satisfy it.                                        *)
(***************************************************************************)
EXTENDS Integers, FiniteSets, FiniteSetsExt, Functions, FiniteSetTheorems,
        WellFoundedInduction, TLAPS

\* A set of sets with an element that has no other one as its subset.
HasMinimal(T) == \E x \in T : \A y \in T : y \subseteq x => y = x

\* The subsets of a finite set are well-founded.
LEMMA MinimalSubset ==
    ASSUME NEW S, IsFiniteSet(S), NEW T \in SUBSET (SUBSET S), T # {}
    PROVE  HasMinimal(T)
<1>1. IsWellFoundedOn(StrictSubsetOrdering(S), SUBSET S)
  BY FS_StrictSubsetOrderingWellFounded, FS_FiniteSubsetsOfFinite
<1>2. PICK x \in T : \A y \in T : ~ (<<y, x>> \in StrictSubsetOrdering(S))
  BY <1>1, WFMin
<1> QED BY <1>2 DEF StrictSubsetOrdering, HasMinimal

\* A nonempty set of naturals has a least element.
LEMMA LeastNatural ==
    ASSUME NEW T \in SUBSET Nat, T # {}
    PROVE  \E n \in T : \A m \in T : n <= m
<1>1. PICK k \in T : TRUE OBVIOUS
<1> DEFINE U == {0..n : n \in {m \in T : m <= k}}
<1>2. IsFiniteSet(0..k) BY <1>1, FS_Interval
<1>3. U \in SUBSET (SUBSET (0..k)) /\ U # {} BY <1>1
<1> HIDE DEF U
<1>4a. HasMinimal(U) BY <1>2, <1>3, MinimalSubset
<1>4. PICK x \in U : \A y \in U : y \subseteq x => y = x BY <1>4a DEF HasMinimal
<1>5. PICK n \in T : n <= k /\ x = 0..n BY <1>4 DEF U
<1>6. SUFFICES ASSUME NEW m \in T, m < n PROVE FALSE BY <1>5
<1>7. 0..m \in U BY <1>5, <1>6 DEF U
<1>8. 0..m \subseteq x BY <1>5, <1>6
<1>9. n \in 0..m BY <1>4, <1>5, <1>7, <1>8
<1> QED BY <1>9, <1>6

\* Max of a finite nonempty set is its greatest element.
LEMMA MaxExists ==
    ASSUME NEW S \in SUBSET Int, IsFiniteSet(S), S # {}
    PROVE  Max(S) \in S /\ \A x \in S : x <= Max(S)
<1> DEFINE Above(x) == {y \in S : y >= x}
           T == {Above(x) : x \in S}
<1>1. T \in SUBSET (SUBSET S) /\ T # {} OBVIOUS
<1>2. PICK a \in T : \A b \in T : b \subseteq a => b = a 
  <2> HIDE DEF T
  <2>1. HasMinimal(T) BY <1>1, MinimalSubset
  <2> QED BY <2>1 DEF HasMinimal
<1>3. PICK x \in S : a = Above(x) BY <1>2
<1>4. \A y \in S : y <= x
  <2>1. SUFFICES ASSUME NEW y \in S, y > x PROVE FALSE OBVIOUS
  <2>2. Above(y) \in T OBVIOUS
  <2>3. Above(y) \subseteq Above(x)
    <3>1. x \in Int /\ y \in Int /\ \A z \in S : z \in Int OBVIOUS
    <3> SUFFICES ASSUME NEW z \in S, z >= y PROVE z >= x OBVIOUS
    <3> QED BY <2>1, <3>1
  <2>4. Above(y) = Above(x) BY <2>2, <2>3, <1>2, <1>3
  <2> QED BY <2>1, <2>4
<1> QED BY <1>4 DEF Max

-----------------------------------------------------------------------------
(* SumFunctionOnSet: the recursion has a solution, and only one *)

Pick(s) == CHOOSE x \in s : TRUE
SumDef(f, S, g) ==
    g = [s \in SUBSET S |-> IF s = {} THEN 0 ELSE f[Pick(s)] + g[s \ {Pick(s)}]]

\* What the fold of the library says of a sum.
LEMMA SumUnfold == 
   ASSUME NEW f, NEW S
   PROVE SumFunctionOnSet(f, S) = (CHOOSE g : SumDef(f, S, g))[S]
BY DEF SumFunctionOnSet, FoldFunctionOnSet, MapThenFoldSet, SumDef, Pick

\* The element taken out first.
LEMMA PickIn == \A s : s # {} => Pick(s) \in s
BY DEF Pick

\* Two tables of partial sums agree where both are defined.
LEMMA SumUnique ==
    ASSUME NEW f, NEW U, NEW V, NEW g, NEW h, SumDef(f, U, g), SumDef(f, V, h),
           NEW W \in SUBSET (U \cap V), IsFiniteSet(W)
    PROVE  g[W] = h[W]
<1> DEFINE T == {X \in SUBSET W : g[X] # h[X]}
<1>1. SUFFICES ASSUME T # {} PROVE FALSE OBVIOUS
<1>2. T \in SUBSET (SUBSET W) OBVIOUS
<1>3. HasMinimal(T)
  <2> HIDE DEF T
  <2> QED BY <1>1, <1>2, MinimalSubset
<1>4. PICK X \in T : \A Y \in T : Y \subseteq X => Y = X BY <1>3 DEF HasMinimal
<1>5. X # {} BY <1>4 DEF SumDef
<1> DEFINE Y == X \ {Pick(X)}
<1>6. Y \in SUBSET W /\ Y \subseteq X /\ Y # X BY <1>5, PickIn
<1>7. g[Y] = h[Y] BY <1>4, <1>6
<1>8. X \in SUBSET U /\ X \in SUBSET V OBVIOUS
<1>9. g[X] = f[Pick(X)] + g[Y] /\ h[X] = f[Pick(X)] + h[Y] BY <1>5, <1>8 DEF SumDef
<1> QED BY <1>4, <1>7, <1>9

\* The table of the partial sums over the subsets of S.
Table(f, S) == CHOOSE g : SumDef(f, S, g)

\* There is a table of partial sums.
LEMMA SumExists ==
    ASSUME NEW f, NEW S, IsFiniteSet(S)
    PROVE  SumDef(f, S, Table(f, S))
<1> DEFINE T == {X \in SUBSET S : ~ SumDef(f, X, Table(f, X))}
<1>1. SUFFICES ASSUME T # {} PROVE FALSE OBVIOUS
<1>2. T \in SUBSET (SUBSET S) OBVIOUS
<1>3. HasMinimal(T)
  <2> HIDE DEF T
  <2> QED BY <1>1, <1>2, MinimalSubset
<1>4. PICK M \in T : \A Y \in T : Y \subseteq M => Y = M BY <1>3 DEF HasMinimal
<1>5. \A Y \in SUBSET M : Y # M => SumDef(f, Y, Table(f, Y)) BY <1>4
<1> DEFINE g == [s \in SUBSET M |-> IF s = {} THEN 0
                   ELSE f[Pick(s)] + Table(f, s \ {Pick(s)})[s \ {Pick(s)}]]
<1>6. ASSUME NEW s \in SUBSET M, s # {} PROVE g[s \ {Pick(s)}] = Table(f, s \ {Pick(s)})[s \ {Pick(s)}]
  <2> DEFINE r == s \ {Pick(s)}
  <2>1. r \in SUBSET M /\ r # M BY <1>6, PickIn
  <2>2. SumDef(f, r, Table(f, r)) BY <2>1, <1>5
  <2> HIDE DEF r
  <2>3. CASE r = {}
    <3>1. g[r] = 0 /\ Table(f, r)[r] = 0 BY <2>3, <2>2, <2>1 DEF SumDef
    <3> QED BY <3>1 DEF r
  <2>4. CASE r # {}
    <3> DEFINE q == r \ {Pick(r)}
    <3>1. q \in SUBSET M /\ q # M /\ q \in SUBSET r BY <2>1, <2>4, PickIn
    <3>2. SumDef(f, q, Table(f, q)) BY <3>1, <1>5
    <3>3. IsFiniteSet(q) BY <3>1, FS_Subset
    <3>4. Table(f, q)[q] = Table(f, r)[q]
       <4> HIDE DEF q
       <4>1. q \in SUBSET (q \cap r) BY <3>1
       <4> QED BY <2>2, <3>2, <3>3, <4>1, SumUnique
    <3>5. Table(f, r)[r] = f[Pick(r)] + Table(f, r)[q] BY <2>2, <2>4 DEF SumDef
    <3>6. g[r] = f[Pick(r)] + Table(f, q)[q] BY <2>1, <2>4
    <3> QED BY <3>4, <3>5, <3>6 DEF r
  <2> QED BY <2>3, <2>4 DEF r
<1>7. SumDef(f, M, g) BY <1>6 DEF SumDef
<1>8. SumDef(f, M, Table(f, M)) 
  <2> HIDE DEF g
  <2> QED BY <1>7 DEF Table
<1> QED BY <1>8, <1>4

-----------------------------------------------------------------------------
(* Sums *)

\* The recursion itself.
LEMMA SumStep ==
    ASSUME NEW f, NEW S, IsFiniteSet(S)
    PROVE  SumFunctionOnSet(f, S) =
             IF S = {} THEN 0 ELSE f[Pick(S)] + SumFunctionOnSet(f, S \ {Pick(S)})
<1>1. SumDef(f, S, Table(f, S)) BY SumExists
<1>2. SumFunctionOnSet(f, S) = Table(f, S)[S] BY SumUnfold DEF Table
<1>3. CASE S = {} BY <1>1, <1>2, <1>3 DEF SumDef
<1>4. CASE S # {}
  <2> DEFINE r == S \ {Pick(S)}
  <2>1. r \in SUBSET S OBVIOUS
  <2>2. IsFiniteSet(r) BY <2>1, FS_Subset
  <2>3. SumDef(f, r, Table(f, r)) BY <2>2, SumExists
  <2>4. SumFunctionOnSet(f, r) = Table(f, r)[r] BY SumUnfold DEF Table
  <2>5. r \in SUBSET (S \cap r) OBVIOUS
  <2>6. Table(f, S)[r] = Table(f, r)[r]
    <3> HIDE DEF r
    <3> QED BY <1>1, <2>2, <2>3, <2>5, SumUnique
  <2>7. Table(f, S)[S] = f[Pick(S)] + Table(f, S)[r] BY <1>1, <1>4 DEF SumDef
  <2> QED BY <1>2, <1>4, <2>4, <2>6, <2>7
<1> QED BY <1>3, <1>4

\* The sum of nothing.
LEMMA SumEmpty == \A f : SumFunctionOnSet(f, {}) = 0
BY SumStep, FS_EmptySet

\* A sum of integers is an integer.
LEMMA SumType ==
    ASSUME NEW S, IsFiniteSet(S), NEW f, \A x \in S : f[x] \in Int
    PROVE  SumFunctionOnSet(f, S) \in Int
<1> DEFINE T == {X \in SUBSET S : SumFunctionOnSet(f, X) \notin Int}
<1>1. SUFFICES ASSUME T # {} PROVE FALSE OBVIOUS
<1>2. T \in SUBSET (SUBSET S) OBVIOUS
<1>3. HasMinimal(T)
  <2> HIDE DEF T
  <2> QED BY <1>1, <1>2, MinimalSubset
<1>4. PICK M \in T : \A Y \in T : Y \subseteq M => Y = M BY <1>3 DEF HasMinimal
<1> DEFINE r == M \ {Pick(M)}
<1>5. IsFiniteSet(M) BY FS_Subset
<1>6. M # {}
  <2>1. SumFunctionOnSet(f, M) \notin Int BY <1>4
  <2> SUFFICES ASSUME M = {} PROVE FALSE OBVIOUS
  <2>2. SumFunctionOnSet(f, M) = 0 BY SumEmpty, Zenon
  <2> QED BY <2>1, <2>2
<1>7. r \in SUBSET S /\ r # M /\ r \subseteq M /\ Pick(M) \in S BY <1>6, PickIn
<1>8. SumFunctionOnSet(f, r) \in Int BY <1>4, <1>7
<1>9. SumFunctionOnSet(f, M) = f[Pick(M)] + SumFunctionOnSet(f, r) BY <1>5, <1>6, SumStep
<1> QED BY <1>4, <1>7, <1>8, <1>9

\* Any element may be taken out first.
LEMMA SumRemove ==
    ASSUME NEW S, IsFiniteSet(S), NEW f, \A x \in S : f[x] \in Int, NEW a \in S
    PROVE  SumFunctionOnSet(f, S) = f[a] + SumFunctionOnSet(f, S \ {a})
<1> DEFINE Bad(X) == \E x \in X : SumFunctionOnSet(f, X) # f[x] + SumFunctionOnSet(f, X \ {x})
           T == {X \in SUBSET S : Bad(X)}
<1>1. SUFFICES ASSUME T # {} PROVE FALSE OBVIOUS
<1>2. T \in SUBSET (SUBSET S) OBVIOUS
<1>3. HasMinimal(T)
  <2> HIDE DEF T
  <2> QED BY <1>1, <1>2, MinimalSubset
<1>4. PICK M \in T : \A Y \in T : Y \subseteq M => Y = M BY <1>3 DEF HasMinimal
<1>5. PICK x \in M : SumFunctionOnSet(f, M) # f[x] + SumFunctionOnSet(f, M \ {x}) BY <1>4
<1> DEFINE c == Pick(M)
<1>6. IsFiniteSet(M) BY FS_Subset
<1>7. c \in M BY <1>5, PickIn
<1>8. SumFunctionOnSet(f, M) = f[c] + SumFunctionOnSet(f, M \ {c}) BY <1>5, <1>6, SumStep
<1> HIDE DEF c
<1>9. c # x BY <1>5, <1>8
<1> DEFINE r == M \ {c}
           s == M \ {x}
           q == M \ {c, x}
<1>10. r \in SUBSET S /\ s \in SUBSET S /\ q \in SUBSET S OBVIOUS
<1>11. ~Bad(r) /\ ~Bad(s)
  <2>1. r \subseteq M /\ r # M /\ s \subseteq M /\ s # M BY <1>5, <1>7
  <2> QED BY <2>1, <1>4, <1>10
<1>12. r \ {x} = q /\ s \ {c} = q BY <1>9
<1>13. SumFunctionOnSet(f, r) = f[x] + SumFunctionOnSet(f, q)
  <2>1. x \in r BY <1>5, <1>9
  <2> QED BY <1>11, <1>12, <2>1
<1>14. SumFunctionOnSet(f, s) = f[c] + SumFunctionOnSet(f, q)
  <2>1. c \in s BY <1>7, <1>9
  <2> QED BY <1>11, <1>12, <2>1
<1>15. SumFunctionOnSet(f, q) \in Int
  <2>1. IsFiniteSet(q) BY <1>10, FS_Subset
  <2> QED BY <1>10, <2>1, SumType
<1>16. f[c] \in Int /\ f[x] \in Int BY <1>5, <1>7
<1> HIDE DEF r, s, q
<1>17. SumFunctionOnSet(f, M) = f[x] + SumFunctionOnSet(f, s) BY <1>8, <1>13, <1>14, <1>15, <1>16 DEF r
<1> QED BY <1>5, <1>17 DEF s

\* An element more.
LEMMA SumAdd ==
    ASSUME NEW S, IsFiniteSet(S), NEW f, NEW a, a \notin S, \A x \in S \cup {a} : f[x] \in Int
    PROVE  SumFunctionOnSet(f, S \cup {a}) = f[a] + SumFunctionOnSet(f, S)
<1>1. IsFiniteSet(S \cup {a}) BY FS_AddElement
<1>2. (S \cup {a}) \ {a} = S OBVIOUS
<1> QED BY <1>1, <1>2, SumRemove

\* Only the values on the set matter.
LEMMA SumSame ==
    ASSUME NEW S, IsFiniteSet(S), NEW f, NEW g, \A x \in S : f[x] = g[x]
    PROVE  SumFunctionOnSet(f, S) = SumFunctionOnSet(g, S)
<1> DEFINE T == {X \in SUBSET S : SumFunctionOnSet(f, X) # SumFunctionOnSet(g, X)}
<1>1. SUFFICES ASSUME T # {} PROVE FALSE OBVIOUS
<1>2. T \in SUBSET (SUBSET S) OBVIOUS
<1>3. HasMinimal(T)
  <2> HIDE DEF T
  <2> QED BY <1>1, <1>2, MinimalSubset
<1>4. PICK M \in T : \A Y \in T : Y \subseteq M => Y = M BY <1>3 DEF HasMinimal
<1> DEFINE r == M \ {Pick(M)}
<1>5. IsFiniteSet(M) BY FS_Subset
<1>6. M # {} BY <1>4, <1>5, SumStep
<1>7. r \in SUBSET S /\ r # M /\ r \subseteq M /\ Pick(M) \in S BY <1>6, PickIn
<1>8. SumFunctionOnSet(f, r) = SumFunctionOnSet(g, r) BY <1>4, <1>7
<1>9. SumFunctionOnSet(f, M) = f[Pick(M)] + SumFunctionOnSet(f, r) BY <1>5, <1>6, SumStep
<1>10. SumFunctionOnSet(g, M) = g[Pick(M)] + SumFunctionOnSet(g, r) BY <1>5, <1>6, SumStep
<1> QED BY <1>4, <1>7, <1>8, <1>9, <1>10

\* One value changes.
LEMMA SumChange ==
    ASSUME NEW S, IsFiniteSet(S), NEW a \in S, NEW f, NEW g,
           \A x \in S : f[x] \in Int /\ g[x] \in Int,
           \A x \in S \ {a} : f[x] = g[x]
    PROVE  SumFunctionOnSet(g, S) = SumFunctionOnSet(f, S) + (g[a] - f[a])
<1>1. IsFiniteSet(S \ {a}) BY FS_RemoveElement
<1>2. SumFunctionOnSet(f, S \ {a}) = SumFunctionOnSet(g, S \ {a}) BY <1>1, SumSame
<1>3. SumFunctionOnSet(f, S) = f[a] + SumFunctionOnSet(f, S \ {a}) BY SumRemove
<1>4. SumFunctionOnSet(g, S) = g[a] + SumFunctionOnSet(g, S \ {a}) BY SumRemove
<1>5. SumFunctionOnSet(f, S \ {a}) \in Int BY <1>1, SumType
<1> QED BY <1>2, <1>3, <1>4, <1>5

\* A sum of naturals is a natural.
LEMMA SumNat ==
    ASSUME NEW S, IsFiniteSet(S), NEW f, \A x \in S : f[x] \in Nat
    PROVE  SumFunctionOnSet(f, S) \in Nat
<1> DEFINE T == {X \in SUBSET S : SumFunctionOnSet(f, X) \notin Nat}
<1>1. SUFFICES ASSUME T # {} PROVE FALSE OBVIOUS
<1>2. T \in SUBSET (SUBSET S) OBVIOUS
<1>3. HasMinimal(T)
  <2> HIDE DEF T
  <2> QED BY <1>1, <1>2, MinimalSubset
<1>4. PICK M \in T : \A Y \in T : Y \subseteq M => Y = M BY <1>3 DEF HasMinimal
<1> DEFINE r == M \ {Pick(M)}
<1>5. IsFiniteSet(M) BY FS_Subset
<1>6. M # {}
  <2>1. SumFunctionOnSet(f, M) \notin Nat BY <1>4
  <2> SUFFICES ASSUME M = {} PROVE FALSE OBVIOUS
  <2>2. SumFunctionOnSet(f, M) = 0 BY SumEmpty, Zenon
  <2> QED BY <2>1, <2>2
<1>7. r \in SUBSET S /\ r # M /\ r \subseteq M /\ Pick(M) \in S BY <1>6, PickIn
<1>8. SumFunctionOnSet(f, r) \in Nat BY <1>4, <1>7
<1>9. SumFunctionOnSet(f, M) = f[Pick(M)] + SumFunctionOnSet(f, r) BY <1>5, <1>6, SumStep
<1> QED BY <1>4, <1>7, <1>8, <1>9

\* The sum of one value.
LEMMA SumSingle ==
    ASSUME NEW f, NEW a, f[a] \in Int
    PROVE  SumFunctionOnSet(f, {a}) = f[a]
<1>1. IsFiniteSet({a}) BY FS_Singleton
<1>2. {a} \ {a} = {} OBVIOUS
<1>3. SumFunctionOnSet(f, {a}) = f[a] + SumFunctionOnSet(f, {a} \ {a}) BY <1>1, SumRemove
<1>4. SumFunctionOnSet(f, {}) = 0 BY SumEmpty
<1> QED BY <1>2, <1>3, <1>4

\* The greatest of one or two values.
LEMMA MaxOne == \A b \in Int : Max({b}) = b
<1> SUFFICES ASSUME NEW b \in Int PROVE Max({b}) = b OBVIOUS
<1>1. IsFiniteSet({b}) BY FS_Singleton
<1> QED BY <1>1, MaxExists

LEMMA MaxTwo == \A a, b \in Int : a <= b => Max({a} \cup {b}) = b
<1> SUFFICES ASSUME NEW a \in Int, NEW b \in Int, a <= b PROVE Max({a} \cup {b}) = b OBVIOUS
<1>1. IsFiniteSet({b}) /\ IsFiniteSet({a}) BY FS_Singleton
<1>2. IsFiniteSet({a} \cup {b}) BY <1>1, FS_Union
<1>3. Max({a} \cup {b}) \in {a} \cup {b} /\ b <= Max({a} \cup {b}) BY <1>2, MaxExists
<1> QED BY <1>3

\* The image of a finite set under a function is finite.
LEMMA FiniteImage ==
    ASSUME NEW S, IsFiniteSet(S), NEW f
    PROVE  IsFiniteSet({f[x] : x \in S})
<1> DEFINE T == {f[x] : x \in S}
           g == [x \in S |-> f[x]]
<1>1. g \in Surjection(S, T) BY DEF Surjection
<1> HIDE DEF g, T
<1>2. IsFiniteSet(T) BY <1>1, FS_Surjection
<1> QED BY <1>2 DEF T

\* The sum over two sets without a common element.
LEMMA SumUnion ==
    ASSUME NEW A, NEW B, IsFiniteSet(A), IsFiniteSet(B), A \cap B = {},
           NEW f, \A x \in A \cup B : f[x] \in Int
    PROVE  SumFunctionOnSet(f, A \cup B) = SumFunctionOnSet(f, A) + SumFunctionOnSet(f, B)
<1> DEFINE Good(X) == SumFunctionOnSet(f, A \cup X) = SumFunctionOnSet(f, A) + SumFunctionOnSet(f, X)
           T == {X \in SUBSET B : ~Good(X)}
<1>0. SumFunctionOnSet(f, A) \in Int BY SumType
<1>1. SUFFICES ASSUME T # {} PROVE FALSE OBVIOUS
<1>2. T \in SUBSET (SUBSET B) OBVIOUS
<1>3. HasMinimal(T)
  <2> HIDE DEF T
  <2> QED BY <1>1, <1>2, MinimalSubset
<1>4. PICK M \in T : \A Y \in T : Y \subseteq M => Y = M BY <1>3 DEF HasMinimal
<1> DEFINE a == Pick(M)
           r == M \ {a}
<1>5. IsFiniteSet(M) BY FS_Subset
<1>6. M # {}
  <2> SUFFICES ASSUME M = {} PROVE Good(M) BY <1>4
  <2>1. SumFunctionOnSet(f, M) = 0 BY SumEmpty, Zenon
  <2>2. A \cup M = A OBVIOUS
  <2> QED BY <1>0, <2>1, <2>2
<1>7. /\ r \in SUBSET B /\ r # M /\ r \subseteq M /\ a \in M
      /\ a \notin A \cup r /\ M = r \cup {a} /\ A \cup M = (A \cup r) \cup {a}
  BY <1>6, PickIn
<1>8. Good(r) BY <1>4, <1>7
<1>9. IsFiniteSet(r) /\ IsFiniteSet(A \cup r) BY <1>5, <1>7, FS_Subset, FS_Union
<1>10. f[a] \in Int /\ (\A x \in r : f[x] \in Int) /\ \A x \in A \cup r : f[x] \in Int BY <1>7
<1> HIDE DEF a, r
<1>11. SumFunctionOnSet(f, r \cup {a}) = f[a] + SumFunctionOnSet(f, r)
  BY <1>7, <1>9, <1>10, SumAdd
<1>12. SumFunctionOnSet(f, (A \cup r) \cup {a}) = f[a] + SumFunctionOnSet(f, A \cup r)
  BY <1>7, <1>9, <1>10, SumAdd
<1>13. SumFunctionOnSet(f, r) \in Int BY <1>9, <1>10, SumType
<1>14. Good(M)
  <2>1. SumFunctionOnSet(f, M) = f[a] + SumFunctionOnSet(f, r) BY <1>7, <1>11
  <2>2. SumFunctionOnSet(f, A \cup M) = f[a] + SumFunctionOnSet(f, A \cup r) BY <1>7, <1>12
  <2>3. SumFunctionOnSet(f, A \cup r) = SumFunctionOnSet(f, A) + SumFunctionOnSet(f, r) BY <1>8
  <2> QED BY <1>0, <1>10, <1>13, <2>1, <2>2, <2>3
<1> QED BY <1>4, <1>14

\* A sum of zeros.
LEMMA SumZero ==
    ASSUME NEW S, IsFiniteSet(S), NEW f, \A x \in S : f[x] = 0
    PROVE  SumFunctionOnSet(f, S) = 0
<1> DEFINE T == {X \in SUBSET S : SumFunctionOnSet(f, X) # 0}
<1>1. SUFFICES ASSUME T # {} PROVE FALSE OBVIOUS
<1>2. T \in SUBSET (SUBSET S) OBVIOUS
<1>3. HasMinimal(T)
  <2> HIDE DEF T
  <2> QED BY <1>1, <1>2, MinimalSubset
<1>4. PICK M \in T : \A Y \in T : Y \subseteq M => Y = M BY <1>3 DEF HasMinimal
<1> DEFINE r == M \ {Pick(M)}
<1>5. IsFiniteSet(M) BY FS_Subset
<1>6. M # {} BY <1>4, SumEmpty, Zenon
<1>7. r \in SUBSET S /\ r # M /\ r \subseteq M /\ Pick(M) \in S BY <1>6, PickIn
<1>8. SumFunctionOnSet(f, r) = 0 BY <1>4, <1>7
<1>9. SumFunctionOnSet(f, M) = f[Pick(M)] + SumFunctionOnSet(f, r) BY <1>5, <1>6, SumStep
<1> QED BY <1>4, <1>7, <1>8, <1>9

\* Elements with the value zero do not matter.
LEMMA SumOnly ==
    ASSUME NEW S, IsFiniteSet(S), NEW W \in SUBSET S, NEW f, \A x \in S : f[x] \in Int,
           \A x \in S \ W : f[x] = 0
    PROVE  SumFunctionOnSet(f, S) = SumFunctionOnSet(f, W)
<1> DEFINE Z == S \ W
<1>1. IsFiniteSet(W) /\ IsFiniteSet(Z) BY FS_Subset
<1>2. W \cap Z = {} /\ S = W \cup Z /\ \A x \in W \cup Z : f[x] \in Int OBVIOUS
<1>3. SumFunctionOnSet(f, Z) = 0 BY <1>1, SumZero
<1>4. SumFunctionOnSet(f, W) \in Int BY <1>1, SumType
<1> HIDE DEF Z
<1>5. SumFunctionOnSet(f, W \cup Z) = SumFunctionOnSet(f, W) + SumFunctionOnSet(f, Z)
  BY <1>1, <1>2, SumUnion
<1> QED BY <1>2, <1>3, <1>4, <1>5

\* A sum over S is one over the image of S when h tells the elements of S apart.
LEMMA SumReindex ==
    ASSUME NEW S, IsFiniteSet(S), NEW h, \A x, y \in S : h[x] = h[y] => x = y,
           NEW f, NEW g, \A x \in S : g[x] = f[h[x]] /\ g[x] \in Int
    PROVE  SumFunctionOnSet(g, S) = SumFunctionOnSet(f, {h[x] : x \in S})
<1> DEFINE Img(X) == {h[x] : x \in X}
           Good(X) == SumFunctionOnSet(g, X) = SumFunctionOnSet(f, Img(X))
           T == {X \in SUBSET S : ~Good(X)}
<1>1. SUFFICES ASSUME T # {} PROVE FALSE OBVIOUS
<1>2. T \in SUBSET (SUBSET S) OBVIOUS
<1>3. HasMinimal(T)
  <2> HIDE DEF T
  <2> QED BY <1>1, <1>2, MinimalSubset
<1>4. PICK M \in T : \A Y \in T : Y \subseteq M => Y = M BY <1>3 DEF HasMinimal
<1> DEFINE a == Pick(M)
           r == M \ {a}
<1>5. IsFiniteSet(M) BY FS_Subset
<1>6. M # {}
  <2> SUFFICES ASSUME M = {} PROVE Good(M) BY <1>4
  <2>1. Img(M) = {} OBVIOUS
  <2>2. SumFunctionOnSet(g, M) = 0 BY SumEmpty, Zenon
  <2>3. SumFunctionOnSet(f, Img(M)) = 0
    <3> HIDE DEF Img
    <3> QED BY <2>1, SumEmpty, Zenon
  <2> QED BY <2>2, <2>3
<1>7. r \in SUBSET S /\ r # M /\ r \subseteq M /\ a \in M /\ a \notin r /\ M = r \cup {a}
  BY <1>6, PickIn
<1>8. Good(r) BY <1>4, <1>7
<1>9. IsFiniteSet(r) BY <1>5, <1>7, FS_Subset
<1>10. IsFiniteSet(Img(r)) BY <1>9, FiniteImage
<1>11. h[a] \notin Img(r) BY <1>7
<1>12. Img(M) = Img(r) \cup {h[a]} BY <1>7
<1>13. g[a] = f[h[a]] /\ g[a] \in Int BY <1>7
<1>14. \A y \in Img(r) \cup {h[a]} : f[y] \in Int BY <1>7, <1>13
<1>15. \A x \in r \cup {a} : g[x] \in Int BY <1>7
<1> HIDE DEF a, r, Img
<1>16. SumFunctionOnSet(g, r \cup {a}) = g[a] + SumFunctionOnSet(g, r)
  BY <1>7, <1>9, <1>15, SumAdd
<1>17. SumFunctionOnSet(f, Img(r) \cup {h[a]}) = f[h[a]] + SumFunctionOnSet(f, Img(r))
  BY <1>10, <1>11, <1>14, SumAdd
<1>18. Good(M) BY <1>7, <1>8, <1>12, <1>13, <1>16, <1>17
<1> QED BY <1>4, <1>18
=============================================================================
