----------------------------- MODULE SumTheorems ----------------------------
(***************************************************************************)
(* The laws of sums over finite sets that the proofs about money and stock *)
(* need.  A sum of the models, MapThenSumSet, takes its elements one by    *)
(* one in an order that it chooses; the laws say that the order does not   *)
(* matter, and what becomes of a sum when one of its terms changes.        *)
(***************************************************************************)
EXTENDS FiniteSetsExt, FiniteSetTheorems, WellFoundedInduction, TLAPS

SumOf(f, S) == MapThenSumSet(LAMBDA x : f[x], S)

Pick(s) == CHOOSE x \in s : TRUE

(* What defines the sums of all parts of S; it[S] is the sum. *)
Sums(f, S, it) ==
  it = [s \in SUBSET S |-> IF s = {} THEN 0 ELSE f[Pick(s)] + it[s \ {Pick(s)}]]

AddsUp(f, s, it) == it[s] = IF s = {} THEN 0 ELSE f[Pick(s)] + it[s \ {Pick(s)}]

-----------------------------------------------------------------------------
LEMMA SumIsChosen ==
  ASSUME NEW f, NEW S
  PROVE  SumOf(f, S) = (CHOOSE it : Sums(f, S, it))[S]
  BY DEF SumOf, MapThenSumSet, MapThenFoldSet, Sums, Pick

LEMMA LeastNat ==
  ASSUME NEW T \in SUBSET Nat, T # {}
  PROVE  \E n \in T : \A m \in T : n <= m
  <1>1. \E n \in T : \A m \in T : ~ (<<m, n>> \in OpToRel(<, Nat))
    BY NatLessThanWellFounded, WFMin
  <1>2. PICK n \in T : \A m \in T : ~ (<<m, n>> \in OpToRel(<, Nat)) BY <1>1
  <1>3. \A m \in T : ~ (m < n) BY <1>2 DEF OpToRel
  <1> QED BY <1>3

LEMMA Picked ==
  ASSUME NEW S, IsFiniteSet(S), S # {}
  PROVE  /\ Pick(S) \in S /\ IsFiniteSet(S \ {Pick(S)})
         /\ Cardinality(S) \in Nat /\ Cardinality(S \ {Pick(S)}) \in Nat
         /\ Cardinality(S \ {Pick(S)}) = Cardinality(S) - 1
  <1>1. Pick(S) \in S BY DEF Pick
  <1> QED BY <1>1, FS_RemoveElement, FS_CardinalityType

(* A smallest finite set among those of a collection. *)
LEMMA SmallestSet ==
  ASSUME NEW C, C # {}, \A s \in C : IsFiniteSet(s)
  PROVE  \E s \in C : \A t \in C : Cardinality(s) <= Cardinality(t)
  <1> DEFINE T == {Cardinality(s) : s \in C}
  <1>1. T \in SUBSET Nat /\ T # {} BY FS_CardinalityType
  <1>2. PICK n \in T : \A m \in T : n <= m BY <1>1, LeastNat
  <1> QED BY <1>2

(* Induction over the parts of a finite set: of those that fail, there is   *)
(* one that no longer does when an element is taken away.                   *)
LEMMA FirstFailure ==
  ASSUME NEW S, IsFiniteSet(S), NEW C \in SUBSET (SUBSET S), C # {}, {} \notin C
  PROVE  \E s \in C : /\ IsFiniteSet(s) /\ s # {} /\ Pick(s) \in s /\ Pick(s) \in S
                     /\ s \ {Pick(s)} \in SUBSET S /\ s \ {Pick(s)} \notin C
  <1>1. \A s \in C : IsFiniteSet(s) BY FS_Subset
  <1>2. PICK s \in C : \A t \in C : Cardinality(s) <= Cardinality(t) BY <1>1, SmallestSet
  <1>3. IsFiniteSet(s) /\ s # {} BY <1>1, <1>2
  <1>4. /\ Pick(s) \in s
        /\ Cardinality(s) \in Nat /\ Cardinality(s \ {Pick(s)}) \in Nat
        /\ Cardinality(s \ {Pick(s)}) = Cardinality(s) - 1
    BY <1>3, Picked
  <1>5. s \ {Pick(s)} \notin C BY <1>2, <1>4
  <1> QED BY <1>2, <1>3, <1>4, <1>5

(* The sums of the parts of a finite set exist: those of the parts with at  *)
(* most n elements do, for every n.                                         *)
LEMMA SumsExist ==
  ASSUME NEW f, NEW S, IsFiniteSet(S)
  PROVE  \E it : Sums(f, S, it)
  <1> DEFINE Upto(n, it) == \A s \in SUBSET S : Cardinality(s) <= n => AddsUp(f, s, it)
             T == {n \in Nat : ~ \E it : Upto(n, it)}
             More(it) == [s \in SUBSET S |-> IF s = {} THEN 0 ELSE f[Pick(s)] + it[s \ {Pick(s)}]]
  <1>1. \A s \in SUBSET S : IsFiniteSet(s) /\ Cardinality(s) \in Nat
    BY FS_Subset, FS_CardinalityType
  <1>2. 0 \notin T
    <2> DEFINE z == [s \in SUBSET S |-> 0]
    <2>1. ASSUME NEW s \in SUBSET S, Cardinality(s) <= 0 PROVE AddsUp(f, s, z)
      <3>1. s = {} BY <1>1, <2>1, FS_EmptySet
      <3> QED BY <3>1 DEF AddsUp
    <2> QED BY <2>1
  <1>3. ASSUME NEW n \in Nat, NEW it, Upto(n, it) PROVE Upto(n + 1, More(it))
    <2>1. \A s \in SUBSET S : Cardinality(s) <= n => More(it)[s] = it[s] BY <1>3 DEF AddsUp
    <2>2. ASSUME NEW s \in SUBSET S, Cardinality(s) <= n + 1, s # {}
          PROVE  More(it)[s \ {Pick(s)}] = it[s \ {Pick(s)}]
      <3>1. Cardinality(s \ {Pick(s)}) <= n BY <1>1, <2>2, Picked
      <3> QED BY <2>1, <3>1
    <2>3. ASSUME NEW s \in SUBSET S, Cardinality(s) <= n + 1 PROVE AddsUp(f, s, More(it))
      BY <2>2, <2>3 DEF AddsUp
    <2> QED BY <2>3
  <1>4. T = {}
    <2> HIDE DEF Upto, More
    <2> SUFFICES ASSUME T # {} PROVE FALSE OBVIOUS
    <2>1. PICK n \in T : \A m \in T : n <= m BY LeastNat
    <2>2. n \in Nat /\ n # 0 /\ n - 1 \notin T /\ n - 1 \in Nat BY <1>2, <2>1
    <2>3. PICK it : Upto(n - 1, it) BY <2>2
    <2>4. Upto((n - 1) + 1, More(it)) BY <1>3, <2>2, <2>3
    <2>5. (n - 1) + 1 = n BY <2>2
    <2> QED BY <2>1, <2>4, <2>5
  <1>5. Cardinality(S) \in Nat BY FS_CardinalityType
  <1>6. PICK it : Upto(Cardinality(S), it) BY <1>4, <1>5
  <1>7. \A s \in SUBSET S : AddsUp(f, s, it) BY <1>6, FS_Subset
  <1>8. Sums(f, S, More(it))
    <2>1. \A s \in SUBSET S : More(it)[s] = it[s] BY <1>7 DEF AddsUp
    <2>2. \A s \in SUBSET S : s # {} => s \ {Pick(s)} \in SUBSET S OBVIOUS
    <2>3. \A s \in SUBSET S : s # {} => More(it)[s \ {Pick(s)}] = it[s \ {Pick(s)}] BY <2>1, <2>2
    <2>4. More(it) = [s \in SUBSET S |-> IF s = {} THEN 0 ELSE f[Pick(s)] + More(it)[s \ {Pick(s)}]]
      BY <2>3
    <2> QED BY <2>4 DEF Sums
  <1> QED BY <1>8

LEMMA SumsAddUp ==
  ASSUME NEW f, NEW S, NEW it, Sums(f, S, it)
  PROVE  \A s \in SUBSET S : AddsUp(f, s, it)
  <1> SUFFICES ASSUME NEW s \in SUBSET S PROVE AddsUp(f, s, it) OBVIOUS
  <1> DEFINE jt == [t \in SUBSET S |-> IF t = {} THEN 0 ELSE f[Pick(t)] + it[t \ {Pick(t)}]]
  <1>1. it = jt BY DEF Sums
  <1>2. jt[s] = IF s = {} THEN 0 ELSE f[Pick(s)] + it[s \ {Pick(s)}] OBVIOUS
  <1>3. it[s] = jt[s] BY <1>1
  <1> HIDE DEF jt
  <1> QED BY <1>2, <1>3 DEF AddsUp

(* They are determined by the terms. *)
LEMMA SumsAgree ==
  ASSUME NEW f, NEW g, NEW S, IsFiniteSet(S), \A x \in S : f[x] = g[x],
         NEW it, \A s \in SUBSET S : AddsUp(f, s, it),
         NEW jt, \A s \in SUBSET S : AddsUp(g, s, jt)
  PROVE  it[S] = jt[S]
  <1> DEFINE C == {s \in SUBSET S : it[s] # jt[s]}
  <1> SUFFICES ASSUME C # {} PROVE FALSE OBVIOUS
  <1>1. {} \notin C BY DEF AddsUp
  <1>2. PICK s \in C : /\ IsFiniteSet(s) /\ s # {} /\ Pick(s) \in s /\ Pick(s) \in S
                       /\ s \ {Pick(s)} \in SUBSET S /\ s \ {Pick(s)} \notin C
    BY <1>1, FirstFailure
  <1>5. it[s \ {Pick(s)}] = jt[s \ {Pick(s)}] BY <1>2
  <1>6. it[s] = jt[s]
    <2>1. it[s] = f[Pick(s)] + it[s \ {Pick(s)}] BY <1>2 DEF AddsUp
    <2>2. jt[s] = g[Pick(s)] + jt[s \ {Pick(s)}] BY <1>2 DEF AddsUp
    <2> QED BY <1>2, <1>5, <2>1, <2>2
  <1> QED BY <1>2, <1>6

(* Whatever adds the terms up gives their sum. *)
LEMMA SumIs ==
  ASSUME NEW f, NEW S, IsFiniteSet(S), NEW it, \A s \in SUBSET S : AddsUp(f, s, it)
  PROVE  SumOf(f, S) = it[S]
  <1>1. ASSUME NEW jt, Sums(f, S, jt) PROVE jt[S] = it[S]
    <2>1. \A s \in SUBSET S : AddsUp(f, s, jt) BY <1>1, SumsAddUp
    <2>2. \A x \in S : f[x] = f[x] OBVIOUS
    <2> QED BY ONLY <2>1, <2>2, SumsAgree, IsFiniteSet(S), \A s \in SUBSET S : AddsUp(f, s, it)
  <1>2. Sums(f, S, CHOOSE jt : Sums(f, S, jt)) BY SumsExist
  <1> QED BY <1>1, <1>2, SumIsChosen

-----------------------------------------------------------------------------
LEMMA SumEmpty ==
  ASSUME NEW f
  PROVE  SumOf(f, {}) = 0
  <1>1. IsFiniteSet({}) BY FS_EmptySet
  <1>2. PICK it : Sums(f, {}, it) BY <1>1, SumsExist
  <1>3. \A s \in SUBSET {} : AddsUp(f, s, it) BY <1>2, SumsAddUp
  <1> QED BY <1>1, <1>3, SumIs DEF AddsUp

LEMMA SumPick ==
  ASSUME NEW f, NEW S, IsFiniteSet(S), S # {}
  PROVE  SumOf(f, S) = f[Pick(S)] + SumOf(f, S \ {Pick(S)})
  <1>1. PICK it : Sums(f, S, it) BY SumsExist
  <1>2. \A s \in SUBSET S : AddsUp(f, s, it) BY <1>1, SumsAddUp
  <1>3. SumOf(f, S) = it[S] BY <1>2, SumIs
  <1>4. SumOf(f, S \ {Pick(S)}) = it[S \ {Pick(S)}]
    <2>1. \A s \in SUBSET (S \ {Pick(S)}) : AddsUp(f, s, it) BY <1>2
    <2> QED BY <2>1, Picked, SumIs
  <1> QED BY <1>2, <1>3, <1>4 DEF AddsUp

(* The sum of integers is one. *)
LEMMA SumInt ==
  ASSUME NEW f, NEW S, IsFiniteSet(S), \A x \in S : f[x] \in Int
  PROVE  SumOf(f, S) \in Int
  <1> DEFINE C == {s \in SUBSET S : SumOf(f, s) \notin Int}
  <1> SUFFICES ASSUME C # {} PROVE FALSE OBVIOUS
  <1>1. {} \notin C BY SumEmpty
  <1>2. PICK s \in C : /\ IsFiniteSet(s) /\ s # {} /\ Pick(s) \in s /\ Pick(s) \in S
                       /\ s \ {Pick(s)} \in SUBSET S /\ s \ {Pick(s)} \notin C
    BY <1>1, FirstFailure
  <1>5. SumOf(f, s \ {Pick(s)}) \in Int BY <1>2
  <1>6. SumOf(f, s) = f[Pick(s)] + SumOf(f, s \ {Pick(s)}) BY <1>2, SumPick
  <1> QED BY <1>2, <1>5, <1>6

(* Any element may be taken first. *)
LEMMA SumRemove ==
  ASSUME NEW f, NEW S, IsFiniteSet(S), \A x \in S : f[x] \in Int, NEW z \in S
  PROVE  SumOf(f, S) = f[z] + SumOf(f, S \ {z})
  <1> DEFINE C == {s \in SUBSET S : \E x \in s : SumOf(f, s) # f[x] + SumOf(f, s \ {x})}
  <1> SUFFICES ASSUME C # {} PROVE FALSE OBVIOUS
  <1>1. \A s \in SUBSET S : IsFiniteSet(s) /\ SumOf(f, s) \in Int BY FS_Subset, SumInt
  <1>2. PICK s \in C : \A t \in C : Cardinality(s) <= Cardinality(t)
    <2>1. \A s \in C : IsFiniteSet(s) BY <1>1
    <2> HIDE DEF C
    <2> QED BY <2>1, SmallestSet
  <1>3. PICK x \in s : SumOf(f, s) # f[x] + SumOf(f, s \ {x}) BY <1>2
  <1> DEFINE p == Pick(s)
  <1>4. /\ p \in s /\ SumOf(f, s) = f[p] + SumOf(f, s \ {p}) BY <1>1, <1>2, <1>3, SumPick, Picked
  <1>5. p # x BY <1>3, <1>4
  <1>6. ASSUME NEW y \in s
        PROVE  s \ {y} \in SUBSET S /\ \A u \in s \ {y} : SumOf(f, s \ {y}) = f[u] + SumOf(f, (s \ {y}) \ {u})
    <2>1. Cardinality(s \ {y}) < Cardinality(s)
      <3>1. Cardinality(s \ {y}) = Cardinality(s) - 1 BY <1>1, <1>2, FS_RemoveElement
      <3> QED BY <3>1, <1>1, <1>2, FS_CardinalityType
    <2>2. Cardinality(s) \in Nat /\ Cardinality(s \ {y}) \in Nat BY <1>1, <1>2, FS_CardinalityType, FS_RemoveElement
    <2>3. s \ {y} \notin C BY <1>2, <2>1, <2>2
    <2> QED BY <1>2, <2>3
  <1> HIDE DEF C, p
  <1>7. s \in SUBSET S BY <1>2 DEF C
  <1>8. SumOf(f, s \ {p}) = f[x] + SumOf(f, (s \ {p}) \ {x}) BY <1>4, <1>5, <1>6
  <1>9. SumOf(f, s \ {x}) = f[p] + SumOf(f, (s \ {x}) \ {p}) BY <1>4, <1>5, <1>6
  <1>10. (s \ {x}) \ {p} = (s \ {p}) \ {x} OBVIOUS
  <1>11. /\ f[p] \in Int /\ f[x] \in Int /\ SumOf(f, (s \ {p}) \ {x}) \in Int
         /\ SumOf(f, s \ {x}) \in Int /\ SumOf(f, s \ {p}) \in Int
    BY <1>1, <1>4, <1>7
  <1>12. SumOf(f, s) = f[p] + (f[x] + SumOf(f, (s \ {p}) \ {x})) BY <1>4, <1>8
  <1>13. SumOf(f, s \ {x}) = f[p] + SumOf(f, (s \ {p}) \ {x}) BY <1>9, <1>10
  <1>14. \A a, b, c \in Int : a + (b + c) = b + (a + c) OBVIOUS
  <1>15. SumOf(f, s) = f[x] + (f[p] + SumOf(f, (s \ {p}) \ {x})) BY <1>11, <1>12, <1>14
  <1> QED BY <1>3, <1>13, <1>15

(* Equal terms have equal sums. *)
LEMMA SumSame ==
  ASSUME NEW f, NEW g, NEW S, IsFiniteSet(S), \A x \in S : f[x] = g[x]
  PROVE  SumOf(f, S) = SumOf(g, S)
  <1>1. PICK it : Sums(f, S, it) BY SumsExist
  <1>2. PICK jt : Sums(g, S, jt) BY SumsExist
  <1>3. /\ \A s \in SUBSET S : AddsUp(f, s, it)
        /\ \A s \in SUBSET S : AddsUp(g, s, jt)
    BY <1>1, <1>2, SumsAddUp
  <1>4. it[S] = jt[S] BY <1>3, SumsAgree
  <1>5. SumOf(f, S) = it[S] BY <1>3, SumIs
  <1>6. SumOf(g, S) = jt[S] BY <1>3, SumIs
  <1> QED BY <1>4, <1>5, <1>6

(* One term changes. *)
LEMMA SumChange ==
  ASSUME NEW f, NEW g, NEW S, IsFiniteSet(S), NEW z \in S,
         \A x \in S : f[x] \in Int /\ g[x] \in Int, \A x \in S \ {z} : f[x] = g[x]
  PROVE  /\ SumOf(g, S) = (SumOf(f, S) - f[z]) + g[z]
         /\ SumOf(f, S) \in Int /\ SumOf(g, S) \in Int
  <1>1. IsFiniteSet(S \ {z}) BY FS_Subset
  <1>2. SumOf(f, S \ {z}) = SumOf(g, S \ {z}) BY <1>1, SumSame
  <1>3. SumOf(f, S) = f[z] + SumOf(f, S \ {z}) /\ SumOf(g, S) = g[z] + SumOf(g, S \ {z}) BY SumRemove
  <1>4. SumOf(f, S) \in Int /\ SumOf(g, S) \in Int BY SumInt
  <1>5. SumOf(f, S \ {z}) \in Int BY <1>1, SumInt
  <1> QED BY <1>2, <1>3, <1>4, <1>5

(* The sum of zeros is zero, that of naturals a natural. *)
LEMMA SumZero ==
  ASSUME NEW f, NEW S, IsFiniteSet(S), \A x \in S : f[x] = 0
  PROVE  SumOf(f, S) = 0
  <1> DEFINE C == {s \in SUBSET S : SumOf(f, s) # 0}
  <1> SUFFICES ASSUME C # {} PROVE FALSE OBVIOUS
  <1>1. {} \notin C BY SumEmpty
  <1>2. PICK s \in C : /\ IsFiniteSet(s) /\ s # {} /\ Pick(s) \in s /\ Pick(s) \in S
                       /\ s \ {Pick(s)} \in SUBSET S /\ s \ {Pick(s)} \notin C
    BY <1>1, FirstFailure
  <1>5. SumOf(f, s \ {Pick(s)}) = 0 BY <1>2
  <1>6. SumOf(f, s) = f[Pick(s)] + SumOf(f, s \ {Pick(s)}) BY <1>2, SumPick
  <1>7. f[Pick(s)] = 0 BY <1>2
  <1> QED BY <1>2, <1>5, <1>6, <1>7

(* Terms that are zero may be left out. *)
LEMMA SumPart ==
  ASSUME NEW f, NEW g, NEW S, IsFiniteSet(S), NEW T \in SUBSET S,
         \A x \in T : f[x] \in Int /\ g[x] = f[x], \A x \in S \ T : g[x] = 0
  PROVE  SumOf(f, T) = SumOf(g, S)
  <1> DEFINE C == {s \in SUBSET S : SumOf(f, s \intersect T) # SumOf(g, s)}
  <1>1. {} \notin C
    <2>1. {} \intersect T = {} OBVIOUS
    <2>2. SumOf(f, {}) = 0 /\ SumOf(g, {}) = 0 BY SumEmpty
    <2> QED BY <2>1, <2>2
  <1>2. C = {}
    <2> SUFFICES ASSUME C # {} PROVE FALSE OBVIOUS
    <2>1. PICK s \in C : /\ IsFiniteSet(s) /\ s # {} /\ Pick(s) \in s /\ Pick(s) \in S
                         /\ s \ {Pick(s)} \in SUBSET S /\ s \ {Pick(s)} \notin C
      BY <1>1, FirstFailure
    <2> DEFINE p == Pick(s)
               t == s \ {p}
    <2>2. SumOf(g, s) = g[p] + SumOf(g, t) BY <2>1, SumPick
    <2>3. SumOf(f, t \intersect T) = SumOf(g, t) BY <2>1
    <2>4. SumOf(f, s \intersect T) # SumOf(g, s) BY <2>1
    <2>5. IsFiniteSet(t) /\ IsFiniteSet(s \intersect T) /\ p \in s /\ p \in S /\ t \in SUBSET S
      BY <2>1, FS_Subset
    <2> HIDE DEF p, C
    <2>6. CASE p \in T
      <3>1. SumOf(f, s \intersect T) = f[p] + SumOf(f, (s \intersect T) \ {p})
        BY <2>5, <2>6, SumRemove
      <3>2. (s \intersect T) \ {p} = t \intersect T OBVIOUS
      <3>3. f[p] = g[p] BY <2>6
      <3> QED BY <2>2, <2>3, <2>4, <3>1, <3>2, <3>3
    <2>7. CASE p \notin T
      <3>1. s \intersect T = t \intersect T BY <2>7
      <3>2. g[p] = 0 BY <2>5, <2>7
      <3>3. \A x \in t : g[x] \in Int
        <4>1. \A x \in S : g[x] \in Int OBVIOUS
        <4> QED BY <2>5, <4>1
      <3>4. SumOf(g, t) \in Int BY <2>5, <3>3, SumInt
      <3> HIDE DEF t
      <3> QED BY <2>2, <2>3, <2>4, <3>1, <3>2, <3>4
    <2> QED BY <2>6, <2>7
  <1>3. S \intersect T = T OBVIOUS
  <1> QED BY <1>2, <1>3
=============================================================================
