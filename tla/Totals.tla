------------------------------- MODULE Totals -------------------------------
(***************************************************************************)
(* Sums of quantities over finite sets, the SQL and LINQ SUM(...) of the   *)
(* code.  A quantity is a count of pieces, so the sum of q over S is the   *)
(* number of pieces <<x, k>> with x in S and k in 1..q[x]: counting pieces *)
(* needs no recursion, and a sum's properties follow from those of finite  *)
(* sets.                                                                   *)
(***************************************************************************)
EXTENDS Integers, FiniteSetTheorems, FunctionTheorems, TLAPS

(* The pieces that the members of S contribute; none where q[x] =< 0.      *)
Pieces(S, q) == UNION {{x} \X (1..q[x]) : x \in S}

(* The sum of Max(q[x], 0) over x in S.                                    *)
SumOf(S, q) == Cardinality(Pieces(S, q))

Least(a, b) == IF a =< b THEN a ELSE b
Greatest(a, b) == IF a >= b THEN a ELSE b

-----------------------------------------------------------------------------
(* What SumOf computes: the facts about sums over finite sets that the     *)
(* proofs about the ledger rest on.                                        *)

(* A sum over a finite set of integer quantities is a natural number.      *)
LEMMA SumType ==
  ASSUME NEW S, IsFiniteSet(S), NEW q, \A x \in S : q[x] \in Int
  PROVE  /\ IsFiniteSet(Pieces(S, q))
         /\ SumOf(S, q) \in Nat
<1> DEFINE f == [x \in S |-> {x} \X (1..q[x])]
           T == {{x} \X (1..q[x]) : x \in S}
<1>1. f \in Surjection(S, T)
  BY DEF Surjection
<1>2. IsFiniteSet(T)
  BY <1>1, FS_Surjection
<1>3. \A t \in T : IsFiniteSet(t)
  <2> TAKE t \in T
  <2>1. PICK x \in S : t = {x} \X (1..q[x])
    OBVIOUS
  <2>2. IsFiniteSet({x})
    BY FS_Singleton
  <2>3. IsFiniteSet(1..q[x])
    BY FS_Interval
  <2> QED
    BY <2>1, <2>2, <2>3, FS_Product
<1>4. IsFiniteSet(UNION T)
  BY <1>2, <1>3, FS_UNION
<1> QED
  BY <1>4, FS_CardinalityType DEF SumOf, Pieces

(* Only the quantities of the members count.                               *)
LEMMA SumCongruent ==
  ASSUME NEW S, NEW q, NEW r, \A x \in S : q[x] = r[x]
  PROVE  SumOf(S, q) = SumOf(S, r)
<1>1. Pieces(S, q) = Pieces(S, r)
  BY DEF Pieces
<1> QED
  BY <1>1 DEF SumOf

(* The empty sum.                                                          *)
LEMMA SumEmpty == \A q : SumOf({}, q) = 0
  BY FS_EmptySet DEF SumOf, Pieces

(* Sums over disjoint sets add up.                                         *)
LEMMA SumDisjoint ==
  ASSUME NEW S, IsFiniteSet(S), NEW T, IsFiniteSet(T), S \cap T = {},
         NEW q, \A x \in S \cup T : q[x] \in Int
  PROVE  SumOf(S \cup T, q) = SumOf(S, q) + SumOf(T, q)
<1>1. Pieces(S \cup T, q) = Pieces(S, q) \cup Pieces(T, q)
  BY DEF Pieces
<1>2. Pieces(S, q) \cap Pieces(T, q) = {}
  BY DEF Pieces
<1>3. IsFiniteSet(Pieces(S, q)) /\ IsFiniteSet(Pieces(T, q))
  BY SumType
<1>4. Cardinality(Pieces(S, q) \cap Pieces(T, q)) = 0
  BY <1>2, FS_EmptySet
<1>5. SumOf(S, q) \in Nat /\ SumOf(T, q) \in Nat
  BY SumType
<1>6. Cardinality(Pieces(S, q) \cup Pieces(T, q))
        = Cardinality(Pieces(S, q)) + Cardinality(Pieces(T, q))
          - Cardinality(Pieces(S, q) \cap Pieces(T, q))
  BY <1>3, FS_Union
<1>7. /\ SumOf(S, q) = Cardinality(Pieces(S, q))
      /\ SumOf(T, q) = Cardinality(Pieces(T, q))
      /\ SumOf(S \cup T, q) = Cardinality(Pieces(S \cup T, q))
  BY DEF SumOf
<1>8. SumOf(S \cup T, q) = Cardinality(Pieces(S, q) \cup Pieces(T, q))
  BY <1>1, <1>7
<1> HIDE DEF SumOf
<1> QED
  BY <1>4, <1>5, <1>6, <1>7, <1>8

(* The sum over one element is its quantity.                               *)
LEMMA SumSingleton ==
  ASSUME NEW x, NEW q, q[x] \in Int
  PROVE  SumOf({x}, q) = Greatest(0, q[x])
<1> DEFINE f == [k \in 1..q[x] |-> <<x, k>>]
<1>1. Pieces({x}, q) = {x} \X (1..q[x])
  BY DEF Pieces
<1>2. f \in Bijection(1..q[x], {x} \X (1..q[x]))
  BY DEF Bijection, Injection, Surjection, IsInjective
<1>3. ExistsBijection(1..q[x], {x} \X (1..q[x]))
  BY <1>2 DEF ExistsBijection
<1>4. /\ IsFiniteSet(1..q[x])
      /\ Cardinality(1..q[x]) = IF 1 > q[x] THEN 0 ELSE q[x] - 1 + 1
  BY FS_Interval
<1>5. Cardinality({x} \X (1..q[x])) = Cardinality(1..q[x])
  BY <1>3, <1>4, FS_Bijection
<1>6. SumOf({x}, q) = Cardinality(1..q[x])
  BY <1>1, <1>5 DEF SumOf
<1> QED
  BY <1>4, <1>6 DEF Greatest

(* One more element adds its quantity.                                     *)
LEMMA SumAdd ==
  ASSUME NEW S, IsFiniteSet(S), NEW x, x \notin S,
         NEW q, \A y \in S \cup {x} : q[y] \in Int
  PROVE  SumOf(S \cup {x}, q) = SumOf(S, q) + Greatest(0, q[x])
<1>1. IsFiniteSet({x}) /\ S \cap {x} = {}
  BY FS_Singleton
<1>2. SumOf(S \cup {x}, q) = SumOf(S, q) + SumOf({x}, q)
  BY <1>1, SumDisjoint
<1> QED
  BY <1>2, SumSingleton

(* The sum over a subset is no larger.                                     *)
LEMMA SumSubset ==
  ASSUME NEW S, IsFiniteSet(S), NEW T \in SUBSET S, NEW q, \A x \in S : q[x] \in Int
  PROVE  SumOf(T, q) =< SumOf(S, q)
<1>1. Pieces(T, q) \in SUBSET Pieces(S, q)
  BY DEF Pieces
<1>2. IsFiniteSet(Pieces(S, q))
  BY SumType
<1> QED
  BY <1>1, <1>2, FS_Subset DEF SumOf

(* A positive quantity makes the sum positive, and one element less takes  *)
(* its quantity away.                                                      *)
LEMMA SumRemove ==
  ASSUME NEW S, IsFiniteSet(S), NEW x \in S, NEW q, \A y \in S : q[y] \in Int
  PROVE  /\ SumOf(S \ {x}, q) = SumOf(S, q) - Greatest(0, q[x])
         /\ q[x] > 0 => SumOf(S, q) > 0
<1> DEFINE R == S \ {x}
<1>1. IsFiniteSet(R) /\ x \notin R /\ R \cup {x} = S
  BY FS_Subset
<1>2. (\A y \in R \cup {x} : q[y] \in Int) /\ (\A y \in R : q[y] \in Int)
  BY <1>1
<1>3. SumOf(R \cup {x}, q) = SumOf(R, q) + Greatest(0, q[x])
  BY <1>1, <1>2, SumAdd
<1>4. SumOf(R, q) \in Nat
  BY <1>1, <1>2, SumType
<1>5. Greatest(0, q[x]) \in Nat /\ (q[x] > 0 => Greatest(0, q[x]) > 0)
  BY DEF Greatest
<1> HIDE DEF R
<1>6. SumOf(S, q) = SumOf(R, q) + Greatest(0, q[x])
  BY <1>1, <1>3
<1>7. SumOf(R, q) = SumOf(S, q) - Greatest(0, q[x])
  BY <1>4, <1>5, <1>6
<1>8. q[x] > 0 => SumOf(S, q) > 0
  BY <1>4, <1>5, <1>6
<1> QED
  BY <1>7, <1>8 DEF R

(* Quantities that are not positive do not count.                          *)
LEMMA SumZero ==
  ASSUME NEW S, NEW q, \A x \in S : q[x] \in Int /\ q[x] =< 0
  PROVE  SumOf(S, q) = 0
<1>1. \A x \in S : 1..q[x] = {}
  OBVIOUS
<1>2. Pieces(S, q) = {}
  BY <1>1 DEF Pieces
<1> QED
  BY <1>2, FS_EmptySet DEF SumOf

(* Elements may be renamed.                                                *)
LEMMA SumRenamed ==
  ASSUME NEW S, IsFiniteSet(S), NEW T, NEW f \in Bijection(S, T), NEW q, NEW r,
         \A x \in S : q[x] \in Int /\ r[f[x]] = q[x]
  PROVE  SumOf(T, r) = SumOf(S, q)
<1> DEFINE P == Pieces(S, q)
           g == [x \in P |-> <<f[x[1]], x[2]>>]
<1>1. /\ f \in [S -> T]
      /\ \A x, y \in S : f[x] = f[y] => x = y
      /\ \A y \in T : \E x \in S : f[x] = y
  BY DEF Bijection, Injection, Surjection, IsInjective
<1>2. \A x \in P : x[1] \in S /\ x[2] \in 1..q[x[1]] /\ x = <<x[1], x[2]>>
  BY DEF Pieces
<1>3. g \in [P -> Pieces(T, r)]
  <2> SUFFICES ASSUME NEW x \in P PROVE <<f[x[1]], x[2]>> \in Pieces(T, r)
    OBVIOUS
  <2>1. f[x[1]] \in T /\ x[2] \in 1..r[f[x[1]]]
    BY <1>1, <1>2
  <2> QED
    BY <2>1 DEF Pieces
<1>4. \A x, y \in P : g[x] = g[y] => x = y
  BY <1>1, <1>2
<1>5. ASSUME NEW z \in Pieces(T, r)
      PROVE  \E x \in P : g[x] = z
  <2>1. PICK y \in T : z \in {y} \X (1..r[y])
    BY DEF Pieces
  <2>2. PICK x \in S : f[x] = y
    BY <1>1
  <2>3. <<x, z[2]>> \in P
    BY <2>1, <2>2 DEF Pieces
  <2>4. g[<<x, z[2]>>] = z
    BY <2>1, <2>2, <2>3
  <2> QED
    BY <2>3, <2>4
<1>6. g \in Bijection(P, Pieces(T, r))
  BY <1>3, <1>4, <1>5 DEF Bijection, Injection, Surjection, IsInjective
<1>7. IsFiniteSet(P)
  BY SumType
<1> HIDE DEF g, P
<1>8. ExistsBijection(P, Pieces(T, r))
  BY <1>6 DEF ExistsBijection
<1>9. Cardinality(Pieces(T, r)) = Cardinality(P)
  BY <1>7, <1>8, FS_Bijection
<1> QED
  BY <1>9 DEF SumOf, P
=============================================================================
