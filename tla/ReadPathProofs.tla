--------------------------- MODULE ReadPathProofs ----------------------------
(***************************************************************************)
(* Proofs about TaskWriter and ReadPath, for any tables, inputs, batch     *)
(* and row group sizes.                                                    *)
(*                                                                         *)
(* What the writers hold is known from the numbers of the rows: WriterInv  *)
(* says that every row taken is in one group, one open file or one data    *)
(* file, of its partition, and that a group's rows follow those its writer *)
(* has.  RefuseInv adds that a partition with a writer has a row in an     *)
(* earlier batch.  ReadInv says what the walk over the deletes has done    *)
(* and what is in its iterator, and that the answer of a query is exactly  *)
(* the rows that pass.                                                     *)
(*                                                                         *)
(* The last part shows that a row that matches passes: statistics cover    *)
(* every cell they are made of (Covers), no evaluator refuses statistics   *)
(* that cover a match, a transform keeps order and prefixes, so that what  *)
(* is projected from a condition holds of the partition value (Passes),    *)
(* and conversion of the filter only weakens it (Met).                     *)
(*                                                                         *)
(* The first part shows what the library's recursive operators compute:    *)
(* a statement that fails for some number fails for a least one (LeastNat, *)
(* of SumTheorems).                                                        *)
(***************************************************************************)
EXTENDS ReadPath, SequenceTheorems, SumTheorems

-----------------------------------------------------------------------------
\* Two finite sets of one size: what is injective between them is onto.
LEMMA InjectionOnto ==
  ASSUME NEW S, IsFiniteSet(S), NEW f \in [1..Cardinality(S) -> S],
         \A i, j \in 1..Cardinality(S) : f[i] = f[j] => i = j
  PROVE  \A x \in S : \E i \in 1..Cardinality(S) : f[i] = x
<1> DEFINE D == 1..Cardinality(S)
           R == {f[i] : i \in D}
<1>1. Cardinality(S) \in Nat
  BY FS_CardinalityType
<1>2. IsFiniteSet(D) /\ Cardinality(D) = Cardinality(S)
  BY <1>1, FS_Interval
<1>3. R \subseteq S
  OBVIOUS
<1>4. IsFiniteSet(R)
  BY <1>3, FS_Subset
<1>5. f \in Injection(D, R)
  BY DEF Injection, IsInjective
<1>6. Cardinality(D) <= Cardinality(R)
  BY <1>4, <1>5, FS_Injection
<1>7. Cardinality(R) = Cardinality(S) => R = S
  BY <1>3, FS_Subset
<1>8. Cardinality(R) <= Cardinality(S)
  BY <1>3, FS_Subset
<1>9. R = S
  BY <1>1, <1>2, <1>4, <1>6, <1>7, <1>8, FS_CardinalityType
<1>10. QED
  BY <1>9

\* A finite set of integers that is not empty has a greatest element.
LEMMA GreatestExists ==
  ASSUME NEW S, S \subseteq Int, IsFiniteSet(S), S # {}
  PROVE  \E x \in S : \A y \in S : y <= x
<1> DEFINE Bad == {A \in FiniteSubsetsOf(S) : A # {} /\ ~\E x \in A : \A y \in A : y <= x}
<1> SUFFICES ASSUME ~\E x \in S : \A y \in S : y <= x PROVE FALSE
  OBVIOUS
<1>1. S \in Bad
  BY DEF FiniteSubsetsOf
<1>2. PICK A \in Bad : \A B \in Bad : ~(<<B, A>> \in StrictSubsetOrdering(S))
  <2>1. IsWellFoundedOn(StrictSubsetOrdering(S), FiniteSubsetsOf(S))
    BY FS_StrictSubsetOrderingWellFounded
  <2>2. Bad \subseteq FiniteSubsetsOf(S) /\ Bad # {}
    BY <1>1
  <2>3. QED
    BY <2>1, <2>2, WFMin
<1>3. A \subseteq S /\ IsFiniteSet(A) /\ A # {} /\ ~\E x \in A : \A y \in A : y <= x
  BY DEF FiniteSubsetsOf
<1>4. PICK x \in A : TRUE
  BY <1>3
<1>5. A \subseteq Int /\ x \in Int
  BY <1>3, <1>4
<1> DEFINE B == A \ {x}
<1>6. IsFiniteSet(B) /\ B \subseteq S /\ <<B, A>> \in StrictSubsetOrdering(S)
  BY <1>3, <1>4, FS_Subset DEF StrictSubsetOrdering
<1>7. B \notin Bad
  BY <1>2, <1>6
<1>8. B = {} \/ \E z \in B : \A y \in B : y <= z
  BY <1>6, <1>7 DEF FiniteSubsetsOf
<1>9. CASE B = {}
  <2>1. A = {x}
    BY <1>4, <1>9
  <2>2. QED
    BY <1>3, <1>5, <2>1
<1>10. CASE \E z \in B : \A y \in B : y <= z
  <2>1. PICK z \in B : \A y \in B : y <= z
    BY <1>10
  <2>2. z \in A /\ z \in Int /\ \A y \in A : y = x \/ y <= z
    BY <1>5, <2>1
  <2>3. \A y \in A : y <= IF x <= z THEN z ELSE x
    BY <1>5, <2>2
  <2>4. QED
    BY <1>3, <1>4, <2>2, <2>3
<1>11. QED
  BY <1>8, <1>9, <1>10

\* A least one too.
LEMMA LeastExists ==
  ASSUME NEW S, S \subseteq Int, IsFiniteSet(S), S # {}
  PROVE  \E x \in S : \A y \in S : x <= y
<1> DEFINE N == {-x : x \in S}
           f == [x \in S |-> -x]
<1>1. f \in Surjection(S, N)
  BY DEF Surjection
<1>2. IsFiniteSet(N)
  BY <1>1, FS_Surjection
<1>3. N \subseteq Int /\ N # {}
  OBVIOUS
<1>4. PICK m \in N : \A y \in N : y <= m
  <2> HIDE DEF N
  <2> QED
    BY <1>2, <1>3, GreatestExists
<1>5. PICK x \in S : m = -x
  OBVIOUS
<1>6. \A y \in S : -y \in N /\ y \in Int /\ x \in Int
  OBVIOUS
<1>7. \A y \in S : x <= y
  <2> HIDE DEF N
  <2> QED
    BY <1>4, <1>5, <1>6
<1>8. QED
  BY <1>7

\* Least and Greatest are what their names say.
LEMMA LeastIs ==
  ASSUME NEW S, S \subseteq Int, IsFiniteSet(S), S # {}
  PROVE  Least(S) \in S /\ \A y \in S : Least(S) <= y
BY LeastExists DEF Least

\* The greatest likewise.
LEMMA GreatestIs ==
  ASSUME NEW S, S \subseteq Int, IsFiniteSet(S), S # {}
  PROVE  Greatest(S) \in S /\ \A y \in S : y <= Greatest(S)
<1>1. PICK x \in S : \A y \in S : y <= x
  BY GreatestExists
<1>2. \A y \in S : x >= y
  BY <1>1
<1>3. Greatest(S) \in S /\ \A y \in S : Greatest(S) >= y
  BY <1>2 DEF Greatest
<1>4. QED
  BY <1>3

\* A sequence of all members of S.
Enumerates(s, S) ==
    /\ s \in [1..Cardinality(S) -> S]
    /\ \A i, j \in 1..Cardinality(S) : s[i] = s[j] => i = j
    /\ \A x \in S : \E i \in 1..Cardinality(S) : s[i] = x

Ascends(s, n) == \A i, j \in 1..n : i < j => s[i] < s[j]

\* SetToSeq gives one.
LEMMA SetToSeqIs ==
  ASSUME NEW S, IsFiniteSet(S)
  PROVE  Enumerates(SetToSeq(S), S) /\ Cardinality(S) \in Nat
<1>1. Cardinality(S) \in Nat /\ ExistsBijection(1..Cardinality(S), S)
  BY FS_CardinalityType
<1>2. PICK f : f \in Bijection(1..Cardinality(S), S)
  BY <1>1 DEF ExistsBijection
<1>3. f \in [1..Cardinality(S) -> S] /\ IsInjective(f)
  BY <1>2 DEF Bijection, Injection, IsInjective
<1>4. SetToSeq(S) \in [1..Cardinality(S) -> S] /\ IsInjective(SetToSeq(S))
  BY <1>3 DEF SetToSeq
<1>5. \A i, j \in 1..Cardinality(S) : SetToSeq(S)[i] = SetToSeq(S)[j] => i = j
  BY <1>4 DEF IsInjective
<1>6. QED
  BY <1>1, <1>4, <1>5, InjectionOnto DEF Enumerates

\* A finite set of integers can be listed in ascending order.
Sortable(S) == \E s : Enumerates(s, S) /\ Ascends(s, Cardinality(S))

\* Above the others, one more.
LEMMA SortableNext ==
  ASSUME NEW B, NEW x, IsFiniteSet(B), B \subseteq Int, x \in Int, \A y \in B : y < x, Sortable(B)
  PROVE  Sortable(B \cup {x})
<1> DEFINE n == Cardinality(B)
           C == B \cup {x}
<1>1. n \in Nat /\ Cardinality(C) = n + 1
  BY FS_CardinalityType, FS_AddElement
<1>2. PICK s : Enumerates(s, B) /\ Ascends(s, n)
  BY DEF Sortable
<1> DEFINE t == [i \in 1..(n + 1) |-> IF i = n + 1 THEN x ELSE s[i]]
<1>3. /\ s \in [1..n -> B]
      /\ \A y \in B : \E i \in 1..n : s[i] = y
      /\ \A i, j \in 1..n : i < j => s[i] < s[j]
  BY <1>2 DEF Enumerates, Ascends
<1>4. \A i \in 1..(n + 1) : i = n + 1 \/ i \in 1..n
  BY <1>1
<1>5. t \in [1..(n + 1) -> C]
  BY <1>1, <1>3, <1>4
<1>6. \A i, j \in 1..(n + 1) : i < j => t[i] < t[j]
  <2> SUFFICES ASSUME NEW i \in 1..(n + 1), NEW j \in 1..(n + 1), i < j PROVE t[i] < t[j]
    OBVIOUS
  <2>1. i \in 1..n /\ i # n + 1
    BY <1>1
  <2>2. s[i] \in B /\ t[i] = s[i]
    BY <1>3, <2>1
  <2>3. CASE j = n + 1
    BY <2>2, <2>3
  <2>4. CASE j \in 1..n /\ j # n + 1
    BY <1>3, <2>1, <2>2, <2>4
  <2>5. QED
    BY <1>1, <1>4, <2>3, <2>4
<1>7. \A i, j \in 1..(n + 1) : t[i] = t[j] => i = j
  <2> SUFFICES ASSUME NEW i \in 1..(n + 1), NEW j \in 1..(n + 1), t[i] = t[j], i # j PROVE FALSE
    OBVIOUS
  <2>1. i < j \/ j < i
    BY <1>1
  <2>2. t[i] < t[j] \/ t[j] < t[i]
    BY <1>6, <2>1
  <2>3. t[i] \in Int /\ t[j] \in Int
    BY <1>5
  <2> HIDE DEF t
  <2>4. QED
    BY <2>2, <2>3
<1>8. \A y \in C : \E i \in 1..(n + 1) : t[i] = y
  <2> SUFFICES ASSUME NEW y \in C PROVE \E i \in 1..(n + 1) : t[i] = y
    OBVIOUS
  <2>1. CASE y = x
    <3>1. n + 1 \in 1..(n + 1) /\ t[n + 1] = x
      BY <1>1
    <3>2. QED
      BY <2>1, <3>1
  <2>2. CASE y \in B
    <3>1. PICK i \in 1..n : s[i] = y
      BY <1>3, <2>2
    <3>2. i \in 1..(n + 1) /\ t[i] = s[i]
      BY <1>1
    <3>3. QED
      BY <3>1, <3>2
  <2>3. QED
    BY <2>1, <2>2
<1>9. Enumerates(t, C) /\ Ascends(t, Cardinality(C))
  <2> HIDE DEF t, C
  <2> QED
    BY <1>1, <1>5, <1>6, <1>7, <1>8 DEF Enumerates, Ascends
<1>10. QED
  BY <1>9 DEF Sortable

\* By induction on the sets.
LEMMA SortExists ==
  ASSUME NEW S, S \subseteq Int, IsFiniteSet(S)
  PROVE  Sortable(S)
<1> DEFINE Bad == {A \in FiniteSubsetsOf(S) : ~Sortable(A)}
<1> SUFFICES ASSUME ~Sortable(S) PROVE FALSE
  OBVIOUS
<1>1. S \in Bad
  BY DEF FiniteSubsetsOf
<1>2. PICK A \in Bad : \A B \in Bad : ~(<<B, A>> \in StrictSubsetOrdering(S))
  <2>1. IsWellFoundedOn(StrictSubsetOrdering(S), FiniteSubsetsOf(S))
    BY FS_StrictSubsetOrderingWellFounded
  <2>2. Bad \subseteq FiniteSubsetsOf(S) /\ Bad # {}
    BY <1>1
  <2>3. QED
    BY <2>1, <2>2, WFMin
<1>3. A \subseteq S /\ IsFiniteSet(A) /\ ~Sortable(A)
  BY DEF FiniteSubsetsOf
<1>4. A # {}
  <2>1. Enumerates(<<>>, {}) /\ Ascends(<<>>, Cardinality({}))
    BY FS_EmptySet DEF Enumerates, Ascends
  <2>2. QED
    BY <1>3, <2>1 DEF Sortable
<1>5. PICK x \in A : \A y \in A : y <= x
  BY <1>3, <1>4, GreatestExists
<1> DEFINE B == A \ {x}
<1>6. IsFiniteSet(B) /\ B \subseteq S /\ <<B, A>> \in StrictSubsetOrdering(S)
  BY <1>3, <1>5, FS_Subset DEF StrictSubsetOrdering
<1>7. Sortable(B)
  <2>1. B \notin Bad
    BY <1>2, <1>6
  <2>2. QED
    BY <1>6, <2>1 DEF FiniteSubsetsOf
<1>8. x \in Int /\ B \subseteq Int /\ \A y \in B : y < x
  BY <1>3, <1>5
<1>9. Sortable(B \cup {x})
  BY <1>6, <1>7, <1>8, SortableNext
<1>10. B \cup {x} = A
  OBVIOUS
<1>11. QED
  BY <1>3, <1>9, <1>10

\* InOrder lists a set in ascending order.
LEMMA InOrderIs ==
  ASSUME NEW S, S \subseteq Int, IsFiniteSet(S)
  PROVE  /\ Cardinality(S) \in Nat
         /\ Enumerates(InOrder(S), S)
         /\ Ascends(InOrder(S), Cardinality(S))
<1>1. PICK s : Enumerates(s, S) /\ Ascends(s, Cardinality(S))
  BY SortExists DEF Sortable
<1>2. s \in SetToSeqs(S)
  BY <1>1 DEF Enumerates, SetToSeqs
<1>3. \A i, j \in DOMAIN s : i < j => s[i] < s[j]
  BY <1>1 DEF Enumerates, Ascends
<1>4. /\ InOrder(S) \in SetToSeqs(S)
      /\ \A i, j \in DOMAIN InOrder(S) : i < j => InOrder(S)[i] < InOrder(S)[j]
  BY <1>2, <1>3 DEF InOrder
<1>5. /\ InOrder(S) \in [1..Cardinality(S) -> S]
      /\ \A i, j \in 1..Cardinality(S) : InOrder(S)[i] = InOrder(S)[j] => i = j
  BY <1>4 DEF SetToSeqs
<1>6. QED
  BY <1>4, <1>5, InjectionOnto, FS_CardinalityType DEF Enumerates, Ascends

-----------------------------------------------------------------------------
(* FlattenSeq, by its recursion on the number of sequences. *)
FlattensTo(s, n, g) == g = [i \in 1..n |-> IF i = 1 THEN s[i] ELSE g[i-1] \o s[i]]
Flattens(s, n) == \E g : FlattensTo(s, n, g)

\* One sequence more.
LEMMA FlattenNext ==
  ASSUME NEW s, NEW n \in Nat, NEW g, FlattensTo(s, n, g),
         NEW h, h = [i \in 1..(n+1) |-> IF i = n + 1 THEN (IF i = 1 THEN s[i] ELSE g[i-1] \o s[i]) ELSE g[i]]
  PROVE  FlattensTo(s, n + 1, h)
<1>1. ASSUME NEW i \in 1..(n+1) PROVE h[i] = IF i = 1 THEN s[i] ELSE h[i-1] \o s[i]
  <2>1. CASE i = n + 1
    <3>1. i = 1 \/ (i - 1 \in 1..(n+1) /\ i - 1 # n + 1)
      BY <2>1
    <3>2. QED
      BY <2>1, <3>1
  <2>2. CASE i # n + 1
    <3>1. i \in 1..n /\ (i = 1 \/ (i - 1 \in 1..(n+1) /\ i - 1 # n + 1))
      BY <2>2
    <3>2. h[i] = g[i] /\ g[i] = IF i = 1 THEN s[i] ELSE g[i-1] \o s[i]
      BY <2>2, <3>1 DEF FlattensTo
    <3>3. QED
      BY <3>1, <3>2
  <2>3. QED
    BY <2>1, <2>2
<1>2. h = [i \in 1..(n+1) |-> IF i = 1 THEN s[i] ELSE h[i-1] \o s[i]]
  BY <1>1
<1>3. QED
  BY <1>2 DEF FlattensTo

\* The function FlattenSeq chooses exists.
LEMMA FlattenExists ==
  ASSUME NEW s
  PROVE  \A n \in Nat : Flattens(s, n)
<1> DEFINE Bad == {n \in Nat : ~Flattens(s, n)}
<1> SUFFICES ASSUME Bad # {} PROVE FALSE
  OBVIOUS
<1>1. PICK n \in Bad : \A k \in Bad : n <= k
  BY LeastNat
<1>2. n # 0
  <2>1. FlattensTo(s, 0, [i \in 1..0 |-> 1])
    BY DEF FlattensTo
  <2>2. QED
    BY <1>1, <2>1 DEF Flattens
<1>3. n - 1 \in Nat /\ Flattens(s, n - 1)
  BY <1>1, <1>2
<1>4. PICK g : FlattensTo(s, n - 1, g)
  BY <1>3 DEF Flattens
<1>5. \E h : FlattensTo(s, (n - 1) + 1, h)
  BY <1>3, <1>4, FlattenNext
<1>6. QED
  BY <1>1, <1>5 DEF Flattens

Agree(s, t, k) == \A i \in 1..k : s[i] = t[i]

\* It is the only one, and depends on the sequences before.
LEMMA FlattenUnique ==
  ASSUME NEW s, NEW t, NEW n \in Nat, NEW m \in Nat, NEW g, NEW h,
         FlattensTo(s, n, g), FlattensTo(t, m, h),
         NEW k \in Nat, k <= n, k <= m, Agree(s, t, k)
  PROVE  Agree(g, h, k)
<1> DEFINE Bad == {i \in 1..k : g[i] # h[i]}
<1> SUFFICES ASSUME Bad # {} PROVE FALSE
  BY DEF Agree
<1>1. PICK i \in Bad : \A j \in Bad : i <= j
  <2>1. Bad \subseteq Nat
    OBVIOUS
  <2> HIDE DEF Bad
  <2>2. QED
    BY <2>1, LeastNat
<1>2. i \in 1..n /\ i \in 1..m /\ i \in 1..k
  OBVIOUS
<1>3. g[i] = IF i = 1 THEN s[i] ELSE g[i-1] \o s[i]
  BY <1>2 DEF FlattensTo
<1>4. h[i] = IF i = 1 THEN t[i] ELSE h[i-1] \o t[i]
  BY <1>2 DEF FlattensTo
<1>5. i = 1 \/ (i - 1 \in 1..k /\ i - 1 \notin Bad)
  BY <1>1, <1>2
<1>6. i = 1 \/ g[i - 1] = h[i - 1]
  BY <1>5
<1>7. s[i] = t[i]
  BY <1>2 DEF Agree
<1>8. QED
  BY <1>3, <1>4, <1>6, <1>7

\* FlattenSeq is its last value.
LEMMA FlattenSeqIs ==
  ASSUME NEW s, Len(s) \in Nat, Len(s) # 0
  PROVE  \E g : FlattensTo(s, Len(s), g) /\ FlattenSeq(s) = g[Len(s)]
<1> DEFINE g == CHOOSE g : g = [i \in 1..Len(s) |-> IF i = 1 THEN s[i] ELSE g[i-1] \o s[i]]
<1>1. FlattenSeq(s) = g[Len(s)]
  BY DEF FlattenSeq
<1>2. FlattensTo(s, Len(s), g)
  BY FlattenExists DEF Flattens, FlattensTo
<1>3. QED
  BY <1>1, <1>2

Prefix(s, n) == [i \in 1..n |-> s[i]]

\* The recursion, for the first n of s.
LEMMA FlattenPrefix ==
  ASSUME NEW T, NEW s \in Seq(Seq(T)), NEW n \in Nat, n < Len(s)
  PROVE  /\ FlattenSeq(Prefix(s, 0)) = <<>>
         /\ FlattenSeq(Prefix(s, n)) \in Seq(T) =>
               FlattenSeq(Prefix(s, n + 1)) = FlattenSeq(Prefix(s, n)) \o s[n + 1]
<1>1. \A m \in 0..Len(s) : Prefix(s, m) \in Seq(Seq(T)) /\ Len(Prefix(s, m)) = m
  BY DEF Prefix
<1>2. FlattenSeq(Prefix(s, 0)) = <<>>
  BY <1>1 DEF FlattenSeq, Prefix
<1>3. n + 1 \in 0..Len(s) /\ n + 1 \in 1..(n + 1) /\ s[n + 1] \in Seq(T)
  OBVIOUS
<1>4. PICK h : FlattensTo(Prefix(s, n + 1), n + 1, h) /\ FlattenSeq(Prefix(s, n + 1)) = h[n + 1]
  <2> DEFINE p == Prefix(s, n + 1)
  <2>1. Len(p) = n + 1 /\ n + 1 \in Nat /\ n + 1 # 0
    BY <1>1, <1>3
  <2> HIDE DEF p
  <2>2. \E h : FlattensTo(p, n + 1, h) /\ FlattenSeq(p) = h[n + 1]
    BY <2>1, FlattenSeqIs
  <2>3. QED
    BY <2>2 DEF p
<1>5. h[n + 1] = IF n + 1 = 1 THEN s[n + 1] ELSE h[n] \o s[n + 1]
  <2> DEFINE p == Prefix(s, n + 1)
  <2>1. p[n + 1] = s[n + 1]
    BY <1>3 DEF Prefix
  <2>2. FlattensTo(p, n + 1, h)
    BY <1>4
  <2> HIDE DEF p
  <2>3. \A i \in 1..(n + 1) : h[i] = IF i = 1 THEN p[i] ELSE h[i - 1] \o p[i]
    BY <2>2 DEF FlattensTo
  <2>4. (n + 1) - 1 = n
    OBVIOUS
  <2>5. QED
    BY <1>3, <2>1, <2>3, <2>4
<1>6. CASE n = 0
  <2>1. <<>> \o s[n + 1] = s[n + 1]
    BY <1>3
  <2>2. QED
    BY <1>2, <1>4, <1>5, <1>6, <2>1
<1>7. CASE n # 0
  <2>1. PICK g : FlattensTo(Prefix(s, n), n, g) /\ FlattenSeq(Prefix(s, n)) = g[n]
    <3> DEFINE p == Prefix(s, n)
    <3>1. Len(p) = n
      BY <1>1
    <3> HIDE DEF p
    <3>2. \E g : FlattensTo(p, n, g) /\ FlattenSeq(p) = g[n]
      BY <1>7, <3>1, FlattenSeqIs
    <3>3. QED
      BY <3>2 DEF p
  <2>2. \A i \in 1..n : Prefix(s, n)[i] = Prefix(s, n + 1)[i]
    BY DEF Prefix
  <2>3. \A i \in 1..n : g[i] = h[i]
    <3> DEFINE p == Prefix(s, n)
               q == Prefix(s, n + 1)
               m == n + 1
    <3>1. m \in Nat /\ n <= n /\ n <= m
      OBVIOUS
    <3>2. FlattensTo(p, n, g) /\ FlattensTo(q, m, h) /\ Agree(p, q, n)
      BY <1>4, <2>1, <2>2 DEF Agree
    <3> HIDE DEF p, q, m
    <3>3. Agree(g, h, n)
      BY <3>1, <3>2, FlattenUnique
    <3>4. QED
      BY <3>3 DEF Agree
  <2>4. n \in 1..n
    BY <1>7
  <2>5. h[n] = g[n]
    BY <2>3, <2>4
  <2>6. n + 1 # 1
    BY <1>7
  <2>7. QED
    BY <1>2, <1>4, <1>5, <2>1, <2>5, <2>6
<1>8. QED
  BY <1>6, <1>7

\* The whole is the last prefix.
LEMMA PrefixAll ==
  ASSUME NEW T, NEW s \in Seq(T)
  PROVE  Prefix(s, Len(s)) = s
BY DEF Prefix

\* A function on 1..n is a sequence.
LEMMA FunctionIsSeq ==
  ASSUME NEW S, NEW n \in Nat, NEW f \in [1..n -> S]
  PROVE  f \in Seq(S) /\ Len(f) = n /\ DOMAIN f = 1..n
OBVIOUS

\* What is flattened is a sequence.
LEMMA FlattenType ==
  ASSUME NEW T, NEW s \in Seq(Seq(T))
  PROVE  \A n \in 0..Len(s) : FlattenSeq(Prefix(s, n)) \in Seq(T)
<1> DEFINE Bad == {n \in 0..Len(s) : FlattenSeq(Prefix(s, n)) \notin Seq(T)}
<1> SUFFICES ASSUME Bad # {} PROVE FALSE
  OBVIOUS
<1>1. PICK n \in Bad : \A k \in Bad : n <= k
  <2>1. Bad \subseteq Nat
    OBVIOUS
  <2> HIDE DEF Bad
  <2>2. QED
    BY <2>1, LeastNat
<1>2. n \in 0..Len(s) /\ FlattenSeq(Prefix(s, n)) \notin Seq(T)
  OBVIOUS
<1>3. n # 0
  <2>1. SUFFICES ASSUME n = 0 PROVE FALSE
    OBVIOUS
  <2>2. FlattenSeq(Prefix(s, 0)) = <<>>
    BY DEF FlattenSeq, Prefix
  <2>3. FlattenSeq(Prefix(s, 0)) \in Seq(T)
    BY <2>2, EmptySeq
  <2>4. QED
    BY <1>2, <2>1, <2>3
<1>4. n - 1 \in Nat /\ n - 1 < Len(s) /\ n - 1 \in 0..Len(s) /\ n - 1 \notin Bad
  BY <1>1, <1>2, <1>3
<1>5. FlattenSeq(Prefix(s, n - 1)) \in Seq(T)
  BY <1>4
<1>6. FlattenSeq(Prefix(s, (n - 1) + 1)) = FlattenSeq(Prefix(s, n - 1)) \o s[(n - 1) + 1]
  <2> DEFINE m == n - 1
  <2>1. m \in Nat /\ m < Len(s) /\ FlattenSeq(Prefix(s, m)) \in Seq(T)
    BY <1>4, <1>5
  <2> HIDE DEF m
  <2>2. FlattenSeq(Prefix(s, m + 1)) = FlattenSeq(Prefix(s, m)) \o s[m + 1]
    BY <2>1, FlattenPrefix
  <2>3. QED
    BY <2>2 DEF m
<1>7. (n - 1) + 1 = n /\ s[n] \in Seq(T)
  BY <1>2, <1>3
<1>8. FlattenSeq(Prefix(s, n - 1)) \o s[n] \in Seq(T)
  BY <1>5, <1>7, ConcatProperties
<1>9. QED
  BY <1>2, <1>6, <1>7, <1>8

\* The recursion without its premise.
LEMMA FlattenMore ==
  ASSUME NEW T, NEW s \in Seq(Seq(T)), NEW n \in Nat, n < Len(s)
  PROVE  /\ FlattenSeq(Prefix(s, n)) \in Seq(T)
         /\ FlattenSeq(Prefix(s, n + 1)) = FlattenSeq(Prefix(s, n)) \o s[n + 1]
<1>1. FlattenSeq(Prefix(s, n)) \in Seq(T)
  <2>1. n \in 0..Len(s)
    OBVIOUS
  <2>2. QED
    BY <2>1, FlattenType
<1>2. QED
  BY <1>1, FlattenPrefix

(* The places in n sequences whose lengths are L, in the order in which    *)
(* they are flattened.                                                     *)
PlaceSeq(L, n) == [j \in 1..n |-> [i \in 1..L[j] |-> <<j, i>>]]
Places(L, n) == FlattenSeq(PlaceSeq(L, n))

\* P lists the places, each once.
ListsPlaces(P, L, n) ==
    /\ \A k \in 1..Len(P) : P[k][1] \in 1..n /\ P[k][2] \in 1..L[P[k][1]]
    /\ \A j \in 1..n : \A i \in 1..L[j] : \E k \in 1..Len(P) : P[k][1] = j /\ P[k][2] = i
    /\ \A k, l \in 1..Len(P) : P[k][1] = P[l][1] /\ P[k][2] = P[l][2] => k = l

\* What is where in a concatenation.
LEMMA ConcatFacts ==
  ASSUME NEW S, NEW a \in Seq(S), NEW b \in Seq(S)
  PROVE  /\ a \o b \in Seq(S) /\ Len(a \o b) = Len(a) + Len(b)
         /\ Len(a) \in Nat /\ Len(b) \in Nat
         /\ \A k \in 1..Len(a) : (a \o b)[k] = a[k]
         /\ \A i \in 1..Len(b) : (a \o b)[Len(a) + i] = b[i]
OBVIOUS

\* The places of sequence j, after p others.
PlacesFrom(Q, p, q, j) == \A i \in 1..q : Q[p + i][1] = j /\ Q[p + i][2] = i

\* One sequence more.
LEMMA PlacesMore ==
  ASSUME NEW L, NEW n \in Nat, NEW P, ListsPlaces(P, L, n),
         NEW p \in Nat, p = Len(P), NEW q \in Nat, q = L[n + 1],
         NEW Q, Len(Q) = p + q, Agree(Q, P, p), PlacesFrom(Q, p, q, n + 1)
  PROVE  ListsPlaces(Q, L, n + 1)
<1> USE DEF Agree, PlacesFrom
<1>1. \A k \in 1..p : k \in 1..(p + q)
  OBVIOUS
<1>2. \A i \in 1..q : p + i \in 1..(p + q)
  OBVIOUS
<1>3. \A i \in 1..q : Q[p + i][1] = n + 1 /\ Q[p + i][2] = i
  OBVIOUS
<1>4. \A k \in 1..(p + q) : k \in 1..p \/ \E i \in 1..q : k = p + i
  <2> SUFFICES ASSUME NEW k \in 1..(p + q), k \notin 1..p PROVE \E i \in 1..q : k = p + i
    OBVIOUS
  <2>1. k - p \in 1..q /\ k = p + (k - p)
    OBVIOUS
  <2>2. QED
    BY <2>1
<1>5. \A k \in 1..p : Q[k][1] \in 1..n /\ Q[k][2] \in 1..L[Q[k][1]]
  BY DEF ListsPlaces
<1>6. \A k \in 1..(p + q) : Q[k][1] \in 1..(n + 1) /\ Q[k][2] \in 1..L[Q[k][1]]
  <2> SUFFICES ASSUME NEW k \in 1..(p + q)
               PROVE  Q[k][1] \in 1..(n + 1) /\ Q[k][2] \in 1..L[Q[k][1]]
    OBVIOUS
  <2>1. CASE k \in 1..p
    BY <1>5, <2>1
  <2>2. CASE \E i \in 1..q : k = p + i
    <3>1. PICK i \in 1..q : k = p + i
      BY <2>2
    <3>2. Q[k][1] = n + 1 /\ Q[k][2] = i
      BY <1>3, <3>1
    <3>3. n + 1 \in 1..(n + 1) /\ i \in 1..L[n + 1]
      OBVIOUS
    <3>4. QED
      BY <3>2, <3>3
  <2>3. QED
    BY <1>4, <2>1, <2>2
<1>7. \A j \in 1..(n + 1) : \A i \in 1..L[j] : \E k \in 1..(p + q) : Q[k][1] = j /\ Q[k][2] = i
  <2> SUFFICES ASSUME NEW j \in 1..(n + 1), NEW i \in 1..L[j]
               PROVE  \E k \in 1..(p + q) : Q[k][1] = j /\ Q[k][2] = i
    OBVIOUS
  <2>1. CASE j = n + 1
    BY <1>2, <2>1
  <2>2. CASE j \in 1..n
    <3>1. PICK k \in 1..p : P[k][1] = j /\ P[k][2] = i
      BY <2>2 DEF ListsPlaces
    <3>2. QED
      BY <1>1, <3>1
  <2>3. QED
    BY <2>1, <2>2
<1>8. \A k, l \in 1..(p + q) : Q[k][1] = Q[l][1] /\ Q[k][2] = Q[l][2] => k = l
  <2> SUFFICES ASSUME NEW k \in 1..(p + q), NEW l \in 1..(p + q),
                      Q[k][1] = Q[l][1], Q[k][2] = Q[l][2]
               PROVE  k = l
    OBVIOUS
  <2>1. CASE k \in 1..p /\ l \in 1..p
    BY <2>1 DEF ListsPlaces
  <2>2. CASE k \in 1..p /\ \E i \in 1..q : l = p + i
    <3>1. Q[k][1] \in 1..n /\ Q[l][1] = n + 1
      BY <1>3, <1>5, <2>2
    <3>2. QED
      BY <3>1
  <2>3. CASE l \in 1..p /\ \E i \in 1..q : k = p + i
    <3>1. Q[l][1] \in 1..n /\ Q[k][1] = n + 1
      BY <1>3, <1>5, <2>3
    <3>2. QED
      BY <3>1
  <2>4. CASE (\E i \in 1..q : k = p + i) /\ \E i \in 1..q : l = p + i
    <3>1. PICK a \in 1..q : k = p + a
      BY <2>4
    <3>2. PICK b \in 1..q : l = p + b
      BY <2>4
    <3>3. Q[k][2] = a /\ Q[l][2] = b
      BY <1>3, <3>1, <3>2
    <3>4. QED
      BY <3>1, <3>2, <3>3
  <2>5. QED
    BY <1>4, <2>1, <2>2, <2>3, <2>4
<1>9. QED
  BY <1>6, <1>7, <1>8 DEF ListsPlaces

\* The places of sequence j.
PlacesOf(R, m, j) == \A i \in 1..m : R[i][1] = j /\ R[i][2] = i

\* F is s flattened, and P says from where.
Placed(F, P, s, L, n) ==
    /\ ListsPlaces(P, L, n)
    /\ Len(F) = Len(P)
    /\ \A k \in 1..Len(P) : F[k] = s[P[k][1]][P[k][2]]

\* One sequence more.
LEMMA PlacedMore ==
  ASSUME NEW T, NEW U, NEW s, NEW L, NEW n \in Nat, s[n + 1] \in Seq(T), Len(s[n + 1]) = L[n + 1],
         NEW P \in Seq(U), NEW F \in Seq(T), Placed(F, P, s, L, n),
         NEW R \in Seq(U), Len(R) = L[n + 1],
         PlacesOf(R, L[n + 1], n + 1)
  PROVE  Placed(F \o s[n + 1], P \o R, s, L, n + 1)
<1> DEFINE Q == P \o R
           G == F \o s[n + 1]
           p == Len(P)
           q == L[n + 1]
<1>1. /\ Len(Q) = p + q /\ p \in Nat /\ q \in Nat
      /\ \A k \in 1..p : Q[k] = P[k]
      /\ \A i \in 1..q : Q[p + i] = R[i]
  <2>1. /\ Len(P \o R) = Len(P) + Len(R) /\ Len(P) \in Nat /\ Len(R) \in Nat
        /\ \A k \in 1..Len(P) : (P \o R)[k] = P[k]
        /\ \A i \in 1..Len(R) : (P \o R)[Len(P) + i] = R[i]
    BY ConcatFacts
  <2>2. QED
    BY <2>1
<1>2. /\ Len(G) = Len(F) + q
      /\ \A k \in 1..Len(F) : G[k] = F[k]
      /\ \A i \in 1..q : G[Len(F) + i] = s[n + 1][i]
  BY ConcatFacts
<1>3. Len(F) = p /\ \A k \in 1..p : F[k] = s[P[k][1]][P[k][2]]
  BY DEF Placed
<1>4. \A i \in 1..q : Q[p + i][1] = n + 1 /\ Q[p + i][2] = i
  BY <1>1 DEF PlacesOf
<1> HIDE DEF Q, G
<1>5. ListsPlaces(Q, L, n + 1)
  <2>1. ListsPlaces(P, L, n)
    BY DEF Placed
  <2>2. p = Len(P) /\ q = L[n + 1]
    OBVIOUS
  <2> HIDE DEF p, q
  <2>3. Agree(Q, P, p) /\ PlacesFrom(Q, p, q, n + 1)
    BY <1>1, <1>4 DEF Agree, PlacesFrom
  <2>4. QED
    BY <1>1, <2>1, <2>2, <2>3, PlacesMore
<1>6. ASSUME NEW k \in 1..(p + q) PROVE G[k] = s[Q[k][1]][Q[k][2]]
  <2> HIDE DEF p, q
  <2>1. CASE k \in 1..p
    BY <1>1, <1>2, <1>3, <2>1
  <2>2. CASE k \notin 1..p
    <3> DEFINE i == k - p
    <3>1. i \in 1..q /\ k = p + i
      BY <1>1, <2>2
    <3> HIDE DEF i
    <3>2. G[k] = s[n + 1][i]
      BY <1>2, <1>3, <3>1
    <3>3. QED
      BY <1>4, <3>1, <3>2
  <2>3. QED
    BY <2>1, <2>2
<1>7. QED
  BY <1>1, <1>2, <1>3, <1>5, <1>6 DEF Placed, G, Q

\* Whatever is flattened is placed as its lengths say.
LEMMA FlattenPlaces ==
  ASSUME NEW T, NEW s \in Seq(Seq(T)), NEW L, \A j \in 1..Len(s) : Len(s[j]) = L[j]
  PROVE  Placed(FlattenSeq(s), Places(L, Len(s)), s, L, Len(s))
<1> DEFINE U == Nat \X Nat
           ps == PlaceSeq(L, Len(s))
           Bad == {n \in 0..Len(s) : ~Placed(FlattenSeq(Prefix(s, n)), FlattenSeq(Prefix(ps, n)), s, L, n)}
<1>1. ASSUME NEW j \in 1..Len(s)
      PROVE  /\ ps[j] \in Seq(U) /\ Len(ps[j]) = L[j]
             /\ PlacesOf(ps[j], L[j], j)
  <2>1. s[j] \in Seq(T) /\ L[j] \in Nat
    OBVIOUS
  <2>2. ps[j] = [i \in 1..L[j] |-> <<j, i>>]
    BY DEF PlaceSeq
  <2>3. ps[j] \in [1..L[j] -> U]
    BY <2>2
  <2> HIDE DEF ps, U
  <2>4. \A i \in 1..L[j] : ps[j][i] = <<j, i>>
    BY <2>2
  <2>5. \A i \in 1..L[j] : ps[j][i][1] = j /\ ps[j][i][2] = i
    BY <2>4
  <2>6. ps[j] \in Seq(U) /\ Len(ps[j]) = L[j]
    <3> DEFINE f == ps[j]
               n == L[j]
    <3>1. n \in Nat /\ f \in [1..n -> U]
      BY <2>1, <2>3
    <3> HIDE DEF f, n
    <3>2. f \in Seq(U) /\ Len(f) = n
      BY <3>1, FunctionIsSeq
    <3>3. QED
      BY <3>2 DEF f, n
  <2>7. QED
    BY <2>5, <2>6 DEF PlacesOf
<1>2. ps \in Seq(Seq(U)) /\ Len(ps) = Len(s)
  <2>1. ps \in [1..Len(s) -> Seq(U)]
    BY <1>1 DEF PlaceSeq
  <2> HIDE DEF ps, U
  <2>2. QED
    BY <2>1, FunctionIsSeq
<1> HIDE DEF ps, U
<1>3. Bad = {}
  <2> SUFFICES ASSUME Bad # {} PROVE FALSE
    OBVIOUS
  <2>1. PICK n \in Bad : \A k \in Bad : n <= k
    <3>1. Bad \subseteq Nat
      OBVIOUS
    <3> HIDE DEF Bad
    <3>2. QED
      BY <3>1, LeastNat
  <2>2. n \in 0..Len(s) /\ ~Placed(FlattenSeq(Prefix(s, n)), FlattenSeq(Prefix(ps, n)), s, L, n)
    OBVIOUS
  <2>3. n # 0
    <3>1. FlattenSeq(Prefix(s, 0)) = <<>> /\ FlattenSeq(Prefix(ps, 0)) = <<>>
      BY DEF FlattenSeq, Prefix
    <3>2. Placed(<<>>, <<>>, s, L, 0)
      BY DEF Placed, ListsPlaces
    <3>3. QED
      BY <2>2, <3>1, <3>2
  <2> DEFINE m == n - 1
  <2>4. m \in Nat /\ m < Len(s) /\ m \in 0..Len(s) /\ m \notin Bad /\ n = m + 1 /\ m + 1 \in 1..Len(s)
    BY <2>1, <2>2, <2>3
  <2>5. Placed(FlattenSeq(Prefix(s, m)), FlattenSeq(Prefix(ps, m)), s, L, m)
    BY <2>4
  <2> HIDE DEF m, Bad
  <2>6. /\ FlattenSeq(Prefix(s, m)) \in Seq(T)
        /\ FlattenSeq(Prefix(s, m + 1)) = FlattenSeq(Prefix(s, m)) \o s[m + 1]
    BY <2>4, FlattenMore
  <2>7. /\ FlattenSeq(Prefix(ps, m)) \in Seq(U)
        /\ FlattenSeq(Prefix(ps, m + 1)) = FlattenSeq(Prefix(ps, m)) \o ps[m + 1]
    BY <1>2, <2>4, FlattenMore
  <2>8. s[m + 1] \in Seq(T) /\ Len(s[m + 1]) = L[m + 1]
    BY <2>4
  <2>9. /\ ps[m + 1] \in Seq(U) /\ Len(ps[m + 1]) = L[m + 1]
        /\ PlacesOf(ps[m + 1], L[m + 1], m + 1)
    BY <1>1, <2>4
  <2>10. Placed(FlattenSeq(Prefix(s, m)) \o s[m + 1], FlattenSeq(Prefix(ps, m)) \o ps[m + 1], s, L, m + 1)
    BY <2>4, <2>5, <2>6, <2>7, <2>8, <2>9, PlacedMore
  <2>11. QED
    BY <2>2, <2>4, <2>6, <2>7, <2>10
<1>4. Len(s) \in 0..Len(s)
  OBVIOUS
<1>5. Placed(FlattenSeq(Prefix(s, Len(s))), FlattenSeq(Prefix(ps, Len(s))), s, L, Len(s))
  BY <1>3, <1>4
<1>6. Prefix(s, Len(s)) = s /\ Prefix(ps, Len(s)) = ps
  BY <1>2, PrefixAll
<1>7. QED
  BY <1>5, <1>6 DEF Places, ps

-----------------------------------------------------------------------------
(* The rows of the input, numbered as TakeBatch numbers them. *)
RowAt(n) == [id |-> n, cell |-> input[n].cell]
RowSet == {RowAt(n) : n \in 1..Len(input)}
Key(n) == PartitionOf(table, RowAt(n))

In(rows, n) == \E i \in 1..Len(rows) : rows[i].id = n

(* Rows taken from the input that belong to partition k, in input order. *)
Run(rows, k) ==
    /\ rows \in Seq(RowSet) /\ rows # <<>>
    /\ \A i \in 1..Len(rows) : rows[i].id \in 1..taken /\ Key(rows[i].id) = k
    /\ \A i, j \in 1..Len(rows) : i < j => rows[i].id < rows[j].id

InFiles(fs, n) == \E f \in 1..Len(fs) : In(fs[f], n)

(* The files of the writer of a partition: no row is in two of them. *)
FilesOK(fs, k) ==
    /\ fs \in Seq(Seq(RowSet)) /\ fs # <<>>
    /\ \A f \in 1..Len(fs) : Run(fs[f], k)
    /\ \A f, h \in 1..Len(fs) : \A n : In(fs[f], n) /\ In(fs[h], n) => f = h

DataFiles == [partition : {Key(n) : n \in 1..Len(input)}, rows : Seq(RowSet)]
InOut(o, n) == \E f \in 1..Len(o) : In(o[f].rows, n)

(* Data files of any partitions, likewise. *)
OutOK(o) ==
    /\ o \in Seq(DataFiles)
    /\ \A f \in 1..Len(o) : Run(o[f].rows, o[f].partition)
    /\ \A f, h \in 1..Len(o) : \A n : In(o[f].rows, n) /\ In(o[h].rows, n) => f = h

\* A row of the input is known by its id.
LEMMA RowFacts ==
  ASSUME NEW r \in RowSet
  PROVE  r.id \in 1..Len(input) /\ r = RowAt(r.id) /\ r.cell = input[r.id].cell
BY DEF RowSet, RowAt

\* A run has a first row, and its ids are numbers of the key.
LEMMA RunFacts ==
  ASSUME NEW rows, NEW k, Run(rows, k), Len(input) \in Nat
  PROVE  /\ Len(rows) \in Nat /\ Len(rows) >= 1 /\ In(rows, rows[1].id)
         /\ \A n : In(rows, n) => n \in 1..taken /\ n \in 1..Len(input) /\ Key(n) = k
<1>1. rows \in Seq(RowSet) /\ rows # <<>>
  BY DEF Run
<1>2. Len(rows) \in Nat /\ Len(rows) >= 1
  BY <1>1
<1>3. In(rows, rows[1].id)
  BY <1>2 DEF In
<1>4. \A i \in 1..Len(rows) : rows[i] \in RowSet
  BY <1>1
<1>5. ASSUME NEW n, In(rows, n) PROVE n \in 1..taken /\ n \in 1..Len(input) /\ Key(n) = k
  <2>1. PICK i \in 1..Len(rows) : rows[i].id = n
    BY <1>5 DEF In
  <2>2. rows[i].id \in 1..taken /\ Key(rows[i].id) = k
    BY DEF Run
  <2>3. rows[i].id \in 1..Len(input)
    BY <1>4, RowFacts
  <2>4. QED
    BY <2>1, <2>2, <2>3
<1>6. QED
  BY <1>2, <1>3, <1>5

\* A run stays one as more of the input is taken.
LEMMA RunKept ==
  ASSUME NEW rows, NEW k, Run(rows, k), UNCHANGED <<tid, input>>,
         taken \in Nat, taken' \in Nat, taken <= taken'
  PROVE  Run(rows, k)'
<1>1. RowSet' = RowSet /\ \A n : Key(n)' = Key(n)
  BY DEF RowSet, RowAt, Key, table
<1>2. \A n \in 1..taken : n \in 1..taken'
  OBVIOUS
<1>3. \A i \in 1..Len(rows) : rows[i].id \in 1..taken' /\ Key(rows[i].id)' = k
  BY <1>1, <1>2 DEF Run
<1>4. QED
  BY <1>1, <1>3 DEF Run

\* Later rows of the partition are added to a file.
LEMMA RunConcat ==
  ASSUME NEW a, NEW b, NEW k, Run(a, k), Run(b, k), Len(input) \in Nat,
         \A n, m : In(a, n) /\ In(b, m) => n < m
  PROVE  /\ Run(a \o b, k)
         /\ \A n : In(a \o b, n) <=> In(a, n) \/ In(b, n)
<1> DEFINE c == a \o b
           p == Len(a)
           q == Len(b)
<1>1. a \in Seq(RowSet) /\ b \in Seq(RowSet)
  BY DEF Run
<1>2. /\ c \in Seq(RowSet) /\ Len(c) = p + q /\ p \in Nat /\ q \in Nat
      /\ \A i \in 1..p : c[i] = a[i]
      /\ \A i \in 1..q : c[p + i] = b[i]
  BY <1>1, ConcatFacts
<1>3. p >= 1 /\ q >= 1
  BY RunFacts
<1> HIDE DEF c, p, q
<1>4. c # <<>>
  BY <1>2, <1>3
<1>5. \A i \in 1..(p + q) : i \in 1..p \/ (i - p \in 1..q /\ i = p + (i - p))
  BY <1>2
<1>6. \A i \in 1..p : In(a, a[i].id)
  BY DEF In, p
<1>7. \A i \in 1..q : In(b, b[i].id)
  BY DEF In, q
<1>8. \A i \in 1..(p + q) : c[i].id \in 1..taken /\ Key(c[i].id) = k
  <2> SUFFICES ASSUME NEW i \in 1..(p + q) PROVE c[i].id \in 1..taken /\ Key(c[i].id) = k
    OBVIOUS
  <2>1. CASE i \in 1..p
    BY <1>2, <1>6, <2>1, RunFacts
  <2>2. CASE i - p \in 1..q /\ i = p + (i - p)
    <3>1. c[i] = b[i - p]
      BY <1>2, <2>2
    <3>2. QED
      BY <1>7, <2>2, <3>1, RunFacts
  <2>3. QED
    BY <1>5, <2>1, <2>2
<1>9. \A i, j \in 1..(p + q) : i < j => c[i].id < c[j].id
  <2> SUFFICES ASSUME NEW i \in 1..(p + q), NEW j \in 1..(p + q), i < j
               PROVE  c[i].id < c[j].id
    OBVIOUS
  <2>1. CASE j \in 1..p
    <3>1. i \in 1..p
      BY <1>2, <2>1
    <3>2. QED
      BY <1>2, <2>1, <3>1 DEF Run, p
  <2>2. CASE i \in 1..p /\ j - p \in 1..q /\ j = p + (j - p)
    <3>1. c[i] = a[i] /\ c[j] = b[j - p]
      BY <1>2, <2>2
    <3>2. QED
      BY <1>6, <1>7, <2>2, <3>1
  <2>3. CASE i - p \in 1..q /\ i = p + (i - p) /\ j - p \in 1..q /\ j = p + (j - p)
    <3>1. c[i] = b[i - p] /\ c[j] = b[j - p] /\ i - p < j - p
      BY <1>2, <2>3
    <3>2. \A x, y \in 1..q : x < y => b[x].id < b[y].id
      BY DEF Run, q
    <3>3. QED
      BY <2>3, <3>1, <3>2
  <2>4. QED
    BY <1>2, <1>5, <2>1, <2>2, <2>3
<1>10. Run(c, k)
  BY <1>2, <1>4, <1>8, <1>9 DEF Run
<1>11. \A n : In(c, n) <=> In(a, n) \/ In(b, n)
  <2> SUFFICES ASSUME NEW n PROVE In(c, n) <=> In(a, n) \/ In(b, n)
    OBVIOUS
  <2>1. ASSUME In(c, n) PROVE In(a, n) \/ In(b, n)
    <3>1. PICK i \in 1..(p + q) : c[i].id = n
      BY <1>2, <2>1 DEF In
    <3>2. CASE i \in 1..p
      BY <1>2, <1>6, <3>1, <3>2
    <3>3. CASE i - p \in 1..q /\ i = p + (i - p)
      <4>1. c[i] = b[i - p]
        BY <1>2, <3>3
      <4>2. QED
        BY <1>7, <3>1, <3>3, <4>1
    <3>4. QED
      BY <1>5, <3>2, <3>3
  <2>2. ASSUME In(a, n) PROVE In(c, n)
    <3>1. PICK i \in 1..p : a[i].id = n
      BY <2>2 DEF In, p
    <3>2. i \in 1..(p + q) /\ c[i] = a[i]
      BY <1>2
    <3>3. QED
      BY <1>2, <3>1, <3>2 DEF In
  <2>3. ASSUME In(b, n) PROVE In(c, n)
    <3>1. PICK i \in 1..q : b[i].id = n
      BY <2>3 DEF In, q
    <3>2. p + i \in 1..(p + q) /\ c[p + i] = b[i]
      BY <1>2
    <3>3. QED
      BY <1>2, <3>1, <3>2 DEF In
  <2>4. QED
    BY <2>1, <2>2, <2>3
<1>12. QED
  BY <1>10, <1>11 DEF c

(* All rows of the files are before all of rows. *)
Before(fs, rows) == \A n, m : InFiles(fs, n) /\ In(rows, m) => n < m

\* The rolling writer adds a group to its last file or to a new one.
LEMMA AppendedIs ==
  ASSUME NEW fs, NEW k, NEW rows, NEW roll, fs = <<>> \/ FilesOK(fs, k), Run(rows, k),
         Len(input) \in Nat, Before(fs, rows)
  PROVE  /\ FilesOK(Appended(fs, rows, roll), k)
         /\ \A n : InFiles(Appended(fs, rows, roll), n) <=> InFiles(fs, n) \/ In(rows, n)
<1> DEFINE new == Appended(fs, rows, roll)
           l == Len(fs)
<1>1. rows \in Seq(RowSet) /\ fs \in Seq(Seq(RowSet)) /\ l \in Nat
  <2>1. <<>> \in Seq(Seq(RowSet)) /\ Len(<<>>) = 0
    BY EmptySeq
  <2>2. fs \in Seq(Seq(RowSet))
    BY <2>1 DEF FilesOK
  <2>3. QED
    BY <2>2 DEF Run
<1>2. l = 0 \/ FilesOK(fs, k)
  OBVIOUS
<1> HIDE DEF l
<1>10. \A f \in 1..l : Run(fs[f], k)
  BY <1>2 DEF FilesOK, l
<1>3. \A f, h \in 1..l : \A n : In(fs[f], n) /\ In(fs[h], n) => f = h
  <2>1. CASE l = 0
    BY <2>1
  <2>2. CASE FilesOK(fs, k)
    BY <2>2 DEF FilesOK, l
  <2>3. QED
    BY <1>2, <2>1, <2>2
<1>4. \A f \in 1..l : \A n, m : In(fs[f], n) /\ In(rows, m) => n < m
  BY DEF Before, InFiles, l
<1>5. \A n : In(rows, n) => n \in Int /\ ~(n < n)
  BY RunFacts
<1>6. \A f \in 1..l : \A n : ~(In(fs[f], n) /\ In(rows, n))
  BY <1>4, <1>5
<1>7. CASE fs = <<>> \/ roll
  <2>1. new = Append(fs, rows)
    BY <1>7 DEF Appended
  <2>2. new \in Seq(Seq(RowSet)) /\ Len(new) = l + 1 /\ new[l + 1] = rows /\ new # <<>>
    BY <1>1, <2>1 DEF l
  <2>3. \A f \in 1..l : new[f] = fs[f]
    BY <1>1, <2>1 DEF l
  <2> HIDE DEF new, l
  <2>4. \A f \in 1..(l + 1) : f \in 1..l \/ f = l + 1
    BY <1>1
  <2>5. \A f \in 1..(l + 1) : Run(new[f], k)
    BY <1>10, <2>2, <2>3, <2>4
  <2>6. \A f, h \in 1..(l + 1) : \A n : In(new[f], n) /\ In(new[h], n) => f = h
    BY <1>3, <1>6, <2>2, <2>3, <2>4
  <2>7. FilesOK(new, k)
    BY <2>2, <2>5, <2>6 DEF FilesOK
  <2>8. \A n : InFiles(new, n) <=> InFiles(fs, n) \/ In(rows, n)
    <3> SUFFICES ASSUME NEW n PROVE InFiles(new, n) <=> InFiles(fs, n) \/ In(rows, n)
      OBVIOUS
    <3>1. InFiles(new, n) => InFiles(fs, n) \/ In(rows, n)
      BY <2>2, <2>3, <2>4 DEF InFiles, l
    <3>2. InFiles(fs, n) => InFiles(new, n)
      <4>1. \A f \in 1..l : f \in 1..(l + 1)
        BY <1>1
      <4>2. QED
        BY <2>2, <2>3, <4>1 DEF InFiles, l
    <3>3. In(rows, n) => InFiles(new, n)
      <4>1. l + 1 \in 1..(l + 1)
        BY <1>1
      <4>2. QED
        BY <2>2, <4>1 DEF InFiles
    <3>4. QED
      BY <3>1, <3>2, <3>3
  <2>9. QED
    BY <2>7, <2>8 DEF new
<1>8. CASE fs # <<>> /\ ~roll
  <2> DEFINE last == fs[l] \o rows
  <2>1. l >= 1 /\ l \in 1..l
    BY <1>1, <1>8 DEF l
  <2>2. new = [fs EXCEPT ![l] = fs[l] \o rows]
    BY <1>8 DEF Appended, l
  <2>3. /\ Run(last, k)
        /\ \A n : In(last, n) <=> In(fs[l], n) \/ In(rows, n)
    <3>1. Run(fs[l], k)
      BY <1>10, <2>1
    <3>2. \A n, m : In(fs[l], n) /\ In(rows, m) => n < m
      BY <1>4, <2>1
    <3>3. QED
      BY <3>1, <3>2, RunConcat
  <2>4. last \in Seq(RowSet)
    BY <2>3 DEF Run
  <2> HIDE DEF last
  <2>5. new \in Seq(Seq(RowSet)) /\ Len(new) = l /\ new[l] = last /\ new # <<>>
    BY <1>1, <1>8, <2>1, <2>2, <2>4 DEF last, l
  <2>6. \A f \in 1..l : f # l => new[f] = fs[f]
    BY <1>1, <2>2 DEF l
  <2> HIDE DEF new, l
  <2>7. \A f \in 1..l : Run(new[f], k)
    BY <1>10, <2>3, <2>5, <2>6
  <2>8. \A f, h \in 1..l : \A n : In(new[f], n) /\ In(new[h], n) => f = h
    BY <1>3, <1>6, <2>1, <2>3, <2>5, <2>6
  <2>9. FilesOK(new, k)
    BY <2>5, <2>7, <2>8 DEF FilesOK
  <2>10. \A n : InFiles(new, n) <=> InFiles(fs, n) \/ In(rows, n)
    BY <2>1, <2>3, <2>5, <2>6 DEF InFiles, l
  <2>11. QED
    BY <2>9, <2>10 DEF new
<1>9. QED
  BY <1>7, <1>8

\* What a writer's close returns.
LEMMA ClosedIs ==
  ASSUME NEW fs, NEW k, FilesOK(fs, k), Len(input) \in Nat
  PROVE  OutOK(Closed(k, fs)) /\ \A n : InOut(Closed(k, fs), n) <=> InFiles(fs, n)
<1> DEFINE o == Closed(k, fs)
           l == Len(fs)
<1>1. fs \in Seq(Seq(RowSet)) /\ l \in Nat /\ DOMAIN fs = 1..l /\ fs # <<>>
  BY DEF FilesOK
<1>2. \A f \in 1..l : Run(fs[f], k)
  BY DEF FilesOK
<1>3. k \in {Key(n) : n \in 1..Len(input)}
  <2>1. 1 \in 1..l
    BY <1>1
  <2>2. In(fs[1], fs[1][1].id)
    BY <1>2, <2>1, RunFacts
  <2>3. QED
    BY <1>2, <2>1, <2>2, RunFacts
<1>4. o = [f \in 1..l |-> [partition |-> k, rows |-> fs[f]]]
  BY <1>1 DEF Closed
<1>5. \A f \in 1..l : o[f] \in DataFiles /\ o[f].rows = fs[f] /\ o[f].partition = k
  <2> SUFFICES ASSUME NEW f \in 1..l
               PROVE o[f] \in DataFiles /\ o[f].rows = fs[f] /\ o[f].partition = k
    OBVIOUS
  <2>1. o[f] = [partition |-> k, rows |-> fs[f]]
    BY <1>4
  <2>2. fs[f] \in Seq(RowSet)
    BY <1>1
  <2>3. QED
    BY <1>3, <2>1, <2>2 DEF DataFiles
<1> HIDE DEF o, l
<1>6. o \in Seq(DataFiles) /\ Len(o) = l
  <2>1. o \in [1..l -> DataFiles]
    BY <1>4, <1>5
  <2>2. QED
    BY <1>1, <2>1, FunctionIsSeq
<1>7. OutOK(o)
  <2>1. \A f, h \in 1..l : \A n : In(fs[f], n) /\ In(fs[h], n) => f = h
    BY DEF FilesOK, l
  <2>2. QED
    BY <1>2, <1>5, <1>6, <2>1 DEF OutOK
<1>8. \A n : InOut(o, n) <=> InFiles(fs, n)
  BY <1>5, <1>6 DEF InOut, InFiles, l
<1>9. QED
  BY <1>7, <1>8 DEF o

\* More data files, of other rows.
LEMMA OutConcat ==
  ASSUME NEW a, NEW b, OutOK(a), OutOK(b), \A n : ~(InOut(a, n) /\ InOut(b, n))
  PROVE  OutOK(a \o b) /\ \A n : InOut(a \o b, n) <=> InOut(a, n) \/ InOut(b, n)
<1> DEFINE c == a \o b
           p == Len(a)
           q == Len(b)
<1>1. a \in Seq(DataFiles) /\ b \in Seq(DataFiles)
  BY DEF OutOK
<1>2. /\ c \in Seq(DataFiles) /\ Len(c) = p + q /\ p \in Nat /\ q \in Nat
      /\ \A i \in 1..p : c[i] = a[i]
      /\ \A i \in 1..q : c[p + i] = b[i]
  BY <1>1, ConcatFacts
<1> HIDE DEF c, p, q
<1>3. \A i \in 1..(p + q) : i \in 1..p \/ (i - p \in 1..q /\ i = p + (i - p))
  BY <1>2
<1>4. \A i \in 1..p : i \in 1..(p + q) /\ Run(c[i].rows, c[i].partition)
  BY <1>2 DEF OutOK, p
<1>5. \A i \in 1..q : p + i \in 1..(p + q) /\ Run(c[p + i].rows, c[p + i].partition)
  BY <1>2 DEF OutOK, q
<1>6. \A i \in 1..(p + q) : Run(c[i].rows, c[i].partition)
  BY <1>3, <1>4, <1>5
<1>7. \A n : InOut(a, n) <=> \E i \in 1..p : In(c[i].rows, n)
  BY <1>2 DEF InOut, p
<1>8. \A n : InOut(b, n) <=> \E i \in 1..q : In(c[p + i].rows, n)
  BY <1>2 DEF InOut, q
<1>9. \A f, h \in 1..(p + q) : \A n : In(c[f].rows, n) /\ In(c[h].rows, n) => f = h
  <2> SUFFICES ASSUME NEW f \in 1..(p + q), NEW h \in 1..(p + q), NEW n,
                      In(c[f].rows, n), In(c[h].rows, n)
               PROVE  f = h
    OBVIOUS
  <2>1. CASE f \in 1..p /\ h \in 1..p
    BY <1>2, <2>1 DEF OutOK, p
  <2>2. CASE f \notin 1..p /\ h \notin 1..p
    <3> DEFINE x == f - p
               y == h - p
    <3>1. x \in 1..q /\ f = p + x /\ y \in 1..q /\ h = p + y
      BY <1>3, <2>2
    <3> HIDE DEF x, y
    <3>2. c[f] = b[x] /\ c[h] = b[y]
      BY <1>2, <3>1
    <3>3. x = y
      BY <3>1, <3>2 DEF OutOK, q
    <3>4. QED
      BY <3>1, <3>3
  <2>3. CASE f \in 1..p /\ h \notin 1..p
    <3> DEFINE y == h - p
    <3>1. y \in 1..q /\ h = p + y
      BY <1>3, <2>3
    <3> HIDE DEF y
    <3>2. InOut(a, n) /\ InOut(b, n)
      BY <1>7, <1>8, <2>3, <3>1
    <3>3. QED
      BY <3>2
  <2>4. CASE f \notin 1..p /\ h \in 1..p
    <3> DEFINE y == f - p
    <3>1. y \in 1..q /\ f = p + y
      BY <1>3, <2>4
    <3> HIDE DEF y
    <3>2. InOut(a, n) /\ InOut(b, n)
      BY <1>7, <1>8, <2>4, <3>1
    <3>3. QED
      BY <3>2
  <2>5. QED
    BY <2>1, <2>2, <2>3, <2>4
<1>10. OutOK(c)
  BY <1>2, <1>6, <1>9 DEF OutOK
<1>11. \A n : InOut(c, n) <=> InOut(a, n) \/ InOut(b, n)
  BY <1>2, <1>3, <1>4, <1>5, <1>7, <1>8 DEF InOut
<1>12. QED
  BY <1>10, <1>11 DEF c

\* What closing all writers returns, in whichever order.
LEMMA CloseAllIs ==
  ASSUME NEW w, IsFiniteSet(DOMAIN w), \A k \in DOMAIN w : FilesOK(w[k], k), Len(input) \in Nat,
         NEW order, Enumerates(order, DOMAIN w), NEW s,
         s = [i \in DOMAIN order |-> Closed(order[i], w[order[i]])]
  PROVE  /\ OutOK(FlattenSeq(s))
         /\ \A n : InOut(FlattenSeq(s), n) <=> \E k \in DOMAIN w : InFiles(w[k], n)
<1> DEFINE N == Cardinality(DOMAIN w)
           L == [j \in 1..N |-> Len(s[j])]
           P == Places(L, N)
           F == FlattenSeq(s)
<1>1. /\ N \in Nat /\ order \in [1..N -> DOMAIN w]
      /\ \A i, j \in 1..N : order[i] = order[j] => i = j
      /\ \A k \in DOMAIN w : \E i \in 1..N : order[i] = k
  BY FS_CardinalityType DEF Enumerates
<1>2. \A j \in 1..N : s[j] = Closed(order[j], w[order[j]]) /\ order[j] \in DOMAIN w
  BY <1>1
<1>3. \A j \in 1..N : OutOK(s[j]) /\ \A n : InOut(s[j], n) <=> InFiles(w[order[j]], n)
  BY <1>2, ClosedIs
<1>4. \A j \in 1..N : s[j] \in Seq(DataFiles)
  BY <1>3 DEF OutOK
<1>5. s \in Seq(Seq(DataFiles)) /\ Len(s) = N
  <2>1. s \in [1..N -> Seq(DataFiles)]
    BY <1>1, <1>4
  <2> HIDE DEF N
  <2>2. QED
    BY <1>1, <2>1, FunctionIsSeq
<1>6. Placed(F, P, s, L, N)
  <2>1. \A j \in 1..Len(s) : Len(s[j]) = L[j]
    BY <1>5
  <2> HIDE DEF L, N
  <2>2. Placed(FlattenSeq(s), Places(L, Len(s)), s, L, Len(s))
    BY <1>5, <2>1, FlattenPlaces
  <2>3. QED
    BY <1>5, <2>2
<1>7. F \in Seq(DataFiles)
  <2>1. Len(s) \in 0..Len(s) /\ Prefix(s, Len(s)) = s
    BY <1>5, PrefixAll
  <2>2. FlattenSeq(Prefix(s, Len(s))) \in Seq(DataFiles)
    BY <1>5, <2>1, FlattenType
  <2>3. QED
    BY <2>1, <2>2
<1>8. \A j \in 1..N : L[j] = Len(s[j])
  OBVIOUS
<1> HIDE DEF L, N, P, F
<1> DEFINE a(f) == P[f][1]
           b(f) == P[f][2]
<1>9. /\ Len(F) = Len(P)
      /\ \A f \in 1..Len(F) : a(f) \in 1..N /\ b(f) \in 1..Len(s[a(f)]) /\ F[f] = s[a(f)][b(f)]
  BY <1>6, <1>8 DEF Placed, ListsPlaces
<1>10. \A f, h \in 1..Len(F) : a(f) = a(h) /\ b(f) = b(h) => f = h
  BY <1>6, <1>9 DEF Placed, ListsPlaces
<1>11. \A j \in 1..N : \A i \in 1..Len(s[j]) : \E f \in 1..Len(F) : F[f] = s[j][i]
  <2> SUFFICES ASSUME NEW j \in 1..N, NEW i \in 1..Len(s[j])
               PROVE  \E f \in 1..Len(F) : F[f] = s[j][i]
    OBVIOUS
  <2>1. PICK f \in 1..Len(P) : P[f][1] = j /\ P[f][2] = i
    BY <1>6, <1>8 DEF Placed, ListsPlaces
  <2>2. F[f] = s[j][i]
    BY <1>9, <2>1
  <2>3. QED
    BY <1>9, <2>2
<1> HIDE DEF a, b
<1>12. \A f \in 1..Len(F) : Run(F[f].rows, F[f].partition)
  BY <1>3, <1>9 DEF OutOK
<1>13. ASSUME NEW f \in 1..Len(F), NEW n, In(F[f].rows, n)
       PROVE  InFiles(w[order[a(f)]], n) /\ Key(n) = order[a(f)]
  <2>1. InOut(s[a(f)], n)
    BY <1>9, <1>13 DEF InOut
  <2>2. InFiles(w[order[a(f)]], n)
    BY <1>3, <1>9, <2>1
  <2>3. PICK h \in 1..Len(w[order[a(f)]]) : In(w[order[a(f)]][h], n)
    BY <2>2 DEF InFiles
  <2>4. Run(w[order[a(f)]][h], order[a(f)])
    BY <1>2, <1>9 DEF FilesOK
  <2>5. QED
    BY <2>2, <2>3, <2>4, RunFacts
<1>14. ASSUME NEW f \in 1..Len(F), NEW h \in 1..Len(F), NEW n, In(F[f].rows, n), In(F[h].rows, n)
       PROVE  f = h
  <2>1. order[a(f)] = order[a(h)]
    BY <1>13, <1>14
  <2>2. a(f) = a(h)
    BY <1>1, <1>9, <2>1
  <2>3. F[f] = s[a(f)][b(f)] /\ F[h] = s[a(f)][b(h)]
    BY <1>9, <2>2
  <2>4. OutOK(s[a(f)]) /\ b(f) \in 1..Len(s[a(f)]) /\ b(h) \in 1..Len(s[a(f)])
    BY <1>3, <1>9, <2>2
  <2>5. b(f) = b(h)
    BY <1>14, <2>3, <2>4 DEF OutOK
  <2>6. QED
    BY <1>10, <2>2, <2>5
<1>15. OutOK(F)
  BY <1>7, <1>12, <1>14 DEF OutOK
<1>16. ASSUME NEW n, InOut(F, n) PROVE \E k \in DOMAIN w : InFiles(w[k], n)
  <2>1. PICK f \in 1..Len(F) : In(F[f].rows, n)
    BY <1>16 DEF InOut
  <2>2. QED
    BY <1>2, <1>9, <1>13, <2>1
<1>17. ASSUME NEW n, NEW k \in DOMAIN w, InFiles(w[k], n) PROVE InOut(F, n)
  <2>1. PICK j \in 1..N : order[j] = k
    BY <1>1
  <2>2. InOut(s[j], n)
    BY <1>3, <1>17, <2>1
  <2>3. PICK i \in 1..Len(s[j]) : In(s[j][i].rows, n)
    BY <2>2 DEF InOut
  <2>4. QED
    BY <1>11, <2>3 DEF InOut
<1>18. QED
  BY <1>15, <1>16, <1>17 DEF F

-----------------------------------------------------------------------------
InputOK ==
    /\ tid \in DOMAIN Tables
    /\ input \in [1..table.rows -> {[id |-> 0, cell |-> v] : v \in table.cells}]

\* The input is a sequence of rows.
LEMMA InputFacts ==
  ASSUME InputOK
  PROVE  /\ Len(input) = table.rows /\ Len(input) \in Nat
         /\ input \in Seq({[id |-> 0, cell |-> v] : v \in table.cells})
         /\ \A n \in 1..Len(input) : input[n] = [id |-> 0, cell |-> input[n].cell]
                                     /\ input[n].cell \in table.cells
<1> DEFINE S == {[id |-> 0, cell |-> v] : v \in table.cells}
<1>1. table.rows \in Nat /\ input \in [1..table.rows -> S]
  BY TablesAssumption DEF InputOK, table
<1>2. \A r \in S : r = [id |-> 0, cell |-> r.cell] /\ r.cell \in table.cells
  OBVIOUS
<1> HIDE DEF S
<1>3. input \in Seq(S) /\ Len(input) = table.rows
  BY <1>1, FunctionIsSeq
<1>4. QED
  BY <1>1, <1>2, <1>3 DEF S

\* TakeBatch numbers the rows of a batch by their place in the input.
LEMMA BatchIs ==
  ASSUME InputOK, NEW a \in Nat, NEW u \in Nat, a <= u, u <= Len(input)
  PROVE  /\ DOMAIN Numbered(SubSeq(input, a + 1, u), a) = 1..(u - a)
         /\ \A i \in 1..(u - a) : /\ a + i \in 1..Len(input)
                                  /\ Numbered(SubSeq(input, a + 1, u), a)[i] = RowAt(a + i)
<1> DEFINE S == {[id |-> 0, cell |-> v] : v \in table.cells}
           sub == SubSeq(input, a + 1, u)
<1>1. input \in Seq(S) /\ Len(input) \in Nat
  BY InputFacts
<1>2. /\ DOMAIN sub = 1..(u - a)
      /\ \A i \in 1..(u - a) : sub[i] = input[a + i] /\ a + i \in 1..Len(input)
  <2> HIDE DEF S
  <2>1. Len(sub) = u - a
    BY <1>1
  <2>2. \A i \in 1..(u - a) : sub[i] = input[(a + 1) + i - 1] /\ (a + 1) + i - 1 = a + i
    BY <1>1
  <2>3. DOMAIN sub = 1..(u - a)
    BY <1>1
  <2>4. \A i \in 1..(u - a) : a + i \in 1..Len(input)
    BY <1>1
  <2>5. QED
    BY <2>2, <2>3, <2>4
<1> HIDE DEF sub
<1>3. DOMAIN Numbered(sub, a) = 1..(u - a)
  BY <1>2 DEF Numbered
<1>4. ASSUME NEW i \in 1..(u - a) PROVE Numbered(sub, a)[i] = RowAt(a + i)
  <2>1. Numbered(sub, a)[i] = [sub[i] EXCEPT !.id = a + i]
    BY <1>2 DEF Numbered
  <2>2. sub[i] = [id |-> 0, cell |-> input[a + i].cell]
    BY <1>2, InputFacts
  <2>3. QED
    BY <2>1, <2>2 DEF RowAt
<1>5. QED
  BY <1>2, <1>3, <1>4 DEF sub

(* Rows numbered a + 1 to u of partition k, in input order. *)
GroupOf(rows, k, a, u) ==
    /\ rows \in Seq(RowSet)
    /\ \A i, j \in 1..Len(rows) : i < j => rows[i].id < rows[j].id
    /\ \A i \in 1..Len(rows) : rows[i].id \in (a + 1)..u /\ Key(rows[i].id) = k
    /\ \A n \in (a + 1)..u : Key(n) = k => In(rows, n)

\* The rows split() puts in the group of k.
LEMMA GroupIs ==
  ASSUME InputOK, NEW a \in Nat, NEW u \in Nat, a <= u, u <= Len(input), NEW k, NEW batch,
         DOMAIN batch = 1..(u - a),
         \A i \in 1..(u - a) : a + i \in 1..Len(input) /\ batch[i] = RowAt(a + i),
         NEW ids, ids = InOrder({i \in DOMAIN batch : PartitionOf(table, batch[i]) = k})
  PROVE  GroupOf([j \in DOMAIN ids |-> batch[ids[j]]], k, a, u)
<1> DEFINE S == {i \in DOMAIN batch : PartitionOf(table, batch[i]) = k}
           c == Cardinality(S)
           rows == [j \in DOMAIN ids |-> batch[ids[j]]]
<1>1. IsFiniteSet(S) /\ S \subseteq Int
  <2>1. IsFiniteSet(1..(u - a))
    BY FS_Interval
  <2>2. QED
    BY <2>1, FS_Subset
<1>2. \A i \in S : i \in 1..(u - a) /\ Key(a + i) = k
  BY DEF Key
<1>3. \A i \in 1..(u - a) : Key(a + i) = k => i \in S
  BY DEF Key
<1> HIDE DEF S
<1>4. /\ c \in Nat /\ ids \in [1..c -> S]
      /\ \A x \in S : \E i \in 1..c : ids[i] = x
      /\ \A i, j \in 1..c : i < j => ids[i] < ids[j]
  BY <1>1, InOrderIs DEF Enumerates, Ascends, S
<1>5. ASSUME NEW j \in 1..c
      PROVE  ids[j] \in 1..(u - a) /\ rows[j] = RowAt(a + ids[j]) /\ rows[j] \in RowSet
  <2>1. ids[j] \in 1..(u - a) /\ j \in DOMAIN ids
    BY <1>2, <1>4
  <2>2. rows[j] = RowAt(a + ids[j]) /\ a + ids[j] \in 1..Len(input)
    BY <2>1
  <2>3. QED
    BY <2>1, <2>2 DEF RowSet
<1>7. DOMAIN rows = 1..c
  BY <1>4
<1> HIDE DEF rows, c
<1>6. ASSUME NEW j \in 1..c
      PROVE  rows[j].id = a + ids[j] /\ Key(a + ids[j]) = k /\ ids[j] \in Int
  <2>1. ids[j] \in S
    BY <1>4
  <2>2. Key(a + ids[j]) = k
    BY <1>2, <2>1
  <2>3. rows[j] = RowAt(a + ids[j]) /\ ids[j] \in 1..(u - a)
    BY <1>5
  <2>4. RowAt(a + ids[j]).id = a + ids[j]
    BY DEF RowAt
  <2>5. QED
    BY <2>2, <2>3, <2>4
<1>8. rows \in Seq(RowSet) /\ Len(rows) = c
  <2>1. rows \in [1..c -> RowSet]
    BY <1>5, <1>7 DEF rows
  <2>2. QED
    BY <1>4, <2>1, FunctionIsSeq
<1>9. ASSUME NEW i \in 1..c, NEW j \in 1..c, i < j PROVE rows[i].id < rows[j].id
  <2>1. ids[i] < ids[j] /\ ids[i] \in Int /\ ids[j] \in Int
    BY <1>4, <1>6, <1>9
  <2>2. rows[i].id = a + ids[i] /\ rows[j].id = a + ids[j]
    BY <1>6
  <2>3. QED
    BY <2>1, <2>2
<1>10. \A i \in 1..c : rows[i].id \in (a + 1)..u /\ Key(rows[i].id) = k
  BY <1>5, <1>6
<1>11. ASSUME NEW n \in (a + 1)..u, Key(n) = k PROVE In(rows, n)
  <2> DEFINE i == n - a
  <2>1. i \in 1..(u - a) /\ a + i = n
    OBVIOUS
  <2> HIDE DEF i
  <2>2. i \in S
    BY <1>3, <1>11, <2>1
  <2>3. PICK j \in 1..c : ids[j] = i
    BY <1>4, <2>2
  <2>4. rows[j].id = n
    BY <1>6, <2>1, <2>3
  <2>5. QED
    BY <1>8, <2>4 DEF In
<1>12. QED
  BY <1>8, <1>9, <1>10, <1>11 DEF GroupOf, rows

\* split(): one group for each partition of the batch.
LEMMA SplitIs ==
  ASSUME InputOK, NEW a \in Nat, NEW u \in Nat, a <= u, u <= Len(input), NEW groups,
         groups = Split(table, Numbered(SubSeq(input, a + 1, u), a))
  PROVE  /\ \A g \in groups : GroupOf(g.rows, g.key, a, u) /\ g.rows # <<>>
         /\ \A g, h \in groups : g.key = h.key => g = h
         /\ \A n \in (a + 1)..u : \E g \in groups : g.key = Key(n)
<1> DEFINE batch == Numbered(SubSeq(input, a + 1, u), a)
           keys == {PartitionOf(table, batch[i]) : i \in DOMAIN batch}
           ids(k) == InOrder({i \in DOMAIN batch : PartitionOf(table, batch[i]) = k})
           rows(k) == [j \in DOMAIN ids(k) |-> batch[ids(k)[j]]]
<1>1. groups = {[key |-> k, rows |-> rows(k)] : k \in keys}
  BY DEF Split
<1>2. /\ DOMAIN batch = 1..(u - a)
      /\ \A i \in 1..(u - a) : a + i \in 1..Len(input) /\ batch[i] = RowAt(a + i)
  BY BatchIs
<1> HIDE DEF batch
<1>3. ASSUME NEW k PROVE GroupOf(rows(k), k, a, u)
  BY <1>2, GroupIs
<1>4. ASSUME NEW k \in keys PROVE \E n \in (a + 1)..u : Key(n) = k
  <2>1. PICK i \in 1..(u - a) : PartitionOf(table, batch[i]) = k
    BY <1>2
  <2>2. a + i \in (a + 1)..u /\ Key(a + i) = k
    BY <1>2, <2>1 DEF Key
  <2>3. QED
    BY <2>2
<1>5. ASSUME NEW n \in (a + 1)..u PROVE Key(n) \in keys
  <2> DEFINE i == n - a
  <2>1. i \in 1..(u - a) /\ a + i = n
    OBVIOUS
  <2> HIDE DEF i
  <2>2. batch[i] = RowAt(n) /\ i \in DOMAIN batch
    BY <1>2, <2>1
  <2>3. QED
    BY <2>2 DEF Key
<1> HIDE DEF rows, keys
<1>6. ASSUME NEW g \in groups PROVE GroupOf(g.rows, g.key, a, u) /\ g.rows # <<>>
  <2>1. PICK k \in keys : g = [key |-> k, rows |-> rows(k)]
    BY <1>1
  <2>2. GroupOf(g.rows, g.key, a, u) /\ g.key \in keys
    BY <1>3, <2>1
  <2>3. PICK n \in (a + 1)..u : Key(n) = g.key
    BY <1>4, <2>2
  <2>4. In(g.rows, n)
    BY <2>2, <2>3 DEF GroupOf
  <2>5. Len(g.rows) # 0
    BY <2>4 DEF In
  <2>6. QED
    BY <2>2, <2>5
<1>7. \A g, h \in groups : g.key = h.key => g = h
  BY <1>1
<1>8. ASSUME NEW n \in (a + 1)..u PROVE \E g \in groups : g.key = Key(n)
  <2> DEFINE g == [key |-> Key(n), rows |-> rows(Key(n))]
  <2>1. g \in groups
    BY <1>1, <1>5
  <2>2. g.key = Key(n)
    OBVIOUS
  <2> HIDE DEF g
  <2>3. QED
    BY <2>1, <2>2
<1>9. QED
  BY <1>6, <1>7, <1>8

-----------------------------------------------------------------------------
(* Where a row that was taken can be: in a group still to be written, in a *)
(* file of an open writer, or in a data file.                              *)
InPending(n) == \E g \in pending : In(g.rows, n)
InWriters(n) == \E k \in DOMAIN writers : InFiles(writers[k], n)

GroupsOK ==
    /\ \A g \in pending : Run(g.rows, g.key)
    /\ \A g, h \in pending : g.key = h.key => g = h
    /\ \A g \in pending : g.key \in DOMAIN writers => Before(writers[g.key], g.rows)
    /\ \A n : ~(InPending(n) /\ InOut(output, n))

WritersOK ==
    /\ IsFiniteSet(DOMAIN writers)
    /\ \A k \in DOMAIN writers : FilesOK(writers[k], k)
    /\ OutOK(output)
    /\ \A n : ~(InWriters(n) /\ InOut(output, n))
    /\ table.mode = "clustered" => \A j, k \in DOMAIN writers : j = k

NothingLost ==
    phase # "failed" => \A n \in 1..taken : InPending(n) \/ InWriters(n) \/ InOut(output, n)

WriterDone ==
    phase = "written" => pending = {} /\ DOMAIN writers = {} /\ taken = Len(input)

WriterInv ==
    /\ InputOK
    /\ taken \in 0..Len(input)
    /\ GroupsOK
    /\ WritersOK
    /\ NothingLost
    /\ WriterDone

\* What the writers hold depends on the table, the input and the rows taken.
LEMMA SameRuns ==
  ASSUME UNCHANGED <<tid, input>>
  PROVE  /\ InputOK' <=> InputOK
         /\ RowSet' = RowSet /\ \A n : Key(n)' = Key(n)
         /\ \A rows, k : UNCHANGED taken => (Run(rows, k)' <=> Run(rows, k))
         /\ \A fs, k : UNCHANGED taken => (FilesOK(fs, k)' <=> FilesOK(fs, k))
         /\ \A o : UNCHANGED taken => (OutOK(o)' <=> OutOK(o))
<1>1. RowSet' = RowSet /\ \A n : Key(n)' = Key(n)
  BY DEF RowSet, RowAt, Key, table
<1>2. InputOK' <=> InputOK
  BY DEF InputOK, table
<1>3. ASSUME NEW rows, NEW k, UNCHANGED taken PROVE Run(rows, k)' <=> Run(rows, k)
  BY <1>1, <1>3 DEF Run
<1>4. ASSUME NEW fs, NEW k, UNCHANGED taken PROVE FilesOK(fs, k)' <=> FilesOK(fs, k)
  BY <1>1, <1>3, <1>4 DEF FilesOK
<1>5. DataFiles' = DataFiles
  BY <1>1 DEF DataFiles
<1>6. ASSUME NEW o, UNCHANGED taken PROVE OutOK(o)' <=> OutOK(o)
  BY <1>1, <1>3, <1>5, <1>6 DEF OutOK
<1>7. QED
  BY <1>1, <1>2, <1>3, <1>4, <1>6

\* Files and data files stay as they are when more of the input is taken.
LEMMA FilesKept ==
  ASSUME UNCHANGED <<tid, input>>, taken \in Nat, taken' \in Nat, taken <= taken'
  PROVE  /\ \A fs, k : FilesOK(fs, k) => FilesOK(fs, k)'
         /\ \A o : OutOK(o) => OutOK(o)'
<1>1. RowSet' = RowSet /\ DataFiles' = DataFiles
  BY SameRuns DEF DataFiles
<1>2. \A rows, k : Run(rows, k) => Run(rows, k)'
  BY RunKept
<1>3. ASSUME NEW fs, NEW k, FilesOK(fs, k) PROVE FilesOK(fs, k)'
  BY <1>1, <1>2, <1>3 DEF FilesOK
<1>4. ASSUME NEW o, OutOK(o) PROVE OutOK(o)'
  BY <1>1, <1>2, <1>4 DEF OutOK
<1>5. QED
  BY <1>3, <1>4

\* The ids in files and data files are of rows already taken.
LEMMA TakenIds ==
  ASSUME Len(input) \in Nat
  PROVE  /\ \A fs, k, n : FilesOK(fs, k) /\ InFiles(fs, n)
                              => n \in 1..taken /\ n \in 1..Len(input) /\ Key(n) = k
         /\ \A o, n : OutOK(o) /\ InOut(o, n) => n \in 1..taken /\ n \in 1..Len(input)
<1>1. ASSUME NEW fs, NEW k, NEW n, FilesOK(fs, k), InFiles(fs, n)
      PROVE  n \in 1..taken /\ n \in 1..Len(input) /\ Key(n) = k
  <2>1. PICK f \in 1..Len(fs) : In(fs[f], n)
    BY <1>1 DEF InFiles
  <2>2. Run(fs[f], k)
    BY <1>1 DEF FilesOK
  <2>3. QED
    BY <2>1, <2>2, RunFacts
<1>2. ASSUME NEW o, NEW n, OutOK(o), InOut(o, n) PROVE n \in 1..taken /\ n \in 1..Len(input)
  <2>1. PICK f \in 1..Len(o) : In(o[f].rows, n)
    BY <1>2 DEF InOut
  <2>2. Run(o[f].rows, o[f].partition)
    BY <1>2 DEF OutOK
  <2>3. QED
    BY <2>1, <2>2, RunFacts
<1>3. QED
  BY <1>1, <1>2

\* The batch that is taken next ends at most BatchSize rows further on.
LEMMA NextBatch ==
  ASSUME WriterInv, taken < Len(input), NEW u, u = Shorter(taken + BatchSize, Len(input))
  PROVE  /\ taken \in Nat /\ u \in Nat /\ taken < u /\ u <= Len(input) /\ u <= taken + BatchSize
         /\ u < Len(input) => u = taken + BatchSize
<1>1. Len(input) \in Nat /\ taken \in Nat /\ BatchSize \in Nat \ {0}
  BY InputFacts, SizesAssumption DEF WriterInv
<1>2. QED
  BY <1>1 DEF Shorter

\* TakeBatch keeps the invariant: the new rows are in no file yet.
LEMMA TakeBatchKeeps ==
  ASSUME WriterInv, TakeBatch
  PROVE  WriterInv'
<1> DEFINE u == Shorter(taken + BatchSize, Len(input))
<1>1. /\ phase = "write" /\ pending = {} /\ taken < Len(input)
      /\ pending' = Split(table, Numbered(SubSeq(input, taken + 1, u), taken)) /\ taken' = u
      /\ UNCHANGED <<tid, input, writers, closed, output, phase>>
  BY DEF TakeBatch
<1>2. taken \in Nat /\ u \in Nat /\ taken <= u /\ u <= Len(input) /\ Len(input) \in Nat
  <2>1. taken \in Nat /\ u \in Nat /\ taken < u /\ u <= Len(input)
    BY <1>1, NextBatch
  <2>2. QED
    BY <2>1, InputFacts DEF WriterInv
<1>3. InputOK /\ InputOK' /\ taken' \in 0..Len(input')
  BY <1>1, <1>2, SameRuns DEF WriterInv
<1> HIDE DEF u
<1>4. /\ \A g \in pending' : GroupOf(g.rows, g.key, taken, u) /\ g.rows # <<>>
      /\ \A g, h \in pending' : g.key = h.key => g = h
      /\ \A n \in (taken + 1)..u : \E g \in pending' : g.key = Key(n)
  BY <1>1, <1>2, <1>3, SplitIs
<1>5. RowSet' = RowSet /\ \A n : Key(n)' = Key(n)
  BY <1>1, SameRuns
<1>6. ASSUME NEW g \in pending' PROVE Run(g.rows, g.key)'
  <2>1. GroupOf(g.rows, g.key, taken, u) /\ g.rows # <<>>
    BY <1>4
  <2>2. \A n \in (taken + 1)..u : n \in 1..taken'
    BY <1>1, <1>2
  <2>3. QED
    BY <1>5, <2>1, <2>2 DEF GroupOf, Run
<1>7. ASSUME NEW g \in pending', NEW n, In(g.rows, n) PROVE n \in (taken + 1)..u
  <2>1. GroupOf(g.rows, g.key, taken, u)
    BY <1>4
  <2>2. QED
    BY <1>7, <2>1 DEF GroupOf, In
<1>8. \A k \in DOMAIN writers : FilesOK(writers[k], k)
  BY DEF WriterInv, WritersOK
<1>9. \A n : InWriters(n) \/ InOut(output, n) => n \in 1..taken
  <2>1. OutOK(output)
    BY DEF WriterInv, WritersOK
  <2>2. QED
    BY <1>2, <1>8, <2>1, TakenIds DEF InWriters
<1>10. GroupsOK'
  <2>1. ASSUME NEW g \in pending', g.key \in DOMAIN writers
        PROVE  Before(writers[g.key], g.rows)
    <3>1. \A n : InFiles(writers[g.key], n) => n \in 1..taken
      BY <1>9, <2>1 DEF InWriters
    <3>2. ASSUME NEW n, NEW m, InFiles(writers[g.key], n), In(g.rows, m) PROVE n < m
      <4>1. n \in 1..taken /\ m \in (taken + 1)..u
        BY <1>7, <3>1, <3>2
      <4>2. QED
        BY <1>2, <4>1
    <3>3. QED
      BY <3>2 DEF Before
  <2>2. ASSUME NEW n, NEW g \in pending', In(g.rows, n), InOut(output, n) PROVE FALSE
    <3>1. n \in (taken + 1)..u /\ n \in 1..taken
      BY <1>7, <1>9, <2>2
    <3>2. QED
      BY <1>2, <3>1
  <2>3. QED
    BY <1>1, <1>4, <1>6, <2>1, <2>2 DEF GroupsOK, InPending
<1>11. WritersOK'
  <2>1. (\A k \in DOMAIN writers : FilesOK(writers[k], k)') /\ OutOK(output)'
    BY <1>1, <1>2, <1>8, FilesKept DEF WriterInv, WritersOK
  <2>2. table' = table
    BY <1>1 DEF table
  <2>3. \A k \in DOMAIN writers' : FilesOK(writers[k], k)'
    BY <1>1, <2>1
  <2>4. QED
    BY <1>1, <2>1, <2>2, <2>3 DEF WriterInv, WritersOK, InWriters
<1>12. NothingLost'
  <2> SUFFICES ASSUME NEW n \in 1..taken' PROVE (InPending(n) \/ InWriters(n) \/ InOut(output, n))'
    BY DEF NothingLost
  <2>1. CASE n \in 1..taken
    <3>1. InWriters(n) \/ InOut(output, n)
      BY <1>1, <2>1 DEF WriterInv, NothingLost, InPending
    <3>2. QED
      BY <1>1, <3>1 DEF InWriters
  <2>2. CASE n \in (taken + 1)..u
    <3>1. PICK g \in pending' : g.key = Key(n)
      BY <1>4, <2>2
    <3>2. In(g.rows, n)
      BY <1>4, <2>2, <3>1 DEF GroupOf
    <3>3. QED
      BY <3>2 DEF InPending
  <2>3. QED
    BY <1>1, <1>2, <2>1, <2>2
<1>13. QED
  BY <1>1, <1>3, <1>10, <1>11, <1>12 DEF WriterInv, WriterDone

\* The files of a partition after one of its groups is written.
LEMMA GroupWritten ==
  ASSUME WriterInv, NEW g \in pending, NEW roll
  PROVE  /\ FilesOK(Appended(FilesOf(g.key), g.rows, roll), g.key)
         /\ \A n : InFiles(Appended(FilesOf(g.key), g.rows, roll), n)
                       <=> In(g.rows, n) \/ (g.key \in DOMAIN writers /\ InFiles(writers[g.key], n))
<1> DEFINE fs == FilesOf(g.key)
<1>1. Run(g.rows, g.key) /\ Len(input) \in Nat
  BY InputFacts DEF WriterInv, GroupsOK
<1>2. ASSUME NEW n PROVE ~InFiles(<<>>, n)
  <2>1. Len(<<>>) = 0
    BY EmptySeq
  <2>2. QED
    BY <2>1 DEF InFiles
<1>3. CASE g.key \in DOMAIN writers
  <2>1. fs = writers[g.key]
    BY <1>3 DEF FilesOf
  <2>2. FilesOK(fs, g.key) /\ Before(fs, g.rows)
    BY <1>3, <2>1 DEF WriterInv, WritersOK, GroupsOK
  <2> HIDE DEF fs
  <2>3. /\ FilesOK(Appended(fs, g.rows, roll), g.key)
        /\ \A n : InFiles(Appended(fs, g.rows, roll), n) <=> InFiles(fs, n) \/ In(g.rows, n)
    BY <1>1, <2>2, AppendedIs
  <2>4. QED
    BY <1>3, <2>1, <2>3 DEF fs
<1>4. CASE g.key \notin DOMAIN writers
  <2>1. fs = <<>>
    BY <1>4 DEF FilesOf
  <2>2. Before(fs, g.rows)
    BY <1>2, <2>1 DEF Before
  <2> HIDE DEF fs
  <2>3. /\ FilesOK(Appended(fs, g.rows, roll), g.key)
        /\ \A n : InFiles(Appended(fs, g.rows, roll), n) <=> InFiles(fs, n) \/ In(g.rows, n)
    BY <1>1, <2>1, <2>2, AppendedIs
  <2>4. QED
    BY <1>2, <1>4, <2>1, <2>3 DEF fs
<1>5. QED
  BY <1>3, <1>4

\* A row of a group to be written is in no open writer.
LEMMA PendingApart ==
  ASSUME WriterInv, NEW n, InPending(n)
  PROVE  ~InWriters(n)
<1> SUFFICES ASSUME InWriters(n) PROVE FALSE
  OBVIOUS
<1>1. PICK g \in pending : In(g.rows, n)
  BY DEF InPending
<1>2. PICK k \in DOMAIN writers : InFiles(writers[k], n)
  BY DEF InWriters
<1>3. Len(input) \in Nat /\ Run(g.rows, g.key) /\ FilesOK(writers[k], k)
  BY InputFacts DEF WriterInv, GroupsOK, WritersOK
<1>4. Key(n) = k /\ Key(n) = g.key /\ n \in 1..Len(input)
  BY <1>1, <1>2, <1>3, TakenIds, RunFacts
<1>5. Before(writers[k], g.rows)
  BY <1>4 DEF WriterInv, GroupsOK
<1>6. n < n
  BY <1>1, <1>2, <1>5 DEF Before
<1>7. QED
  BY <1>3, <1>4, <1>6

\* Writing a group leaves the other groups as they were.
LEMMA OtherGroups ==
  ASSUME WriterInv, NEW g \in pending, pending' = pending \ {g}, UNCHANGED <<tid, input, taken>>,
         \A k \in DOMAIN writers' : k = g.key \/ (k \in DOMAIN writers /\ writers'[k] = writers[k]),
         \A n : InOut(output', n) => InOut(output, n) \/ InWriters(n)
  PROVE  GroupsOK'
<1>1. \A h \in pending' : h \in pending /\ h.key # g.key
  BY DEF WriterInv, GroupsOK
<1>2. \A h \in pending' : Run(h.rows, h.key)'
  BY <1>1, SameRuns DEF WriterInv, GroupsOK
<1>3. \A h, i \in pending' : h.key = i.key => h = i
  BY <1>1 DEF WriterInv, GroupsOK
<1>4. ASSUME NEW h \in pending', h.key \in DOMAIN writers' PROVE Before(writers'[h.key], h.rows)
  <2>1. h \in pending /\ h.key # g.key
    BY <1>1
  <2>2. h.key \in DOMAIN writers /\ writers'[h.key] = writers[h.key]
    BY <1>4, <2>1
  <2>3. QED
    BY <2>1, <2>2 DEF WriterInv, GroupsOK
<1>5. ASSUME NEW n, InPending(n)' PROVE ~InOut(output', n)
  <2>1. InPending(n)
    BY <1>1, <1>5 DEF InPending
  <2>2. ~InWriters(n) /\ ~InOut(output, n)
    BY <2>1, PendingApart DEF WriterInv, GroupsOK
  <2>3. QED
    BY <2>2
<1>6. QED
  BY <1>2, <1>3, <1>4, <1>5 DEF GroupsOK

\* The fanout and the unpartitioned writer keep the invariant.
LEMMA FanoutKeeps ==
  ASSUME WriterInv, NEW g \in pending, NEW roll, phase = "write", FanoutWrite(g, roll),
         pending' = pending \ {g}, UNCHANGED <<tid, input, taken>>
  PROVE  WriterInv'
<1> DEFINE new == Appended(FilesOf(g.key), g.rows, roll)
<1>1. /\ DOMAIN writers' = DOMAIN writers \cup {g.key}
      /\ writers'[g.key] = new
      /\ \A k \in DOMAIN writers : k # g.key => writers'[k] = writers[k]
      /\ output' = output /\ phase' = phase /\ table.mode # "clustered" /\ table' = table
  BY DEF FanoutWrite, table
<1>2. /\ FilesOK(new, g.key)
      /\ \A n : InFiles(new, n) <=> In(g.rows, n) \/ (g.key \in DOMAIN writers /\ InFiles(writers[g.key], n))
  BY GroupWritten
<1> HIDE DEF new
<1>3. \A n : InWriters(n)' <=> InWriters(n) \/ In(g.rows, n)
  <2>1. ASSUME NEW n, InWriters(n)' PROVE InWriters(n) \/ In(g.rows, n)
    <3>1. PICK k \in DOMAIN writers' : InFiles(writers'[k], n)
      BY <2>1 DEF InWriters
    <3>2. CASE k = g.key
      BY <1>1, <1>2, <3>1, <3>2 DEF InWriters
    <3>3. CASE k # g.key
      BY <1>1, <3>1, <3>3 DEF InWriters
    <3>4. QED
      BY <3>2, <3>3
  <2>2. ASSUME NEW n, In(g.rows, n) PROVE InWriters(n)'
    BY <1>1, <1>2, <2>2 DEF InWriters
  <2>3. ASSUME NEW n, InWriters(n) PROVE InWriters(n)'
    <3>1. PICK k \in DOMAIN writers : InFiles(writers[k], n)
      BY <2>3 DEF InWriters
    <3>2. CASE k = g.key
      BY <1>1, <1>2, <3>1, <3>2 DEF InWriters
    <3>3. CASE k # g.key
      BY <1>1, <3>1, <3>3 DEF InWriters
    <3>4. QED
      BY <3>2, <3>3
  <2>4. QED
    BY <2>1, <2>2, <2>3
<1>4. GroupsOK'
  BY <1>1, OtherGroups
<1>5. WritersOK'
  <2>1. IsFiniteSet(DOMAIN writers')
    BY <1>1, FS_AddElement DEF WriterInv, WritersOK
  <2>2. ASSUME NEW k \in DOMAIN writers' PROVE FilesOK(writers'[k], k)
    BY <1>1, <1>2 DEF WriterInv, WritersOK
  <2>3. \A k \in DOMAIN writers' : FilesOK(writers[k], k)'
    BY <2>2, SameRuns
  <2>4. OutOK(output)'
    BY <1>1, SameRuns DEF WriterInv, WritersOK
  <2>5. ASSUME NEW n PROVE ~(InWriters(n)' /\ InOut(output', n))
    <3>1. In(g.rows, n) => InPending(n)
      BY DEF InPending
    <3>2. QED
      BY <1>1, <1>3, <3>1 DEF WriterInv, WritersOK, GroupsOK
  <2>6. QED
    BY <1>1, <2>1, <2>3, <2>4, <2>5 DEF WritersOK
<1>6. NothingLost'
  <2> SUFFICES ASSUME NEW n \in 1..taken PROVE (InPending(n) \/ InWriters(n) \/ InOut(output, n))'
    BY DEF NothingLost
  <2>1. InPending(n) \/ InWriters(n) \/ InOut(output, n)
    BY DEF WriterInv, NothingLost
  <2>2. InPending(n) => InPending(n)' \/ In(g.rows, n)
    BY DEF InPending
  <2>3. QED
    BY <1>1, <1>3, <2>1, <2>2
<1>7. QED
  BY <1>1, <1>4, <1>5, <1>6, SameRuns DEF WriterInv, WriterDone

\* close_current_writer moves the files of the writer left behind to the output.
LEMMA CurrentClosed ==
  ASSUME WriterInv, table.mode = "clustered", NEW k0, CloseCurrent(k0)
  PROVE  /\ OutOK(output')
         /\ \A n : InOut(output', n) <=>
                       InOut(output, n) \/ \E k \in DOMAIN writers \ {k0} : InFiles(writers[k], n)
<1>1. OutOK(output) /\ \A j, k \in DOMAIN writers : j = k
  BY DEF WriterInv, WritersOK
<1>2. CASE DOMAIN writers \subseteq {k0}
  BY <1>1, <1>2 DEF CloseCurrent
<1>3. CASE ~(DOMAIN writers \subseteq {k0})
  <2> DEFINE old == CHOOSE o \in DOMAIN writers : TRUE
  <2>1. PICK x \in DOMAIN writers : x # k0
    BY <1>3
  <2>2. old \in DOMAIN writers /\ output' = output \o Closed(old, writers[old])
    BY <1>3, <2>1 DEF CloseCurrent
  <2> HIDE DEF old
  <2>3. DOMAIN writers \ {k0} = {old}
    BY <1>1, <2>1, <2>2
  <2>4. FilesOK(writers[old], old) /\ Len(input) \in Nat
    BY <2>2, InputFacts DEF WriterInv, WritersOK
  <2>5. /\ OutOK(Closed(old, writers[old]))
        /\ \A n : InOut(Closed(old, writers[old]), n) <=> InFiles(writers[old], n)
    BY <2>4, ClosedIs
  <2>6. \A n : ~(InOut(output, n) /\ InOut(Closed(old, writers[old]), n))
    BY <2>2, <2>5 DEF WriterInv, WritersOK, InWriters
  <2>7. /\ OutOK(output')
        /\ \A n : InOut(output', n) <=> InOut(output, n) \/ InOut(Closed(old, writers[old]), n)
    BY <1>1, <2>2, <2>5, <2>6, OutConcat
  <2>8. QED
    BY <2>3, <2>5, <2>7
<1>4. QED
  BY <1>2, <1>3

\* The clustered writer keeps the invariant, when it takes the group ...
LEMMA ClusteredKeeps ==
  ASSUME WriterInv, NEW g \in pending, NEW roll, table.mode = "clustered", CloseCurrent(g.key),
         writers' = [k \in {g.key} |-> Appended(FilesOf(k), g.rows, roll)], UNCHANGED phase,
         phase = "write", pending' = pending \ {g}, UNCHANGED <<tid, input, taken>>
  PROVE  WriterInv'
<1> DEFINE new == Appended(FilesOf(g.key), g.rows, roll)
<1>1. DOMAIN writers' = {g.key} /\ writers'[g.key] = new
  OBVIOUS
<1>2. /\ FilesOK(new, g.key)
      /\ \A n : InFiles(new, n) <=> In(g.rows, n) \/ (g.key \in DOMAIN writers /\ InFiles(writers[g.key], n))
  BY GroupWritten
<1>3. /\ OutOK(output')
      /\ \A n : InOut(output', n) <=>
                    InOut(output, n) \/ \E k \in DOMAIN writers \ {g.key} : InFiles(writers[k], n)
  BY CurrentClosed
<1> HIDE DEF new
<1>4. \A n : InWriters(n)' <=> InFiles(new, n)
  BY <1>1 DEF InWriters
<1>5. \A n : InOut(output', n) => InOut(output, n) \/ InWriters(n)
  BY <1>3 DEF InWriters
<1>6. GroupsOK'
  BY <1>1, <1>5, OtherGroups
<1>7. WritersOK'
  <2>1. IsFiniteSet(DOMAIN writers')
    BY <1>1, FS_Singleton
  <2>2. \A k \in DOMAIN writers' : FilesOK(writers'[k], k)
    BY <1>1, <1>2
  <2>3. \A k \in DOMAIN writers' : FilesOK(writers[k], k)'
    BY <2>2, SameRuns
  <2>4. OutOK(output)'
    BY <1>3, SameRuns
  <2>5. ASSUME NEW n, InFiles(new, n), InOut(output', n) PROVE FALSE
    <3>1. CASE In(g.rows, n)
      <4>1. InPending(n)
        BY <3>1 DEF InPending
      <4>2. QED
        BY <1>5, <2>5, <4>1, PendingApart DEF WriterInv, GroupsOK
    <3>2. CASE g.key \in DOMAIN writers /\ InFiles(writers[g.key], n)
      <4>1. ~InOut(output, n)
        BY <3>2 DEF WriterInv, WritersOK, InWriters
      <4>2. PICK k \in DOMAIN writers : k # g.key /\ InFiles(writers[k], n)
        BY <1>3, <2>5, <4>1
      <4>3. k = g.key
        BY <3>2 DEF WriterInv, WritersOK
      <4>4. QED
        BY <4>2, <4>3
    <3>3. QED
      BY <1>2, <2>5, <3>1, <3>2
  <2>6. QED
    BY <1>1, <1>4, <2>1, <2>3, <2>4, <2>5 DEF WritersOK
<1>8. NothingLost'
  <2> SUFFICES ASSUME NEW n \in 1..taken PROVE (InPending(n) \/ InWriters(n) \/ InOut(output, n))'
    BY DEF NothingLost
  <2>1. InPending(n) \/ InWriters(n) \/ InOut(output, n)
    BY DEF WriterInv, NothingLost
  <2>2. InPending(n) => InPending(n)' \/ In(g.rows, n)
    BY DEF InPending
  <2>3. InWriters(n) => InFiles(new, n) \/ InOut(output', n)
    BY <1>2, <1>3 DEF InWriters
  <2>4. QED
    BY <1>2, <1>3, <1>4, <2>1, <2>2, <2>3
<1>9. QED
  BY <1>6, <1>7, <1>8, SameRuns DEF WriterInv, WriterDone

\* ... and when it refuses it.
LEMMA RefusedKeeps ==
  ASSUME WriterInv, NEW g \in pending, phase' = "failed", UNCHANGED <<writers, closed, output>>,
         pending' = pending \ {g}, UNCHANGED <<tid, input, taken>>
  PROVE  WriterInv'
<1>1. GroupsOK'
  BY OtherGroups
<1>2. WritersOK'
  <2>1. (\A k \in DOMAIN writers' : FilesOK(writers[k], k)') /\ OutOK(output)' /\ table' = table
    BY SameRuns DEF WriterInv, WritersOK, table
  <2>2. QED
    BY <2>1 DEF WriterInv, WritersOK, InWriters
<1>3. QED
  BY <1>1, <1>2, SameRuns DEF WriterInv, NothingLost, WriterDone

\* One turn of write_partitioned_batches keeps the invariant.
LEMMA WriteGroupKeeps ==
  ASSUME WriterInv, NEW g \in pending, NEW roll \in BOOLEAN, WriteGroup(g, roll)
  PROVE  WriterInv'
<1>1. phase = "write" /\ pending' = pending \ {g} /\ UNCHANGED <<tid, input, taken>>
  BY DEF WriteGroup
<1>2. CASE FanoutWrite(g, roll)
  BY <1>1, <1>2, FanoutKeeps
<1>3. CASE ClusteredWrite(g, roll)
  <2>1. CASE g.key \in closed
    BY <1>1, <1>3, <2>1, RefusedKeeps DEF ClusteredWrite
  <2>2. CASE g.key \notin closed
    BY <1>1, <1>3, <2>2, ClusteredKeeps DEF ClusteredWrite
  <2>3. QED
    BY <2>1, <2>2
<1>4. QED
  BY <1>2, <1>3 DEF WriteGroup

\* TaskWriter::close keeps the invariant.
LEMMA CloseWriterKeeps ==
  ASSUME WriterInv, CloseWriter
  PROVE  WriterInv'
<1> DEFINE order == SetToSeq(DOMAIN writers)
           s == [i \in DOMAIN order |-> Closed(order[i], writers[order[i]])]
<1>1. /\ phase = "write" /\ pending = {} /\ taken = Len(input)
      /\ output' = output \o FlattenSeq(s) /\ writers' = [k \in {} |-> <<>>] /\ phase' = "written"
      /\ UNCHANGED <<tid, input, taken, pending, closed>>
  BY DEF CloseWriter
<1>2. /\ Len(input) \in Nat /\ IsFiniteSet(DOMAIN writers)
      /\ \A k \in DOMAIN writers : FilesOK(writers[k], k)
  BY InputFacts DEF WriterInv, WritersOK
<1>3. Enumerates(order, DOMAIN writers)
  BY <1>2, SetToSeqIs
<1>4. /\ OutOK(FlattenSeq(s))
      /\ \A n : InOut(FlattenSeq(s), n) <=> InWriters(n)
  <2> HIDE DEF order
  <2>1. /\ OutOK(FlattenSeq(s))
        /\ \A n : InOut(FlattenSeq(s), n) <=> \E k \in DOMAIN writers : InFiles(writers[k], n)
    BY <1>2, <1>3, CloseAllIs
  <2>2. QED
    BY <2>1 DEF InWriters
<1> HIDE DEF s
<1>5. /\ OutOK(output')
      /\ \A n : InOut(output', n) <=> InOut(output, n) \/ InWriters(n)
  <2>1. OutOK(output) /\ \A n : ~(InOut(output, n) /\ InOut(FlattenSeq(s), n))
    BY <1>4 DEF WriterInv, WritersOK
  <2>2. /\ OutOK(output')
        /\ \A n : InOut(output', n) <=> InOut(output, n) \/ InOut(FlattenSeq(s), n)
    BY <1>1, <1>4, <2>1, OutConcat
  <2>3. QED
    BY <1>4, <2>2
<1>6. DOMAIN writers' = {} /\ pending' = {}
  BY <1>1
<1>7. GroupsOK'
  BY <1>6 DEF GroupsOK, InPending
<1>8. WritersOK'
  <2>1. OutOK(output)'
    BY <1>1, <1>5, SameRuns
  <2>2. QED
    BY <1>6, <2>1, FS_EmptySet DEF WritersOK, InWriters
<1>9. NothingLost'
  BY <1>1, <1>5 DEF NothingLost, WriterInv, InPending
<1>10. QED
  BY <1>1, <1>6, <1>7, <1>8, <1>9, SameRuns DEF WriterInv, WriterDone

\* The writer's initial state.
LEMMA WriterInitOK ==
  ASSUME WriterInit
  PROVE  WriterInv
<1>1. InputOK /\ taken = 0 /\ pending = {} /\ DOMAIN writers = {} /\ output = <<>> /\ phase = "write"
  BY DEF WriterInit, InputOK
<1>2. Len(input) \in Nat
  BY <1>1, InputFacts
<1>3. Len(output) = 0 /\ output \in Seq(DataFiles)
  BY <1>1, EmptySeq
<1>4. GroupsOK
  BY <1>1 DEF GroupsOK, InPending
<1>5. WritersOK
  BY <1>1, <1>3, FS_EmptySet DEF WritersOK, OutOK, InWriters
<1>6. NothingLost
  BY <1>1 DEF NothingLost
<1>7. QED
  BY <1>1, <1>2, <1>4, <1>5, <1>6 DEF WriterInv, WriterDone

\* What does not touch the writer's variables keeps its invariant.
LEMMA WriterUnchanged ==
  ASSUME WriterInv, UNCHANGED writerVars
  PROVE  WriterInv'
<1>1. UNCHANGED <<tid, input, taken>> /\ UNCHANGED <<pending, writers, output, phase>>
  BY DEF writerVars
<1>2. table' = table /\ InputOK'
  BY <1>1, SameRuns DEF table, WriterInv
<1>3. GroupsOK'
  <2>1. \A g \in pending' : Run(g.rows, g.key)'
    BY <1>1, SameRuns DEF WriterInv, GroupsOK
  <2>2. QED
    BY <1>1, <2>1 DEF WriterInv, GroupsOK, InPending
<1>4. WritersOK'
  <2>1. (\A k \in DOMAIN writers' : FilesOK(writers[k], k)') /\ OutOK(output)'
    BY <1>1, SameRuns DEF WriterInv, WritersOK
  <2>2. QED
    BY <1>1, <1>2, <2>1 DEF WriterInv, WritersOK, InWriters
<1>5. NothingLost' /\ WriterDone'
  BY <1>1 DEF WriterInv, NothingLost, WriterDone, InPending, InWriters
<1>6. QED
  BY <1>1, <1>2, <1>3, <1>4, <1>5 DEF WriterInv

\* The steps of the reader leave the writer alone.
LEMMA ReaderSteps ==
  ASSUME [Next]_vars
  PROVE  \/ Write
         \/ UNCHANGED writerVars
BY DEF Next, vars, writerVars, ChooseQuery, PlanFile, SelectRowGroups, WalkDeletes, ReadRows

\* Every step keeps the writer's invariant.
LEMMA WriterStep ==
  ASSUME WriterInv, [Next]_vars
  PROVE  WriterInv'
<1>1. CASE Write
  <2>1. CASE TakeBatch
    BY <2>1, TakeBatchKeeps
  <2>2. CASE \E g \in pending, roll \in BOOLEAN : WriteGroup(g, roll)
    BY <2>2, WriteGroupKeeps
  <2>3. CASE CloseWriter
    BY <2>3, CloseWriterKeeps
  <2>4. QED
    BY <1>1, <2>1, <2>2, <2>3 DEF Write, WriterNext
<1>2. CASE UNCHANGED writerVars
  BY <1>2, WriterUnchanged
<1>3. QED
  BY <1>1, <1>2, ReaderSteps

\* The rows of a run are numbered at least by their place in it.
LEMMA RunPlaces ==
  ASSUME NEW rows, NEW k, Run(rows, k), Len(input) \in Nat, NEW i \in 1..Len(rows)
  PROVE  i <= rows[i].id /\ rows[i].id \in 1..Len(input)
<1>1. rows \in Seq(RowSet) /\ Len(rows) \in Nat
  BY DEF Run
<1>2. \A j \in 1..Len(rows) : rows[j].id \in 1..Len(input)
  BY <1>1, RowFacts
<1>3. \A j, l \in 1..Len(rows) : j < l => rows[j].id < rows[l].id
  BY DEF Run
<1> DEFINE Bad == {j \in 1..Len(rows) : rows[j].id < j}
<1>4. ASSUME Bad # {} PROVE FALSE
  <2>1. Bad \subseteq Nat
    BY <1>1
  <2>2. PICK m \in Bad : \A l \in Bad : m <= l
    BY <1>4, <2>1, LeastNat
  <2>3. m \in 1..Len(rows) /\ rows[m].id < m /\ rows[m].id >= 1
    BY <1>2
  <2>4. m - 1 \in 1..Len(rows) /\ m - 1 < m
    BY <1>1, <1>2, <2>3
  <2>5. m - 1 \notin Bad
    BY <2>2, <2>4
  <2>6. rows[m - 1].id < rows[m].id /\ ~(rows[m - 1].id < m - 1)
    BY <1>3, <2>3, <2>4, <2>5
  <2>7. rows[m - 1].id \in Int /\ rows[m].id \in Int
    BY <1>2, <2>3, <2>4
  <2>8. QED
    BY <2>3, <2>4, <2>6, <2>7
<1>5. ~(rows[i].id < i)
  BY <1>4
<1>6. QED
  BY <1>1, <1>2, <1>5

\* A row of the output has one place in it.
LEMMA OnePlace ==
  ASSUME WriterInv, NEW n, InOut(output, n)
  PROVE  Cardinality({p \in (DOMAIN output) \X (1..Len(input)) :
                          /\ p[2] \in DOMAIN output[p[1]].rows
                          /\ output[p[1]].rows[p[2]].id = n}) = 1
<1> DEFINE P == {p \in (DOMAIN output) \X (1..Len(input)) :
                     /\ p[2] \in DOMAIN output[p[1]].rows
                     /\ output[p[1]].rows[p[2]].id = n}
<1>1. OutOK(output) /\ Len(input) \in Nat
  BY InputFacts DEF WriterInv, WritersOK
<1>2. PICK f \in 1..Len(output) : In(output[f].rows, n)
  BY DEF InOut
<1>3. PICK i \in 1..Len(output[f].rows) : output[f].rows[i].id = n
  BY <1>2 DEF In
<1>4. DOMAIN output = 1..Len(output) /\ \A h \in 1..Len(output) : Run(output[h].rows, output[h].partition)
  BY <1>1 DEF OutOK
<1>5. \A h \in 1..Len(output) : DOMAIN output[h].rows = 1..Len(output[h].rows)
                               /\ Len(output[h].rows) \in Nat
  BY <1>4 DEF Run
<1>6. i \in 1..Len(input) /\ n \in Nat
  <2>1. i <= n /\ n \in 1..Len(input)
    BY <1>1, <1>3, <1>4, RunPlaces
  <2>2. QED
    BY <1>1, <1>5, <2>1
<1>7. <<f, i>> \in P
  BY <1>3, <1>4, <1>5, <1>6
<1>8. ASSUME NEW p \in P PROVE p = <<f, i>>
  <2> DEFINE h == p[1]
             j == p[2]
  <2>1. p = <<h, j>> /\ h \in 1..Len(output) /\ j \in 1..Len(output[h].rows)
        /\ output[h].rows[j].id = n
    BY <1>4, <1>5
  <2> HIDE DEF h, j
  <2>2. In(output[h].rows, n)
    BY <2>1 DEF In
  <2>3. h = f
    BY <1>1, <1>2, <2>1, <2>2 DEF OutOK
  <2>4. Run(output[f].rows, output[f].partition)
    BY <1>4
  <2>5. \A x, y \in 1..Len(output[f].rows) : x < y => output[f].rows[x].id < output[f].rows[y].id
    BY <2>4 DEF Run
  <2>6. ~(i < j) /\ ~(j < i)
    BY <1>3, <1>6, <2>1, <2>3, <2>5
  <2>7. i = j
    BY <1>5, <2>1, <2>3, <2>6
  <2>8. QED
    BY <2>1, <2>3, <2>7
<1>9. P = {<<f, i>>}
  BY <1>7, <1>8
<1>10. Cardinality(P) = 1
  BY <1>9, FS_Singleton
<1>11. QED
  BY <1>10

\* The writer's invariant says where every row of the input is.
LEMMA WrittenOnce ==
  ASSUME WriterInv
  PROVE  EachRowOnce
<1> SUFFICES ASSUME phase = "written" PROVE EachRowOnce
  BY DEF EachRowOnce
<1>1. pending = {} /\ DOMAIN writers = {} /\ taken = Len(input) /\ OutOK(output)
  BY DEF WriterInv, WriterDone, WritersOK
<1>2. Len(input) \in Nat /\ DOMAIN input = 1..Len(input)
  BY InputFacts DEF WriterInv
<1>3. \A n \in DOMAIN input : InOut(output, n)
  BY <1>1, <1>2 DEF WriterInv, NothingLost, InPending, InWriters
<1>4. ASSUME NEW f \in DOMAIN output, NEW i \in DOMAIN output[f].rows
      PROVE  /\ output[f].partition = PartitionOf(table, output[f].rows[i])
             /\ input[output[f].rows[i].id].cell = output[f].rows[i].cell
             /\ i > 1 => output[f].rows[i - 1].id < output[f].rows[i].id
  <2> DEFINE rows == output[f].rows
             r == rows[i]
  <2>1. Run(rows, output[f].partition)
    BY <1>1 DEF OutOK
  <2> HIDE DEF rows
  <2>2. rows \in Seq(RowSet) /\ i \in 1..Len(rows)
    BY <2>1 DEF Run, rows
  <2>3. r \in RowSet /\ Key(r.id) = output[f].partition
    BY <2>1, <2>2 DEF Run
  <2>4. r = RowAt(r.id) /\ r.cell = input[r.id].cell
    BY <2>3, RowFacts
  <2>5. i > 1 => i - 1 \in 1..Len(rows) /\ i - 1 < i
    BY <2>2
  <2>6. i > 1 => rows[i - 1].id < rows[i].id
    BY <2>1, <2>2, <2>5 DEF Run
  <2>7. PartitionOf(table, r) = output[f].partition
    BY <2>3, <2>4 DEF Key
  <2>8. QED
    BY <2>4, <2>6, <2>7 DEF rows
<1>5. QED
  BY <1>3, <1>4, OnePlace DEF EachRowOnce

\* Every row of an insert is written once, in a file of its partition and
\* in the order of the input (task_writer.rs, partitioning writers, rolling
\* writer).
THEOREM WritesEachRowOnce == Spec => []EachRowOnce
<1>1. Init => WriterInv
  BY WriterInitOK DEF Init
<1>2. WriterInv /\ [Next]_vars => WriterInv'
  BY WriterStep
<1>3. WriterInv => EachRowOnce
  BY WrittenOnce
<1>4. QED
  BY <1>1, <1>2, <1>3, PTL DEF Spec

-----------------------------------------------------------------------------
\* Division, for a number and a size that are not fixed.
LEMMA DivIs ==
  ASSUME NEW a \in Nat, NEW b \in Nat \ {0}
  PROVE  a \div b \in Nat /\ b * (a \div b) <= a /\ a < b * (a \div b) + b
OBVIOUS

\* Multiplication keeps the order.
LEMMA TimesOrder ==
  ASSUME NEW a \in Nat, NEW b \in Nat, NEW c \in Nat, a <= b
  PROVE  c * a \in Nat /\ c * a <= c * b
OBVIOUS

\* One multiple more.
LEMMA TimesNext ==
  ASSUME NEW a \in Nat, NEW c \in Nat
  PROVE  c * (a + 1) = c * a + c
OBVIOUS

\* Rows on the two sides of a multiple of the size are in different batches.
LEMMA BlocksApart ==
  ASSUME NEW size \in Nat \ {0}, NEW q \in Nat, NEW t, t = size * q,
         NEW n \in Nat, NEW m \in Nat, 1 <= n, n <= t, t < m
  PROVE  (n - 1) \div size # (m - 1) \div size
<1> SUFFICES ASSUME (n - 1) \div size = (m - 1) \div size PROVE FALSE
  OBVIOUS
<1> DEFINE d == (n - 1) \div size
<1>1. d \in Nat /\ size * d <= n - 1 /\ m - 1 < size * d + size
  <2>1. n - 1 \in Nat /\ m - 1 \in Nat
    OBVIOUS
  <2>2. QED
    BY <2>1, DivIs
<1> HIDE DEF d
<1>2. CASE q <= d
  <2>1. size * q <= size * d /\ size * q \in Nat
    BY <1>1, <1>2, TimesOrder
  <2>2. QED
    BY <1>1, <2>1
<1>3. CASE d + 1 <= q
  <2>1. size * (d + 1) <= size * q /\ size * (d + 1) = size * d + size /\ size * (d + 1) \in Nat
    BY <1>1, <1>3, TimesOrder, TimesNext
  <2>2. QED
    BY <1>1, <2>1
<1>4. QED
  BY <1>1, <1>2, <1>3

(* A partition that was given a writer has a row in an earlier batch than  *)
(* any group of it that is still to be written.                            *)
Batch(n) == (n - 1) \div BatchSize

Earlier(n, k) == n \in 1..taken /\ Key(n) = k
                 /\ \A g \in pending : g.key = k => \A m : In(g.rows, m) => Batch(n) # Batch(m)

RefuseInv ==
    /\ taken < Len(input) => \E q \in Nat : taken = BatchSize * q
    /\ \A k \in closed \cup DOMAIN writers : \E n : Earlier(n, k)
    /\ phase = "failed" => \E m, n \in 1..Len(input) : Batch(m) # Batch(n) /\ Key(m) = Key(n)

\* TakeBatch: every row taken before is of an earlier batch.
LEMMA TakeBatchRefuses ==
  ASSUME WriterInv, RefuseInv, TakeBatch
  PROVE  RefuseInv'
<1> DEFINE u == Shorter(taken + BatchSize, Len(input))
<1>1. /\ phase = "write" /\ pending = {} /\ taken < Len(input)
      /\ pending' = Split(table, Numbered(SubSeq(input, taken + 1, u), taken)) /\ taken' = u
      /\ UNCHANGED <<tid, input, writers, closed, output, phase>>
  BY DEF TakeBatch
<1>2. /\ taken \in Nat /\ u \in Nat /\ taken <= u /\ u <= Len(input)
      /\ u < Len(input) => u = taken + BatchSize
  BY <1>1, NextBatch
<1>3. BatchSize \in Nat \ {0} /\ InputOK
  BY SizesAssumption DEF WriterInv
<1> HIDE DEF u
<1>4. PICK q \in Nat : taken = BatchSize * q
  BY <1>1 DEF RefuseInv
<1>5. u < Len(input) => \E r \in Nat : u = BatchSize * r
  <2>1. BatchSize * (q + 1) = BatchSize * q + BatchSize
    BY <1>3, TimesNext
  <2>2. u < Len(input) => u = BatchSize * (q + 1)
    BY <1>2, <1>4, <2>1
  <2>3. q + 1 \in Nat
    OBVIOUS
  <2>4. QED
    BY <2>2, <2>3
<1>6. \A g \in pending' : GroupOf(g.rows, g.key, taken, u)
  BY <1>1, <1>2, <1>3, SplitIs
<1>7. ASSUME NEW k \in closed \cup DOMAIN writers PROVE \E n : Earlier(n, k)'
  <2>1. PICK n : Earlier(n, k)
    BY DEF RefuseInv
  <2>2. n \in 1..taken /\ n \in 1..taken' /\ Key(n)' = k
    BY <1>1, <1>2, <2>1, SameRuns DEF Earlier
  <2>3. ASSUME NEW g \in pending', NEW m, In(g.rows, m) PROVE Batch(n) # Batch(m)
    <3>1. m \in (taken + 1)..u
      BY <1>6, <2>3 DEF GroupOf, In
    <3>2. m \in Nat /\ taken < m /\ n \in Nat /\ 1 <= n /\ n <= taken
      BY <1>2, <2>2, <3>1
    <3>3. QED
      BY <1>3, <1>4, <3>2, BlocksApart DEF Batch
  <2>4. Earlier(n, k)'
    BY <2>2, <2>3 DEF Earlier, Batch
  <2>5. QED
    BY <2>4
<1>8. QED
  BY <1>1, <1>5, <1>7 DEF RefuseInv

\* Writing a group: no other group has its key.
LEMMA WriteGroupRefuses ==
  ASSUME WriterInv, RefuseInv, NEW g \in pending, NEW roll \in BOOLEAN, WriteGroup(g, roll)
  PROVE  RefuseInv'
<1>1. phase = "write" /\ pending' = pending \ {g} /\ UNCHANGED <<tid, input, taken>>
  BY DEF WriteGroup
<1>2. Run(g.rows, g.key) /\ Len(input) \in Nat /\ taken \in 0..Len(input)
  BY InputFacts DEF WriterInv, GroupsOK
<1>3. In(g.rows, g.rows[1].id)
  BY <1>2, RunFacts
<1>4. \A h \in pending' : h \in pending /\ h.key # g.key
  BY <1>1 DEF WriterInv, GroupsOK
<1>5. \A n : Key(n)' = Key(n)
  BY <1>1, SameRuns
<1>6. \E n : Earlier(n, g.key)'
  <2> DEFINE n == g.rows[1].id
  <2>1. n \in 1..taken /\ Key(n) = g.key
    BY <1>2, <1>3, RunFacts
  <2> HIDE DEF n
  <2>2. Earlier(n, g.key)'
    BY <1>1, <1>4, <1>5, <2>1 DEF Earlier
  <2>3. QED
    BY <2>2
<1>7. \A k, n : Earlier(n, k) => Earlier(n, k)'
  BY <1>1, <1>4, <1>5 DEF Earlier, Batch
<1>8. closed' \cup DOMAIN writers' \subseteq closed \cup DOMAIN writers \cup {g.key}
  BY DEF WriteGroup, FanoutWrite, ClusteredWrite, CloseCurrent
<1>9. \A k \in closed' \cup DOMAIN writers' : \E n : Earlier(n, k)'
  BY <1>6, <1>7, <1>8 DEF RefuseInv
<1>10. phase' = "failed" => \E m, n \in 1..Len(input) : Batch(m) # Batch(n) /\ Key(m) = Key(n)
  <2> SUFFICES ASSUME phase' = "failed"
               PROVE  \E m, n \in 1..Len(input) : Batch(m) # Batch(n) /\ Key(m) = Key(n)
    OBVIOUS
  <2>1. g.key \in closed
    BY <1>1 DEF WriteGroup, FanoutWrite, ClusteredWrite
  <2>2. PICK m : Earlier(m, g.key)
    BY <2>1 DEF RefuseInv
  <2>3. PICK n : In(g.rows, n)
    BY <1>3
  <2>4. Batch(m) # Batch(n) /\ Key(m) = g.key /\ m \in 1..taken
    BY <2>2, <2>3 DEF Earlier
  <2>5. Key(n) = g.key /\ n \in 1..Len(input)
    BY <1>2, <2>3, RunFacts
  <2>6. m \in 1..Len(input)
    BY <1>2, <2>4
  <2>7. QED
    BY <2>4, <2>5, <2>6
<1>11. \A n : Batch(n)' = Batch(n)
  BY DEF Batch
<1>12. QED
  BY <1>1, <1>5, <1>9, <1>10, <1>11 DEF RefuseInv

\* Every step keeps it.
LEMMA RefuseStep ==
  ASSUME WriterInv, RefuseInv, [Next]_vars
  PROVE  RefuseInv'
<1>1. CASE TakeBatch
  BY <1>1, TakeBatchRefuses
<1>2. CASE \E g \in pending, roll \in BOOLEAN : WriteGroup(g, roll)
  BY <1>2, WriteGroupRefuses
<1>3. CASE CloseWriter
  <2>1. DOMAIN writers' = {} /\ closed' = closed /\ phase' = "written"
        /\ UNCHANGED <<tid, input, taken, pending>>
    BY <1>3 DEF CloseWriter
  <2>2. \A n, k : Earlier(n, k) => Earlier(n, k)'
    BY <2>1, SameRuns DEF Earlier, Batch
  <2>3. QED
    BY <2>1, <2>2 DEF RefuseInv
<1>4. CASE UNCHANGED writerVars
  <2>1. UNCHANGED <<tid, input, taken, pending, writers, closed, phase>>
    BY <1>4 DEF writerVars
  <2>2. (\A n : Key(n)' = Key(n) /\ Batch(n)' = Batch(n)) /\ \A n, k : Earlier(n, k) => Earlier(n, k)'
    BY <2>1, SameRuns DEF Earlier, Batch
  <2>3. QED
    BY <2>1, <2>2 DEF RefuseInv
<1>5. QED
  BY <1>1, <1>2, <1>3, <1>4, ReaderSteps DEF Write, WriterNext

\* When the clustered writer refuses an insert, two rows of one partition
\* are in different batches of its input: rows of one batch never make it
\* fail, however they are ordered (clustered_writer.rs, split).
THEOREM RefusesOnlyAcrossBatches == Spec => []RefusesAcrossBatches
<1>1. Init => WriterInv /\ RefuseInv
  <2> SUFFICES ASSUME Init PROVE WriterInv /\ RefuseInv
    OBVIOUS
  <2>1. taken = 0 /\ closed = {} /\ DOMAIN writers = {} /\ phase = "write"
    BY DEF Init, WriterInit
  <2>2. BatchSize * 0 = 0 /\ 0 \in Nat
    BY SizesAssumption
  <2>3. QED
    BY <2>1, <2>2, WriterInitOK DEF Init, RefuseInv
<1>2. WriterInv /\ RefuseInv /\ [Next]_vars => (WriterInv /\ RefuseInv)'
  BY WriterStep, RefuseStep
<1>3. WriterInv /\ RefuseInv => RefusesAcrossBatches
  <2> SUFFICES ASSUME WriterInv, RefuseInv, phase = "failed" PROVE RefusesAcrossBatches
    BY DEF RefusesAcrossBatches
  <2>1. PICK m \in 1..Len(input), n \in 1..Len(input) : Batch(m) # Batch(n) /\ Key(m) = Key(n)
    BY DEF RefuseInv
  <2>2. DOMAIN input = 1..Len(input)
    BY InputFacts DEF WriterInv
  <2>3. ASSUME NEW i PROVE PartitionOf(table, input[i]) = Key(i)
    BY DEF Key, RowAt, PartitionOf
  <2>4. QED
    BY <2>1, <2>2, <2>3 DEF RefusesAcrossBatches, Batch
<1>4. QED
  BY <1>1, <1>2, <1>3, PTL DEF Spec

-----------------------------------------------------------------------------
(* Chunks of at most n rows: how many, where one starts and how long it is. *)
ChunkCount(len, n) == (len + n - 1) \div n
ChunkStart(i, n) == (i - 1) * n
ChunkLen(i, len, n) == Shorter(i * n, len) - ChunkStart(i, n)
ChunkOf(q, n) == (q - 1) \div n + 1

\* A chunk starts before the end and ends where the next one starts.
LEMMA ChunkPlace ==
  ASSUME NEW len \in Nat, NEW n \in Nat \ {0}, NEW i \in 1..ChunkCount(len, n)
  PROVE  /\ ChunkCount(len, n) \in Nat
         /\ ChunkStart(i, n) \in Nat /\ ChunkStart(i, n) < len
         /\ ChunkStart(i + 1, n) = ChunkStart(i, n) + n /\ i * n = ChunkStart(i, n) + n
         /\ ChunkLen(i, len, n) \in Nat /\ ChunkLen(i, len, n) >= 1 /\ ChunkLen(i, len, n) <= n
         /\ ChunkStart(i, n) + ChunkLen(i, len, n) <= len
<1> DEFINE c == ChunkCount(len, n)
           a == i - 1
           b == n * a
<1>1. c \in Nat /\ n * c <= len + n - 1
  <2>1. len + n - 1 \in Nat
    OBVIOUS
  <2>2. QED
    BY <2>1, DivIs DEF ChunkCount
<1>2. i \in Nat /\ a \in Nat /\ i <= c /\ i = a + 1
  BY <1>1
<1>3. n * i <= n * c /\ n * i = n * a + n /\ n * a \in Nat /\ n * i \in Nat
  BY <1>1, <1>2, TimesOrder, TimesNext
<1>4. b \in Nat /\ n * i = b + n /\ b < len
  BY <1>1, <1>2, <1>3
<1>5. ChunkStart(i, n) = b /\ i * n = n * i
  BY <1>2 DEF ChunkStart
<1>6. ChunkStart(i + 1, n) = i * n
  BY <1>2 DEF ChunkStart
<1> HIDE DEF b, c, a
<1>7. ChunkLen(i, len, n) = Shorter(b + n, len) - b
  BY <1>4, <1>5 DEF ChunkLen
<1>8. Shorter(b + n, len) \in Nat /\ b < Shorter(b + n, len) /\ Shorter(b + n, len) <= len
      /\ Shorter(b + n, len) <= b + n
  BY <1>4 DEF Shorter
<1>9. QED
  BY <1>1, <1>4, <1>5, <1>6, <1>7, <1>8 DEF c

\* The chunks of a sequence.
LEMMA ChunksAre ==
  ASSUME NEW T, NEW s \in Seq(T), NEW n \in Nat \ {0}
  PROVE  /\ Chunks(s, n) \in Seq(Seq(T)) /\ Len(Chunks(s, n)) = ChunkCount(Len(s), n)
         /\ \A i \in 1..ChunkCount(Len(s), n) :
               /\ Len(Chunks(s, n)[i]) = ChunkLen(i, Len(s), n)
               /\ \A k \in 1..ChunkLen(i, Len(s), n) :
                     /\ ChunkStart(i, n) + k \in 1..Len(s)
                     /\ Chunks(s, n)[i][k] = s[ChunkStart(i, n) + k]
<1> DEFINE len == Len(s)
           c == ChunkCount(len, n)
<1>1. len \in Nat /\ c \in Nat
  <2>1. len \in Nat /\ len + n - 1 \in Nat
    OBVIOUS
  <2>2. QED
    BY <2>1, DivIs DEF ChunkCount
<1>2. Chunks(s, n) = [i \in 1..c |-> SubSeq(s, ChunkStart(i, n) + 1, Shorter(i * n, len))]
  BY DEF Chunks, ChunkCount, ChunkStart
<1> HIDE DEF c, len
<1>3. ASSUME NEW i \in 1..c
      PROVE  /\ Chunks(s, n)[i] \in Seq(T) /\ Len(Chunks(s, n)[i]) = ChunkLen(i, len, n)
             /\ \A k \in 1..ChunkLen(i, len, n) :
                   /\ ChunkStart(i, n) + k \in 1..len
                   /\ Chunks(s, n)[i][k] = s[ChunkStart(i, n) + k]
  <2> DEFINE b == ChunkStart(i, n)
             l == ChunkLen(i, len, n)
  <2>1. b \in Nat /\ l \in Nat /\ l >= 1 /\ b + l <= len
    BY <1>1, ChunkPlace DEF c
  <2>2. Shorter(i * n, len) = b + l
    <3>1. i * n = b + n /\ n \in Nat
      BY <1>1, ChunkPlace DEF c
    <3>2. Shorter(i * n, len) \in Int
      BY <1>1, <2>1, <3>1 DEF Shorter
    <3>3. QED
      BY <2>1, <3>2 DEF ChunkLen
  <2> HIDE DEF b, l
  <2>3. Chunks(s, n)[i] = SubSeq(s, b + 1, b + l)
    BY <1>2, <2>2 DEF b
  <2>4. SubSeq(s, b + 1, b + l) \in Seq(T) /\ Len(SubSeq(s, b + 1, b + l)) = l
    BY <2>1 DEF len
  <2>5. ASSUME NEW k \in 1..l PROVE b + k \in 1..len /\ SubSeq(s, b + 1, b + l)[k] = s[b + k]
    <3>1. SubSeq(s, b + 1, b + l)[k] = s[(b + 1) + k - 1] /\ (b + 1) + k - 1 = b + k
      BY <2>1 DEF len
    <3>2. b + k \in 1..len
      BY <1>1, <2>1
    <3>3. QED
      BY <3>1, <3>2
  <2>6. QED
    BY <2>3, <2>4, <2>5 DEF b, l
<1>4. Chunks(s, n) \in [1..c -> Seq(T)]
  BY <1>2, <1>3
<1>5. Chunks(s, n) \in Seq(Seq(T)) /\ Len(Chunks(s, n)) = c
  BY <1>1, <1>4, FunctionIsSeq
<1>6. QED
  BY <1>3, <1>5 DEF len, c

\* Every place is in a chunk, and in one only.
LEMMA ChunkFound ==
  ASSUME NEW len \in Nat, NEW n \in Nat \ {0}, NEW q \in 1..len
  PROVE  /\ ChunkOf(q, n) \in 1..ChunkCount(len, n)
         /\ q - ChunkStart(ChunkOf(q, n), n) \in 1..ChunkLen(ChunkOf(q, n), len, n)
<1> DEFINE d == (q - 1) \div n
           c == ChunkCount(len, n)
           i == d + 1
<1>1. d \in Nat /\ n * d <= q - 1 /\ q - 1 < n * d + n
  <2>1. q - 1 \in Nat
    OBVIOUS
  <2>2. QED
    BY <2>1, DivIs
<1>2. c \in Nat /\ len + n - 1 < n * c + n
  <2>1. len + n - 1 \in Nat
    OBVIOUS
  <2>2. QED
    BY <2>1, DivIs DEF ChunkCount
<1> HIDE DEF d, c
<1>3. i <= c
  <2> SUFFICES ASSUME c <= d PROVE FALSE
    BY <1>1, <1>2
  <2>1. n * c <= n * d /\ n * c \in Nat /\ n * d \in Nat
    BY <1>1, <1>2, TimesOrder
  <2>2. QED
    BY <1>1, <1>2, <2>1
<1>4. ChunkOf(q, n) = i /\ i \in 1..c
  BY <1>1, <1>2, <1>3 DEF ChunkOf, d
<1>5. ChunkStart(i, n) = n * d
  BY <1>1 DEF ChunkStart
<1>6. i * n = n * d + n /\ n * d \in Nat
  BY <1>1, <1>4, <1>5, ChunkPlace DEF c
<1>7. q - n * d >= 1 /\ q - n * d <= Shorter(i * n, len) - n * d
  <2> DEFINE b == n * d
  <2>1. b \in Nat /\ b <= q - 1 /\ q - 1 < b + n /\ i * n = b + n
    BY <1>1, <1>6
  <2> HIDE DEF b
  <2>2. q - b >= 1 /\ q - b <= Shorter(b + n, len) - b
    BY <2>1 DEF Shorter
  <2>3. QED
    BY <2>1, <2>2 DEF b
<1>8. ChunkLen(i, len, n) \in Nat /\ ChunkLen(i, len, n) = Shorter(i * n, len) - n * d
  BY <1>4, <1>5, ChunkPlace DEF c, ChunkLen
<1> HIDE DEF i
<1>9. q - n * d \in 1..ChunkLen(i, len, n)
  BY <1>6, <1>7, <1>8
<1>10. QED
  BY <1>4, <1>5, <1>9 DEF c

\* The chunk of a place of chunk i is i.
LEMMA ChunkUnique ==
  ASSUME NEW len \in Nat, NEW n \in Nat \ {0}, NEW i \in 1..ChunkCount(len, n),
         NEW k \in 1..ChunkLen(i, len, n)
  PROVE  ChunkOf(ChunkStart(i, n) + k, n) = i
<1> DEFINE a == i - 1
           b == n * a
           d == (b + k - 1) \div n
<1>1. /\ ChunkStart(i, n) = b /\ b \in Nat /\ k \in Nat /\ 1 <= k /\ k <= n
      /\ i \in Nat /\ a \in Nat /\ i = a + 1
  <2>1. i \in Nat /\ a \in Nat /\ ChunkStart(i, n) \in Nat
        /\ ChunkLen(i, len, n) \in Nat /\ ChunkLen(i, len, n) <= n
    BY ChunkPlace
  <2>2. ChunkStart(i, n) = b
    BY <2>1 DEF ChunkStart
  <2>3. QED
    BY <2>1, <2>2
<1>2. d \in Nat /\ n * d <= b + k - 1 /\ b + k - 1 < n * d + n
  <2> HIDE DEF b
  <2>1. b + k - 1 \in Nat
    BY <1>1
  <2>2. QED
    BY <2>1, DivIs
<1>3. n * i = b + n
  BY <1>1, TimesNext
<1>4. ~(i <= d)
  <2> SUFFICES ASSUME i <= d PROVE FALSE
    OBVIOUS
  <2> HIDE DEF d
  <2>1. n * i <= n * d /\ n * i \in Nat /\ n * d \in Nat
    BY <1>1, <1>2, TimesOrder
  <2> HIDE DEF b
  <2>2. QED
    BY <1>1, <1>2, <1>3, <2>1
<1>5. ~(d + 1 <= a)
  <2> SUFFICES ASSUME d + 1 <= a PROVE FALSE
    OBVIOUS
  <2> HIDE DEF d
  <2>1. n * (d + 1) <= n * a /\ n * (d + 1) = n * d + n /\ n * (d + 1) \in Nat
    BY <1>1, <1>2, TimesOrder, TimesNext
  <2>2. QED
    BY <1>1, <1>2, <2>1
<1> HIDE DEF d
<1>6. d = a
  BY <1>1, <1>2, <1>4, <1>5
<1> HIDE DEF b
<1>7. ChunkOf(b + k, n) = d + 1
  BY <1>1 DEF ChunkOf, d
<1>8. QED
  BY <1>1, <1>6, <1>7

-----------------------------------------------------------------------------
(* The rows of a file that is read, from the writer or from before. *)
AnyRow == RowSet \cup {[id |-> i, cell |-> table.default] : i \in Nat}
FileLen == Len(file.rows)

FileOK ==
    /\ file.rows \in Seq(AnyRow)
    /\ \A i, j \in 1..FileLen : i < j => file.rows[i].id < file.rows[j].id
    /\ file.old => \A i \in 1..FileLen : file.rows[i].cell = table.default
    /\ query.deletes \subseteq 0..(FileLen - 1)

\* Rows of any of the two kinds have a number.
LEMMA AnyRowFacts ==
  ASSUME NEW r \in AnyRow, Len(input) \in Nat
  PROVE  r.id \in Nat
<1>1. CASE r \in RowSet
  BY <1>1, RowFacts
<1>2. CASE r \in {[id |-> i, cell |-> table.default] : i \in Nat}
  BY <1>2
<1>3. QED
  BY <1>1, <1>2 DEF AnyRow

\* ChooseQuery takes such a file.
LEMMA ChosenFile ==
  ASSUME WriterInv, NEW f, NEW d, ChooseQuery(f, d)
  PROVE  FileOK'
<1>1. /\ d \subseteq 0..(Len(file'.rows) - 1) /\ query' = [filter |-> f, deletes |-> d]
      /\ UNCHANGED <<tid, input>>
  BY DEF ChooseQuery, writerVars
<1>2. AnyRow' = AnyRow /\ table' = table
  BY <1>1, SameRuns DEF AnyRow, table
<1>3. query'.deletes \subseteq 0..(Len(file'.rows) - 1)
  BY <1>1
<1>4. ASSUME NEW i \in DOMAIN output,
             file' = [partition |-> output[i].partition, rows |-> output[i].rows, old |-> FALSE]
      PROVE  FileOK'
  <2> DEFINE rows == output[i].rows
  <2>1. Run(rows, output[i].partition)
    BY DEF WriterInv, WritersOK, OutOK
  <2>2. file'.rows = rows /\ file'.old = FALSE
    BY <1>4
  <2> HIDE DEF rows
  <2>3. rows \in Seq(RowSet) /\ \A x, y \in 1..Len(rows) : x < y => rows[x].id < rows[y].id
    BY <2>1 DEF Run
  <2>4. rows \in Seq(AnyRow)
    BY <2>3 DEF AnyRow
  <2>5. QED
    BY <1>2, <1>3, <2>2, <2>3, <2>4 DEF FileOK, FileLen
<1>5. ASSUME file' = OldFile(table) PROVE FileOK'
  <2> DEFINE l == table.oldRows
             rows == [i \in 1..l |-> [id |-> i, cell |-> table.default]]
  <2>1. l \in Nat
    BY TablesAssumption DEF table, WriterInv, InputOK
  <2>2. file'.rows = rows /\ file'.old = TRUE
    BY <1>5 DEF OldFile
  <2> HIDE DEF l
  <2>3. \A i \in 1..l : rows[i].id = i /\ rows[i].cell = table.default
    OBVIOUS
  <2>4. rows \in [1..l -> AnyRow]
    <3>1. \A i \in 1..l : [id |-> i, cell |-> table.default] \in AnyRow
      BY <2>1 DEF AnyRow
    <3>2. QED
      BY <3>1
  <2> HIDE DEF rows
  <2>5. rows \in Seq(AnyRow) /\ Len(rows) = l
    BY <2>1, <2>4, FunctionIsSeq
  <2>6. QED
    BY <1>2, <1>3, <2>2, <2>3, <2>5 DEF FileOK, FileLen
<1>6. QED
  BY <1>4, <1>5 DEF ChooseQuery

(* What SelectRowGroups and the walk leave, over the rows of the file.     *)
(* Mask(i) says which rows of row group i are not deleted.                 *)
GroupCount == ChunkCount(FileLen, RowGroupSize)
GroupLen(i) == ChunkLen(i, FileLen, RowGroupSize)
GroupStart(i) == ChunkStart(i, RowGroupSize)

SelectionOK(sel) ==
    /\ sel \in Seq(1..GroupCount)
    /\ \A i, j \in 1..Len(sel) : i < j => sel[i] < sel[j]
    /\ \A i \in 1..GroupCount : GroupKept(i) <=> \E j \in 1..Len(sel) : sel[j] = i

Mask(i) == [k \in 1..GroupLen(i) |-> GroupStart(i) + k - 1 \notin query.deletes]
Masks(sel) == [j \in 1..Len(sel) |-> Mask(sel[j])]

(* The first row of a row group, or the end of the file after the last. *)
Base(i) == Shorter(GroupStart(i), FileLen)

(* c is the next delete at or after base, and r the others. *)
Ahead(c, r, base) ==
    /\ r \cup ({c} \ {-1}) = {d \in query.deletes : d >= base}
    /\ \A d \in r : c # -1 /\ c <= d

WalkOK(w, sel) ==
    /\ w \in [idx : Nat, sel : Nat, base : Nat, cached : Int, rest : SUBSET Nat, out : Seq(BOOLEAN)]
    /\ w.idx \in 1..(GroupCount + 1) /\ w.sel \in 1..(Len(sel) + 1)
    /\ w.base = Base(w.idx)
    /\ \A j \in 1..Len(sel) : j < w.sel <=> sel[j] < w.idx
    /\ Ahead(w.cached, w.rest, w.base)
    /\ w.out = FlattenSeq(Prefix(Masks(sel), w.sel - 1))

\* The row groups of a file.
LEMMA GroupFacts ==
  ASSUME FileOK
  PROVE  /\ FileLen \in Nat /\ GroupCount \in Nat /\ RowGroupSize \in Nat \ {0}
         /\ Groups \in Seq(Seq(AnyRow)) /\ Len(Groups) = GroupCount /\ DOMAIN Groups = 1..GroupCount
         /\ \A i \in 1..GroupCount :
               /\ Len(Groups[i]) = GroupLen(i) /\ DOMAIN Groups[i] = 1..GroupLen(i)
               /\ GroupStart(i) \in Nat /\ GroupLen(i) \in Nat /\ GroupLen(i) >= 1
               /\ Base(i) = GroupStart(i) /\ Base(i + 1) = GroupStart(i) + GroupLen(i)
               /\ \A k \in 1..GroupLen(i) : /\ GroupStart(i) + k \in 1..FileLen
                                            /\ Groups[i][k] = file.rows[GroupStart(i) + k]
<1>1. file.rows \in Seq(AnyRow) /\ FileLen \in Nat /\ RowGroupSize \in Nat \ {0}
  BY SizesAssumption DEF FileOK, FileLen
<1>2. /\ Groups \in Seq(Seq(AnyRow)) /\ Len(Groups) = GroupCount
      /\ \A i \in 1..GroupCount :
            /\ Len(Groups[i]) = GroupLen(i)
            /\ \A k \in 1..GroupLen(i) : /\ GroupStart(i) + k \in 1..FileLen
                                         /\ Groups[i][k] = file.rows[GroupStart(i) + k]
  <2> DEFINE s == file.rows
             n == RowGroupSize
  <2>1. s \in Seq(AnyRow) /\ n \in Nat \ {0}
    BY <1>1
  <2> HIDE DEF s, n
  <2>2. /\ Chunks(s, n) \in Seq(Seq(AnyRow)) /\ Len(Chunks(s, n)) = ChunkCount(Len(s), n)
        /\ \A i \in 1..ChunkCount(Len(s), n) :
              /\ Len(Chunks(s, n)[i]) = ChunkLen(i, Len(s), n)
              /\ \A k \in 1..ChunkLen(i, Len(s), n) :
                    /\ ChunkStart(i, n) + k \in 1..Len(s)
                    /\ Chunks(s, n)[i][k] = s[ChunkStart(i, n) + k]
    BY <2>1, ChunksAre
  <2>3. QED
    BY <2>2 DEF Groups, GroupCount, GroupLen, GroupStart, FileLen, s, n
<1>3. GroupCount \in Nat /\ DOMAIN Groups = 1..GroupCount
  BY <1>2
<1>4. ASSUME NEW i \in 1..GroupCount
      PROVE  /\ DOMAIN Groups[i] = 1..GroupLen(i)
             /\ GroupStart(i) \in Nat /\ GroupLen(i) \in Nat /\ GroupLen(i) >= 1
             /\ Base(i) = GroupStart(i) /\ Base(i + 1) = GroupStart(i) + GroupLen(i)
  <2>1. /\ GroupStart(i) \in Nat /\ GroupStart(i) < FileLen
        /\ GroupStart(i + 1) = GroupStart(i) + RowGroupSize
        /\ i * RowGroupSize = GroupStart(i) + RowGroupSize
        /\ GroupLen(i) \in Nat /\ GroupLen(i) >= 1
    BY <1>1, ChunkPlace DEF GroupCount, GroupStart, GroupLen
  <2>2. Groups[i] \in Seq(AnyRow)
    BY <1>2
  <2>3. GroupLen(i) = Shorter(GroupStart(i) + RowGroupSize, FileLen) - GroupStart(i)
    BY <2>1 DEF GroupLen, ChunkLen, GroupStart
  <2>4. Base(i) = GroupStart(i)
    BY <2>1 DEF Base, Shorter
  <2>5. Base(i + 1) = Shorter(GroupStart(i) + RowGroupSize, FileLen)
    BY <2>1 DEF Base
  <2>6. Shorter(GroupStart(i) + RowGroupSize, FileLen) \in Nat
    BY <1>1, <2>1 DEF Shorter
  <2>7. QED
    BY <1>2, <2>1, <2>2, <2>3, <2>4, <2>5, <2>6
<1>5. QED
  BY <1>1, <1>2, <1>3, <1>4

\* An element of a sequence.
LEMMA MemberOf ==
  ASSUME NEW S, NEW s \in Seq(S), NEW i \in 1..Len(s)
  PROVE  s[i] \in S
OBVIOUS

\* The masks of the selected row groups.
LEMMA MaskFacts ==
  ASSUME FileOK, NEW sel, SelectionOK(sel)
  PROVE  /\ Masks(sel) \in Seq(Seq(BOOLEAN)) /\ Len(Masks(sel)) = Len(sel) /\ Len(sel) \in Nat
         /\ \A j \in 1..Len(sel) : /\ sel[j] \in 1..GroupCount
                                   /\ Masks(sel)[j] = Mask(sel[j])
                                   /\ Len(Mask(sel[j])) = GroupLen(sel[j])
<1>1. sel \in Seq(1..GroupCount) /\ Len(sel) \in Nat
  BY DEF SelectionOK
<1>2. ASSUME NEW j \in 1..Len(sel)
      PROVE  /\ sel[j] \in 1..GroupCount /\ Mask(sel[j]) \in Seq(BOOLEAN)
             /\ Len(Mask(sel[j])) = GroupLen(sel[j])
  <2> DEFINE i == sel[j]
  <2>1. i \in 1..GroupCount
    BY <1>1, MemberOf
  <2> HIDE DEF i
  <2>2. GroupLen(i) \in Nat
    BY <2>1, GroupFacts
  <2>3. Mask(i) \in [1..GroupLen(i) -> BOOLEAN]
    BY DEF Mask
  <2>4. Mask(i) \in Seq(BOOLEAN) /\ Len(Mask(i)) = GroupLen(i)
    BY <2>2, <2>3, FunctionIsSeq
  <2>5. QED
    BY <2>1, <2>4 DEF i
<1>3. Masks(sel) \in [1..Len(sel) -> Seq(BOOLEAN)]
  BY <1>2 DEF Masks
<1>4. Masks(sel) \in Seq(Seq(BOOLEAN)) /\ Len(Masks(sel)) = Len(sel)
  BY <1>1, <1>3, FunctionIsSeq
<1>5. QED
  BY <1>1, <1>2, <1>4 DEF Masks

\* The deletes of a file are finitely many positions.
LEMMA DeleteFacts ==
  ASSUME FileOK
  PROVE  /\ query.deletes \subseteq Nat
         /\ \A S : S \subseteq query.deletes => IsFiniteSet(S)
<1>1. query.deletes \subseteq 0..(FileLen - 1) /\ FileLen \in Nat
  BY GroupFacts DEF FileOK
<1>2. IsFiniteSet(0..(FileLen - 1))
  BY <1>1, FS_Interval
<1>3. ASSUME NEW S, S \subseteq query.deletes PROVE IsFiniteSet(S)
  BY <1>1, <1>2, <1>3, FS_Subset
<1>4. QED
  BY <1>1, <1>3

\* The least of a set of positions is one of them.
LEMMA LeastPosition ==
  ASSUME NEW a, a \subseteq Nat, IsFiniteSet(a), a # {}
  PROVE  /\ Least(a) \in a /\ Least(a) \in Int /\ Least(a) # -1
         /\ \A d \in a : Least(a) <= d
<1>1. a \subseteq Int
  OBVIOUS
<1>2. Least(a) \in a /\ \A d \in a : Least(a) <= d
  BY <1>1, LeastIs
<1>3. \A d \in a : d \in Int /\ d # -1
  OBVIOUS
<1>4. QED
  BY <1>2, <1>3

\* Taking the first of a set of deletes.
LEMMA TakeDelete ==
  ASSUME FileOK, NEW a, NEW base, a = {d \in query.deletes : d >= base}
  PROVE  /\ NextDelete(a) \in Int /\ a \ {NextDelete(a)} \in SUBSET Nat
         /\ Ahead(NextDelete(a), a \ {NextDelete(a)}, base)
<1>1. a \subseteq Nat /\ IsFiniteSet(a)
  BY DeleteFacts
<1>2. CASE a = {}
  BY <1>2 DEF NextDelete, Ahead
<1>3. CASE a # {}
  <2>1. NextDelete(a) = Least(a)
    BY <1>3 DEF NextDelete
  <2>2. /\ NextDelete(a) \in a /\ NextDelete(a) \in Int /\ NextDelete(a) # -1
        /\ \A d \in a : NextDelete(a) <= d
    BY <1>1, <1>3, <2>1, LeastPosition
  <2>3. (a \ {NextDelete(a)}) \cup ({NextDelete(a)} \ {-1}) = a
    BY <2>2
  <2>4. Ahead(NextDelete(a), a \ {NextDelete(a)}, base)
    BY <2>2, <2>3 DEF Ahead
  <2>5. QED
    BY <1>1, <2>2, <2>4
<1>4. QED
  BY <1>2, <1>3

\* Going on to the next row group.
LEMMA AheadKept ==
  ASSUME FileOK, NEW c \in Int, NEW r \in SUBSET Nat, NEW base \in Nat, NEW next \in Nat, base <= next,
         Ahead(c, r, base), NEW a, a = {d \in r : d >= next}
  PROVE  /\ c # -1 /\ c < next => a = {d \in query.deletes : d >= next}
         /\ ~(c # -1 /\ c < next) => a = r /\ Ahead(c, r, next)
<1>1. query.deletes \subseteq Nat
  BY DeleteFacts
<1>2. /\ \A d \in r : d \in query.deletes /\ d >= base /\ c # -1 /\ c <= d
      /\ c # -1 => c \in query.deletes /\ c >= base
      /\ \A d \in query.deletes : d >= base => d \in r \/ (d = c /\ c # -1)
  BY DEF Ahead
<1>3. ASSUME c # -1, c < next PROVE a = {d \in query.deletes : d >= next}
  <2>1. \A d \in query.deletes : d >= next => d >= base /\ d # c
    BY <1>1, <1>3
  <2>2. QED
    BY <1>2, <2>1
<1>4. ASSUME ~(c # -1 /\ c < next) PROVE a = r /\ Ahead(c, r, next)
  <2>1. \A d \in r : d >= next
    BY <1>2, <1>4
  <2>2. c # -1 => c >= next
    BY <1>4
  <2>3. \A d \in query.deletes : d >= next => d >= base
    BY <1>1
  <2>4. r \cup ({c} \ {-1}) = {d \in query.deletes : d >= next}
    BY <1>2, <2>1, <2>2, <2>3
  <2>5. QED
    BY <1>2, <2>1, <2>4 DEF Ahead
<1>5. QED
  BY <1>3, <1>4

\* The walk as SelectRowGroups starts it.
LEMMA WalkStarts ==
  ASSUME FileOK, NEW sel, SelectionOK(sel), query.deletes # {}, NEW first, first = Least(query.deletes)
  PROVE  WalkOK([idx |-> 1, sel |-> 1, base |-> 0, cached |-> first,
                 rest |-> query.deletes \ {first}, out |-> <<>>], sel)
<1> DEFINE w == [idx |-> 1, sel |-> 1, base |-> 0, cached |-> first,
                 rest |-> query.deletes \ {first}, out |-> <<>>]
<1>1. query.deletes \subseteq Nat /\ query.deletes = {d \in query.deletes : d >= 0}
  BY DeleteFacts
<1>2. NextDelete(query.deletes) = first
  BY DEF NextDelete
<1>3. first \in Int /\ query.deletes \ {first} \in SUBSET Nat /\ Ahead(first, query.deletes \ {first}, 0)
  BY <1>1, <1>2, TakeDelete
<1>4. /\ Len(sel) \in Nat /\ FileLen \in Nat /\ GroupCount \in Nat
      /\ \A j \in 1..Len(sel) : sel[j] \in 1..GroupCount
  BY MaskFacts, GroupFacts
<1>5. Base(1) = 0
  BY <1>4, SizesAssumption DEF Base, GroupStart, ChunkStart, Shorter
<1>6. FlattenSeq(Prefix(Masks(sel), 1 - 1)) = <<>>
  BY DEF FlattenSeq, Prefix
<1>7. /\ w.idx = 1 /\ w.sel = 1 /\ w.base = 0 /\ w.cached = first
      /\ w.rest = query.deletes \ {first} /\ w.out = <<>>
  OBVIOUS
<1>8. w \in [idx : Nat, sel : Nat, base : Nat, cached : Int, rest : SUBSET Nat, out : Seq(BOOLEAN)]
  BY <1>3, EmptySeq
<1> HIDE DEF w
<1>9. \A j \in 1..Len(sel) : j < w.sel <=> sel[j] < w.idx
  BY <1>4, <1>7
<1>10. WalkOK(w, sel)
  BY <1>3, <1>4, <1>5, <1>6, <1>7, <1>8, <1>9 DEF WalkOK
<1>11. QED
  BY <1>10 DEF w

\* What the two steps of the walk have in common.
WalkStep(w, v, n) ==
    /\ v.idx = w.idx + 1 /\ v.base = w.base + n
    /\ v.cached \in Int /\ v.rest \in SUBSET Nat /\ Ahead(v.cached, v.rest, v.base)

\* The deletes at hand after a step.
LEMMA StepDeletes ==
  ASSUME FileOK, NEW sel, SelectionOK(sel), NEW w, WalkOK(w, sel), w.idx <= GroupCount,
         NEW n, n = Len(Groups[w.idx]), NEW v, v.idx = w.idx + 1, v.base = w.base + n,
         NEW rest, rest = After(w, w.base + n),
         \/ /\ w.cached # -1 /\ w.cached < w.base + n
            /\ v.cached = NextDelete(rest) /\ v.rest = rest \ {NextDelete(rest)}
         \/ /\ ~(w.cached # -1 /\ w.cached < w.base + n)
            /\ v.cached = w.cached /\ v.rest \in {w.rest, rest}
  PROVE  /\ WalkStep(w, v, n) /\ v.base = Base(v.idx) /\ v.idx \in 1..(GroupCount + 1)
         /\ n = GroupLen(w.idx) /\ n \in Nat /\ w.base = GroupStart(w.idx) /\ w.base \in Nat
<1>1. /\ w.idx \in 1..(GroupCount + 1) /\ w.base = Base(w.idx) /\ w.base \in Nat /\ w.cached \in Int
      /\ w.rest \in SUBSET Nat /\ Ahead(w.cached, w.rest, w.base)
  BY DEF WalkOK
<1>2. GroupCount \in Nat
  BY GroupFacts
<1>3. w.idx \in 1..GroupCount
  BY <1>1, <1>2
<1>4. /\ n = GroupLen(w.idx) /\ n \in Nat /\ n >= 1 /\ w.base = GroupStart(w.idx)
      /\ Base(w.idx + 1) = w.base + n
  BY <1>1, <1>3, GroupFacts
<1> DEFINE next == w.base + n
<1>5. next \in Nat /\ w.base <= next
  BY <1>1, <1>4
<1>6. rest = {d \in w.rest : d >= next}
  BY DEF After
<1> HIDE DEF next
<1>7. /\ w.cached # -1 /\ w.cached < next => rest = {d \in query.deletes : d >= next}
      /\ ~(w.cached # -1 /\ w.cached < next) => rest = w.rest /\ Ahead(w.cached, w.rest, next)
  BY <1>1, <1>5, <1>6, AheadKept
<1>8. v.cached \in Int /\ v.rest \in SUBSET Nat /\ Ahead(v.cached, v.rest, next)
  <2>1. CASE w.cached # -1 /\ w.cached < next
    <3>1. v.cached = NextDelete(rest) /\ v.rest = rest \ {NextDelete(rest)}
      BY <2>1 DEF next
    <3>2. rest = {d \in query.deletes : d >= next}
      BY <1>7, <2>1
    <3>3. /\ NextDelete(rest) \in Int /\ rest \ {NextDelete(rest)} \in SUBSET Nat
          /\ Ahead(NextDelete(rest), rest \ {NextDelete(rest)}, next)
      BY <3>2, TakeDelete
    <3>4. QED
      BY <3>1, <3>3
  <2>2. CASE ~(w.cached # -1 /\ w.cached < next)
    <3>1. v.cached = w.cached /\ v.rest = w.rest
      BY <1>7, <2>2 DEF next
    <3>2. QED
      BY <1>1, <1>7, <2>2, <3>1
  <2>3. QED
    BY <2>1, <2>2
<1>9. v.idx \in 1..(GroupCount + 1)
  BY <1>2, <1>3
<1>10. QED
  BY <1>1, <1>4, <1>8, <1>9 DEF WalkStep, next

\* A row group that is not selected.
LEMMA SkipKeeps ==
  ASSUME FileOK, NEW sel, SelectionOK(sel), NEW w, WalkOK(w, sel), w.idx <= GroupCount,
         w.sel <= Len(sel), w.idx # sel[w.sel]
  PROVE  WalkOK(SkipGroup(w, Len(Groups[w.idx])), sel)
<1> DEFINE n == Len(Groups[w.idx])
           rest == After(w, w.base + n)
           v == SkipGroup(w, n)
           u == [w EXCEPT !.idx = @ + 1, !.base = w.base + n, !.rest = rest]
<1> HIDE DEF n
<1>1. /\ w \in [idx : Nat, sel : Nat, base : Nat, cached : Int, rest : SUBSET Nat, out : Seq(BOOLEAN)]
      /\ w.sel \in 1..(Len(sel) + 1) /\ \A j \in 1..Len(sel) : j < w.sel <=> sel[j] < w.idx
      /\ w.out = FlattenSeq(Prefix(Masks(sel), w.sel - 1))
  BY DEF WalkOK
<1>2. v = IF w.cached # -1 /\ w.cached < w.base + n
          THEN [u EXCEPT !.cached = NextDelete(rest), !.rest = rest \ {NextDelete(rest)}]
          ELSE u
  BY DEF SkipGroup
<1> HIDE DEF rest
<1>3. /\ v.idx = w.idx + 1 /\ v.base = w.base + n /\ v.sel = w.sel /\ v.out = w.out
      /\ \/ /\ w.cached # -1 /\ w.cached < w.base + n
            /\ v.cached = NextDelete(rest) /\ v.rest = rest \ {NextDelete(rest)}
         \/ /\ ~(w.cached # -1 /\ w.cached < w.base + n)
            /\ v.cached = w.cached /\ v.rest \in {w.rest, rest}
      /\ v = [idx |-> v.idx, sel |-> v.sel, base |-> v.base, cached |-> v.cached,
              rest |-> v.rest, out |-> v.out]
  BY <1>1, <1>2
<1> HIDE DEF v, u
<1>4. WalkStep(w, v, n) /\ v.base = Base(v.idx) /\ v.idx \in 1..(GroupCount + 1) /\ n \in Nat
  BY <1>3, StepDeletes DEF n, rest
<1>5. v \in [idx : Nat, sel : Nat, base : Nat, cached : Int, rest : SUBSET Nat, out : Seq(BOOLEAN)]
  <2>1. v.idx \in Nat /\ v.base \in Nat /\ v.sel \in Nat /\ v.out \in Seq(BOOLEAN)
    BY <1>1, <1>3, <1>4
  <2>2. QED
    BY <1>3, <1>4, <2>1 DEF WalkStep
<1>6. ASSUME NEW j \in 1..Len(sel) PROVE j < v.sel <=> sel[j] < v.idx
  <2>1. /\ Len(sel) \in Nat /\ sel[j] \in Nat /\ sel[w.sel] \in Nat /\ w.sel \in 1..Len(sel)
        /\ w.idx \in Nat /\ j \in Nat
    <3>1. Len(sel) \in Nat /\ GroupCount \in Nat /\ \A i \in 1..Len(sel) : sel[i] \in 1..GroupCount
      BY MaskFacts, GroupFacts
    <3>2. w.sel \in 1..Len(sel) /\ w.idx \in Nat
      BY <1>1, <3>1
    <3>3. QED
      BY <3>1, <3>2
  <2>2. \A i, k \in 1..Len(sel) : i < k => sel[i] < sel[k]
    BY DEF SelectionOK
  <2>3. sel[w.sel] > w.idx
    <3>1. ~(sel[w.sel] < w.idx)
      BY <1>1, <2>1
    <3>2. QED
      BY <2>1, <3>1
  <2>4. CASE j < w.sel
    BY <1>1, <1>3, <2>1, <2>4
  <2>5. CASE ~(j < w.sel)
    <3>1. sel[w.sel] <= sel[j]
      BY <2>1, <2>2, <2>5
    <3>2. QED
      BY <1>3, <2>1, <2>3, <2>5, <3>1
  <2>6. QED
    BY <2>4, <2>5
<1>7. WalkOK(v, sel)
  BY <1>1, <1>3, <1>4, <1>5, <1>6 DEF WalkOK, WalkStep
<1>8. QED
  BY <1>7 DEF v, n

\* A selected row group.
LEMMA TakeKeeps ==
  ASSUME FileOK, NEW sel, SelectionOK(sel), NEW w, WalkOK(w, sel), w.idx <= GroupCount,
         w.sel <= Len(sel), w.idx = sel[w.sel]
  PROVE  WalkOK(TakeGroup(w, Len(Groups[w.idx])), sel)
<1> DEFINE n == Len(Groups[w.idx])
           rest == After(w, w.base + n)
           here == {d \in w.rest \cup {w.cached} : d < w.base + n}
           mask == [i \in 1..n |-> w.base + i - 1 \notin here]
           v == TakeGroup(w, n)
           u == [w EXCEPT !.idx = @ + 1, !.sel = @ + 1, !.base = w.base + n, !.out = @ \o mask]
<1> HIDE DEF n
<1>1. /\ w \in [idx : Nat, sel : Nat, base : Nat, cached : Int, rest : SUBSET Nat, out : Seq(BOOLEAN)]
      /\ w.sel \in 1..(Len(sel) + 1) /\ \A j \in 1..Len(sel) : j < w.sel <=> sel[j] < w.idx
      /\ w.out = FlattenSeq(Prefix(Masks(sel), w.sel - 1)) /\ Ahead(w.cached, w.rest, w.base)
  BY DEF WalkOK
<1>2. v = IF w.cached # -1 /\ w.cached < w.base + n
          THEN [u EXCEPT !.cached = NextDelete(rest), !.rest = rest \ {NextDelete(rest)}]
          ELSE u
  BY DEF TakeGroup
<1> HIDE DEF rest, mask
<1>3. /\ v.idx = w.idx + 1 /\ v.base = w.base + n /\ v.sel = w.sel + 1 /\ v.out = w.out \o mask
      /\ \/ /\ w.cached # -1 /\ w.cached < w.base + n
            /\ v.cached = NextDelete(rest) /\ v.rest = rest \ {NextDelete(rest)}
         \/ /\ ~(w.cached # -1 /\ w.cached < w.base + n)
            /\ v.cached = w.cached /\ v.rest \in {w.rest, rest}
      /\ v = [idx |-> v.idx, sel |-> v.sel, base |-> v.base, cached |-> v.cached,
              rest |-> v.rest, out |-> v.out]
  BY <1>1, <1>2
<1> HIDE DEF v, u
<1>4. /\ WalkStep(w, v, n) /\ v.base = Base(v.idx) /\ v.idx \in 1..(GroupCount + 1)
      /\ n = GroupLen(w.idx) /\ n \in Nat /\ w.base = GroupStart(w.idx) /\ w.base \in Nat
  BY <1>3, StepDeletes DEF n, rest
<1>5. /\ Len(sel) \in Nat /\ GroupCount \in Nat /\ \A i \in 1..Len(sel) : sel[i] \in 1..GroupCount
      /\ Masks(sel) \in Seq(Seq(BOOLEAN)) /\ Len(Masks(sel)) = Len(sel)
  BY MaskFacts, GroupFacts
<1>6. w.sel \in 1..Len(sel) /\ w.sel - 1 \in Nat /\ w.sel - 1 < Len(sel) /\ (w.sel - 1) + 1 = w.sel
  BY <1>1, <1>5
<1>7. mask = Mask(w.idx)
  <2>1. ASSUME NEW i \in 1..n PROVE w.base + i - 1 \in here <=> w.base + i - 1 \in query.deletes
    <3> DEFINE p == w.base + i - 1
    <3>1. p \in Nat /\ p >= w.base /\ p < w.base + n /\ p # -1
      BY <1>4
    <3> HIDE DEF p
    <3>2. p \in w.rest \cup {w.cached} <=> p \in w.rest \cup ({w.cached} \ {-1})
      BY <3>1
    <3>3. p \in w.rest \cup ({w.cached} \ {-1}) <=> p \in query.deletes
      BY <1>1, <3>1 DEF Ahead
    <3>4. p \in here <=> p \in query.deletes
      BY <3>1, <3>2, <3>3
    <3>5. QED
      BY <3>4 DEF p
  <2>2. QED
    BY <1>4, <2>1 DEF mask, Mask
<1>8. v.out = FlattenSeq(Prefix(Masks(sel), v.sel - 1)) /\ v.out \in Seq(BOOLEAN)
  <2> DEFINE m == w.sel - 1
             ms == Masks(sel)
  <2>1. m \in Nat /\ m < Len(ms) /\ m + 1 = w.sel /\ ms \in Seq(Seq(BOOLEAN))
    BY <1>5, <1>6
  <2>2. w.out = FlattenSeq(Prefix(ms, m)) /\ ms[m + 1] = mask
    <3>1. ms[w.sel] = Mask(sel[w.sel])
      BY <1>6, MaskFacts
    <3>2. QED
      BY <1>1, <1>7, <2>1, <3>1
  <2>3. v.sel - 1 = m + 1
    BY <1>3, <1>6
  <2> HIDE DEF m, ms
  <2>4. /\ FlattenSeq(Prefix(ms, m)) \in Seq(BOOLEAN)
        /\ FlattenSeq(Prefix(ms, m + 1)) = FlattenSeq(Prefix(ms, m)) \o ms[m + 1]
    BY <2>1, FlattenMore
  <2>5. ms[m + 1] \in Seq(BOOLEAN)
    <3>1. m + 1 \in 1..Len(ms)
      BY <2>1
    <3>2. QED
      BY <2>1, <3>1, MemberOf
  <2>6. FlattenSeq(Prefix(ms, m)) \o ms[m + 1] \in Seq(BOOLEAN)
    BY <2>4, <2>5, ConcatProperties
  <2>7. QED
    BY <1>3, <2>2, <2>3, <2>4, <2>6 DEF ms
<1>9. v \in [idx : Nat, sel : Nat, base : Nat, cached : Int, rest : SUBSET Nat, out : Seq(BOOLEAN)]
  <2>1. v.idx \in Nat /\ v.base \in Nat /\ v.sel \in Nat
    BY <1>1, <1>3, <1>4
  <2>2. QED
    BY <1>3, <1>4, <1>8, <2>1 DEF WalkStep
<1>10. ASSUME NEW j \in 1..Len(sel) PROVE j < v.sel <=> sel[j] < v.idx
  <2>1. sel[j] \in Nat /\ j \in Nat /\ w.idx \in Nat
    BY <1>1, <1>5
  <2>2. \A i, k \in 1..Len(sel) : i < k => sel[i] < sel[k]
    BY DEF SelectionOK
  <2>3. CASE j < w.sel
    <3>1. sel[j] < w.idx
      BY <1>1, <2>3
    <3>2. v.sel = w.sel + 1 /\ v.idx = w.idx + 1
      BY <1>3
    <3>3. QED
      BY <1>6, <2>1, <2>3, <3>1, <3>2
  <2>4. CASE j = w.sel
    <3>1. sel[j] = w.idx
      BY <2>4
    <3>2. QED
      BY <1>3, <1>6, <2>1, <2>4, <3>1
  <2>5. CASE w.sel < j
    <3>1. sel[w.sel] < sel[j]
      BY <1>6, <2>2, <2>5
    <3>2. QED
      BY <1>3, <1>6, <2>1, <2>5, <3>1
  <2>6. QED
    BY <1>6, <2>1, <2>3, <2>4, <2>5
<1>11. v.sel \in 1..(Len(sel) + 1)
  BY <1>3, <1>5, <1>6
<1>12. WalkOK(v, sel)
  BY <1>4, <1>8, <1>9, <1>10, <1>11 DEF WalkOK, WalkStep
<1>13. QED
  BY <1>12 DEF v, n

\* Where the walk ends, it has seen every selected row group.
LEMMA WalkEnds ==
  ASSUME FileOK, NEW sel, SelectionOK(sel), NEW w, WalkOK(w, sel),
         w.idx > GroupCount \/ w.sel > Len(sel)
  PROVE  w.out = FlattenSeq(Masks(sel))
<1>1. /\ Len(sel) \in Nat /\ GroupCount \in Nat /\ \A i \in 1..Len(sel) : sel[i] \in 1..GroupCount
      /\ Masks(sel) \in Seq(Seq(BOOLEAN)) /\ Len(Masks(sel)) = Len(sel)
  BY MaskFacts, GroupFacts
<1>2. w.sel \in 1..(Len(sel) + 1) /\ w.idx \in 1..(GroupCount + 1)
      /\ \A j \in 1..Len(sel) : j < w.sel <=> sel[j] < w.idx
  BY DEF WalkOK
<1>3. w.sel > Len(sel)
  <2> SUFFICES ASSUME w.idx > GroupCount, w.sel \in 1..Len(sel) PROVE FALSE
    BY <1>1, <1>2
  <2>1. sel[w.sel] < w.idx
    BY <1>1, <1>2
  <2>2. QED
    BY <1>1, <1>2, <2>1
<1>4. w.sel - 1 = Len(Masks(sel))
  BY <1>1, <1>2, <1>3
<1>5. w.out = FlattenSeq(Prefix(Masks(sel), Len(Masks(sel))))
  BY <1>4 DEF WalkOK
<1>6. QED
  BY <1>1, <1>5, PrefixAll

-----------------------------------------------------------------------------
(* What the reader returns of the row at place q of the file. *)
Returned(q) ==
    /\ GroupKept(ChunkOf(q, RowGroupSize))
    /\ table.pageIndex => PageKept(Groups[ChunkOf(q, RowGroupSize)],
                                   q - GroupStart(ChunkOf(q, RowGroupSize)))
    /\ q - 1 \notin query.deletes
    /\ RowKept(file.rows[q])

SelectedLens(sel) == [j \in 1..Len(sel) |-> GroupLen(sel[j])]
SelectedPlaces(sel) == Places(SelectedLens(sel), Len(sel))

\* What is flattened is a sequence.
LEMMA FlattenIsSeq ==
  ASSUME NEW T, NEW s \in Seq(Seq(T))
  PROVE  FlattenSeq(s) \in Seq(T)
<1>1. Len(s) \in 0..Len(s) /\ Prefix(s, Len(s)) = s
  BY PrefixAll
<1>2. QED
  BY <1>1, FlattenType

\* The three sequences the reader lays beside each other agree on their places.
LEMMA SelectedPlaced ==
  ASSUME FileOK, NEW sel, SelectionOK(sel), NEW T, NEW s, s \in Seq(Seq(T)), Len(s) = Len(sel),
         \A j \in 1..Len(sel) : Len(s[j]) = GroupLen(sel[j])
  PROVE  /\ FlattenSeq(s) \in Seq(T) /\ Len(FlattenSeq(s)) = Len(SelectedPlaces(sel))
         /\ \A k \in 1..Len(SelectedPlaces(sel)) :
               FlattenSeq(s)[k] = s[SelectedPlaces(sel)[k][1]][SelectedPlaces(sel)[k][2]]
<1> DEFINE L == SelectedLens(sel)
<1>1. \A j \in 1..Len(s) : Len(s[j]) = L[j]
  BY DEF SelectedLens
<1> HIDE DEF L
<1>2. Placed(FlattenSeq(s), Places(L, Len(s)), s, L, Len(s))
  BY <1>1, FlattenPlaces
<1>3. FlattenSeq(s) \in Seq(T)
  BY FlattenIsSeq
<1>4. Places(L, Len(s)) = SelectedPlaces(sel)
  BY DEF SelectedPlaces, L
<1>5. QED
  BY <1>2, <1>3, <1>4 DEF Placed

\* Those places are the rows of the selected row groups.
LEMMA PlacesAre ==
  ASSUME FileOK, NEW sel, SelectionOK(sel), NEW P, P = SelectedPlaces(sel)
  PROVE  /\ Len(P) \in Nat
         /\ \A k \in 1..Len(P) : /\ P[k][1] \in 1..Len(sel) /\ sel[P[k][1]] \in 1..GroupCount
                                 /\ P[k][2] \in 1..GroupLen(sel[P[k][1]])
         /\ \A j \in 1..Len(sel) : \A i \in 1..GroupLen(sel[j]) :
               \E k \in 1..Len(P) : P[k][1] = j /\ P[k][2] = i
<1> DEFINE ms == Masks(sel)
           L == SelectedLens(sel)
<1>1. /\ ms \in Seq(Seq(BOOLEAN)) /\ Len(ms) = Len(sel) /\ Len(sel) \in Nat
      /\ \A j \in 1..Len(sel) : Len(ms[j]) = GroupLen(sel[j]) /\ sel[j] \in 1..GroupCount
  BY MaskFacts
<1>2. \A j \in 1..Len(sel) : L[j] = GroupLen(sel[j])
  BY DEF SelectedLens
<1> HIDE DEF ms, L
<1>3. Placed(FlattenSeq(ms), Places(L, Len(ms)), ms, L, Len(ms))
  BY <1>1, <1>2, FlattenPlaces
<1>4. FlattenSeq(ms) \in Seq(BOOLEAN)
  BY <1>1, FlattenIsSeq
<1>5. Places(L, Len(ms)) = P
  BY <1>1 DEF SelectedPlaces, L
<1>6. ListsPlaces(P, L, Len(sel)) /\ Len(P) \in Nat
  BY <1>1, <1>3, <1>4, <1>5 DEF Placed
<1>7. ASSUME NEW k \in 1..Len(P)
      PROVE  /\ P[k][1] \in 1..Len(sel) /\ sel[P[k][1]] \in 1..GroupCount
             /\ P[k][2] \in 1..GroupLen(sel[P[k][1]])
  <2>1. P[k][1] \in 1..Len(sel) /\ P[k][2] \in 1..L[P[k][1]]
    BY <1>6 DEF ListsPlaces
  <2>2. QED
    BY <1>1, <1>2, <2>1
<1>8. ASSUME NEW j \in 1..Len(sel), NEW i \in 1..GroupLen(sel[j])
      PROVE  \E k \in 1..Len(P) : P[k][1] = j /\ P[k][2] = i
  <2>1. i \in 1..L[j]
    BY <1>2
  <2>2. QED
    BY <1>6, <2>1 DEF ListsPlaces
<1>9. QED
  BY <1>6, <1>7, <1>8

\* ReadRows returns the rows that pass, and no others.
LEMMA ReadIs ==
  ASSUME FileOK, SelectionOK(selected), ReadRows,
         query.deletes # {} => walk.out = FlattenSeq(Masks(selected))
  PROVE  \A x : x \in result' <=> \E q \in 1..FileLen : file.rows[q].id = x /\ Returned(q)
<1> DEFINE sel == selected
           P == SelectedPlaces(sel)
           gs == [j \in DOMAIN sel |-> Groups[sel[j]]]
           pk(x) == [y \in DOMAIN x |-> PageKept(x, y)]
           ps == [j \in DOMAIN sel |-> pk(Groups[sel[j]])]
           rows == SelectedRows
           pages == IF table.pageIndex THEN PageSelection ELSE [k \in DOMAIN rows |-> TRUE]
           grp(k) == sel[P[k][1]]
           off(k) == P[k][2]
           at(k) == GroupStart(grp(k)) + off(k)
<1>1. result' = {rows[k].id : k \in {k \in DOMAIN rows : /\ pages[k]
                                                         /\ query.deletes # {} => walk.out[k]
                                                         /\ RowKept(rows[k])
                                                         /\ KeptAbove(rows[k])}}
  BY DEF ReadRows
<1>2. /\ sel \in Seq(1..GroupCount) /\ Len(sel) \in Nat /\ DOMAIN sel = 1..Len(sel)
      /\ \A j \in 1..Len(sel) : sel[j] \in 1..GroupCount
  BY MaskFacts DEF SelectionOK
<1>3. /\ FileLen \in Nat /\ GroupCount \in Nat /\ RowGroupSize \in Nat \ {0}
      /\ \A h \in 1..GroupCount :
            /\ Groups[h] \in Seq(AnyRow) /\ Len(Groups[h]) = GroupLen(h)
            /\ DOMAIN Groups[h] = 1..GroupLen(h) /\ GroupLen(h) \in Nat /\ GroupStart(h) \in Nat
            /\ \A k \in 1..GroupLen(h) : /\ GroupStart(h) + k \in 1..FileLen
                                         /\ Groups[h][k] = file.rows[GroupStart(h) + k]
  BY GroupFacts, MemberOf
<1>4. /\ Len(P) \in Nat
      /\ \A k \in 1..Len(P) : P[k][1] \in 1..Len(sel) /\ grp(k) \in 1..GroupCount /\ off(k) \in 1..GroupLen(grp(k))
      /\ \A j \in 1..Len(sel) : \A h \in 1..GroupLen(sel[j]) : \E k \in 1..Len(P) : P[k][1] = j /\ P[k][2] = h
  BY PlacesAre
<1> HIDE DEF P, sel
<1>5. /\ DOMAIN rows = 1..Len(P)
      /\ \A k \in 1..Len(P) : rows[k] = file.rows[at(k)] /\ at(k) \in 1..FileLen
  <2>1. gs \in [1..Len(sel) -> Seq(AnyRow)]
    BY <1>2, <1>3
  <2>2. gs \in Seq(Seq(AnyRow)) /\ Len(gs) = Len(sel)
    BY <1>2, <2>1, FunctionIsSeq
  <2>3. \A j \in 1..Len(sel) : gs[j] = Groups[sel[j]] /\ Len(gs[j]) = GroupLen(sel[j])
    BY <1>2, <1>3
  <2>4. rows = FlattenSeq(gs)
    BY DEF SelectedRows, sel
  <2> HIDE DEF gs, rows
  <2>5. /\ FlattenSeq(gs) \in Seq(AnyRow) /\ Len(FlattenSeq(gs)) = Len(P)
        /\ \A k \in 1..Len(P) : FlattenSeq(gs)[k] = gs[P[k][1]][P[k][2]]
    BY <2>2, <2>3, SelectedPlaced DEF P, sel
  <2>6. DOMAIN rows = 1..Len(P)
    BY <2>4, <2>5
  <2>7. ASSUME NEW k \in 1..Len(P) PROVE rows[k] = file.rows[at(k)] /\ at(k) \in 1..FileLen
    <3>1. rows[k] = Groups[grp(k)][off(k)]
      BY <1>4, <2>3, <2>4, <2>5
    <3>2. grp(k) \in 1..GroupCount /\ off(k) \in 1..GroupLen(grp(k))
      BY <1>4
    <3>3. QED
      BY <1>3, <3>1, <3>2
  <2>8. QED
    BY <2>6, <2>7
<1>6. ASSUME query.deletes # {}, NEW k \in 1..Len(P) PROVE walk.out[k] <=> at(k) - 1 \notin query.deletes
  <2> DEFINE ms == Masks(sel)
  <2>1. /\ ms \in Seq(Seq(BOOLEAN)) /\ Len(ms) = Len(sel)
        /\ \A j \in 1..Len(sel) : ms[j] = Mask(sel[j]) /\ Len(ms[j]) = GroupLen(sel[j])
    BY MaskFacts DEF sel
  <2> HIDE DEF ms
  <2>2. \A l \in 1..Len(P) : FlattenSeq(ms)[l] = ms[P[l][1]][P[l][2]]
    BY <2>1, SelectedPlaced DEF P, sel
  <2>3. walk.out = FlattenSeq(ms)
    BY <1>6 DEF ms, sel
  <2>4. walk.out[k] = Mask(grp(k))[off(k)]
    BY <1>4, <2>1, <2>2, <2>3
  <2>5. grp(k) \in 1..GroupCount /\ off(k) \in 1..GroupLen(grp(k))
    BY <1>4
  <2> HIDE DEF grp, off
  <2>6. Mask(grp(k))[off(k)] <=> GroupStart(grp(k)) + off(k) - 1 \notin query.deletes
    BY <2>5 DEF Mask
  <2>7. GroupStart(grp(k)) \in Nat /\ off(k) \in Nat
    BY <1>3, <2>5
  <2>8. QED
    BY <2>4, <2>6, <2>7
<1>7. ASSUME NEW k \in 1..Len(P)
      PROVE  pages[k] <=> (table.pageIndex => PageKept(Groups[grp(k)], off(k)))
  <2>1. CASE ~table.pageIndex
    BY <1>5, <2>1
  <2>2. CASE table.pageIndex
    <3>1. \A h \in 1..GroupCount : pk(Groups[h]) \in [1..GroupLen(h) -> BOOLEAN]
      <4>1. \A x, y : PageKept(x, y) \in BOOLEAN
        BY DEF PageKept, Says
      <4>2. QED
        BY <1>3, <4>1
    <3>2. \A h \in 1..GroupCount : pk(Groups[h]) \in Seq(BOOLEAN) /\ Len(pk(Groups[h])) = GroupLen(h)
      <4> HIDE DEF pk
      <4>1. QED
        BY <1>3, <3>1, FunctionIsSeq
    <3>3. ps \in [1..Len(sel) -> Seq(BOOLEAN)]
      <4> HIDE DEF pk
      <4>1. QED
        BY <1>2, <3>2
    <3>4. \A j \in 1..Len(sel) : ps[j] = pk(Groups[sel[j]]) /\ Len(ps[j]) = GroupLen(sel[j])
      <4> HIDE DEF pk
      <4>1. QED
        BY <1>2, <3>2
    <3>5. PageSelection = FlattenSeq(ps)
      BY DEF PageSelection, sel
    <3> HIDE DEF ps
    <3>6. ps \in Seq(Seq(BOOLEAN)) /\ Len(ps) = Len(sel)
      BY <1>2, <3>3, FunctionIsSeq
    <3>13. \A j \in 1..Len(sel) : Len(ps[j]) = GroupLen(sel[j])
      BY <3>4
    <3>7. \A l \in 1..Len(P) : FlattenSeq(ps)[l] = ps[P[l][1]][P[l][2]]
      <4>1. ASSUME NEW s, s \in Seq(Seq(BOOLEAN)), Len(s) = Len(sel),
                   \A j \in 1..Len(sel) : Len(s[j]) = GroupLen(sel[j])
            PROVE  \A l \in 1..Len(P) : FlattenSeq(s)[l] = s[P[l][1]][P[l][2]]
        BY <4>1, SelectedPlaced DEF P, sel
      <4> HIDE DEF pk
      <4>2. QED
        BY <3>6, <3>13, <4>1
    <3>8. pages[k] = ps[P[k][1]][P[k][2]]
      BY <2>2, <3>5, <3>7
    <3>9. grp(k) \in 1..GroupCount /\ off(k) \in 1..GroupLen(grp(k)) /\ P[k][1] \in 1..Len(sel)
      BY <1>4
    <3>10. pages[k] = pk(Groups[grp(k)])[off(k)]
      BY <3>4, <3>8, <3>9
    <3> HIDE DEF grp, off, pages
    <3>11. pk(Groups[grp(k)])[off(k)] = PageKept(Groups[grp(k)], off(k))
      BY <1>3, <3>9
    <3>12. QED
      BY <2>2, <3>10, <3>11
  <2>3. QED
    BY <2>1, <2>2
<1>8. ASSUME NEW k \in 1..Len(P)
      PROVE  /\ ChunkOf(at(k), RowGroupSize) = grp(k) /\ at(k) - GroupStart(grp(k)) = off(k)
             /\ GroupKept(grp(k))
  <2>1. grp(k) \in 1..GroupCount /\ off(k) \in 1..GroupLen(grp(k)) /\ P[k][1] \in 1..Len(sel)
    BY <1>4
  <2>2. GroupKept(grp(k))
    BY <2>1 DEF SelectionOK, sel
  <2> HIDE DEF grp, off
  <2>3. ChunkOf(GroupStart(grp(k)) + off(k), RowGroupSize) = grp(k)
    BY <1>3, <2>1, ChunkUnique DEF GroupCount, GroupLen, GroupStart
  <2>4. GroupStart(grp(k)) + off(k) - GroupStart(grp(k)) = off(k)
    BY <1>3, <2>1
  <2>5. GroupStart(grp(k)) \in Nat /\ off(k) \in Nat
    BY <1>3, <2>1
  <2>6. QED
    BY <2>2, <2>3, <2>4, <2>5
<1> HIDE DEF rows, pages
<1>9. ASSUME NEW k \in 1..Len(P)
      PROVE  Returned(at(k)) <=> /\ pages[k] /\ (query.deletes # {} => walk.out[k])
                                 /\ RowKept(rows[k]) /\ KeptAbove(rows[k])
  <2>1. KeptAbove(rows[k])
    BY DEF KeptAbove, FilteredAbove
  <2>2. rows[k] = file.rows[at(k)]
    BY <1>5
  <2>3. (query.deletes # {} => walk.out[k]) <=> at(k) - 1 \notin query.deletes
    BY <1>6
  <2>4. pages[k] <=> (table.pageIndex => PageKept(Groups[grp(k)], off(k)))
    BY <1>7
  <2> HIDE DEF at, grp, off
  <2>5. QED
    BY <1>8, <2>1, <2>2, <2>3, <2>4 DEF Returned
<1>10. ASSUME NEW q \in 1..FileLen, Returned(q) PROVE \E k \in 1..Len(P) : at(k) = q
  <2> DEFINE h == ChunkOf(q, RowGroupSize)
             o == q - GroupStart(h)
  <2>1. h \in 1..GroupCount /\ o \in 1..GroupLen(h)
    BY <1>3, ChunkFound DEF GroupCount, GroupLen, GroupStart
  <2>2. GroupKept(h)
    BY <1>10 DEF Returned
  <2>3. GroupStart(h) + o = q
    BY <1>3, <2>1
  <2> HIDE DEF h, o
  <2>4. PICK j \in 1..Len(sel) : sel[j] = h
    BY <2>1, <2>2 DEF SelectionOK, sel
  <2>5. PICK k \in 1..Len(P) : P[k][1] = j /\ P[k][2] = o
    BY <1>4, <2>1, <2>4
  <2>6. at(k) = q
    BY <2>3, <2>4, <2>5
  <2>7. QED
    BY <2>6
<1> HIDE DEF at
<1>11. ASSUME NEW x, x \in result' PROVE \E q \in 1..FileLen : file.rows[q].id = x /\ Returned(q)
  <2>1. PICK k \in 1..Len(P) : /\ rows[k].id = x /\ pages[k] /\ (query.deletes # {} => walk.out[k])
                               /\ RowKept(rows[k]) /\ KeptAbove(rows[k])
    BY <1>1, <1>5, <1>11
  <2>2. Returned(at(k)) /\ rows[k] = file.rows[at(k)] /\ at(k) \in 1..FileLen
    BY <1>5, <1>9, <2>1
  <2>3. QED
    BY <2>1, <2>2
<1>12. ASSUME NEW x, NEW q \in 1..FileLen, file.rows[q].id = x, Returned(q) PROVE x \in result'
  <2>1. PICK k \in 1..Len(P) : at(k) = q
    BY <1>10, <1>12
  <2>2. /\ pages[k] /\ (query.deletes # {} => walk.out[k]) /\ RowKept(rows[k]) /\ KeptAbove(rows[k])
        /\ rows[k].id = x /\ k \in DOMAIN rows
    BY <1>5, <1>9, <1>12, <2>1
  <2>3. QED
    BY <1>1, <2>2
<1>13. QED
  BY <1>11, <1>12

-----------------------------------------------------------------------------
(* The plan left the file out. *)
PlanPruned == ~(SaysNothing(query.filter) \/ (ManifestKept /\ PartitionKept /\ MetricsKept))

Answer == \A x : x \in result <=> \E q \in 1..FileLen : file.rows[q].id = x /\ Returned(q)

ReadInv ==
    /\ stage \in {"idle", "plan", "open", "deletes", "read", "done"}
    /\ stage # "idle" => FileOK
    /\ stage \in {"deletes", "read"} => SelectionOK(selected)
    /\ stage = "deletes" => WalkOK(walk, selected)
    /\ stage = "read" /\ query.deletes # {} => walk.out = FlattenSeq(Masks(selected))
    /\ stage # "done" => result = {}
    /\ stage = "done" => (PlanPruned /\ result = {}) \/ Answer

\* Which row groups, pages and rows are kept depends on the table, the file
\* and the query.
LEMMA SameKept ==
  ASSUME UNCHANGED <<tid, file, query>>
  PROVE  /\ Groups' = Groups
         /\ \A i : GroupKept(i)' <=> GroupKept(i)
         /\ \A g, i : PageKept(g, i)' <=> PageKept(g, i)
         /\ \A r : RowKept(r)' <=> RowKept(r)
<1>1. table' = table /\ file' = file /\ query' = query
  BY DEF table
<1>2. Groups' = Groups
  BY <1>1 DEF Groups
<1>3. ASSUME NEW i PROVE GroupKept(i)' <=> GroupKept(i)
  BY <1>1, <1>2 DEF GroupKept, Says, Evaluate
<1>4. ASSUME NEW g, NEW i PROVE PageKept(g, i)' <=> PageKept(g, i)
  BY <1>1 DEF PageKept, Says, Evaluate
<1>5. ASSUME NEW r PROVE RowKept(r)' <=> RowKept(r)
  BY <1>1 DEF RowKept, Says, Evaluate
<1>6. QED
  BY <1>2, <1>3, <1>4, <1>5

\* So does what the reader's invariant says of the selection and the walk.
LEMMA SameRead ==
  ASSUME UNCHANGED <<tid, input, file, query>>
  PROVE  /\ FileOK' <=> FileOK
         /\ \A sel : SelectionOK(sel)' <=> SelectionOK(sel)
         /\ \A w, sel : WalkOK(w, sel)' <=> WalkOK(w, sel)
         /\ \A sel : Masks(sel)' = Masks(sel)
         /\ \A q : Returned(q)' <=> Returned(q)
         /\ FileLen' = FileLen
<1>1. /\ FileLen' = FileLen /\ GroupCount' = GroupCount
      /\ \A i : GroupLen(i)' = GroupLen(i) /\ Base(i)' = Base(i) /\ GroupStart(i)' = GroupStart(i)
  BY DEF FileLen, GroupCount, GroupLen, Base, GroupStart
<1>2. AnyRow' = AnyRow /\ table' = table
  BY SameRuns DEF AnyRow, table
<1>3. FileOK' <=> FileOK
  BY <1>1, <1>2 DEF FileOK
<1>4. ASSUME NEW sel PROVE SelectionOK(sel)' <=> SelectionOK(sel)
  BY <1>1, SameKept DEF SelectionOK
<1>5. ASSUME NEW i PROVE Mask(i)' = Mask(i)
  BY <1>1 DEF Mask
<1>6. ASSUME NEW sel PROVE Masks(sel)' = Masks(sel)
  BY <1>5 DEF Masks
<1>7. ASSUME NEW c, NEW r, NEW b PROVE Ahead(c, r, b)' <=> Ahead(c, r, b)
  BY DEF Ahead
<1>8. ASSUME NEW w, NEW sel PROVE WalkOK(w, sel)' <=> WalkOK(w, sel)
  BY <1>1, <1>6, <1>7 DEF WalkOK
<1>9. ASSUME NEW q PROVE Returned(q)' <=> Returned(q)
  BY <1>1, <1>2, SameKept DEF Returned
<1>10. QED
  BY <1>1, <1>3, <1>4, <1>6, <1>8, <1>9

\* SelectRowGroups lists the row groups that are kept.
LEMMA SelectedIs ==
  ASSUME FileOK
  PROVE  SelectionOK(InOrder({i \in DOMAIN Groups : GroupKept(i)}))
<1> DEFINE S == {i \in DOMAIN Groups : GroupKept(i)}
           sel == InOrder(S)
           c == Cardinality(S)
<1>1. GroupCount \in Nat /\ DOMAIN Groups = 1..GroupCount
  BY GroupFacts
<1>2. IsFiniteSet(S) /\ S \subseteq Int /\ S \subseteq 1..GroupCount
  <2>1. IsFiniteSet(1..GroupCount)
    BY <1>1, FS_Interval
  <2>2. QED
    BY <1>1, <2>1, FS_Subset
<1>3. \A i \in 1..GroupCount : GroupKept(i) <=> i \in S
  BY <1>1
<1> HIDE DEF S
<1>4. /\ c \in Nat /\ sel \in [1..c -> S] /\ (\A x \in S : \E i \in 1..c : sel[i] = x)
      /\ \A i, j \in 1..c : i < j => sel[i] < sel[j]
  BY <1>2, InOrderIs DEF Enumerates, Ascends
<1> HIDE DEF sel, c
<1>5. sel \in [1..c -> 1..GroupCount]
  BY <1>2, <1>4
<1>6. sel \in Seq(1..GroupCount) /\ Len(sel) = c
  BY <1>4, <1>5, FunctionIsSeq
<1>7. \A j \in 1..c : sel[j] \in S
  BY <1>4
<1>8. SelectionOK(sel)
  BY <1>3, <1>4, <1>6, <1>7 DEF SelectionOK
<1>9. QED
  BY <1>8 DEF sel, S

\* What the plan decides depends on the files of the table too.
LEMMA SamePlan ==
  ASSUME UNCHANGED <<tid, output, file, query>>
  PROVE  PlanPruned' <=> PlanPruned
<1>1. table' = table /\ file' = file /\ query' = query /\ output' = output
  BY DEF table
<1>2. Partitioned' <=> Partitioned
  BY <1>1 DEF Partitioned
<1>3. ManifestKept' <=> ManifestKept
  BY <1>1, <1>2 DEF ManifestKept, ManifestSummary, Says, Evaluate
<1>4. PartitionKept' <=> PartitionKept
  BY <1>1, <1>2 DEF PartitionKept, Says, Evaluate
<1>5. MetricsKept' <=> MetricsKept
  BY <1>1 DEF MetricsKept, Says, Evaluate
<1>6. QED
  BY <1>1, <1>3, <1>4, <1>5 DEF PlanPruned

\* Every step keeps the reader's invariant.
LEMMA ReadStep ==
  ASSUME WriterInv, ReadInv, [Next]_vars
  PROVE  ReadInv'
<1>1. CASE Write
  BY <1>1 DEF Write, readVars, ReadInv
<1>2. CASE \E f \in table.filters, d \in table.deletes : ChooseQuery(f, d)
  <2>1. PICK f, d : ChooseQuery(f, d)
    BY <1>2
  <2>2. stage' = "plan" /\ result' = result /\ stage = "idle"
    BY <2>1 DEF ChooseQuery
  <2>3. FileOK'
    BY <2>1, ChosenFile
  <2>4. QED
    BY <2>2, <2>3 DEF ReadInv
<1>3. CASE PlanFile
  <2>1. /\ stage = "plan" /\ stage' = IF PlanPruned THEN "done" ELSE "open"
        /\ UNCHANGED <<tid, input, output, query, file, result>>
    BY <1>3 DEF PlanFile, PlanPruned, writerVars
  <2>2. FileOK' /\ result = {}
    BY <2>1, SameRead DEF ReadInv
  <2>3. PlanPruned => PlanPruned'
    BY <2>1, SamePlan
  <2>4. QED
    BY <2>1, <2>2, <2>3 DEF ReadInv
<1>4. CASE SelectRowGroups
  <2> DEFINE first == IF query.deletes = {} THEN -1 ELSE Least(query.deletes)
             w == [idx |-> 1, sel |-> 1, base |-> 0, cached |-> first,
                   rest |-> query.deletes \ {first}, out |-> <<>>]
             sel == InOrder({i \in DOMAIN Groups : GroupKept(i)})
  <2>1. /\ stage = "open" /\ stage' = IF query.deletes = {} THEN "read" ELSE "deletes"
        /\ selected' = sel /\ walk' = w /\ UNCHANGED <<tid, input, query, file, result>>
    BY <1>4 DEF SelectRowGroups, writerVars
  <2>2. FileOK /\ result = {}
    BY <2>1 DEF ReadInv
  <2>3. SelectionOK(sel)
    BY <2>2, SelectedIs
  <2>4. query.deletes # {} => WalkOK(w, sel)
    <3> HIDE DEF sel
    <3>1. QED
      BY <2>2, <2>3, WalkStarts
  <2> HIDE DEF w, sel
  <2>5. FileOK' /\ SelectionOK(selected)' /\ (query.deletes # {} => WalkOK(walk, selected)')
    BY <2>1, <2>2, <2>3, <2>4, SameRead
  <2>6. QED
    BY <2>1, <2>2, <2>5 DEF ReadInv
<1>5. CASE WalkDeletes
  <2>1. /\ stage = "deletes" /\ UNCHANGED <<tid, input, query, file, selected, result>>
        /\ FileOK /\ SelectionOK(selected) /\ WalkOK(walk, selected) /\ result = {}
    BY <1>5 DEF WalkDeletes, writerVars, ReadInv
  <2>2. FileOK' /\ SelectionOK(selected)'
    BY <2>1, SameRead
  <2>3. Len(Groups) = GroupCount /\ GroupCount \in Nat /\ Len(selected) \in Nat
        /\ walk.idx \in Nat /\ walk.sel \in Nat
    BY <2>1, GroupFacts, MaskFacts DEF WalkOK
  <2>4. CASE walk.idx > Len(Groups) \/ walk.sel > Len(selected)
    <3>1. stage' = "read" /\ walk' = walk
      BY <1>5, <2>4 DEF WalkDeletes
    <3>2. walk.out = FlattenSeq(Masks(selected))
      BY <2>1, <2>3, <2>4, WalkEnds
    <3>3. walk'.out = FlattenSeq(Masks(selected)')
      BY <2>1, <3>1, <3>2, SameRead
    <3>4. QED
      BY <2>1, <2>2, <3>1, <3>3 DEF ReadInv
  <2>5. CASE ~(walk.idx > Len(Groups) \/ walk.sel > Len(selected))
    <3>1. /\ stage' = stage
          /\ walk' = IF walk.idx = selected[walk.sel]
                     THEN TakeGroup(walk, Len(Groups[walk.idx]))
                     ELSE SkipGroup(walk, Len(Groups[walk.idx]))
      BY <1>5, <2>5 DEF WalkDeletes
    <3>2. walk.idx <= GroupCount /\ walk.sel <= Len(selected)
      BY <2>3, <2>5
    <3>3. WalkOK(walk', selected)
      <4>1. CASE walk.idx = selected[walk.sel]
        BY <2>1, <3>1, <3>2, <4>1, TakeKeeps
      <4>2. CASE walk.idx # selected[walk.sel]
        BY <2>1, <3>1, <3>2, <4>2, SkipKeeps
      <4>3. QED
        BY <4>1, <4>2
    <3>4. WalkOK(walk, selected)'
      BY <2>1, <3>3, SameRead
    <3>5. QED
      BY <2>1, <2>2, <3>1, <3>4 DEF ReadInv
  <2>6. QED
    BY <2>4, <2>5
<1>6. CASE ReadRows
  <2>1. /\ stage = "read" /\ stage' = "done" /\ UNCHANGED <<tid, input, query, file, selected, walk>>
        /\ FileOK /\ SelectionOK(selected)
        /\ query.deletes # {} => walk.out = FlattenSeq(Masks(selected))
    BY <1>6 DEF ReadRows, writerVars, ReadInv
  <2>2. \A x : x \in result' <=> \E q \in 1..FileLen : file.rows[q].id = x /\ Returned(q)
    BY <1>6, <2>1, ReadIs
  <2>3. FileOK' /\ FileLen' = FileLen /\ file' = file /\ \A q : Returned(q)' <=> Returned(q)
    BY <2>1, SameRead
  <2>4. Answer'
    BY <2>2, <2>3 DEF Answer
  <2>5. QED
    BY <2>1, <2>3, <2>4 DEF ReadInv
<1>7. CASE UNCHANGED vars
  <2>1. /\ UNCHANGED <<tid, input, file, query>>
        /\ UNCHANGED <<stage, selected, walk, result, output>>
    BY <1>7 DEF vars
  <2>3. PlanPruned => PlanPruned'
    BY <2>1, SamePlan
  <2>4. Answer => Answer'
    BY <2>1, SameRead DEF Answer
  <2>5. /\ FileOK => FileOK'
        /\ SelectionOK(selected) => SelectionOK(selected)'
        /\ WalkOK(walk, selected) => WalkOK(walk, selected)'
        /\ Masks(selected)' = Masks(selected)
    BY <2>1, SameRead
  <2>6. QED
    BY <2>1, <2>3, <2>4, <2>5 DEF ReadInv
<1>8. QED
  BY <1>1, <1>2, <1>3, <1>4, <1>5, <1>6, <1>7 DEF Next

\* The rows of a file are told apart by their ids.
LEMMA FileIds ==
  ASSUME FileOK, Len(input) \in Nat, NEW p \in 1..FileLen, NEW q \in 1..FileLen,
         file.rows[p].id = file.rows[q].id
  PROVE  p = q
<1>1. file.rows \in Seq(AnyRow) /\ FileLen \in Nat
      /\ \A i, j \in 1..FileLen : i < j => file.rows[i].id < file.rows[j].id
  BY GroupFacts DEF FileOK
<1>2. file.rows[p].id \in Nat /\ file.rows[q].id \in Nat
  <2>1. file.rows[p] \in AnyRow /\ file.rows[q] \in AnyRow
    BY <1>1, MemberOf DEF FileLen
  <2>2. QED
    BY <2>1, AnyRowFacts
<1>3. ~(p < q) /\ ~(q < p)
  BY <1>1, <1>2
<1>4. QED
  BY <1>1, <1>3

\* Initially, and in every step.
LEMMA ReaderInv ==
  ASSUME TRUE
  PROVE  /\ Init => WriterInv /\ ReadInv
         /\ WriterInv /\ ReadInv /\ [Next]_vars => (WriterInv /\ ReadInv)'
<1>1. Init => WriterInv /\ ReadInv
  <2>1. Init => ReadInv
    BY DEF Init, ReadInv
  <2>2. QED
    BY <2>1, WriterInitOK DEF Init
<1>2. QED
  BY <1>1, WriterStep, ReadStep

\* A deleted row is not returned, and the walk holds no delete it has passed
\* (build_deletes_row_selection), whatever row groups are skipped.
THEOREM NeverReturnsDeleted == Spec => []DeletesRespected
<1>1. WriterInv /\ ReadInv => DeletesRespected
  <2> SUFFICES ASSUME WriterInv, ReadInv PROVE DeletesRespected
    OBVIOUS
  <2>1. ASSUME stage = "done", NEW i \in DOMAIN file.rows, Deleted(file.rows[i]),
               file.rows[i].id \in result
        PROVE  FALSE
    <3>1. FileOK /\ Answer
      BY <2>1 DEF ReadInv
    <3>2. Len(input) \in Nat /\ DOMAIN file.rows = 1..FileLen /\ FileLen \in Nat
      BY <3>1, InputFacts, GroupFacts DEF WriterInv, FileOK, FileLen
    <3>3. PICK q \in 1..FileLen : file.rows[q].id = file.rows[i].id /\ Returned(q)
      BY <2>1, <3>1 DEF Answer
    <3>4. q = i
      BY <3>1, <3>2, <3>3, FileIds
    <3>5. PICK d \in query.deletes : d + 1 \in DOMAIN file.rows /\ file.rows[d + 1] = file.rows[i]
      BY <2>1 DEF Deleted
    <3>6. d + 1 = i
      BY <3>1, <3>2, <3>5, FileIds
    <3>7. d \in Nat
      BY <3>1, DeleteFacts
    <3>8. q - 1 = d
      BY <3>4, <3>6, <3>7
    <3>9. QED
      BY <3>3, <3>8 DEF Returned
  <2>2. ASSUME stage = "deletes", walk.cached # -1 PROVE walk.cached >= walk.base
    <3>1. Ahead(walk.cached, walk.rest, walk.base)
      BY <2>2 DEF ReadInv, WalkOK
    <3>2. QED
      BY <2>2, <3>1 DEF Ahead
  <2>3. QED
    BY <2>1, <2>2 DEF DeletesRespected
<1>2. QED
  BY <1>1, ReaderInv, PTL DEF Spec

\* A filter of plain conditions, with its NOT rewritten, is its static predicate.
LEMMA PlainConverted ==
  ASSUME NEW f, \A c \in Conds(Rewritten(f)) : c.form = "plain"
  PROVE  Static(f) = Rewritten(f)
<1> DEFINE g == Rewritten(f)
<1>1. \A c : Negate(c).form = c.form
  BY DEF Negate, Cond
<1>2. /\ f.con \in {"one", "not"} => g.con = "one"
      /\ g.l.form = f.l.form /\ g.r.form = f.r.form
      /\ f.con \notin {"one", "not"} => g.con # "one"
  BY <1>1 DEF Rewritten, Filter
<1> HIDE DEF g
<1>3. CASE f.con \in {"one", "not"}
  <2>1. f.l.form # "opaque"
    BY <1>2, <1>3 DEF Conds, g
  <2>2. Converted(f, LogicalConverts) = f
    BY <1>3, <2>1 DEF Converted, LogicalConverts
  <2>3. QED
    BY <2>2 DEF Static
<1>4. CASE f.con \notin {"one", "not"}
  <2>1. f.l.form # "opaque" /\ f.r.form # "opaque"
    BY <1>2, <1>4 DEF Conds, g
  <2>2. LogicalConverts(f.l) /\ LogicalConverts(f.r)
    BY <2>1 DEF LogicalConverts
  <2>3. Converted(f, LogicalConverts) = f
    BY <1>4, <2>2 DEF Converted
  <2>4. QED
    BY <2>3 DEF Static
<1>5. QED
  BY <1>3, <1>4

\* The row filter is exact on the conditions it is not known to take for true.
LEMMA FilterExact ==
  ASSUME NEW c, ~MayBeExtra(c), NEW v, file.old => v = table.default,
         IF file.old THEN FilterMissing(c) ELSE FilterPresent(c, v)
  PROVE  Means(c, v)
<1>1. c.form = "plain" /\ c.op # "is_nan"
  BY DEF MayBeExtra
<1>2. CASE file.old
  <2>1. v = Null /\ c.op \notin {"not_nan", "lt", "lteq", "not_starts_with", "not_in"}
    BY <1>2 DEF MayBeExtra, DefaultInvisible
  <2>2. c.op = "is_null"
    BY <1>2, <2>1 DEF FilterMissing
  <2>3. QED
    BY <1>1, <2>1, <2>2 DEF Means, Holds
<1>3. CASE ~file.old
  BY <1>1, <1>3 DEF FilterPresent, Means
<1>4. QED
  BY <1>2, <1>3

\* What the scan reports as filtered is filtered (PredicateConverter,
\* handle_child_pushdown_result), outside the cases MayBeExtra names.
THEOREM ReturnsOnlyMatching == Spec => []OnlyMatching
<1>1. WriterInv /\ ReadInv => OnlyMatching
  <2> SUFFICES ASSUME WriterInv, ReadInv, stage = "done",
                      \A c \in Conds(Rewritten(query.filter)) : ~MayBeExtra(c),
                      NEW i \in DOMAIN file.rows, file.rows[i].id \in result
               PROVE  Satisfies(query.filter, file.rows[i].cell)
    BY DEF OnlyMatching
  <2> DEFINE f == Rewritten(query.filter)
             v == file.rows[i].cell
  <2>1. FileOK /\ Answer
    BY DEF ReadInv
  <2>2. Len(input) \in Nat /\ DOMAIN file.rows = 1..FileLen
    BY <2>1, InputFacts DEF WriterInv, FileOK, FileLen
  <2>3. PICK q \in 1..FileLen : file.rows[q].id = file.rows[i].id /\ Returned(q)
    BY <2>1 DEF Answer
  <2>4. q = i
    BY <2>1, <2>2, <2>3, FileIds
  <2>5. RowKept(file.rows[i])
    BY <2>3, <2>4 DEF Returned
  <2>6. file.old => v = table.default
    BY <2>1, <2>2 DEF FileOK
  <2> HIDE DEF v
  <2>7. Static(query.filter) = f
    <3>1. \A c \in Conds(f) : c.form = "plain"
      BY DEF MayBeExtra
    <3>2. QED
      BY <3>1, PlainConverted
  <2>8. Evaluate(Static(query.filter), LAMBDA c : IF file.old THEN FilterMissing(c) ELSE FilterPresent(c, v))
    BY <2>5 DEF RowKept, Says, v
  <2>9. \A c \in Conds(f) : (IF file.old THEN FilterMissing(c) ELSE FilterPresent(c, v)) => Means(c, v)
    BY <2>6, FilterExact
  <2> HIDE DEF f
  <2>10. Evaluate(f, LAMBDA c : Means(c, v))
    BY <2>7, <2>8, <2>9 DEF Evaluate, Conds
  <2>11. QED
    BY <2>10 DEF Satisfies, f, v
<1>2. QED
  BY <1>1, ReaderInv, PTL DEF Spec

-----------------------------------------------------------------------------
\* Cells are integers, and Null, NaN and None are none of them.
LEMMA CellFacts ==
  /\ Lowest \in Int /\ Highest \in Int /\ Values \subseteq Int /\ IsFiniteSet(Values)
  /\ Null \in Int /\ NaN \in Int /\ None \in Int
  /\ \A v \in Values : v # Null /\ v # NaN /\ v # None /\ Null < v /\ v < NaN
  /\ Null # NaN /\ Null # None /\ NaN # None
<1>1. Lowest \in Int /\ Highest \in Int /\ Lowest <= Highest
  BY StringsAssumption
<1>2. IsFiniteSet(Lowest..Highest)
  BY <1>1, FS_Interval
<1>3. QED
  BY <1>1, <1>2 DEF Values, Null, NaN, None

\* The facts about strings that concern one of them or two.
LEMMA CutFacts ==
  ASSUME NEW s \in Values, NEW n \in Nat
  PROVE  /\ Chars[s] \in Nat /\ Chars[s] \in Lengths /\ Bytes[s] \in Nat /\ Chars[s] <= Bytes[s]
         /\ First(s, n) \in Values /\ First(s, n) <= s
         /\ n \in Lengths => First(s, n) = Take[s][n]
         /\ n \notin Lengths => First(s, n) = s
         /\ n >= Chars[s] => First(s, n) = s
<1>1. /\ MaxChars \in Nat /\ Chars[s] \in Lengths /\ Bytes[s] \in Nat /\ Chars[s] <= Bytes[s]
      /\ \A m \in Lengths : Take[s][m] \in Values /\ Take[s][m] <= s /\ (m >= Chars[s] => Take[s][m] = s)
  BY StringsAssumption
<1>2. Chars[s] \in Nat /\ Chars[s] <= MaxChars
  BY <1>1 DEF Lengths
<1>3. n \in Lengths <=> n <= MaxChars
  BY <1>1 DEF Lengths
<1>4. CASE n < Chars[s]
  <2>1. First(s, n) = Take[s][n] /\ n \in Lengths
    BY <1>1, <1>2, <1>3, <1>4 DEF First, Shorter
  <2>2. QED
    BY <1>1, <1>2, <1>4, <2>1
<1>5. CASE n >= Chars[s]
  <2>1. First(s, n) = Take[s][Chars[s]]
    BY <1>2, <1>5 DEF First, Shorter
  <2>2. First(s, n) = s
    BY <1>1, <1>2, <2>1
  <2>3. QED
    BY <1>1, <1>2, <1>5, <2>2, CellFacts
<1>6. QED
  BY <1>2, <1>4, <1>5

\* Cutting keeps the order.
LEMMA CutOrder ==
  ASSUME NEW s \in Values, NEW t \in Values, NEW n \in Nat, s <= t
  PROVE  First(s, n) <= First(t, n)
<1>1. CASE n \in Lengths
  <2>1. Take[s][n] <= Take[t][n]
    BY <1>1, StringsAssumption
  <2>2. QED
    BY <1>1, <2>1, CutFacts
<1>2. CASE n \notin Lengths
  BY <1>2, CutFacts
<1>3. QED
  BY <1>1, <1>2

\* A string that starts with a prefix is cut to it, and only such a string.
LEMMA StartsCut ==
  ASSUME NEW s \in Values, NEW p \in Values
  PROVE  Cut(s, p) \in Values /\ (StartsWith(s, p) <=> Cut(s, p) = p)
<1>1. Chars[p] \in Nat /\ Chars[p] \in Lengths
  BY CutFacts, 0 \in Nat
<1>2. First(s, Chars[p]) \in Values /\ First(s, Chars[p]) = Take[s][Chars[p]]
  BY <1>1, CutFacts
<1>3. QED
  BY <1>2 DEF StartsWith, Cut

-----------------------------------------------------------------------------
(* Bounds of cells among which v is, and what each operator's check makes  *)
(* of them.                                                                *)
Within(lo, up, v) ==
    /\ lo \in Values \cup {None} /\ up \in Values \cup {None}
    /\ lo = None \/ lo <= v
    /\ up = None \/ v <= up

\* starts_with: the cut bounds enclose the prefix.
LEMMA StartsWithOK ==
  ASSUME NEW c, NEW v \in Values, NEW lo, NEW up, Within(lo, up, v), Lit(c) \in Values,
         StartsWith(v, Lit(c))
  PROVE  StartsWithFits(c, lo, up)
<1> DEFINE p == Lit(c)
<1>1. Cut(v, p) = p /\ p \in Values /\ Chars[p] \in Nat
  BY StartsCut, CutFacts, 0 \in Nat
<1> HIDE DEF p
<1>2. ASSUME lo # None PROVE p >= Cut(lo, p)
  <2>1. lo \in Values /\ lo <= v
    BY <1>2 DEF Within
  <2>2. Cut(lo, p) <= Cut(v, p)
    BY <1>1, <2>1, CutOrder DEF Cut
  <2>3. QED
    BY <1>1, <2>1, <2>2, StartsCut, CellFacts
<1>3. ASSUME up # None PROVE p <= Cut(up, p)
  <2>1. up \in Values /\ v <= up
    BY <1>3 DEF Within
  <2>2. Cut(v, p) <= Cut(up, p)
    BY <1>1, <2>1, CutOrder DEF Cut
  <2>3. QED
    BY <1>1, <2>2
<1>4. QED
  BY <1>2, <1>3 DEF StartsWithFits, p

\* not_starts_with: between two strings with a prefix there are no others.
LEMMA NotStartsWithOK ==
  ASSUME NEW c, NEW v \in Values, NEW lo, NEW up, Within(lo, up, v), Lit(c) \in Values,
         ~StartsWith(v, Lit(c))
  PROVE  NotStartsWithFits(c, lo, up)
<1> DEFINE p == Lit(c)
<1> SUFFICES ASSUME lo # None, up # None, StartsWith(lo, p), StartsWith(up, p) PROVE FALSE
  BY DEF NotStartsWithFits
<1>1. lo \in Values /\ up \in Values /\ lo <= v /\ v <= up /\ p \in Values /\ Chars[p] \in Nat
  BY CutFacts, 0 \in Nat DEF Within
<1>2. Cut(lo, p) = p /\ Cut(up, p) = p /\ Cut(v, p) # p /\ Cut(v, p) \in Values
  BY <1>1, StartsCut
<1> HIDE DEF p
<1>3. Cut(lo, p) <= Cut(v, p) /\ Cut(v, p) <= Cut(up, p)
  BY <1>1, CutOrder DEF Cut
<1>4. p \in Int /\ Cut(v, p) \in Int
  BY <1>1, <1>2, CellFacts
<1>5. p <= Cut(v, p) /\ Cut(v, p) <= p
  BY <1>2, <1>3
<1>6. QED
  BY <1>2, <1>4, <1>5

\* The comparisons.
LEMMA ComparisonOK ==
  ASSUME NEW c, NEW v \in Values, NEW lo, NEW up, Within(lo, up, v), Lit(c) \in Int,
         c.op \in {"lt", "lteq", "gt", "gteq"}, Compares(c.op, v, Lit(c))
  PROVE  InequalityFits(c, lo, up)
<1> DEFINE p == Lit(c)
<1>1. /\ v \in Int /\ p \in Int /\ None \in Int
      /\ lo \in Int /\ up \in Int /\ (lo = None \/ lo <= v) /\ (up = None \/ v <= up)
  BY CellFacts DEF Within
<1> HIDE DEF p
<1>2. CASE c.op = "lt"
  <2>1. v < p
    BY <1>2 DEF Compares, p
  <2>2. lo = None \/ lo < p
    BY <1>1, <2>1
  <2>3. QED
    BY <1>2, <2>2 DEF InequalityFits, Compares, p
<1>3. CASE c.op = "lteq"
  <2>1. v <= p
    BY <1>3 DEF Compares, p
  <2>2. lo = None \/ lo <= p
    BY <1>1, <2>1
  <2>3. QED
    BY <1>3, <2>2 DEF InequalityFits, Compares, p
<1>4. CASE c.op = "gt"
  <2>1. v > p
    BY <1>4 DEF Compares, p
  <2>2. up = None \/ up > p
    BY <1>1, <2>1
  <2>3. QED
    BY <1>4, <2>2 DEF InequalityFits, Compares, p
<1>5. CASE c.op = "gteq"
  <2>1. v >= p
    BY <1>5 DEF Compares, p
  <2>2. up = None \/ up >= p
    BY <1>1, <2>1
  <2>3. QED
    BY <1>5, <2>2 DEF InequalityFits, Compares, p
<1>6. QED
  BY <1>2, <1>3, <1>4, <1>5

\* The other checks of bounds.
LEMMA MembershipOK ==
  ASSUME NEW c, NEW v \in Values, NEW lo, NEW up, Within(lo, up, v)
  PROVE  /\ v = Lit(c) => EqFits(c, lo, up)
         /\ v \in c.lits => InFits(c, lo, up)
<1>1. v \in Int /\ (lo = None \/ v >= lo) /\ (up = None \/ v <= up) /\ (up = None \/ up >= v)
      /\ (lo = None \/ lo <= v)
  BY CellFacts DEF Within
<1>2. QED
  BY <1>1 DEF EqFits, InFits

-----------------------------------------------------------------------------
(* What statistics must say for the evaluators not to miss a cell.         *)
Covers(s, v) ==
    /\ v = Null => s.nulls # 0
    /\ v # Null => ~NullsOnly(s)
    /\ v \in Values => ~NansOnly(s) /\ Within(s.lower, s.upper, v)

\* A condition that is accepted has its literal, if it has one, in the column's
\* type, and holds of a cell as its operator says.
LEMMA HoldsIs ==
  ASSUME NEW kind, NEW c, Accepts(kind, c), NEW v \in Values \cup {Null}, Holds(c, v)
  PROVE  /\ c.op \in Ops
         /\ c.op = "is_null" => v = Null
         /\ c.op # "is_null" => v \in Values
         /\ c.op # "is_nan"
         /\ c.op \in CompareOps => Lit(c) \in Int /\ Compares(c.op, v, Lit(c))
         /\ c.op = "eq" => v = Lit(c)
         /\ c.op \in PrefixOps => Lit(c) \in Values /\ kind = "string"
         /\ c.op = "starts_with" => StartsWith(v, Lit(c))
         /\ c.op = "not_starts_with" => ~StartsWith(v, Lit(c))
         /\ c.op = "in" => v \in c.lits
<1>1. c.op \in Ops /\ c.lits \subseteq Literals(kind)
  BY DEF Accepts
<1>2. v = Null \/ v \in Values
  OBVIOUS
<1>3. ASSUME c.op \in CompareOps \cup PrefixOps PROVE Lit(c) \in Literals(kind)
  <2>1. PICK l \in Literals(kind) : c.lits = {l}
    BY <1>3 DEF Accepts
  <2>2. Lit(c) = l
    BY <2>1 DEF Lit
  <2>3. QED
    BY <2>2
<1>4. c.op \in PrefixOps => kind = "string"
  BY DEF Accepts
<1>5. /\ Literals(kind) \subseteq Int
      /\ kind = "string" => Literals(kind) \subseteq Values
  BY CellFacts DEF Literals, Values
<1>6. c.op = "is_null" => v = Null
  BY DEF Holds
<1>7. ASSUME c.op # "is_null" PROVE v # Null
  BY <1>1, <1>7, CellFacts DEF Holds, Ops
<1>8. c.op # "is_nan"
  BY CellFacts DEF Holds
<1>9. c.op \in CompareOps => Compares(c.op, v, Lit(c))
  BY DEF Holds, CompareOps
<1>10. /\ c.op = "starts_with" => StartsWith(v, Lit(c))
       /\ c.op = "not_starts_with" => ~StartsWith(v, Lit(c))
       /\ c.op = "in" => v \in c.lits
  BY DEF Holds
<1>11. c.op = "eq" => v = Lit(c)
  BY <1>9 DEF Compares, CompareOps
<1>12. QED
  BY <1>1, <1>2, <1>3, <1>4, <1>5, <1>6, <1>7, <1>8, <1>9, <1>10, <1>11

\* InclusiveMetricsEvaluator keeps a file with a cell that matches.
LEMMA FileSound ==
  ASSUME NEW kind, NEW c, Accepts(kind, c), NEW v \in Values \cup {Null}, Holds(c, v),
         NEW s, Covers(s, v)
  PROVE  FileMightMatch(c, s)
<1>1. CASE c.op = "is_null"
  <2>1. s.nulls # 0
    BY <1>1, HoldsIs DEF Covers
  <2>2. FileUnary(c, s)
    BY <1>1, <2>1 DEF FileUnary
  <2>3. QED
    BY <1>1, <2>2 DEF FileMightMatch, CompareOps
<1>2. CASE c.op # "is_null"
  <2>1. v \in Values /\ ~NullsOnly(s) /\ ~NansOnly(s) /\ Within(s.lower, s.upper, v)
    BY <1>2, HoldsIs, CellFacts DEF Covers
  <2>2. CASE c.op \in {"not_null", "not_nan"}
    <3>1. FileUnary(c, s)
      BY <2>1, <2>2 DEF FileUnary
    <3>2. QED
      BY <2>2, <3>1 DEF FileMightMatch, CompareOps
  <2>3. CASE c.op = "not_eq"
    BY <2>3 DEF FileMightMatch, FileCompare, CompareOps
  <2>4. CASE c.op = "eq"
    <3>1. EqFits(c, s.lower, s.upper)
      BY <2>1, <2>4, HoldsIs, MembershipOK
    <3>2. QED
      BY <2>1, <2>4, <3>1 DEF FileMightMatch, FileCompare, CompareOps
  <2>5. CASE c.op \in {"lt", "lteq", "gt", "gteq"}
    <3>1. InequalityFits(c, s.lower, s.upper)
      BY <2>1, <2>5, HoldsIs, ComparisonOK DEF CompareOps
    <3>2. QED
      BY <2>1, <2>5, <3>1 DEF FileMightMatch, FileCompare, CompareOps
  <2>6. CASE c.op = "not_in"
    BY <2>6 DEF FileMightMatch, FileSet, CompareOps
  <2>7. CASE c.op = "in"
    <3>1. InFits(c, s.lower, s.upper)
      BY <2>1, <2>7, HoldsIs, MembershipOK
    <3>2. QED
      BY <2>1, <2>7, <3>1 DEF FileMightMatch, FileSet, CompareOps
  <2>8. CASE c.op = "starts_with"
    <3>1. StartsWithFits(c, s.lower, s.upper)
      BY <2>1, <2>8, HoldsIs, StartsWithOK DEF PrefixOps
    <3>2. QED
      BY <2>1, <2>8, <3>1 DEF FileMightMatch, FilePrefix, CompareOps
  <2>9. CASE c.op = "not_starts_with"
    <3>1. NotStartsWithFits(c, s.lower, s.upper)
      BY <2>1, <2>9, HoldsIs, NotStartsWithOK DEF PrefixOps
    <3>2. QED
      BY <2>1, <2>9, <3>1 DEF FileMightMatch, FilePrefix, CompareOps
  <2>10. QED
    BY <1>2, <2>2, <2>3, <2>4, <2>5, <2>6, <2>7, <2>8, <2>9, HoldsIs DEF Ops
<1>3. QED
  BY <1>1, <1>2
\* RowGroupMetricsEvaluator keeps a row group with a cell that matches.
LEMMA RowGroupSound ==
  ASSUME NEW kind, NEW c, Accepts(kind, c), NEW v \in Values \cup {Null}, Holds(c, v),
         NEW s, Covers(s, v)
  PROVE  RowGroupMightMatch(c, s)
<1>1. CASE c.op = "is_null"
  <2>1. s.nulls # 0
    BY <1>1, HoldsIs DEF Covers
  <2>2. RowGroupUnary(c, s)
    BY <1>1, <2>1 DEF RowGroupUnary
  <2>3. QED
    BY <1>1, <2>2 DEF RowGroupMightMatch, CompareOps
<1>2. CASE c.op # "is_null"
  <2>1. v \in Values /\ ~NullsOnly(s) /\ ~NansOnly(s) /\ Within(s.lower, s.upper, v)
    BY <1>2, HoldsIs, CellFacts DEF Covers
  <2>2. CASE c.op \in {"not_null", "not_nan"}
    <3>1. RowGroupUnary(c, s)
      BY <2>1, <2>2 DEF RowGroupUnary
    <3>2. QED
      BY <2>2, <3>1 DEF RowGroupMightMatch, CompareOps
  <2>3. CASE c.op = "not_eq"
    BY <2>3 DEF RowGroupMightMatch, RowGroupCompare, CompareOps
  <2>4. CASE c.op = "eq"
    <3>1. EqFits(c, s.lower, s.upper)
      BY <2>1, <2>4, HoldsIs, MembershipOK
    <3>2. QED
      BY <2>1, <2>4, <3>1 DEF RowGroupMightMatch, RowGroupCompare, CompareOps
  <2>5. CASE c.op \in {"lt", "lteq", "gt", "gteq"}
    <3>1. InequalityFits(c, s.lower, s.upper)
      BY <2>1, <2>5, HoldsIs, ComparisonOK DEF CompareOps
    <3>2. QED
      BY <2>1, <2>5, <3>1 DEF RowGroupMightMatch, RowGroupCompare, CompareOps
  <2>6. CASE c.op = "not_in"
    BY <2>6 DEF RowGroupMightMatch, RowGroupSet, CompareOps
  <2>7. CASE c.op = "in"
    <3>1. InFits(c, s.lower, s.upper)
      BY <2>1, <2>7, HoldsIs, MembershipOK
    <3>2. QED
      BY <2>1, <2>7, <3>1 DEF RowGroupMightMatch, RowGroupSet, CompareOps
  <2>8. CASE c.op = "starts_with"
    <3>1. StartsWithFits(c, s.lower, s.upper)
      BY <2>1, <2>8, HoldsIs, StartsWithOK DEF PrefixOps
    <3>2. QED
      BY <2>1, <2>8, <3>1 DEF RowGroupMightMatch, RowGroupPrefix, CompareOps
  <2>9. CASE c.op = "not_starts_with"
    <3>1. NotStartsWithFits(c, s.lower, s.upper)
      BY <2>1, <2>9, HoldsIs, NotStartsWithOK DEF PrefixOps
    <3>2. QED
      BY <2>1, <2>9, <3>1 DEF RowGroupMightMatch, RowGroupPrefix, CompareOps
  <2>10. QED
    BY <1>2, <2>2, <2>3, <2>4, <2>5, <2>6, <2>7, <2>8, <2>9, HoldsIs DEF Ops
<1>3. QED
  BY <1>1, <1>2

\* PageIndexEvaluator's summary of the null counts.
LEMMA PageNulls ==
  ASSUME NEW s, s.rows \in Nat
  PROVE  /\ s.nulls # 0 => PageNullCount(s) # "none"
         /\ ~NullsOnly(s) => PageNullCount(s) # "all"
<1>1. None # 0 /\ None # s.rows
  BY StatisticsAssumption, CellFacts
<1>2. CASE s.nulls = None
  BY <1>1, <1>2 DEF PageNullCount
<1>3. CASE s.nulls # None /\ s.nulls = s.rows
  BY <1>1, <1>3 DEF PageNullCount, NullsOnly
<1>4. CASE s.nulls # None /\ s.nulls # s.rows /\ s.nulls = 0
  BY <1>4 DEF PageNullCount
<1>5. CASE s.nulls # None /\ s.nulls # s.rows /\ s.nulls # 0
  BY <1>5 DEF PageNullCount
<1>6. QED
  BY <1>2, <1>3, <1>4, <1>5

\* PageIndexEvaluator keeps a page with a cell that matches.
LEMMA PageSound ==
  ASSUME NEW kind, NEW c, Accepts(kind, c), NEW v \in Values \cup {Null}, Holds(c, v),
         NEW s, s.rows \in Nat, Covers(s, v)
  PROVE  PageMightMatch(c, s)
<1>1. CASE c.op = "is_null"
  <2>1. PageNullCount(s) # "none"
    BY <1>1, HoldsIs, PageNulls DEF Covers
  <2>2. PageUnary(c, s)
    BY <1>1, <2>1 DEF PageUnary
  <2>3. QED
    BY <1>1, <2>2 DEF PageMightMatch, CompareOps
<1>2. CASE c.op # "is_null"
  <2>1. v \in Values /\ PageNullCount(s) # "all" /\ Within(s.lower, s.upper, v)
    BY <1>2, HoldsIs, CellFacts, PageNulls DEF Covers
  <2>2. CASE c.op \in {"not_null", "not_nan"}
    <3>1. PageUnary(c, s)
      BY <2>1, <2>2 DEF PageUnary
    <3>2. QED
      BY <2>2, <3>1 DEF PageMightMatch, CompareOps
  <2>3. CASE c.op = "not_eq"
    BY <2>3 DEF PageMightMatch, CompareOps
  <2>4. CASE c.op = "eq"
    <3>1. (s.lower = None \/ s.lower <= Lit(c)) /\ (s.upper = None \/ s.upper >= Lit(c))
      BY <2>1, <2>4, HoldsIs, CellFacts DEF Within
    <3>2. PageEq(c, s)
      BY <2>1, <3>1 DEF PageEq
    <3>3. QED
      BY <2>4, <3>2 DEF PageMightMatch, CompareOps
  <2>5. CASE c.op \in {"lt", "lteq", "gt", "gteq"}
    <3>1. InequalityFits(c, s.lower, s.upper)
      BY <2>1, <2>5, HoldsIs, ComparisonOK DEF CompareOps
    <3>2. PageInequality(c, s)
      BY <2>1, <3>1 DEF PageInequality
    <3>3. QED
      BY <2>5, <3>2 DEF PageMightMatch, CompareOps
  <2>6. CASE c.op \in {"in", "not_in"}
    <3>1. ASSUME c.op = "in" PROVE PageSet(c, s)
      <4>1. v \in c.lits /\ (s.lower = None \/ v >= s.lower) /\ (s.upper = None \/ v <= s.upper)
        BY <2>1, <3>1, HoldsIs, CellFacts DEF Within
      <4>2. QED
        BY <2>1, <4>1 DEF PageSet
    <3>2. PageSet(c, s)
      BY <2>6, <3>1 DEF PageSet
    <3>3. QED
      BY <2>6, <3>2 DEF PageMightMatch, CompareOps
  <2>7. CASE c.op = "starts_with"
    <3>1. StartsWithFits(c, s.lower, s.upper)
      BY <2>1, <2>7, HoldsIs, StartsWithOK DEF PrefixOps
    <3>2. QED
      BY <2>1, <2>7, <3>1 DEF PageMightMatch, PagePrefix, CompareOps
  <2>8. CASE c.op = "not_starts_with"
    <3>1. NotStartsWithFits(c, s.lower, s.upper)
      BY <2>1, <2>8, HoldsIs, NotStartsWithOK DEF PrefixOps
    <3>2. QED
      BY <2>1, <2>8, <3>1 DEF PageMightMatch, PagePrefix, CompareOps
  <2>9. QED
    BY <1>2, <2>2, <2>3, <2>4, <2>5, <2>6, <2>7, <2>8, HoldsIs DEF Ops
<1>3. QED
  BY <1>1, <1>2

-----------------------------------------------------------------------------
\* What the Parquet writer counts.
LEMMA CountIs ==
  ASSUME NEW R, NEW rows \in Seq(R), NEW x
  PROVE  /\ Count(rows, x) \in Nat
         /\ \A i \in 1..Len(rows) : /\ rows[i].cell = x => Count(rows, x) # 0
                                    /\ rows[i].cell # x => Count(rows, x) # Len(rows)
<1> DEFINE D == 1..Len(rows)
           S == {i \in D : rows[i].cell = x}
<1>1. Len(rows) \in Nat /\ DOMAIN rows = D
  OBVIOUS
<1>2. IsFiniteSet(D) /\ Cardinality(D) = Len(rows)
  BY <1>1, FS_Interval
<1>3. Count(rows, x) = Cardinality(S)
  BY <1>1 DEF Count
<1>4. S \subseteq D
  OBVIOUS
<1>5. \A i \in D : rows[i].cell = x <=> i \in S
  OBVIOUS
<1> HIDE DEF S, D
<1>6. IsFiniteSet(S) /\ (Cardinality(S) = Cardinality(D) => S = D)
  BY <1>2, <1>4, FS_Subset
<1>7. Cardinality(S) \in Nat /\ (Cardinality(S) = 0 => S = {})
  BY <1>6, FS_CardinalityType, FS_EmptySet
<1>8. ASSUME NEW i \in D
      PROVE  /\ rows[i].cell = x => Count(rows, x) # 0
             /\ rows[i].cell # x => Count(rows, x) # Len(rows)
  BY <1>2, <1>3, <1>5, <1>6, <1>7
<1>9. QED
  BY <1>3, <1>7, <1>8 DEF D

\* A set of cells that is not empty has its extremes.
LEMMA CellExtremes ==
  ASSUME NEW S, S \subseteq Values, S # {}
  PROVE  /\ Least(S) \in S /\ \A y \in S : Least(S) <= y
         /\ Greatest(S) \in S /\ \A y \in S : y <= Greatest(S)
<1>1. S \subseteq Int /\ IsFiniteSet(S)
  BY CellFacts, FS_Subset
<1>2. QED
  BY <1>1, LeastIs, GreatestIs

\* A statistic's bound is not inside the cells.
LEMMA BoundsOutside ==
  ASSUME NEW kind, NEW v \in Values
  PROVE  /\ StatLower(kind, v) \in Values /\ StatLower(kind, v) <= v
         /\ StatUpper(kind, v) \in Values /\ v <= StatUpper(kind, v)
<1>1. StatChars \in Nat /\ v \in Int
  BY SizesAssumption, CellFacts
<1>2. StatLower(kind, v) \in Values /\ StatLower(kind, v) <= v
  BY <1>1, CutFacts DEF StatLower
<1> DEFINE A == {u \in Values : u > v /\ Chars[u] <= StatChars}
<1>3. StatUpper(kind, v) = v \/ (A # {} /\ StatUpper(kind, v) = Least(A))
  BY DEF StatUpper
<1>4. A # {} => Least(A) \in Values /\ v <= Least(A)
  <2>1. A \subseteq Values /\ \A u \in A : u \in Values /\ v <= u
    BY <1>1, CellFacts
  <2> HIDE DEF A
  <2>2. A # {} => Least(A) \in A
    BY <2>1, CellExtremes
  <2>3. QED
    BY <2>1, <2>2
<1>5. QED
  BY <1>1, <1>2, <1>3, <1>4

\* The bounds of some rows' statistics.
LEMMA StatisticsBounds ==
  ASSUME NEW kind, NEW R, NEW rows \in Seq(R)
  PROVE  LET s == Statistics(kind, rows)
         IN  /\ s.rows = Len(rows) /\ s.nulls = Count(rows, Null) /\ s.nans = None
             /\ s.lower \in Values \cup {None} /\ s.upper \in Values \cup {None}
             /\ s.exactLower => s.lower \in Values
             /\ s.exactUpper => s.upper \in Values
             /\ \A i \in 1..Len(rows) : rows[i].cell \in Values => Within(s.lower, s.upper, rows[i].cell)
<1> DEFINE V == CellsOf(rows) \cap Values
           s == Statistics(kind, rows)
<1>1. /\ s.rows = Len(rows) /\ s.nulls = Count(rows, Null) /\ s.nans = None
      /\ s.lower = IF V = {} THEN None ELSE StatLower(kind, Least(V))
      /\ s.upper = IF V = {} THEN None ELSE StatUpper(kind, Greatest(V))
      /\ s.exactLower => V # {}
      /\ s.exactUpper => V # {}
  BY DEF Statistics
<1>2. V \subseteq Values /\ \A i \in 1..Len(rows) : rows[i].cell \in Values => rows[i].cell \in V
  BY DEF CellsOf
<1> HIDE DEF V, s
<1>3. ASSUME V # {}
      PROVE  /\ s.lower \in Values /\ s.upper \in Values
             /\ \A y \in V : s.lower <= y /\ y <= s.upper
  <2>1. Least(V) \in V /\ Greatest(V) \in V /\ \A y \in V : Least(V) <= y /\ y <= Greatest(V)
    BY <1>2, <1>3, CellExtremes
  <2>2. /\ s.lower \in Values /\ s.lower <= Least(V)
        /\ s.upper \in Values /\ Greatest(V) <= s.upper
    BY <1>1, <1>2, <1>3, <2>1, BoundsOutside
  <2>3. /\ s.lower \in Int /\ s.upper \in Int /\ Least(V) \in Int /\ Greatest(V) \in Int
        /\ \A y \in V : y \in Int
    BY <1>2, <2>1, <2>2, CellFacts
  <2>4. \A y \in V : s.lower <= y /\ y <= s.upper
    BY <2>1, <2>2, <2>3
  <2>5. QED
    BY <2>2, <2>4
<1>4. s.lower \in Values \cup {None} /\ s.upper \in Values \cup {None}
  BY <1>1, <1>3
<1>5. ASSUME NEW i \in 1..Len(rows), rows[i].cell \in Values
      PROVE  Within(s.lower, s.upper, rows[i].cell)
  BY <1>2, <1>3, <1>4, <1>5 DEF Within
<1>6. QED
  BY <1>1, <1>3, <1>4, <1>5 DEF s

\* The statistics of a row group or page cover each of its cells.
LEMMA StatisticsCover ==
  ASSUME NEW kind, NEW R, NEW rows \in Seq(R), NEW i \in 1..Len(rows), NEW v,
         v = rows[i].cell
  PROVE  Statistics(kind, rows).rows \in Nat /\ Covers(Statistics(kind, rows), v)
<1> DEFINE s == Statistics(kind, rows)
<1>1. /\ s.rows = Len(rows) /\ s.nulls = Count(rows, Null) /\ s.nans = None
      /\ v \in Values => Within(s.lower, s.upper, v)
  BY StatisticsBounds
<1> HIDE DEF s
<1>2. s.rows \in Nat
  BY <1>1
<1>3. (v = Null => s.nulls # 0) /\ (v # Null => s.nulls # s.rows)
  BY <1>1, CountIs
<1>4. QED
  BY <1>1, <1>2, <1>3 DEF Covers, NullsOnly, NansOnly, s

\* A row is in its row group, and in no other.
LEMMA RowsGroup ==
  ASSUME FileOK, Len(input) \in Nat, NEW q \in 1..FileLen
  PROVE  LET i == ChunkOf(q, RowGroupSize)
             k == q - GroupStart(i)
         IN  /\ i \in 1..GroupCount /\ k \in 1..GroupLen(i) /\ Groups[i][k] = file.rows[q]
             /\ (CHOOSE j \in DOMAIN Groups : \E m \in DOMAIN Groups[j] : Groups[j][m] = file.rows[q]) = i
<1> DEFINE i == ChunkOf(q, RowGroupSize)
           k == q - GroupStart(i)
<1>1. /\ FileLen \in Nat /\ GroupCount \in Nat /\ RowGroupSize \in Nat \ {0}
      /\ DOMAIN Groups = 1..GroupCount
      /\ \A j \in 1..GroupCount : /\ DOMAIN Groups[j] = 1..GroupLen(j) /\ GroupStart(j) \in Nat
                                  /\ \A m \in 1..GroupLen(j) : /\ GroupStart(j) + m \in 1..FileLen
                                                               /\ Groups[j][m] = file.rows[GroupStart(j) + m]
  BY GroupFacts
<1>2. i \in 1..GroupCount /\ k \in 1..GroupLen(i)
  BY <1>1, ChunkFound DEF GroupCount, GroupStart, GroupLen
<1> HIDE DEF i
<1>3. GroupStart(i) + k = q
  BY <1>1, <1>2
<1> HIDE DEF k
<1>4. Groups[i][k] = file.rows[q]
  BY <1>1, <1>2, <1>3
<1>5. ASSUME NEW j \in 1..GroupCount, NEW m \in 1..GroupLen(j), Groups[j][m] = file.rows[q]
      PROVE  j = i
  <2>1. GroupStart(j) + m \in 1..FileLen /\ file.rows[GroupStart(j) + m] = file.rows[q]
    BY <1>1, <1>5
  <2>2. GroupStart(j) + m = q
    BY <2>1, FileIds
  <2>3. ChunkOf(GroupStart(j) + m, RowGroupSize) = j
    BY <1>1, ChunkUnique DEF GroupCount, GroupStart, GroupLen
  <2>4. QED
    BY <2>2, <2>3 DEF i
<1>6. \A j \in DOMAIN Groups : (\E m \in DOMAIN Groups[j] : Groups[j][m] = file.rows[q]) <=> j = i
  BY <1>1, <1>2, <1>4, <1>5
<1>7. i \in DOMAIN Groups
  BY <1>1, <1>2
<1>8. (CHOOSE j \in DOMAIN Groups : \E m \in DOMAIN Groups[j] : Groups[j][m] = file.rows[q]) = i
  BY <1>6, <1>7
<1>9. QED
  BY <1>2, <1>4, <1>8 DEF i, k

\* The metrics of a file cover its cells, but for those OutsideBounds names.
LEMMA MetricsCover ==
  ASSUME FileOK, Len(input) \in Nat, NEW q \in 1..FileLen, ~OutsideBounds(file.rows[q]), NEW v,
         v = file.rows[q].cell
  PROVE  Covers(FileMetrics(table.kind, file.rows), v)
<1> DEFINE kind == table.kind
           m == FileMetrics(kind, file.rows)
           St(j) == Statistics(kind, Groups[j])
           stats == {St(j) : j \in DOMAIN Groups}
           lowers == {s.lower : s \in {u \in stats : u.exactLower}}
           uppers == {s.upper : s \in {u \in stats : u.exactUpper}}
           i == ChunkOf(q, RowGroupSize)
           k == q - GroupStart(i)
           s0 == St(i)
<1>1. /\ m.rows = Len(file.rows) /\ m.nulls = Count(file.rows, Null)
      /\ m.nans = NanCount(kind, file.rows)
      /\ m.lower = IF lowers = {} THEN None ELSE Least(lowers)
      /\ m.upper = IF uppers = {} THEN None ELSE Greatest(uppers)
  BY DEF FileMetrics, Groups
<1>2. /\ i \in DOMAIN Groups /\ Groups[i] \in Seq(AnyRow) /\ k \in 1..Len(Groups[i])
      /\ Groups[i][k] = file.rows[q]
      /\ (CHOOSE j \in DOMAIN Groups : \E n \in DOMAIN Groups[j] : Groups[j][n] = file.rows[q]) = i
      /\ \A j \in DOMAIN Groups : Groups[j] \in Seq(AnyRow)
  <2>1. Groups \in Seq(Seq(AnyRow)) /\ DOMAIN Groups = 1..GroupCount
        /\ \A j \in 1..GroupCount : Len(Groups[j]) = GroupLen(j)
    BY GroupFacts
  <2>2. /\ i \in 1..GroupCount /\ k \in 1..GroupLen(i) /\ Groups[i][k] = file.rows[q]
        /\ (CHOOSE j \in DOMAIN Groups : \E n \in DOMAIN Groups[j] : Groups[j][n] = file.rows[q]) = i
    BY RowsGroup
  <2> HIDE DEF i, k
  <2>3. ASSUME NEW j \in DOMAIN Groups PROVE Groups[j] \in Seq(AnyRow)
    <3> DEFINE T == Seq(AnyRow)
    <3>1. Groups \in Seq(T) /\ j \in 1..Len(Groups)
      BY <2>1, GroupFacts
    <3> HIDE DEF T
    <3>2. Groups[j] \in T
      BY <3>1, MemberOf
    <3>3. QED
      BY <3>2 DEF T
  <2>4. QED
    BY <2>1, <2>2, <2>3
<1>3. /\ ~(~s0.exactLower /\ m.lower # None /\ v < m.lower)
      /\ ~(~s0.exactUpper /\ m.upper # None /\ v > m.upper)
  BY <1>2 DEF OutsideBounds
<1> HIDE DEF i, k, m
<1>4. lowers \subseteq Values /\ uppers \subseteq Values
  <2>1. \A j \in DOMAIN Groups : /\ St(j).exactLower => St(j).lower \in Values
                                 /\ St(j).exactUpper => St(j).upper \in Values
    BY <1>2, StatisticsBounds
  <2> HIDE DEF St
  <2>2. QED
    BY <2>1
<1>5. s0 \in stats
  BY <1>2
<1>6. /\ s0.exactLower => s0.lower \in lowers
      /\ s0.exactUpper => s0.upper \in uppers
  <2> HIDE DEF St
  <2>1. QED
    BY <1>5
<1>7. v \in Values => Within(s0.lower, s0.upper, v)
  BY <1>2, StatisticsBounds
<1> HIDE DEF lowers, uppers, stats, s0, St
<1>8. ASSUME v \in Values PROVE Within(m.lower, m.upper, v)
  <2>1. m.lower \in Values \cup {None} /\ m.upper \in Values \cup {None}
    BY <1>1, <1>4, CellExtremes
  <2>2. m.lower = None \/ m.lower <= v
    <3> SUFFICES ASSUME m.lower # None PROVE m.lower <= v
      OBVIOUS
    <3>1. m.lower \in Int /\ v \in Int
      BY <1>8, <2>1, CellFacts
    <3>2. CASE s0.exactLower
      <4>1. m.lower <= s0.lower /\ s0.lower \in Values
        BY <1>1, <1>4, <1>6, <3>2, CellExtremes
      <4>2. s0.lower <= v /\ s0.lower \in Int
        BY <1>7, <1>8, <4>1, CellFacts DEF Within
      <4>3. QED
        BY <3>1, <4>1, <4>2
    <3>3. CASE ~s0.exactLower
      BY <1>3, <3>1, <3>3
    <3>4. QED
      BY <3>2, <3>3
  <2>3. m.upper = None \/ v <= m.upper
    <3> SUFFICES ASSUME m.upper # None PROVE v <= m.upper
      OBVIOUS
    <3>1. m.upper \in Int /\ v \in Int
      BY <1>8, <2>1, CellFacts
    <3>2. CASE s0.exactUpper
      <4>1. s0.upper <= m.upper /\ s0.upper \in Values
        BY <1>1, <1>4, <1>6, <3>2, CellExtremes
      <4>2. v <= s0.upper /\ s0.upper \in Int
        BY <1>7, <1>8, <4>1, CellFacts DEF Within
      <4>3. QED
        BY <3>1, <4>1, <4>2
    <3>3. CASE ~s0.exactUpper
      BY <1>3, <3>1, <3>3
    <3>4. QED
      BY <3>2, <3>3
  <2>4. QED
    BY <2>1, <2>2, <2>3 DEF Within
<1>9. file.rows \in Seq(AnyRow) /\ q \in 1..Len(file.rows)
  BY DEF FileOK, FileLen
<1>10. (v = Null => m.nulls # 0) /\ (v # Null => m.nulls # m.rows)
  BY <1>1, <1>9, CountIs
<1>11. v \in Values => ~NansOnly(m)
  <2>1. v \in Values => Count(file.rows, NaN) # Len(file.rows)
    BY <1>9, CountIs, CellFacts
  <2>2. QED
    BY <1>1, <2>1 DEF NansOnly, NanCount
<1>12. QED
  BY <1>8, <1>10, <1>11 DEF Covers, NullsOnly, m

-----------------------------------------------------------------------------
\* Division of integers rounds down.
LEMMA FloorIs ==
  ASSUME NEW a \in Int, NEW w \in Nat \ {0}
  PROVE  /\ a \div w \in Int /\ a % w \in Nat /\ a = w * (a \div w) + (a % w)
         /\ w * (a \div w) \in Int /\ w * (a \div w) <= a /\ a < w * (a \div w) + w
OBVIOUS

\* Multiplication keeps the order of integers.
LEMMA TimesLess ==
  ASSUME NEW a \in Int, NEW b \in Int, NEW w \in Nat \ {0}, a < b
  PROVE  w * a + w <= w * b
<1>1. w * a + w = w * (a + 1) /\ a + 1 <= b
  OBVIOUS
<1>2. PICK d \in Nat : b = a + 1 + d
  <2>1. b - (a + 1) \in Nat /\ b = a + 1 + (b - (a + 1))
    OBVIOUS
  <2>2. QED
    BY <2>1
<1>3. w * d \in Nat /\ w * b = w * (a + 1) + w * d
  BY <1>2
<1>4. QED
  BY <1>1, <1>3

\* So it keeps their order.
LEMMA FloorOrder ==
  ASSUME NEW a \in Int, NEW b \in Int, NEW w \in Nat \ {0}, a <= b
  PROVE  a \div w <= b \div w /\ a - (a % w) <= b - (b % w)
<1> DEFINE x == a \div w
           y == b \div w
<1>1. /\ x \in Int /\ y \in Int /\ w * x \in Int /\ w * y \in Int
      /\ w * x <= a /\ b < w * y + w
      /\ a % w \in Nat /\ b % w \in Nat /\ a = w * x + (a % w) /\ b = w * y + (b % w)
  BY FloorIs
<1> HIDE DEF x, y
<1>2. x <= y
  <2> SUFFICES ASSUME y < x PROVE FALSE
    BY <1>1
  <2>1. w * y + w <= w * x
    BY <1>1, TimesLess
  <2>2. QED
    BY <1>1, <2>1
<1>3. w * x <= w * y
  <2>1. CASE x = y
    BY <1>1, <2>1
  <2>2. CASE x < y
    <3>1. w * x + w <= w * y
      BY <1>1, <2>2, TimesLess
    <3>2. QED
      BY <1>1, <3>1
  <2>3. QED
    BY <1>1, <1>2, <2>1, <2>2
<1>4. a - (a % w) = w * x /\ b - (b % w) = w * y
  <2> DEFINE p == w * x
             q == w * y
             r == a % w
             s == b % w
  <2>1. p \in Int /\ q \in Int /\ r \in Nat /\ s \in Nat /\ a = p + r /\ b = q + s
    BY <1>1
  <2> HIDE DEF p, q, r, s
  <2>2. a - r = p /\ b - s = q
    BY <2>1
  <2>3. QED
    BY <2>2 DEF p, q, r, s
<1>5. QED
  BY <1>2, <1>3, <1>4 DEF x, y

-----------------------------------------------------------------------------
(* The transforms that keep the order of cells, on the kinds that may have *)
(* them.                                                                   *)
OrderedTransform(t, kind) ==
    /\ t.w \in Nat \ {0}
    /\ \/ t.name = "truncate" /\ kind \in {"int", "string"}
       \/ t.name \in TemporalNames /\ kind \in {"ts", "tstz"}

\* They do keep it, where day() is right.
LEMMA TransformOrder ==
  ASSUME NEW t, NEW kind, OrderedTransform(t, kind), NEW v \in Values, NEW u \in Values, v <= u,
         t.name = "day" => ~DayTooLate(v) /\ ~DayTooLate(u)
  PROVE  /\ Transformed(t, kind, v) \in Int /\ Transformed(t, kind, u) \in Int
         /\ Transformed(t, kind, v) <= Transformed(t, kind, u)
<1>1. /\ v \in Int /\ u \in Int /\ v # Null /\ u # Null /\ t.w \in Nat \ {0} /\ t.w \in Nat
      /\ {TicksPerSecond, SecondsPerDay, TicksPerHour, TicksPerMonth, MonthsPerYear} \subseteq Nat \ {0}
  BY CellFacts, TransformsAssumption DEF OrderedTransform
<1>2. CASE t.name = "truncate" /\ kind = "string"
  <2>1. Transformed(t, kind, v) = First(v, t.w) /\ Transformed(t, kind, u) = First(u, t.w)
    BY <1>1, <1>2 DEF Transformed, Truncate
  <2>2. First(v, t.w) <= First(u, t.w) /\ First(v, t.w) \in Int /\ First(u, t.w) \in Int
    BY <1>1, CutOrder, CutFacts, CellFacts
  <2>3. QED
    BY <2>1, <2>2
<1>3. CASE t.name = "truncate" /\ kind # "string"
  <2>1. Transformed(t, kind, v) = v - (v % t.w) /\ Transformed(t, kind, u) = u - (u % t.w)
    BY <1>1, <1>3 DEF Transformed, Truncate
  <2>2. v % t.w \in Nat /\ u % t.w \in Nat
    BY <1>1, FloorIs
  <2>3. v - (v % t.w) <= u - (u % t.w)
    BY <1>1, FloorOrder
  <2>4. QED
    BY <1>1, <2>1, <2>2, <2>3
<1>4. CASE t.name \in {"month", "year"}
  <2>1. Month(v) \in Int /\ Month(u) \in Int /\ Month(v) <= Month(u)
    BY <1>1, FloorIs, FloorOrder DEF Month
  <2>2. Year(v) \in Int /\ Year(u) \in Int /\ Year(v) <= Year(u)
    BY <1>1, <2>1, FloorIs, FloorOrder DEF Year
  <2>3. \/ Transformed(t, kind, v) = Month(v) /\ Transformed(t, kind, u) = Month(u)
        \/ Transformed(t, kind, v) = Year(v) /\ Transformed(t, kind, u) = Year(u)
    BY <1>1, <1>4 DEF Transformed
  <2>4. QED
    BY <2>1, <2>2, <2>3
<1>5. CASE t.name = "day"
  <2> DEFINE d == TicksPerSecond * SecondsPerDay
  <2>1. d \in Nat \ {0}
    BY <1>1
  <2>2. Transformed(t, kind, v) = v \div d /\ Transformed(t, kind, u) = u \div d
    BY <1>1, <1>5 DEF Transformed, DayTooLate
  <2> HIDE DEF d
  <2>3. v \div d \in Int /\ u \div d \in Int /\ v \div d <= u \div d
    BY <1>1, <2>1, FloorIs, FloorOrder
  <2>4. QED
    BY <2>2, <2>3
<1>6. CASE t.name = "hour"
  <2> DEFINE d == TicksPerHour
  <2>1. d \in Nat \ {0}
    BY <1>1
  <2>2. Transformed(t, kind, v) = v \div d /\ Transformed(t, kind, u) = u \div d
    BY <1>1, <1>6 DEF Transformed, Hour
  <2> HIDE DEF d
  <2>3. v \div d \in Int /\ u \div d \in Int /\ v \div d <= u \div d
    BY <1>1, <2>1, FloorIs, FloorOrder
  <2>4. QED
    BY <2>2, <2>3
<1>7. QED
  BY <1>2, <1>3, <1>4, <1>5, <1>6 DEF OrderedTransform, TemporalNames

-----------------------------------------------------------------------------
(* A condition on partition values whose literals the evaluators can read. *)
Readable(q) ==
    /\ q.op \in Ops
    /\ q.op \in CompareOps => Lit(q) \in Int
    /\ q.op \in PrefixOps => Lit(q) \in Values

Passes(q, p) == q = NoCond \/ (Readable(q) /\ PartitionHolds(q, p))

\* A comparison that holds of a partition value passes.
LEMMA ComparisonPasses ==
  ASSUME NEW op \in CompareOps, NEW x \in Int, NEW p \in Values, Compares(op, p, x)
  PROVE  Passes(Cond(op, {x}, "plain"), p)
<1> DEFINE q == Cond(op, {x}, "plain")
<1>1. q.op = op /\ q.lits = {x}
  BY DEF Cond
<1>2. Lit(q) = x
  BY <1>1 DEF Lit
<1> HIDE DEF q
<1>3. Readable(q)
  BY <1>1, <1>2 DEF Readable, Ops, CompareOps, PrefixOps
<1>4. p # Null
  BY CellFacts
<1>5. Holds(q, p)
  BY <1>1, <1>2, <1>4 DEF Holds, CompareOps
<1>6. PartitionHolds(q, p)
  BY <1>1, <1>5 DEF PartitionHolds, CompareOps
<1>7. QED
  BY <1>3, <1>6 DEF Passes, q

\* A prefix test likewise.
LEMMA PrefixPasses ==
  ASSUME NEW op \in PrefixOps, NEW x \in Values, NEW p \in Values,
         op = "starts_with" <=> StartsWith(p, x)
  PROVE  Passes(Cond(op, {x}, "plain"), p)
<1> DEFINE q == Cond(op, {x}, "plain")
<1>1. q.op = op /\ q.lits = {x}
  BY DEF Cond
<1>2. Lit(q) = x
  BY <1>1 DEF Lit
<1> HIDE DEF q
<1>3. Readable(q)
  BY <1>1, <1>2 DEF Readable, Ops, CompareOps, PrefixOps
<1>4. p # Null
  BY CellFacts
<1>5. Holds(q, p)
  BY <1>1, <1>2, <1>4 DEF Holds, PrefixOps
<1>6. PartitionHolds(q, p)
  BY <1>1, <1>5 DEF PartitionHolds, PrefixOps
<1>7. QED
  BY <1>3, <1>6 DEF Passes, q

\* And a list.
LEMMA ListPasses ==
  ASSUME NEW S, NEW p \in Values, p \in S
  PROVE  Passes(Cond("in", S, "plain"), p)
<1> DEFINE q == Cond("in", S, "plain")
<1>1. q.op = "in" /\ q.lits = S
  BY DEF Cond
<1> HIDE DEF q
<1>2. Readable(q)
  BY <1>1 DEF Readable, Ops, CompareOps, PrefixOps
<1>3. p # Null
  BY CellFacts
<1>4. Holds(q, p)
  BY <1>1, <1>3 DEF Holds
<1>5. PartitionHolds(q, p)
  BY <1>1, <1>4 DEF PartitionHolds
<1>6. QED
  BY <1>2, <1>5 DEF Passes, q

\* A condition on the column is one on the partition value where that is the cell
\* itself, or where the condition is about nulls.
LEMMA SamePasses ==
  ASSUME NEW kind, NEW c, Accepts(kind, c), NEW v \in Values \cup {Null}, Holds(c, v),
         NEW p, p = v \/ (c.op \in UnaryOps /\ v \in Values /\ p \in Values)
  PROVE  Passes(c, p)
<1>1. /\ c.op \in Ops /\ c.op # "is_nan"
      /\ c.op \in CompareOps => Lit(c) \in Int
      /\ c.op \in PrefixOps => Lit(c) \in Values
  BY HoldsIs
<1>2. Readable(c)
  BY <1>1 DEF Readable
<1>3. PartitionHolds(c, p)
  <2>1. CASE p = v
    <3>1. Holds(c, p)
      BY <2>1
    <3>2. c.op = "not_nan" => p # NaN
      BY <2>1, CellFacts
    <3>3. QED
      BY <3>1, <3>2 DEF PartitionHolds
  <2>2. CASE c.op \in UnaryOps /\ v \in Values /\ p \in Values
    <3>1. v # Null /\ p # Null /\ p # NaN
      BY <2>2, CellFacts
    <3>2. c.op \in {"not_null", "not_nan"}
      BY <1>1, <2>2, <3>1, HoldsIs DEF UnaryOps
    <3>3. CASE c.op = "not_null"
      BY <3>1, <3>3 DEF PartitionHolds, Holds
    <3>4. CASE c.op = "not_nan"
      BY <3>1, <3>4 DEF PartitionHolds
    <3>5. QED
      BY <3>2, <3>3, <3>4
  <2>3. QED
    BY <2>1, <2>2
<1>4. QED
  BY <1>2, <1>3 DEF Passes

-----------------------------------------------------------------------------
\* A width below a string's length is a length.
LEMMA CutShort ==
  ASSUME NEW s \in Values, NEW w \in Nat
  PROVE  (w < Chars[s] => w \in Lengths /\ First(s, w) = Take[s][w]) /\ Take[s][Chars[s]] = s
<1>1. Chars[s] \in Lengths /\ Chars[s] \in Nat /\ MaxChars \in Nat
  BY CutFacts, StringsAssumption
<1>2. w < Chars[s] => w \in Lengths
  BY <1>1 DEF Lengths
<1>3. Take[s][Chars[s]] = s
  BY <1>1, StringsAssumption
<1>4. QED
  BY <1>2, <1>3, CutFacts

\* Truncating keeps a prefix that is not longer than the width (Transform::project).
LEMMA TruncatedPrefix ==
  ASSUME NEW v \in Values, NEW l \in Values, NEW w \in Nat, StartsWith(v, l)
  PROVE  StartsWith(First(v, w), First(l, w))
<1> DEFINE a == Chars[v]
           b == Chars[l]
<1>1. /\ a \in Lengths /\ b \in Lengths /\ a \in Nat /\ b \in Nat
      /\ w >= b => First(l, w) = l
      /\ w >= a => First(v, w) = v
      /\ w < b => w \in Lengths /\ First(l, w) = Take[l][w]
      /\ w < a => w \in Lengths /\ First(v, w) = Take[v][w]
  BY CutFacts, CutShort
<1>2. Take[v][b] = l
  BY DEF StartsWith
<1>3. /\ \A n \in Lengths : Chars[Take[v][n]] = Shorter(n, a) /\ Chars[Take[l][n]] = Shorter(n, b)
      /\ \A n, m \in Lengths : Take[Take[v][n]][m] = Take[v][Shorter(n, m)]
  BY StringsAssumption
<1>4. b <= a
  <2>1. b = Shorter(b, a)
    BY <1>1, <1>2, <1>3
  <2>2. QED
    BY <1>1, <2>1 DEF Shorter
<1> HIDE DEF a, b
<1>5. CASE w >= a
  BY <1>1, <1>4, <1>5
<1>6. CASE b <= w /\ w < a
  <2>1. w \in Lengths /\ First(v, w) = Take[v][w] /\ First(l, w) = l
    BY <1>1, <1>6
  <2>2. Shorter(w, b) = b
    BY <1>1, <1>6 DEF Shorter
  <2>3. Take[Take[v][w]][b] = l
    BY <1>1, <1>2, <1>3, <2>1, <2>2
  <2>4. QED
    BY <2>1, <2>3 DEF StartsWith, b
<1>7. CASE w < b
  <2>1. w \in Lengths /\ First(v, w) = Take[v][w] /\ First(l, w) = Take[l][w]
    BY <1>1, <1>4, <1>7
  <2>2. Shorter(b, w) = w /\ Shorter(w, b) = w /\ Shorter(w, w) = w
    BY <1>1, <1>7 DEF Shorter
  <2>3. Take[l][w] = Take[v][w]
    BY <1>1, <1>2, <1>3, <2>1, <2>2
  <2>4. Chars[Take[l][w]] = w
    BY <1>3, <2>1, <2>2
  <2>5. Take[Take[v][w]][w] = Take[v][w]
    BY <1>3, <2>1, <2>2
  <2>6. QED
    BY <2>1, <2>3, <2>4, <2>5 DEF StartsWith
<1>8. QED
  BY <1>1, <1>5, <1>6, <1>7

\* A prefix that is not longer than the width is one of the truncated string
\* only if it is one of the string.
LEMMA TruncatedOther ==
  ASSUME NEW v \in Values, NEW l \in Values, NEW w \in Nat, Chars[l] <= w, ~StartsWith(v, l)
  PROVE  /\ First(l, w) = l /\ First(v, w) # l /\ ~StartsWith(First(v, w), l)
<1> DEFINE a == Chars[v]
           b == Chars[l]
<1>1. /\ a \in Lengths /\ b \in Lengths /\ a \in Nat /\ b \in Nat
      /\ w >= b => First(l, w) = l
      /\ w >= a => First(v, w) = v
      /\ w < a => w \in Lengths /\ First(v, w) = Take[v][w]
      /\ Take[l][b] = l
  BY CutFacts, CutShort
<1>2. Take[v][b] # l
  BY DEF StartsWith
<1>3. \A n, m \in Lengths : Take[Take[v][n]][m] = Take[v][Shorter(n, m)]
  BY StringsAssumption
<1> HIDE DEF a, b
<1>4. ~StartsWith(First(v, w), l)
  <2>1. CASE w >= a
    BY <1>1, <2>1
  <2>2. CASE w < a
    <3>1. w \in Lengths /\ First(v, w) = Take[v][w] /\ Shorter(w, b) = b
      BY <1>1, <2>2 DEF Shorter, b
    <3>2. Take[First(v, w)][b] # l
      BY <1>1, <1>2, <1>3, <3>1
    <3>3. QED
      BY <3>2 DEF StartsWith, b
  <2>3. QED
    BY <1>1, <2>1, <2>2
<1>5. StartsWith(l, l)
  BY <1>1 DEF StartsWith, b
<1>6. QED
  BY <1>1, <1>4, <1>5 DEF b

-----------------------------------------------------------------------------
(* day() is right on the cell and on the literals and their neighbours.    *)
DaysRight(t, c, v) ==
    t.name = "day" => \A y \in {v} \cup c.lits : \A u \in {y - 1, y, y + 1} : ~DayTooLate(u)

\* The boundary a comparison is projected at is on the literal's other side.
LEMMA BoundaryIs ==
  ASSUME NEW kind, kind # "float", NEW c, Accepts(kind, c), NEW v \in Values, Holds(c, v),
         c.op \in CompareOps \cup PrefixOps
  PROVE  LET l == Lit(c)
             b == AdjustBoundary(kind, c.op, l)
         IN  /\ l \in Values /\ b \in Values /\ c.lits = {l} /\ b \in {l - 1, l, l + 1}
             /\ c.op \in {"lt", "lteq"} => v <= b
             /\ c.op \in {"gt", "gteq"} => b <= v
             /\ c.op \in PrefixOps \cup {"eq"} => b = l
<1> DEFINE l == Lit(c)
           b == AdjustBoundary(kind, c.op, l)
<1>1. PICK x \in Literals(kind) : c.lits = {x}
  BY DEF Accepts
<1>2. l = x
  BY <1>1 DEF Lit
<1>3. /\ l \in Values /\ l - 1 \in Values /\ l + 1 \in Values /\ l \in Int /\ v \in Int
  BY <1>2, CellFacts DEF Literals, Values
<1>4. c.op \in CompareOps => Compares(c.op, v, l)
  BY HoldsIs
<1> HIDE DEF l
<1>5. CASE c.op = "lt"
  <2>1. v < l
    BY <1>4, <1>5 DEF Compares, CompareOps
  <2>2. (b = l - 1 \/ b = l) /\ v <= l - 1 /\ v <= l
    BY <1>3, <1>5, <2>1 DEF AdjustBoundary
  <2>3. QED
    BY <1>1, <1>2, <1>3, <1>5, <2>2 DEF PrefixOps, l
<1>6. CASE c.op = "gt"
  <2>1. v > l
    BY <1>4, <1>6 DEF Compares, CompareOps
  <2>2. (b = l + 1 \/ b = l) /\ l + 1 <= v /\ l <= v
    BY <1>3, <1>6, <2>1 DEF AdjustBoundary
  <2>3. QED
    BY <1>1, <1>2, <1>3, <1>6, <2>2 DEF PrefixOps, l
<1>7. CASE c.op \notin {"lt", "gt"}
  <2>1. b = l
    BY <1>7 DEF AdjustBoundary
  <2>2. c.op = "lteq" => v <= l
    BY <1>4 DEF Compares, CompareOps
  <2>3. c.op = "gteq" => l <= v
    BY <1>3, <1>4 DEF Compares, CompareOps
  <2>4. QED
    BY <1>1, <1>2, <1>3, <1>7, <2>1, <2>2, <2>3 DEF l
<1>8. QED
  BY <1>5, <1>6, <1>7

\* project_binary_with_adjusted_boundary: what it makes of a comparison that
\* holds of a cell holds of the cell's partition value.
LEMMA ComparisonProjects ==
  ASSUME NEW t, NEW kind, OrderedTransform(t, kind), NEW c, Accepts(kind, c),
         NEW v \in Values, Holds(c, v), c.op \in CompareOps, DaysRight(t, c, v),
         NEW p \in Values, p = Transformed(t, kind, v)
  PROVE  Passes(ProjectComparison(t, kind, c), p)
<1> DEFINE l == Lit(c)
           b == AdjustBoundary(kind, c.op, l)
           op == AdjustOperator(c.op, l, t)
           x == Transformed(t, kind, b)
           q == ProjectComparison(t, kind, c)
<1>1. kind # "float"
  BY DEF OrderedTransform
<1>2. /\ b \in Values /\ c.lits = {l} /\ b \in {l - 1, l, l + 1}
      /\ c.op \in {"lt", "lteq"} => v <= b
      /\ c.op \in {"gt", "gteq"} => b <= v
      /\ c.op = "eq" => b = l
  BY <1>1, BoundaryIs
<1>3. v \in Int /\ b \in Int /\ p \in Int
  BY <1>2, CellFacts
<1>4. t.name = "day" => ~DayTooLate(v) /\ ~DayTooLate(b)
  <2>1. l \in c.lits /\ v \in {v - 1, v, v + 1}
    BY <1>2
  <2>2. QED
    BY <1>2, <2>1 DEF DaysRight
<1>5. x \in Int
  BY <1>2, <1>3, <1>4, TransformOrder
<1>6. q = IF c.op = "not_eq" \/ op = "none" THEN NoCond
          ELSE IF AdjustsTime(t, kind, x) /\ c.op \in {"lt", "lteq"} THEN Cond(op, {x + 1}, "plain")
          ELSE IF AdjustsTime(t, kind, x) /\ c.op = "eq" THEN Cond("in", {x, x + 1}, "plain")
          ELSE Cond(op, {x}, "plain")
  <2>1. op = "none" => c.op = "not_starts_with"
    BY DEF AdjustOperator, CompareOps
  <2> HIDE DEF op
  <2>2. QED
    BY <2>1 DEF ProjectComparison, op
<1> HIDE DEF q, x, b, l
<1>7. CASE c.op \in {"lt", "lteq"}
  <2>1. op = "lteq"
    BY <1>7 DEF AdjustOperator
  <2>2. p <= x
    BY <1>2, <1>4, <1>7, TransformOrder DEF x
  <2>3. p <= x + 1 /\ x + 1 \in Int
    BY <1>3, <1>5, <2>2
  <2>4. Compares("lteq", p, x) /\ Compares("lteq", p, x + 1)
    BY <2>2, <2>3 DEF Compares
  <2>5. q \in {Cond("lteq", {x}, "plain"), Cond("lteq", {x + 1}, "plain")}
    BY <1>6, <1>7, <2>1
  <2>6. Passes(Cond("lteq", {x}, "plain"), p) /\ Passes(Cond("lteq", {x + 1}, "plain"), p)
    BY <1>5, <2>3, <2>4, ComparisonPasses DEF CompareOps
  <2>7. QED
    BY <2>5, <2>6 DEF q
<1>8. CASE c.op \in {"gt", "gteq"}
  <2>1. op = "gteq"
    BY <1>8 DEF AdjustOperator
  <2>2. x <= p
    BY <1>2, <1>4, <1>8, TransformOrder DEF x
  <2>3. Compares("gteq", p, x)
    BY <1>3, <1>5, <2>2 DEF Compares
  <2>4. q = Cond("gteq", {x}, "plain")
    BY <1>6, <1>8, <2>1
  <2>5. QED
    BY <1>5, <2>3, <2>4, ComparisonPasses DEF CompareOps, q
<1>9. CASE c.op = "eq"
  <2>1. op = "eq"
    BY <1>9 DEF AdjustOperator
  <2>2. p = x
    BY <1>2, <1>9, HoldsIs DEF x, l
  <2>3. Compares("eq", p, x)
    BY <2>2 DEF Compares
  <2>4. q \in {Cond("eq", {x}, "plain"), Cond("in", {x, x + 1}, "plain")}
    BY <1>6, <1>9, <2>1
  <2>5. Passes(Cond("eq", {x}, "plain"), p)
    BY <1>5, <2>3, ComparisonPasses DEF CompareOps
  <2>6. Passes(Cond("in", {x, x + 1}, "plain"), p)
    BY <2>2, ListPasses
  <2>7. QED
    BY <2>4, <2>5, <2>6 DEF q
<1>10. CASE c.op = "not_eq"
  BY <1>6, <1>10 DEF Passes, q
<1>11. QED
  BY <1>7, <1>8, <1>9, <1>10 DEF CompareOps

\* The same for the prefix tests, on a truncated string.
LEMMA PrefixProjects ==
  ASSUME NEW t, NEW kind, OrderedTransform(t, kind), NEW c, Accepts(kind, c),
         NEW v \in Values, Holds(c, v), c.op \in PrefixOps,
         ~(c.op = "starts_with" /\ Bytes[Lit(c)] = t.w /\ Chars[Lit(c)] < Bytes[Lit(c)]),
         NEW p \in Values, p = Transformed(t, kind, v)
  PROVE  Passes(ProjectComparison(t, kind, c), p)
<1> DEFINE l == Lit(c)
           w == t.w
           q == ProjectComparison(t, kind, c)
<1>1. kind = "string" /\ t.name = "truncate" /\ w \in Nat /\ l \in Values
  BY HoldsIs DEF OrderedTransform
<1>2. AdjustBoundary(kind, c.op, l) = l
  BY <1>1 DEF AdjustBoundary
<1>3. l # Null /\ v # Null
  BY <1>1, CellFacts
<1>4. p = First(v, w) /\ Transformed(t, kind, l) = First(l, w)
  BY <1>1, <1>3 DEF Transformed, Truncate
<1>5. First(l, w) \in Values /\ First(l, w) \in Int /\ First(v, w) \in Int
      /\ Chars[l] \in Nat /\ Bytes[l] \in Nat /\ Chars[l] <= Bytes[l]
  BY <1>1, CutFacts, CellFacts
<1>6. \A x : ~AdjustsTime(t, kind, x)
  BY <1>1 DEF AdjustsTime
<1>7. LET op == AdjustOperator(c.op, l, t)
      IN  op # "none" => q = Cond(op, {First(l, w)}, "plain")
  <2>1. c.op # "not_eq"
    BY DEF PrefixOps
  <2>2. QED
    BY <1>2, <1>4, <1>6, <2>1 DEF ProjectComparison
<1>8. AdjustOperator(c.op, l, t) = "none" => q = NoCond
  BY <1>6 DEF ProjectComparison
<1> HIDE DEF l, w, q
<1>9. CASE c.op = "starts_with"
  <2>1. StartsWith(v, l)
    BY <1>9, HoldsIs DEF l
  <2>2. StartsWith(First(v, w), First(l, w))
    BY <1>1, <2>1, TruncatedPrefix
  <2>3. CASE Bytes[l] = w
    <3>1. AdjustOperator(c.op, l, t) = "eq"
      BY <1>1, <1>9, <2>3 DEF AdjustOperator, w
    <3>2. q = Cond("eq", {First(l, w)}, "plain")
      BY <1>7, <3>1
    <3>3. Chars[l] = w
      BY <1>5, <1>9, <2>3 DEF l, w
    <3>4. First(v, w) = l /\ First(l, w) = l
      BY <1>1, <2>1, <3>3, CutFacts DEF StartsWith
    <3>5. Compares("eq", p, First(l, w))
      BY <1>4, <3>4 DEF Compares
    <3>6. QED
      BY <1>5, <3>2, <3>5, ComparisonPasses DEF CompareOps, q
  <2>4. CASE Bytes[l] # w
    <3>1. AdjustOperator(c.op, l, t) = "starts_with"
      BY <1>1, <1>9, <2>4 DEF AdjustOperator, w
    <3>2. q = Cond("starts_with", {First(l, w)}, "plain")
      BY <1>7, <3>1
    <3>3. QED
      BY <1>4, <1>5, <2>2, <3>2, PrefixPasses DEF PrefixOps, q
  <2>5. QED
    BY <2>3, <2>4
<1>10. CASE c.op = "not_starts_with"
  <2>1. ~StartsWith(v, l)
    BY <1>10, HoldsIs DEF l
  <2>2. CASE Bytes[l] > w
    <3>1. AdjustOperator(c.op, l, t) = "none"
      BY <1>1, <1>5, <1>10, <2>2 DEF AdjustOperator, w
    <3>2. QED
      BY <1>8, <3>1 DEF Passes, q
  <2>3. CASE Bytes[l] = w
    <3>1. AdjustOperator(c.op, l, t) = "not_eq"
      BY <1>1, <1>5, <1>10, <2>3 DEF AdjustOperator, w
    <3>2. q = Cond("not_eq", {First(l, w)}, "plain")
      BY <1>7, <3>1
    <3>3. First(l, w) = l /\ First(v, w) # l
      BY <1>1, <1>5, <2>1, <2>3, TruncatedOther
    <3>4. Compares("not_eq", p, First(l, w))
      BY <1>4, <3>3 DEF Compares
    <3>5. QED
      BY <1>5, <3>2, <3>4, ComparisonPasses DEF CompareOps, q
  <2>4. CASE Bytes[l] < w
    <3>1. AdjustOperator(c.op, l, t) = "not_starts_with"
      BY <1>1, <1>5, <1>10, <2>4 DEF AdjustOperator, w
    <3>2. q = Cond("not_starts_with", {First(l, w)}, "plain")
      BY <1>7, <3>1
    <3>3. First(l, w) = l /\ ~StartsWith(First(v, w), l)
      BY <1>1, <1>5, <2>1, <2>4, TruncatedOther
    <3>4. QED
      BY <1>4, <1>5, <3>2, <3>3, PrefixPasses DEF PrefixOps, q
  <2>5. QED
    BY <1>1, <1>5, <2>2, <2>3, <2>4
<1>11. QED
  BY <1>9, <1>10 DEF PrefixOps

(* A prefix of as many bytes, but fewer characters, than the width. *)
ShortFor(t, c) ==
    /\ t.name = "truncate" /\ c.op = "starts_with"
    /\ Bytes[Lit(c)] = t.w /\ Chars[Lit(c)] < Bytes[Lit(c)]

\* Transform::project: what it makes of a condition that holds of a cell holds
\* of the cell's partition value.
LEMMA ProjectSound ==
  ASSUME NEW t, NEW kind \in Kinds, t.name \in TransformsOf(kind), t.w \in Nat \ {0},
         NEW c, Accepts(kind, c), NEW v \in Values \cup {Null}, Holds(c, v),
         DaysRight(t, c, v), ~ShortFor(t, c),
         NEW p, p = Transformed(t, kind, v), t.name # "void" /\ v \in Values => p \in Values
  PROVE  Passes(Project(t, kind, c), p)
<1>1. CASE t.name = "void"
  BY <1>1 DEF Project, Passes
<1>2. CASE t.name # "void" /\ v = Null
  <2>1. c.op = "is_null"
    BY <1>2, HoldsIs, CellFacts
  <2>2. Project(t, kind, c) = c
    BY <1>2, <2>1 DEF Project, UnaryOps
  <2>3. p = v
    BY <1>2 DEF Transformed
  <2>4. QED
    BY <2>2, <2>3, SamePasses
<1>3. CASE t.name # "void" /\ v \in Values
  <2>1. p \in Values /\ v # Null /\ c.op \in Ops
    BY <1>3, HoldsIs, CellFacts
  <2>2. CASE t.name = "identity"
    <3>1. Project(t, kind, c) = c /\ p = v
      BY <1>3, <2>1, <2>2 DEF Project, Transformed
    <3>2. QED
      BY <3>1, SamePasses
  <2>3. CASE t.name # "identity" /\ c.op \in UnaryOps
    <3>1. Project(t, kind, c) = c
      BY <1>3, <2>3 DEF Project
    <3>2. QED
      BY <1>3, <2>1, <2>3, <3>1, SamePasses
  <2>4. CASE t.name # "identity" /\ c.op \in {"in", "not_in"}
    <3>1. Project(t, kind, c) = ProjectSet(t, kind, c)
      BY <1>3, <2>4 DEF Project, UnaryOps
    <3>2. CASE c.op = "not_in"
      BY <3>1, <3>2 DEF ProjectSet, Passes
    <3>3. CASE c.op = "in"
      <4> DEFINE image == {Transformed(t, kind, l) : l \in c.lits}
                 S == image \cup {u + 1 : u \in {y \in image : AdjustsTime(t, kind, y)}}
      <4>1. ProjectSet(t, kind, c) = Cond("in", S, "plain")
        BY <3>3 DEF ProjectSet
      <4>2. v \in c.lits
        BY <3>3, HoldsIs
      <4>3. p \in S
        BY <4>2
      <4> HIDE DEF S
      <4>4. QED
        BY <2>1, <3>1, <4>1, <4>3, ListPasses
    <3>4. QED
      BY <2>4, <3>2, <3>3
  <2>5. CASE t.name = "bucket" /\ c.op \in CompareOps \cup PrefixOps
    <3>1. CASE c.op = "eq"
      <4>1. Project(t, kind, c) = Cond("eq", {Bucket(t.w, Lit(c))}, "plain")
        BY <2>5, <3>1 DEF Project, UnaryOps
      <4>2. v = Lit(c) /\ p = Bucket(t.w, v)
        BY <2>1, <2>5, <3>1, HoldsIs DEF Transformed
      <4>3. Project(t, kind, c) = Cond("eq", {p}, "plain") /\ Compares("eq", p, p) /\ p \in Int
        BY <2>1, <4>1, <4>2, CellFacts DEF Compares
      <4>4. QED
        BY <2>1, <4>3, ComparisonPasses DEF CompareOps
    <3>2. CASE c.op # "eq"
      <4>1. Project(t, kind, c) = NoCond
        BY <2>5, <3>2 DEF Project, UnaryOps, CompareOps, PrefixOps
      <4>2. QED
        BY <4>1 DEF Passes
    <3>3. QED
      BY <3>1, <3>2
  <2>6. CASE t.name \notin {"identity", "bucket"} /\ c.op \in CompareOps \cup PrefixOps
    <3>1. Project(t, kind, c) = ProjectComparison(t, kind, c)
      BY <1>3, <2>6 DEF Project, UnaryOps, CompareOps, PrefixOps
    <3>2. OrderedTransform(t, kind)
      <4>1. CASE kind = "float"
        BY <1>3, <2>6, <4>1 DEF TransformsOf
      <4>2. CASE kind \in {"int", "string"}
        BY <1>3, <2>6, <4>2 DEF TransformsOf, OrderedTransform
      <4>3. CASE kind \in {"ts", "tstz"}
        BY <1>3, <2>6, <4>3 DEF TransformsOf, OrderedTransform
      <4>4. QED
        BY <4>1, <4>2, <4>3 DEF Kinds
    <3>3. CASE c.op \in CompareOps
      BY <1>3, <2>1, <3>1, <3>2, <3>3, ComparisonProjects
    <3>4. CASE c.op \in PrefixOps
      <4>1. t.name = "truncate"
        BY <3>2, <3>4, HoldsIs DEF OrderedTransform
      <4>2. QED
        BY <1>3, <2>1, <3>1, <3>2, <3>4, <4>1, PrefixProjects DEF ShortFor
    <3>5. QED
      BY <2>6, <3>3, <3>4
  <2>7. QED
    BY <2>1, <2>2, <2>3, <2>4, <2>5, <2>6 DEF Ops, UnaryOps, CompareOps, PrefixOps
<1>4. QED
  BY <1>1, <1>2, <1>3

\* What a condition that holds of a partition value says.
LEMMA PartitionHoldsIs ==
  ASSUME NEW q, Readable(q), NEW p \in Values \cup {Null}, PartitionHolds(q, p)
  PROVE  /\ q.op = "is_null" => p = Null
         /\ q.op \in {"not_null", "in", "starts_with", "eq", "lt", "lteq", "gt", "gteq"} => p \in Values
         /\ q.op # "is_nan"
         /\ q.op \in {"eq", "lt", "lteq", "gt", "gteq"} => Lit(q) \in Int /\ Compares(q.op, p, Lit(q))
         /\ q.op = "in" => p \in q.lits
         /\ q.op \in PrefixOps => Lit(q) \in Values
         /\ q.op = "starts_with" => StartsWith(p, Lit(q))
         /\ q.op = "not_starts_with" => p = Null \/ ~StartsWith(p, Lit(q))
<1>1. q.op \in Ops
  BY DEF Readable
<1>2. q.op \notin {"not_nan", "not_eq", "not_in", "not_starts_with"} => Holds(q, p)
  BY DEF PartitionHolds
<1>3. q.op = "not_starts_with" => p = Null \/ Holds(q, p)
  BY DEF PartitionHolds
<1>4. q.op = "is_null" => p = Null
  BY <1>2 DEF Holds
<1>5. q.op # "is_nan"
  BY <1>2, CellFacts DEF Holds
<1>6. ASSUME q.op \in {"not_null", "in", "starts_with"} PROVE p \in Values
  BY <1>2, <1>6 DEF Holds
<1>7. ASSUME q.op \in {"eq", "lt", "lteq", "gt", "gteq"} PROVE p # Null /\ Compares(q.op, p, Lit(q))
  BY <1>2, <1>7 DEF Holds
<1>8. /\ q.op = "in" => p \in q.lits
      /\ q.op = "starts_with" => StartsWith(p, Lit(q))
      /\ q.op = "not_starts_with" => p = Null \/ ~StartsWith(p, Lit(q))
  BY <1>2, <1>3 DEF Holds
<1>9. /\ q.op \in {"eq", "lt", "lteq", "gt", "gteq"} => Lit(q) \in Int
      /\ q.op \in PrefixOps => Lit(q) \in Values
  BY DEF Readable, CompareOps
<1>10. QED
  BY <1>4, <1>5, <1>6, <1>7, <1>8, <1>9

\* ManifestEvaluator keeps a manifest one of whose partition values matches.
LEMMA ManifestSound ==
  ASSUME NEW q, Readable(q), NEW P, P \subseteq Values \cup {Null, NaN}, NEW p \in P, p # NaN,
         PartitionHolds(q, p)
  PROVE  ManifestMightMatch(q, FieldSummary(P))
<1> DEFINE V == P \ {Null, NaN}
           s == FieldSummary(P)
<1>1. /\ s.nulls = (Null \in P) /\ s.nans = (NaN \in P)
      /\ s.lower = IF V = {} THEN None ELSE Least(V)
      /\ s.upper = IF V = {} THEN None ELSE Greatest(V)
  BY DEF FieldSummary
<1>2. V \subseteq Values /\ p \in Values \cup {Null} /\ (p \in Values => p \in V) /\ (p = Null => Null \in P)
  BY CellFacts
<1> HIDE DEF V, s
<1>3. ASSUME p \in Values
      PROVE  /\ s.lower \in Values /\ s.upper \in Values /\ s.lower <= p /\ p <= s.upper
             /\ s.lower # None /\ s.upper # None /\ Within(s.lower, s.upper, p)
             /\ s.lower \in Int /\ s.upper \in Int /\ p \in Int
  <2>1. V # {}
    BY <1>2, <1>3
  <2>2. s.lower \in Values /\ s.upper \in Values /\ s.lower <= p /\ p <= s.upper
    BY <1>1, <1>2, <1>3, <2>1, CellExtremes
  <2>3. QED
    BY <1>3, <2>2, CellFacts DEF Within
<1>4. q.op \in Ops
  BY DEF Readable
<1>5. CASE q.op = "is_null"
  <2>1. s.nulls
    BY <1>1, <1>2, <1>5, PartitionHoldsIs
  <2>2. ManifestUnary(q, s)
    BY <1>5, <2>1 DEF ManifestUnary
  <2>3. QED
    BY <1>5, <2>2 DEF ManifestMightMatch, CompareOps, s
<1>6. CASE q.op = "not_null"
  <2>1. s.lower # None
    BY <1>2, <1>3, <1>6, PartitionHoldsIs
  <2>2. ManifestUnary(q, s)
    BY <1>6, <2>1 DEF ManifestUnary, AllNull
  <2>3. QED
    BY <1>6, <2>2 DEF ManifestMightMatch, CompareOps, s
<1>7. CASE q.op = "not_nan"
  <2>1. s.lower # None \/ s.nulls
    BY <1>1, <1>2, <1>3
  <2>2. ManifestUnary(q, s)
    BY <1>7, <2>1 DEF ManifestUnary
  <2>3. QED
    BY <1>7, <2>2 DEF ManifestMightMatch, CompareOps, s
<1>8. CASE q.op = "not_eq"
  BY <1>8 DEF ManifestMightMatch, ManifestCompare, CompareOps
<1>9. CASE q.op = "eq"
  <2>1. p \in Values /\ p = Lit(q)
    BY <1>2, <1>9, PartitionHoldsIs DEF Compares
  <2>2. s.lower # None /\ s.upper # None /\ s.lower <= Lit(q) /\ s.upper >= Lit(q)
    BY <1>3, <2>1
  <2>3. ManifestCompare(q, s)
    BY <1>9, <2>2 DEF ManifestCompare
  <2>4. QED
    BY <1>9, <2>3 DEF ManifestMightMatch, CompareOps, s
<1>10. CASE q.op \in {"lt", "lteq", "gt", "gteq"}
  <2>1. p \in Values /\ Lit(q) \in Int /\ Compares(q.op, p, Lit(q))
    BY <1>2, <1>10, PartitionHoldsIs
  <2>2. /\ q.op \in {"lt", "lteq"} => Compares(q.op, s.lower, Lit(q))
        /\ q.op \in {"gt", "gteq"} => Compares(q.op, s.upper, Lit(q))
    <3> DEFINE l == Lit(q)
    <3>1. l \in Int /\ s.lower \in Int /\ s.upper \in Int /\ p \in Int /\ s.lower <= p /\ p <= s.upper
      BY <1>3, <2>1
    <3> HIDE DEF l
    <3>2. /\ p < l => s.lower < l
          /\ p <= l => s.lower <= l
          /\ p > l => s.upper > l
          /\ p >= l => s.upper >= l
      BY <3>1
    <3>3. CASE q.op = "lt"
      BY <2>1, <3>2, <3>3 DEF Compares, l
    <3>4. CASE q.op = "lteq"
      BY <2>1, <3>2, <3>4 DEF Compares, l
    <3>5. CASE q.op = "gt"
      BY <2>1, <3>2, <3>5 DEF Compares, l
    <3>6. CASE q.op = "gteq"
      BY <2>1, <3>2, <3>6 DEF Compares, l
    <3>7. QED
      BY <1>10, <3>3, <3>4, <3>5, <3>6
  <2>3. ManifestCompare(q, s)
    <3>1. CASE q.op \in {"lt", "lteq"}
      BY <1>3, <2>1, <2>2, <3>1 DEF ManifestCompare
    <3>2. CASE q.op \in {"gt", "gteq"}
      BY <1>3, <2>1, <2>2, <3>2 DEF ManifestCompare
    <3>3. QED
      BY <1>10, <3>1, <3>2
  <2>4. QED
    BY <1>10, <2>3 DEF ManifestMightMatch, CompareOps, s
<1>11. CASE q.op = "starts_with"
  <2>1. p \in Values /\ Lit(q) \in Values /\ StartsWith(p, Lit(q))
    BY <1>2, <1>11, PartitionHoldsIs DEF PrefixOps
  <2>2. StartsWithFits(q, s.lower, s.upper)
    BY <1>3, <2>1, StartsWithOK
  <2>3. ManifestPrefix(q, s)
    BY <1>3, <1>11, <2>1, <2>2 DEF ManifestPrefix
  <2>4. QED
    BY <1>11, <2>3 DEF ManifestMightMatch, CompareOps, s
<1>12. CASE q.op = "not_starts_with"
  <2>1. Lit(q) \in Values /\ (p = Null \/ ~StartsWith(p, Lit(q)))
    BY <1>2, <1>12, PartitionHoldsIs DEF PrefixOps
  <2>2. s.nulls \/ NotStartsWithFits(q, s.lower, s.upper)
    BY <1>1, <1>2, <1>3, <2>1, NotStartsWithOK
  <2>3. ManifestPrefix(q, s)
    BY <1>12, <2>2 DEF ManifestPrefix
  <2>4. QED
    BY <1>12, <2>3 DEF ManifestMightMatch, CompareOps, s
<1>13. CASE q.op \in {"in", "not_in"}
  <2>1. ASSUME q.op = "in" PROVE ManifestSet(q, s)
    <3>1. p \in Values /\ p \in q.lits
      BY <1>2, <2>1, PartitionHoldsIs
    <3>2. p >= s.lower /\ p <= s.upper /\ s.lower # None
      BY <1>3, <3>1
    <3>3. QED
      BY <3>1, <3>2 DEF ManifestSet
  <2>2. ManifestSet(q, s)
    BY <1>13, <2>1 DEF ManifestSet
  <2>3. QED
    BY <1>13, <2>2 DEF ManifestMightMatch, CompareOps, s
<1>14. QED
  BY <1>2, <1>4, <1>5, <1>6, <1>7, <1>8, <1>9, <1>10, <1>11, <1>12, <1>13, PartitionHoldsIs DEF Ops

-----------------------------------------------------------------------------
(* What conversion leaves of a filter: nothing, the filter itself if all   *)
(* of it is plain, or the plain half of an AND.                            *)
Plainly(c) == c.form = "plain"
LeftOf(f, g) ==
    \/ g.con = "true"
    \/ g = f /\ Plainly(f.l) /\ (f.con # "one" => Plainly(f.r))
    \/ f.con = "and" /\ \E c \in {f.l, f.r} : Plainly(c) /\ g = Filter("one", c, c)

(* A predicate that the conditions in S satisfy. *)
Met(g, S) ==
    \/ g.con = "true"
    \/ g.con = "one" /\ g.l \in S
    \/ g.con = "and" /\ g.l \in S /\ g.r \in S
    \/ g.con = "or" /\ (g.l \in S \/ g.r \in S)

FilterOK(kind, f) ==
    \/ f = NoFilter
    \/ /\ f = Filter(f.con, f.l, f.r)
       /\ f.con \in {"one", "and", "or", "not", "not_and", "not_or"}
       /\ Accepts(kind, f.l) /\ Accepts(kind, f.r)

(* The same without NOT. *)
PredicateOK(kind, g) ==
    \/ g = NoFilter
    \/ /\ g = Filter(g.con, g.l, g.r) /\ g.con \in {"one", "and", "or"}
       /\ Accepts(kind, g.l) /\ Accepts(kind, g.r)

\* PredicateOperator::negate stays within what SQL accepts.
LEMMA NegateFacts ==
  ASSUME NEW kind, NEW c, Accepts(kind, c)
  PROVE  Accepts(kind, Negate(c)) /\ Negate(c).form = c.form
<1> DEFINE op == c.op
           n == NegatedOp(op)
<1>1. op \in Ops /\ c.lits \in SUBSET Literals(kind) /\ c.form \in Forms
  BY DEF Accepts
<1>2. Negate(c) = [op |-> n, lits |-> c.lits, form |-> c.form]
  BY DEF Negate, Cond
<1> HIDE DEF op
<1>3. /\ n \in Ops
      /\ n \in CompareOps => op \in CompareOps
      /\ n \in PrefixOps => op \in PrefixOps
  BY <1>1 DEF NegatedOp, Ops, CompareOps, PrefixOps
<1> HIDE DEF n
<1>4. Negate(c) \in [op : Ops, lits : SUBSET Literals(kind), form : Forms]
  BY <1>1, <1>2, <1>3
<1>5. Negate(c).op = n /\ Negate(c).lits = c.lits /\ Negate(c).form = c.form
  BY <1>2
<1>6. n \in CompareOps \cup PrefixOps => \E l \in Literals(kind) : c.lits = {l}
  BY <1>3 DEF Accepts, op
<1>7. n \in PrefixOps => kind = "string"
  BY <1>3 DEF Accepts, op
<1>8. QED
  BY <1>4, <1>5, <1>6, <1>7 DEF Accepts

(* Conversion, where cl and cr say which half converts. *)
ConvertedBy(f, cl, cr) ==
    CASE f.con \in {"one", "not"} -> IF cl THEN f ELSE [f EXCEPT !.con = "true"]
      [] f.con \notin {"one", "not"} /\ cl /\ cr -> f
      [] f.con \in {"and", "not_and"} /\ cl /\ ~cr -> Half(f, f.l)
      [] f.con \in {"and", "not_and"} /\ cr /\ ~cl -> Half(f, f.r)
      [] OTHER -> [f EXCEPT !.con = "true"]

\* Unless half of a NOT AND converts, what is left of a filter is left of the
\* filter without NOT.
LEMMA HalvesLeft ==
  ASSUME NEW f, f = Filter(f.con, f.l, f.r),
         f.con \in {"one", "and", "or", "not", "not_and", "not_or"},
         NEW cl \in BOOLEAN, NEW cr \in BOOLEAN, f.con = "not_and" => cl = cr,
         cl => Plainly(f.l) /\ Plainly(Negate(f.l)),
         cr /\ f.con \notin {"one", "not"} => Plainly(f.r) /\ Plainly(Negate(f.r))
  PROVE  LeftOf(Rewritten(f), Rewritten(ConvertedBy(f, cl, cr)))
<1> DEFINE p == ConvertedBy(f, cl, cr)
           e == [f EXCEPT !.con = "true"]
<1>1. e.con = "true" /\ Rewritten(e).con = "true"
  BY DEF Filter, Rewritten
<1>2. CASE p = e
  BY <1>1, <1>2 DEF LeftOf
<1>3. CASE p = f /\ cl /\ (f.con \notin {"one", "not"} => cr)
  <2>1. Rewritten(f).con = "one" => f.con \in {"one", "not"}
    BY DEF Rewritten, Filter
  <2>2. /\ Rewritten(f).l \in {f.l, Negate(f.l)}
        /\ Rewritten(f).r \in {f.r, Negate(f.r)}
    BY DEF Rewritten, Filter
  <2>3. f.con \in {"one", "not"} => Rewritten(f).con = "one"
    BY DEF Rewritten, Filter
  <2>4. QED
    BY <1>3, <2>1, <2>2, <2>3 DEF LeftOf
<1>4. CASE f.con = "and" /\ cl # cr
  <2> DEFINE c == IF cl THEN f.l ELSE f.r
  <2>1. p = Filter("one", c, c)
    BY <1>4 DEF ConvertedBy, Half
  <2>2. Rewritten(f) = f /\ Rewritten(p) = p
    BY <1>4, <2>1 DEF Rewritten, Filter
  <2>3. c \in {f.l, f.r} /\ Plainly(c)
    BY <1>4
  <2>4. QED
    BY <1>4, <2>1, <2>2, <2>3 DEF LeftOf
<1>5. p = e \/ (p = f /\ cl /\ (f.con \notin {"one", "not"} => cr)) \/ (f.con = "and" /\ cl # cr)
  <2>1. CASE f.con \in {"one", "not"}
    BY <2>1 DEF ConvertedBy
  <2>2. CASE f.con \notin {"one", "not"} /\ cl /\ cr
    BY <2>2 DEF ConvertedBy
  <2>3. CASE f.con = "and" /\ cl # cr
    BY <2>3
  <2>4. CASE f.con \notin {"one", "not"} /\ ~(cl /\ cr) /\ ~(f.con = "and" /\ cl # cr)
    <3>1. f.con \notin {"one", "not"} /\ ~(cl /\ cr)
          /\ ~(f.con \in {"and", "not_and"} /\ cl /\ ~cr) /\ ~(f.con \in {"and", "not_and"} /\ cr /\ ~cl)
      BY <2>4
    <3>2. QED
      BY <3>1 DEF ConvertedBy
  <2>5. QED
    BY <2>1, <2>2, <2>3, <2>4
<1>6. QED
  BY <1>2, <1>3, <1>4, <1>5

\* to_iceberg_and_predicate, to_iceberg_or_predicate, NOT and rewrite_not.
LEMMA ConversionLeaves ==
  ASSUME NEW kind, NEW f, FilterOK(kind, f), ~HalfNegated(f),
         \A c \in Conds(Rewritten(f)) : c.form # "cast"
  PROVE  /\ PredicateOK(kind, Rewritten(f))
         /\ LeftOf(Rewritten(f), Static(f)) /\ LeftOf(Rewritten(f), Physical(f))
<1>1. CASE f = NoFilter
  <2>1. f.con = "true" /\ Rewritten(f) = f
    BY <1>1 DEF NoFilter, Filter, Rewritten
  <2>2. [f EXCEPT !.con = "true"].con = "true"
    BY <1>1 DEF NoFilter, Filter
  <2>3. Converted(f, LogicalConverts).con = "true" /\ Converted(f, PhysicalConverts).con = "true"
    BY <2>1, <2>2 DEF Converted
  <2>4. Static(f).con = "true" /\ Physical(f).con = "true"
    BY <2>3 DEF Static, Physical, Rewritten
  <2>5. QED
    BY <1>1, <2>1, <2>4 DEF PredicateOK, LeftOf
<1>2. CASE f # NoFilter
  <2> DEFINE g == Rewritten(f)
  <2>1. /\ f = Filter(f.con, f.l, f.r)
        /\ f.con \in {"one", "and", "or", "not", "not_and", "not_or"}
        /\ Accepts(kind, f.l) /\ Accepts(kind, f.r)
    BY <1>2 DEF FilterOK
  <2>2. /\ Accepts(kind, Negate(f.l)) /\ Negate(f.l).form = f.l.form
        /\ Accepts(kind, Negate(f.r)) /\ Negate(f.r).form = f.r.form
    BY <2>1, NegateFacts
  <2>3. /\ g = Filter(g.con, g.l, g.r) /\ g.con \in {"one", "and", "or"}
        /\ g.l \in {f.l, Negate(f.l)} /\ g.r \in {f.r, Negate(f.r)}
        /\ f.con \notin {"one", "not"} => g.con # "one"
    BY <2>1 DEF Rewritten, Filter
  <2>4. PredicateOK(kind, g)
    BY <2>1, <2>2, <2>3 DEF PredicateOK
  <2>5. g.l \in Conds(g) /\ (f.con \notin {"one", "not"} => g.r \in Conds(g))
    BY <2>3 DEF Conds
  <2>6. f.l.form # "cast" /\ (f.con \notin {"one", "not"} => f.r.form # "cast")
    BY <2>2, <2>3, <2>5
  <2>7. f.l.form \in Forms /\ f.r.form \in Forms
    BY <2>1 DEF Accepts
  <2>8. /\ LogicalConverts(f.l) => Plainly(f.l) /\ Plainly(Negate(f.l))
        /\ LogicalConverts(f.r) /\ f.con \notin {"one", "not"} => Plainly(f.r) /\ Plainly(Negate(f.r))
    BY <2>2, <2>6, <2>7 DEF LogicalConverts, Plainly, Forms
  <2>9. /\ PhysicalConverts(f.l) => Plainly(f.l) /\ Plainly(Negate(f.l))
        /\ PhysicalConverts(f.r) => Plainly(f.r) /\ Plainly(Negate(f.r))
    BY <2>2 DEF PhysicalConverts, Plainly
  <2>10. /\ LogicalConverts(f.l) \in BOOLEAN /\ LogicalConverts(f.r) \in BOOLEAN
         /\ PhysicalConverts(f.l) \in BOOLEAN /\ PhysicalConverts(f.r) \in BOOLEAN
    BY DEF LogicalConverts, PhysicalConverts
  <2>11. f.con = "not_and" => /\ LogicalConverts(f.l) = LogicalConverts(f.r)
                              /\ PhysicalConverts(f.l) = PhysicalConverts(f.r)
    BY DEF HalfNegated
  <2>12. LeftOf(g, Static(f))
    <3>1. Converted(f, LogicalConverts) = ConvertedBy(f, LogicalConverts(f.l), LogicalConverts(f.r))
      BY DEF Converted, ConvertedBy
    <3>2. LeftOf(g, Rewritten(ConvertedBy(f, LogicalConverts(f.l), LogicalConverts(f.r))))
      BY <2>1, <2>8, <2>10, <2>11, HalvesLeft
    <3>3. QED
      BY <3>1, <3>2 DEF Static
  <2>13. LeftOf(g, Physical(f))
    <3>1. Converted(f, PhysicalConverts) = ConvertedBy(f, PhysicalConverts(f.l), PhysicalConverts(f.r))
      BY DEF Converted, ConvertedBy
    <3>2. LeftOf(g, Rewritten(ConvertedBy(f, PhysicalConverts(f.l), PhysicalConverts(f.r))))
      BY <2>1, <2>9, <2>10, <2>11, HalvesLeft
    <3>3. QED
      BY <3>1, <3>2 DEF Physical
  <2>14. QED
    BY <2>4, <2>12, <2>13
<1>3. QED
  BY <1>1, <1>2

(* The conditions of a filter that hold of a cell and may be converted. *)
Satisfied(kind, f, v) == {c \in Conds(f) : Plainly(c) /\ Accepts(kind, c) /\ Holds(c, v)}

\* A cell that satisfies a filter satisfies what conversion leaves of it.
LEMMA ConversionWeakens ==
  ASSUME NEW kind, NEW f, PredicateOK(kind, f), NEW v, Evaluate(f, LAMBDA c : Means(c, v)),
         NEW g, LeftOf(f, g)
  PROVE  Met(g, Satisfied(kind, f, v))
<1> DEFINE S == Satisfied(kind, f, v)
<1>1. CASE g.con = "true"
  BY <1>1 DEF Met
<1>2. CASE g.con # "true" /\ f = NoFilter
  BY <1>2 DEF LeftOf, NoFilter, Filter
<1>3. CASE g.con # "true" /\ f # NoFilter
  <2>1. /\ f.con \in {"one", "and", "or"} /\ Accepts(kind, f.l) /\ Accepts(kind, f.r)
    BY <1>3 DEF PredicateOK
  <2>2. \A c \in Conds(f) : Accepts(kind, c)
    BY <2>1 DEF Conds
  <2>3. ASSUME NEW c \in Conds(f), Plainly(c), Means(c, v) PROVE c \in S
    <3>1. Holds(c, v)
      BY <2>3 DEF Means, Plainly
    <3>2. QED
      BY <2>2, <2>3, <3>1 DEF Satisfied
  <2>4. f.l \in Conds(f) /\ (f.con # "one" => f.r \in Conds(f))
    BY DEF Conds
  <2> HIDE DEF S
  <2>5. /\ f.con = "one" => Means(f.l, v)
        /\ f.con = "and" => Means(f.l, v) /\ Means(f.r, v)
        /\ f.con = "or" => Means(f.l, v) \/ Means(f.r, v)
    BY <2>1 DEF Evaluate
  <2>6. CASE g = f /\ Plainly(f.l) /\ (f.con # "one" => Plainly(f.r))
    BY <2>1, <2>3, <2>4, <2>5, <2>6 DEF Met, S
  <2>7. CASE f.con = "and" /\ \E c \in {f.l, f.r} : Plainly(c) /\ g = Filter("one", c, c)
    <3>1. PICK c \in {f.l, f.r} : Plainly(c) /\ g = Filter("one", c, c)
      BY <2>7
    <3>2. g.con = "one" /\ g.l = c /\ c \in S
      BY <2>3, <2>4, <2>5, <2>7, <3>1 DEF Filter
    <3>3. QED
      BY <3>2 DEF Met, S
  <2>8. QED
    BY <1>3, <2>6, <2>7 DEF LeftOf
<1>4. QED
  BY <1>1, <1>2, <1>3

-----------------------------------------------------------------------------
(* A query has a filter of the table's, and its file is one of the table's *)
(* or the old one.                                                         *)
Written(j) == [partition |-> output[j].partition, rows |-> output[j].rows, old |-> FALSE]

ChosenInv ==
    stage # "idle" =>
        /\ query.filter \in table.filters
        /\ file.old = TRUE \/ \E j \in DOMAIN output : file = Written(j)

\* Every step keeps that.
LEMMA ChosenStep ==
  ASSUME ChosenInv, [Next]_vars
  PROVE  ChosenInv'
<1>1. CASE Write
  BY <1>1 DEF Write, readVars, ChosenInv
<1>2. CASE \E f \in table.filters, d \in table.deletes : ChooseQuery(f, d)
  <2>1. PICK f \in table.filters, d \in table.deletes : ChooseQuery(f, d)
    BY <1>2
  <2>2. /\ query' = [filter |-> f, deletes |-> d] /\ tid' = tid /\ output' = output
        /\ (\E i \in DOMAIN output : file' = Written(i)) \/ file' = OldFile(table)
    BY <2>1 DEF ChooseQuery, writerVars, Written
  <2>3. query'.filter \in table'.filters
    BY <2>2 DEF table
  <2>4. file'.old = TRUE \/ \E i \in DOMAIN output' : file' = Written(i)'
    BY <2>2 DEF OldFile, Written
  <2>5. QED
    BY <2>3, <2>4 DEF ChosenInv
<1>3. CASE PlanFile \/ SelectRowGroups \/ WalkDeletes \/ ReadRows
  <2>1. stage # "idle" /\ UNCHANGED <<tid, output, query, file>>
    BY <1>3 DEF PlanFile, SelectRowGroups, WalkDeletes, ReadRows, writerVars
  <2>2. QED
    BY <2>1 DEF ChosenInv, Written, table
<1>4. CASE UNCHANGED vars
  BY <1>4 DEF vars, ChosenInv, Written, table
<1>5. QED
  BY <1>1, <1>2, <1>3, <1>4 DEF Next

\* The table's part of the assumptions.
LEMMA TableFacts ==
  ASSUME InputOK
  PROVE  /\ table.kind \in Kinds /\ table.transform.name \in TransformsOf(table.kind)
         /\ table.transform.w \in Nat \ {0}
         /\ table.cells \subseteq Values \cup {Null, NaN}
         /\ NaN \in table.cells => table.kind = "float"
         /\ \A v \in table.cells : table.transform.name # "void" /\ v \in Values
                => Transformed(table.transform, table.kind, v) \in Values
         /\ \A f \in table.filters : FilterOK(table.kind, f)
<1>1. tid \in DOMAIN Tables /\ table = Tables[tid]
  BY DEF InputOK, table
<1>2. /\ table.kind \in Kinds /\ table.transform.name \in TransformsOf(table.kind)
      /\ table.transform.w \in Nat \ {0}
      /\ table.cells \subseteq CellsOfKind(table.kind) \cup {Null}
      /\ table.transform.name # "void" =>
             \A v \in table.cells \cap Values : Transformed(table.transform, table.kind, v) \in Values
  BY <1>1, TablesAssumption
<1>3. \A f \in table.filters : FilterOK(table.kind, f)
  BY <1>1, FiltersAssumption DEF FilterOK
<1>4. NaN \in table.cells => table.kind = "float"
  BY <1>2, CellFacts DEF CellsOfKind
<1>5. table.cells \subseteq Values \cup {Null, NaN}
  BY <1>2 DEF CellsOfKind
<1>6. QED
  BY <1>2, <1>3, <1>4, <1>5

\* Partition values are cells, Null or NaN.
LEMMA PartitionValues ==
  ASSUME InputOK, table.mode # "unpartitioned", NEW n \in 1..Len(input)
  PROVE  Key(n) = Transformed(table.transform, table.kind, input[n].cell)
         /\ Key(n) \in Values \cup {Null, NaN}
<1> DEFINE v == input[n].cell
           t == table.transform
           k == table.kind
<1>1. Key(n) = Transformed(t, k, v)
  BY DEF Key, PartitionOf, RowAt
<1>2. v \in table.cells
  BY InputFacts
<1> HIDE DEF v
<1>3. ASSUME v = Null \/ t.name = "void"
      PROVE  Key(n) \in Values \cup {Null, NaN}
  BY <1>1, <1>3 DEF Transformed
<1>4. ASSUME v \in Values /\ t.name # "void"
      PROVE  Key(n) \in Values \cup {Null, NaN}
  BY <1>1, <1>2, <1>4, TableFacts
<1>5. ASSUME v = NaN /\ t.name # "void"
      PROVE  Key(n) \in Values \cup {Null, NaN}
  <2>1. t.name = "identity" /\ v # Null
    BY <1>2, <1>5, TableFacts, CellFacts DEF TransformsOf
  <2>2. QED
    BY <1>1, <1>5, <2>1 DEF Transformed
<1>6. QED
  BY <1>1, <1>2, <1>3, <1>4, <1>5, TableFacts DEF v

\* A row of a file that was written has a cell of the table and the file's
\* partition value.
LEMMA WrittenRow ==
  ASSUME WriterInv, FileOK, NEW j \in DOMAIN output, file = Written(j), NEW q \in 1..FileLen
  PROVE  LET r == file.rows[q]
         IN  /\ r.cell \in table.cells
             /\ file.partition = PartitionOf(table, r)
             /\ r.id \in 1..Len(input) /\ r = RowAt(r.id)
<1> DEFINE r == file.rows[q]
<1>1. file.rows = output[j].rows /\ file.partition = output[j].partition
  BY DEF Written
<1>2. j \in 1..Len(output) /\ Run(output[j].rows, output[j].partition)
  BY DEF WriterInv, WritersOK, OutOK
<1>3. file.rows \in Seq(RowSet) /\ r.id \in 1..taken /\ Key(r.id) = file.partition
  BY <1>1, <1>2 DEF Run, FileLen
<1>4. r \in RowSet
  BY <1>3, MemberOf DEF FileLen
<1>5. r.id \in 1..Len(input) /\ r = RowAt(r.id) /\ r.cell = input[r.id].cell
  BY <1>4, RowFacts
<1>6. r.cell \in table.cells
  BY <1>5, InputFacts DEF WriterInv
<1>7. file.partition = PartitionOf(table, r)
  BY <1>3, <1>5 DEF Key
<1>8. QED
  BY <1>5, <1>6, <1>7

-----------------------------------------------------------------------------
(* The row at place q satisfies the conditions in S, none of which is a    *)
(* known case, and they satisfy both predicates made of the filter.        *)
MeetsAll(q, S) ==
    /\ q \in 1..FileLen /\ file.rows[q].cell \in Values \cup {Null}
    /\ Met(Static(query.filter), S) /\ Met(Physical(query.filter), S)
    /\ \A c \in S : /\ Accepts(table.kind, c) /\ Holds(c, file.rows[q].cell)
                    /\ ~MayBeLost(c, file.rows[q])
    /\ ~OutsideBounds(file.rows[q])

\* The plan keeps the row's manifest and file by the partition value
\* (build_manifest_file_contexts, process_data_manifest_entry).
LEMMA PartitionKeeps ==
  ASSUME WriterInv, FileOK, ChosenInv, stage # "idle", ~file.old, NEW q, NEW S, MeetsAll(q, S)
  PROVE  ManifestKept /\ PartitionKept
<1> SUFFICES ASSUME Partitioned PROVE ManifestKept /\ PartitionKept
  BY DEF ManifestKept, PartitionKept
<1> DEFINE r == file.rows[q]
           v == r.cell
           t == table.transform
           k == table.kind
           p == file.partition
           P == {output[i].partition : i \in DOMAIN output}
<1>1. PICK j \in DOMAIN output : file = Written(j)
  BY DEF ChosenInv
<1>2. q \in 1..FileLen /\ v \in Values \cup {Null}
  BY DEF MeetsAll
<1>3. v \in table.cells /\ p = PartitionOf(table, r)
  BY <1>1, <1>2, WrittenRow
<1>4. p = Transformed(t, k, v) /\ table.mode # "unpartitioned"
  BY <1>3 DEF PartitionOf, Partitioned
<1>5. /\ k \in Kinds /\ t.name \in TransformsOf(k) /\ t.w \in Nat \ {0}
      /\ t.name # "void" /\ v \in Values => p \in Values
  BY <1>3, <1>4, TableFacts DEF WriterInv
<1>6. p \in Values \cup {Null} /\ p # NaN
  <2>1. CASE t.name = "void" \/ v = Null
    BY <1>4, <2>1, CellFacts DEF Transformed
  <2>2. CASE t.name # "void" /\ v \in Values
    BY <1>5, <2>2, CellFacts
  <2>3. QED
    BY <1>2, <2>1, <2>2
<1>7. p \in P
  BY <1>1 DEF Written
<1>8. P \subseteq Values \cup {Null, NaN}
  <2>1. SUFFICES ASSUME NEW i \in DOMAIN output PROVE output[i].partition \in Values \cup {Null, NaN}
    OBVIOUS
  <2>2. output[i] \in DataFiles
    BY DEF WriterInv, WritersOK, OutOK
  <2>3. PICK n \in 1..Len(input) : output[i].partition = Key(n)
    BY <2>2 DEF DataFiles
  <2>4. QED
    BY <1>4, <2>3, PartitionValues DEF WriterInv
<1>9. \A c \in S : Accepts(k, c) /\ Holds(c, v) /\ DaysRight(t, c, v) /\ ~ShortFor(t, c)
  BY DEF MeetsAll, MayBeLost, DayMisplaced, DaysRight, ShortPrefix, ShortFor
<1> HIDE DEF v, t, k, p, P
<1>10. \A c \in S : Passes(Project(t, k, c), p)
  BY <1>2, <1>4, <1>5, <1>9, ProjectSound
<1>11. \A c \in S : PartitionMatches(t, k, c, p)
  BY <1>10 DEF PartitionMatches, Passes
<1>12. \A c \in S : ManifestMatches(t, k, c, FieldSummary(P))
  <2>1. SUFFICES ASSUME NEW c \in S, Project(t, k, c) # NoCond
                 PROVE  ManifestMightMatch(Project(t, k, c), FieldSummary(P))
    BY DEF ManifestMatches
  <2> DEFINE g == Project(t, k, c)
  <2>2. Readable(g) /\ PartitionHolds(g, p)
    BY <1>10, <2>1 DEF Passes
  <2> HIDE DEF g
  <2>3. ManifestMightMatch(g, FieldSummary(P))
    BY <1>6, <1>7, <1>8, <2>2, ManifestSound
  <2>4. QED
    BY <2>3 DEF g
<1>13. Met(Static(query.filter), S) /\ Met(Physical(query.filter), S)
  BY DEF MeetsAll
<1>14. ManifestKept
  <2>1. \A c \in S : ManifestMatches(table.transform, table.kind, c, ManifestSummary)
    BY <1>12 DEF ManifestSummary, P, t, k
  <2>2. QED
    BY <1>13, <2>1 DEF ManifestKept, Says, Evaluate, Met
<1>15. PartitionKept
  <2>1. \A c \in S : PartitionMatches(table.transform, table.kind, c, file.partition)
    BY <1>11 DEF p, t, k
  <2>2. QED
    BY <1>13, <2>1 DEF PartitionKept, Says, Evaluate, Met
<1>16. QED
  BY <1>14, <1>15

\* So do the metrics of the file, the statistics of the row group and of the
\* page, and the row filter (process_data_manifest_entry,
\* process_file_scan_task).
LEMMA StatisticsKeep ==
  ASSUME WriterInv, FileOK, ~file.old, NEW q, NEW S, MeetsAll(q, S)
  PROVE  LET i == ChunkOf(q, RowGroupSize)
         IN  /\ MetricsKept /\ GroupKept(i) /\ RowKept(file.rows[q])
             /\ PageKept(Groups[i], q - GroupStart(i))
<1> DEFINE r == file.rows[q]
           v == r.cell
           kind == table.kind
           i == ChunkOf(q, RowGroupSize)
           k == q - GroupStart(i)
           g == Groups[i]
<1>1. q \in 1..FileLen /\ v \in Values \cup {Null} /\ Len(input) \in Nat
  BY InputFacts DEF MeetsAll, WriterInv
<1>2. \A c \in S : Accepts(kind, c) /\ Holds(c, v) /\ ~MayBeLost(c, r)
  BY DEF MeetsAll
<1>3. Met(Static(query.filter), S) /\ Met(Physical(query.filter), S)
  BY DEF MeetsAll
<1>4. ~OutsideBounds(r)
  BY DEF MeetsAll
<1>5. Covers(FileMetrics(kind, file.rows), v)
  BY <1>1, <1>4, MetricsCover
<1>6. i \in 1..GroupCount /\ k \in 1..GroupLen(i) /\ g[k] = r
  BY <1>1, RowsGroup
<1>7. g \in Seq(AnyRow) /\ Len(g) = GroupLen(i) /\ GroupLen(i) \in Nat
  <2>1. Groups \in Seq(Seq(AnyRow)) /\ Len(Groups) = GroupCount /\ Len(g) = GroupLen(i)
        /\ GroupLen(i) \in Nat
    BY <1>6, GroupFacts
  <2>2. QED
    BY <1>6, <2>1, MemberOf
<1> HIDE DEF v, r, k, g, i, kind
<1>8. Covers(Statistics(kind, g), v)
  <2>1. v = g[k].cell /\ k \in 1..Len(g)
    BY <1>6, <1>7 DEF v
  <2>2. QED
    BY <1>7, <2>1, StatisticsCover
<1> DEFINE b == ChunkOf(k, PageSize)
           m == k - ChunkStart(b, PageSize)
           page == Chunks(g, PageSize)[b]
<1>9. page \in Seq(AnyRow) /\ m \in 1..Len(page) /\ page[m] = r
  <2>1. PageSize \in Nat \ {0} /\ k \in 1..Len(g) /\ Len(g) \in Nat
    BY <1>6, <1>7, SizesAssumption
  <2>2. b \in 1..ChunkCount(Len(g), PageSize) /\ m \in 1..ChunkLen(b, Len(g), PageSize)
    BY <2>1, ChunkFound
  <2>3. ChunkStart(b, PageSize) \in Nat
    BY <2>1, <2>2, ChunkPlace
  <2>4. ChunkStart(b, PageSize) + m = k
    BY <2>1, <2>3
  <2> HIDE DEF b, m
  <2>5. /\ Chunks(g, PageSize) \in Seq(Seq(AnyRow))
        /\ Len(Chunks(g, PageSize)) = ChunkCount(Len(g), PageSize)
        /\ \A a \in 1..ChunkCount(Len(g), PageSize) :
              /\ Len(Chunks(g, PageSize)[a]) = ChunkLen(a, Len(g), PageSize)
              /\ \A e \in 1..ChunkLen(a, Len(g), PageSize) :
                    /\ ChunkStart(a, PageSize) + e \in 1..Len(g)
                    /\ Chunks(g, PageSize)[a][e] = g[ChunkStart(a, PageSize) + e]
    <3> DEFINE n == PageSize
    <3>1. g \in Seq(AnyRow) /\ n \in Nat \ {0}
      BY <1>7, <2>1
    <3> HIDE DEF n
    <3>2. /\ Chunks(g, n) \in Seq(Seq(AnyRow)) /\ Len(Chunks(g, n)) = ChunkCount(Len(g), n)
          /\ \A a \in 1..ChunkCount(Len(g), n) :
                /\ Len(Chunks(g, n)[a]) = ChunkLen(a, Len(g), n)
                /\ \A e \in 1..ChunkLen(a, Len(g), n) :
                      /\ ChunkStart(a, n) + e \in 1..Len(g)
                      /\ Chunks(g, n)[a][e] = g[ChunkStart(a, n) + e]
      BY <3>1, ChunksAre
    <3>3. QED
      BY <3>2 DEF n
  <2>6. page \in Seq(AnyRow)
    BY <2>2, <2>5, MemberOf
  <2>7. QED
    BY <1>6, <2>2, <2>4, <2>5, <2>6
<1> HIDE DEF m, page
<1>10. Covers(Statistics(kind, page), v) /\ Statistics(kind, page).rows \in Nat
  <2>1. v = page[m].cell
    BY <1>9 DEF v
  <2>2. QED
    BY <1>9, <2>1, StatisticsCover
<1>11. \A c \in S : /\ FileMightMatch(c, FileMetrics(kind, file.rows))
                    /\ RowGroupMightMatch(c, Statistics(kind, g))
                    /\ PageMightMatch(c, Statistics(kind, page))
  BY <1>1, <1>2, <1>5, <1>8, <1>10, FileSound, RowGroupSound, PageSound
<1>12. \A c \in S : FilterPresent(c, v)
  BY <1>2 DEF MayBeLost, NanBlind, FilterPresent
<1>13. MetricsKept
  BY <1>3, <1>11 DEF MetricsKept, Says, Evaluate, Met, kind
<1>14. GroupKept(i)
  BY <1>3, <1>11 DEF GroupKept, Says, Evaluate, Met, kind, g
<1>15. PageKept(g, k)
  <2>1. \A c \in S : PageMightMatch(c, Statistics(table.kind, Chunks(g, PageSize)[(k - 1) \div PageSize + 1]))
    BY <1>11 DEF page, b, ChunkOf, kind
  <2>2. QED
    BY <1>3, <2>1 DEF PageKept, Says, Evaluate, Met
<1>16. RowKept(r)
  BY <1>3, <1>12 DEF RowKept, Says, Evaluate, Met, v
<1>17. QED
  BY <1>13, <1>14, <1>15, <1>16 DEF i, k, g, r

\* A file that lacks the column has no statistics, and IS NULL, the one kind of
\* condition that its rows satisfy, passes all that is asked of it.
LEMMA MissingKeeps ==
  ASSUME FileOK, file.old, NEW q, NEW S, MeetsAll(q, S), file.rows[q].cell = Null
  PROVE  LET i == ChunkOf(q, RowGroupSize)
         IN  /\ ManifestKept /\ PartitionKept /\ MetricsKept /\ GroupKept(i)
             /\ PageKept(Groups[i], q - GroupStart(i)) /\ RowKept(file.rows[q])
<1>1. Met(Static(query.filter), S) /\ Met(Physical(query.filter), S)
  BY DEF MeetsAll
<1>2. ASSUME NEW c \in S PROVE c.op = "is_null"
  <2>1. Accepts(table.kind, c) /\ Holds(c, Null)
    BY DEF MeetsAll
  <2>2. Null \in Values \cup {Null} /\ Null \notin Values
    BY CellFacts
  <2>3. QED
    BY <2>1, <2>2, HoldsIs
<1>3. ASSUME NEW c \in S, NEW rows
      PROVE  FileMightMatch(c, NoStatistics(rows)) /\ RowGroupMightMatch(c, NoStatistics(rows))
  <2> DEFINE s == NoStatistics(rows)
  <2>1. s.nulls # 0
    BY StatisticsAssumption, CellFacts DEF NoStatistics
  <2> HIDE DEF s
  <2>2. FileMightMatch(c, s)
    BY <1>2, <2>1 DEF FileMightMatch, FileUnary, CompareOps
  <2>3. RowGroupMightMatch(c, s)
    BY <1>2, <2>1 DEF RowGroupMightMatch, RowGroupUnary, CompareOps
  <2>4. QED
    BY <2>2, <2>3 DEF s
<1>4. \A c \in S : PageMissing(c) /\ FilterMissing(c)
  BY <1>2 DEF PageMissing, FilterMissing
<1>5. ManifestKept /\ PartitionKept
  BY DEF ManifestKept, PartitionKept, Partitioned
<1>6. MetricsKept
  BY <1>1, <1>3 DEF MetricsKept, Says, Evaluate, Met
<1>7. \A i : GroupKept(i)
  BY <1>1, <1>3 DEF GroupKept, Says, Evaluate, Met
<1>8. \A g, k : PageKept(g, k)
  BY <1>1, <1>4 DEF PageKept, Says, Evaluate, Met
<1>9. \A r : RowKept(r)
  BY <1>1, <1>4 DEF RowKept, Says, Evaluate, Met
<1>10. QED
  BY <1>5, <1>6, <1>7, <1>8, <1>9

\* A row that matches and is none of the known cases satisfies the conditions
\* that conversion leaves of the filter.
LEMMA MatchSatisfies ==
  ASSUME WriterInv, FileOK, ChosenInv, stage # "idle", NEW q \in 1..FileLen,
         Satisfies(query.filter, file.rows[q].cell), ~HalfNegated(query.filter),
         \A c \in Conds(Rewritten(query.filter)) : ~MayBeLost(c, file.rows[q])
  PROVE  /\ MeetsAll(q, Satisfied(table.kind, Rewritten(query.filter), file.rows[q].cell))
         /\ file.old => file.rows[q].cell = Null
<1> DEFINE f == Rewritten(query.filter)
           r == file.rows[q]
           v == r.cell
           k == table.kind
           S == Satisfied(k, f, v)
<1>1. f.l \in Conds(f)
  BY DEF Conds
<1>2. v # NaN /\ ~DefaultInvisible /\ ~OutsideBounds(r) /\ \A c \in Conds(f) : c.form # "cast"
  BY <1>1 DEF MayBeLost, NanBlind, CastStripped
<1>3. file.old => v = Null
  BY <1>2 DEF FileOK, DefaultInvisible
<1>4. v \in Values \cup {Null}
  <2>1. CASE file.old
    BY <1>3, <2>1
  <2>2. CASE ~file.old
    <3>1. PICK j \in DOMAIN output : file = Written(j)
      BY <2>2 DEF ChosenInv
    <3>2. v \in table.cells
      BY <3>1, WrittenRow
    <3>3. QED
      BY <1>2, <3>2, TableFacts DEF WriterInv
  <2>3. QED
    BY <2>1, <2>2
<1>5. FilterOK(k, query.filter)
  BY TableFacts DEF WriterInv, ChosenInv
<1>6. \A c \in Conds(f) : ~MayBeLost(c, r)
  OBVIOUS
<1>7. Evaluate(f, LAMBDA c : Means(c, v))
  BY DEF Satisfies
<1>8. PredicateOK(k, f) /\ LeftOf(f, Static(query.filter)) /\ LeftOf(f, Physical(query.filter))
  BY <1>2, <1>5, ConversionLeaves
<1> HIDE DEF f, v, k
<1>9. Met(Static(query.filter), S) /\ Met(Physical(query.filter), S)
  BY <1>7, <1>8, ConversionWeakens
<1>10. \A c \in S : Accepts(k, c) /\ Holds(c, v) /\ ~MayBeLost(c, r)
  BY <1>6 DEF Satisfied
<1> HIDE DEF S
<1>11. MeetsAll(q, S)
  BY <1>2, <1>4, <1>9, <1>10 DEF MeetsAll, f, v, k
<1>12. QED
  BY <1>3, <1>11 DEF S, f, v, k

\* What matches is returned, outside the cases MayBeLost names and a NOT of an
\* AND of which half converts (HalfNegated): no conversion or projection of the
\* filter, no statistics, no page index, no walk over the deletes and no row
\* filter loses a row (scan/mod.rs, arrow/reader.rs).
THEOREM LosesNoRow == Spec => []NoRowLost
<1>1. Init => WriterInv /\ ReadInv /\ ChosenInv
  BY ReaderInv DEF Init, ChosenInv
<1>2. WriterInv /\ ReadInv /\ ChosenInv /\ [Next]_vars => (WriterInv /\ ReadInv /\ ChosenInv)'
  BY ReaderInv, ChosenStep
<1>3. WriterInv /\ ReadInv /\ ChosenInv => NoRowLost
  <2> SUFFICES ASSUME WriterInv, ReadInv, ChosenInv, stage = "done",
                      NEW i \in DOMAIN file.rows,
                      Satisfies(query.filter, file.rows[i].cell),
                      ~Deleted(file.rows[i]), ~HalfNegated(query.filter),
                      \A c \in Conds(Rewritten(query.filter)) : ~MayBeLost(c, file.rows[i])
               PROVE  file.rows[i].id \in result
    BY DEF NoRowLost
  <2> DEFINE S == Satisfied(table.kind, Rewritten(query.filter), file.rows[i].cell)
             g == ChunkOf(i, RowGroupSize)
  <2>1. FileOK /\ stage # "idle"
    BY DEF ReadInv
  <2>2. DOMAIN file.rows = 1..FileLen /\ FileLen \in Nat
    BY <2>1, GroupFacts DEF FileOK, FileLen
  <2>3. MeetsAll(i, S) /\ (file.old => file.rows[i].cell = Null)
    BY <2>1, <2>2, MatchSatisfies
  <2> HIDE DEF S
  <2>4. /\ ManifestKept /\ PartitionKept /\ MetricsKept /\ GroupKept(g)
        /\ PageKept(Groups[g], i - GroupStart(g)) /\ RowKept(file.rows[i])
    <3>1. CASE file.old
      BY <2>1, <2>3, <3>1, MissingKeeps
    <3>2. CASE ~file.old
      BY <2>1, <2>3, <3>2, PartitionKeeps, StatisticsKeep
    <3>3. QED
      BY <3>1, <3>2
  <2>5. i - 1 \notin query.deletes
    <3>1. i - 1 + 1 = i
      BY <2>2
    <3>2. QED
      BY <3>1 DEF Deleted
  <2>6. Returned(i)
    BY <2>4, <2>5 DEF Returned
  <2>7. Answer
    BY <2>4 DEF ReadInv, PlanPruned
  <2>8. QED
    BY <2>2, <2>6, <2>7 DEF Answer
<1>4. QED
  BY <1>1, <1>2, <1>3, PTL DEF Spec

=============================================================================
