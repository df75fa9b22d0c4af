----------------------------- MODULE SumTheorems ------------------------------
(***************************************************************************)
(* What the sums of the models are.  MapThenSumSet adds by recursion over  *)
(* the subsets of a set; the lemmas say what it computes for every finite  *)
(* set, from a least counterexample.                                       *)
(***************************************************************************)
EXTENDS Integers, FiniteSets, FiniteSetTheorems, WellFoundedInduction, TLAPS

(* What MapThenSumSet computes: the sum of F over a finite set. *)
Pick(s) == CHOOSE x \in s : TRUE
SumsTo(F, D, g) == g = [s \in D |-> IF s = {} THEN 0 ELSE F[Pick(s)] + g[s \ {Pick(s)}]]
SumOf(F, S) == (CHOOSE g : SumsTo(F, SUBSET S, g))[S]

(* The subsets of at most n members. *)
Small(S, n) == {s \in SUBSET S : Cardinality(s) <= n}

\* The least-number principle, for sets.
LEMMA LeastNat ==
  ASSUME NEW S, S \subseteq Nat, S # {}
  PROVE  \E x \in S : \A y \in S : x <= y
<1>1. PICK x \in S : \A y \in S : ~(<<y, x>> \in OpToRel(<, Nat))
  BY NatLessThanWellFounded, WFMin
<1>2. \A y \in S : ~(y < x)
  BY <1>1 DEF OpToRel
<1>3. QED
  BY <1>2

\* A member of a subset, and the subset without it.
LEMMA PickIs ==
  ASSUME NEW S, IsFiniteSet(S), NEW s \in SUBSET S
  PROVE  /\ IsFiniteSet(s) /\ Cardinality(s) \in Nat
         /\ s # {} => Pick(s) \in s
         /\ \A y \in s : /\ s \ {y} \in SUBSET S
                         /\ Cardinality(s \ {y}) = Cardinality(s) - 1
                         /\ Cardinality(s) >= 1
<1>1. IsFiniteSet(s) /\ Cardinality(s) \in Nat
  BY FS_Subset, FS_CardinalityType
<1>2. s # {} => Pick(s) \in s
  BY DEF Pick
<1>3. ASSUME NEW y \in s
      PROVE  Cardinality(s \ {y}) = Cardinality(s) - 1 /\ Cardinality(s) >= 1
  <2>1. IsFiniteSet(s \ {y}) /\ Cardinality(s \ {y}) = Cardinality(s) - 1
    BY <1>1, FS_RemoveElement
  <2>2. Cardinality(s \ {y}) \in Nat
    BY <2>1, FS_CardinalityType
  <2>3. QED
    BY <1>1, <2>1, <2>2
<1>4. QED
  BY <1>1, <1>2, <1>3

\* The function that MapThenSumSet chooses exists.
LEMMA SumExists ==
  ASSUME NEW S, IsFiniteSet(S), NEW F
  PROVE  \E g : SumsTo(F, SUBSET S, g)
<1> DEFINE Bad == {n \in Nat : ~\E g : SumsTo(F, Small(S, n), g)}
<1>1. Bad = {}
  <2> SUFFICES ASSUME Bad # {} PROVE FALSE
    OBVIOUS
  <2>1. PICK n \in Bad : \A k \in Bad : n <= k
    BY LeastNat
  <2>2. CASE n = 0
    <3> DEFINE g == [s \in Small(S, 0) |-> 0]
    <3>1. \A s \in Small(S, 0) : s = {}
      BY FS_EmptySet, PickIs DEF Small
    <3>2. g = [s \in Small(S, 0) |-> IF s = {} THEN 0 ELSE F[Pick(s)] + g[s \ {Pick(s)}]]
      BY <3>1
    <3>3. SumsTo(F, Small(S, 0), g)
      BY <3>2 DEF SumsTo
    <3>4. QED
      BY <2>1, <2>2, <3>3
  <2>3. CASE n # 0
    <3>1. n \in Nat /\ n - 1 \in Nat /\ n - 1 \notin Bad
      BY <2>1, <2>3
    <3>2. PICK g : SumsTo(F, Small(S, n - 1), g)
      BY <3>1
    <3> DEFINE V(f, s) == IF s = {} THEN 0 ELSE F[Pick(s)] + f[s \ {Pick(s)}]
               h == [s \in Small(S, n) |-> V(g, s)]
    <3>3. ASSUME NEW s \in Small(S, n), s # {}
          PROVE  s \ {Pick(s)} \in Small(S, n - 1) /\ s \ {Pick(s)} \in Small(S, n)
      <4>1. s \in SUBSET S /\ Cardinality(s) <= n
        BY DEF Small
      <4>2. /\ s \ {Pick(s)} \in SUBSET S /\ Cardinality(s) \in Nat
            /\ Cardinality(s \ {Pick(s)}) = Cardinality(s) - 1
        BY <3>3, <4>1, PickIs
      <4>3. Cardinality(s \ {Pick(s)}) <= n - 1 /\ Cardinality(s \ {Pick(s)}) <= n
        BY <3>1, <4>1, <4>2
      <4>4. QED
        BY <4>2, <4>3 DEF Small
    <3>4. ASSUME NEW s \in Small(S, n - 1) PROVE g[s] = V(g, s)
      BY <3>2 DEF SumsTo
    <3>5. ASSUME NEW s \in Small(S, n) PROVE h[s] = V(h, s)
      <4>1. h[s] = V(g, s)
        OBVIOUS
      <4>2. CASE s = {}
        BY <4>1, <4>2
      <4>3. CASE s # {}
        <5> DEFINE u == s \ {Pick(s)}
        <5>1. u \in Small(S, n - 1) /\ u \in Small(S, n)
          BY <3>3, <4>3
        <5>2. h[u] = V(g, u) /\ g[u] = V(g, u)
          BY <3>4, <5>1
        <5>3. QED
          BY <4>1, <4>3, <5>2
      <4>4. QED
        BY <4>2, <4>3
    <3>6. h = [s \in Small(S, n) |-> h[s]]
      OBVIOUS
    <3> HIDE DEF h
    <3>7. h = [s \in Small(S, n) |-> V(h, s)]
      BY <3>5, <3>6
    <3>8. SumsTo(F, Small(S, n), h)
      BY <3>7 DEF SumsTo
    <3>9. QED
      BY <2>1, <3>8
  <2>4. QED
    BY <2>2, <2>3
<1>2. Cardinality(S) \in Nat /\ Small(S, Cardinality(S)) = SUBSET S
  BY FS_CardinalityType, FS_Subset DEF Small
<1>3. Cardinality(S) \notin Bad
  BY <1>1
<1>4. \E g : SumsTo(F, Small(S, Cardinality(S)), g)
  BY <1>2, <1>3
<1>5. QED
  BY <1>2, <1>4

\* A member may be taken out anywhere.
LEMMA SumApart ==
  ASSUME NEW S, IsFiniteSet(S), NEW F, \A x \in S : F[x] \in Nat, NEW g, SumsTo(F, SUBSET S, g)
  PROVE  \A s \in SUBSET S : g[s] \in Nat /\ \A y \in s : g[s] = F[y] + g[s \ {y}]
<1> DEFINE OK(s) == g[s] \in Nat /\ \A y \in s : g[s] = F[y] + g[s \ {y}]
           Bad == {n \in Nat : \E s \in SUBSET S : Cardinality(s) = n /\ ~OK(s)}
<1>1. Bad = {}
  <2> SUFFICES ASSUME Bad # {} PROVE FALSE
    OBVIOUS
  <2>1. PICK n \in Bad : \A k \in Bad : n <= k
    BY LeastNat
  <2>2. PICK s \in SUBSET S : Cardinality(s) = n /\ ~OK(s)
    BY <2>1
  <2>3. \A u \in SUBSET S : Cardinality(u) < n => OK(u)
    <3>1. \A u \in SUBSET S : Cardinality(u) \in Nat
      BY PickIs
    <3>2. QED
      BY <2>1, <3>1
  <2>4. \A u \in SUBSET S : g[u] = IF u = {} THEN 0 ELSE F[Pick(u)] + g[u \ {Pick(u)}]
    BY DEF SumsTo
  <2>5. s # {}
    <3>1. {} \in SUBSET S /\ g[{}] = 0
      BY <2>4
    <3>2. OK({})
      BY <3>1
    <3>3. QED
      BY <2>2, <3>2
  <2> DEFINE x == Pick(s)
             u == s \ {x}
  <2>6. x \in s /\ u \in SUBSET S /\ Cardinality(u) < n
    BY <2>2, <2>5, PickIs
  <2>7. g[s] = F[x] + g[u] /\ OK(u) /\ F[x] \in Nat
    BY <2>3, <2>4, <2>5, <2>6
  <2> HIDE DEF x
  <2>8. ASSUME NEW y \in s PROVE g[s] = F[y] + g[s \ {y}]
    <3>1. CASE y = x
      BY <2>7, <3>1
    <3>2. CASE y # x
      <4> DEFINE w == s \ {y}
                 z == u \ {y}
      <4>1. y \in u /\ x \in w /\ z = w \ {x} /\ F[y] \in Nat
        BY <2>6, <3>2
      <4>2. w \in SUBSET S /\ Cardinality(w) < n /\ z \in SUBSET S /\ Cardinality(z) < n
        <5>1. w \in SUBSET S /\ Cardinality(w) < n
          BY <2>2, PickIs
        <5> HIDE DEF u
        <5>2. u \ {y} \in SUBSET S /\ Cardinality(u \ {y}) = Cardinality(u) - 1 /\ Cardinality(u) \in Nat
          BY <2>6, <4>1, PickIs
        <5>3. Cardinality(u) < n /\ n \in Nat
          BY <2>1, <2>6
        <5>4. QED
          BY <5>1, <5>2, <5>3
      <4> HIDE DEF w, z
      <4>3. OK(u) /\ OK(w) /\ OK(z)
        BY <2>3, <2>7, <4>2
      <4> HIDE DEF u
      <4>4. g[u] = F[y] + g[z] /\ g[z] \in Nat
        BY <4>1, <4>3 DEF z
      <4>5. g[w] = F[x] + g[z]
        BY <4>1, <4>3
      <4>6. g[s] = F[x] + (F[y] + g[z]) /\ F[x] \in Nat
        BY <2>7, <4>4
      <4>7. g[s] = F[y] + g[w]
        BY <4>1, <4>4, <4>5, <4>6
      <4>8. QED
        BY <4>7 DEF w
    <3>3. QED
      BY <3>1, <3>2
  <2>9. g[s] \in Nat
    BY <2>7
  <2>10. QED
    BY <2>2, <2>8, <2>9
<1>2. SUFFICES ASSUME NEW s \in SUBSET S PROVE OK(s)
  OBVIOUS
<1>3. Cardinality(s) \in Nat
  BY PickIs
<1>4. QED
  BY <1>1, <1>3

\* Two sums of the same numbers are the same.
LEMMA SumSame ==
  ASSUME NEW S, IsFiniteSet(S), NEW T, NEW F, NEW G, NEW g, NEW h,
         SumsTo(F, SUBSET S, g), SumsTo(G, SUBSET T, h),
         NEW u, u \in SUBSET S, u \in SUBSET T, \A x \in u : F[x] = G[x]
  PROVE  g[u] = h[u]
<1> DEFINE Bad == {n \in Nat : \E s \in SUBSET u : Cardinality(s) = n /\ g[s] # h[s]}
<1>1. IsFiniteSet(u)
  BY PickIs
<1>2. Bad = {}
  <2> SUFFICES ASSUME Bad # {} PROVE FALSE
    OBVIOUS
  <2>1. PICK n \in Bad : \A k \in Bad : n <= k
    BY LeastNat
  <2>2. PICK s \in SUBSET u : Cardinality(s) = n /\ g[s] # h[s]
    BY <2>1
  <2>3. \A a \in SUBSET S : g[a] = IF a = {} THEN 0 ELSE F[Pick(a)] + g[a \ {Pick(a)}]
    BY DEF SumsTo
  <2>4. \A a \in SUBSET T : h[a] = IF a = {} THEN 0 ELSE G[Pick(a)] + h[a \ {Pick(a)}]
    BY DEF SumsTo
  <2>5. s # {} /\ s \in SUBSET S /\ s \in SUBSET T
    BY <2>2, <2>3, <2>4
  <2> DEFINE x == Pick(s)
             w == s \ {x}
  <2>6. x \in s /\ w \in SUBSET u /\ Cardinality(w) = n - 1 /\ Cardinality(w) \in Nat
    <3>1. x \in s /\ w \in SUBSET u /\ Cardinality(w) = n - 1
      BY <1>1, <2>2, <2>5, PickIs
    <3> HIDE DEF w
    <3>2. QED
      BY <1>1, <3>1, PickIs
  <2>7. g[w] = h[w]
    <3> HIDE DEF w
    <3>1. n - 1 \notin Bad /\ n - 1 \in Nat
      BY <2>1, <2>6
    <3>2. QED
      BY <2>6, <3>1
  <2>8. F[x] = G[x] /\ g[s] = F[x] + g[w] /\ h[s] = G[x] + h[w]
    BY <2>2, <2>3, <2>4, <2>5, <2>6
  <2>9. QED
    BY <2>2, <2>7, <2>8
<1>3. Cardinality(u) \in Nat /\ Cardinality(u) \notin Bad
  BY <1>1, <1>2, PickIs
<1>4. QED
  BY <1>3

\* The sum over a set, and over the set without a member.
LEMMA SumFacts ==
  ASSUME NEW S, IsFiniteSet(S), NEW F, \A x \in S : F[x] \in Nat
  PROVE  /\ SumOf(F, S) \in Nat
         /\ S = {} => SumOf(F, S) = 0
         /\ \A y \in S : SumOf(F, S) = F[y] + SumOf(F, S \ {y})
<1> DEFINE g == CHOOSE g : SumsTo(F, SUBSET S, g)
<1>1. SumsTo(F, SUBSET S, g) /\ SumOf(F, S) = g[S]
  BY SumExists DEF SumOf
<1> HIDE DEF g
<1>2. g[S] \in Nat /\ \A y \in S : g[S] = F[y] + g[S \ {y}]
  BY <1>1, SumApart
<1>3. S = {} => g[S] = 0
  BY <1>1 DEF SumsTo
<1>4. ASSUME NEW y \in S PROVE SumOf(F, S \ {y}) = g[S \ {y}]
  <2> DEFINE T == S \ {y}
             h == CHOOSE h : SumsTo(F, SUBSET T, h)
  <2>1. IsFiniteSet(T) /\ T \in SUBSET S /\ T \in SUBSET T
    BY FS_Subset
  <2> HIDE DEF T
  <2>2. SumsTo(F, SUBSET T, h) /\ SumOf(F, T) = h[T]
    BY <2>1, SumExists DEF SumOf
  <2> HIDE DEF h
  <2>3. g[T] = h[T]
    BY <1>1, <2>1, <2>2, SumSame
  <2>4. QED
    BY <2>2, <2>3 DEF T
<1>5. QED
  BY <1>1, <1>2, <1>3, <1>4

\* It depends on the numbers only.
LEMMA SumAgrees ==
  ASSUME NEW S, IsFiniteSet(S), NEW F, NEW G, \A x \in S : F[x] = G[x]
  PROVE  SumOf(F, S) = SumOf(G, S)
<1> DEFINE g == CHOOSE g : SumsTo(F, SUBSET S, g)
           h == CHOOSE h : SumsTo(G, SUBSET S, h)
<1>1. SumsTo(F, SUBSET S, g) /\ SumOf(F, S) = g[S]
  BY SumExists DEF SumOf
<1>2. SumsTo(G, SUBSET S, h) /\ SumOf(G, S) = h[S]
  BY SumExists DEF SumOf
<1> HIDE DEF g, h
<1>3. g[S] = h[S]
  BY <1>1, <1>2, SumSame
<1>4. QED
  BY <1>1, <1>2, <1>3

\* One more.
LEMMA SumMore ==
  ASSUME NEW S, IsFiniteSet(S), NEW x, x \notin S, NEW F, \A y \in S \cup {x} : F[y] \in Nat
  PROVE  SumOf(F, S \cup {x}) = F[x] + SumOf(F, S) /\ SumOf(F, S) \in Nat
<1> DEFINE T == S \cup {x}
<1>1. IsFiniteSet(T) /\ x \in T /\ T \ {x} = S
  BY FS_AddElement
<1> HIDE DEF T
<1>2. \A y \in T : F[y] \in Nat
  BY DEF T
<1>3. SumOf(F, T) = F[x] + SumOf(F, T \ {x})
  BY <1>1, <1>2, SumFacts
<1>4. SumOf(F, S) \in Nat
  BY SumFacts
<1>5. QED
  BY <1>1, <1>3, <1>4 DEF T

\* A sum over a union is at most the two sums, and not less than either.
LEMMA SumUnion ==
  ASSUME NEW S, IsFiniteSet(S), NEW T, IsFiniteSet(T), NEW F, \A y \in S \cup T : F[y] \in Nat
  PROVE  /\ SumOf(F, S \cup T) <= SumOf(F, S) + SumOf(F, T)
         /\ SumOf(F, S) <= SumOf(F, S \cup T)
         /\ SumOf(F, S) \in Nat /\ SumOf(F, T) \in Nat /\ SumOf(F, S \cup T) \in Nat
<1> DEFINE OK(u) == /\ SumOf(F, S \cup u) <= SumOf(F, S) + SumOf(F, u)
                    /\ SumOf(F, S) <= SumOf(F, S \cup u)
           Bad == {n \in Nat : \E u \in SUBSET T : Cardinality(u) = n /\ ~OK(u)}
<1>1. ASSUME NEW u \in SUBSET T
      PROVE  /\ IsFiniteSet(u) /\ IsFiniteSet(S \cup u) /\ Cardinality(u) \in Nat
             /\ SumOf(F, u) \in Nat /\ SumOf(F, S) \in Nat /\ SumOf(F, S \cup u) \in Nat
  <2>1. IsFiniteSet(u) /\ Cardinality(u) \in Nat
    BY PickIs
  <2>2. IsFiniteSet(S \cup u)
    BY <2>1, FS_Union
  <2>3. SumOf(F, u) \in Nat /\ SumOf(F, S) \in Nat
    BY <2>1, SumFacts
  <2>4. SumOf(F, S \cup u) \in Nat
    <3> DEFINE w == S \cup u
    <3>1. IsFiniteSet(w) /\ \A y \in w : F[y] \in Nat
      BY <2>2
    <3> HIDE DEF w
    <3>2. SumOf(F, w) \in Nat
      BY <3>1, SumFacts
    <3>3. QED
      BY <3>2 DEF w
  <2>5. QED
    BY <2>1, <2>2, <2>3, <2>4
<1>2. Bad = {}
  <2> SUFFICES ASSUME Bad # {} PROVE FALSE
    OBVIOUS
  <2>1. PICK n \in Bad : \A k \in Bad : n <= k
    BY LeastNat
  <2>2. PICK u \in SUBSET T : Cardinality(u) = n /\ ~OK(u)
    BY <2>1
  <2>3. u # {}
    <3>1. ASSUME u = {} PROVE FALSE
      <4>1. S \cup u = S
        BY <3>1
      <4>2. SumOf(F, u) = 0
        BY <1>1, <3>1, SumFacts
      <4>3. SumOf(F, S) \in Nat
        BY <1>1
      <4>4. OK(u)
        BY <4>1, <4>2, <4>3
      <4>5. QED
        BY <2>2, <4>4
    <3>2. QED
      BY <3>1
  <2>4. PICK x : x \in u
    BY <2>3
  <2> DEFINE w == u \ {x}
  <2>5. w \in SUBSET T /\ Cardinality(w) = n - 1 /\ Cardinality(w) \in Nat /\ w \cup {x} = u /\ x \notin w
    BY <1>1, <2>2, <2>4, PickIs
  <2> HIDE DEF w
  <2>6. OK(w)
    <3>1. n - 1 \in Nat /\ ~(n <= n - 1)
      BY <2>1, <2>5
    <3>2. n - 1 \notin Bad
      BY <2>1, <3>1
    <3>3. QED
      BY <2>5, <3>1, <3>2
  <2>7. IsFiniteSet(w) /\ IsFiniteSet(S \cup w) /\ F[x] \in Nat /\ \A y \in S \cup u : F[y] \in Nat
    BY <1>1, <2>4, <2>5
  <2>8. SumOf(F, u) = F[x] + SumOf(F, w)
    BY <2>5, <2>7, SumMore
  <2>9. SumOf(F, w) \in Nat /\ SumOf(F, S \cup w) \in Nat /\ SumOf(F, S) \in Nat
    BY <1>1, <2>5
  <2>10. SumOf(F, S \cup u) = SumOf(F, S \cup w) \/ SumOf(F, S \cup u) = F[x] + SumOf(F, S \cup w)
    <3>1. CASE x \in S
      <4>1. S \cup u = S \cup w
        BY <2>5, <3>1
      <4>2. QED
        BY <4>1
    <3>2. CASE x \notin S
      <4> DEFINE v == S \cup w
      <4>1. S \cup u = v \cup {x} /\ x \notin v /\ IsFiniteSet(v) /\ \A y \in v \cup {x} : F[y] \in Nat
        BY <2>5, <2>7, <3>2
      <4> HIDE DEF v
      <4>2. SumOf(F, v \cup {x}) = F[x] + SumOf(F, v)
        BY <4>1, SumMore
      <4>3. QED
        BY <4>1, <4>2 DEF v
    <3>3. QED
      BY <3>1, <3>2
  <2>11. OK(u)
    BY <2>6, <2>7, <2>8, <2>9, <2>10
  <2>12. QED
    BY <2>2, <2>11
<1>3. Cardinality(T) \in Nat /\ T \in SUBSET T
  BY <1>1
<1>4. OK(T)
  BY <1>2, <1>3
<1>5. QED
  BY <1>1, <1>3, <1>4

=============================================================================
