---------------------------- MODULE SequenceLemmas ----------------------------
(* Lemmas about naturals and sequences that the proofs of several components *)
(* need. The installed provers cannot instantiate a theorem with an operator *)
(* parameter, so induction is stated over a set.                             *)
EXTENDS Lists, SequencesExt, WellFoundedInduction, TLAPS

(* Well-ordering of the naturals.                                            *)
LEMMA LeastNatural ==
  ASSUME NEW S, S \subseteq Nat, S # {}
  PROVE  \E x \in S : \A y \in S : x <= y
<1>1. PICK x \in S : \A y \in S : <<y, x>> \notin OpToRel(<, Nat)
  BY NatLessThanWellFounded, WFMin
<1>2. ASSUME NEW y \in S PROVE x <= y
  <2>1. <<y, x>> \notin OpToRel(<, Nat)
    BY <1>1
  <2>2. ~(y < x)
    BY <2>1 DEF OpToRel
  <2>3. QED BY <2>2
<1>3. QED BY <1>2

(* Induction up to a bound.                                                  *)
LEMMA UpTo ==
  ASSUME NEW n \in Nat, NEW S, 0 \in S,
         \A k \in 0..(n - 1) : k \in S => k + 1 \in S
  PROVE  0..n \subseteq S
<1> DEFINE Left == (0..n) \ S
<1> SUFFICES ASSUME Left # {} PROVE FALSE
  OBVIOUS
<1>1. PICK x \in Left : \A y \in Left : x <= y
  <2>1. Left \subseteq Nat
    OBVIOUS
  <2> HIDE DEF Left
  <2>2. QED BY <2>1, LeastNatural
<1>2. x - 1 \in 0..(n - 1) /\ x - 1 \notin Left
  BY <1>1
<1>3. x - 1 \in S
  BY <1>2
<1>4. (x - 1) + 1 \in S
  BY <1>2, <1>3
<1>5. QED BY <1>4, <1>1

(* The least element that Min answers.                                       *)
LEMMA MinOf ==
  ASSUME NEW S, S \subseteq Nat, S # {}
  PROVE  Min(S) \in S /\ \A y \in S : Min(S) <= y
<1>1. \E x \in S : \A y \in S : x <= y
  BY LeastNatural
<1>2. QED BY <1>1 DEF Min

(* A new element at the end of a list without repetitions.                   *)
LEMMA AppendedIs ==
  ASSUME NEW S, NEW s \in Seq(S), NEW e \in S, IsInjective(s), e \notin Range(s)
  PROVE  /\ Append(s, e) \in Seq(S) /\ IsInjective(Append(s, e))
         /\ Range(Append(s, e)) = Range(s) \union {e}
<1> DEFINE r == Append(s, e)
<1>1. /\ r \in Seq(S) /\ Len(r) = Len(s) + 1 /\ r[Len(s) + 1] = e /\ Len(s) \in Nat
      /\ \A i \in 1..Len(s) : r[i] = s[i]
  OBVIOUS
<1>2. DOMAIN r = 1..(Len(s) + 1) /\ DOMAIN s = 1..Len(s)
  BY <1>1
<1>3. \A i \in 1..(Len(s) + 1) : i \in 1..Len(s) \/ i = Len(s) + 1
  BY <1>1
<1>4. 1..Len(s) \subseteq 1..(Len(s) + 1) /\ Len(s) + 1 \in 1..(Len(s) + 1)
  BY <1>1
<1> DEFINE n == Len(s) + 1
<1> HIDE DEF r, n
<1>5. Range(r) = Range(s) \union {e}
  BY <1>1, <1>2, <1>3, <1>4 DEF Range, n
<1>6. IsInjective(r)
  BY <1>1, <1>2, <1>3 DEF IsInjective, Range
<1>7. QED BY <1>1, <1>5, <1>6 DEF r

(* RemoveAt: the length and the elements.                                    *)
LEMMA RemovedAt ==
  ASSUME NEW S, NEW s \in Seq(S), NEW p \in 1..Len(s)
  PROVE  /\ RemoveAt(s, p) \in Seq(S) /\ Len(RemoveAt(s, p)) = Len(s) - 1
         /\ \A i \in 1..(Len(s) - 1) : RemoveAt(s, p)[i] = IF i < p THEN s[i] ELSE s[i + 1]
<1> DEFINE a == SubSeq(s, 1, p - 1)
           b == SubSeq(s, p + 1, Len(s))
<1>1. a \in Seq(S) /\ Len(a) = p - 1
  OBVIOUS
<1>2. b \in Seq(S) /\ Len(b) = Len(s) - p
  OBVIOUS
<1>3. \A i \in 1..(p - 1) : a[i] = s[i]
  OBVIOUS
<1>4. \A i \in 1..(Len(s) - p) : b[i] = s[p + i]
  OBVIOUS
<1>5. RemoveAt(s, p) = a \o b
  BY DEF RemoveAt
<1>6. Len(s) \in Nat /\ p \in Nat
  OBVIOUS
<1> HIDE DEF a, b
<1>7. /\ a \o b \in Seq(S) /\ Len(a \o b) = Len(s) - 1
      /\ \A i \in 1..(p - 1) : (a \o b)[i] = a[i]
      /\ \A i \in p..(Len(s) - 1) : (a \o b)[i] = b[i - (p - 1)]
  BY <1>1, <1>2, <1>6
<1>8. ASSUME NEW i \in 1..(Len(s) - 1)
      PROVE  RemoveAt(s, p)[i] = IF i < p THEN s[i] ELSE s[i + 1]
  <2>1. CASE i < p
    <3>1. i \in 1..(p - 1)
      BY <2>1, <1>6
    <3>2. QED BY <3>1, <2>1, <1>3, <1>5, <1>7, Zenon
  <2>2. CASE ~(i < p)
    <3>1. /\ i \in p..(Len(s) - 1) /\ i - (p - 1) \in 1..(Len(s) - p)
          /\ p + (i - (p - 1)) = i + 1
      BY <2>2, <1>6
    <3>2. b[i - (p - 1)] = s[i + 1]
      BY <3>1, <1>4, Zenon
    <3>3. QED BY <3>1, <3>2, <2>2, <1>5, <1>7, Zenon
  <2>3. QED BY <2>1, <2>2, Zenon
<1>9. QED BY <1>5, <1>7, <1>8, Zenon

(* RemoveAt of a sequence without repetitions takes one element away.        *)
LEMMA RemovedAtIs ==
  ASSUME NEW S, NEW s \in Seq(S), NEW p \in 1..Len(s), IsInjective(s)
  PROVE  IsInjective(RemoveAt(s, p)) /\ Range(RemoveAt(s, p)) = Range(s) \ {s[p]}
<1> DEFINE r == RemoveAt(s, p)
           e == s[p]
<1>1. p \in 1..Len(s) /\ s[p] = e /\ Len(s) \in Nat /\ p \in Nat
  OBVIOUS
<1>2. /\ r \in Seq(S) /\ Len(r) = Len(s) - 1
      /\ \A i \in 1..(Len(s) - 1) : r[i] = IF i < p THEN s[i] ELSE s[i + 1]
  BY RemovedAt
<1>3. IsInjective(r)
  <2> HIDE DEF r, e
  <2>1. \A i, j \in 1..Len(s) : s[i] = s[j] => i = j
    BY DEF IsInjective
  <2>2. SUFFICES ASSUME NEW i \in 1..Len(r), NEW j \in 1..Len(r), r[i] = r[j]
                 PROVE  i = j
    BY <1>2 DEF IsInjective
  <2>3. QED BY <2>1, <2>2, <1>2, <1>1
<1>4. Range(r) = Range(s) \ {e}
  <2> HIDE DEF r, e
  <2>1. \A i, j \in 1..Len(s) : s[i] = s[j] => i = j
    BY DEF IsInjective
  <2>2. ASSUME NEW i \in 1..Len(r) PROVE r[i] \in Range(s) \ {e}
    <3>1. PICK j \in 1..Len(s) : r[i] = s[j] /\ j # p
      BY <1>1, <1>2
    <3>2. QED BY <2>1, <3>1, <1>1 DEF Range
  <2>3. ASSUME NEW i \in 1..Len(s), s[i] # e PROVE s[i] \in Range(r)
    <3>1. CASE i < p
      <4>1. i \in DOMAIN r /\ r[i] = s[i]
        BY <3>1, <1>1, <1>2
      <4>2. QED BY <4>1 DEF Range
    <3>2. CASE i > p
      <4>1. i - 1 \in DOMAIN r /\ r[i - 1] = s[i]
        BY <3>2, <1>1, <1>2
      <4>2. QED BY <4>1 DEF Range
    <3>3. QED BY <3>1, <3>2, <1>1, <2>3
  <2>4. QED BY <2>2, <2>3, <1>2 DEF Range
<1>5. QED BY <1>3, <1>4 DEF r, e

(* The place of the first element of a value.                                *)
PlaceOf(s, e) == SelectInSeq(s, LAMBDA x : x = e)

(* RemoveFirst of an element of a sequence without repetitions.              *)
LEMMA RemovedOne ==
  ASSUME NEW S, NEW s \in Seq(S), NEW e, IsInjective(s), Contains(s, e)
  PROVE  LET p == PlaceOf(s, e)
             r == RemoveFirst(s, e)
         IN  /\ p \in 1..Len(s) /\ s[p] = e
             /\ r \in Seq(S) /\ Len(r) = Len(s) - 1
             /\ \A i \in 1..(Len(s) - 1) : r[i] = IF i < p THEN s[i] ELSE s[i + 1]
             /\ IsInjective(r) /\ Range(r) = Range(s) \ {e}
<1> DEFINE p == PlaceOf(s, e)
           r == RemoveFirst(s, e)
           I == {i \in 1..Len(s) : s[i] = e}
<1>1. I # {} /\ I \subseteq Nat
  BY DEF Contains
<1>2. p = Min(I)
  BY <1>1 DEF PlaceOf, SelectInSeq
<1>3. p \in 1..Len(s) /\ s[p] = e
  <2> HIDE DEF p
  <2>1. Min(I) \in I
    BY <1>1, MinOf
  <2>2. QED BY <2>1, <1>2
<1>4. r = RemoveAt(s, p)
  BY DEF RemoveFirst, Contains, PlaceOf
<1>5. /\ r \in Seq(S) /\ Len(r) = Len(s) - 1
      /\ \A i \in 1..(Len(s) - 1) : r[i] = IF i < p THEN s[i] ELSE s[i + 1]
  BY <1>3, <1>4, RemovedAt
<1>6. IsInjective(r) /\ Range(r) = Range(s) \ {e}
  BY <1>3, <1>4, RemovedAtIs
<1>7. QED BY <1>3, <1>5, <1>6

(* RemoveFirst of what is not there.                                         *)
LEMMA RemovedNone ==
  ASSUME NEW s, NEW e, ~Contains(s, e)
  PROVE  RemoveFirst(s, e) = s
BY DEF RemoveFirst, Contains

----------------------------------------------------------------------------
(* Selected keeps what is in the set, in its order: f maps the places of the *)
(* result to those of the sequence. The recursive function exists, and what  *)
(* it answers follows, each by induction over the length.                    *)
Picks(f, q, keep, r) ==
  /\ f \in [1..Len(r) -> 1..Len(q)]
  /\ \A i \in 1..Len(r) : r[i] = q[f[i]] /\ r[i] \in keep
  /\ \A i, j \in 1..Len(r) : i < j => f[i] < f[j]
  /\ \A k \in 1..Len(q) : q[k] \in keep => \E i \in 1..Len(r) : f[i] = k

\* SelectSeq, as a choice of increasing places.
LEMMA SelectedPicks ==
  ASSUME NEW S, NEW q \in Seq(S), NEW keep
  PROVE  Selected(q, keep) \in Seq(S) /\ \E f : Picks(f, q, keep, Selected(q, keep))
<1> DEFINE N == Len(q)
           step(g, k) == IF k = 0 THEN <<>>
                         ELSE IF q[k] \in keep THEN Append(g[k - 1], q[k]) ELSE g[k - 1]
           part == CHOOSE g : g = [k \in 0..N |-> step(g, k)]
<1>1. N \in Nat /\ \A k \in 1..N : q[k] \in S
  OBVIOUS
<1>2. Selected(q, keep) = part[N]
  BY DEF Selected
<1>3. \E g : g = [k \in 0..N |-> step(g, k)]
  <2> DEFINE T == {n \in Nat : \E g : g = [k \in 0..n |-> step(g, k)]}
  <2>1. 0 \in T
    <3> DEFINE g == [k \in 0..0 |-> <<>>]
    <3>1. \A k \in 0..0 : step(g, k) = <<>>
      OBVIOUS
    <3>2. g = [k \in 0..0 |-> step(g, k)]
      BY <3>1
    <3>3. QED BY <3>2
  <2>2. ASSUME NEW n \in 0..(N - 1), n \in T PROVE n + 1 \in T
    <3>1. PICK g : g = [k \in 0..n |-> step(g, k)]
      BY <2>2
    <3> HIDE DEF step
    <3> DEFINE h == [k \in 0..(n + 1) |-> IF k = n + 1 THEN step(g, k) ELSE g[k]]
    <3>2. \A k \in 0..n : h[k] = g[k]
      BY <1>1
    <3>3. \A k \in 0..(n + 1) : step(h, k) = step(g, k)
      <4> HIDE DEF h
      <4>1. QED BY <3>2, <1>1 DEF step
    <3>4. \A k \in 0..(n + 1) : h[k] = step(h, k)
      <4>1. \A k \in 0..n : g[k] = step(g, k)
        BY <3>1
      <4>2. QED BY <3>3, <4>1, <1>1
    <3>5. h = [k \in 0..(n + 1) |-> step(h, k)]
      BY <3>4
    <3>6. n + 1 \in Nat
      BY <1>1
    <3>7. QED BY <3>5, <3>6
  <2> HIDE DEF T
  <2>3. 0..N \subseteq T
    BY <2>1, <2>2, <1>1, UpTo
  <2>4. N \in T
    BY <2>3, <1>1
  <2>5. QED BY <2>4 DEF T
<1>4. part = [k \in 0..N |-> step(part, k)]
  <2> HIDE DEF step, N
  <2>1. QED BY <1>3, Zenon
<1>5. /\ part[0] = <<>>
      /\ \A k \in 1..N : part[k] = IF q[k] \in keep THEN Append(part[k - 1], q[k]) ELSE part[k - 1]
  <2> HIDE DEF part
  <2>1. \A k \in 0..N : part[k] = step(part, k)
    BY <1>4
  <2>2. QED BY <2>1, <1>1
<1> DEFINE Maps(f, r, n) ==
             /\ f \in [1..Len(r) -> 1..n]
             /\ \A i \in 1..Len(r) : r[i] = q[f[i]] /\ r[i] \in keep
             /\ \A i, j \in 1..Len(r) : i < j => f[i] < f[j]
             /\ \A k \in 1..n : q[k] \in keep => \E i \in 1..Len(r) : f[i] = k
           Good == {n \in 0..N : part[n] \in Seq(S) /\ \E f : Maps(f, part[n], n)}
<1> HIDE DEF step, part, N, Maps
<1>6. 0 \in Good
  <2>1. part[0] = <<>> /\ 0 \in 0..N
    BY <1>1, <1>5
  <2>2. <<>> \in Seq(S) /\ 1..Len(<<>>) = {} /\ 1..0 = {}
    OBVIOUS
  <2>3. Maps([i \in {} |-> 0], <<>>, 0)
    BY <2>2 DEF Maps
  <2>4. QED BY <2>1, <2>2, <2>3
<1>7. ASSUME NEW n \in 0..(N - 1), n \in Good PROVE n + 1 \in Good
  <2> DEFINE r == part[n]
             m == n + 1
  <2>1. r \in Seq(S) /\ \E f : Maps(f, r, n)
    BY <1>7
  <2>2. m \in 1..N /\ m \in Nat /\ m - 1 = n /\ n \in Nat /\ n < m /\ 1..m = (1..n) \union {m}
    BY <1>1
  <2>3. part[m] = IF q[m] \in keep THEN Append(r, q[m]) ELSE r
    BY <2>2, <1>5
  <2> HIDE DEF r, m
  <2>4. PICK f : Maps(f, r, n)
    BY <2>1
  <2>5. CASE q[m] \notin keep
    <3>1. part[m] = r
      BY <2>3, <2>5
    <3>2. Maps(f, r, m)
      BY <2>2, <2>4, <2>5 DEF Maps
    <3>3. m \in Good
      BY <2>1, <2>2, <3>1, <3>2, <1>1
    <3>4. QED BY <3>3 DEF m
  <2>6. CASE q[m] \in keep
    <3> DEFINE t == Append(r, q[m])
               L == Len(r)
               h == [i \in 1..(L + 1) |-> IF i = L + 1 THEN m ELSE f[i]]
    <3>1. q[m] \in S
      BY <1>1, <2>2
    <3>2. /\ t \in Seq(S) /\ Len(t) = L + 1 /\ L \in Nat
          /\ \A i \in 1..L : t[i] = r[i]
          /\ t[L + 1] = q[m]
      BY <3>1, <2>1
    <3>3. part[m] = t
      BY <2>3, <2>6
    <3> HIDE DEF t, L
    <3>4. 1..(L + 1) = (1..L) \union {L + 1} /\ L + 1 \in 1..(L + 1) /\ \A i \in 1..L : i # L + 1 /\ i < L + 1
      BY <3>2
    <3>5. /\ f \in [1..L -> 1..n]
          /\ \A i \in 1..L : r[i] = q[f[i]] /\ r[i] \in keep
          /\ \A i, j \in 1..L : i < j => f[i] < f[j]
          /\ \A k \in 1..n : q[k] \in keep => \E i \in 1..L : f[i] = k
      BY <2>4 DEF Maps, L
    <3>6. /\ \A i \in 1..L : h[i] = f[i] /\ i \in 1..(L + 1)
          /\ h[L + 1] = m
      BY <3>4
    <3>7. h \in [1..(L + 1) -> 1..m]
      BY <3>4, <3>5, <2>2
    <3> HIDE DEF h
    <3>8. \A i \in 1..(L + 1) : t[i] = q[h[i]] /\ t[i] \in keep
      BY <3>2, <3>4, <3>5, <3>6, <2>6
    <3>9. ASSUME NEW i \in 1..(L + 1), NEW j \in 1..(L + 1), i < j PROVE h[i] < h[j]
      <4>1. i \in 1..L
        BY <3>2, <3>9
      <4>2. CASE j = L + 1
        <5>1. f[i] \in 1..n
          BY <4>1, <3>5
        <5>2. QED BY <4>1, <4>2, <5>1, <3>6, <2>2
      <4>3. CASE j # L + 1
        <5>1. j \in 1..L
          BY <4>3, <3>4
        <5>2. QED BY <4>1, <5>1, <3>5, <3>6, <3>9
      <4>4. QED BY <4>2, <4>3
    <3>10. \A k \in 1..m : q[k] \in keep => \E i \in 1..(L + 1) : h[i] = k
      BY <3>4, <3>5, <3>6, <2>2
    <3>11. Maps(h, t, m)
      BY <3>2, <3>7, <3>8, <3>9, <3>10 DEF Maps
    <3>12. m \in Good
      BY <2>2, <3>2, <3>3, <3>11, <1>1
    <3>13. QED BY <3>12 DEF m
  <2>7. QED BY <2>5, <2>6
<1>8. N \in Good
  <2> HIDE DEF Good
  <2>1. 0..N \subseteq Good
    BY <1>6, <1>7, <1>1, UpTo
  <2>2. QED BY <2>1, <1>1
<1>9. part[N] \in Seq(S) /\ \E f : Maps(f, part[N], N)
  BY <1>8
<1>10. QED BY <1>2, <1>9 DEF Maps, Picks, N

(* The elements of a selection, and that it repeats none.                    *)
LEMMA SelectedIs ==
  ASSUME NEW S, NEW q \in Seq(S), NEW keep
  PROVE  /\ Selected(q, keep) \in Seq(S)
         /\ Range(Selected(q, keep)) = Range(q) \intersect keep
         /\ IsInjective(q) => IsInjective(Selected(q, keep))
<1> DEFINE r == Selected(q, keep)
<1>1. r \in Seq(S) /\ \E f : Picks(f, q, keep, r)
  BY SelectedPicks
<1> HIDE DEF r
<1>2. PICK f : Picks(f, q, keep, r)
  BY <1>1
<1>3. /\ DOMAIN r = 1..Len(r) /\ Len(r) \in Nat /\ DOMAIN q = 1..Len(q) /\ Len(q) \in Nat
  BY <1>1
<1>4. /\ \A i \in DOMAIN r : f[i] \in DOMAIN q /\ r[i] = q[f[i]] /\ r[i] \in keep
      /\ \A i, j \in DOMAIN r : i < j => f[i] < f[j]
      /\ \A k \in DOMAIN q : q[k] \in keep => \E i \in DOMAIN r : f[i] = k
  BY <1>2, <1>3 DEF Picks
<1>5. Range(r) = Range(q) \intersect keep
  BY <1>4 DEF Range
<1>6. ASSUME IsInjective(q), NEW i \in DOMAIN r, NEW j \in DOMAIN r, r[i] = r[j] PROVE i = j
  <2>1. f[i] = f[j] /\ f[i] \in Int
    BY <1>3, <1>4, <1>6 DEF IsInjective
  <2>2. ~(i < j) /\ ~(j < i)
    BY <2>1, <1>4
  <2>3. QED BY <2>2, <1>3
<1>7. QED BY <1>1, <1>5, <1>6 DEF IsInjective, r
=============================================================================
