---------------------------- MODULE SequenceFacts ----------------------------
(***************************************************************************)
(* Facts about sequences and their places, and about functions defined     *)
(* place by place, that the proofs of several modules need.                *)
(***************************************************************************)
EXTENDS SequencesExt, FiniteSetTheorems, SequenceTheorems, WellFoundedInduction, TLAPS

-----------------------------------------------------------------------------
(* Places of a sequence. *)

(* The last of some places of a sequence. *)
LEMMA LastPlace ==
    ASSUME NEW n \in Nat, NEW S \in SUBSET (1..n), S # {}
    PROVE  \E i \in S : \A j \in S : j <= i
PROOF
  <1> DEFINE T == {i..n : i \in S}
  <1>1. T \subseteq FiniteSubsetsOf(1..n) /\ T # {}
    <2>1. IsFiniteSet(1..n)
      BY FS_Interval
    <2>2. FiniteSubsetsOf(1..n) = SUBSET (1..n)
      BY <2>1, FS_FiniteSubsetsOfFinite
    <2>3. \A i \in S : (i..n) \in SUBSET (1..n)
      OBVIOUS
    <2>4. \A x \in T : x \in FiniteSubsetsOf(1..n)
      BY <2>2, <2>3, Zenon
    <2>5. T # {}
      BY Zenon
    <2> QED BY <2>4, <2>5, Zenon
  <1>2. PICK m \in T : \A k \in T : <<k, m>> \notin StrictSubsetOrdering(1..n)
    <2> HIDE DEF T
    <2> QED BY <1>1, FS_StrictSubsetOrderingWellFounded, WFMin
  <1>3. PICK i \in S : m = i..n
    OBVIOUS
  <1>4. ASSUME NEW j \in S, ~(j <= i)
        PROVE  FALSE
    <2>1. i \in 1..n /\ j \in 1..n /\ i < j
      BY <1>4
    <2>2. (j..n) \subseteq (i..n) /\ i \in i..n /\ i \notin j..n
      BY <2>1
    <2>3. <<j..n, i..n>> \in StrictSubsetOrdering(1..n)
      BY <2>1, <2>2 DEF StrictSubsetOrdering
    <2>4. j..n \in T
      OBVIOUS
    <2> QED BY <1>2, <1>3, <2>3, <2>4
  <1> QED BY <1>4

(* The first of some places of a sequence. *)
LEMMA FirstPlace ==
    ASSUME NEW n \in Nat, NEW S \in SUBSET (1..n), S # {}
    PROVE  \E i \in S : \A j \in S : i <= j
PROOF
  <1> DEFINE T == {n + 1 - i : i \in S}
  <1>1. T \in SUBSET (1..n) /\ T # {}
    <2>1. \A i \in S : n + 1 - i \in 1..n
      OBVIOUS
    <2>2. \A x \in T : x \in 1..n
      BY <2>1, Zenon
    <2>3. T # {}
      BY Zenon
    <2> QED BY <2>2, <2>3, Zenon
  <1>2. PICK t \in T : \A u \in T : u <= t
    <2> HIDE DEF T
    <2> QED BY <1>1, LastPlace
  <1>3. PICK i \in S : t = n + 1 - i
    OBVIOUS
  <1>4. ASSUME NEW j \in S PROVE i <= j
    <2>1. n + 1 - j \in T
      OBVIOUS
    <2> QED BY <1>2, <1>3, <2>1
  <1> QED BY <1>4

(* The least of some numbers. *)
LEMMA MinIs ==
    ASSUME NEW S, NEW k \in S, k \in Int, \A j \in S : k <= j /\ j \in Int
    PROVE  Min(S) = k
PROOF
  <1>1. \E x \in S : \A y \in S : x <= y
    OBVIOUS
  <1>2. PICK m : m = CHOOSE x \in S : \A y \in S : x <= y
    OBVIOUS
  <1>3. m \in S /\ \A y \in S : m <= y
    BY <1>1, <1>2, Zenon
  <1>4. m <= k /\ k <= m /\ m \in Int
    BY <1>3
  <1>5. m = k
    BY <1>4
  <1> QED BY <1>2, <1>5 DEF Min

(* The greatest of some numbers. *)
LEMMA MaxIs ==
    ASSUME NEW S, NEW k \in S, k \in Int, \A j \in S : k >= j /\ j \in Int
    PROVE  Max(S) = k
PROOF
  <1>1. \E x \in S : \A y \in S : x >= y
    OBVIOUS
  <1>2. PICK m : m = CHOOSE x \in S : \A y \in S : x >= y
    OBVIOUS
  <1>3. m \in S /\ \A y \in S : m >= y
    BY <1>1, <1>2, Zenon
  <1>4. m >= k /\ k >= m /\ m \in Int
    BY <1>3
  <1>5. m = k
    BY <1>4
  <1> QED BY <1>2, <1>5 DEF Max

(* A sequence of one element. *)
LEMMA OneElement ==
    ASSUME NEW S, NEW x \in S
    PROVE  /\ <<x>> \in Seq(S) /\ Len(<<x>>) = 1 /\ <<x>> # <<>> /\ <<x>>[1] = x
           /\ Head(<<x>>) = x /\ Tail(<<x>>) = <<>>
PROOF
  <1>1. <<x>> \in Seq(S) /\ Len(<<x>>) = 1 /\ <<x>>[1] = x
    OBVIOUS
  <1>2. <<x>> # <<>>
    BY <1>1, EmptySeq
  <1>3. Head(<<x>>) = <<x>>[1] /\ Tail(<<x>>) \in Seq(S) /\ Len(Tail(<<x>>)) = 1 - 1
    BY <1>1, <1>2, HeadTailProperties
  <1>4. Tail(<<x>>) = <<>>
    <2>1. PICK t \in Seq(S) : t = Tail(<<x>>)
      BY <1>3
    <2>2. Len(t) = 0
      BY <1>3, <2>1
    <2>3. t = <<>>
      BY <2>2, EmptySeq
    <2> QED BY <2>1, <2>3
  <1> QED BY <1>1, <1>2, <1>3, <1>4

(* The first element of a sequence and the rest. *)
LEMMA HeadAndRest ==
    ASSUME NEW S, NEW s \in Seq(S), s # <<>>
    PROVE  /\ Len(s) \in Nat /\ Len(s) > 0 /\ Head(s) = s[1] /\ Head(s) \in S
           /\ Tail(s) \in Seq(S) /\ Len(Tail(s)) = Len(s) - 1
           /\ \A i \in 1..(Len(s) - 1) : Tail(s)[i] = s[i + 1]
           /\ Tail(s) = <<>> <=> ~(Len(s) > 1)
PROOF
  <1>1. /\ Len(s) \in Nat /\ Len(s) > 0 /\ Head(s) = s[1] /\ Head(s) \in S
        /\ Tail(s) \in Seq(S) /\ Len(Tail(s)) = Len(s) - 1
        /\ \A i \in 1..(Len(s) - 1) : Tail(s)[i] = s[i + 1]
    BY HeadTailProperties
  <1>2. PICK t \in Seq(S) : t = Tail(s)
    BY <1>1
  <1>3. t = <<>> <=> Len(t) = 0
    OBVIOUS
  <1>4. Tail(s) = <<>> <=> ~(Len(s) > 1)
    BY <1>1, <1>2, <1>3
  <1> QED BY <1>1, <1>4

(* One element before a sequence. *)
LEMMA OneBefore ==
    ASSUME NEW S, NEW x \in S, NEW t \in Seq(S)
    PROVE  /\ <<x>> \o t \in Seq(S) /\ <<x>> \o t # <<>>
           /\ Head(<<x>> \o t) = x /\ Tail(<<x>> \o t) = t
PROOF
  <1>1. <<x>> \in Seq(S) /\ Len(<<x>>) = 1 /\ <<x>>[1] = x
    BY OneElement
  <1>2. PICK s : s = <<x>> \o t
    OBVIOUS
  <1>3. Len(t) \in Nat
    OBVIOUS
  <1>4. /\ s \in Seq(S) /\ Len(s) = Len(t) + 1
        /\ \A i \in 1..Len(s) : s[i] = IF i <= 1 THEN x ELSE t[i - 1]
    <2>1. /\ s \in Seq(S) /\ Len(s) = Len(<<x>>) + Len(t)
          /\ \A i \in 1..(Len(<<x>>) + Len(t)) :
               s[i] = IF i <= Len(<<x>>) THEN <<x>>[i] ELSE t[i - Len(<<x>>)]
      BY <1>1, <1>2, ConcatProperties
    <2> QED BY <1>1, <1>3, <2>1
  <1>5. s # <<>>
    BY <1>3, <1>4
  <1>6. /\ Head(s) = s[1] /\ Tail(s) \in Seq(S) /\ Len(Tail(s)) = Len(s) - 1
        /\ \A i \in 1..(Len(s) - 1) : Tail(s)[i] = s[i + 1]
    BY <1>4, <1>5, HeadTailProperties
  <1>7. Head(s) = x
    BY <1>3, <1>4, <1>6
  <1>8. Tail(s) = t
    <2>1. PICK u \in Seq(S) : u = Tail(s)
      BY <1>6
    <2>2. Len(u) = Len(t)
      BY <1>3, <1>4, <1>6, <2>1
    <2>3. ASSUME NEW i \in 1..Len(t) PROVE u[i] = t[i]
      <3>1. i + 1 \in 1..Len(s) /\ ~(i + 1 <= 1) /\ (i + 1) - 1 = i /\ i \in 1..(Len(s) - 1)
        BY <1>3, <1>4
      <3> QED BY <1>4, <1>6, <2>1, <3>1
    <2>4. u = t
      BY <2>2, <2>3, SeqEqual
    <2> QED BY <2>1, <2>4
  <1> QED BY <1>2, <1>4, <1>5, <1>7, <1>8

(* What is left of a sequence without one place. *)
LEMMA RemoveAtPlaces ==
    ASSUME NEW S, NEW s \in Seq(S), NEW i \in 1..Len(s)
    PROVE  /\ RemoveAt(s, i) \in Seq(S) /\ Len(RemoveAt(s, i)) = Len(s) - 1
           /\ \A j \in 1..(Len(s) - 1) :
                RemoveAt(s, i)[j] = IF j < i THEN s[j] ELSE s[j + 1]
PROOF
  <1> DEFINE a == SubSeq(s, 1, i - 1)
             b == SubSeq(s, i + 1, Len(s))
  <1>1. Len(s) \in Nat /\ \A j \in 1..Len(s) : s[j] \in S
    OBVIOUS
  <1>2. /\ a \in Seq(S) /\ Len(a) = i - 1
        /\ \A j \in 1..(i - 1) : a[j] = s[j]
    <2>1. /\ a \in Seq(S)
          /\ Len(a) = IF 1 <= i - 1 THEN i - 1 - 1 + 1 ELSE 0
          /\ \A j \in 1..(i - 1 - 1 + 1) : a[j] = s[1 + j - 1]
      BY <1>1, SubSeqProperties
    <2> HIDE DEF a
    <2> QED BY <1>1, <2>1
  <1>3. /\ b \in Seq(S) /\ Len(b) = Len(s) - i
        /\ \A j \in 1..(Len(s) - i) : b[j] = s[i + j]
    <2>1. /\ b \in Seq(S)
          /\ Len(b) = IF i + 1 <= Len(s) THEN Len(s) - (i + 1) + 1 ELSE 0
          /\ \A j \in 1..(Len(s) - (i + 1) + 1) : b[j] = s[i + 1 + j - 1]
      BY <1>1, SubSeqProperties
    <2> HIDE DEF b
    <2> QED BY <1>1, <2>1
  <1>4. RemoveAt(s, i) = a \o b
    BY DEF RemoveAt
  <1> HIDE DEF a, b
  <1>5. /\ a \o b \in Seq(S) /\ Len(a \o b) = Len(s) - 1
        /\ \A j \in 1..(Len(s) - 1) : (a \o b)[j] = IF j < i THEN a[j] ELSE b[j - (i - 1)]
    <2>1. a \o b \in Seq(S) /\ Len(a \o b) = Len(a) + Len(b)
      BY <1>2, <1>3, ConcatProperties
    <2>2. \A j \in 1..(Len(a) + Len(b)) :
            (a \o b)[j] = IF j <= Len(a) THEN a[j] ELSE b[j - Len(a)]
      BY <1>2, <1>3, ConcatProperties
    <2> QED BY <1>1, <1>2, <1>3, <2>1, <2>2
  <1>6. ASSUME NEW j \in 1..(Len(s) - 1)
        PROVE  (a \o b)[j] = IF j < i THEN s[j] ELSE s[j + 1]
    <2>1. CASE j < i
      BY <1>1, <1>2, <1>5, <2>1
    <2>2. CASE j >= i
      <3>1. j - (i - 1) \in 1..(Len(s) - i) /\ i + (j - (i - 1)) = j + 1
        BY <1>1, <2>2
      <3> QED BY <1>1, <1>3, <1>5, <2>2, <3>1
    <2>3. j < i \/ j >= i
      BY <1>1
    <2> QED BY <2>1, <2>2, <2>3
  <1> QED BY <1>4, <1>5, <1>6

(* The first of its elements is removed from the front of a sequence. *)
LEMMA RemoveHead ==
    ASSUME NEW S, NEW s \in Seq(S), s # <<>>
    PROVE  RemoveFirst(s, Head(s)) = Tail(s)
PROOF
  <1>1. /\ Len(s) \in Nat /\ Len(s) > 0 /\ Head(s) = s[1] /\ Tail(s) \in Seq(S)
        /\ Len(Tail(s)) = Len(s) - 1 /\ \A i \in 1..(Len(s) - 1) : Tail(s)[i] = s[i + 1]
    BY HeadAndRest
  <1> DEFINE I == {i \in 1..Len(s) : s[i] = Head(s)}
  <1>2. 1 \in I /\ \A j \in I : 1 <= j /\ j \in Int
    BY <1>1
  <1>3. Min(I) = 1
    <2> HIDE DEF I
    <2> QED BY <1>2, MinIs
  <1>4. SelectInSeq(s, LAMBDA v : v = Head(s)) = 1
    BY <1>2, <1>3 DEF SelectInSeq
  <1>5. 1 \in 1..Len(s) /\ s[1] = Head(s)
    BY <1>1
  <1>6. RemoveFirst(s, Head(s)) = RemoveAt(s, 1)
    BY <1>4, <1>5 DEF RemoveFirst
  <1>7. PICK r : r = RemoveAt(s, 1)
    OBVIOUS
  <1>8. PICK t \in Seq(S) : t = Tail(s)
    BY <1>1
  <1>9. /\ r \in Seq(S) /\ Len(r) = Len(s) - 1
        /\ \A j \in 1..(Len(s) - 1) : r[j] = IF j < 1 THEN s[j] ELSE s[j + 1]
    BY <1>5, <1>7, RemoveAtPlaces
  <1>10. ASSUME NEW j \in 1..Len(t) PROVE r[j] = t[j]
    <2>1. j \in 1..(Len(s) - 1) /\ ~(j < 1)
      BY <1>1, <1>8
    <2> QED BY <1>1, <1>8, <1>9, <2>1
  <1>11. Len(r) = Len(t)
    BY <1>1, <1>8, <1>9
  <1>12. r = t
    BY <1>9, <1>10, <1>11, SeqEqual
  <1> QED BY <1>6, <1>7, <1>8, <1>12

(* The places of what is taken from the front of a sequence, and of the rest. *)
LEMMA FrontAndRest ==
    ASSUME NEW S, NEW s \in Seq(S), NEW n \in 1..Len(s)
    PROVE  /\ SubSeq(s, 1, n) \in Seq(S) /\ Len(SubSeq(s, 1, n)) = n
           /\ \A i \in 1..n : SubSeq(s, 1, n)[i] = s[i]
           /\ SubSeq(s, n + 1, Len(s)) \in Seq(S)
           /\ Len(SubSeq(s, n + 1, Len(s))) = Len(s) - n
           /\ \A i \in 1..(Len(s) - n) : SubSeq(s, n + 1, Len(s))[i] = s[n + i]
PROOF
  <1> DEFINE a == SubSeq(s, 1, n)
             b == SubSeq(s, n + 1, Len(s))
  <1>1. Len(s) \in Nat /\ \A i \in 1..Len(s) : s[i] \in S
    OBVIOUS
  <1>2. /\ a \in Seq(S) /\ Len(a) = n /\ \A i \in 1..n : a[i] = s[i]
    <2>1. /\ a \in Seq(S)
          /\ Len(a) = IF 1 <= n THEN n - 1 + 1 ELSE 0
          /\ \A i \in 1..(n - 1 + 1) : a[i] = s[1 + i - 1]
      BY <1>1, SubSeqProperties
    <2> HIDE DEF a
    <2> QED BY <1>1, <2>1
  <1>3. /\ b \in Seq(S) /\ Len(b) = Len(s) - n
        /\ \A i \in 1..(Len(s) - n) : b[i] = s[n + i]
    <2>1. /\ b \in Seq(S)
          /\ Len(b) = IF n + 1 <= Len(s) THEN Len(s) - (n + 1) + 1 ELSE 0
          /\ \A i \in 1..(Len(s) - (n + 1) + 1) : b[i] = s[n + 1 + i - 1]
      BY <1>1, SubSeqProperties
    <2> HIDE DEF b
    <2> QED BY <1>1, <2>1
  <1> QED BY <1>2, <1>3

(* The elements of a set, as a sequence: each is at some place. *)
LEMMA SetAsSequence ==
    ASSUME NEW S, IsFiniteSet(S)
    PROVE  /\ Cardinality(S) \in Nat
           /\ SetToSeq(S) \in [1..Cardinality(S) -> S]
           /\ \A x \in S : \E i \in 1..Cardinality(S) : SetToSeq(S)[i] = x
PROOF
  <1>1. Cardinality(S) \in Nat /\ ExistsBijection(1..Cardinality(S), S)
    BY FS_CardinalityType
  <1>2. PICK n \in Nat : n = Cardinality(S)
    BY <1>1
  <1>3. PICK g : g \in Bijection(1..n, S)
    BY <1>1, <1>2 DEF ExistsBijection
  <1>4. g \in [1..n -> S] /\ IsInjective(g)
    BY <1>3 DEF Bijection, Injection, IsInjective
  <1>5. PICK f : f = CHOOSE h \in [1..n -> S] : IsInjective(h)
    OBVIOUS
  <1>6. f \in [1..n -> S] /\ IsInjective(f)
    BY <1>4, <1>5, Zenon
  <1>7. f \in Injection(1..n, S)
    BY <1>6 DEF Injection, IsInjective
  <1>8. IsFiniteSet(1..n) /\ Cardinality(1..n) = n
    BY FS_Interval
  <1>9. f \in Surjection(1..n, S)
    BY <1>2, <1>7, <1>8, FS_Injection
  <1>10. \A x \in S : \E i \in 1..n : f[i] = x
    BY <1>9 DEF Surjection
  <1>11. SetToSeq(S) = f
    BY <1>2, <1>5 DEF SetToSeq
  <1> QED BY <1>2, <1>6, <1>10, <1>11

-----------------------------------------------------------------------------
(* Functions defined place by place. *)

(* A set of places that has the first, and with each the next, has all. *)
LEMMA AllPlaces ==
    ASSUME NEW n \in Nat, NEW S, 0 \in S,
           \A i \in 1..n : i - 1 \in S => i \in S
    PROVE  \A i \in 0..n : i \in S
PROOF
  <1> SUFFICES ASSUME NEW k \in 0..n, k \notin S PROVE FALSE
    OBVIOUS
  <1> DEFINE T == {i \in 1..n : i \notin S}
  <1>1. k \in T
    OBVIOUS
  <1>2. PICK i \in T : \A j \in T : i <= j
    <2> HIDE DEF T
    <2>1. T \in SUBSET (1..n) /\ T # {}
      BY <1>1 DEF T
    <2> QED BY <2>1, FirstPlace
  <1>3. i \in 1..n /\ i \notin S
    OBVIOUS
  <1>4. i - 1 \in S
    <2>1. i - 1 = 0 \/ i - 1 \in 1..n
      BY <1>3
    <2>2. i - 1 \in T => i <= i - 1
      BY <1>2
    <2> QED BY <1>3, <2>1, <2>2
  <1> QED BY <1>3, <1>4

(* A function whose value at each place is made from that at the place before. *)
Follows(f, n, first, step) ==
  f[0] = first /\ \A i \in 1..n : f[i] = step[i][f[i - 1]]

(* Such a function exists. *)
LEMMA Iterates ==
    ASSUME NEW n \in Nat, NEW V, NEW v0 \in V, NEW step \in [1..n -> [V -> V]]
    PROVE  \E f \in [0..n -> V] : Follows(f, n, v0, step)
PROOF
  <1> DEFINE Upto(k, f) == f[0] = v0 /\ \A i \in 1..k : f[i] = step[i][f[i - 1]]
             S == {k \in 0..n : \E f \in [0..n -> V] : Upto(k, f)}
  <1>1. 0 \in S
    <2>1. PICK f : f = [i \in 0..n |-> v0]
      OBVIOUS
    <2>2. 0 \in 0..n /\ f \in [0..n -> V] /\ Upto(0, f)
      BY <2>1
    <2> HIDE DEF Upto
    <2> QED BY <2>2
  <1>2. ASSUME NEW i \in 1..n, i - 1 \in S PROVE i \in S
    <2>1. PICK f \in [0..n -> V] : Upto(i - 1, f)
      BY <1>2
    <2>2. f[i - 1] \in V /\ i \in 0..n /\ i - 1 \in 0..n
      OBVIOUS
    <2>3. step[i][f[i - 1]] \in V
      BY <2>2
    <2>4. PICK g : g = [f EXCEPT ![i] = step[i][f[i - 1]]]
      OBVIOUS
    <2>5. g \in [0..n -> V] /\ g[i] = step[i][f[i - 1]] /\ \A j \in 0..n : j # i => g[j] = f[j]
      BY <2>2, <2>3, <2>4
    <2>6. Upto(i, g)
      <3>1. g[0] = v0
        <4>1. 0 \in 0..n /\ 0 # i
          OBVIOUS
        <4> QED BY <2>1, <2>5, <4>1
      <3>2. ASSUME NEW j \in 1..i PROVE g[j] = step[j][g[j - 1]]
        <4>1. j \in 0..n /\ j - 1 \in 0..n /\ j - 1 # i
          OBVIOUS
        <4>2. CASE j = i
          BY <2>5, <4>1, <4>2
        <4>3. CASE j # i
          <5>1. j \in 1..(i - 1)
            BY <4>3
          <5> QED BY <2>1, <2>5, <4>1, <4>3, <5>1
        <4> QED BY <4>2, <4>3
      <3> QED BY <3>1, <3>2
    <2> HIDE DEF Upto
    <2> QED BY <2>2, <2>5, <2>6
  <1>3. n \in S
    <2> HIDE DEF S
    <2>1. \A i \in 0..n : i \in S
      BY <1>1, <1>2, AllPlaces
    <2> QED BY <2>1
  <1> QED BY <1>3 DEF Follows

-----------------------------------------------------------------------------
(* What of a sequence is in a set. *)

\* f keeps of the first places of s, place by place, the elements in S.
Filters(f, s, S) ==
  f = [i \in 0..Len(s) |-> IF i = 0 THEN <<>>
                           ELSE IF s[i] \in S THEN Append(f[i - 1], s[i]) ELSE f[i - 1]]

\* The function that the definition of a filter chooses.
Filtering(s, S) == CHOOSE f : Filters(f, s, S)

\* r is what s has in S up to the place n, at the places that g gives, in their order.
PicksUpTo(n, g, r, s, S) ==
  /\ g \in [1..Len(r) -> 1..n]
  /\ \A i \in 1..Len(r) : r[i] = s[g[i]] /\ r[i] \in S
  /\ \A i, j \in 1..Len(r) : i < j => g[i] < g[j]
  /\ \A k \in 1..n : s[k] \in S => \E i \in 1..Len(r) : g[i] = k

(* That function is there: from one place to the next it does what its definition says. *)
LEMMA FilterExists ==
    ASSUME NEW T, NEW s \in Seq(T), NEW S, NEW f, f = Filtering(s, S)
    PROVE  /\ f \in [0..Len(s) -> Seq(T)] /\ f[0] = <<>>
           /\ \A i \in 1..Len(s) :
                f[i] = IF s[i] \in S THEN Append(f[i - 1], s[i]) ELSE f[i - 1]
PROOF
  <1>1. PICK n \in Nat : n = Len(s)
    OBVIOUS
  <1> DEFINE V == Seq(T)
             Then(i, r) == IF s[i] \in S THEN Append(r, s[i]) ELSE r
             step == [i \in 1..n |-> [r \in V |-> Then(i, r)]]
  <1>2. ASSUME NEW i \in 1..n, NEW r \in V PROVE Then(i, r) \in V
    <2>1. s[i] \in T
      BY <1>1
    <2> QED BY <2>1
  <1>3. step \in [1..n -> [V -> V]] /\ \A i \in 1..n, r \in V : step[i][r] = Then(i, r)
    <2> HIDE DEF V, Then
    <2> QED BY <1>2
  <1>4. <<>> \in V
    OBVIOUS
  <1>5. PICK g \in [0..n -> V] : g[0] = <<>> /\ \A i \in 1..n : g[i] = step[i][g[i - 1]]
    <2> HIDE DEF V, step
    <2>1. \E h \in [0..n -> V] : Follows(h, n, <<>>, step)
      BY <1>3, <1>4, Iterates
    <2> QED BY <2>1 DEF Follows
  <1>6. Filters(g, s, S)
    <2> HIDE DEF V, step, Then
    <2>1. ASSUME NEW i \in 0..n PROVE g[i] = IF i = 0 THEN <<>> ELSE Then(i, g[i - 1])
      <3>1. CASE i = 0
        BY <1>5, <3>1
      <3>2. CASE i # 0
        <4>1. i \in 1..n /\ i - 1 \in 0..n
          BY <3>2
        <4>2. g[i - 1] \in V
          BY <1>5, <4>1
        <4> QED BY <1>3, <1>5, <3>2, <4>1, <4>2
      <3> QED BY <3>1, <3>2
    <2>2. g = [i \in 0..n |-> g[i]]
      BY <1>5
    <2>3. g = [i \in 0..n |-> IF i = 0 THEN <<>> ELSE Then(i, g[i - 1])]
      BY <2>1, <2>2
    <2> QED BY <1>1, <2>3 DEF Filters, Then
  <1>8. Filters(f, s, S)
    BY <1>6 DEF Filtering
  <1>9. /\ f[0] = <<>> /\ DOMAIN f = 0..n /\ f = [i \in 0..n |-> f[i]]
        /\ \A i \in 1..n : f[i] = Then(i, f[i - 1])
    <2>1. f = [i \in 0..n |-> IF i = 0 THEN <<>> ELSE Then(i, f[i - 1])]
      BY <1>1, <1>8 DEF Filters
    <2> HIDE DEF Then
    <2>2. 0 \in 0..n /\ \A i \in 1..n : i \in 0..n /\ i # 0
      OBVIOUS
    <2>3. f[0] = <<>> /\ \A i \in 1..n : f[i] = Then(i, f[i - 1])
      BY <2>1, <2>2, Zenon
    <2>4. DOMAIN f = 0..n /\ f = [i \in 0..n |-> f[i]]
      BY <2>1, Zenon
    <2> QED BY <2>3, <2>4
  <1>10. \A i \in 0..n : f[i] \in V
    <2> DEFINE K == {i \in 0..n : f[i] \in V}
    <2> HIDE DEF V, Then
    <2>1. 0 \in K
      BY <1>4, <1>9
    <2>2. ASSUME NEW i \in 1..n, i - 1 \in K PROVE i \in K
      <3>1. f[i - 1] \in V /\ i \in 0..n
        BY <2>2
      <3>2. f[i] \in V
        BY <1>2, <1>9, <3>1
      <3> QED BY <3>1, <3>2
    <2>3. \A i \in 0..n : i \in K
      <3> HIDE DEF K
      <3> QED BY <2>1, <2>2, AllPlaces
    <2> QED BY <2>3
  <1>11. f \in [0..n -> V]
    BY <1>9, <1>10
  <1> QED BY <1>1, <1>9, <1>11

(* What a filter leaves, and the places it is from. *)
LEMMA FilterIs ==
    ASSUME NEW T, NEW s \in Seq(T), NEW S, NEW r,
           r = Filtering(s, S)[Len(s)]
    PROVE  r \in Seq(T) /\ \E g : PicksUpTo(Len(s), g, r, s, S)
PROOF
  <1>1. PICK n \in Nat : n = Len(s)
    OBVIOUS
  <1>0. PICK f : f = Filtering(s, S)
    OBVIOUS
  <1>2. /\ f \in [0..n -> Seq(T)] /\ f[0] = <<>>
        /\ \A i \in 1..n :
             f[i] = IF s[i] \in S THEN Append(f[i - 1], s[i]) ELSE f[i - 1]
    BY <1>0, <1>1, FilterExists
  <1> DEFINE K == {i \in 0..n : \E g : PicksUpTo(i, g, f[i], s, S)}
  <1>3. 0 \in K
    <2>1. f[0] = <<>> /\ Len(f[0]) = 0 /\ 0 \in 0..n
      BY <1>2
    <2>2. PICK g : g = [i \in 1..0 |-> 0]
      OBVIOUS
    <2>3. PicksUpTo(0, g, f[0], s, S)
      BY <2>1, <2>2 DEF PicksUpTo
    <2> QED BY <2>1, <2>3
  <1>4. ASSUME NEW i \in 1..n, i - 1 \in K PROVE i \in K
    <2>1. PICK g : PicksUpTo(i - 1, g, f[i - 1], s, S)
      BY <1>4
    <2>0. i - 1 \in 0..n
      OBVIOUS
    <2>2. PICK r0 \in Seq(T) : r0 = f[i - 1]
      BY ONLY <1>2, <2>0
    <2>3. PICK m \in Nat : m = Len(r0)
      OBVIOUS
    <2>4. /\ g \in [1..m -> 1..i - 1]
          /\ \A k \in 1..m : r0[k] = s[g[k]] /\ r0[k] \in S
          /\ \A k, j \in 1..m : k < j => g[k] < g[j]
          /\ \A k \in 1..i - 1 : s[k] \in S => \E j \in 1..m : g[j] = k
      BY <2>1, <2>2, <2>3 DEF PicksUpTo
    <2>5. CASE s[i] \in S
      <3>1. PICK r1 : r1 = f[i]
        OBVIOUS
      <3>2. r1 = Append(r0, s[i]) /\ s[i] \in T
        <4>1. r1 = IF s[i] \in S THEN Append(f[i - 1], s[i]) ELSE f[i - 1]
          BY <1>2, <3>1, Zenon
        <4>2. s[i] \in T
          BY <1>1
        <4> QED BY <2>2, <2>5, <4>1, <4>2
      <3>3. /\ Len(r1) = m + 1 /\ r1[m + 1] = s[i]
            /\ \A k \in 1..m : r1[k] = r0[k]
        BY <2>3, <3>2
      <3>4. PICK h : h = [k \in 1..m + 1 |-> IF k = m + 1 THEN i ELSE g[k]]
        OBVIOUS
      <3>5. h[m + 1] = i /\ \A k \in 1..m : h[k] = g[k] /\ g[k] \in 1..i - 1
        BY <2>4, <3>4
      <3>6. \A k \in 1..m + 1 : k \in 1..m \/ k = m + 1
        OBVIOUS
      <3>7. h \in [1..m + 1 -> 1..i]
        BY <2>4, <3>4
      <3>8. \A k \in 1..m + 1 : r1[k] = s[h[k]] /\ r1[k] \in S
        BY <2>4, <2>5, <3>3, <3>5, <3>6
      <3>9. \A k, j \in 1..m + 1 : k < j => h[k] < h[j]
        <4>1. ASSUME NEW k \in 1..m + 1, NEW j \in 1..m + 1, k < j PROVE h[k] < h[j]
          <5>1. k \in 1..m /\ h[k] = g[k] /\ g[k] \in 1..i - 1
            BY <3>5, <4>1
          <5>2. CASE j \in 1..m
            BY <2>4, <3>5, <4>1, <5>1, <5>2
          <5>3. CASE j = m + 1
            BY <3>5, <5>1, <5>3
          <5> QED BY <3>6, <5>2, <5>3
        <4> QED BY <4>1
      <3>10. ASSUME NEW k \in 1..i, s[k] \in S PROVE \E j \in 1..m + 1 : h[j] = k
        <4>1. CASE k = i
          BY <3>5, <4>1
        <4>2. CASE k # i
          <5>1. k \in 1..i - 1
            BY <4>2
          <5>2. PICK j \in 1..m : g[j] = k
            BY <2>4, <3>10, <5>1
          <5> QED BY <3>5, <5>2
        <4> QED BY <4>1, <4>2
      <3>11. PicksUpTo(i, h, r1, s, S)
        BY <3>3, <3>7, <3>8, <3>9, <3>10 DEF PicksUpTo
      <3> QED BY <3>1, <3>11
    <2>6. CASE s[i] \notin S
      <3>1. f[i] = r0
        BY <1>2, <2>2, <2>6
      <3>2. g \in [1..m -> 1..i]
        BY <2>4
      <3>3. \A k \in 1..i : s[k] \in S => k \in 1..i - 1
        BY <2>6
      <3>4. PicksUpTo(i, g, r0, s, S)
        BY <2>3, <2>4, <3>2, <3>3 DEF PicksUpTo
      <3> QED BY <3>1, <3>4
    <2> QED BY <2>5, <2>6
  <1>5. n \in K
    <2>1. \A i \in 0..n : i \in K
      <3> HIDE DEF K
      <3> QED BY <1>3, <1>4, AllPlaces
    <2> QED BY <2>1
  <1>6. f[n] = r /\ f[n] \in Seq(T)
    BY <1>0, <1>1, <1>2
  <1> QED BY <1>1, <1>5, <1>6

(* A filter that every element passes leaves the sequence. *)
LEMMA FilterOfAll ==
    ASSUME NEW T, NEW s \in Seq(T), NEW S, \A i \in 1..Len(s) : s[i] \in S
    PROVE  Filtering(s, S)[Len(s)] = s
PROOF
  <1>1. PICK n \in Nat : n = Len(s)
    OBVIOUS
  <1>2. PICK f : f = Filtering(s, S)
    OBVIOUS
  <1>3. /\ f \in [0..n -> Seq(T)] /\ f[0] = <<>>
        /\ \A i \in 1..n : f[i] = Append(f[i - 1], s[i])
    <2>1. /\ f \in [0..Len(s) -> Seq(T)] /\ f[0] = <<>>
          /\ \A i \in 1..Len(s) :
               f[i] = IF s[i] \in S THEN Append(f[i - 1], s[i]) ELSE f[i - 1]
      BY <1>2, FilterExists
    <2> QED BY <1>1, <2>1
  <1> DEFINE K == {i \in 0..n : Len(f[i]) = i /\ \A k \in 1..i : f[i][k] = s[k]}
  <1>4. 0 \in K
    BY <1>3
  <1>5. ASSUME NEW i \in 1..n, i - 1 \in K PROVE i \in K
    <2>1. i - 1 \in 0..n /\ s[i] \in T
      BY <1>1
    <2>2. PICK r \in Seq(T) : r = f[i - 1]
      BY ONLY <1>3, <2>1
    <2>3. Len(r) = i - 1 /\ \A k \in 1..i - 1 : r[k] = s[k]
      BY <1>5, <2>2
    <2>4. f[i] = Append(r, s[i])
      BY <1>3, <2>2
    <2>5. Len(f[i]) = i /\ f[i][i] = s[i] /\ \A k \in 1..i - 1 : f[i][k] = r[k]
      BY <2>1, <2>3, <2>4
    <2>6. \A k \in 1..i : k = i \/ k \in 1..i - 1
      OBVIOUS
    <2> QED BY <2>3, <2>5, <2>6
  <1>6. n \in K
    <2>1. \A i \in 0..n : i \in K
      <3> HIDE DEF K
      <3> QED BY <1>4, <1>5, AllPlaces
    <2> QED BY <2>1
  <1>7. PICK r \in Seq(T) : r = f[n]
    BY <1>3
  <1>8. Len(r) = Len(s) /\ \A k \in 1..Len(s) : r[k] = s[k]
    BY <1>1, <1>6, <1>7
  <1>9. r = s
    BY <1>8, SeqEqual
  <1> QED BY <1>1, <1>2, <1>7, <1>9

(* Of the set only the elements of the sequence matter. *)
LEMMA FilterSame ==
    ASSUME NEW T, NEW s \in Seq(T), NEW S, NEW U,
           \A i \in 1..Len(s) : s[i] \in S <=> s[i] \in U
    PROVE  Filtering(s, S)[Len(s)] = Filtering(s, U)[Len(s)]
PROOF
  <1>1. PICK n \in Nat : n = Len(s)
    OBVIOUS
  <1>2. PICK f : f = Filtering(s, S)
    OBVIOUS
  <1>3. PICK h : h = Filtering(s, U)
    OBVIOUS
  <1>4. /\ f[0] = <<>>
        /\ \A i \in 1..n : f[i] = IF s[i] \in S THEN Append(f[i - 1], s[i]) ELSE f[i - 1]
    BY <1>1, <1>2, FilterExists
  <1>5. /\ h[0] = <<>>
        /\ \A i \in 1..n : h[i] = IF s[i] \in U THEN Append(h[i - 1], s[i]) ELSE h[i - 1]
    BY <1>1, <1>3, FilterExists
  <1> DEFINE K == {i \in 0..n : f[i] = h[i]}
  <1>6. 0 \in K
    BY <1>4, <1>5
  <1>7. ASSUME NEW i \in 1..n, i - 1 \in K PROVE i \in K
    BY <1>1, <1>4, <1>5, <1>7
  <1>8. n \in K
    <2>1. \A i \in 0..n : i \in K
      <3> HIDE DEF K
      <3> QED BY <1>6, <1>7, AllPlaces
    <2> QED BY <2>1
  <1> QED BY <1>1, <1>2, <1>3, <1>8

(* A filter that no element passes leaves nothing. *)
LEMMA FilterOfNone ==
    ASSUME NEW T, NEW s \in Seq(T), NEW S, \A i \in 1..Len(s) : s[i] \notin S
    PROVE  Filtering(s, S)[Len(s)] = <<>>
PROOF
  <1>1. PICK n \in Nat : n = Len(s)
    OBVIOUS
  <1>2. PICK f : f = Filtering(s, S)
    OBVIOUS
  <1>3. f[0] = <<>> /\ \A i \in 1..n : f[i] = f[i - 1]
    BY <1>1, <1>2, FilterExists
  <1> DEFINE K == {i \in 0..n : f[i] = <<>>}
  <1>4. 0 \in K
    BY <1>3
  <1>5. ASSUME NEW i \in 1..n, i - 1 \in K PROVE i \in K
    BY <1>3, <1>5
  <1>6. n \in K
    <2>1. \A i \in 0..n : i \in K
      <3> HIDE DEF K
      <3> QED BY <1>4, <1>5, AllPlaces
    <2> QED BY <2>1
  <1> QED BY <1>1, <1>2, <1>6

(* To append to two sequences in a row is to append to the second. *)
LEMMA AppendsToTheSecond ==
    ASSUME NEW T, NEW p \in Seq(T), NEW q \in Seq(T), NEW x \in T,
           NEW pq, pq = p \o q, NEW qx, qx = Append(q, x)
    PROVE  Append(pq, x) = p \o qx
PROOF
  <1>1. PICK a \in Seq(T) : a = Append(p \o q, x)
    <2>1. Append(p \o q, x) \in Seq(T)
      OBVIOUS
    <2> QED BY <2>1
  <1>2. PICK b \in Seq(T) : b = p \o Append(q, x)
    <2>1. p \o Append(q, x) \in Seq(T)
      OBVIOUS
    <2> QED BY <2>1
  <1>0. PICK k \in Nat, l \in Nat : k = Len(p) /\ l = Len(q)
    OBVIOUS
  <1>3. /\ Len(a) = k + l + 1
        /\ \A i \in 1..(k + l + 1) :
             a[i] = IF i <= k THEN p[i] ELSE IF i <= k + l THEN q[i - k] ELSE x
    <2>1. PICK c \in Seq(T) : c = p \o q
      <3>1. p \o q \in Seq(T)
        OBVIOUS
      <3> QED BY <3>1
    <2>2. /\ Len(c) = k + l
          /\ \A i \in 1..(k + l) : c[i] = IF i <= k THEN p[i] ELSE q[i - k]
      BY <1>0, <2>1
    <2>3. /\ Len(a) = k + l + 1 /\ a[k + l + 1] = x
          /\ \A i \in 1..(k + l) : a[i] = c[i]
      BY <1>1, <2>1, <2>2
    <2>4. \A i \in 1..(k + l + 1) : /\ i \in 1..(k + l) \/ i = k + l + 1
                                    /\ i = k + l + 1 => ~(i <= k) /\ ~(i <= k + l)
                                    /\ i \in 1..(k + l) => i <= k + l
      OBVIOUS
    <2> QED BY <2>2, <2>3, <2>4
  <1>4. /\ Len(b) = k + l + 1
        /\ \A i \in 1..(k + l + 1) :
             b[i] = IF i <= k THEN p[i] ELSE IF i <= k + l THEN q[i - k] ELSE x
    <2>1. PICK c \in Seq(T) : c = Append(q, x)
      <3>1. Append(q, x) \in Seq(T)
        OBVIOUS
      <3> QED BY <3>1
    <2>2. /\ Len(c) = l + 1 /\ c[l + 1] = x
          /\ \A i \in 1..l : c[i] = q[i]
      BY <1>0, <2>1
    <2>3. /\ Len(b) = k + (l + 1)
          /\ \A i \in 1..(k + (l + 1)) : b[i] = IF i <= k THEN p[i] ELSE c[i - k]
      <3>1. b = p \o c
        BY <1>2, <2>1
      <3>2. Len(c) = l + 1
        BY <2>2
      <3>3. /\ Len(b) = Len(p) + Len(c)
            /\ \A i \in 1..(Len(p) + Len(c)) : b[i] = IF i <= Len(p) THEN p[i] ELSE c[i - Len(p)]
        BY <3>1
      <3> QED BY <1>0, <3>2, <3>3
    <2>4. \A i \in 1..(k + l + 1) : \/ i <= k
                                    \/ ~(i <= k) /\ i <= k + l /\ i - k \in 1..l
                                    \/ ~(i <= k) /\ ~(i <= k + l) /\ i - k = l + 1
      OBVIOUS
    <2>5. k + (l + 1) = k + l + 1
      OBVIOUS
    <2> QED BY <2>2, <2>3, <2>4, <2>5
  <1>5. Len(a) = Len(b) /\ \A i \in 1..Len(a) : a[i] = b[i]
    BY <1>3, <1>4
  <1>6. a = b
    BY <1>5, SeqEqual
  <1> QED BY <1>1, <1>2, <1>6

(* What of two sequences in a row is in a set. *)
LEMMA FilterOfBoth ==
    ASSUME NEW T, NEW s \in Seq(T), NEW t \in Seq(T), NEW S
    PROVE  Filtering(s \o t, S)[Len(s \o t)] =
             Filtering(s, S)[Len(s)] \o Filtering(t, S)[Len(t)]
PROOF
  <1>1. PICK n \in Nat, m \in Nat : n = Len(s) /\ m = Len(t)
    OBVIOUS
  <1>2. PICK f : f = Filtering(s, S)
    OBVIOUS
  <1>3. PICK g : g = Filtering(t, S)
    OBVIOUS
  <1>4. PICK b \in Seq(T) : b = s \o t
    <2>1. s \o t \in Seq(T)
      OBVIOUS
    <2> QED BY <2>1
  <1>5. PICK h : h = Filtering(b, S)
    OBVIOUS
  <1>6. /\ Len(b) = n + m
        /\ \A i \in 1..n : b[i] = s[i]
        /\ \A i \in 1..m : b[n + i] = t[i]
    BY <1>1, <1>4
  <1>7. /\ f \in [0..n -> Seq(T)] /\ f[0] = <<>>
        /\ \A i \in 1..n : f[i] = IF s[i] \in S THEN Append(f[i - 1], s[i]) ELSE f[i - 1]
    <2>1. /\ f \in [0..Len(s) -> Seq(T)] /\ f[0] = <<>>
          /\ \A i \in 1..Len(s) :
               f[i] = IF s[i] \in S THEN Append(f[i - 1], s[i]) ELSE f[i - 1]
      BY <1>2, FilterExists
    <2> QED BY <1>1, <2>1
  <1>8. /\ g \in [0..m -> Seq(T)] /\ g[0] = <<>>
        /\ \A i \in 1..m : g[i] = IF t[i] \in S THEN Append(g[i - 1], t[i]) ELSE g[i - 1]
    <2>1. /\ g \in [0..Len(t) -> Seq(T)] /\ g[0] = <<>>
          /\ \A i \in 1..Len(t) :
               g[i] = IF t[i] \in S THEN Append(g[i - 1], t[i]) ELSE g[i - 1]
      BY <1>3, FilterExists
    <2> QED BY <1>1, <2>1
  <1>9. /\ h \in [0..n + m -> Seq(T)] /\ h[0] = <<>>
        /\ \A i \in 1..n + m : h[i] = IF b[i] \in S THEN Append(h[i - 1], b[i]) ELSE h[i - 1]
    <2>1. /\ h \in [0..Len(b) -> Seq(T)] /\ h[0] = <<>>
          /\ \A i \in 1..Len(b) :
               h[i] = IF b[i] \in S THEN Append(h[i - 1], b[i]) ELSE h[i - 1]
      BY <1>5, FilterExists
    <2> QED BY <1>6, <2>1
  <1> DEFINE K == {i \in 0..n : h[i] = f[i]}
             L == {i \in 0..m : h[n + i] = f[n] \o g[i]}
  <1>10. n \in K
    <2>1. 0 \in K
      BY <1>7, <1>9
    <2>2. ASSUME NEW i \in 1..n, i - 1 \in K PROVE i \in K
      <3>1. i \in 1..n + m
        OBVIOUS
      <3>2. h[i - 1] = f[i - 1] /\ b[i] = s[i]
        BY <1>6, <2>2
      <3>3. h[i] = f[i]
        BY <1>7, <1>9, <3>1, <3>2
      <3> QED BY <3>3
    <2>3. \A i \in 0..n : i \in K
      <3> HIDE DEF K
      <3> QED BY <2>1, <2>2, AllPlaces
    <2>4. n \in 0..n
      OBVIOUS
    <2> QED BY <2>3, <2>4
  <1>11. m \in L
    <2>1. 0 \in L
      <3>1. f[n] \in Seq(T)
        BY <1>7
      <3>2. f[n] \o <<>> = f[n]
        BY <3>1
      <3>3. h[n] = f[n] /\ n + 0 = n /\ 0 \in 0..m
        BY <1>10
      <3>4. h[n + 0] = f[n] \o g[0]
        BY <1>8, <3>2, <3>3
      <3> QED BY <3>3, <3>4
    <2>2. ASSUME NEW i \in 1..m, i - 1 \in L PROVE i \in L
      <3>1. n + i \in 1..n + m /\ (n + i) - 1 = n + (i - 1) /\ i - 1 \in 0..m /\ n \in 0..n
        OBVIOUS
      <3>2. PICK p \in Seq(T) : p = f[n]
        BY <1>7, <3>1
      <3>3. PICK q \in Seq(T) : q = g[i - 1]
        BY <1>8, <3>1
      <3>4. t[i] \in T
        BY <1>1
      <3>5. h[n + (i - 1)] = p \o q
        BY <2>2, <3>2, <3>3
      <3>6. h[n + i] = IF t[i] \in S THEN Append(p \o q, t[i]) ELSE p \o q
        BY <1>6, <1>9, <3>1, <3>5
      <3>7. Append(p \o q, t[i]) = p \o Append(q, t[i])
        <4>1. PICK x \in T : x = t[i]
          BY <3>4
        <4>2. PICK pq, qx : pq = p \o q /\ qx = Append(q, x)
          OBVIOUS
        <4>3. Append(pq, x) = p \o qx
          BY <4>2, AppendsToTheSecond
        <4> QED BY <4>1, <4>2, <4>3
      <3>8. h[n + i] = p \o g[i]
        BY <1>8, <3>3, <3>6, <3>7
      <3>9. i \in 0..m
        OBVIOUS
      <3> QED BY <3>2, <3>8, <3>9
    <2>3. \A i \in 0..m : i \in L
      <3> HIDE DEF L
      <3> QED BY <2>1, <2>2, AllPlaces
    <2>4. m \in 0..m
      OBVIOUS
    <2> QED BY <2>3, <2>4
  <1>12. h[n + m] = f[n] \o g[m]
    BY <1>11
  <1>13. Filtering(b, S)[Len(b)] = Filtering(s, S)[n] \o Filtering(t, S)[m]
    BY <1>2, <1>3, <1>5, <1>6, <1>12
  <1> QED BY <1>1, <1>4, <1>13

=============================================================================
