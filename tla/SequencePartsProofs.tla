------------------------ MODULE SequencePartsProofs ------------------------
(* What the elements kept of a sequence are, and how many there are, when  *)
(* the sequence grows or is cut. Recursion on the length is taken care of  *)
(* by the least number for which a statement fails.                        *)
EXTENDS SequenceParts, FiniteSetTheorems, FunctionTheorems, WellFoundedInduction,
        TLAPS

\* A set of natural numbers that is not empty has a least element.
LEMMA LeastNat ==
  ASSUME NEW S \in SUBSET Nat, S # {}
  PROVE  \E n \in S : \A m \in S : n <= m
<1> DEFINE R == {pair \in Nat \X Nat : pair[1] < pair[2]}
<1>1. IsWellFoundedOn(R, Nat)
  BY NatLessThanWellFounded DEF OpToRel
<1>2. \A m, n \in Nat : <<m, n>> \in R <=> m < n
  OBVIOUS
<1> HIDE DEF R
<1>3. PICK n \in S : \A m \in S : ~(<<m, n>> \in R)
  BY <1>1, WFMin
<1>4. ASSUME NEW m \in S
      PROVE  n <= m
  <2>1. ~(m < n)
    BY <1>2, <1>3
  <2>2. m \in Nat /\ n \in Nat
    OBVIOUS
  <2> QED
    BY <2>1, <2>2
<1> QED
  BY <1>4

----------------------------------------------------------------------------
(* Kept. *)

\* What is kept when one more element is looked at.
With(k, x, S) == IF x \in S THEN Append(k, x) ELSE k

\* f is the recursive function of Kept for the first n elements of s.
Keeps(f, s, S, n) ==
  f = [m \in 0..n |-> IF m = 0 THEN <<>> ELSE With(f[m - 1], s[m], S)]

\* The recursive function of Kept exists.
LEMMA KeepsExists ==
  ASSUME NEW s, NEW S, NEW n \in Nat
  PROVE  \E f : Keeps(f, s, S, n)
<1> DEFINE Bad == {m \in Nat : ~\E f : Keeps(f, s, S, m)}
<1>1. ASSUME Bad # {}
      PROVE  FALSE
  <2>1. Bad \in SUBSET Nat
    OBVIOUS
  <2>2. PICK m \in Bad : \A k \in Bad : m <= k
    BY <1>1, <2>1, LeastNat
  <2>3. m \in Nat /\ ~\E f : Keeps(f, s, S, m)
    OBVIOUS
  <2>4. CASE m = 0
    <3> DEFINE g == [k \in 0..0 |-> <<>>]
    <3>1. Keeps(g, s, S, 0)
      BY DEF Keeps
    <3> QED
      BY <2>3, <2>4, <3>1
  <2>5. CASE m # 0
    <3>1. m - 1 \in Nat /\ m - 1 \notin Bad
      BY <2>2, <2>3, <2>5
    <3>2. PICK f : Keeps(f, s, S, m - 1)
      BY <3>1
    <3> DEFINE last == With(f[m - 1], s[m], S)
               g    == [k \in 0..m |-> IF k = m THEN last ELSE f[k]]
    <3>3. \A k \in 0..(m - 1) :
            f[k] = IF k = 0 THEN <<>> ELSE With(f[k - 1], s[k], S)
      BY <3>2 DEF Keeps
    <3>4. \A k \in 0..m : g[k] = IF k = m THEN last ELSE f[k]
      OBVIOUS
    <3>5. \A k \in 0..m : g[k] = IF k = 0 THEN <<>> ELSE With(g[k - 1], s[k], S)
      <4> SUFFICES ASSUME NEW k \in 0..m
                   PROVE  g[k] = IF k = 0 THEN <<>> ELSE With(g[k - 1], s[k], S)
        OBVIOUS
      <4> HIDE DEF g
      <4>1. CASE k = 0
        BY <2>3, <2>5, <3>3, <3>4, <4>1
      <4>2. CASE k # 0 /\ k # m
        <5>1. k - 1 \in 0..m /\ k - 1 # m /\ k \in 0..(m - 1)
          BY <2>3, <4>2
        <5>2. g[k] = f[k] /\ g[k - 1] = f[k - 1]
          BY <3>4, <4>2, <5>1
        <5> QED
          BY <3>3, <4>2, <5>1, <5>2
      <4>3. CASE k = m
        <5>1. m - 1 \in 0..m /\ m - 1 # m
          BY <2>3, <2>5
        <5>2. g[m] = last /\ g[m - 1] = f[m - 1]
          BY <2>3, <3>4, <5>1
        <5> QED
          BY <2>5, <4>3, <5>2
      <4> QED
        BY <4>1, <4>2, <4>3
    <3>6. Keeps(g, s, S, m)
      <4>1. g = [k \in 0..m |-> g[k]]
        OBVIOUS
      <4> HIDE DEF g
      <4> QED
        BY <3>5, <4>1 DEF Keeps
    <3> QED
      BY <2>3, <3>6
  <2> QED
    BY <2>4, <2>5
<1>2. n \notin Bad
  BY <1>1
<1> QED
  BY <1>2

\* Kept is the last value of its recursive function.
LEMMA KeptIsLast ==
  ASSUME NEW s, NEW S, Len(s) \in Nat
  PROVE  \E f : Keeps(f, s, S, Len(s)) /\ Kept(s, S) = f[Len(s)]
<1> DEFINE f == CHOOSE f : Keeps(f, s, S, Len(s))
<1>1. Keeps(f, s, S, Len(s))
  BY KeepsExists
<1>2. Kept(s, S) = f[Len(s)]
  BY DEF Kept, Keeps, With
<1> QED
  BY <1>1, <1>2

\* Nothing is kept of nothing.
LEMMA KeptEmpty ==
  ASSUME NEW S
  PROVE  Kept(<<>>, S) = <<>>
<1>1. PICK f : Keeps(f, <<>>, S, 0) /\ Kept(<<>>, S) = f[0]
  BY KeptIsLast
<1> QED
  BY <1>1 DEF Keeps

\* An element appended is kept if it is in the set.
LEMMA KeptAppend ==
  ASSUME NEW A, NEW s \in Seq(A), NEW x \in A, NEW S
  PROVE  Kept(Append(s, x), S) = IF x \in S THEN Append(Kept(s, S), x) ELSE Kept(s, S)
<1> DEFINE r == Append(s, x)
           n == Len(s)
<1>1. /\ n \in Nat
      /\ Len(r) = n + 1
      /\ \A i \in 1..n : s[i] = r[i]
      /\ r[n + 1] = x
  OBVIOUS
<1> HIDE DEF r, n
<1>2. PICK f : Keeps(f, s, S, n) /\ Kept(s, S) = f[n]
  BY <1>1, KeptIsLast DEF n
<1>3. PICK g : Keeps(g, r, S, n + 1) /\ Kept(r, S) = g[n + 1]
  <2>1. Len(r) \in Nat
    BY <1>1
  <2> QED
    BY <1>1, <2>1, KeptIsLast
<1>4. f[n] = g[n]
  <2> DEFINE Bad == {m \in 0..n : f[m] # g[m]}
  <2>1. \A m \in 0..n : f[m] = IF m = 0 THEN <<>> ELSE With(f[m - 1], s[m], S)
    BY <1>2 DEF Keeps
  <2>2. \A m \in 0..n : g[m] = IF m = 0 THEN <<>> ELSE With(g[m - 1], r[m], S)
    <3>1. \A m \in 0..(n + 1) :
            g[m] = IF m = 0 THEN <<>> ELSE With(g[m - 1], r[m], S)
      BY <1>3 DEF Keeps
    <3> QED
      BY <1>1, <3>1
  <2>3. ASSUME Bad # {}
        PROVE  FALSE
    <3>1. Bad \in SUBSET Nat
      BY <1>1
    <3>2. PICK m \in Bad : \A l \in Bad : m <= l
      BY <2>3, <3>1, LeastNat
    <3>3. m # 0
      BY <2>1, <2>2
    <3>4. m - 1 \in 0..n /\ m \in 1..n /\ m - 1 \notin Bad
      BY <1>1, <3>2, <3>3
    <3>5. f[m - 1] = g[m - 1] /\ s[m] = r[m]
      BY <1>1, <3>4
    <3> QED
      BY <2>1, <2>2, <3>3, <3>5
  <2> QED
    BY <1>1, <2>3
<1>5. g[n + 1] = With(g[n], r[n + 1], S)
  <2>1. n + 1 \in 0..(n + 1) /\ n + 1 # 0 /\ (n + 1) - 1 = n
    BY <1>1
  <2>2. g = [m \in 0..(n + 1) |-> IF m = 0 THEN <<>> ELSE With(g[m - 1], r[m], S)]
    BY <1>3 DEF Keeps
  <2> QED
    BY <2>1, <2>2
<1>6. Kept(r, S) = With(Kept(s, S), x, S)
  BY <1>1, <1>2, <1>3, <1>4, <1>5
<1> QED
  BY <1>6 DEF With, r

\* What is kept are the elements of s that are in S.
LEMMA KeptElements ==
  ASSUME NEW A, NEW s \in Seq(A), NEW S
  PROVE  /\ Kept(s, S) \in Seq(A)
         /\ \A x : (\E i \in DOMAIN Kept(s, S) : Kept(s, S)[i] = x)
                     <=> x \in S /\ \E i \in DOMAIN s : s[i] = x
<1> DEFINE n == Len(s)
<1>0. n \in Nat /\ DOMAIN s = 1..n /\ \A i \in 1..n : s[i] \in A
  OBVIOUS
<1>1. PICK f : Keeps(f, s, S, n) /\ Kept(s, S) = f[n]
  BY <1>0, KeptIsLast
<1> DEFINE Good(m) ==
             /\ f[m] \in Seq(A)
             /\ \A x : (\E i \in DOMAIN f[m] : f[m][i] = x)
                         <=> x \in S /\ \E i \in 1..m : s[i] = x
           Bad == {m \in 0..n : ~Good(m)}
<1>2. \A m \in 0..n : f[m] = IF m = 0 THEN <<>> ELSE With(f[m - 1], s[m], S)
  BY <1>1 DEF Keeps
<1> HIDE DEF n
<1>3. ASSUME Bad # {}
      PROVE  FALSE
  <2>1. Bad \in SUBSET Nat
    BY <1>0
  <2>2. PICK m \in Bad : \A l \in Bad : m <= l
    BY <1>3, <2>1, LeastNat
  <2>3. m \in 0..n /\ ~Good(m)
    OBVIOUS
  <2>4. CASE m = 0
    <3>1. f[m] = <<>>
      BY <1>2, <2>3, <2>4
    <3>2. Good(m)
      BY <2>4, <3>1
    <3> QED
      BY <2>3, <3>2
  <2>5. CASE m # 0
    <3>1. m - 1 \in 0..n /\ m \in 1..n /\ m - 1 \notin Bad
      BY <1>0, <2>2, <2>3, <2>5
    <3>2. Good(m - 1)
      BY <3>1
    <3> DEFINE k == f[m - 1]
               e == s[m]
    <3>3. k \in Seq(A) /\ e \in A
      BY <1>0, <3>1, <3>2
    <3>4. \A x : (\E i \in DOMAIN k : k[i] = x)
                   <=> x \in S /\ \E i \in 1..(m - 1) : s[i] = x
      BY <3>2
    <3>5. f[m] = With(k, e, S)
      BY <1>2, <2>3, <2>5
    <3>6. \A x : (\E i \in 1..m : s[i] = x) <=> x = e \/ \E i \in 1..(m - 1) : s[i] = x
      BY <3>1
    <3> HIDE DEF k, e
    <3>7. CASE e \in S
      <4>1. f[m] = Append(k, e)
        BY <3>5, <3>7 DEF With
      <4>2. f[m] \in Seq(A)
        BY <3>3, <4>1
      <4>3. \A x : (\E i \in DOMAIN f[m] : f[m][i] = x)
                     <=> x = e \/ \E i \in DOMAIN k : k[i] = x
        <5>1. /\ Len(k) \in Nat
              /\ DOMAIN k = 1..Len(k)
              /\ DOMAIN f[m] = 1..(Len(k) + 1)
              /\ \A i \in 1..Len(k) : f[m][i] = k[i]
              /\ f[m][Len(k) + 1] = e
          BY <3>3, <4>1
        <5> QED
          BY <5>1
      <4> QED
        BY <2>3, <3>4, <3>6, <3>7, <4>2, <4>3
    <3>8. CASE e \notin S
      <4>1. f[m] = k
        BY <3>5, <3>8 DEF With
      <4> QED
        BY <2>3, <3>3, <3>4, <3>6, <3>8, <4>1
    <3> QED
      BY <3>7, <3>8
  <2> QED
    BY <2>4, <2>5
<1>4. Good(n)
  BY <1>0, <1>3
<1> QED
  BY <1>0, <1>1, <1>4

\* A sequence grows from the empty one, element by element.
LEMMA FirstElements ==
  ASSUME NEW A, NEW s \in Seq(A)
  PROVE  /\ Len(s) \in Nat
         /\ SubSeq(s, 1, Len(s)) = s
         /\ SubSeq(s, 1, 0) = <<>>
         /\ \A k \in 1..Len(s) :
              /\ SubSeq(s, 1, k - 1) \in Seq(A)
              /\ s[k] \in A
              /\ SubSeq(s, 1, k) = Append(SubSeq(s, 1, k - 1), s[k])
OBVIOUS

\* A sequence that has no other elements is kept as it is.
LEMMA KeptAll ==
  ASSUME NEW A, NEW s \in Seq(A), NEW S, \A i \in DOMAIN s : s[i] \in S
  PROVE  Kept(s, S) = s
<1> DEFINE n       == Len(s)
           u(k)    == SubSeq(s, 1, k)
           Bad     == {k \in 0..n : Kept(u(k), S) # u(k)}
<1>1. /\ n \in Nat
      /\ u(n) = s
      /\ u(0) = <<>>
      /\ \A k \in 1..n : u(k - 1) \in Seq(A) /\ s[k] \in A /\ u(k) = Append(u(k - 1), s[k])
  BY FirstElements
<1>0. \A k \in 1..n : s[k] \in S
  <2>1. DOMAIN s = 1..Len(s)
    OBVIOUS
  <2> QED
    BY <2>1
<1> HIDE DEF n, u
<1>2. ASSUME Bad # {}
      PROVE  FALSE
  <2>1. Bad \in SUBSET Nat
    BY <1>1
  <2>2. PICK k \in Bad : \A l \in Bad : k <= l
    BY <1>2, <2>1, LeastNat
  <2>3. k \in 0..n /\ Kept(u(k), S) # u(k)
    OBVIOUS
  <2>4. k # 0
    BY <1>1, <2>3, KeptEmpty
  <2>5. k - 1 \in 0..n /\ k \in 1..n /\ k - 1 \notin Bad
    BY <1>1, <2>2, <2>3, <2>4
  <2>6. Kept(u(k - 1), S) = u(k - 1)
    BY <2>5
  <2>7. u(k - 1) \in Seq(A) /\ s[k] \in A /\ s[k] \in S
    BY <1>0, <1>1, <2>5
  <2>8. Kept(Append(u(k - 1), s[k]), S) = Append(Kept(u(k - 1), S), s[k])
    BY <2>7, KeptAppend
  <2> QED
    BY <1>1, <2>3, <2>5, <2>6, <2>8
<1>3. n \in 0..n
  BY <1>1
<1>4. Kept(u(n), S) = u(n)
  BY <1>2, <1>3
<1> QED
  BY <1>1, <1>4

----------------------------------------------------------------------------
(* Occurrences. *)

\* The positions of a sequence are finitely many.
LEMMA PositionsFinite ==
  ASSUME NEW A, NEW s \in Seq(A), NEW S
  PROVE  /\ IsFiniteSet({i \in DOMAIN s : s[i] \in S})
         /\ Occurrences(s, S) \in 0..Len(s)
<1>1. IsFiniteSet(1..Len(s)) /\ Cardinality(1..Len(s)) = Len(s)
  <2>1. Len(s) \in Nat
    OBVIOUS
  <2> QED
    BY <2>1, FS_Interval
<1> DEFINE P == {i \in DOMAIN s : s[i] \in S}
<1>2. P \subseteq 1..Len(s)
  OBVIOUS
<1> HIDE DEF P
<1>3. IsFiniteSet(P) /\ Cardinality(P) <= Len(s)
  BY <1>1, <1>2, FS_Subset
<1>4. Cardinality(P) \in Nat
  BY <1>3, FS_CardinalityType
<1>5. Cardinality(P) \in 0..Len(s)
  BY <1>3, <1>4
<1> QED
  BY <1>3, <1>5 DEF P, Occurrences

\* Nothing occurs in nothing.
LEMMA OccurrencesEmpty ==
  ASSUME NEW S
  PROVE  Occurrences(<<>>, S) = 0
<1>1. {i \in DOMAIN <<>> : <<>>[i] \in S} = {}
  OBVIOUS
<1> QED
  BY <1>1, FS_EmptySet DEF Occurrences

\* An element appended counts once if it is in the set.
LEMMA OccurrencesAppend ==
  ASSUME NEW A, NEW s \in Seq(A), NEW x \in A, NEW S
  PROVE  Occurrences(Append(s, x), S) = Occurrences(s, S) + (IF x \in S THEN 1 ELSE 0)
<1> DEFINE r == Append(s, x)
           n == Len(s)
           P == {i \in DOMAIN s : s[i] \in S}
           Q == {i \in DOMAIN r : r[i] \in S}
<1>1. /\ n \in Nat
      /\ DOMAIN s = 1..n
      /\ DOMAIN r = 1..(n + 1)
      /\ \A i \in 1..n : r[i] = s[i]
      /\ r[n + 1] = x
  OBVIOUS
<1>2. IsFiniteSet(P) /\ Cardinality(P) \in Nat
  BY PositionsFinite, FS_CardinalityType
<1> HIDE DEF r, n
<1>3. CASE x \in S
  <2>1. Q = P \cup {n + 1} /\ n + 1 \notin P
    BY <1>1, <1>3
  <2> HIDE DEF P, Q
  <2>2. Cardinality(Q) = Cardinality(P) + 1
    BY <1>2, <2>1, FS_AddElement
  <2> QED
    BY <1>3, <2>2 DEF Occurrences, P, Q, r
<1>4. CASE x \notin S
  <2>1. Q = P
    BY <1>1, <1>4
  <2> HIDE DEF P, Q
  <2>2. Cardinality(Q) = Cardinality(P) + 0
    BY <1>2, <2>1
  <2> QED
    BY <1>4, <2>2 DEF Occurrences, P, Q, r
<1> QED
  BY <1>3, <1>4

\* The elements of the tail are those of the sequence without its head.
LEMMA OccurrencesTail ==
  ASSUME NEW A, NEW s \in Seq(A), s # <<>>, NEW S
  PROVE  Occurrences(s, S) = Occurrences(Tail(s), S) + (IF Head(s) \in S THEN 1 ELSE 0)
<1> DEFINE r == Tail(s)
           n == Len(s)
           P == {i \in DOMAIN s : s[i] \in S}
           Q == {i \in DOMAIN r : r[i] \in S}
           T == P \ {1}
<1>1. /\ n \in Nat /\ n # 0
      /\ DOMAIN s = 1..n
      /\ r \in Seq(A)
      /\ DOMAIN r = 1..(n - 1)
      /\ \A i \in 1..(n - 1) : r[i] = s[i + 1]
      /\ Head(s) = s[1]
  OBVIOUS
<1>2. /\ IsFiniteSet(P) /\ Cardinality(P) \in Nat
      /\ IsFiniteSet(Q) /\ Cardinality(Q) \in Nat
  BY <1>1, PositionsFinite, FS_CardinalityType
<1>3. IsFiniteSet(T) /\ Cardinality(T) = Cardinality(Q)
  <2> DEFINE f == [i \in Q |-> i + 1]
  <2> HIDE DEF r, n
  <2>1. \A i \in Q : i \in 1..(n - 1) /\ r[i] \in S /\ i + 1 \in T
    BY <1>1
  <2>2. f \in [Q -> T]
    BY <2>1
  <2>3. \A i, j \in Q : f[i] = f[j] => i = j
    BY <2>1
  <2>4. \A k \in T : \E i \in Q : f[i] = k
    <3> SUFFICES ASSUME NEW k \in T
                 PROVE  \E i \in Q : f[i] = k
      OBVIOUS
    <3>1. k \in 1..n /\ k # 1 /\ s[k] \in S
      BY <1>1
    <3>2. k - 1 \in 1..(n - 1) /\ (k - 1) + 1 = k
      BY <1>1, <3>1
    <3>3. k - 1 \in Q
      BY <1>1, <3>1, <3>2
    <3> QED
      BY <3>2, <3>3
  <2>5. f \in Bijection(Q, T)
    <3> HIDE DEF f
    <3> QED
      BY <2>2, <2>3, <2>4, Fun_IsBij
  <2>6. ExistsBijection(Q, T)
    BY <2>5, Fun_ExistsBij
  <2>7. IsFiniteSet(T)
    BY <1>2, FS_RemoveElement, FS_Subset
  <2> QED
    BY <1>2, <2>6, <2>7, FS_Bijection
<1> HIDE DEF r, n
<1>4. CASE Head(s) \in S
  <2>1. P = T \cup {1} /\ 1 \notin T
    BY <1>1, <1>4
  <2> HIDE DEF P, Q, T
  <2>2. Cardinality(P) = Cardinality(T) + 1
    BY <1>3, <2>1, FS_AddElement
  <2> QED
    BY <1>3, <1>4, <2>2 DEF Occurrences, P, Q, r
<1>5. CASE Head(s) \notin S
  <2>1. P = T
    BY <1>1, <1>5
  <2> HIDE DEF P, Q, T
  <2>2. Cardinality(P) = Cardinality(Q) + 0
    BY <1>2, <1>3, <2>1
  <2> QED
    BY <1>5, <2>2 DEF Occurrences, P, Q, r
<1> QED
  BY <1>4, <1>5

\* One element alone counts once if it is in the set.
LEMMA OccurrencesSingle ==
  ASSUME NEW x, NEW S
  PROVE  Occurrences(<<x>>, S) = IF x \in S THEN 1 ELSE 0
<1>1. <<>> \in Seq({x}) /\ x \in {x} /\ Append(<<>>, x) = <<x>>
  OBVIOUS
<1>2. Occurrences(Append(<<>>, x), S) = Occurrences(<<>>, S) + (IF x \in S THEN 1 ELSE 0)
  BY <1>1, OccurrencesAppend
<1> QED
  BY <1>1, <1>2, OccurrencesEmpty

\* What occurs in two sequences, one after the other, occurs in either.
LEMMA OccurrencesConcat ==
  ASSUME NEW A, NEW s \in Seq(A), NEW t \in Seq(A), NEW S
  PROVE  Occurrences(s \o t, S) = Occurrences(s, S) + Occurrences(t, S)
<1> DEFINE r == s \o t
           n == Len(s)
           m == Len(t)
           P == {i \in DOMAIN s : s[i] \in S}
           Q == {i \in DOMAIN t : t[i] \in S}
           R == {i \in DOMAIN r : r[i] \in S}
           T == R \ P
<1>1. /\ n \in Nat /\ m \in Nat
      /\ DOMAIN s = 1..n
      /\ DOMAIN t = 1..m
      /\ r \in Seq(A)
      /\ DOMAIN r = 1..(n + m)
      /\ \A i \in 1..n : r[i] = s[i]
      /\ \A i \in 1..m : r[n + i] = t[i]
  OBVIOUS
<1>2. /\ IsFiniteSet(P) /\ Cardinality(P) \in Nat
      /\ IsFiniteSet(Q) /\ Cardinality(Q) \in Nat
      /\ IsFiniteSet(R)
  BY <1>1, PositionsFinite, FS_CardinalityType
<1> HIDE DEF r, n, m
<1>3. \A i : i \in T <=> i \in (n + 1)..(n + m) /\ r[i] \in S
  BY <1>1
<1>4. Cardinality(T) = Cardinality(Q)
  <2> DEFINE f == [i \in Q |-> n + i]
  <2>1. \A i \in Q : i \in 1..m /\ n + i \in T
    BY <1>1, <1>3
  <2>2. f \in [Q -> T]
    BY <2>1
  <2>3. \A i, j \in Q : f[i] = f[j] => i = j
    BY <1>1, <2>1
  <2>4. \A k \in T : \E i \in Q : f[i] = k
    <3> SUFFICES ASSUME NEW k \in T
                 PROVE  \E i \in Q : f[i] = k
      OBVIOUS
    <3>1. k \in (n + 1)..(n + m) /\ r[k] \in S
      BY <1>3
    <3>2. k - n \in 1..m /\ n + (k - n) = k
      BY <1>1, <3>1
    <3>3. k - n \in Q
      BY <1>1, <3>1, <3>2
    <3> QED
      BY <3>2, <3>3
  <2>5. f \in Bijection(Q, T)
    <3> HIDE DEF f, Q, T
    <3> QED
      BY <2>2, <2>3, <2>4, Fun_IsBij
  <2>6. ExistsBijection(Q, T)
    BY <2>5, Fun_ExistsBij
  <2> QED
    BY <1>2, <2>6, FS_Bijection
<1>5. R = P \cup T /\ P \cap T = {}
  BY <1>1
<1>6. IsFiniteSet(T)
  BY <1>2, FS_Subset
<1> HIDE DEF P, Q, T, R
<1>7. Cardinality(R) = Cardinality(P) + Cardinality(T)
  <2>1. Cardinality(P \cup T) = Cardinality(P) + Cardinality(T) - Cardinality(P \cap T)
    BY <1>2, <1>6, FS_Union
  <2>2. Cardinality(P \cap T) = 0
    BY <1>5, FS_EmptySet
  <2>3. Cardinality(T) \in Nat
    BY <1>6, FS_CardinalityType
  <2> QED
    BY <1>2, <1>5, <2>1, <2>2, <2>3
<1> QED
  BY <1>4, <1>7 DEF Occurrences, P, Q, R, r

\* Elements that are not in the set do not count.
LEMMA OccurrencesNone ==
  ASSUME NEW A, NEW s \in Seq(A), NEW S
  PROVE  Occurrences(s, S) = 0 <=> \A i \in DOMAIN s : s[i] \notin S
<1> DEFINE P == {i \in DOMAIN s : s[i] \in S}
<1>1. IsFiniteSet(P)
  BY PositionsFinite
<1>2. Cardinality(P) = 0 <=> P = {}
  BY <1>1, FS_EmptySet
<1>3. P = {} <=> \A i \in DOMAIN s : s[i] \notin S
  OBVIOUS
<1> QED
  BY <1>2, <1>3 DEF Occurrences

----------------------------------------------------------------------------
(* Kept, of two sequences. *)

\* Two sequences, one after the other.
Joined(s, t) == s \o t

\* The second of two sequences grows.
LEMMA JoinedAppend ==
  ASSUME NEW A, NEW s \in Seq(A), NEW t \in Seq(A), NEW x \in A
  PROVE  Joined(s, t) \in Seq(A) /\ Joined(s, Append(t, x)) = Append(Joined(s, t), x)
BY DEF Joined

\* What is kept of two sequences, when it is kept of each and the second grows.
LEMMA KeptJoinedAppend ==
  ASSUME NEW A, NEW s \in Seq(A), NEW t \in Seq(A), NEW x \in A, NEW S,
         Kept(Joined(s, t), S) = Joined(Kept(s, S), Kept(t, S))
  PROVE  Kept(Joined(s, Append(t, x)), S) = Joined(Kept(s, S), Kept(Append(t, x), S))
<1> DEFINE r == Joined(s, t)
           a == Kept(s, S)
           b == Kept(t, S)
<1>1. r \in Seq(A) /\ Joined(s, Append(t, x)) = Append(r, x)
  BY JoinedAppend
<1>2. a \in Seq(A) /\ b \in Seq(A)
  BY KeptElements
<1>3. Kept(Append(r, x), S) = IF x \in S THEN Append(Kept(r, S), x) ELSE Kept(r, S)
  BY <1>1, KeptAppend
<1>4. Joined(a, Append(b, x)) = Append(Joined(a, b), x)
  BY <1>2, JoinedAppend
<1>5. Kept(Append(t, x), S) = IF x \in S THEN Append(b, x) ELSE b
  BY KeptAppend
<1> QED
  BY <1>1, <1>3, <1>4, <1>5

\* What is kept of two sequences, one after the other, is kept of each.
LEMMA KeptConcat ==
  ASSUME NEW A, NEW s \in Seq(A), NEW t \in Seq(A), NEW S
  PROVE  Kept(s \o t, S) = Kept(s, S) \o Kept(t, S)
<1> DEFINE m       == Len(t)
           u(k)    == SubSeq(t, 1, k)
           Good(k) == Kept(Joined(s, u(k)), S) = Joined(Kept(s, S), Kept(u(k), S))
           Bad     == {k \in 0..m : ~Good(k)}
<1>1. /\ m \in Nat
      /\ u(m) = t
      /\ u(0) = <<>>
      /\ \A k \in 1..m : u(k - 1) \in Seq(A) /\ t[k] \in A /\ u(k) = Append(u(k - 1), t[k])
  OBVIOUS
<1> HIDE DEF m, u
<1>2. ASSUME Bad # {}
      PROVE  FALSE
  <2>1. Bad \in SUBSET Nat
    BY <1>1
  <2>2. PICK k \in Bad : \A l \in Bad : k <= l
    BY <1>2, <2>1, LeastNat
  <2>3. k \in 0..m /\ ~Good(k)
    OBVIOUS
  <2>4. CASE k = 0
    <3>1. Joined(s, <<>>) = s
      BY DEF Joined
    <3>2. Kept(s, S) \in Seq(A)
      BY KeptElements
    <3>3. Joined(Kept(s, S), <<>>) = Kept(s, S)
      BY <3>2 DEF Joined
    <3> QED
      BY <1>1, <2>3, <2>4, <3>1, <3>3, KeptEmpty
  <2>5. CASE k # 0
    <3>1. k - 1 \in 0..m /\ k \in 1..m /\ k - 1 \notin Bad
      BY <1>1, <2>2, <2>3, <2>5
    <3>2. Good(k - 1)
      BY <3>1
    <3>3. Kept(Joined(s, Append(u(k - 1), t[k])), S)
            = Joined(Kept(s, S), Kept(Append(u(k - 1), t[k]), S))
      BY <1>1, <3>1, <3>2, KeptJoinedAppend
    <3> QED
      BY <1>1, <2>3, <3>1, <3>3
  <2> QED
    BY <2>4, <2>5
<1>3. Good(m)
  BY <1>1, <1>2
<1> QED
  BY <1>1, <1>3 DEF Joined

----------------------------------------------------------------------------
(* KeptImages. *)

\* The images under f of all elements of q.
Image(q, f) == [i \in DOMAIN q |-> f[q[i]]]

\* h is the recursive function of KeptImages for the first n elements of s.
Images(h, s, f, n) ==
  h = [m \in 0..n |->
         IF m = 0 THEN <<>>
         ELSE IF s[m] \in DOMAIN f THEN Append(h[m - 1], f[s[m]]) ELSE h[m - 1]]

\* The image of an element appended is appended to the images.
LEMMA ImageAppend ==
  ASSUME NEW A, NEW q \in Seq(A), NEW x \in A, NEW f
  PROVE  Image(Append(q, x), f) = Append(Image(q, f), f[x])
<1> DEFINE n == Len(q)
           r == Append(q, x)
           a == Image(q, f)
           b == Append(a, f[x])
           c == Image(r, f)
<1>1. n \in Nat /\ DOMAIN q = 1..n
  OBVIOUS
<1>2. DOMAIN r = 1..(n + 1) /\ \A i \in 1..(n + 1) : r[i] = IF i = n + 1 THEN x ELSE q[i]
  OBVIOUS
<1> HIDE DEF n, r
<1>3. a = [i \in 1..n |-> f[q[i]]]
  BY <1>1 DEF Image
<1>4. c = [i \in 1..(n + 1) |-> f[r[i]]]
  BY <1>2 DEF Image
<1> DEFINE V == {f[q[i]] : i \in 1..n} \cup {f[x]}
<1>5. a \in Seq(V) /\ f[x] \in V
  <2>1. \A i \in 1..n : f[q[i]] \in V
    OBVIOUS
  <2> QED
    BY <1>1, <1>3, <2>1
<1>6. Len(a) = n
  BY <1>1, <1>3
<1> HIDE DEF a, c, V
<1>7. b = [i \in 1..(n + 1) |-> IF i = n + 1 THEN f[x] ELSE a[i]]
  BY <1>1, <1>5, <1>6
<1>8. \A i \in 1..(n + 1) : f[r[i]] = IF i = n + 1 THEN f[x] ELSE a[i]
  BY <1>1, <1>2, <1>3
<1>9. c = b
  BY <1>4, <1>7, <1>8
<1> QED
  BY <1>9 DEF c, r, a

\* KeptImages has the images of what is kept.
LEMMA KeptImagesAre ==
  ASSUME NEW A, NEW s \in Seq(A), NEW f
  PROVE  KeptImages(s, f) = Image(Kept(s, DOMAIN f), f)
<1> DEFINE n == Len(s)
           S == DOMAIN f
<1>1. n \in Nat /\ \A m \in 1..n : s[m] \in A
  OBVIOUS
<1> HIDE DEF n, S
<1>2. PICK k : Keeps(k, s, S, n) /\ Kept(s, S) = k[n]
  BY <1>1, KeptIsLast DEF n
<1>3. \A m \in 0..n : k[m] = IF m = 0 THEN <<>> ELSE With(k[m - 1], s[m], S)
  BY <1>2 DEF Keeps
<1>4. \A m \in 0..n : k[m] \in Seq(A)
  <2> DEFINE Bad == {m \in 0..n : k[m] \notin Seq(A)}
  <2>1. ASSUME Bad # {}
        PROVE  FALSE
    <3>1. Bad \in SUBSET Nat
      BY <1>1
    <3>2. PICK m \in Bad : \A l \in Bad : m <= l
      BY <2>1, <3>1, LeastNat
    <3>3. m # 0
      <4>1. k[0] = <<>>
        BY <1>1, <1>3
      <4>2. <<>> \in Seq(A)
        OBVIOUS
      <4> QED
        BY <3>2, <4>1, <4>2
    <3>4. m - 1 \in 0..n /\ m \in 1..n /\ m - 1 \notin Bad
      BY <1>1, <3>2, <3>3
    <3>5. k[m - 1] \in Seq(A) /\ s[m] \in A
      BY <1>1, <3>4
    <3>6. k[m] = With(k[m - 1], s[m], S)
      BY <1>3, <3>3, <3>4
    <3>7. k[m] \in Seq(A)
      BY <3>5, <3>6 DEF With
    <3> QED
      BY <3>2, <3>7
  <2> QED
    BY <2>1
<1> DEFINE g == [m \in 0..n |-> Image(k[m], f)]
<1>5. \A m \in 0..n :
        g[m] = IF m = 0 THEN <<>>
               ELSE IF s[m] \in DOMAIN f THEN Append(g[m - 1], f[s[m]]) ELSE g[m - 1]
  <2> SUFFICES ASSUME NEW m \in 0..n
               PROVE  g[m] = IF m = 0 THEN <<>>
                             ELSE IF s[m] \in DOMAIN f THEN Append(g[m - 1], f[s[m]])
                             ELSE g[m - 1]
    OBVIOUS
  <2>1. CASE m = 0
    <3>1. k[0] = <<>>
      BY <1>3, <2>1
    <3>2. Image(<<>>, f) = <<>>
      BY DEF Image
    <3> QED
      BY <2>1, <3>1, <3>2
  <2>2. CASE m # 0
    <3>1. m \in 1..n /\ m - 1 \in 0..n
      BY <1>1, <2>2
    <3>2. k[m - 1] \in Seq(A) /\ s[m] \in A
      BY <1>1, <1>4, <3>1
    <3>3. k[m] = With(k[m - 1], s[m], S)
      BY <1>3, <2>2
    <3>4. Image(Append(k[m - 1], s[m]), f) = Append(Image(k[m - 1], f), f[s[m]])
      BY <3>2, ImageAppend
    <3>5. g[m] = Image(k[m], f) /\ g[m - 1] = Image(k[m - 1], f)
      BY <3>1
    <3> HIDE DEF g
    <3> QED
      BY <2>2, <3>3, <3>4, <3>5 DEF With, S
  <2> QED
    BY <2>1, <2>2
<1>6. Images(g, s, f, n)
  <2>1. g = [m \in 0..n |-> g[m]]
    OBVIOUS
  <2> HIDE DEF g
  <2> QED
    BY <1>5, <2>1 DEF Images
<1> DEFINE h == CHOOSE h : Images(h, s, f, n)
<1>7. Images(h, s, f, n)
  BY <1>6
<1>8. KeptImages(s, f) = h[n]
  BY DEF KeptImages, Images, n
<1> HIDE DEF g, h
<1>9. h[n] = g[n]
  <2> DEFINE Bad == {m \in 0..n : h[m] # g[m]}
  <2>1. \A m \in 0..n :
          h[m] = IF m = 0 THEN <<>>
                 ELSE IF s[m] \in DOMAIN f THEN Append(h[m - 1], f[s[m]]) ELSE h[m - 1]
    BY <1>7 DEF Images
  <2>2. ASSUME Bad # {}
        PROVE  FALSE
    <3>1. Bad \in SUBSET Nat
      BY <1>1
    <3>2. PICK m \in Bad : \A l \in Bad : m <= l
      BY <2>2, <3>1, LeastNat
    <3>3. m # 0
      BY <1>5, <2>1, <3>2
    <3>4. m - 1 \in 0..n /\ m - 1 \notin Bad
      BY <1>1, <3>2, <3>3
    <3>5. h[m - 1] = g[m - 1]
      BY <3>4
    <3> QED
      BY <1>5, <2>1, <3>2, <3>3, <3>5
  <2> QED
    BY <1>1, <2>2
<1>10. g[n] = Image(k[n], f)
  BY <1>1 DEF g
<1> QED
  BY <1>2, <1>8, <1>9, <1>10 DEF S

\* Nothing has no images.
LEMMA KeptImagesEmpty ==
  ASSUME NEW f
  PROVE  KeptImages(<<>>, f) = <<>>
<1>1. KeptImages(<<>>, f) = Image(Kept(<<>>, DOMAIN f), f)
  <2>1. <<>> \in Seq({})
    OBVIOUS
  <2> QED
    BY <2>1, KeptImagesAre
<1>2. Image(<<>>, f) = <<>>
  BY DEF Image
<1> QED
  BY <1>1, <1>2, KeptEmpty

\* The image of an element appended is appended, if f is defined for it.
LEMMA KeptImagesAppend ==
  ASSUME NEW A, NEW s \in Seq(A), NEW x \in A, NEW f
  PROVE  KeptImages(Append(s, x), f) =
           IF x \in DOMAIN f THEN Append(KeptImages(s, f), f[x]) ELSE KeptImages(s, f)
<1> DEFINE S == DOMAIN f
           r == Append(s, x)
           k == Kept(s, S)
<1>1. r \in Seq(A)
  OBVIOUS
<1>2. k \in Seq(A)
  BY KeptElements
<1>3. Kept(r, S) = IF x \in S THEN Append(k, x) ELSE k
  BY KeptAppend
<1> HIDE DEF r, k, S
<1>4. KeptImages(s, f) = Image(k, f)
  BY KeptImagesAre DEF k, S
<1>5. KeptImages(r, f) = Image(Kept(r, S), f)
  BY <1>1, KeptImagesAre DEF S
<1>6. Image(Append(k, x), f) = Append(Image(k, f), f[x])
  BY <1>2, ImageAppend
<1> QED
  BY <1>3, <1>4, <1>5, <1>6 DEF r, S

\* The images are those of the elements of s that f is defined for.
LEMMA KeptImagesElements ==
  ASSUME NEW A, NEW s \in Seq(A), NEW f, NEW y
  PROVE  (\E i \in DOMAIN KeptImages(s, f) : KeptImages(s, f)[i] = y)
           <=> \E x \in DOMAIN f : f[x] = y /\ \E i \in DOMAIN s : s[i] = x
<1> DEFINE k == Kept(s, DOMAIN f)
<1>1. \A x : (\E i \in DOMAIN k : k[i] = x) <=> x \in DOMAIN f /\ \E i \in DOMAIN s : s[i] = x
  BY KeptElements
<1>2. KeptImages(s, f) = [i \in DOMAIN k |-> f[k[i]]]
  BY KeptImagesAre DEF Image
<1> HIDE DEF k
<1>3. (\E i \in DOMAIN KeptImages(s, f) : KeptImages(s, f)[i] = y)
        <=> \E i \in DOMAIN k : f[k[i]] = y
  BY <1>2
<1>4. (\E i \in DOMAIN k : f[k[i]] = y) <=> \E x : f[x] = y /\ \E i \in DOMAIN k : k[i] = x
  OBVIOUS
<1> QED
  BY <1>1, <1>3, <1>4
=============================================================================
