------------------------------ MODULE ListFacts ------------------------------
(***************************************************************************)
(* Lemmas about lists that the proofs of the other modules rest on: which  *)
(* elements a list has after an entry is added, taken or removed, and      *)
(* where they are.  Also induction over the natural numbers, in a form     *)
(* that has sets where the library's theorems have operators, and sums.    *)
(***************************************************************************)
EXTENDS Integers, Sequences, SequencesExt, FiniteSetsExt, SequenceTheorems,
        FiniteSetTheorems, WellFoundedInduction, TLAPS

-----------------------------------------------------------------------------
(* Induction *)

\* A set of natural numbers that is not empty has a least one.
LEMMA LeastNumber ==
    ASSUME NEW N \in SUBSET Nat, N # {}
    PROVE  \E x \in N : \A y \in N : x <= y
  <1> DEFINE R == OpToRel(<, Nat)
  <1>1. IsWellFoundedOn(R, Nat)
    BY NatLessThanWellFounded
  <1>2. \A x, y \in Nat : <<y, x>> \in R <=> y < x
    BY DEF OpToRel
  <1> HIDE DEF R
  <1>3. PICK x \in N : \A y \in N : ~ (<<y, x>> \in R)
    BY <1>1, WFMin
  <1>4. \A y \in N : ~ y < x
    BY <1>2, <1>3
  <1>5. QED
    BY <1>4

\* A set with 0 that has the successor of each of its numbers below m has all
\* numbers up to m.
LEMMA Induction ==
    ASSUME NEW N, NEW m \in Nat, 0 \in N,
           \A n \in 0 .. m - 1 : n \in N => n + 1 \in N
    PROVE  0 .. m \subseteq N
  <1> SUFFICES ASSUME NEW n \in 0 .. m, n \notin N
               PROVE  FALSE
    OBVIOUS
  <1> DEFINE M == {k \in 0 .. m : k \notin N}
  <1>1. M \in SUBSET Nat /\ M # {}
    OBVIOUS
  <1> HIDE DEF M
  <1>2. PICK k \in M : \A j \in M : k <= j
    BY <1>1, LeastNumber
  <1>3. k \in 0 .. m /\ k # 0 /\ k \notin N
    BY <1>2 DEF M
  <1>4. k - 1 \in 0 .. m - 1 /\ ~ k <= k - 1 /\ k = (k - 1) + 1
    BY <1>3
  <1>5. k - 1 \in N
    BY <1>2, <1>4 DEF M
  <1>6. QED
    BY <1>3, <1>4, <1>5

-----------------------------------------------------------------------------
(* Lists *)

\* Where the elements of a concatenation come from.
LEMMA ConcatAt ==
    ASSUME NEW S, NEW l \in Seq(S), NEW m \in Seq(S)
    PROVE  /\ l \o m \in Seq(S)
           /\ Len(l \o m) = Len(l) + Len(m)
           /\ \A i \in 1 .. Len(l) : (l \o m)[i] = l[i]
           /\ \A i \in 1 .. Len(m) : (l \o m)[Len(l) + i] = m[i]
  <1>1. Len(l) \in Nat /\ Len(m) \in Nat
    OBVIOUS
  <1>2. ASSUME NEW i \in 1 .. Len(l)
        PROVE  (l \o m)[i] = l[i]
    BY <1>1, ConcatProperties
  <1>3. ASSUME NEW i \in 1 .. Len(m)
        PROVE  (l \o m)[Len(l) + i] = m[i]
    <2>1. Len(l) + i \in 1 .. Len(l) + Len(m) /\ ~ (Len(l) + i <= Len(l))
      BY <1>1
    <2>2. (l \o m)[Len(l) + i] = m[(Len(l) + i) - Len(l)]
      BY <2>1, ConcatProperties
    <2>3. QED
      BY <1>1, <2>2
  <1>4. QED
    BY <1>2, <1>3, ConcatProperties

\* The elements of a list are what its positions hold.
LEMMA InList ==
    ASSUME NEW S, NEW l \in Seq(S), NEW x
    PROVE  x \in ToSet(l) <=> \E i \in 1 .. Len(l) : l[i] = x
  BY DEF ToSet

\* A list without repetition holds each of its elements at one position.
LEMMA InjectiveAt ==
    ASSUME NEW S, NEW l \in Seq(S)
    PROVE  IsInjective(l) <=> \A i, j \in 1 .. Len(l) : l[i] = l[j] => i = j
  BY DEF IsInjective

\* Append adds its argument to the elements.
LEMMA InAppend ==
    ASSUME NEW S, NEW l \in Seq(S), NEW e \in S, NEW x
    PROVE  x \in ToSet(Append(l, e)) <=> x \in ToSet(l) \/ x = e
  <1> DEFINE m == Append(l, e)
  <1>1. /\ m \in Seq(S) /\ Len(m) = Len(l) + 1
        /\ \A i \in 1 .. Len(l) : m[i] = l[i]
        /\ m[Len(l) + 1] = e
        /\ Len(l) \in Nat
    BY AppendProperties
  <1> HIDE DEF m
  <1>2. x \in ToSet(m) <=> \E i \in 1 .. Len(m) : m[i] = x
    BY <1>1, InList
  <1>3. x \in ToSet(l) <=> \E i \in 1 .. Len(l) : l[i] = x
    BY InList
  <1>4. ASSUME NEW i \in 1 .. Len(m)
        PROVE  i \in 1 .. Len(l) \/ i = Len(l) + 1
    BY <1>1
  <1>5. Len(l) + 1 \in 1 .. Len(m) /\ \A i \in 1 .. Len(l) : i \in 1 .. Len(m)
    BY <1>1
  <1>6. QED
    BY <1>1, <1>2, <1>3, <1>4, <1>5 DEF m

\* A list without repetition can be extended by a new element.
LEMMA InjectiveAppend ==
    ASSUME NEW S, NEW l \in Seq(S), NEW e \in S, IsInjective(l), e \notin ToSet(l)
    PROVE  IsInjective(Append(l, e))
  <1> DEFINE m == Append(l, e)
  <1>1. /\ m \in Seq(S) /\ Len(m) = Len(l) + 1
        /\ \A i \in 1 .. Len(l) : m[i] = l[i]
        /\ m[Len(l) + 1] = e
        /\ Len(l) \in Nat
    BY AppendProperties
  <1>2. \A i, j \in 1 .. Len(l) : l[i] = l[j] => i = j
    BY DEF IsInjective
  <1>3. \A i \in 1 .. Len(l) : l[i] # e
    BY InList
  <1> HIDE DEF m
  <1>4. ASSUME NEW i \in 1 .. Len(m), NEW j \in 1 .. Len(m), m[i] = m[j]
        PROVE  i = j
    <2>1. /\ i \in 1 .. Len(l) \/ i = Len(l) + 1
          /\ j \in 1 .. Len(l) \/ j = Len(l) + 1
      BY <1>1
    <2>2. QED
      BY <1>1, <1>2, <1>3, <1>4, <2>1
  <1>5. QED
    BY <1>1, <1>4 DEF IsInjective, m

\* Tail takes the head away.
LEMMA InTail ==
    ASSUME NEW S, NEW l \in Seq(S), l # <<>>
    PROVE  /\ Head(l) \in S /\ Head(l) = l[1]
           /\ Tail(l) \in Seq(S)
           /\ Len(l) \in Nat \ {0}
           /\ Len(Tail(l)) = Len(l) - 1
           /\ \A i \in 1 .. Len(l) - 1 : Tail(l)[i] = l[i + 1]
           /\ \A x : x \in ToSet(l) <=> x = Head(l) \/ x \in ToSet(Tail(l))
           /\ IsInjective(l) => /\ IsInjective(Tail(l))
                                /\ Head(l) \notin ToSet(Tail(l))
  <1> DEFINE m == Tail(l)
  <1>1. /\ Head(l) \in S /\ Head(l) = l[1]
        /\ m \in Seq(S) /\ Len(m) = Len(l) - 1
        /\ Len(l) \in Nat \ {0}
    BY HeadTailProperties
  <1>2. \A i \in 1 .. Len(l) - 1 : m[i] = l[i + 1]
    BY HeadTailProperties
  <1> HIDE DEF m
  <1>3. ASSUME NEW x
        PROVE  x \in ToSet(l) <=> x = Head(l) \/ x \in ToSet(m)
    <2>1. x \in ToSet(m) <=> \E i \in 1 .. Len(l) - 1 : m[i] = x
      BY <1>1, InList
    <2>2. x \in ToSet(l) <=> \E i \in 1 .. Len(l) : l[i] = x
      BY InList
    <2>3. ASSUME NEW i \in 1 .. Len(l), i # 1
          PROVE  i - 1 \in 1 .. Len(l) - 1 /\ (i - 1) + 1 = i
      BY <1>1, <2>3
    <2>4. ASSUME x \in ToSet(l)
          PROVE  x = Head(l) \/ x \in ToSet(m)
      <3>1. PICK i \in 1 .. Len(l) : l[i] = x
        BY <2>2, <2>4
      <3>2. CASE i = 1
        BY <1>1, <3>1, <3>2
      <3>3. CASE i # 1
        <4>1. m[i - 1] = x
          BY <1>2, <2>3, <3>1, <3>3
        <4>2. QED
          BY <2>1, <2>3, <3>3, <4>1
      <3>4. QED
        BY <3>2, <3>3
    <2>5. ASSUME x \in ToSet(m)
          PROVE  x \in ToSet(l)
      <3>1. PICK i \in 1 .. Len(l) - 1 : m[i] = x
        BY <2>1, <2>5
      <3>2. i + 1 \in 1 .. Len(l) /\ l[i + 1] = x
        BY <1>1, <1>2, <3>1
      <3>3. QED
        BY <2>2, <3>2
    <2>6. 1 \in 1 .. Len(l)
      BY <1>1
    <2>7. QED
      BY <1>1, <2>2, <2>4, <2>5, <2>6
  <1>4. ASSUME IsInjective(l)
        PROVE  IsInjective(m) /\ Head(l) \notin ToSet(m)
    <2>1. \A i, j \in 1 .. Len(l) : l[i] = l[j] => i = j
      BY <1>4 DEF IsInjective
    <2>2. ASSUME NEW i \in DOMAIN m, NEW j \in DOMAIN m, m[i] = m[j]
          PROVE  i = j
      <3>1. i \in 1 .. Len(l) - 1 /\ j \in 1 .. Len(l) - 1
        BY <1>1
      <3>2. i + 1 \in 1 .. Len(l) /\ j + 1 \in 1 .. Len(l) /\ l[i + 1] = l[j + 1]
        BY <1>1, <1>2, <2>2, <3>1
      <3>3. i + 1 = j + 1
        BY <2>1, <3>2
      <3>4. QED
        BY <3>1, <3>3
    <2>3. ASSUME Head(l) \in ToSet(m)
          PROVE  FALSE
      <3>1. PICK i \in 1 .. Len(l) - 1 : m[i] = Head(l)
        BY <1>1, <2>3, InList
      <3>2. i + 1 \in 1 .. Len(l) /\ 1 \in 1 .. Len(l) /\ i + 1 # 1 /\ l[i + 1] = l[1]
        BY <1>1, <1>2, <3>1
      <3>3. QED
        BY <2>1, <3>2
    <2>4. QED
      BY <2>2, <2>3 DEF IsInjective
  <1>5. QED
    BY <1>1, <1>2, <1>3, <1>4 DEF m

\* Where the elements are after the i-th one is removed.
LEMMA RemoveAtFacts ==
    ASSUME NEW S, NEW l \in Seq(S), NEW i \in 1 .. Len(l)
    PROVE  /\ RemoveAt(l, i) \in Seq(S)
           /\ Len(RemoveAt(l, i)) = Len(l) - 1
           /\ \A j \in 1 .. i - 1 : RemoveAt(l, i)[j] = l[j]
           /\ \A j \in i .. Len(l) - 1 : RemoveAt(l, i)[j] = l[j + 1]
  <1> DEFINE a == SubSeq(l, 1, i - 1)
             b == SubSeq(l, i + 1, Len(l))
  <1>0. Len(l) \in Nat /\ i \in Nat /\ i >= 1 /\ i <= Len(l)
    OBVIOUS
  <1>1. /\ a \in Seq(S) /\ Len(a) = i - 1
        /\ \A j \in 1 .. i - 1 : a[j] = l[j]
    <2>1. \A j \in 1 .. i - 1 : l[j] \in S
      OBVIOUS
    <2>2. QED
      BY <1>0, <2>1, SubSeqProperties
  <1>2. /\ b \in Seq(S) /\ Len(b) = Len(l) - i
        /\ \A j \in 1 .. Len(l) - i : b[j] = l[i + j]
    <2>1. \A j \in i + 1 .. Len(l) : l[j] \in S
      OBVIOUS
    <2>2. QED
      BY <1>0, <2>1, SubSeqProperties
  <1>3. RemoveAt(l, i) = a \o b
    BY DEF RemoveAt
  <1> HIDE DEF a, b
  <1>4. /\ a \o b \in Seq(S)
        /\ Len(a \o b) = Len(l) - 1
        /\ \A j \in 1 .. i - 1 : (a \o b)[j] = l[j]
    <2>1. /\ a \o b \in Seq(S)
          /\ Len(a \o b) = Len(a) + Len(b)
          /\ \A j \in 1 .. Len(a) : (a \o b)[j] = a[j]
      <3>1. a \in Seq(S) /\ b \in Seq(S)
        BY <1>1, <1>2
      <3>2. QED
        BY <3>1, ConcatAt
    <2>2. QED
      BY <1>0, <1>1, <1>2, <2>1
  <1>5. ASSUME NEW j \in i .. Len(l) - 1
        PROVE  (a \o b)[j] = l[j + 1]
    <2>1. j - (i - 1) \in 1 .. Len(b) /\ Len(a) + (j - (i - 1)) = j /\ i + (j - (i - 1)) = j + 1
      BY <1>0, <1>1, <1>2
    <2>2. (a \o b)[Len(a) + (j - (i - 1))] = b[j - (i - 1)]
      BY <1>1, <1>2, <2>1, ConcatAt
    <2>3. QED
      BY <1>2, <2>1, <2>2
  <1>6. QED
    BY <1>3, <1>4, <1>5

\* A list without repetition loses one element, and keeps its order.
LEMMA InRemoveAt ==
    ASSUME NEW S, NEW l \in Seq(S), NEW i \in 1 .. Len(l), IsInjective(l)
    PROVE  /\ IsInjective(RemoveAt(l, i))
           /\ \A x : x \in ToSet(RemoveAt(l, i)) <=> x \in ToSet(l) /\ x # l[i]
  <1> DEFINE m == RemoveAt(l, i)
             old(j) == IF j < i THEN j ELSE j + 1
  <1>1. /\ m \in Seq(S) /\ Len(m) = Len(l) - 1 /\ Len(l) \in Nat
        /\ \A j \in 1 .. i - 1 : m[j] = l[j]
        /\ \A j \in i .. Len(l) - 1 : m[j] = l[j + 1]
    BY RemoveAtFacts
  <1>2. \A j, k \in 1 .. Len(l) : l[j] = l[k] => j = k
    BY DEF IsInjective
  <1> HIDE DEF m
  <1>3. ASSUME NEW j \in 1 .. Len(m)
        PROVE  old(j) \in 1 .. Len(l) /\ old(j) # i /\ m[j] = l[old(j)]
    <2>1. CASE j < i
      BY <1>1, <2>1
    <2>2. CASE ~ (j < i)
      <3>1. j \in i .. Len(l) - 1
        BY <1>1, <2>2
      <3>2. QED
        BY <1>1, <2>2, <3>1
    <2>3. QED
      BY <2>1, <2>2
  <1>4. IsInjective(m)
    <2> SUFFICES ASSUME NEW j \in 1 .. Len(m), NEW k \in 1 .. Len(m), m[j] = m[k]
                 PROVE  j = k
      BY <1>1 DEF IsInjective
    <2>1. old(j) = old(k)
      BY <1>2, <1>3
    <2>2. QED
      BY <1>1, <2>1
  <1>5. ASSUME NEW x
        PROVE  x \in ToSet(m) <=> x \in ToSet(l) /\ x # l[i]
    <2>1. /\ x \in ToSet(m) <=> \E j \in 1 .. Len(m) : m[j] = x
          /\ x \in ToSet(l) <=> \E j \in 1 .. Len(l) : l[j] = x
      BY <1>1, InList
    <2>2. x \in ToSet(m) => x \in ToSet(l) /\ x # l[i]
      <3> SUFFICES ASSUME NEW j \in 1 .. Len(m), m[j] = x
                   PROVE  x \in ToSet(l) /\ x # l[i]
        BY <2>1
      <3>1. old(j) \in 1 .. Len(l) /\ old(j) # i /\ x = l[old(j)]
        BY <1>3
      <3> HIDE DEF old
      <3>2. QED
        BY <1>2, <2>1, <3>1
    <2>3. ASSUME NEW j \in 1 .. Len(l), l[j] = x, x # l[i]
          PROVE  x \in ToSet(m)
      <3>1. CASE j < i
        BY <1>1, <2>1, <2>3, <3>1
      <3>2. CASE j > i
        <4>1. j - 1 \in i .. Len(l) - 1 /\ j - 1 \in 1 .. Len(m) /\ (j - 1) + 1 = j
          BY <1>1, <3>2
        <4>2. m[j - 1] = x
          BY <1>1, <2>3, <4>1
        <4>3. QED
          BY <2>1, <4>1, <4>2
      <3>3. QED
        BY <2>3, <3>1, <3>2
    <2>4. QED
      BY <2>1, <2>2, <2>3
  <1>6. QED
    BY <1>4, <1>5 DEF m

\* The elements of a concatenation are those of its parts.
LEMMA InConcat ==
    ASSUME NEW S, NEW l \in Seq(S), NEW m \in Seq(S), NEW x
    PROVE  x \in ToSet(l \o m) <=> x \in ToSet(l) \/ x \in ToSet(m)
  <1> DEFINE c == l \o m
  <1>1. /\ c \in Seq(S) /\ Len(c) = Len(l) + Len(m)
        /\ \A i \in 1 .. Len(l) : c[i] = l[i]
        /\ \A i \in 1 .. Len(m) : c[Len(l) + i] = m[i]
        /\ Len(l) \in Nat /\ Len(m) \in Nat
    BY ConcatAt
  <1> HIDE DEF c
  <1>2. /\ x \in ToSet(c) <=> \E i \in 1 .. Len(c) : c[i] = x
        /\ x \in ToSet(l) <=> \E i \in 1 .. Len(l) : l[i] = x
        /\ x \in ToSet(m) <=> \E i \in 1 .. Len(m) : m[i] = x
    <2>1. x \in ToSet(c) <=> \E i \in 1 .. Len(c) : c[i] = x
      BY <1>1, InList
    <2>2. QED
      BY <2>1, InList
  <1>3. ASSUME NEW i \in 1 .. Len(c), i \notin 1 .. Len(l)
        PROVE  i - Len(l) \in 1 .. Len(m) /\ c[i] = m[i - Len(l)]
    <2>1. i - Len(l) \in 1 .. Len(m) /\ Len(l) + (i - Len(l)) = i
      BY <1>1, <1>3
    <2>2. QED
      BY <1>1, <2>1
  <1>4. \A i \in 1 .. Len(l) : i \in 1 .. Len(c)
    BY <1>1
  <1>5. \A i \in 1 .. Len(m) : Len(l) + i \in 1 .. Len(c)
    BY <1>1
  <1>6. QED
    BY <1>1, <1>2, <1>3, <1>4, <1>5 DEF c

\* A list walked over with a list kept behind it: the entry at hand is dropped.
LEMMA SkipHead ==
    ASSUME NEW S, NEW l \in Seq(S), NEW m \in Seq(S), m # <<>>
    PROVE  /\ Len(l) + 1 \in 1 .. Len(l \o m)
           /\ (l \o m)[Len(l) + 1] = Head(m)
           /\ l \o Tail(m) = RemoveAt(l \o m, Len(l) + 1)
  <1> DEFINE c == l \o m
             k == Len(l) + 1
             d == l \o Tail(m)
             r == RemoveAt(c, k)
  <1>1. /\ Len(l) \in Nat /\ Len(m) \in Nat \ {0}
        /\ Tail(m) \in Seq(S) /\ Len(Tail(m)) = Len(m) - 1
        /\ \A i \in 1 .. Len(m) - 1 : Tail(m)[i] = m[i + 1]
        /\ Head(m) = m[1]
    BY InTail
  <1>2. /\ c \in Seq(S) /\ Len(c) = Len(l) + Len(m)
        /\ \A i \in 1 .. Len(l) : c[i] = l[i]
        /\ \A i \in 1 .. Len(m) : c[Len(l) + i] = m[i]
    BY ConcatAt
  <1>3. /\ d \in Seq(S) /\ Len(d) = Len(l) + (Len(m) - 1)
        /\ \A i \in 1 .. Len(l) : d[i] = l[i]
        /\ \A i \in 1 .. Len(m) - 1 : d[Len(l) + i] = Tail(m)[i]
    BY <1>1, ConcatAt
  <1> HIDE DEF c, d
  <1>4. k \in 1 .. Len(c) /\ c[k] = Head(m)
    BY <1>1, <1>2
  <1>5. /\ r \in Seq(S) /\ Len(r) = Len(c) - 1
        /\ \A j \in 1 .. k - 1 : r[j] = c[j]
        /\ \A j \in k .. Len(c) - 1 : r[j] = c[j + 1]
    BY <1>2, <1>4, RemoveAtFacts
  <1> HIDE DEF r
  <1>6. ASSUME NEW i \in 1 .. Len(d)
        PROVE  d[i] = r[i]
    <2>1. CASE i \in 1 .. Len(l)
      BY <1>1, <1>2, <1>3, <1>5, <2>1
    <2>2. CASE i \notin 1 .. Len(l)
      <3> DEFINE j == i - Len(l)
      <3>1. /\ j \in 1 .. Len(m) - 1 /\ Len(l) + j = i
            /\ j + 1 \in 1 .. Len(m) /\ Len(l) + (j + 1) = i + 1
            /\ i \in k .. Len(c) - 1
        BY <1>1, <1>2, <1>3, <2>2
      <3>2. d[Len(l) + j] = m[j + 1] /\ c[Len(l) + (j + 1)] = m[j + 1]
        BY <1>1, <1>2, <1>3, <3>1
      <3>3. QED
        BY <1>5, <3>1, <3>2
    <2>3. QED
      BY <2>1, <2>2
  <1>7. Len(d) = Len(r)
    BY <1>1, <1>2, <1>3, <1>5
  <1>8. d = r
    BY <1>3, <1>5, <1>6, <1>7, SeqEqual
  <1>9. QED
    BY <1>4, <1>8 DEF c, d, r

\* ... or it is kept, and the whole is the same.
LEMMA ShiftHead ==
    ASSUME NEW S, NEW l \in Seq(S), NEW m \in Seq(S), m # <<>>
    PROVE  Append(l, Head(m)) \o Tail(m) = l \o m
  <1> DEFINE a == Append(l, Head(m))
             c == l \o m
             d == a \o Tail(m)
  <1>1. /\ Len(l) \in Nat /\ Len(m) \in Nat \ {0}
        /\ Tail(m) \in Seq(S) /\ Len(Tail(m)) = Len(m) - 1
        /\ \A i \in 1 .. Len(m) - 1 : Tail(m)[i] = m[i + 1]
        /\ Head(m) = m[1] /\ Head(m) \in S
    BY InTail
  <1>2. /\ a \in Seq(S) /\ Len(a) = Len(l) + 1
        /\ \A i \in 1 .. Len(l) : a[i] = l[i]
        /\ a[Len(l) + 1] = m[1]
    BY <1>1, AppendProperties
  <1>3. /\ c \in Seq(S) /\ Len(c) = Len(l) + Len(m)
        /\ \A i \in 1 .. Len(l) : c[i] = l[i]
        /\ \A i \in 1 .. Len(m) : c[Len(l) + i] = m[i]
    BY ConcatAt
  <1> HIDE DEF a
  <1>4. /\ d \in Seq(S) /\ Len(d) = Len(a) + Len(Tail(m))
        /\ \A i \in 1 .. Len(a) : d[i] = a[i]
        /\ \A i \in 1 .. Len(Tail(m)) : d[Len(a) + i] = Tail(m)[i]
    <2>1. a \in Seq(S) /\ Tail(m) \in Seq(S)
      BY <1>1, <1>2
    <2>2. QED
      BY <2>1, ConcatAt
  <1> HIDE DEF c, d
  <1>5. ASSUME NEW i \in 1 .. Len(c)
        PROVE  d[i] = c[i]
    <2>1. CASE i \in 1 .. Len(l)
      BY <1>1, <1>2, <1>3, <1>4, <2>1
    <2>2. CASE i = Len(l) + 1
      <3>1. i \in 1 .. Len(a) /\ 1 \in 1 .. Len(m)
        BY <1>1, <1>2, <2>2
      <3>2. QED
        BY <1>2, <1>3, <1>4, <2>2, <3>1
    <2>3. CASE i > Len(l) + 1
      <3> DEFINE j == i - Len(a)
      <3>1. /\ j \in 1 .. Len(Tail(m)) /\ Len(a) + j = i
            /\ j + 1 \in 1 .. Len(m) /\ Len(l) + (j + 1) = i
        BY <1>1, <1>2, <1>3, <2>3
      <3>2. d[Len(a) + j] = m[j + 1] /\ c[Len(l) + (j + 1)] = m[j + 1]
        BY <1>1, <1>3, <1>4, <3>1
      <3>3. QED
        BY <3>1, <3>2
    <2>4. QED
      BY <1>1, <1>3, <2>1, <2>2, <2>3
  <1>6. Len(d) = Len(c)
    BY <1>1, <1>2, <1>3, <1>4
  <1>7. d = c
    BY <1>3, <1>4, <1>5, <1>6, SeqEqual
  <1>8. QED
    BY <1>7 DEF a, c, d

\* Front takes the last element away.
LEMMA FrontFacts ==
    ASSUME NEW S, NEW l \in Seq(S), l # <<>>
    PROVE  /\ Front(l) \in Seq(S)
           /\ Len(l) \in Nat \ {0}
           /\ Len(Front(l)) = Len(l) - 1
           /\ \A i \in 1 .. Len(l) - 1 : Front(l)[i] = l[i]
           /\ Last(l) = l[Len(l)] /\ Last(l) \in S
  <1> DEFINE k == Len(l)
             f == Front(l)
  <1>1. k \in Nat \ {0} /\ l[k] \in S
    BY EmptySeq
  <1>2. 1 \in Int /\ k - 1 \in Int /\ \A i \in 1 .. k - 1 : l[i] \in S
    BY <1>1
  <1>3. f = SubSeq(l, 1, k - 1)
    BY DEF Front
  <1>4. /\ f \in Seq(S) /\ Len(f) = k - 1
        /\ \A i \in 1 .. k - 1 : f[i] = l[i]
    <2> HIDE DEF k, f
    <2>1. QED
      BY <1>1, <1>2, <1>3, SubSeqProperties
  <1>5. QED
    BY <1>1, <1>4 DEF Last

\* The last element of a list moves to the end of the list kept behind it: no
\* element comes or goes, and none is there twice if none was.
LEMMA MoveLast ==
    ASSUME NEW S, NEW l \in Seq(S), NEW m \in Seq(S), l # <<>>, IsInjective(l \o m)
    PROVE  /\ IsInjective(Front(l) \o Append(m, Last(l)))
           /\ ToSet(Front(l) \o Append(m, Last(l))) = ToSet(l \o m)
  <1> DEFINE k == Len(l)
             c == l \o m
             r == RemoveAt(c, k)
             f == Front(l)
             a == Append(m, Last(l))
             d == f \o a
             e == Append(r, l[k])
  <1>1. /\ k \in Nat \ {0} /\ Len(m) \in Nat
        /\ Last(l) = l[k] /\ l[k] \in S
    BY EmptySeq DEF Last
  <1>2. /\ c \in Seq(S) /\ Len(c) = k + Len(m)
        /\ \A i \in 1 .. k : c[i] = l[i]
        /\ \A i \in 1 .. Len(m) : c[k + i] = m[i]
    BY ConcatAt
  <1>3. /\ f \in Seq(S) /\ Len(f) = k - 1
        /\ \A i \in 1 .. k - 1 : f[i] = l[i]
    BY FrontFacts
  <1>4. /\ a \in Seq(S) /\ Len(a) = Len(m) + 1
        /\ \A i \in 1 .. Len(m) : a[i] = m[i]
        /\ a[Len(m) + 1] = l[k]
    BY <1>1, AppendProperties
  <1> HIDE DEF k, c, f, a
  <1>5. /\ d \in Seq(S) /\ Len(d) = Len(f) + Len(a)
        /\ \A i \in 1 .. Len(f) : d[i] = f[i]
        /\ \A i \in 1 .. Len(a) : d[Len(f) + i] = a[i]
    <2>1. f \in Seq(S) /\ a \in Seq(S)
      BY <1>3, <1>4
    <2>2. QED
      BY <2>1, ConcatAt
  <1>6. k \in 1 .. Len(c) /\ c[k] = l[k]
    BY <1>1, <1>2
  <1>7. /\ r \in Seq(S) /\ Len(r) = Len(c) - 1
        /\ \A j \in 1 .. k - 1 : r[j] = c[j]
        /\ \A j \in k .. Len(c) - 1 : r[j] = c[j + 1]
    BY <1>2, <1>6, RemoveAtFacts
  <1>8. /\ IsInjective(r)
        /\ \A x : x \in ToSet(r) <=> x \in ToSet(c) /\ x # l[k]
    <2>1. IsInjective(c)
      BY DEF c
    <2>2. QED
      BY <1>2, <1>6, <2>1, InRemoveAt
  <1> HIDE DEF d, r
  <1>9. /\ e \in Seq(S) /\ Len(e) = Len(r) + 1
        /\ \A i \in 1 .. Len(r) : e[i] = r[i]
        /\ e[Len(r) + 1] = l[k]
    BY <1>1, <1>7, AppendProperties
  <1>10. IsInjective(e) /\ \A x : x \in ToSet(e) <=> x \in ToSet(r) \/ x = l[k]
    BY <1>1, <1>7, <1>8, InjectiveAppend, InAppend
  <1> HIDE DEF e
  <1>11. ASSUME NEW i \in 1 .. Len(d)
         PROVE  d[i] = e[i]
    <2>1. CASE i <= k - 1
      BY <1>1, <1>2, <1>3, <1>5, <1>7, <1>9, <2>1
    <2>2. CASE i > k - 1 /\ i < Len(d)
      <3> DEFINE j == i - Len(f)
      <3>1. /\ j \in 1 .. Len(a) /\ Len(f) + j = i
            /\ j \in 1 .. Len(m) /\ k + j = i + 1
            /\ i \in k .. Len(c) - 1 /\ i \in 1 .. Len(r)
        BY <1>1, <1>2, <1>3, <1>4, <1>5, <1>7, <2>2
      <3>2. d[Len(f) + j] = m[j] /\ c[k + j] = m[j]
        BY <1>2, <1>4, <1>5, <3>1
      <3>3. QED
        BY <1>7, <1>9, <3>1, <3>2
    <2>3. CASE i = Len(d)
      <3>1. /\ Len(a) \in 1 .. Len(a) /\ Len(f) + Len(a) = i
            /\ Len(a) = Len(m) + 1 /\ i = Len(r) + 1
        BY <1>1, <1>2, <1>3, <1>4, <1>5, <1>7, <2>3
      <3>2. QED
        BY <1>4, <1>5, <1>9, <3>1
    <2>4. QED
      BY <1>1, <1>3, <1>4, <1>5, <2>1, <2>2, <2>3
  <1>12. Len(d) = Len(e)
    BY <1>1, <1>2, <1>3, <1>4, <1>5, <1>7, <1>9
  <1>13. d = e
    BY <1>5, <1>9, <1>11, <1>12, SeqEqual
  <1>14. l[k] \in ToSet(c)
    BY <1>2, <1>6, InList
  <1>15. IsInjective(d) /\ ToSet(d) = ToSet(c)
    BY <1>8, <1>10, <1>13, <1>14
  <1>16. QED
    BY <1>15 DEF c, d, f, a

\* The first p entries of a list do not change when one is added at its end.
LEMMA PrefixOfAppend ==
    ASSUME NEW S, NEW l \in Seq(S), NEW e \in S, NEW p \in 0 .. Len(l)
    PROVE  SubSeq(Append(l, e), 1, p) = SubSeq(l, 1, p)
  <1> DEFINE m == Append(l, e)
             a == SubSeq(m, 1, p)
             b == SubSeq(l, 1, p)
  <1>1. /\ m \in Seq(S) /\ Len(m) = Len(l) + 1 /\ Len(l) \in Nat
        /\ \A i \in 1 .. Len(l) : m[i] = l[i]
    BY AppendProperties
  <1> HIDE DEF m
  <1>2. /\ p \in Nat /\ 1 \in Int /\ p \in Int
        /\ \A i \in 1 .. p : i \in 1 .. Len(l) /\ l[i] \in S /\ m[i] = l[i]
    BY <1>1
  <1>3. /\ b \in Seq(S) /\ Len(b) = p
        /\ \A i \in 1 .. p : b[i] = l[i]
    BY <1>2, SubSeqProperties
  <1>4. /\ a \in Seq(S) /\ Len(a) = p
        /\ \A i \in 1 .. p : a[i] = m[i]
    BY <1>2, SubSeqProperties
  <1> HIDE DEF a, b
  <1>5. a = b
    BY <1>2, <1>3, <1>4, SeqEqual
  <1>6. QED
    BY <1>5 DEF a, b, m

\* A list is its first entries and the ones after them.
LEMMA PrefixAndRest ==
    ASSUME NEW S, NEW l \in Seq(S), NEW m \in Seq(S), NEW p \in Nat,
           Len(l) = p + Len(m), \A i \in 1 .. Len(m) : l[p + i] = m[i]
    PROVE  SubSeq(l, 1, Len(l)) = SubSeq(l, 1, p) \o m
  <1> DEFINE n == Len(l)
             a == SubSeq(l, 1, n)
             b == SubSeq(l, 1, p)
             c == b \o m
  <1>1. /\ n \in Nat /\ Len(m) \in Nat /\ 1 \in Int /\ n \in Int /\ p \in Int
        /\ n = p + Len(m)
        /\ \A i \in 1 .. n : l[i] \in S
        /\ \A i \in 1 .. p : l[i] \in S
    <2>1. \A i \in 1 .. p : i \in 1 .. Len(l)
      OBVIOUS
    <2>2. QED
      BY <2>1
  <1> HIDE DEF n
  <1>2. /\ a \in Seq(S) /\ Len(a) = n
        /\ \A i \in 1 .. n : a[i] = l[i]
    BY <1>1, SubSeqProperties
  <1>3. /\ b \in Seq(S) /\ Len(b) = p
        /\ \A i \in 1 .. p : b[i] = l[i]
    BY <1>1, SubSeqProperties
  <1> HIDE DEF a, b
  <1>4. /\ c \in Seq(S) /\ Len(c) = p + Len(m)
        /\ \A i \in 1 .. p : c[i] = b[i]
        /\ \A i \in 1 .. Len(m) : c[p + i] = m[i]
    <2>1. b \in Seq(S) /\ m \in Seq(S)
      BY <1>3
    <2>2. /\ c \in Seq(S) /\ Len(c) = Len(b) + Len(m)
          /\ \A i \in 1 .. Len(b) : c[i] = b[i]
          /\ \A i \in 1 .. Len(m) : c[Len(b) + i] = m[i]
      BY <2>1, ConcatAt
    <2>3. QED
      BY <1>3, <2>2
  <1> HIDE DEF c
  <1>5. ASSUME NEW i \in 1 .. n
        PROVE  a[i] = c[i]
    <2>1. CASE i \in 1 .. p
      BY <1>1, <1>2, <1>3, <1>4, <2>1
    <2>2. CASE i \notin 1 .. p
      <3>1. i - p \in 1 .. Len(m) /\ p + (i - p) = i
        BY <1>1, <2>2
      <3>2. c[p + (i - p)] = m[i - p] /\ l[p + (i - p)] = m[i - p]
        BY <1>4, <3>1
      <3>3. QED
        BY <1>2, <3>1, <3>2
    <2>3. QED
      BY <2>1, <2>2
  <1>6. a = c
    BY <1>1, <1>2, <1>4, <1>5, SeqEqual
  <1>7. QED
    BY <1>6 DEF n, a, b, c

-----------------------------------------------------------------------------
(* Sums *)

\* Sums(f, T, n)[k] is the sum of the first k of n terms, those of indices in T.
Sums(f, T, n) ==
    LET P[k \in 0 .. n] ==
            IF k = 0 THEN 0 ELSE P[k - 1] + (IF k - 1 \in T THEN f[k - 1] ELSE 0)
    IN  P

\* The definition by recursion is sound.
LEMMA SumsExist ==
    ASSUME NEW n \in Nat, NEW f, \A i \in 0 .. n - 1 : f[i] \in Int, NEW T
    PROVE  /\ Sums(f, T, n)[0] = 0
           /\ \A k \in 0 .. n : Sums(f, T, n)[k] \in Int
           /\ \A k \in 0 .. n - 1 : Sums(f, T, n)[k + 1]
                = Sums(f, T, n)[k] + (IF k \in T THEN f[k] ELSE 0)
  <1> DEFINE term(i) == IF i \in T THEN f[i] ELSE 0
             Solves(G, k) == /\ G[0] = 0
                             /\ \A l \in 1 .. k : G[l] = G[l - 1] + term(l - 1)
             K == {k \in 0 .. n : \E G : Solves(G, k)}
             P == Sums(f, T, n)
  <1>2. 0 \in K
    <2> DEFINE G == [l \in {0} |-> 0]
    <2>1. Solves(G, 0)
      OBVIOUS
    <2> HIDE DEF G, Solves
    <2>2. QED
      BY <2>1
  <1>3. ASSUME NEW k \in 0 .. n - 1, k \in K
        PROVE  k + 1 \in K
    <2>1. PICK G : Solves(G, k)
      BY <1>3
    <2> HIDE DEF term
    <2> DEFINE F == [l \in 0 .. k + 1 |-> IF l = k + 1 THEN G[k] + term(k) ELSE G[l]]
    <2>2. Solves(F, k + 1)
      <3>1. F[0] = 0
        BY <2>1
      <3>2. ASSUME NEW l \in 1 .. k + 1
            PROVE  F[l] = F[l - 1] + term(l - 1)
        <4>1. CASE l = k + 1
          <5>1. F[l] = G[k] + term(k) /\ F[l - 1] = G[k] /\ l - 1 = k
            BY <4>1
          <5>2. QED
            BY <5>1
        <4>2. CASE l # k + 1
          <5>1. l \in 1 .. k /\ F[l] = G[l] /\ F[l - 1] = G[l - 1]
            BY <4>2
          <5>2. QED
            BY <2>1, <5>1
        <4>3. QED
          BY <4>1, <4>2
      <3>3. QED
        BY <3>1, <3>2
    <2> HIDE DEF F, Solves
    <2>3. k + 1 \in 0 .. n
      BY <1>3
    <2>4. QED
      BY <2>2, <2>3
  <1>4. n \in K
    <2> HIDE DEF K
    <2>1. 0 .. n \subseteq K
      BY <1>2, <1>3, Induction
    <2>2. QED
      BY <2>1
  <1>5. PICK G : Solves(G, n)
    BY <1>4
  <1> HIDE DEF term
  <1> DEFINE F == [k \in 0 .. n |-> G[k]]
  <1>6. F = [k \in 0 .. n |-> IF k = 0 THEN 0 ELSE F[k - 1] + term(k - 1)]
    <2>1. ASSUME NEW k \in 0 .. n
          PROVE  F[k] = IF k = 0 THEN 0 ELSE F[k - 1] + term(k - 1)
      <3>1. CASE k = 0
        BY <1>5, <3>1
      <3>2. CASE k # 0
        <4>1. k \in 1 .. n /\ F[k - 1] = G[k - 1] /\ F[k] = G[k]
          BY <3>2
        <4>2. QED
          BY <1>5, <3>2, <4>1
      <3>3. QED
        BY <3>1, <3>2
    <2>2. QED
      BY <2>1
  <1> HIDE DEF F
  <1>7. P = [k \in 0 .. n |-> IF k = 0 THEN 0 ELSE P[k - 1] + term(k - 1)]
    BY <1>6 DEF Sums, term
  <1> HIDE DEF P
  <1>8. P[0] = 0
    BY <1>7
  <1>9. ASSUME NEW k \in 0 .. n - 1
        PROVE  P[k + 1] = P[k] + term(k)
    <2>1. k + 1 \in 0 .. n /\ k + 1 # 0 /\ (k + 1) - 1 = k
      OBVIOUS
    <2>2. QED
      BY <1>7, <2>1
  <1>10. \A k \in 0 .. n : P[k] \in Int
    <2> DEFINE I == {k \in 0 .. n : P[k] \in Int}
    <2>1. 0 \in I
      BY <1>8
    <2>2. ASSUME NEW k \in 0 .. n - 1, k \in I
          PROVE  k + 1 \in I
      <3>1. term(k) \in Int
        BY DEF term
      <3>2. P[k + 1] \in Int /\ k + 1 \in 0 .. n
        BY <1>9, <2>2, <3>1
      <3>3. QED
        BY <3>2
    <2> HIDE DEF I
    <2>3. 0 .. n \subseteq I
      BY <2>1, <2>2, Induction
    <2>4. QED
      BY <2>3 DEF I
  <1>11. QED
    BY <1>8, <1>9, <1>10 DEF P, term

\* One index less, and the sum is less by its term.
LEMMA SumWithout ==
    ASSUME NEW n \in Nat, NEW f, \A i \in 0 .. n - 1 : f[i] \in Int,
           NEW T, T \subseteq 0 .. n - 1, NEW x \in T
    PROVE  Sums(f, T, n)[n] = f[x] + Sums(f, T \ {x}, n)[n]
  <1> DEFINE P == Sums(f, T, n)
             R == Sums(f, T \ {x}, n)
             K == {k \in 0 .. n : P[k] = R[k] + (IF x < k THEN f[x] ELSE 0)}
  <1>1. /\ P[0] = 0 /\ \A k \in 0 .. n : P[k] \in Int
        /\ \A k \in 0 .. n - 1 : P[k + 1] = P[k] + (IF k \in T THEN f[k] ELSE 0)
    BY SumsExist
  <1>2. /\ R[0] = 0 /\ \A k \in 0 .. n : R[k] \in Int
        /\ \A k \in 0 .. n - 1 : R[k + 1] = R[k] + (IF k \in T \ {x} THEN f[k] ELSE 0)
    BY SumsExist
  <1> HIDE DEF P, R
  <1>3. x \in 0 .. n - 1 /\ f[x] \in Int
    OBVIOUS
  <1>4. 0 \in K
    BY <1>1, <1>2, <1>3
  <1>5. ASSUME NEW k \in 0 .. n - 1, k \in K
        PROVE  k + 1 \in K
    <2>1. /\ k \in 0 .. n /\ k + 1 \in 0 .. n /\ P[k] \in Int /\ R[k] \in Int /\ f[k] \in Int
          /\ P[k] = R[k] + (IF x < k THEN f[x] ELSE 0)
      BY <1>1, <1>2, <1>5
    <2>2. CASE x = k
      <3>1. P[k + 1] = P[k] + f[x] /\ R[k + 1] = R[k] + 0
        BY <1>1, <1>2, <2>2
      <3>2. P[k + 1] = R[k + 1] + f[x] /\ x < k + 1
        BY <1>3, <2>1, <2>2, <3>1
      <3>3. QED
        BY <2>1, <3>2
    <2>3. CASE x # k
      <3>1. (x < k + 1) <=> (x < k)
        BY <1>3, <2>3
      <3>2. P[k + 1] = R[k + 1] + (IF x < k THEN f[x] ELSE 0)
        BY <1>1, <1>2, <1>3, <2>1, <2>3
      <3>3. QED
        BY <2>1, <3>1, <3>2
    <2>4. QED
      BY <2>2, <2>3
  <1> HIDE DEF K
  <1>6. 0 .. n \subseteq K
    BY <1>4, <1>5, Induction
  <1>7. n \in K /\ x < n
    BY <1>3, <1>6
  <1>8. P[n] = R[n] + f[x] /\ R[n] \in Int
    BY <1>2, <1>7 DEF K
  <1>9. QED
    BY <1>3, <1>8 DEF P, R

\* The sum of nothing.
LEMMA SumOfNone ==
    ASSUME NEW n \in Nat, NEW f, \A i \in 0 .. n - 1 : f[i] \in Int
    PROVE  Sums(f, {}, n)[n] = 0
  <1> DEFINE P == Sums(f, {}, n)
             K == {k \in 0 .. n : P[k] = 0}
  <1>1. P[0] = 0 /\ \A k \in 0 .. n - 1 : P[k + 1] = P[k] + 0
    <2>1. \A k \in 0 .. n - 1 : P[k + 1] = P[k] + (IF k \in {} THEN f[k] ELSE 0)
      BY SumsExist
    <2>2. P[0] = 0
      BY SumsExist
    <2> HIDE DEF P
    <2>3. QED
      BY <2>1, <2>2
  <1> HIDE DEF P
  <1>2. 0 \in K /\ \A k \in 0 .. n - 1 : k \in K => k + 1 \in K
    BY <1>1
  <1> HIDE DEF K
  <1>3. 0 .. n \subseteq K
    BY <1>2, Induction
  <1>4. QED
    BY <1>3 DEF K, P

\* it adds the terms of f over each set of indices in some order.
Adds(it, f, S) ==
    it = [s \in SUBSET S |-> IF s = {} THEN 0
                             ELSE f[CHOOSE x \in s : TRUE] + it[s \ {CHOOSE x \in s : TRUE}]]

\* There is such a function, and there is but one.
LEMMA AddsExists ==
    ASSUME NEW n \in Nat, NEW f, \A i \in 0 .. n - 1 : f[i] \in Int
    PROVE  \E it : Adds(it, f, 0 .. n - 1)
  <1> DEFINE S == 0 .. n - 1
             C(T) == Sums(f, T, n)[n]
             it == [s \in SUBSET S |-> C(s)]
  <1>1. C({}) = 0
    BY SumOfNone
  <1>2. \A s \in SUBSET S : \A x \in s : C(s) = f[x] + C(s \ {x})
    BY SumWithout
  <1> HIDE DEF C
  <1>3. ASSUME NEW s \in SUBSET S
        PROVE  it[s] = IF s = {} THEN 0
                       ELSE f[CHOOSE x \in s : TRUE] + it[s \ {CHOOSE x \in s : TRUE}]
    <2>1. CASE s = {}
      BY <1>1, <2>1
    <2>2. CASE s # {}
      <3> DEFINE x == CHOOSE x \in s : TRUE
      <3>1. x \in s
        BY <2>2
      <3> HIDE DEF x
      <3>2. it[s] = f[x] + C(s \ {x}) /\ it[s \ {x}] = C(s \ {x})
        BY <1>2, <3>1
      <3>3. QED
        BY <2>2, <3>2 DEF x
    <2>3. QED
      BY <2>1, <2>2
  <1> HIDE DEF S
  <1>4. Adds(it, f, S)
    BY <1>3 DEF Adds
  <1> HIDE DEF it
  <1>5. QED
    BY <1>4 DEF S

LEMMA AddsIsSum ==
    ASSUME NEW n \in Nat, NEW f, \A i \in 0 .. n - 1 : f[i] \in Int,
           NEW it, Adds(it, f, 0 .. n - 1)
    PROVE  it[0 .. n - 1] = Sums(f, 0 .. n - 1, n)[n]
  <1> DEFINE S == 0 .. n - 1
             C(T) == Sums(f, T, n)[n]
             N == {Cardinality(s) : s \in {t \in SUBSET S : it[t] # C(t)}}
  <1>1. C({}) = 0
    BY SumOfNone
  <1>2. \A s \in SUBSET S : \A x \in s : C(s) = f[x] + C(s \ {x})
    BY SumWithout
  <1> HIDE DEF C
  <1>3. \A s \in SUBSET S : IsFiniteSet(s)
    <2>1. 0 \in Int /\ n - 1 \in Int
      OBVIOUS
    <2>2. IsFiniteSet(S)
      BY <2>1, FS_Interval
    <2> HIDE DEF S
    <2>3. QED
      BY <2>2, FS_Subset
  <1> HIDE DEF S
  <1>4. N = {}
    <2> SUFFICES ASSUME N # {}
                 PROVE  FALSE
      OBVIOUS
    <2>1. N \in SUBSET Nat
      BY <1>3, FS_CardinalityType
    <2>2. PICK m \in N : \A k \in N : m <= k
      BY <2>1, LeastNumber
    <2>3. PICK s \in SUBSET S : m = Cardinality(s) /\ it[s] # C(s)
      BY <2>2
    <2>4. it[s] = IF s = {} THEN 0
                  ELSE f[CHOOSE x \in s : TRUE] + it[s \ {CHOOSE x \in s : TRUE}]
      BY <2>3 DEF Adds, S
    <2>5. s # {}
      BY <1>1, <2>3, <2>4
    <2> DEFINE x == CHOOSE x \in s : TRUE
    <2>6. x \in s
      BY <2>5
    <2> DEFINE t == s \ {x}
    <2>7. it[s] = f[x] + it[t]
      BY <2>4, <2>5
    <2> HIDE DEF x
    <2>8. C(s) = f[x] + C(t)
      BY <1>2, <2>6
    <2>9. it[t] # C(t) /\ t \in SUBSET S
      BY <2>3, <2>7, <2>8
    <2>10. Cardinality(t) \in N
      BY <2>9
    <2>11. Cardinality(t) = m - 1
      BY <1>3, <2>3, <2>6, FS_RemoveElement
    <2>12. m \in Nat
      BY <2>1, <2>2
    <2>13. m <= m - 1
      BY <2>2, <2>10, <2>11
    <2>14. QED
      BY <2>12, <2>13
  <1>5. S \in SUBSET S
    OBVIOUS
  <1>6. it[S] = C(S)
    BY <1>4, <1>5
  <1>7. QED
    BY <1>6 DEF S, C

\* The sums over the first of all terms.
LEMMA SumsOfAll ==
    ASSUME NEW n \in Nat, NEW f, \A i \in 0 .. n - 1 : f[i] \in Int,
           NEW P, P = Sums(f, 0 .. n - 1, n)
    PROVE  /\ P[0] = 0 /\ \A i \in 0 .. n : P[i] \in Int
           /\ \A i \in 0 .. n - 1 : P[i + 1] = P[i] + f[i]
  <1> DEFINE T == 0 .. n - 1
  <1>1. /\ P[0] = 0 /\ \A i \in 0 .. n : P[i] \in Int
        /\ \A i \in 0 .. n - 1 : P[i + 1] = P[i] + (IF i \in T THEN f[i] ELSE 0)
    <2>1. P = Sums(f, T, n)
      OBVIOUS
    <2> HIDE DEF T
    <2>2. QED
      BY <2>1, SumsExist
  <1>2. QED
    BY <1>1

\* A sum over twice as many terms is that of their pairs.
LEMMA SumOfPairs ==
    ASSUME NEW n \in Nat, NEW f, \A i \in 0 .. 2 * n - 1 : f[i] \in Int,
           NEW g, \A j \in 0 .. n - 1 : g[j] = f[j] + f[j + n]
    PROVE  Sums(f, 0 .. 2 * n - 1, 2 * n)[2 * n] = Sums(g, 0 .. n - 1, n)[n]
  <1> DEFINE P == Sums(f, 0 .. 2 * n - 1, 2 * n)
             R == Sums(g, 0 .. n - 1, n)
             I == {k \in 0 .. n : R[k] = P[k] + (P[k + n] - P[n])}
  <1>1. /\ 2 * n \in Nat /\ n \in 0 .. 2 * n
        /\ \A j \in 0 .. n - 1 : /\ j \in 0 .. 2 * n - 1 /\ j + n \in 0 .. 2 * n - 1
                                 /\ g[j] \in Int
    <2>1. \A j \in 0 .. n - 1 : j \in 0 .. 2 * n - 1 /\ j + n \in 0 .. 2 * n - 1
      OBVIOUS
    <2>2. QED
      BY <2>1
  <1>2. /\ P[0] = 0 /\ \A i \in 0 .. 2 * n : P[i] \in Int
        /\ \A i \in 0 .. 2 * n - 1 : P[i + 1] = P[i] + f[i]
    <2> DEFINE m == 2 * n
    <2>1. m \in Nat /\ (\A i \in 0 .. m - 1 : f[i] \in Int) /\ P = Sums(f, 0 .. m - 1, m)
      BY <1>1
    <2> HIDE DEF m, P
    <2>2. /\ P[0] = 0 /\ \A i \in 0 .. m : P[i] \in Int
          /\ \A i \in 0 .. m - 1 : P[i + 1] = P[i] + f[i]
      BY <2>1, SumsOfAll
    <2>3. QED
      BY <2>2 DEF m
  <1>3. /\ R[0] = 0 /\ \A i \in 0 .. n : R[i] \in Int
        /\ \A i \in 0 .. n - 1 : R[i + 1] = R[i] + g[i]
    <2>1. R = Sums(g, 0 .. n - 1, n) /\ \A i \in 0 .. n - 1 : g[i] \in Int
      BY <1>1
    <2> HIDE DEF R
    <2>2. QED
      BY <2>1, SumsOfAll
  <1> HIDE DEF P, R
  <1>4. 0 \in I
    BY <1>1, <1>2, <1>3
  <1>5. ASSUME NEW k \in 0 .. n - 1, k \in I
        PROVE  k + 1 \in I
    <2>1. /\ k \in 0 .. 2 * n - 1 /\ k + n \in 0 .. 2 * n - 1
          /\ k \in 0 .. 2 * n /\ k + n \in 0 .. 2 * n /\ k \in 0 .. n /\ k + 1 \in 0 .. n
          /\ (k + 1) + n = (k + n) + 1
      BY <1>1
    <2>2. P[k + 1] = P[k] + f[k] /\ P[(k + 1) + n] = P[k + n] + f[k + n]
      BY <1>2, <2>1
    <2>3. R[k + 1] = R[k] + (f[k] + f[k + n])
      BY <1>3, <1>5
    <2>4. /\ P[k] \in Int /\ P[k + n] \in Int /\ P[n] \in Int /\ f[k] \in Int
          /\ f[k + n] \in Int /\ R[k] = P[k] + (P[k + n] - P[n])
      BY <1>1, <1>2, <1>5, <2>1
    <2>5. R[k + 1] = P[k + 1] + (P[(k + 1) + n] - P[n])
      BY <2>2, <2>3, <2>4
    <2>6. QED
      BY <2>1, <2>5
  <1> HIDE DEF I
  <1>6. 0 .. n \subseteq I
    BY <1>4, <1>5, Induction
  <1>7. R[n] = P[n] + (P[n + n] - P[n])
    BY <1>6 DEF I
  <1>8. n + n = 2 * n /\ P[n] \in Int /\ P[2 * n] \in Int
    BY <1>1, <1>2
  <1>9. R[n] = P[2 * n]
    BY <1>7, <1>8
  <1>10. QED
    BY <1>9 DEF P, R

=============================================================================
