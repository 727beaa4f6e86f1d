--------------------------- MODULE GenerationProofs ---------------------------
(***************************************************************************)
(* Theorems about Generation, for every vocabulary, every number of layers *)
(* and prompts and continuations of every length: what is computed with    *)
(* the cache is what is computed without it.                               *)
(***************************************************************************)
EXTENDS Generation, ListFacts

-----------------------------------------------------------------------------
(* A forward pass over a whole sequence, with a position for each token *)

\* p[i] is the position of token i.
KeysOf(hs, p) == [i \in DOMAIN hs |-> [h |-> hs[i], pos |-> p[i]]]

LayerOver(hs, p) ==
    [i \in DOMAIN hs |-> Attend(hs[i], p[i], SubSeq(KeysOf(hs, p), 1, i))]

StatesAt(ids, p) ==
    LET H[l \in 0 .. NumLayers] == IF l = 0 THEN ids ELSE LayerOver(H[l - 1], p)
    IN  H

\* hs is a list of n entries.
List(hs, n) == n \in Nat /\ DOMAIN hs = 1 .. n /\ hs = [i \in 1 .. n |-> hs[i]]

-----------------------------------------------------------------------------
(* Lists *)

\* A list in this sense is a sequence.
LEMMA ListIsSeq ==
    ASSUME NEW hs, NEW n, List(hs, n)
    PROVE  /\ hs \in Seq({hs[i] : i \in 1 .. n})
           /\ Len(hs) = n
  <1> DEFINE S == {hs[i] : i \in 1 .. n}
  <1>1. hs \in [1 .. n -> S] /\ n \in Nat
    BY DEF List
  <1>2. hs \in Seq(S)
    BY <1>1, SeqDef
  <1>3. Len(hs) = n
    <2>1. Len(hs) \in Nat /\ DOMAIN hs = 1 .. Len(hs)
      BY <1>2, LenProperties
    <2>2. DOMAIN hs = 1 .. n
      BY <1>1
    <2>3. QED
      BY <1>1, <2>1, <2>2
  <1>4. QED
    BY <1>2, <1>3

\* A sequence is a list in this sense.
LEMMA SeqIsList ==
    ASSUME NEW S, NEW hs \in Seq(S)
    PROVE  List(hs, Len(hs))
  BY LenProperties DEF List

\* Lists with the same entries are the same.
LEMMA SameList ==
    ASSUME NEW a, NEW b, NEW n, List(a, n), List(b, n), \A i \in 1 .. n : a[i] = b[i]
    PROVE  a = b
  BY DEF List

\* A part of a list, or of any function.
LEMMA PartOf ==
    ASSUME NEW s, NEW m \in Int, NEW n \in Int, m <= n + 1
    PROVE  /\ List(SubSeq(s, m, n), n - m + 1)
           /\ \A i \in 1 .. n - m + 1 : SubSeq(s, m, n)[i] = s[m + i - 1]
  <1> DEFINE S == {s[i] : i \in m .. n}
             d == SubSeq(s, m, n)
  <1>1. \A i \in m .. n : s[i] \in S
    OBVIOUS
  <1> HIDE DEF S
  <1>2. /\ d \in Seq(S)
        /\ Len(d) = IF m <= n THEN n - m + 1 ELSE 0
        /\ \A i \in 1 .. n - m + 1 : d[i] = s[m + i - 1]
    BY <1>1, SubSeqProperties
  <1> HIDE DEF d
  <1>3. Len(d) = n - m + 1
    BY <1>2
  <1>4. List(d, n - m + 1)
    BY <1>2, <1>3, SeqIsList
  <1>5. QED
    BY <1>2, <1>4 DEF d

\* Two lists one after the other.
Chained(a, b) == a \o b

\* What is where in them.
LEMMA Joined ==
    ASSUME NEW a, NEW b, NEW m \in Nat, NEW n \in Nat, List(a, m), List(b, n),
           NEW c, c = Chained(a, b)
    PROVE  /\ List(c, m + n)
           /\ \A i \in 1 .. m : c[i] = a[i]
           /\ \A i \in 1 .. n : c[m + i] = b[i]
  <1> DEFINE A == {a[i] : i \in 1 .. m}
             B == {b[i] : i \in 1 .. n}
             S == A \cup B
  <1>1. a \in Seq(A) /\ b \in Seq(B) /\ Len(a) = m /\ Len(b) = n
    BY ListIsSeq
  <1>2. a \in Seq(S) /\ b \in Seq(S)
    BY <1>1, SeqMonotonic
  <1> HIDE DEF A, B, S
  <1>3. /\ c \in Seq(S)
        /\ Len(c) = m + n
        /\ \A i \in 1 .. m : c[i] = a[i]
        /\ \A i \in 1 .. n : c[m + i] = b[i]
    <2>1. /\ a \o b \in Seq(S)
          /\ Len(a \o b) = Len(a) + Len(b)
          /\ \A i \in 1 .. Len(a) : (a \o b)[i] = a[i]
          /\ \A i \in 1 .. Len(b) : (a \o b)[Len(a) + i] = b[i]
      BY <1>2, ConcatAt
    <2>2. QED
      BY <1>1, <2>1 DEF Chained
  <1>4. QED
    BY <1>3, SeqIsList

\* The last entry.
LEMMA LastOf ==
    ASSUME NEW hs, NEW n, List(hs, n)
    PROVE  Last(hs) = hs[n]
  BY ListIsSeq DEF Last

-----------------------------------------------------------------------------
(* The definition of the states by recursion is sound *)

LEMMA StatesExist ==
    ASSUME NEW ids, NEW p
    PROVE  StatesAt(ids, p) = [l \in 0 .. NumLayers |->
                IF l = 0 THEN ids ELSE LayerOver(StatesAt(ids, p)[l - 1], p)]
  <1> DEFINE Solves(G, k) == /\ G[0] = ids
                             /\ \A l \in 1 .. k : G[l] = LayerOver(G[l - 1], p)
             K == {k \in 0 .. NumLayers : \E G : Solves(G, k)}
  <1>1. NumLayers \in Nat
    BY GenerationAssumption
  <1>2. 0 \in K
    <2> DEFINE G == [l \in {0} |-> ids]
    <2>1. Solves(G, 0)
      OBVIOUS
    <2> HIDE DEF G, Solves
    <2>2. QED
      BY <1>1, <2>1
  <1>3. ASSUME NEW k \in 0 .. NumLayers - 1, k \in K
        PROVE  k + 1 \in K
    <2>1. PICK G : Solves(G, k)
      BY <1>3
    <2> DEFINE F == [l \in 0 .. k + 1 |-> IF l = k + 1 THEN LayerOver(G[k], p) ELSE G[l]]
    <2>2. Solves(F, k + 1)
      <3>1. F[0] = ids
        BY <2>1
      <3>2. ASSUME NEW l \in 1 .. k + 1
            PROVE  F[l] = LayerOver(F[l - 1], p)
        <4>1. CASE l = k + 1
          <5>1. F[l] = LayerOver(G[k], p) /\ F[l - 1] = G[k]
            BY <4>1
          <5>2. QED
            BY <5>1
        <4>2. CASE l # k + 1
          <5>1. l \in 1 .. k /\ F[l] = G[l] /\ F[l - 1] = G[l - 1]
            BY <4>2
          <5>2. QED
            BY <2>1, <5>1
        <4>3. QED
          BY <4>1, <4>2
      <3>3. QED
        BY <3>1, <3>2
    <2> HIDE DEF F, Solves
    <2>3. k + 1 \in 0 .. NumLayers
      BY <1>1, <1>3
    <2>4. QED
      BY <2>2, <2>3
  <1>4. NumLayers \in K
    <2> HIDE DEF K
    <2>1. 0 .. NumLayers \subseteq K
      BY <1>1, <1>2, <1>3, Induction
    <2>2. QED
      BY <1>1, <2>1
  <1>5. PICK G : Solves(G, NumLayers)
    BY <1>4
  <1> DEFINE F == [l \in 0 .. NumLayers |-> G[l]]
  <1>6. F = [l \in 0 .. NumLayers |-> IF l = 0 THEN ids ELSE LayerOver(F[l - 1], p)]
    <2>1. ASSUME NEW l \in 0 .. NumLayers
          PROVE  F[l] = IF l = 0 THEN ids ELSE LayerOver(F[l - 1], p)
      <3>1. CASE l = 0
        BY <1>5, <3>1
      <3>2. CASE l # 0
        <4>1. l \in 1 .. NumLayers /\ F[l - 1] = G[l - 1] /\ F[l] = G[l]
          BY <1>1, <3>2
        <4>2. QED
          BY <1>5, <3>2, <4>1
      <3>3. QED
        BY <3>1, <3>2
    <2>2. QED
      BY <2>1
  <1> HIDE DEF F
  <1>7. QED
    BY <1>6 DEF StatesAt

-----------------------------------------------------------------------------
(* Facts about a pass *)

LEMMA FirstStates ==
    ASSUME NEW ids, NEW p
    PROVE  /\ StatesAt(ids, p)[0] = ids
           /\ \A l \in 0 .. NumLayers - 1 :
                 StatesAt(ids, p)[l + 1] = LayerOver(StatesAt(ids, p)[l], p)
  <1> DEFINE H == StatesAt(ids, p)
  <1>1. NumLayers \in Nat
    BY GenerationAssumption
  <1>2. H = [l \in 0 .. NumLayers |-> IF l = 0 THEN ids ELSE LayerOver(H[l - 1], p)]
    BY StatesExist
  <1> HIDE DEF H
  <1>3. H[0] = ids
    BY <1>1, <1>2
  <1>4. ASSUME NEW l \in 0 .. NumLayers - 1
        PROVE  H[l + 1] = LayerOver(H[l], p)
    <2>1. l + 1 \in 0 .. NumLayers /\ l + 1 # 0 /\ (l + 1) - 1 = l
      BY <1>1
    <2>2. QED
      BY <1>2, <2>1
  <1>5. QED
    BY <1>3, <1>4 DEF H

\* A layer has an output for each of its inputs, and their keys.
LEMMA LayerIsList ==
    ASSUME NEW hs, NEW n, NEW p, List(hs, n)
    PROVE  /\ List(LayerOver(hs, p), n) /\ List(KeysOf(hs, p), n)
           /\ \A i \in 1 .. n :
                /\ LayerOver(hs, p)[i]
                     = Attend(hs[i], p[i], SubSeq(KeysOf(hs, p), 1, i))
                /\ KeysOf(hs, p)[i] = [h |-> hs[i], pos |-> p[i]]
  BY DEF List, LayerOver, KeysOf

LEMMA StatesAreLists ==
    ASSUME NEW ids, NEW p, NEW n, List(ids, n)
    PROVE  \A l \in 0 .. NumLayers : List(StatesAt(ids, p)[l], n)
  <1> DEFINE K == {l \in 0 .. NumLayers : List(StatesAt(ids, p)[l], n)}
  <1>1. NumLayers \in Nat
    BY GenerationAssumption
  <1>2. 0 \in K
    BY <1>1, FirstStates
  <1>3. \A l \in 0 .. NumLayers - 1 : l \in K => l + 1 \in K
    <2>1. ASSUME NEW l \in 0 .. NumLayers - 1, l \in K
          PROVE  l + 1 \in K
      <3>1. List(LayerOver(StatesAt(ids, p)[l], p), n)
        BY <2>1, LayerIsList
      <3>2. l + 1 \in 0 .. NumLayers
        BY <1>1
      <3>3. QED
        BY <3>1, <3>2, FirstStates
    <2>2. QED
      BY <2>1
  <1> HIDE DEF K
  <1>4. 0 .. NumLayers \subseteq K
    BY <1>1, <1>2, <1>3, Induction
  <1>5. QED
    BY <1>4 DEF K

\* The list a of m entries begins with those of b, which are n.
Extends(a, m, b, n) ==
    List(a, m) /\ List(b, n) /\ n <= m /\ \A i \in 1 .. n : a[i] = b[i]

\* The first n keys.
KeysUpTo(hs, p, n) == SubSeq(KeysOf(hs, p), 1, n)

\* A layer is causal: its first outputs depend on its first inputs only.
LEMMA LayerIsCausal ==
    ASSUME NEW a, NEW b, NEW m, NEW n, NEW p, Extends(a, m, b, n)
    PROVE  /\ Extends(LayerOver(a, p), m, LayerOver(b, p), n)
           /\ KeysUpTo(a, p, n) = KeysUpTo(b, p, n)
  <1>0. /\ \A i \in 1 .. m :
              /\ LayerOver(a, p)[i] = Attend(a[i], p[i], SubSeq(KeysOf(a, p), 1, i))
              /\ KeysOf(a, p)[i] = [h |-> a[i], pos |-> p[i]]
        /\ \A i \in 1 .. n :
              /\ LayerOver(b, p)[i] = Attend(b[i], p[i], SubSeq(KeysOf(b, p), 1, i))
              /\ KeysOf(b, p)[i] = [h |-> b[i], pos |-> p[i]]
    BY DEF Extends, List, LayerOver, KeysOf
  <1>1. /\ m \in Nat /\ n \in Nat /\ n <= m /\ n \in 0 .. n
        /\ List(a, m) /\ List(b, n) /\ \A i \in 1 .. n : a[i] = b[i]
    <2>1. List(a, m) /\ List(b, n) /\ n <= m /\ \A i \in 1 .. n : a[i] = b[i]
      BY DEF Extends
    <2>2. m \in Nat /\ n \in Nat
      BY <2>1 DEF List
    <2>3. n \in 0 .. n
      BY <2>2
    <2>4. QED
      BY <2>1, <2>2, <2>3
  <1>2. ASSUME NEW i \in 0 .. n
        PROVE  SubSeq(KeysOf(a, p), 1, i) = SubSeq(KeysOf(b, p), 1, i)
    <2> DEFINE x == SubSeq(KeysOf(a, p), 1, i)
               y == SubSeq(KeysOf(b, p), 1, i)
    <2>1. /\ List(x, i) /\ \A j \in 1 .. i : x[j] = KeysOf(a, p)[j]
          /\ List(y, i) /\ \A j \in 1 .. i : y[j] = KeysOf(b, p)[j]
      <3>1. 1 \in Int /\ i \in Int /\ 1 <= i + 1 /\ i - 1 + 1 = i
            /\ \A j \in 1 .. i : 1 + j - 1 = j
        BY <1>1
      <3>2. QED
        BY <3>1, PartOf
    <2>2. ASSUME NEW j \in 1 .. i
          PROVE  KeysOf(a, p)[j] = KeysOf(b, p)[j]
      <3>1. j \in 1 .. n /\ j \in 1 .. m
        BY <1>1
      <3>2. QED
        BY <1>0, <1>1, <3>1
    <2> HIDE DEF x, y
    <2>3. x = y
      BY <2>1, <2>2, SameList
    <2>4. QED
      BY <2>3 DEF x, y
  <1>3. ASSUME NEW i \in 1 .. n
        PROVE  LayerOver(a, p)[i] = LayerOver(b, p)[i]
    <2>1. i \in 0 .. n /\ i \in 1 .. m
      BY <1>1
    <2>2. QED
      BY <1>0, <1>1, <1>2, <2>1
  <1>4. QED
    <2>1. List(LayerOver(a, p), m) /\ List(LayerOver(b, p), n)
      BY <1>1, LayerIsList
    <2>2. Extends(LayerOver(a, p), m, LayerOver(b, p), n)
      BY <1>1, <1>3, <2>1 DEF Extends
    <2>3. KeysUpTo(a, p, n) = KeysUpTo(b, p, n)
      BY <1>1, <1>2 DEF KeysUpTo
    <2>4. QED
      BY <2>2, <2>3

\* A pass is causal: what comes after a token does not change its states.
LEMMA StatesAreCausal ==
    ASSUME NEW a, NEW b, NEW m, NEW n, NEW p, List(a, m), List(b, n), n <= m,
           \A i \in 1 .. n : a[i] = b[i]
    PROVE  \A l \in 0 .. NumLayers, i \in 1 .. n :
              StatesAt(a, p)[l][i] = StatesAt(b, p)[l][i]
  <1> DEFINE K == {l \in 0 .. NumLayers :
                     \A i \in 1 .. n : StatesAt(a, p)[l][i] = StatesAt(b, p)[l][i]}
  <1>1. NumLayers \in Nat
    BY GenerationAssumption
  <1>2. 0 \in K
    BY <1>1, FirstStates
  <1>3. \A l \in 0 .. NumLayers - 1 : l \in K => l + 1 \in K
    <2>1. ASSUME NEW l \in 0 .. NumLayers - 1, l \in K
          PROVE  l + 1 \in K
      <3>1. l \in 0 .. NumLayers /\ l + 1 \in 0 .. NumLayers
        BY <1>1
      <3> DEFINE x == StatesAt(a, p)[l]
                 y == StatesAt(b, p)[l]
      <3>2. List(x, m) /\ List(y, n) /\ \A i \in 1 .. n : x[i] = y[i]
        BY <2>1, <3>1, StatesAreLists
      <3>3. StatesAt(a, p)[l + 1] = LayerOver(x, p) /\ StatesAt(b, p)[l + 1] = LayerOver(y, p)
        BY FirstStates
      <3> HIDE DEF x, y
      <3>4. \A i \in 1 .. n : LayerOver(x, p)[i] = LayerOver(y, p)[i]
        <4>1. Extends(x, m, y, n)
          BY <3>2 DEF Extends
        <4>2. Extends(LayerOver(x, p), m, LayerOver(y, p), n)
          BY <4>1, LayerIsCausal
        <4>3. QED
          BY <4>2 DEF Extends
      <3>5. QED
        BY <3>1, <3>3, <3>4
    <2>2. QED
      BY <2>1
  <1> HIDE DEF K
  <1>4. 0 .. NumLayers \subseteq K
    BY <1>1, <1>2, <1>3, Induction
  <1>5. QED
    BY <1>4 DEF K

-----------------------------------------------------------------------------
(* The code's passes are such passes *)

\* The position of token i of what a sequence has been fed: the scheduler feeds
\* the last token of a prompt twice.
Place == [i \in Nat |-> IF caller = "generate" \/ i <= prompt_len THEN i - 1 ELSE i - 2]

\* The tokens of a sequence hs that come after the first ones: when the keys of
\* those are there, a layer adds theirs and gives their outputs.
LEMMA PartialLayer ==
    ASSUME NEW hs, NEW n, NEW first, NEW p, NEW offset \in Int, List(hs, n),
           first \in 0 .. n, \A i \in 1 .. n - first : p[first + i] = offset + i - 1
    PROVE  LET part == SubSeq(hs, first + 1, n)
               keys == KeysOf(hs, p)
           IN  /\ Chained(SubSeq(keys, 1, first), KeysAt(part, offset)) = keys
               /\ Attention(part, offset, keys) = SubSeq(LayerOver(hs, p), first + 1, n)
  <1> DEFINE k == n - first
             part == SubSeq(hs, first + 1, n)
             keys == KeysOf(hs, p)
             a == SubSeq(keys, 1, first)
             b == KeysAt(part, offset)
             out == LayerOver(hs, p)
             c == SubSeq(out, first + 1, n)
             d == Attention(part, offset, keys)
  <1>1. /\ n \in Nat /\ first \in Nat /\ k \in Nat /\ n = first + k
        /\ first + 1 \in Int /\ n \in Int /\ 1 \in Int /\ first \in Int
        /\ first + 1 <= n + 1 /\ 1 <= first + 1
        /\ n - (first + 1) + 1 = k /\ first - 1 + 1 = first
        /\ \A i \in 1 .. k : (first + 1) + i - 1 = first + i
        /\ \A i \in 1 .. first : 1 + i - 1 = i
        /\ \A i \in 1 .. k : first + i \in 1 .. n
        /\ \A i \in 1 .. k : p[first + i] = offset + i - 1
    <2>1. n \in Nat
      BY DEF List
    <2>2. first \in Nat /\ first <= n /\ k \in Nat /\ n = first + k
      BY <2>1
    <2>3. \A i \in 1 .. k : p[first + i] = offset + i - 1
      OBVIOUS
    <2> HIDE DEF k
    <2>4. QED
      BY <2>1, <2>2, <2>3 DEF k
  <1>2. /\ List(out, n) /\ List(keys, n)
        /\ \A i \in 1 .. n :
             /\ out[i] = Attend(hs[i], p[i], SubSeq(keys, 1, i))
             /\ keys[i] = [h |-> hs[i], pos |-> p[i]]
    BY LayerIsList
  <1> HIDE DEF keys, out, k
  <1>3. List(part, k) /\ \A i \in 1 .. k : part[i] = hs[first + i]
    BY <1>1, PartOf
  <1>4. List(a, first) /\ \A i \in 1 .. first : a[i] = keys[i]
    BY <1>1, PartOf
  <1>5. List(c, k) /\ \A i \in 1 .. k : c[i] = out[first + i]
    BY <1>1, PartOf
  <1> HIDE DEF part
  <1>6. List(b, k) /\ \A i \in 1 .. k : b[i] = [h |-> part[i], pos |-> offset + i - 1]
    BY <1>3 DEF List, KeysAt
  <1>7. /\ List(d, k)
        /\ \A i \in 1 .. k : d[i] = Attend(part[i], offset + i - 1, SubSeq(keys, 1, first + i))
    <2>1. Len(keys) = n /\ Len(part) = k
      BY <1>2, <1>3, ListIsSeq
    <2>2. \A i \in 1 .. k : Len(keys) - Len(part) + i = first + i
      BY <1>1, <2>1
    <2>3. DOMAIN part = 1 .. k /\ k \in Nat
      BY <1>1, <1>3 DEF List
    <2>4. d = [i \in 1 .. k |-> Attend(part[i], offset + i - 1,
                                       SubSeq(keys, 1, Len(keys) - Len(part) + i))]
      BY <2>3 DEF Attention, Visible
    <2> HIDE DEF d
    <2>5. \A i \in 1 .. k : d[i] = Attend(part[i], offset + i - 1, SubSeq(keys, 1, first + i))
      BY <2>2, <2>4
    <2>6. List(d, k)
      BY <2>3, <2>4 DEF List
    <2>7. QED
      BY <2>5, <2>6
  <1> HIDE DEF a, b, c, d
  <1>8. Chained(a, b) = keys
    <2> DEFINE e == Chained(a, b)
    <2>1. /\ List(e, first + k)
          /\ \A i \in 1 .. first : e[i] = a[i]
          /\ \A i \in 1 .. k : e[first + i] = b[i]
      <3>1. List(a, first) /\ List(b, k) /\ first \in Nat /\ k \in Nat
        BY <1>1, <1>4, <1>6
      <3>2. e = Chained(a, b)
        OBVIOUS
      <3> HIDE DEF e
      <3>3. QED
        BY <3>1, <3>2, Joined
    <2> HIDE DEF e
    <2>2. ASSUME NEW i \in 1 .. n
          PROVE  e[i] = keys[i]
      <3>1. CASE i <= first
        <4>1. i \in 1 .. first
          BY <1>1, <3>1
        <4>2. QED
          BY <1>4, <2>1, <4>1
      <3>2. CASE ~ i <= first
        <4>1. i - first \in 1 .. k /\ first + (i - first) = i
          BY <1>1, <3>2
        <4>2. e[i] = [h |-> part[i - first], pos |-> offset + (i - first) - 1]
          BY <1>6, <2>1, <4>1
        <4>3. part[i - first] = hs[i] /\ p[i] = offset + (i - first) - 1
          BY <1>1, <1>3, <4>1
        <4>4. QED
          BY <1>2, <4>2, <4>3
      <3>3. QED
        BY <3>1, <3>2
    <2>3. e = keys
      BY <1>1, <1>2, <2>1, <2>2, SameList
    <2>4. QED
      BY <2>3 DEF e
  <1>9. d = c
    <2>1. ASSUME NEW i \in 1 .. k
          PROVE  d[i] = c[i]
      <3>1. first + i \in 1 .. n
        BY <1>1
      <3>2. out[first + i] = Attend(hs[first + i], p[first + i], SubSeq(keys, 1, first + i))
        BY <1>2, <3>1
      <3>3. QED
        BY <1>1, <1>3, <1>5, <1>7, <3>2
    <2>2. QED
      BY <1>5, <1>7, <2>1, SameList
  <1>10. QED
    BY <1>8, <1>9 DEF part, keys, a, b, c, d, out

\* Where generate() feeds its tokens.
LEMMA PlaceFacts ==
    ASSUME prompt_len \in Nat
    PROVE  \A i \in Nat : Place[i] = IF caller = "generate" \/ i <= prompt_len
                                     THEN i - 1 ELSE i - 2
  BY DEF Place

\* The whole list is the part from its first entry on.
LEMMA WholeList ==
    ASSUME NEW hs, NEW n, List(hs, n)
    PROVE  SubSeq(hs, 1, n) = hs
  <1> DEFINE d == SubSeq(hs, 1, n)
  <1>1. /\ n \in Nat /\ 1 \in Int /\ n \in Int /\ 1 <= n + 1 /\ n - 1 + 1 = n
        /\ \A i \in 1 .. n : 1 + i - 1 = i
    BY DEF List
  <1>2. List(d, n) /\ \A i \in 1 .. n : d[i] = hs[i]
    BY <1>1, PartOf
  <1> HIDE DEF d
  <1>3. d = hs
    BY <1>2, SameList
  <1>4. QED
    BY <1>3 DEF d

\* decoder_layer is a layer over the positions of generate().
LEMMA DecoderIsLayer ==
    ASSUME caller = "generate", prompt_len \in Nat, NEW hs, NEW n, List(hs, n)
    PROVE  DecoderLayer(hs) = LayerOver(hs, Place)
  <1> DEFINE keys == KeysOf(hs, Place)
             out == LayerOver(hs, Place)
  <1>1. n \in Nat
    BY DEF List
  <1>2. 0 \in 0 .. n /\ 0 \in Int /\ \A i \in 1 .. n - 0 : Place[0 + i] = 0 + i - 1
    BY <1>1, PlaceFacts
  <1>3. Attention(SubSeq(hs, 0 + 1, n), 0, keys) = SubSeq(out, 0 + 1, n)
    BY <1>2, PartialLayer
  <1>4. 0 + 1 = 1
    OBVIOUS
  <1>5. List(out, n) /\ List(keys, n)
    BY LayerIsList
  <1>6. SubSeq(hs, 1, n) = hs /\ SubSeq(out, 1, n) = out
    BY <1>5, WholeList
  <1>7. Attention(hs, 0, keys) = out
    BY <1>3, <1>4, <1>6
  <1>8. KeysAt(hs, 0) = keys
    <2>1. DOMAIN hs = 1 .. n
      BY DEF List
    <2>2. \A i \in DOMAIN hs : Place[i] = 0 + i - 1
      BY <1>1, <2>1, PlaceFacts
    <2>3. QED
      BY <2>2 DEF KeysAt, KeysOf
  <1>9. QED
    BY <1>7, <1>8 DEF DecoderLayer

\* The states of forward, which generate() is compared with.
LEMMA ForwardStates ==
    ASSUME caller = "generate", prompt_len \in Nat, NEW ids, NEW n, List(ids, n)
    PROVE  \A l \in 0 .. NumLayers : StatesBelow(ids)[l] = StatesAt(ids, Place)[l]
  <1> DEFINE G == StatesAt(ids, Place)
             H == StatesBelow(ids)
             K == {l \in 0 .. NumLayers : H[l] = G[l]}
  <1>1. NumLayers \in Nat
    BY GenerationAssumption
  <1>2. \A l \in 0 .. NumLayers : List(G[l], n)
    BY StatesAreLists
  <1>3. G = [l \in 0 .. NumLayers |-> IF l = 0 THEN ids ELSE LayerOver(G[l - 1], Place)]
    BY StatesExist
  <1> HIDE DEF G
  <1>4. G = [l \in 0 .. NumLayers |-> IF l = 0 THEN ids ELSE DecoderLayer(G[l - 1])]
    <2>1. ASSUME NEW l \in 0 .. NumLayers, l # 0
          PROVE  LayerOver(G[l - 1], Place) = DecoderLayer(G[l - 1])
      <3>1. l - 1 \in 0 .. NumLayers
        BY <1>1, <2>1
      <3>2. QED
        BY <1>2, <3>1, DecoderIsLayer
    <2>2. QED
      BY <1>3, <2>1
  <1>5. H = [l \in 0 .. NumLayers |-> IF l = 0 THEN ids ELSE DecoderLayer(H[l - 1])]
    BY <1>4 DEF StatesBelow
  <1> HIDE DEF H
  <1>6. 0 \in K
    BY <1>1, <1>4, <1>5
  <1>7. \A l \in 0 .. NumLayers - 1 : l \in K => l + 1 \in K
    <2>1. ASSUME NEW l \in 0 .. NumLayers - 1, l \in K
          PROVE  l + 1 \in K
      <3>1. l + 1 \in 0 .. NumLayers /\ l + 1 # 0 /\ (l + 1) - 1 = l
        BY <1>1
      <3>2. H[l + 1] = DecoderLayer(H[l]) /\ G[l + 1] = DecoderLayer(G[l])
        BY <1>4, <1>5, <3>1
      <3>3. QED
        BY <2>1, <3>1, <3>2
    <2>2. QED
      BY <2>1
  <1> HIDE DEF K
  <1>8. 0 .. NumLayers \subseteq K
    BY <1>1, <1>6, <1>7, Induction
  <1>9. QED
    BY <1>8 DEF G, H, K

\* The states that the scheduler is compared with.
LEMMA ScheduledStates ==
    ASSUME caller # "generate", prompt_len \in Nat, NEW ids, NEW n,
           List(Repeated(ids), n)
    PROVE  \A l \in 0 .. NumLayers :
              RepeatedStates(ids)[l] = StatesAt(Repeated(ids), Place)[l]
  <1> DEFINE R == Repeated(ids)
             Step(hs) == [i \in DOMAIN hs |->
                Attend(hs[i], RepeatedPos(i),
                       SubSeq([j \in DOMAIN hs |-> [h |-> hs[j], pos |-> RepeatedPos(j)]], 1, i))]
             G == StatesAt(R, Place)
             H == RepeatedStates(ids)
             K == {l \in 0 .. NumLayers : H[l] = G[l]}
  <1>1. NumLayers \in Nat
    BY GenerationAssumption
  <1>2. \A l \in 0 .. NumLayers : List(G[l], n)
    BY StatesAreLists
  <1>3. G = [l \in 0 .. NumLayers |-> IF l = 0 THEN R ELSE LayerOver(G[l - 1], Place)]
    BY StatesExist
  <1> HIDE DEF G
  <1>4. ASSUME NEW hs, List(hs, n)
        PROVE  LayerOver(hs, Place) = Step(hs)
    <2>1. DOMAIN hs = 1 .. n /\ n \in Nat
      BY <1>4 DEF List
    <2>2. \A i \in DOMAIN hs : Place[i] = RepeatedPos(i)
      BY <2>1, PlaceFacts DEF RepeatedPos
    <2>3. KeysOf(hs, Place) = [j \in DOMAIN hs |-> [h |-> hs[j], pos |-> RepeatedPos(j)]]
      BY <2>2 DEF KeysOf
    <2>4. QED
      BY <2>2, <2>3 DEF LayerOver
  <1>5. G = [l \in 0 .. NumLayers |-> IF l = 0 THEN R ELSE Step(G[l - 1])]
    <2> HIDE DEF Step
    <2>1. ASSUME NEW l \in 0 .. NumLayers, l # 0
          PROVE  LayerOver(G[l - 1], Place) = Step(G[l - 1])
      <3>1. l - 1 \in 0 .. NumLayers
        BY <1>1, <2>1
      <3>2. QED
        BY <1>2, <1>4, <3>1
    <2>2. QED
      BY <1>3, <2>1
  <1>6. H = [l \in 0 .. NumLayers |-> IF l = 0 THEN R ELSE Step(H[l - 1])]
    BY <1>5 DEF RepeatedStates
  <1> HIDE DEF H, Step
  <1>7. 0 \in K
    BY <1>1, <1>5, <1>6
  <1>8. \A l \in 0 .. NumLayers - 1 : l \in K => l + 1 \in K
    <2>1. ASSUME NEW l \in 0 .. NumLayers - 1, l \in K
          PROVE  l + 1 \in K
      <3>1. l + 1 \in 0 .. NumLayers /\ l + 1 # 0 /\ (l + 1) - 1 = l
        BY <1>1
      <3>2. H[l + 1] = Step(H[l]) /\ G[l + 1] = Step(G[l])
        BY <1>5, <1>6, <3>1
      <3>3. QED
        BY <2>1, <3>1, <3>2
    <2>2. QED
      BY <2>1
  <1> HIDE DEF K
  <1>9. 0 .. NumLayers \subseteq K
    BY <1>1, <1>7, <1>8, Induction
  <1>10. QED
    BY <1>9 DEF G, H, K

-----------------------------------------------------------------------------
(* The inductive invariant *)

Running == pc \in {"prefill", "decode"}
Early == pc \in {"start", "prefill"}

GenTypeOK ==
    /\ caller \in {"generate", "scheduler"}
    /\ prompt_len \in Nat \ {0}
    /\ all_ids \in Seq(Vocab)
    /\ prompt_len <= Len(all_ids)
    /\ Early => prompt_len = Len(all_ids)
    /\ pc \in {"start", "prefill", "ready", "decode", "done"}
    /\ DOMAIN cache = Layers
    /\ layer \in 0 .. NumLayers

\* What the sequence has been fed when the pass that runs, or the next one, is
\* over; and how much of it before that pass.
Fed == IF caller = "generate" \/ Early THEN all_ids ELSE Repeated(all_ids)
Before == IF Early THEN 0 ELSE Len(Fed) - 1

\* The layers that have run in this pass have cached all of it.
CachedUpTo(l) == IF Running /\ l < layer THEN Len(Fed) ELSE Before

CacheRight == \A l \in Layers :
    cache[l] = SubSeq(KeysOf(StatesAt(Fed, Place)[l], Place), 1, CachedUpTo(l))

HiddenRight == Running =>
    /\ hidden = SubSeq(StatesAt(Fed, Place)[layer], Before + 1, Len(Fed))
    /\ position_offset = Place[Before + 1]

GInv == GenTypeOK /\ CacheRight /\ HiddenRight

\* What is where in the prompt with its last token twice.
LEMMA RepeatedIs ==
    ASSUME NEW ids \in Seq(Vocab), prompt_len \in 1 .. Len(ids)
    PROVE  /\ List(Repeated(ids), Len(ids) + 1)
           /\ \A i \in 1 .. prompt_len : Repeated(ids)[i] = ids[i]
           /\ \A i \in prompt_len + 1 .. Len(ids) + 1 : Repeated(ids)[i] = ids[i - 1]
  <1> DEFINE n == Len(ids)
             a == SubSeq(ids, 1, prompt_len)
             b == SubSeq(ids, prompt_len, n)
             k == n - prompt_len + 1
             r == Repeated(ids)
  <1>1. /\ n \in Nat /\ prompt_len \in Nat /\ prompt_len >= 1 /\ k \in Nat
        /\ prompt_len \in Int /\ n \in Int /\ 1 \in Int
        /\ 1 <= prompt_len + 1 /\ prompt_len <= n + 1
        /\ prompt_len - 1 + 1 = prompt_len
        /\ \A i \in 1 .. prompt_len : 1 + i - 1 = i
        /\ prompt_len + k = n + 1
    OBVIOUS
  <1>2. List(a, prompt_len) /\ \A i \in 1 .. prompt_len : a[i] = ids[i]
    BY <1>1, PartOf
  <1>3. List(b, k) /\ \A i \in 1 .. k : b[i] = ids[prompt_len + i - 1]
    BY <1>1, PartOf
  <1>4. r = Chained(a, b)
    BY DEF Repeated, Chained
  <1> HIDE DEF a, b, r, k, n
  <1>5. /\ List(r, prompt_len + k)
        /\ \A i \in 1 .. prompt_len : r[i] = a[i]
        /\ \A i \in 1 .. k : r[prompt_len + i] = b[i]
    BY <1>1, <1>2, <1>3, <1>4, Joined
  <1>6. ASSUME NEW i \in prompt_len + 1 .. n + 1
        PROVE  r[i] = ids[i - 1]
    <2>1. /\ i - prompt_len \in 1 .. k /\ prompt_len + (i - prompt_len) = i
          /\ prompt_len + (i - prompt_len) - 1 = i - 1
      BY <1>1
    <2>2. QED
      BY <1>3, <1>5, <2>1
  <1>7. QED
    BY <1>1, <1>2, <1>5, <1>6 DEF r, n

\* What is fed is a list that is not empty; the tokens of the pass that runs
\* have consecutive positions.
LEMMA FedFacts ==
    ASSUME GenTypeOK
    PROVE  /\ List(Fed, Len(Fed))
           /\ Len(Fed) \in Nat \ {0}
           /\ Before \in 0 .. Len(Fed) - 1
           /\ Place[Before + 1] \in Int
           /\ \A i \in 1 .. Len(Fed) - Before : Place[Before + i] = Place[Before + 1] + i - 1
           /\ Early => Place[1] = 0
           /\ Len(Fed) = IF caller = "generate" \/ Early THEN Len(all_ids) ELSE Len(all_ids) + 1
  <1>1. /\ all_ids \in Seq(Vocab) /\ prompt_len \in 1 .. Len(all_ids)
        /\ Len(all_ids) \in Nat \ {0} /\ prompt_len \in Nat
        /\ Early => prompt_len = Len(all_ids)
    BY DEF GenTypeOK
  <1>2. /\ List(Fed, Len(Fed)) /\ Len(Fed) \in Nat \ {0}
        /\ Len(Fed) = IF caller = "generate" \/ Early THEN Len(all_ids) ELSE Len(all_ids) + 1
    <2>1. CASE caller = "generate" \/ Early
      BY <1>1, <2>1, SeqIsList DEF Fed
    <2>2. CASE ~ (caller = "generate" \/ Early)
      <3>1. List(Fed, Len(all_ids) + 1)
        BY <1>1, <2>2, RepeatedIs DEF Fed
      <3>2. Len(Fed) = Len(all_ids) + 1
        BY <3>1, ListIsSeq
      <3>3. QED
        BY <1>1, <2>2, <3>1, <3>2
    <2>3. QED
      BY <2>1, <2>2
  <1>3. Before = IF Early THEN 0 ELSE Len(Fed) - 1
    BY DEF Before
  <1>4. \A i \in Nat : Place[i] = IF caller = "generate" \/ i <= prompt_len
                                  THEN i - 1 ELSE i - 2
    BY <1>1, PlaceFacts
  <1>5. Place[Before + 1] \in Int
    BY <1>2, <1>3, <1>4
  <1>6. ASSUME NEW i \in 1 .. Len(Fed) - Before
        PROVE  Place[Before + i] = Place[Before + 1] + i - 1
    <2>1. CASE Early
      <3>1. Before = 0 /\ Len(Fed) = prompt_len
        BY <1>1, <1>2, <1>3, <2>1
      <3>2. i \in Nat /\ i <= prompt_len /\ 1 <= prompt_len
        BY <1>1, <3>1
      <3>3. Place[i] = i - 1 /\ Place[1] = 0
        BY <1>4, <3>2
      <3>4. QED
        BY <3>1, <3>2, <3>3
    <2>2. CASE ~ Early
      <3>1. i = 1
        BY <1>2, <1>3, <2>2
      <3>2. QED
        BY <1>5, <3>1
    <2>3. QED
      BY <2>1, <2>2
  <1>7. Early => Place[1] = 0
    BY <1>1, <1>4
  <1>8. QED
    BY <1>2, <1>3, <1>5, <1>6, <1>7

\* The keys of a sequence that has got longer are those that it had.
LEMMA KeysStay ==
    ASSUME NEW a, NEW b, NEW m, NEW n, NEW p, Extends(a, m, b, n),
           NEW l \in 0 .. NumLayers
    PROVE  KeysUpTo(StatesAt(a, p)[l], p, n) = KeysUpTo(StatesAt(b, p)[l], p, n)
  <1> DEFINE x == StatesAt(a, p)[l]
             y == StatesAt(b, p)[l]
  <1>0. List(a, m) /\ List(b, n) /\ n <= m /\ \A i \in 1 .. n : a[i] = b[i]
    BY DEF Extends
  <1>1. List(x, m) /\ List(y, n)
    BY <1>0, StatesAreLists
  <1>2. \A i \in 1 .. n : x[i] = y[i]
    BY <1>0, StatesAreCausal
  <1>3. Extends(x, m, y, n)
    BY <1>0, <1>1, <1>2 DEF Extends
  <1> HIDE DEF x, y
  <1>4. KeysUpTo(x, p, n) = KeysUpTo(y, p, n)
    BY <1>3, LayerIsCausal
  <1>5. QED
    BY <1>4 DEF x, y

-----------------------------------------------------------------------------
(* The invariant holds at first, and each action keeps it *)

LEMMA LayerFacts ==
    /\ NumLayers \in Nat \ {0} /\ Layers = 0 .. NumLayers - 1
    /\ 0 \in Layers /\ Layers \subseteq 0 .. NumLayers
    /\ 0 \in 0 .. NumLayers
  BY GenerationAssumption DEF Layers

LEMMA InitGInv == Init => GInv
  <1> SUFFICES ASSUME Init
               PROVE  GInv
    OBVIOUS
  <1>1. /\ caller \in {"generate", "scheduler"} /\ prompt_len \in Nat \ {0}
        /\ all_ids \in [1 .. prompt_len -> Vocab]
        /\ cache = [l \in Layers |-> <<>>] /\ layer = 0 /\ pc = "start"
    BY GenerationAssumption DEF Init
  <1>2. all_ids \in Seq(Vocab)
    BY <1>1, SeqDef
  <1>3. Len(all_ids) = prompt_len
    <2>1. Len(all_ids) \in Nat /\ DOMAIN all_ids = 1 .. Len(all_ids)
      BY <1>2, LenProperties
    <2>2. DOMAIN all_ids = 1 .. prompt_len
      BY <1>1
    <2>3. QED
      BY <1>1, <2>1, <2>2
  <1>4. GenTypeOK
    BY <1>1, <1>2, <1>3, LayerFacts DEF GenTypeOK, Early
  <1>5. CacheRight
    <2>1. ASSUME NEW l \in Layers
          PROVE  /\ cache[l] = <<>>
                 /\ CachedUpTo(l) = 0
      BY <1>1 DEF CachedUpTo, Before, Early, Running
    <2>2. \A s : SubSeq(s, 1, 0) = <<>>
      BY SubSeqEmpty
    <2>3. QED
      BY <2>1, <2>2 DEF CacheRight
  <1>6. HiddenRight
    BY <1>1 DEF HiddenRight, Running
  <1>7. QED
    BY <1>4, <1>5, <1>6 DEF GInv

LEMMA PrefillKeeps == GInv /\ Prefill => GInv'
  <1> SUFFICES ASSUME GInv, Prefill
               PROVE  GInv'
    OBVIOUS
  <1>1. /\ GenTypeOK /\ CacheRight
        /\ pc = "start" /\ pc' = "prefill"
        /\ hidden' = all_ids /\ position_offset' = 0 /\ layer' = 0
        /\ UNCHANGED <<caller, prompt_len, all_ids, cache>>
    BY DEF GInv, Prefill, Call
  <1>2. /\ Fed = all_ids /\ Fed' = Fed /\ Before = 0 /\ Before' = 0 /\ Place' = Place
        /\ Early /\ Early'
    BY <1>1 DEF Fed, Before, Early, Place
  <1>3. GenTypeOK'
    BY <1>1, LayerFacts DEF GenTypeOK, Early
  <1>4. CacheRight'
    <2>1. ASSUME NEW l \in Layers
          PROVE  CachedUpTo(l)' = 0 /\ CachedUpTo(l) = 0
      BY <1>1, <1>2, LayerFacts DEF CachedUpTo, Running, Layers
    <2>2. QED
      BY <1>1, <1>2, <2>1 DEF CacheRight
  <1>5. HiddenRight'
    <2>1. List(all_ids, Len(all_ids)) /\ Place[1] = 0
      BY <1>1, <1>2, FedFacts
    <2>2. StatesAt(all_ids, Place)[0] = all_ids
      BY FirstStates
    <2>3. SubSeq(all_ids, 1, Len(all_ids)) = all_ids
      BY <2>1, WholeList
    <2>4. 0 + 1 = 1
      OBVIOUS
    <2>5. QED
      BY <1>1, <1>2, <2>1, <2>2, <2>3, <2>4 DEF HiddenRight
  <1>6. QED
    BY <1>3, <1>4, <1>5 DEF GInv

LEMMA RunLayerKeeps == GInv /\ RunLayer => GInv'
  <1> SUFFICES ASSUME GInv, RunLayer
               PROVE  GInv'
    OBVIOUS
  <1> DEFINE hs == StatesAt(Fed, Place)[layer]
             keys == KeysOf(hs, Place)
             n == Len(Fed)
  <1>1. /\ GenTypeOK /\ CacheRight /\ HiddenRight
        /\ Running /\ layer < NumLayers
        /\ cache' = [cache EXCEPT ![layer] = FullKeys]
        /\ hidden' = Attention(hidden, position_offset, FullKeys)
        /\ layer' = layer + 1
        /\ UNCHANGED <<caller, prompt_len, all_ids, position_offset, pc>>
    BY DEF GInv, RunLayer, Running
  <1>2. /\ Fed' = Fed /\ Before' = Before /\ Place' = Place /\ Early' = Early
        /\ Running'
    <2>1. Early' = Early /\ Running' = Running /\ Place' = Place
      BY <1>1 DEF Early, Running, Place
    <2>2. Fed' = Fed
      <3>1. Repeated(all_ids)' = Repeated(all_ids)
        BY <1>1 DEF Repeated
      <3>2. QED
        BY <1>1, <2>1, <3>1 DEF Fed
    <2>3. QED
      BY <1>1, <2>1, <2>2 DEF Before
  <1>3. /\ layer \in Layers /\ layer \in 0 .. NumLayers - 1 /\ layer \in 0 .. NumLayers
        /\ layer' \in 0 .. NumLayers /\ DOMAIN cache = Layers
        /\ Layers \subseteq Int
    BY <1>1, LayerFacts DEF GenTypeOK, Layers
  <1>4. /\ List(Fed, n) /\ n \in Nat \ {0} /\ Before \in 0 .. n - 1 /\ Before \in 0 .. n
        /\ Place[Before + 1] \in Int
        /\ \A i \in 1 .. n - Before : Place[Before + i] = Place[Before + 1] + i - 1
    BY <1>1, FedFacts
  <1>5. List(hs, n)
    BY <1>3, <1>4, StatesAreLists
  <1>6. /\ hidden = SubSeq(hs, Before + 1, n) /\ position_offset = Place[Before + 1]
        /\ cache[layer] = SubSeq(keys, 1, Before)
    <2>1. CachedUpTo(layer) = Before
      BY <1>3 DEF CachedUpTo
    <2>2. QED
      BY <1>1, <1>3, <2>1 DEF CacheRight, HiddenRight
  <1>7. StatesAt(Fed, Place)[layer + 1] = LayerOver(hs, Place)
    BY <1>3, FirstStates
  <1> HIDE DEF hs, n
  <1>8. /\ Chained(SubSeq(keys, 1, Before), KeysAt(hidden, position_offset)) = keys
        /\ Attention(hidden, position_offset, keys)
             = SubSeq(LayerOver(hs, Place), Before + 1, n)
    <2>1. /\ Before \in 0 .. n /\ position_offset \in Int
          /\ \A i \in 1 .. n - Before : Place[Before + i] = position_offset + i - 1
      BY <1>4, <1>6
    <2>2. LET part == SubSeq(hs, Before + 1, n)
              all == KeysOf(hs, Place)
          IN  /\ Chained(SubSeq(all, 1, Before), KeysAt(part, position_offset)) = all
              /\ Attention(part, position_offset, all)
                   = SubSeq(LayerOver(hs, Place), Before + 1, n)
      BY <1>5, <2>1, PartialLayer
    <2>3. QED
      BY <1>6, <2>2
  <1>9. FullKeys = keys
    BY <1>6, <1>8 DEF FullKeys, Chained
  <1>10. SubSeq(keys, 1, n) = keys
    <2>1. List(keys, n)
      BY <1>5, LayerIsList
    <2>2. QED
      BY <2>1, WholeList
  <1> HIDE DEF keys
  <1>11. GenTypeOK'
    BY <1>1, <1>2, <1>3 DEF GenTypeOK, Early
  <1>12. CacheRight'
    <2>1. ASSUME NEW l \in Layers
          PROVE  cache'[l] = SubSeq(KeysOf(StatesAt(Fed, Place)[l], Place), 1, CachedUpTo(l)')
      <3>1. CASE l = layer
        <4>1. CachedUpTo(l)' = n
          BY <1>1, <1>2, <1>3, <3>1 DEF CachedUpTo, n
        <4>2. cache'[l] = keys
          BY <1>1, <1>3, <1>9, <3>1
        <4>3. QED
          BY <1>10, <3>1, <4>1, <4>2 DEF keys, hs
      <3>2. CASE l # layer
        <4>1. l \in Int /\ layer \in Int /\ (l < layer + 1 <=> l < layer)
          BY <1>3, <3>2
        <4>2. CachedUpTo(l)' = CachedUpTo(l)
          BY <1>1, <1>2, <4>1 DEF CachedUpTo
        <4>3. cache'[l] = cache[l]
          BY <1>1, <1>3, <3>2
        <4>4. QED
          BY <1>1, <4>2, <4>3 DEF CacheRight
      <3>3. QED
        BY <3>1, <3>2
    <2>2. QED
      BY <1>2, <2>1 DEF CacheRight
  <1>13. HiddenRight'
    BY <1>1, <1>2, <1>6, <1>7, <1>8, <1>9 DEF HiddenRight, n
  <1>14. QED
    BY <1>11, <1>12, <1>13 DEF GInv

\* When a pass is over and there is a token more to be fed, all before it are
\* cached.
LEMMA PassOver ==
    ASSUME GInv, Running, PassEnds, UNCHANGED <<caller, prompt_len, cache, layer>>,
           pc' \in {"ready", "done"}, GenTypeOK',
           List(Fed', Len(Fed) + 1), \A i \in 1 .. Len(Fed) : Fed'[i] = Fed[i]
    PROVE  GInv'
  <1> DEFINE n == Len(Fed)
  <1>1. /\ GenTypeOK /\ CacheRight /\ layer = NumLayers /\ Place' = Place
        /\ ~ Running' /\ ~ Early'
    BY DEF GInv, PassEnds, Place, Running, Early
  <1>2. List(Fed, n) /\ n \in Nat
    BY <1>1, FedFacts
  <1>3. Len(Fed') = n + 1 /\ List(Fed', n + 1)
    BY ListIsSeq
  <1>4. Before' = n
    BY <1>1, <1>2, <1>3 DEF Before
  <1>5. CacheRight'
    <2>1. ASSUME NEW l \in Layers
          PROVE  cache'[l] = SubSeq(KeysOf(StatesAt(Fed', Place)[l], Place), 1, CachedUpTo(l)')
      <3>1. l \in 0 .. NumLayers /\ l < NumLayers
        BY LayerFacts DEF Layers
      <3>2. CachedUpTo(l) = n /\ CachedUpTo(l)' = n
        BY <1>1, <1>4, <3>1 DEF CachedUpTo
      <3>3. cache[l] = SubSeq(KeysOf(StatesAt(Fed, Place)[l], Place), 1, n)
        BY <1>1, <3>2 DEF CacheRight
      <3>4. SubSeq(KeysOf(StatesAt(Fed', Place)[l], Place), 1, n)
              = SubSeq(KeysOf(StatesAt(Fed, Place)[l], Place), 1, n)
        <4>1. n <= n + 1 /\ \A i \in 1 .. n : Fed'[i] = Fed[i]
          BY <1>2
        <4> HIDE DEF n
        <4>2. Extends(Fed', n + 1, Fed, n)
          BY <1>2, <1>3, <4>1 DEF Extends
        <4>3. KeysUpTo(StatesAt(Fed', Place)[l], Place, n)
                = KeysUpTo(StatesAt(Fed, Place)[l], Place, n)
          BY <3>1, <4>2, KeysStay
        <4>4. QED
          BY <4>3 DEF KeysUpTo
      <3>5. QED
        BY <3>2, <3>3, <3>4
    <2>2. QED
      BY <1>1, <2>1 DEF CacheRight
  <1>6. HiddenRight'
    BY <1>1 DEF HiddenRight
  <1>7. QED
    BY <1>5, <1>6 DEF GInv

LEMMA DropLogitsKeeps == GInv /\ DropLogits => GInv'
  <1> SUFFICES ASSUME GInv, DropLogits
               PROVE  GInv'
    OBVIOUS
  <1>1. /\ GenTypeOK /\ Running /\ PassEnds /\ pc = "prefill" /\ pc' = "ready"
        /\ caller = "scheduler"
        /\ UNCHANGED <<caller, prompt_len, all_ids, cache, layer>>
    BY DEF GInv, DropLogits, Running
  <1>2. /\ all_ids \in Seq(Vocab) /\ prompt_len = Len(all_ids)
        /\ prompt_len \in 1 .. Len(all_ids)
    BY <1>1 DEF GenTypeOK, Early
  <1>3. Repeated(all_ids)' = Repeated(all_ids)
    BY <1>1 DEF Repeated
  <1>4. Fed = all_ids /\ Fed' = Repeated(all_ids)
    BY <1>1, <1>3 DEF Fed, Early
  <1>5. /\ List(Fed', Len(Fed) + 1) /\ \A i \in 1 .. Len(Fed) : Fed'[i] = Fed[i]
    BY <1>2, <1>4, RepeatedIs
  <1>6. GenTypeOK'
    BY <1>1 DEF GenTypeOK, Early
  <1>7. QED
    BY <1>1, <1>5, <1>6, PassOver

LEMMA SampleKeeps == ASSUME NEW token \in Vocab
                     PROVE  GInv /\ Sample(token) => GInv'
  <1> SUFFICES ASSUME GInv, Sample(token)
               PROVE  GInv'
    OBVIOUS
  <1> DEFINE m == Len(all_ids)
  <1>1. /\ GenTypeOK /\ Running /\ PassEnds /\ pc' \in {"ready", "done"}
        /\ caller = "generate" \/ ~ Early
        /\ all_ids' = Append(all_ids, token)
        /\ UNCHANGED <<caller, prompt_len, cache, layer>>
    BY DEF GInv, Sample, Running, Early
  <1>2. /\ all_ids \in Seq(Vocab) /\ m \in Nat /\ prompt_len \in 1 .. m
        /\ all_ids' \in Seq(Vocab) /\ Len(all_ids') = m + 1
        /\ \A i \in 1 .. m : all_ids'[i] = all_ids[i]
        /\ prompt_len \in 1 .. m + 1
    BY <1>1 DEF GenTypeOK
  <1>3. ~ Early'
    BY <1>1 DEF Early
  <1>4. GenTypeOK'
    BY <1>1, <1>2, <1>3 DEF GenTypeOK
  <1>5. List(Fed', Len(Fed) + 1) /\ \A i \in 1 .. Len(Fed) : Fed'[i] = Fed[i]
    <2>1. CASE caller = "generate"
      <3>1. Fed = all_ids /\ Fed' = all_ids'
        BY <1>1, <2>1 DEF Fed
      <3>2. List(all_ids', m + 1)
        BY <1>2, SeqIsList
      <3>3. QED
        BY <1>2, <3>1, <3>2
    <2>2. CASE caller # "generate"
      <3>1. Fed = Repeated(all_ids)
        BY <1>1, <2>2 DEF Fed
      <3>2. Fed' = Repeated(all_ids')
        <4>1. Repeated(all_ids)' = Repeated(all_ids')
          BY <1>1 DEF Repeated
        <4>2. QED
          BY <1>1, <1>3, <2>2, <4>1 DEF Fed
      <3>3. /\ List(Fed, m + 1)
            /\ \A i \in 1 .. prompt_len : Fed[i] = all_ids[i]
            /\ \A i \in prompt_len + 1 .. m + 1 : Fed[i] = all_ids[i - 1]
        BY <1>2, <3>1, RepeatedIs
      <3>4. /\ List(Fed', (m + 1) + 1)
            /\ \A i \in 1 .. prompt_len : Fed'[i] = all_ids'[i]
            /\ \A i \in prompt_len + 1 .. (m + 1) + 1 : Fed'[i] = all_ids'[i - 1]
        <4> DEFINE ids == all_ids'
        <4>1. ids \in Seq(Vocab) /\ Len(ids) = m + 1 /\ prompt_len \in 1 .. Len(ids)
          BY <1>2
        <4>2. /\ List(Repeated(ids), Len(ids) + 1)
              /\ \A i \in 1 .. prompt_len : Repeated(ids)[i] = ids[i]
              /\ \A i \in prompt_len + 1 .. Len(ids) + 1 : Repeated(ids)[i] = ids[i - 1]
          BY <4>1, RepeatedIs
        <4>3. QED
          BY <3>2, <4>1, <4>2
      <3>5. Len(Fed) = m + 1
        BY <3>3, ListIsSeq
      <3>6. ASSUME NEW i \in 1 .. m + 1
            PROVE  Fed'[i] = Fed[i]
        <4>1. CASE i <= prompt_len
          BY <1>2, <3>3, <3>4, <4>1
        <4>2. CASE ~ i <= prompt_len
          <5>1. /\ i \in prompt_len + 1 .. m + 1 /\ i \in prompt_len + 1 .. (m + 1) + 1
                /\ i - 1 \in 1 .. m
            BY <1>2, <4>2
          <5>2. QED
            BY <1>2, <3>3, <3>4, <5>1
        <4>3. QED
          BY <4>1, <4>2
      <3>7. QED
        BY <3>4, <3>5, <3>6
    <2>3. QED
      BY <2>1, <2>2
  <1>6. QED
    BY <1>1, <1>4, <1>5, PassOver

\* What is fed ends with the last token there is.
LEMMA FedEnds ==
    ASSUME GenTypeOK
    PROVE  /\ Fed[Len(Fed)] = Last(all_ids)
           /\ Last(all_ids) = all_ids[Len(all_ids)]
  <1> DEFINE m == Len(all_ids)
  <1>1. /\ all_ids \in Seq(Vocab) /\ m \in Nat /\ prompt_len \in 1 .. m
    BY DEF GenTypeOK
  <1>2. Last(all_ids) = all_ids[m]
    BY DEF Last
  <1>3. Len(Fed) = IF caller = "generate" \/ Early THEN m ELSE m + 1
    BY FedFacts
  <1>4. CASE caller = "generate" \/ Early
    BY <1>2, <1>3, <1>4 DEF Fed
  <1>5. CASE ~ (caller = "generate" \/ Early)
    <2>1. Fed = Repeated(all_ids)
      BY <1>5 DEF Fed
    <2>2. m + 1 \in prompt_len + 1 .. m + 1 /\ (m + 1) - 1 = m
      BY <1>1
    <2>3. Repeated(all_ids)[m + 1] = all_ids[(m + 1) - 1]
      BY <1>1, <2>2, RepeatedIs
    <2>4. QED
      BY <1>2, <1>3, <1>5, <2>1, <2>2, <2>3
  <1>6. QED
    BY <1>2, <1>4, <1>5

\* The first pass over a single token begins where the cache ends.
LEMMA DecodeStarts ==
    ASSUME GInv, pc = "ready", pc' = "decode",
           Call(<<Last(all_ids)>>, Place[Before + 1]),
           UNCHANGED <<caller, prompt_len, all_ids, cache>>
    PROVE  GInv'
  <1> DEFINE n == Len(Fed)
  <1>1. /\ GenTypeOK /\ CacheRight
        /\ hidden' = <<Last(all_ids)>> /\ position_offset' = Place[Before + 1]
        /\ layer' = 0
    BY DEF GInv, Call
  <1>2. /\ ~ Running /\ Running' /\ ~ Early /\ ~ Early' /\ Place' = Place
    BY DEF Running, Early, Place
  <1>3. Fed' = Fed
    <2>1. Repeated(all_ids)' = Repeated(all_ids)
      BY DEF Repeated
    <2>2. QED
      BY <1>2, <2>1 DEF Fed
  <1>4. Before' = Before /\ Before = n - 1
    BY <1>2, <1>3 DEF Before
  <1>5. List(Fed, n) /\ n \in Nat \ {0}
    BY <1>1, FedFacts
  <1>6. GenTypeOK'
    BY <1>1, <1>2, LayerFacts DEF GenTypeOK
  <1>7. CacheRight'
    <2>1. ASSUME NEW l \in Layers
          PROVE  CachedUpTo(l)' = Before /\ CachedUpTo(l) = Before
      BY <1>1, <1>2, <1>4, LayerFacts DEF CachedUpTo, Layers
    <2>2. QED
      BY <1>1, <1>2, <1>3, <2>1 DEF CacheRight
  <1>8. HiddenRight'
    <2>1. StatesAt(Fed, Place)[0] = Fed
      BY FirstStates
    <2> DEFINE d == SubSeq(Fed, Before + 1, n)
               e == <<Last(all_ids)>>
    <2>2. /\ Before + 1 \in Int /\ n \in Int /\ Before + 1 <= n + 1
          /\ n - (Before + 1) + 1 = 1 /\ (Before + 1) + 1 - 1 = n
      BY <1>4, <1>5
    <2>3. List(d, 1) /\ d[1] = Fed[n]
      <3>1. /\ List(d, n - (Before + 1) + 1)
            /\ \A i \in 1 .. n - (Before + 1) + 1 : d[i] = Fed[(Before + 1) + i - 1]
        BY <2>2, PartOf
      <3>2. QED
        BY <2>2, <3>1
    <2>4. Fed[n] = Last(all_ids)
      BY <1>1, FedEnds
    <2>5. List(e, 1) /\ e[1] = Last(all_ids)
      BY DEF List
    <2> HIDE DEF d, e
    <2>6. d = e
      BY <2>3, <2>4, <2>5, SameList
    <2>7. hidden' = SubSeq(StatesAt(Fed, Place)[0], Before + 1, n)
      BY <1>1, <2>1, <2>6 DEF d, e
    <2>8. QED
      BY <1>1, <1>2, <1>3, <1>4, <2>7 DEF HiddenRight
  <1>9. QED
    BY <1>6, <1>7, <1>8 DEF GInv

LEMMA DecodeNextKeeps == GInv /\ DecodeNext => GInv'
  <1> SUFFICES ASSUME GInv, DecodeNext
               PROVE  GInv'
    OBVIOUS
  <1>1. /\ GenTypeOK /\ CacheRight /\ pc = "ready" /\ pc' = "decode"
        /\ caller = "generate" /\ Call(<<Last(all_ids)>>, CachedLen)
        /\ UNCHANGED <<caller, prompt_len, all_ids, cache>>
    BY DEF GInv, DecodeNext
  <1>2. /\ Before \in 0 .. Len(Fed) - 1 /\ Before \in Nat /\ Len(Fed) \in Nat /\ List(Fed, Len(Fed))
        /\ prompt_len \in Nat
    BY <1>1, FedFacts DEF GenTypeOK
  <1>3. CachedLen = Before
    <2> DEFINE keys == KeysOf(StatesAt(Fed, Place)[0], Place)
               d == SubSeq(keys, 1, Before)
    <2>1. cache[0] = d
      BY <1>1, LayerFacts DEF CacheRight, CachedUpTo, Running
    <2>2. 1 \in Int /\ Before \in Int /\ 1 <= Before + 1 /\ Before - 1 + 1 = Before
      BY <1>2
    <2>3. List(d, Before)
      BY <2>2, PartOf
    <2> HIDE DEF d
    <2>4. QED
      BY <2>1, <2>3, ListIsSeq DEF CachedLen
  <1>4. Place[Before + 1] = Before
    BY <1>1, <1>2, PlaceFacts
  <1>5. QED
    BY <1>1, <1>3, <1>4, DecodeStarts

LEMMA DecodeOneKeeps == GInv /\ DecodeOne => GInv'
  <1> SUFFICES ASSUME GInv, DecodeOne
               PROVE  GInv'
    OBVIOUS
  <1>1. /\ GenTypeOK /\ pc = "ready" /\ pc' = "decode"
        /\ caller = "scheduler" /\ Call(<<Last(all_ids)>>, Len(all_ids) - 1)
        /\ UNCHANGED <<caller, prompt_len, all_ids, cache>>
    BY DEF GInv, DecodeOne
  <1>2. /\ prompt_len \in Nat /\ Len(all_ids) \in Nat /\ prompt_len <= Len(all_ids)
        /\ ~ Early
    BY <1>1 DEF GenTypeOK, Early
  <1>3. Len(Fed) = Len(all_ids) + 1
    BY <1>1, <1>2, FedFacts
  <1>4. Before + 1 = Len(all_ids) + 1
    BY <1>2, <1>3 DEF Before
  <1>5. Place[Before + 1] = Len(all_ids) - 1
    BY <1>1, <1>2, <1>4, PlaceFacts
  <1>6. QED
    BY <1>1, <1>5, DecodeStarts

LEMMA GInvStep == GInv /\ [Next]_vars => GInv'
  <1> SUFFICES ASSUME GInv, [Next]_vars
               PROVE  GInv'
    OBVIOUS
  <1>1. CASE Prefill
    BY <1>1, PrefillKeeps
  <1>2. CASE RunLayer
    BY <1>2, RunLayerKeeps
  <1>3. CASE DropLogits
    BY <1>3, DropLogitsKeeps
  <1>4. CASE \E token \in Vocab : Sample(token)
    BY <1>4, SampleKeeps
  <1>5. CASE DecodeNext
    BY <1>5, DecodeNextKeeps
  <1>6. CASE DecodeOne
    BY <1>6, DecodeOneKeeps
  <1>7. CASE UNCHANGED vars
    <2>1. /\ GenTypeOK /\ CacheRight /\ HiddenRight
          /\ UNCHANGED <<caller, prompt_len, all_ids, cache, hidden, position_offset,
                         layer, pc>>
      BY <1>7 DEF GInv, vars
    <2>2. Early' = Early /\ Running' = Running /\ Place' = Place
      BY <2>1 DEF Early, Running, Place
    <2>3. Fed' = Fed
      <3>1. Repeated(all_ids)' = Repeated(all_ids)
        BY <2>1 DEF Repeated
      <3>2. QED
        BY <2>1, <2>2, <3>1 DEF Fed
    <2>4. Before' = Before
      BY <2>2, <2>3 DEF Before
    <2>5. \A l : CachedUpTo(l)' = CachedUpTo(l)
      BY <2>1, <2>2, <2>3, <2>4 DEF CachedUpTo
    <2>6. GenTypeOK'
      BY <2>1, <2>2 DEF GenTypeOK
    <2>7. CacheRight'
      BY <2>1, <2>2, <2>3, <2>5 DEF CacheRight
    <2>8. HiddenRight'
      BY <2>1, <2>2, <2>3, <2>4 DEF HiddenRight
    <2>9. QED
      BY <2>6, <2>7, <2>8 DEF GInv
  <1>8. QED
    BY <1>1, <1>2, <1>3, <1>4, <1>5, <1>6, <1>7 DEF Next

\* In every pass, of either caller, what is cached and what is computed is what
\* a pass over the whole of what has been fed would compute.
THEOREM GenerationInvariant == Spec => []GInv
  BY InitGInv, GInvStep, PTL DEF Spec

-----------------------------------------------------------------------------
(* What the callers sample from, and what is cached between two passes *)

\* The last logits of a pass are those of what has been fed.
LEMMA LogitsOfFed ==
    ASSUME GInv, LogitsReady
    PROVE  Last(hidden) = Last(StatesAt(Fed, Place)[NumLayers])
  <1> DEFINE hs == StatesAt(Fed, Place)[NumLayers]
             n == Len(Fed)
             k == n - Before
  <1>1. /\ GenTypeOK /\ layer = NumLayers
        /\ hidden = SubSeq(hs, Before + 1, n)
    BY DEF GInv, HiddenRight, LogitsReady, PassEnds, Running
  <1>2. List(Fed, n) /\ n \in Nat \ {0} /\ Before \in 0 .. n - 1
    BY <1>1, FedFacts
  <1>3. List(hs, n)
    BY <1>2, LayerFacts, StatesAreLists
  <1> HIDE DEF hs, n
  <1>4. /\ Before + 1 \in Int /\ n \in Int /\ Before + 1 <= n + 1
        /\ n - (Before + 1) + 1 = k /\ k \in 1 .. k /\ (Before + 1) + k - 1 = n
    BY <1>2
  <1>5. List(hidden, k) /\ hidden[k] = hs[n]
    <2>1. /\ List(hidden, n - (Before + 1) + 1)
          /\ \A i \in 1 .. n - (Before + 1) + 1 : hidden[i] = hs[(Before + 1) + i - 1]
      BY <1>1, <1>4, PartOf
    <2> HIDE DEF k
    <2>2. QED
      BY <1>4, <2>1
  <1>6. Last(hidden) = hidden[k] /\ Last(hs) = hs[n]
    BY <1>3, <1>5, LastOf
  <1>7. QED
    BY <1>5, <1>6 DEF hs

\* What generate() has been fed are all tokens there are.
LEMMA GenerateRight == GInv => GenerateMatchesForward
  <1> SUFFICES ASSUME GInv, caller = "generate", LogitsReady
               PROVE  Last(hidden) = ForwardLogits(all_ids)
    BY DEF GenerateMatchesForward
  <1>1. GenTypeOK /\ prompt_len \in Nat /\ Fed = all_ids
    BY DEF GInv, GenTypeOK, Fed
  <1>2. List(all_ids, Len(all_ids))
    BY <1>1, FedFacts
  <1>3. StatesBelow(all_ids)[NumLayers] = StatesAt(all_ids, Place)[NumLayers]
    BY <1>1, <1>2, LayerFacts, ForwardStates
  <1>4. Last(hidden) = Last(StatesAt(all_ids, Place)[NumLayers])
    BY <1>1, LogitsOfFed
  <1>5. QED
    BY <1>3, <1>4 DEF ForwardLogits

\* What the scheduler has fed after the prefill has the prompt's last token
\* twice.
LEMMA ScheduledRight == GInv => ScheduledMatchesRepeated
  <1> SUFFICES ASSUME GInv, caller = "scheduler", pc = "decode", LogitsReady
               PROVE  Last(hidden) = RepeatedLogits(all_ids)
    BY DEF ScheduledMatchesRepeated
  <1>1. GenTypeOK /\ prompt_len \in Nat /\ Fed = Repeated(all_ids) /\ caller # "generate"
    BY DEF GInv, GenTypeOK, Fed, Early
  <1>2. List(Repeated(all_ids), Len(Repeated(all_ids)))
    BY <1>1, FedFacts
  <1>3. RepeatedStates(all_ids)[NumLayers] = StatesAt(Repeated(all_ids), Place)[NumLayers]
    BY <1>1, <1>2, LayerFacts, ScheduledStates
  <1>4. Last(hidden) = Last(StatesAt(Repeated(all_ids), Place)[NumLayers])
    BY <1>1, LogitsOfFed
  <1>5. QED
    BY <1>3, <1>4 DEF RepeatedLogits

\* A pass over more tokens has the keys of a pass over fewer at its beginning:
\* between two passes the last token is not cached yet, and without it the
\* forward pass gives all that is cached.
LEMMA CacheMatches == GInv => CacheMatchesForward
  <1> DEFINE ids == Front(all_ids)
             n == Len(all_ids) - 1
  <1> SUFFICES ASSUME GInv, caller = "generate", pc = "ready", NEW l \in Layers
               PROVE  cache[l] = KeysAt(StatesBelow(ids)[l], 0)
    BY DEF CacheMatchesForward
  <1>1. /\ GenTypeOK /\ CacheRight /\ Fed = all_ids /\ ~ Early /\ ~ Running
        /\ prompt_len \in Nat /\ l \in 0 .. NumLayers
        /\ all_ids \in Seq(Vocab) /\ all_ids # <<>> /\ n \in Nat
    BY LayerFacts DEF GInv, GenTypeOK, Fed, Early, Running
  <1>2. List(all_ids, n + 1)
    <2>1. Len(all_ids) = n + 1
      BY <1>1
    <2>2. QED
      BY <1>1, <2>1, SeqIsList
  <1>3. List(ids, n) /\ \A i \in 1 .. n : all_ids[i] = ids[i]
    <2>1. /\ ids \in Seq(Vocab) /\ Len(ids) = Len(all_ids) - 1
          /\ \A i \in 1 .. Len(all_ids) - 1 : ids[i] = all_ids[i]
      BY <1>1, FrontFacts
    <2>2. List(ids, Len(ids))
      BY <2>1, SeqIsList
    <2>3. QED
      BY <2>1, <2>2
  <1> HIDE DEF ids
  <1>4. CachedUpTo(l) = n
    BY <1>1 DEF CachedUpTo, Before
  <1> DEFINE x == StatesAt(ids, Place)[l]
             keys == KeysOf(x, Place)
  <1>5. List(x, n)
    BY <1>1, <1>3, StatesAreLists
  <1>6. cache[l] = SubSeq(KeysOf(StatesAt(all_ids, Place)[l], Place), 1, n)
    BY <1>1, <1>4 DEF CacheRight
  <1>7. SubSeq(KeysOf(StatesAt(all_ids, Place)[l], Place), 1, n) = SubSeq(keys, 1, n)
    <2>1. n <= n + 1
      BY <1>1
    <2> HIDE DEF n
    <2>2. Extends(all_ids, n + 1, ids, n)
      BY <1>2, <1>3, <2>1 DEF Extends
    <2>3. KeysUpTo(StatesAt(all_ids, Place)[l], Place, n) = KeysUpTo(x, Place, n)
      BY <1>1, <2>2, KeysStay
    <2>4. QED
      BY <2>3 DEF KeysUpTo
  <1> HIDE DEF x
  <1>8. SubSeq(keys, 1, n) = keys
    <2>1. List(keys, n)
      BY <1>5, LayerIsList
    <2> HIDE DEF keys
    <2>2. QED
      BY <2>1, WholeList
  <1>9. KeysAt(x, 0) = keys
    <2>1. DOMAIN x = 1 .. n
      BY <1>5 DEF List
    <2>2. \A i \in DOMAIN x : Place[i] = 0 + i - 1
      BY <1>1, <2>1, PlaceFacts
    <2>3. QED
      BY <2>2 DEF KeysAt, KeysOf
  <1>10. StatesBelow(ids)[l] = x
    BY <1>1, <1>3, ForwardStates DEF x
  <1>11. QED
    BY <1>6, <1>7, <1>8, <1>9, <1>10

\* generate() samples every token from what a forward pass over the whole
\* sequence without a cache gives.
THEOREM CachedGenerateIsForward == Spec => []GenerateMatchesForward
  BY GenerationInvariant, GenerateRight, PTL

\* The cache of generate() holds what that forward pass computes, one entry for
\* each token but the one just sampled.
THEOREM CacheIsForward == Spec => []CacheMatchesForward
  BY GenerationInvariant, CacheMatches, PTL

\* The scheduler samples from a forward pass over the sequence with the last
\* token of the prompt twice.
THEOREM ScheduledIsRepeated == Spec => []ScheduledMatchesRepeated
  BY GenerationInvariant, ScheduledRight, PTL

=============================================================================
