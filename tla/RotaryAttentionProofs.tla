------------------------- MODULE RotaryAttentionProofs -------------------------
(***************************************************************************)
(* The theorem about RotaryAttention, for every number of heads and of     *)
(* groups, every head size, all positions and all frequencies.             *)
(***************************************************************************)
EXTENDS RotaryAttention, ListFacts

-----------------------------------------------------------------------------
(* Rotations *)

\* cos(a - b) and sin(a - b)
LEMMA Differences ==
    ASSUME NEW a \in Int, NEW b \in Int
    PROVE  /\ Cos(a - b) = Cos(a) * Cos(b) + Sin(a) * Sin(b)
           /\ Sin(a - b) = Sin(a) * Cos(b) - Cos(a) * Sin(b)
           /\ {Cos(a), Sin(a)} \subseteq {-1, 0, 1}
  <1>1. a % 4 \in {0, 1, 2, 3} /\ b % 4 \in {0, 1, 2, 3}
    OBVIOUS
  <1>2. /\ a % 4 = b % 4 => (a - b) % 4 = 0
        /\ \/ (a % 4 = 0 /\ b % 4 = 3) \/ (a % 4 = 1 /\ b % 4 = 0)
           \/ (a % 4 = 2 /\ b % 4 = 1) \/ (a % 4 = 3 /\ b % 4 = 2)
           => (a - b) % 4 = 1
        /\ \/ (a % 4 = 0 /\ b % 4 = 2) \/ (a % 4 = 1 /\ b % 4 = 3)
           \/ (a % 4 = 2 /\ b % 4 = 0) \/ (a % 4 = 3 /\ b % 4 = 1)
           => (a - b) % 4 = 2
        /\ \/ (a % 4 = 0 /\ b % 4 = 1) \/ (a % 4 = 1 /\ b % 4 = 2)
           \/ (a % 4 = 2 /\ b % 4 = 3) \/ (a % 4 = 3 /\ b % 4 = 0)
           => (a - b) % 4 = 3
    OBVIOUS
  <1>3. \A n \in Int : /\ n % 4 = 0 => Cos(n) = 1 /\ Sin(n) = 0
                       /\ n % 4 = 1 => Cos(n) = 0 /\ Sin(n) = 1
                       /\ n % 4 = 2 => Cos(n) = -1 /\ Sin(n) = 0
                       /\ n % 4 = 3 => Cos(n) = 0 /\ Sin(n) = -1
    BY DEF Cos, Sin
  <1>4. a - b \in Int
    OBVIOUS
  <1>5. QED
    BY <1>1, <1>2, <1>3, <1>4

\* The numbers of heads and elements.
LEMMA Sizes ==
    /\ HeadDim \in Nat \ {0} /\ Half \in Nat \ {0} /\ HeadDim = 2 * Half
    /\ NumHeads \in Nat \ {0} /\ NumKvHeads \in Nat \ {0} /\ NumGroups \in Nat \ {0}
    /\ NumHeads = NumKvHeads * NumGroups
    /\ InvFreq \in [0 .. Half - 1 -> Nat]
    /\ Dims = 0 .. 2 * Half - 1
  <1>1. /\ HeadDim \in Nat \ {0} /\ HeadDim = 2 * Half /\ InvFreq \in [0 .. Half - 1 -> Nat]
        /\ NumHeads \in Nat \ {0} /\ NumKvHeads \in Nat \ {0}
        /\ NumHeads = NumKvHeads * NumGroups
    BY RotaryAttentionAssumption
  <1>2. Half \in Int
    BY <1>1 DEF Half
  <1>3. NumGroups \in Int
    BY <1>1 DEF NumGroups
  <1>4. Half \in Nat \ {0}
    BY <1>1, <1>2
  <1>5. NumGroups \in Nat \ {0}
    BY <1>1, <1>3
  <1>6. QED
    BY <1>1, <1>4, <1>5 DEF Dims

\* Quotient and remainder are where they are expected.
LEMMA Quotient ==
    ASSUME NEW n \in Nat \ {0}, NEW a \in Nat, NEW r \in 0 .. n - 1
    PROVE  (a * n + r) \div n = a /\ (a * n + r) % n = r
  OBVIOUS

\* A product grows with its factor.
LEMMA Times ==
    ASSUME NEW a \in Nat, NEW b \in Nat, NEW c \in Nat, a <= b
    PROVE  a * c <= b * c /\ a * c \in Nat /\ b * c \in Nat
  OBVIOUS

\* What is at a position of a row.
LEMMA InRow ==
    ASSUME NEW n \in Nat, NEW h \in 0 .. n - 1, NEW d \in Dims
    PROVE  h * HeadDim + d \in 0 .. n * HeadDim - 1
  <1>1. HeadDim \in Nat /\ d \in 0 .. HeadDim - 1
    BY Sizes DEF Dims
  <1>2. h \in Nat /\ h + 1 \in Nat /\ h + 1 <= n
    OBVIOUS
  <1>3. (h + 1) * HeadDim <= n * HeadDim /\ n * HeadDim \in Nat /\ h * HeadDim \in Nat
    BY <1>1, <1>2, Times
  <1>4. (h + 1) * HeadDim = h * HeadDim + HeadDim
    BY <1>1, <1>2
  <1>5. QED
    BY <1>1, <1>3, <1>4

\* A query head has a KV head.
LEMMA HasKvHead ==
    ASSUME NEW h \in Heads
    PROVE  h \div NumGroups \in KvHeads
  <1> DEFINE e == h \div NumGroups
  <1>1. /\ NumGroups \in Nat \ {0} /\ NumKvHeads \in Nat /\ NumHeads = NumKvHeads * NumGroups
        /\ h \in Nat /\ h < NumHeads
    BY Sizes DEF Heads
  <1>2. e \in Nat /\ e * NumGroups <= h
    BY <1>1
  <1> HIDE DEF e
  <1>3. e < NumKvHeads
    <2> SUFFICES ASSUME NumKvHeads <= e
                 PROVE  FALSE
      BY <1>1, <1>2
    <2>1. NumKvHeads * NumGroups <= e * NumGroups
      BY <1>1, <1>2, Times
    <2>2. e * NumGroups \in Nat /\ NumKvHeads * NumGroups \in Nat
      BY <1>1, <1>2
    <2>3. QED
      BY <1>1, <1>2, <2>1, <2>2
  <1>4. QED
    BY <1>1, <1>2, <1>3 DEF KvHeads, e

-----------------------------------------------------------------------------
(* The inductive invariant: what each step has made of the rows *)

RowsOK ==
    /\ q_row \in [0 .. NumHeads * HeadDim - 1 -> Int]
    /\ k_row \in [0 .. NumKvHeads * HeadDim - 1 -> Int]
    /\ v_row \in [0 .. NumKvHeads * HeadDim - 1 -> Int]
    /\ q_pos \in Nat /\ k_pos \in Nat

TurnedQ == [h \in Heads |-> ApplyRope(Split(q_row, NumHeads)[h], q_pos)]
TurnedK == [h \in KvHeads |-> ApplyRope(Split(k_row, NumKvHeads)[h], k_pos)]

RInv ==
    /\ RowsOK
    /\ pc \in {"split", "rotate", "repeat", "attend", "done"}
    /\ pc = "rotate" => q = Split(q_row, NumHeads) /\ k = Split(k_row, NumKvHeads)
    /\ pc \in {"rotate", "repeat"} => v = Split(v_row, NumKvHeads)
    /\ pc \in {"repeat", "attend", "done"} => q = TurnedQ
    /\ pc = "repeat" => k = TurnedK
    /\ pc \in {"attend", "done"} =>
          k = RepeatKv(TurnedK) /\ v = RepeatKv(Split(v_row, NumKvHeads))
    /\ pc = "done" => out = Merge(v)

LEMMA InitRInv == Init => RInv
  <1> SUFFICES ASSUME Init
               PROVE  RInv
    OBVIOUS
  <1>1. pc = "split"
    BY DEF Init
  <1>2. q_row \in [0 .. NumHeads * HeadDim - 1 -> Int]
    BY DEF Init, Units
  <1>3. k_row \in [0 .. NumKvHeads * HeadDim - 1 -> Int]
    BY DEF Init, Units
  <1>4. v_row \in [0 .. NumKvHeads * HeadDim - 1 -> Int]
    BY DEF Init
  <1>5. q_pos \in Nat /\ k_pos \in Nat
    BY RotaryAttentionAssumption DEF Init
  <1>6. QED
    BY <1>1, <1>2, <1>3, <1>4, <1>5 DEF RInv, RowsOK

LEMMA RInvStep == RInv /\ [Next]_vars => RInv'
  <1> SUFFICES ASSUME RInv, [Next]_vars
               PROVE  RInv'
    OBVIOUS
  <1>1. UNCHANGED input
    BY DEF Next, ProjectAndSplit, Rotate, Repeat, Attend, vars, input
  <1>2. RowsOK' /\ TurnedQ' = TurnedQ /\ TurnedK' = TurnedK
    BY <1>1 DEF RInv, RowsOK, TurnedQ, TurnedK, input
  <1>3. CASE ProjectAndSplit
    BY <1>1, <1>2, <1>3 DEF RInv, ProjectAndSplit, input
  <1>4. CASE Rotate
    BY <1>1, <1>2, <1>4 DEF RInv, Rotate, input, TurnedQ, TurnedK
  <1>5. CASE Repeat
    BY <1>1, <1>2, <1>5 DEF RInv, Repeat, input
  <1>6. CASE Attend
    BY <1>1, <1>2, <1>6 DEF RInv, Attend, input
  <1>7. CASE UNCHANGED vars
    BY <1>1, <1>2, <1>7 DEF RInv, vars, input
  <1>8. QED
    BY <1>3, <1>4, <1>5, <1>6, <1>7 DEF Next

-----------------------------------------------------------------------------
(* The score *)

\* The sum over the elements of a head.
LEMMA ScoreIsSum ==
    ASSUME NEW h, NEW f, f = [d \in Dims |-> q[h][d] * k[h][d]],
           \A d \in Dims : f[d] \in Int
    PROVE  Score(h) = Sums(f, Dims, HeadDim)[HeadDim]
  <1> DEFINE Is(it) == it = [s \in SUBSET Dims |->
                 IF s = {} THEN 0
                 ELSE q[h][CHOOSE x \in s : TRUE] * k[h][CHOOSE x \in s : TRUE]
                        + it[s \ {CHOOSE x \in s : TRUE}]]
             sum == CHOOSE it : Is(it)
  <1>1. HeadDim \in Nat /\ Dims = 0 .. HeadDim - 1
    BY RotaryAttentionAssumption DEF Dims
  <1>2. ASSUME NEW it
        PROVE  Is(it) <=> Adds(it, f, Dims)
    <2>1. ASSUME NEW s \in SUBSET Dims, s # {}
          PROVE  f[CHOOSE x \in s : TRUE]
                   = q[h][CHOOSE x \in s : TRUE] * k[h][CHOOSE x \in s : TRUE]
      <3>1. (CHOOSE x \in s : TRUE) \in Dims
        BY <2>1
      <3>2. QED
        BY <3>1
    <2>2. QED
      BY <2>1 DEF Adds
  <1>3. \E it : Adds(it, f, Dims)
    BY <1>1, AddsExists
  <1>4. Score(h) = sum[Dims]
    BY DEF Score, MapThenSumSet, MapThenFoldSet
  <1> HIDE DEF Is
  <1>5. Is(sum)
    BY <1>2, <1>3
  <1> HIDE DEF sum
  <1>6. Adds(sum, f, Dims)
    BY <1>2, <1>5
  <1>7. sum[Dims] = Sums(f, Dims, HeadDim)[HeadDim]
    BY <1>1, <1>6, AddsIsSum
  <1>8. QED
    BY <1>4, <1>7

\* The terms of the definition.
QueryAt(h, d) == q_row[h * HeadDim + d]
KeyAt(h, d) == k_row[(h \div NumGroups) * HeadDim + d]
Turn(j) == InvFreq[j] * (q_pos - k_pos)
Term(h, j) ==
    (QueryAt(h, j) * KeyAt(h, j) + QueryAt(h, j + Half) * KeyAt(h, j + Half)) * Cos(Turn(j))
      + (QueryAt(h, j) * KeyAt(h, j + Half) - QueryAt(h, j + Half) * KeyAt(h, j)) * Sin(Turn(j))

\* The sum over the pairs of a head.
LEMMA DefinitionIsSum ==
    ASSUME NEW h, NEW f, f = [j \in 0 .. Half - 1 |-> Term(h, j)],
           \A j \in 0 .. Half - 1 : f[j] \in Int
    PROVE  DefinedScore(h) = Sums(f, 0 .. Half - 1, Half)[Half]
  <1> DEFINE S == 0 .. Half - 1
             Is(it) == it = [s \in SUBSET S |->
                 IF s = {} THEN 0
                 ELSE Term(h, CHOOSE x \in s : TRUE) + it[s \ {CHOOSE x \in s : TRUE}]]
             sum == CHOOSE it : Is(it)
  <1>1. Half \in Nat
    BY RotaryAttentionAssumption DEF Half
  <1>2. ASSUME NEW it
        PROVE  Is(it) <=> Adds(it, f, S)
    <2>1. ASSUME NEW s \in SUBSET S, s # {}
          PROVE  f[CHOOSE x \in s : TRUE] = Term(h, CHOOSE x \in s : TRUE)
      <3>1. (CHOOSE x \in s : TRUE) \in S
        BY <2>1
      <3>2. QED
        BY <3>1
    <2> HIDE DEF S
    <2>2. QED
      BY <2>1 DEF Adds
  <1>3. \E it : Adds(it, f, S)
    BY <1>1, AddsExists
  <1>4. DefinedScore(h) = sum[S]
    BY DEF DefinedScore, MapThenSumSet, MapThenFoldSet, Term, QueryAt, KeyAt, Turn
  <1> HIDE DEF Is
  <1>5. Is(sum)
    BY <1>2, <1>3
  <1> HIDE DEF sum
  <1>6. Adds(sum, f, S)
    BY <1>2, <1>5
  <1>7. sum[S] = Sums(f, S, Half)[Half]
    BY <1>1, <1>6, AddsIsSum
  <1>8. QED
    BY <1>4, <1>7

\* An element of a vector that has been turned, and its partner.
LEMMA TurnedAt ==
    ASSUME NEW x, NEW pos \in Nat, NEW j \in 0 .. Half - 1,
           NEW a, a = pos * InvFreq[j]
    PROVE  /\ j \in Dims /\ j + Half \in Dims
           /\ ApplyRope(x, pos)[j] = x[j] * Cos(a) + (-x[j + Half]) * Sin(a)
           /\ ApplyRope(x, pos)[j + Half] = x[j + Half] * Cos(a) + x[j] * Sin(a)
  <1>1. /\ Half \in Nat \ {0} /\ Dims = 0 .. 2 * Half - 1 /\ j \in Nat /\ j < Half
        /\ j \in Dims /\ j + Half \in Dims
    BY Sizes
  <1>2. j % Half = j /\ (j + Half) % Half = j
    <2>1. 0 * Half + j = j /\ 1 * Half + j = j + Half
      BY <1>1
    <2>2. (0 * Half + j) % Half = j /\ (1 * Half + j) % Half = j
      BY <1>1, Quotient
    <2>3. QED
      BY <2>1, <2>2
  <1>3. Angle(pos, j) = a /\ Angle(pos, j + Half) = a
    BY <1>2 DEF Angle
  <1>4. RotateHalf(x)[j] = -x[j + Half] /\ RotateHalf(x)[j + Half] = x[j]
    <2>1. (j + Half) - Half = j /\ ~ j + Half < Half
      BY <1>1
    <2>2. QED
      BY <1>1, <2>1 DEF RotateHalf
  <1>5. QED
    BY <1>1, <1>3, <1>4 DEF ApplyRope

\* The part of a score that a pair of elements gives, as the code has it and by
\* definition.
PairSum(x, y, j) == x[j] * y[j] + x[j + Half] * y[j + Half]

TurnedPair(x, y, j, turn) ==
    (x[j] * y[j] + x[j + Half] * y[j + Half]) * Cos(turn)
      + (x[j] * y[j + Half] - x[j + Half] * y[j]) * Sin(turn)

\* By how much pair j of a query turns against that of a key.
TurnOf(j, pos, at) == InvFreq[j] * (pos - at)

\* They are the same.
LEMMA PairScore ==
    ASSUME NEW x \in [Dims -> Int], NEW y \in [Dims -> Int],
           NEW pos \in Nat, NEW at \in Nat, NEW j \in 0 .. Half - 1,
           NEW rx, rx = ApplyRope(x, pos), NEW ry, ry = ApplyRope(y, at)
    PROVE  /\ PairSum(rx, ry, j) = TurnedPair(x, y, j, TurnOf(j, pos, at))
           /\ {rx[j], rx[j + Half], ry[j], ry[j + Half]} \subseteq Int
  <1> DEFINE a == pos * InvFreq[j]
             b == at * InvFreq[j]
             turn == TurnOf(j, pos, at)
  <1>1. InvFreq[j] \in Nat
    BY Sizes
  <1>2. a \in Int /\ b \in Int /\ turn = a - b
    BY <1>1 DEF TurnOf
  <1>3. /\ j \in Dims /\ j + Half \in Dims
        /\ rx[j] = x[j] * Cos(a) + (-x[j + Half]) * Sin(a)
        /\ rx[j + Half] = x[j + Half] * Cos(a) + x[j] * Sin(a)
    BY TurnedAt
  <1>4. /\ ry[j] = y[j] * Cos(b) + (-y[j + Half]) * Sin(b)
        /\ ry[j + Half] = y[j + Half] * Cos(b) + y[j] * Sin(b)
    BY TurnedAt
  <1> HIDE DEF a, b, turn
  <1>5. /\ Cos(turn) = Cos(a) * Cos(b) + Sin(a) * Sin(b)
        /\ Sin(turn) = Sin(a) * Cos(b) - Cos(a) * Sin(b)
        /\ Cos(a) \in Int /\ Sin(a) \in Int /\ Cos(b) \in Int /\ Sin(b) \in Int
    <2>1. {Cos(a), Sin(a)} \subseteq {-1, 0, 1} /\ {Cos(b), Sin(b)} \subseteq {-1, 0, 1}
      BY <1>2, Differences
    <2>2. Cos(a) \in Int /\ Sin(a) \in Int /\ Cos(b) \in Int /\ Sin(b) \in Int
      BY <2>1
    <2>3. /\ Cos(a - b) = Cos(a) * Cos(b) + Sin(a) * Sin(b)
          /\ Sin(a - b) = Sin(a) * Cos(b) - Cos(a) * Sin(b)
      BY <1>2, Differences
    <2>4. QED
      BY <1>2, <2>2, <2>3
  <1>6. x[j] \in Int /\ x[j + Half] \in Int /\ y[j] \in Int /\ y[j + Half] \in Int
    BY <1>3
  <1>7. (x[j] * Cos(a) + (-x[j + Half]) * Sin(a)) * (y[j] * Cos(b) + (-y[j + Half]) * Sin(b))
          + (x[j + Half] * Cos(a) + x[j] * Sin(a)) * (y[j + Half] * Cos(b) + y[j] * Sin(b))
        = (x[j] * y[j] + x[j + Half] * y[j + Half]) * (Cos(a) * Cos(b) + Sin(a) * Sin(b))
            + (x[j] * y[j + Half] - x[j + Half] * y[j])
                * (Sin(a) * Cos(b) - Cos(a) * Sin(b))
    <2> DEFINE x1 == x[j]
               x2 == x[j + Half]
               y1 == y[j]
               y2 == y[j + Half]
               c == Cos(a)
               s == Sin(a)
               cc == Cos(b)
               ss == Sin(b)
    <2>1. /\ x1 \in Int /\ x2 \in Int /\ y1 \in Int /\ y2 \in Int
          /\ c \in Int /\ s \in Int /\ cc \in Int /\ ss \in Int
      BY <1>5, <1>6
    <2> HIDE DEF x1, x2, y1, y2, c, s, cc, ss
    <2>2. (x1 * c + (-x2) * s) * (y1 * cc + (-y2) * ss)
            + (x2 * c + x1 * s) * (y2 * cc + y1 * ss)
          = (x1 * y1 + x2 * y2) * (c * cc + s * ss)
              + (x1 * y2 - x2 * y1) * (s * cc - c * ss)
      BY <2>1
    <2>3. QED
      BY <2>2 DEF x1, x2, y1, y2, c, s, cc, ss
  <1>8. {rx[j], rx[j + Half], ry[j], ry[j + Half]} \subseteq Int
    BY <1>3, <1>4, <1>5, <1>6
  <1>9. QED
    BY <1>3, <1>4, <1>5, <1>7, <1>8 DEF PairSum, TurnedPair, turn

\* A head of a row.
LEMMA HeadOf ==
    ASSUME NEW n \in Nat, NEW row \in [0 .. n * HeadDim - 1 -> Int], NEW h \in 0 .. n - 1
    PROVE  /\ Split(row, n)[h] \in [Dims -> Int]
           /\ \A d \in Dims : Split(row, n)[h][d] = row[h * HeadDim + d]
  <1>1. \A d \in Dims : h * HeadDim + d \in 0 .. n * HeadDim - 1
    BY InRow
  <1>2. \A d \in Dims : row[h * HeadDim + d] \in Int
    BY <1>1
  <1>3. Split(row, n)[h] = [d \in Dims |-> row[h * HeadDim + d]]
    BY DEF Split
  <1>4. QED
    BY <1>2, <1>3

LEMMA ScoreRight ==
    ASSUME RInv, pc = "done", NEW h \in Heads
    PROVE  Score(h) = DefinedScore(h)
  <1> DEFINE kv == h \div NumGroups
             x == Split(q_row, NumHeads)[h]
             y == Split(k_row, NumKvHeads)[kv]
             f == [d \in Dims |-> q[h][d] * k[h][d]]
             g == [j \in 0 .. Half - 1 |-> Term(h, j)]
  <1>1. /\ RowsOK /\ q = TurnedQ /\ k = RepeatKv(TurnedK) /\ kv \in KvHeads
        /\ NumHeads \in Nat /\ NumKvHeads \in Nat /\ h \in 0 .. NumHeads - 1
        /\ kv \in 0 .. NumKvHeads - 1
    BY Sizes, HasKvHead DEF RInv, Heads, KvHeads
  <1> HIDE DEF kv
  <1>2. /\ x \in [Dims -> Int] /\ \A d \in Dims : x[d] = QueryAt(h, d)
    BY <1>1, HeadOf DEF RowsOK, QueryAt
  <1>3. /\ y \in [Dims -> Int] /\ \A d \in Dims : y[d] = KeyAt(h, d)
    <2>1. y \in [Dims -> Int] /\ \A d \in Dims : y[d] = k_row[kv * HeadDim + d]
      BY <1>1, HeadOf DEF RowsOK
    <2>2. \A d \in Dims : KeyAt(h, d) = k_row[kv * HeadDim + d]
      BY DEF KeyAt, kv
    <2> HIDE DEF y
    <2>3. QED
      BY <2>1, <2>2
  <1>4. q[h] = ApplyRope(x, q_pos) /\ k[h] = ApplyRope(y, k_pos)
    <2>1. q[h] = ApplyRope(x, q_pos)
      BY <1>1 DEF TurnedQ
    <2>2. k[h] = TurnedK[kv]
      BY <1>1 DEF RepeatKv, kv
    <2>3. TurnedK[kv] = ApplyRope(y, k_pos)
      BY <1>1 DEF TurnedK
    <2>4. QED
      BY <2>1, <2>2, <2>3
  <1> HIDE DEF x, y
  <1>5. ASSUME NEW j \in 0 .. Half - 1
        PROVE  /\ q[h][j] * k[h][j] + q[h][j + Half] * k[h][j + Half] = Term(h, j)
               /\ {q[h][j], q[h][j + Half], k[h][j], k[h][j + Half]} \subseteq Int
               /\ j \in Dims /\ j + Half \in Dims
    <2> DEFINE turn == TurnOf(j, q_pos, k_pos)
    <2>1. q_pos \in Nat /\ k_pos \in Nat
      BY <1>1 DEF RowsOK
    <2>2. j \in Dims /\ j + Half \in Dims
      BY Sizes
    <2>3. /\ PairSum(q[h], k[h], j) = TurnedPair(x, y, j, turn)
          /\ {q[h][j], q[h][j + Half], k[h][j], k[h][j + Half]} \subseteq Int
      BY <1>2, <1>3, <1>4, <2>1, PairScore
    <2>4. turn = Turn(j)
      BY DEF Turn, TurnOf
    <2> HIDE DEF turn
    <2>5. Term(h, j) = TurnedPair(x, y, j, turn)
      BY <1>2, <1>3, <2>2, <2>4 DEF Term, TurnedPair
    <2>6. QED
      BY <2>2, <2>3, <2>5 DEF PairSum
  <1>6. \A d \in Dims : q[h][d] \in Int /\ k[h][d] \in Int
    <2>1. ASSUME NEW d \in Dims
          PROVE  q[h][d] \in Int /\ k[h][d] \in Int
      <3>1. Half \in Nat /\ d \in Nat /\ d < 2 * Half
        BY Sizes
      <3>2. CASE d < Half
        <4>1. d \in 0 .. Half - 1
          BY <3>1, <3>2
        <4>2. QED
          BY <1>5, <4>1
      <3>3. CASE ~ d < Half
        <4>1. d - Half \in 0 .. Half - 1 /\ (d - Half) + Half = d
          BY <3>1, <3>3
        <4>2. q[h][(d - Half) + Half] \in Int /\ k[h][(d - Half) + Half] \in Int
          BY <1>5, <4>1
        <4>3. QED
          BY <4>1, <4>2
      <3>4. QED
        BY <3>2, <3>3
    <2>2. QED
      BY <2>1
  <1>7. \A d \in Dims : f[d] \in Int /\ f[d] = q[h][d] * k[h][d]
    BY <1>6
  <1>8. \A j \in 0 .. Half - 1 : g[j] = f[j] + f[j + Half] /\ g[j] \in Int
    <2>1. ASSUME NEW j \in 0 .. Half - 1
          PROVE  g[j] = f[j] + f[j + Half] /\ f[j] \in Int /\ f[j + Half] \in Int
      BY <1>5, <1>7
    <2> HIDE DEF f, g
    <2>2. QED
      BY <2>1
  <1>9. Score(h) = Sums(f, Dims, HeadDim)[HeadDim]
    BY <1>7, ScoreIsSum
  <1>10. DefinedScore(h) = Sums(g, 0 .. Half - 1, Half)[Half]
    BY <1>8, DefinitionIsSum
  <1> HIDE DEF f, g
  <1>11. Sums(f, 0 .. 2 * Half - 1, 2 * Half)[2 * Half] = Sums(g, 0 .. Half - 1, Half)[Half]
    <2>1. Half \in Nat /\ \A d \in 0 .. 2 * Half - 1 : f[d] \in Int
      BY <1>7, Sizes
    <2>2. \A j \in 0 .. Half - 1 : g[j] = f[j] + f[j + Half]
      BY <1>8
    <2>3. QED
      BY <2>1, <2>2, SumOfPairs
  <1>12. Dims = 0 .. 2 * Half - 1 /\ HeadDim = 2 * Half
    BY Sizes
  <1>13. QED
    BY <1>9, <1>10, <1>11, <1>12

\* The output row has the value of each head's group.
LEMMA OutputRight ==
    ASSUME RInv, pc = "done", NEW h \in Heads, NEW d \in Dims
    PROVE  out[h * HeadDim + d] = v_row[(h \div NumGroups) * HeadDim + d]
  <1> DEFINE i == h * HeadDim + d
             kv == h \div NumGroups
  <1>1. /\ RowsOK /\ out = Merge(v) /\ v = RepeatKv(Split(v_row, NumKvHeads))
        /\ NumHeads \in Nat /\ NumKvHeads \in Nat /\ h \in 0 .. NumHeads - 1
        /\ kv \in 0 .. NumKvHeads - 1
    BY Sizes, HasKvHead DEF RInv, Heads, KvHeads
  <1>0. HeadDim \in Nat \ {0} /\ h \in Nat /\ d \in 0 .. HeadDim - 1
    BY <1>1, Sizes DEF Dims
  <1>2. i \in 0 .. NumHeads * HeadDim - 1
    BY <1>1, InRow
  <1>3. i \div HeadDim = h /\ i % HeadDim = d
    BY <1>0, Quotient
  <1> HIDE DEF i
  <1>4. out[i] = v[h][d]
    BY <1>1, <1>2, <1>3 DEF Merge
  <1>5. v[h] = Split(v_row, NumKvHeads)[kv]
    BY <1>1 DEF RepeatKv
  <1> HIDE DEF kv
  <1>6. Split(v_row, NumKvHeads)[kv][d] = v_row[kv * HeadDim + d]
    <2>1. v_row \in [0 .. NumKvHeads * HeadDim - 1 -> Int]
      BY <1>1 DEF RowsOK
    <2>2. \A e \in Dims : Split(v_row, NumKvHeads)[kv][e] = v_row[kv * HeadDim + e]
      BY <1>1, <2>1, HeadOf
    <2>3. QED
      BY <2>2
  <1>7. out[i] = v_row[kv * HeadDim + d]
    BY <1>4, <1>5, <1>6
  <1>8. QED
    BY <1>7 DEF i, kv

\* In every reachable state each step has made of the rows what it should.
THEOREM AttentionInvariant == Spec => []RInv
  BY InitRInv, RInvStep, PTL DEF Spec

\* The score that attention computes is that of grouped rotary attention, and
\* each head's output is the value of its group.
THEOREM AttentionIsRotary == Spec => []IsRotaryAttention
  <1>1. RInv => IsRotaryAttention
    BY ScoreRight, OutputRight DEF IsRotaryAttention
  <1>2. QED
    BY AttentionInvariant, <1>1, PTL

=============================================================================
