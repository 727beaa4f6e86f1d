--------------------------- MODULE SchedulerProofs ---------------------------
(***************************************************************************)
(* Theorems about the pool, which hold whoever calls it: the arithmetic of *)
(* blocks, what the methods leave in the two lists, and that no block is   *)
(* shared or lost.  Then those about the scheduler, from its inductive     *)
(* invariant IInv: its conjuncts are proved preserved one after the other, *)
(* each from IInv, and the theorems are at the end.                        *)
(***************************************************************************)
EXTENDS Scheduler, ListFacts

-----------------------------------------------------------------------------
(* The pool: arithmetic *)

\* The quotient and the remainder of a division by BlockSize.
LEMMA Division ==
    ASSUME NEW n \in Nat
    PROVE  /\ n \div BlockSize \in Nat
           /\ n % BlockSize \in 0 .. BlockSize - 1
           /\ n = BlockSize * (n \div BlockSize) + (n % BlockSize)
  BY BlockSizeAssumption, SMT

\* BlocksFor(n) is the least number of blocks that hold n tokens.
LEMMA BlocksForLeast ==
    ASSUME NEW n \in Nat
    PROVE  /\ BlocksFor(n) \in Nat
           /\ BlockSize * BlocksFor(n) >= n
           /\ BlockSize * BlocksFor(n) < n + BlockSize
  <1>1. n + BlockSize - 1 \in Nat
    BY BlockSizeAssumption
  <1>2. QED
    BY <1>1, Division, BlockSizeAssumption, SMT DEF BlocksFor

\* More tokens never take fewer blocks, and a token takes a block.
LEMMA BlocksForMonotone ==
    ASSUME NEW m \in Nat, NEW n \in Nat, m <= n
    PROVE  BlocksFor(m) <= BlocksFor(n)
  <1>1. BlockSize * BlocksFor(m) < BlockSize * BlocksFor(n) + BlockSize
    BY BlocksForLeast, BlockSizeAssumption
  <1>2. ASSUME BlocksFor(m) >= BlocksFor(n) + 1
        PROVE  BlockSize * BlocksFor(m) >= BlockSize * BlocksFor(n) + BlockSize
    BY <1>2, BlocksForLeast, BlockSizeAssumption, SMT
  <1>3. QED
    BY <1>1, <1>2, BlocksForLeast, BlockSizeAssumption

LEMMA BlocksForPositive ==
    ASSUME NEW n \in Nat \ {0}
    PROVE  BlocksFor(n) >= 1
  <1>1. CASE BlocksFor(n) = 0
    BY <1>1, BlocksForLeast, BlockSizeAssumption
  <1>2. QED
    BY <1>1, BlocksForLeast

\* The need for one more token is the difference it makes, at most one block.
LEMMA NeededForOne ==
    ASSUME NEW n \in Nat
    PROVE  /\ BlocksNeeded(n, 1) \in {0, 1}
           /\ BlocksFor(n + 1) = BlocksFor(n) + BlocksNeeded(n, 1)
  <1>1. BlocksFor(n) <= BlocksFor(n + 1)
    BY BlocksForMonotone
  <1>2. BlocksFor(n + 1) <= BlocksFor(n) + 1
    <2>1. BlockSize * BlocksFor(n + 1) < BlockSize * BlocksFor(n) + BlockSize + 1
      BY BlocksForLeast, BlockSizeAssumption
    <2>2. \A a, b \in Nat : a >= b + 2 => BlockSize * a >= BlockSize * b + 2 * BlockSize
      BY BlockSizeAssumption, SMT
    <2>3. BlocksFor(n) \in Nat /\ BlocksFor(n + 1) \in Nat
      BY BlocksForLeast
    <2>4. BlocksFor(n + 1) >= BlocksFor(n) + 2
            => BlockSize * BlocksFor(n + 1) >= BlockSize * BlocksFor(n) + 2 * BlockSize
      BY <2>2, <2>3, Zenon
    <2>5. QED
      BY <2>1, <2>3, <2>4, BlockSizeAssumption
  <1>3. BlocksFor(n) \in Nat /\ BlocksFor(n + 1) \in Nat
    BY BlocksForLeast
  <1>4. QED
    BY <1>1, <1>2, <1>3 DEF BlocksNeeded

-----------------------------------------------------------------------------
(* What the methods do to the two lists *)

\* The blocks that an allocation takes are the last ones of the free list.
LEMMA NewBlocksFacts ==
    ASSUME PoolTypeOK, NEW n \in Nat, CanAllocate(n)
    PROVE  /\ NewBlocks(n) \in Seq(Blocks)
           /\ Len(NewBlocks(n)) = n
           /\ \A i \in 1 .. n : NewBlocks(n)[i] = free[Len(free) + 1 - i]
  <1>1. \A i \in 1 .. n : free[Len(free) + 1 - i] \in Blocks
    BY DEF PoolTypeOK, CanAllocate
  <1>2. NewBlocks(n) \in Seq(Blocks)
    BY <1>1, IsASeq DEF NewBlocks
  <1>3. QED
    BY <1>2 DEF NewBlocks

\* allocate moves the last n free blocks to the end of the caller's list.
LEMMA AllocateFacts ==
    ASSUME PoolTypeOK, NEW s \in SeqIds, NEW n \in Nat, Allocate(s, n)
    PROVE  /\ PoolTypeOK'
           /\ Len(free') = Len(free) - n
           /\ \A i \in 1 .. Len(free') : free'[i] = free[i]
           /\ owned'[s] = owned[s] \o NewBlocks(n)
           /\ Len(owned'[s]) = Len(owned[s]) + n
           /\ \A i \in 1 .. Len(owned[s]) : owned'[s][i] = owned[s][i]
           /\ \A i \in 1 .. n : owned'[s][Len(owned[s]) + i] = free[Len(free) + 1 - i]
           /\ \A t \in SeqIds \ {s} : owned'[t] = owned[t]
  <1>1. /\ free \in Seq(Blocks)
        /\ Len(free) \in Nat
        /\ owned \in [SeqIds -> Seq(Blocks)]
        /\ n <= Len(free)
    BY DEF PoolTypeOK, Allocate, CanAllocate
  <1>2. /\ free' \in Seq(Blocks)
        /\ Len(free') = Len(free) - n
        /\ \A i \in 1 .. Len(free') : free'[i] = free[i]
    BY <1>1, SubSeqProperties DEF Allocate
  <1>3. /\ NewBlocks(n) \in Seq(Blocks)
        /\ Len(NewBlocks(n)) = n
        /\ \A i \in 1 .. n : NewBlocks(n)[i] = free[Len(free) + 1 - i]
    BY NewBlocksFacts DEF Allocate
  <1>4. /\ owned'[s] = owned[s] \o NewBlocks(n)
        /\ \A t \in SeqIds \ {s} : owned'[t] = owned[t]
        /\ owned' = [owned EXCEPT ![s] = owned[s] \o NewBlocks(n)]
    BY <1>1 DEF Allocate
  <1>5. owned[s] \in Seq(Blocks) /\ Len(owned[s]) \in Nat
    BY <1>1
  <1>6. /\ owned'[s] \in Seq(Blocks)
        /\ Len(owned'[s]) = Len(owned[s]) + Len(NewBlocks(n))
        /\ \A i \in 1 .. Len(owned[s]) : owned'[s][i] = owned[s][i]
        /\ \A i \in 1 .. Len(NewBlocks(n)) :
                owned'[s][Len(owned[s]) + i] = NewBlocks(n)[i]
    <2> DEFINE l == owned[s] \o NewBlocks(n)
    <2>1. /\ l \in Seq(Blocks)
          /\ Len(l) = Len(owned[s]) + Len(NewBlocks(n))
          /\ \A i \in 1 .. Len(owned[s]) : l[i] = owned[s][i]
          /\ \A i \in 1 .. Len(NewBlocks(n)) : l[Len(owned[s]) + i] = NewBlocks(n)[i]
      <3>1. owned[s] \in Seq(Blocks) /\ NewBlocks(n) \in Seq(Blocks)
        BY <1>3, <1>5
      <3>2. QED
        BY <3>1, ConcatAt
    <2>2. owned'[s] = l
      BY <1>4
    <2> HIDE DEF l
    <2>3. QED
      BY <2>1, <2>2
  <1>7. \A i \in 1 .. n : owned'[s][Len(owned[s]) + i] = free[Len(free) + 1 - i]
    BY <1>3, <1>6, Zenon
  <1>8. PoolTypeOK'
    BY <1>1, <1>2, <1>4, <1>6 DEF PoolTypeOK
  <1>9. QED
    BY <1>2, <1>3, <1>4, <1>6, <1>7, <1>8

\* free puts the blocks of the caller at the end of the free list.
LEMMA FreeFacts ==
    ASSUME PoolTypeOK, NEW s \in SeqIds, Free(s)
    PROVE  /\ PoolTypeOK'
           /\ Len(free') = Len(free) + Len(owned[s])
           /\ \A i \in 1 .. Len(free) : free'[i] = free[i]
           /\ \A i \in 1 .. Len(owned[s]) : free'[Len(free) + i] = owned[s][i]
           /\ owned'[s] = <<>>
           /\ \A t \in SeqIds \ {s} : owned'[t] = owned[t]
  <1>1. /\ free \in Seq(Blocks) /\ Len(free) \in Nat
        /\ owned[s] \in Seq(Blocks) /\ Len(owned[s]) \in Nat
        /\ owned \in [SeqIds -> Seq(Blocks)]
    BY DEF PoolTypeOK
  <1>2. /\ free' \in Seq(Blocks)
        /\ Len(free') = Len(free) + Len(owned[s])
        /\ \A i \in 1 .. Len(free) : free'[i] = free[i]
        /\ \A i \in 1 .. Len(owned[s]) : free'[Len(free) + i] = owned[s][i]
    <2> DEFINE l == free \o owned[s]
    <2>1. /\ l \in Seq(Blocks)
          /\ Len(l) = Len(free) + Len(owned[s])
          /\ \A i \in 1 .. Len(free) : l[i] = free[i]
          /\ \A i \in 1 .. Len(owned[s]) : l[Len(free) + i] = owned[s][i]
      BY <1>1, ConcatAt
    <2>2. free' = l
      BY DEF Free
    <2> HIDE DEF l
    <2>3. QED
      BY <2>1, <2>2
  <1>3. /\ owned'[s] = <<>>
        /\ \A t \in SeqIds \ {s} : owned'[t] = owned[t]
        /\ owned' \in [SeqIds -> Seq(Blocks)]
    BY <1>1, EmptySeq DEF Free
  <1>4. QED
    BY <1>2, <1>3 DEF PoolTypeOK

-----------------------------------------------------------------------------
(* No block is shared and no block is lost *)

Partitioned == NoBlockShared /\ NoBlockLost

\* Every block is accounted for once at the start: all are free.
LEMMA PoolInitPartitioned ==
    PoolInit => PoolTypeOK /\ Partitioned
  <1> SUFFICES ASSUME PoolInit
               PROVE  PoolTypeOK /\ Partitioned
    OBVIOUS
  <1>1. /\ free = [i \in 1 .. TotalBlocks |-> i - 1]
        /\ owned = [s \in SeqIds |-> <<>>]
    BY DEF PoolInit
  <1>2. free \in Seq(Blocks) /\ Len(free) = TotalBlocks
    <2>1. \A i \in 1 .. TotalBlocks : i - 1 \in Blocks
      BY TotalBlocksAssumption DEF Blocks
    <2>2. free \in Seq(Blocks)
      BY <1>1, <2>1, IsASeq, TotalBlocksAssumption
    <2>3. QED
      BY <1>1, <2>2, TotalBlocksAssumption
  <1>3. PoolTypeOK
    BY <1>1, <1>2, EmptySeq DEF PoolTypeOK
  <1>4. NoBlockShared
    BY <1>1, TotalBlocksAssumption DEF NoBlockShared
  <1>5. NoBlockLost
    <2> SUFFICES ASSUME NEW b \in Blocks
                 PROVE  \E i \in DOMAIN free : free[i] = b
      BY DEF NoBlockLost
    <2>1. b + 1 \in 1 .. TotalBlocks /\ (b + 1) - 1 = b
      BY TotalBlocksAssumption DEF Blocks
    <2>2. QED
      BY <1>1, <2>1
  <1>6. QED
    BY <1>3, <1>4, <1>5 DEF Partitioned

\* An allocation moves blocks and neither copies nor drops one.
LEMMA AllocatePartitioned ==
    ASSUME PoolTypeOK, Partitioned, NEW s \in SeqIds, NEW n \in Nat, Allocate(s, n)
    PROVE  Partitioned'
  <1> DEFINE f == Len(free)
             o == Len(owned[s])
             kept(t, i) == i \in DOMAIN owned[t] /\ owned'[t][i] = owned[t][i]
             from(i) == f + 1 - (i - o)
  <1>1. /\ free \in Seq(Blocks) /\ free' \in Seq(Blocks)
        /\ owned \in [SeqIds -> Seq(Blocks)] /\ owned' \in [SeqIds -> Seq(Blocks)]
        /\ n <= f
    BY AllocateFacts DEF PoolTypeOK, Allocate, CanAllocate
  <1>2. /\ Len(free') = f - n
        /\ \A i \in 1 .. f - n : free'[i] = free[i]
        /\ Len(owned'[s]) = o + n
        /\ \A i \in 1 .. o : owned'[s][i] = owned[s][i]
        /\ \A i \in 1 .. n : owned'[s][o + i] = free[f + 1 - i]
        /\ \A t \in SeqIds \ {s} : owned'[t] = owned[t]
    BY AllocateFacts
  <1>3. /\ \A i, j \in DOMAIN free : free[i] = free[j] => i = j
        /\ \A t, u \in SeqIds : \A i \in DOMAIN owned[t], j \in DOMAIN owned[u] :
                owned[t][i] = owned[u][j] => t = u /\ i = j
        /\ \A t \in SeqIds : \A i \in DOMAIN owned[t], j \in DOMAIN free :
                owned[t][i] # free[j]
    BY DEF Partitioned, NoBlockShared
  <1>4. /\ f \in Nat /\ o \in Nat
        /\ DOMAIN free = 1 .. f /\ DOMAIN free' = 1 .. f - n
        /\ DOMAIN owned'[s] = 1 .. o + n
    BY <1>1, <1>2
  \* where the blocks of the new lists were
  <1>5. ASSUME NEW j \in DOMAIN free'
        PROVE  j \in DOMAIN free /\ j <= f - n /\ free'[j] = free[j]
    <2>1. j \in 1 .. f - n
      BY <1>4
    <2>2. QED
      BY <1>2, <1>4, <2>1
  <1>6. ASSUME NEW t \in SeqIds, NEW i \in DOMAIN owned'[t], ~ kept(t, i)
        PROVE  /\ t = s
               /\ i \in Nat
               /\ from(i) \in DOMAIN free
               /\ from(i) > f - n
               /\ owned'[t][i] = free[from(i)]
    <2>1. t = s
      BY <1>2, <1>6
    <2>2. i \in 1 .. o + n
      BY <1>1, <1>2, <2>1
    <2>3. i \notin 1 .. o
      BY <1>1, <1>2, <1>6, <2>1
    <2>4. i - o \in 1 .. n /\ o + (i - o) = i
      BY <1>4, <2>2, <2>3
    <2>5. owned'[s][o + (i - o)] = free[f + 1 - (i - o)]
      BY <1>2, <2>4
    <2>6. owned'[t][i] = free[from(i)]
      BY <2>1, <2>4, <2>5
    <2> HIDE DEF f, o
    <2>7. i \in Nat /\ from(i) \in 1 .. f /\ from(i) > f - n
      BY <1>1, <1>4, <2>2, <2>4
    <2>8. QED
      BY <1>4, <2>1, <2>6, <2>7
  <1> HIDE DEF f, o
  <1>7. NoBlockShared'
    <2>1. ASSUME NEW i \in DOMAIN free', NEW j \in DOMAIN free', free'[i] = free'[j]
          PROVE  i = j
      BY <1>3, <1>5, <2>1
    <2>2. ASSUME NEW t \in SeqIds, NEW u \in SeqIds,
                 NEW i \in DOMAIN owned'[t], NEW j \in DOMAIN owned'[u],
                 owned'[t][i] = owned'[u][j]
          PROVE  t = u /\ i = j
      <3>1. CASE kept(t, i) /\ kept(u, j)
        <4>1. owned[t][i] = owned[u][j]
          BY <2>2, <3>1
        <4>2. QED
          BY <1>3, <3>1, <4>1
      <3>2. CASE kept(t, i) /\ ~ kept(u, j)
        <4>1. from(j) \in DOMAIN free /\ owned[t][i] = free[from(j)]
          BY <1>6, <2>2, <3>2
        <4>2. QED
          BY <1>3, <3>2, <4>1
      <3>3. CASE ~ kept(t, i) /\ kept(u, j)
        <4>1. from(i) \in DOMAIN free /\ owned[u][j] = free[from(i)]
          BY <1>6, <2>2, <3>3
        <4>2. QED
          BY <1>3, <3>3, <4>1
      <3>4. CASE ~ kept(t, i) /\ ~ kept(u, j)
        <4>1. /\ t = s /\ i \in Nat /\ from(i) \in DOMAIN free
              /\ owned'[t][i] = free[from(i)]
          BY <1>6, <3>4
        <4>2. /\ u = s /\ j \in Nat /\ from(j) \in DOMAIN free
              /\ owned'[u][j] = free[from(j)]
          BY <1>6, <3>4
        <4>3. from(i) = from(j)
          BY <1>3, <2>2, <4>1, <4>2
        <4>4. QED
          BY <1>4, <4>1, <4>2, <4>3
      <3>5. QED
        BY <3>1, <3>2, <3>3, <3>4
    <2>3. ASSUME NEW t \in SeqIds, NEW i \in DOMAIN owned'[t], NEW j \in DOMAIN free'
          PROVE  owned'[t][i] # free'[j]
      <3>1. j \in DOMAIN free /\ j <= f - n /\ free'[j] = free[j]
        BY <1>5
      <3>2. CASE kept(t, i)
        BY <1>3, <3>1, <3>2
      <3>3. CASE ~ kept(t, i)
        <4>1. from(i) \in DOMAIN free /\ from(i) > f - n /\ owned'[t][i] = free[from(i)]
          BY <1>6, <3>3
        <4>2. from(i) # j
          BY <1>1, <1>4, <3>1, <4>1
        <4>3. QED
          BY <1>3, <3>1, <4>1, <4>2
      <3>4. QED
        BY <3>2, <3>3
    <2>4. QED
      BY <2>1, <2>2, <2>3 DEF NoBlockShared
  <1>8. NoBlockLost'
    <2> SUFFICES ASSUME NEW b \in Blocks
                 PROVE  \/ \E i \in DOMAIN free' : free'[i] = b
                        \/ \E t \in SeqIds : \E i \in DOMAIN owned'[t] : owned'[t][i] = b
      BY DEF NoBlockLost
    <2>1. ASSUME NEW i \in DOMAIN free, free[i] = b, i <= f - n
          PROVE  i \in DOMAIN free' /\ free'[i] = b
      BY <1>1, <1>2, <1>4, <2>1
    <2>2. ASSUME NEW i \in DOMAIN free, free[i] = b, i > f - n
          PROVE  \E k \in DOMAIN owned'[s] : owned'[s][k] = b
      <3>1. i \in 1 .. f
        BY <1>1 DEF f
      <3>2. f + 1 - i \in 1 .. n /\ f + 1 - (f + 1 - i) = i
        BY <1>4, <2>2, <3>1
      <3>3. owned'[s][o + (f + 1 - i)] = b
        BY <1>2, <2>2, <3>2
      <3>4. o + (f + 1 - i) \in 1 .. o + n
        BY <1>4, <3>1, <3>2
      <3>5. QED
        BY <1>4, <3>3, <3>4
    <2>3. ASSUME NEW t \in SeqIds, NEW i \in DOMAIN owned[t], owned[t][i] = b
          PROVE  i \in DOMAIN owned'[t] /\ owned'[t][i] = b
      <3>1. CASE t = s
        <4>1. i \in 1 .. o
          BY <1>1, <3>1 DEF o
        <4>2. i \in DOMAIN owned'[s]
          BY <1>1, <1>2, <1>4, <4>1
        <4>3. QED
          BY <1>2, <2>3, <3>1, <4>1, <4>2
      <3>2. CASE t # s
        BY <1>2, <2>3, <3>2
      <3>3. QED
        BY <3>1, <3>2
    <2>4. CASE \E i \in DOMAIN free : free[i] = b
      <3>1. PICK i \in DOMAIN free : free[i] = b
        BY <2>4
      <3>2. i <= f - n \/ i > f - n
        BY <1>1, <1>4
      <3>3. QED
        BY <2>1, <2>2, <3>1, <3>2
    <2>5. QED
      BY <2>3, <2>4 DEF Partitioned, NoBlockLost
  <1>9. QED
    BY <1>7, <1>8 DEF Partitioned

\* Neither does giving blocks back.
LEMMA FreePartitioned ==
    ASSUME PoolTypeOK, Partitioned, NEW s \in SeqIds, Free(s)
    PROVE  Partitioned'
  <1> DEFINE f == Len(free)
             o == Len(owned[s])
  <1>1. /\ free \in Seq(Blocks) /\ free' \in Seq(Blocks)
        /\ owned \in [SeqIds -> Seq(Blocks)] /\ owned' \in [SeqIds -> Seq(Blocks)]
    BY FreeFacts DEF PoolTypeOK
  <1>2. /\ Len(free') = f + o
        /\ \A i \in 1 .. f : free'[i] = free[i]
        /\ \A i \in 1 .. o : free'[f + i] = owned[s][i]
        /\ owned'[s] = <<>>
        /\ \A t \in SeqIds \ {s} : owned'[t] = owned[t]
    BY FreeFacts
  <1>3. /\ \A i, j \in DOMAIN free : free[i] = free[j] => i = j
        /\ \A t, u \in SeqIds : \A i \in DOMAIN owned[t], j \in DOMAIN owned[u] :
                owned[t][i] = owned[u][j] => t = u /\ i = j
        /\ \A t \in SeqIds : \A i \in DOMAIN owned[t], j \in DOMAIN free :
                owned[t][i] # free[j]
    BY DEF Partitioned, NoBlockShared
  <1>4. /\ f \in Nat /\ o \in Nat
        /\ DOMAIN free = 1 .. f /\ DOMAIN free' = 1 .. f + o
        /\ DOMAIN owned[s] = 1 .. o
    BY <1>1, <1>2
  \* where the blocks of the new lists were
  <1>5. ASSUME NEW i \in DOMAIN free', i \notin DOMAIN free
        PROVE  i - f \in DOMAIN owned[s] /\ free'[i] = owned[s][i - f]
    <2>1. i - f \in 1 .. o /\ f + (i - f) = i
      BY <1>4, <1>5
    <2>2. QED
      BY <1>2, <1>4, <2>1
  <1>6. ASSUME NEW t \in SeqIds, NEW i \in DOMAIN owned'[t]
        PROVE  t # s /\ i \in DOMAIN owned[t] /\ owned'[t][i] = owned[t][i]
    BY <1>2
  <1> HIDE DEF f, o
  <1>7. NoBlockShared'
    <2>1. ASSUME NEW i \in DOMAIN free', NEW j \in DOMAIN free', free'[i] = free'[j]
          PROVE  i = j
      <3>1. CASE i \in DOMAIN free /\ j \in DOMAIN free
        BY <1>2, <1>3, <1>4, <2>1, <3>1
      <3>2. CASE i \in DOMAIN free /\ j \notin DOMAIN free
        <4>1. owned[s][j - f] = free[i] /\ j - f \in DOMAIN owned[s]
          BY <1>2, <1>4, <1>5, <2>1, <3>2
        <4>2. QED
          BY <1>3, <3>2, <4>1
      <3>3. CASE i \notin DOMAIN free /\ j \in DOMAIN free
        <4>1. owned[s][i - f] = free[j] /\ i - f \in DOMAIN owned[s]
          BY <1>2, <1>4, <1>5, <2>1, <3>3
        <4>2. QED
          BY <1>3, <3>3, <4>1
      <3>4. CASE i \notin DOMAIN free /\ j \notin DOMAIN free
        <4>1. /\ i - f \in DOMAIN owned[s] /\ j - f \in DOMAIN owned[s]
              /\ owned[s][i - f] = owned[s][j - f]
          BY <1>5, <2>1, <3>4
        <4>2. i - f = j - f
          BY <1>3, <4>1
        <4>3. QED
          BY <1>4, <4>2
      <3>5. QED
        BY <3>1, <3>2, <3>3, <3>4
    <2>2. ASSUME NEW t \in SeqIds, NEW u \in SeqIds,
                 NEW i \in DOMAIN owned'[t], NEW j \in DOMAIN owned'[u],
                 owned'[t][i] = owned'[u][j]
          PROVE  t = u /\ i = j
      <3>1. /\ i \in DOMAIN owned[t] /\ j \in DOMAIN owned[u]
            /\ owned[t][i] = owned[u][j]
        BY <1>6, <2>2
      <3>2. QED
        BY <1>3, <3>1
    <2>3. ASSUME NEW t \in SeqIds, NEW i \in DOMAIN owned'[t], NEW j \in DOMAIN free'
          PROVE  owned'[t][i] # free'[j]
      <3>1. t # s /\ i \in DOMAIN owned[t] /\ owned'[t][i] = owned[t][i]
        BY <1>6
      <3>2. CASE j \in DOMAIN free
        BY <1>2, <1>3, <1>4, <3>1, <3>2
      <3>3. CASE j \notin DOMAIN free
        <4>1. j - f \in DOMAIN owned[s] /\ free'[j] = owned[s][j - f]
          BY <1>5, <3>3
        <4>2. QED
          BY <1>3, <3>1, <4>1
      <3>4. QED
        BY <3>2, <3>3
    <2>4. QED
      BY <2>1, <2>2, <2>3 DEF NoBlockShared
  <1>8. NoBlockLost'
    <2> SUFFICES ASSUME NEW b \in Blocks
                 PROVE  \/ \E i \in DOMAIN free' : free'[i] = b
                        \/ \E t \in SeqIds : \E i \in DOMAIN owned'[t] : owned'[t][i] = b
      BY DEF NoBlockLost
    <2>1. ASSUME NEW i \in DOMAIN free, free[i] = b
          PROVE  i \in DOMAIN free' /\ free'[i] = b
      BY <1>2, <1>4, <2>1
    <2>2. ASSUME NEW i \in DOMAIN owned[s], owned[s][i] = b
          PROVE  f + i \in DOMAIN free' /\ free'[f + i] = b
      BY <1>2, <1>4, <2>2
    <2>3. ASSUME NEW t \in SeqIds \ {s}, NEW i \in DOMAIN owned[t], owned[t][i] = b
          PROVE  i \in DOMAIN owned'[t] /\ owned'[t][i] = b
      BY <1>2, <2>3
    <2>4. QED
      BY <2>1, <2>2, <2>3 DEF Partitioned, NoBlockLost
  <1>9. QED
    BY <1>7, <1>8 DEF Partitioned

\* A list of blocks without repetition is no longer than the pool.
LEMMA ListBounded ==
    ASSUME NEW l \in Seq(Blocks), \A i, j \in DOMAIN l : l[i] = l[j] => i = j
    PROVE  Len(l) <= TotalBlocks
  <1>1. /\ IsFiniteSet(Blocks) /\ Cardinality(Blocks) = TotalBlocks
        /\ Cardinality(1 .. Len(l)) = Len(l)
    <2>1. IsFiniteSet(Blocks) /\ Cardinality(Blocks) = TotalBlocks
      <3>1. TotalBlocks - 1 \in Int /\ 0 \in Int
        BY TotalBlocksAssumption
      <3>2. /\ IsFiniteSet(0 .. TotalBlocks - 1)
            /\ Cardinality(0 .. TotalBlocks - 1) =
                    IF 0 > TotalBlocks - 1 THEN 0 ELSE (TotalBlocks - 1) - 0 + 1
        BY <3>1, FS_Interval, Zenon
      <3>3. QED
        BY <3>2, TotalBlocksAssumption DEF Blocks
    <2>2. Cardinality(1 .. Len(l)) = Len(l)
      <3>1. Len(l) \in Nat /\ Len(l) \in Int /\ 1 \in Int
        OBVIOUS
      <3>2. Cardinality(1 .. Len(l)) = IF 1 > Len(l) THEN 0 ELSE Len(l) - 1 + 1
        BY <3>1, FS_Interval, Zenon
      <3>3. QED
        BY <3>1, <3>2
    <2>3. QED
      BY <2>1, <2>2
  <1>2. l \in Injection(1 .. Len(l), Blocks)
    BY DEF Injection, IsInjective
  <1>3. QED
    BY <1>1, <1>2, FS_Injection

\* So is every list that the pool keeps.
LEMMA PoolBounds ==
    ASSUME PoolTypeOK, NoBlockShared
    PROVE  /\ Len(free) <= TotalBlocks
           /\ \A s \in SeqIds : Len(owned[s]) <= TotalBlocks
  BY ListBounded DEF PoolTypeOK, NoBlockShared

-----------------------------------------------------------------------------
(* The pool under an arbitrary caller *)

PoolInv == PoolTypeOK /\ Partitioned

\* Every call of a method keeps each block in exactly one place.
LEMMA PoolStep == PoolInv /\ [PoolNext]_poolVars => PoolInv'
  <1> SUFFICES ASSUME PoolInv, [PoolNext]_poolVars
               PROVE  PoolInv'
    OBVIOUS
  <1>1. ASSUME NEW s \in SeqIds, NEW n \in 1 .. TotalBlocks, Allocate(s, n)
        PROVE  PoolInv'
    BY <1>1, AllocateFacts, AllocatePartitioned DEF PoolInv
  <1>2. ASSUME NEW s \in SeqIds, Free(s)
        PROVE  PoolInv'
    BY <1>2, FreeFacts, FreePartitioned DEF PoolInv
  <1>3. CASE UNCHANGED poolVars
    BY <1>3 DEF PoolInv, PoolTypeOK, Partitioned, NoBlockShared, NoBlockLost, poolVars
  <1>4. QED
    BY <1>1, <1>2, <1>3 DEF PoolNext

\* The free list and the ownership table are lists of block indices, for every
\* size of the pool and every order of calls of allocate and free.
THEOREM PoolTypeCorrect == PoolSpec => []PoolTypeOK
  <1>1. PoolInit => PoolInv
    BY PoolInitPartitioned DEF PoolInv
  <1>2. PoolInv => PoolTypeOK
    BY DEF PoolInv
  <1>3. QED
    BY <1>1, <1>2, PoolStep, PTL DEF PoolSpec

\* allocate and free never give a block to two owners, nor twice to one.
THEOREM PoolNeverShares == PoolSpec => []NoBlockShared
  <1>1. PoolInit => PoolInv
    BY PoolInitPartitioned DEF PoolInv
  <1>2. PoolInv => NoBlockShared
    BY DEF PoolInv, Partitioned
  <1>3. QED
    BY <1>1, <1>2, PoolStep, PTL DEF PoolSpec

\* allocate and free never lose a block.
THEOREM PoolNeverLoses == PoolSpec => []NoBlockLost
  <1>1. PoolInit => PoolInv
    BY PoolInitPartitioned DEF PoolInv
  <1>2. PoolInv => NoBlockLost
    BY DEF PoolInv, Partitioned
  <1>3. QED
    BY <1>1, <1>2, PoolStep, PTL DEF PoolSpec

\* A block list that a sequence holds is only ever extended, or given back as
\* a whole.
THEOREM PoolHeldBlocksStay == PoolSpec => HeldBlocksStay
  <1> DEFINE Stays == \A s \in SeqIds :
                IsPrefix(owned[s], owned'[s]) \/ owned'[s] = <<>>
  <1>1. PoolInit => PoolInv
    BY PoolInitPartitioned DEF PoolInv
  <1>2. PoolInv /\ [PoolNext]_poolVars => [Stays]_poolVars
    <2> SUFFICES ASSUME PoolInv, PoolNext
                 PROVE  Stays
      OBVIOUS
    <2>1. ASSUME NEW s \in SeqIds, NEW n \in 1 .. TotalBlocks, Allocate(s, n), NEW t \in SeqIds
          PROVE  IsPrefix(owned[t], owned'[t])
      <3>1. PoolTypeOK /\ owned[t] \in Seq(Blocks) /\ Len(owned[t]) \in Nat
        BY DEF PoolInv, PoolTypeOK
      <3>2. /\ owned'[t] \in Seq(Blocks)
            /\ Len(owned[t]) <= Len(owned'[t])
            /\ \A i \in 1 .. Len(owned[t]) : owned'[t][i] = owned[t][i]
        <4>1. CASE t = s
          BY <2>1, <3>1, <4>1, AllocateFacts DEF PoolTypeOK
        <4>2. CASE t # s
          BY <2>1, <3>1, <4>2, AllocateFacts DEF PoolTypeOK
        <4>3. QED
          BY <4>1, <4>2
      <3>3. SubSeq(owned[t], 1, Len(owned[t])) = SubSeq(owned'[t], 1, Len(owned[t]))
        BY <3>1, <3>2
      <3>4. QED
        BY <3>2, <3>3 DEF IsPrefix
    <2>2. ASSUME NEW s \in SeqIds, Free(s), NEW t \in SeqIds
          PROVE  IsPrefix(owned[t], owned'[t]) \/ owned'[t] = <<>>
      <3>1. CASE t = s
        BY <2>2, <3>1, FreeFacts DEF PoolInv
      <3>2. CASE t # s
        BY <2>2, <3>2, FreeFacts DEF PoolInv, PoolTypeOK, IsPrefix
      <3>3. QED
        BY <3>1, <3>2
    <2>3. QED
      BY <2>1, <2>2 DEF PoolNext
  <1>3. QED
    BY <1>1, <1>2, PoolStep, PTL DEF PoolSpec, HeldBlocksStay

-----------------------------------------------------------------------------
(* The scheduler: what the steps share *)

USE PromptLensAssumption, MaxNewsAssumption, MaxRequestsAssumption

\* The head of the list a loop walks over is an id, and the rest is a list.
LEMMA HeadFacts ==
    ASSUME TypeOK, todo # <<>>
    PROVE  /\ Head(todo) \in SeqIds
           /\ Tail(todo) \in Seq(SeqIds)
           /\ Needed(Head(todo)) \in {0, 1}
           /\ BlocksFor(prompt_len[Head(todo)]) \in Nat
  <1>1. Head(todo) \in SeqIds /\ Tail(todo) \in Seq(SeqIds)
    BY InTail DEF TypeOK
  <1>2. seq_len[Head(todo)] \in Nat /\ prompt_len[Head(todo)] \in Nat
    BY <1>1 DEF TypeOK
  <1>3. QED
    BY <1>1, <1>2, NeededForOne, BlocksForLeast DEF Needed

\* A list of ids is changed by the steps in three ways.
LEMMA ListTypes ==
    ASSUME NEW l \in Seq(SeqIds)
    PROVE  /\ \A s \in SeqIds : Append(l, s) \in Seq(SeqIds)
           /\ \A i \in DOMAIN l : RemoveAt(l, i) \in Seq(SeqIds)
           /\ <<>> \in Seq(SeqIds)
  BY AppendProperties, RemoveAtFacts, EmptySeq

\* The block table gets the blocks that the allocation returned.
LEMMA TableType ==
    ASSUME TypeOK, NEW s \in SeqIds, NEW n \in Nat, CanAllocate(n),
           block_table' = [block_table EXCEPT ![s] = @ \o NewBlocks(n)]
    PROVE  block_table' \in [SeqIds -> Seq(Blocks)]
  <1>1. NewBlocks(n) \in Seq(Blocks)
    BY NewBlocksFacts DEF TypeOK
  <1>2. block_table[s] \in Seq(Blocks)
    BY DEF TypeOK
  <1>3. block_table[s] \o NewBlocks(n) \in Seq(Blocks)
    BY <1>1, <1>2, ConcatAt
  <1>4. QED
    BY <1>3 DEF TypeOK

-----------------------------------------------------------------------------
(* TypeOK *)

LEMMA InitType == Init => TypeOK
  <1> SUFFICES ASSUME Init
               PROVE  TypeOK
    OBVIOUS
  <1>1. PoolTypeOK
    BY PoolInitPartitioned DEF Init
  <1>2. <<>> \in Seq(SeqIds) /\ <<>> \in Seq(Blocks)
    BY EmptySeq
  <1>3. QED
    BY <1>1, <1>2 DEF Init, TypeOK, NoResults, StepResults, Statuses, Phases, None

\* The second request for a block is that of a sequence in the list.
RetryAsks == pc = "retry" => todo # <<>>

LEMMA TypeStep ==
    ASSUME TypeOK, RetryAsks, [Next]_vars
    PROVE  TypeOK'
  <1> USE DEF Statuses, Phases, StepResults, None
  <1>1. ASSUME NEW p \in PromptLens, NEW m \in MaxNews, AddRequest(p, m)
        PROVE  TypeOK'
    <2>1. next_seq_id \in SeqIds /\ next_seq_id + 1 \in 0 .. MaxRequests
      BY <1>1 DEF AddRequest, TypeOK, SeqIds
    <2>2. Append(waiting, next_seq_id) \in Seq(SeqIds)
      BY <2>1, ListTypes DEF TypeOK
    <2>3. p \in Nat /\ m \in Nat
      OBVIOUS
    <2>4. QED
      BY <1>1, <2>1, <2>2, <2>3 DEF AddRequest, TypeOK, poolVars, PoolTypeOK, control
  <1>2. CASE BeginStep
    BY <1>2 DEF BeginStep, TypeOK, poolVars, PoolTypeOK, requests
  <1>3. CASE AdmitOne
    <2> DEFINE s == Head(todo)
               n == BlocksFor(prompt_len[s])
    <2>1. s \in SeqIds /\ Tail(todo) \in Seq(SeqIds) /\ n \in Nat
      BY <1>3, HeadFacts DEF AdmitOne
    <2>2. PoolTypeOK'
      BY <1>3, <2>1, AllocateFacts DEF AdmitOne, TypeOK
    <2>3. block_table' \in [SeqIds -> Seq(Blocks)]
      BY <1>3, <2>1, TableType DEF AdmitOne, Allocate
    <2>4. running' \in Seq(SeqIds)
      BY <1>3, <2>1, ListTypes DEF AdmitOne, TypeOK
    <2>5. QED
      BY <1>3, <2>1, <2>2, <2>3, <2>4 DEF AdmitOne, TypeOK, requests
  <1>4. CASE KeepWaiting
    <2>1. Head(todo) \in SeqIds /\ Tail(todo) \in Seq(SeqIds)
      BY <1>4, HeadFacts DEF KeepWaiting
    <2>2. still_waiting' \in Seq(SeqIds)
      BY <1>4, <2>1, ListTypes DEF KeepWaiting, TypeOK
    <2>3. QED
      BY <1>4, <2>1, <2>2 DEF KeepWaiting, TypeOK, poolVars, PoolTypeOK, requests
  <1>5. CASE EndAdmit
    BY <1>5, EmptySeq DEF EndAdmit, NextPhase, NoResults, TypeOK, poolVars, PoolTypeOK, requests
  <1>6. ASSUME todo # <<>>, GrowHead
        PROVE  PoolTypeOK' /\ block_table' \in [SeqIds -> Seq(Blocks)]
    <2>1. Head(todo) \in SeqIds /\ Needed(Head(todo)) \in Nat
      BY <1>6, HeadFacts
    <2>2. QED
      BY <1>6, <2>1, AllocateFacts, TableType DEF GrowHead, Allocate, TypeOK
  <1>7. CASE EnsureRoom
    BY <1>6, <1>7, HeadFacts DEF EnsureRoom, TypeOK, requests
  <1>8. CASE Evict
    <2>1. PICK i \in DOMAIN running :
                /\ running' = RemoveAt(running, i)
                /\ status' = [status EXCEPT ![running[i]] = "evicted"]
                /\ Free(running[i])
                /\ cached' = [cached EXCEPT ![running[i]] = None]
                /\ results' = [results EXCEPT ![running[i]] = "none"]
      BY <1>8 DEF Evict
    <2>2. running[i] \in SeqIds
      BY DEF TypeOK
    <2>3. PoolTypeOK'
      BY <2>1, <2>2, FreeFacts DEF TypeOK
    <2>4. running' \in Seq(SeqIds)
      BY <2>1, ListTypes DEF TypeOK
    <2>5. QED
      BY <1>8, <2>1, <2>2, <2>3, <2>4 DEF Evict, TypeOK, requests
  <1>9. CASE Retry
    <2>1. todo # <<>>
      BY <1>9 DEF Retry, RetryAsks
    <2>2. PoolTypeOK' /\ block_table' \in [SeqIds -> Seq(Blocks)]
      <3>1. CASE GrowHead
        BY <1>6, <2>1, <3>1
      <3>2. CASE UNCHANGED <<poolVars, block_table>>
        BY <3>2 DEF poolVars, TypeOK, PoolTypeOK
      <3>3. QED
        BY <1>9, <3>1, <3>2 DEF Retry
    <2>3. QED
      BY <1>9, <2>1, <2>2, HeadFacts DEF Retry, TypeOK, requests
  <1>10. CASE EndEnsure
    BY <1>10, EmptySeq DEF EndEnsure, NextPhase, NoResults, TypeOK, poolVars, PoolTypeOK, requests
  <1>11. CASE DecodeContinues
    <2>1. DecodeHead /\ Head(todo) \in SeqIds /\ Tail(todo) \in Seq(SeqIds)
      BY <1>11, HeadFacts DEF DecodeContinues, DecodeHead
    <2>2. seq_len' \in [SeqIds -> Nat] /\ cached' \in [SeqIds -> Nat \cup {None}]
      <3>1. seq_len[Head(todo)] + 1 \in Nat /\ cached[Head(todo)] + 1 \in Nat
        <4>1. /\ seq_len[Head(todo)] \in Nat
              /\ cached[Head(todo)] \in Nat \/ cached[Head(todo)] = -1
          BY <2>1 DEF TypeOK
        <4>2. QED
          BY <4>1
      <3>2. /\ seq_len' = [seq_len EXCEPT ![Head(todo)] = seq_len[Head(todo)] + 1]
            /\ cached' = [cached EXCEPT ![Head(todo)] = cached[Head(todo)] + 1]
            /\ seq_len \in [SeqIds -> Nat] /\ cached \in [SeqIds -> Nat \cup {None}]
        BY <1>11 DEF DecodeContinues, DecodeHead, TypeOK
      <3>3. QED
        BY <2>1, <3>1, <3>2
    <2>3. results' \in [SeqIds -> StepResults]
      BY <2>1 DEF DecodeHead, TypeOK
    <2>4. QED
      BY <1>11, <2>1, <2>2, <2>3
         DEF DecodeContinues, DecodeHead, TypeOK, poolVars, PoolTypeOK, requests
  <1>12. CASE DecodeFinishes
    <2>1. DecodeHead /\ Head(todo) \in SeqIds /\ Tail(todo) \in Seq(SeqIds)
      BY <1>12, HeadFacts DEF DecodeFinishes, DecodeHead
    <2>2. PoolTypeOK'
      BY <1>12, <2>1, FreeFacts DEF DecodeFinishes, TypeOK
    <2>3. running' \in Seq(SeqIds)
      BY <1>12, ListTypes DEF DecodeFinishes, TypeOK
    <2>4. /\ seq_len' \in [SeqIds -> Nat]
          /\ cached' \in [SeqIds -> Nat \cup {None}]
          /\ finished' \in [SeqIds -> Nat \cup {None}]
      <3>1. seq_len[Head(todo)] + 1 \in Nat
        BY <2>1 DEF TypeOK
      <3>2. /\ seq_len' = [seq_len EXCEPT ![Head(todo)] = seq_len[Head(todo)] + 1]
            /\ cached' = [cached EXCEPT ![Head(todo)] = None]
            /\ finished' = [finished EXCEPT ![Head(todo)] = seq_len[Head(todo)] + 1]
            /\ seq_len \in [SeqIds -> Nat] /\ cached \in [SeqIds -> Nat \cup {None}]
            /\ finished \in [SeqIds -> Nat \cup {None}]
        BY <1>12 DEF DecodeFinishes, DecodeHead, TypeOK
      <3>3. QED
        BY <2>1, <3>1, <3>2
    <2>5. results' \in [SeqIds -> StepResults] /\ status' \in [SeqIds -> Statuses]
      BY <1>12, <2>1 DEF DecodeFinishes, DecodeHead, TypeOK
    <2>6. QED
      BY <2>1, <2>2, <2>3, <2>4, <2>5 DEF DecodeHead, TypeOK, requests
  <1>13. CASE EndStep
    BY <1>13 DEF EndStep, NoResults, TypeOK, poolVars, PoolTypeOK, requests
  <1>14. CASE UNCHANGED vars
    BY <1>14 DEF vars, poolVars, TypeOK, PoolTypeOK, requests, control
  <1>15. QED
    BY <1>1, <1>2, <1>3, <1>4, <1>5, <1>7, <1>8, <1>9, <1>10, <1>11, <1>12, <1>13, <1>14
       DEF Next, Step

-----------------------------------------------------------------------------
(* The list a loop walks over *)

\* While what is left of the list is a tail of the running list, its head is a
\* running request, and its tail is one too.
LEMMA TailFacts ==
    ASSUME TypeOK, RunningPlace, IsTailOf(todo, running), todo # <<>>
    PROVE  LET k == Len(running) - Len(todo) + 1
           IN  /\ k \in 1 .. Len(running)
               /\ running[k] = Head(todo)
               /\ Head(todo) \in ToSet(running)
               /\ Head(todo) \notin ToSet(Tail(todo))
               /\ IsTailOf(Tail(todo), running)
               /\ Len(Tail(todo)) = Len(todo) - 1
               /\ Len(todo) \in Nat \ {0} /\ Len(running) \in Nat
               /\ Len(todo) <= Len(running)
  <1> DEFINE k == Len(running) - Len(todo) + 1
  <1>1. /\ todo \in Seq(SeqIds) /\ running \in Seq(SeqIds)
        /\ Len(todo) \in Nat \ {0} /\ Len(running) \in Nat
        /\ Len(todo) <= Len(running)
        /\ Head(todo) = todo[1]
        /\ Len(Tail(todo)) = Len(todo) - 1
        /\ Tail(todo) \in Seq(SeqIds)
        /\ \A i \in 1 .. Len(todo) - 1 : Tail(todo)[i] = todo[i + 1]
    BY InTail DEF TypeOK, IsTailOf
  <1>2. \A i \in 1 .. Len(todo) : todo[i] = running[Len(running) - Len(todo) + i]
    BY DEF IsTailOf
  <1>3. k \in 1 .. Len(running) /\ running[k] = Head(todo)
    BY <1>1, <1>2
  <1>4. Head(todo) \in ToSet(running)
    BY <1>1, <1>3, InList
  <1>5. ASSUME NEW i \in 1 .. Len(Tail(todo))
        PROVE  /\ Tail(todo)[i] = running[Len(running) - Len(Tail(todo)) + i]
               /\ Len(running) - Len(Tail(todo)) + i \in 1 .. Len(running)
               /\ Len(running) - Len(Tail(todo)) + i # k
    <2>1. i \in 1 .. Len(todo) - 1 /\ i + 1 \in 1 .. Len(todo)
      BY <1>1
    <2>2. Tail(todo)[i] = running[Len(running) - Len(todo) + (i + 1)]
      BY <1>1, <1>2, <2>1
    <2>3. Len(running) - Len(todo) + (i + 1) = Len(running) - Len(Tail(todo)) + i
      BY <1>1, <2>1
    <2>4. QED
      BY <1>1, <2>1, <2>2, <2>3
  <1>6. IsTailOf(Tail(todo), running)
    BY <1>1, <1>5 DEF IsTailOf
  <1>7. Head(todo) \notin ToSet(Tail(todo))
    <2>1. ASSUME NEW i \in 1 .. Len(Tail(todo)), Tail(todo)[i] = Head(todo)
          PROVE  FALSE
      <3>1. \A a, b \in 1 .. Len(running) : running[a] = running[b] => a = b
        BY <1>1 DEF RunningPlace, IsInjective
      <3> HIDE DEF k
      <3>2. QED
        BY <1>3, <1>5, <2>1, <3>1
    <2>2. Head(todo) \in ToSet(Tail(todo))
                => \E i \in 1 .. Len(Tail(todo)) : Tail(todo)[i] = Head(todo)
      <3>1. Tail(todo) \in Seq(SeqIds)
        BY <1>1
      <3>2. QED
        BY <3>1, InList
    <2>3. QED
      BY <2>1, <2>2
  <1>8. QED
    BY <1>1, <1>3, <1>4, <1>6, <1>7

\* A copy of the running list is a tail of it, and so is the empty list.
LEMMA WholeIsTail ==
    ASSUME TypeOK
    PROVE  IsTailOf(running, running) /\ IsTailOf(<<>>, running)
  <1>1. Len(running) \in Nat
    BY DEF TypeOK
  <1>2. Len(<<>>) = 0
    OBVIOUS
  <1>3. QED
    BY <1>1, <1>2 DEF IsTailOf

\* The victim is the first of the running list.
LEMMA EvictFacts ==
    ASSUME TypeOK, RunningPlace, OldestFirst, Evict
    PROVE  LET v == running[1]
           IN  /\ Len(running) \in Nat \ {0} /\ 1 \in DOMAIN running
               /\ v \in SeqIds /\ v \in ToSet(running)
               /\ running' = RemoveAt(running, 1)
               /\ Free(v)
               /\ status' = [status EXCEPT ![v] = "evicted"]
               /\ cached' = [cached EXCEPT ![v] = None]
               /\ results' = [results EXCEPT ![v] = "none"]
  <1>1. PICK i \in DOMAIN running :
                /\ IsVictim(i)
                /\ running' = RemoveAt(running, i)
                /\ status' = [status EXCEPT ![running[i]] = "evicted"]
                /\ Free(running[i])
                /\ cached' = [cached EXCEPT ![running[i]] = None]
                /\ results' = [results EXCEPT ![running[i]] = "none"]
    BY DEF Evict
  <1>2. /\ running \in Seq(SeqIds) /\ Len(running) \in Nat \ {0}
        /\ i \in 1 .. Len(running) /\ 1 \in DOMAIN running
    <2>1. running \in Seq(SeqIds)
      BY DEF TypeOK
    <2>2. QED
      BY <2>1
  <1>3. ASSUME NEW j \in DOMAIN running
        PROVE  num_generated(running[j]) \in Int
    <2>1. running[j] \in SeqIds
      BY <1>2
    <2>2. QED
      BY <2>1 DEF TypeOK, num_generated
  <1>4. ASSUME i > 1
        PROVE  FALSE
    <2>1. num_generated(running[i]) > num_generated(running[1])
      BY <1>1, <1>2, <1>4 DEF IsVictim
    <2>2. num_generated(running[1]) >= num_generated(running[i])
      BY <1>2, <1>4 DEF OldestFirst
    <2>3. QED
      BY <1>2, <1>3, <2>1, <2>2
  <1>5. i = 1
    BY <1>2, <1>4
  <1>6. running[1] \in SeqIds /\ running[1] \in ToSet(running)
    BY <1>2, InList
  <1>7. QED
    BY <1>1, <1>2, <1>5, <1>6

-----------------------------------------------------------------------------
(* Control and StatusMatchesPlace *)

LEMMA ControlStep ==
    ASSUME Control, [Next]_vars
    PROVE  Control'
  BY DEF Control, Next, Step, AddRequest, BeginStep, AdmitOne, KeepWaiting, EndAdmit,
         NextPhase, EnsureRoom, Evict, Retry, EndEnsure, DecodeContinues,
         DecodeFinishes, DecodeHead, EndStep, vars, control

\* The request at hand in the admission loop is a waiting one.
LEMMA HeadWaits ==
    ASSUME TypeOK, WaitingPlace, pc = "admit", todo # <<>>
    PROVE  /\ Head(todo) \in SeqIds
           /\ status[Head(todo)] = "waiting"
           /\ Unadmitted = still_waiting \o todo
           /\ Unadmitted \in Seq(SeqIds)
  <1>1. Head(todo) \in SeqIds
    BY HeadFacts
  <1>2. /\ Unadmitted = still_waiting \o todo
        /\ still_waiting \in Seq(SeqIds) /\ todo \in Seq(SeqIds)
    BY DEF Unadmitted, TypeOK
  <1>3. Head(todo) \in ToSet(todo)
    BY <1>2, InTail
  <1>4. Head(todo) \in ToSet(still_waiting \o todo) /\ still_waiting \o todo \in Seq(SeqIds)
    BY <1>2, <1>3, InConcat, ConcatAt
  <1>5. QED
    BY <1>1, <1>2, <1>4 DEF WaitingPlace

\* The sequence at hand in the decode loop is a running one.
LEMMA HeadRuns ==
    ASSUME TypeOK, RunningPlace, TodoIsRunning, pc = "decode" \/ pc = "ensure", todo # <<>>
    PROVE  /\ Head(todo) \in SeqIds
           /\ status[Head(todo)] = "running"
           /\ Head(todo) \in ToSet(running)
  BY HeadFacts, TailFacts DEF TodoIsRunning, RunningPlace

LEMMA ArrivedStep ==
    ASSUME TypeOK, StatusMatchesPlace, TodoIsRunning, OldestFirst, [Next]_vars
    PROVE  ArrivedPlace'
  <1> USE DEF ArrivedPlace, StatusMatchesPlace
  <1>1. ASSUME NEW p \in PromptLens, NEW m \in MaxNews, AddRequest(p, m)
        PROVE  ArrivedPlace'
    <2>1. /\ next_seq_id \in Nat
          /\ next_seq_id' = next_seq_id + 1
          /\ status' = [status EXCEPT ![next_seq_id] = "waiting"]
          /\ status \in [SeqIds -> Statuses]
      BY <1>1 DEF AddRequest, TypeOK
    <2>2. ASSUME NEW s \in SeqIds
          PROVE  status'[s] = "none" <=> s >= next_seq_id'
      BY <2>1, <2>2 DEF SeqIds
    <2>3. QED
      BY <2>2
  <1>2. ASSUME NEW s \in SeqIds, NEW new, status[s] # "none", new # "none",
               status' = [status EXCEPT ![s] = new], next_seq_id' = next_seq_id
        PROVE  ArrivedPlace'
    BY <1>2 DEF TypeOK
  <1>3. CASE AdmitOne
    BY <1>2, <1>3, HeadWaits DEF AdmitOne, requests
  <1>4. CASE Evict
    <2>1. status[running[1]] = "running"
      BY <1>4, EvictFacts DEF RunningPlace
    <2>2. QED
      BY <1>2, <1>4, <2>1, EvictFacts DEF Evict, requests
  <1>5. CASE DecodeFinishes
    BY <1>2, <1>5, HeadRuns DEF DecodeFinishes, DecodeHead, requests
  <1>6. CASE UNCHANGED <<status, next_seq_id>>
    BY <1>6
  <1>7. QED
    BY <1>1, <1>3, <1>4, <1>5, <1>6
       DEF Next, Step, BeginStep, KeepWaiting, EndAdmit, EnsureRoom, Retry, EndEnsure,
           DecodeContinues, DecodeHead, EndStep, vars, requests

\* An increasing list has no repetition, and stays increasing when an entry is
\* removed or a greater one is added.
LEMMA IncreasingFacts ==
    ASSUME NEW l \in Seq(SeqIds), Increasing(l)
    PROVE  /\ IsInjective(l)
           /\ \A i \in 1 .. Len(l) : Increasing(RemoveAt(l, i))
           /\ \A s \in SeqIds : (\A t \in ToSet(l) : t < s) => Increasing(Append(l, s))
  <1>1. /\ Len(l) \in Nat
        /\ \A i \in 1 .. Len(l) : l[i] \in SeqIds /\ l[i] \in Nat
        /\ \A i, j \in 1 .. Len(l) : i < j => l[i] < l[j]
    BY DEF Increasing, SeqIds
  <1>2. IsInjective(l)
    BY <1>1 DEF IsInjective
  <1>3. ASSUME NEW i \in 1 .. Len(l)
        PROVE  Increasing(RemoveAt(l, i))
    <2> DEFINE r == RemoveAt(l, i)
    <2>1. /\ r \in Seq(SeqIds) /\ Len(r) = Len(l) - 1
          /\ \A j \in 1 .. i - 1 : r[j] = l[j]
          /\ \A j \in i .. Len(l) - 1 : r[j] = l[j + 1]
      BY RemoveAtFacts
    <2> HIDE DEF r
    <2> DEFINE old(j) == IF j < i THEN j ELSE j + 1
    <2>2. ASSUME NEW j \in 1 .. Len(r)
          PROVE  old(j) \in 1 .. Len(l) /\ r[j] = l[old(j)]
      BY <1>1, <2>1
    <2>3. ASSUME NEW j \in 1 .. Len(r), NEW k \in 1 .. Len(r), j < k
          PROVE  r[j] < r[k]
      <3>1. old(j) < old(k)
        BY <1>1, <2>1, <2>3
      <3> HIDE DEF old
      <3>2. QED
        BY <1>1, <2>2, <3>1
    <2>4. QED
      BY <2>1, <2>3 DEF Increasing, r
  <1>4. ASSUME NEW s \in SeqIds, \A t \in ToSet(l) : t < s
        PROVE  Increasing(Append(l, s))
    <2> DEFINE a == Append(l, s)
    <2>1. /\ a \in Seq(SeqIds) /\ Len(a) = Len(l) + 1
          /\ \A i \in 1 .. Len(l) : a[i] = l[i]
          /\ a[Len(l) + 1] = s
      BY AppendProperties
    <2> HIDE DEF a
    <2>2. \A i \in 1 .. Len(l) : l[i] < s
      BY <1>4, InList
    <2>3. ASSUME NEW j \in 1 .. Len(a), NEW k \in 1 .. Len(a), j < k
          PROVE  a[j] < a[k]
      BY <1>1, <2>1, <2>2, <2>3
    <2>4. QED
      BY <2>1, <2>3 DEF Increasing, a
  <1>5. QED
    BY <1>2, <1>3, <1>4

LEMMA WaitingStep ==
    ASSUME TypeOK, Control, StatusMatchesPlace, TodoIsRunning, OldestFirst, [Next]_vars
    PROVE  WaitingPlace'
  <1> USE DEF StatusMatchesPlace
  <1>0. /\ status \in [SeqIds -> Statuses]
        /\ waiting \in Seq(SeqIds) /\ todo \in Seq(SeqIds) /\ still_waiting \in Seq(SeqIds)
        /\ \A s \in SeqIds : status[s] = "waiting" <=> s \in ToSet(Unadmitted)
        /\ Increasing(Unadmitted)
    BY DEF TypeOK, WaitingPlace
  <1>1. ASSUME NEW p \in PromptLens, NEW m \in MaxNews, AddRequest(p, m)
        PROVE  WaitingPlace'
    <2> DEFINE n == next_seq_id
    <2>1. /\ n \in SeqIds
          /\ status' = [status EXCEPT ![n] = "waiting"]
          /\ Unadmitted = waiting /\ Unadmitted' = Append(waiting, n)
      BY <1>1 DEF AddRequest, TypeOK, SeqIds, Unadmitted, control
    <2>2. ASSUME NEW t \in ToSet(waiting)
          PROVE  t < n
      <3>1. t \in SeqIds /\ status[t] = "waiting"
        BY <1>0, <2>1, <2>2, InList
      <3>2. ~ (t >= n)
        BY <3>1 DEF ArrivedPlace
      <3>3. QED
        BY <2>1, <3>1, <3>2 DEF SeqIds
    <2>3. Increasing(Append(waiting, n))
      BY <1>0, <2>1, <2>2, IncreasingFacts
    <2>4. ASSUME NEW s \in SeqIds
          PROVE  status'[s] = "waiting" <=> s \in ToSet(Append(waiting, n))
      BY <1>0, <2>1, InAppend
    <2>5. QED
      BY <2>1, <2>3, <2>4 DEF WaitingPlace
  <1>2. CASE BeginStep
    <2>1. Unadmitted = waiting /\ Unadmitted' = <<>> \o waiting /\ status' = status
      BY <1>2 DEF BeginStep, Unadmitted, Control
    <2>2. <<>> \o waiting = waiting
      BY <1>0, ConcatEmptySeq
    <2>3. QED
      BY <1>0, <2>1, <2>2 DEF WaitingPlace
  <1>3. CASE AdmitOne
    <2> DEFINE s == Head(todo)
               k == Len(still_waiting) + 1
    <2>1. /\ s \in SeqIds
          /\ Unadmitted = still_waiting \o todo /\ Unadmitted \in Seq(SeqIds)
          /\ Unadmitted' = still_waiting \o Tail(todo)
          /\ status' = [status EXCEPT ![s] = "running"]
      BY <1>3, HeadWaits DEF AdmitOne, Unadmitted
    <2>2. /\ k \in 1 .. Len(Unadmitted) /\ Unadmitted[k] = s
          /\ Unadmitted' = RemoveAt(Unadmitted, k)
      BY <1>0, <1>3, <2>1, SkipHead DEF AdmitOne
    <2>3. /\ Increasing(RemoveAt(Unadmitted, k))
          /\ \A t : t \in ToSet(RemoveAt(Unadmitted, k)) <=> t \in ToSet(Unadmitted) /\ t # s
      BY <1>0, <2>1, <2>2, IncreasingFacts, InRemoveAt
    <2>4. ASSUME NEW t \in SeqIds
          PROVE  status'[t] = "waiting" <=> t \in ToSet(Unadmitted')
      BY <1>0, <2>1, <2>2, <2>3
    <2>5. QED
      BY <2>2, <2>3, <2>4 DEF WaitingPlace
  <1>4. CASE KeepWaiting
    <2>1. Unadmitted' = Unadmitted
      BY <1>0, <1>4, ShiftHead DEF KeepWaiting, Unadmitted
    <2>2. QED
      BY <1>0, <1>4, <2>1 DEF KeepWaiting, WaitingPlace
  <1>5. CASE EndAdmit
    <2>1. Unadmitted = still_waiting \o <<>> /\ Unadmitted' = still_waiting
      BY <1>5 DEF EndAdmit, NextPhase, Unadmitted
    <2>2. still_waiting \o <<>> = still_waiting
      BY <1>0, ConcatEmptySeq
    <2>3. QED
      BY <1>0, <1>5, <2>1, <2>2 DEF EndAdmit, WaitingPlace
  <1>6. ASSUME pc # "admit", pc' # "admit", waiting' = waiting,
               NEW s \in SeqIds, NEW new, status[s] # "waiting", new # "waiting",
               status' = [status EXCEPT ![s] = new]
        PROVE  WaitingPlace'
    <2>1. Unadmitted' = Unadmitted
      BY <1>6 DEF Unadmitted
    <2>2. QED
      BY <1>0, <1>6, <2>1 DEF WaitingPlace
  <1>7. CASE Evict
    <2>1. status[running[1]] = "running"
      BY <1>7, EvictFacts DEF RunningPlace
    <2>2. QED
      BY <1>6, <1>7, <2>1, EvictFacts DEF Evict
  <1>8. CASE DecodeFinishes
    BY <1>6, <1>8, HeadRuns DEF DecodeFinishes, DecodeHead
  <1>9. CASE pc # "admit" /\ pc' # "admit" /\ UNCHANGED <<waiting, status>>
    <2>1. Unadmitted' = Unadmitted
      BY <1>9 DEF Unadmitted
    <2>2. QED
      BY <1>0, <1>9, <2>1 DEF WaitingPlace
  <1>10. CASE UNCHANGED vars
    BY <1>0, <1>10 DEF vars, control, WaitingPlace, Unadmitted
  <1>11. QED
    BY <1>1, <1>2, <1>3, <1>4, <1>5, <1>7, <1>8, <1>9, <1>10
       DEF Next, Step, EnsureRoom, Retry, EndEnsure, NextPhase,
           DecodeContinues, DecodeHead, EndStep

LEMMA RunningStep ==
    ASSUME TypeOK, StatusMatchesPlace, TodoIsRunning, OldestFirst, [Next]_vars
    PROVE  RunningPlace'
  <1> USE DEF StatusMatchesPlace
  <1>0. /\ status \in [SeqIds -> Statuses] /\ running \in Seq(SeqIds)
        /\ \A s \in SeqIds : status[s] = "running" <=> s \in ToSet(running)
        /\ IsInjective(running)
    BY DEF TypeOK, RunningPlace
  <1>1. ASSUME NEW p \in PromptLens, NEW m \in MaxNews, AddRequest(p, m)
        PROVE  RunningPlace'
    <2>1. /\ next_seq_id \in SeqIds /\ next_seq_id >= next_seq_id
          /\ status' = [status EXCEPT ![next_seq_id] = "waiting"]
          /\ running' = running
      BY <1>1 DEF AddRequest, TypeOK, SeqIds
    <2>2. status[next_seq_id] = "none"
      BY <2>1 DEF ArrivedPlace
    <2>3. QED
      BY <1>0, <2>1, <2>2 DEF RunningPlace
  <1>2. CASE AdmitOne
    <2> DEFINE s == Head(todo)
    <2>1. /\ s \in SeqIds /\ s \notin ToSet(running)
          /\ running' = Append(running, s)
          /\ status' = [status EXCEPT ![s] = "running"]
      BY <1>0, <1>2, HeadWaits DEF AdmitOne
    <2>2. IsInjective(Append(running, s))
      BY <1>0, <2>1, InjectiveAppend
    <2>3. \A t : t \in ToSet(Append(running, s)) <=> t \in ToSet(running) \/ t = s
      BY <1>0, <2>1, InAppend
    <2>4. QED
      BY <1>0, <2>1, <2>2, <2>3 DEF RunningPlace
  <1>3. ASSUME NEW i \in 1 .. Len(running), NEW new, new # "running",
               running' = RemoveAt(running, i),
               status' = [status EXCEPT ![running[i]] = new]
        PROVE  RunningPlace'
    <2>1. /\ IsInjective(RemoveAt(running, i))
          /\ \A t : t \in ToSet(RemoveAt(running, i)) <=>
                        t \in ToSet(running) /\ t # running[i]
      BY <1>0, InRemoveAt
    <2>2. running[i] \in SeqIds
      BY <1>0
    <2>3. QED
      BY <1>0, <1>3, <2>1, <2>2 DEF RunningPlace
  <1>4. CASE Evict
    <2>1. 1 \in 1 .. Len(running)
      BY <1>4, EvictFacts
    <2>2. QED
      BY <1>3, <1>4, <2>1, EvictFacts
  <1>5. CASE DecodeFinishes
    <2>1. PICK i \in DOMAIN running :
                running[i] = Head(todo) /\ running' = RemoveAt(running, i)
      BY <1>5 DEF DecodeFinishes
    <2>2. i \in 1 .. Len(running)
      BY <1>0
    <2>3. QED
      BY <1>3, <1>5, <2>1, <2>2 DEF DecodeFinishes
  <1>6. CASE UNCHANGED <<status, running>>
    BY <1>0, <1>6 DEF RunningPlace
  <1>7. QED
    BY <1>1, <1>2, <1>4, <1>5, <1>6
       DEF Next, Step, BeginStep, KeepWaiting, EndAdmit, EnsureRoom, Retry, EndEnsure,
           DecodeContinues, DecodeHead, EndStep, vars

-----------------------------------------------------------------------------
(* TodoIsRunning *)

\* What is left of the list is a tail of what is left of the running requests
\* when the head of both goes.
LEMMA TailOfRemoved ==
    ASSUME TypeOK, RunningPlace, IsTailOf(todo, running), todo # <<>>,
           NEW i \in 1 .. Len(running), running[i] = Head(todo)
    PROVE  /\ i = Len(running) - Len(todo) + 1
           /\ IsTailOf(Tail(todo), RemoveAt(running, i))
  <1> DEFINE k == Len(running) - Len(todo) + 1
             r == RemoveAt(running, i)
             l == Tail(todo)
  <1>1. /\ k \in 1 .. Len(running) /\ running[k] = Head(todo)
        /\ IsTailOf(l, running)
        /\ Len(l) = Len(todo) - 1
        /\ Len(todo) \in Nat \ {0} /\ Len(running) \in Nat
        /\ Len(todo) <= Len(running)
    BY TailFacts
  <1>2. i = k
    BY <1>1 DEF RunningPlace, IsInjective
  <1>3. /\ Len(r) = Len(running) - 1
        /\ \A j \in i .. Len(running) - 1 : r[j] = running[j + 1]
    BY RemoveAtFacts DEF TypeOK
  <1>4. \A j \in 1 .. Len(l) : l[j] = running[Len(running) - Len(l) + j]
    BY <1>1 DEF IsTailOf
  <1> HIDE DEF r, l
  <1>5. ASSUME NEW j \in 1 .. Len(l)
        PROVE  l[j] = r[Len(r) - Len(l) + j]
    <2>1. /\ Len(r) - Len(l) + j \in i .. Len(running) - 1
          /\ (Len(r) - Len(l) + j) + 1 = Len(running) - Len(l) + j
      BY <1>1, <1>2, <1>3
    <2>2. QED
      BY <1>3, <1>4, <2>1
  <1>6. Len(l) <= Len(r)
    BY <1>1, <1>3
  <1>7. IsTailOf(l, r)
    BY <1>5, <1>6 DEF IsTailOf
  <1>8. QED
    BY <1>2, <1>7 DEF r, l

\* The first running request goes, and is not on the list, or is its head.
LEMMA TailOfShorter ==
    ASSUME TypeOK, RunningPlace, IsTailOf(todo, running), todo # <<>>
    PROVE  \/ IsTailOf(todo, RemoveAt(running, 1))
           \/ RemoveAt(running, 1) = Tail(todo) /\ running[1] = Head(todo)
  <1> DEFINE r == RemoveAt(running, 1)
  <1>1. /\ running[Len(running) - Len(todo) + 1] = Head(todo)
        /\ Len(todo) \in Nat \ {0} /\ Len(running) \in Nat
        /\ Len(todo) <= Len(running)
        /\ todo \in Seq(SeqIds) /\ running \in Seq(SeqIds)
        /\ \A j \in 1 .. Len(todo) : todo[j] = running[Len(running) - Len(todo) + j]
    BY TailFacts DEF TypeOK, IsTailOf
  <1>2. /\ r \in Seq(SeqIds)
        /\ Len(r) = Len(running) - 1
        /\ \A j \in 1 .. Len(running) - 1 : r[j] = running[j + 1]
    <2>1. 1 \in 1 .. Len(running) /\ running \in Seq(SeqIds)
      BY <1>1
    <2>2. QED
      BY <2>1, RemoveAtFacts
  <1> HIDE DEF r
  <1>3. CASE Len(todo) < Len(running)
    <2>1. ASSUME NEW j \in 1 .. Len(todo)
          PROVE  todo[j] = r[Len(r) - Len(todo) + j]
      <3>1. /\ Len(r) - Len(todo) + j \in 1 .. Len(running) - 1
            /\ (Len(r) - Len(todo) + j) + 1 = Len(running) - Len(todo) + j
        BY <1>1, <1>2, <1>3
      <3>2. QED
        BY <1>1, <1>2, <3>1
    <2>2. Len(todo) <= Len(r)
      BY <1>1, <1>2, <1>3
    <2>3. QED
      BY <2>1, <2>2 DEF IsTailOf, r
  <1>4. CASE Len(todo) = Len(running)
    <2>1. /\ Tail(todo) \in Seq(SeqIds)
          /\ Len(Tail(todo)) = Len(todo) - 1
          /\ \A j \in 1 .. Len(todo) - 1 : Tail(todo)[j] = todo[j + 1]
      BY <1>1, InTail
    <2>2. ASSUME NEW j \in 1 .. Len(r)
          PROVE  r[j] = Tail(todo)[j]
      <3>1. j \in 1 .. Len(todo) - 1 /\ j + 1 \in 1 .. Len(todo)
        BY <1>1, <1>2, <1>4
      <3>2. Len(running) - Len(todo) + (j + 1) = j + 1
        BY <1>1, <1>4, <3>1
      <3>3. QED
        BY <1>1, <1>2, <1>4, <2>1, <3>1, <3>2
    <2>3. Len(r) = Len(Tail(todo))
      BY <1>2, <1>4, <2>1
    <2>4. r = Tail(todo)
      BY <1>2, <2>1, <2>2, <2>3, SeqEqual
    <2>5. running[1] = Head(todo)
      BY <1>1, <1>4
    <2>6. QED
      BY <2>4, <2>5 DEF r
  <1>5. QED
    BY <1>1, <1>3, <1>4

LEMMA TodoStep ==
    ASSUME TypeOK, StatusMatchesPlace, TodoIsRunning, OldestFirst, [Next]_vars
    PROVE  TodoIsRunning'
  <1> USE DEF StatusMatchesPlace
  <1>1. CASE pc' \in {"idle", "admit"}
    BY <1>1 DEF TodoIsRunning
  <1>2. CASE EndAdmit \/ EndEnsure
    BY <1>2, WholeIsTail DEF EndAdmit, EndEnsure, NextPhase, TodoIsRunning, IsTailOf
  <1>3. CASE EnsureRoom
    BY <1>3, TailFacts DEF EnsureRoom, TodoIsRunning, IsTailOf
  <1>4. CASE Evict
    <2> DEFINE v == running[1]
    <2>1. /\ IsTailOf(todo, running) /\ todo # <<>>
          /\ todo' = todo /\ pc' = "retry"
      BY <1>4 DEF Evict, TodoIsRunning
    <2>2. /\ v \in SeqIds /\ running' = RemoveAt(running, 1)
          /\ status' = [status EXCEPT ![v] = "evicted"]
          /\ Free(v)
          /\ 1 \in 1 .. Len(running)
      BY <1>4, EvictFacts
    <2>3. v \notin ToSet(running') /\ status'[v] = "evicted" /\ owned'[v] = <<>>
      BY <2>2, InRemoveAt, FreeFacts DEF TypeOK, RunningPlace
    <2>4. CASE IsTailOf(todo, RemoveAt(running, 1))
      BY <2>1, <2>2, <2>4 DEF TodoIsRunning, IsTailOf
    <2>5. CASE RemoveAt(running, 1) = Tail(todo) /\ v = Head(todo)
      BY <2>1, <2>2, <2>3, <2>5 DEF TodoIsRunning
    <2>6. QED
      BY <2>1, <2>4, <2>5, TailOfShorter
  <1>5. CASE Retry
    <2>1. todo' = Tail(todo) /\ running' = running /\ pc' = "ensure" /\ todo # <<>>
      BY <1>5 DEF Retry, TodoIsRunning
    <2>2. IsTailOf(Tail(todo), running)
      <3>1. CASE IsTailOf(todo, running)
        BY <2>1, <3>1, TailFacts
      <3>2. CASE running = Tail(todo)
        BY <3>2, WholeIsTail
      <3>3. QED
        BY <1>5, <3>1, <3>2 DEF Retry, TodoIsRunning
    <2>3. QED
      BY <2>1, <2>2 DEF TodoIsRunning, IsTailOf
  <1>6. CASE DecodeContinues
    BY <1>6, TailFacts DEF DecodeContinues, DecodeHead, TodoIsRunning, IsTailOf
  <1>7. CASE DecodeFinishes
    <2>1. PICK i \in DOMAIN running :
                running[i] = Head(todo) /\ running' = RemoveAt(running, i)
      BY <1>7 DEF DecodeFinishes
    <2>2. i \in 1 .. Len(running)
      <3>1. running \in Seq(SeqIds)
        BY DEF TypeOK
      <3>2. QED
        BY <3>1
    <2>3. /\ IsTailOf(todo, running) /\ todo # <<>>
          /\ todo' = Tail(todo) /\ pc' = "decode"
      BY <1>7 DEF DecodeFinishes, DecodeHead, TodoIsRunning
    <2>4. IsTailOf(Tail(todo), RemoveAt(running, i))
      BY <2>1, <2>2, <2>3, TailOfRemoved
    <2>5. QED
      BY <2>1, <2>3, <2>4 DEF TodoIsRunning, IsTailOf
  <1>8. CASE UNCHANGED vars
    BY <1>8 DEF vars, control, TodoIsRunning, IsTailOf
  <1>9. QED
    BY <1>1, <1>2, <1>3, <1>4, <1>5, <1>6, <1>7, <1>8
       DEF Next, Step, AddRequest, control, BeginStep, AdmitOne, KeepWaiting, EndStep

-----------------------------------------------------------------------------
(* Progress and FinishedLength *)

LEMMA ProgressStep ==
    ASSUME TypeOK, StatusMatchesPlace, TodoIsRunning, OldestFirst, Progress, [Next]_vars
    PROVE  Progress'
  <1> USE DEF StatusMatchesPlace
  <1>0. /\ status \in [SeqIds -> Statuses] /\ seq_len \in [SeqIds -> Nat]
        /\ prompt_len \in [SeqIds -> Nat] /\ max_new_tokens \in [SeqIds -> Nat]
    BY DEF TypeOK
  <1>1. ASSUME NEW p \in PromptLens, NEW m \in MaxNews, AddRequest(p, m)
        PROVE  Progress'
    <2>1. /\ next_seq_id \in SeqIds
          /\ status' = [status EXCEPT ![next_seq_id] = "waiting"]
          /\ seq_len' = [seq_len EXCEPT ![next_seq_id] = p]
          /\ prompt_len' = [prompt_len EXCEPT ![next_seq_id] = p]
          /\ max_new_tokens' = [max_new_tokens EXCEPT ![next_seq_id] = m]
      BY <1>1 DEF AddRequest, TypeOK, SeqIds
    <2>2. p \in Nat /\ p >= 1
      OBVIOUS
    <2>3. QED
      BY <1>0, <2>1, <2>2 DEF Progress, IsDone, Target
  <1>2. CASE AdmitOne
    <2>1. /\ Head(todo) \in SeqIds /\ status[Head(todo)] = "waiting"
          /\ status' = [status EXCEPT ![Head(todo)] = "running"]
          /\ UNCHANGED <<seq_len, prompt_len, max_new_tokens>>
      BY <1>2, HeadWaits DEF AdmitOne, requests
    <2>2. QED
      BY <1>0, <2>1 DEF Progress, IsDone, Target
  <1>3. CASE Evict
    <2>1. /\ running[1] \in SeqIds /\ status[running[1]] = "running"
          /\ status' = [status EXCEPT ![running[1]] = "evicted"]
          /\ UNCHANGED <<seq_len, prompt_len, max_new_tokens>>
      BY <1>3, EvictFacts DEF Evict, requests, RunningPlace
    <2>2. QED
      BY <1>0, <2>1 DEF Progress, IsDone, Target
  <1>4. CASE DecodeContinues
    <2> DEFINE s == Head(todo)
    <2>1. /\ s \in SeqIds /\ status[s] = "running"
          /\ status' = status
          /\ seq_len' = [seq_len EXCEPT ![s] = seq_len[s] + 1]
          /\ UNCHANGED <<prompt_len, max_new_tokens>>
          /\ ~ IsDone(s, seq_len[s] + 1)
      BY <1>4, HeadRuns DEF DecodeContinues, DecodeHead, requests
    <2>2. QED
      BY <1>0, <2>1 DEF Progress, IsDone, Target
  <1>5. CASE DecodeFinishes
    <2> DEFINE s == Head(todo)
    <2>1. /\ s \in SeqIds /\ status[s] = "running"
          /\ status' = [status EXCEPT ![s] = "finished"]
          /\ seq_len' = [seq_len EXCEPT ![s] = seq_len[s] + 1]
          /\ UNCHANGED <<prompt_len, max_new_tokens>>
          /\ IsDone(s, seq_len[s] + 1)
      BY <1>5, HeadRuns DEF DecodeFinishes, DecodeHead, requests
    <2>2. seq_len[s] + 1 = prompt_len[s] + Target(s)
      BY <1>0, <2>1 DEF Progress, IsDone, Target
    <2> HIDE DEF s
    <2>3. QED
      BY <1>0, <2>1, <2>2 DEF Progress, IsDone, Target
  <1>6. CASE UNCHANGED <<status, seq_len, prompt_len, max_new_tokens>>
    BY <1>6 DEF Progress, IsDone, Target
  <1>7. QED
    BY <1>1, <1>2, <1>3, <1>4, <1>5, <1>6
       DEF Next, Step, BeginStep, KeepWaiting, EndAdmit, EnsureRoom, Retry, EndEnsure,
           EndStep, vars, requests

LEMMA FinishedStep ==
    ASSUME TypeOK, StatusMatchesPlace, TodoIsRunning, OldestFirst, Progress,
           FinishedLength, [Next]_vars
    PROVE  FinishedLength'
  <1> USE DEF StatusMatchesPlace
  <1>0. /\ status \in [SeqIds -> Statuses] /\ finished \in [SeqIds -> Nat \cup {None}]
        /\ prompt_len \in [SeqIds -> Nat] /\ max_new_tokens \in [SeqIds -> Nat]
    BY DEF TypeOK
  <1>1. ASSUME NEW p \in PromptLens, NEW m \in MaxNews, AddRequest(p, m)
        PROVE  FinishedLength'
    <2>1. /\ next_seq_id \in SeqIds /\ next_seq_id >= next_seq_id
          /\ status' = [status EXCEPT ![next_seq_id] = "waiting"]
          /\ prompt_len' = [prompt_len EXCEPT ![next_seq_id] = p]
          /\ max_new_tokens' = [max_new_tokens EXCEPT ![next_seq_id] = m]
          /\ finished' = finished
      BY <1>1 DEF AddRequest, TypeOK, SeqIds
    <2>2. status[next_seq_id] = "none"
      BY <2>1 DEF ArrivedPlace
    <2>3. QED
      BY <1>0, <2>1, <2>2 DEF FinishedLength, Target
  <1>2. ASSUME NEW s \in SeqIds, NEW new, status[s] # "finished", new # "finished",
               status' = [status EXCEPT ![s] = new],
               UNCHANGED <<finished, prompt_len, max_new_tokens>>
        PROVE  FinishedLength'
    BY <1>0, <1>2 DEF FinishedLength, Target
  <1>3. CASE AdmitOne
    BY <1>2, <1>3, HeadWaits DEF AdmitOne, requests
  <1>4. CASE Evict
    <2>1. running[1] \in SeqIds /\ status[running[1]] = "running"
      BY <1>4, EvictFacts DEF RunningPlace
    <2>2. QED
      BY <1>2, <1>4, <2>1, EvictFacts DEF Evict, requests
  <1>5. CASE DecodeFinishes
    <2> DEFINE s == Head(todo)
    <2>1. /\ s \in SeqIds
          /\ status' = [status EXCEPT ![s] = "finished"]
          /\ finished' = [finished EXCEPT ![s] = seq_len[s] + 1]
          /\ UNCHANGED <<prompt_len, max_new_tokens>>
          /\ seq_len'[s] = seq_len[s] + 1
      BY <1>5, HeadRuns DEF DecodeFinishes, DecodeHead, requests, TypeOK
    <2>2. /\ status[s] = "running" /\ IsDone(s, seq_len[s] + 1)
          /\ seq_len[s] \in Nat
      BY <1>5, HeadRuns DEF DecodeFinishes, DecodeHead, TypeOK
    <2>3. seq_len[s] + 1 = prompt_len[s] + Target(s)
      BY <1>0, <2>1, <2>2 DEF Progress, IsDone, Target
    <2> HIDE DEF s
    <2>4. \A x \in SeqIds : Target(x)' = Target(x) /\ prompt_len'[x] = prompt_len[x]
      BY <2>1 DEF Target
    <2>5. ASSUME NEW x \in SeqIds
          PROVE  finished'[x] = IF status'[x] = "finished"
                                THEN prompt_len'[x] + Target(x)' ELSE None
      <3>1. CASE x = s
        BY <1>0, <2>1, <2>3, <2>4, <3>1
      <3>2. CASE x # s
        BY <1>0, <2>1, <2>4, <3>2 DEF FinishedLength
      <3>3. QED
        BY <3>1, <3>2
    <2>6. QED
      BY <2>5 DEF FinishedLength
  <1>6. CASE UNCHANGED <<status, finished, prompt_len, max_new_tokens>>
    BY <1>6 DEF FinishedLength, Target
  <1>7. QED
    BY <1>1, <1>3, <1>4, <1>5, <1>6
       DEF Next, Step, BeginStep, KeepWaiting, EndAdmit, EnsureRoom, Retry, EndEnsure,
           DecodeContinues, DecodeHead, EndStep, vars, requests

-----------------------------------------------------------------------------
(* OldestFirst *)

\* The n numbers g do not grow, and fall between the mark and what follows it.
Descending(g, n, mark) == \A i, j \in 1 .. n : i < j =>
    /\ g[i] >= g[j]
    /\ i <= mark /\ mark < j => g[i] > g[j]

\* OldestFirst is about the numbers of generated tokens, in the order of the
\* list, and the mark is the number of sequences that are decoded already.
Generated == [i \in 1 .. Len(running) |-> num_generated(running[i])]
Decoded == IF pc = "decode" THEN Len(running) - Len(todo) ELSE 0

\* A zero may follow where nothing is negative.
LEMMA DescendingAppend ==
    ASSUME NEW n \in Nat, NEW g, NEW h, Descending(g, n, 0),
           \A i \in 1 .. n : g[i] \in Nat /\ h[i] = g[i], h[n + 1] = 0
    PROVE  Descending(h, n + 1, 0)
  <1> SUFFICES ASSUME NEW i \in 1 .. n + 1, NEW j \in 1 .. n + 1, i < j
               PROVE  h[i] >= h[j] /\ ~ i <= 0
    BY DEF Descending
  <1>1. i \in 1 .. n /\ (j \in 1 .. n \/ j = n + 1)
    OBVIOUS
  <1>2. QED
    BY <1>1 DEF Descending

\* Any number may be left out, if no mark is kept or it is next to the mark.
LEMMA DescendingRemove ==
    ASSUME NEW n \in Nat, NEW g, NEW h, NEW k \in 1 .. n, NEW mark \in Int,
           Descending(g, n, mark), NEW new \in Int, new = 0 \/ (new = mark /\ k = mark + 1),
           \A i \in 1 .. k - 1 : h[i] = g[i],
           \A i \in k .. n - 1 : h[i] = g[i + 1]
    PROVE  Descending(h, n - 1, new)
  <1> DEFINE old(i) == IF i < k THEN i ELSE i + 1
  <1>1. ASSUME NEW i \in 1 .. n - 1
        PROVE  /\ old(i) \in 1 .. n /\ h[i] = g[old(i)]
               /\ i <= new /\ new # 0 => old(i) <= mark
               /\ new < i /\ new # 0 => mark < old(i)
    <2>1. CASE i < k
      BY <2>1
    <2>2. CASE i >= k
      BY <2>2
    <2>3. QED
      BY <2>1, <2>2
  <1> SUFFICES ASSUME NEW i \in 1 .. n - 1, NEW j \in 1 .. n - 1, i < j
               PROVE  /\ h[i] >= h[j]
                      /\ i <= new /\ new < j => h[i] > h[j]
    BY DEF Descending
  <1>2. old(i) < old(j)
    OBVIOUS
  <1>3. /\ old(i) \in 1 .. n /\ h[i] = g[old(i)]
        /\ old(j) \in 1 .. n /\ h[j] = g[old(j)]
        /\ i <= new /\ new < j => old(i) <= mark /\ mark < old(j)
    BY <1>1
  <1> HIDE DEF old
  <1>4. QED
    BY <1>2, <1>3 DEF Descending

\* The number after the mark may grow by one, if the mark moves past it.
LEMMA DescendingBump ==
    ASSUME NEW n \in Nat, NEW g, NEW h, NEW mark \in Nat, Descending(g, n, mark),
           mark + 1 \in 1 .. n, \A i \in 1 .. n : g[i] \in Int,
           \A i \in 1 .. n : h[i] = IF i = mark + 1 THEN g[i] + 1 ELSE g[i]
    PROVE  Descending(h, n, mark + 1)
  <1> SUFFICES ASSUME NEW i \in 1 .. n, NEW j \in 1 .. n, i < j
               PROVE  /\ h[i] >= h[j]
                      /\ i <= mark + 1 /\ mark + 1 < j => h[i] > h[j]
    BY DEF Descending
  <1>1. /\ g[i] >= g[j]
        /\ i <= mark /\ mark < j => g[i] > g[j]
    BY DEF Descending
  <1>2. g[i] \in Int /\ g[j] \in Int
    OBVIOUS
  <1>3. QED
    BY <1>1, <1>2

LEMMA OldestIsDescending ==
    ASSUME TypeOK
    PROVE  /\ OldestFirst <=> Descending(Generated, Len(running), Decoded)
           /\ Decoded \in Int
           /\ Len(running) \in Nat
           /\ \A i \in 1 .. Len(running) : Generated[i] = num_generated(running[i])
                                           /\ Generated[i] \in Int
  <1>1. /\ Len(running) \in Nat /\ Len(todo) \in Nat /\ DOMAIN running = 1 .. Len(running)
        /\ \A i \in 1 .. Len(running) : running[i] \in SeqIds
        /\ seq_len \in [SeqIds -> Nat] /\ prompt_len \in [SeqIds -> Nat]
    BY DEF TypeOK
  <1>2. \A i \in 1 .. Len(running) : /\ Generated[i] = num_generated(running[i])
                                     /\ Generated[i] \in Int
    BY <1>1 DEF Generated, num_generated
  <1>3. Decoded \in Int /\ (pc # "decode" => Decoded = 0)
                        /\ (pc = "decode" => Decoded = Len(running) - Len(todo))
    BY <1>1 DEF Decoded
  <1>4. OldestFirst <=> Descending(Generated, Len(running), Decoded)
    <2> DEFINE ordered(i, j) ==
            /\ num_generated(running[i]) >= num_generated(running[j])
            /\ pc = "decode" /\ i <= Len(running) - Len(todo) /\ Len(running) - Len(todo) < j
                    => num_generated(running[i]) > num_generated(running[j])
    <2>1. OldestFirst <=> \A i, j \in 1 .. Len(running) : i < j => ordered(i, j)
      BY <1>1 DEF OldestFirst
    <2>2. ASSUME NEW i \in 1 .. Len(running), NEW j \in 1 .. Len(running)
          PROVE  ordered(i, j) <=>
                    /\ Generated[i] >= Generated[j]
                    /\ i <= Decoded /\ Decoded < j => Generated[i] > Generated[j]
      BY <1>2, <1>3
    <2> HIDE DEF ordered
    <2>3. QED
      BY <2>1, <2>2 DEF Descending
  <1>5. QED
    BY <1>1, <1>2, <1>3, <1>4

LEMMA OldestStep ==
    ASSUME TypeOK, StatusMatchesPlace, TodoIsRunning, OldestFirst, Progress, [Next]_vars
    PROVE  OldestFirst'
  <1> USE DEF StatusMatchesPlace
  <1> DEFINE g == Generated
             n == Len(running)
  <1>0. /\ Descending(g, n, Decoded) /\ n \in Nat /\ Decoded \in Int
        /\ \A i \in 1 .. n : g[i] = num_generated(running[i]) /\ g[i] \in Int
    BY OldestIsDescending
  <1>a. /\ OldestFirst' <=> Descending(g', n', Decoded')
        /\ \A i \in 1 .. n' : g'[i] = num_generated(running[i])'
        /\ n' \in Nat
    <2>1. TypeOK'
      BY TypeStep DEF TodoIsRunning, RetryAsks
    <2>2. /\ n' \in Nat /\ Len(todo') \in Nat /\ DOMAIN running' = 1 .. n'
          /\ \A i \in 1 .. n' : running'[i] \in SeqIds
      BY <2>1 DEF TypeOK
    <2>3. \A i \in 1 .. n' : g'[i] = num_generated(running[i])'
      BY DEF Generated
    <2>4. Decoded' \in Int /\ (pc' # "decode" => Decoded' = 0)
                           /\ (pc' = "decode" => Decoded' = n' - Len(todo'))
      BY <2>2 DEF Decoded
    <2>5. QED
      BY <2>2, <2>3, <2>4 DEF OldestFirst, Descending
  <1>t. /\ running \in Seq(SeqIds) /\ Len(running) \in Nat
        /\ todo \in Seq(SeqIds) /\ Len(todo) \in Nat
        /\ seq_len \in [SeqIds -> Nat] /\ prompt_len \in [SeqIds -> Nat]
        /\ DOMAIN running = 1 .. n
    BY DEF TypeOK
  <1>r. \A i \in 1 .. n : running[i] \in SeqIds /\ status[running[i]] = "running"
    BY <1>t, InList DEF RunningPlace
  <1>i. \A i, j \in 1 .. n : running[i] = running[j] => i = j
    BY <1>t DEF RunningPlace, IsInjective
  \* where nothing that the mark speaks of changes
  <1>u. ASSUME running' = running, Decoded' \in {0, Decoded},
               \A i \in 1 .. n : num_generated(running[i])' = num_generated(running[i])
        PROVE  OldestFirst'
    <2>1. n' = n /\ \A i \in 1 .. n : g'[i] = g[i]
      BY <1>0, <1>a, <1>u
    <2> HIDE DEF g, n
    <2>2. QED
      BY <1>0, <1>a, <1>u, <2>1 DEF Descending
  <1>2. ASSUME NEW a \in PromptLens, NEW m \in MaxNews, AddRequest(a, m)
        PROVE  OldestFirst'
    <2>1. /\ next_seq_id \in SeqIds /\ next_seq_id >= next_seq_id
          /\ seq_len' = [seq_len EXCEPT ![next_seq_id] = a]
          /\ prompt_len' = [prompt_len EXCEPT ![next_seq_id] = a]
          /\ running' = running /\ pc' = "idle"
      BY <1>2 DEF AddRequest, TypeOK, SeqIds, control
    <2>2. status[next_seq_id] = "none"
      BY <2>1 DEF ArrivedPlace
    <2>3. \A i \in 1 .. n : num_generated(running[i])' = num_generated(running[i])
      BY <1>r, <1>t, <2>1, <2>2 DEF num_generated
    <2>4. Decoded' = 0
      BY <2>1 DEF Decoded
    <2>5. QED
      BY <1>u, <2>1, <2>3, <2>4
  <1>3. CASE AdmitOne
    <2> DEFINE s == Head(todo)
    <2>1. /\ s \in SeqIds /\ status[s] = "waiting"
          /\ running' = Append(running, s)
          /\ UNCHANGED <<seq_len, prompt_len>> /\ pc' = "admit" /\ pc = "admit"
      BY <1>3, HeadWaits DEF AdmitOne, requests, RunningPlace
    <2>2. num_generated(s) = 0
      BY <1>t, <2>1 DEF Progress, num_generated
    <2>3. ASSUME NEW i \in 1 .. n
          PROVE  g[i] \in Nat
      <3>1. g[i] = seq_len[running[i]] - prompt_len[running[i]]
        BY <1>0 DEF num_generated
      <3>2. /\ seq_len[running[i]] >= prompt_len[running[i]]
            /\ seq_len[running[i]] \in Nat /\ prompt_len[running[i]] \in Nat
        BY <1>r, <1>t DEF Progress
      <3> HIDE DEF g
      <3>3. QED
        BY <3>1, <3>2
    <2>4. /\ n' = n + 1
          /\ \A i \in 1 .. n : running'[i] = running[i]
          /\ running'[n + 1] = s
      BY <1>t, <2>1, AppendProperties
    <2> HIDE DEF s
    <2>5. /\ \A i \in 1 .. n : g'[i] = g[i]
          /\ g'[n + 1] = 0
      <3>1. \A i \in 1 .. n + 1 : g'[i] = num_generated(running[i])'
        BY <1>a, <2>4
      <3>2. n + 1 \in 1 .. n + 1 /\ \A i \in 1 .. n : i \in 1 .. n + 1
        BY <1>0
      <3>3. ASSUME NEW i \in 1 .. n
            PROVE  g'[i] = g[i]
        BY <1>0, <2>1, <2>4, <3>1, <3>2 DEF num_generated
      <3>4. g'[n + 1] = 0
        BY <2>1, <2>2, <2>4, <3>1, <3>2 DEF num_generated
      <3>5. QED
        BY <3>3, <3>4
    <2>6. Decoded = 0 /\ Decoded' = 0
      BY <2>1 DEF Decoded
    <2> HIDE DEF g, n
    <2>7. Descending(g', n + 1, 0)
      BY <1>0, <2>3, <2>5, <2>6, DescendingAppend
    <2>8. QED
      BY <1>a, <2>4, <2>6, <2>7
  <1>4. CASE (EndAdmit \/ EndEnsure) /\ pc' # "idle"
    <2>1. /\ UNCHANGED <<running, seq_len, prompt_len>>
          /\ todo' = running
      BY <1>4 DEF EndAdmit, EndEnsure, NextPhase, requests
    <2>2. Decoded' = 0
      BY <1>t, <2>1 DEF Decoded
    <2>3. QED
      BY <1>u, <2>1, <2>2 DEF num_generated
  \* the entry at k is removed
  <1>5. ASSUME NEW k \in 1 .. n, running' = RemoveAt(running, k), UNCHANGED prompt_len,
               \A i \in 1 .. n : i # k => seq_len'[running[i]] = seq_len[running[i]],
               Decoded' \in Int, Decoded' = 0 \/ (Decoded' = Decoded /\ k = Decoded + 1)
        PROVE  OldestFirst'
    <2>1. /\ n' = n - 1
          /\ \A j \in 1 .. k - 1 : running'[j] = running[j]
          /\ \A j \in k .. n - 1 : running'[j] = running[j + 1]
      <3> DEFINE r == RemoveAt(running, k)
      <3>1. /\ Len(r) = n - 1
            /\ \A j \in 1 .. k - 1 : r[j] = running[j]
            /\ \A j \in k .. n - 1 : r[j] = running[j + 1]
        BY <1>t, RemoveAtFacts
      <3>2. running' = r
        BY <1>5
      <3> HIDE DEF r
      <3>3. QED
        BY <3>1, <3>2
    <2>2. ASSUME NEW i \in 1 .. n, i # k
          PROVE  seq_len'[running[i]] - prompt_len'[running[i]] = g[i]
      BY <1>0, <1>5, <2>2 DEF num_generated
    <2>3. \A j \in 1 .. n - 1 : g'[j] = seq_len'[running'[j]] - prompt_len'[running'[j]]
      BY <1>a, <2>1 DEF num_generated
    <2> HIDE DEF g
    <2>4. ASSUME NEW j \in 1 .. k - 1
          PROVE  g'[j] = g[j]
      <3>1. j \in 1 .. n /\ j # k /\ j \in 1 .. n - 1 /\ running'[j] = running[j]
        BY <1>0, <2>1
      <3>2. QED
        BY <2>2, <2>3, <3>1
    <2>5. ASSUME NEW j \in k .. n - 1
          PROVE  g'[j] = g[j + 1]
      <3>1. j + 1 \in 1 .. n /\ j + 1 # k /\ j \in 1 .. n - 1 /\ running'[j] = running[j + 1]
        BY <1>0, <2>1
      <3>2. QED
        BY <2>2, <2>3, <3>1
    <2> HIDE DEF n
    <2>6. Descending(g', n - 1, Decoded')
      <3>1. /\ n \in Nat /\ k \in 1 .. n /\ Decoded \in Int /\ Decoded' \in Int
            /\ Descending(g, n, Decoded)
            /\ \A j \in 1 .. k - 1 : g'[j] = g[j]
            /\ \A j \in k .. n - 1 : g'[j] = g[j + 1]
        BY <1>0, <1>5, <2>4, <2>5
      <3>2. Decoded' = 0 \/ (Decoded' = Decoded /\ k = Decoded + 1)
        BY <1>5
      <3>3. QED
        BY <3>1, <3>2, DescendingRemove
    <2>7. QED
      BY <1>a, <2>1, <2>6
  <1>6. CASE Evict
    <2>1. 1 \in 1 .. n /\ running' = RemoveAt(running, 1)
      BY <1>6, EvictFacts
    <2>2. UNCHANGED <<seq_len, prompt_len>> /\ Decoded' = 0
      BY <1>6 DEF Evict, requests, Decoded
    <2>3. Decoded' \in Int /\ UNCHANGED prompt_len /\ UNCHANGED seq_len
      BY <2>2
    <2>4. \A i \in 1 .. n : i # 1 => seq_len'[running[i]] = seq_len[running[i]]
      BY <2>3
    <2>5. Decoded' = 0 \/ (Decoded' = Decoded /\ 1 = Decoded + 1)
      BY <2>2
    <2> HIDE DEF n
    <2>6. QED
      BY <1>5, <2>1, <2>3, <2>4, <2>5
  <1>7. ASSUME DecodeHead
        PROVE  /\ Decoded + 1 \in 1 .. n /\ Decoded \in Nat
               /\ running[Decoded + 1] = Head(todo)
               /\ pc = "decode" /\ pc' = "decode" /\ Decoded = n - Len(todo)
               /\ Len(todo') = Len(todo) - 1
               /\ UNCHANGED prompt_len
               /\ seq_len'[Head(todo)] = seq_len[Head(todo)] + 1
               /\ \A i \in 1 .. n : i # Decoded + 1 =>
                        seq_len'[running[i]] = seq_len[running[i]]
    <2>1. /\ IsTailOf(todo, running) /\ todo # <<>> /\ pc = "decode" /\ pc' = "decode"
          /\ todo' = Tail(todo)
          /\ seq_len' = [seq_len EXCEPT ![Head(todo)] = seq_len[Head(todo)] + 1]
          /\ UNCHANGED prompt_len
      BY <1>7 DEF DecodeHead, TodoIsRunning, requests
    <2>2. Decoded = n - Len(todo)
      BY <2>1 DEF Decoded
    <2>3. /\ n - Len(todo) + 1 \in 1 .. n /\ running[n - Len(todo) + 1] = Head(todo)
          /\ Len(todo) \in Nat \ {0} /\ Len(Tail(todo)) = Len(todo) - 1
      BY <2>1, TailFacts
    <2>4. Head(todo) \in SeqIds
      BY <2>1, HeadFacts
    <2>5. Decoded + 1 \in 1 .. n /\ running[Decoded + 1] = Head(todo) /\ Decoded \in Nat
      BY <1>0, <2>2, <2>3
    <2>6. \A i \in 1 .. n : i # Decoded + 1 => running[i] # Head(todo)
      BY <1>i, <2>5
    <2>7. QED
      BY <1>t, <1>r, <2>1, <2>2, <2>3, <2>4, <2>5, <2>6
  <1>8. CASE DecodeFinishes
    <2>1. DecodeHead
      BY <1>8 DEF DecodeFinishes
    <2>2. PICK i \in DOMAIN running :
                running[i] = Head(todo) /\ running' = RemoveAt(running, i)
      BY <1>8 DEF DecodeFinishes
    <2>3. i \in 1 .. n /\ i = Decoded + 1
      BY <1>t, <1>i, <1>7, <2>1, <2>2
    <2>4. n' = n - 1
      BY <1>t, <2>2, <2>3, RemoveAtFacts
    <2>5. Decoded' = n' - Len(todo')
      BY <1>7, <2>1 DEF Decoded
    <2>6. Decoded' = Decoded /\ Decoded \in Int
      <3>1. Len(todo') = Len(todo) - 1 /\ Decoded = n - Len(todo)
        BY <1>7, <2>1
      <3> HIDE DEF n
      <3>2. QED
        BY <1>0, <1>t, <2>4, <2>5, <3>1
    <2>7. QED
      BY <1>5, <1>7, <2>1, <2>2, <2>3, <2>6
  <1>9. CASE DecodeContinues
    <2>1. DecodeHead /\ running' = running
      BY <1>9 DEF DecodeContinues
    <2>2. Decoded' = n - Len(todo')
      BY <1>7, <2>1 DEF Decoded
    <2>3. Decoded' = Decoded + 1
      <3>1. Len(todo') = Len(todo) - 1 /\ Decoded = n - Len(todo)
        BY <1>7, <2>1
      <3> HIDE DEF n
      <3>2. QED
        BY <1>0, <1>t, <2>2, <3>1
    <2>4. ASSUME NEW i \in 1 .. n
          PROVE  g'[i] = IF i = Decoded + 1 THEN g[i] + 1 ELSE g[i]
      <3>1. /\ g'[i] = seq_len'[running[i]] - prompt_len[running[i]]
            /\ g[i] = seq_len[running[i]] - prompt_len[running[i]]
            /\ seq_len[running[i]] \in Nat /\ prompt_len[running[i]] \in Nat
        BY <1>0, <1>a, <1>7, <1>r, <1>t, <2>1 DEF num_generated
      <3>a. /\ i = Decoded + 1 => seq_len'[running[i]] = seq_len[running[i]] + 1
            /\ i # Decoded + 1 => seq_len'[running[i]] = seq_len[running[i]]
        BY <1>7, <2>1
      <3> HIDE DEF g
      <3>2. CASE i = Decoded + 1
        BY <3>a, <3>1, <3>2
      <3>3. CASE i # Decoded + 1
        BY <3>a, <3>1, <3>3
      <3>4. QED
        BY <3>2, <3>3
    <2>5. Decoded \in Nat /\ Decoded + 1 \in 1 .. n
      BY <1>7, <2>1
    <2> HIDE DEF g, n
    <2>6. Descending(g', n, Decoded + 1)
      BY <1>0, <2>4, <2>5, DescendingBump
    <2>7. n' = n
      BY <2>1 DEF n
    <2>8. QED
      BY <1>a, <2>3, <2>6, <2>7
  <1>10. CASE UNCHANGED <<running, seq_len, prompt_len>> /\ pc' # "decode"
    <2>1. Decoded' = 0
      BY <1>10 DEF Decoded
    <2>2. QED
      BY <1>u, <1>10, <2>1 DEF num_generated
  <1>11. CASE UNCHANGED vars
    BY <1>u, <1>11 DEF Decoded, num_generated, vars, requests, control
  <1>12. QED
    BY <1>2, <1>3, <1>4, <1>6, <1>8, <1>9, <1>10, <1>11
       DEF Next, Step, BeginStep, KeepWaiting, EndAdmit, EnsureRoom, Retry, EndEnsure,
           EndStep, NextPhase, requests

-----------------------------------------------------------------------------
(* The pool, and what each sequence owns of it *)

\* A step of the scheduler makes at most one call that changes the pool.
LEMMA PoolEffect ==
    ASSUME TypeOK, RetryAsks, [Next]_vars
    PROVE  \/ UNCHANGED poolVars
           \/ \E s \in SeqIds, n \in Nat : Allocate(s, n)
           \/ \E s \in SeqIds : Free(s)
  <1>1. CASE AdmitOne
    <2>1. Allocate(Head(todo), BlocksFor(prompt_len[Head(todo)])) /\ todo # <<>>
      BY <1>1 DEF AdmitOne
    <2>2. QED
      BY <2>1, HeadFacts
  <1>2. ASSUME todo # <<>>, GrowHead
        PROVE  \E s \in SeqIds, n \in Nat : Allocate(s, n)
    BY <1>2, HeadFacts DEF GrowHead
  <1>3. CASE EnsureRoom
    BY <1>2, <1>3 DEF EnsureRoom
  <1>4. CASE Retry
    BY <1>2, <1>4 DEF Retry, RetryAsks
  <1>5. CASE Evict
    <2>1. PICK i \in DOMAIN running : Free(running[i])
      BY <1>5 DEF Evict
    <2>2. running[i] \in SeqIds
      BY DEF TypeOK
    <2>3. QED
      BY <2>1, <2>2
  <1>6. CASE DecodeFinishes
    BY <1>6, HeadFacts DEF DecodeFinishes, DecodeHead
  <1>7. CASE UNCHANGED poolVars
    BY <1>7
  <1>8. QED
    BY <1>1, <1>3, <1>4, <1>5, <1>6, <1>7
       DEF Next, Step, AddRequest, BeginStep, KeepWaiting, EndAdmit, EndEnsure,
           DecodeContinues, DecodeHead, EndStep, vars, poolVars

LEMMA PartitionStep ==
    ASSUME TypeOK, RetryAsks, Partitioned, [Next]_vars
    PROVE  Partitioned'
  <1>1. PoolTypeOK
    BY DEF TypeOK
  <1>2. CASE UNCHANGED poolVars
    BY <1>2 DEF poolVars, Partitioned, NoBlockShared, NoBlockLost
  <1>3. CASE \E s \in SeqIds, n \in Nat : Allocate(s, n)
    BY <1>1, <1>3, AllocatePartitioned
  <1>4. CASE \E s \in SeqIds : Free(s)
    BY <1>1, <1>4, FreePartitioned
  <1>5. QED
    BY <1>2, <1>3, <1>4, PoolEffect

\* What the growth of the sequence at hand does.
LEMMA GrowFacts ==
    ASSUME TypeOK, todo # <<>>, GrowHead
    PROVE  LET s == Head(todo)
           IN  /\ s \in SeqIds
               /\ Len(owned'[s]) = Len(owned[s]) + Needed(s)
               /\ BlocksFor(seq_len[s] + 1) = BlocksFor(seq_len[s]) + Needed(s)
               /\ Needed(s) \in {0, 1}
               /\ owned'[s] = owned[s] \o NewBlocks(Needed(s))
               /\ block_table' = [block_table EXCEPT ![s] = @ \o NewBlocks(Needed(s))]
               /\ \A t \in SeqIds \ {s} : owned'[t] = owned[t]
  <1> DEFINE s == Head(todo)
  <1>1. s \in SeqIds /\ Needed(s) \in {0, 1}
    BY HeadFacts
  <1>2. seq_len[s] \in Nat /\ PoolTypeOK
    BY <1>1 DEF TypeOK
  <1>3. BlocksFor(seq_len[s] + 1) = BlocksFor(seq_len[s]) + Needed(s)
    BY <1>2, NeededForOne DEF Needed
  <1>4. Allocate(s, Needed(s)) /\ Needed(s) \in Nat
    BY <1>1 DEF GrowHead
  <1>5. QED
    BY <1>1, <1>2, <1>3, <1>4, AllocateFacts DEF GrowHead

\* What the admission of the request at hand does.
LEMMA AdmitFacts ==
    ASSUME TypeOK, StatusMatchesPlace, Progress, LeakBounded, AdmitOne
    PROVE  LET s == Head(todo)
               n == BlocksFor(prompt_len[s])
           IN  /\ s \in SeqIds /\ status[s] = "waiting"
               /\ status' = [status EXCEPT ![s] = "running"]
               /\ running' = Append(running, s)
               /\ UNCHANGED <<seq_len, prompt_len>>
               /\ cached' = [cached EXCEPT ![s] = seq_len[s]]
               /\ n \in Nat /\ Len(free) \in Nat /\ Len(free') = Len(free) - n
               /\ Len(owned'[s]) = BlocksFor(seq_len[s])
               /\ owned'[s] = owned[s] \o NewBlocks(n)
               /\ block_table' = [block_table EXCEPT ![s] = @ \o NewBlocks(n)]
               /\ \A t \in SeqIds \ {s} : owned'[t] = owned[t]
               /\ pc = "admit" /\ pc' = "admit" /\ todo' = Tail(todo)
               /\ UNCHANGED still_waiting
  <1> DEFINE s == Head(todo)
             n == BlocksFor(prompt_len[s])
  <1>1. /\ pc = "admit" /\ pc' = "admit" /\ todo # <<>> /\ todo' = Tail(todo)
        /\ Allocate(s, n)
        /\ status' = [status EXCEPT ![s] = "running"]
        /\ UNCHANGED <<seq_len, prompt_len, still_waiting>>
        /\ cached' = [cached EXCEPT ![s] = seq_len[s]]
        /\ block_table' = [block_table EXCEPT ![s] = @ \o NewBlocks(n)]
        /\ running' = IF s \in ToSet(running) THEN running ELSE Append(running, s)
    BY DEF AdmitOne, requests
  <1>2. s \in SeqIds /\ status[s] = "waiting"
    BY <1>1, HeadWaits DEF StatusMatchesPlace
  <1>3. running' = Append(running, s)
    BY <1>1, <1>2 DEF StatusMatchesPlace, RunningPlace
  <1>4. /\ seq_len[s] = prompt_len[s] /\ Len(owned[s]) <= 0 /\ Len(owned[s]) \in Nat
        /\ PoolTypeOK /\ prompt_len[s] \in Nat /\ Len(free) \in Nat
    <2>1. PoolTypeOK /\ prompt_len[s] \in Nat
      BY <1>2 DEF TypeOK
    <2>2. Len(owned[s]) \in Nat /\ Len(free) \in Nat
      BY <1>2, <2>1 DEF PoolTypeOK
    <2>3. Len(owned[s]) <= 0
      BY <1>2 DEF LeakBounded
    <2>4. seq_len[s] = prompt_len[s]
      BY <1>2 DEF Progress
    <2>5. QED
      BY <2>1, <2>2, <2>3, <2>4
  <1>5. n \in Nat
    BY <1>4, BlocksForLeast
  <1>6. /\ Len(owned'[s]) = Len(owned[s]) + n
        /\ owned'[s] = owned[s] \o NewBlocks(n)
        /\ \A t \in SeqIds \ {s} : owned'[t] = owned[t]
        /\ Len(free') = Len(free) - n
    BY <1>1, <1>2, <1>4, <1>5, AllocateFacts
  <1>7. Len(owned'[s]) = BlocksFor(seq_len[s])
    <2> HIDE DEF s
    <2>1. QED
      BY <1>4, <1>5, <1>6
  <1>8. QED
    BY <1>1, <1>2, <1>3, <1>4, <1>5, <1>6, <1>7

LEMMA LeakStep ==
    ASSUME TypeOK, StatusMatchesPlace, TodoIsRunning, OldestFirst, Progress,
           LeakBounded, [Next]_vars
    PROVE  LeakBounded'
  <1> USE DEF StatusMatchesPlace
  <1>0. status \in [SeqIds -> Statuses] /\ \A s \in SeqIds : Len(owned[s]) \in Nat
    BY DEF TypeOK, PoolTypeOK
  <1> DEFINE bound(s) == IF status[s] = "evicted" THEN 1 ELSE 0
  <1>1. \A s \in SeqIds : status[s] # "running" => Len(owned[s]) <= bound(s)
    BY DEF LeakBounded
  <1>2. ASSUME NEW p \in PromptLens, NEW m \in MaxNews, AddRequest(p, m)
        PROVE  LeakBounded'
    <2>1. /\ next_seq_id \in SeqIds /\ next_seq_id >= next_seq_id
          /\ status' = [status EXCEPT ![next_seq_id] = "waiting"] /\ owned' = owned
      BY <1>2 DEF AddRequest, TypeOK, SeqIds, poolVars
    <2>2. status[next_seq_id] = "none"
      BY <2>1 DEF ArrivedPlace
    <2>3. QED
      BY <1>0, <1>1, <2>1, <2>2 DEF LeakBounded
  <1>3. CASE AdmitOne
    BY <1>0, <1>1, <1>3, AdmitFacts DEF LeakBounded
  <1>4. ASSUME todo # <<>>, GrowHead, status' = status,
               \/ status[Head(todo)] = "running"
               \/ status[Head(todo)] = "evicted" /\ owned[Head(todo)] = <<>>
        PROVE  LeakBounded'
    <2> DEFINE s == Head(todo)
    <2>1. /\ s \in SeqIds /\ Len(owned'[s]) = Len(owned[s]) + Needed(s)
          /\ Needed(s) \in {0, 1}
          /\ \A t \in SeqIds \ {s} : owned'[t] = owned[t]
      BY <1>4, GrowFacts
    <2>2. status[s] = "running" \/ (status[s] = "evicted" /\ Len(owned'[s]) <= 1)
      <3>1. CASE status[s] = "running"
        BY <3>1
      <3>2. CASE status[s] = "evicted" /\ owned[s] = <<>>
        <4>1. Len(owned[s]) = 0
          BY <3>2
        <4> HIDE DEF s
        <4>2. QED
          BY <2>1, <3>2, <4>1
      <3>3. QED
        BY <1>4, <3>1, <3>2
    <2> HIDE DEF s
    <2>3. QED
      BY <1>1, <1>4, <2>1, <2>2 DEF LeakBounded
  <1>5. CASE EnsureRoom
    BY <1>4, <1>5, HeadRuns DEF EnsureRoom
  <1>6. CASE Retry
    <2>1. /\ pc = "retry" /\ todo # <<>> /\ status' = status
          /\ GrowHead \/ owned' = owned
      BY <1>6 DEF Retry, TodoIsRunning, poolVars
    <2>2. \/ status[Head(todo)] = "running"
          \/ status[Head(todo)] = "evicted" /\ owned[Head(todo)] = <<>>
      BY <2>1, TailFacts, HeadFacts DEF TodoIsRunning, RunningPlace
    <2>3. QED
      BY <1>1, <1>4, <2>1, <2>2 DEF LeakBounded
  <1>7. ASSUME NEW s \in SeqIds, Free(s), NEW new,
               status' = [status EXCEPT ![s] = new], status[s] = "running"
        PROVE  LeakBounded'
    <2>1. owned'[s] = <<>> /\ \A t \in SeqIds \ {s} : owned'[t] = owned[t]
      BY <1>7, FreeFacts DEF TypeOK
    <2>2. Len(owned'[s]) = 0
      BY <2>1
    <2>3. QED
      BY <1>0, <1>1, <1>7, <2>1, <2>2 DEF LeakBounded
  <1>8. CASE Evict
    <2>1. /\ running[1] \in SeqIds /\ status[running[1]] = "running" /\ Free(running[1])
          /\ status' = [status EXCEPT ![running[1]] = "evicted"]
      BY <1>8, EvictFacts DEF RunningPlace
    <2>2. QED
      BY <1>7, <2>1
  <1>9. CASE DecodeFinishes
    <2>1. /\ Head(todo) \in SeqIds /\ status[Head(todo)] = "running" /\ Free(Head(todo))
          /\ status' = [status EXCEPT ![Head(todo)] = "finished"]
      BY <1>9, HeadRuns DEF DecodeFinishes, DecodeHead
    <2>2. QED
      BY <1>7, <2>1
  <1>10. CASE UNCHANGED <<owned, status>>
    BY <1>1, <1>10 DEF LeakBounded
  <1>11. QED
    BY <1>2, <1>3, <1>5, <1>6, <1>8, <1>9, <1>10
       DEF Next, Step, BeginStep, KeepWaiting, EndAdmit, EndEnsure, DecodeContinues,
           DecodeHead, EndStep, vars, poolVars

LEMMA TableStep ==
    ASSUME TypeOK, StatusMatchesPlace, TodoIsRunning, OldestFirst, Progress,
           LeakBounded, TableIsOwned, [Next]_vars
    PROVE  TableIsOwned'
  <1> USE DEF StatusMatchesPlace
  <1>0. /\ status \in [SeqIds -> Statuses]
        /\ block_table \in [SeqIds -> Seq(Blocks)]
    BY DEF TypeOK
  <1>1. ASSUME NEW p \in PromptLens, NEW m \in MaxNews, AddRequest(p, m)
        PROVE  TableIsOwned'
    <2>1. /\ next_seq_id \in SeqIds /\ next_seq_id >= next_seq_id
          /\ status' = [status EXCEPT ![next_seq_id] = "waiting"]
          /\ owned' = owned /\ block_table' = block_table
      BY <1>1 DEF AddRequest, TypeOK, SeqIds, poolVars
    <2>2. status[next_seq_id] = "none"
      BY <2>1 DEF ArrivedPlace
    <2>3. QED
      BY <1>0, <2>1, <2>2 DEF TableIsOwned
  <1>2. ASSUME NEW s \in SeqIds, NEW new,
               owned'[s] = owned[s] \o new,
               block_table' = [block_table EXCEPT ![s] = @ \o new],
               \A t \in SeqIds \ {s} : owned'[t] = owned[t],
               \A t \in SeqIds \ {s} : status'[t] = status[t],
               status'[s] \notin {"finished", "evicted"} =>
                    status[s] \notin {"finished", "evicted"}
        PROVE  TableIsOwned'
    <2>1. ASSUME NEW t \in SeqIds, status'[t] \notin {"finished", "evicted"}
          PROVE  block_table'[t] = owned'[t]
      <3>1. CASE t = s
        BY <1>0, <1>2, <2>1, <3>1 DEF TableIsOwned
      <3>2. CASE t # s
        BY <1>0, <1>2, <2>1, <3>2 DEF TableIsOwned
      <3>3. QED
        BY <3>1, <3>2
    <2>2. QED
      BY <2>1 DEF TableIsOwned
  <1>3. CASE AdmitOne
    BY <1>0, <1>2, <1>3, AdmitFacts
  <1>4. ASSUME todo # <<>>, GrowHead, status' = status
        PROVE  TableIsOwned'
    BY <1>2, <1>4, GrowFacts
  <1>5. CASE EnsureRoom
    BY <1>4, <1>5 DEF EnsureRoom
  <1>6. CASE Retry
    <2>1. todo # <<>> /\ status' = status /\ (GrowHead \/ UNCHANGED <<owned, block_table>>)
      BY <1>6 DEF Retry, TodoIsRunning, poolVars
    <2>2. QED
      BY <1>4, <2>1 DEF TableIsOwned
  <1>7. ASSUME NEW s \in SeqIds, Free(s), status'[s] \in {"finished", "evicted"},
               \A t \in SeqIds \ {s} : status'[t] = status[t],
               UNCHANGED block_table
        PROVE  TableIsOwned'
    <2>1. \A t \in SeqIds \ {s} : owned'[t] = owned[t]
      BY <1>7, FreeFacts DEF TypeOK
    <2>2. QED
      BY <1>7, <2>1 DEF TableIsOwned
  <1>8. CASE Evict
    <2>1. /\ running[1] \in SeqIds /\ Free(running[1])
          /\ status' = [status EXCEPT ![running[1]] = "evicted"]
          /\ UNCHANGED block_table
      BY <1>8, EvictFacts DEF Evict
    <2>2. QED
      BY <1>0, <1>7, <2>1
  <1>9. CASE DecodeFinishes
    <2>1. /\ Head(todo) \in SeqIds /\ Free(Head(todo))
          /\ status' = [status EXCEPT ![Head(todo)] = "finished"]
          /\ UNCHANGED block_table
      BY <1>9, HeadRuns DEF DecodeFinishes, DecodeHead
    <2>2. QED
      BY <1>0, <1>7, <2>1
  <1>10. CASE UNCHANGED <<owned, block_table, status>>
    BY <1>10 DEF TableIsOwned
  <1>11. QED
    BY <1>1, <1>3, <1>5, <1>6, <1>8, <1>9, <1>10
       DEF Next, Step, BeginStep, KeepWaiting, EndAdmit, EndEnsure, DecodeContinues,
           DecodeHead, EndStep, vars, poolVars

LEMMA RetryStep ==
    ASSUME TypeOK, StatusMatchesPlace, OldestFirst, Progress, BilledExactly,
           RetrySucceeds, [Next]_vars
    PROVE  RetrySucceeds'
  <1>1. CASE Evict
    <2> DEFINE v == running[1]
    <2>1. v \in SeqIds /\ v \in ToSet(running) /\ Free(v)
      BY <1>1, EvictFacts DEF StatusMatchesPlace
    <2>2. /\ PoolTypeOK /\ Len(free) \in Nat /\ Len(owned[v]) \in Nat
          /\ seq_len[v] \in Nat /\ prompt_len[v] \in Nat
      <3>1. PoolTypeOK
        BY DEF TypeOK
      <3>2. free \in Seq(Blocks) /\ owned[v] \in Seq(Blocks)
        BY <2>1, <3>1 DEF PoolTypeOK
      <3>3. seq_len[v] \in Nat /\ prompt_len[v] \in Nat
        BY <2>1 DEF TypeOK
      <3>4. QED
        BY <3>1, <3>2, <3>3
    <2>3. Len(free') = Len(free) + Len(owned[v])
      BY <2>1, <2>2, FreeFacts
    <2>4. status[v] = "running"
      BY <2>1 DEF StatusMatchesPlace, RunningPlace
    <2>5. seq_len[v] >= 1 /\ seq_len[v] \in Nat \ {0} /\ seq_len[v] + 1 \in Nat \ {0}
      BY <2>1, <2>2, <2>4 DEF Progress
    <2>6. Len(owned[v]) = BlocksFor(seq_len[v]) \/ Len(owned[v]) = BlocksFor(seq_len[v] + 1)
      <3>1. seq_len[v] + 0 = seq_len[v]
        BY <2>2
      <3>2. QED
        BY <2>1, <3>1 DEF BilledExactly
    <2>7. Len(owned[v]) >= 1
      BY <2>5, <2>6, BlocksForPositive
    <2>8. /\ todo # <<>> /\ todo' = todo /\ seq_len' = seq_len
      BY <1>1 DEF Evict
    <2>9. Needed(Head(todo)) \in {0, 1}
      BY <2>8, HeadFacts
    <2> HIDE DEF v
    <2>10. Needed(Head(todo)) <= Len(free')
      BY <2>2, <2>3, <2>7, <2>9
    <2>11. QED
      BY <2>8, <2>10 DEF RetrySucceeds, CanAllocate, Needed
  <1>2. CASE pc' # "retry"
    BY <1>2 DEF RetrySucceeds
  <1>3. CASE UNCHANGED vars
    BY <1>3 DEF vars, control, RetrySucceeds, CanAllocate, Needed
  <1>4. QED
    BY <1>1, <1>2, <1>3
       DEF Next, Step, AddRequest, BeginStep, AdmitOne, KeepWaiting, EndAdmit, EnsureRoom,
           Retry, EndEnsure, DecodeContinues, DecodeFinishes, DecodeHead, EndStep,
           NextPhase, control

LEMMA AdmissionStep ==
    ASSUME TypeOK, StatusMatchesPlace, Control, Progress, LeakBounded,
           AdmissionMaximal, [Next]_vars
    PROVE  AdmissionMaximal'
  <1>0. /\ prompt_len \in [SeqIds -> Nat] /\ still_waiting \in Seq(SeqIds)
    BY DEF TypeOK
  <1>s. \A s \in ToSet(still_waiting) : s \in SeqIds
    BY <1>0, InList
  <1>1. CASE BeginStep
    <2>1. pc = "idle" /\ still_waiting' = still_waiting
      BY <1>1 DEF BeginStep
    <2>2. still_waiting' = <<>>
      BY <2>1 DEF Control
    <2>3. ToSet(still_waiting') = {}
      BY <2>2 DEF ToSet
    <2>4. QED
      BY <2>3 DEF AdmissionMaximal
  <1>2. CASE AdmitOne
    <2> DEFINE n == BlocksFor(prompt_len[Head(todo)])
    <2>1. /\ Len(free) \in Nat /\ n \in Nat /\ Len(free') = Len(free) - n
          /\ pc = "admit" /\ UNCHANGED <<prompt_len, still_waiting>>
      BY <1>2, AdmitFacts
    <2>2. ASSUME NEW s \in ToSet(still_waiting)
          PROVE  ~ BlocksFor(prompt_len[s]) <= Len(free')
      <3>1. ~ BlocksFor(prompt_len[s]) <= Len(free)
        BY <2>1, <2>2 DEF AdmissionMaximal, CanAllocate
      <3>2. BlocksFor(prompt_len[s]) \in Nat
        BY <1>0, <1>s, <2>2, BlocksForLeast
      <3> HIDE DEF n
      <3>3. QED
        BY <2>1, <3>1, <3>2
    <2>3. QED
      BY <2>1, <2>2 DEF AdmissionMaximal, CanAllocate
  <1>3. CASE KeepWaiting
    <2>1. /\ pc = "admit" /\ todo # <<>>
          /\ ~ CanAllocate(BlocksFor(prompt_len[Head(todo)]))
          /\ still_waiting' = Append(still_waiting, Head(todo))
          /\ UNCHANGED <<free, prompt_len>>
      BY <1>3 DEF KeepWaiting, poolVars, requests
    <2>2. Head(todo) \in SeqIds
      BY <2>1, HeadFacts
    <2>3. \A s \in ToSet(still_waiting') : s \in ToSet(still_waiting) \/ s = Head(todo)
      BY <1>0, <2>1, <2>2, InAppend
    <2>4. QED
      BY <2>1, <2>3 DEF AdmissionMaximal, CanAllocate
  <1>4. CASE pc' # "admit"
    BY <1>4 DEF AdmissionMaximal
  <1>5. CASE UNCHANGED vars
    BY <1>5 DEF vars, control, requests, AdmissionMaximal, CanAllocate
  <1>6. QED
    BY <1>1, <1>2, <1>3, <1>4, <1>5
       DEF Next, Step, AddRequest, EndAdmit, EnsureRoom, Evict,
           Retry, EndEnsure, DecodeContinues, DecodeFinishes, DecodeHead, EndStep,
           NextPhase, control

\* A waiting request that came before the one at hand has been refused already.
LEMMA EarlierRefused ==
    ASSUME TypeOK, WaitingPlace, pc = "admit", todo # <<>>,
           NEW s \in SeqIds, status[s] = "waiting", s < Head(todo)
    PROVE  s \in ToSet(still_waiting)
  <1> DEFINE c == still_waiting \o todo
             k == Len(still_waiting)
  <1>1. /\ still_waiting \in Seq(SeqIds) /\ todo \in Seq(SeqIds) /\ k \in Nat
        /\ Len(todo) \in Nat \ {0} /\ Head(todo) = todo[1]
    BY EmptySeq DEF TypeOK
  <1>2. Unadmitted = c /\ Increasing(c) /\ s \in ToSet(c)
    BY HeadWaits DEF WaitingPlace
  <1>3. /\ c \in Seq(SeqIds) /\ Len(c) = k + Len(todo)
        /\ \A i \in 1 .. Len(todo) : c[k + i] = todo[i]
    BY <1>1, ConcatAt
  <1>4. s \in ToSet(still_waiting) \/ s \in ToSet(todo)
    BY <1>1, <1>2, InConcat
  <1> HIDE DEF c, k
  <1>5. ASSUME NEW i \in 1 .. Len(todo), todo[i] = s
        PROVE  FALSE
    <2>1. i # 1
      BY <1>1, <1>5 DEF SeqIds
    <2>2. k + 1 \in 1 .. Len(c) /\ k + i \in 1 .. Len(c) /\ k + 1 < k + i
      BY <1>1, <1>3, <2>1
    <2>3. c[k + 1] < c[k + i]
      BY <1>2, <1>3, <2>2 DEF Increasing
    <2>4. Head(todo) < s /\ Head(todo) \in SeqIds
      BY <1>1, <1>3, <1>5, <2>3
    <2>5. QED
      BY <2>4 DEF SeqIds
  <1>6. QED
    BY <1>1, <1>4, <1>5, InList

\* Who is admitted needs fewer blocks than those the loop has refused before it.
LEMMA OvertakenStep ==
    ASSUME TypeOK, StatusMatchesPlace, TodoIsRunning, OldestFirst, Progress, LeakBounded,
           AdmissionMaximal, OvertakenBySmaller, [Next]_vars
    PROVE  OvertakenBySmaller'
  <1> USE DEF StatusMatchesPlace
  <1>0. status \in [SeqIds -> Statuses] /\ prompt_len \in [SeqIds -> Nat]
    BY DEF TypeOK
  <1>1. ASSUME NEW p \in PromptLens, NEW m \in MaxNews, AddRequest(p, m)
        PROVE  OvertakenBySmaller'
    <2> DEFINE n == next_seq_id
    <2>1. /\ n \in SeqIds
          /\ status' = [status EXCEPT ![n] = "waiting"]
          /\ prompt_len' = [prompt_len EXCEPT ![n] = p]
      BY <1>1 DEF AddRequest, TypeOK, SeqIds
    <2>2. \A u \in SeqIds : u >= n => status[u] = "none"
      BY DEF ArrivedPlace
    <2>3. ASSUME NEW s \in SeqIds, NEW u \in SeqIds, s < u, status'[s] = "waiting",
                 status'[u] \notin {"none", "waiting"}
          PROVE  BlocksFor(prompt_len'[u]) < BlocksFor(prompt_len'[s])
      <3>1. u # n /\ status[u] \notin {"none", "waiting"}
        BY <1>0, <2>1, <2>3
      <3>2. u < n /\ s # n
        BY <2>1, <2>2, <2>3, <3>1 DEF SeqIds
      <3>3. status[s] = "waiting" /\ prompt_len'[s] = prompt_len[s]
            /\ prompt_len'[u] = prompt_len[u]
        BY <1>0, <2>1, <2>3, <3>1, <3>2
      <3>4. QED
        BY <2>3, <3>1, <3>3 DEF OvertakenBySmaller
    <2>4. QED
      BY <2>3 DEF OvertakenBySmaller
  <1>2. CASE AdmitOne
    <2> DEFINE h == Head(todo)
               n == BlocksFor(prompt_len[h])
    <2>1. /\ h \in SeqIds /\ status' = [status EXCEPT ![h] = "running"]
          /\ prompt_len' = prompt_len /\ n \in Nat /\ Len(free) \in Nat
      BY <1>2, AdmitFacts
    <2>2. pc = "admit" /\ todo # <<>> /\ n <= Len(free)
      BY <1>2 DEF AdmitOne, Allocate, CanAllocate
    <2>3. ASSUME NEW s \in SeqIds, NEW u \in SeqIds, s < u, status'[s] = "waiting",
                 status'[u] \notin {"none", "waiting"}
          PROVE  BlocksFor(prompt_len[u]) < BlocksFor(prompt_len[s])
      <3>1. s # h /\ status[s] = "waiting"
        BY <1>0, <2>1, <2>3
      <3>2. CASE u = h
        <4>1. s \in ToSet(still_waiting)
          BY <2>2, <2>3, <3>1, <3>2, EarlierRefused
        <4>2. ~ BlocksFor(prompt_len[s]) <= Len(free)
          BY <2>2, <4>1 DEF AdmissionMaximal, CanAllocate
        <4>3. BlocksFor(prompt_len[s]) \in Nat
          BY <1>0, BlocksForLeast
        <4> HIDE DEF h
        <4>4. QED
          BY <2>1, <2>2, <3>2, <4>2, <4>3
      <3>3. CASE u # h
        BY <1>0, <2>1, <2>3, <3>1, <3>3 DEF OvertakenBySmaller
      <3>4. QED
        BY <3>2, <3>3
    <2>4. QED
      BY <2>1, <2>3 DEF OvertakenBySmaller
  <1>3. ASSUME NEW v \in SeqIds, NEW new \in {"finished", "evicted"}, status[v] = "running",
               status' = [status EXCEPT ![v] = new], prompt_len' = prompt_len
        PROVE  OvertakenBySmaller'
    <2>1. \A s \in SeqIds : /\ status'[s] = "waiting" => status[s] = "waiting"
                            /\ status'[s] \notin {"none", "waiting"} =>
                                    status[s] \notin {"none", "waiting"}
      BY <1>0, <1>3
    <2>2. QED
      BY <1>3, <2>1 DEF OvertakenBySmaller
  <1>4. CASE Evict
    <2>1. status[running[1]] = "running" /\ running[1] \in SeqIds
      BY <1>4, EvictFacts DEF RunningPlace
    <2>2. QED
      BY <1>3, <1>4, <2>1, EvictFacts DEF Evict, requests
  <1>5. CASE DecodeFinishes
    BY <1>3, <1>5, HeadRuns DEF DecodeFinishes, DecodeHead, requests
  <1>6. CASE UNCHANGED <<status, prompt_len>>
    BY <1>6 DEF OvertakenBySmaller
  <1>7. QED
    BY <1>1, <1>2, <1>4, <1>5, <1>6
       DEF Next, Step, BeginStep, KeepWaiting, EndAdmit, EnsureRoom, Retry, EndEnsure,
           DecodeContinues, DecodeHead, EndStep, vars, requests

\* What BilledExactly says of one sequence.
Billed(s) ==
    /\ cached[s] = seq_len[s]
    /\ Len(owned[s]) = BlocksFor(seq_len[s] + IF Provisioned(s) THEN 1 ELSE 0)

\* Nothing changes for a sequence that a step does not touch.
LEMMA BilledUntouched ==
    ASSUME NEW s, Billed(s), Provisioned(s)' <=> Provisioned(s),
           cached'[s] = cached[s], seq_len'[s] = seq_len[s], owned'[s] = owned[s]
    PROVE  Billed(s)'
  BY DEF Billed

LEMMA BilledStep ==
    ASSUME TypeOK, StatusMatchesPlace, TodoIsRunning, OldestFirst, Progress, LeakBounded,
           RetrySucceeds, BilledExactly, [Next]_vars
    PROVE  BilledExactly'
  <1> USE DEF StatusMatchesPlace
  <1>0. /\ seq_len \in [SeqIds -> Nat] /\ cached \in [SeqIds -> Nat \cup {None}]
        /\ running \in Seq(SeqIds)
        /\ \A s \in ToSet(running) : s \in SeqIds /\ status[s] = "running" /\ Billed(s)
    <2>1. running \in Seq(SeqIds)
      BY DEF TypeOK
    <2>2. seq_len \in [SeqIds -> Nat] /\ cached \in [SeqIds -> Nat \cup {None}]
      BY DEF TypeOK
    <2>3. ASSUME NEW s \in ToSet(running)
          PROVE  s \in SeqIds /\ status[s] = "running" /\ Billed(s)
      <3>1. s \in SeqIds
        BY <2>1, InList
      <3>2. status[s] = "running"
        BY <3>1 DEF RunningPlace
      <3>3. Billed(s)
        BY DEF BilledExactly, Billed
      <3>4. QED
        BY <3>1, <3>2, <3>3
    <2>4. QED
      BY <2>1, <2>2, <2>3
  <1>1. SUFFICES ASSUME NEW s \in ToSet(running')
                 PROVE  Billed(s)'
    BY DEF BilledExactly, Billed
  <1>2. ASSUME NEW p \in PromptLens, NEW m \in MaxNews, AddRequest(p, m)
        PROVE  Billed(s)'
    <2>1. /\ next_seq_id \in SeqIds /\ next_seq_id >= next_seq_id
          /\ seq_len' = [seq_len EXCEPT ![next_seq_id] = p]
          /\ UNCHANGED <<running, cached, owned, todo, pc>>
      BY <1>2 DEF AddRequest, TypeOK, SeqIds, control, poolVars
    <2>2. status[next_seq_id] = "none" /\ status[s] = "running"
      BY <1>0, <2>1 DEF ArrivedPlace
    <2>3. QED
      BY <1>0, <2>1, <2>2, BilledUntouched DEF Provisioned
  <1>3. CASE AdmitOne
    <2> DEFINE h == Head(todo)
    <2>1. /\ h \in SeqIds /\ status[h] = "waiting"
          /\ running' = Append(running, h)
          /\ UNCHANGED seq_len
          /\ cached' = [cached EXCEPT ![h] = seq_len[h]]
          /\ Len(owned'[h]) = BlocksFor(seq_len[h])
          /\ \A t \in SeqIds \ {h} : owned'[t] = owned[t]
          /\ pc = "admit" /\ pc' = "admit"
      BY <1>3, AdmitFacts
    <2>2. ~ Provisioned(s) /\ ~ Provisioned(s)'
      BY <2>1 DEF Provisioned
    <2>3. CASE s = h
      <3>1. seq_len[h] \in Nat /\ seq_len[h] + 0 = seq_len[h] /\ cached'[h] = seq_len[h]
        BY <1>0, <2>1
      <3>2. QED
        BY <2>1, <2>2, <2>3, <3>1 DEF Billed
    <2>4. CASE s # h
      <3>1. s \in ToSet(running)
        BY <1>0, <2>1, <2>4, InAppend
      <3>2. QED
        BY <1>0, <2>1, <2>2, <2>4, <3>1, BilledUntouched
    <2>5. QED
      BY <2>3, <2>4
  <1>4. ASSUME todo # <<>>, GrowHead, todo' = Tail(todo), pc \in {"ensure", "retry"},
               pc' = "ensure", UNCHANGED <<running, seq_len, cached>>,
               Head(todo) \notin ToSet(Tail(todo))
        PROVE  Billed(s)'
    <2> DEFINE h == Head(todo)
    <2>1. /\ h \in SeqIds
          /\ Len(owned'[h]) = Len(owned[h]) + Needed(h)
          /\ BlocksFor(seq_len[h] + 1) = BlocksFor(seq_len[h]) + Needed(h)
          /\ \A t \in SeqIds \ {h} : owned'[t] = owned[t]
      BY <1>4, GrowFacts
    <2>2. /\ Provisioned(s) <=> s \notin ToSet(todo)
          /\ Provisioned(s)' <=> s \notin ToSet(Tail(todo))
      BY <1>4 DEF Provisioned
    <2>3. s \in ToSet(todo) <=> s = h \/ s \in ToSet(Tail(todo))
      BY <1>4, InTail DEF TypeOK
    <2>4. CASE s = h
      <3>1. ~ Provisioned(s) /\ Provisioned(s)'
        BY <1>4, <2>2, <2>3, <2>4
      <3>2. seq_len[h] + 0 = seq_len[h]
        BY <1>0, <2>1
      <3>3. /\ cached[h] = seq_len[h] /\ Len(owned[h]) = BlocksFor(seq_len[h])
        BY <1>0, <1>4, <2>4, <3>1, <3>2 DEF Billed
      <3>4. QED
        BY <1>4, <2>1, <2>4, <3>1, <3>3 DEF Billed
    <2>5. CASE s # h
      BY <1>0, <1>4, <2>1, <2>2, <2>3, <2>5, BilledUntouched
    <2>6. QED
      BY <2>4, <2>5
  <1>5. CASE EnsureRoom
    BY <1>4, <1>5, TailFacts DEF EnsureRoom, TodoIsRunning
  <1>6. CASE Retry
    <2>1. /\ pc = "retry" /\ pc' = "ensure" /\ todo # <<>> /\ todo' = Tail(todo)
          /\ UNCHANGED <<running, seq_len, cached>>
      BY <1>6 DEF Retry, TodoIsRunning
    <2>2. GrowHead
      BY <1>6 DEF Retry, RetrySucceeds
    <2>3. CASE IsTailOf(todo, running)
      BY <1>4, <2>1, <2>2, <2>3, TailFacts
    <2>4. CASE running = Tail(todo) /\ Head(todo) \notin ToSet(running)
      BY <1>4, <2>1, <2>2, <2>4
    <2>5. QED
      BY <2>1, <2>3, <2>4 DEF TodoIsRunning
  <1>7. CASE Evict
    <2> DEFINE v == running[1]
    <2>1. /\ 1 \in 1 .. Len(running) /\ v \in SeqIds
          /\ running' = RemoveAt(running, 1)
          /\ Free(v)
          /\ cached' = [cached EXCEPT ![v] = None]
          /\ UNCHANGED <<seq_len, todo>> /\ pc = "ensure" /\ pc' = "retry"
      <3>1. UNCHANGED <<seq_len, todo>> /\ pc = "ensure" /\ pc' = "retry"
        BY <1>7 DEF Evict
      <3>2. QED
        BY <1>7, <3>1, EvictFacts
    <2>2. s \in ToSet(running) /\ s # v
      BY <1>0, <2>1, InRemoveAt DEF RunningPlace
    <2>3. owned'[s] = owned[s]
      <3>1. PoolTypeOK
        BY <1>0 DEF TypeOK
      <3>2. s \in SeqIds /\ v \in SeqIds /\ s \in SeqIds \ {v}
        BY <1>0, <2>1, <2>2
      <3>3. QED
        BY <2>1, <3>1, <3>2, FreeFacts
    <2>4. Provisioned(s)' <=> Provisioned(s)
      BY <2>1 DEF Provisioned
    <2>5. QED
      BY <1>0, <2>1, <2>2, <2>3, <2>4, BilledUntouched
  <1>8. CASE EndAdmit \/ EndEnsure
    <2>1. /\ UNCHANGED <<running, seq_len, cached, owned>>
          /\ s \in ToSet(running) /\ running # <<>>
      BY <1>8 DEF EndAdmit, EndEnsure, poolVars, ToSet
    <2>2. todo' = running
      BY <1>8, <2>1 DEF EndAdmit, EndEnsure, NextPhase
    <2>3. CASE EndAdmit
      <3>1. pc = "admit" /\ pc' = "ensure"
        BY <2>1, <2>3 DEF EndAdmit, NextPhase
      <3>2. ~ Provisioned(s) /\ ~ Provisioned(s)'
        BY <2>1, <2>2, <3>1 DEF Provisioned
      <3>3. QED
        BY <1>0, <2>1, <3>2, BilledUntouched
    <2>4. CASE EndEnsure
      <3>1. pc = "ensure" /\ pc' = "decode" /\ todo = <<>>
        BY <2>1, <2>4 DEF EndEnsure, NextPhase
      <3>2. Provisioned(s) /\ Provisioned(s)'
        BY <2>1, <2>2, <3>1 DEF Provisioned, ToSet
      <3>3. QED
        BY <1>0, <2>1, <3>2, BilledUntouched
    <2>5. QED
      BY <1>8, <2>3, <2>4
  <1>9. ASSUME DecodeHead
        PROVE  /\ Head(todo) \in SeqIds /\ Head(todo) \in ToSet(running)
               /\ seq_len' = [seq_len EXCEPT ![Head(todo)] = @ + 1]
               /\ \A t : t # Head(todo) => (Provisioned(t)' <=> Provisioned(t))
               /\ \A t : t = Head(todo) => Provisioned(t) /\ ~ Provisioned(t)'
    <2>1. /\ pc = "decode" /\ pc' = "decode" /\ todo # <<>> /\ todo' = Tail(todo)
          /\ seq_len' = [seq_len EXCEPT ![Head(todo)] = @ + 1]
      BY <1>9 DEF DecodeHead
    <2>2. /\ Head(todo) \in SeqIds /\ Head(todo) \in ToSet(running)
          /\ Head(todo) \notin ToSet(Tail(todo))
      BY <2>1, HeadRuns, TailFacts DEF TodoIsRunning
    <2>3. \A t : t \in ToSet(todo) <=> t = Head(todo) \/ t \in ToSet(Tail(todo))
      BY <2>1, InTail DEF TypeOK
    <2>4. ASSUME NEW t
          PROVE  /\ t # Head(todo) => (Provisioned(t)' <=> Provisioned(t))
                 /\ t = Head(todo) => Provisioned(t) /\ ~ Provisioned(t)'
      <3>1. Provisioned(t) <=> t \in ToSet(todo)
        BY <2>1 DEF Provisioned
      <3>2. Provisioned(t)' <=> t \in ToSet(Tail(todo))
        BY <2>1 DEF Provisioned
      <3>3. t \in ToSet(todo) <=> t = Head(todo) \/ t \in ToSet(Tail(todo))
        BY <2>3
      <3>4. QED
        BY <2>2, <3>1, <3>2, <3>3
    <2>5. QED
      BY <2>1, <2>2, <2>4
  <1>10. CASE DecodeContinues
    <2> DEFINE h == Head(todo)
    <2>1. /\ DecodeHead /\ cached' = [cached EXCEPT ![h] = @ + 1]
          /\ UNCHANGED <<owned, running>>
      BY <1>10 DEF DecodeContinues, poolVars
    <2>2. CASE s = h
      <3>0. h \in ToSet(running) /\ h \in SeqIds /\ Provisioned(h) /\ Billed(h)
        BY <1>0, <1>9, <2>1
      <3>1. /\ cached[h] = seq_len[h] /\ Len(owned[h]) = BlocksFor(seq_len[h] + 1)
            /\ seq_len[h] \in Nat
        BY <1>0, <3>0 DEF Billed
      <3>2. seq_len'[h] = seq_len[h] + 1 /\ cached'[h] = cached[h] + 1
        BY <1>0, <1>9, <2>1, <3>0
      <3>a. seq_len'[h] + 0 = seq_len[h] + 1
        BY <3>1, <3>2
      <3>3. QED
        <4>1. ~ Provisioned(s)'
          BY <1>9, <2>1, <2>2
        <4>2. cached'[s] = seq_len'[s]
          BY <2>2, <3>1, <3>2
        <4>3. Len(owned'[s]) = BlocksFor(seq_len'[s] + 0)
          BY <2>1, <2>2, <3>1, <3>a
        <4>4. QED
          BY <4>1, <4>2, <4>3 DEF Billed
    <2>3. CASE s # h
      BY <1>0, <1>9, <2>1, <2>3, BilledUntouched
    <2>4. QED
      BY <2>2, <2>3
  <1>11. CASE DecodeFinishes
    <2> DEFINE h == Head(todo)
    <2>1. DecodeHead /\ cached' = [cached EXCEPT ![h] = None] /\ Free(h)
      BY <1>11 DEF DecodeFinishes
    <2>2. PICK i \in DOMAIN running : running[i] = h /\ running' = RemoveAt(running, i)
      BY <1>11 DEF DecodeFinishes
    <2>3. s \in ToSet(running) /\ s # h
      BY <1>0, <2>2, InRemoveAt DEF RunningPlace
    <2>4. owned'[s] = owned[s]
      <3>1. PoolTypeOK
        BY <1>0 DEF TypeOK
      <3>2. s \in SeqIds /\ h \in SeqIds /\ s \in SeqIds \ {h}
        BY <1>0, <1>9, <2>1, <2>3
      <3>3. QED
        BY <2>1, <3>1, <3>2, FreeFacts
    <2>5. QED
      BY <1>0, <1>9, <2>1, <2>3, <2>4, BilledUntouched
  <1>12. CASE /\ UNCHANGED <<running, seq_len, cached, owned>>
              /\ \A t : Provisioned(t)' <=> Provisioned(t)
    BY <1>0, <1>12, BilledUntouched
  <1>13. CASE BeginStep \/ KeepWaiting
    <2>1. /\ UNCHANGED <<running, seq_len, cached, owned>>
          /\ \A t : Provisioned(t)' <=> Provisioned(t)
      BY <1>13 DEF BeginStep, KeepWaiting, poolVars, Provisioned
    <2>2. QED
      BY <1>12, <2>1
  <1>14. CASE EndStep
    <2>1. /\ UNCHANGED <<running, seq_len, cached, owned>>
          /\ \A t : Provisioned(t)' <=> Provisioned(t)
      BY <1>14 DEF EndStep, poolVars, Provisioned, ToSet
    <2>2. QED
      BY <1>12, <2>1
  <1>15. CASE UNCHANGED vars
    BY <1>12, <1>15 DEF vars, control, poolVars, Provisioned
  <1>16. QED
    BY <1>2, <1>3, <1>5, <1>6, <1>7, <1>8, <1>10, <1>11, <1>13, <1>14, <1>15 DEF Next, Step

-----------------------------------------------------------------------------
(* ResultsMatchStatus *)

LEMMA ResultsStep ==
    ASSUME TypeOK, StatusMatchesPlace, TodoIsRunning, OldestFirst, ResultsMatchStatus,
           ResultsSoFar, [Next]_vars
    PROVE  ResultsMatchStatus' /\ ResultsSoFar'
  <1> USE DEF StatusMatchesPlace
  <1>0. /\ status \in [SeqIds -> Statuses] /\ results \in [SeqIds -> StepResults]
        /\ \A s \in SeqIds : status[s] = "running" <=> s \in ToSet(running)
    BY DEF TypeOK, RunningPlace
  <1> DEFINE Match(s) ==
                /\ results[s] = "none" => status[s] = "evicted"
                /\ results[s] = "token" => status[s] \in {"running", "finished"}
                /\ pc = "decode" /\ status[s] = "running" =>
                        (results[s] = "token" <=> s \notin ToSet(todo))
                /\ pc # "decode" => results[s] # "token"
  <1>1. \A s \in SeqIds : Match(s)
    BY DEF ResultsMatchStatus, ResultsSoFar
  <1>2. SUFFICES ASSUME NEW s \in SeqIds
                 PROVE  Match(s)'
    BY DEF ResultsMatchStatus, ResultsSoFar
  <1>3. ASSUME NEW p \in PromptLens, NEW m \in MaxNews, AddRequest(p, m)
        PROVE  Match(s)'
    <2>1. /\ next_seq_id \in SeqIds /\ next_seq_id >= next_seq_id
          /\ status' = [status EXCEPT ![next_seq_id] = "waiting"]
          /\ results' = results /\ pc' = "idle" /\ pc = "idle"
      BY <1>3 DEF AddRequest, TypeOK, SeqIds, control
    <2>2. status[next_seq_id] = "none"
      BY <2>1 DEF ArrivedPlace
    <2>3. QED
      BY <1>0, <1>1, <2>1, <2>2
  <1>4. CASE AdmitOne
    <2>1. /\ Head(todo) \in SeqIds /\ status[Head(todo)] = "waiting"
          /\ status' = [status EXCEPT ![Head(todo)] = "running"]
          /\ results' = results /\ pc' = "admit" /\ pc = "admit"
      BY <1>4, HeadWaits DEF AdmitOne
    <2>2. QED
      BY <1>0, <1>1, <2>1
  <1>5. CASE Evict
    <2>1. /\ running[1] \in SeqIds /\ status[running[1]] = "running"
          /\ status' = [status EXCEPT ![running[1]] = "evicted"]
          /\ results' = [results EXCEPT ![running[1]] = "none"]
      BY <1>5, EvictFacts DEF RunningPlace
    <2>2. pc' = "retry" /\ pc = "ensure"
      BY <1>5 DEF Evict
    <2>3. QED
      BY <1>0, <1>1, <2>1, <2>2
  <1>6. CASE EndAdmit \/ EndEnsure
    <2>1. UNCHANGED status /\ pc # "decode"
      BY <1>6 DEF EndAdmit, EndEnsure
    <2>2. CASE running = <<>>
      <3>1. pc' = "idle" /\ results'[s] = "absent"
        BY <1>6, <2>2 DEF EndAdmit, EndEnsure, NextPhase, NoResults
      <3>2. QED
        BY <3>1
    <2>3. CASE running # <<>>
      <3>1. todo' = running /\ results' = results
        BY <1>6, <2>3 DEF EndAdmit, EndEnsure, NextPhase
      <3>2. QED
        BY <1>0, <1>1, <2>1, <3>1
    <2>4. QED
      BY <2>2, <2>3
  <1>7. CASE DecodeContinues \/ DecodeFinishes
    <2> DEFINE h == Head(todo)
    <2>1. DecodeHead
      BY <1>7 DEF DecodeContinues, DecodeFinishes
    <2>2. /\ pc = "decode" /\ pc' = "decode" /\ todo # <<>> /\ todo' = Tail(todo)
          /\ results' = [results EXCEPT ![h] = "token"]
      BY <2>1 DEF DecodeHead
    <2>3. h \in SeqIds /\ status[h] = "running" /\ h \notin ToSet(Tail(todo))
      BY <2>2, HeadRuns, TailFacts DEF TodoIsRunning
    <2>4. status'[h] \in {"running", "finished"} /\ \A t \in SeqIds \ {h} : status'[t] = status[t]
      BY <1>0, <1>7, <2>3 DEF DecodeContinues, DecodeFinishes
    <2>5. s \in ToSet(todo) <=> s = h \/ s \in ToSet(Tail(todo))
      BY <2>2, InTail DEF TypeOK
    <2> HIDE DEF h
    <2>6. CASE s = h
      BY <1>0, <2>2, <2>3, <2>4, <2>6
    <2>7. CASE s # h
      <3>1. Match(s) /\ results'[s] = results[s] /\ status'[s] = status[s]
        BY <1>0, <1>1, <2>2, <2>4, <2>7
      <3>2. s \in ToSet(todo') <=> s \in ToSet(todo)
        BY <2>2, <2>5, <2>7
      <3>3. QED
        BY <2>2, <3>1, <3>2
    <2>8. QED
      BY <2>6, <2>7
  <1>8. CASE EndStep
    <2>1. pc' = "idle" /\ results'[s] = "absent"
      BY <1>8 DEF EndStep, NoResults
    <2>2. QED
      BY <2>1
  <1>9. CASE UNCHANGED <<status, results>> /\ pc # "decode" /\ pc' # "decode"
    BY <1>1, <1>9
  <1>10. CASE UNCHANGED vars
    BY <1>1, <1>10 DEF vars, control
  <1>11. QED
    BY <1>3, <1>4, <1>5, <1>6, <1>7, <1>8, <1>9, <1>10
       DEF Next, Step, BeginStep, KeepWaiting, EnsureRoom, Retry

-----------------------------------------------------------------------------
(* The invariant *)

LEMMA InitIInv == Init => IInv
  <1> SUFFICES ASSUME Init
               PROVE  IInv
    OBVIOUS
  <1>1. TypeOK
    BY InitType
  <1>2. NoBlockShared /\ NoBlockLost
    BY PoolInitPartitioned DEF Init, Partitioned
  <1>3. /\ waiting = <<>> /\ running = <<>> /\ todo = <<>> /\ still_waiting = <<>>
        /\ pc = "idle" /\ next_seq_id = 0
        /\ \A s \in SeqIds : /\ status[s] = "none" /\ seq_len[s] = 0 /\ prompt_len[s] = 0
                             /\ owned[s] = <<>> /\ block_table[s] = <<>>
                             /\ finished[s] = None
    BY DEF Init, PoolInit
  <1>4. ToSet(running) = {} /\ ToSet(waiting) = {}
    BY <1>3 DEF ToSet
  <1>5. StatusMatchesPlace
    <2>1. ArrivedPlace
      BY <1>3 DEF ArrivedPlace, SeqIds
    <2>2. WaitingPlace
      BY <1>3, <1>4 DEF WaitingPlace, Unadmitted, Increasing
    <2>3. RunningPlace
      BY <1>3, <1>4 DEF RunningPlace, IsInjective
    <2>4. QED
      BY <2>1, <2>2, <2>3 DEF StatusMatchesPlace
  <1>6. \A s \in SeqIds : Len(owned[s]) = 0
    BY <1>3
  <1>7. Control /\ TodoIsRunning /\ OldestFirst /\ Progress
    BY <1>3 DEF Control, TodoIsRunning, OldestFirst, Progress
  <1>8. BilledExactly /\ LeakBounded /\ TableIsOwned
    BY <1>3, <1>4, <1>6 DEF BilledExactly, LeakBounded, TableIsOwned
  <1>9. RetrySucceeds /\ AdmissionFair /\ FinishedLength
    BY <1>3 DEF RetrySucceeds, AdmissionFair, AdmissionMaximal, OvertakenBySmaller,
                FinishedLength
  <1>10. ResultsMatchStatus /\ ResultsSoFar
    BY DEF Init, NoResults, ResultsMatchStatus, ResultsSoFar
  <1>11. QED
    BY <1>1, <1>2, <1>5, <1>7, <1>8, <1>9, <1>10 DEF IInv

LEMMA IInvStep == IInv /\ [Next]_vars => IInv'
  <1> SUFFICES ASSUME IInv, [Next]_vars
               PROVE  IInv'
    OBVIOUS
  <1>1. /\ TypeOK /\ Partitioned /\ Control /\ StatusMatchesPlace /\ TodoIsRunning
        /\ OldestFirst /\ Progress /\ BilledExactly /\ LeakBounded /\ TableIsOwned
        /\ RetrySucceeds /\ AdmissionMaximal /\ OvertakenBySmaller /\ FinishedLength
        /\ ResultsMatchStatus /\ ResultsSoFar
    BY DEF IInv, Partitioned, AdmissionFair
  <1>a. RetryAsks
    BY <1>1 DEF TodoIsRunning, RetryAsks
  <1>2. TypeOK' /\ Control'
    BY <1>1, <1>a, TypeStep, ControlStep
  <1>3. NoBlockShared' /\ NoBlockLost'
    BY <1>1, <1>a, PartitionStep DEF Partitioned
  <1>4. StatusMatchesPlace'
    BY <1>1, ArrivedStep, WaitingStep, RunningStep DEF StatusMatchesPlace
  <1>5. TodoIsRunning' /\ OldestFirst' /\ Progress'
    BY <1>1, TodoStep, OldestStep, ProgressStep
  <1>6. BilledExactly' /\ LeakBounded' /\ TableIsOwned'
    BY <1>1, BilledStep, LeakStep, TableStep
  <1>7. RetrySucceeds' /\ AdmissionFair' /\ FinishedLength'
    BY <1>1, RetryStep, AdmissionStep, OvertakenStep, FinishedStep DEF AdmissionFair
  <1>8. ResultsMatchStatus' /\ ResultsSoFar'
    BY <1>1, ResultsStep
  <1>9. QED
    BY <1>2, <1>3, <1>4, <1>5, <1>6, <1>7, <1>8 DEF IInv

-----------------------------------------------------------------------------
(* The theorems *)

\* The inductive invariant holds in every reachable state, for every size of
\* the pool and of a block, and any requests.
THEOREM InvariantHolds == Spec => []IInv
  BY InitIInv, IInvStep, PTL DEF Spec

\* The lists, tables and counters keep their types.
THEOREM TypeCorrect == Spec => []TypeOK
  <1>1. IInv => TypeOK
    BY DEF IInv
  <1>2. QED
    BY <1>1, InvariantHolds, PTL

\* No physical block is ever owned by two sequences, or owned and free.
THEOREM BlocksNeverShared == Spec => []NoBlockShared
  <1>1. IInv => NoBlockShared
    BY DEF IInv
  <1>2. QED
    BY <1>1, InvariantHolds, PTL

\* No block disappears from the pool's books (though an evicted sequence can
\* keep one: LeakIsOneBlock).
THEOREM BlocksNeverLost == Spec => []NoBlockLost
  <1>1. IInv => NoBlockLost
    BY DEF IInv
  <1>2. QED
    BY <1>1, InvariantHolds, PTL

\* Every request is in the one collection that its status says.
THEOREM RequestsNeverLost == Spec => []StatusMatchesPlace
  <1>1. IInv => StatusMatchesPlace
    BY DEF IInv
  <1>2. QED
    BY <1>1, InvariantHolds, PTL

\* The loops of step() never meet an entry that was taken out of the dict, but
\* for a sequence that evicted itself.
THEOREM LoopsWalkRunning == Spec => []TodoIsRunning
  <1>1. IInv => TodoIsRunning
    BY DEF IInv
  <1>2. QED
    BY <1>1, InvariantHolds, PTL

\* Running requests are ordered by the tokens they have generated.
THEOREM OldestRunFirst == Spec => []OldestFirst
  <1>1. IInv => OldestFirst
    BY DEF IInv
  <1>2. QED
    BY <1>1, InvariantHolds, PTL

\* The pool bills a running sequence for exactly the blocks its cache fills.
THEOREM BillsMatchCaches == Spec => []BilledExactly
  <1>1. IInv => BilledExactly
    BY DEF IInv
  <1>2. QED
    BY <1>1, InvariantHolds, PTL

\* The private cache of a running sequence never runs out of blocks: what it
\* fills was billed first, and a bill never exceeds the pool.
THEOREM CachesSuffice == Spec => []CacheNeverExhausted
  <1>1. IInv => CacheNeverExhausted
    <2> SUFFICES ASSUME IInv, NEW s \in ToSet(running)
                 PROVE  /\ BlocksFor(cached[s]) <= TotalBlocks
                        /\ pc = "decode" /\ s \in ToSet(todo) =>
                                BlocksFor(cached[s] + 1) <= TotalBlocks
      BY DEF CacheNeverExhausted
    <2>1. TypeOK /\ BilledExactly /\ NoBlockShared
      BY DEF IInv
    <2>2. s \in SeqIds /\ seq_len[s] \in Nat /\ seq_len[s] + 0 = seq_len[s]
      <3>1. running \in Seq(SeqIds) /\ seq_len \in [SeqIds -> Nat]
        BY <2>1 DEF TypeOK
      <3>2. s \in SeqIds
        BY <3>1, InList
      <3>3. QED
        BY <3>1, <3>2
    <2>3. Len(owned[s]) <= TotalBlocks /\ Len(owned[s]) \in Nat
      BY <2>1, <2>2, PoolBounds DEF TypeOK, PoolTypeOK
    <2>4. cached[s] = seq_len[s]
      BY <2>1 DEF BilledExactly
    <2>5. CASE Provisioned(s)
      <3>1. Len(owned[s]) = BlocksFor(seq_len[s] + 1)
        BY <2>1, <2>5 DEF BilledExactly
      <3>2. BlocksFor(seq_len[s]) <= BlocksFor(seq_len[s] + 1)
        BY <2>2, BlocksForMonotone
      <3>3. BlocksFor(seq_len[s]) \in Nat /\ BlocksFor(seq_len[s] + 1) \in Nat
        BY <2>2, BlocksForLeast
      <3>4. QED
        BY <2>3, <2>4, <3>1, <3>2, <3>3, TotalBlocksAssumption
    <2>6. CASE ~ Provisioned(s)
      <3>1. Len(owned[s]) = BlocksFor(seq_len[s] + 0)
        BY <2>1, <2>6 DEF BilledExactly
      <3>2. ~ (pc = "decode" /\ s \in ToSet(todo))
        BY <2>6 DEF Provisioned
      <3>3. QED
        BY <2>2, <2>3, <2>4, <3>1, <3>2
    <2>7. QED
      BY <2>5, <2>6
  <1>2. QED
    BY <1>1, InvariantHolds, PTL

\* The block that a sequence asks for again after an eviction is always there.
THEOREM RetryNeverFails == Spec => []RetrySucceeds
  <1>1. IInv => RetrySucceeds
    BY DEF IInv
  <1>2. QED
    BY <1>1, InvariantHolds, PTL

\* Only an evicted sequence can own a block without running, and only one.
THEOREM LeakIsOneBlock == Spec => []LeakBounded
  <1>1. IInv => LeakBounded
    BY DEF IInv
  <1>2. QED
    BY <1>1, InvariantHolds, PTL

\* The table of a sequence is the pool's record of it while it is served.
THEOREM TablesAreAccurate == Spec => []TableIsOwned
  <1>1. IInv => TableIsOwned
    BY DEF IInv
  <1>2. QED
    BY <1>1, InvariantHolds, PTL

\* A pass of admission leaves nobody waiting who would fit, and a request is
\* overtaken only by those that need fewer blocks for their prompt.
THEOREM AdmissionIsFair == Spec => []AdmissionFair
  <1>1. IInv => AdmissionFair
    BY DEF IInv
  <1>2. QED
    BY <1>1, InvariantHolds, PTL

\* A recorded output has the length that was asked for.
THEOREM OutputsAreComplete == Spec => []FinishedLength
  <1>1. IInv => FinishedLength
    BY DEF IInv
  <1>2. QED
    BY <1>1, InvariantHolds, PTL

\* What step() returns agrees with what became of each request.
THEOREM ResultsAreRight == Spec => []ResultsMatchStatus
  <1>1. IInv => ResultsMatchStatus
    BY DEF IInv
  <1>2. QED
    BY <1>1, InvariantHolds, PTL

\* The first entry of a list is removed by removing its head.
LEMMA RemoveFront ==
    ASSUME NEW l \in Seq(SeqIds), 1 \in 1 .. Len(l)
    PROVE  RemoveAt(l, 1) = Tail(l)
  <1> DEFINE r == RemoveAt(l, 1)
             t == Tail(l)
  <1>1. /\ r \in Seq(SeqIds) /\ Len(r) = Len(l) - 1
        /\ \A j \in 1 .. Len(l) - 1 : r[j] = l[j + 1]
    BY RemoveAtFacts
  <1>2. l # <<>>
    OBVIOUS
  <1>3. /\ t \in Seq(SeqIds) /\ Len(t) = Len(l) - 1
        /\ \A j \in 1 .. Len(l) - 1 : t[j] = l[j + 1]
    BY <1>2, InTail
  <1> HIDE DEF r, t
  <1>4. r = t
    BY <1>1, <1>3, SeqEqual
  <1>5. QED
    BY <1>4 DEF r, t

\* The victim of an eviction is the running request admitted first.
THEOREM EvictsTheOldest == Spec => VictimIsOldest
  <1>1. IInv /\ [Next]_vars =>
            [pc = "ensure" /\ pc' = "retry" => running' = Tail(running)]_vars
    <2> SUFFICES ASSUME IInv, Next, pc = "ensure", pc' = "retry"
                 PROVE  running' = Tail(running)
      OBVIOUS
    <2>1. Evict
      BY DEF Next, Step, AddRequest, BeginStep, AdmitOne, KeepWaiting, EndAdmit,
             EnsureRoom, Retry, EndEnsure, DecodeContinues, DecodeFinishes, DecodeHead,
             EndStep, NextPhase, control
    <2>2. TypeOK /\ RunningPlace /\ OldestFirst /\ running \in Seq(SeqIds)
      BY DEF IInv, StatusMatchesPlace, TypeOK
    <2>3. 1 \in 1 .. Len(running) /\ running' = RemoveAt(running, 1)
      BY <2>1, <2>2, EvictFacts
    <2>4. QED
      BY <2>2, <2>3, RemoveFront
  <1>2. QED
    BY <1>1, InvariantHolds, PTL DEF Spec, VictimIsOldest

-----------------------------------------------------------------------------
(* Refinement *)

\* An allocation of no blocks changes nothing.
LEMMA AllocateNone ==
    ASSUME PoolTypeOK, NEW s \in SeqIds, Allocate(s, 0)
    PROVE  UNCHANGED poolVars
  <1>1. /\ free \in Seq(Blocks) /\ owned \in [SeqIds -> Seq(Blocks)]
        /\ free' \in Seq(Blocks) /\ owned' \in [SeqIds -> Seq(Blocks)]
    BY AllocateFacts DEF PoolTypeOK
  <1>2. /\ Len(free') = Len(free) - 0
        /\ \A i \in 1 .. Len(free') : free'[i] = free[i]
    BY AllocateFacts
  <1>3. free' = free
    BY <1>1, <1>2, SeqEqual
  <1>4. /\ Len(owned'[s]) = Len(owned[s]) + 0
        /\ \A i \in 1 .. Len(owned[s]) : owned'[s][i] = owned[s][i]
        /\ \A t \in SeqIds \ {s} : owned'[t] = owned[t]
    BY AllocateFacts
  <1>5. owned[s] \in Seq(Blocks) /\ owned'[s] \in Seq(Blocks)
    BY <1>1
  <1>6. owned'[s] = owned[s]
    BY <1>4, <1>5, SeqEqual
  <1>7. owned' = owned
    BY <1>1, <1>4, <1>6
  <1>8. QED
    BY <1>3, <1>7 DEF poolVars

\* An allocation that succeeds is a step of the pool.
LEMMA AllocateIsPoolStep ==
    ASSUME PoolTypeOK, NoBlockShared, NEW s \in SeqIds, NEW n \in Nat, Allocate(s, n)
    PROVE  [PoolNext]_poolVars
  <1>1. n <= TotalBlocks
    <2>1. Len(free) \in Nat
      BY DEF PoolTypeOK
    <2>2. QED
      BY <2>1, PoolBounds, TotalBlocksAssumption DEF Allocate, CanAllocate
  <1>2. CASE n = 0
    BY <1>2, AllocateNone
  <1>3. CASE n # 0
    <2>1. n \in 1 .. TotalBlocks
      BY <1>1, <1>3, TotalBlocksAssumption
    <2>2. QED
      BY <2>1 DEF PoolNext
  <1>4. QED
    BY <1>2, <1>3

\* ... and so is whatever else the scheduler does to its pool.
LEMMA PoolRefinement ==
    ASSUME TypeOK, RetryAsks, NoBlockShared, [Next]_vars
    PROVE  [PoolNext]_poolVars
  <1>1. PoolTypeOK
    BY DEF TypeOK
  <1>2. ASSUME NEW s \in SeqIds, Free(s)
        PROVE  [PoolNext]_poolVars
    BY <1>2 DEF PoolNext
  <1>3. QED
    BY <1>1, <1>2, PoolEffect, AllocateIsPoolStep

\* Whatever the scheduler does to its pool, it does by the pool's methods: so
\* every theorem about PoolSpec holds for the pool that the scheduler uses.
THEOREM UsesThePool == Spec => PoolSpec
  <1>1. Init => PoolInit
    BY DEF Init
  <1>2. IInv /\ [Next]_vars => [PoolNext]_poolVars
    <2>1. IInv => TypeOK /\ RetryAsks /\ NoBlockShared
      BY DEF IInv, RetryAsks, TodoIsRunning
    <2>2. QED
      BY <2>1, PoolRefinement
  <1>3. QED
    BY <1>1, <1>2, InvariantHolds, PTL DEF Spec, PoolSpec

\* The numbers of generated tokens, as RequestLifecycle sees them.
counts == [s \in SeqIds |-> num_generated(s)]

LEMMA LifecycleInit == Init => LC!ReqInit
  BY DEF Init, LC!ReqInit, num_generated, None

LEMMA LifecycleStep == IInv /\ [Next]_vars => [LC!ReqNext]_(LC!reqVars)
  <1> SUFFICES ASSUME IInv, [Next]_vars
               PROVE  [LC!ReqNext]_(LC!reqVars)
    OBVIOUS
  <1>0. /\ TypeOK /\ StatusMatchesPlace /\ TodoIsRunning /\ OldestFirst /\ Progress
        /\ LeakBounded /\ ArrivedPlace /\ WaitingPlace /\ RunningPlace
    BY DEF IInv, StatusMatchesPlace
  <1>t. /\ seq_len \in [SeqIds -> Nat] /\ prompt_len \in [SeqIds -> Nat]
        /\ max_new_tokens \in [SeqIds -> Nat] /\ status \in [SeqIds -> Statuses]
        /\ finished \in [SeqIds -> Nat \cup {None}]
    BY <1>0 DEF TypeOK
  <1>c. /\ \A s \in SeqIds : counts[s] = seq_len[s] - prompt_len[s]
        /\ \A s \in SeqIds : counts'[s] = seq_len'[s] - prompt_len'[s]
        /\ counts = [s \in SeqIds |-> counts[s]]
        /\ counts' = [s \in SeqIds |-> counts'[s]]
    BY DEF counts, num_generated
  <1>1. ASSUME NEW p \in PromptLens, NEW m \in MaxNews, AddRequest(p, m)
        PROVE  LC!ReqNext
    <2> DEFINE s == next_seq_id
    <2>1. /\ s \in SeqIds /\ s >= s
          /\ status' = [status EXCEPT ![s] = "waiting"]
          /\ prompt_len' = [prompt_len EXCEPT ![s] = p]
          /\ max_new_tokens' = [max_new_tokens EXCEPT ![s] = m]
          /\ seq_len' = [seq_len EXCEPT ![s] = p]
          /\ UNCHANGED finished
      BY <1>0, <1>1 DEF AddRequest, TypeOK, SeqIds
    <2>2. status[s] = "none"
      BY <1>0, <2>1 DEF ArrivedPlace
    <2>3. seq_len[s] = prompt_len[s]
      BY <1>0, <2>1, <2>2 DEF Progress
    <2> HIDE DEF s
    <2>4. ASSUME NEW t \in SeqIds
          PROVE  counts'[t] = counts[t]
      <3>1. CASE t = s
        BY <1>c, <1>t, <2>1, <2>3, <3>1
      <3>2. CASE t # s
        BY <1>c, <1>t, <2>1, <3>2
      <3>3. QED
        BY <3>1, <3>2
    <2>5. counts' = counts
      BY <1>c, <2>4
    <2>6. LC!Submit(s, p, m)
      BY <2>1, <2>2, <2>5 DEF LC!Submit, counts
    <2>7. QED
      BY <2>1, <2>6 DEF LC!ReqNext
  <1>2. CASE AdmitOne
    <2> DEFINE s == Head(todo)
    <2>1. /\ s \in SeqIds /\ status[s] = "waiting"
          /\ status' = [status EXCEPT ![s] = "running"]
          /\ UNCHANGED <<seq_len, prompt_len, max_new_tokens, finished>>
      BY <1>0, <1>2, AdmitFacts DEF AdmitOne, requests
    <2>2. counts' = counts
      BY <2>1 DEF counts, num_generated
    <2>3. LC!Admit(s)
      BY <2>1, <2>2 DEF LC!Admit, counts
    <2>4. QED
      BY <2>1, <2>3 DEF LC!ReqNext
  <1>3. CASE Evict
    <2> DEFINE s == running[1]
    <2>1. s \in SeqIds /\ status[s] = "running" /\ status' = [status EXCEPT ![s] = "evicted"]
      BY <1>0, <1>3, EvictFacts DEF RunningPlace
    <2>2. UNCHANGED <<seq_len, prompt_len, max_new_tokens, finished>>
      BY <1>3 DEF Evict, requests
    <2>3. counts' = counts
      BY <2>2 DEF counts, num_generated
    <2>4. LC!Drop(s)
      BY <2>1, <2>2, <2>3 DEF LC!Drop, counts
    <2>5. QED
      BY <2>1, <2>4 DEF LC!ReqNext
  <1>4. ASSUME DecodeHead
        PROVE  /\ Head(todo) \in SeqIds /\ status[Head(todo)] = "running"
               /\ counts' = [counts EXCEPT ![Head(todo)] = @ + 1]
               /\ UNCHANGED <<prompt_len, max_new_tokens>>
               /\ counts[Head(todo)] = seq_len[Head(todo)] - prompt_len[Head(todo)]
               /\ seq_len[Head(todo)] \in Nat /\ prompt_len[Head(todo)] \in Nat
               /\ max_new_tokens[Head(todo)] \in Nat
    <2> DEFINE s == Head(todo)
    <2>1. /\ s \in SeqIds /\ status[s] = "running"
          /\ seq_len' = [seq_len EXCEPT ![s] = @ + 1]
          /\ UNCHANGED <<prompt_len, max_new_tokens>>
      BY <1>0, <1>4, HeadRuns DEF DecodeHead, requests
    <2> HIDE DEF s
    <2>2. ASSUME NEW t \in SeqIds
          PROVE  counts'[t] = IF t = s THEN counts[t] + 1 ELSE counts[t]
      <3>1. CASE t = s
        BY <1>c, <1>t, <2>1, <3>1
      <3>2. CASE t # s
        BY <1>c, <1>t, <2>1, <3>2
      <3>3. QED
        BY <3>1, <3>2
    <2>3. counts' = [counts EXCEPT ![s] = @ + 1]
      BY <1>c, <2>1, <2>2
    <2>4. QED
      BY <1>c, <1>t, <2>1, <2>3 DEF s
  <1>5. CASE DecodeContinues
    <2> DEFINE s == Head(todo)
    <2>1. /\ DecodeHead /\ ~ IsDone(s, seq_len[s] + 1)
          /\ UNCHANGED <<finished, status>>
      BY <1>5 DEF DecodeContinues
    <2>2. counts[s] + 1 < max_new_tokens[s]
      <3>1. /\ counts[s] = seq_len[s] - prompt_len[s]
            /\ seq_len[s] \in Nat /\ prompt_len[s] \in Nat /\ max_new_tokens[s] \in Nat
        BY <1>4, <2>1
      <3>2. QED
        BY <2>1, <3>1 DEF IsDone
    <2>3. LC!Emit(s)
      BY <1>4, <2>1, <2>2 DEF LC!Emit, counts
    <2>4. QED
      BY <1>4, <2>1, <2>3 DEF LC!ReqNext
  <1>6. CASE DecodeFinishes
    <2> DEFINE s == Head(todo)
    <2>1. /\ DecodeHead /\ IsDone(s, seq_len[s] + 1)
          /\ status' = [status EXCEPT ![s] = "finished"]
          /\ finished' = [finished EXCEPT ![s] = seq_len[s] + 1]
      BY <1>6 DEF DecodeFinishes
    <2>2. /\ counts[s] + 1 >= max_new_tokens[s]
          /\ seq_len[s] + 1 = prompt_len[s] + counts[s] + 1
      <3>1. /\ counts[s] = seq_len[s] - prompt_len[s]
            /\ seq_len[s] \in Nat /\ prompt_len[s] \in Nat /\ max_new_tokens[s] \in Nat
        BY <1>4, <2>1
      <3>2. QED
        BY <2>1, <3>1 DEF IsDone
    <2>3. LC!Complete(s)
      BY <1>4, <2>1, <2>2 DEF LC!Complete, counts
    <2>4. QED
      BY <1>4, <2>1, <2>3 DEF LC!ReqNext
  <1>7. CASE UNCHANGED <<status, prompt_len, max_new_tokens, seq_len, finished>>
    BY <1>7 DEF LC!reqVars, num_generated
  <1>8. QED
    BY <1>1, <1>2, <1>3, <1>5, <1>6, <1>7
       DEF Next, Step, BeginStep, KeepWaiting, EndAdmit, EnsureRoom, Retry, EndEnsure,
           EndStep, vars, requests

\* The scheduler keeps its promise to whoever submits a request.
THEOREM ImplementsLifecycle == Spec => Lifecycle
  BY LifecycleInit, LifecycleStep, InvariantHolds, PTL DEF Spec, Lifecycle, LC!ReqSpec

=============================================================================
