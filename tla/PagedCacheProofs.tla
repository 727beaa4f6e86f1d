--------------------------- MODULE PagedCacheProofs ---------------------------
(***************************************************************************)
(* Theorems about PagedCache: a layer's blocks and counters agree at every *)
(* moment, only the first layer's pool is ever exhausted, and for good, no *)
(* layer is ahead of one before it, whatever passes have raised, and the   *)
(* paged cache implements the naive one.                                   *)
(***************************************************************************)
EXTENDS PagedCache, ListFacts

-----------------------------------------------------------------------------
(* The inductive invariant *)

Stored == Values \cup {Zero}

TypeOK ==
    /\ pool \in [Layers -> [Blocks -> [Slots -> Stored]]]
    /\ free_blocks \in [Layers -> Seq(Blocks)]
    /\ block_table \in [Layers -> Seq(Blocks)]
    /\ tail_offset \in [Layers -> 0 .. BlockSize]
    /\ seq_len \in [Layers -> Nat]
    /\ layer \in 0 .. NumLayers
    /\ chunk \in Chunks \cup {<<>>}
    /\ t \in 0 .. Len(chunk)
    /\ stranded \in [Layers -> Nat]
    /\ exhausted \in BOOLEAN
    /\ raises \in Nat

\* A pass that runs has tokens to append, and between two passes there are none.
PassHasTokens == Idle <=> chunk = <<>>

\* The free list and the table of a layer make up its pool.
BlocksAddUp == \A l \in Layers :
    Len(free_blocks[l]) + Len(block_table[l]) = MaxBlocks

\* What a layer has written in the pass that runs.
Pending(l) == IF l < layer THEN Len(chunk) ELSE IF l = layer THEN t ELSE 0

\* The length from which a layer has started the pass that runs.
Start(l) == seq_len[l] - (Pending(l) + stranded[l])

\* A pass that raises between two appends leaves the layers before it ahead, so
\* no layer starts from more than the one before it; without such a pass they
\* all start from the same length.
Staggered ==
    /\ \A l \in Layers : Start(l) \in Nat
    /\ \A l \in Layers \ {0} : Start(l) <= Start(l - 1)
    /\ raises = 0 => \A l \in Layers : Start(l) = Start(0)

\* Only layer 0 ever raises, and then it is full and stays full: a later pass
\* stops there before it has written anything.
OnlyLayerZeroRaises ==
    /\ \A l \in Layers : stranded[l] # 0 => l = 0 /\ exhausted
    /\ exhausted => /\ free_blocks[0] = <<>> /\ TailFull(0)
                    /\ layer \in {0, NumLayers}
                    /\ t = 0

\* The tokens that the running append has written are the last ones it holds,
\* in the order of the chunk.
PendingHeld == layer \in Layers => \A i \in 1 .. t :
    Gather(layer)[seq_len[layer] - t + i] = chunk[i]

IInv ==
    /\ TypeOK
    /\ PassHasTokens
    /\ BlocksAddUp
    /\ BlocksOnce
    /\ CountersAgree
    /\ Staggered
    /\ OnlyLayerZeroRaises
    /\ PendingHeld

-----------------------------------------------------------------------------
(* Arithmetic: where a token is *)

\* The quotient and the remainder of a division by BlockSize.
LEMMA Division ==
    ASSUME NEW n \in Nat
    PROVE  /\ n \div BlockSize \in Nat
           /\ n % BlockSize \in Slots
           /\ n = BlockSize * (n \div BlockSize) + (n % BlockSize)
  BY CacheSizesAssumption, SMT DEF Slots

\* They are the only ones.
LEMMA DivisionUnique ==
    ASSUME NEW q \in Nat, NEW r \in Slots
    PROVE  /\ q * BlockSize + r \in Nat
           /\ (q * BlockSize + r) \div BlockSize = q
           /\ (q * BlockSize + r) % BlockSize = r
  BY CacheSizesAssumption, SMT DEF Slots

\* More blocks have more slots.
LEMMA Times ==
    ASSUME NEW a \in Nat, NEW b \in Nat, a <= b
    PROVE  a * BlockSize \in Nat /\ a * BlockSize <= b * BlockSize
  BY CacheSizesAssumption, SMT

LEMMA TimesNext ==
    ASSUME NEW a \in Nat
    PROVE  a * BlockSize \in Nat /\ (a + 1) * BlockSize = a * BlockSize + BlockSize
  BY CacheSizesAssumption, SMT

\* With k blocks of which the last one has o tokens, every token is in one of
\* the k blocks, and those of the last block are in its first o slots.
LEMMA TokenPlace ==
    ASSUME NEW k \in Nat \ {0}, NEW o \in 1 .. BlockSize,
           NEW i \in 0 .. (k - 1) * BlockSize + o - 1
    PROVE  /\ i \div BlockSize \in 0 .. k - 1
           /\ i % BlockSize \in Slots
           /\ i \div BlockSize = k - 1 => i % BlockSize < o
  <1> DEFINE q == i \div BlockSize
             r == i % BlockSize
             w == k - 1
  <1>1. BlockSize \in Nat \ {0} /\ w \in Nat /\ w * BlockSize \in Nat
    BY CacheSizesAssumption, Times
  <1>2. i \in Nat /\ i < w * BlockSize + o /\ o <= BlockSize
    BY <1>1
  <1>3. /\ q \in Nat /\ r \in Slots
        /\ q * BlockSize \in Nat
        /\ i = q * BlockSize + r
    BY <1>1, <1>2, Division, SMT
  <1> HIDE DEF q, r
  <1>4. q <= w
    <2>1. ASSUME q >= w + 1
          PROVE  FALSE
      <3>1. (w + 1) * BlockSize <= q * BlockSize
        BY <1>1, <1>3, <2>1, Times
      <3>2. (w + 1) * BlockSize = w * BlockSize + BlockSize
        BY <1>1, TimesNext
      <3> HIDE DEF w
      <3>3. QED
        BY <1>1, <1>2, <1>3, <3>1, <3>2 DEF Slots
    <2>2. QED
      BY <1>1, <1>3, <2>1
  <1>5. q = w => r < o
    <2> HIDE DEF w
    <2>1. QED
      BY <1>1, <1>2, <1>3 DEF Slots
  <1>6. QED
    BY <1>1, <1>3, <1>4, <1>5 DEF q, r

-----------------------------------------------------------------------------
(* Types *)

\* A chunk is a sequence of values, and a pass that runs has one.
LEMMA ChunkFacts ==
    ASSUME NEW c \in Chunks \cup {<<>>}
    PROVE  /\ c \in Seq(Values) /\ Len(c) \in Nat
           /\ c # <<>> => Len(c) \in Nat \ {0}
           /\ c \in Chunks => c # <<>>
  <1>1. CASE c = <<>>
    <2>1. \A n \in 1 .. MaxChunk : <<>> \notin [1 .. n -> Values]
      BY CacheSizesAssumption
    <2>2. QED
      BY <1>1, <2>1 DEF Chunks
  <1>2. CASE c # <<>>
    <2>1. PICK n \in 1 .. MaxChunk : c \in [1 .. n -> Values]
      BY <1>2 DEF Chunks
    <2>2. n \in Nat \ {0}
      BY CacheSizesAssumption
    <2>3. QED
      BY <1>2, <2>1, <2>2
  <1>3. QED
    BY <1>1, <1>2

LEMMA InitType == Init => TypeOK /\ PassHasTokens
  <1> SUFFICES ASSUME Init
               PROVE  TypeOK /\ PassHasTokens
    OBVIOUS
  <1>1. [i \in 1 .. MaxBlocks |-> i - 1] \in Seq(Blocks)
    BY CacheSizesAssumption DEF Blocks
  <1>2. pool \in [Layers -> [Blocks -> [Slots -> Stored]]]
    BY DEF Init, Stored
  <1>3. free_blocks \in [Layers -> Seq(Blocks)]
    BY <1>1 DEF Init
  <1>4. /\ block_table \in [Layers -> Seq(Blocks)]
        /\ seq_len \in [Layers -> Nat]
        /\ stranded \in [Layers -> Nat]
    <2>1. <<>> \in Seq(Blocks)
      OBVIOUS
    <2>2. QED
      BY <2>1 DEF Init
  <1>5. /\ tail_offset \in [Layers -> 0 .. BlockSize]
        /\ layer \in 0 .. NumLayers
        /\ exhausted \in BOOLEAN
        /\ raises \in Nat
    <2>1. 0 \in 0 .. BlockSize /\ NumLayers \in 0 .. NumLayers
      BY CacheSizesAssumption
    <2>2. QED
      BY <2>1 DEF Init
  <1>6. chunk = <<>> /\ t \in 0 .. Len(chunk) /\ Idle
    BY DEF Init, Idle
  <1>7. QED
    BY <1>2, <1>3, <1>4, <1>5, <1>6 DEF TypeOK, PassHasTokens

\* The types of what a layer keeps.
LEMMA LayerTypes ==
    ASSUME TypeOK, NEW l \in Layers
    PROVE  /\ pool[l] \in [Blocks -> [Slots -> Stored]]
           /\ free_blocks[l] \in Seq(Blocks) /\ Len(free_blocks[l]) \in Nat
           /\ block_table[l] \in Seq(Blocks) /\ Len(block_table[l]) \in Nat
           /\ tail_offset[l] \in 0 .. BlockSize
           /\ seq_len[l] \in Nat
           /\ stranded[l] \in Nat
  BY DEF TypeOK

\* A pass that is not idle is at one of the layers.
LEMMA AtLayer ==
    ASSUME TypeOK, ~ Idle
    PROVE  layer \in Layers /\ layer + 1 \in 0 .. NumLayers
  BY CacheSizesAssumption DEF TypeOK, Idle, Layers

\* Which slot a write goes to, and that it is the next one of the layer: after
\* the write the table of the layer ends with the block, and holds slot + 1
\* tokens in it.
LEMMA WriteFacts ==
    ASSUME TypeOK, CountersAgree, WriteInTail \/ WriteInNewBlock
    PROVE  \E block \in Blocks, slot \in Slots :
              /\ Write(block, slot)
              /\ block_table'[layer] # <<>>
              /\ block_table'[layer] \in Seq(Blocks)
              /\ Last(block_table'[layer]) = block
              /\ seq_len[layer] = (Len(block_table'[layer]) - 1) * BlockSize + slot
              /\ WriteInTail => /\ slot # 0
                                /\ block_table' = block_table
              /\ WriteInNewBlock => /\ slot = 0
                                    /\ free_blocks[layer] # <<>>
                                    /\ block = Last(free_blocks[layer])
                                    /\ block_table'[layer] = Append(block_table[layer], block)
  <1> DEFINE l == layer
  <1>1. l \in Layers
    BY AtLayer DEF WriteInTail, WriteInNewBlock
  <1>2. /\ free_blocks[l] \in Seq(Blocks)
        /\ block_table[l] \in Seq(Blocks) /\ Len(block_table[l]) \in Nat
        /\ tail_offset[l] \in 0 .. BlockSize
        /\ seq_len[l] \in Nat
    BY <1>1, LayerTypes
  <1>3. \/ seq_len[l] = 0 /\ tail_offset[l] = 0 /\ block_table[l] = <<>>
        \/ /\ tail_offset[l] > 0
           /\ seq_len[l] = (Len(block_table[l]) - 1) * BlockSize + tail_offset[l]
    BY <1>1 DEF CountersAgree
  <1>4. CASE WriteInTail
    <2>1. Write(Last(block_table[l]), tail_offset[l]) /\ block_table' = block_table
      BY <1>4 DEF WriteInTail
    <2>2. tail_offset[l] \notin {0, BlockSize}
      BY <1>4 DEF WriteInTail, TailFull
    <2>3. tail_offset[l] \in Slots
      BY <1>2, <2>2, CacheSizesAssumption DEF Slots
    <2>4. ~ WriteInNewBlock
      BY <1>4 DEF WriteInTail, WriteInNewBlock
    <2>5. block_table[l] # <<>>
      <3>1. ASSUME block_table[l] = <<>>
            PROVE  seq_len[l] = tail_offset[l] - BlockSize
        <4>1. Len(block_table[l]) = 0
          BY <3>1
        <4>2. (0 - 1) * BlockSize = 0 - BlockSize
          BY CacheSizesAssumption
        <4>3. QED
          BY <1>2, <1>3, <2>2, <4>1, <4>2, CacheSizesAssumption
      <3>2. QED
        BY <1>2, <2>2, <3>1, CacheSizesAssumption
    <2>6. Last(block_table[l]) \in Blocks
      BY <1>2, <2>5, EmptySeq DEF Last
    <2>7. QED
      BY <1>2, <1>3, <2>1, <2>2, <2>3, <2>4, <2>5, <2>6
  <1>5. CASE WriteInNewBlock
    <2> DEFINE b == Last(free_blocks[l])
               m == Append(block_table[l], b)
    <2>1. /\ Write(b, 0) /\ free_blocks[l] # <<>>
          /\ block_table' = [block_table EXCEPT ![layer] = Append(@, b)]
      BY <1>5 DEF WriteInNewBlock
    <2>2. block_table'[l] = m
      BY <1>1, <2>1 DEF TypeOK
    <2>3. b \in Blocks
      BY <1>2, <2>1, EmptySeq DEF Last
    <2>4. /\ m \in Seq(Blocks) /\ Len(m) = Len(block_table[l]) + 1
          /\ m[Len(block_table[l]) + 1] = b
      BY <1>2, <2>3, AppendProperties
    <2>5. ~ WriteInTail
      BY <1>5 DEF WriteInTail, WriteInNewBlock
    <2>6. 0 \in Slots
      BY CacheSizesAssumption DEF Slots
    <2>7. seq_len[l] = Len(block_table[l]) * BlockSize
      <3>1. tail_offset[l] \in {0, BlockSize}
        BY <1>5 DEF WriteInNewBlock, TailFull
      <3>2. CASE tail_offset[l] = 0
        BY <1>3, <3>2, CacheSizesAssumption
      <3>3. CASE tail_offset[l] # 0
        <4> DEFINE k == Len(block_table[l])
        <4>1. tail_offset[l] = BlockSize /\ seq_len[l] = (k - 1) * BlockSize + BlockSize
          BY <1>3, <3>1, <3>3
        <4>2. k \in Int
          BY <1>2
        <4> HIDE DEF k
        <4>3. (k - 1) * BlockSize + BlockSize = k * BlockSize
          BY <4>2, CacheSizesAssumption, SMT
        <4>4. QED
          BY <4>1, <4>3 DEF k
      <3>4. QED
        BY <3>2, <3>3
    <2> HIDE DEF m, b
    <2>8. m # <<>> /\ Last(m) = b /\ Len(m) - 1 = Len(block_table[l])
      BY <1>2, <2>4, EmptySeq DEF Last
    <2>9. seq_len[l] = (Len(m) - 1) * BlockSize + 0
      <3>1. Len(block_table[l]) * BlockSize \in Nat
        BY <1>2, TimesNext
      <3>2. QED
        BY <2>7, <2>8, <3>1
    <2>10. QED
      BY <2>1, <2>2, <2>3, <2>4, <2>5, <2>6, <2>8, <2>9 DEF m, b
  <1>6. QED
    BY <1>4, <1>5

\* What a write leaves: one slot of one block of the layer at hand.
LEMMA WriteEffect ==
    ASSUME TypeOK, layer \in Layers, t < Len(chunk),
           NEW block \in Blocks, NEW slot \in Slots, Write(block, slot)
    PROVE  /\ pool' \in [Layers -> [Blocks -> [Slots -> Stored]]]
           /\ \A l \in Layers \ {layer} : pool'[l] = pool[l]
           /\ \A b \in Blocks, s \in Slots : pool'[layer][b][s] =
                 IF b = block /\ s = slot THEN chunk[t + 1] ELSE pool[layer][b][s]
           /\ tail_offset' \in [Layers -> 0 .. BlockSize]
           /\ \A l \in Layers : tail_offset'[l] =
                 IF l = layer THEN slot + 1 ELSE tail_offset[l]
           /\ seq_len' \in [Layers -> Nat]
           /\ \A l \in Layers : seq_len'[l] =
                 IF l = layer THEN seq_len[layer] + 1 ELSE seq_len[l]
           /\ t' = t + 1 /\ t' \in 0 .. Len(chunk)
           /\ chunk[t + 1] \in Values
  <1>1. /\ chunk \in Seq(Values) /\ Len(chunk) \in Nat /\ t \in Nat
        /\ t + 1 \in 1 .. Len(chunk)
    BY ChunkFacts DEF TypeOK
  <1>2. chunk[t + 1] \in Values /\ chunk[t + 1] \in Stored
    BY <1>1 DEF Stored
  <1>3. /\ pool' \in [Layers -> [Blocks -> [Slots -> Stored]]]
        /\ \A l \in Layers \ {layer} : pool'[l] = pool[l]
        /\ \A b \in Blocks, s \in Slots : pool'[layer][b][s] =
              IF b = block /\ s = slot THEN chunk[t + 1] ELSE pool[layer][b][s]
    BY <1>2 DEF TypeOK, Write
  <1>4. slot + 1 \in 0 .. BlockSize
    BY CacheSizesAssumption DEF Slots
  <1>5. /\ tail_offset' \in [Layers -> 0 .. BlockSize]
        /\ \A l \in Layers : tail_offset'[l] =
              IF l = layer THEN slot + 1 ELSE tail_offset[l]
    BY <1>4 DEF TypeOK, Write
  <1>6. /\ seq_len' \in [Layers -> Nat]
        /\ \A l \in Layers : seq_len'[l] =
              IF l = layer THEN seq_len[layer] + 1 ELSE seq_len[l]
    BY DEF TypeOK, Write
  <1>7. t' = t + 1 /\ t' \in 0 .. Len(chunk)
    BY <1>1 DEF Write
  <1>8. QED
    BY <1>2, <1>3, <1>5, <1>6, <1>7

\* A block moves from the end of the free list to the end of the table.
LEMMA NewBlockEffect ==
    ASSUME TypeOK, WriteInNewBlock
    PROVE  /\ layer \in Layers
           /\ free_blocks' \in [Layers -> Seq(Blocks)]
           /\ block_table' \in [Layers -> Seq(Blocks)]
           /\ free_blocks'[layer] = Front(free_blocks[layer])
           /\ Len(free_blocks'[layer]) = Len(free_blocks[layer]) - 1
           /\ block_table'[layer] = Append(block_table[layer], Last(free_blocks[layer]))
           /\ Len(block_table'[layer]) = Len(block_table[layer]) + 1
           /\ \A l \in Layers \ {layer} : /\ free_blocks'[l] = free_blocks[l]
                                          /\ block_table'[l] = block_table[l]
           /\ Last(free_blocks[layer]) \in Blocks
  <1> DEFINE f == free_blocks[layer]
             m == block_table[layer]
  <1>1. layer \in Layers
    BY AtLayer DEF WriteInNewBlock
  <1>2. /\ f \in Seq(Blocks) /\ Len(f) \in Nat /\ f # <<>>
        /\ m \in Seq(Blocks) /\ Len(m) \in Nat
    BY <1>1, LayerTypes DEF WriteInNewBlock
  <1>3. Len(f) \in Nat \ {0} /\ Last(f) \in Blocks
    BY <1>2, EmptySeq DEF Last
  <1>4. Front(f) \in Seq(Blocks) /\ Len(Front(f)) = Len(f) - 1
    BY <1>2, FrontFacts
  <1>5. /\ Append(m, Last(f)) \in Seq(Blocks)
        /\ Len(Append(m, Last(f))) = Len(m) + 1
    BY <1>2, <1>3, AppendProperties
  <1>6. /\ free_blocks' = [free_blocks EXCEPT ![layer] = Front(@)]
        /\ block_table' = [block_table EXCEPT ![layer] = Append(@, Last(f))]
    BY DEF WriteInNewBlock
  <1>7. /\ free_blocks \in [Layers -> Seq(Blocks)]
        /\ block_table \in [Layers -> Seq(Blocks)]
    BY DEF TypeOK
  <1>8. /\ free_blocks' \in [Layers -> Seq(Blocks)]
        /\ free_blocks'[layer] = Front(f)
        /\ \A l \in Layers \ {layer} : free_blocks'[l] = free_blocks[l]
    BY <1>1, <1>4, <1>6, <1>7
  <1>9. /\ block_table' \in [Layers -> Seq(Blocks)]
        /\ block_table'[layer] = Append(m, Last(f))
        /\ \A l \in Layers \ {layer} : block_table'[l] = block_table[l]
    BY <1>1, <1>5, <1>6, <1>7
  <1>10. QED
    BY <1>1, <1>3, <1>4, <1>5, <1>8, <1>9

\* Every step keeps the types, and ends the chunk with the pass.
LEMMA TypeStep ==
    ASSUME TypeOK, PassHasTokens, CountersAgree, [Next]_vars
    PROVE  TypeOK' /\ PassHasTokens'
  <1>1. ASSUME NEW new \in Chunks, BeginForward(new)
        PROVE  TypeOK' /\ PassHasTokens'
    <2>1. chunk' \in Chunks /\ t' = 0 /\ layer' = 0 /\ UNCHANGED <<cacheVars, historyVars>>
      BY <1>1 DEF BeginForward
    <2>2. chunk' # <<>> /\ t' \in 0 .. Len(chunk')
      BY <2>1, ChunkFacts
    <2>3. layer' \in 0 .. NumLayers /\ layer' # NumLayers
      BY <2>1, CacheSizesAssumption
    <2>4. QED
      BY <2>1, <2>2, <2>3 DEF TypeOK, PassHasTokens, Idle, cacheVars, historyVars
  <1>2. ASSUME WriteInTail \/ WriteInNewBlock
        PROVE  TypeOK' /\ PassHasTokens'
    <2>1. PICK block \in Blocks, slot \in Slots : Write(block, slot)
      BY <1>2, WriteFacts
    <2>2. /\ layer \in Layers /\ t < Len(chunk) /\ ~ Idle
          /\ UNCHANGED <<layer, chunk, stranded, exhausted, raises>>
      BY <1>2, AtLayer DEF WriteInTail, WriteInNewBlock, historyVars
    <2>3. /\ pool' \in [Layers -> [Blocks -> [Slots -> Stored]]]
          /\ tail_offset' \in [Layers -> 0 .. BlockSize]
          /\ seq_len' \in [Layers -> Nat]
          /\ t' \in 0 .. Len(chunk)
      BY <2>1, <2>2, WriteEffect
    <2>4. /\ free_blocks' \in [Layers -> Seq(Blocks)]
          /\ block_table' \in [Layers -> Seq(Blocks)]
      <3>1. CASE WriteInTail
        BY <3>1 DEF WriteInTail, TypeOK
      <3>2. CASE WriteInNewBlock
        BY <3>2, NewBlockEffect
      <3>3. QED
        BY <1>2, <3>1, <3>2
    <2>5. QED
      BY <2>2, <2>3, <2>4 DEF TypeOK, PassHasTokens, Idle
  <1>3. ASSUME Exhausted
        PROVE  TypeOK' /\ PassHasTokens'
    <2>1. /\ layer \in Layers
          /\ layer' = NumLayers /\ chunk' = <<>> /\ t' = 0 /\ exhausted' = TRUE
          /\ stranded' = [stranded EXCEPT ![layer] = @ + t]
          /\ UNCHANGED <<cacheVars, raises>>
      BY <1>3, AtLayer DEF Exhausted
    <2>2. t \in Nat
      BY ChunkFacts DEF TypeOK
    <2>3. stranded' \in [Layers -> Nat]
      BY <2>1, <2>2 DEF TypeOK
    <2>4. t' \in 0 .. Len(chunk') /\ layer' \in 0 .. NumLayers
      BY <2>1, CacheSizesAssumption
    <2>5. QED
      BY <2>1, <2>3, <2>4 DEF TypeOK, PassHasTokens, Idle, cacheVars
  <1>4. ASSUME AppendReturns
        PROVE  TypeOK' /\ PassHasTokens'
    <2>1. /\ ~ Idle /\ layer' = layer + 1 /\ t' = 0
          /\ chunk' = IF layer' = NumLayers THEN <<>> ELSE chunk
          /\ UNCHANGED <<cacheVars, historyVars>>
      BY <1>4 DEF AppendReturns
    <2>2. layer' \in 0 .. NumLayers
      BY <2>1, AtLayer
    <2>3. chunk' \in Chunks \cup {<<>>} /\ (chunk' = <<>> <=> layer' = NumLayers)
      BY <2>1 DEF TypeOK, PassHasTokens
    <2>4. t' \in 0 .. Len(chunk')
      BY <2>1, <2>3, ChunkFacts
    <2>5. QED
      BY <2>1, <2>2, <2>3, <2>4 DEF TypeOK, PassHasTokens, Idle, cacheVars, historyVars
  <1>5. ASSUME PassRaises
        PROVE  TypeOK' /\ PassHasTokens'
    <2>1. /\ layer' = NumLayers /\ chunk' = <<>> /\ t' = 0 /\ raises' = raises + 1
          /\ UNCHANGED <<cacheVars, stranded, exhausted>>
      BY <1>5 DEF PassRaises
    <2>2. t' \in 0 .. Len(chunk') /\ layer' \in 0 .. NumLayers /\ raises' \in Nat
      BY <2>1, CacheSizesAssumption DEF TypeOK
    <2>3. QED
      BY <2>1, <2>2 DEF TypeOK, PassHasTokens, Idle, cacheVars
  <1>6. ASSUME UNCHANGED vars
        PROVE  TypeOK' /\ PassHasTokens'
    BY <1>6 DEF TypeOK, PassHasTokens, Idle, vars, cacheVars, passVars, historyVars
  <1>7. QED
    BY <1>1, <1>2, <1>3, <1>4, <1>5, <1>6 DEF Next

-----------------------------------------------------------------------------
(* Blocks and counters *)

\* The lists of a layer change in one action only.
LEMMA OtherStepsKeepLists ==
    ASSUME [Next]_vars, ~ WriteInNewBlock
    PROVE  UNCHANGED <<free_blocks, block_table>>
  BY DEF Next, vars, cacheVars, BeginForward, WriteInTail, Exhausted, AppendReturns,
         PassRaises

\* The counters change in the two writes only.
LEMMA OtherStepsKeepCounters ==
    ASSUME [Next]_vars, ~ WriteInTail, ~ WriteInNewBlock
    PROVE  UNCHANGED cacheVars
  BY DEF Next, vars, cacheVars, BeginForward, Exhausted, AppendReturns, PassRaises

\* A block that leaves the free list goes into the table, and nowhere else.
LEMMA BlocksStep ==
    ASSUME TypeOK, BlocksAddUp, BlocksOnce, [Next]_vars
    PROVE  BlocksAddUp' /\ BlocksOnce'
  <1>1. CASE WriteInNewBlock
    <2> DEFINE f == free_blocks[layer]
               m == block_table[layer]
    <2>1. /\ layer \in Layers
          /\ free_blocks'[layer] = Front(f)
          /\ Len(free_blocks'[layer]) = Len(f) - 1
          /\ block_table'[layer] = Append(m, Last(f))
          /\ Len(block_table'[layer]) = Len(m) + 1
          /\ \A l \in Layers \ {layer} : /\ free_blocks'[l] = free_blocks[l]
                                         /\ block_table'[l] = block_table[l]
      BY <1>1, NewBlockEffect
    <2>2. /\ f \in Seq(Blocks) /\ Len(f) \in Nat /\ f # <<>>
          /\ m \in Seq(Blocks) /\ Len(m) \in Nat
      BY <1>1, <2>1, LayerTypes DEF WriteInNewBlock
    <2>3. IsInjective(f \o m) /\ ToSet(f \o m) = Blocks /\ Len(f) + Len(m) = MaxBlocks
      BY <2>1 DEF BlocksOnce, BlocksAddUp
    <2> HIDE DEF f, m
    <2>4. /\ IsInjective(Front(f) \o Append(m, Last(f)))
          /\ ToSet(Front(f) \o Append(m, Last(f))) = Blocks
      BY <2>2, <2>3, MoveLast
    <2>5. ASSUME NEW l \in Layers
          PROVE  /\ Len(free_blocks'[l]) + Len(block_table'[l]) = MaxBlocks
                 /\ IsInjective(free_blocks'[l] \o block_table'[l])
                 /\ ToSet(free_blocks'[l] \o block_table'[l]) = Blocks
      <3>1. CASE l = layer
        <4>1. Len(free_blocks'[layer]) + Len(block_table'[layer]) = MaxBlocks
          BY <2>1, <2>2, <2>3
        <4>2. free_blocks'[layer] \o block_table'[layer] = Front(f) \o Append(m, Last(f))
          BY <2>1
        <4>3. QED
          BY <2>4, <3>1, <4>1, <4>2
      <3>2. CASE l # layer
        BY <2>1, <3>2 DEF BlocksOnce, BlocksAddUp
      <3>3. QED
        BY <3>1, <3>2
    <2>6. QED
      BY <2>5 DEF BlocksOnce, BlocksAddUp
  <1>2. CASE ~ WriteInNewBlock
    <2>1. UNCHANGED <<free_blocks, block_table>>
      BY <1>2, OtherStepsKeepLists
    <2>2. QED
      BY <2>1 DEF BlocksOnce, BlocksAddUp
  <1>3. QED
    BY <1>1, <1>2

\* A write moves the three counters of its layer together.
LEMMA CountersStep ==
    ASSUME TypeOK, CountersAgree, [Next]_vars
    PROVE  CountersAgree'
  <1>1. CASE WriteInTail \/ WriteInNewBlock
    <2> DEFINE m == block_table'[layer]
    <2>1. PICK block \in Blocks, slot \in Slots :
              /\ Write(block, slot)
              /\ m # <<>>
              /\ m \in Seq(Blocks)
              /\ seq_len[layer] = (Len(m) - 1) * BlockSize + slot
              /\ WriteInTail => block_table' = block_table
      BY <1>1, WriteFacts
    <2>2. layer \in Layers /\ t < Len(chunk)
      BY <1>1, AtLayer DEF WriteInTail, WriteInNewBlock
    <2>3. \A l \in Layers :
              /\ tail_offset'[l] = IF l = layer THEN slot + 1 ELSE tail_offset[l]
              /\ seq_len'[l] = IF l = layer THEN seq_len[layer] + 1 ELSE seq_len[l]
      BY <2>1, <2>2, WriteEffect
    <2>4. \A l \in Layers \ {layer} : block_table'[l] = block_table[l]
      BY <1>1, <2>1, NewBlockEffect
    <2>5. ASSUME NEW l \in Layers
          PROVE  \/ seq_len'[l] = 0 /\ tail_offset'[l] = 0 /\ block_table'[l] = <<>>
                 \/ /\ tail_offset'[l] > 0
                    /\ seq_len'[l] = (Len(block_table'[l]) - 1) * BlockSize + tail_offset'[l]
      <3>1. CASE l # layer
        BY <2>3, <2>4, <3>1 DEF CountersAgree
      <3>2. CASE l = layer
        <4> DEFINE w == Len(m) - 1
        <4>1. w \in Nat /\ w * BlockSize \in Nat
          BY <2>1, EmptySeq, TimesNext
        <4> HIDE DEF w
        <4>2. slot + 1 > 0 /\ seq_len[layer] + 1 = w * BlockSize + (slot + 1)
          BY <2>1, <4>1 DEF w, Slots
        <4>3. QED
          BY <2>3, <3>2, <4>2 DEF w
      <3>3. QED
        BY <3>1, <3>2
    <2>6. QED
      BY <2>5 DEF CountersAgree
  <1>2. CASE ~ WriteInTail /\ ~ WriteInNewBlock
    <2>1. UNCHANGED cacheVars
      BY <1>2, OtherStepsKeepCounters
    <2>2. QED
      BY <2>1 DEF CountersAgree, cacheVars
  <1>3. QED
    BY <1>1, <1>2

\* A layer that raises is full: it holds a token in every slot.
LEMMA RaisesFull ==
    ASSUME TypeOK, BlocksAddUp, CountersAgree,
           NEW l \in Layers, free_blocks[l] = <<>>, TailFull(l)
    PROVE  seq_len[l] = MaxBlocks * BlockSize
  <1> DEFINE k == Len(block_table[l])
  <1>1. k \in Nat /\ k = MaxBlocks
    <2>1. Len(free_blocks[l]) + k = MaxBlocks /\ Len(free_blocks[l]) = 0
      BY DEF BlocksAddUp
    <2>2. k \in Nat
      BY LayerTypes
    <2> HIDE DEF k
    <2>3. QED
      BY <2>1, <2>2
  <1>2. tail_offset[l] \in {0, BlockSize}
    BY DEF TailFull
  <1>3. \/ seq_len[l] = 0 /\ tail_offset[l] = 0 /\ k = 0
        \/ tail_offset[l] > 0 /\ seq_len[l] = (k - 1) * BlockSize + tail_offset[l]
    BY DEF CountersAgree
  <1> HIDE DEF k
  <1>4. CASE tail_offset[l] = 0
    BY <1>1, <1>3, <1>4, CacheSizesAssumption
  <1>5. CASE tail_offset[l] # 0
    <2>1. seq_len[l] = (k - 1) * BlockSize + BlockSize
      BY <1>2, <1>3, <1>5
    <2>2. (k - 1) * BlockSize + BlockSize = k * BlockSize
      BY <1>1, CacheSizesAssumption, SMT
    <2>3. QED
      BY <1>1, <2>1, <2>2
  <1>6. QED
    BY <1>4, <1>5

\* No layer holds more tokens than its pool has slots.
LEMMA LengthBound ==
    ASSUME TypeOK, BlocksAddUp, CountersAgree, NEW l \in Layers
    PROVE  /\ seq_len[l] <= Len(block_table[l]) * BlockSize
           /\ Len(block_table[l]) * BlockSize <= MaxBlocks * BlockSize
           /\ Len(block_table[l]) * BlockSize \in Nat /\ MaxBlocks * BlockSize \in Nat
  <1> DEFINE k == Len(block_table[l])
  <1>1. /\ k \in Nat /\ k <= MaxBlocks /\ tail_offset[l] \in 0 .. BlockSize
    <2>1. Len(free_blocks[l]) + k = MaxBlocks
      BY DEF BlocksAddUp
    <2>2. Len(free_blocks[l]) \in Nat /\ k \in Nat /\ tail_offset[l] \in 0 .. BlockSize
      BY LayerTypes
    <2> HIDE DEF k
    <2>3. QED
      BY <2>1, <2>2, CacheSizesAssumption
  <1>2. k * BlockSize <= MaxBlocks * BlockSize /\ k * BlockSize \in Nat /\ MaxBlocks * BlockSize \in Nat
    BY <1>1, Times, CacheSizesAssumption
  <1>3. \/ seq_len[l] = 0
        \/ seq_len[l] = (k - 1) * BlockSize + tail_offset[l]
    BY DEF CountersAgree
  <1> HIDE DEF k
  <1>4. (k - 1) * BlockSize + BlockSize = k * BlockSize
    BY <1>1, CacheSizesAssumption, SMT
  <1>5. (k - 1) * BlockSize \in Int
    BY <1>1, CacheSizesAssumption
  <1>6. seq_len[l] <= k * BlockSize
    BY <1>1, <1>2, <1>3, <1>4, <1>5, CacheSizesAssumption
  <1>7. QED
    BY <1>2, <1>6 DEF k

-----------------------------------------------------------------------------
(* The pass and the layers *)

\* A layer that starts from 0 or more holds what it has pending and stranded.
LEMMA StartFacts ==
    ASSUME TypeOK, Staggered, NEW l \in Layers
    PROVE  /\ Pending(l) \in Nat /\ stranded[l] \in Nat /\ seq_len[l] \in Nat
           /\ Start(l) \in Nat
           /\ seq_len[l] = Start(l) + Pending(l) + stranded[l]
  <1>1. /\ t \in Nat /\ Len(chunk) \in Nat /\ seq_len[l] \in Nat /\ stranded[l] \in Nat
    BY ChunkFacts, LayerTypes DEF TypeOK
  <1>2. Pending(l) \in Nat
    BY <1>1 DEF Pending
  <1>3. Start(l) \in Nat
    BY DEF Staggered
  <1>4. QED
    BY <1>1, <1>2, <1>3 DEF Start

\* A pass that reaches a later layer has written the whole chunk in the layer
\* before, which has the same pool and started from no less: there is room.
LEMMA LayerZeroRaises ==
    ASSUME TypeOK, PassHasTokens, BlocksAddUp, CountersAgree, Staggered,
           OnlyLayerZeroRaises, Exhausted
    PROVE  layer = 0
  <1> SUFFICES ASSUME layer # 0
               PROVE  FALSE
    OBVIOUS
  <1> DEFINE k == layer - 1
  <1>1. /\ layer \in Layers /\ ~ Idle /\ t < Len(chunk)
        /\ TailFull(layer) /\ free_blocks[layer] = <<>>
    BY AtLayer DEF Exhausted
  <1>2. k \in Layers /\ k < layer /\ k \in Nat /\ layer \in Layers \ {0}
    BY <1>1, CacheSizesAssumption DEF Layers
  <1>3. ~ exhausted
    BY <1>1, <1>2 DEF OnlyLayerZeroRaises, Idle
  <1>4. stranded[k] = 0 /\ stranded[layer] = 0
    BY <1>1, <1>2, <1>3 DEF OnlyLayerZeroRaises
  <1>5. t \in Nat /\ Len(chunk) \in Nat
    BY ChunkFacts DEF TypeOK
  <1>6. Start(layer) <= Start(k)
    BY <1>2 DEF Staggered
  <1> HIDE DEF k
  <1>7. Pending(k) = Len(chunk) /\ Pending(layer) = t
    BY <1>1, <1>2 DEF Pending, Layers
  <1>8. /\ seq_len[k] = Start(k) + Len(chunk) /\ seq_len[layer] = Start(layer) + t
        /\ Start(k) \in Nat /\ Start(layer) \in Nat
    <2>1. /\ seq_len[k] = Start(k) + Pending(k) + stranded[k]
          /\ Start(k) \in Nat
      BY <1>2, StartFacts
    <2>2. /\ seq_len[layer] = Start(layer) + Pending(layer) + stranded[layer]
          /\ Start(layer) \in Nat
      BY <1>1, StartFacts
    <2>3. QED
      BY <1>4, <1>5, <1>7, <2>1, <2>2
  <1>9. seq_len[layer] = MaxBlocks * BlockSize
    BY <1>1, RaisesFull
  <1>10. seq_len[k] <= MaxBlocks * BlockSize
    <2>1. /\ seq_len[k] <= Len(block_table[k]) * BlockSize
          /\ Len(block_table[k]) * BlockSize <= MaxBlocks * BlockSize
          /\ Len(block_table[k]) * BlockSize \in Nat /\ MaxBlocks * BlockSize \in Nat
      BY <1>2, LengthBound
    <2>2. seq_len[k] \in Nat
      BY <1>2, LayerTypes
    <2>3. QED
      BY <2>1, <2>2
  <1>11. QED
    BY <1>1, <1>5, <1>6, <1>8, <1>9, <1>10

\* After an exhaustion only two things happen: a pass starts, and raises at once.
LEMMA AfterFailure ==
    ASSUME TypeOK, PassHasTokens, OnlyLayerZeroRaises, exhausted
    PROVE  /\ ~ WriteInTail /\ ~ WriteInNewBlock /\ ~ AppendReturns
           /\ ~ Idle => t # Len(chunk)
  <1>1. /\ free_blocks[0] = <<>> /\ TailFull(0) /\ layer \in {0, NumLayers} /\ t = 0
    BY DEF OnlyLayerZeroRaises
  <1>2. ~ Idle => Len(chunk) # 0
    BY ChunkFacts DEF PassHasTokens, TypeOK
  <1>3. QED
    BY <1>1, <1>2 DEF WriteInTail, WriteInNewBlock, AppendReturns, Idle

LEMMA RaiseStep ==
    ASSUME TypeOK, PassHasTokens, BlocksAddUp, CountersAgree, Staggered,
           OnlyLayerZeroRaises, [Next]_vars
    PROVE  OnlyLayerZeroRaises'
  <1>1. ASSUME NEW new \in Chunks, BeginForward(new)
        PROVE  OnlyLayerZeroRaises'
    BY <1>1 DEF BeginForward, OnlyLayerZeroRaises, TailFull, cacheVars, historyVars
  <1>2. CASE WriteInTail \/ WriteInNewBlock \/ AppendReturns
    <2>1. ~ exhausted
      BY <1>2, AfterFailure
    <2>2. UNCHANGED <<stranded, exhausted>>
      BY <1>2 DEF WriteInTail, WriteInNewBlock, AppendReturns, historyVars
    <2>3. QED
      BY <2>1, <2>2 DEF OnlyLayerZeroRaises
  <1>3. CASE Exhausted
    <2>1. layer = 0
      BY <1>3, LayerZeroRaises
    <2>2. /\ free_blocks[0] = <<>> /\ TailFull(0)
          /\ layer' = NumLayers /\ t' = 0 /\ exhausted'
          /\ stranded' = [stranded EXCEPT ![0] = @ + t]
          /\ UNCHANGED <<free_blocks, tail_offset>>
      BY <1>3, <2>1 DEF Exhausted, cacheVars
    <2>3. \A l \in Layers : l # 0 => stranded'[l] = stranded[l]
      BY <2>2 DEF TypeOK
    <2>4. QED
      BY <2>2, <2>3 DEF OnlyLayerZeroRaises, TailFull
  <1>4. CASE PassRaises
    BY <1>4 DEF PassRaises, OnlyLayerZeroRaises, TailFull, cacheVars
  <1>5. CASE UNCHANGED vars
    BY <1>5 DEF OnlyLayerZeroRaises, TailFull, vars, cacheVars, passVars, historyVars
  <1>6. QED
    BY <1>1, <1>2, <1>3, <1>4, <1>5 DEF Next

\* Where the layers start from moves by what a pass leaves behind: by nothing in
\* most steps, and by no more in a later layer than in the one before.
LEMMA StartMoves ==
    ASSUME Staggered, NEW d \in [Layers -> Nat],
           \A l \in Layers : Start(l)' = Start(l) + d[l],
           \A l \in Layers \ {0} : d[l] <= d[l - 1],
           raises' = 0 => raises = 0 /\ \A l \in Layers : d[l] = d[0]
    PROVE  Staggered'
  <1>1. 0 \in Layers /\ \A l \in Layers \ {0} : l - 1 \in Layers
    BY CacheSizesAssumption DEF Layers
  <1>2. \A l \in Layers : Start(l)' \in Nat
    BY DEF Staggered
  <1>3. ASSUME NEW l \in Layers \ {0}
        PROVE  Start(l)' <= Start(l - 1)'
    <2> DEFINE k == l - 1
    <2>1. k \in Layers /\ l \in Layers /\ Start(l) <= Start(k) /\ d[l] <= d[k]
      BY <1>1 DEF Staggered
    <2> HIDE DEF k
    <2>2. /\ Start(l)' = Start(l) + d[l] /\ Start(k)' = Start(k) + d[k]
          /\ Start(l) \in Nat /\ Start(k) \in Nat /\ d[l] \in Nat /\ d[k] \in Nat
      BY <2>1 DEF Staggered
    <2>3. Start(l)' <= Start(k)'
      BY <2>1, <2>2
    <2>4. QED
      BY <2>3 DEF k
  <1>4. ASSUME raises' = 0, NEW l \in Layers
        PROVE  Start(l)' = Start(0)'
    BY <1>1, <1>4 DEF Staggered
  <1>5. QED
    BY <1>2, <1>3, <1>4 DEF Staggered

\* A step that leaves the layers where they started from.
LEMMA StartStays ==
    ASSUME Staggered, \A l \in Layers : Start(l)' = Start(l), raises' = raises
    PROVE  Staggered'
  <1> DEFINE d == [l \in Layers |-> 0]
  <1>1. d \in [Layers -> Nat] /\ \A l \in Layers : d[l] = 0
    OBVIOUS
  <1>2. \A l \in Layers : Start(l)' = Start(l) + d[l]
    BY <1>1 DEF Staggered
  <1>3. 0 \in Layers /\ \A l \in Layers \ {0} : l - 1 \in Layers
    BY CacheSizesAssumption DEF Layers
  <1> HIDE DEF d
  <1>4. QED
    BY <1>1, <1>2, <1>3, StartMoves

\* A pass that ends leaves what it has written, which is no more in a later
\* layer than in the one before.
LEMMA StartAdvances ==
    ASSUME TypeOK, Staggered, ~ Idle,
           layer' = NumLayers, UNCHANGED <<seq_len, stranded>>,
           chunk' = <<>>,
           raises' = 0 => raises = 0 /\ \A l \in Layers : Pending(l) = Len(chunk)
    PROVE  Staggered'
  <1> DEFINE d == [l \in Layers |-> Pending(l)]
  <1>1. /\ t \in 0 .. Len(chunk) /\ Len(chunk) \in Nat /\ layer \in Nat
        /\ NumLayers \in Nat /\ 0 \in Layers
        /\ \A l \in Layers : l \in Nat /\ l < NumLayers
        /\ \A l \in Layers \ {0} : l - 1 \in Layers
    BY ChunkFacts, CacheSizesAssumption DEF TypeOK, Layers
  <1>2. \A l \in Layers : /\ Pending(l) \in Nat /\ stranded[l] \in Nat /\ seq_len[l] \in Nat
                          /\ Start(l) \in Nat
    BY StartFacts
  <1>3. d \in [Layers -> Nat] /\ \A l \in Layers : d[l] = Pending(l)
    BY <1>2
  <1>4. \A l \in Layers : Pending(l)' = 0
    BY <1>1 DEF Pending
  <1>5. ASSUME NEW l \in Layers
        PROVE  Start(l)' = Start(l) + d[l]
    <2>1. Start(l)' = seq_len[l] - (0 + stranded[l])
      BY <1>4 DEF Start
    <2>2. Start(l) = seq_len[l] - (Pending(l) + stranded[l])
      BY DEF Start
    <2> HIDE DEF d
    <2>3. QED
      BY <1>2, <1>3, <2>1, <2>2
  <1>6. ASSUME NEW l \in Layers \ {0}
        PROVE  Pending(l) <= Pending(l - 1)
    BY <1>1, <1>2 DEF Pending
  <1>7. \A l \in Layers \ {0} : d[l] <= d[l - 1]
    <2>1. \A l \in Layers \ {0} : d[l] = Pending(l) /\ d[l - 1] = Pending(l - 1)
      BY <1>1
    <2> HIDE DEF d
    <2>2. QED
      BY <1>6, <2>1
  <1> HIDE DEF d
  <1>8. raises' = 0 => raises = 0 /\ \A l \in Layers : d[l] = d[0]
    BY <1>1, <1>3
  <1>9. QED
    BY <1>3, <1>5, <1>7, <1>8, StartMoves

\* What a layer has written in the pass, before and after a step.
LEMMA StaggeredStep ==
    ASSUME TypeOK, PassHasTokens, BlocksAddUp, CountersAgree, Staggered,
           OnlyLayerZeroRaises, [Next]_vars
    PROVE  Staggered'
  <1>2. t \in Nat /\ Len(chunk) \in Nat /\ layer \in 0 .. NumLayers /\ NumLayers \in Nat
    BY ChunkFacts, CacheSizesAssumption DEF TypeOK
  <1>3. \A l \in Layers : /\ l \in Nat /\ l < NumLayers
                          /\ seq_len[l] \in Nat /\ stranded[l] \in Nat
    BY <1>2, LayerTypes DEF Layers
  <1>4. Idle => \A l \in Layers : Pending(l) = 0
    BY <1>2, <1>3 DEF Idle, Pending, PassHasTokens
  <1>5. ASSUME NEW new \in Chunks, BeginForward(new)
        PROVE  Staggered'
    <2>1. Idle /\ layer' = 0 /\ t' = 0 /\ UNCHANGED <<seq_len, stranded, raises>>
      BY <1>5 DEF BeginForward, cacheVars, historyVars
    <2>2. \A l \in Layers : Pending(l)' = 0
      BY <1>3, <2>1 DEF Pending
    <2>3. \A l \in Layers : Start(l)' = Start(l)
      BY <1>4, <2>1, <2>2 DEF Start
    <2>4. QED
      BY <2>1, <2>3, StartStays
  <1>6. CASE WriteInTail \/ WriteInNewBlock
    <2>1. PICK block \in Blocks, slot \in Slots : Write(block, slot)
      BY <1>6, WriteFacts
    <2>2. layer \in Layers /\ t < Len(chunk) /\ UNCHANGED <<layer, chunk, stranded, raises>>
      BY <1>6, AtLayer DEF WriteInTail, WriteInNewBlock, historyVars
    <2>3. /\ t' = t + 1
          /\ \A l \in Layers : seq_len'[l] =
                IF l = layer THEN seq_len[layer] + 1 ELSE seq_len[l]
      BY <2>1, <2>2, WriteEffect
    <2>4. ASSUME NEW l \in Layers
          PROVE  Start(l)' = Start(l)
      <3>1. CASE l = layer
        <4>1. /\ Start(l) = seq_len[l] - (t + stranded[l])
              /\ Start(l)' = (seq_len[l] + 1) - ((t + 1) + stranded[l])
          BY <1>2, <1>3, <2>2, <2>3, <3>1 DEF Start, Pending
        <4>2. t \in Nat /\ seq_len[l] \in Nat /\ stranded[l] \in Nat
          BY <1>2, <1>3
        <4>3. (seq_len[l] + 1) - ((t + 1) + stranded[l]) = seq_len[l] - (t + stranded[l])
          BY <4>2
        <4>4. QED
          BY <4>1, <4>3
      <3>2. CASE l # layer
        <4>1. Pending(l)' = Pending(l)
          BY <1>2, <1>3, <2>2, <3>2 DEF Pending
        <4>2. seq_len'[l] = seq_len[l] /\ stranded' = stranded
          BY <2>2, <2>3, <3>2
        <4>3. QED
          BY <4>1, <4>2 DEF Start
      <3>3. QED
        BY <3>1, <3>2
    <2>5. QED
      BY <2>2, <2>4, StartStays
  <1>7. CASE Exhausted
    <2>1. layer = 0
      BY <1>7, LayerZeroRaises
    <2>2. /\ layer' = NumLayers /\ chunk' = <<>> /\ t' = 0
          /\ stranded' = [stranded EXCEPT ![0] = @ + t] /\ UNCHANGED <<seq_len, raises>>
      BY <1>7, <2>1 DEF Exhausted, cacheVars
    <2>3. ASSUME NEW l \in Layers
          PROVE  Start(l)' = Start(l)
      <3>1. Pending(l)' = 0
        BY <1>3, <2>2 DEF Pending
      <3>2. Pending(l) + stranded[l] = stranded'[l]
        <4>1. CASE l = 0
          BY <1>2, <1>3, <2>1, <2>2, <4>1 DEF Pending, TypeOK
        <4>2. CASE l # 0
          <5>1. Pending(l) = 0
            BY <1>3, <2>1, <4>2 DEF Pending
          <5>2. stranded'[l] = stranded[l]
            BY <2>2, <4>2 DEF TypeOK
          <5>3. QED
            BY <1>3, <5>1, <5>2
        <4>3. QED
          BY <4>1, <4>2
      <3>3. 0 + stranded'[l] = stranded'[l]
        <4>1. stranded'[l] \in Nat
          BY <1>2, <1>3, <2>2 DEF TypeOK
        <4>2. QED
          BY <4>1
      <3>4. QED
        BY <2>2, <3>1, <3>2, <3>3 DEF Start
    <2>4. QED
      BY <2>2, <2>3, StartStays
  <1>8. CASE AppendReturns
    <2>1. /\ layer \in Layers /\ ~ Idle /\ t = Len(chunk)
          /\ layer' = layer + 1 /\ t' = 0
          /\ chunk' = IF layer' = NumLayers THEN <<>> ELSE chunk
          /\ UNCHANGED <<seq_len, stranded, raises>>
      BY <1>8, AtLayer DEF AppendReturns, cacheVars, historyVars
    <2>2. CASE layer' = NumLayers
      <3>1. \A l \in Layers : Pending(l) = Len(chunk)
        BY <1>2, <1>3, <2>1, <2>2 DEF Pending
      <3>2. QED
        BY <2>1, <2>2, <3>1, StartAdvances
    <2>3. CASE layer' # NumLayers
      <3>1. \A l \in Layers : Pending(l)' = Pending(l)
        BY <1>2, <1>3, <2>1, <2>3 DEF Pending
      <3>2. \A l \in Layers : Start(l)' = Start(l)
        BY <2>1, <3>1 DEF Start
      <3>3. QED
        BY <2>1, <3>2, StartStays
    <2>4. QED
      BY <2>2, <2>3
  <1>9. CASE PassRaises
    <2>1. /\ ~ Idle /\ layer' = NumLayers /\ chunk' = <<>>
          /\ raises' = raises + 1 /\ UNCHANGED <<seq_len, stranded>>
      BY <1>9 DEF PassRaises, cacheVars
    <2>2. raises' # 0
      BY <2>1 DEF TypeOK
    <2>3. QED
      BY <2>1, <2>2, StartAdvances
  <1>10. CASE UNCHANGED vars
    <2>1. UNCHANGED <<seq_len, stranded, layer, chunk, t, raises>>
      BY <1>10 DEF vars, cacheVars, passVars, historyVars
    <2>2. \A l \in Layers : Start(l)' = Start(l)
      BY <2>1 DEF Start, Pending
    <2>3. QED
      BY <2>1, <2>2, StartStays
  <1>11. QED
    BY <1>5, <1>6, <1>7, <1>8, <1>9, <1>10 DEF Next

-----------------------------------------------------------------------------
(* What a layer holds *)

\* A block is once in the table, and not in the free list as well.
LEMMA BlocksApart ==
    ASSUME TypeOK, BlocksOnce, NEW l \in Layers
    PROVE  /\ \A i, j \in 1 .. Len(block_table[l]) :
                  block_table[l][i] = block_table[l][j] => i = j
           /\ \A i \in 1 .. Len(free_blocks[l]), j \in 1 .. Len(block_table[l]) :
                  free_blocks[l][i] # block_table[l][j]
  <1> DEFINE f == free_blocks[l]
             m == block_table[l]
             c == f \o m
  <1>1. f \in Seq(Blocks) /\ Len(f) \in Nat /\ m \in Seq(Blocks) /\ Len(m) \in Nat
    BY LayerTypes
  <1>2. IsInjective(c)
    BY DEF BlocksOnce
  <1> HIDE DEF f, m
  <1>3. /\ c \in Seq(Blocks) /\ Len(c) = Len(f) + Len(m)
        /\ \A i \in 1 .. Len(f) : c[i] = f[i]
        /\ \A i \in 1 .. Len(m) : c[Len(f) + i] = m[i]
    BY <1>1, ConcatAt
  <1> HIDE DEF c
  <1>4. \A i, j \in 1 .. Len(c) : c[i] = c[j] => i = j
    BY <1>2, <1>3 DEF IsInjective
  <1>5. ASSUME NEW i \in 1 .. Len(m), NEW j \in 1 .. Len(m), m[i] = m[j]
        PROVE  i = j
    <2>1. /\ Len(f) + i \in 1 .. Len(c) /\ Len(f) + j \in 1 .. Len(c)
          /\ c[Len(f) + i] = c[Len(f) + j]
      BY <1>1, <1>3, <1>5
    <2>2. Len(f) + i = Len(f) + j
      BY <1>4, <2>1
    <2>3. QED
      BY <1>1, <2>2
  <1>6. ASSUME NEW i \in 1 .. Len(f), NEW j \in 1 .. Len(m), f[i] = m[j]
        PROVE  FALSE
    <2>1. /\ i \in 1 .. Len(c) /\ Len(f) + j \in 1 .. Len(c) /\ i # Len(f) + j
          /\ c[i] = c[Len(f) + j]
      BY <1>1, <1>3, <1>6
    <2>2. QED
      BY <1>4, <2>1
  <1>7. QED
    BY <1>5, <1>6 DEF f, m

\* A layer holds seq_len tokens, each in a slot of a block of its table.
LEMMA GatherFacts ==
    ASSUME TypeOK, BlocksAddUp, CountersAgree, NEW l \in Layers
    PROVE  /\ Gather(l) \in Seq(Stored)
           /\ Len(Gather(l)) = seq_len[l]
           /\ \A i \in 1 .. seq_len[l] :
                 /\ (i - 1) \div BlockSize + 1 \in 1 .. Len(block_table[l])
                 /\ block_table[l][(i - 1) \div BlockSize + 1] \in Blocks
                 /\ (i - 1) % BlockSize \in Slots
                 /\ Gather(l)[i] = pool[l][block_table[l][(i - 1) \div BlockSize + 1]]
                                              [(i - 1) % BlockSize]
  <1> DEFINE k == Len(block_table[l])
             g(i) == pool[l][block_table[l][(i - 1) \div BlockSize + 1]][(i - 1) % BlockSize]
  <1>1. /\ seq_len[l] \in Nat /\ k * BlockSize \in Nat /\ seq_len[l] <= k * BlockSize
        /\ k \in Nat /\ tail_offset[l] \in 0 .. BlockSize
        /\ block_table[l] \in Seq(Blocks)
    BY LengthBound, LayerTypes
  <1>2. Gather(l) = [i \in 1 .. seq_len[l] |-> g(i)]
    <2>1. (IF seq_len[l] < k * BlockSize THEN seq_len[l] ELSE k * BlockSize) = seq_len[l]
      BY <1>1
    <2> HIDE DEF g
    <2>2. QED
      BY <2>1 DEF Gather, g
  <1>3. ASSUME NEW i \in 1 .. seq_len[l]
        PROVE  /\ (i - 1) \div BlockSize + 1 \in 1 .. k
               /\ (i - 1) % BlockSize \in Slots
    <2> DEFINE o == tail_offset[l]
    <2>1. seq_len[l] # 0
      BY <1>1
    <2>2. o > 0 /\ seq_len[l] = (k - 1) * BlockSize + o
      BY <2>1 DEF CountersAgree
    <2>3. k \in Nat \ {0}
      <3>1. ASSUME k = 0
            PROVE  FALSE
        <4> HIDE DEF k
        <4>1. k * BlockSize = 0
          BY <3>1, CacheSizesAssumption
        <4>2. QED
          BY <1>1, <2>1, <4>1
      <3> HIDE DEF k
      <3>2. QED
        BY <1>1, <3>1
    <2>4. o \in 1 .. BlockSize
      BY <1>1, <2>2
    <2> HIDE DEF o, k
    <2>5. i - 1 \in 0 .. (k - 1) * BlockSize + o - 1
      <3> DEFINE w == (k - 1) * BlockSize
      <3>1. w \in Int
        BY <2>3, CacheSizesAssumption
      <3> HIDE DEF w
      <3>2. i - 1 \in 0 .. w + o - 1
        BY <2>2, <2>4, <3>1 DEF w
      <3>3. QED
        BY <3>2 DEF w
    <2>6. /\ (i - 1) \div BlockSize \in 0 .. k - 1
          /\ (i - 1) % BlockSize \in Slots
      BY <2>3, <2>4, <2>5, TokenPlace
    <2>7. QED
      BY <1>1, <2>6
  <1>4. ASSUME NEW i \in 1 .. seq_len[l]
        PROVE  block_table[l][(i - 1) \div BlockSize + 1] \in Blocks /\ g(i) \in Stored
    <2>1. block_table[l][(i - 1) \div BlockSize + 1] \in Blocks
      BY <1>1, <1>3
    <2>2. QED
      BY <1>3, <2>1 DEF TypeOK
  <1> HIDE DEF g
  <1>5. Gather(l) \in Seq(Stored) /\ Len(Gather(l)) = seq_len[l]
    <2>1. Gather(l) \in [1 .. seq_len[l] -> Stored]
      BY <1>2, <1>4
    <2>2. QED
      BY <1>1, <2>1
  <1>6. \A i \in 1 .. seq_len[l] : Gather(l)[i] = g(i)
    BY <1>2
  <1>7. QED
    BY <1>3, <1>4, <1>5, <1>6 DEF g

\* A write leaves every token a layer holds where it is.
LEMMA WriteKeeps ==
    ASSUME TypeOK, BlocksAddUp, BlocksOnce, CountersAgree,
           WriteInTail \/ WriteInNewBlock,
           NEW i \in 1 .. seq_len[layer]
    PROVE  LET b == block_table[layer][(i - 1) \div BlockSize + 1]
               s == (i - 1) % BlockSize
           IN  /\ block_table'[layer][(i - 1) \div BlockSize + 1] = b
               /\ pool'[layer][b][s] = pool[layer][b][s]
  <1> DEFINE q == (i - 1) \div BlockSize
             s == (i - 1) % BlockSize
             m == block_table[layer]
             b == m[q + 1]
  <1>1. layer \in Layers /\ t < Len(chunk)
    BY AtLayer DEF WriteInTail, WriteInNewBlock
  <1>2. m \in Seq(Blocks) /\ Len(m) \in Nat /\ seq_len[layer] \in Nat
    BY <1>1, LayerTypes
  <1>3. q + 1 \in 1 .. Len(m) /\ b \in Blocks /\ s \in Slots
    BY <1>1, GatherFacts
  <1>4. PICK block \in Blocks, slot \in Slots :
              /\ Write(block, slot)
              /\ block_table'[layer] # <<>>
              /\ Last(block_table'[layer]) = block
              /\ seq_len[layer] = (Len(block_table'[layer]) - 1) * BlockSize + slot
              /\ WriteInTail => slot # 0 /\ block_table' = block_table
              /\ WriteInNewBlock => /\ free_blocks[layer] # <<>>
                                    /\ block = Last(free_blocks[layer])
                                    /\ block_table'[layer] = Append(m, block)
    BY WriteFacts
  <1>5. pool'[layer][b][s] = IF b = block /\ s = slot THEN chunk[t + 1] ELSE pool[layer][b][s]
    <2> HIDE DEF b, s
    <2>1. QED
      BY <1>1, <1>3, <1>4, WriteEffect
  <1>6. CASE WriteInTail
    <2>1. ASSUME b = block
          PROVE  s # slot
      <3>1. Len(m) \in Nat \ {0} /\ block = m[Len(m)] /\ Len(m) \in 1 .. Len(m)
        BY <1>2, <1>4, <1>6, EmptySeq DEF Last
      <3>2. q + 1 = Len(m)
        <4>1. \A x, y \in 1 .. Len(m) : m[x] = m[y] => x = y
          BY <1>1, BlocksApart
        <4> HIDE DEF m, q
        <4>2. m[q + 1] = m[Len(m)]
          BY <2>1, <3>1
        <4>3. QED
          BY <1>3, <3>1, <4>1, <4>2
      <3>3. slot \in 1 .. BlockSize
        BY <1>4, <1>6, CacheSizesAssumption DEF Slots
      <3>4. i - 1 \in 0 .. (Len(m) - 1) * BlockSize + slot - 1
        <4> DEFINE w == (Len(m) - 1) * BlockSize
        <4>1. w \in Int
          BY <3>1, CacheSizesAssumption
        <4>2. seq_len[layer] = w + slot
          BY <1>4, <1>6
        <4> HIDE DEF w
        <4>3. i - 1 \in 0 .. w + slot - 1
          BY <1>2, <3>3, <4>1, <4>2
        <4>4. QED
          BY <4>3 DEF w
      <3>5. q = Len(m) - 1 => s < slot
        BY <3>1, <3>3, <3>4, TokenPlace
      <3>6. q \in Int /\ s \in Int
        <4>1. i - 1 \in Nat
          BY <1>2
        <4> HIDE DEF q, s
        <4>2. s \in Int
          BY <1>3 DEF Slots
        <4>3. q \in Int
          BY <4>1, Division DEF q
        <4>4. QED
          BY <4>2, <4>3
      <3> HIDE DEF q, s, m
      <3>7. QED
        BY <3>1, <3>2, <3>3, <3>5, <3>6
    <2>2. QED
      BY <1>4, <1>5, <1>6, <2>1
  <1>7. CASE WriteInNewBlock
    <2> DEFINE f == free_blocks[layer]
    <2>1. f \in Seq(Blocks) /\ f # <<>>
      BY <1>1, <1>4, <1>7, LayerTypes
    <2>2. Len(f) \in 1 .. Len(f) /\ block = f[Len(f)]
      BY <1>4, <1>7, <2>1, EmptySeq DEF Last
    <2>3. b # block
      <3>1. \A x \in 1 .. Len(f), y \in 1 .. Len(m) : f[x] # m[y]
        BY <1>1, BlocksApart
      <3> HIDE DEF f, m, q
      <3>2. QED
        BY <1>3, <2>2, <3>1
    <2>4. block_table'[layer][q + 1] = b
      <3>1. block_table'[layer] = Append(m, block)
        BY <1>4, <1>7
      <3> HIDE DEF m, q
      <3>2. QED
        BY <1>2, <1>3, <3>1, AppendProperties
    <2>5. QED
      BY <1>5, <2>3, <2>4
  <1>8. QED
    BY <1>6, <1>7

\* GatherFacts as one state predicate, which the steps below use of two states.
GatherOK == \A l \in Layers :
    /\ Gather(l) \in Seq(Stored)
    /\ Len(Gather(l)) = seq_len[l]
    /\ \A i \in 1 .. seq_len[l] :
          Gather(l)[i] = pool[l][block_table[l][(i - 1) \div BlockSize + 1]]
                                   [(i - 1) % BlockSize]

LEMMA GatherHolds == TypeOK /\ BlocksAddUp /\ CountersAgree => GatherOK
  BY GatherFacts DEF GatherOK

\* A write adds one token of the chunk at the end of what its layer holds, and
\* touches no other layer.
LEMMA GatherWrite ==
    ASSUME TypeOK, BlocksAddUp, BlocksOnce, CountersAgree,
           TypeOK', BlocksAddUp', CountersAgree',
           WriteInTail \/ WriteInNewBlock
    PROVE  /\ \A l \in Layers \ {layer} : Gather(l)' = Gather(l)
           /\ Gather(layer) \in Seq(Stored) /\ Len(Gather(layer)) = seq_len[layer]
           /\ Gather(layer)' = Append(Gather(layer), chunk[t + 1])
           /\ Len(Gather(layer)') = seq_len[layer] + 1
           /\ chunk[t + 1] \in Values
  <1> DEFINE n == seq_len[layer]
             g == Gather(layer)
             h == Gather(layer)'
             a == Append(g, chunk[t + 1])
  <1>1. layer \in Layers /\ t < Len(chunk) /\ layer' = layer
    BY AtLayer DEF WriteInTail, WriteInNewBlock
  <1>2. PICK block \in Blocks, slot \in Slots :
              /\ Write(block, slot)
              /\ block_table'[layer] # <<>>
              /\ block_table'[layer] \in Seq(Blocks)
              /\ Last(block_table'[layer]) = block
              /\ n = (Len(block_table'[layer]) - 1) * BlockSize + slot
              /\ WriteInTail => block_table' = block_table
    BY WriteFacts
  <1>3. /\ \A l \in Layers \ {layer} : pool'[l] = pool[l]
        /\ \A b \in Blocks, s \in Slots : pool'[layer][b][s] =
              IF b = block /\ s = slot THEN chunk[t + 1] ELSE pool[layer][b][s]
        /\ \A l \in Layers : seq_len'[l] =
              IF l = layer THEN seq_len[layer] + 1 ELSE seq_len[l]
        /\ chunk[t + 1] \in Values
    BY <1>1, <1>2, WriteEffect
  <1>4. \A l \in Layers \ {layer} : block_table'[l] = block_table[l]
    BY <1>2, NewBlockEffect
  <1>5. \A l \in Layers \ {layer} : Gather(l)' = Gather(l)
    BY <1>3, <1>4 DEF Gather
  <1>6. GatherOK /\ GatherOK'
    BY GatherHolds, PTL
  <1>7. /\ g \in Seq(Stored) /\ Len(g) = n /\ n \in Nat
        /\ \A i \in 1 .. n :
              g[i] = pool[layer][block_table[layer][(i - 1) \div BlockSize + 1]]
                                   [(i - 1) % BlockSize]
    BY <1>1, <1>6, LayerTypes DEF GatherOK
  <1>8. /\ h \in Seq(Stored) /\ Len(h) = n + 1
        /\ \A i \in 1 .. n + 1 :
              h[i] = pool'[layer][block_table'[layer][(i - 1) \div BlockSize + 1]]
                                   [(i - 1) % BlockSize]
    BY <1>1, <1>3, <1>6 DEF GatherOK
  <1> HIDE DEF g, h
  <1>9. /\ a \in Seq(Stored) /\ Len(a) = n + 1
        /\ \A i \in 1 .. n : a[i] = g[i]
        /\ a[n + 1] = chunk[t + 1]
    BY <1>3, <1>7, AppendProperties DEF Stored
  <1> HIDE DEF a
  <1>10. ASSUME NEW i \in 1 .. n
         PROVE  h[i] = a[i]
    <2>1. /\ block_table'[layer][(i - 1) \div BlockSize + 1]
                = block_table[layer][(i - 1) \div BlockSize + 1]
          /\ pool'[layer][block_table[layer][(i - 1) \div BlockSize + 1]]
                         [(i - 1) % BlockSize]
                = pool[layer][block_table[layer][(i - 1) \div BlockSize + 1]]
                             [(i - 1) % BlockSize]
      BY WriteKeeps
    <2>2. i \in 1 .. n + 1
      BY <1>7
    <2>3. QED
      BY <1>7, <1>8, <1>9, <2>1, <2>2
  <1>11. h[n + 1] = a[n + 1]
    <2> DEFINE m == block_table'[layer]
               w == Len(m) - 1
    <2>1. /\ Len(m) \in Nat \ {0} /\ w \in Nat /\ w + 1 = Len(m)
          /\ block = m[Len(m)]
      BY <1>2, EmptySeq DEF Last
    <2>2. n = w * BlockSize + slot
      BY <1>2
    <2> HIDE DEF m, w
    <2>3. n \div BlockSize = w /\ n % BlockSize = slot
      BY <2>1, <2>2, DivisionUnique
    <2>4. n + 1 \in 1 .. n + 1 /\ (n + 1) - 1 = n
      BY <1>7
    <2>5. h[n + 1] = pool'[layer][m[((n + 1) - 1) \div BlockSize + 1]]
                                    [((n + 1) - 1) % BlockSize]
      BY <1>8, <2>4 DEF m
    <2>6. h[n + 1] = pool'[layer][block][slot]
      BY <2>1, <2>3, <2>4, <2>5
    <2>7. QED
      BY <1>3, <1>9, <2>6
  <1>12. h = a
    <2>1. ASSUME NEW i \in 1 .. n + 1
          PROVE  h[i] = a[i]
      <3>1. i \in 1 .. n \/ i = n + 1
        BY <1>7
      <3>2. QED
        BY <1>10, <1>11, <3>1
    <2>2. QED
      BY <1>8, <1>9, <2>1, SeqEqual
  <1>13. QED
    BY <1>3, <1>5, <1>7, <1>8, <1>12 DEF g, h, a

\* A layer holds at least what it has written in this pass and what is stranded.
LEMMA HoldsPending ==
    ASSUME TypeOK, Staggered, NEW l \in Layers
    PROVE  seq_len[l] - (stranded[l] + (IF l = layer THEN t ELSE 0)) \in 0 .. seq_len[l]
  <1>1. /\ Pending(l) \in Nat /\ stranded[l] \in Nat /\ seq_len[l] \in Nat
        /\ Start(l) \in Nat
        /\ seq_len[l] = Start(l) + Pending(l) + stranded[l]
    BY StartFacts
  <1>2. t \in Nat /\ layer \in Nat
    BY ChunkFacts, CacheSizesAssumption DEF TypeOK
  <1>3. CASE l = layer
    <2>1. Pending(l) = t
      BY <1>2, <1>3 DEF Pending
    <2>2. QED
      BY <1>1, <1>2, <1>3, <2>1
  <1>4. CASE l # layer
    BY <1>1, <1>4
  <1>5. QED
    BY <1>3, <1>4

\* The written part of the chunk stays at the end of what the layer holds.
LEMMA PendingStep ==
    ASSUME TypeOK, BlocksAddUp, BlocksOnce, CountersAgree, Staggered, PendingHeld,
           TypeOK', BlocksAddUp', CountersAgree', [Next]_vars
    PROVE  PendingHeld'
  <1>1. CASE (\E new \in Chunks : BeginForward(new)) \/ AppendReturns
    <2>1. t' = 0
      BY <1>1 DEF BeginForward, AppendReturns
    <2>2. QED
      BY <2>1 DEF PendingHeld
  <1>2. CASE WriteInTail \/ WriteInNewBlock
    <2> DEFINE n == seq_len[layer]
               g == Gather(layer)
    <2>1. /\ layer \in Layers /\ t < Len(chunk)
          /\ layer' = layer /\ chunk' = chunk
      BY <1>2, AtLayer DEF WriteInTail, WriteInNewBlock
    <2>2. PICK block \in Blocks, slot \in Slots : Write(block, slot)
      BY <1>2, WriteFacts
    <2>3. t' = t + 1 /\ seq_len'[layer] = n + 1
      BY <2>1, <2>2, WriteEffect
    <2>4. /\ g \in Seq(Stored) /\ Len(g) = n
          /\ Gather(layer)' = Append(g, chunk[t + 1])
          /\ chunk[t + 1] \in Values
      BY <1>2, GatherWrite
    <2>5. /\ t \in Nat /\ n \in Nat /\ t <= n
      <3>1. /\ n - (stranded[layer] + t) \in 0 .. n
            /\ stranded[layer] \in Nat /\ n \in Nat
        BY <2>1, HoldsPending, LayerTypes
      <3>2. t \in Nat
        BY ChunkFacts DEF TypeOK
      <3> HIDE DEF n
      <3>3. QED
        BY <3>1, <3>2
    <2>6. \A i \in 1 .. t : g[n - t + i] = chunk[i]
      BY <2>1 DEF PendingHeld
    <2> HIDE DEF n, g
    <2>8. /\ \A i \in 1 .. n : Append(g, chunk[t + 1])[i] = g[i]
          /\ Append(g, chunk[t + 1])[n + 1] = chunk[t + 1]
      BY <2>4, AppendProperties DEF Stored
    <2>9. ASSUME NEW i \in 1 .. t + 1
          PROVE  Append(g, chunk[t + 1])[(n + 1) - (t + 1) + i] = chunk[i]
      <3>1. CASE i <= t
        <4> DEFINE j == n - t + i
        <4>1. j \in 1 .. n /\ (n + 1) - (t + 1) + i = j /\ i \in 1 .. t
          BY <2>5, <3>1
        <4>2. g[j] = chunk[i]
          BY <2>6, <4>1
        <4> HIDE DEF j
        <4>3. QED
          BY <2>8, <4>1, <4>2
      <3>2. CASE i = t + 1
        <4> DEFINE j == (n + 1) - (t + 1) + i
        <4>1. j = n + 1
          BY <2>5, <3>2
        <4> HIDE DEF j
        <4>2. Append(g, chunk[t + 1])[j] = chunk[i]
          BY <2>8, <3>2, <4>1, Zenon
        <4>3. QED
          BY <4>2 DEF j
      <3>3. i <= t \/ i = t + 1
        BY <2>5
      <3>4. QED
        BY <3>1, <3>2, <3>3, Zenon
    <2>10. QED
      BY <2>1, <2>3, <2>4, <2>9 DEF PendingHeld
  <1>3. CASE Exhausted \/ PassRaises
    <2>1. layer' \notin Layers
      BY <1>3, CacheSizesAssumption DEF Exhausted, PassRaises, Layers
    <2>2. QED
      BY <2>1 DEF PendingHeld
  <1>4. CASE UNCHANGED vars
    <2>1. UNCHANGED <<pool, block_table, seq_len, chunk, layer, t>>
      BY <1>4 DEF vars, cacheVars, passVars
    <2>2. \A l : Gather(l)' = Gather(l)
      BY <2>1 DEF Gather
    <2>3. QED
      BY <2>1, <2>2 DEF PendingHeld
  <1>5. QED
    BY <1>1, <1>2, <1>3, <1>4 DEF Next

-----------------------------------------------------------------------------
(* The invariant is inductive *)

\* The fresh free list holds every block once.
LEMMA InitBlocks == Init => BlocksAddUp /\ BlocksOnce
  <1> SUFFICES ASSUME Init, NEW l \in Layers
               PROVE  /\ Len(free_blocks[l]) + Len(block_table[l]) = MaxBlocks
                      /\ IsInjective(free_blocks[l] \o block_table[l])
                      /\ ToSet(free_blocks[l] \o block_table[l]) = Blocks
    BY DEF BlocksAddUp, BlocksOnce
  <1> DEFINE f == [i \in 1 .. MaxBlocks |-> i - 1]
             c == f \o <<>>
  <1>1. free_blocks[l] = f /\ block_table[l] = <<>>
    BY DEF Init
  <1>2. f \in Seq(Blocks) /\ Len(f) = MaxBlocks
    BY CacheSizesAssumption DEF Blocks
  <1>3. \A i \in 1 .. MaxBlocks : f[i] = i - 1
    OBVIOUS
  <1> HIDE DEF f
  <1>4. c = f
    BY <1>2
  <1>5. IsInjective(f)
    <2>1. DOMAIN f = 1 .. MaxBlocks
      BY <1>2
    <2>2. \A i, j \in 1 .. MaxBlocks : f[i] = f[j] => i = j
      BY <1>3, CacheSizesAssumption
    <2>3. QED
      BY <2>1, <2>2 DEF IsInjective
  <1>6. ToSet(f) = Blocks
    <2>1. ASSUME NEW x
          PROVE  x \in ToSet(f) <=> \E i \in 1 .. MaxBlocks : f[i] = x
      BY <1>2, InList
    <2>2. ASSUME NEW x \in Blocks
          PROVE  x \in ToSet(f)
      <3>1. x + 1 \in 1 .. MaxBlocks /\ f[x + 1] = x
        BY <1>3, CacheSizesAssumption DEF Blocks
      <3>2. QED
        BY <2>1, <3>1
    <2>3. ASSUME NEW x, x \in ToSet(f)
          PROVE  x \in Blocks
      BY <1>3, <2>1, <2>3, CacheSizesAssumption DEF Blocks
    <2>4. QED
      BY <2>2, <2>3
  <1>7. QED
    BY <1>1, <1>2, <1>4, <1>5, <1>6, CacheSizesAssumption

LEMMA InitIInv == Init => IInv
  <1> SUFFICES ASSUME Init
               PROVE  IInv
    OBVIOUS
  <1>1. TypeOK /\ PassHasTokens /\ BlocksAddUp /\ BlocksOnce
    BY InitType, InitBlocks
  <1>2. CountersAgree
    BY DEF Init, CountersAgree
  <1>3. Staggered
    <2>1. \A l \in Layers : Pending(l) = 0
      BY CacheSizesAssumption DEF Init, Pending, Layers
    <2>2. \A l \in Layers : Start(l) = 0
      BY <2>1 DEF Init, Start
    <2>3. 0 \in Layers /\ \A l \in Layers \ {0} : l - 1 \in Layers
      BY CacheSizesAssumption DEF Layers
    <2>4. QED
      BY <2>2, <2>3 DEF Staggered
  <1>4. OnlyLayerZeroRaises /\ PendingHeld
    BY DEF Init, OnlyLayerZeroRaises, PendingHeld
  <1>5. QED
    BY <1>1, <1>2, <1>3, <1>4 DEF IInv

LEMMA IInvStep == IInv /\ [Next]_vars => IInv'
  <1> SUFFICES ASSUME IInv, [Next]_vars
               PROVE  IInv'
    OBVIOUS
  <1>1. /\ TypeOK /\ PassHasTokens /\ BlocksAddUp /\ BlocksOnce /\ CountersAgree
        /\ Staggered /\ OnlyLayerZeroRaises /\ PendingHeld
    BY DEF IInv
  <1>2. TypeOK' /\ PassHasTokens'
    BY <1>1, TypeStep
  <1>3. BlocksAddUp' /\ BlocksOnce' /\ CountersAgree'
    BY <1>1, BlocksStep, CountersStep
  <1>4. Staggered' /\ OnlyLayerZeroRaises'
    BY <1>1, StaggeredStep, RaiseStep
  <1>5. PendingHeld'
    BY <1>1, <1>2, <1>3, PendingStep
  <1>6. QED
    BY <1>2, <1>3, <1>4, <1>5 DEF IInv

-----------------------------------------------------------------------------
(* The theorems *)

\* The inductive invariant holds in every reachable state, for any number of
\* layers, any pool and block size, and chunks of any length.
THEOREM CacheInvariant == Spec => []IInv
  BY InitIInv, IInvStep, PTL DEF Spec

\* Every block of a layer is in its free list or its table, once.
THEOREM BlocksAreOnce == Spec => []BlocksOnce
  <1>1. IInv => BlocksOnce
    BY DEF IInv
  <1>2. QED
    BY <1>1, CacheInvariant, PTL

\* _tail_offset, _seq_len and the block table of a layer agree at every moment.
THEOREM CountersAlwaysAgree == Spec => []CountersAgree
  <1>1. IInv => CountersAgree
    BY DEF IInv
  <1>2. QED
    BY <1>1, CacheInvariant, PTL

\* append raises only in layer 0, and only when that layer is full.
THEOREM RaisesWhenFull == Spec => []RaisesOnlyWhenFull
  <1>1. IInv => RaisesOnlyWhenFull
    <2> SUFFICES ASSUME IInv, exhausted
                 PROVE  /\ seq_len[0] = MaxBlocks * BlockSize
                        /\ \A l \in Layers \ {0} : stranded[l] = 0
      BY DEF RaisesOnlyWhenFull
    <2>1. /\ TypeOK /\ BlocksAddUp /\ CountersAgree /\ OnlyLayerZeroRaises
      BY DEF IInv
    <2>2. 0 \in Layers /\ free_blocks[0] = <<>> /\ TailFull(0)
      BY <2>1, CacheSizesAssumption DEF OnlyLayerZeroRaises, Layers
    <2>3. seq_len[0] = MaxBlocks * BlockSize
      BY <2>1, <2>2, RaisesFull
    <2>4. QED
      BY <2>1, <2>3 DEF OnlyLayerZeroRaises
  <1>2. QED
    BY <1>1, CacheInvariant, PTL

\* Between two passes layer 0's length stands for every layer's, but for what
\* an append that raised has left there, as long as no pass has raised anywhere
\* else; whatever passes have raised, no layer is ahead of the one before it.
THEOREM LayersInLockstep == Spec => []Lockstep
  <1>1. IInv => Lockstep
    <2> SUFFICES ASSUME IInv, Idle, NEW l \in Layers \ {0}
                 PROVE  /\ raises = 0 => seq_len[l] = seq_len[0] - stranded[0]
                        /\ seq_len[l] <= seq_len[l - 1] - stranded[l - 1]
      BY DEF Lockstep
    <2> DEFINE k == l - 1
    <2>1. TypeOK /\ PassHasTokens /\ Staggered /\ OnlyLayerZeroRaises
      BY DEF IInv
    <2>2. \A m \in Layers : Pending(m) = 0
      BY <2>1, CacheSizesAssumption DEF Pending, Idle, PassHasTokens, Layers
    <2>3. ASSUME NEW m \in Layers
          PROVE  Start(m) = seq_len[m] - stranded[m] /\ Start(m) \in Nat
                 /\ stranded[m] \in Nat /\ seq_len[m] \in Nat
      <3>1. /\ stranded[m] \in Nat /\ seq_len[m] \in Nat /\ Start(m) \in Nat
            /\ seq_len[m] = Start(m) + Pending(m) + stranded[m]
        BY <2>1, StartFacts
      <3>2. QED
        BY <2>2, <3>1
    <2>4. 0 \in Layers /\ k \in Layers /\ stranded[l] = 0
      BY <2>1, CacheSizesAssumption DEF OnlyLayerZeroRaises, Layers
    <2>5. Start(l) <= Start(k) /\ (raises = 0 => Start(l) = Start(0))
      BY <2>1 DEF Staggered
    <2>6. Start(l) = seq_len[l]
      BY <2>3, <2>4
    <2> HIDE DEF k
    <2>7. seq_len[l] <= seq_len[k] - stranded[k]
      BY <2>3, <2>4, <2>5, <2>6
    <2>8. raises = 0 => seq_len[l] = seq_len[0] - stranded[0]
      BY <2>3, <2>4, <2>5, <2>6
    <2>9. QED
      BY <2>7, <2>8 DEF k
  <1>2. QED
    BY <1>1, CacheInvariant, PTL

\* Once an append has raised for want of a block, no later pass writes or
\* returns anything.
THEOREM ExhaustionIsForGood == Spec => ExhaustionIsFinal
  <1>1. IInv /\ [Next]_vars => [exhausted => UNCHANGED <<cacheVars, stranded>>]_vars
    <2> SUFFICES ASSUME IInv, [Next]_vars, exhausted
                 PROVE  UNCHANGED <<cacheVars, stranded>>
      OBVIOUS
    <2>1. TypeOK /\ PassHasTokens /\ OnlyLayerZeroRaises
      BY DEF IInv
    <2>2. ~ WriteInTail /\ ~ WriteInNewBlock /\ ~ AppendReturns
      BY <2>1, AfterFailure
    <2>3. UNCHANGED cacheVars
      BY <2>2, OtherStepsKeepCounters
    <2>4. UNCHANGED stranded
      <3>1. CASE Exhausted
        <4>1. t = 0 /\ stranded' = [stranded EXCEPT ![layer] = @ + t]
          BY <2>1, <3>1 DEF OnlyLayerZeroRaises, Exhausted
        <4>2. \A l \in Layers : stranded[l] + 0 = stranded[l]
          BY <2>1, LayerTypes
        <4>3. QED
          BY <2>1, <3>1, <4>1, <4>2, AtLayer DEF TypeOK, Exhausted
      <3>2. CASE ~ Exhausted
        BY <2>2, <3>2 DEF Next, BeginForward, PassRaises, vars, historyVars
      <3>3. QED
        BY <3>1, <3>2
    <2>5. QED
      BY <2>3, <2>4
  <1>2. QED
    BY <1>1, CacheInvariant, PTL DEF Spec, ExhaustionIsFinal

-----------------------------------------------------------------------------
(* The refinement *)

\* The abstract variable: what each layer has returned.
Kv == [l \in Layers |-> Returned(l)]

\* The tokens of an append that has not returned.
Hidden(l) == stranded[l] + (IF l = layer THEN t ELSE 0)

LEMMA ReturnedIs ==
    ASSUME NEW l
    PROVE  Returned(l) = SubSeq(Gather(l), 1, seq_len[l] - Hidden(l))
  BY DEF Returned, Hidden

\* A layer's tokens and those it hides do not change together with what it
\* has returned: a step that changes neither is invisible.
LEMMA InvisibleStep ==
    ASSUME \A l \in Layers : Returned(l)' = Returned(l)
    PROVE  Kv' = Kv
  BY DEF Kv

LEMMA NaiveInitial == Init => Naive!NaiveInit
  <1> SUFFICES ASSUME Init, NEW l \in Layers
               PROVE  Returned(l) = <<>>
    BY DEF Naive!NaiveInit, Naive!Layers, Layers
  <1>1. seq_len[l] = 0 /\ stranded[l] = 0 /\ layer = NumLayers /\ layer # l
    BY CacheSizesAssumption DEF Init, Layers
  <1>2. seq_len[l] - Hidden(l) = 0
    BY <1>1 DEF Hidden
  <1>3. QED
    BY <1>2, ReturnedIs, SubSeqEmpty

\* The loop of an append is over, and the pass goes on or raises.
LoopOver == /\ t = Len(chunk)
            /\ AppendReturns \/ PassRaises

\* An append whose loop is over has the tokens of its chunk at the end of its
\* layer: the naive cache appends them at that moment.
LEMMA LoopOverAppends ==
    ASSUME IInv, LoopOver, NEW at \in Layers, at = layer
    PROVE  /\ chunk \in Chunks
           /\ Returned(at)' = Returned(at) \o chunk
           /\ \A l \in Layers \ {layer} : Returned(l)' = Returned(l)
  <1>1. /\ TypeOK /\ PassHasTokens /\ BlocksAddUp /\ CountersAgree
        /\ Staggered /\ OnlyLayerZeroRaises /\ PendingHeld
    BY DEF IInv
  <1>2. /\ layer \in Layers /\ ~ Idle /\ t = Len(chunk)
        /\ t' = 0 /\ UNCHANGED <<cacheVars, stranded>>
    BY <1>1, AtLayer DEF LoopOver, AppendReturns, PassRaises, historyVars
  <1>3. \A l \in Layers : l \in Nat
    BY CacheSizesAssumption DEF Layers
  <1>4. \A l \in Layers : Gather(l)' = Gather(l) /\ seq_len'[l] = seq_len[l]
                             /\ stranded'[l] = stranded[l]
    BY <1>2 DEF Gather, cacheVars
  <1>5. stranded[at] = 0
    <2>1. ~ exhausted
      BY <1>1, <1>2, AfterFailure
    <2>2. QED
      BY <1>1, <1>2, <2>1 DEF OnlyLayerZeroRaises
  <1>6. ASSUME NEW l \in Layers
        PROVE  Returned(l)' = SubSeq(Gather(l), 1, seq_len[l] - stranded[l])
    <2>1. stranded[l] \in Nat
      BY <1>1, LayerTypes
    <2>2. (IF l = layer' THEN t' ELSE 0) = 0
      BY <1>2
    <2>3. Hidden(l)' = stranded[l]
      BY <1>4, <2>1, <2>2 DEF Hidden
    <2>4. Returned(l)' = SubSeq(Gather(l)', 1, seq_len'[l] - Hidden(l)')
      BY DEF Returned, Hidden
    <2>5. QED
      BY <1>4, <2>3, <2>4
  <1>7. ASSUME NEW l \in Layers \ {layer}
        PROVE  Returned(l)' = Returned(l)
    <2>1. stranded[l] \in Nat
      BY <1>1, LayerTypes
    <2>2. Hidden(l) = stranded[l]
      BY <2>1 DEF Hidden
    <2>3. QED
      BY <1>6, <2>2, ReturnedIs
  <1>8. Returned(at)' = Returned(at) \o chunk
    <2> DEFINE g == Gather(at)
               n == seq_len[at]
               p == n - t
    <2>1. /\ g \in Seq(Stored) /\ Len(g) = n /\ n \in Nat
      BY <1>1, GatherFacts, LayerTypes
    <2>2. chunk \in Seq(Stored) /\ t \in Nat
      <3>1. chunk \in Seq(Values) /\ Len(chunk) \in Nat
        BY <1>1, ChunkFacts DEF TypeOK
      <3>2. \A i \in 1 .. Len(chunk) : chunk[i] \in Stored
        BY <3>1 DEF Stored
      <3>3. QED
        BY <1>2, <3>1, <3>2
    <2>3. p \in Nat /\ n - Hidden(at) = p
      <3>1. n - (stranded[at] + (IF at = layer THEN t ELSE 0)) \in 0 .. n
        BY <1>1, HoldsPending
      <3>2. Hidden(at) = 0 + t
        BY <1>5 DEF Hidden
      <3> HIDE DEF n
      <3>3. QED
        BY <1>5, <2>1, <2>2, <3>1, <3>2
    <2>4. \A i \in 1 .. Len(chunk) : g[p + i] = chunk[i]
      BY <1>1, <1>2 DEF PendingHeld
    <2>5. Returned(at) = SubSeq(g, 1, p)
      BY <2>3, ReturnedIs
    <2>6. Returned(at)' = SubSeq(g, 1, n)
      <3>1. n - 0 = n
        BY <2>1
      <3>2. QED
        BY <1>2, <1>5, <1>6, <3>1
    <2> HIDE DEF g, p, n
    <2>7. Len(g) = p + Len(chunk)
      BY <1>2, <2>1, <2>2, <2>3 DEF p
    <2>8. SubSeq(g, 1, Len(g)) = SubSeq(g, 1, p) \o chunk
      BY <2>1, <2>2, <2>3, <2>4, <2>7, PrefixAndRest
    <2>9. QED
      BY <2>1, <2>5, <2>6, <2>8
  <1>9. chunk \in Chunks
    BY <1>1, <1>2 DEF TypeOK, PassHasTokens
  <1>10. QED
    BY <1>7, <1>8, <1>9

\* The tokens written by an append that has not returned are hidden.
LEMMA WriteInvisible ==
    ASSUME IInv, IInv', WriteInTail \/ WriteInNewBlock, NEW l \in Layers
    PROVE  Returned(l)' = Returned(l)
  <1>1. /\ TypeOK /\ BlocksAddUp /\ BlocksOnce /\ CountersAgree /\ Staggered
        /\ TypeOK' /\ BlocksAddUp' /\ CountersAgree'
    BY DEF IInv
  <1>2. /\ layer \in Layers /\ t < Len(chunk)
        /\ UNCHANGED <<layer, stranded>>
    BY <1>1, AtLayer DEF WriteInTail, WriteInNewBlock, historyVars
  <1>3. PICK block \in Blocks, slot \in Slots : Write(block, slot)
    BY <1>1, WriteFacts
  <1>4. /\ t' = t + 1
        /\ \A k \in Layers : seq_len'[k] =
              IF k = layer THEN seq_len[layer] + 1 ELSE seq_len[k]
    BY <1>1, <1>2, <1>3, WriteEffect
  <1>5. /\ \A k \in Layers \ {layer} : Gather(k)' = Gather(k)
        /\ Gather(layer) \in Seq(Stored) /\ Len(Gather(layer)) = seq_len[layer]
        /\ Gather(layer)' = Append(Gather(layer), chunk[t + 1])
        /\ chunk[t + 1] \in Values
    BY <1>1, GatherWrite
  <1>6. Returned(l)' = SubSeq(Gather(l)', 1, seq_len'[l] - Hidden(l)')
    BY DEF Returned, Hidden
  <1>7. CASE l # layer
    <2>1. Hidden(l)' = Hidden(l) /\ seq_len'[l] = seq_len[l] /\ Gather(l)' = Gather(l)
      BY <1>2, <1>4, <1>5, <1>7 DEF Hidden
    <2>2. QED
      BY <1>6, <2>1, ReturnedIs
  <1>8. CASE l = layer
    <2> DEFINE g == Gather(layer)
               p == seq_len[layer] - Hidden(layer)
    <2>1. /\ t \in Nat /\ stranded[layer] \in Nat /\ seq_len[layer] \in Nat
      BY <1>1, <1>2, ChunkFacts, LayerTypes DEF TypeOK
    <2>2. Hidden(layer) = stranded[layer] + t /\ Hidden(l)' = stranded[layer] + (t + 1)
      BY <1>2, <1>4, <1>8 DEF Hidden
    <2>3. p \in 0 .. Len(g)
      <3>1. seq_len[l] - (stranded[l] + (IF l = layer THEN t ELSE 0)) \in 0 .. seq_len[l]
        BY <1>1, HoldsPending
      <3> HIDE DEF g
      <3>2. QED
        BY <1>5, <1>8, <2>2, <3>1 DEF g
    <2>4. seq_len'[l] - Hidden(l)' = p
      <3>1. seq_len'[l] = seq_len[layer] + 1
        BY <1>2, <1>4, <1>8
      <3>2. QED
        BY <2>1, <2>2, <3>1
    <2>5. Returned(l)' = SubSeq(Append(g, chunk[t + 1]), 1, p)
      <3>1. Gather(l)' = Append(g, chunk[t + 1])
        BY <1>2, <1>5, <1>8
      <3>2. QED
        BY <1>6, <2>4, <3>1
    <2>6. Returned(l) = SubSeq(g, 1, p)
      BY <1>8, ReturnedIs
    <2>7. chunk[t + 1] \in Stored
      BY <1>5 DEF Stored
    <2> HIDE DEF g, p
    <2>8. SubSeq(Append(g, chunk[t + 1]), 1, p) = SubSeq(g, 1, p)
      BY <1>5, <2>3, <2>7, PrefixOfAppend DEF g
    <2>9. QED
      BY <2>5, <2>6, <2>8
  <1>9. QED
    BY <1>7, <1>8

LEMMA NaiveStep == IInv /\ IInv' /\ [Next]_vars => [Naive!NaiveNext]_Kv
  <1> SUFFICES ASSUME IInv, IInv', [Next]_vars
               PROVE  Naive!NaiveNext \/ Kv' = Kv
    OBVIOUS
  <1>1. TypeOK /\ (\A l \in Layers : /\ l \in Nat /\ l # NumLayers
                                     /\ seq_len[l] \in Nat /\ stranded[l] \in Nat)
    BY LayerTypes, CacheSizesAssumption DEF IInv, Layers
  <1>2. CASE LoopOver
    <2>0. PICK at \in Layers : at = layer
      BY <1>1, <1>2, AtLayer DEF LoopOver, AppendReturns, PassRaises
    <2>1. /\ chunk \in Chunks
          /\ Returned(at)' = Returned(at) \o chunk
          /\ \A l \in Layers \ {at} : Returned(l)' = Returned(l)
      BY <1>2, <2>0, LoopOverAppends
    <2>2. Kv' = [Kv EXCEPT ![at] = @ \o chunk]
      <3>1. /\ Kv' = [l \in Layers |-> Returned(l)']
            /\ Kv = [l \in Layers |-> Returned(l)]
        BY DEF Kv
      <3>2. Kv[at] = Returned(at)
        BY <3>1
      <3>3. \A l \in Layers :
              Returned(l)' = IF l = at THEN Kv[at] \o chunk ELSE Returned(l)
        BY <2>1, <3>2
      <3>4. [Kv EXCEPT ![at] = @ \o chunk]
                = [l \in Layers |-> IF l = at THEN Kv[at] \o chunk ELSE Returned(l)]
        BY <3>1
      <3>5. QED
        BY <3>1, <3>3, <3>4
    <2>3. Naive!LayerAppend(at, chunk)
      BY <2>2 DEF Naive!LayerAppend, Kv
    <2>4. Layers = Naive!Layers /\ Chunks = Naive!Chunks
      BY DEF Layers, Naive!Layers, Chunks, Naive!Chunks
    <2>5. QED
      BY <2>1, <2>3, <2>4 DEF Naive!NaiveNext
  <1>3. CASE WriteInTail \/ WriteInNewBlock
    BY <1>3, WriteInvisible, InvisibleStep
  <1>4. ASSUME NEW new \in Chunks, BeginForward(new)
        PROVE  Kv' = Kv
    <2>1. /\ layer = NumLayers /\ t' = 0
          /\ UNCHANGED <<pool, block_table, seq_len, stranded>>
      BY <1>4 DEF BeginForward, Idle, cacheVars, historyVars
    <2>2. \A l \in Layers : Hidden(l)' = Hidden(l)
      BY <1>1, <2>1 DEF Hidden
    <2>3. \A l \in Layers : Gather(l)' = Gather(l) /\ seq_len'[l] = seq_len[l]
      BY <2>1 DEF Gather
    <2>4. \A l \in Layers : Returned(l)' = SubSeq(Gather(l)', 1, seq_len'[l] - Hidden(l)')
      BY DEF Returned, Hidden
    <2>5. QED
      BY <2>2, <2>3, <2>4, ReturnedIs, InvisibleStep
  <1>5. CASE Exhausted
    <2>1. /\ layer \in Layers /\ layer' = NumLayers /\ t' = 0
          /\ stranded' = [stranded EXCEPT ![layer] = @ + t]
          /\ UNCHANGED <<pool, block_table, seq_len>>
      BY <1>1, <1>5, AtLayer DEF Exhausted, cacheVars
    <2>2. t \in Nat
      BY <1>1, ChunkFacts DEF TypeOK
    <2>3. ASSUME NEW l \in Layers
          PROVE  Hidden(l)' = Hidden(l)
      <3>1. CASE l = layer
        <4>1. stranded'[l] = stranded[l] + t
          BY <1>1, <2>1, <3>1 DEF TypeOK
        <4>2. QED
          BY <1>1, <2>1, <2>2, <3>1, <4>1 DEF Hidden
      <3>2. CASE l # layer
        <4>1. stranded'[l] = stranded[l]
          BY <1>1, <2>1, <3>2 DEF TypeOK
        <4>2. QED
          BY <1>1, <2>1, <3>2, <4>1 DEF Hidden
      <3>3. QED
        BY <3>1, <3>2
    <2>4. \A l \in Layers : Gather(l)' = Gather(l) /\ seq_len'[l] = seq_len[l]
      BY <2>1 DEF Gather
    <2>5. \A l \in Layers : Returned(l)' = SubSeq(Gather(l)', 1, seq_len'[l] - Hidden(l)')
      BY DEF Returned, Hidden
    <2>6. QED
      BY <2>3, <2>4, <2>5, ReturnedIs, InvisibleStep
  <1>6. CASE PassRaises /\ t = 0
    <2>1. /\ layer' = NumLayers /\ t' = 0
          /\ UNCHANGED <<pool, block_table, seq_len, stranded>>
      BY <1>6 DEF PassRaises, cacheVars
    <2>2. \A l \in Layers : Hidden(l)' = Hidden(l)
      BY <1>1, <1>6, <2>1 DEF Hidden
    <2>3. \A l \in Layers : Gather(l)' = Gather(l) /\ seq_len'[l] = seq_len[l]
      BY <2>1 DEF Gather
    <2>4. \A l \in Layers : Returned(l)' = SubSeq(Gather(l)', 1, seq_len'[l] - Hidden(l)')
      BY DEF Returned, Hidden
    <2>5. QED
      BY <2>2, <2>3, <2>4, ReturnedIs, InvisibleStep
  <1>7. CASE UNCHANGED vars
    BY <1>7 DEF Kv, Returned, Gather, vars, cacheVars, passVars, historyVars
  <1>8. /\ AppendReturns => LoopOver
        /\ PassRaises => LoopOver \/ t = 0
    BY DEF LoopOver, AppendReturns, PassRaises
  <1>9. QED
    BY <1>2, <1>3, <1>4, <1>5, <1>6, <1>7, <1>8 DEF Next

\* The paged cache implements the naive one: what append returns for a layer
\* is everything that was appended to that layer, in order, whatever blocks and
\* slots it went through.
THEOREM PagedImplementsNaive == Spec => ImplementsNaive
  <1>1. Naive!NaiveSpec <=> Naive!NaiveInit /\ [][Naive!NaiveNext]_Kv
    BY DEF Naive!NaiveSpec, Kv
  <1>2. QED
    BY <1>1, NaiveInitial, NaiveStep, CacheInvariant, PTL DEF Spec, ImplementsNaive

=============================================================================
