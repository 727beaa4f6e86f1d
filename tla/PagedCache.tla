------------------------------ MODULE PagedCache ------------------------------
(***************************************************************************)
(* The paged KV-cache of one sequence, kvcache/paged_cache.py, driven by   *)
(* the forward passes of model.forward_with_cache.                         *)
(*                                                                         *)
(* Each layer has a private pool of fixed-size blocks.  A forward pass     *)
(* appends the same number of tokens to every layer, one layer after the   *)
(* other, and append writes the tokens one at a time: each turn of its     *)
(* loop is one action here, because it can raise in any turn and leaves    *)
(* behind what the earlier turns and the earlier layers have written.      *)
(* Whatever allocates tensors can raise for want of memory: the gather,    *)
(* and all of a layer before and after its append.                         *)
(* A caller that survives the exception (the server's handler loop does)   *)
(* keeps the cache and can start another pass on it.                       *)
(***************************************************************************)
EXTENDS Integers, Sequences, SequencesExt

CONSTANTS
    NumLayers,      \* decoder layers of the model
    MaxBlocks,      \* max_blocks: blocks in the pool of one layer
    BlockSize,      \* block_size: tokens held by one block
    Values,         \* what the K/V of one token can be
    Zero,           \* what torch.zeros puts in a slot
    MaxChunk,       \* bound: tokens in one forward pass
    MaxRaises       \* bound: passes that raise for want of memory

ASSUME CacheSizesAssumption ==
    /\ NumLayers \in Nat \ {0}
    /\ MaxBlocks \in Nat
    /\ BlockSize \in Nat \ {0}
    /\ Zero \notin Values
    /\ MaxChunk \in Nat
    /\ MaxRaises \in Nat

Layers == 0 .. NumLayers - 1
Blocks == 0 .. MaxBlocks - 1
Slots == 0 .. BlockSize - 1
Chunks == UNION {[1 .. n -> Values] : n \in 1 .. MaxChunk}

VARIABLES
    pool,           \* key_pool and val_pool of each layer
    free_blocks,    \* _free_blocks of each layer; blocks leave at its end
    block_table,    \* block_table of each layer
    tail_offset,    \* _tail_offset of each layer
    seq_len,        \* _seq_len of each layer
    layer,          \* the layer whose append runs, NumLayers between passes
    chunk,          \* the new tokens of the pass that runs
    t,              \* how many of them this append has written
    stranded,       \* history: tokens written by an append that then raised
    exhausted,      \* history: append has raised, its pool being exhausted
    raises          \* history: passes that have raised for want of memory

cacheVars == <<pool, free_blocks, block_table, tail_offset, seq_len>>
passVars == <<layer, chunk, t>>
historyVars == <<stranded, exhausted, raises>>
vars == <<cacheVars, passVars, historyVars>>

Idle == layer = NumLayers

-----------------------------------------------------------------------------
(* append *)

\* The next token does not go into the block at the end of the table.
TailFull(l) == tail_offset[l] \in {0, BlockSize}

WriteNoReset(block, slot) ==               \* mutant: the tail is not reset
    /\ pool' = [pool EXCEPT ![layer][block][slot] = chunk[t + 1]]
    /\ tail_offset' = [tail_offset EXCEPT ![layer] = @ + 1]
    /\ seq_len' = [seq_len EXCEPT ![layer] = @ + 1]
    /\ t' = t + 1

\* Token t of the chunk is written, and the counters move on.
Write(block, slot) ==
    /\ pool' = [pool EXCEPT ![layer][block][slot] = chunk[t + 1]]
    /\ tail_offset' = [tail_offset EXCEPT ![layer] = slot + 1]
    /\ seq_len' = [seq_len EXCEPT ![layer] = @ + 1]
    /\ t' = t + 1

\* A turn of the loop in which the tail block has room.
WriteInTail ==
    /\ ~ Idle
    /\ t < Len(chunk)
    /\ ~ TailFull(layer)
    /\ Write(Last(block_table[layer]), tail_offset[layer])
    /\ UNCHANGED <<free_blocks, block_table, layer, chunk, historyVars>>

WriteInNewBlockPeeks ==                    \* mutant: the block is not popped
    /\ ~ Idle
    /\ t < Len(chunk)
    /\ TailFull(layer)
    /\ free_blocks[layer] # <<>>
    /\ block_table' = [block_table EXCEPT ![layer] = Append(@, Last(free_blocks[layer]))]
    /\ Write(Last(free_blocks[layer]), 0)
    /\ UNCHANGED <<free_blocks, layer, chunk, historyVars>>

\* A turn of the loop that takes a block first.
WriteInNewBlock ==
    /\ ~ Idle
    /\ t < Len(chunk)
    /\ TailFull(layer)
    /\ free_blocks[layer] # <<>>
    /\ free_blocks' = [free_blocks EXCEPT ![layer] = Front(@)]
    /\ block_table' = [block_table EXCEPT ![layer] =
                          Append(@, Last(free_blocks[layer]))]
    /\ Write(Last(free_blocks[layer]), 0)
    /\ UNCHANGED <<layer, chunk, historyVars>>

ExhaustedReported ==                       \* mutant: the pass goes on
    /\ ~ Idle
    /\ t < Len(chunk)
    /\ TailFull(layer)
    /\ free_blocks[layer] = <<>>
    /\ layer' = layer + 1
    /\ t' = 0
    /\ chunk' = IF layer' = NumLayers THEN <<>> ELSE chunk
    /\ stranded' = [stranded EXCEPT ![layer] = @ + t]
    /\ exhausted' = TRUE
    /\ UNCHANGED <<cacheVars, raises>>

ExhaustedRollsBack ==                      \* mutant: half a rollback
    /\ ~ Idle
    /\ t < Len(chunk)
    /\ TailFull(layer)
    /\ free_blocks[layer] = <<>>
    /\ layer' = NumLayers
    /\ chunk' = <<>>
    /\ t' = 0
    /\ seq_len' = [seq_len EXCEPT ![layer] = @ - t]
    /\ tail_offset' = [tail_offset EXCEPT ![layer] = (seq_len[layer] - t) % BlockSize]
    /\ exhausted' = TRUE
    /\ UNCHANGED <<pool, free_blocks, block_table, stranded, raises>>

\* _allocate_block raises: the rest of the chunk, and the layers to come, are
\* left out, and what was written stays.
Exhausted ==
    /\ ~ Idle
    /\ t < Len(chunk)
    /\ TailFull(layer)
    /\ free_blocks[layer] = <<>>
    /\ layer' = NumLayers
    /\ chunk' = <<>>
    /\ t' = 0
    /\ stranded' = [stranded EXCEPT ![layer] = @ + t]
    /\ exhausted' = TRUE
    /\ UNCHANGED <<cacheVars, raises>>

-----------------------------------------------------------------------------
(* A forward pass *)

\* forward_with_cache is called with the tokens new.
BeginForward(new) ==
    /\ Idle
    /\ layer' = 0
    /\ chunk' = new
    /\ t' = 0
    /\ UNCHANGED <<cacheVars, historyVars>>

AppendReturnsSkip ==                       \* mutant: every second layer
    /\ ~ Idle
    /\ t = Len(chunk)
    /\ layer' = IF layer + 2 > NumLayers THEN NumLayers ELSE layer + 2
    /\ chunk' = IF layer' = NumLayers THEN <<>> ELSE chunk
    /\ t' = 0
    /\ UNCHANGED <<cacheVars, historyVars>>

\* append returns, and the pass goes on to the next layer.
AppendReturns ==
    /\ ~ Idle
    /\ t = Len(chunk)
    /\ layer' = layer + 1
    /\ chunk' = IF layer' = NumLayers THEN <<>> ELSE chunk
    /\ t' = 0
    /\ UNCHANGED <<cacheVars, historyVars>>

\* The pass raises for want of memory, before an append, in its gather or after
\* it: the layers behind are left out, and those before keep the tokens.  The
\* writes of append go into storage that is there already.
PassRaises ==
    /\ ~ Idle
    /\ t \in {0, Len(chunk)}
    /\ raises < MaxRaises
    /\ raises' = raises + 1
    /\ layer' = NumLayers
    /\ chunk' = <<>>
    /\ t' = 0
    /\ UNCHANGED <<cacheVars, stranded, exhausted>>

-----------------------------------------------------------------------------
(* The specification *)

Init ==
    /\ pool = [l \in Layers |-> [b \in Blocks |-> [s \in Slots |-> Zero]]]
    /\ free_blocks = [l \in Layers |-> [i \in 1 .. MaxBlocks |-> i - 1]]
    /\ block_table = [l \in Layers |-> <<>>]
    /\ tail_offset = [l \in Layers |-> 0]
    /\ seq_len = [l \in Layers |-> 0]
    /\ layer = NumLayers
    /\ chunk = <<>>
    /\ t = 0
    /\ stranded = [l \in Layers |-> 0]
    /\ exhausted = FALSE
    /\ raises = 0

Next ==
    \/ \E new \in Chunks : BeginForward(new)
    \/ WriteInTail
    \/ WriteInNewBlock
    \/ Exhausted
    \/ AppendReturns
    \/ PassRaises

Spec == Init /\ [][Next]_vars

-----------------------------------------------------------------------------
(* What a layer returns *)

GatherPhysical(l) ==                       \* mutant: the pool's own order
    LET room == Len(block_table[l]) * BlockSize
        n == IF seq_len[l] < room THEN seq_len[l] ELSE room
    IN  [i \in 1 .. n |->
            pool[l][(i - 1) \div BlockSize][(i - 1) % BlockSize]]

\* _gather: the blocks of the table one after the other, cut to _seq_len.
Gather(l) ==
    LET room == Len(block_table[l]) * BlockSize
        n == IF seq_len[l] < room THEN seq_len[l] ELSE room
    IN  [i \in 1 .. n |->
            pool[l][block_table[l][(i - 1) \div BlockSize + 1]][(i - 1) % BlockSize]]

-----------------------------------------------------------------------------
(* Properties *)

\* Every block of a layer's pool is in its free list or in its block table,
\* and is there once: no two runs of tokens are written over each other.
BlocksOnce == \A l \in Layers :
    /\ IsInjective(free_blocks[l] \o block_table[l])
    /\ ToSet(free_blocks[l] \o block_table[l]) = Blocks

\* _tail_offset, _seq_len and the block table, counted separately, agree at
\* every moment: there is less than one block of waste, and a layer holds as
\* many blocks as the scheduler's arithmetic bills for its tokens.
CountersAgree == \A l \in Layers :
    \/ seq_len[l] = 0 /\ tail_offset[l] = 0 /\ block_table[l] = <<>>
    \/ /\ tail_offset[l] > 0
       /\ seq_len[l] = (Len(block_table[l]) - 1) * BlockSize + tail_offset[l]

\* append raises only when the layer really holds max_blocks * block_size
\* tokens, and it is always the first layer of the model that raises, whatever
\* passes that raised elsewhere have left behind: the others are never in the
\* state of having written a part of a chunk.
RaisesOnlyWhenFull == exhausted =>
    /\ seq_len[0] = MaxBlocks * BlockSize
    /\ \A l \in Layers \ {0} : stranded[l] = 0

\* "All layers are appended in lockstep, so layer 0's length represents the
\* whole cache" (PagedKVCache.seq_len).  Between two passes that holds as long
\* as no pass has raised for want of memory, but for the tokens of an append
\* that raised.  After that no layer is ever ahead of one before it: the length
\* that is read, that of layer 0, counts too much and never too little.
Lockstep == Idle => \A l \in Layers \ {0} :
    /\ raises = 0 => seq_len[l] = seq_len[0] - stranded[0]
    /\ seq_len[l] <= seq_len[l - 1] - stranded[l - 1]

\* Once append has raised because its pool is exhausted, no later pass gets
\* through: nothing is ever attended to over the half-written chunk.  A pass
\* that raised for want of memory can be followed by one that succeeds.
ExhaustionIsFinal == [][exhausted => UNCHANGED <<cacheVars, stranded>>]_vars

\* What append returns for layer l: the tokens of an append whose loop still
\* runs, or has raised, are hidden.  Those of an append that raised when its
\* loop was over are there, and the next append returns them.
Returned(l) ==
    LET pending == stranded[l] + (IF l = layer THEN t ELSE 0)
    IN  SubSeq(Gather(l), 1, seq_len[l] - pending)

\* The naive cache, its tensors being what the paged one has returned.
Naive == INSTANCE NaiveCache WITH kv <- [l \in Layers |-> Returned(l)]

\* "Every value the paged cache returns from append() must be numerically
\* identical to what the naive cache would return" (tests/test_paged_cache.py):
\* the block table, the slots and the gather are invisible to attention.
ImplementsNaive == Naive!NaiveSpec

=============================================================================
