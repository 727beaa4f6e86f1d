------------------------------ MODULE BlockPool ------------------------------
(***************************************************************************)
(* The shared pool of physical block indices, scheduler/block_pool.py.     *)
(*                                                                         *)
(* The pool keeps a free list, used as a stack, and for every sequence the *)
(* list of blocks it owns, in allocation order.  It is driven from one     *)
(* thread, so each method is one atomic step.  The module is used twice:   *)
(* on its own, with an arbitrary caller (PoolSpec), and extended by        *)
(* Scheduler, whose steps call Allocate and Free.                          *)
(***************************************************************************)
EXTENDS Integers, Sequences, FiniteSets, SequencesExt

CONSTANTS
    TotalBlocks,    \* BlockPool.total_blocks
    BlockSize,      \* BlockPool.block_size: tokens held by one block
    MaxRequests     \* bound: sequence ids are 0 .. MaxRequests-1

ASSUME TotalBlocksAssumption == TotalBlocks \in Nat
ASSUME BlockSizeAssumption == BlockSize \in Nat \ {0}
ASSUME MaxRequestsAssumption == MaxRequests \in Nat

Blocks == 0 .. TotalBlocks - 1
SeqIds == 0 .. MaxRequests - 1

VARIABLES
    free,       \* _free: the free list; blocks leave and return at its end
    owned       \* _owned: the blocks of each sequence, <<>> for no entry

poolVars == <<free, owned>>

-----------------------------------------------------------------------------
(* Arithmetic on blocks *)

\* The number of blocks that n cached tokens fill, the last one maybe partly.
BlocksFor(n) == (n + BlockSize - 1) \div BlockSize

\* blocks_needed: how many more blocks a sequence of len tokens must get to
\* take new tokens.
BlocksNeeded(len, new) ==
    LET more == BlocksFor(len + new) - BlocksFor(len)
    IN  IF more > 0 THEN more ELSE 0

-----------------------------------------------------------------------------
(* The methods *)

\* allocate returns None, and changes nothing, exactly when this is false.
CanAllocate(n) == n <= Len(free)

NewBlocksFront(n) == SubSeq(free, 1, n)                 \* mutant: wrong end

\* The blocks that n pops from the end of the free list give, in order.
NewBlocks(n) == [i \in 1 .. n |-> free[Len(free) + 1 - i]]

AllocateReplace(s, n) ==                                \* mutant: no extend
    /\ CanAllocate(n)
    /\ free' = SubSeq(free, 1, Len(free) - n)
    /\ owned' = [owned EXCEPT ![s] = NewBlocks(n)]

AllocatePrepend(s, n) ==                                \* mutant: wrong order
    /\ CanAllocate(n)
    /\ free' = SubSeq(free, 1, Len(free) - n)
    /\ owned' = [owned EXCEPT ![s] = NewBlocks(n) \o @]

\* allocate, when it returns a list.  With n = 0 nothing changes.
Allocate(s, n) ==
    /\ CanAllocate(n)
    /\ free' = SubSeq(free, 1, Len(free) - n)
    /\ owned' = [owned EXCEPT ![s] = @ \o NewBlocks(n)]

FreeDrop(s) ==                                          \* mutant: no extend
    /\ UNCHANGED free
    /\ owned' = [owned EXCEPT ![s] = <<>>]

FreeKeep(s) ==                                          \* mutant: no pop
    /\ free' = free \o owned[s]
    /\ UNCHANGED owned

\* free: safe on a sequence that owns nothing.
Free(s) ==
    /\ free' = free \o owned[s]
    /\ owned' = [owned EXCEPT ![s] = <<>>]

-----------------------------------------------------------------------------
(* The pool on its own, with an arbitrary caller *)

PoolInit ==
    /\ free = [i \in 1 .. TotalBlocks |-> i - 1]
    /\ owned = [s \in SeqIds |-> <<>>]

PoolNext == \E s \in SeqIds :
    \/ \E n \in 1 .. TotalBlocks : Allocate(s, n)
    \/ Free(s)

PoolSpec == PoolInit /\ [][PoolNext]_poolVars

-----------------------------------------------------------------------------
(* Properties *)

\* The free list and the ownership table hold block indices.
PoolTypeOK ==
    /\ free \in Seq(Blocks)
    /\ owned \in [SeqIds -> Seq(Blocks)]

\* No block is twice in the free list, twice in the table, or in both: two
\* sequences never write the same physical block.
NoBlockShared ==
    /\ \A i, j \in DOMAIN free : free[i] = free[j] => i = j
    /\ \A s, t \in SeqIds : \A i \in DOMAIN owned[s], j \in DOMAIN owned[t] :
            owned[s][i] = owned[t][j] => s = t /\ i = j
    /\ \A s \in SeqIds : \A i \in DOMAIN owned[s], j \in DOMAIN free :
            owned[s][i] # free[j]

\* No block is lost: each one is free or owned.
NoBlockLost == \A b \in Blocks :
    \/ \E i \in DOMAIN free : free[i] = b
    \/ \E s \in SeqIds : \E i \in DOMAIN owned[s] : owned[s][i] = b

\* The i-th block of a sequence stays the i-th one until the sequence gives
\* all of its blocks back: allocation only extends the list (block_table[i]
\* covers the same logical positions for good), and never takes a block away.
HeldBlocksStay == [][\A s \in SeqIds :
    IsPrefix(owned[s], owned'[s]) \/ owned'[s] = <<>>]_poolVars

=============================================================================
