------------------------------ MODULE NaiveCache ------------------------------
(***************************************************************************)
(* The naive KV-cache, kvcache/naive_cache.py: one growing tensor for each *)
(* layer.  It is also the abstract specification of a cache: append adds   *)
(* the K/V of the new tokens of one layer after the old ones, and what it  *)
(* returns is everything that the layer holds.  PagedCache implements it.  *)
(*                                                                         *)
(* The K/V tensors of one token are one value.  Key and value are appended *)
(* alike, so one sequence stands for both.                                 *)
(***************************************************************************)
EXTENDS Integers, Sequences

CONSTANTS
    NumLayers,      \* decoder layers of the model
    Values,         \* what the K/V of one token can be
    MaxChunk        \* bound: tokens appended by one call

Layers == 0 .. NumLayers - 1

\* The K/V of the tokens of one call: a prompt, or one decoded token.
Chunks == UNION {[1 .. n -> Values] : n \in 1 .. MaxChunk}

VARIABLE kv         \* kv[l]: LayerKVCache.key and value, <<>> for None

-----------------------------------------------------------------------------

\* LayerKVCache.append, reached through KVCache.append.
LayerAppend(l, new) == kv' = [kv EXCEPT ![l] = @ \o new]

NaiveInit == kv = [l \in Layers |-> <<>>]

NaiveNext == \E l \in Layers, new \in Chunks : LayerAppend(l, new)

NaiveSpec == NaiveInit /\ [][NaiveNext]_kv

=============================================================================
