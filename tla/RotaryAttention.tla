---------------------------- MODULE RotaryAttention ----------------------------
(***************************************************************************)
(* The index arithmetic of attention for one query and one key:            *)
(* model/rope.py and the heads of model/attention.py.                      *)
(*                                                                         *)
(* The vectors are integer and every angle is a number of quarter turns,   *)
(* so that cosines and sines are 0, 1 and -1 and all products are exact.   *)
(* What can go wrong here is not rounding but which element meets which:   *)
(* the pairs that are rotated together, the angle each of them turns by,   *)
(* the head an element belongs to, and the KV head a query head uses.      *)
(* Indices start at 0, as they do in the code.                             *)
(***************************************************************************)
EXTENDS Integers, FiniteSetsExt

CONSTANTS
    NumHeads, NumKvHeads, HeadDim,
    InvFreq,        \* inv_freq: quarter turns by position, for each pair
    MaxPosition     \* bound: positions of the query and of the key

Half == HeadDim \div 2
NumGroups == NumHeads \div NumKvHeads

ASSUME RotaryAttentionAssumption ==
    /\ {NumHeads, NumKvHeads, HeadDim, MaxPosition} \subseteq Nat \ {0}
    /\ HeadDim = 2 * Half
    /\ NumHeads = NumKvHeads * NumGroups
    /\ InvFreq \in [0 .. Half - 1 -> Nat]

Heads == 0 .. NumHeads - 1
KvHeads == 0 .. NumKvHeads - 1
Dims == 0 .. HeadDim - 1

VARIABLES
    q_row, k_row, v_row,    \* one row each of the three projections
    q_pos, k_pos,           \* the positions of the query and of the key
    q, k, v,                \* the rows by head
    out,                    \* the output row before o_proj
    pc

vars == <<q_row, k_row, v_row, q_pos, k_pos, q, k, v, out, pc>>

input == <<q_row, k_row, v_row, q_pos, k_pos>>

-----------------------------------------------------------------------------
(* rope.py *)

\* Cosine and sine of n quarter turns.
Cos(n) == CASE n % 4 = 0 -> 1 [] n % 4 = 2 -> -1 [] OTHER -> 0
Sin(n) == CASE n % 4 = 1 -> 1 [] n % 4 = 3 -> -1 [] OTHER -> 0

AngleInterleaved(pos, d) == pos * InvFreq[d \div 2]     \* mutant: [f0, f0, f1, f1]

\* compute_rope_frequencies: torch.cat([freqs, freqs]).
Angle(pos, d) == pos * InvFreq[d % Half]

RotateHalfAdjacent(x) ==                    \* mutant: the paper's pairs
    [d \in Dims |-> IF d % 2 = 0 THEN -x[d + 1] ELSE x[d - 1]]

\* _rotate_half: torch.cat([-x2, x1]).
RotateHalf(x) ==
    [d \in Dims |-> IF d < Half THEN -x[d + Half] ELSE x[d - Half]]

\* apply_rope
ApplyRope(x, pos) ==
    [d \in Dims |-> x[d] * Cos(Angle(pos, d)) + RotateHalf(x)[d] * Sin(Angle(pos, d))]

-----------------------------------------------------------------------------
(* attention.py *)

\* .view(batch, seq_len, n, head_dim).transpose(1, 2): the heads of a row.
Split(row, n) == [h \in 0 .. n - 1 |-> [d \in Dims |-> row[h * HeadDim + d]]]

RepeatKvCyclic(x) == [h \in Heads |-> x[h % NumKvHeads]]    \* mutant: repeat

\* repeat_kv: repeat_interleave along the heads.
RepeatKv(x) == [h \in Heads |-> x[h \div NumGroups]]

\* .transpose(1, 2).view(batch, seq_len, n * head_dim): the row of heads.
Merge(x) == [i \in 0 .. NumHeads * HeadDim - 1 |-> x[i \div HeadDim][i % HeadDim]]

Score(h) == MapThenSumSet(LAMBDA d : q[h][d] * k[h][d], Dims)

ProjectAndSplit ==
    /\ pc = "split"
    /\ q' = Split(q_row, NumHeads)
    /\ k' = Split(k_row, NumKvHeads)
    /\ v' = Split(v_row, NumKvHeads)
    /\ pc' = "rotate"
    /\ UNCHANGED <<input, out>>

\* Queries and keys are rotated, each at its own position; keys before they
\* are cached, and before they are repeated.
Rotate ==
    /\ pc = "rotate"
    /\ q' = [h \in Heads |-> ApplyRope(q[h], q_pos)]
    /\ k' = [h \in KvHeads |-> ApplyRope(k[h], k_pos)]
    /\ pc' = "repeat"
    /\ UNCHANGED <<input, v, out>>

Repeat ==
    /\ pc = "repeat"
    /\ k' = RepeatKv(k)
    /\ v' = RepeatKv(v)
    /\ pc' = "attend"
    /\ UNCHANGED <<input, q, out>>

\* scaled_dot_product_attention.  With one key its softmax is 1.
Attend ==
    /\ pc = "attend"
    /\ out' = Merge(v)
    /\ pc' = "done"
    /\ UNCHANGED <<input, q, k, v>>

-----------------------------------------------------------------------------
(* The specification *)

\* A score is linear in the query and in the key, and the output in the value:
\* rows with a single 1 stand for all rows.
Units(n) == {[i \in 0 .. n * HeadDim - 1 |-> IF i = one THEN 1 ELSE 0] :
                one \in 0 .. n * HeadDim - 1}

Init ==
    /\ q_row \in Units(NumHeads)
    /\ k_row \in Units(NumKvHeads)
    /\ v_row = [i \in 0 .. NumKvHeads * HeadDim - 1 |-> i]
    /\ q_pos \in 0 .. MaxPosition
    /\ k_pos \in 0 .. q_pos
    /\ q = <<>> /\ k = <<>> /\ v = <<>> /\ out = <<>>
    /\ pc = "split"

Next == ProjectAndSplit \/ Rotate \/ Repeat \/ Attend

Spec == Init /\ [][Next]_vars

-----------------------------------------------------------------------------
(* Properties *)

\* What the model's authors define: query head h uses KV head h \div NumGroups,
\* elements j and j + Half of a head are a complex number, and its score is the
\* real part of query times conjugated key, turned by the distance of the two.
DefinedScore(h) ==
    LET Q(d) == q_row[h * HeadDim + d]
        K(d) == k_row[(h \div NumGroups) * HeadDim + d]
        turn(j) == InvFreq[j] * (q_pos - k_pos)
        Term(j) == (Q(j) * K(j) + Q(j + Half) * K(j + Half)) * Cos(turn(j))
                 + (Q(j) * K(j + Half) - Q(j + Half) * K(j)) * Sin(turn(j))
    IN  MapThenSumSet(Term, 0 .. Half - 1)

\* "The dot product of two rotated vectors depends only on their relative
\* rotation" (rope.py), with the pairs that checkpoints are trained with; and
\* each query head meets the key and the value of its own group.
IsRotaryAttention == pc = "done" =>
    /\ \A h \in Heads : Score(h) = DefinedScore(h)
    /\ \A h \in Heads, d \in Dims :
          out[h * HeadDim + d] = v_row[(h \div NumGroups) * HeadDim + d]

=============================================================================
