------------------------------ MODULE Generation ------------------------------
(***************************************************************************)
(* What one sequence attends to while it is generated: the cached forward  *)
(* pass of model/model.py, with decoder.py and attention.py under it, and  *)
(* its two callers, generate() and the scheduler (_admit_waiting and       *)
(* _decode_one).                                                           *)
(*                                                                         *)
(* Numbers are abstracted to what they are computed from.  The hidden      *)
(* state of a token is a term: the token at the bottom, and above each     *)
(* layer the state below with the keys it attended to.  Two terms are      *)
(* equal when the code computes the same function of the same inputs, so   *)
(* equal logits terms mean equal next tokens.  RMSNorm, the projections,   *)
(* the MLP and the residuals act on one position at a time and add nothing *)
(* to a term.  Of RoPE is kept that a score depends on the distance of key *)
(* and query, of softmax that a key counts as often as it occurs, relative *)
(* to the others.                                                          *)
(***************************************************************************)
EXTENDS Integers, Sequences, FiniteSets, SequencesExt, FiniteSetsExt

CONSTANTS
    Vocab,          \* token ids
    NumLayers,      \* decoder layers
    PromptLens,     \* prompt lengths
    MaxNews,        \* values of max_new_tokens
    Callers         \* who generates: "generate", "scheduler"

ASSUME GenerationAssumption ==
    /\ NumLayers \in Nat \ {0}
    /\ PromptLens \subseteq Nat \ {0}
    /\ MaxNews \subseteq Nat
    /\ Callers \subseteq {"generate", "scheduler"}

Layers == 0 .. NumLayers - 1

VARIABLES
    caller,             \* who generates this sequence
    prompt_len,
    max_new_tokens,
    all_ids,            \* all_ids of generate, token_ids of SequenceState
    cache,              \* cache[l]: the K/V that layer l holds, in order
    hidden,             \* hidden_states of the pass that runs, or its logits
    position_offset,    \* its position_offset
    layer,              \* the layer it runs next, NumLayers when it is over
    pc                  \* "start", "prefill", "ready", "decode" or "done"

vars == <<caller, prompt_len, max_new_tokens, all_ids, cache, hidden,
          position_offset, layer, pc>>

-----------------------------------------------------------------------------
(* Attention *)

VisibleNoOffset(keys, q_len, i) ==              \* mutant: no offset
    SubSeq(keys, 1, i)

\* The causal mask: query i of q_len sees the cached keys and the new ones up
\* to its own.
Visible(keys, q_len, i) == SubSeq(keys, 1, Len(keys) - q_len + i)

\* How often each element occurs in s, up to a common factor.
Weights(s) ==
    LET count == [e \in ToSet(s) |-> Cardinality({j \in DOMAIN s : s[j] = e})]
        common == Max({d \in 1 .. Len(s) : \A e \in ToSet(s) : count[e] % d = 0})
    IN  [e \in ToSet(s) |-> count[e] \div common]

\* scaled_dot_product_attention for the query h at position pos.
Attend(h, pos, keys) ==
    [self |-> h,
     sees |-> Weights([j \in DOMAIN keys |->
                          [kv |-> keys[j].h, distance |-> pos - keys[j].pos]])]

\* The K/V of the states hs, the first of which is at position first.
KeysAt(hs, first) == [i \in DOMAIN hs |-> [h |-> hs[i], pos |-> first + i - 1]]

\* The queries hs, the first of which is at position first, attend to keys.
Attention(hs, first, keys) ==
    [i \in DOMAIN hs |->
        Attend(hs[i], first + i - 1, Visible(keys, Len(hs), i))]

-----------------------------------------------------------------------------
(* forward: the whole sequence at once, without a cache *)

\* decoder_layer: every token attends to the tokens of the sequence itself.
DecoderLayer(hs) == Attention(hs, 0, KeysAt(hs, 0))

\* The states below layer l, for l = NumLayers those that give the logits.
StatesBelow(ids) ==
    LET H[l \in 0 .. NumLayers] ==
            IF l = 0 THEN ids ELSE DecoderLayer(H[l - 1])
    IN  H

\* next_token_greedy looks at the last position only.
ForwardLogits(ids) == Last(StatesBelow(ids)[NumLayers])

-----------------------------------------------------------------------------
(* forward_with_cache *)

\* It is called with the tokens ids at position offset.
Call(ids, offset) ==
    /\ hidden' = ids
    /\ position_offset' = offset
    /\ layer' = 0

\* attention_with_cache appends the K/V of the new tokens, and what append
\* returns is everything that the layer then holds.
FullKeys == cache[layer] \o KeysAt(hidden, position_offset)

\* decoder_layer_with_cache: the new tokens attend to all of it.
RunLayer ==
    /\ pc \in {"prefill", "decode"}
    /\ layer < NumLayers
    /\ cache' = [cache EXCEPT ![layer] = FullKeys]
    /\ hidden' = Attention(hidden, position_offset, FullKeys)
    /\ layer' = layer + 1
    /\ UNCHANGED <<caller, prompt_len, max_new_tokens, all_ids,
                   position_offset, pc>>

\* The pass is over, and hidden holds its logits.
PassEnds == layer = NumLayers

-----------------------------------------------------------------------------
(* The callers *)

\* Both callers begin with the whole prompt at position 0.
Prefill ==
    /\ pc = "start"
    /\ Call(all_ids, 0)
    /\ pc' = "prefill"
    /\ UNCHANGED <<caller, prompt_len, max_new_tokens, all_ids, cache>>

\* _admit_waiting does not use the logits of the prompt.
DropLogits ==
    /\ caller = "scheduler"
    /\ pc = "prefill"
    /\ PassEnds
    /\ hidden' = <<>>
    /\ pc' = "ready"
    /\ UNCHANGED <<caller, prompt_len, max_new_tokens, all_ids, cache,
                   position_offset, layer>>

\* After the n-th token generate leaves its loop, and is_done is true.
Enough(n) == n >= max_new_tokens

\* The logits are used: next_token_greedy gives the next token.  Any token can
\* be the one with the highest logit.
Sample(token) ==
    /\ pc = "decode" \/ (caller = "generate" /\ pc = "prefill")
    /\ PassEnds
    /\ all_ids' = Append(all_ids, token)
    /\ hidden' = <<>>
    /\ pc' = IF Enough(Len(all_ids') - prompt_len) THEN "done" ELSE "ready"
    /\ UNCHANGED <<caller, prompt_len, max_new_tokens, cache, position_offset,
                   layer>>

CachedLenLate == Len(cache[0]) + 1              \* mutant: off by one

\* cache.seq_len()
CachedLen == Len(cache[0])

\* generate goes on with the token it has just got, which is not cached yet.
DecodeNext ==
    /\ caller = "generate"
    /\ pc = "ready"
    /\ Call(<<Last(all_ids)>>, CachedLen)
    /\ pc' = "decode"
    /\ UNCHANGED <<caller, prompt_len, max_new_tokens, all_ids, cache>>

DecodeOneAtLen ==                               \* mutant: offset = seq_len
    /\ caller = "scheduler"
    /\ pc = "ready"
    /\ Call(<<Last(all_ids)>>, Len(all_ids))
    /\ pc' = "decode"
    /\ UNCHANGED <<caller, prompt_len, max_new_tokens, all_ids, cache>>

\* _decode_one goes on with the last token there is.  The first time that is
\* the last token of the prompt, which the prefill has cached.
DecodeOne ==
    /\ caller = "scheduler"
    /\ pc = "ready"
    /\ Call(<<Last(all_ids)>>, Len(all_ids) - 1)
    /\ pc' = "decode"
    /\ UNCHANGED <<caller, prompt_len, max_new_tokens, all_ids, cache>>

-----------------------------------------------------------------------------
(* The specification *)

Init ==
    /\ caller \in Callers
    /\ prompt_len \in PromptLens
    /\ max_new_tokens \in MaxNews
    /\ all_ids \in [1 .. prompt_len -> Vocab]
    /\ cache = [l \in Layers |-> <<>>]
    /\ hidden = <<>>
    /\ position_offset = 0
    /\ layer = 0
    /\ pc = "start"

Next ==
    \/ Prefill
    \/ RunLayer
    \/ DropLogits
    \/ \E token \in Vocab : Sample(token)
    \/ DecodeNext
    \/ DecodeOne

Spec == Init /\ [][Next]_vars

-----------------------------------------------------------------------------
(* Properties *)

LogitsReady == pc \in {"prefill", "decode"} /\ PassEnds

\* What generate() samples each token from is what a forward pass over the
\* whole sequence without a cache gives (tests/test_kv_cache.py compares the
\* two on a few prompts): positions, mask and cache fit together, at every
\* step and whatever has been sampled before.
GenerateMatchesForward ==
    caller = "generate" /\ LogitsReady => Last(hidden) = ForwardLogits(all_ids)

\* Between two passes of generate() the cache of every layer holds the K/V
\* that the uncached forward computes there, one entry for each token but the
\* one just sampled.
CacheMatchesForward ==
    caller = "generate" /\ pc = "ready" =>
        LET states == StatesBelow(Front(all_ids))
        IN  \A l \in Layers : cache[l] = KeysAt(states[l], 0)

\* The prompt with its last token twice.
Repeated(ids) == SubSeq(ids, 1, prompt_len) \o SubSeq(ids, prompt_len, Len(ids))

\* The positions of Repeated(ids): both copies have the same one.
RepeatedPos(i) == IF i <= prompt_len THEN i - 1 ELSE i - 2

\* The states below layer l in a forward pass over Repeated(ids) at RepeatedPos.
RepeatedStates(ids) ==
    LET Keys(hs) == [i \in DOMAIN hs |-> [h |-> hs[i], pos |-> RepeatedPos(i)]]
        H[l \in 0 .. NumLayers] ==
            IF l = 0 THEN Repeated(ids)
            ELSE LET hs == H[l - 1]
                 IN  [i \in DOMAIN hs |->
                         Attend(hs[i], RepeatedPos(i), SubSeq(Keys(hs), 1, i))]
    IN  H

RepeatedLogits(ids) == Last(RepeatedStates(ids)[NumLayers])

\* What the scheduler samples from, exactly: a forward pass over the sequence
\* in which the last token of the prompt occurs twice, at one position.
\* Nothing else sets it apart from generate().
ScheduledMatchesRepeated ==
    caller = "scheduler" /\ pc = "decode" /\ LogitsReady =>
        Last(hidden) = RepeatedLogits(all_ids)

\* "The scheduler must produce the same token sequence as calling generate()
\* directly" (tests/test_scheduler.py:136).  It does not: the last token of
\* the prompt is cached by the prefill and again by the first decode.
ScheduledMatchesForward ==
    caller = "scheduler" /\ pc = "decode" /\ LogitsReady =>
        Last(hidden) = ForwardLogits(all_ids)

=============================================================================
