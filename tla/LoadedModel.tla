------------------------------ MODULE LoadedModel ------------------------------
(***************************************************************************)
(* How a checkpoint becomes a model that runs: model/load_weights.py, its  *)
(* callers, and a first forward pass over what they have loaded.           *)
(*                                                                         *)
(* A tensor is abstracted to the name and file that it comes from, its     *)
(* shape, its dtype, and whether it has been transposed.  A pass is what   *)
(* PyTorch (external) checks of it, operation by operation: a product      *)
(* wants equal inner dimensions and equal dtypes, a view wants as many     *)
(* elements.  All else that a pass would compute is a record of which      *)
(* tensors each layer has multiplied by, and with which dimensions.        *)
(*                                                                         *)
(* Where a real configuration has three widths that the pass never looks   *)
(* up (vocab_size, hidden_size, intermediate_size) and two numbers that no *)
(* shape depends on (rms_norm_eps, rope_theta), this one has hidden and    *)
(* theta.                                                                  *)
(***************************************************************************)
EXTENDS Integers, Sequences, FiniteSets, SequencesExt, FiniteSetsExt

CONSTANTS
    Assumed,        \* LLAMA_3_2_1B: the configuration in model/config.py
    Configs,        \* the configurations that checkpoints come with
    Dtypes          \* the dtypes that checkpoints come with

Fields == {"layers", "heads", "kv_heads", "head_dim", "hidden", "theta"}

\* config.py asserts the second conjunct (num_query_groups), and RoPE rotates
\* pairs: no model that a checkpoint comes from is without either.
ASSUME LoadedModelAssumption ==
    /\ {Assumed} \cup Configs \subseteq [Fields -> Nat \ {0}]
    /\ \A c \in {Assumed} \cup Configs : c.heads % c.kv_heads = 0 /\ c.head_dim % 2 = 0
    /\ Dtypes \subseteq {"float32", "bfloat16"}

\* server.py with --checkpoint or with --random-weights; the scripts that
\* compare with another implementation; the tests, which load and run.
Callers == {"server", "random", "script", "test"}

VARIABLES
    caller,
    own,        \* what config.json says, which is what the tensors are
    config_json, \* the file: "whole", "missing", not JSON, or without a field
    dtype,      \* the dtype of the stored tensors
    files,      \* the parameter names in each .safetensors file, sorted
    pc,         \* "config", "merge", "load", "pass" or "over"
    merged,     \* how many files are merged
    tensors,    \* CheckpointTensors._tensors
    weights,    \* ModelWeights
    hidden,     \* hidden_states: their last dimension and their dtype
    ran,        \* how many layers have run
    outcome     \* "logits", or the class of what has been raised

vars == <<caller, own, config_json, dtype, files, pc, merged, tensors, weights,
          hidden, ran, outcome>>

source == <<caller, own, config_json, dtype, files>>

-----------------------------------------------------------------------------
(* Names and shapes of a checkpoint *)

Projections == {"q_proj", "k_proj", "v_proj", "o_proj", "gate_proj", "up_proj",
                "down_proj"}
LayerNames == Projections \cup {"input_layernorm", "post_attention_layernorm"}

Embed == <<-1, "embed_tokens">>
Norm == <<-1, "norm">>
LmHead == <<-1, "lm_head">>

\* The names that a model of n layers is looked up by.
Wanted(n) == {Embed, Norm} \cup ((0 .. n - 1) \X LayerNames)

Vocab == 11         \* widths that no other dimension can be mistaken for
Inter == 13

\* nn.Linear stores (out_features, in_features).
StoredShape(c, name) ==
    CASE name = "q_proj"                   -> <<c.heads * c.head_dim, c.hidden>>
      [] name \in {"k_proj", "v_proj"}     -> <<c.kv_heads * c.head_dim, c.hidden>>
      [] name = "o_proj"                   -> <<c.hidden, c.heads * c.head_dim>>
      [] name \in {"gate_proj", "up_proj"} -> <<Inter, c.hidden>>
      [] name = "down_proj"                -> <<c.hidden, Inter>>
      [] name \in {"embed_tokens", "lm_head"} -> <<Vocab, c.hidden>>
      [] OTHER                             -> <<c.hidden>>

Stored(n, file) ==
    [name |-> n, file |-> file, shape |-> StoredShape(own, n[2]),
     dtype |-> dtype, transposed |-> FALSE]

\* .T
T(t) == [t EXCEPT !.shape = Reverse(@), !.transposed = ~ @]

-----------------------------------------------------------------------------
(* The callers *)

\* The configuration that a caller loads and runs with.
Config == IF caller \in {"server", "random"} THEN Assumed ELSE own

Stop(why) == pc' = "over" /\ outcome' = why

\* verify_config_matches
Mismatches(c) == {f \in Fields \ {"theta"} : c[f] # Assumed[f]}

\* What load_config_from_directory and verify_config_matches raise: a file that
\* is not JSON is a JSONDecodeError, which is a ValueError.  A head_dim that is
\* not there is no error: it is hidden_size by num_attention_heads.
ConfigError ==
    CASE config_json = "missing"    -> {"FileNotFoundError"}
      [] config_json = "incomplete" -> {"KeyError"}
      [] config_json = "not JSON" \/ Mismatches(own) # {} -> {"ValueError"}
      [] OTHER                      -> {}

\* The scripts call them.  The others go straight to load_model_weights, with
\* a configuration of their own.
ReadConfig ==
    /\ pc = "config"
    /\ caller # "random"
    /\ IF caller = "script" /\ ConfigError # {}
       THEN \E error \in ConfigError : Stop(error)
       ELSE pc' = "merge" /\ UNCHANGED outcome
    /\ UNCHANGED <<source, merged, tensors, weights, hidden, ran>>

\* random_model_weights makes float32 tensors in the shapes of the
\* configuration, which are not transposed: they are made the way round that
\* transposition gives.
RandomWeights ==
    /\ pc = "config"
    /\ caller = "random"
    /\ LET Made(n) == [name |-> n, file |-> 0, shape |-> StoredShape(Config, n[2]),
                       dtype |-> "float32", transposed |-> FALSE]
       IN  weights' =
             [embed |-> Made(Embed), norm |-> Made(Norm), lm_head |-> {},
              layers |-> [i \in 1 .. Config.layers |-> [f \in LayerNames |->
                IF f \in Projections THEN T(Made(<<i - 1, f>>)) ELSE Made(<<i - 1, f>>)]]]
    /\ pc' = "pass"
    /\ UNCHANGED <<source, merged, tensors, hidden, ran, outcome>>

-----------------------------------------------------------------------------
(* load_model_weights *)

MergeFileReplaces ==                        \* mutant: = for .update
    /\ pc = "merge"
    /\ merged < Len(files)
    /\ merged' = merged + 1
    /\ tensors' = [n \in files[merged'] |-> Stored(n, merged')]
    /\ UNCHANGED <<source, pc, weights, hidden, ran, outcome>>

\* CheckpointTensors.from_directory: tensors.update with the next file.
MergeFile ==
    /\ pc = "merge"
    /\ merged < Len(files)
    /\ merged' = merged + 1
    /\ tensors' = [n \in DOMAIN tensors \cup files[merged'] |->
                      IF n \in files[merged'] THEN Stored(n, merged') ELSE tensors[n]]
    /\ UNCHANGED <<source, pc, weights, hidden, ran, outcome>>

EndMerge ==
    /\ pc = "merge"
    /\ merged = Len(files)
    /\ IF files = <<>> THEN Stop("FileNotFoundError")
                       ELSE pc' = "load" /\ UNCHANGED outcome
    /\ UNCHANGED <<source, merged, tensors, weights, hidden, ran>>

LayerWeightsNoT(i) == [f \in LayerNames |->         \* mutant: o_proj as it is
    IF f \in Projections \ {"o_proj"} THEN T(tensors[<<i, f>>])
                                      ELSE tensors[<<i, f>>]]

\* _load_decoder_layer_weights, _load_attention_weights, _load_mlp_weights
LayerWeights(i) == [f \in LayerNames |->
    IF f \in Projections THEN T(tensors[<<i, f>>]) ELSE tensors[<<i, f>>]]

\* _to_float32, in the scripts
ToFloat32(t) == [t EXCEPT !.dtype = IF caller = "script" THEN "float32" ELSE @]

LayersThere == CHOOSE n \in 0 .. Config.layers :     \* mutant: while has(...)
    /\ Wanted(n) \ Wanted(0) \subseteq DOMAIN tensors
    /\ n = Config.layers \/ ~ Wanted(n + 1) \ Wanted(0) \subseteq DOMAIN tensors

\* The layers are range(config.num_hidden_layers), whatever the files hold.
LayersToLoad == Config.layers

\* The embedding, the layers, the norm, and lm_head where there is one.
Load ==
    /\ pc = "load"
    /\ IF ~ Wanted(LayersToLoad) \subseteq DOMAIN tensors
       THEN Stop("KeyError") /\ UNCHANGED weights
       ELSE /\ weights' =
                 [embed   |-> ToFloat32(tensors[Embed]),
                  norm    |-> ToFloat32(tensors[Norm]),
                  lm_head |-> {ToFloat32(tensors[n]) : n \in DOMAIN tensors \cap {LmHead}},
                  layers  |-> [i \in 1 .. LayersToLoad |->
                      [f \in LayerNames |-> ToFloat32(LayerWeights(i - 1)[f])]]]
            /\ pc' = "pass"
            /\ UNCHANGED outcome
    /\ UNCHANGED <<source, merged, tensors, hidden, ran>>

-----------------------------------------------------------------------------
(* The forward pass *)

\* The embedding lookup: one row of the table for each token.
Lookup ==
    /\ pc = "pass"
    /\ hidden = <<>>
    /\ hidden' = [width |-> weights.embed.shape[2], dtype |-> weights.embed.dtype]
    /\ UNCHANGED <<source, pc, merged, tensors, weights, ran, outcome>>

\* x @ w raises unless the inner dimensions and the dtypes agree.
CanMultiply(x, w) == w.shape[1] = x.width /\ w.dtype = x.dtype

\* An element-wise operation gives the wider dtype.
Promote(d, e) == IF "float32" \in {d, e} THEN "float32" ELSE "bfloat16"

\* rms_norm computes in float32 and casts back before it scales.
CanNorm(x, w) == w.shape[1] = x.width
Normed(x, w) == [x EXCEPT !.dtype = Promote(w.dtype, @)]

TableTypeAsMade(d) == "float32"             \* mutant: cos and sin not cast

\* apply_rope casts its tables, which are float32, to the dtype of x.
TableType(d) == d

\* scaled_dot_product_attention casts the softmax back to its input's dtype.
SoftmaxType(d) == d

\* What cache.append returns has the dtype of the cache, which the server
\* leaves at make_scheduler's default.  The others run without a cache.
CachedType(d) == IF caller \in {"server", "random"} THEN "float32" ELSE d

\* attention, attention_with_cache: three products, the views that split them
\* into heads, a KV head for each query head, scores, weighted values, o_proj.
CanAttend(x, w) ==
    LET c == Config
        query == Promote(x.dtype, TableType(x.dtype))
        value == CachedType(x.dtype)
    IN  /\ \A f \in {"q_proj", "k_proj", "v_proj"} : CanMultiply(x, w[f])
        /\ w["q_proj"].shape[2] = c.heads * c.head_dim
        /\ \A f \in {"k_proj", "v_proj"} : w[f].shape[2] = c.kv_heads * c.head_dim
        /\ c.kv_heads * (c.heads \div c.kv_heads) = c.heads
        /\ CachedType(query) = query
        /\ SoftmaxType(query) = value
        /\ CanMultiply([width |-> c.heads * c.head_dim, dtype |-> value], w["o_proj"])
        /\ w["o_proj"].shape[2] = x.width

\* swiglu_mlp
CanMlp(x, w) ==
    /\ CanMultiply(x, w["gate_proj"])
    /\ CanMultiply(x, w["up_proj"])
    /\ CanMultiply([x EXCEPT !.width = w["gate_proj"].shape[2]], w["down_proj"])
    /\ w["down_proj"].shape[2] = x.width

\* decoder_layer, decoder_layer_with_cache: both keep the width and the dtype.
RunLayer ==
    LET w == weights.layers[ran + 1]
        attn_in == Normed(hidden, w["input_layernorm"])
        mlp_in == Normed(hidden, w["post_attention_layernorm"])
    IN  /\ pc = "pass"
        /\ hidden # <<>>
        /\ ran < Len(weights.layers)
        /\ IF /\ CanNorm(hidden, w["input_layernorm"])
              /\ CanAttend(attn_in, w)
              /\ CanNorm(hidden, w["post_attention_layernorm"])
              /\ CanMlp(mlp_in, w)
           THEN ran' = ran + 1 /\ UNCHANGED <<pc, outcome>>
           ELSE Stop("RuntimeError") /\ UNCHANGED ran
        /\ UNCHANGED <<source, merged, tensors, weights, hidden>>

\* ModelWeights.output_projection
output_projection == T(IF weights.lm_head # {} THEN CHOOSE t \in weights.lm_head : TRUE
                                               ELSE weights.embed)

\* forward, forward_with_cache: the loop is over.
Logits ==
    LET x == Normed(hidden, weights.norm)
    IN  /\ pc = "pass"
        /\ hidden # <<>>
        /\ ran = Len(weights.layers)
        /\ IF CanNorm(hidden, weights.norm) /\ CanMultiply(x, output_projection)
           THEN hidden' = [x EXCEPT !.width = output_projection.shape[2]] /\ Stop("logits")
           ELSE Stop("RuntimeError") /\ UNCHANGED hidden
        /\ UNCHANGED <<source, merged, tensors, weights, ran>>

-----------------------------------------------------------------------------
(* The specification *)

\* The names of a checkpoint, and its files: none, one, or two of which the
\* second holds the layers above the first.  At most one name is missing, and
\* at most one is in both files.
Names == Wanted(own.layers)

Layouts(names) ==
    LET upper == {n \in names : n[1] > 0}
        Few(S) == {{}} \cup {{n} : n \in S}
    IN  {<<>>} \cup {<<names \ lost>> : lost \in Few(names)}
               \cup {<<(names \ upper) \cup both, upper>> : both \in Few(upper)}

Init ==
    /\ caller \in Callers
    /\ own \in IF caller = "random" THEN {Assumed} ELSE Configs
    /\ config_json \in {"whole"} \cup IF caller = "script"
                                     THEN {"missing", "not JSON", "incomplete"} ELSE {}
    /\ dtype \in IF caller = "random" THEN {"float32"} ELSE Dtypes
    /\ files \in IF caller = "random" THEN {<<>>}
                 ELSE Layouts(Names) \cup Layouts(Names \cup {LmHead})
    /\ pc = "config"
    /\ merged = 0
    /\ tensors = <<>>
    /\ weights = <<>>
    /\ hidden = <<>>
    /\ ran = 0
    /\ outcome = "none"

Next ==
    \/ ReadConfig \/ RandomWeights
    \/ MergeFile \/ EndMerge \/ Load
    \/ Lookup \/ RunLayer \/ Logits

Spec == Init /\ [][Next]_vars

-----------------------------------------------------------------------------
(* Properties *)

\* The last file in which a name occurs.
LastFile(n) == Max({k \in DOMAIN files : n \in files[k]})

IsFrom(t, n) == t.name = n /\ t.file = LastFile(n)

\* Whoever loads: what a pass has multiplied by is the checkpoint's tensor of
\* that layer and name, a projection the other way round than it is stored
\* (x @ W for x @ W.T, also where W is square and no shape shows it), and the
\* logits come from lm_head exactly if the checkpoint has one.
RunsTheCheckpoint == outcome = "logits" /\ caller # "random" =>
    /\ \A i \in DOMAIN weights.layers, f \in LayerNames :
        LET t == weights.layers[i][f]
        IN  IsFrom(t, <<i - 1, f>>) /\ (t.transposed <=> f \in Projections)
    /\ IsFrom(weights.embed, Embed) /\ ~ weights.embed.transposed
    /\ IsFrom(weights.norm, Norm)
    /\ LET named == UNION {files[k] : k \in DOMAIN files}
       IN  IsFrom(output_projection, IF LmHead \in named THEN LmHead ELSE Embed)
    /\ output_projection.transposed

\* What missing names and shape errors do catch when nobody compares the
\* configurations: a model that runs has as many layers as the configuration
\* says and no more than there are, and heads that fill the same widths.
DisagreementIsBounded == outcome = "logits" =>
    /\ Len(weights.layers) = Config.layers
    /\ Config.layers <= own.layers
    /\ Config.heads * Config.head_dim = own.heads * own.head_dim
    /\ Config.kv_heads * Config.head_dim = own.kv_heads * own.head_dim

\* A script finds config.json like that.
ConfigIs(how) == caller = "script" /\ config_json = how

\* Loading and running fail for a cause only, and each for its own: no file, a
\* config.json that cannot be used or disagrees, a name in no file, a shape that
\* the configuration does not have, or a checkpoint that is not of the cache's
\* dtype.  And bfloat16 does not turn into float32.
FailsForCause ==
    LET named == UNION {files[k] : k \in DOMAIN files}
    IN  /\ outcome = "FileNotFoundError" => files = <<>> \/ ConfigIs("missing")
        /\ outcome = "ValueError" =>
              caller = "script" /\ (config_json = "not JSON" \/ own # Assumed)
        /\ outcome = "KeyError" =>
              \/ ConfigIs("incomplete")
              \/ ~ Wanted(own.layers) \subseteq named \/ Config.layers > own.layers
        /\ outcome = "RuntimeError" =>
              Config # own \/ (caller = "server" /\ dtype = "bfloat16")
        /\ outcome = "logits" =>
              hidden = [width |-> Vocab,
                        dtype |-> IF caller = "script" THEN "float32" ELSE dtype]

-----------------------------------------------------------------------------
(* What the comments say and the code does not *)

\* server/server.py: "Usage (with real weights, on a machine with Hub access):
\* python server/server.py --checkpoint ...", with the dtype of the cache
\* "default bf16 to match the real Llama-3.2-1B checkpoint dtype"
\* (scheduler/scheduler.py).
RealCheckpointRuns ==
    caller = "server" /\ own = Assumed => outcome # "RuntimeError"

=============================================================================
