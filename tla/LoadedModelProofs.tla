--------------------------- MODULE LoadedModelProofs ---------------------------
(***************************************************************************)
(* Theorems about LoadedModel, for every set of configurations: what runs  *)
(* is the checkpoint, a disagreement of the configurations changes only so *)
(* much of it, and nothing fails without a cause.                          *)
(***************************************************************************)
EXTENDS LoadedModel, ListFacts

-----------------------------------------------------------------------------
(* The inductive invariant *)

AllNames == Wanted(own.layers) \cup {LmHead}

Outcomes == {"none", "ValueError", "FileNotFoundError", "KeyError",
             "RuntimeError", "logits"}

\* What is loaded, and how far the loading has got.
SourceOK ==
    /\ caller \in Callers
    /\ own \in {Assumed} \cup Configs
    /\ dtype \in {"float32", "bfloat16"}
    /\ caller = "random" => own = Assumed /\ dtype = "float32"
    /\ files \in Seq(SUBSET AllNames)
    /\ merged \in 0 .. Len(files)
    /\ pc \in {"config", "merge", "load", "pass", "over"}
    /\ outcome \in Outcomes
    /\ pc # "over" => outcome = "none"
    /\ caller = "random" => pc \in {"config", "pass", "over"}

\* The weights are there, and layers may have run.
Loaded == pc = "pass" \/ outcome \in {"RuntimeError", "logits"}

\* Names are looked up, or one was and is missing.
LooksUp == \/ pc = "load" \/ Loaded
           \/ outcome = "KeyError" /\ ~ ConfigIs("incomplete")

\* The names of all files, and the last file that has a name.
Named == UNION {files[k] : k \in DOMAIN files}

\* tensors is what the files merged so far have, the last one first.
TensorsMerged ==
    /\ DOMAIN tensors = {n \in AllNames : \E k \in 1 .. merged : n \in files[k]}
    /\ \A n \in DOMAIN tensors : \E k \in 1 .. merged :
          /\ n \in files[k] /\ tensors[n] = Stored(n, k)
          /\ \A j \in 1 .. merged : n \in files[j] => j <= k
    /\ caller # "random" /\ LooksUp => merged = Len(files)

\* The dtype of all that flows through a pass.
FlowType == IF caller = "script" THEN "float32" ELSE dtype

TensorFields == {"name", "file", "shape", "dtype", "transposed"}

Turned(shape) == <<shape[2], shape[1]>>

\* t is the tensor of name n, turned or as it is stored.
TensorIs(t, n, turned) ==
    /\ TensorFields = DOMAIN t
    /\ t.name = n
    /\ t.transposed = turned
    /\ t.shape = IF turned THEN Turned(StoredShape(own, n[2])) ELSE StoredShape(own, n[2])
    /\ t.dtype = FlowType
    /\ caller # "random" => t.file = LastFile(n)

WeightsRight == Loaded =>
    /\ caller # "random" => Wanted(Config.layers) \subseteq DOMAIN tensors
    /\ DOMAIN weights.layers = 1 .. Config.layers
    /\ Len(weights.layers) = Config.layers
    /\ \A i \in 1 .. Config.layers, f \in LayerNames :
          TensorIs(weights.layers[i][f], <<i - 1, f>>, f \in Projections)
    /\ TensorIs(weights.embed, Embed, FALSE)
    /\ TensorIs(weights.norm, Norm, FALSE)
    /\ caller # "random" => (weights.lm_head # {} <=> LmHead \in DOMAIN tensors)
    /\ \A t \in weights.lm_head : TensorIs(t, LmHead, FALSE)

\* What flows, and what the layers that have run say of the configuration.
PassRight ==
    /\ pc \in {"config", "merge", "load"} => hidden = <<>>
    /\ pc = "pass" /\ hidden # <<>> => hidden = [width |-> own.hidden, dtype |-> FlowType]
    /\ outcome = "logits" => hidden = [width |-> Vocab, dtype |-> FlowType]
    /\ ran \in 0 .. Config.layers
    /\ outcome = "logits" => ran = Config.layers
    /\ ran > 0 =>
        /\ Config.heads * Config.head_dim = own.heads * own.head_dim
        /\ Config.kv_heads * Config.head_dim = own.kv_heads * own.head_dim

Causes ==
    /\ outcome = "FileNotFoundError" => files = <<>> \/ ConfigIs("missing")
    /\ outcome = "ValueError" =>
            caller = "script" /\ (config_json = "not JSON" \/ own # Assumed)
    /\ outcome = "KeyError" =>
            \/ ConfigIs("incomplete")
            \/ caller # "random" /\ ~ Wanted(Config.layers) \subseteq DOMAIN tensors
    /\ outcome = "RuntimeError" =>
            Config # own \/ (caller = "server" /\ dtype = "bfloat16")

LInv == SourceOK /\ TensorsMerged /\ WeightsRight /\ PassRight /\ Causes

-----------------------------------------------------------------------------
(* Operators *)

\* The number that is in a set and above all else in it is the set's largest.
LEMMA LargestIs ==
    ASSUME NEW S \in SUBSET Int, NEW k \in S, \A j \in S : j <= k
    PROVE  Max(S) = k
  <1> DEFINE m == Max(S)
  <1>1. m \in S /\ \A y \in S : m >= y
    BY DEF Max
  <1>2. m \in Int /\ k \in Int /\ m >= k /\ m <= k
    BY <1>1
  <1>3. QED
    BY <1>2

\* A pair read backwards.
LEMMA PairReversed ==
    ASSUME NEW a, NEW b
    PROVE  Reverse(<<a, b>>) = <<b, a>>
  BY DEF Reverse

\* What a layer's tensors are shaped like, and the others.
LEMMA Shapes ==
    ASSUME NEW c
    PROVE  /\ StoredShape(c, "q_proj") = <<c.heads * c.head_dim, c.hidden>>
           /\ StoredShape(c, "k_proj") = <<c.kv_heads * c.head_dim, c.hidden>>
           /\ StoredShape(c, "v_proj") = <<c.kv_heads * c.head_dim, c.hidden>>
           /\ StoredShape(c, "o_proj") = <<c.hidden, c.heads * c.head_dim>>
           /\ StoredShape(c, "gate_proj") = <<Inter, c.hidden>>
           /\ StoredShape(c, "up_proj") = <<Inter, c.hidden>>
           /\ StoredShape(c, "down_proj") = <<c.hidden, Inter>>
           /\ StoredShape(c, "embed_tokens") = <<Vocab, c.hidden>>
           /\ StoredShape(c, "lm_head") = <<Vocab, c.hidden>>
           /\ StoredShape(c, "norm") = <<c.hidden>>
           /\ StoredShape(c, "input_layernorm") = <<c.hidden>>
           /\ StoredShape(c, "post_attention_layernorm") = <<c.hidden>>
  BY DEF StoredShape

\* Projections are matrices.
LEMMA ProjectionShapes ==
    ASSUME NEW c, NEW f \in Projections
    PROVE  \E a, b : StoredShape(c, f) = <<a, b>>
  <1>1. \/ f = "q_proj" \/ f = "k_proj" \/ f = "v_proj" \/ f = "o_proj"
        \/ f = "gate_proj" \/ f = "up_proj" \/ f = "down_proj"
    BY DEF Projections
  <1>2. CASE f = "q_proj"
    BY <1>2, Shapes
  <1>3. CASE f = "k_proj" \/ f = "v_proj"
    BY <1>3, Shapes
  <1>4. CASE f = "o_proj"
    BY <1>4, Shapes
  <1>5. CASE f = "gate_proj" \/ f = "up_proj"
    BY <1>5, Shapes
  <1>6. CASE f = "down_proj"
    BY <1>6, Shapes
  <1>7. QED
    BY <1>1, <1>2, <1>3, <1>4, <1>5, <1>6

\* The configurations: positive numbers, heads that divide.
LEMMA ConfigFacts ==
    ASSUME SourceOK
    PROVE  /\ own \in [Fields -> Nat \ {0}] /\ Config \in [Fields -> Nat \ {0}]
           /\ own.layers \in Nat \ {0} /\ Config.layers \in Nat \ {0}
           /\ Config.kv_heads * (Config.heads \div Config.kv_heads) = Config.heads
           /\ caller = "random" => Config = own
  <1>1. /\ own \in {Assumed} \cup Configs /\ Config \in {Assumed} \cup Configs
        /\ caller = "random" => Config = own
    BY DEF SourceOK, Config
  <1>2. /\ own \in [Fields -> Nat \ {0}] /\ Config \in [Fields -> Nat \ {0}]
        /\ Config.heads % Config.kv_heads = 0
    BY <1>1, LoadedModelAssumption
  <1>3. /\ own.layers \in Nat \ {0} /\ Config.layers \in Nat \ {0}
        /\ Config.heads \in Nat \ {0} /\ Config.kv_heads \in Nat \ {0}
    BY <1>2 DEF Fields
  <1>4. ASSUME NEW a \in Nat \ {0}, NEW b \in Nat \ {0}, a % b = 0
        PROVE  b * (a \div b) = a
    BY <1>4, Z3
  <1>5. Config.kv_heads * (Config.heads \div Config.kv_heads) = Config.heads
    BY <1>2, <1>3, <1>4
  <1>6. QED
    BY <1>1, <1>2, <1>3, <1>5

\* A model of more layers is looked up by more names.
LEMMA MoreLayers ==
    ASSUME NEW a \in Nat, NEW b \in Nat
    PROVE  /\ a <= b => Wanted(a) \subseteq Wanted(b)
           /\ Wanted(a) \subseteq Wanted(b) \cup {LmHead} => a <= b
  <1>1. ASSUME a <= b
        PROVE  Wanted(a) \subseteq Wanted(b)
    <2>1. 0 .. a - 1 \subseteq 0 .. b - 1
      BY <1>1
    <2>2. QED
      BY <2>1 DEF Wanted
  <1>2. ASSUME ~ a <= b, Wanted(a) \subseteq Wanted(b) \cup {LmHead}
        PROVE  FALSE
    <2> DEFINE n == <<a - 1, "input_layernorm">>
    <2>1. a - 1 \in 0 .. a - 1 /\ a - 1 \notin 0 .. b - 1 /\ a - 1 # -1
      BY <1>2
    <2>2. n \in Wanted(a)
      BY <2>1 DEF Wanted, LayerNames
    <2>3. n \notin {Embed, Norm, LmHead}
      BY <2>1 DEF Embed, Norm, LmHead
    <2>4. n \notin (0 .. b - 1) \X LayerNames
      BY <2>1
    <2>5. QED
      BY <1>2, <2>2, <2>3, <2>4 DEF Wanted
  <1>3. QED
    BY <1>1, <1>2

\* Every layout of a checkpoint is a list of sets of its names.
LEMMA LayoutsAreLists ==
    ASSUME NEW names, NEW N, names \subseteq N
    PROVE  Layouts(names) \subseteq Seq(SUBSET N)
  <1>1. ASSUME NEW l \in Layouts(names)
        PROVE  l \in Seq(SUBSET N)
    <2> DEFINE upper == {n \in names : n[1] > 0}
    <2> DEFINE Few(S) == {{}} \cup {{n} : n \in S}
    <2>1. ASSUME NEW S \in SUBSET names, NEW x \in Few(S)
          PROVE  x \subseteq names
      BY <2>1
    <2>2. upper \in SUBSET names /\ names \in SUBSET names
      OBVIOUS
    <2>3. CASE l = <<>>
      BY <2>3
    <2>4. CASE \E lost \in Few(names) : l = <<names \ lost>>
      BY <2>4
    <2>5. CASE \E both \in Few(upper) : l = <<(names \ upper) \cup both, upper>>
      <3>1. PICK both \in Few(upper) : l = <<(names \ upper) \cup both, upper>>
        BY <2>5
      <3>2. both \subseteq names
        BY <2>1, <2>2
      <3>3. (names \ upper) \cup both \in SUBSET N /\ upper \in SUBSET N
        BY <3>2
      <3>4. QED
        BY <3>1, <3>3
    <2>6. QED
      BY <2>3, <2>4, <2>5 DEF Layouts
  <1>2. QED
    BY <1>1

-----------------------------------------------------------------------------
(* Tensors *)

\* A tensor with a pair for its shape, transposed.
LEMMA Transposed ==
    ASSUME NEW t, TensorFields = DOMAIN t,
           NEW a, NEW b, t.shape = <<a, b>>
    PROVE  /\ T(t).name = t.name /\ T(t).file = t.file /\ T(t).dtype = t.dtype
           /\ T(t).shape = <<b, a>> /\ T(t).transposed = ~ t.transposed
           /\ TensorFields = DOMAIN T(t)
  <1>1. /\ T(t).name = t.name /\ T(t).file = t.file /\ T(t).dtype = t.dtype
        /\ T(t).shape = Reverse(t.shape) /\ T(t).transposed = ~ t.transposed
        /\ DOMAIN T(t) = DOMAIN t
    BY DEF T, TensorFields
  <1>2. QED
    BY <1>1, PairReversed

\* The dtype of what a caller loads; a script casts it.
LEMMA Cast ==
    ASSUME NEW t, TensorFields = DOMAIN t,
           t.dtype = dtype
    PROVE  /\ ToFloat32(t).name = t.name /\ ToFloat32(t).file = t.file
           /\ ToFloat32(t).shape = t.shape /\ ToFloat32(t).transposed = t.transposed
           /\ ToFloat32(t).dtype = FlowType
           /\ TensorFields = DOMAIN ToFloat32(t)
  BY DEF ToFloat32, FlowType, TensorFields

\* The stored tensor of a name, from its last file, is the tensor of that name
\* once it is cast, and turned once it is transposed as well.
LEMMA LoadedAs ==
    ASSUME NEW n, NEW t, t = Stored(n, LastFile(n))
    PROVE  /\ TensorIs(ToFloat32(t), n, FALSE)
           /\ n[2] \in Projections => TensorIs(ToFloat32(T(t)), n, TRUE)
  <1>1. /\ TensorFields = DOMAIN t
        /\ t.name = n /\ t.file = LastFile(n) /\ t.shape = StoredShape(own, n[2])
        /\ t.dtype = dtype /\ t.transposed = FALSE
    BY DEF Stored, TensorFields
  <1>2. TensorIs(ToFloat32(t), n, FALSE)
    BY <1>1, Cast DEF TensorIs
  <1>3. ASSUME n[2] \in Projections
        PROVE  TensorIs(ToFloat32(T(t)), n, TRUE)
    <2>1. PICK a, b : StoredShape(own, n[2]) = <<a, b>>
      BY <1>3, ProjectionShapes
    <2>2. t.shape = <<a, b>>
      BY <1>1, <2>1
    <2>3. /\ T(t).name = t.name /\ T(t).file = t.file /\ T(t).dtype = t.dtype
          /\ T(t).shape = <<b, a>> /\ T(t).transposed = ~ t.transposed
          /\ TensorFields = DOMAIN T(t)
      BY <1>1, <2>2, Transposed
    <2>4. T(t).shape = Turned(StoredShape(own, n[2]))
      BY <2>1, <2>3 DEF Turned
    <2>5. QED
      BY <2>3, <2>4, <1>1, Cast DEF TensorIs
  <1>4. QED
    BY <1>2, <1>3

\* When all files are merged, a tensor is that of the last file with its name,
\* and every name of a file has one.
LEMMA AllMerged ==
    ASSUME SourceOK, TensorsMerged, merged = Len(files)
    PROVE  /\ \A n \in DOMAIN tensors : tensors[n] = Stored(n, LastFile(n))
           /\ DOMAIN tensors = Named
  <1>1. /\ files \in Seq(SUBSET AllNames) /\ DOMAIN files = 1 .. merged
        /\ merged \in Nat
    BY DEF SourceOK
  <1>2. ASSUME NEW n \in DOMAIN tensors
        PROVE  tensors[n] = Stored(n, LastFile(n))
    <2> DEFINE S == {k \in DOMAIN files : n \in files[k]}
    <2>1. PICK k \in 1 .. merged :
            /\ n \in files[k] /\ tensors[n] = Stored(n, k)
            /\ \A j \in 1 .. merged : n \in files[j] => j <= k
      BY <1>2 DEF TensorsMerged, LooksUp, ConfigIs
    <2>2. S \in SUBSET Int /\ k \in S /\ \A j \in S : j <= k
      BY <1>1, <2>1
    <2>3. Max(S) = k
      BY <2>2, LargestIs
    <2>4. QED
      BY <2>1, <2>3 DEF LastFile
  <1>3. ASSUME NEW n
        PROVE  n \in DOMAIN tensors <=> n \in Named
    <2>1. n \in DOMAIN tensors
            <=> n \in AllNames /\ \E k \in 1 .. merged : n \in files[k]
      BY DEF TensorsMerged, LooksUp, ConfigIs
    <2>2. n \in Named <=> \E k \in 1 .. merged : n \in files[k]
      BY <1>1 DEF Named
    <2>3. \A k \in 1 .. merged : files[k] \in SUBSET AllNames
      BY <1>1
    <2>4. QED
      BY <2>1, <2>2, <2>3
  <1>4. QED
    BY <1>2, <1>3

-----------------------------------------------------------------------------
(* The invariant holds at first, and each action keeps it *)

LEMMA InitLInv == Init => LInv
  <1> SUFFICES ASSUME Init
               PROVE  LInv
    OBVIOUS
  <1>1. /\ own \in {Assumed} \cup Configs
        /\ caller = "random" => own = Assumed /\ dtype = "float32"
        /\ dtype \in {"float32", "bfloat16"}
    BY LoadedModelAssumption DEF Init
  <1>2. files \in Seq(SUBSET AllNames)
    <2>1. Names \subseteq AllNames /\ Names \cup {LmHead} \subseteq AllNames
      BY DEF AllNames, Names
    <2>2. Layouts(Names) \cup Layouts(Names \cup {LmHead}) \subseteq Seq(SUBSET AllNames)
      BY <2>1, LayoutsAreLists
    <2>3. <<>> \in Seq(SUBSET AllNames)
      OBVIOUS
    <2>4. QED
      BY <2>2, <2>3 DEF Init
  <1>3. Len(files) \in Nat
    BY <1>2
  <1>a. /\ caller \in Callers /\ pc = "config" /\ outcome = "none"
        /\ merged = 0 /\ tensors = <<>> /\ hidden = <<>> /\ ran = 0
    BY DEF Init
  <1>4. SourceOK
    BY <1>1, <1>2, <1>3, <1>a DEF SourceOK, Outcomes
  <1>5. TensorsMerged
    <2>1. DOMAIN tensors = {}
      BY <1>a
    <2>2. ~ LooksUp
      BY <1>a DEF LooksUp, Loaded
    <2>3. QED
      BY <1>a, <2>1, <2>2 DEF TensorsMerged
  <1>6. WeightsRight
    BY <1>a DEF WeightsRight, Loaded
  <1>7. PassRight
    <2>1. Config.layers \in Nat
      BY <1>4, ConfigFacts
    <2>2. QED
      BY <1>a, <2>1 DEF PassRight
  <1>8. Causes
    BY <1>a DEF Causes
  <1>9. QED
    BY <1>4, <1>5, <1>6, <1>7, <1>8 DEF LInv

\* What depends on nothing but the source of a checkpoint stays.
LEMMA SourceStays ==
    ASSUME UNCHANGED source
    PROVE  /\ AllNames' = AllNames /\ Config' = Config /\ FlowType' = FlowType
           /\ Named' = Named
  BY DEF source, AllNames, Config, FlowType, Named

LEMMA ReadConfigKeeps == LInv /\ ReadConfig => LInv'
  <1> SUFFICES ASSUME LInv, ReadConfig
               PROVE  LInv'
    OBVIOUS
  <1>1. /\ SourceOK /\ TensorsMerged /\ WeightsRight /\ PassRight /\ Causes
        /\ caller # "random" /\ outcome = "none" /\ pc = "config"
        /\ UNCHANGED <<caller, own, config_json, dtype, files, merged, tensors, weights, hidden, ran>>
        /\ AllNames' = AllNames /\ Config' = Config
    BY SourceStays DEF LInv, ReadConfig, source, SourceOK
  <1>a. \/ pc' = "over" /\ outcome' = "FileNotFoundError" /\ ConfigIs("missing")
        \/ pc' = "over" /\ outcome' = "KeyError" /\ ConfigIs("incomplete")
        \/ /\ pc' = "over" /\ outcome' = "ValueError" /\ caller = "script"
           /\ config_json = "not JSON" \/ own # Assumed
        \/ pc' = "merge" /\ outcome' = outcome
    <2>1. CASE caller = "script" /\ ConfigError # {}
      <3>1. PICK error \in ConfigError : pc' = "over" /\ outcome' = error
        BY <2>1 DEF ReadConfig, Stop
      <3>2. Mismatches(own) # {} => own # Assumed
        BY DEF Mismatches
      <3>3. QED
        BY <2>1, <3>1, <3>2 DEF ConfigError, ConfigIs
    <2>2. CASE ~ (caller = "script" /\ ConfigError # {})
      BY <2>2 DEF ReadConfig
    <2>3. QED
      BY <2>1, <2>2
  <1>2. SourceOK'
    BY <1>1, <1>a DEF SourceOK, Outcomes
  <1>3. TensorsMerged'
    BY <1>1, <1>a DEF TensorsMerged, LooksUp, ConfigIs, Loaded, Stored
  <1>4. WeightsRight'
    BY <1>1, <1>a DEF WeightsRight, Loaded
  <1>5. PassRight'
    BY <1>1, <1>a DEF PassRight
  <1>6. Causes'
    BY <1>1, <1>a DEF Causes, ConfigIs
  <1>7. QED
    BY <1>2, <1>3, <1>4, <1>5, <1>6 DEF LInv

LEMMA MergeFileKeeps == LInv /\ MergeFile => LInv'
  <1> SUFFICES ASSUME LInv, MergeFile
               PROVE  LInv'
    OBVIOUS
  <1>1. /\ SourceOK /\ TensorsMerged /\ PassRight /\ Causes
        /\ pc = "merge" /\ outcome = "none" /\ merged < Len(files)
        /\ UNCHANGED <<caller, own, config_json, dtype, files, pc, weights, hidden, ran, outcome>>
        /\ AllNames' = AllNames /\ Config' = Config
        /\ merged' = merged + 1
        /\ tensors' = [n \in DOMAIN tensors \cup files[merged'] |->
                          IF n \in files[merged'] THEN Stored(n, merged') ELSE tensors[n]]
    BY SourceStays DEF LInv, MergeFile, source, SourceOK
  <1>2. /\ files \in Seq(SUBSET AllNames) /\ merged \in Nat /\ Len(files) \in Nat
        /\ merged' \in 1 .. Len(files) /\ files[merged'] \in SUBSET AllNames
    BY <1>1 DEF SourceOK
  <1>3. SourceOK'
    BY <1>1, <1>2 DEF SourceOK
  <1>4. TensorsMerged'
    <2>1. \A n, k : Stored(n, k)' = Stored(n, k)
      BY <1>1 DEF Stored
    <2>2. \A k : k \in 1 .. merged' <=> k \in 1 .. merged \/ k = merged'
      BY <1>1, <1>2
    <2>3. DOMAIN tensors' = {n \in AllNames' : \E k \in 1 .. merged' : n \in files'[k]}
      <3>1. DOMAIN tensors = {n \in AllNames : \E k \in 1 .. merged : n \in files[k]}
        BY <1>1 DEF TensorsMerged, LooksUp, ConfigIs
      <3>2. DOMAIN tensors' = DOMAIN tensors \cup files[merged']
        BY <1>1
      <3>3. QED
        BY <1>1, <1>2, <2>2, <3>1, <3>2
    <2>4. ASSUME NEW n \in DOMAIN tensors'
          PROVE  \E k \in 1 .. merged' :
                    /\ n \in files[k] /\ tensors'[n] = Stored(n, k)
                    /\ \A j \in 1 .. merged' : n \in files[j] => j <= k
      <3>1. CASE n \in files[merged']
        <4>1. tensors'[n] = Stored(n, merged')
          BY <1>1, <3>1
        <4>2. merged' \in 1 .. merged' /\ \A j \in 1 .. merged' : j <= merged'
          BY <1>2
        <4>3. QED
          BY <3>1, <4>1, <4>2
      <3>2. CASE n \notin files[merged']
        <4>1. n \in DOMAIN tensors /\ tensors'[n] = tensors[n]
          BY <1>1, <3>2
        <4>2. PICK k \in 1 .. merged :
                /\ n \in files[k] /\ tensors[n] = Stored(n, k)
                /\ \A j \in 1 .. merged : n \in files[j] => j <= k
          BY <1>1, <4>1 DEF TensorsMerged, LooksUp, ConfigIs
        <4>3. QED
          BY <2>2, <3>2, <4>1, <4>2
      <3>3. QED
        BY <3>1, <3>2
    <2>5. \A n \in DOMAIN tensors' : \E k \in 1 .. merged' :
             /\ n \in files'[k] /\ tensors'[n] = Stored(n, k)'
             /\ \A j \in 1 .. merged' : n \in files'[j] => j <= k
      BY <1>1, <2>1, <2>4
    <2>6. ~ (pc' = "load" \/ Loaded' \/ outcome' = "KeyError")
      BY <1>1 DEF Loaded
    <2>7. QED
      BY <2>3, <2>5, <2>6 DEF TensorsMerged, LooksUp, ConfigIs
  <1>5. WeightsRight'
    BY <1>1 DEF WeightsRight, Loaded
  <1>6. PassRight'
    BY <1>1 DEF PassRight
  <1>7. Causes'
    BY <1>1 DEF Causes, ConfigIs
  <1>8. QED
    BY <1>3, <1>4, <1>5, <1>6, <1>7 DEF LInv

LEMMA EndMergeKeeps == LInv /\ EndMerge => LInv'
  <1> SUFFICES ASSUME LInv, EndMerge
               PROVE  LInv'
    OBVIOUS
  <1>1. /\ SourceOK /\ TensorsMerged /\ PassRight /\ Causes
        /\ pc = "merge" /\ outcome = "none" /\ merged = Len(files)
        /\ caller # "random"
        /\ UNCHANGED <<caller, own, config_json, dtype, files, merged, tensors, weights, hidden, ran>>
        /\ AllNames' = AllNames /\ Config' = Config
        /\ \/ files = <<>> /\ pc' = "over" /\ outcome' = "FileNotFoundError"
           \/ pc' = "load" /\ outcome' = outcome
    BY SourceStays DEF LInv, EndMerge, Stop, source, SourceOK
  <1>2. SourceOK'
    BY <1>1 DEF SourceOK, Outcomes
  <1>3. TensorsMerged'
    BY <1>1 DEF TensorsMerged, LooksUp, ConfigIs, Loaded, Stored
  <1>4. WeightsRight'
    BY <1>1 DEF WeightsRight, Loaded
  <1>5. PassRight'
    BY <1>1 DEF PassRight
  <1>6. Causes'
    BY <1>1 DEF Causes, ConfigIs
  <1>7. QED
    BY <1>2, <1>3, <1>4, <1>5, <1>6 DEF LInv

LEMMA RandomWeightsKeeps == LInv /\ RandomWeights => LInv'
  <1> SUFFICES ASSUME LInv, RandomWeights
               PROVE  LInv'
    OBVIOUS
  <1> DEFINE Made(n) == [name |-> n, file |-> 0, shape |-> StoredShape(Config, n[2]),
                         dtype |-> "float32", transposed |-> FALSE]
  <1>1. /\ SourceOK /\ TensorsMerged /\ PassRight /\ Causes
        /\ caller = "random" /\ outcome = "none" /\ pc = "config" /\ pc' = "pass"
        /\ UNCHANGED <<caller, own, config_json, dtype, files, merged, tensors, hidden, ran, outcome>>
        /\ AllNames' = AllNames /\ Config' = Config /\ FlowType' = FlowType
        /\ weights' =
             [embed |-> Made(Embed), norm |-> Made(Norm), lm_head |-> {},
              layers |-> [i \in 1 .. Config.layers |-> [f \in LayerNames |->
                IF f \in Projections THEN T(Made(<<i - 1, f>>)) ELSE Made(<<i - 1, f>>)]]]
    BY SourceStays DEF LInv, RandomWeights, source, SourceOK
  <1>2. /\ Config = own /\ FlowType = "float32" /\ Config.layers \in Nat
    BY <1>1, ConfigFacts DEF FlowType, SourceOK
  <1>3. ASSUME NEW n
        PROVE  /\ TensorIs(Made(n), n, FALSE)
               /\ n[2] \in Projections => TensorIs(T(Made(n)), n, TRUE)
    <2>1. /\ TensorFields = DOMAIN Made(n)
          /\ Made(n).name = n /\ Made(n).shape = StoredShape(own, n[2])
          /\ Made(n).dtype = FlowType /\ Made(n).transposed = FALSE
      BY <1>2 DEF TensorFields
    <2> HIDE DEF Made
    <2>2. TensorIs(Made(n), n, FALSE)
      BY <1>1, <2>1 DEF TensorIs
    <2>3. ASSUME n[2] \in Projections
          PROVE  TensorIs(T(Made(n)), n, TRUE)
      <3>1. PICK a, b : StoredShape(own, n[2]) = <<a, b>>
        BY <2>3, ProjectionShapes
      <3>2. /\ T(Made(n)).name = Made(n).name /\ T(Made(n)).dtype = Made(n).dtype
            /\ T(Made(n)).shape = <<b, a>>
            /\ T(Made(n)).transposed = ~ Made(n).transposed
            /\ TensorFields = DOMAIN T(Made(n))
        BY <2>1, <3>1, Transposed
      <3>3. T(Made(n)).shape = Turned(StoredShape(own, n[2]))
        BY <3>1, <3>2 DEF Turned
      <3>4. QED
        BY <1>1, <2>1, <3>2, <3>3 DEF TensorIs
    <2>4. QED
      BY <2>2, <2>3
  <1>4. ASSUME NEW t, NEW n, NEW turned, TensorIs(t, n, turned)
        PROVE  /\ t.name = n /\ t.transposed = turned
               /\ t.shape = IF turned THEN Turned(StoredShape(own, n[2]))
                                      ELSE StoredShape(own, n[2])
               /\ t.dtype = FlowType
               /\ TensorFields = DOMAIN t
    BY <1>4 DEF TensorIs
  <1>5. ASSUME NEW i \in 1 .. Config.layers, NEW f \in LayerNames
        PROVE  TensorIs(weights'.layers[i][f], <<i - 1, f>>, f \in Projections)
    <2>1. weights'.layers[i][f] =
            IF f \in Projections THEN T(Made(<<i - 1, f>>)) ELSE Made(<<i - 1, f>>)
      BY <1>1
    <2>2. /\ TensorIs(Made(<<i - 1, f>>), <<i - 1, f>>, FALSE)
          /\ f \in Projections => TensorIs(T(Made(<<i - 1, f>>)), <<i - 1, f>>, TRUE)
      BY <1>3
    <2> HIDE DEF Made
    <2>3. CASE f \in Projections
      <3>1. (f \in Projections) = TRUE
        BY <2>3
      <3>2. QED
        BY <2>1, <2>2, <2>3, <3>1
    <2>4. CASE f \notin Projections
      <3>1. (f \in Projections) = FALSE
        BY <2>4
      <3>2. QED
        BY <2>1, <2>2, <2>4, <3>1
    <2>5. QED
      BY <2>3, <2>4
  <1>6. /\ TensorIs(weights'.embed, Embed, FALSE)
        /\ TensorIs(weights'.norm, Norm, FALSE)
        /\ weights'.lm_head = {}
        /\ DOMAIN weights'.layers = 1 .. Config.layers
        /\ Len(weights'.layers) = Config.layers
    <2> DEFINE layers == [i \in 1 .. Config.layers |-> [f \in LayerNames |->
                  IF f \in Projections THEN T(Made(<<i - 1, f>>)) ELSE Made(<<i - 1, f>>)]]
    <2>1. /\ weights'.embed = Made(Embed) /\ weights'.norm = Made(Norm)
          /\ weights'.lm_head = {} /\ weights'.layers = layers
      BY <1>1
    <2>2. DOMAIN layers = 1 .. Config.layers
      OBVIOUS
    <2>3. Len(layers) = Config.layers
      BY <1>2
    <2> HIDE DEF Made, layers
    <2>4. QED
      BY <1>3, <2>1, <2>2, <2>3
  <1> HIDE DEF Made
  <1>7. SourceOK'
    BY <1>1 DEF SourceOK, Outcomes
  <1>8. TensorsMerged'
    BY <1>1 DEF TensorsMerged, LooksUp, ConfigIs, Stored
  <1>9. WeightsRight'
    <2>1. ASSUME NEW i \in 1 .. Config.layers, NEW f \in LayerNames
          PROVE  TensorIs(weights.layers[i][f], <<i - 1, f>>, f \in Projections)'
      <3> DEFINE t == weights'.layers[i][f]
      <3>1. TensorIs(t, <<i - 1, f>>, f \in Projections)
        BY <1>5
      <3> HIDE DEF t
      <3>2. /\ t.name = <<i - 1, f>> /\ t.transposed = (f \in Projections)
            /\ t.shape = IF f \in Projections THEN Turned(StoredShape(own, f))
                                              ELSE StoredShape(own, f)
            /\ t.dtype = FlowType
            /\ TensorFields = DOMAIN t
        BY <3>1 DEF TensorIs
      <3>3. QED
        BY <1>1, <3>2 DEF t, TensorIs
    <2>2. /\ TensorIs(weights.embed, Embed, FALSE)'
          /\ TensorIs(weights.norm, Norm, FALSE)'
      BY <1>1, <1>4, <1>6 DEF TensorIs, Embed, Norm
    <2>3. QED
      BY <1>1, <1>6, <2>1, <2>2 DEF WeightsRight
  <1>10. PassRight'
    <2>1. hidden = <<>>
      BY <1>1 DEF PassRight
    <2>2. QED
      BY <1>1, <1>2, <2>1 DEF PassRight
  <1>11. Causes'
    BY <1>1 DEF Causes, ConfigIs
  <1>12. QED
    BY <1>7, <1>8, <1>9, <1>10, <1>11 DEF LInv

\* Loading gives each layer its tensors, by name.
LEMMA LoadKeeps == LInv /\ Load => LInv'
  <1> SUFFICES ASSUME LInv, Load
               PROVE  LInv'
    OBVIOUS
  <1> DEFINE there == Wanted(Config.layers) \subseteq DOMAIN tensors
             layers == [i \in 1 .. Config.layers |->
                          [f \in LayerNames |-> ToFloat32(LayerWeights(i - 1)[f])]]
  <1>1. /\ SourceOK /\ TensorsMerged /\ PassRight /\ Causes
        /\ pc = "load" /\ outcome = "none" /\ caller # "random"
        /\ merged = Len(files) /\ hidden = <<>>
        /\ UNCHANGED <<caller, own, config_json, dtype, files, merged, tensors, hidden, ran>>
        /\ AllNames' = AllNames /\ Config' = Config /\ FlowType' = FlowType
    BY SourceStays DEF LInv, Load, source, SourceOK, TensorsMerged, LooksUp, ConfigIs, PassRight
  <1>2. /\ Config.layers \in Nat \ {0}
        /\ \A n \in DOMAIN tensors : tensors[n] = Stored(n, LastFile(n))
    BY <1>1, ConfigFacts, AllMerged
  <1>3. TensorsMerged'
    BY <1>1 DEF TensorsMerged, LooksUp, ConfigIs, Stored
  <1>4. CASE ~ there
    <2>1. pc' = "over" /\ outcome' = "KeyError"
      BY <1>4 DEF Load, Stop, LayersToLoad
    <2>2. SourceOK'
      BY <1>1, <2>1 DEF SourceOK, Outcomes
    <2>3. WeightsRight'
      BY <2>1 DEF WeightsRight, Loaded
    <2>4. PassRight'
      BY <1>1, <2>1 DEF PassRight
    <2>5. Causes'
      BY <1>1, <1>4, <2>1 DEF Causes, ConfigIs
    <2>6. QED
      BY <1>3, <2>2, <2>3, <2>4, <2>5 DEF LInv
  <1>5. CASE there
    <2>1. /\ pc' = "pass" /\ outcome' = "none"
          /\ weights' =
               [embed   |-> ToFloat32(tensors[Embed]),
                norm    |-> ToFloat32(tensors[Norm]),
                lm_head |-> {ToFloat32(tensors[n]) : n \in DOMAIN tensors \cap {LmHead}},
                layers  |-> layers]
      BY <1>1, <1>5 DEF Load, LayersToLoad
    <2>2. ASSUME NEW n \in DOMAIN tensors
          PROVE  /\ TensorIs(ToFloat32(tensors[n]), n, FALSE)
                 /\ n[2] \in Projections => TensorIs(ToFloat32(T(tensors[n])), n, TRUE)
      BY <1>2, LoadedAs
    <2>3. ASSUME NEW i \in 1 .. Config.layers, NEW f \in LayerNames
          PROVE  TensorIs(layers[i][f], <<i - 1, f>>, f \in Projections)
      <3> DEFINE n == <<i - 1, f>>
      <3>1. layers[i][f] = ToFloat32(IF f \in Projections THEN T(tensors[n]) ELSE tensors[n])
        BY DEF LayerWeights
      <3>2. n \in DOMAIN tensors
        <4>1. i - 1 \in 0 .. Config.layers - 1
          BY <1>2
        <4>2. QED
          BY <1>5, <4>1 DEF Wanted
      <3>3. /\ TensorIs(ToFloat32(tensors[n]), n, FALSE)
            /\ f \in Projections => TensorIs(ToFloat32(T(tensors[n])), n, TRUE)
        BY <2>2, <3>2
      <3> HIDE DEF layers
      <3>4. CASE f \in Projections
        <4>1. (f \in Projections) = TRUE
          BY <3>4
        <4>2. QED
          BY <3>1, <3>3, <3>4, <4>1
      <3>5. CASE f \notin Projections
        <4>1. (f \in Projections) = FALSE
          BY <3>5
        <4>2. QED
          BY <3>1, <3>3, <3>5, <4>1
      <3>6. QED
        BY <3>4, <3>5
    <2>4. DOMAIN layers = 1 .. Config.layers
      OBVIOUS
    <2>5. Len(layers) = Config.layers
      BY <1>2
    <2> HIDE DEF layers
    <2>6. Embed \in DOMAIN tensors /\ Norm \in DOMAIN tensors
      BY <1>5 DEF Wanted
    <2>7. /\ TensorIs(weights'.embed, Embed, FALSE)
          /\ TensorIs(weights'.norm, Norm, FALSE)
      BY <2>1, <2>2, <2>6
    <2>8. /\ weights'.lm_head # {} <=> LmHead \in DOMAIN tensors
          /\ \A t \in weights'.lm_head : TensorIs(t, LmHead, FALSE)
      BY <2>1, <2>2
    <2>9. ASSUME NEW t, NEW n, NEW turned, TensorIs(t, n, turned)
          PROVE  /\ t.name = n /\ t.transposed = turned
                 /\ t.shape = IF turned THEN Turned(StoredShape(own, n[2]))
                                        ELSE StoredShape(own, n[2])
                 /\ t.dtype = FlowType
                 /\ TensorFields = DOMAIN t
                 /\ t.file = LastFile(n)
      BY <1>1, <2>9 DEF TensorIs
    <2>10. \A n : LastFile(n)' = LastFile(n)
      BY <1>1 DEF LastFile
    <2>11. SourceOK'
      BY <1>1, <2>1 DEF SourceOK, Outcomes
    <2>12. WeightsRight'
      <3>1. ASSUME NEW i \in 1 .. Config.layers, NEW f \in LayerNames
            PROVE  TensorIs(weights.layers[i][f], <<i - 1, f>>, f \in Projections)'
        <4> DEFINE t == layers[i][f]
        <4>1. TensorIs(t, <<i - 1, f>>, f \in Projections) /\ weights'.layers[i][f] = t
          BY <2>1, <2>3
        <4> HIDE DEF t
        <4>2. /\ t.name = <<i - 1, f>> /\ t.transposed = (f \in Projections)
              /\ t.shape = IF f \in Projections THEN Turned(StoredShape(own, f))
                                                ELSE StoredShape(own, f)
              /\ t.dtype = FlowType /\ t.file = LastFile(<<i - 1, f>>)
              /\ TensorFields = DOMAIN t
          BY <1>1, <4>1 DEF TensorIs
        <4>3. QED
          BY <1>1, <4>1, <4>2, <2>10 DEF TensorIs
      <3>2. /\ TensorIs(weights.embed, Embed, FALSE)'
            /\ TensorIs(weights.norm, Norm, FALSE)'
        BY <1>1, <2>7, <2>9, <2>10 DEF TensorIs, Embed, Norm
      <3>3. \A t \in weights'.lm_head : TensorIs(t, LmHead, FALSE)'
        BY <1>1, <2>8, <2>9, <2>10 DEF TensorIs, LmHead
      <3>4. QED
        BY <1>1, <1>5, <2>1, <2>4, <2>5, <2>8, <3>1, <3>2, <3>3 DEF WeightsRight
    <2>13. PassRight'
      BY <1>1, <2>1 DEF PassRight
    <2>14. Causes'
      BY <1>1, <2>1 DEF Causes, ConfigIs
    <2>15. QED
      BY <1>3, <2>11, <2>12, <2>13, <2>14 DEF LInv
  <1>6. QED
    BY <1>4, <1>5

\* Weights that are there stay as they are while a pass runs.
LEMMA WeightsStay ==
    ASSUME SourceOK, WeightsRight, Loaded, UNCHANGED <<source, tensors, weights>>
    PROVE  WeightsRight'
  <1>1. /\ UNCHANGED <<caller, own, config_json, dtype, files, tensors, weights>>
        /\ Config' = Config /\ FlowType' = FlowType
    BY SourceStays DEF source
  <1>2. \A n : LastFile(n)' = LastFile(n)
    BY <1>1 DEF LastFile
  <1>3. ASSUME NEW i \in 1 .. Config.layers, NEW f \in LayerNames
        PROVE  TensorIs(weights.layers[i][f], <<i - 1, f>>, f \in Projections)'
    <2>1. TensorIs(weights.layers[i][f], <<i - 1, f>>, f \in Projections)
      BY DEF WeightsRight
    <2>2. QED
      BY <1>1, <1>2, <2>1 DEF TensorIs
  <1>4. /\ TensorIs(weights.embed, Embed, FALSE)'
        /\ TensorIs(weights.norm, Norm, FALSE)'
    BY <1>1, <1>2 DEF WeightsRight, TensorIs, Embed, Norm
  <1>5. \A t \in weights'.lm_head : TensorIs(t, LmHead, FALSE)'
    BY <1>1, <1>2 DEF WeightsRight, TensorIs, LmHead
  <1>6. QED
    BY <1>1, <1>3, <1>4, <1>5 DEF WeightsRight

LEMMA LookupKeeps == LInv /\ Lookup => LInv'
  <1> SUFFICES ASSUME LInv, Lookup
               PROVE  LInv'
    OBVIOUS
  <1>1. /\ SourceOK /\ TensorsMerged /\ WeightsRight /\ PassRight /\ Causes
        /\ pc = "pass" /\ outcome = "none" /\ Loaded
        /\ UNCHANGED <<caller, own, config_json, dtype, files, pc, merged, tensors, weights, ran, outcome>>
        /\ UNCHANGED <<source, tensors, weights>>
        /\ AllNames' = AllNames /\ Config' = Config /\ FlowType' = FlowType
        /\ hidden' = [width |-> weights.embed.shape[2], dtype |-> weights.embed.dtype]
    BY SourceStays DEF LInv, Lookup, source, SourceOK, Loaded
  <1>2. weights.embed.shape = <<Vocab, own.hidden>> /\ weights.embed.dtype = FlowType
    BY <1>1, Shapes DEF WeightsRight, TensorIs, Embed
  <1>3. hidden' = [width |-> own.hidden, dtype |-> FlowType]
    BY <1>1, <1>2
  <1>4. SourceOK'
    BY <1>1 DEF SourceOK
  <1>5. TensorsMerged'
    BY <1>1 DEF TensorsMerged, LooksUp, ConfigIs, Stored, Loaded
  <1>6. WeightsRight'
    BY <1>1, WeightsStay
  <1>7. PassRight'
    BY <1>1, <1>3 DEF PassRight
  <1>8. Causes'
    BY <1>1 DEF Causes, ConfigIs
  <1>9. QED
    BY <1>4, <1>5, <1>6, <1>7, <1>8 DEF LInv

\* A layer runs exactly if the heads of the configuration fill the widths of
\* the checkpoint's projections, and what flows has the type of the cache.
LEMMA LayerRuns ==
    ASSUME LInv, pc = "pass", hidden # <<>>, ran < Len(weights.layers)
    PROVE  LET w == weights.layers[ran + 1]
               attn_in == Normed(hidden, w["input_layernorm"])
               mlp_in == Normed(hidden, w["post_attention_layernorm"])
           IN  /\ CanNorm(hidden, w["input_layernorm"])
               /\ CanAttend(attn_in, w) <=>
                    /\ Config.heads * Config.head_dim = own.heads * own.head_dim
                    /\ Config.kv_heads * Config.head_dim = own.kv_heads * own.head_dim
                    /\ CachedType(FlowType) = FlowType
               /\ CanNorm(hidden, w["post_attention_layernorm"])
               /\ CanMlp(mlp_in, w)
  <1> DEFINE w == weights.layers[ran + 1]
             attn_in == Normed(hidden, w["input_layernorm"])
             mlp_in == Normed(hidden, w["post_attention_layernorm"])
             d == FlowType
             x == [width |-> own.hidden, dtype |-> d]
  <1>1. /\ SourceOK /\ WeightsRight /\ Loaded /\ hidden = x
        /\ ran \in 0 .. Config.layers /\ Len(weights.layers) = Config.layers
        /\ Config.layers \in Nat
    BY ConfigFacts DEF LInv, Loaded, PassRight, WeightsRight
  <1>2. ran + 1 \in 1 .. Config.layers
    BY <1>1
  <1>3. ASSUME NEW f \in LayerNames
        PROVE  /\ w[f].dtype = d
               /\ w[f].shape = IF f \in Projections THEN Turned(StoredShape(own, f))
                                                    ELSE StoredShape(own, f)
    BY <1>1, <1>2 DEF WeightsRight, TensorIs
  <1> HIDE DEF w
  <1>4. /\ w["q_proj"].shape = <<own.hidden, own.heads * own.head_dim>>
        /\ w["k_proj"].shape = <<own.hidden, own.kv_heads * own.head_dim>>
        /\ w["v_proj"].shape = <<own.hidden, own.kv_heads * own.head_dim>>
        /\ w["o_proj"].shape = <<own.heads * own.head_dim, own.hidden>>
        /\ w["gate_proj"].shape = <<own.hidden, Inter>>
        /\ w["up_proj"].shape = <<own.hidden, Inter>>
        /\ w["down_proj"].shape = <<Inter, own.hidden>>
        /\ w["input_layernorm"].shape = <<own.hidden>>
        /\ w["post_attention_layernorm"].shape = <<own.hidden>>
    <2>1. /\ Turned(StoredShape(own, "q_proj")) = <<own.hidden, own.heads * own.head_dim>>
          /\ Turned(StoredShape(own, "k_proj")) = <<own.hidden, own.kv_heads * own.head_dim>>
          /\ Turned(StoredShape(own, "v_proj")) = <<own.hidden, own.kv_heads * own.head_dim>>
          /\ Turned(StoredShape(own, "o_proj")) = <<own.heads * own.head_dim, own.hidden>>
          /\ Turned(StoredShape(own, "gate_proj")) = <<own.hidden, Inter>>
          /\ Turned(StoredShape(own, "up_proj")) = <<own.hidden, Inter>>
          /\ Turned(StoredShape(own, "down_proj")) = <<Inter, own.hidden>>
      <3>1. \A a, b : Turned(<<a, b>>) = <<b, a>>
        BY DEF Turned
      <3>2. QED
        BY <3>1, Shapes
    <2>2. /\ StoredShape(own, "input_layernorm") = <<own.hidden>>
          /\ StoredShape(own, "post_attention_layernorm") = <<own.hidden>>
      BY Shapes
    <2>3. \A f \in Projections : w[f].shape = Turned(StoredShape(own, f))
      BY <1>3 DEF LayerNames
    <2>4. \A f \in LayerNames \ Projections : w[f].shape = StoredShape(own, f)
      BY <1>3
    <2>5. QED
      BY <2>1, <2>2, <2>3, <2>4 DEF LayerNames, Projections
  <1>5. \A f \in LayerNames : w[f].dtype = d
    BY <1>3
  <1>6. d \in {"float32", "bfloat16"} /\ Promote(d, d) = d
    BY <1>1 DEF SourceOK, FlowType, Promote
  <1> HIDE DEF d
  <1>7. attn_in = x /\ mlp_in = x
    BY <1>1, <1>5, <1>6 DEF Normed, LayerNames
  <1>8. CanNorm(hidden, w["input_layernorm"]) /\ CanNorm(hidden, w["post_attention_layernorm"])
    BY <1>1, <1>4 DEF CanNorm
  <1>9. CanMlp(x, w)
    BY <1>4, <1>5 DEF CanMlp, CanMultiply, LayerNames, Projections
  <1>10. CanAttend(x, w) <=>
            /\ Config.heads * Config.head_dim = own.heads * own.head_dim
            /\ Config.kv_heads * Config.head_dim = own.kv_heads * own.head_dim
            /\ CachedType(d) = d
    <2>1. /\ Promote(x.dtype, TableType(x.dtype)) = d /\ SoftmaxType(d) = d
          /\ x.width = own.hidden /\ x.dtype = d
      BY <1>6 DEF TableType, SoftmaxType
    <2>2. Config.kv_heads * (Config.heads \div Config.kv_heads) = Config.heads
      BY <1>1, ConfigFacts
    <2>3. \A f \in {"q_proj", "k_proj", "v_proj"} : CanMultiply(x, w[f])
      BY <1>4, <1>5, <2>1 DEF CanMultiply, LayerNames, Projections
    <2>4. /\ w["q_proj"].shape[2] = own.heads * own.head_dim
          /\ w["k_proj"].shape[2] = own.kv_heads * own.head_dim
          /\ w["v_proj"].shape[2] = own.kv_heads * own.head_dim
          /\ w["o_proj"].shape[1] = own.heads * own.head_dim
          /\ w["o_proj"].shape[2] = own.hidden
          /\ w["o_proj"].dtype = d
      BY <1>4, <1>5 DEF LayerNames, Projections
    <2>5. \A v, t : CanMultiply([width |-> v, dtype |-> t], w["o_proj"]) <=>
                        own.heads * own.head_dim = v /\ d = t
      BY <2>4 DEF CanMultiply
    <2> HIDE DEF x
    <2>6. CanAttend(x, w) <=>
            /\ own.heads * own.head_dim = Config.heads * Config.head_dim
            /\ own.kv_heads * own.head_dim = Config.kv_heads * Config.head_dim
            /\ CachedType(d) = d
            /\ d = CachedType(d)
            /\ own.heads * own.head_dim = Config.heads * Config.head_dim /\ d = CachedType(d)
      BY <2>1, <2>2, <2>3, <2>4, <2>5 DEF CanAttend
    <2>7. QED
      BY <2>6
  <1>11. QED
    BY <1>7, <1>8, <1>9, <1>10 DEF w, d

LEMMA RunLayerKeeps == LInv /\ RunLayer => LInv'
  <1> SUFFICES ASSUME LInv, RunLayer
               PROVE  LInv'
    OBVIOUS
  <1> DEFINE fits ==
               /\ Config.heads * Config.head_dim = own.heads * own.head_dim
               /\ Config.kv_heads * Config.head_dim = own.kv_heads * own.head_dim
               /\ CachedType(FlowType) = FlowType
  <1>1. /\ SourceOK /\ TensorsMerged /\ WeightsRight /\ PassRight /\ Causes
        /\ pc = "pass" /\ outcome = "none" /\ Loaded /\ hidden # <<>>
        /\ ran < Len(weights.layers)
        /\ UNCHANGED <<caller, own, config_json, dtype, files, merged, tensors, weights, hidden>>
        /\ UNCHANGED <<source, tensors, weights>>
        /\ AllNames' = AllNames /\ Config' = Config /\ FlowType' = FlowType
    BY SourceStays DEF LInv, RunLayer, source, SourceOK, Loaded
  <1>2. /\ Len(weights.layers) = Config.layers /\ Config.layers \in Nat
        /\ ran \in 0 .. Config.layers /\ hidden = [width |-> own.hidden, dtype |-> FlowType]
    BY <1>1, ConfigFacts DEF WeightsRight, PassRight
  <1>3. IF fits THEN ran' = ran + 1 /\ pc' = pc /\ outcome' = outcome
                ELSE pc' = "over" /\ outcome' = "RuntimeError" /\ ran' = ran
    BY <1>1, LayerRuns DEF RunLayer, Stop
  <1>4. ~ fits => Config # own \/ (caller = "server" /\ dtype = "bfloat16")
    BY <1>1 DEF CachedType, FlowType, SourceOK
  <1> HIDE DEF fits
  <1>5. TensorsMerged'
    BY <1>1 DEF TensorsMerged, LooksUp, ConfigIs, Stored, Loaded
  <1>6. WeightsRight'
    BY <1>1, WeightsStay
  <1>7. CASE fits
    <2>1. SourceOK'
      BY <1>1, <1>3, <1>7 DEF SourceOK
    <2>2. PassRight'
      <3>1. ran' \in 0 .. Config.layers
        BY <1>1, <1>2, <1>3, <1>7
      <3>2. QED
        BY <1>1, <1>2, <1>3, <1>7, <3>1 DEF PassRight, fits
    <2>3. Causes'
      BY <1>1, <1>3, <1>7 DEF Causes, ConfigIs
    <2>4. QED
      BY <1>5, <1>6, <2>1, <2>2, <2>3 DEF LInv
  <1>8. CASE ~ fits
    <2>1. SourceOK'
      BY <1>1, <1>3, <1>8 DEF SourceOK, Outcomes
    <2>2. PassRight'
      BY <1>1, <1>2, <1>3, <1>8 DEF PassRight
    <2>3. Causes'
      BY <1>1, <1>3, <1>4, <1>8 DEF Causes, ConfigIs
    <2>4. QED
      BY <1>5, <1>6, <2>1, <2>2, <2>3 DEF LInv
  <1>9. QED
    BY <1>7, <1>8

\* The table that the logits are taken with: lm_head's, or the embedding's.
LEMMA OutputTable ==
    ASSUME SourceOK, WeightsRight, Loaded
    PROVE  /\ output_projection.shape = <<own.hidden, Vocab>>
           /\ output_projection.dtype = FlowType
           /\ output_projection.transposed
           /\ caller # "random" =>
                LET n == IF LmHead \in DOMAIN tensors THEN LmHead ELSE Embed
                IN  IsFrom(output_projection, n)
  <1> DEFINE t == IF weights.lm_head # {} THEN CHOOSE u \in weights.lm_head : TRUE
                                          ELSE weights.embed
             n == IF weights.lm_head # {} THEN LmHead ELSE Embed
  <1>1. TensorIs(t, n, FALSE)
    <2>1. CASE weights.lm_head # {}
      <3>1. t \in weights.lm_head
        BY <2>1
      <3>2. n = LmHead
        BY <2>1
      <3> HIDE DEF t, n
      <3>3. QED
        BY <3>1, <3>2 DEF WeightsRight
    <2>2. CASE weights.lm_head = {}
      BY <2>2 DEF WeightsRight
    <2>3. QED
      BY <2>1, <2>2
  <1>2. StoredShape(own, n[2]) = <<Vocab, own.hidden>>
    BY Shapes DEF LmHead, Embed
  <1>3. output_projection = T(t)
    BY DEF output_projection
  <1>4. caller # "random" => n = IF LmHead \in DOMAIN tensors THEN LmHead ELSE Embed
    BY DEF WeightsRight
  <1> HIDE DEF t, n
  <1>5. /\ TensorFields = DOMAIN t /\ t.name = n /\ t.transposed = FALSE
        /\ t.shape = <<Vocab, own.hidden>> /\ t.dtype = FlowType
        /\ caller # "random" => t.file = LastFile(n)
    BY <1>1, <1>2 DEF TensorIs
  <1>6. /\ T(t).name = t.name /\ T(t).file = t.file /\ T(t).dtype = t.dtype
        /\ T(t).shape = <<own.hidden, Vocab>> /\ T(t).transposed = ~ t.transposed
    BY <1>5, Transposed
  <1>7. QED
    BY <1>3, <1>4, <1>5, <1>6 DEF IsFrom

LEMMA LogitsKeeps == LInv /\ Logits => LInv'
  <1> SUFFICES ASSUME LInv, Logits
               PROVE  LInv'
    OBVIOUS
  <1> DEFINE x == Normed(hidden, weights.norm)
  <1>1. /\ SourceOK /\ TensorsMerged /\ WeightsRight /\ PassRight /\ Causes
        /\ pc = "pass" /\ outcome = "none" /\ Loaded /\ hidden # <<>>
        /\ ran = Len(weights.layers)
        /\ UNCHANGED <<caller, own, config_json, dtype, files, merged, tensors, weights, ran>>
        /\ UNCHANGED <<source, tensors, weights>>
        /\ AllNames' = AllNames /\ Config' = Config /\ FlowType' = FlowType
    BY SourceStays DEF LInv, Logits, source, SourceOK, Loaded
  <1>2. /\ Len(weights.layers) = Config.layers
        /\ hidden = [width |-> own.hidden, dtype |-> FlowType]
        /\ weights.norm.shape = <<own.hidden>> /\ weights.norm.dtype = FlowType
    BY <1>1, Shapes DEF WeightsRight, PassRight, TensorIs, Norm
  <1>3. /\ output_projection.shape = <<own.hidden, Vocab>>
        /\ output_projection.dtype = FlowType
    BY <1>1, OutputTable
  <1>4. Promote(FlowType, FlowType) = FlowType
    BY <1>1 DEF SourceOK, FlowType, Promote
  <1>5. x = hidden
    BY <1>2, <1>4 DEF Normed
  <1> HIDE DEF x
  <1>6. CanNorm(hidden, weights.norm) /\ CanMultiply(x, output_projection)
    BY <1>2, <1>3, <1>5 DEF CanNorm, CanMultiply
  <1>7. /\ hidden' = [x EXCEPT !.width = output_projection.shape[2]]
        /\ pc' = "over" /\ outcome' = "logits"
    BY <1>6 DEF Logits, Stop, x
  <1>8. hidden' = [width |-> Vocab, dtype |-> FlowType]
    BY <1>2, <1>3, <1>5, <1>7
  <1>9. SourceOK'
    BY <1>1, <1>7 DEF SourceOK, Outcomes
  <1>10. TensorsMerged'
    BY <1>1, <1>7 DEF TensorsMerged, LooksUp, ConfigIs, Stored, Loaded
  <1>11. WeightsRight'
    BY <1>1, WeightsStay
  <1>12. PassRight'
    BY <1>1, <1>2, <1>7, <1>8 DEF PassRight
  <1>13. Causes'
    BY <1>1, <1>7 DEF Causes, ConfigIs
  <1>14. QED
    BY <1>9, <1>10, <1>11, <1>12, <1>13 DEF LInv

LEMMA LInvStep == LInv /\ [Next]_vars => LInv'
  <1> SUFFICES ASSUME LInv, [Next]_vars
               PROVE  LInv'
    OBVIOUS
  <1>1. CASE ReadConfig
    BY <1>1, ReadConfigKeeps
  <1>2. CASE RandomWeights
    BY <1>2, RandomWeightsKeeps
  <1>3. CASE MergeFile
    BY <1>3, MergeFileKeeps
  <1>4. CASE EndMerge
    BY <1>4, EndMergeKeeps
  <1>5. CASE Load
    BY <1>5, LoadKeeps
  <1>6. CASE Lookup
    BY <1>6, LookupKeeps
  <1>7. CASE RunLayer
    BY <1>7, RunLayerKeeps
  <1>8. CASE Logits
    BY <1>8, LogitsKeeps
  <1>9. CASE UNCHANGED vars
    <2>1. /\ SourceOK /\ TensorsMerged /\ WeightsRight /\ PassRight /\ Causes
          /\ UNCHANGED <<source, tensors, weights>> /\ AllNames' = AllNames
          /\ UNCHANGED <<caller, own, config_json, dtype, files, pc, merged, tensors, weights,
                         hidden, ran, outcome>>
          /\ Config' = Config /\ FlowType' = FlowType
      BY <1>9, SourceStays DEF LInv, vars, source
    <2>2. SourceOK'
      BY <2>1 DEF SourceOK
    <2>3. TensorsMerged'
      BY <2>1 DEF TensorsMerged, LooksUp, ConfigIs, Stored, Loaded
    <2>4. WeightsRight'
      <3>1. CASE Loaded
        BY <2>1, <3>1, WeightsStay
      <3>2. CASE ~ Loaded
        BY <2>1, <3>2 DEF WeightsRight, Loaded
      <3>3. QED
        BY <3>1, <3>2
    <2>5. PassRight' /\ Causes'
      BY <2>1 DEF PassRight, Causes, ConfigIs
    <2>6. QED
      BY <2>2, <2>3, <2>4, <2>5 DEF LInv
  <1>10. QED
    BY <1>1, <1>2, <1>3, <1>4, <1>5, <1>6, <1>7, <1>8, <1>9 DEF Next

\* What loading and a pass keep to, for every set of configurations.
THEOREM LoadedInvariantHolds == Spec => []LInv
  BY InitLInv, LInvStep, PTL DEF Spec

-----------------------------------------------------------------------------
(* What it gives *)

LEMMA InvariantRunsTheCheckpoint == LInv => RunsTheCheckpoint
  <1> SUFFICES ASSUME LInv, outcome = "logits", caller # "random"
               PROVE  RunsTheCheckpoint
    BY DEF RunsTheCheckpoint
  <1>1. SourceOK /\ TensorsMerged /\ WeightsRight /\ Loaded /\ merged = Len(files)
    BY DEF LInv, Loaded, TensorsMerged, LooksUp, ConfigIs
  <1>2. DOMAIN tensors = Named
    BY <1>1, AllMerged
  <1>3. ASSUME NEW i \in DOMAIN weights.layers, NEW f \in LayerNames
        PROVE  /\ IsFrom(weights.layers[i][f], <<i - 1, f>>)
               /\ weights.layers[i][f].transposed <=> f \in Projections
    <2>1. TensorIs(weights.layers[i][f], <<i - 1, f>>, f \in Projections)
      BY <1>1 DEF WeightsRight
    <2>2. QED
      BY <2>1 DEF TensorIs, IsFrom
  <1>4. /\ IsFrom(weights.embed, Embed) /\ ~ weights.embed.transposed
        /\ IsFrom(weights.norm, Norm)
    BY <1>1 DEF WeightsRight, TensorIs, IsFrom
  <1>5. /\ IsFrom(output_projection, IF LmHead \in Named THEN LmHead ELSE Embed)
        /\ output_projection.transposed
    BY <1>1, <1>2, OutputTable
  <1>6. QED
    BY <1>3, <1>4, <1>5 DEF RunsTheCheckpoint, Named

\* load_model_weights gives a pass the checkpoint's own tensors, each at its
\* place and transposed exactly if it is a projection, whatever the files and
\* whatever the configuration.
THEOREM CheckpointRuns == Spec => []RunsTheCheckpoint
  BY LoadedInvariantHolds, InvariantRunsTheCheckpoint, PTL

LEMMA InvariantBoundsDisagreement == LInv => DisagreementIsBounded
  <1> SUFFICES ASSUME LInv, outcome = "logits"
               PROVE  DisagreementIsBounded
    BY DEF DisagreementIsBounded
  <1>1. /\ SourceOK /\ TensorsMerged /\ WeightsRight /\ PassRight /\ Loaded
        /\ own.layers \in Nat \ {0} /\ Config.layers \in Nat \ {0}
        /\ caller = "random" => Config = own
    BY ConfigFacts DEF LInv, Loaded
  <1>2. Len(weights.layers) = Config.layers
    BY <1>1 DEF WeightsRight
  <1>3. Config.layers <= own.layers
    <2>1. CASE caller = "random"
      BY <1>1, <2>1
    <2>2. CASE caller # "random"
      <3>1. Wanted(Config.layers) \subseteq DOMAIN tensors
        BY <1>1, <2>2 DEF WeightsRight
      <3>2. DOMAIN tensors \subseteq AllNames
        BY <1>1 DEF TensorsMerged, LooksUp, ConfigIs
      <3>3. Wanted(Config.layers) \subseteq Wanted(own.layers) \cup {LmHead}
        BY <3>1, <3>2 DEF AllNames
      <3>4. QED
        BY <1>1, <3>3, MoreLayers
    <2>3. QED
      BY <2>1, <2>2
  <1>4. /\ Config.heads * Config.head_dim = own.heads * own.head_dim
        /\ Config.kv_heads * Config.head_dim = own.kv_heads * own.head_dim
    BY <1>1 DEF PassRight
  <1>5. QED
    BY <1>2, <1>3, <1>4 DEF DisagreementIsBounded

\* Whoever gets logits out of a checkpoint that the configuration is not of,
\* has left out layers or split the same widths otherwise: server.py, which
\* compares nothing, is kept from any other disagreement by missing names and
\* shape errors alone.
THEOREM DisagreementBounded == Spec => []DisagreementIsBounded
  BY LoadedInvariantHolds, InvariantBoundsDisagreement, PTL

LEMMA InvariantHasCauses == LInv => FailsForCause
  <1> SUFFICES ASSUME LInv
               PROVE  FailsForCause
    OBVIOUS
  <1>1. /\ SourceOK /\ TensorsMerged /\ PassRight /\ Causes
        /\ own.layers \in Nat \ {0} /\ Config.layers \in Nat \ {0}
    BY ConfigFacts DEF LInv
  <1>2. ASSUME outcome = "KeyError", ~ ConfigIs("incomplete")
        PROVE  ~ Wanted(own.layers) \subseteq Named \/ Config.layers > own.layers
    <2>1. /\ caller # "random" /\ merged = Len(files)
          /\ ~ Wanted(Config.layers) \subseteq DOMAIN tensors
      BY <1>1, <1>2 DEF Causes, TensorsMerged, LooksUp, ConfigIs
    <2>2. DOMAIN tensors = Named
      BY <1>1, <2>1, AllMerged
    <2>3. Config.layers <= own.layers => Wanted(Config.layers) \subseteq Wanted(own.layers)
      BY <1>1, MoreLayers
    <2>4. QED
      BY <1>1, <2>1, <2>2, <2>3
  <1>3. outcome = "logits" =>
           hidden = [width |-> Vocab, dtype |-> IF caller = "script" THEN "float32" ELSE dtype]
    BY <1>1 DEF PassRight, FlowType
  <1>4. QED
    BY <1>1, <1>2, <1>3 DEF FailsForCause, Named, Causes, ConfigIs

\* Loading and running raise nothing that the files, the configuration or the
\* dtype of the server's cache is not the cause of.
THEOREM FailuresHaveCauses == Spec => []FailsForCause
  BY LoadedInvariantHolds, InvariantHasCauses, PTL

=============================================================================
