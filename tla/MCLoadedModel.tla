---------------------------- MODULE MCLoadedModel ----------------------------
(***************************************************************************)
(* Model-checking instances of LoadedModel.                                *)
(***************************************************************************)
EXTENDS LoadedModel

\* The configuration that the code assumes.  Like the real one its q_proj and
\* o_proj are square.
MCAssumed == [layers |-> 2, heads |-> 4, kv_heads |-> 2, head_dim |-> 2,
              hidden |-> 8, theta |-> 1]

\* Others have fewer or more layers, the same widths split otherwise or other
\* widths, another hidden size, another theta.
MCConfigs ==
    {[layers |-> l, heads |-> h[1], kv_heads |-> h[2], head_dim |-> h[3],
      hidden |-> d, theta |-> t] :
        l \in 1 .. 3,
        h \in {<<4, 2, 2>>, <<2, 1, 4>>, <<4, 1, 2>>, <<4, 4, 2>>,
                <<2, 2, 2>>},
        d \in {6, 8}, t \in {1, 2}}
=============================================================================
