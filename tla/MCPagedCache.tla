---------------------------- MODULE MCPagedCache ----------------------------
(* PagedCache on a small instance. *)
EXTENDS PagedCache
=============================================================================
