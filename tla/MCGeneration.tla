---------------------------- MODULE MCGeneration ----------------------------
(***************************************************************************)
(* Model-checking instances of Generation.                                 *)
(***************************************************************************)
EXTENDS Generation
=============================================================================
