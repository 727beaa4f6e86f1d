------------------------------ MODULE MCServer ------------------------------
(***************************************************************************)
(* Model-checking instances of Server.                                     *)
(***************************************************************************)
EXTENDS Server
=============================================================================
