---------------------------- MODULE MCServerFaults ----------------------------
(***************************************************************************)
(* Model-checking instances of ServerFaults.                               *)
(***************************************************************************)
EXTENDS ServerFaults
=============================================================================
