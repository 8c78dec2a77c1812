------------------------------ MODULE MCServer ------------------------------
(* Server on a small instance.                                             *)
EXTENDS Server, TLC
=============================================================================
