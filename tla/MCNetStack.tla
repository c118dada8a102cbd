----------------------------- MODULE MCNetStack -----------------------------
(* The constants of the NetStack runs.                                     *)
EXTENDS NetStack
=============================================================================
