------------------------------- MODULE MCInput -------------------------------
(* The constants of the Input runs.                                        *)
EXTENDS Input
=============================================================================
