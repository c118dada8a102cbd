----------------------------- MODULE MCDownload -----------------------------
(* The constants of the Download runs: a response with an empty line in its body, *)
(* one with a misleading CR before the end of its headers, and one that has no end; *)
(* two paths one of which begins with the other.                                 *)
EXTENDS Download, TLC

MCExtending == ("t" :> {"t", "tmp"}) @@ ("tmp" :> {"tmp"})
MCResponse == {
  <<"r", "n", "r", "n", "a", "r", "n", "r", "n", "b">>,
  <<"h", "r", "n", "r", "r", "n", "r", "n", "a">>,
  <<"h", "r", "n">> }
=============================================================================
