--------------------------- MODULE MCShyamRuntime ---------------------------
(***************************************************************************)
(* Instances of ShyamRuntime. Between them the two components give every   *)
(* kind of answer; nothing else needs a bound.                             *)
(***************************************************************************)
EXTENDS ShyamRuntime

BothAnswer == [zarya |-> {"down", "odd", "starting", "up"},
               flux  |-> {"down", "incompatible", "unavailable", "up"}]
=============================================================================
