------------------------------- MODULE MCDre --------------------------------
(***************************************************************************)
(* Dre for TLC.  A table of 43 * 2 tolerates one turn of the clock that    *)
(* hides a decay (60 + 2 * 12) and not the second (60 + 3 * 12).           *)
(***************************************************************************)
EXTENDS Dre
=============================================================================
