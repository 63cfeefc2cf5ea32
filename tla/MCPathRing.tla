----------------------------- MODULE MCPathRing -----------------------------
(* PathRing for TLC. *)
EXTENDS PathRing
=============================================================================
