---------------------------- MODULE MCFlowTable -----------------------------
(* FlowTable for TLC.                                                      *)
EXTENDS FlowTable
=============================================================================
