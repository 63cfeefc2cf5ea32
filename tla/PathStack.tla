----------------------------- MODULE PathStack -----------------------------
(***************************************************************************)
(* What the path table of a CAVER ToR promises, without registers: for     *)
(* every destination host a bounded last-in-first-out store of the paths   *)
(* that acknowledgements from that host reported.  A push on a full store  *)
(* forgets the oldest path; a new flow takes the newest path, or learns    *)
(* that there is none and falls back to ECMP.                              *)
(***************************************************************************)
EXTENDS Naturals, Sequences

CONSTANTS
  Hosts,    \* the destinations a ToR keeps paths for
  Paths,    \* the values a path may have
  Depth,    \* how many paths are kept for one destination, one at least
  NoPath    \* the answer to a new flow whose destination has no path

VARIABLES
  stack,    \* stack[h]: the paths kept for h, newest first
  answer    \* what the latest new flow was given: its host and its path

stackVars == <<stack, answer>>

\* The store after p is put on it: at most Depth paths, the oldest dropped.
PushFront(s, p) ==
  [i \in 1..(IF Len(s) < Depth THEN Len(s) + 1 ELSE Depth) |->
     IF i = 1 THEN p ELSE s[i - 1]]

\* The store after its newest path was handed out.
PopFront(s) == [i \in 1..(Len(s) - 1) |-> s[i + 1]]

StackInit ==
  /\ stack = [h \in Hosts |-> <<>>]
  /\ answer \in [host : Hosts, path : {NoPath}]

Push(h, p) ==
  /\ stack' = [stack EXCEPT ![h] = PushFront(@, p)]
  /\ UNCHANGED answer

Take(h) ==
  /\ stack[h] # <<>>
  /\ answer' = [host |-> h, path |-> stack[h][1]]
  /\ stack' = [stack EXCEPT ![h] = PopFront(@)]

Miss(h) ==
  /\ stack[h] = <<>>
  /\ answer' = [host |-> h, path |-> NoPath]
  /\ UNCHANGED stack

StackNext ==
  \E h \in Hosts :
    \/ \E p \in Paths : Push(h, p)
    \/ Take(h)
    \/ Miss(h)

StackSpec == StackInit /\ [][StackNext]_stackVars
=============================================================================
