---------------------------- MODULE BestOverlap -----------------------------
(***************************************************************************)
(* How far behind the reports the table of BestTable can fall when several *)
(* acknowledgements of a host are between their passes: each of them       *)
(* decides by a first hop read before those ahead of it changed the entry, *)
(* so that a report about the stored path can be taken for another one's   *)
(* and dropped, and a report about another path can replace a better one.  *)
(*                                                                         *)
(* BestTable with two histories, newest first, of what the switch has no   *)
(* register for.  They change nothing of what it does.                     *)
(***************************************************************************)
EXTENDS BestTable

VARIABLES
  recent,   \* history: the last MaxInFlight paths reported over an uplink
  held      \* history: the uplinks of the last MaxInFlight entries, the one of
            \* today first: one for each second pass

overlapVars == <<bestVars, recent, held>>

\* The last MaxInFlight of a history that e is added to.
Newest(s, e) ==
  [i \in 1..(IF Len(s) < MaxInFlight THEN Len(s) + 1 ELSE MaxInFlight) |->
     IF i = 1 THEN e ELSE s[i - 1]]

OverlapInit ==
  /\ BestInit
  /\ recent = [h \in Hosts |->
       [p \in Ports |-> IF p = InitBest[h].hop0 THEN <<InitBest[h]>> ELSE <<>>]]
  /\ held = [h \in Hosts |-> <<InitBest[h].hop0>>]

OverlapFirst(h, port, ce, report) ==
  /\ AckFirst(h, port, ce, report)
  /\ UNCHANGED <<recent, held>>

OverlapSecond(h) ==
  /\ AckSecond(h)
  /\ LET r == Head(resubmit[h])
     IN  recent' = [recent EXCEPT ![h][r.port] = Newest(@, BeforeBest(r))]
  /\ held' = [held EXCEPT ![h] = Newest(@, best'[h].hop0)]

OverlapNext ==
  \E h \in Hosts :
    \/ \E port \in Ports, ce \in CEs, report \in Reports : OverlapFirst(h, port, ce, report)
    \/ OverlapSecond(h)

OverlapSpec == OverlapInit /\ [][OverlapNext]_overlapVars

-----------------------------------------------------------------------------
(* Properties.                                                             *)

\* The stored path is one of the last MaxInFlight reported over its uplink:
\* at most MaxInFlight - 1 reports about it were taken for another path's and
\* dropped.  One acknowledgement at a time: the entry is never outdated.
EntryIsRecent ==
  \A h \in Hosts : \E i \in 1..Len(recent[h][best[h].hop0]) : best[h] = recent[h][best[h].hop0][i]

\* Only an uplink that holds the entry, or held it at one of the last
\* MaxInFlight second passes, may make the entry look worse; any other can
\* only improve it.  One acknowledgement at a time: only news over its own
\* uplink raises it.
RaisedOnlyByHolder ==
  [][\A h \in Hosts :
       Word(best'[h]) > Word(best[h]) =>
         \E i \in 1..Len(held[h]) : best'[h].hop0 = held[h][i]]_overlapVars

\* The entry is what its uplink reported last, and no uplink has last
\* reported a path that is less congested.
LeastKnown(h) ==
  \A p \in Ports :
    recent[h][p] # <<>> =>
      /\ Word(best[h]) <= Word(recent[h][p][1])
      /\ p = best[h].hop0 => best[h] = recent[h][p][1]

\* A second pass that decides by a first hop the entry still has, and by
\* which the uplink reports no worse than before, leaves the entry the least
\* congested path known if it was: whatever is under way behind it.
StaysLeastCongested ==
  [][\A h \in Hosts :
       (/\ LeastKnown(h)
        /\ resubmit[h] # <<>> => Head(resubmit[h]).best_port = best[h].hop0
        /\ \A p \in Ports :
             recent[h][p] # <<>> => Word(recent'[h][p][1]) <= Word(recent[h][p][1]))
       => LeastKnown(h)']_overlapVars
=============================================================================
