----------------------------- MODULE BestSteady -----------------------------
(***************************************************************************)
(* BestTable and the path store under steady traffic: every uplink keeps   *)
(* bringing acknowledgements, and what each reports does not change any    *)
(* more.  The table and the store start from whatever the traffic before   *)
(* may have left, in the store up to Depth times the same path, since what *)
(* it holds decides nothing.  A path of the store is kept here with the    *)
(* congestion it was pushed for, which path_reg does not hold.             *)
(***************************************************************************)
EXTENDS BestTable, TLC

CONSTANTS
  Steady,   \* per uplink: its DRE's estimate and the header reported
  Depth,    \* as in PathStack
  NoPath    \* as in PathStack

ASSUME SteadyAssumption == Steady \in [Ports -> [CE : CEs, report : Reports]]

VARIABLES
  overlap,        \* how many acknowledgements of a host are between their
                  \* passes at most: the delay of a resubmission decides
  stack, answer   \* PathStack

Store == INSTANCE PathStack WITH Paths <- Entries

steadyVars == <<bestVars, overlap, stack, answer>>

SteadyInit ==
  /\ best \in [Hosts -> Entries]
  /\ resubmit = [h \in Hosts |-> <<>>]
  /\ pushed = best
  /\ overlap \in 1..MaxInFlight
  /\ \E left \in [Hosts -> Entries], n \in 0..Depth :
       stack = [h \in Hosts |-> [i \in 1..n |-> left[h]]]
  /\ \E h \in Hosts : answer = [host |-> h, path |-> NoPath]

SteadyFirst(h, port) ==
  /\ Len(resubmit[h]) < overlap
  /\ AckFirst(h, port, Steady[port].CE, Steady[port].report)
  /\ UNCHANGED <<overlap, stack, answer>>

SteadySecond(h) ==
  /\ AckSecond(h)
  /\ Store!Push(h, NewPath(AfterBest(best[h], Head(resubmit[h])), Head(resubmit[h])))
  /\ UNCHANGED overlap

\* The first packet of a flow to h.
NewFlow(h) ==
  /\ Store!Take(h) \/ Store!Miss(h)
  /\ UNCHANGED <<bestVars, overlap>>

SteadyNext ==
  \E h \in Hosts :
    \/ \E port \in Ports : SteadyFirst(h, port)
    \/ SteadySecond(h)
    \/ NewFlow(h)

\* A resubmitted packet comes back (weak fairness).  The bound overlap can
\* close the door on an uplink's acknowledgement again and again, the switch
\* does not: it is let in if the door keeps opening (strong fairness).  New
\* flows come or do not come.
SteadySpec ==
  /\ SteadyInit
  /\ [][SteadyNext]_steadyVars
  /\ \A h \in Hosts :
       /\ WF_steadyVars(SteadySecond(h))
       /\ \A port \in Ports : SF_steadyVars(SteadyFirst(h, port))

-----------------------------------------------------------------------------
(* Properties.                                                             *)

\* The paths of the steady reports, ties broken as the table does.
SteadyEntry(port) == BeforeBest([port |-> port] @@ Steady[port])
SteadyGood(port) == BeforeGood([port |-> port] @@ Steady[port])
SteadyPaths == {SteadyEntry(port) : port \in Ports} \cup {SteadyGood(port) : port \in Ports}

OnLeastCongested(h) == \A port \in Ports : Word(best[h]) <= Word(SteadyEntry(port))
OnSteadyPath(h) == \E port \in Ports : best[h] = SteadyEntry(port)

\* An outdated entry, an unused uplink's initial zero in particular, does not
\* survive, and the least congested path is found again and again, even when
\* acknowledgements overlap.
FindsLeastCongested ==
  \A h \in Hosts : []<>(OnSteadyPath(h) /\ OnLeastCongested(h))

\* When acknowledgements of a host do not overlap the table stays there.
SettlesOnLeastCongested ==
  \A h \in Hosts : <>[](overlap = 1 => OnSteadyPath(h) /\ OnLeastCongested(h))

\* The store has no ageing, and its oldest paths go last.  Still no new flow
\* is given an outdated one for ever: from some time on a flow takes what the
\* steady reports say, and if acknowledgements do not overlap it is within
\* 1.2 times the least congested of their best paths.
StalePathsRunOut ==
  <>[][\A h \in Hosts : Store!Take(h) =>
         /\ answer'.path \in SteadyPaths
         /\ overlap = 1 => \A port \in Ports :
              5 * answer'.path.CE <= 6 * SteadyEntry(port).CE]_steadyVars
=============================================================================
