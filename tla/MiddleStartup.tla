--------------------------- MODULE MiddleStartup ----------------------------
(***************************************************************************)
(* A CAVER switch between the ToRs that is restarted while they go on: its *)
(* registers are zero again, its tables empty, and the control plane fills *)
(* them one call after the other.  Here ipv4_lpm comes second and what an  *)
(* acknowledgement needs comes last, so that acknowledgements are sent on  *)
(* with what the switch does not know yet.  CaverMiddle is the switch once *)
(* main has made its calls.                                                *)
(***************************************************************************)
EXTENDS CaverMiddle

VARIABLE loaded    \* how many calls of main have returned

startVars == <<caverMiddleVars, loaded>>

\* The calls of main, each named for the table or register it fills; the
\* egress tables (Ecn) come after them.
Order ==
  <<"caverPort2switchPort", "ipv4_lpm", "inPort2caverPort", "Dre_time_table", "Dre_table",
    "BestTable", "judge_acceptable_table", "set_acceptable_path", "GoodTable",
    "BestTable_reg", "GoodTable_reg">>

Has(table) == \E i \in 1..loaded : Order[i] = table

\* The content of a cell nothing was written to, and of the header that the
\* ToR of the acknowledging host added.
Zero == [CE |-> 0, port |-> 0]

StartInit == CaverMiddleInit /\ loaded = Len(Order)

Restart ==
  /\ loaded' = 0
  /\ best' = [h \in Hosts |-> Zero]
  /\ good' = [h \in Hosts |-> Zero]
  /\ resubmit' = [h \in Hosts |-> <<>>]
  /\ UNCHANGED <<header, out, counted>>

\* The next call of main returns.
Load ==
  /\ loaded < Len(Order)
  /\ loaded' = loaded + 1
  /\ best' = IF Order[loaded'] = "BestTable_reg" THEN [h \in Hosts |-> InitEntry(h)] ELSE best
  /\ good' = IF Order[loaded'] = "GoodTable_reg" THEN [h \in Hosts |-> InitEntry(h)] ELSE good
  /\ UNCHANGED <<resubmit, header, out, counted>>

\* A data packet is forwarded by the first two tables.
StartData(type, dst, src_route, out_port, member) ==
  /\ Has(IF src_route = 1 THEN "caverPort2switchPort" ELSE "ipv4_lpm")
  /\ Data(type, dst, src_route, out_port, member)
  /\ UNCHANGED loaded

\* First pass of an acknowledgement; read_port_BestTable needs BestTable.
StartAckFirst(src, dp) ==
  /\ Has("ipv4_lpm")
  /\ Len(resubmit[src]) < MaxInFlight
  /\ resubmit' = [resubmit EXCEPT ![src] = Append(@,
       [port |-> InPort2caverPort(dp),
        best_port |-> IF Has("BestTable") THEN best[src].port ELSE 0])]
  /\ UNCHANGED <<best, good, header, out, counted, loaded>>

\* What inPort2caverPort and Dre_table leave in before_best_CE_and_Path.
Before(r, ce) ==
  [CE |-> IF Has("Dre_table") THEN ce ELSE 0,
   port |-> IF Has("inPort2caverPort") THEN r.port ELSE 0]

\* Second pass, with the tables there are by now: each of the two registers
\* is touched, and its half of the header written, if its table has entries.
\* GoodTable is filled after those that select what it is given.
StartAckSecond(src, dst, ce, member) ==
  /\ resubmit[src] # <<>>
  /\ LET r      == Head(resubmit[src])
         before == Before(r, ce)
         after  == AfterBest(best[src], [r EXCEPT !.port = before.port], before)
     IN  /\ best' = IF Has("BestTable") THEN [best EXCEPT ![src] = after] ELSE best
         /\ good' = IF Has("GoodTable")
                    THEN [good EXCEPT ![src] = NewPath(after, before)] ELSE good
         /\ header' = [header EXCEPT ![src] =
              [best |-> IF Has("BestTable") THEN after ELSE Zero,
               good |-> IF Has("GoodTable") THEN good[src] ELSE Zero]]
  /\ resubmit' = [resubmit EXCEPT ![src] = Tail(@)]
  /\ member \in EcmpMembers("CAVER_ACK_SECOND", dst)
  /\ out' = Packet("CAVER_ACK", dst, CaverPort2switchPort(member))
  /\ counted' = NoPort
  /\ UNCHANGED loaded
=============================================================================
