# A TLA+ development for CAVER-p4

CAVER is congestion-aware source routing for RoCE traffic on two-tier Clos networks. This
repository implements it for Tofino switches as two P4 programs, each with a control program in C
that fills its tables:

* `src/CAVER_TOR` - the switch above a rack. It learns paths from acknowledgements, puts some aside,
  gives each new flow of its hosts one of them and sends the flow's packets by it.
* `src/CAVER_MIDDLE` - the switch between the ToRs. It estimates the congestion of its ports, writes
  the best and a good port towards each host into the acknowledgements that pass, and obeys the
  source route of data packets.

A Tofino pipeline handles one packet after another, but a register cell can be read and written
once per packet only. What would be one operation on a data structure becomes a row of registers
visited in order, each moved by a match-action table that decides from the packet's metadata; and
what needs a cell twice takes two passes (resubmission), with other packets in between. Most of what
can go wrong in this code comes from these two facts. Each switch runs two logical switches, one per
pipe; they share nothing and a module describes one.

## Inventory

| Component | State | Operations | Talks to |
|---|---|---|---|
| ToR best table | `BestTable_reg` (best path and its congestion per remote host), `TH_reg`, acknowledgements being resubmitted | first pass reads `best_port` and the DRE; second pass compares or updates, selects the path to push | gives the path table a path; reads the DRE |
| ToR path table | `stack_count_reg`, `stack_top_reg`, `path_reg` (4 slots per host) | push by a second-pass acknowledgement, pop by the first packet of a flow | filled by the best table, asked by the flow tables |
| ToR flow tables | `flow_time_reg`, `flow_method_reg`, `flow_path_reg` by flow id | a data packet starts a flow (pause > `flow_time`) or continues it | takes what the path table offers |
| DRE (both switches) | `Dre_time_reg`, `Dre_value_reg` per CAVER port | data adds its length or, when `dre_time` has passed, decays the value by 3/4; acknowledgements read it | read by the best tables |
| ToR pipeline | none of its own | parse, `get_table_ip`, `inPort2caverPort`, `flow_id_table`, `caverPort2switchPort`, `ipv4_lpm`, `header_process` | connects the above |
| Middle tables | `BestTable_reg`, `GoodTable_reg`, acknowledgements being resubmitted | second pass compares or updates, writes the header, swaps the good path | read by the ToR through the header |
| Middle pipeline | none of its own | source route or ECMP, port translation, choice of the DRE | connects DRE and tables |
| ECN (both) | none (queue depth and a random byte) | mark by depth at egress | - |
| Start-up (both `main`s) | which tables are filled | ports up, then one table after the other, then initial registers | decides what packets find in every table |
| The fabric | packets between ToR A, the Middle and ToR B | data one way, acknowledgements back; loss, overtaking, restart of the Middle | connects the pipelines |

The hard behaviours are: two acknowledgements of one host between their passes; registers kept in
step only by the entries of separate tables; metadata that no parser state sets; flow ids that
collide; a 32-bit time stamp that wraps; tables that enumerate a range and fall back silently
outside it; an estimator that decays only when data arrives; a best path that nothing ages; a good
path that is one acknowledgement old; ports that are up before the tables are filled; a Middle that
is restarted under traffic; packets that are lost or overtake one another between the switches.
`PROJECT.json` lists them with their lines.

What makes a component correct, and the property that says so:

* path table: it is one bounded LIFO store per host (`RefinesStack`), and never hands out an
  unwritten slot (`LiveSlotsWritten`);
* best table: outdated by no more than overlapping acknowledgements account for (`EntryIsRecent`),
  raised only by uplinks that hold or just held it (`RaisedOnlyByHolder`), finds the least congested
  path (`SettlesOnLeastCongested`, `FindsLeastCongested`) and keeps to it (`StaysLeastCongested`);
  what it pushes is within 1.2 times the best (`AcceptablePush`), and is the good path whenever that
  is (`AcceptableUsesGood`); what is stored is used up in time (`StalePathsRunOut`);
* flow tables: a flow does not change its path without a pause (`FlowletKeepsPath`) and takes the
  path offered after one (`PauseTakesOffer`);
* DRE: it stays within the tables that read it while the clock has not hidden too many decays
  (`EstimateInTable`) and forgets its initial value (`ForgetsStart`);
* ToR: paths are used for the host they were learned from (`PathsReachTheirHost`,
  `RemoteLeavesWithHeader`);
* Middle: what it reports is recent (`TablesAreRecent`) and the good path it hands on acceptable
  (`HandedOnIsAcceptable`), and data is counted where acknowledgements look (`CountedWhereAcksLook`,
  `DataReachesRack`);
* ECN: no marks below the threshold (`ShallowUnmarked`), marked headers stay valid where one less is
  the right change (`ChecksumKept`), deep queues mark (`FullQueueMarks`, which fails);
* start-up: early packets leave nothing behind that lasts (`EntriesLeadUp`, `NewPathsLeadUp`,
  `StartupPathsRunOut`) and no packet leaves with a route nobody reads (`RoutesAreMarked`); that nothing bad is stored at all
  fails (`StoredPathsLeadUp`);
* both switches: learned paths lead to the rack of the destination (`PathsLeadToRack`), packets do not
  go in circles (`OneDetour`), headers come off on the way (`HeaderOffOnlyOnWay`), and what is said of
  one ToR holds in the fabric (`ImplementsTor`).

## Modules

    PathStack <--refined by-- PathRing
    FlowPath  <--EXTENDS----- FlowTable                Dre, Ecn: on their own
    BestTable <--EXTENDS----- BestSteady   --INSTANCE--> PathStack
    BestTable <--EXTENDS----- BestOverlap
    CaverTor, TorStartup      --INSTANCE--> BestTable, PathStack, FlowPath
    MiddleTables <--EXTENDS-- CaverMiddle <--EXTENDS-- MiddleStartup
    MiddleTables <--EXTENDS-- MiddleOverlap
    CaverTor     <--EXTENDS-- CaverNet     --INSTANCE--> MiddleStartup

Each `XProofs` EXTENDS the module it proves about (`BestTableProofs`: `BestOverlap`; `MiddleProofs`:
`CaverMiddle` and `MiddleOverlap`; `CongestionProofs`: `Dre` and `Ecn`), each `MCX` the module it gives constants to.

`PathRing` models the registers and the three tables of the ToR's path table. `PathStage` is one
packet's passage through `stack_count_table`, `stack_top_table` and `path_table`; `StackCountTable`,
`StackTopTable` and `PathTable` are the entries ctrl.c installs, by packet type and metadata;
`CountPush` ... `TopPop` are the register actions. The bit `src_route` of a second-pass
acknowledgement is 0: no parser state sets it and the recorded run shows it so
(`src/CAVER_TOR/model_0.log:387-390`). `PathStack` is what it promises, without registers.

`BestTable` models an acknowledgement's two passes (`AckFirst`, `AckSecond`). The FIFO between them
is kept per host, since only acknowledgements of the same host touch the same cell. The operators
follow the pipeline: `BeforeBest`/`BeforeGood` (`path_prepare`), `PortEqual`, `BestTableAction` (the
entries), `AfterBest` (the two register actions), `Threshold`, `UseGoodPath` (the entries of
`set_acceptable_path`, as the ranges the two loops enumerate), `NewPath`. `pushed` is history.
`BestOverlap` adds two histories that the switch has no register for, the last reports over each
uplink (`recent`) and the uplinks that held the last entries (`held`), to say what acknowledgements
that overlap can do to the table. `BestSteady` drives it, and a `PathStack` behind it, with reports that do not change, from
any content of the register and any store; new flows take paths out of the store meanwhile.

`FlowPath` holds the two registers that keep a flow on its path, `FlowTable` adds the time stamps
and `flow_time`. `Dre` is the estimator with its clock: the bytes of one unit of time are bounded by
the line rate (`spent`), and a history counts the turns of the clock (73 minutes each) in which a
port's decay became due and was hidden again, because `current_time - val` is small after a turn
(`turns`). `Ecn` is a packet that leaves a queue.

`CaverTor` composes one ToR: `RawData`, `CaverData`, `RawAck`, `CaverAckFirst` and `CaverAckSecond`
are the packet types of the parser, each with every register, its header and its output port. As
`ipv4_lpm` has entries of every type for every address, data that comes with a header may be for the
other rack too: `header_process` takes the header off and it goes up again without one.
It uses `PathStack` in the place of `PathRing`, which is proved to implement it, and takes the start
of a flow and the estimate of an uplink as inputs, since any value of them can occur. A flow id is
the pair of its two hashes; that no two hosts share the low one is an assumption (`header.p4:170`:
the destination is kept apart by its CRC-8; it holds for the addresses of the testbed).

`MiddleTables` are the Middle's tables, `CaverMiddle` its pipeline. The Middle reads its DRE in the
second pass (the ToR in the first), ignores the congestion an incoming acknowledgement carries, and
sends on the good path of the acknowledgement before. `MiddleOverlap` adds the last findings over
each port (`recent`), to say how old the paths in tables and headers can be.

`TorStartup` runs the ToR while `main` fills it: `Order` are main's calls as they stand in ctrl.c,
`Load` is the return of the next one, and every packet action asks with `Has` which tables have
entries and does the default action of the others. Only `BestTable_reg` is written by a call of its
own (`init_BestTable`); everything else that packets wrote before stays. It uses the operators of
`BestTable`, `PathStack` and `FlowPath`, whose initial states do not fit a switch that is not set up.
`MiddleStartup` is the same for the Middle, as actions on top of `CaverMiddle`: `Restart` empties
tables and registers, `Load` fills them in the order of the Middle's main, where `ipv4_lpm` comes
second and the tables that write an acknowledgement's header come late.

`CaverNet` puts `CaverTor` (ToR A), `MiddleStartup` and the forwarding of ToR B together. `net` holds
the packets between the switches as a set: any of them may be next, and any may be lost. Hosts of
rack A send data; acknowledgements of rack B's hosts reach the Middle at any time by any of its ports
to that rack, are given its report, and reach ToR A, which takes its two passes. Data that arrives at
ToR A for another rack (by a wrong hop) is forwarded again without its header. Which uplink is at the
other end of which port of the Middle is the constant `Cable`. ToR B's own tables are left out: it
runs the program of ToR A, and its learning is that of ToR A with the racks exchanged.

Conversions: the 32-bit register word `CE:hop1:hop0` is `Word`, because ties in congestion are
decided by the lower bytes; CAVER ports and switch ports are translated by `InPort2caverPort` and
`CaverPort2switchPort` with `DpPort`. The MathUnits (6/5, 3/4, 1/12400) are exact floors; the
hardware approximates them (the recorded run gives 0x18 for 0x14 and 0x10 for 0xE). A change of the
factor shifts the numbers in `AcceptablePush` and `EstimateInTable`.

## Runs

| Run | Question | Bounds, and why they are enough |
|---|---|---|
| `path_ring` | Do the registers implement the store? | 2 hosts (to see indices mixed up), 2 paths (to tell slots apart), real depth 4: count and top go through every combination, overwriting included |
| `best_table` | How far can overlapping acknowledgements leave the best path behind the reports, is it kept while it is the best, and is the right path pushed? | 1 host (cells are independent), 2 uplinks, 4 estimates on both sides of 1.2 times another and at 63, the last of the table, reported and measured; two acknowledgements between their passes, so that one reads before the other writes: the histories are then 2 long |
| `best_steady` | Does the table find the least congested path, does it stay there, and do outdated paths run out of the store? | 3 uplinks, two of them tied; every initial entry, every path up to twice in the store; one or two acknowledgements between their passes (`overlap`), since the second is true for one only |
| `flow_table` | Do flows keep their path, across wraps? | 2 flows, 2 paths, a clock of 6 with a pause of 2, gaps up to 9 so that a gap of more than one turn occurs |
| `dre` | Does the estimate stay in range and forget its start? | 1 port (ports are independent), a clock of 8, decay time 2; the initial value is 5 bursts, as in the code (400000 against 76800); `CE_max * Divisor` tolerates one turn of the clock that hides a decay and not the second, and two occur (`MaxTurns`) |
| `caver_tor` | Can paths of two hosts be mixed up? | 2 remote hosts, 2 uplinks, 1 local host, a flow to each; store of depth 1, since `path_ring` covers depth |
| `ecn` | Marks below the threshold, checksums | the real constants; depths on both sides of every kind of boundary, sums around the wrap |
| `ecn_deep` | Do deep queues mark? | expected violation, see Findings |
| `tor_startup` | What do packets during `main` leave behind? | 1 remote host, 2 uplinks, store of depth 2, all 19 calls, two acknowledgements between their passes |
| `tor_startup_path` | Is nothing but reported paths stored? | expected violation, see Findings |
| `caver_net` | Do packets reach the right hosts over two ToRs and a Middle that is restarted? | 1 host in either rack, 2 uplinks, 3 ports of the Middle, 2 packets in flight (so that one can overtake the other), one restart, passes of a packet counted to 3; one uplink loaded and one not (`TorCEs`), the Middle idle (`MiddleCEs`): reports are accepted and refused, good paths acceptable and not |
| `caver_middle` | How old is what the Middle reports, is the good path it hands on acceptable, and are its ports consistent? | 2 hosts in different racks, 2 cables to each, 3 estimates, one exactly 1.2 times another; two acknowledgements of one host between their passes, the other host's table as it was initialised (`OneRackAnswers`), since cells are independent |

`caver_tor`, `caver_middle` and `caver_net` use a VIEW without the packet sent last and without
history no invariant reads; the properties of packets are action properties, which TLC checks on every step.

Fairness. `SteadySpec`: a resubmitted packet comes back (weak fairness of `AckSecond`), and every
uplink keeps bringing acknowledgements; this is strong fairness because the bound `MaxInFlight`
can disable the action again and again where the switch would let the packet in. New flows have no
fairness: `StalePathsRunOut` is about those that come. `StartupSpec`: main goes on to its next call,
and resubmitted packets come back (both weak). `DreFairSpec`: time passes (weak), and every port
keeps carrying data, in particular a packet when a decay is due. This is strong fairness, because a
decay that is due does not stay due: a turn of the clock makes the port look freshly decayed. The
code has no other scheduling: without data an estimator rightly keeps its value.

The clock of `Dre` runs on over an idle port. Data that comes only in the few units after a whole
turn is added to what a turn before left, and the decay is missed; `turns` counts such turns until a
decay brings the value down to three bursts again. `EstimateInTable` and `ForgetsStart` say what
that costs: a burst for each. The bound `MaxTurns` stops the clock before a turn more than that;
the proofs are for any `MaxTurns`.

`SettlesOnLeastCongested` is not true when acknowledgements overlap: an outdated `port_equal` lets a
worse report replace the entry again and again. `FindsLeastCongested` is what remains. `best_table`
says the rest: the entry is one of the last `MaxInFlight` reports over its uplink, only uplinks that
held it within as many second passes can raise it, and a second pass that decides by the uplink the
entry still has does not leave the best path. With one acknowledgement at a time these say that the
entry is the last report over its uplink and that no other uplink raises it. The bounds are
tight: with histories of two, three acknowledgements between their passes violate the first two.

Bounds of the start-up. One call of main is one step, although it writes its entries one by one: a
packet in the middle of it finds the table for its own address as it was before or as it is after. A
call takes milliseconds, a resubmission about a microsecond, so an acknowledgement sees at most one
call return between its passes (`since`). `CaverNet` restarts the Middle once; after that
`PathsLeadToRack` allows the port 0 of acknowledgements sent on half filled. How the ToR gets rid of
it is the question of `best_steady`, which starts from every entry and store (`FindsLeastCongested`,
`StalePathsRunOut`); a flow that was given such a path leaves it after its first pause
(`PauseTakesOffer`).

## Findings

* `FullQueueMarks` (`ecn_deep`): the last depth range has probability 255, the table that compares
  has entries for 1..50 only. Packets that meet the deepest queues are never marked.

* `StoredPathsLeadUp` (`tor_startup_path`): `set_get_table_ip` (ctrl.c:3381) opens the path store before
  `set_ACK_prepare` and `init_BestTable` have been called. The second pass of an acknowledgement in
  between pushes the path of zeros, against `header.p4:157` and `:169`; `init_BestTable` repairs
  `BestTable_reg` only. Sent by it, a packet for another rack goes to the local host behind CAVER
  port 0. Filling `get_table_ip` last would avoid it. `StartupPathsRunOut` shows that such paths are
  used up.

Remarks that no property states: the ToR divides its estimator by 12400, the Middle by 4096, so the
same load on a 10G link is about three times as large in the Middle, and the larger of both is what
counts. `set_flow_path` has no entry for packets of an old ECMP flow; `header_process` adds the same
header anyway.

Some properties say what happens, not what should. `ChecksumKept`: the checksum update is right for
ECT(0) above zero only, so that a marked ECT(1) packet leaves with a wrong one. `EntryIsRecent` and
`TablesAreRecent`: when acknowledgements of a host overlap, one over the uplink the table now holds
can be compared instead of accepted, because its `port_equal` was read before.
`HeaderOffOnlyOnWay` says what happens, not what should: data between two hosts of one rack is given
to the receiver with the CAVER header, and data that made a detour gets a new one from ToR B's
`in_coming_data`, because it lost its mark at ToR A and comes to ToR B as raw data.

## Proofs

TLAPS proves, for all values of the constants that satisfy the named assumptions:

* `PathRingProofs`: `RingTypeCorrect`, `LiveSlotsCorrect`, `RingImplementsStack`. The invariant is
  `RingTypeOK` with `LiveSlotsWritten`: a pop may return only a slot that a push wrote, and pushes
  and pops move the count and the top alike, so the slots below the top stay those of the newest
  paths. The refinement maps `stack[h]` to the slots below the top and shows that a packet's passage
  is a `Push`, a `Take`, a `Miss` or a stutter. Assumes that hosts are numbers and that the zero and
  the missing path are not paths.
* `BestTableProofs`, all for any number of acknowledgements of a host between their passes:
  `BestTypeCorrect`; `PushAcceptable`, because the comparison is with the entry the second pass
  leaves behind; `AcceptableGoodIsUsed`, if all estimates are below `CE_max` (`EstimateStaysInTable`
  says when they are); `EntryNotOutdated`, `OnlyHolderRaises` and `StaysOnLeastCongested`. The first
  two of these rest on `OverlapInv`: what the k-th oldest acknowledgement under way has read was the
  entry's uplink at most `MaxInFlight - k` second passes ago (`ReadWasHeld`), and the entry is among
  the reports over its uplink at a place that leaves room for those under way that may still be
  dropped (`EntryStaysRecent`). Assumes that estimates
  and ports are numbers and that the initial entries are entries.
* `CongestionProofs`, about `Dre`: `DreTypeCorrect`; `EstimateStaysInTable`. The estimate is not
  inductive: the bound on the value must say how much the line can have brought since the last decay
  (`DreBound`). A decay leaves at most `Rest` and a `Burst` for each turn of the clock that hid one;
  then the value grows by `LineRate` per unit until a decay is due or the clock has come round. The
  assumption `Rest + Burst < CE_max * Divisor` says that traffic no turn interrupts is in the table;
  how many turns the table tolerates is where the numbers of the code enter. In the ToR four 25G
  hosts can send 12,800 bytes per unit of 1.024 us into one uplink's estimator, so `Burst` = 76,800,
  `Rest` = 400,000 and 400,000 + 5 * 76,800 < 64 * 12400: four turns. In the Middle three 10G links
  give 3,840, so `Burst` = 23,040, `Rest` = 69,120 and 69,120 + 8 * 23,040 < 64 * 4096: seven turns.
  No more is known of when data comes: a port may be idle for any time.
* `CongestionProofs`, about `Ecn`: `EcnTypeCorrect`, `ShallowStaysUnmarked`, `ChecksumStaysValid`, for any
  thresholds, ramp, depth, random number and header. No range of the ramp begins below `K_MIN`, and
  the entry found at the threshold itself does not concern packets below it. The checksum of a marked
  packet is shown to be right for ECT(0) above zero and wrong for every other.
* `FlowTableProofs`: `FlowTableTypeCorrect`, `FlowletsKeepTheirPath`, `PausesTakeTheOffer`. Registers and
  time are written by different tables under different conditions; two facts tie them together: up
  to a turn of the clock the stored time is `gap` ago (`ClockInv`), and the other two registers hold
  how the last packet was sent (`RouteInv`). Assumes that a turn of the clock is longer than
  `flow_time`.
* `MiddleProofs`: `MiddleTypeCorrect`; for any number of acknowledgements between their passes
  `HandedOnStaysAcceptable`, because what is put aside stays within 1.2 times the best path until the
  next acknowledgement takes it along (`GoodIsAcceptable`), and `TablesStayRecent`, along the argument
  of the ToR's table; `PipelineImplementsTables`; `DataLeavesForItsRack` and `DataIsCountedWhereAcksLook`, from `RackInv`:
  every port that is kept for a host, waits between two passes or was put into a header leads to its
  rack. Assumes that ports have one number of either kind and that initial ports lead to their rack.
* `CaverTorProofs`: `TorImplementsTable` and `TorImplementsStore`, so that what is proved of the parts
  holds of the whole; `TorTypeCorrect`; `PathsStayWithTheirHost` and `RemotePacketsHaveHeader`, from
  `TorInv`: what is in the table, in the store and with a flow (`RegInv`) and in the packet sent last
  was reported for its host. Data on a detour is included: it leaves without the header it came with.
  Assumes that flow ids keep destinations apart and that uplinks are not
  ports of the rack.
* `TorStartupProofs`: `StartupTypeCorrect`; `EntriesStayUp`, `NewPathsStayUp` and `RoutesStayMarked`, for
  any moments at which packets come. An acknowledgement has met the tables as they are or as they
  were one call before, and `init_BestTable` is three calls behind `Dre_table`, so whatever is in its
  second pass then knows its uplink, and neither the entry it leaves nor the path it pushes is one of
  zeros; `header_process` is filled before `get_table_ip`, hence before a flow has a path.
* `CaverNetProofs`: `NetTypeCorrect`, `PathsAlwaysLeadToRack`, `AtMostOneDetour`, `HeaderOffOnceAcross`,
  `NetPathsReachTheirHost` and `NetImplementsTor`, for any racks, cables, flows, overlap and number of
  packets between the switches, whatever is lost or overtaken, before and after a restart of the
  Middle. None of them is inductive: what ToR A routes by was written into an acknowledgement by the
  Middle some packets earlier, from tables that other acknowledgements filled, and comes back to the
  Middle in the header of a data packet. `NetInv` follows a port all the way round: in the Middle's
  tables, headers and waiting acknowledgements (`MiddleLead`), in packets on their way (`PacketsOK`),
  in what waits between its passes at ToR A (`WaitingLead`), in what was reported to it
  (`ReportedLead`) and, by `RegInv` of `CaverTorProofs`, in its registers, it is a port to the rack of
  the host, or 0 if the Middle was restarted. Tables that are not filled yet can bring no port but
  0, and until the restart there are none (`MiddleLoaded`). `AtMostOneDetour` then
  follows, because a packet comes back to ToR A only by such a 0, and comes without its header, so
  that its second way is ECMP's. Every step of the net, the restart and what follows it included, is a
  step of `CaverTor` or leaves its variables alone (`NetImplementsTor`), so that the theorems of `CaverTorProofs`, and with them those of
  `BestTableProofs` and `PathStack`, hold of ToR A in the fabric. Assumes `CaverNetAssumption`: ports
  of the Middle have distinct numbers, each rack has ports of its own, cables end at uplinks, initial
  ports lead to their rack.

Model-checked only: liveness (`FindsLeastCongested`, `SettlesOnLeastCongested`, `StalePathsRunOut`,
`StartupPathsRunOut`, `ForgetsStart`), which needs fairness and ENABLED and is out of the prover's
reach. What is safety in the second and the fourth is stated by itself and proved:
`StaysLeastCongested` (the table does not leave the least congested path while no report gets worse)
and `NewPathsLeadUp` (nothing that leads nowhere is added to the store). The two findings are
counterexamples and have nothing to prove.

## Not modelled

* ToR B's own tables and the acknowledgements of rack A's hosts in `CaverNet`: the same program with
  the racks exchanged.
* A restart of a ToR in the running network. `TorStartup` is a ToR's start-up on its own, without the
  traffic between hosts of its rack.
* Entries written one by one within a call of `main`, and the opening of the device before the first
  port is up.
* Dead code of earlier versions in both `ctrl.c` (most functions before the first `set_` function that
  `main` calls), field layouts, the drivers and the test scripts. `PROJECT.json`, components, has the
  reasons.

## Plan

Done, in this order: path table and its refinement; best table; flow tables; DRE; the ToR; ECN; the
Middle; start-up of both switches; the two switches together; proofs about all of them, every
property that is not liveness included. Next:

1. ToR B as a full second instance of `CaverTor`, so that either rack learns from the other.
2. The refinement of `CaverMiddle` by the Middle's part of `CaverNet` as long as it is not restarted,
   so that `HandedOnIsAcceptable` and `CountedWhereAcksLook` are theorems of the fabric as well.
3. A restart of ToR A in the fabric: `TorStartup` in the place of `CaverTor`.
