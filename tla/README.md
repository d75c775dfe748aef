# A TLA+ model of yapas

yapas is a DPI service on DPDK (`src/dpdk_dpi`): it classifies the packets that
arrive on a port by application protocol and executes, for each packet, the list
of actions the configuration file has for its port and protocol.  Beside it the
repository holds small libraries and programs (`src/common`, `src/dpdk`,
`src/pre`) that are built on their own.

This directory models the service from its start-up to the frames on the wire,
and those of the smaller parts that keep state worth checking.  TLC checks every
module on small instances; TLAPS proves the safety properties of every part for
instances of every size.

Contents: [the system](#the-system) · [modules](#modules) · [runs](#runs) ·
[fairness](#fairness) · [proofs](#proofs) ·
[where code and documents disagree](#where-code-and-documents-disagree) ·
[what is not modelled](#what-is-not-modelled) · [plan](#plan)

Source paths below are relative to `src/`; `D/` is `dpdk_dpi/src/`.

## The system

### The service

| part | state | operations | what makes it correct |
|---|---|---|---|
| data plane: `D/packet_manager.cpp`, `D/port.cpp`, `D/main.cpp` | per worker: RX queue, one TX buffer per output port, link status, time stamps; shared: mempool, TX queue of each NIC, `terminated`, counters | the worker's loop, `ProcessPackets`, `ExecuteOutput`, `SendOnePacket`, `SendAllPackets`, `ReceivePackets`, the SIGINT handler | every mbuf has one owner; no buffer overflows; what leaves a port is what the rules say, in order; workers stop when told |
| statistics: `D/port.cpp`, `PrintStats` | a counter for each port, protocol and lcore; time added up since the last report | count, add up, print | no count is lost, a report is of its moment, reports come at their interval |
| configuration: `D/config.cpp` | `rules_`, from port and protocol to actions | `Initialize`, `GetActions` | the table is the file, and one the data plane can execute |
| port manager: `D/port_manager.cpp` | lcore of each port, mempool of each socket, TX buffers, the lcore that prints | `Initialize`, the link check, look-ups, `CopyMbuf` | every port has its own lcore and a mempool for it |
| packet modifier: `D/common.cpp` | the header of one packet, `l2_len`, headroom | `PreparePacket`, `ExecutePushVlan`, `ExecutePushMpls` | the header is what pushing tag by tag gives |
| packet analyzer: `D/packet_analyzer.cpp`, `D/protocols/` | list of search methods | `Analyze` | a packet is taken for what it is, whichever method is asked first |
| arguments: `D/cmd_args.cpp` | interval, file name | `ParseArgs` | a number means what was typed |

`main` parses the arguments; `PacketManager::Initialize` runs `Config` and
then `PortManager`, on the master lcore and alone.  It then launches one worker on
each other lcore.  A worker that has a port loops: every `drain_tsc` it flushes
its TX buffers and now and then reads its link status or prints statistics; while
the link is up it takes packets from its RX queue and executes rules on them.
Workers share no lock.  They meet in four places: the mempool (safe in DPDK), the
TX queue of a NIC (not safe in DPDK), the flag `terminated`, and the counters
(each written by one worker and read by the one that prints).

What is hard: two workers in one TX queue; the driver taking only part of a
burst; the mempool running dry half-way through a list of actions; every path out
of the packet loop having to free exactly once; order through a buffer, partial
bursts and a ring; a loop that must see SIGINT and drain whatever the traffic.

### The other parts

| part | state | what makes it correct |
|---|---|---|
| sample queue, `common/ss.h` | a ring with a position, a size and a mutex that readers do not take | the ring holds the latest samples; a reader nobody disturbs reads the right ones |
| line editor, `common/cmdline.cpp` | the line, the cursor, the history and a place in it, the terminal | the terminal shows the line whatever keys are pressed |
| configuration file editor, `common/edit_config.cc` | two files | other lines survive, also when a run is killed |
| first line editor, `common/readline.cc` | the same without a cursor inside the line | the same |
| SSH client, `common/ssh2.cc` | a socket, a channel, counts of bytes | the socket is closed once; a file is copied whole or the caller can tell |
| compression, `common/gziphelper.cc` | a buffer of fixed capacity, an offset into it | what is taken out is what was put in |
| locked map, `common/safe_map.cc` | a map and a counter behind a lock, a variable beside it | the lock makes an update one step |
| time arithmetic, scripts, packet sender, bit sets | none | |

Restart after a crash exists only in the configuration file editor, as the service
keeps nothing on disk; partial failure of calls also in the SSH client (reads, writes,
the peer, the disk) and in compression (a short write).

## Modules

### Data plane

* `Rules` is the vocabulary of the service: ports, protocols, actions, well-formed
  rule tables, frames and the tags on them.
* `Forwarding` says of a list of actions as a whole what `DataPlane` does action by action:
  `Emitted` is the sequence of frames it makes of a received one for a port.
* `LossyForwarding` is what the data plane promises: between each pair of ports a
  first-in first-out channel that may lose frames but never invents, alters,
  duplicates or reorders one.  A loss is a run of frames that follow each other, as what
  is left of a buffer is when the ring is full.  `InOrder` and `AsRuled` say what this means
  for the wires.
* `DataPlane` is the code.  The worker of port `p` is at `pc[p]`; `rx[p]` is its
  `rx_queue` from the packet being processed on, `todo[p]` the actions from the
  iterator on, `tx[p][q]` its element of `port_tx_table_`, `queue[p]` the port being
  drained or sent to.  `pool`, `frame`, `ring` stand for the mempool, the contents
  of the mbufs and the TX rings; `lost` names the mbufs nothing refers to any more.
  `arrived` and `wire` are history.  A step touches at most one shared object, and
  `rte_eth_tx_burst` has a beginning and an end, so that two calls can overlap:

  | code | actions |
  |---|---|
  | loop of `RunProcessing` | `Leave`, `BeginDrain`, `SkipDrain`, `DrainPort`, `EndDrain` |
  | `ReceivePackets` | `RxOne`, `RxDone` |
  | `ProcessPackets` | `ProcessDone`, `Unsupported`, `Unruled`, `Ruled`, `Drop`, `Push`, `Finish` |
  | `ExecuteOutput`, `CopyMbuf`, `SendOnePacket` | `OutputCopy`, `OutputNull` |
  | `SendAllPackets` | `CallTxBurst`, `RaceTxBurst`, `ReturnTxBurst`, `FullTxBurst`, `NullTxBurst` |
  | `sigint_handler` | `Sigint` |
  | the NIC (external) | `Transmit` |

  Undefined behaviour — the null pointer handed to the driver, two lcores in one TX
  queue — sets `fault`, and the model stops there: nothing is claimed of what
  follows.
* `DataPlaneRefinement` maps `DataPlane` to `LossyForwarding`.  The channel from `p`
  to `q` is what the ring of `q` holds of `p`, then the buffer `tx[p][q]`, then what
  the packets in `rx[p]` still owe to `q`.
* `DataPlaneProofs` holds the theorems about `DataPlane` and about the refinement.
* `Statistics` models the counters and the clock of the worker that prints them.
  `Load` reads one element of `protocol_stats_`, while other workers count; `Upto` adds up
  the elements that have been read, at the moment they have now.

### What the data plane rests on

The data plane assumes a rule table that is well formed, an lcore for each port, one
mempool, and pushes that append a tag or do nothing.  Other modules model the code
that brings this about:

| assumption of `DataPlane` and `Rules` | where it is checked |
|---|---|
| `IsRuleTable(rules)`, for the ports the machine has | `Startup!TableWellFormed` |
| rules are found under the pair (port, protocol) | `Startup!TableIsFile`, of the 16-bit keys |
| a worker stands for a port; every port a rule names is started | `Startup!ServiceReady`, `PortManager!OwnLcore` |
| one mempool, and `CopyMbuf` finds it | `Startup!ServiceReady` |
| some worker prints statistics, and each has a counter | `Startup!StatisticsReady` |
| `Pushed` | `PacketModifier!PushesComposed` |
| a frame has one class, which pushes and tags do not change | `PacketAnalyzer!TextTold`, `OrderIrrelevant`, `PacketPath!TagsDontMatter` |

* `Startup` is `main` from its arguments to the launch of the workers.  It composes
  `ParseArgs`, modelled in the module itself, with `Config` (by `INSTANCE`, its variables
  those of `Startup` and its number of ports the machine's) and `PortManager` (by
  `EXTENDS`): `stage` says which of them moves, and an answer of `false` or an exception
  ends the program.  The properties of the two modules are checked in this composition.
  The file named may be missing from the disk (`OnDisk`); `StartupAssumption` says that the
  labels the files ask for are in `Tags`, so that `TableWellFormed` is about the program and
  not about the instance.
* `PacketPath` is what happens to one packet in `ProcessPackets` before it is output:
  `PreparePacket`, `Analyze`, then the pushes of its rule.  It composes `PacketModifier`
  and `PacketAnalyzer`, which meet in `l2_len`: `PreparePacket` sets it from the tags, the
  search methods find the payload and its length by it.  The field has seven bits
  (`L2Field`): with 29 tags or more the methods look at some place among them (`Behind`).
  Nor do they stop where the payload does: a word it cuts short goes on in what memory holds
  behind it (`Completions`), which is any of the constant `Stale`.  `PayloadAssumption`
  bounds the payloads by what one mbuf holds, which is less than 2^16 bytes.
* `Config` reads a file line by line.  A line is abstracted to what the parser asks
  of it: does it have a colon, which keywords occur in an action, do its fields
  convert to numbers.  Numbers are kept exactly, narrowed to 8 or 16 bits where the
  code narrows them, and the 32-bit words pushed are computed.
* `PortManager` models `Initialize` on any machine: which lcores are enabled, which
  is the master, the socket of each, the number of ports.  Every call to DPDK may
  fail.  The wait for the links follows.
* `PacketModifier` models the header in 16-bit units, so that a label that lands in
  the middle of a tag is seen.
* `PacketAnalyzer` models the four search methods on the words and fields they look
  at; payload lengths keep their 16 bits.  `RtpAsDesigned` compares `SearchRtp`, whose
  lengths are cut to 16 bits step by step, with the packet of the design (`DesignedRtp`),
  whose lengths are numbers, and names what else passes (`Overlooked`).

### The smaller parts

* `StatisticsQueue`: `insert` in its three updates under the mutex, `clean`, and
  `gatherStatistics` reading the position, then a sample, then the position again and
  another sample, with no lock.
* `SafeMap`: threads that insert, clear and count.  What is done behind the lock is a read
  and a write in two steps, so that the lock is what makes them one.
* `Terminal` is the row a line editor writes to, of any `Characters` a column can show.  The
  row is as wide as need be: lines that wrap, where `\b` does not go back to the row above,
  are left out.  In `CmdLine` and in `ReadLine`, the first version, a key is an action.  The
  iterator of `ReadLine` is an index, or 0 when it points nowhere: `push_back` may leave it
  as it was or invalidate it, and `CurrAfter` says what the code then makes of it.
* `EditConfig`: a line copied is a step; a run can be killed between any two, and the
  next one finds what it left.  A line is its key and value, and what ended it: a newline, a
  byte 0xFF, which `char c` cannot tell from EOF, or nothing, in which case the next one is
  glued to it (`Put`).  When the disk is full (`CopyLineShort`) any part of a line may be
  left, or none of it, and the program goes on as if nothing had happened: the next line may
  be written whole again.  `OthersKept` compares the lines that pass a test, `Among(lines,
  Others)`; in a run that was short, or met a byte 0xFF, only `WholeOthers`, those that
  nothing has cut or glued.
* `SshSession` is the socket: `connect` in its four outcomes, `auth`, the destructor, and the
  descriptors that other threads open and close meanwhile.  `SshTransfer` extends it with
  what is done over the session: `transfer` in both directions, in parts of any size, with
  reads and writes that fail, a peer that dies, a full disk, a local file that is missing or
  changes; `finish`; and the output of a command as `ssh2_test.cc` reads it.  While the peer
  is `silent` no call of libssh2 comes back: no time-out is set.
* `GzipHelper`: `deflate` (external) holds back any number of units, and leaves input untaken
  only when it has filled its room.  A unit of input is a unit of output, so that the
  buffer can be compared with the sources.

## Runs

`MC*.tla` and `.cfg` hold the instances.  `tlc -config MCStartup.cfg MCStartup` runs one.

| run | instance | shows |
|---|---|---|
| `safety` | 2 ports, 3 mbufs, buffers of 2, rings of 1, 2 frames per port, 3 tables | `TypeOK`, `OneOwner`, `NoOverrun`, `TxExclusive`; the abstract forwarder is implemented (`LossyForwarder`); frames are given up only under pressure (`LossOnlyUnderPressure`) |
| `accounting` | 1 port, 5 mbufs, 4 frames of 4 classes, 2 tables | `PoolSuffices`, `LostAreUnruled`, `StatsExact` |
| `liveness` | 2 ports, 1 frame each, with fairness | `Terminates`, `Flushed` |
| `race` | 2 ports that output to one | `TxQueueSafe` is violated |
| `startup` | machines of up to 5 lcores, 2 sockets, 3 ports; some 1800 files; command lines of up to 3 options | `ServiceReady`, `StatisticsReady`; of the parts `OwnLcore`, `LinksShown`, `TableWellFormed`, `TableIsFile`, `WordsExact` |
| `packet` | up to 2 received tags, and 28 and 29; 4 pushes, headroom for 0 to 3; every method, version and prefix, whole or cut short; RTP headers at their limits | `PushesComposed`, `TextTold`, `OrderIrrelevant`, `RtpAsDesigned`, `TagsDontMatter` |
| `statistics` | 2 workers, 2 packets, 10 units of time, 3 intervals | `ReportBetween`, `EveryInterval` |
| `queue` | ring of 3, 2 writers, 6 insertions; or 2 threads, 3 keys | `RingExact`, `GatherExact`; `JoinedExact` |
| `cmdline` | either editor, lines of 2 and longer by completion, history of 3 | `ScreenShowsCommand`, `UpShowsAnother`, `TabExtends`; `RowShowsLine` |
| `edit_config` | files of up to 3 lines ended in any way, 2 runs, kills anywhere, the disk full at any line | `OthersKept`, `KeyIsSet` |
| `ssh` | files of up to 5 bytes, a buffer of 2, an int that counts to 4, 2 descriptors, 2 calls of `connect`, a peer that falls silent | `SocketReturned`, `ReceivedWhole`, `SentWhole`, `Returns` |
| `gzip` | a buffer of 5 units, sources of up to 3, a helper used twice | `Unpacks`, `RoomSuffices` |

Why the bounds are enough:

* `safety`.  Two mbufs make a burst of two, a ring of one takes half of it, so that a
  partial burst, a full ring and a freed rest all occur; one list of actions fills a
  buffer and goes on; with three mbufs the mempool runs dry in the middle of a list,
  so that the null pointer is queued.  The tables have two ports that send to each
  other with pushes beyond the headroom (`Bridge`), one that sends to both ports while
  the other has no rule (`Mirror`), and two ports that send to one (`Shared`).  Two
  frames per port are needed for order to mean something.  Mbufs are interchangeable:
  nothing in the code compares them, so symmetry is sound.
* `accounting`.  The size of the mempool is exactly what `PoolSuffices` asks for: with
  one mbuf less TLC finds `CopyMbuf` failing.  Classes: with a rule, with or
  without one depending on the table, not counted, refused.  With the numbers of
  the code (buffers of 32, rings of 512, 8192 mbufs of which 128 per port wait in an RX
  ring) the premise of `PoolSuffices` holds for up to eight ports: 6343 mbufs can be in
  use, and at most 384 more in the per-lcore caches, of 7168.
* `startup`.  Every limit of every number of a rule is there with the next number on both
  sides and one that narrows to a legal value.  Files have one line; a line that is
  accepted, a second one, and any third; any two accepted lines; and a line for each of the
  ten keys of two ports followed by one too many, which is as long as an accepted prefix
  can get.  Three ports on five lcores leave room for disabled lcores before, between and
  after those taken; three counters make the last lcores have none.  The real number of
  rounds of the link check, 90, is a constant of the module; three rounds distinguish the
  first, one in the middle and the last.  Machines, files and command lines are not
  multiplied with each other: every machine meets two files, every file one machine, every
  command line each number of ports.  What couples them is the number of ports, which
  varies in the first and the last.
* `packet`.  Pushing is positional: two tags and two labels of each kind distinguish
  every order, and room for none to three of four pushes cuts them off anywhere.  Every
  payload comes without tags and with two, the lengths around each minimum give or take
  the four bytes of a tag, so that a tag miscounted would show.  Frames of 28 and of 29 tags
  are on both sides of what seven bits count: with the next one `PushesComposed` and
  `TagsDontMatter` fail without their conditions.  An extension of 16384 words is the
  shortest whose length 16 bits do not hold.  Words cut short are completed by every method's
  own and by none's.
* `statistics`.  Ten units of time hold three reports of the shortest interval; an
  iteration lasts up to three units, so that it can straddle a drain and an interval.
  No interval is asked for, or one that the first drain exceeds, or one that takes two; of
  intervals that 16 bits do not hold nothing is said.  The age of the latest report is bounded at every
  moment, so that reports which stop are seen before the time of the model is over.
* `queue`.  Six insertions wrap a ring of three twice.  Three keys with the clear behind the
  second leave keys on both sides of it; the lower bound of two on the unlocked count needs
  no more.  The ring and the map share no variable: a behaviour is one of either.
* `cmdline`.  Two characters give every place of the cursor; `TAB` makes lines of up to
  four.  Three lines read are enough for an entry that equals the line shown.  The first
  version has a command that a typed line can go on behind.
* `edit_config`.  Two lines of either key, of none, or empty, put the key first, last, twice,
  nowhere, with every way a line ends; of three lines the middle one has it.  Two runs let
  the second meet what a killed or cut one left, among it lines glued and empty ones.
* `ssh`.  An int that counts to four and files of five bytes put its overflow where it can be
  reached; a buffer of two makes every file but the shortest one come in parts.  A second
  `connect` and a second descriptor let another thread get the number of a closed one.
* `gzip`.  A buffer of five holds a header, a trailer and three units: sources fit, fit
  exactly, and do not.

`CHECK_DEADLOCK FALSE` is set where the modelled program ends (start-up, one packet, a
transfer, threads that are joined, a run of a program) or the history is bounded; the data plane has an explicit `Stopped`.

## Fairness

`liveness` needs:

* `WF(Worker(p))`: a worker is pinned to a core of its own and never blocks.
* `SF(BeginDrain(p))`: `prev_tsc` changes at a drain only and the time stamp counter
  grows, so a worker that returns to its loop condition again and again finds the drain
  due again and again.  Weak fairness would not do, as the drain is not possible while
  packets are handled.
* `WF(Transmit(q))`: the NIC sends what is in its ring.
* None for `Sigint`, for arrivals, or for a link coming up.

`Terminates` holds with the link up or down; `Flushed` says that what is buffered leaves
the buffer unless SIGINT comes first.

`ssh` needs `SF(Transferring)`.  The channel is set to block and no time-out is set, so that a
call of libssh2 comes back when the peer sends something, gives room to send, or ends the
connection, and waits for as long as it does not; a write that is told of 0 bytes goes round
in `SshChannel::write` meanwhile.  `PeerFallsSilent` and `PeerSpeaks` are under no fairness.
Strong fairness says that a call which waits comes back though the peer is not always there:
what it has sent waits in the socket.  `Returns` asks that the peer is never silent for good
(`[]<>~silent`), without which the call, and the program, wait for ever.  Then sending ends, and
so does receiving, unless a read fails, the peer dies before the end, or the file has more bytes
than an int counts.

## Proofs

Every theorem holds for all values of the constants that satisfy the assumptions of the
module it is about (`ASSUME`, evaluated by TLC in every run).  A module of proofs has one
inductive invariant for each specification, checked by TLC before it was proved, three facts
about it (`Init` implies it, every action keeps it, it implies the properties), and the
theorems of the properties.

| module, and its theorems | properties |
|---|---|
| `DataPlaneProofs`: `Invariant`, `TypeCorrect`, `Ownership`, `Exclusion`, `Arrays`, `Statistics`, `Losses`, `Pool` | `TypeOK`, `OneOwner`, `TxExclusive`, `NoOverrun`, `StatsExact`, `LostAreUnruled`, `PoolSuffices` |
| `DataPlaneProofs`: `Refinement`, `GivenUpOnlyUnderPressure`; `WiresInOrder`, `WiresAsRuled` | `LossyForwarder`, `LossOnlyUnderPressure`; `InOrder`, `AsRuled` of the abstract forwarder, which no run lists by themselves |
| `StartupProofs`: `PortsCorrect`, `OwnLcores`, `SingleMempool`, `LinksLogged` of `PortManager`; `StartupCorrect`, `Tables`, `FilesKept`, `Words`, `Service`, `StatisticsStart` | `OwnLcore`, `OneMempool`, `LinksShown`; `TableWellFormed`, `TableIsFile`, `WordsExact`, `ServiceReady`, `StatisticsReady` |
| `PacketPathProofs`: `PathCorrect`, `Composed`, `Told`, `Irrelevant`, `RtpDesigned`, `TagsAside` | `PushesComposed`, `TextTold`, `OrderIrrelevant`, `RtpAsDesigned`, `TagsDontMatter` |
| `StatisticsProofs`: `ReportsCorrect`, `Reports`, `Intervals` | `ReportBetween`, `EveryInterval` |
| `StatisticsQueueProofs`: `RingCorrect`, `Ring`, `Gathered`; `MapCorrect`, `Joined` | `RingExact`, `GatherExact`; `JoinedExact` |
| `SshProofs`: `TransferCorrect`, `Sockets`, `WholeReceived`, `WholeSent` | `SocketReturned`, `ReceivedWhole`, `SentWhole` |
| `CommonProofs`: `EditorsCorrect`, `ScreenIsCommand`, `RowIsLine`, `UpGoesOn`, `TabCompletes` of the line editors; `HelperCorrect`, `Unpacked`, `Room` of `GzipHelper` | `ScreenShowsCommand`, `RowShowsLine`, `UpShowsAnother`, `TabExtends`; `Unpacks`, `RoomSuffices` |
| `EditConfigProofs`: `EditorCorrect`, `OthersSafe`, `KeysSet` | `OthersKept`, `KeyIsSet` |

### Data plane

For any number of ports and mbufs, any `K`, ring size, rule tables and classes:

    IInv == TypeOK /\ OneOwner /\ Live /\ Control /\ Aims /\ TxExclusive

* `OneOwner` alone is not inductive.  `Head(rx[p])` is freed by `Finish`, which is safe
  only because there is a packet while actions are executed: `Control`.
* `TypeOK` needs `Live`: `Push` and `OutputCopy` read the frame of an mbuf, which is one
  only while the mbuf is in use.
* `TxExclusive` needs `Aims`, which connects a buffer that is not empty with a rule of
  the worker's own port: two workers in the burst for `q` then both send to `q`, which
  `SingleSender` excludes.  `Aims` needs the same of the actions still to be done.

The proof is laid out by what moves mbufs.  Five lemmas say that a partition of mbufs
into places survives the five movements the code has: one taken from the mempool and
appended, the null pointer appended, the first of a sequence leaving it, a whole
sequence freed, a prefix moved to another sequence.  Lemmas on `Contents` turn a change
of `rx`, `tx` or `ring` into one of these.  One lemma per action then has one step per
conjunct of `IInv` it can disturb.

The second half of the module counts.  `StatsExact` and `LostAreUnruled` compare counters and
sets with what was received; between the two stand the frames received but not yet
processed, which `RxIsLatest` says are the last ones of `arrived`.  `PoolSuffices` is
arithmetic over the places: `NothingMissing` says that no buffer holds a null pointer and
nothing is lost, and by `OneOwner` the mbufs in use are then the sum of the lengths of all
sequences, which is at most `InUseAtMost`, with one place to spare in the buffer of each
worker but those that are sending.

The third part proves that `DataPlane` implements `LossyForwarding`, from

    IInv /\ RxIsLatest /\ Carried

* `Carried` says that an mbuf in a queue or buffer of `p` holds a frame of `p`, with no more
  tags than there is headroom, and that an action list pushes before it outputs.  This is
  what makes the copy that `OutputCopy` takes now the frame that `Emitted` promised when the
  packet was received.
* `RxIsLatest` gives the frame that `RxOne` takes the number that `Accept` gives it.

`RxOne` maps to `Accept`, `Transmit` to `Deliver`, `OutputNull` to the loss of the first frame
owed, `FullTxBurst` to the loss of all that the buffer holds of the worker.  Every other action stutters: `OutputCopy`
moves a frame from what is owed to the end of the buffer, `ReturnTxBurst` a beginning of the
buffer to the end of the ring, and a channel is the concatenation of the three.  Which
part of which channel an action changes is a lemma of its own, on `FlattenSeq`, whose value
on an appended element is all that is used of it.  `LossOnlyUnderPressure` follows from the same
lemmas by comparing lengths.

`WiresInOrder` and `WiresAsRuled` are about the wires of `DataPlane`.  Both need an invariant of wires
and channels together: what is on a wire was accepted no later than what is queued in a channel
to it (`InLine`), and a frame is on the wire and in the channel together at most as often
as its rule outputs it (`Within`).

### Start-up

    PortsInv == TypeOK /\ Progress /\ Ascending /\ LastTaken /\ OneEach /\ Mempools
                  /\ Started /\ Rounds
    SInv == PortsInv /\ TheConfigInv /\ Arguments /\ Stages

`OwnLcore` needs to know where the loop stands: the lcores taken are all the slaves below the
one being considered (`Ascending`), as many as ports were initialised (`OneEach`).  From
`LastTaken` follows that the lcore that prints has a port.

`Config` is an instance for the number of ports of the machine, and `Cfg(n)!...` is reasoned
about for any `n`.  Its invariant says that `rules_` is what the lines read so far make of an
empty table, that the rules are well formed, and that there are as many as lines.  `TableIsFile`
rests on the injectivity of `RuleKey` on what the parser accepts (a port below 256 and a
protocol below 256 in 16 bits), `WordsExact` on its fields not reaching into each other, and
that `line_counter` does not wrap on there being at most as many accepted lines as keys.  `Arguments` and `Stages`
connect the three parts, so that `ServiceReady` speaks of the file named by the last option.

### Packets

    IInv == FrameTypeOK /\ HeadInv /\ SearchInv

`HeadInv` says how far the pushes are: `headroom` is what the pushes asked for have left of
it, and, while l2_len can count the tags or no label is pushed, the header is `Expected`, by a
case for each kind of push.  `SearchInv` says that the methods already asked have not found
their protocol, and that they were asked about what lies behind l2_len.  `TextTold` and
`OrderIrrelevant` then are facts about `Finds`: no two methods accept the same payload.
`TagsDontMatter` is one about `Completions`: what memory adds to a payload is looked at by no
method that finds it, if the payload is `Legible` (`SameFound`).  `RtpAsDesigned` is arithmetic
modulo 2^16.

### Statistics

    IInv == TypeOK /\ Times /\ Timer /\ Spaced /\ Loaded /\ Printed

`Loaded` is about a report half-way through a sum: what has been loaded is no more than the
counters read so far hold by now, and with those still to be read no less than what the
report began with.  `EveryInterval` needs `Timer`: the timer holds the time from the latest
report to the latest drain; what has passed since that drain is bounded by `Times`, so that
their sum is the age of the latest report.

### The smaller parts

* The ring: `Ordered` says, for each place an `insert` can be in, which samples lie where; the
  invariant of the reader, `Undisturbed`, what it knows as long as nobody writes.
* The map: the counter is the number of additions done (`CounterExact`).  Once all threads have cleared,
  the map has what the last of them to clear has inserted since (`MapExact`).  The variable without the
  lock is bounded from below by two (`CountBounds`): a thread that stores for the second time
  has loaded one at least.
* The SSH client: `SocketOwned` follows the one descriptor of a session; `ReceiveInv` and `SendInv` say
  that what is written is a beginning of what was read, and that `got` either counts what was read
  or has wrapped and stays behind it for good.
* The line editors: `EInv == LinesOK /\ HistoryOK /\ ScreenShowsCommand` and
  `FirstInv == FirstTypeOK /\ RowShowsLine`.  A row is reasoned about by what stands in each column,
  blanks to the right of what was written (`CellOf`), and `WriteIs` says which columns a `write`
  changes: `clearLine` leaves nothing behind the prompt, and what is written next is all that is
  shown.  `UpShowsAnother` needs `HistoryOK`: no entry repeats the one before it.
* Compression: as long as the buffer is not overrun, what was given is in it or inside
  `deflate`, in order (`InOrder`), or the buffer is full to the last unit (`Filled`).
* The configuration file editor: `Come` relates the second file to the lines come to, `SetIn` and `Found`
  say which of them have the key, `KeptIn` what is left of the others.  `Ended` and `LastEnded`
  say where a line without an end may be, which decides what the next one is glued to.  That
  a line more leaves the rest in its order is `LeftLonger`, `LeftBoth` and `LeftTwice`, about
  `LeftOf` alone.

### What the proofs have in common

No module here has a RECURSIVE operator.  Where a recursive function is reasoned about
(`Among`, `Upto`, the pushes, the parts of a file), its defining equation is derived once and
the facts about it follow from the least place where they could fail: the set of those places has a
least element (`LeastElement`, from the well-foundedness of `<` on `Nat`), at which the equation
gives a contradiction.

### Only model-checked

* Liveness (`Terminates`, `Flushed`, `Returns`), which is out of the prover's reach.
* `TxQueueSafe` is false, and `race` shows how.

Every other property of a run is stated by a theorem.

## Where code and documents disagree

One disagreement has a run of its own:

* `D/port.cpp:94`, run `race`.  The design (`dpdk_dpi/doc/tex/30-design.tex:66`) says that
  an output buffer per lcore makes further measures unnecessary.  The buffer is private,
  the TX queue it is emptied into is not: two workers whose rules output to the same port
  call `rte_eth_tx_burst` for the same queue at once.  `TxExclusive`, checked and proved,
  says when this cannot happen.

Others were met while modelling.  The models contain the behaviour, and the properties
hold under the conditions stated:

* `D/packet_manager.cpp:112`: `continue` for a packet without a rule skips
  `rte_pktmbuf_free`.  `LostAreUnruled` says that these packets, and no others, cost an
  mbuf each.  Once all are lost nothing can be received.
* `D/packet_manager.cpp:132`: the result of `CopyMbuf` is not tested.  `PoolSuffices` says
  when it cannot be null; the leak above takes its premise away.
* `D/packet_manager.cpp:49`: what is in the TX buffers when a worker stops is never sent.
* `D/config.cpp:257`: numbers are narrowed before they are compared with their limits, and
  the MPLS label is not compared: a PCP of 263 is taken for 7, a label of 2^20 for 0,
  where `30-design.tex:284` and `:300` limit them.  `WordsExact` says what is pushed.
* `D/config.cpp:115`: text after the last `;` of a line is ignored, so that an action
  without its semicolon (`30-design.tex:259`) is silently left out.
* `D/port_manager.cpp:45`: every mempool is created under one name, which DPDK refuses the
  second time.  The comment at line 30 speaks of a mempool on each socket; on a machine
  whose ports are served from two sockets `Initialize` fails (`OneMempool`).
* `D/port.cpp:16`: there are 16 counters (`port.h:8`), lcore ids go up to `RTE_MAX_LCORE`.
  `StatisticsReady` says on which machines they fit; on others the array is overrun.
* `D/common.cpp:99`: a label is placed by `l2_len`, which `ExecutePushVlan` does not update.
  A label pushed after a tag lands in the tag.  `PushesComposed` covers the rules that push
  labels first; `test/actions.cpp` tests a label behind a tag that was received.
* `D/common.cpp:36`: `l2_len` has seven bits, and four are added for each tag.  On a frame with
  29 tags or more it starts again from nought: the payload is looked for, and labels are put,
  among the tags.  `PushesComposed` and `TagsDontMatter` speak of up to 28.
* `D/protocols/http.cpp:21`: the blank behind the address is looked for without regard to
  `payload_len`, and the version behind it, like the prefix at `rtsp.cpp:24`, is compared to its
  end: when the packet ends before that, its class is decided by what an older packet has left in
  the mbuf.  `TagsDontMatter` speaks of payloads that hold what is looked at.  A search that runs
  on behind the mbuf is undefined behaviour, and outside the model; so are frames that end
  within their tags or the headers behind them, which `PreparePacket` reads without asking.
* `D/protocols/rtp.cpp:13`: RTP version 3 passes for 2, where the design
  (`dpdk_dpi/doc/tex/30-design.tex:180` to `:235`) asks for 2.  `:33`: the extension's length is
  kept modulo 2^16, so that one of 2^14 words counts as none.  `:6`: the payload length wraps
  when the headers claim more than the packet has.  `RtpAsDesigned` says that nothing else which
  is no RTP packet is taken for one, and that every RTP packet is.
* `D/cmd_args.cpp:33`: `--stats-interval 65537` prints every second, `65536` never, where
  `dpdk_dpi/doc/tex/40-impl.tex:343` promises a report every so many seconds.  `StatisticsReady` and
  `EveryInterval` speak of intervals that 16 bits hold.  Of an option given twice the last one
  counts, and one that is unknown is passed over.
* `common/cmdline.cpp:154`: `have_space` is never reset, so that a command with a blank
  hides those added after it from a line without one.
* `common/ss.h:110`: `get` reads while `insert` is between its updates and may answer a
  stale or, after `clean`, a meaningless sample; `GatherExact` speaks of readers nobody
  disturbs.
* `common/edit_config.cc:145`: the results of `fwrite` and `fclose` are not looked at before
  the second file replaces the first.  When the disk is full, lines are lost from the end; when
  it is full for a while, anywhere, as stdio drops what it could not write and goes on: lines
  are lost, cut, or glued to others.  The program reports success.  `OthersKept` says that none
  is made up, doubled or moved.
* `common/edit_config.cc:127`: what `fgetc` returns is put into a `char`, so that a byte 0xFF in the
  file is taken for EOF.  It is dropped, and what is before and behind it are two lines to the
  program: if one is replaced or deleted the other stays, and what is written for the second is glued
  to the first, unless that was replaced.  A line that is set may so end up behind another, where
  no later run finds it.  `OthersKept` claims less of such files, and of "app" `KeyIsSet` does
  not say that the key is there.
* `common/readline.cc:155`: Up shows an entry and then moves on, Down moves first, so that Down
  after Up shows the same entry again.  `:141`: a line that goes on behind a command is cut
  back to the command by TAB, and an empty line is completed to the first one.
* `common/safe_map.cc:92`: `a` is counted without the lock; `JoinedExact` says how little of it
  may be left.
* `common/ssh2.cc:351`: a negative answer of `read` is added to `got`, so that the loop asks for
  more than there is; `got` is an int, and a file of more than `INT_MAX` bytes never ends and
  gets the byte that follows the file written behind it (`ReceivedWhole` without its last
  condition fails); at the end of a stream that was cut short `read` answers 0 for ever.
* `common/ssh2.cc:85`: `connect` answers 0 when the handshake has failed.  `:69`: when it
  answers -1 the socket is closed, but `m_sock` keeps its number, which the destructor closes
  again, possibly another thread's by then; `SocketReturned` speaks of sessions whose one
  `connect` answered 0.  `:92`: `auth` returns nothing when it succeeds.
* `common/ssh2.cc:178`: whether `stat` succeeds is not looked at; the size announced is then
  what was on the stack.  `:294`: an error gives up the rest of a part and the next part is
  sent.  That the copy is not whole is seen only by `finish`, from the status of the peer,
  and a peer that was killed has none, which reads as 0 (`SentWhole`).  What `transfer` itself
  returns is the answer of its last call, or nothing that was ever set.
* `common/gziphelper.cc:137`: the room told to `deflate` is the whole capacity, though output goes
  on at `m_size`; sources that do not fit overrun the buffer (`RoomSuffices` says that no others
  do).  `:143`: input that `deflate` has not taken is not given again.  `:127`: a second
  `compressInit` keeps `m_size`, so that the second stream starts behind the first.  `:186`: the
  file is not truncated, and what `write` answers is not looked at.

## What is not modelled

* The values passed to NICs, the text of reports and logs, and packets beyond the fields
  above: they decide no step.
* The bytes of regular expressions and `std::stoul`: `PacketAnalyzer` and `Config` keep what
  they answer.
* Of the SSH client: shells and `setEnv`, `poll` and `waitSocket`, which pass a call on and
  which nothing uses, and several channels at once.  Of compression: `GzipCompress`, one call
  of zlib on a buffer it is given, and the demonstration in `main`.
* Two runs of the configuration file editor at the same time: nothing in the repository says
  that there may be two.
* Time arithmetic, host preparation scripts, the packet sender, bit sets and the build
  scripts: demonstrations or sequences of system calls without state; `PROJECT.json` gives
  the reason for each.
* Rows of a terminal that wrap; see `Terminal`.
* What happens after undefined behaviour.

## Plan

Done, in this order because the data plane is what the program is for: `Rules`,
`DataPlane`, `LossyForwarding` and its refinement, the proofs, then what the data plane
rests on (`Config`, `PortManager`, `PacketModifier`, `PacketAnalyzer`), `Statistics`, the
smaller parts, then the compositions `Startup` and `PacketPath`, the SSH client,
compression, the first line editor and the locked map.

Then the theorems, in the same order, the refinement last.  What is left unproved is liveness.
