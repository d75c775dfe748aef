------------------------------ MODULE DataPlane ------------------------------
(***************************************************************************)
(* PacketManager::RunProcessing and what it calls, on every slave lcore    *)
(* that has a port.  PortManager gives each port an lcore of its own, so   *)
(* the worker of port p stands for the lcore too: it reads the RX queue of *)
(* p, classifies, executes the rule of the class, and buffers the copies   *)
(* in its own row tx[p] of port_tx_table_.  The row is private; the TX     *)
(* queue 0 of a NIC, the mempool and the flag terminated are shared.       *)
(*                                                                         *)
(* A step is a piece of code that touches at most one shared object.       *)
(* rte_eth_tx_burst has a begin and an end so that two calls can overlap.  *)
(*                                                                         *)
(* Undefined behaviour stops the model: fault names it, and nothing is     *)
(* said of what happens afterwards.                                        *)
(*                                                                         *)
(* External (DPDK, the NIC): the mempool is a set of free mbufs, rx_burst  *)
(* delivers a prefix of what is on the line, tx_burst takes as many mbufs  *)
(* as the TX ring has room for and dereferences each of them, the NIC      *)
(* empties the ring.                                                       *)
(***************************************************************************)
EXTENDS Rules, FiniteSets

CONSTANTS
  RuleTables,    \* the rule tables the configuration file may hold
  Mbufs,         \* the mbufs of the mempool not parked in an RX ring
  NoMbuf,        \* the null pointer
  NoFrame,       \* the content of a free mbuf
  K,             \* kMAX_PKTS_IN_QUEUE
  RingSize,      \* descriptors of a TX ring, kNB_TXD
  Traffic,       \* the classes of the frames on the line
  MaxArrivals    \* bound of the model: frames that arrive on a port

ASSUME DataPlaneAssumption ==
  /\ \A r \in RuleTables : IsRuleTable(r)
  /\ NoMbuf \notin Mbufs
  /\ K \in Nat \ {0}
  /\ RingSize \in Nat
  /\ Traffic \subseteq Classes
  /\ MaxArrivals \in Nat

VARIABLES
  rules,         \* Config::rules_, written before the lcores are launched
  terminated,    \* the flag the SIGINT handler sets
  fault,         \* undefined behaviour met: "none", "null" or "race"
  pc,            \* pc[p]: where the worker of p is
  link,          \* link[p]: link.link_status, uninitialised at first
  rx,            \* rx[p]: rx_queue from the packet being processed on
  todo,          \* todo[p]: the actions from the iterator on
  tx,            \* tx[p][q]: port_tx_table_[lcore of p][q], from sended on
  queue,         \* queue[p]: the port being drained or sent to
  stats,         \* stats[p][c]: protocol_stats_ of port p
  pool,          \* the mbufs rte_pktmbuf_alloc can return
  lost,          \* mbufs nothing refers to that were never freed
  frame,         \* the data of each mbuf
  ring,          \* ring[q]: TX queue 0 of port q
  arrived,       \* history: the classes of the frames received on p
  wire           \* history: the frames sent out of q

vars == <<rules, terminated, fault, pc, link, rx, todo, tx, queue, stats,
          pool, lost, frame, ring, arrived, wire>>

Locations == {"poll", "drain", "send", "burst", "recv", "process", "actions",
              "done"}

Row == [Ports -> Seq(Mbufs \cup {NoMbuf})]

\* The state is of the types the code declares.
TypeOK ==
  /\ rules \in RuleTables
  /\ terminated \in BOOLEAN
  /\ fault \in {"none", "null", "race"}
  /\ pc \in [Ports -> Locations]
  /\ link \in [Ports -> BOOLEAN]
  /\ rx \in [Ports -> Seq(Mbufs)]
  /\ todo \in [Ports -> Seq(ActionSet)]
  /\ tx \in [Ports -> Row]
  /\ queue \in [Ports -> 0 .. NbPorts]
  /\ stats \in [Ports -> [Counted -> Nat]]
  /\ pool \subseteq Mbufs
  /\ lost \subseteq Mbufs
  /\ frame \in [Mbufs -> Frames \cup {NoFrame}]
  /\ ring \in [Ports -> Seq(Mbufs)]
  /\ arrived \in [Ports -> Seq(Classes)]
  /\ wire \in [Ports -> Seq(Frames)]

Init ==
  /\ rules \in RuleTables
  /\ terminated = FALSE
  /\ fault = "none"
  /\ pc = [p \in Ports |-> "poll"]
  /\ link \in [Ports -> BOOLEAN]
  /\ rx = [p \in Ports |-> << >>]
  /\ todo = [p \in Ports |-> << >>]
  /\ tx = [p \in Ports |-> [q \in Ports |-> << >>]]
  /\ queue = [p \in Ports |-> 0]
  /\ stats = [p \in Ports |-> [c \in Counted |-> 0]]
  /\ pool = Mbufs
  /\ lost = {}
  /\ frame = [m \in Mbufs |-> NoFrame]
  /\ ring = [q \in Ports |-> << >>]
  /\ arrived = [p \in Ports |-> << >>]
  /\ wire = [q \in Ports |-> << >>]

At(p, location) == fault = "none" /\ pc[p] = location

Goto(p, location) == pc' = [pc EXCEPT ![p] = location]

\* The mbufs of ms go back to the mempool (rte_pktmbuf_free).
Free(ms) ==
  /\ pool' = pool \cup ms
  /\ frame' = [m \in Mbufs |-> IF m \in ms THEN NoFrame ELSE frame[m]]

-----------------------------------------------------------------------------
(* The loop of RunProcessing. *)

\* The signal handler; it runs on the master lcore.
Sigint ==
  /\ fault = "none"
  /\ ~terminated
  /\ terminated' = TRUE
  /\ UNCHANGED <<rules, fault, pc, link, rx, todo, tx, queue, stats, pool,
                 lost, frame, ring, arrived, wire>>

\* The loop condition: terminated is read once per iteration.  What is in
\* the row tx[p] stays there.
Leave(p) ==
  /\ At(p, "poll")
  /\ terminated
  /\ Goto(p, "done")
  /\ UNCHANGED <<rules, terminated, fault, link, rx, todo, tx, queue, stats,
                 pool, lost, frame, ring, arrived, wire>>

\* diff_tsc >= drain_tsc: start flushing the row, port 0 first.
BeginDrain(p) ==
  /\ At(p, "poll")
  /\ ~terminated
  /\ Goto(p, "drain")
  /\ queue' = [queue EXCEPT ![p] = 0]
  /\ UNCHANGED <<rules, terminated, fault, link, rx, todo, tx, stats, pool,
                 lost, frame, ring, arrived, wire>>

\* Mutant: the iterations without a flush do not look at terminated.
SkipDrainForever(p) ==
  /\ At(p, "poll")
  /\ Goto(p, IF link[p] THEN "recv" ELSE "poll")
  /\ UNCHANGED <<rules, terminated, fault, link, rx, todo, tx, queue, stats,
                 pool, lost, frame, ring, arrived, wire>>

\* diff_tsc < drain_tsc: straight to the RX queue when the link is up.
SkipDrain(p) ==
  /\ At(p, "poll")
  /\ ~terminated
  /\ Goto(p, IF link[p] THEN "recv" ELSE "poll")
  /\ UNCHANGED <<rules, terminated, fault, link, rx, todo, tx, queue, stats,
                 pool, lost, frame, ring, arrived, wire>>

\* Mutant: the flush leaves the last port out.
DrainAllButLast(p) ==
  /\ At(p, "drain")
  /\ queue[p] < NbPorts
  /\ IF tx[p][queue[p]] = << >> \/ queue[p] = NbPorts - 1
     THEN queue' = [queue EXCEPT ![p] = @ + 1] /\ UNCHANGED pc
     ELSE Goto(p, "send") /\ UNCHANGED queue
  /\ UNCHANGED <<rules, terminated, fault, link, rx, todo, tx, stats, pool,
                 lost, frame, ring, arrived, wire>>

\* One iteration of the flush; SendAllPackets returns at once when the
\* buffer is empty.
DrainPort(p) ==
  /\ At(p, "drain")
  /\ queue[p] < NbPorts
  /\ IF tx[p][queue[p]] = << >>
     THEN queue' = [queue EXCEPT ![p] = @ + 1] /\ UNCHANGED pc
     ELSE Goto(p, "send") /\ UNCHANGED queue
  /\ UNCHANGED <<rules, terminated, fault, link, rx, todo, tx, stats, pool,
                 lost, frame, ring, arrived, wire>>

\* After the flush: the link status is read again every timer_period, that
\* is, it stays or becomes what the NIC says.
EndDrain(p) ==
  /\ At(p, "drain")
  /\ queue[p] = NbPorts
  /\ \E up \in BOOLEAN :
       /\ link' = [link EXCEPT ![p] = up]
       /\ Goto(p, IF up THEN "recv" ELSE "poll")
  /\ queue' = [queue EXCEPT ![p] = 0]
  /\ UNCHANGED <<rules, terminated, fault, rx, todo, tx, stats, pool, lost,
                 frame, ring, arrived, wire>>

-----------------------------------------------------------------------------
(* PortEthernet::ReceivePackets. *)

\* rx_burst hands over one more mbuf; it stops at kMAX_PKTS_IN_QUEUE, and
\* when the mempool has no mbuf to put in its place.
RxOne(p) ==
  /\ At(p, "recv")
  /\ Len(rx[p]) < K
  /\ Len(arrived[p]) < MaxArrivals
  /\ \E m \in pool, class \in Traffic :
       /\ pool' = pool \ {m}
       /\ frame' = [frame EXCEPT ![m] =
                      [src |-> p, no |-> Len(arrived[p]) + 1,
                       class |-> class, tags |-> << >>]]
       /\ rx' = [rx EXCEPT ![p] = Append(@, m)]
       /\ arrived' = [arrived EXCEPT ![p] = Append(@, class)]
  /\ UNCHANGED <<rules, terminated, fault, pc, link, todo, tx, queue, stats,
                 lost, ring, wire>>

RxDone(p) ==
  /\ At(p, "recv")
  /\ Goto(p, "process")
  /\ UNCHANGED <<rules, terminated, fault, link, rx, todo, tx, queue, stats,
                 pool, lost, frame, ring, arrived, wire>>

-----------------------------------------------------------------------------
(* PacketManager::ProcessPackets: Head(rx[p]) is the packet at index i. *)

ProcessDone(p) ==
  /\ At(p, "process")
  /\ rx[p] = << >>
  /\ Goto(p, "poll")
  /\ UNCHANGED <<rules, terminated, fault, link, rx, todo, tx, queue, stats,
                 pool, lost, frame, ring, arrived, wire>>

\* Mutant: a refused packet is skipped like one without a rule.
UnsupportedLeaks(p) ==
  /\ At(p, "process")
  /\ rx[p] # << >>
  /\ frame[Head(rx[p])].class = "unsupported"
  /\ lost' = lost \cup {Head(rx[p])}
  /\ rx' = [rx EXCEPT ![p] = Tail(@)]
  /\ UNCHANGED <<rules, terminated, fault, pc, link, todo, tx, queue, stats,
                 pool, frame, ring, arrived, wire>>

\* PreparePacket refuses the packet: it is freed.
Unsupported(p) ==
  /\ At(p, "process")
  /\ rx[p] # << >>
  /\ frame[Head(rx[p])].class = "unsupported"
  /\ Free({Head(rx[p])})
  /\ rx' = [rx EXCEPT ![p] = Tail(@)]
  /\ UNCHANGED <<rules, terminated, fault, pc, link, todo, tx, queue, stats,
                 lost, ring, arrived, wire>>

\* UpdateProtocolStats: the worker is the only one to write this counter.
CountProtocol(p, c) ==
  stats' = IF c \in Counted THEN [stats EXCEPT ![p][c] = @ + 1] ELSE stats

\* Mutant: the packet is counted only once its rule is known.
UnruledUncounted(p) ==
  /\ At(p, "process")
  /\ rx[p] # << >>
  /\ LET m == Head(rx[p])
     IN /\ frame[m].class # "unsupported"
        /\ <<p, frame[m].class>> \notin DOMAIN rules
        /\ lost' = lost \cup {m}
        /\ frame' = [frame EXCEPT ![m] = NoFrame]
  /\ rx' = [rx EXCEPT ![p] = Tail(@)]
  /\ UNCHANGED <<rules, terminated, fault, pc, link, todo, tx, queue, stats,
                 pool, ring, arrived, wire>>

\* GetActions answers nullptr: `continue` jumps over rte_pktmbuf_free, and
\* the count set to 0 at the end forgets the mbuf.
Unruled(p) ==
  /\ At(p, "process")
  /\ rx[p] # << >>
  /\ LET m == Head(rx[p])
         c == frame[m].class
     IN /\ c # "unsupported"
        /\ <<p, c>> \notin DOMAIN rules
        /\ CountProtocol(p, c)
        /\ lost' = lost \cup {m}
        /\ frame' = [frame EXCEPT ![m] = NoFrame]
  /\ rx' = [rx EXCEPT ![p] = Tail(@)]
  /\ UNCHANGED <<rules, terminated, fault, pc, link, todo, tx, queue, pool,
                 ring, arrived, wire>>

Ruled(p) ==
  /\ At(p, "process")
  /\ rx[p] # << >>
  /\ LET c == frame[Head(rx[p])].class
     IN /\ c # "unsupported"
        /\ <<p, c>> \in DOMAIN rules
        /\ CountProtocol(p, c)
        /\ todo' = [todo EXCEPT ![p] = rules[<<p, c>>]]
  /\ Goto(p, "actions")
  /\ UNCHANGED <<rules, terminated, fault, link, rx, tx, queue, pool, lost,
                 frame, ring, arrived, wire>>

Doing(p, type) ==
  /\ At(p, "actions")
  /\ todo[p] # << >>
  /\ Head(todo[p]).type = type
  /\ todo' = [todo EXCEPT ![p] = Tail(@)]

\* The break leaves the switch only: the iteration goes on.
Drop(p) ==
  /\ Doing(p, "DROP")
  /\ UNCHANGED <<rules, terminated, fault, pc, link, rx, tx, queue, stats,
                 pool, lost, frame, ring, arrived, wire>>

Push(p) ==
  /\ Doing(p, "PUSH")
  /\ frame' = [frame EXCEPT ![Head(rx[p])] = Pushed(@, Head(todo[p]).tag)]
  /\ UNCHANGED <<rules, terminated, fault, pc, link, rx, tx, queue, stats,
                 pool, lost, ring, arrived, wire>>

\* Mutant: the buffer is flushed one packet too late.
BufferTooLong(p, q, m) ==
  /\ tx' = [tx EXCEPT ![p][q] = Append(@, m)]
  /\ IF Len(tx[p][q]) + 1 > K
     THEN Goto(p, "send") /\ queue' = [queue EXCEPT ![p] = q]
     ELSE UNCHANGED <<pc, queue>>

\* Mutant: every copy goes to the column of port 0.
BufferFirstColumn(p, q, m) ==
  /\ tx' = [tx EXCEPT ![p][0] = Append(@, m)]
  /\ IF Len(tx[p][0]) + 1 = K
     THEN Goto(p, "send") /\ queue' = [queue EXCEPT ![p] = 0]
     ELSE UNCHANGED <<pc, queue>>

\* SendOnePacket: append, and flush the buffer that has become full.
Buffer(p, q, m) ==
  /\ tx' = [tx EXCEPT ![p][q] = Append(@, m)]
  /\ IF Len(tx[p][q]) + 1 = K
     THEN Goto(p, "send") /\ queue' = [queue EXCEPT ![p] = q]
     ELSE UNCHANGED <<pc, queue>>

\* CopyMbuf finds a free mbuf.
OutputCopy(p) ==
  /\ Doing(p, "OUTPUT")
  /\ \E m \in pool :
       /\ pool' = pool \ {m}
       /\ frame' = [frame EXCEPT ![m] = frame[Head(rx[p])]]
       /\ Buffer(p, Head(todo[p]).port, m)
  /\ UNCHANGED <<rules, terminated, fault, link, rx, stats, lost, ring,
                 arrived, wire>>

\* CopyMbuf finds none and returns nullptr, which ExecuteOutput queues like
\* any other mbuf.  (It would do the same for a frame too long for the data
\* room of an mbuf; a received frame never is.)
OutputNull(p) ==
  /\ Doing(p, "OUTPUT")
  /\ pool = {}
  /\ Buffer(p, Head(todo[p]).port, NoMbuf)
  /\ UNCHANGED <<rules, terminated, fault, link, rx, stats, pool, lost,
                 frame, ring, arrived, wire>>

\* Every action is done: the received mbuf is freed.
Finish(p) ==
  /\ At(p, "actions")
  /\ todo[p] = << >>
  /\ Free({Head(rx[p])})
  /\ rx' = [rx EXCEPT ![p] = Tail(@)]
  /\ Goto(p, "process")
  /\ UNCHANGED <<rules, terminated, fault, link, todo, tx, queue, stats, lost,
                 ring, arrived, wire>>

-----------------------------------------------------------------------------
(* PortEthernet::SendAllPackets on tx[p][queue[p]], which is not empty. *)

Batch(p) == tx[p][queue[p]]

\* What tx_burst can take: as many mbufs as the ring has room for.
Room(q) == RingSize - Len(ring[q])
Taken(p) == IF Len(Batch(p)) <= Room(queue[p]) THEN Len(Batch(p))
                                              ELSE Room(queue[p])

\* SendAllPackets returns: to the flush when rx_queue is empty, else to the
\* action list being executed.
Resume(p) ==
  /\ Goto(p, IF rx[p] = << >> THEN "drain" ELSE "actions")
  /\ queue' = [queue EXCEPT ![p] = IF rx[p] = << >> THEN @ + 1 ELSE 0]

InBurst(p, q) == pc[p] = "burst" /\ queue[p] = q

\* rte_eth_tx_burst is entered; nobody else is in it for this TX queue.
CallTxBurst(p) ==
  /\ At(p, "send")
  /\ \A p2 \in Ports : ~InBurst(p2, queue[p])
  /\ Goto(p, "burst")
  /\ UNCHANGED <<rules, terminated, fault, link, rx, todo, tx, queue, stats,
                 pool, lost, frame, ring, arrived, wire>>

\* It is entered while another lcore is in it for the same TX queue, which
\* DPDK leaves undefined.
RaceTxBurst(p) ==
  /\ At(p, "send")
  /\ \E p2 \in Ports : InBurst(p2, queue[p])
  /\ fault' = "race"
  /\ UNCHANGED <<rules, terminated, pc, link, rx, todo, tx, queue, stats,
                 pool, lost, frame, ring, arrived, wire>>

NullTaken(p) == \E i \in 1 .. Taken(p) : Batch(p)[i] = NoMbuf

\* One of the mbufs taken is the null pointer.
NullTxBurst(p) ==
  /\ At(p, "burst")
  /\ NullTaken(p)
  /\ fault' = "null"
  /\ UNCHANGED <<rules, terminated, pc, link, rx, todo, tx, queue, stats,
                 pool, lost, frame, ring, arrived, wire>>

\* Mutant: the next call starts one mbuf too early.
ReturnRepeating(p) ==
  /\ At(p, "burst")
  /\ Taken(p) > 0
  /\ ~NullTaken(p)
  /\ ring' = [ring EXCEPT ![queue[p]] = @ \o SubSeq(Batch(p), 1, Taken(p))]
  /\ tx' = [tx EXCEPT ![p][queue[p]] = SubSeq(@, Taken(p), Len(@))]
  /\ Goto(p, "send")
  /\ UNCHANGED <<rules, terminated, fault, link, rx, todo, queue, stats, pool,
                 lost, frame, arrived, wire>>

\* Mutant: one call only; what it does not take is freed.
ReturnOnce(p) ==
  /\ At(p, "burst")
  /\ Taken(p) > 0
  /\ ~NullTaken(p)
  /\ ring' = [ring EXCEPT ![queue[p]] = @ \o SubSeq(Batch(p), 1, Taken(p))]
  /\ tx' = [tx EXCEPT ![p][queue[p]] = << >>]
  /\ Free({Batch(p)[i] : i \in Taken(p) + 1 .. Len(Batch(p))} \ {NoMbuf})
  /\ Resume(p)
  /\ UNCHANGED <<rules, terminated, fault, link, rx, todo, stats, lost,
                 arrived, wire>>

\* Some were taken: SendAllPackets calls again for what is left.
ReturnTxBurst(p) ==
  /\ At(p, "burst")
  /\ Taken(p) > 0
  /\ ~NullTaken(p)
  /\ ring' = [ring EXCEPT ![queue[p]] = @ \o SubSeq(Batch(p), 1, Taken(p))]
  /\ tx' = [tx EXCEPT ![p][queue[p]] = SubSeq(@, Taken(p) + 1, Len(@))]
  /\ IF Taken(p) = Len(Batch(p))
     THEN Resume(p)
     ELSE Goto(p, "send") /\ UNCHANGED queue
  /\ UNCHANGED <<rules, terminated, fault, link, rx, todo, stats, pool, lost,
                 frame, arrived, wire>>

\* Mutant: the null pointer goes to the mempool with the rest.
FullFreesNull(p) ==
  /\ At(p, "burst")
  /\ Taken(p) = 0
  /\ Free({Batch(p)[i] : i \in 1 .. Len(Batch(p))})
  /\ tx' = [tx EXCEPT ![p][queue[p]] = << >>]
  /\ Resume(p)
  /\ UNCHANGED <<rules, terminated, fault, link, rx, todo, stats, lost, ring,
                 arrived, wire>>

\* Mutant: the rest is freed and the count keeps its value.
FullKeepsCount(p) ==
  /\ At(p, "burst")
  /\ Taken(p) = 0
  /\ Free({Batch(p)[i] : i \in 1 .. Len(Batch(p))} \ {NoMbuf})
  /\ Resume(p)
  /\ UNCHANGED <<rules, terminated, fault, link, rx, todo, tx, stats, lost,
                 ring, arrived, wire>>

\* Mutant: the count is reset and the rest is not freed.
FullFreesNothing(p) ==
  /\ At(p, "burst")
  /\ Taken(p) = 0
  /\ lost' = lost \cup ({Batch(p)[i] : i \in 1 .. Len(Batch(p))} \ {NoMbuf})
  /\ tx' = [tx EXCEPT ![p][queue[p]] = << >>]
  /\ Resume(p)
  /\ UNCHANGED <<rules, terminated, fault, link, rx, todo, stats, pool, frame,
                 ring, arrived, wire>>

\* None was taken: the rest of the buffer is freed.  Freeing the null
\* pointer does nothing.
FullTxBurst(p) ==
  /\ At(p, "burst")
  /\ Taken(p) = 0
  /\ Free({Batch(p)[i] : i \in 1 .. Len(Batch(p))} \ {NoMbuf})
  /\ tx' = [tx EXCEPT ![p][queue[p]] = << >>]
  /\ Resume(p)
  /\ UNCHANGED <<rules, terminated, fault, link, rx, todo, stats, lost, ring,
                 arrived, wire>>

\* The NIC sends a frame; the driver frees the mbuf.
Transmit(q) ==
  /\ fault = "none"
  /\ ring[q] # << >>
  /\ wire' = [wire EXCEPT ![q] = Append(@, frame[Head(ring[q])])]
  /\ ring' = [ring EXCEPT ![q] = Tail(@)]
  /\ Free({Head(ring[q])})
  /\ UNCHANGED <<rules, terminated, fault, pc, link, rx, todo, tx, queue,
                 stats, lost, arrived>>

-----------------------------------------------------------------------------

Loop(p) == Leave(p) \/ BeginDrain(p) \/ SkipDrain(p) \/ DrainPort(p)
             \/ EndDrain(p)
Receive(p) == RxOne(p) \/ RxDone(p)
Process(p) == ProcessDone(p) \/ Unsupported(p) \/ Unruled(p) \/ Ruled(p)
Execute(p) == Drop(p) \/ Push(p) \/ OutputCopy(p) \/ OutputNull(p) \/ Finish(p)
Send(p) == CallTxBurst(p) \/ RaceTxBurst(p) \/ NullTxBurst(p)
             \/ ReturnTxBurst(p) \/ FullTxBurst(p)

Worker(p) == Loop(p) \/ Receive(p) \/ Process(p) \/ Execute(p) \/ Send(p)

\* main returns, or undefined behaviour was met.
Stopped ==
  /\ fault # "none" \/ \A p \in Ports : pc[p] = "done" /\ ring[p] = << >>
  /\ UNCHANGED vars

Next == \/ Sigint
        \/ \E p \in Ports : Worker(p) \/ Transmit(p)
        \/ Stopped

Spec == Init /\ [][Next]_vars

\* Each worker is alone on its core, so it keeps running.  prev_tsc changes
\* at the drain only and the time stamp counter grows, so a worker that comes
\* back to the loop condition again and again finds the drain due again and
\* again.  The NIC keeps sending.  Nobody has to press Ctrl-C.
Fairness == \A p \in Ports : /\ WF_vars(Worker(p))
                             /\ SF_vars(BeginDrain(p))
                             /\ WF_vars(Transmit(p))

FairSpec == Spec /\ Fairness

-----------------------------------------------------------------------------
(* Correctness. *)

\* The sequences that hold mbufs: the RX queue of each worker, each element
\* of port_tx_table_, each TX ring.
Buffers == {<<"rx", p, p>> : p \in Ports} \cup {<<"ring", q, q>> : q \in Ports}
             \cup {<<"tx", p, q>> : p, q \in Ports}
Contents == [b \in Buffers |-> IF b[1] = "rx" THEN rx[b[2]]
                               ELSE IF b[1] = "ring" THEN ring[b[2]]
                               ELSE tx[b[2]][b[3]]]

\* Each mbuf is in exactly one place: one position of one sequence of held,
\* or free, or leaked.
Partition(held, free, leaked) ==
  /\ \A b, c \in DOMAIN held : \A i \in DOMAIN held[b], j \in DOMAIN held[c] :
       held[b][i] = held[c][j] /\ held[b][i] # NoMbuf => b = c /\ i = j
  /\ \A b \in DOMAIN held : \A i \in DOMAIN held[b] :
       held[b][i] \notin free \cup leaked
  /\ free \cap leaked = {}
  /\ \A m \in Mbufs \ (free \cup leaked) :
       \E b \in DOMAIN held : \E i \in DOMAIN held[b] : held[b][i] = m

\* Ownership of mbufs.  The data plane never frees one twice, never frees
\* one it still refers to, never has one in two queues, and drops its last
\* reference to one only where `lost` says.
OneOwner == Partition(Contents, pool, lost)

\* The arrays of PortQueue are never overrun: a TX buffer is full only while
\* its owner is sending it, the RX queue is never more than full.
NoOverrun ==
  \A p, q \in Ports :
    /\ Len(rx[p]) <= K
    /\ Len(ring[q]) <= RingSize
    /\ IF pc[p] \in {"send", "burst"} /\ queue[p] = q
       THEN Len(tx[p][q]) \in 1 .. K
       ELSE Len(tx[p][q]) < K

\* When no two input ports have rules that output to the same port, no two
\* lcores are ever in rte_eth_tx_burst for the same TX queue.
TxExclusive == SingleSender(rules) => fault # "race"

\* How many mbufs can be in use when CopyMbuf asks for one: full RX queues,
\* TX buffers one short of full, one more in the buffer each other worker is
\* sending, full TX rings.
InUseAtMost == NbPorts * K + NbPorts * NbPorts * (K - 1) + (NbPorts - 1)
                 + NbPorts * RingSize

\* A rule table that leaves no class of the traffic without a rule.
Complete(table) ==
  \A p \in Ports, c \in Traffic \ {"unsupported"} : <<p, c>> \in DOMAIN table

\* CopyMbuf's null pointer never reaches the driver when every class has a
\* rule and the mempool is larger than what can be in use.
PoolSuffices ==
  Complete(rules) /\ Cardinality(Mbufs) > InUseAtMost => fault # "null"

\* The frames of port p whose processing has begun.
Begun(p) == Len(arrived[p]) - Len(rx[p])
              + (IF rx[p] # << >> /\ pc[p] \in {"actions", "send", "burst"}
                 THEN 1 ELSE 0)

\* The mbufs lost are those of the frames that had no rule: one each, and
\* no other path through ProcessPackets loses one.
LostAreUnruled ==
  Cardinality(lost) =
    Cardinality({a \in Ports \X (1 .. MaxArrivals) :
                   /\ a[2] <= Begun(a[1])
                   /\ arrived[a[1]][a[2]] # "unsupported"
                   /\ <<a[1], arrived[a[1]][a[2]]>> \notin DOMAIN rules})

\* Each classified frame is counted once, under its own port and protocol,
\* whatever its rule then does with it.
StatsExact ==
  \A p \in Ports, c \in Counted :
    stats[p][c] = Cardinality({i \in 1 .. Begun(p) : arrived[p][i] = c})

\* SIGINT ends every worker, whatever it was doing.
Terminates ==
  terminated ~> (fault # "none" \/ \A p \in Ports : pc[p] = "done")

\* A copy that was buffered leaves the buffer while the workers run.
Flushed ==
  \A p, q \in Ports :
    tx[p][q] # << >> ~> (tx[p][q] = << >> \/ terminated \/ fault # "none")

-----------------------------------------------------------------------------
(* The inductive invariant: what the properties above rest on. *)

\* An mbuf in use holds a frame: none is freed under its holder.
Live == \A m \in Mbufs \ (pool \cup lost) : frame[m] \in Frames

\* SendAllPackets works on a buffer that is not empty, the actions on a
\* packet that is there.
Control ==
  \A p \in Ports :
    /\ pc[p] \in {"send", "burst"} =>
         queue[p] \in Ports /\ tx[p][queue[p]] # << >>
    /\ pc[p] = "actions" => rx[p] # << >>

\* A worker buffers for a port, or is about to, only if a rule of its own
\* port says so.
Aims ==
  \A p, q \in Ports :
    /\ tx[p][q] # << >> => Sends(rules, p, q)
    /\ \A i \in DOMAIN todo[p] : todo[p][i] = OUTPUT(q) => Sends(rules, p, q)

IInv == TypeOK /\ OneOwner /\ Live /\ Control /\ Aims /\ TxExclusive

\* The RX queue of a worker holds the frames that arrived last, and is empty
\* when the worker is at the head of the loop or flushes its row.
RxIsLatest ==
  \A p \in Ports :
    /\ arrived[p] \in Seq(Traffic)
    /\ Len(rx[p]) <= Len(arrived[p])
    /\ Len(arrived[p]) <= MaxArrivals
    /\ \A j \in 1 .. Len(rx[p]) :
         frame[rx[p][j]].class = arrived[p][Len(arrived[p]) - Len(rx[p]) + j]
    /\ pc[p] \in {"poll", "drain", "done"} => rx[p] = << >>

\* With a rule for every class and a mempool that is large enough, no null
\* pointer is ever queued and no mbuf is lost.
NothingMissing ==
  Complete(rules) /\ Cardinality(Mbufs) > InUseAtMost =>
    /\ \A p, q \in Ports : tx[p][q] \in Seq(Mbufs)
    /\ lost = {}
    /\ fault # "null"

-----------------------------------------------------------------------------
(* What the documents say of the data plane and the code does not do. *)

\* doc/tex/30-design.tex: each lcore uses its own output buffer, so that
\* nothing more is needed to make output safe.
TxQueueSafe == fault # "race"
=============================================================================
