---------------------------- MODULE PortManager ----------------------------
(***************************************************************************)
(* PortManager::Initialize, which runs on the master lcore before any      *)
(* worker: an lcore and a mempool for every port, the set-up of every      *)
(* port, the lcore that prints statistics, and the wait for the links.     *)
(*                                                                         *)
(* The machine is chosen once: which lcores are enabled, which is the      *)
(* master, on which socket each one is, how many ports there are.          *)
(*                                                                         *)
(* External (DPDK): rte_pktmbuf_pool_create fails when the name is taken   *)
(* or memory is short, the four calls that set up a port may fail, and a   *)
(* link may come up or go down at any time.                                *)
(***************************************************************************)
EXTENDS Integers, FiniteSetsExt

CONSTANTS
  MaxLcore,        \* RTE_MAX_LCORE
  Sockets,         \* processor sockets
  MaxPorts,        \* bound of the model: the ports of a machine
  MAX_CHECK_TIME   \* rounds of the link check

ASSUME PortManagerAssumption ==
  /\ MaxLcore \in Nat \ {0}
  /\ MaxPorts \in Nat
  /\ MAX_CHECK_TIME \in Nat \ {0}

Lcores == 0 .. MaxLcore - 1

\* The unsigned value 0u - 1 of stats_lcore_id_ when there is no port.
NoLcore == -1

kMEMPOOL_NAME == "PKT_MEMPOOL"

VARIABLES
  machine,         \* [enabled, master, socket, nb_ports]
  phase,           \* where Initialize is
  i,               \* the port being initialised
  lcore_id,        \* the lcore being considered
  mempools_,       \* the sockets that have a mempool
  names,           \* the names of mempools DPDK knows
  started,         \* started ports; the value is the socket of the RX mempool
  ports_map_,      \* from lcores to ports
  stats_lcore_id_,
  count,           \* rounds of the link check
  show_flag,
  waited,          \* history: times 100 ms
  shown            \* history: how often the links were logged

mempools == <<mempools_, names>>
tables == <<mempools, started, ports_map_, stats_lcore_id_>>
links == <<count, show_flag, waited, shown>>

vars == <<machine, phase, i, lcore_id, tables, links>>

Machines ==
  {m \in [enabled : SUBSET Lcores, master : Lcores,
          socket : [Lcores -> Sockets], nb_ports : 0 .. MaxPorts] :
     m.master \in m.enabled}

Init ==
  /\ machine \in Machines
  /\ phase = "lcore"
  /\ i = 0
  /\ lcore_id = 0
  /\ mempools_ = {}
  /\ names = {}
  /\ started = << >>
  /\ ports_map_ = << >>
  /\ stats_lcore_id_ = MaxLcore
  /\ count = 0
  /\ show_flag = FALSE
  /\ waited = 0
  /\ shown = 0

-----------------------------------------------------------------------------
(* The loop over the ports. *)

Slaves == machine.enabled \ {machine.master}

\* Mutant: the master lcore is as good as any other.
UsableOrMaster == {l \in machine.enabled : l >= lcore_id}

\* The lcores the search may still take: rte_get_next_lcore skips those that
\* are disabled and the master.
Usable == {l \in Slaves : l >= lcore_id}

\* Mutant: the search starts from the highest lcore.
LastUsable == Max(Usable)

FirstUsable == Min(Usable)

Socket == machine.socket[lcore_id]

FindLcore ==
  /\ phase = "lcore"
  /\ i < machine.nb_ports
  /\ Usable # {}
  /\ lcore_id' = FirstUsable
  /\ phase' = "mempool"
  /\ UNCHANGED <<machine, i, tables, links>>

NoLcoreLeft ==
  /\ phase = "lcore"
  /\ i < machine.nb_ports
  /\ Usable = {}
  /\ lcore_id' = MaxLcore
  /\ phase' = "failed"
  /\ UNCHANGED <<machine, i, tables, links>>

Found == Socket \in mempools_

HasMempool ==
  /\ phase = "mempool"
  /\ Found
  /\ phase' = "port"
  /\ UNCHANGED <<machine, i, lcore_id, tables, links>>

CreateMempool ==
  /\ phase = "mempool"
  /\ ~Found
  /\ kMEMPOOL_NAME \notin names
  /\ names' = names \cup {kMEMPOOL_NAME}
  /\ mempools_' = mempools_ \cup {Socket}
  /\ phase' = "port"
  /\ UNCHANGED <<machine, i, lcore_id, started, ports_map_, stats_lcore_id_, links>>

\* The name is taken, or there is no memory.
NoMempool ==
  /\ phase = "mempool"
  /\ ~Found
  /\ phase' = "failed"
  /\ UNCHANGED <<machine, i, lcore_id, tables, links>>

\* Every call succeeds; the RX queue draws from the mempool of the socket.
InitializePort ==
  /\ phase = "port"
  /\ started' = [p \in DOMAIN started \cup {i} |->
                   IF p = i THEN Socket ELSE started[p]]
  /\ phase' = "map"
  /\ UNCHANGED <<machine, i, lcore_id, mempools, ports_map_, stats_lcore_id_, links>>

\* One of the four calls fails; the ports before stay as they are.
PortFails ==
  /\ phase = "port"
  /\ phase' = "failed"
  /\ UNCHANGED <<machine, i, lcore_id, tables, links>>

\* emplace keeps the element that is there.
MapPort ==
  /\ phase = "map"
  /\ ports_map_' = [l \in DOMAIN ports_map_ \cup {lcore_id} |->
                      IF l \in DOMAIN ports_map_ THEN ports_map_[l] ELSE i]
  /\ lcore_id' = lcore_id + 1
  /\ i' = i + 1
  /\ phase' = "lcore"
  /\ UNCHANGED <<machine, mempools, started, stats_lcore_id_, links>>

ChooseStatsLcore ==
  /\ phase = "lcore"
  /\ i = machine.nb_ports
  /\ lcore_id' = lcore_id - 1
  /\ stats_lcore_id_' = lcore_id'
  /\ phase' = "links"
  /\ UNCHANGED <<machine, i, mempools, started, ports_map_, links>>

-----------------------------------------------------------------------------
(* CheckPortsLinkStatus. *)

\* Mutant: the flag is set in the last round, after which there is none.
LastRound == MAX_CHECK_TIME

\* The round that sets the flag although a link is down.
ShowRound == MAX_CHECK_TIME - 1

\* A round without the flag; it stops at the first link that is down.
CheckLinks ==
  /\ phase = "links"
  /\ ~show_flag
  /\ count <= MAX_CHECK_TIME
  /\ \E all_ports_up \in IF machine.nb_ports = 0 THEN {TRUE} ELSE BOOLEAN :
       /\ waited' = IF all_ports_up THEN waited ELSE waited + 1
       /\ show_flag' = (all_ports_up \/ count = ShowRound)
  /\ count' = count + 1
  /\ UNCHANGED <<machine, phase, i, lcore_id, tables, shown>>

\* A round with the flag logs every link and is the last one; without it the
\* rounds come to an end too.
EndLinks ==
  /\ phase = "links"
  /\ show_flag \/ count > MAX_CHECK_TIME
  /\ shown' = IF count <= MAX_CHECK_TIME THEN shown + 1 ELSE shown
  /\ phase' = "ready"
  /\ UNCHANGED <<machine, i, lcore_id, tables, count, show_flag, waited>>

Next == \/ FindLcore \/ NoLcoreLeft
        \/ HasMempool \/ CreateMempool \/ NoMempool
        \/ InitializePort \/ PortFails
        \/ MapPort \/ ChooseStatsLcore
        \/ CheckLinks \/ EndLinks

Spec == Init /\ [][Next]_vars

-----------------------------------------------------------------------------
(* Correctness. *)

\* Once Initialize has answered true, each port has an lcore to itself, on
\* which a worker will be launched: never the master, never one that is not
\* enabled, never one that has another port.
OwnLcore ==
  phase \in {"links", "ready"} =>
    /\ DOMAIN ports_map_ \subseteq Slaves
    /\ Cardinality(DOMAIN ports_map_) = machine.nb_ports
    /\ \A p \in 0 .. machine.nb_ports - 1 :
         \E l \in DOMAIN ports_map_ : ports_map_[l] = p

\* All workers share one mempool: module DataPlane has a single one.
OneMempool == Cardinality(mempools_) <= 1

\* The links are logged exactly once, after at most MAX_CHECK_TIME waits,
\* whether or not they come up.
LinksShown ==
  phase = "ready" => shown = 1 /\ waited <= MAX_CHECK_TIME
=============================================================================
