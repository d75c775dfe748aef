--------------------------- MODULE StartupProofs ---------------------------
(***************************************************************************)
(* What main hands to the workers, proved for every command line, disk and *)
(* machine: the rules are well formed and are those of the file named      *)
(* last, their words are what the lines say, and every port has its lcore, *)
(* its mempool and its worker.                                             *)
(*                                                                         *)
(* The first part is about PortManager alone.  Its inductive invariant     *)
(* says where the loop over the ports stands: the lcores taken are all     *)
(* slaves below the one being considered, as many as ports were            *)
(* initialised, and each port draws from the mempool of the socket of its  *)
(* lcore.                                                                  *)
(*                                                                         *)
(* In the second, Config is an instance for the number of ports n, so that *)
(* its operators are reasoned about as Cfg(n)!..., for any n.              *)
(***************************************************************************)
EXTENDS Startup, SequenceTheorems, FiniteSetTheorems, WellFoundedInduction, TLAPS

Looping == phase \in {"lcore", "mempool", "port", "map"}
Checked == phase \in {"links", "ready"}

Mapped == DOMAIN ports_map_

TypeOK ==
  /\ machine \in Machines
  /\ Looping \/ Checked \/ phase = "failed"
  /\ i \in 0 .. machine.nb_ports
  /\ lcore_id \in Int
  /\ stats_lcore_id_ \in Int
  /\ mempools_ \subseteq Sockets
  /\ ports_map_ \in [Mapped -> 0 .. i - 1]

\* Whether a port is being set up, or all of them are.
Progress ==
  /\ phase \in {"mempool", "port", "map"} =>
       lcore_id \in Slaves /\ i < machine.nb_ports
  /\ Checked => i = machine.nb_ports

\* The lcores are taken in order, and none is left out.
Ascending ==
  /\ Mapped \subseteq Slaves
  /\ Looping => Mapped = {l \in Slaves : l < lcore_id}
  /\ Checked => Mapped = {l \in Slaves : l <= stats_lcore_id_}

\* The lcore before the one being considered is the last one taken.
LastTaken ==
  /\ phase = "lcore" /\ i > 0 => lcore_id - 1 \in Mapped
  /\ Checked /\ machine.nb_ports > 0 => stats_lcore_id_ \in Mapped

\* As many lcores as ports, one for each.
OneEach ==
  /\ Cardinality(Mapped) = i
  /\ \A p \in 0 .. i - 1 : \E l \in Mapped : ports_map_[l] = p
  /\ \A l, m \in Mapped : ports_map_[l] = ports_map_[m] => l = m

\* The one mempool there can be is the one every port was given.
Mempools ==
  /\ mempools_ # {} => kMEMPOOL_NAME \in names
  /\ \A s, t \in mempools_ : s = t
  /\ phase \in {"port", "map"} => Socket \in mempools_
  /\ \A l \in Mapped : machine.socket[l] \in mempools_

Started ==
  /\ DOMAIN started = 0 .. i - 1 \cup IF phase = "map" THEN {i} ELSE {}
  /\ \A l \in Mapped : started[ports_map_[l]] = machine.socket[l]
  /\ phase = "map" => started[i] = Socket

\* How often the links were looked at and logged.
Rounds ==
  /\ count \in 0 .. MAX_CHECK_TIME
  /\ waited \in 0 .. count
  /\ show_flag \in BOOLEAN
  /\ ~show_flag => count < MAX_CHECK_TIME
  /\ shown = IF phase = "ready" THEN 1 ELSE 0

PortsInv ==
  /\ TypeOK
  /\ Progress
  /\ Ascending
  /\ LastTaken
  /\ OneEach
  /\ Mempools
  /\ Started
  /\ Rounds

-----------------------------------------------------------------------------
(* The operators of the model. *)

\* A set of numbers that is not empty has a least element: what Min chooses.
LEMMA LeastElement ==
  ASSUME NEW S \in SUBSET Nat, S # {}
  PROVE  Min(S) \in S /\ \A x \in S : Min(S) <= x
<1>1. \E x \in S : \A y \in S : ~(<<y, x>> \in OpToRel(<, Nat))
  BY NatLessThanWellFounded, WFMin
<1>2. ASSUME NEW x \in S, NEW y \in S, ~(<<y, x>> \in OpToRel(<, Nat))
      PROVE  x <= y
  <2>1. <<y, x>> \in Nat \X Nat /\ <<y, x>>[1] = y /\ <<y, x>>[2] = x
    OBVIOUS
  <2>2. ~(y < x)
    BY <1>2, <2>1, Zenon DEF OpToRel
  <2> QED
    BY <2>2
<1>3. \E x \in S : \A y \in S : x <= y
  BY <1>1, <1>2
<1> QED
  BY <1>3 DEF Min


\* A machine has its slaves among the lcores, which are natural numbers.
LEMMA MachineFacts ==
  ASSUME TypeOK
  PROVE  /\ machine.nb_ports \in Nat
         /\ Slaves \subseteq Lcores
         /\ Lcores \subseteq Nat
         /\ IsFiniteSet(Lcores)
         /\ \A l \in Lcores : machine.socket[l] \in Sockets
<1>1. /\ machine.enabled \in SUBSET Lcores
      /\ machine.nb_ports \in 0 .. MaxPorts
      /\ machine.socket \in [Lcores -> Sockets]
  BY DEF TypeOK, Machines
<1>2. IsFiniteSet(Lcores)
  BY PortManagerAssumption, FS_Interval DEF Lcores
<1> QED
  BY <1>1, <1>2, PortManagerAssumption DEF Slaves, Lcores

-----------------------------------------------------------------------------
(* PortsInv is inductive. *)

LEMMA InitPorts == Init => PortsInv
<1> SUFFICES ASSUME Init PROVE PortsInv
  OBVIOUS
<1>1. machine.nb_ports \in Nat /\ Slaves \subseteq Nat
  BY PortManagerAssumption DEF Init, Machines, Slaves, Lcores
<1>2. Mapped = {} /\ DOMAIN started = {} /\ ports_map_ \in [{} -> 0 .. -1]
  BY DEF Init, Mapped
<1>3. TypeOK
  BY <1>1, <1>2, PortManagerAssumption DEF Init, TypeOK, Looping
<1>4. Progress /\ LastTaken /\ Started
  BY <1>2 DEF Init, Progress, LastTaken, Started, Checked
<1>5. Ascending
  <2>1. {l \in Slaves : l < 0} = {}
    <3>1. \A l \in Slaves : ~(l < 0)
      BY <1>1
    <3> QED
      BY <3>1
  <2>2. lcore_id = 0 /\ ~Checked
    BY DEF Init, Checked
  <2> QED
    BY <1>2, <2>1, <2>2 DEF Ascending
<1>6. OneEach
  BY <1>2, FS_EmptySet DEF Init, OneEach
<1>7. Mempools
  BY <1>2 DEF Init, Mempools
<1>8. Rounds
  <2>1. count = 0 /\ waited = 0 /\ show_flag = FALSE /\ shown = 0 /\ phase # "ready"
    BY DEF Init
  <2>2. MAX_CHECK_TIME \in Nat /\ 0 < MAX_CHECK_TIME
    BY PortManagerAssumption
  <2>3. count \in 0 .. MAX_CHECK_TIME /\ count < MAX_CHECK_TIME /\ waited \in 0 .. count
    BY <2>1, <2>2
  <2>4. show_flag \in BOOLEAN /\ shown = IF phase = "ready" THEN 1 ELSE 0
    BY <2>1, Zenon
  <2> QED
    BY <2>3, <2>4, Zenon DEF Rounds
<1> QED
  BY <1>3, <1>4, <1>5, <1>6, <1>7, <1>8 DEF PortsInv

\* A step that leaves the tables, the port and the links alone.
LEMMA SearchPorts ==
  ASSUME PortsInv, FindLcore \/ NoLcoreLeft \/ HasMempool \/ NoMempool \/ PortFails
  PROVE  PortsInv'
<1> USE DEF PortsInv
<1>1. /\ UNCHANGED <<machine, i, tables, links>>
      /\ phase' \in {"mempool", "port", "failed"}
  BY DEF FindLcore, NoLcoreLeft, HasMempool, NoMempool, PortFails
<1>2. Mapped' = Mapped /\ Slaves' = Slaves /\ ~Checked'
  BY <1>1 DEF Mapped, Slaves, tables, Checked
<1>3. /\ phase' # "failed" => lcore_id' \in Slaves
      /\ phase' # "failed" => i < machine.nb_ports /\ Looping
      /\ phase' # "failed" => Mapped = {l \in Slaves : l < lcore_id'}
      /\ phase' = "port" => lcore_id' = lcore_id /\ Socket \in mempools_
      /\ lcore_id' \in Int
  <2>1. CASE FindLcore
    <3>1. Usable \in SUBSET Nat /\ Usable # {} /\ phase = "lcore" /\ i < machine.nb_ports
      BY <2>1, MachineFacts DEF FindLcore, Usable
    <3>2. lcore_id' \in Usable /\ \A l \in Usable : lcore_id' <= l
      BY <2>1, <3>1, LeastElement DEF FindLcore, FirstUsable
    <3>3. Slaves \subseteq Nat /\ lcore_id \in Int
      BY MachineFacts DEF TypeOK
    <3>4. lcore_id' \in Slaves /\ lcore_id' >= lcore_id
      BY <3>2 DEF Usable
    <3>5. ASSUME NEW l \in Slaves PROVE l < lcore_id <=> l < lcore_id'
      BY <3>2, <3>3, <3>4 DEF Usable
    <3>6. Mapped = {l \in Slaves : l < lcore_id}
      BY <3>1 DEF Ascending, Looping
    <3>7. Mapped = {l \in Slaves : l < lcore_id'}
      BY <3>5, <3>6
    <3>8. phase' = "mempool" /\ lcore_id' \in Int
      BY <2>1, <3>3, <3>4 DEF FindLcore
    <3> QED
      BY <3>1, <3>4, <3>7, <3>8 DEF Looping
  <2>2. CASE NoLcoreLeft
    BY <2>2, PortManagerAssumption DEF NoLcoreLeft
  <2>3. CASE HasMempool
    <3>1. phase = "mempool" /\ phase' = "port" /\ lcore_id' = lcore_id /\ Socket \in mempools_
      BY <2>3 DEF HasMempool, Found
    <3> QED
      BY <3>1 DEF Progress, Ascending, Looping, TypeOK
  <2>4. CASE NoMempool \/ PortFails
    BY <2>4 DEF NoMempool, PortFails, TypeOK
  <2> QED
    BY <2>1, <2>2, <2>3, <2>4
<1>4. TypeOK'
  BY <1>1, <1>2, <1>3 DEF TypeOK, tables, mempools, Looping
<1>5. Progress' /\ Ascending' /\ LastTaken'
  BY <1>1, <1>2, <1>3 DEF Progress, Ascending, LastTaken, Looping
<1>6. OneEach'
  BY <1>1, <1>2 DEF OneEach, tables
<1>7. Mempools'
  <2>1. phase' = "port" => Socket' \in mempools_'
    BY <1>1, <1>3 DEF Socket, tables, mempools
  <2> QED
    BY <1>1, <1>2, <2>1 DEF Mempools, tables, mempools
<1>8. Started'
  <2>1. phase # "map"
    BY DEF FindLcore, NoLcoreLeft, HasMempool, NoMempool, PortFails
  <2> QED
    BY <1>1, <1>2, <2>1 DEF Started, tables
<1>9. Rounds'
  <2>1. phase # "ready"
    BY DEF FindLcore, NoLcoreLeft, HasMempool, NoMempool, PortFails
  <2> QED
    BY <1>1, <2>1 DEF Rounds, links
<1> QED
  BY <1>4, <1>5, <1>6, <1>7, <1>8, <1>9


\* The first mempool takes the name, so that there is no second one.
LEMMA CreatePorts ==
  ASSUME PortsInv, CreateMempool
  PROVE  PortsInv'
<1> USE DEF PortsInv
<1>1. /\ UNCHANGED <<machine, i, lcore_id, started, ports_map_, stats_lcore_id_, links>>
      /\ phase = "mempool" /\ phase' = "port"
      /\ mempools_' = mempools_ \cup {Socket}
      /\ kMEMPOOL_NAME \in names'
      /\ mempools_ = {}
  BY DEF CreateMempool, Mempools
<1>2. /\ Mapped' = Mapped /\ Slaves' = Slaves /\ Socket' = Socket
      /\ ~Checked' /\ ~Checked /\ Looping /\ Looping'
  BY <1>1 DEF Mapped, Slaves, Socket, Checked, Looping
<1>3. Socket \in Sockets
  BY <1>1, MachineFacts DEF Socket, Progress
<1>4. TypeOK'
  BY <1>1, <1>2, <1>3 DEF TypeOK
<1>5. Progress' /\ Ascending' /\ LastTaken' /\ OneEach'
  BY <1>1, <1>2 DEF Progress, Ascending, LastTaken, OneEach
<1>6. Mempools'
  BY <1>1, <1>2 DEF Mempools
<1>7. Started' /\ Rounds'
  BY <1>1, <1>2 DEF Started, Rounds, links
<1> QED
  BY <1>4, <1>5, <1>6, <1>7

\* The port draws from the mempool of the socket of its lcore.
LEMMA InitializePorts ==
  ASSUME PortsInv, InitializePort
  PROVE  PortsInv'
<1> USE DEF PortsInv
<1>1. /\ UNCHANGED <<machine, i, lcore_id, mempools, ports_map_, stats_lcore_id_, links>>
      /\ phase = "port" /\ phase' = "map"
      /\ started' = [p \in DOMAIN started \cup {i} |->
                       IF p = i THEN Socket ELSE started[p]]
  BY DEF InitializePort
<1>2. /\ Mapped' = Mapped /\ Slaves' = Slaves /\ Socket' = Socket
      /\ ~Checked' /\ ~Checked /\ Looping /\ Looping'
  BY <1>1 DEF Mapped, Slaves, Socket, Checked, Looping
<1>3. TypeOK'
  BY <1>1, <1>2 DEF TypeOK, mempools
<1>4. Progress' /\ Ascending' /\ LastTaken' /\ OneEach'
  BY <1>1, <1>2 DEF Progress, Ascending, LastTaken, OneEach
<1>5. Mempools'
  BY <1>1, <1>2 DEF Mempools, mempools
<1>6. Started'
  <2>1. DOMAIN started = 0 .. i - 1 /\ i \in Int
    BY <1>1, MachineFacts DEF Started, TypeOK
  <2>2. ASSUME NEW l \in Mapped PROVE started'[ports_map_[l]] = machine.socket[l]
    <3>1. ports_map_[l] \in 0 .. i - 1
      BY DEF TypeOK
    <3>2. ports_map_[l] # i /\ ports_map_[l] \in DOMAIN started
      BY <2>1, <3>1
    <3> QED
      BY <1>1, <3>2 DEF Started
  <2> QED
    BY <1>1, <1>2, <2>1, <2>2 DEF Started
<1>7. Rounds'
  BY <1>1 DEF Rounds, links
<1> QED
  BY <1>3, <1>4, <1>5, <1>6, <1>7

\* The lcore is new to the map: all the lcores in it are lower.
LEMMA MapPorts ==
  ASSUME PortsInv, MapPort
  PROVE  PortsInv'
<1> USE DEF PortsInv
<1>1. /\ UNCHANGED <<machine, mempools, started, stats_lcore_id_, links>>
      /\ phase = "map" /\ phase' = "lcore"
      /\ ports_map_' = [l \in Mapped \cup {lcore_id} |->
                          IF l \in Mapped THEN ports_map_[l] ELSE i]
      /\ lcore_id' = lcore_id + 1
      /\ i' = i + 1
  BY DEF MapPort, Mapped
<1>2. /\ Mapped = {l \in Slaves : l < lcore_id}
      /\ lcore_id \in Slaves /\ lcore_id \in Int /\ Slaves \subseteq Nat
      /\ i \in Nat /\ i < machine.nb_ports /\ machine.nb_ports \in Nat
  BY <1>1, MachineFacts DEF Ascending, Looping, Progress, TypeOK
<1>3. lcore_id \notin Mapped
  BY <1>2
<1>4. /\ Mapped' = Mapped \cup {lcore_id}
      /\ Slaves' = Slaves
      /\ ~Checked' /\ ~Checked /\ Looping'
  BY <1>1 DEF Mapped, Slaves, Checked, Looping
<1>5. /\ \A l \in Mapped : ports_map_'[l] = ports_map_[l]
      /\ ports_map_'[lcore_id] = i
      /\ \A l \in Mapped : ports_map_[l] \in 0 .. i - 1
  BY <1>1, <1>3 DEF TypeOK
<1>6. TypeOK'
  <2>1. \A l \in Mapped' : ports_map_'[l] \in 0 .. i' - 1
    BY <1>1, <1>2, <1>4, <1>5
  <2>2. ports_map_' \in [Mapped' -> 0 .. i' - 1]
    BY <1>1, <1>4, <2>1
  <2>3. i' \in 0 .. machine.nb_ports /\ lcore_id' \in Int
    BY <1>1, <1>2
  <2> QED
    BY <1>1, <1>4, <2>2, <2>3 DEF TypeOK, mempools
<1>7. Progress'
  BY <1>1, <1>4 DEF Progress
<1>8. Ascending'
  <2>1. \A l \in Slaves : l < lcore_id + 1 <=> l < lcore_id \/ l = lcore_id
    BY <1>2
  <2>2. Mapped' = {l \in Slaves : l < lcore_id + 1}
    BY <1>2, <1>4, <2>1
  <2> QED
    BY <1>1, <1>4, <2>2 DEF Ascending
<1>9. LastTaken'
  BY <1>1, <1>2, <1>4 DEF LastTaken
<1>10. OneEach'
  <2>1. IsFiniteSet(Mapped)
    BY MachineFacts, FS_Subset DEF Ascending
  <2>2. Cardinality(Mapped') = i'
    BY <1>1, <1>3, <1>4, <2>1, FS_AddElement DEF OneEach
  <2>3. ASSUME NEW p \in 0 .. i' - 1 PROVE \E l \in Mapped' : ports_map_'[l] = p
    <3>1. CASE p = i
      BY <1>4, <1>5, <3>1
    <3>2. CASE p # i
      <4>1. p \in 0 .. i - 1
        BY <1>1, <1>2, <3>2
      <4> QED
        BY <1>4, <1>5, <4>1 DEF OneEach
    <3> QED
      BY <3>1, <3>2
  <2>4. \A l \in Mapped : ports_map_[l] # i
    BY <1>2, <1>5
  <2>5. ASSUME NEW l \in Mapped', NEW m \in Mapped', ports_map_'[l] = ports_map_'[m]
        PROVE  l = m
    BY <1>4, <1>5, <2>4, <2>5 DEF OneEach
  <2> QED
    BY <2>2, <2>3, <2>5 DEF OneEach
<1>11. Mempools'
  <2>1. machine.socket[lcore_id] \in mempools_
    BY <1>1 DEF Mempools, Socket
  <2> QED
    BY <1>1, <1>4, <2>1 DEF Mempools, mempools
<1>12. Started'
  <2>1. DOMAIN started = 0 .. i - 1 \cup {i} /\ started[i] = machine.socket[lcore_id]
    BY <1>1 DEF Started, Socket
  <2>2. DOMAIN started = 0 .. i' - 1
    BY <1>1, <1>2, <2>1
  <2>3. \A l \in Mapped' : started[ports_map_'[l]] = machine.socket[l]
    BY <1>4, <1>5, <2>1 DEF Started
  <2> QED
    BY <1>1, <2>2, <2>3 DEF Started
<1>13. Rounds'
  BY <1>1 DEF Rounds, links
<1> QED
  BY <1>6, <1>7, <1>8, <1>9, <1>10, <1>11, <1>12, <1>13

\* The lcore that prints is the last one taken.
LEMMA ChoosePorts ==
  ASSUME PortsInv, ChooseStatsLcore
  PROVE  PortsInv'
<1> USE DEF PortsInv
<1>1. /\ UNCHANGED <<machine, i, mempools, started, ports_map_, links>>
      /\ phase = "lcore" /\ phase' = "links"
      /\ i = machine.nb_ports
      /\ lcore_id' = lcore_id - 1
      /\ stats_lcore_id_' = lcore_id - 1
  BY DEF ChooseStatsLcore
<1>2. /\ Mapped = {l \in Slaves : l < lcore_id}
      /\ lcore_id \in Int /\ Slaves \subseteq Nat
  BY <1>1, MachineFacts DEF Ascending, Looping, TypeOK
<1>3. /\ Mapped' = Mapped /\ Slaves' = Slaves
      /\ Checked' /\ ~Checked /\ ~Looping'
  BY <1>1 DEF Mapped, Slaves, Checked, Looping
<1>4. TypeOK'
  BY <1>1, <1>2, <1>3 DEF TypeOK, mempools
<1>5. Progress' /\ OneEach'
  BY <1>1, <1>3 DEF Progress, OneEach
<1>6. Ascending'
  <2>1. \A l \in Slaves : l < lcore_id <=> l <= lcore_id - 1
    BY <1>2
  <2>2. Mapped' = {l \in Slaves' : l <= stats_lcore_id_'}
    BY <1>1, <1>2, <1>3, <2>1
  <2> QED
    BY <1>3, <2>2 DEF Ascending
<1>7. LastTaken'
  <2>1. machine.nb_ports > 0 => lcore_id - 1 \in Mapped
    BY <1>1 DEF LastTaken
  <2> QED
    BY <1>1, <1>3, <2>1 DEF LastTaken
<1>8. Mempools' /\ Started'
  BY <1>1, <1>3 DEF Mempools, Started, mempools
<1>9. Rounds'
  BY <1>1 DEF Rounds, links
<1> QED
  BY <1>4, <1>5, <1>6, <1>7, <1>8, <1>9

\* The round that sets the flag comes before the rounds are over.
LEMMA LinksPorts ==
  ASSUME PortsInv, CheckLinks \/ EndLinks
  PROVE  PortsInv'
<1> USE DEF PortsInv
<1>1. /\ UNCHANGED <<machine, i, lcore_id, tables>>
      /\ phase = "links" /\ phase' \in {"links", "ready"}
  BY DEF CheckLinks, EndLinks
<1>2. /\ Mapped' = Mapped /\ Slaves' = Slaves
      /\ Checked' /\ Checked /\ ~Looping' /\ ~Looping
  BY <1>1 DEF Mapped, Slaves, Checked, Looping, tables
<1>3. TypeOK'
  BY <1>1, <1>2 DEF TypeOK, tables, mempools
<1>4. Progress' /\ Ascending' /\ LastTaken' /\ OneEach'
  BY <1>1, <1>2 DEF Progress, Ascending, LastTaken, OneEach, tables
<1>5. Mempools' /\ Started'
  BY <1>1, <1>2 DEF Mempools, Started, tables, mempools
<1>6. MAX_CHECK_TIME \in Nat /\ count \in Nat /\ waited \in Nat /\ waited <= count
      /\ count <= MAX_CHECK_TIME /\ shown = 0
  BY <1>1, PortManagerAssumption DEF Rounds
<1>7. CASE CheckLinks
  <2>1. ~show_flag /\ count' = count + 1 /\ shown' = shown /\ phase' = "links"
    BY <1>1, <1>7 DEF CheckLinks
  <2>2. count < MAX_CHECK_TIME
    BY <2>1, Zenon DEF Rounds
  <2>3. PICK up \in BOOLEAN :
          /\ waited' = IF up THEN waited ELSE waited + 1
          /\ show_flag' = (up \/ count = ShowRound)
    BY <1>7, Zenon DEF CheckLinks
  <2>4. waited' \in 0 .. count'
    <3>1. waited' = waited \/ waited' = waited + 1
      BY <2>3, Zenon
    <3> QED
      BY <1>6, <2>1, <3>1
  <2>5. count' \in 0 .. MAX_CHECK_TIME
    BY <1>6, <2>1, <2>2
  <2>6. count' < MAX_CHECK_TIME \/ count = ShowRound
    BY <1>6, <2>1, <2>2 DEF ShowRound
  <2>7. show_flag' \in BOOLEAN /\ (~show_flag' => count' < MAX_CHECK_TIME)
    BY <2>3, <2>6, Zenon
  <2>8. shown' = IF phase' = "ready" THEN 1 ELSE 0
    BY <1>6, <2>1
  <2>9. Rounds'
    BY <2>4, <2>5, <2>7, <2>8, Zenon DEF Rounds
  <2> QED
    BY <1>3, <1>4, <1>5, <2>9
<1>8. CASE EndLinks
  <2>1. UNCHANGED <<count, show_flag, waited>> /\ phase' = "ready"
        /\ shown' = IF count <= MAX_CHECK_TIME THEN shown + 1 ELSE shown
    BY <1>8 DEF EndLinks
  <2>2. shown' = 1
    BY <1>6, <2>1
  <2>3. shown' = IF phase' = "ready" THEN 1 ELSE 0
    BY <2>1, <2>2
  <2>4. Rounds'
    <3>1. phase # "ready" /\ Rounds
      BY <1>1
    <3> QED
      BY <2>1, <2>3, <3>1, Zenon DEF Rounds
  <2> QED
    BY <1>3, <1>4, <1>5, <2>4
<1> QED
  BY <1>7, <1>8

\* Every step keeps PortsInv.
LEMMA NextPorts == PortsInv /\ [Next]_vars => PortsInv'
<1> SUFFICES ASSUME PortsInv, [Next]_vars PROVE PortsInv'
  OBVIOUS
<1>1. CASE Next
  BY <1>1, SearchPorts, CreatePorts, InitializePorts, MapPorts, ChoosePorts,
     LinksPorts DEF Next
<1>2. CASE UNCHANGED vars
  <2>1. /\ UNCHANGED <<Mapped, Slaves, Socket>>
        /\ Looping' = Looping /\ Checked' = Checked
    BY <1>2 DEF vars, tables, Mapped, Slaves, Socket, Looping, Checked
  <2>2. TypeOK' /\ Progress' /\ Ascending' /\ LastTaken' /\ OneEach'
    BY <1>2, <2>1 DEF vars, tables, mempools, PortsInv, TypeOK, Progress,
       Ascending, LastTaken, OneEach
  <2>3. Mempools' /\ Started' /\ Rounds'
    BY <1>2, <2>1 DEF vars, tables, mempools, links, PortsInv, Mempools, Started, Rounds
  <2> QED
    BY <2>2, <2>3 DEF PortsInv
<1> QED
  BY <1>1, <1>2

-----------------------------------------------------------------------------
(* What Initialize promises. *)

\* The properties of module PortManager, of any state PortsInv holds of.
LEMMA PortsPromise ==
  ASSUME PortsInv
  PROVE  OwnLcore /\ OneMempool /\ LinksShown
<1> USE DEF PortsInv
<1>1. OwnLcore
  BY DEF OwnLcore, Ascending, OneEach, Progress, Checked, Mapped
<1>2. OneMempool
  <2>1. CASE mempools_ = {}
    BY <2>1, FS_EmptySet DEF OneMempool
  <2>2. CASE mempools_ # {}
    <3>1. PICK s \in mempools_ : TRUE
      BY <2>2
    <3>2. mempools_ = {s}
      BY <3>1 DEF Mempools
    <3> QED
      BY <3>2, FS_Singleton DEF OneMempool
  <2> QED
    BY <2>1, <2>2
<1>3. LinksShown
  BY PortManagerAssumption DEF LinksShown, Rounds
<1> QED
  BY <1>1, <1>2, <1>3

\* Whatever the machine, Initialize keeps to PortsInv.
THEOREM PortsCorrect == Spec => []PortsInv
<1> QED
  BY InitPorts, NextPorts, PTL DEF Spec

\* Once Initialize has answered true, each port has an lcore to itself, never
\* the master and never one that is not enabled, for every machine.
THEOREM OwnLcores == Spec => []OwnLcore
<1>1. PortsInv => OwnLcore
  BY PortsPromise
<1> QED
  BY <1>1, PortsCorrect, PTL

\* However many ports and sockets there are, one mempool is made.
THEOREM SingleMempool == Spec => []OneMempool
<1>1. PortsInv => OneMempool
  BY PortsPromise
<1> QED
  BY <1>1, PortsCorrect, PTL

\* The links are logged once, after at most MAX_CHECK_TIME waits, whatever
\* the links do.
THEOREM LinksLogged == Spec => []LinksShown
<1>1. PortsInv => LinksShown
  BY PortsPromise
<1> QED
  BY <1>1, PortsCorrect, PTL

-----------------------------------------------------------------------------
(* The operators of Config that do not depend on the number of ports. *)

LEMMA SameAction ==
  ASSUME NEW n, NEW text
  PROVE  /\ Cfg(n)!Keyword(text) = Cfg(0)!Keyword(text)
         /\ Cfg(n)!Action(text) = Cfg(0)!Action(text)
  BY DEF Cfg!Keyword, Cfg!Action, Cfg!DROP, Cfg!PUSH, Cfg!OUTPUT, Cfg!VlanTag,
     Cfg!MplsLabel, Cfg!Word, Cfg!Narrowed

LEMMA SameActions ==
  ASSUME NEW n, NEW texts
  PROVE  /\ Cfg(n)!Parsed(texts) = Cfg(0)!Parsed(texts)
         /\ Cfg(n)!Actions(texts) = Cfg(0)!Actions(texts)
  BY SameAction DEF Cfg!Parsed, Cfg!Actions

LEMMA SameAccepted ==
  ASSUME NEW n, NEW fields
  PROVE  /\ Cfg(n)!VlanAccepted(fields) = Cfg(0)!VlanAccepted(fields)
         /\ Cfg(n)!MplsAccepted(fields) = Cfg(0)!MplsAccepted(fields)
  BY DEF Cfg!VlanAccepted, Cfg!MplsAccepted, Cfg!AllNumbers, Cfg!Narrowed

LEMMA SameKey ==
  ASSUME NEW n, NEW line
  PROVE  Cfg(n)!KeyOf(line) = Cfg(0)!KeyOf(line)
  BY DEF Cfg!KeyOf, Cfg!RuleKey, Cfg!Code

\* Four fields that are numbers.
LEMMA FourNumbers ==
  ASSUME NEW fields \in Seq(Cfg(0)!Fields), Len(fields) = 4
  PROVE  \A f \in 1 .. 4 : fields[f].value \in Int
<1>1. \A f \in 1 .. 4 : fields[f] \in Cfg(0)!Fields
  OBVIOUS
<1> QED
  BY <1>1 DEF Cfg!Fields

\* Reading back the word of an accepted PUSH-VLAN gives its arguments.
LEMMA VlanRead ==
  ASSUME NEW fields \in Seq(Cfg(0)!Fields), Cfg(0)!VlanAccepted(fields)
  PROVE  LET word == Cfg(0)!VlanTag(fields)
         IN /\ word.kind = "vlan"
            /\ Cfg(0)!VlanFields(word) =
                 <<Cfg(0)!Narrowed(fields[1], 16), Cfg(0)!Narrowed(fields[2], 3),
                   Cfg(0)!Narrowed(fields[3], 1), Cfg(0)!Narrowed(fields[4], 12)>>
<1>1. PICK a, b, c, d : /\ a = fields[1].value /\ b = fields[2].value
                        /\ c = fields[3].value /\ d = fields[4].value
  OBVIOUS
<1>2. a \in Int /\ b \in Int /\ c \in Int /\ d \in Int
  BY <1>1, FourNumbers DEF Cfg!VlanAccepted
<1>3. /\ Cfg(0)!Narrowed(fields[1], 16) = a % 2^16
      /\ Cfg(0)!Narrowed(fields[2], 8) = b % 2^8
      /\ Cfg(0)!Narrowed(fields[3], 8) = c % 2^8
      /\ Cfg(0)!Narrowed(fields[4], 16) = d % 2^16
  BY <1>1, Zenon DEF Cfg!Narrowed
<1>4. b % 2^8 <= 7 /\ c % 2^8 <= 1 /\ d % 2^16 \in 1 .. 4094
  <2>1. /\ Cfg(0)!Narrowed(fields[2], 8) <= 7
        /\ Cfg(0)!Narrowed(fields[3], 8) <= 1
        /\ Cfg(0)!Narrowed(fields[4], 16) \in 1 .. 4094
    BY SMT DEF Cfg!VlanAccepted
  <2> QED
    BY <1>3, <2>1, SMT
<1> DEFINE low == 2^13 * (b % 2^8) + 2^12 * (c % 2^8) + (d % 2^16)
<1>5. Cfg(0)!VlanTag(fields) = [kind |-> "vlan", high |-> a % 2^16, low |-> low]
  BY <1>3, Zenon DEF Cfg!VlanTag, Cfg!Word
<1>6. /\ low \div 2^13 = b % 2^3
      /\ (low \div 2^12) % 2 = c % 2^1
      /\ low % 2^12 = d % 2^12
  BY <1>2, <1>4, SMTT(20)
<1> HIDE DEF low
<1>7. /\ Cfg(0)!VlanTag(fields).kind = "vlan"
      /\ Cfg(0)!VlanTag(fields).high = a % 2^16
      /\ Cfg(0)!VlanTag(fields).low = low
  BY <1>5, SMT
<1>8. Cfg(0)!VlanFields(Cfg(0)!VlanTag(fields)) =
        <<a % 2^16, b % 2^3, c % 2^1, d % 2^12>>
  BY <1>6, <1>7, Zenon DEF Cfg!VlanFields
<1> QED
  BY <1>1, <1>7, <1>8, Zenon DEF Cfg!Narrowed


\* Reading back the word of an accepted PUSH-MPLS gives its arguments, of a
\* label the low 20 bits.
LEMMA MplsRead ==
  ASSUME NEW fields \in Seq(Cfg(0)!Fields), Cfg(0)!MplsAccepted(fields)
  PROVE  LET word == Cfg(0)!MplsLabel(fields)
         IN /\ word.kind = "mpls"
            /\ Cfg(0)!MplsFields(word) =
                 <<Cfg(0)!Narrowed(fields[1], 20), Cfg(0)!Narrowed(fields[2], 3),
                   Cfg(0)!Narrowed(fields[3], 1), Cfg(0)!Narrowed(fields[4], 8)>>
<1>1. PICK a, b, c, d : /\ a = fields[1].value /\ b = fields[2].value
                        /\ c = fields[3].value /\ d = fields[4].value
  OBVIOUS
<1>2. a \in Int /\ b \in Int /\ c \in Int /\ d \in Int
  BY <1>1, FourNumbers DEF Cfg!MplsAccepted
<1>3. /\ Cfg(0)!Narrowed(fields[1], 20) = a % 2^20
      /\ Cfg(0)!Narrowed(fields[2], 8) = b % 2^8
      /\ Cfg(0)!Narrowed(fields[3], 8) = c % 2^8
      /\ Cfg(0)!Narrowed(fields[4], 8) = d % 2^8
  BY <1>1, Zenon DEF Cfg!Narrowed
<1>4. b % 2^8 <= 7 /\ c % 2^8 <= 1
  <2>1. /\ Cfg(0)!Narrowed(fields[2], 8) <= 7
        /\ Cfg(0)!Narrowed(fields[3], 8) <= 1
    BY SMT DEF Cfg!MplsAccepted
  <2> QED
    BY <1>3, <2>1, SMT
<1> DEFINE label == a % 2^20
           low == 2^12 * (label % 2^4) + 2^9 * (b % 2^8) + 2^8 * (c % 2^8) + (d % 2^8)
<1>5. Cfg(0)!MplsLabel(fields) = [kind |-> "mpls", high |-> label \div 2^4, low |-> low]
  BY <1>3, Zenon DEF Cfg!MplsLabel, Cfg!Word
<1>6. /\ (label \div 2^4) * 2^4 + (low \div 2^12) = a % 2^20
      /\ (low \div 2^9) % 8 = b % 2^3
      /\ (low \div 2^8) % 2 = c % 2^1
      /\ low % 2^8 = d % 2^8
  BY <1>2, <1>4, SMTT(20)
<1> HIDE DEF low, label
<1>7. /\ Cfg(0)!MplsLabel(fields).kind = "mpls"
      /\ Cfg(0)!MplsLabel(fields).high = label \div 2^4
      /\ Cfg(0)!MplsLabel(fields).low = low
  BY <1>5, SMT
<1>8. Cfg(0)!MplsFields(Cfg(0)!MplsLabel(fields)) =
        <<a % 2^20, b % 2^3, c % 2^1, d % 2^8>>
  BY <1>6, <1>7, Zenon DEF Cfg!MplsFields
<1> QED
  BY <1>1, <1>7, <1>8, Zenon DEF Cfg!Narrowed


-----------------------------------------------------------------------------
(* ParseActions: what it accepts is a well formed list of actions. *)

\* Texts is what a line's texts are, and Asked the labels they push.
Asked(texts) ==
  {Cfg(0)!Action(texts[k]).tag :
     k \in {k \in DOMAIN texts : /\ Cfg(0)!TextAccepted(texts[k])
                                 /\ Cfg(0)!IsPush(Cfg(0)!Action(texts[k]))}}

\* The texts up to the first DROP.
LEMMA ParsedIsPrefix ==
  ASSUME NEW texts \in Seq(Cfg(0)!Texts)
  PROVE  \E m \in 0 .. Len(texts) :
           /\ Cfg(0)!Parsed(texts) = 1 .. m
           /\ \A k \in 1 .. m - 1 : Cfg(0)!Keyword(texts[k]) # "DROP"
<1> DEFINE Drops == {k \in 1 .. Len(texts) : Cfg(0)!Keyword(texts[k]) = "DROP"}
           Free(k) == \A j \in 1 .. k - 1 : j \notin Drops
<1>1. Cfg(0)!Parsed(texts) = {k \in 1 .. Len(texts) : Free(k)}
  <2>1. ASSUME NEW k \in 1 .. Len(texts), NEW j \in 1 .. k - 1
        PROVE  j \in 1 .. Len(texts)
    OBVIOUS
  <2> QED
    BY <2>1 DEF Cfg!Parsed
<1>2. CASE Drops = {}
  <2>1. \A k \in 1 .. Len(texts) : Free(k)
    BY <1>2
  <2>2. Cfg(0)!Parsed(texts) = 1 .. Len(texts)
    BY <1>1, <2>1
  <2>3. \A k \in 1 .. Len(texts) - 1 : Cfg(0)!Keyword(texts[k]) # "DROP"
    BY <1>2
  <2> QED
    BY <2>2, <2>3
<1>3. CASE Drops # {}
  <2>1. Drops \in SUBSET Nat
    OBVIOUS
  <2>2. PICK d \in Drops : \A k \in Drops : d <= k
    BY <1>3, <2>1, LeastElement
  <2>3. d \in 1 .. Len(texts)
    OBVIOUS
  <2>4. ASSUME NEW k \in 1 .. Len(texts) PROVE Free(k) <=> k <= d
    <3>1. CASE k <= d
      BY <2>2, <2>3, <3>1
    <3>2. CASE ~(k <= d)
      <4>1. d \in 1 .. k - 1 /\ d \in Drops
        BY <2>3, <3>2
      <4> QED
        BY <3>2, <4>1
    <3> QED
      BY <3>1, <3>2
  <2>5. Cfg(0)!Parsed(texts) = 1 .. d
    <3>1. \A k \in 1 .. Len(texts) : k \in 1 .. d <=> k <= d
      BY <2>3
    <3>2. 1 .. d \subseteq 1 .. Len(texts)
      BY <2>3
    <3> QED
      BY <1>1, <2>4, <3>1, <3>2
  <2>6. \A k \in 1 .. d - 1 : Cfg(0)!Keyword(texts[k]) # "DROP"
    BY <2>2, <2>3
  <2> QED
    BY <2>3, <2>5, <2>6
<1> QED
  BY <1>2, <1>3

\* An accepted text is one of the actions the rules are made of.
LEMMA ActionInSet ==
  ASSUME NEW n \in Nat, NEW text \in Cfg(0)!Texts,
         Cfg(n)!TextAccepted(text),
         Cfg(0)!IsPush(Cfg(0)!Action(text)) => Cfg(0)!Action(text).tag \in Tags
  PROVE  /\ Cfg(0)!Action(text) \in Cfg(n)!ActionSet
         /\ Cfg(0)!Keyword(text) # "DROP" => Cfg(0)!Action(text) # Cfg(0)!DROP
<1>1. Cfg(0)!Keyword(text) = Cfg(n)!Keyword(text)
  BY SameAction
<1>2. CASE Cfg(0)!Keyword(text) = "DROP"
  BY <1>2 DEF Cfg!Action, Cfg!ActionSet, Cfg!DROP
<1>3. CASE Cfg(0)!Keyword(text) = "PUSH-VLAN("
  <2>1. Cfg(0)!Action(text) = Cfg(0)!PUSH(Cfg(0)!VlanTag(text.args))
    BY <1>3 DEF Cfg!Action
  <2> QED
    BY <2>1 DEF Cfg!ActionSet, Cfg!PUSH, Cfg!DROP, Cfg!IsPush
<1>4. CASE Cfg(0)!Keyword(text) = "PUSH-MPLS("
  <2>1. Cfg(0)!Action(text) = Cfg(0)!PUSH(Cfg(0)!MplsLabel(text.args))
    BY <1>4 DEF Cfg!Action
  <2> QED
    BY <2>1 DEF Cfg!ActionSet, Cfg!PUSH, Cfg!DROP, Cfg!IsPush
<1>5. CASE Cfg(0)!Keyword(text) = "OUTPUT("
  <2>1. Cfg(0)!Action(text) = Cfg(0)!OUTPUT(text.args[1].value - 1)
    BY <1>5 DEF Cfg!Action
  <2>2. text.args[1].value \in 1 .. n
    BY <1>1, <1>5 DEF Cfg!TextAccepted, Cfg!PortIdIsValid
  <2>3. text.args[1].value - 1 \in Cfg(n)!Ports
    BY <2>2 DEF Cfg!Ports
  <2> QED
    BY <2>1, <2>3 DEF Cfg!ActionSet, Cfg!OUTPUT, Cfg!DROP
<1> QED
  BY <1>1, <1>2, <1>3, <1>4, <1>5 DEF Cfg!TextAccepted

\* Numbers that never fall from one place to the next never fall.
LEMMA NeverFall ==
  ASSUME NEW m \in Nat, NEW f, \A k \in 1 .. m : f[k] \in Int,
         \A k \in 2 .. m : f[k - 1] <= f[k]
  PROVE  \A k, l \in 1 .. m : k < l => f[k] <= f[l]
<1> SUFFICES ASSUME NEW k \in 1 .. m, NEW l0 \in 1 .. m, k < l0, ~(f[k] <= f[l0])
             PROVE  FALSE
  OBVIOUS
<1> DEFINE Falls == {l \in 1 .. m : k < l /\ ~(f[k] <= f[l])}
<1>1. Falls \in SUBSET Nat /\ Falls # {}
  OBVIOUS
<1>2. PICK l \in Falls : \A j \in Falls : l <= j
  BY <1>1, LeastElement
<1>3. l \in 1 .. m /\ k < l /\ ~(f[k] <= f[l])
  OBVIOUS
<1>4. l \in 2 .. m /\ l - 1 \in 1 .. m
  BY <1>3
<1>5. f[l - 1] <= f[l] /\ f[l - 1] \in Int /\ f[l] \in Int /\ f[k] \in Int
  BY <1>3, <1>4
<1>6. f[k] <= f[l - 1]
  <2>1. CASE k = l - 1
    BY <1>5, <2>1
  <2>2. CASE k < l - 1
    <3>1. l - 1 \notin Falls
      BY <1>2, <1>3
    <3> QED
      BY <1>4, <2>2, <3>1
  <2> QED
    BY <1>3, <2>1, <2>2
<1> QED
  BY <1>3, <1>5, <1>6


\* A push that is accepted is one whatever the number of ports.
LEMMA PushAccepted ==
  ASSUME NEW n \in Nat, NEW text,
         Cfg(n)!TextAccepted(text), Cfg(0)!IsPush(Cfg(0)!Action(text))
  PROVE  /\ Cfg(0)!TextAccepted(text)
         /\ \/ /\ Cfg(0)!VlanAccepted(text.args)
               /\ Cfg(0)!Action(text).tag = Cfg(0)!VlanTag(text.args)
            \/ /\ Cfg(0)!MplsAccepted(text.args)
               /\ Cfg(0)!Action(text).tag = Cfg(0)!MplsLabel(text.args)
<1>1. Cfg(0)!Keyword(text) = Cfg(n)!Keyword(text)
  BY SameAction
<1>2. /\ Cfg(n)!VlanAccepted(text.args) = Cfg(0)!VlanAccepted(text.args)
      /\ Cfg(n)!MplsAccepted(text.args) = Cfg(0)!MplsAccepted(text.args)
  BY SameAccepted
<1>3. CASE Cfg(0)!Keyword(text) = "PUSH-VLAN("
  <2>1. text.exact /\ Cfg(0)!VlanAccepted(text.args)
    BY <1>1, <1>2, <1>3 DEF Cfg!TextAccepted
  <2>2. Cfg(0)!Action(text) = Cfg(0)!PUSH(Cfg(0)!VlanTag(text.args))
    BY <1>3 DEF Cfg!Action
  <2>3. Cfg(0)!Action(text).tag = Cfg(0)!VlanTag(text.args)
    BY <2>2 DEF Cfg!PUSH
  <2> QED
    BY <1>3, <2>1, <2>3 DEF Cfg!TextAccepted
<1>4. CASE Cfg(0)!Keyword(text) = "PUSH-MPLS("
  <2>1. text.exact /\ Cfg(0)!MplsAccepted(text.args)
    BY <1>1, <1>2, <1>4 DEF Cfg!TextAccepted
  <2>2. Cfg(0)!Action(text) = Cfg(0)!PUSH(Cfg(0)!MplsLabel(text.args))
    BY <1>4 DEF Cfg!Action
  <2>3. Cfg(0)!Action(text).tag = Cfg(0)!MplsLabel(text.args)
    BY <2>2 DEF Cfg!PUSH
  <2> QED
    BY <1>4, <2>1, <2>3 DEF Cfg!TextAccepted
<1>5. CASE Cfg(0)!Keyword(text) \notin {"PUSH-VLAN(", "PUSH-MPLS("}
  <2>1. Cfg(0)!Action(text) = Cfg(0)!DROP
          \/ Cfg(0)!Action(text) = Cfg(0)!OUTPUT(text.args[1].value - 1)
    BY <1>5 DEF Cfg!Action
  <2> QED
    BY <2>1 DEF Cfg!DROP, Cfg!OUTPUT, Cfg!IsPush
<1> QED
  BY <1>3, <1>4, <1>5

\* The actions of accepted texts are a rule of the data plane.
LEMMA ActionsGood ==
  ASSUME NEW n \in Nat, NEW texts \in Seq(Cfg(0)!Texts),
         Cfg(n)!ActionsAccepted(texts), Asked(texts) \subseteq Tags
  PROVE  /\ Cfg(0)!Actions(texts) \in Seq(Cfg(n)!ActionSet)
         /\ Cfg(n)!WellFormed(Cfg(0)!Actions(texts))
<1>1. PICK m \in 0 .. Len(texts) :
        /\ Cfg(0)!Parsed(texts) = 1 .. m
        /\ \A k \in 1 .. m - 1 : Cfg(0)!Keyword(texts[k]) # "DROP"
  BY ParsedIsPrefix
<1> DEFINE actions == Cfg(0)!Actions(texts)
<1>2. actions = [k \in 1 .. m |-> Cfg(0)!Action(texts[k])]
  BY <1>1 DEF Cfg!Actions
<1>3. /\ \A k \in 1 .. m : Cfg(n)!TextAccepted(texts[k])
      /\ actions # << >>
      /\ \A k \in 1 .. m \ {1} : Cfg(n)!Priority(actions[k - 1]) <= Cfg(n)!Priority(actions[k])
  <2>1. /\ Cfg(n)!Parsed(texts) = 1 .. m
        /\ Cfg(n)!Actions(texts) = actions
    BY <1>1, SameActions
  <2>2. DOMAIN actions = 1 .. m
    BY <1>2
  <2> QED
    BY <2>1, <2>2 DEF Cfg!ActionsAccepted
<1> HIDE DEF actions
<1>4. ASSUME NEW k \in 1 .. m
      PROVE  /\ actions[k] \in Cfg(n)!ActionSet
             /\ k < m => actions[k] # Cfg(0)!DROP
  <2>1. k \in DOMAIN texts /\ texts[k] \in Cfg(0)!Texts
    OBVIOUS
  <2>2. Cfg(0)!IsPush(Cfg(0)!Action(texts[k])) => Cfg(0)!Action(texts[k]).tag \in Tags
    BY <1>3, <2>1, PushAccepted DEF Asked
  <2>3. /\ Cfg(0)!Action(texts[k]) \in Cfg(n)!ActionSet
        /\ Cfg(0)!Keyword(texts[k]) # "DROP" => Cfg(0)!Action(texts[k]) # Cfg(0)!DROP
    BY <1>3, <2>1, <2>2, ActionInSet
  <2>4. actions[k] = Cfg(0)!Action(texts[k])
    BY <1>2
  <2> QED
    BY <1>1, <2>3, <2>4
<1>5. actions \in Seq(Cfg(n)!ActionSet) /\ Len(actions) = m
  BY <1>2, <1>4
<1> DEFINE prio == [k \in 1 .. m |-> Cfg(n)!Priority(actions[k])]
<1>6. \A k, l \in 1 .. m : k < l => prio[k] <= prio[l]
  <2>1. \A k \in 1 .. m : prio[k] \in Int
    BY DEF Cfg!Priority
  <2>2. \A k \in 2 .. m : prio[k - 1] <= prio[k]
    BY <1>3
  <2>3. m \in Nat
    OBVIOUS
  <2> HIDE DEF prio
  <2> QED
    BY <2>1, <2>2, <2>3, NeverFall
<1>7. \A k, l \in 1 .. Len(actions) :
        k < l => Cfg(n)!Priority(actions[k]) <= Cfg(n)!Priority(actions[l])
  BY <1>5, <1>6
<1>8. \A k \in 1 .. Len(actions) - 1 : actions[k] # Cfg(n)!DROP
  BY <1>4, <1>5 DEF Cfg!DROP
<1> QED
  BY <1>3, <1>5, <1>7, <1>8 DEF Cfg!WellFormed, actions


-----------------------------------------------------------------------------
(* Config::Initialize: the state of Config, for n ports. *)

\* Lines whose labels the data plane has: what every file considered is made
\* of.
GoodLines == {line \in Cfg(0)!Lines : Cfg(0)!Labels(line) \subseteq Tags}

\* The lines accepted so far.
Read == line_counter - 1

\* The file is read line by line; a line refused is the last one read.
Reading ==
  /\ config_phase \in {"closed", "reading", "accepted", "rejected"}
  /\ file \in Seq(GoodLines) /\ unread \in Seq(GoodLines)
  /\ line_counter \in Nat \ {0}
  /\ config_phase = "closed" => file = << >>
  /\ Len(file) = IF config_phase = "rejected" /\ file # << >> THEN line_counter ELSE Read

\* Each line read is accepted and is a rule; each rule is a line read.
FromLines(n) ==
  /\ \A k \in 1 .. Read :
       /\ Cfg(n)!KeyAccepted(file[k])
       /\ Cfg(n)!ActionsAccepted(file[k].texts)
       /\ Cfg(0)!KeyOf(file[k]) \in DOMAIN rules_
       /\ rules_[Cfg(0)!KeyOf(file[k])] = Cfg(0)!Actions(file[k].texts)
  /\ \A key \in DOMAIN rules_ : \E k \in 1 .. Read : key = Cfg(0)!KeyOf(file[k])

\* No two lines are for the same key.
OneLineEach ==
  IsFiniteSet(DOMAIN rules_) /\ Cardinality(DOMAIN rules_) = Read

ConfigInv(n) == Reading /\ FromLines(n) /\ OneLineEach

\* A key is the port and the code of the protocol, side by side.
LEMMA KeyParts ==
  ASSUME NEW port \in 0 .. 254, NEW protocol \in Cfg(0)!Protocols
  PROVE  LET key == Cfg(0)!RuleKey(port, protocol)
         IN /\ key \in Nat
            /\ key % 256 = port
            /\ key \div 256 = Cfg(0)!Code[protocol]
            /\ Cfg(0)!Code[protocol] \in 0 .. 4
<1>1. Cfg(0)!Code[protocol] \in 0 .. 4
  BY DEF Cfg!Protocols, Cfg!Code
<1>2. ASSUME NEW c \in 0 .. 4
      PROVE  /\ port + 2^8 * c \in Nat
             /\ (port + 2^8 * c) % 256 = port
             /\ (port + 2^8 * c) \div 256 = c
  BY SMT
<1>3. Cfg(0)!RuleKey(port, protocol) = port + 2^8 * Cfg(0)!Code[protocol]
  BY Zenon DEF Cfg!RuleKey
<1> QED
  BY <1>1, <1>2, <1>3

\* So different ports have different keys, and so have different protocols.
LEMMA KeyOfPort ==
  ASSUME NEW p \in 0 .. 254, NEW q \in 0 .. 254,
         NEW a \in Cfg(0)!Protocols, NEW b \in Cfg(0)!Protocols,
         Cfg(0)!RuleKey(p, a) = Cfg(0)!RuleKey(q, b)
  PROVE  p = q
<1> DEFINE key == Cfg(0)!RuleKey(p, a)
<1>1. key % 256 = p
  BY KeyParts
<1>2. key % 256 = q
  <2>1. key = Cfg(0)!RuleKey(q, b)
    OBVIOUS
  <2> HIDE DEF key
  <2> QED
    BY <2>1, KeyParts
<1> HIDE DEF key
<1> QED
  BY <1>1, <1>2

LEMMA KeyOfProtocol ==
  ASSUME NEW p \in 0 .. 254, NEW q \in 0 .. 254,
         NEW a \in Cfg(0)!Protocols, NEW b \in Cfg(0)!Protocols,
         Cfg(0)!RuleKey(p, a) = Cfg(0)!RuleKey(q, b)
  PROVE  a = b
<1> DEFINE key == Cfg(0)!RuleKey(p, a)
<1>1. key \div 256 = Cfg(0)!Code[a]
  BY KeyParts
<1>2. key \div 256 = Cfg(0)!Code[b]
  <2>1. key = Cfg(0)!RuleKey(q, b)
    OBVIOUS
  <2> HIDE DEF key
  <2> QED
    BY <2>1, KeyParts
<1> HIDE DEF key
<1> QED
  BY <1>1, <1>2 DEF Cfg!Protocols, Cfg!Code

\* What ParsePortAndProtocol accepts of a line.
LEMMA LineKey ==
  ASSUME NEW n \in 0 .. MaxPorts, NEW line \in GoodLines, Cfg(n)!KeyAccepted(line)
  PROVE  /\ line.port.value - 1 \in Cfg(n)!Ports
         /\ line.port.value - 1 \in 0 .. 254
         /\ line.port.value \in Int
         /\ line.protocol \in Cfg(0)!Protocols
         /\ Cfg(0)!KeyOf(line) = Cfg(0)!RuleKey(line.port.value - 1, line.protocol)
<1>1. line.port.value \in 1 .. n /\ line.protocol \in Cfg(n)!Protocols
  BY DEF Cfg!KeyAccepted, Cfg!PortIdIsValid
<1>2. n <= 255 /\ n \in Nat
  BY StartupAssumption, PortManagerAssumption
<1> QED
  BY <1>1, <1>2 DEF Cfg!Ports, Cfg!Protocols, Cfg!KeyOf

\* There are no more rules than ports times protocols.
LEMMA FewRules ==
  ASSUME NEW n \in 0 .. MaxPorts, ConfigInv(n)
  PROVE  Read <= 5 * n
<1> USE DEF ConfigInv
<1>1. n \in Nat /\ n <= 255 /\ Read \in Nat
  BY StartupAssumption, PortManagerAssumption DEF Reading, Read
<1>2. \A key \in DOMAIN rules_ :
        /\ key \in Nat
        /\ key % 256 \in 0 .. n - 1
        /\ key \div 256 \in 0 .. 4
  <2>1. SUFFICES ASSUME NEW key \in DOMAIN rules_
                 PROVE  key \in Nat /\ key % 256 \in 0 .. n - 1 /\ key \div 256 \in 0 .. 4
    OBVIOUS
  <2>2. PICK k \in 1 .. Read : key = Cfg(0)!KeyOf(file[k])
    BY DEF FromLines
  <2>3. file[k] \in GoodLines
    <3>1. Len(file) >= Read
      BY <1>1 DEF Reading, Read
    <3> QED
      BY <1>1, <3>1 DEF Reading
  <2>4. Cfg(n)!KeyAccepted(file[k])
    BY DEF FromLines
  <2>5. PICK port, protocol : /\ port \in 0 .. n - 1 /\ port \in 0 .. 254
                              /\ protocol \in Cfg(0)!Protocols
                              /\ key = Cfg(0)!RuleKey(port, protocol)
    BY <2>2, <2>3, <2>4, LineKey DEF Cfg!Ports
  <2>6. /\ key \in Nat /\ key % 256 = port
        /\ key \div 256 = Cfg(0)!Code[protocol]
        /\ Cfg(0)!Code[protocol] \in 0 .. 4
    BY <2>5, KeyParts
  <2> QED
    BY <2>5, <2>6
<1> DEFINE f == [key \in DOMAIN rules_ |-> (key % 256) * 5 + (key \div 256)]
<1>3. f \in [DOMAIN rules_ -> 0 .. 5 * n - 1]
  <2>1. ASSUME NEW a \in 0 .. n - 1, NEW b \in 0 .. 4
        PROVE  a * 5 + b \in 0 .. 5 * n - 1
    BY <1>1
  <2> QED
    BY <1>2, <2>1
<1>4. \A key, other \in DOMAIN rules_ : f[key] = f[other] => key = other
  <2>1. ASSUME NEW key \in Nat, NEW other \in Nat,
               key \div 256 \in 0 .. 4, other \div 256 \in 0 .. 4,
               (key % 256) * 5 + (key \div 256) = (other % 256) * 5 + (other \div 256)
        PROVE  key = other
    BY <2>1, SMTT(20)
  <2> QED
    BY <1>2, <2>1
<1>5. IsFiniteSet(0 .. 5 * n - 1) /\ Cardinality(0 .. 5 * n - 1) = 5 * n
  <2>1. PICK top \in Int : top = 5 * n - 1
    BY <1>1
  <2>2. /\ IsFiniteSet(0 .. top)
        /\ Cardinality(0 .. top) = IF 0 > top THEN 0 ELSE top - 0 + 1
    BY FS_Interval
  <2> QED
    BY <1>1, <2>1, <2>2
<1>6. ~(5 * n < Cardinality(DOMAIN rules_))
  <2> HIDE DEF f
  <2> SUFFICES ASSUME 5 * n < Cardinality(DOMAIN rules_) PROVE FALSE
    OBVIOUS
  <2>1. \E x, y \in DOMAIN rules_ : x # y /\ f[x] = f[y]
    BY <1>3, <1>5, FS_PigeonHole DEF OneLineEach
  <2> QED
    BY <1>4, <2>1
<1> QED
  BY <1>1, <1>6 DEF OneLineEach


\* Before the file is opened.
LEMMA ConfigStart ==
  ASSUME NEW n, config_phase = "closed", unread \in Seq(GoodLines),
         file = << >>, line_counter = 1, rules_ = << >>
  PROVE  ConfigInv(n)
<1>1. Read = 0 /\ DOMAIN rules_ = {}
  BY DEF Read
<1>2. Reading
  BY <1>1 DEF Reading
<1>3. FromLines(n)
  BY <1>1 DEF FromLines
<1>4. OneLineEach
  BY <1>1, FS_EmptySet DEF OneLineEach
<1> QED
  BY <1>2, <1>3, <1>4 DEF ConfigInv

\* A line moves from what is unread to what is read.
LEMMA LineRead ==
  ASSUME NEW n, ConfigInv(n), Cfg(n)!ReadLine
  PROVE  /\ config_phase = "reading"
         /\ Head(unread) \in GoodLines
         /\ unread' \in Seq(GoodLines) /\ file' \in Seq(GoodLines)
         /\ Len(file) = Read /\ Len(file') = line_counter
         /\ file'[line_counter] = Head(unread)
         /\ \A k \in 1 .. Read : file'[k] = file[k]
         /\ file' # << >>
         /\ file' \o unread' = file \o unread
<1>1. /\ config_phase = "reading" /\ unread # << >>
      /\ unread' = Tail(unread) /\ file' = Append(file, Head(unread))
  BY DEF Cfg!ReadLine
<1>2. /\ file \in Seq(GoodLines) /\ unread \in Seq(GoodLines)
      /\ Len(file) = Read /\ line_counter = Len(file) + 1
  BY <1>1 DEF ConfigInv, Reading, Read
<1>3. Head(unread) \in GoodLines /\ Tail(unread) \in Seq(GoodLines)
  BY <1>1, <1>2, HeadTailProperties
<1>4. /\ Append(file, Head(unread)) \in Seq(GoodLines)
      /\ Len(Append(file, Head(unread))) = Len(file) + 1
      /\ Append(file, Head(unread))[Len(file) + 1] = Head(unread)
      /\ \A k \in 1 .. Len(file) : Append(file, Head(unread))[k] = file[k]
  BY <1>2, <1>3, AppendProperties
<1>5. Append(file, Head(unread)) \o Tail(unread) = file \o unread
  <2>1. Append(file, Head(unread)) = file \o <<Head(unread)>>
    BY <1>2, <1>3, AppendIsConcat
  <2>2. <<Head(unread)>> \in Seq(GoodLines)
    BY <1>3
  <2>3. (file \o <<Head(unread)>>) \o Tail(unread) = file \o (<<Head(unread)>> \o Tail(unread))
    BY <1>2, <1>3, <2>2, ConcatAssociative
  <2>4. <<Head(unread)>> \o Tail(unread) = unread
    BY <1>1, <1>2
  <2> QED
    BY <2>1, <2>3, <2>4
<1>6. Append(file, Head(unread)) # << >>
  BY <1>2, <1>4
<1> QED
  BY <1>1, <1>2, <1>3, <1>4, <1>5, <1>6

\* A line accepted is a rule of its own.
LEMMA LineAcceptedStep ==
  ASSUME NEW n \in 0 .. MaxPorts, ConfigInv(n), Cfg(n)!AcceptLine
  PROVE  ConfigInv(n)'
<1> USE DEF ConfigInv
<1> DEFINE line == Head(unread)
           key == Cfg(0)!KeyOf(line)
<1>1. /\ Cfg(n)!ReadLine
      /\ Cfg(n)!LineAccepted(line)
      /\ rules_' = [k \in DOMAIN rules_ \cup {key} |->
                      IF k = key THEN Cfg(0)!Actions(line.texts) ELSE rules_[k]]
      /\ line_counter' = (line_counter + 1) % 2^16
      /\ config_phase' = config_phase
  <2>1. Cfg(n)!KeyOf(line) = key /\ Cfg(n)!Actions(line.texts) = Cfg(0)!Actions(line.texts)
    BY SameKey, SameActions
  <2> QED
    BY <2>1 DEF Cfg!AcceptLine
<1>2. /\ Cfg(n)!KeyAccepted(line)
      /\ Cfg(n)!ActionsAccepted(line.texts)
      /\ key \notin DOMAIN rules_
  <2>1. Cfg(n)!KeyOf(line) = key
    BY SameKey
  <2> QED
    BY <1>1, <2>1 DEF Cfg!LineAccepted
<1>3. /\ config_phase = "reading"
      /\ unread' \in Seq(GoodLines) /\ file' \in Seq(GoodLines)
      /\ Len(file) = Read /\ Len(file') = line_counter
      /\ file'[line_counter] = line
      /\ \A k \in 1 .. Read : file'[k] = file[k]
  BY <1>1, LineRead
<1>4. line_counter \in Nat /\ Read \in Nat /\ line_counter = Read + 1
  BY DEF Reading, Read
<1>5. line_counter' = line_counter + 1 /\ Read' = Read + 1
  <2>1. Read <= 1275
    <3>1. Read <= 5 * n /\ n \in Nat /\ n <= 255
      BY FewRules, StartupAssumption, PortManagerAssumption
    <3> QED
      BY <1>4, <3>1
  <2>2. line_counter + 1 \in 0 .. 1277
    BY <1>4, <2>1
  <2>3. \A x \in 0 .. 1277 : x % 2^16 = x
    BY SMT
  <2>4. line_counter' = line_counter + 1
    BY <1>1, <2>2, <2>3
  <2> QED
    BY <1>4, <2>4 DEF Read
<1> HIDE DEF line, key
<1>6. Reading'
  BY <1>1, <1>3, <1>4, <1>5 DEF Reading
<1>7. DOMAIN rules_' = DOMAIN rules_ \cup {key}
  BY <1>1
<1>8. FromLines(n)'
  <2>1. ASSUME NEW k \in 1 .. Read'
        PROVE  /\ Cfg(n)!KeyAccepted(file'[k])
               /\ Cfg(n)!ActionsAccepted(file'[k].texts)
               /\ Cfg(0)!KeyOf(file'[k]) \in DOMAIN rules_'
               /\ rules_'[Cfg(0)!KeyOf(file'[k])] = Cfg(0)!Actions(file'[k].texts)
    <3>1. CASE k = line_counter
      BY <1>1, <1>2, <1>3, <1>7, <3>1 DEF key
    <3>2. CASE k # line_counter
      <4>1. k \in 1 .. Read
        BY <1>4, <1>5, <3>2
      <4>2. file'[k] = file[k]
        BY <1>3, <4>1
      <4>3. /\ Cfg(n)!KeyAccepted(file[k])
            /\ Cfg(n)!ActionsAccepted(file[k].texts)
            /\ Cfg(0)!KeyOf(file[k]) \in DOMAIN rules_
            /\ rules_[Cfg(0)!KeyOf(file[k])] = Cfg(0)!Actions(file[k].texts)
        BY <4>1 DEF FromLines
      <4>4. /\ Cfg(0)!KeyOf(file[k]) # key
            /\ rules_'[Cfg(0)!KeyOf(file[k])] = rules_[Cfg(0)!KeyOf(file[k])]
        BY <1>1, <1>2, <4>3
      <4> QED
        BY <1>7, <4>2, <4>3, <4>4
    <3> QED
      BY <3>1, <3>2
  <2>2. ASSUME NEW other \in DOMAIN rules_'
        PROVE  \E k \in 1 .. Read' : other = Cfg(0)!KeyOf(file'[k])
    <3>1. CASE other = key
      <4>1. line_counter \in 1 .. Read'
        BY <1>4, <1>5
      <4> QED
        BY <1>3, <3>1, <4>1 DEF key
    <3>2. CASE other # key
      <4>1. PICK k \in 1 .. Read : other = Cfg(0)!KeyOf(file[k])
        BY <1>7, <3>2 DEF FromLines
      <4>2. k \in 1 .. Read'
        BY <1>4, <1>5
      <4> QED
        BY <1>3, <4>1, <4>2
    <3> QED
      BY <3>1, <3>2
  <2> QED
    BY <2>1, <2>2 DEF FromLines
<1>9. OneLineEach'
  BY <1>2, <1>5, <1>7, FS_AddElement DEF OneLineEach
<1> QED
  BY <1>6, <1>8, <1>9

\* Every step of Config keeps ConfigInv, and the text of the file.
LEMMA ConfigNext ==
  ASSUME NEW n \in 0 .. MaxPorts, ConfigInv(n), Cfg(n)!Next
  PROVE  /\ ConfigInv(n)'
         /\ file' \o unread' = file \o unread
         /\ config_phase \in {"closed", "reading"}
         /\ config_phase' # "closed"
         /\ config_phase' = "accepted" => config_phase = "reading" /\ unread' = << >>
<1> USE DEF ConfigInv
<1>1. CASE Cfg(n)!Open
  <2>1. /\ config_phase = "closed" /\ config_phase' \in {"reading", "rejected"}
        /\ UNCHANGED <<unread, file, line_counter, rules_>>
    BY <1>1 DEF Cfg!Open
  <2>2. Read' = Read
    BY <2>1 DEF Read
  <2>3. Reading'
    BY <2>1, <2>2 DEF Reading
  <2>4. FromLines(n)' /\ OneLineEach'
    BY <2>1, <2>2 DEF FromLines, OneLineEach
  <2> QED
    BY <2>1, <2>3, <2>4
<1>2. CASE Cfg(n)!AcceptLine
  <2>1. Cfg(n)!ReadLine /\ config_phase' = config_phase
    BY <1>2 DEF Cfg!AcceptLine
  <2> QED
    BY <1>2, <2>1, LineAcceptedStep, LineRead
<1>3. CASE Cfg(n)!RejectLine
  <2>1. /\ Cfg(n)!ReadLine /\ config_phase' = "rejected"
        /\ UNCHANGED <<line_counter, rules_>>
    BY <1>3 DEF Cfg!RejectLine
  <2>2. Read' = Read
    BY <2>1 DEF Read
  <2>3. /\ config_phase = "reading"
        /\ unread' \in Seq(GoodLines) /\ file' \in Seq(GoodLines)
        /\ Len(file') = line_counter /\ file' # << >>
        /\ \A k \in 1 .. Read : file'[k] = file[k]
        /\ file' \o unread' = file \o unread
    BY <2>1, LineRead
  <2>4. Reading'
    BY <2>1, <2>2, <2>3 DEF Reading
  <2>5. FromLines(n)' /\ OneLineEach'
    BY <2>1, <2>2, <2>3 DEF FromLines, OneLineEach
  <2> QED
    BY <2>1, <2>3, <2>4, <2>5
<1>4. CASE Cfg(n)!EndOfFile
  <2>1. /\ config_phase = "reading" /\ config_phase' = "accepted" /\ unread = << >>
        /\ UNCHANGED <<unread, file, line_counter, rules_>>
    BY <1>4 DEF Cfg!EndOfFile
  <2>2. Read' = Read
    BY <2>1 DEF Read
  <2>3. Reading'
    BY <2>1, <2>2 DEF Reading
  <2>4. FromLines(n)' /\ OneLineEach'
    BY <2>1, <2>2 DEF FromLines, OneLineEach
  <2> QED
    BY <2>1, <2>3, <2>4
<1> QED
  BY <1>1, <1>2, <1>3, <1>4 DEF Cfg!Next


\* A line that was accepted, and what its labels are.
LEMMA LineIsGood ==
  ASSUME NEW n, ConfigInv(n), NEW k \in 1 .. Read
  PROVE  /\ file[k] \in GoodLines
         /\ file[k].texts \in Seq(Cfg(0)!Texts)
         /\ Asked(file[k].texts) \subseteq Tags
<1>1. file[k] \in GoodLines
  <2>1. Len(file) >= Read /\ Read \in Nat
    BY DEF ConfigInv, Reading, Read
  <2> QED
    BY <2>1 DEF ConfigInv, Reading
<1>2. file[k].texts \in Seq(Cfg(0)!Texts)
  BY <1>1 DEF GoodLines, Cfg!Lines
<1>3. Asked(file[k].texts) \subseteq Tags
  BY <1>1 DEF GoodLines, Cfg!Labels, Asked
<1> QED
  BY <1>1, <1>2, <1>3

\* Each list in rules_ is a rule of the data plane.
LEMMA RuleIsGood ==
  ASSUME NEW n \in 0 .. MaxPorts, ConfigInv(n), NEW key \in DOMAIN rules_
  PROVE  rules_[key] \in Seq(Cfg(n)!ActionSet) /\ Cfg(n)!WellFormed(rules_[key])
<1>1. PICK k \in 1 .. Read : key = Cfg(0)!KeyOf(file[k])
  BY DEF ConfigInv, FromLines
<1>2. /\ rules_[key] = Cfg(0)!Actions(file[k].texts)
      /\ Cfg(n)!ActionsAccepted(file[k].texts)
  BY <1>1 DEF ConfigInv, FromLines
<1>3. n \in Nat
  BY PortManagerAssumption
<1> QED
  BY <1>2, <1>3, LineIsGood, ActionsGood

LEMMA TableGood ==
  ASSUME NEW n \in 0 .. MaxPorts, ConfigInv(n)
  PROVE  Cfg(n)!TableWellFormed
<1>1. DOMAIN Cfg(n)!Table \subseteq Cfg(n)!Keys
  BY DEF Cfg!Table
<1>2. ASSUME NEW k \in DOMAIN Cfg(n)!Table
      PROVE  Cfg(n)!Table[k] \in Seq(Cfg(n)!ActionSet) /\ Cfg(n)!WellFormed(Cfg(n)!Table[k])
  <2>1. /\ Cfg(n)!RuleKey(k[1], k[2]) \in DOMAIN rules_
        /\ Cfg(n)!Table[k] = rules_[Cfg(n)!RuleKey(k[1], k[2])]
    BY DEF Cfg!Table
  <2> QED
    BY <2>1, RuleIsGood
<1> QED
  BY <1>1, <1>2 DEF Cfg!TableWellFormed, Cfg!IsRuleTable

\* Reading back the word of an accepted push gives its arguments.
LEMMA PushRead ==
  ASSUME NEW n \in Nat, NEW text \in Cfg(0)!Texts,
         Cfg(n)!TextAccepted(text), Cfg(0)!IsPush(Cfg(0)!Action(text))
  PROVE  LET word == Cfg(0)!Action(text).tag
             width == IF word.kind = "vlan" THEN <<16, 3, 1, 12>> ELSE <<20, 3, 1, 8>>
         IN \A f \in 1 .. 4 :
              Cfg(0)!Decoded(word)[f] = Cfg(0)!Narrowed(text.args[f], width[f])
<1> DEFINE word == Cfg(0)!Action(text).tag
           Field(f, w) == Cfg(0)!Narrowed(text.args[f], w)
<1>1. text.args \in Seq(Cfg(0)!Fields)
  BY DEF Cfg!Texts
<1>2. \/ /\ word.kind = "vlan"
         /\ Cfg(0)!VlanFields(word) = <<Field(1, 16), Field(2, 3), Field(3, 1), Field(4, 12)>>
      \/ /\ word.kind = "mpls"
         /\ Cfg(0)!MplsFields(word) = <<Field(1, 20), Field(2, 3), Field(3, 1), Field(4, 8)>>
  BY <1>1, PushAccepted, VlanRead, MplsRead
<1> HIDE DEF word, Field
<1>3. CASE word.kind = "vlan"
  <2>1. Cfg(0)!Decoded(word) = <<Field(1, 16), Field(2, 3), Field(3, 1), Field(4, 12)>>
    BY <1>2, <1>3 DEF Cfg!Decoded
  <2>2. \A f \in 1 .. 4 : Cfg(0)!Decoded(word)[f] = Field(f, <<16, 3, 1, 12>>[f])
    BY <2>1
  <2> QED
    BY <1>3, <2>2 DEF word, Field
<1>4. CASE word.kind # "vlan"
  <2>1. Cfg(0)!Decoded(word) = <<Field(1, 20), Field(2, 3), Field(3, 1), Field(4, 8)>>
    BY <1>2, <1>4 DEF Cfg!Decoded
  <2>2. \A f \in 1 .. 4 : Cfg(0)!Decoded(word)[f] = Field(f, <<20, 3, 1, 8>>[f])
    BY <2>1
  <2> QED
    BY <1>4, <2>2 DEF word, Field
<1> QED
  BY <1>3, <1>4

LEMMA WordsGood ==
  ASSUME NEW n \in 0 .. MaxPorts, ConfigInv(n)
  PROVE  WordsExact
<1> SUFFICES ASSUME config_phase = "accepted", NEW k \in DOMAIN file,
                    NEW push \in Cfg(0)!Pushes(file[k])
             PROVE  LET width == IF push[2].kind = "vlan" THEN <<16, 3, 1, 12>>
                                                          ELSE <<20, 3, 1, 8>>
                    IN \A f \in 1 .. 4 :
                         Cfg(0)!Decoded(push[2])[f] = Cfg(0)!Narrowed(push[1][f], width[f])
  BY Zenon DEF WordsExact, Cfg!WordsExact
<1> DEFINE texts == file[k].texts
<1>1. k \in 1 .. Read
  BY DEF ConfigInv, Reading
<1>2. texts \in Seq(Cfg(0)!Texts) /\ Cfg(n)!ActionsAccepted(texts) /\ n \in Nat
  <2>1. texts \in Seq(Cfg(0)!Texts)
    BY <1>1, LineIsGood
  <2>2. Cfg(n)!ActionsAccepted(texts)
    BY <1>1, Zenon DEF ConfigInv, FromLines
  <2> QED
    BY <2>1, <2>2, PortManagerAssumption
<1> HIDE DEF texts
<1>3. PICK j \in DOMAIN Cfg(0)!Actions(texts) :
        /\ Cfg(0)!IsPush(Cfg(0)!Actions(texts)[j])
        /\ push = <<texts[j].args, Cfg(0)!Actions(texts)[j].tag>>
  BY DEF Cfg!Pushes, texts
<1>4. /\ j \in Cfg(0)!Parsed(texts) /\ j \in DOMAIN texts
      /\ Cfg(0)!Actions(texts)[j] = Cfg(0)!Action(texts[j])
  BY DEF Cfg!Actions, Cfg!Parsed
<1>5. Cfg(n)!TextAccepted(texts[j]) /\ texts[j] \in Cfg(0)!Texts
  <2>1. j \in Cfg(n)!Parsed(texts)
    BY <1>4, SameActions
  <2> QED
    BY <1>2, <1>4, <2>1 DEF Cfg!ActionsAccepted
<1>6. push[1] = texts[j].args /\ push[2] = Cfg(0)!Action(texts[j]).tag
  BY <1>3, <1>4
<1> QED
  BY <1>2, <1>3, <1>4, <1>5, <1>6, PushRead

LEMMA TableOfFile ==
  ASSUME NEW n \in 0 .. MaxPorts, ConfigInv(n)
  PROVE  Cfg(n)!TableIsFile
<1>1. /\ line_counter \in Nat /\ Read \in Nat /\ line_counter = Read + 1
      /\ Len(file) = IF config_phase = "rejected" /\ file # << >> THEN line_counter ELSE Read
      /\ file \in Seq(GoodLines)
  BY DEF ConfigInv, Reading, Read
<1>2. n \in Nat /\ n <= 255
  BY StartupAssumption, PortManagerAssumption
<1>3. line_counter = IF config_phase = "rejected" /\ file # << >> THEN Len(file)
                                                             ELSE Len(file) + 1
  BY <1>1
<1>4. line_counter <= 5 * n + 1
  BY <1>1, <1>2, FewRules
<1>5. ASSUME config_phase = "accepted", NEW k \in DOMAIN file
      PROVE  Cfg(n)!GetActions(file[k].port.value - 1, file[k].protocol)
               = Cfg(n)!Actions(file[k].texts)
  <2>1. k \in 1 .. Read
    BY <1>1, <1>5
  <2>2. /\ Cfg(n)!KeyAccepted(file[k]) /\ file[k] \in GoodLines
        /\ Cfg(0)!KeyOf(file[k]) \in DOMAIN rules_
        /\ rules_[Cfg(0)!KeyOf(file[k])] = Cfg(0)!Actions(file[k].texts)
    BY <2>1, LineIsGood DEF ConfigInv, FromLines
  <2>3. Cfg(0)!KeyOf(file[k]) = Cfg(n)!RuleKey(file[k].port.value - 1, file[k].protocol)
    BY DEF Cfg!KeyOf, Cfg!RuleKey, Cfg!Code
  <2>4. Cfg(n)!Actions(file[k].texts) = Cfg(0)!Actions(file[k].texts)
    BY SameActions
  <2> QED
    BY <2>2, <2>3, <2>4, Zenon DEF Cfg!GetActions
<1>6. ASSUME config_phase = "accepted", NEW key \in Cfg(n)!Keys,
             Cfg(n)!GetActions(key[1], key[2]) # << >>
      PROVE  \E k \in DOMAIN file : /\ file[k].port.value = key[1] + 1
                                    /\ file[k].protocol = key[2]
  <2>1. Cfg(n)!RuleKey(key[1], key[2]) \in DOMAIN rules_
    BY <1>6, Zenon DEF Cfg!GetActions
  <2>2. PICK k \in 1 .. Read : Cfg(n)!RuleKey(key[1], key[2]) = Cfg(0)!KeyOf(file[k])
    BY <2>1 DEF ConfigInv, FromLines
  <2>3. k \in DOMAIN file
    BY <1>1, <1>6
  <2>4. /\ file[k].port.value - 1 \in 0 .. 254 /\ file[k].port.value \in Int
        /\ file[k].protocol \in Cfg(0)!Protocols
        /\ Cfg(0)!KeyOf(file[k]) = Cfg(0)!RuleKey(file[k].port.value - 1, file[k].protocol)
    <3>1. Cfg(n)!KeyAccepted(file[k]) /\ file[k] \in GoodLines
      BY LineIsGood DEF ConfigInv, FromLines
    <3> QED
      BY <3>1, LineKey
  <2>5. key[1] \in 0 .. 254 /\ key[2] \in Cfg(0)!Protocols
    BY <1>2 DEF Cfg!Keys, Cfg!Ports, Cfg!Protocols
  <2>6. Cfg(n)!RuleKey(key[1], key[2]) = Cfg(0)!RuleKey(key[1], key[2])
    BY DEF Cfg!RuleKey, Cfg!Code
  <2>7. key[1] = file[k].port.value - 1 /\ key[2] = file[k].protocol
    <3>1. Cfg(0)!RuleKey(key[1], key[2])
            = Cfg(0)!RuleKey(file[k].port.value - 1, file[k].protocol)
      BY <2>2, <2>4, <2>6, Zenon
    <3>2. PICK p \in 0 .. 254, q \in 0 .. 254 :
            p = key[1] /\ q = file[k].port.value - 1
      BY <2>4, <2>5
    <3>3. PICK a \in Cfg(0)!Protocols, b \in Cfg(0)!Protocols :
            a = key[2] /\ b = file[k].protocol
      BY <2>4, <2>5
    <3>4. Cfg(0)!RuleKey(p, a) = Cfg(0)!RuleKey(q, b)
      BY <3>1, <3>2, <3>3, Zenon
    <3>5. p = q
      BY <3>4, KeyOfPort
    <3>6. a = b
      BY <3>4, KeyOfProtocol
    <3> QED
      BY <3>2, <3>3, <3>5, <3>6
  <2> QED
    BY <2>3, <2>4, <2>7
<1> QED
  BY <1>3, <1>4, <1>5, <1>6 DEF Cfg!TableIsFile


-----------------------------------------------------------------------------
(* main: from the arguments to the workers. *)

\* Option n is the last of its kind among the first m.
LastOf(n, kind, m) ==
  /\ n \in 1 .. m
  /\ argv[n].kind = kind
  /\ \A later \in n + 1 .. m : argv[later].kind # kind

NoneOf(kind, m) == \A n \in 1 .. m : argv[n].kind # kind

\* What was parsed is what the last option of each kind says.
Arguments ==
  /\ argv \in Seq(Options)
  /\ disk \in Disks
  /\ optind \in 0 .. Len(argv)
  /\ cmd_args = [config_file |-> cmd_args.config_file,
                 stats_interval |-> cmd_args.stats_interval]
  /\ cmd_args.config_file # NoFile =>
       \E n \in 1 .. optind : /\ LastOf(n, "config", optind)
                              /\ cmd_args.config_file = argv[n].name
  /\ \/ cmd_args.stats_interval = 0 /\ NoneOf("stats-interval", optind)
     \/ \E n \in 1 .. optind : /\ LastOf(n, "stats-interval", optind)
                                /\ cmd_args.stats_interval = argv[n].value % 2^16

\* What the file holds, whatever part of it was read.
Contents == IF OnDisk THEN disk[cmd_args.config_file] ELSE << >>

\* Where main is and what Config and PortManager have done by then.
Stages ==
  /\ stage \in {"args", "config", "ports", "launch", "running", "exited", "aborted"}
  /\ stage = "args" => config_phase = "closed"
  /\ stage \in {"config", "ports", "launch", "running"} => optind = Len(argv)
  /\ stage = "config" =>
       /\ config_phase \in {"closed", "reading"}
       /\ file \o unread = Contents
       /\ config_phase = "reading" => OnDisk
  /\ stage \in {"ports", "launch", "running"} =>
       config_phase = "accepted" /\ OnDisk /\ file = disk[cmd_args.config_file]
  /\ stage \in {"launch", "running"} => phase = "ready"
  /\ stage = "running" =>
       workers = [l \in Slaves \cap Mapped |-> ports_map_[l]]
  /\ started # << >> => config_phase = "accepted"

TheConfigInv == \A n \in 0 .. MaxPorts : n = machine.nb_ports => ConfigInv(n)

SInv == PortsInv /\ TheConfigInv /\ Arguments /\ Stages

\* The lines of a file have the labels the data plane has.
LEMMA FilesGood ==
  ASSUME NEW d \in Disks, NEW name \in DOMAIN d
  PROVE  d[name] \in Seq(GoodLines)
<1>1. d[name] \in Files
  BY DEF Files
<1>2. /\ d[name] \in Seq(Cfg(0)!Lines)
      /\ \A n \in DOMAIN d[name] : Cfg(0)!Labels(d[name][n]) \subseteq Tags
  BY <1>1, StartupAssumption
<1>3. \A n \in 1 .. Len(d[name]) : d[name][n] \in GoodLines
  BY <1>2 DEF GoodLines
<1> QED
  BY <1>2, <1>3

LEMMA InitStartup == SInit => SInv
<1> SUFFICES ASSUME SInit PROVE SInv
  OBVIOUS
<1>1. Init /\ argv \in Argvs /\ disk \in Disks /\ Start
  BY DEF SInit, Start
<1>2. PortsInv
  BY <1>1, InitPorts
<1>3. TheConfigInv
  <2>1. /\ config_phase = "closed" /\ unread = << >> /\ file = << >>
        /\ line_counter = 1 /\ rules_ = << >>
    BY <1>1 DEF Start
  <2>2. unread \in Seq(GoodLines)
    BY <2>1
  <2> QED
    BY <2>1, <2>2, ConfigStart DEF TheConfigInv
<1>4. Arguments
  <2>1. argv \in Seq(Options)
    BY <1>1, StartupAssumption
  <2>2. optind = 0 /\ cmd_args = [config_file |-> NoFile, stats_interval |-> 0]
    BY <1>1 DEF Start
  <2> QED
    BY <1>1, <2>1, <2>2 DEF Arguments, NoneOf
<1>5. Stages
  BY <1>1 DEF Start, Init, Stages
<1> QED
  BY <1>2, <1>3, <1>4, <1>5 DEF SInv

\* Config and PortManager go on as before when only main's state changes.
LEMMA MainStep ==
  ASSUME SInv, UNCHANGED vars, UNCHANGED config
  PROVE  /\ PortsInv' /\ TheConfigInv'
         /\ Mapped' = Mapped /\ Slaves' = Slaves
<1>1. PortsInv'
  BY NextPorts DEF SInv
<1>2. UNCHANGED <<machine, config_phase, unread, file, line_counter, rules_, ports_map_>>
  BY DEF vars, tables, config
<1>3. ASSUME NEW n \in 0 .. MaxPorts, ConfigInv(n) PROVE ConfigInv(n)'
  <2>1. Read' = Read
    BY <1>2 DEF Read
  <2> QED
    BY <1>2, <1>3, <2>1 DEF ConfigInv, Reading, FromLines, OneLineEach
<1>4. TheConfigInv'
  BY <1>2, <1>3 DEF SInv, TheConfigInv
<1> QED
  BY <1>1, <1>2, <1>4 DEF Mapped, Slaves

\* An option parsed is the last of its kind so far, and leaves the last of
\* the other kinds as they were.
LEMMA OptionStep ==
  ASSUME SInv, ParseOption
  PROVE  SInv'
<1>1. /\ stage = "args" /\ optind < Len(argv)
      /\ cmd_args' = Taken /\ optind' = optind + 1
      /\ UNCHANGED <<vars, stage, argv, disk, config, workers>>
  BY DEF ParseOption
<1>2. PICK m \in 1 .. Len(argv) : m = optind + 1 /\ m = optind'
  BY <1>1 DEF SInv, Arguments
<1>3. /\ argv \in Seq(Options) /\ optind \in Nat
      /\ argv' = argv /\ disk' = disk
  BY <1>1 DEF SInv, Arguments
<1>4. Option \in Options /\ Option = argv[m]
  BY <1>2, <1>3 DEF Option
<1>5. ASSUME NEW kind, Option.kind = kind
      PROVE  m \in 1 .. m /\ LastOf(m, kind, m)
  BY <1>2, <1>4, <1>5 DEF LastOf
<1>6. ASSUME NEW kind, Option.kind # kind,
             NEW n \in 1 .. optind, LastOf(n, kind, optind)
      PROVE  n \in 1 .. m /\ LastOf(n, kind, m)
  <2>1. \A later \in n + 1 .. m : later \in n + 1 .. optind \/ later = m
    BY <1>2, <1>3
  <2>2. n \in 1 .. m
    BY <1>2, <1>3
  <2> QED
    BY <1>4, <1>6, <2>1, <2>2 DEF LastOf
<1>7. /\ cmd_args' = [config_file |-> cmd_args'.config_file,
                      stats_interval |-> cmd_args'.stats_interval]
      /\ cmd_args'.config_file =
           IF Option.kind = "config" THEN Option.name ELSE cmd_args.config_file
      /\ cmd_args'.stats_interval =
           IF Option.kind = "stats-interval" THEN Option.value % 2^16
                                             ELSE cmd_args.stats_interval
  <2>1. cmd_args = [config_file |-> cmd_args.config_file,
                    stats_interval |-> cmd_args.stats_interval]
    BY DEF SInv, Arguments
  <2>2. CASE Option.kind = "config"
    <3>1. cmd_args' = [cmd_args EXCEPT !.config_file = Option.name]
      BY <1>1, <2>2 DEF Taken
    <3> QED
      BY <2>1, <2>2, <3>1
  <2>3. CASE Option.kind = "stats-interval"
    <3> DEFINE interval == Option.value % 2^16
    <3>1. cmd_args' = [cmd_args EXCEPT !.stats_interval = interval]
      BY <1>1, <2>3 DEF Taken
    <3> HIDE DEF interval
    <3>2. cmd_args'.config_file = cmd_args.config_file /\ cmd_args'.stats_interval = interval
          /\ cmd_args' = [config_file |-> cmd_args'.config_file,
                          stats_interval |-> cmd_args'.stats_interval]
      BY <2>1, <3>1
    <3> QED
      BY <2>3, <3>2 DEF interval
  <2>4. CASE Option.kind \notin {"config", "stats-interval"}
    <3>1. cmd_args' = cmd_args
      BY <1>1, <2>4 DEF Taken
    <3> QED
      BY <2>1, <2>4, <3>1
  <2> QED
    BY <2>2, <2>3, <2>4
<1>8. cmd_args'.config_file # NoFile =>
        \E n \in 1 .. m : LastOf(n, "config", m) /\ cmd_args'.config_file = argv[n].name
  <2>1. CASE Option.kind = "config"
    BY <1>4, <1>5, <1>7, <2>1
  <2>2. CASE Option.kind # "config"
    BY <1>6, <1>7, <2>2 DEF SInv, Arguments
  <2> QED
    BY <2>1, <2>2
<1>9. \/ cmd_args'.stats_interval = 0 /\ NoneOf("stats-interval", m)
      \/ \E n \in 1 .. m : /\ LastOf(n, "stats-interval", m)
                           /\ cmd_args'.stats_interval = argv[n].value % 2^16
  <2>1. CASE Option.kind = "stats-interval"
    <3>1. m \in 1 .. m /\ LastOf(m, "stats-interval", m)
      BY <1>5, <2>1
    <3>2. cmd_args'.stats_interval = argv[m].value % 2^16
      BY <1>4, <1>7, <2>1, Zenon
    <3> QED
      BY <3>1, <3>2, Zenon
  <2>2. CASE Option.kind # "stats-interval"
    <3>1. cmd_args'.stats_interval = cmd_args.stats_interval
      BY <1>7, <2>2, Zenon
    <3>2. CASE cmd_args.stats_interval = 0 /\ NoneOf("stats-interval", optind)
      <4>1. \A n \in 1 .. m : n \in 1 .. optind \/ n = m
        BY <1>2, <1>3
      <4>2. NoneOf("stats-interval", m)
        BY <1>4, <2>2, <3>2, <4>1, Zenon DEF NoneOf
      <4> QED
        BY <3>1, <3>2, <4>2, Zenon
    <3>3. CASE \E n \in 1 .. optind :
                 /\ LastOf(n, "stats-interval", optind)
                 /\ cmd_args.stats_interval = argv[n].value % 2^16
      <4>1. PICK n \in 1 .. optind :
              /\ LastOf(n, "stats-interval", optind)
              /\ cmd_args.stats_interval = argv[n].value % 2^16
        BY <3>3, Zenon
      <4>2. n \in 1 .. m /\ LastOf(n, "stats-interval", m)
        BY <1>6, <2>2, <4>1
      <4> QED
        BY <3>1, <4>1, <4>2, Zenon
    <3> QED
      BY <3>2, <3>3, Zenon DEF SInv, Arguments
  <2> QED
    BY <2>1, <2>2
<1>10. Arguments'
  <2>1. /\ \A n, kind : LastOf(n, kind, optind)' <=> LastOf(n, kind, m)
        /\ \A kind : NoneOf(kind, optind)' <=> NoneOf(kind, m)
    BY <1>2, <1>3 DEF LastOf, NoneOf
  <2>2. optind' \in 0 .. Len(argv')
    BY <1>2, <1>3
  <2>3. argv' \in Seq(Options) /\ disk' \in Disks
    BY <1>3 DEF SInv, Arguments
  <2> QED
    BY <1>2, <1>3, <1>7, <1>8, <1>9, <2>1, <2>2, <2>3, Zenon DEF Arguments
<1>11. Stages'
  BY <1>1 DEF SInv, Stages, config, vars, tables
<1> QED
  BY <1>1, <1>10, <1>11, MainStep DEF SInv


\* The file is told to Config, when it is there.
LEMMA EndStep ==
  ASSUME SInv, EndOfArgs
  PROVE  SInv'
<1>1. /\ stage = "args" /\ optind = Len(argv) /\ stage' = "config"
      /\ unread' = Contents
      /\ UNCHANGED <<vars, argv, optind, cmd_args, disk>>
      /\ UNCHANGED <<config_phase, file, line_counter, rules_, workers>>
  BY DEF EndOfArgs, Contents, args
<1>2. PortsInv'
  BY <1>1, NextPorts DEF SInv
<1>3. /\ config_phase = "closed" /\ file = << >>
      /\ started' = started /\ machine' = machine
  <2>1. config_phase = "closed"
    BY <1>1 DEF SInv, Stages
  <2>2. machine.nb_ports \in 0 .. MaxPorts
    BY DEF SInv, PortsInv, TypeOK, Machines
  <2>3. Reading
    BY <2>2 DEF SInv, TheConfigInv, ConfigInv
  <2> QED
    BY <1>1, <2>1, <2>3 DEF Reading, vars, tables
<1>4. unread' \in Seq(GoodLines)
  <2>1. CASE OnDisk
    BY <1>1, <2>1, FilesGood DEF Contents, OnDisk, SInv, Arguments
  <2>2. CASE ~OnDisk
    BY <1>1, <2>2 DEF Contents
  <2> QED
    BY <2>1, <2>2
<1>5. TheConfigInv'
  <2>1. ASSUME NEW n \in 0 .. MaxPorts, ConfigInv(n) PROVE ConfigInv(n)'
    <3>1. Read' = Read
      BY <1>1 DEF Read
    <3> QED
      BY <1>1, <1>4, <2>1, <3>1 DEF ConfigInv, Reading, FromLines, OneLineEach
  <2> QED
    BY <1>3, <2>1 DEF SInv, TheConfigInv
<1>6. Arguments'
  BY <1>1 DEF SInv, Arguments, LastOf, NoneOf
<1>7. Stages'
  <2>1. OnDisk' = OnDisk /\ Contents' = Contents
    BY <1>1 DEF OnDisk, Contents
  <2>2. file' \o unread' = Contents'
    BY <1>1, <1>3, <1>4, <2>1
  <2> QED
    BY <1>1, <1>3, <2>1, <2>2 DEF SInv, Stages
<1> QED
  BY <1>2, <1>5, <1>6, <1>7 DEF SInv

\* The exception leaves everything as it is.
LEMMA InvalidStep ==
  ASSUME SInv, InvalidInterval
  PROVE  SInv'
<1>1. stage' = "aborted" /\ UNCHANGED <<vars, args, config, workers>>
  BY DEF InvalidInterval
<1>2. Arguments'
  BY <1>1 DEF SInv, Arguments, LastOf, NoneOf, args
<1>3. Stages'
  BY <1>1 DEF SInv, Stages, config, vars, tables
<1> QED
  BY <1>1, <1>2, <1>3, MainStep DEF SInv

\* Config reads the file; main goes on to the ports once it has accepted it.
LEMMA ConfigStep ==
  ASSUME SInv, RunConfig
  PROVE  SInv'
<1>1. /\ stage = "config" /\ stage' = AfterConfig
      /\ ~OnDisk => config_phase' = "rejected"
      /\ UNCHANGED <<vars, args, workers>>
  BY DEF RunConfig
<1>2. PICK n \in 0 .. MaxPorts : n = machine.nb_ports /\ Cfg(n)!Next
  BY DEF RunConfig
<1>3. ConfigInv(n)
  BY <1>2 DEF SInv, TheConfigInv
<1>4. /\ ConfigInv(n)'
      /\ file' \o unread' = file \o unread
      /\ config_phase \in {"closed", "reading"}
      /\ config_phase' # "closed"
      /\ config_phase' = "accepted" => config_phase = "reading" /\ unread' = << >>
  BY <1>2, <1>3, ConfigNext
<1>5. PortsInv'
  BY <1>1, NextPorts DEF SInv
<1>6. machine' = machine /\ started' = started /\ started = << >>
  BY <1>1, <1>4 DEF vars, tables, SInv, Stages
<1>7. TheConfigInv'
  BY <1>2, <1>4, <1>6 DEF TheConfigInv
<1>8. Arguments'
  BY <1>1 DEF SInv, Arguments, LastOf, NoneOf, args
<1>9. OnDisk' = OnDisk /\ Contents' = Contents /\ disk' = disk /\ cmd_args' = cmd_args
      /\ optind' = Len(argv')
  BY <1>1 DEF OnDisk, Contents, args, SInv, Stages
<1>10. file' \o unread' = Contents'
  BY <1>1, <1>4, <1>9 DEF SInv, Stages
<1>11. config_phase' \in {"reading", "accepted", "rejected"}
  BY <1>4 DEF ConfigInv, Reading
<1>12. config_phase' # "rejected" => OnDisk'
  BY <1>1, <1>9
<1>13. CASE config_phase' = "accepted"
  <2>1. stage' = "ports"
    BY <1>1, <1>13 DEF AfterConfig
  <2>2. file' = disk'[cmd_args'.config_file]
    <3>1. file' \in Seq(GoodLines)
      BY <1>4 DEF ConfigInv, Reading
    <3>2. file' \o << >> = file'
      BY <3>1, ConcatEmptySeq
    <3> QED
      BY <1>4, <1>10, <1>12, <1>13, <3>2 DEF Contents
  <2>3. Stages'
    BY <1>6, <1>9, <1>12, <1>13, <2>1, <2>2 DEF Stages
  <2> QED
    BY <1>5, <1>7, <1>8, <2>3 DEF SInv
<1>14. CASE config_phase' = "rejected"
  <2>1. stage' = "exited"
    BY <1>1, <1>14 DEF AfterConfig
  <2>2. Stages'
    BY <1>6, <2>1 DEF Stages
  <2> QED
    BY <1>5, <1>7, <1>8, <2>2 DEF SInv
<1>15. CASE config_phase' = "reading"
  <2>1. stage' = "config"
    BY <1>1, <1>15 DEF AfterConfig
  <2>2. Stages'
    BY <1>6, <1>9, <1>10, <1>12, <1>15, <2>1 DEF Stages
  <2> QED
    BY <1>5, <1>7, <1>8, <2>2 DEF SInv
<1> QED
  BY <1>11, <1>13, <1>14, <1>15

\* PortManager runs as module PortManager says, after Config.
LEMMA PortManagerStep ==
  ASSUME SInv, RunPortManager
  PROVE  SInv'
<1>1. /\ stage = "ports" /\ Next
      /\ stage' = CASE phase' = "ready" -> "launch"
                    [] phase' = "failed" -> "exited"
                    [] OTHER -> "ports"
      /\ UNCHANGED <<args, config, workers>>
  BY DEF RunPortManager
<1>2. PortsInv'
  BY <1>1, NextPorts DEF SInv
<1>3. machine' = machine
  BY <1>1 DEF Next, FindLcore, NoLcoreLeft, HasMempool, CreateMempool, NoMempool,
     InitializePort, PortFails, MapPort, ChooseStatsLcore, CheckLinks, EndLinks
<1>4. UNCHANGED <<config_phase, unread, file, line_counter, rules_>>
  BY <1>1 DEF config
<1>5. TheConfigInv'
  <2>1. ASSUME NEW n \in 0 .. MaxPorts, ConfigInv(n) PROVE ConfigInv(n)'
    <3>1. Read' = Read
      BY <1>4 DEF Read
    <3> QED
      BY <1>4, <2>1, <3>1 DEF ConfigInv, Reading, FromLines, OneLineEach
  <2> QED
    BY <1>3, <2>1 DEF SInv, TheConfigInv
<1>6. Arguments'
  BY <1>1 DEF SInv, Arguments, LastOf, NoneOf, args
<1>7. /\ config_phase' = "accepted" /\ OnDisk' /\ file' = disk'[cmd_args'.config_file]
      /\ optind' = Len(argv')
  BY <1>1, <1>4 DEF SInv, Stages, OnDisk, args
<1>8. /\ stage' \in {"ports", "launch", "exited"}
      /\ stage' = "launch" => phase' = "ready"
  BY <1>1
<1>9. Stages'
  BY <1>7, <1>8 DEF Stages
<1> QED
  BY <1>2, <1>5, <1>6, <1>9 DEF SInv

\* The workers are launched.
LEMMA LaunchStep ==
  ASSUME SInv, Launch
  PROVE  SInv'
<1>1. /\ stage = "launch" /\ stage' = "running"
      /\ workers' = [l \in Slaves \cap Mapped |-> ports_map_[l]]
      /\ UNCHANGED <<vars, args, config>>
  BY DEF Launch, Mapped
<1>2. /\ PortsInv' /\ TheConfigInv'
      /\ Mapped' = Mapped /\ Slaves' = Slaves /\ ports_map_' = ports_map_
  BY <1>1, MainStep DEF vars, tables
<1>3. Arguments'
  BY <1>1 DEF SInv, Arguments, LastOf, NoneOf, args
<1>4. Stages'
  BY <1>1, <1>2 DEF SInv, Stages, config, vars, tables, args, OnDisk
<1> QED
  BY <1>2, <1>3, <1>4 DEF SInv

LEMMA NextStartup == SInv /\ [SNext]_svars => SInv'
<1> SUFFICES ASSUME SInv, [SNext]_svars PROVE SInv'
  OBVIOUS
<1>1. CASE SNext
  BY <1>1, OptionStep, EndStep, InvalidStep, ConfigStep, PortManagerStep, LaunchStep
     DEF SNext
<1>2. CASE UNCHANGED svars
  <2>1. UNCHANGED <<vars, stage, args, config, workers>>
    BY <1>2 DEF svars
  <2>2. PortsInv' /\ TheConfigInv' /\ Mapped' = Mapped /\ Slaves' = Slaves
    BY <2>1, MainStep
  <2>3. Arguments'
    BY <2>1 DEF SInv, Arguments, LastOf, NoneOf, args
  <2>4. Stages'
    BY <2>1, <2>2 DEF SInv, Stages, config, vars, tables, args, OnDisk, Contents
  <2> QED
    BY <2>2, <2>3, <2>4 DEF SInv
<1> QED
  BY <1>1, <1>2


-----------------------------------------------------------------------------
(* What the workers are handed. *)

\* Every port is held by exactly one of the lcores that get a worker.
LEMMA OneWorker ==
  ASSUME SInv, stage = "running"
  PROVE  /\ i = machine.nb_ports /\ Mapped \subseteq Slaves
         /\ DOMAIN workers = Mapped
         /\ \A l \in Mapped : workers[l] = ports_map_[l]
         /\ \A p \in 0 .. machine.nb_ports - 1 :
              Cardinality({l \in DOMAIN workers : workers[l] = p}) = 1
<1>1. phase = "ready" /\ workers = [l \in Slaves \cap Mapped |-> ports_map_[l]]
  BY DEF SInv, Stages
<1>2. i = machine.nb_ports /\ Mapped \subseteq Slaves
  BY <1>1 DEF SInv, PortsInv, Progress, Checked, Ascending
<1>3. DOMAIN workers = Mapped /\ \A l \in Mapped : workers[l] = ports_map_[l]
  BY <1>1, <1>2
<1>4. ASSUME NEW p \in 0 .. machine.nb_ports - 1
      PROVE  Cardinality({l \in DOMAIN workers : workers[l] = p}) = 1
  <2>1. PICK l \in Mapped : ports_map_[l] = p
    BY <1>2 DEF SInv, PortsInv, OneEach
  <2>2. {m \in DOMAIN workers : workers[m] = p} = {l}
    BY <1>3, <2>1 DEF SInv, PortsInv, OneEach
  <2> QED
    BY <2>2, FS_Singleton
<1> QED
  BY <1>2, <1>3, <1>4

\* A rule outputs to ports the machine has.
LEMMA OutputsArePorts ==
  ASSUME SInv, machine.nb_ports \in 0 .. MaxPorts
  PROVE  DstPorts \subseteq 0 .. machine.nb_ports - 1
<1>1. PICK n \in 0 .. MaxPorts : n = machine.nb_ports
  OBVIOUS
<1>2. ConfigInv(n)
  BY <1>1 DEF SInv, TheConfigInv
<1>3. ASSUME NEW key \in DOMAIN rules_, NEW a \in Range(rules_[key]), a.type = "OUTPUT"
      PROVE  a.port \in 0 .. machine.nb_ports - 1
  <2>1. rules_[key] \in Seq(Cfg(n)!ActionSet)
    BY <1>2, RuleIsGood
  <2>2. a \in Cfg(n)!ActionSet
    BY <2>1 DEF Range
  <2> QED
    BY <1>1, <1>3, <2>2
       DEF Cfg!ActionSet, Cfg!DROP, Cfg!PUSH, Cfg!OUTPUT, Cfg!Ports
<1> QED
  BY <1>3 DEF DstPorts

LEMMA ServicePromise ==
  ASSUME SInv
  PROVE  ServiceReady
<1>1. started # << >> => config_phase = "accepted"
  BY DEF SInv, Stages
<1>2. ASSUME stage = "running" PROVE ServiceReady
  <2>1. /\ phase = "ready" /\ OnDisk /\ optind = Len(argv)
        /\ file = disk[cmd_args.config_file]
    BY <1>2 DEF SInv, Stages
  <2>2. \E n \in DOMAIN argv : IsLast(n, "config") /\ file = disk[argv[n].name]
    <3>1. cmd_args.config_file # NoFile
      BY <2>1, StartupAssumption DEF SInv, Arguments, OnDisk
    <3>2. PICK n \in 1 .. optind : /\ LastOf(n, "config", optind)
                                   /\ cmd_args.config_file = argv[n].name
      BY <3>1 DEF SInv, Arguments
    <3>3. DOMAIN argv = 1 .. optind
      BY <2>1 DEF SInv, Arguments
    <3> QED
      BY <2>1, <3>2, <3>3 DEF LastOf, IsLast
  <2>3. /\ i = machine.nb_ports /\ Mapped \subseteq Slaves
        /\ DOMAIN workers = Mapped
        /\ \A l \in Mapped : workers[l] = ports_map_[l]
        /\ \A p \in 0 .. machine.nb_ports - 1 :
             Cardinality({l \in DOMAIN workers : workers[l] = p}) = 1
    BY <1>2, OneWorker
  <2>4. DstPorts \subseteq DOMAIN started
    <3>1. machine.nb_ports \in 0 .. MaxPorts
      BY DEF SInv, PortsInv, TypeOK, Machines
    <3>2. DOMAIN started = 0 .. machine.nb_ports - 1
      BY <2>1, <2>3 DEF SInv, PortsInv, Started
    <3> QED
      BY <3>1, <3>2, OutputsArePorts
  <2>5. \A l \in DOMAIN workers : /\ started[workers[l]] = machine.socket[l]
                                  /\ machine.socket[l] \in mempools_
    BY <2>3 DEF SInv, PortsInv, Started, Mempools
  <2>6. OneMempool
    BY PortsPromise DEF SInv
  <2> QED
    BY <1>1, <2>2, <2>3, <2>4, <2>5, <2>6 DEF ServiceReady
<1> QED
  BY <1>1, <1>2 DEF ServiceReady

\* The lcores are taken in order, so that one without a counter is taken
\* only when those with one are all taken.
LEMMA LowLcoresFirst ==
  ASSUME SInv, stage = "running",
         Cardinality(Slaves \cap 0 .. kMAX_LCORES - 1) >= machine.nb_ports
  PROVE  Mapped \subseteq 0 .. kMAX_LCORES - 1
<1> DEFINE Low == Slaves \cap 0 .. kMAX_LCORES - 1
<1>1. /\ phase = "ready" /\ i = machine.nb_ports
      /\ Mapped = {l \in Slaves : l <= stats_lcore_id_}
      /\ Cardinality(Mapped) = machine.nb_ports
  BY OneWorker DEF SInv, Stages, PortsInv, Ascending, Checked, OneEach
<1>2. machine.nb_ports \in Nat /\ Slaves \subseteq Nat /\ IsFiniteSet(Mapped)
  BY <1>1, MachineFacts, FS_Subset DEF SInv, PortsInv
<1>3. SUFFICES ASSUME NEW l \in Mapped, l \notin 0 .. kMAX_LCORES - 1 PROVE FALSE
  OBVIOUS
<1>4. stats_lcore_id_ \in Int
  BY DEF SInv, PortsInv, TypeOK
<1>5. Low \subseteq Mapped \ {l}
  BY <1>1, <1>2, <1>3, <1>4, StartupAssumption
<1>6. /\ IsFiniteSet(Mapped \ {l})
      /\ Cardinality(Mapped \ {l}) = Cardinality(Mapped) - 1
  BY <1>2, <1>3, FS_RemoveElement
<1>7. Cardinality(Low) <= Cardinality(Mapped \ {l}) /\ Cardinality(Low) \in Nat
  BY <1>5, <1>6, FS_Subset, FS_CardinalityType
<1> QED
  BY <1>1, <1>2, <1>6, <1>7

LEMMA StatisticsPromise ==
  ASSUME SInv
  PROVE  StatisticsReady
<1> SUFFICES ASSUME stage = "running" PROVE StatisticsReady
  BY DEF StatisticsReady
<1>1. phase = "ready" /\ optind = Len(argv)
  BY DEF SInv, Stages
<1>2. DOMAIN argv = 1 .. optind /\ optind \in Nat
  BY <1>1 DEF SInv, Arguments
<1>3. ASSUME NEW n \in DOMAIN argv, IsLast(n, "stats-interval"),
             argv[n].value \in 0 .. 2^16 - 1
      PROVE  cmd_args.stats_interval = argv[n].value
  <2>1. argv[n].kind = "stats-interval"
    BY <1>3 DEF IsLast
  <2>2. PICK m \in 1 .. optind : /\ LastOf(m, "stats-interval", optind)
                                 /\ cmd_args.stats_interval = argv[m].value % 2^16
    BY <1>2, <2>1, Zenon DEF SInv, Arguments, NoneOf
  <2>3. ~(m \in n + 1 .. optind) /\ ~(n \in m + 1 .. optind)
    BY <1>1, <1>3, <2>1, <2>2, Zenon DEF IsLast, LastOf
  <2>4. m = n
    BY <1>2, <2>3
  <2>5. \A x \in 0 .. 2^16 - 1 : x % 2^16 = x
    OBVIOUS
  <2> QED
    BY <1>3, <2>2, <2>4, <2>5, Zenon
<1>4. (\A n \in DOMAIN argv : argv[n].kind # "stats-interval") =>
        cmd_args.stats_interval = 0
  BY <1>2, Zenon DEF SInv, Arguments, LastOf
<1>5. DOMAIN workers = Mapped
  BY OneWorker
<1>6. machine.nb_ports > 0 => stats_lcore_id_ \in DOMAIN workers
  BY <1>1, <1>5 DEF SInv, PortsInv, LastTaken, Checked
<1> QED
  BY <1>3, <1>4, <1>5, <1>6, LowLcoresFirst, Zenon DEF StatisticsReady

\* Whatever the command line, the disk and the machine, main keeps to SInv.
THEOREM StartupCorrect == SSpec => []SInv
<1> QED
  BY InitStartup, NextStartup, PTL DEF SSpec

\* Every list of actions in rules_ is well formed, and is of a port there is:
\* what the data plane assumes of the table it is given.
THEOREM Tables == SSpec => []TableWellFormed
<1>1. SInv => TableWellFormed
  BY TableGood DEF SInv, TheConfigInv, TableWellFormed
<1> QED
  BY <1>1, StartupCorrect, PTL

\* The table accepted is the file: a rule for every line, no line twice.
THEOREM FilesKept == SSpec => []TableIsFile
<1>1. SInv => TableIsFile
  BY TableOfFile DEF SInv, TheConfigInv, TableIsFile
<1> QED
  BY <1>1, StartupCorrect, PTL

\* The 32 bits of a label hold the four numbers of its line, each narrowed to
\* its width: no field runs into another.
THEOREM Words == SSpec => []WordsExact
<1>1. SInv => WordsExact
  <2> SUFFICES ASSUME SInv PROVE WordsExact
    OBVIOUS
  <2>1. PICK n \in 0 .. MaxPorts : n = machine.nb_ports
    BY DEF SInv, PortsInv, TypeOK, Machines
  <2> QED
    BY <2>1, WordsGood DEF SInv, TheConfigInv
<1> QED
  BY <1>1, StartupCorrect, PTL

\* The workers start only on the rules of the file named last, with one
\* started port each and the mempool it receives into.
THEOREM Service == SSpec => []ServiceReady
<1> QED
  BY ServicePromise, StartupCorrect, PTL

\* However many intervals the command line asks for, the last one is what the
\* workers start with if 16 bits hold it, and 0 if there is none; the lcore
\* that prints has a worker, and a worker is on an lcore without a counter
\* only if there are too few with one.
THEOREM StatisticsStart == SSpec => []StatisticsReady
<1> QED
  BY StatisticsPromise, StartupCorrect, PTL
=============================================================================
