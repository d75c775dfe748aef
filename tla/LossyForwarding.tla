--------------------------- MODULE LossyForwarding ---------------------------
(***************************************************************************)
(* What the data plane promises, without lcores, buffers or mbufs: for     *)
(* each pair of ports (p, q) a first-in first-out channel that may lose    *)
(* frames but never invents, duplicates, alters or reorders one.  A frame  *)
(* accepted on p puts on the channel to q exactly what the rule of its     *)
(* class says; the wire of q takes the heads of the channels to q.         *)
(***************************************************************************)
EXTENDS Forwarding, FiniteSets

CONSTANTS
  RuleTables,    \* the rule tables considered
  Traffic,       \* the classes of the frames that arrive
  MaxArrivals    \* bound of the model: frames accepted on a port

VARIABLES
  rules,     \* the rule table; never changes
  arrived,   \* arrived[p]: the classes of the frames accepted on p, in order
  chan,      \* chan[p][q]: accepted on p, still to be sent out of q
  wire       \* wire[q]: the frames sent out of q, in order

vars == <<rules, arrived, chan, wire>>

Init == /\ rules \in RuleTables
        /\ arrived = [p \in Ports |-> << >>]
        /\ chan = [p \in Ports |-> [q \in Ports |-> << >>]]
        /\ wire = [q \in Ports |-> << >>]

\* The frame that was the i-th to arrive on p, as it arrived.
Original(p, i, class) == [src |-> p, no |-> i, class |-> class, tags |-> << >>]

Accept(p, class) ==
  LET f == Original(p, Len(arrived[p]) + 1, class)
  IN /\ Len(arrived[p]) < MaxArrivals
     /\ arrived' = [arrived EXCEPT ![p] = Append(@, class)]
     /\ chan' = [chan EXCEPT ![p] =
                   [q \in Ports |-> @[q] \o Emitted(f, ActionsFor(rules, f), q)]]
     /\ UNCHANGED <<rules, wire>>

\* Frames that follow each other in a channel are lost; the rest keep their
\* order.
Lose(p, q) ==
  /\ UNCHANGED <<rules, arrived, wire>>
  /\ \E first \in DOMAIN chan[p][q] : \E last \in first .. Len(chan[p][q]) :
       chan' = [chan EXCEPT ![p][q] = SubSeq(@, 1, first - 1)
                                        \o SubSeq(@, last + 1, Len(@))]

Deliver(p, q) ==
  /\ chan[p][q] # << >>
  /\ wire' = [wire EXCEPT ![q] = Append(@, Head(chan[p][q]))]
  /\ chan' = [chan EXCEPT ![p][q] = Tail(@)]
  /\ UNCHANGED <<rules, arrived>>

Next == \/ \E p \in Ports, class \in Traffic : Accept(p, class)
        \/ \E p, q \in Ports : Lose(p, q) \/ Deliver(p, q)

Spec == Init /\ [][Next]_vars

\* Two frames of one port leave another port in the order they arrived.
InOrder ==
  \A q \in Ports : \A i, j \in DOMAIN wire[q] :
    i < j /\ wire[q][i].src = wire[q][j].src => wire[q][i].no <= wire[q][j].no

\* Everything on a wire is an accepted frame with the tags its rule pushes,
\* and is there at most as often as the rule outputs it to that port: a
\* frame the rules block is on no wire.
AsRuled ==
  \A q \in Ports : \A i \in DOMAIN wire[q] :
    LET f == wire[q][i]
        original == Original(f.src, f.no, arrived[f.src][f.no])
        due == Emitted(original, ActionsFor(rules, original), q)
        copies == {j \in DOMAIN wire[q] : wire[q][j] = f}
    IN /\ f.no \in DOMAIN arrived[f.src]
       /\ \E n \in DOMAIN due : due[n] = f
       /\ Cardinality(copies) <= Len(due)
=============================================================================
