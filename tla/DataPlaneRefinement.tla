------------------------ MODULE DataPlaneRefinement ------------------------
(***************************************************************************)
(* The data plane implements LossyForwarding: the channel from p to q is   *)
(* what the TX ring of q holds of p, then what the TX buffer [p][q] holds, *)
(* then what the packets in rx[p] still owe to q.                          *)
(***************************************************************************)
EXTENDS DataPlane, Forwarding

\* The frames of port p among those that the mbufs hold.
FramesOf(p, mbufs) ==
  LET held(m) == IF m # NoMbuf /\ frame[m].src = p THEN <<frame[m]>> ELSE << >>
  IN FlattenSeq([i \in DOMAIN mbufs |-> held(mbufs[i])])

\* The packet whose processing has begun owes the rest of its action list,
\* the packets behind it all of theirs.
Owed(p, q) ==
  LET begun == Len(arrived[p]) - Len(rx[p]) < Begun(p)
      left(i) == IF i = 1 /\ begun THEN todo[p]
                                   ELSE ActionsFor(rules, frame[rx[p][i]])
  IN FlattenSeq([i \in DOMAIN rx[p] |-> Emitted(frame[rx[p][i]], left(i), q)])

Copied(p, q) == FramesOf(p, ring[q]) \o FramesOf(p, tx[p][q])
Channel(p, q) == Copied(p, q) \o Owed(p, q)

Channels == [p \in Ports |-> [q \in Ports |-> Channel(p, q)]]

Abstract == INSTANCE LossyForwarding WITH chan <- Channels

\* Whatever the workers, the buffers, the mempool and the NIC do, nothing
\* comes out of a port but what the rules say, each frame once, in the order
\* of arrival; frames of a flow may be missing, never altered or reordered.
LossyForwarder == Abstract!Spec

\* A frame due on a port is given up only when no mbuf is left for its copy,
\* or when the copy is made and the TX ring of the port is full.
LossOnlyUnderPressure ==
  [][\A p, q \in Ports :
       wire'[q] = wire[q] /\ Len(ring[q]) < RingSize =>
         /\ Len(Copied(p, q))' >= Len(Copied(p, q))
         /\ pool # {} => Len(Channel(p, q))' >= Len(Channel(p, q))]_vars
=============================================================================
