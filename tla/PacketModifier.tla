--------------------------- MODULE PacketModifier ---------------------------
(***************************************************************************)
(* packet_modifier: PreparePacket on a received frame, then the pushes of  *)
(* the frame's rule.  This is what Pushed of module Rules abstracts from.  *)
(*                                                                         *)
(* The header of a frame, up to and with what precedes the IP header, is a *)
(* sequence of 16-bit units: six of addresses, two for each VLAN tag, the  *)
(* ethertype, two for each MPLS label.  Lengths are in units.  The IP      *)
(* packet behind it is never touched; of it only the protocol counts.      *)
(*                                                                         *)
(* External: rte_vlan_insert prepends four bytes, moves the addresses to   *)
(* the front and leaves l2_len alone; rte_pktmbuf_prepend fails when less  *)
(* than four bytes of headroom are left; l2_len, which counts bytes, is a  *)
(* bit field of seven bits.                                                *)
(***************************************************************************)
EXTENDS Integers, Sequences, SequencesExt

CONSTANTS
  VlanPushes,     \* the tags a rule may push, as pairs of units
  MplsPushes,     \* the labels a rule may push, as pairs of units
  ReceivedTags,   \* the VLAN tags of received frames
  Received,       \* the frames that may be received
  MaxHeadroom,    \* bound of the model: pushes that fit before a frame
  MaxPushes       \* bound of the model: pushes of one rule

VlanTypes == {"8100", "88a8"}
IpTypes == {"0800", "86dd"}
EtherTypes == IpTypes \cup {"0806", "8847"}

Frames == [tags : Seq(ReceivedTags), type : EtherTypes,
           proto : {"TCP", "UDP", "ICMP"}]

ASSUME PacketModifierAssumption ==
  /\ \A t \in VlanPushes \cup ReceivedTags : t = <<t[1], t[2]>> /\ t[1] \in VlanTypes
  /\ \A l \in MplsPushes : l = <<l[1], l[2]>>
  /\ Received \subseteq Frames
  /\ MaxHeadroom \in Nat /\ MaxPushes \in Nat

Addresses == <<"d1", "d2", "d3", "s1", "s2", "s3">>

Pushes == [kind : {"vlan"}, units : VlanPushes]
            \cup [kind : {"mpls"}, units : MplsPushes]

VARIABLES
  frame,       \* the frame received
  room,        \* the headroom it was received with, in pushes
  phase,       \* "received", "prepared" or "freed"
  head,        \* the header of the mbuf's data
  headroom,    \* what is left of the headroom
  l2_len,      \* as PreparePacket left it
  asked        \* history: the pushes asked for

vars == <<frame, room, phase, head, headroom, l2_len, asked>>

Init ==
  /\ frame \in Received
  /\ room \in 0 .. MaxHeadroom
  /\ phase = "received"
  /\ head = Addresses \o FlattenSeq(frame.tags) \o <<frame.type>>
  /\ headroom = room
  /\ l2_len = 0
  /\ asked = << >>

-----------------------------------------------------------------------------

\* The ethertype behind the VLAN tags: its place in the header.
TypePlace ==
  CHOOSE n \in 7 .. Len(head) :
    /\ head[n] \notin VlanTypes
    /\ \A k \in 7 .. n - 1 : (k - 7) % 2 = 0 => head[k] \in VlanTypes
    /\ (n - 7) % 2 = 0

Supported == head[TypePlace] \in IpTypes /\ frame.proto \in {"TCP", "UDP"}

\* The units of a frame in front of its IP header.
L2(f) == 7 + 2 * Len(f.tags)

\* Four bytes are added for each tag, in seven bits.
L2Field(units) == units % 2^6

\* Mutant: one tag is skipped at most.
PrepareOneTag ==
  /\ phase = "received"
  /\ Supported
  /\ l2_len' = IF head[7] \in VlanTypes THEN 9 ELSE 7
  /\ phase' = "prepared"
  /\ UNCHANGED <<frame, room, head, headroom, asked>>

Prepare ==
  /\ phase = "received"
  /\ Supported
  /\ l2_len' = L2Field(TypePlace)
  /\ phase' = "prepared"
  /\ UNCHANGED <<frame, room, head, headroom, asked>>

Refuse ==
  /\ phase = "received"
  /\ ~Supported
  /\ l2_len' = L2Field(TypePlace)
  /\ phase' = "freed"
  /\ UNCHANGED <<frame, room, head, headroom, asked>>

Asked(push) ==
  /\ phase = "prepared"
  /\ Len(asked) < MaxPushes
  /\ asked' = Append(asked, push)

\* Behind the addresses, before every other tag.
ExecutePushVlan(push) ==
  /\ push.kind = "vlan"
  /\ Asked(push)
  /\ headroom > 0
  /\ headroom' = headroom - 1
  /\ head' = SubSeq(head, 1, 6) \o push.units \o SubSeq(head, 7, Len(head))
  /\ UNCHANGED <<frame, room, phase, l2_len>>

\* Mutant: the label goes behind the addresses, as a tag does.
ExecutePushMplsInFront(push) ==
  /\ push.kind = "mpls"
  /\ Asked(push)
  /\ headroom > 0
  /\ headroom' = headroom - 1
  /\ head' = SubSeq(head, 1, 6) \o <<"8847">> \o push.units
               \o SubSeq(head, 8, Len(head))
  /\ UNCHANGED <<frame, room, phase, l2_len>>

\* l2_len units move to the front, the label follows them, and the last of
\* them becomes the ethertype of MPLS.
ExecutePushMpls(push) ==
  /\ push.kind = "mpls"
  /\ Asked(push)
  /\ headroom > 0
  /\ headroom' = headroom - 1
  /\ head' = SubSeq(head, 1, l2_len - 1) \o <<"8847">> \o push.units
               \o SubSeq(head, l2_len + 1, Len(head))
  /\ UNCHANGED <<frame, room, phase, l2_len>>

\* Without headroom the frame goes on as it is.
CannotPush(push) ==
  /\ Asked(push)
  /\ headroom = 0
  /\ UNCHANGED <<frame, room, phase, head, headroom, l2_len>>

Next == \/ Prepare
        \/ Refuse
        \/ \E push \in Pushes : \/ ExecutePushVlan(push)
                                \/ ExecutePushMpls(push)
                                \/ CannotPush(push)

Spec == Init /\ [][Next]_vars

-----------------------------------------------------------------------------
(* Correctness. *)

\* The units of the pushes of a kind, those of the last push first.
UnitsOf(pushes, kind) ==
  LET units[n \in 0 .. Len(pushes)] ==
        IF n = 0 THEN << >>
        ELSE IF pushes[n].kind = kind THEN pushes[n].units \o units[n - 1]
        ELSE units[n - 1]
  IN units[Len(pushes)]

\* The pushes there was room for.
Kept == SubSeq(asked, 1, IF Len(asked) < room THEN Len(asked) ELSE room)

\* What the header must be: the tags pushed, the last one first, then those
\* received, then the labels pushed, the last one first, or the ethertype
\* received if there is none.
Expected ==
  Addresses \o UnitsOf(Kept, "vlan") \o FlattenSeq(frame.tags)
    \o (IF UnitsOf(Kept, "mpls") = << >> THEN <<frame.type>>
        ELSE <<"8847">> \o UnitsOf(Kept, "mpls"))

\* No label is pushed after a tag.
LabelsFirst ==
  \A m, n \in DOMAIN Kept :
    m < n /\ Kept[m].kind = "vlan" => Kept[n].kind = "vlan"

\* Seven bits hold the length: the frame has at most 28 tags.
TagsFit == 2 * L2(frame) < 2^7

\* Any number of tags on top of any number of labels, on a frame that may
\* have tags already, and more of them than there is room for: the frame is
\* what a switch that pushes them one by one would make of it.  (A label on a
\* frame with more tags than l2_len can count goes somewhere among them.)
PushesComposed ==
  LabelsFirst /\ (TagsFit \/ UnitsOf(Kept, "mpls") = << >>) => head = Expected
=============================================================================
