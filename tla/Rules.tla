------------------------------- MODULE Rules -------------------------------
(***************************************************************************)
(* The vocabulary every module of the data plane shares: ports, classes of *)
(* packets, actions, rule tables (Config::rules_) and frames.              *)
(*                                                                         *)
(* A rule table is what Config::Initialize leaves in rules_ when it        *)
(* returns true: a partial function from (port, protocol) to a list of     *)
(* actions.  The 16-bit key port | protocol << 8 is modelled by the pair   *)
(* it encodes; module Config checks that the encoding is injective.        *)
(***************************************************************************)
EXTENDS Integers, Sequences

CONSTANTS
  NbPorts,    \* rte_eth_dev_count()
  Tags,       \* the labels a PUSH-VLAN or PUSH-MPLS action can carry
  Headroom    \* pushes that fit before the data of a received mbuf

ASSUME RulesAssumption == /\ NbPorts \in Nat \ {0}
                          /\ Headroom \in Nat

Ports == 0 .. NbPorts - 1

Protocols == {"HTTP", "SIP", "RTP", "RTSP", "UNKNOWN"}

\* The protocols UpdateProtocolStats has a counter for.
Counted == Protocols \ {"UNKNOWN"}

\* What a frame is to the data plane: the protocol Analyze would answer, or
\* "unsupported" when PreparePacket refuses it (not IP, not TCP or UDP).
Classes == Protocols \cup {"unsupported"}

DROP == [type |-> "DROP"]
PUSH(t) == [type |-> "PUSH", tag |-> t]
OUTPUT(q) == [type |-> "OUTPUT", port |-> q]

ActionSet == {DROP} \cup {PUSH(t) : t \in Tags} \cup {OUTPUT(q) : q \in Ports}

\* action_priority of common.h: DROP first, pushes next, outputs last.
Priority(a) == IF a.type = "DROP" THEN 0 ELSE IF a.type = "PUSH" THEN 1 ELSE 2

\* What ParseActions accepts: not empty, priorities never decrease, and the
\* parser stops at the first DROP.
WellFormed(actions) ==
  /\ actions # << >>
  /\ \A i, j \in 1 .. Len(actions) :
       i < j => Priority(actions[i]) <= Priority(actions[j])
  /\ \A i \in 1 .. Len(actions) - 1 : actions[i] # DROP

Keys == Ports \X Protocols

IsRuleTable(rules) ==
  /\ DOMAIN rules \subseteq Keys
  /\ \A k \in DOMAIN rules : /\ rules[k] \in Seq(ActionSet)
                             /\ WellFormed(rules[k])

\* A frame: the port it came in by, its number among the arrivals on that
\* port, its class, and the tags pushed on it, oldest first.
Frames == [src : Ports, no : Nat, class : Classes, tags : Seq(Tags)]

IsPush(a) == a.type = "PUSH"

\* ExecutePushVlan and ExecutePushMpls on a frame: a tag takes four bytes of
\* headroom; when none is left the frame is forwarded without it.
Pushed(f, t) ==
  IF Len(f.tags) < Headroom THEN [f EXCEPT !.tags = Append(@, t)] ELSE f

\* p may send to q: some rule of port p outputs to q.
Sends(rules, p, q) ==
  \E c \in Protocols :
    /\ <<p, c>> \in DOMAIN rules
    /\ \E i \in 1 .. Len(rules[<<p, c>>]) : rules[<<p, c>>][i] = OUTPUT(q)

\* Every output port has at most one input port sending to it.
SingleSender(rules) ==
  \A p1, p2, q \in Ports :
    Sends(rules, p1, q) /\ Sends(rules, p2, q) => p1 = p2
=============================================================================
