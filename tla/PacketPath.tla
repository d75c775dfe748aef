----------------------------- MODULE PacketPath -----------------------------
(***************************************************************************)
(* What ProcessPackets does with one packet: PreparePacket, Analyze, and   *)
(* the pushes of its rule if it has one.  The header is PacketModifier's,  *)
(* the payload PacketAnalyzer's; they meet in l2_len, which PreparePacket  *)
(* sets, by which the search methods find the payload and its length, and  *)
(* by which ExecutePushMpls places a label.                                *)
(*                                                                         *)
(* The methods do not stop where the payload does: SearchHttp looks for    *)
(* the blank behind the address until there is one, and SearchRtsp and     *)
(* SearchHttp compare a prefix or version to its end.  Of a word that the  *)
(* payload cuts short, memory says what it is.  (So far behind the payload *)
(* that nothing may be read there, nobody looks in the model.)             *)
(***************************************************************************)
EXTENDS PacketModifier, FiniteSetsExt

CONSTANTS
  Payloads,   \* what frames carry
  Stale       \* what may lie where no payload is: old packets, other headers

\* As packets of PacketAnalyzer, of which no one is longer than a buffer of
\* the pool, which is shorter than 2^16.  A word that goes on behind the end
\* of the payload is "cut".
Texts(lengths) ==
  [kind : {"text"}, surplus : lengths,
   first : STRING, second : STRING, third : STRING]

Binaries(lengths) ==
  [kind : {"binary"}, surplus : lengths, version : 0 .. 3,
   extension : BOOLEAN, csrc_count : 0 .. 15, payload_type : 0 .. 127,
   ssrc : Nat, words : 0 .. 2^16 - 1]

\* Headers that claim more than the packet has leave no payload.
NoPayloads == [kind : {"none"}, surplus : {n \in Int : n < 0}]

Lengths == {n \in Int : n < 2^16}

ASSUME PayloadAssumption ==
  /\ Payloads \subseteq Texts(0 .. 2^16 - 1) \cup Binaries(0 .. 2^16 - 1) \cup NoPayloads
  /\ Stale \subseteq Texts(Lengths) \cup Binaries(Lengths)

VARIABLES
  payload,      \* what the frame carries
  ruled,        \* there is a rule for the port and protocol
  packet,       \* the payload as the search methods find it
  it,           \* as in PacketAnalyzer
  ret

pvars == <<vars, payload, ruled, packet, it, ret>>

Analyzer == INSTANCE PacketAnalyzer WITH Packets <- Payloads, m <- packet

PInit ==
  /\ Init
  /\ payload \in Payloads
  /\ ruled \in BOOLEAN
  /\ packet = payload
  /\ it = 1
  /\ ret = "UNKNOWN"

StaleTexts == {q \in Stale : q.kind = "text"}

\* The words memory makes of one.  "sip:" is never cut: 14 bytes hold it behind
\* the longest method of SIP.
Seconds(word) ==
  IF word # "cut" THEN {word} ELSE {q.second : q \in StaleTexts} \ {"sip:"}

Thirds(word) ==
  IF word # "cut" THEN {word} ELSE {q.third : q \in StaleTexts}

\* A payload and what it reads on into.
Completions(p) ==
  IF p.kind # "text" THEN {p}
  ELSE [kind : {"text"}, surplus : {p.surplus}, first : {p.first},
        second : Seconds(p.second), third : Thirds(p.third)]

\* What lies behind headers of so many units: with too many tags for l2_len
\* it is some place among the tags.
Behind(units) ==
  IF units # L2(frame) THEN Stale
  ELSE IF payload.kind = "none"
    THEN {[q EXCEPT !.surplus = payload.surplus] : q \in Stale}
  ELSE Completions(payload)

PreparePacket ==
  /\ Prepare
  /\ packet' \in Behind(l2_len')
  /\ UNCHANGED <<payload, ruled, it, ret>>

RefusePacket == Refuse /\ UNCHANGED <<payload, ruled, packet, it, ret>>

Analyze ==
  /\ phase = "prepared"
  /\ Analyzer!Search
  /\ UNCHANGED <<vars, payload, ruled>>

\* The packet has its actions executed once its protocol is known.
Execute ==
  /\ ruled
  /\ ~Analyzer!Searching
  /\ \E push \in Pushes : \/ ExecutePushVlan(push)
                          \/ ExecutePushMpls(push)
                          \/ CannotPush(push)
  /\ UNCHANGED <<payload, ruled, packet, it, ret>>

PNext == PreparePacket \/ RefusePacket \/ Analyze \/ Execute

PSpec == PInit /\ [][PNext]_pvars

-----------------------------------------------------------------------------
(* Correctness. *)

\* As in PacketAnalyzer, of what is found behind the headers.
TextTold == Analyzer!TextTold
OrderIrrelevant == Analyzer!OrderIrrelevant
RtpAsDesigned == Analyzer!RtpAsDesigned

\* The class of a payload by itself: the first method that finds it.
ClassOf(p) ==
  LET finding == {n \in DOMAIN Analyzer!methods_ :
                    Analyzer!Finds(Analyzer!methods_[n], p)}
  IN IF finding = {} THEN "UNKNOWN" ELSE Analyzer!methods_[Min(finding)]

\* What the search methods look at is all in the payload.
Legible(p) ==
  /\ p.kind # "none"
  /\ p.kind = "text" =>
       /\ p.second = "cut" => p.first \notin Analyzer!RtspMethods
       /\ p.third = "cut" => p.first \notin Analyzer!HttpMethods

\* A payload is counted and ruled as the same protocol whatever VLAN tags the
\* frame came with, and the pushes executed on it do not change that, unless
\* there are more tags than l2_len can count, or the payload ends before what
\* a search method wants to know.
TagsDontMatter ==
  phase = "prepared" /\ ~Analyzer!Searching /\ TagsFit /\ Legible(payload) =>
    ret = ClassOf(payload)
=============================================================================
