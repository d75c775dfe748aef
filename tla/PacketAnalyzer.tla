--------------------------- MODULE PacketAnalyzer ---------------------------
(***************************************************************************)
(* PacketAnalyzer::Analyze and its four search methods: which protocol a   *)
(* prepared packet is counted and ruled as.                                *)
(*                                                                         *)
(* A packet is the number of bytes by which it is longer than its headers  *)
(* claim to be, less than zero when they claim too much, and what the      *)
(* search methods find behind its headers, whoever wrote it there.  A text *)
(* is its first word, what the second word starts with and what the third  *)
(* word starts with; whether letters of a prefix are upper or lower case   *)
(* is abstracted.  Anything else is binary: the fields of an RTP header.   *)
(* No text starts with a byte of 128 or more, so that no text has the      *)
(* version bit RTP is recognised by.                                       *)
(***************************************************************************)
EXTENDS Integers, Sequences

CONSTANT Packets       \* the packets considered

VARIABLES
  m,             \* the packet
  it,            \* the next element of methods_
  ret            \* the protocol found

vars == <<m, it, ret>>

-----------------------------------------------------------------------------
(* The search methods. *)

Uint16(n) == n % 2^16

\* payload_len = pkt_len - headers_len
PayloadLen(p) == Uint16(p.surplus)

IsText(p) == p.kind = "text"

\* A first line "method prefix..." or, for HTTP, "method address version".
HttpMethods == {"OPTIONS", "GET", "HEAD", "POST", "PUT", "DELETE", "TRACE",
                "CONNECT"}
SipMethods == {"INVITE", "ACK", "BYE", "CANCEL", "OPTIONS", "REGISTER",
               "PRACK", "SUBSCRIBE", "NOTIFY", "PUBLISH", "INFO", "REFER",
               "MESSAGE", "UPDATE"}
RtspMethods == {"DESCRIBE", "OPTIONS", "PLAY", "PAUSE", "RECORD", "REDIRECT",
                "SETUP", "ANNOUNCE", "GET_PARAMETER", "SET_PARAMETER",
                "TEARDOWN"}

\* Mutant: the version is not looked at.
SearchHttpAnyVersion(p) ==
  /\ PayloadLen(p) >= 15
  /\ IsText(p)
  /\ p.first = "HTTP/1.1" \/ p.first \in HttpMethods

SearchHttp(p) ==
  /\ PayloadLen(p) >= 15
  /\ IsText(p)
  /\ \/ p.first = "HTTP/1.1"
     \/ p.first \in HttpMethods /\ p.third = "HTTP/1.1"

SearchSip(p) ==
  /\ PayloadLen(p) >= 14
  /\ IsText(p)
  /\ \/ p.first = "SIP/2.0"
     \/ p.first \in SipMethods /\ p.second = "sip:"

SearchRtsp(p) ==
  /\ PayloadLen(p) >= 15
  /\ IsText(p)
  /\ \/ p.first = "RTSP/1.0"
     \/ p.first \in RtspMethods /\ p.second = "rtsp://"

\* rtp_min_len once the contributing sources are added.
FixedLen(p) == 12 + 4 * p.csrc_count

\* extension_len is four times the number of words.
ExtensionLen(p) == Uint16(4 * p.words)

\* Mutant: the contributing sources are not added up.
SearchRtpShort(p) ==
  /\ PayloadLen(p) >= 12
  /\ ~IsText(p)
  /\ p.version >= 2
  /\ p.ssrc # 0
  /\ p.payload_type \in (0 .. 34) \cup (96 .. 127)
  /\ p.extension =>
       /\ PayloadLen(p) >= 12 + 4
       /\ PayloadLen(p) >= 12 + 4 + ExtensionLen(p)

\* payload[0] & 0x80 is the high bit of the version.
SearchRtp(p) ==
  /\ PayloadLen(p) >= 12
  /\ ~IsText(p)
  /\ p.version >= 2
  /\ p.ssrc # 0
  /\ p.payload_type \in (0 .. 34) \cup (96 .. 127)
  /\ PayloadLen(p) >= FixedLen(p)
  /\ p.extension =>
       /\ PayloadLen(p) >= FixedLen(p) + 4
       /\ PayloadLen(p) >= FixedLen(p) + 4 + ExtensionLen(p)

methods_ == <<"HTTP", "SIP", "RTP", "RTSP">>

Finds(protocol, p) ==
  \/ protocol = "HTTP" /\ SearchHttp(p)
  \/ protocol = "SIP" /\ SearchSip(p)
  \/ protocol = "RTP" /\ SearchRtp(p)
  \/ protocol = "RTSP" /\ SearchRtsp(p)

-----------------------------------------------------------------------------
(* Analyze. *)

Init == m \in Packets /\ it = 1 /\ ret = "UNKNOWN"

Searching == ret = "UNKNOWN" /\ it <= Len(methods_)

Search ==
  /\ Searching
  /\ ret' = IF Finds(methods_[it], m) THEN methods_[it] ELSE "UNKNOWN"
  /\ it' = it + 1
  /\ UNCHANGED m

Spec == Init /\ [][Search]_vars

-----------------------------------------------------------------------------
(* Correctness. *)

\* The packet's headers do not claim more than its length.
Whole(p) == p.surplus >= 0

\* What a packet is by its first line: a response names its protocol first,
\* a request names it last.
Versions == [HTTP |-> "HTTP/1.1", SIP |-> "SIP/2.0", RTSP |-> "RTSP/1.0"]

IsFirstLineOf(protocol, p) ==
  /\ IsText(p)
  /\ \/ p.first = Versions[protocol]
     \/ /\ p.third = Versions[protocol]
        /\ \/ protocol = "HTTP" /\ p.first \in HttpMethods
           \/ protocol = "SIP" /\ p.first \in SipMethods /\ p.second = "sip:"
           \/ /\ protocol = "RTSP"
              /\ p.first \in RtspMethods
              /\ p.second = "rtsp://"

\* The three text protocols share the method OPTIONS and much of their first
\* lines; whichever is asked first, a request or response of one is never
\* taken for another's, nor missed, nor for RTP.
TextTold ==
  ~Searching /\ Whole(m) /\ m.surplus >= 15 =>
    \A protocol \in DOMAIN Versions :
      IsFirstLineOf(protocol, m) => ret = protocol

\* At most one method finds its protocol, so that the order of methods_ does
\* not matter, unless the target of an HTTP request looks like another's.
OrderIrrelevant ==
  ~Searching /\ ret # "UNKNOWN" =>
    \A other \in {"HTTP", "SIP", "RTP", "RTSP"} \ {ret} :
      Finds(other, m) =>
        ret = "HTTP" /\ m.third = "HTTP/1.1" /\ m.second \in {"sip:", "rtsp://"}

\* An RTP packet as 30-design.tex has it (lines 180 to 235): version 2, a
\* source, a type of RFC 3551, and as many bytes as its header, the sources it
\* counts and its extension take, whatever number that is.
DesignedRtp(p) ==
  /\ p.kind = "binary"
  /\ p.version = 2
  /\ p.ssrc # 0
  /\ p.payload_type \notin 35 .. 95
  /\ p.surplus >= 12 + 4 * p.csrc_count + (IF p.extension THEN 4 + 4 * p.words ELSE 0)

\* What the 16 bits of the lengths let through, or the one bit of the version
\* that is looked at.
Overlooked(p) ==
  \/ ~Whole(p)
  \/ p.version = 3
  \/ p.extension /\ p.words >= 2^14

\* Every RTP packet is recognised, and whatever else is taken for RTP has
\* headers that claim too much, version 3, or an extension of 2^16 bytes or
\* more: the lengths, added up and cut to 16 bits step by step, are otherwise
\* compared as whole numbers would be.
RtpAsDesigned ==
  ~Searching =>
    /\ DesignedRtp(m) => ret = "RTP"
    /\ ret = "RTP" => DesignedRtp(m) \/ Overlooked(m)
=============================================================================
