---------------------------- MODULE MCPacketPath ----------------------------
(* Frames and payloads for checking PacketPath. *)
EXTENDS PacketPath

MCVlanPushes == {<<"8100", "v1">>, <<"88a8", "v2">>}
MCMplsPushes == {<<"l1", "t1">>, <<"l2", "t2">>}
MCReceivedTags == {<<"8100", "r1">>, <<"88a8", "r2">>}

Surplus == {0, 11, 12, 13, 14, 15, 16, 20, 71, 72, 75, 76, 1200}

\* The words the search methods know.
Known == INSTANCE PacketAnalyzer WITH Packets <- {}, m <- packet

First == Known!HttpMethods \cup Known!SipMethods \cup Known!RtspMethods
           \cup {"HTTP/1.1", "SIP/2.0", "RTSP/1.0", "other"}
Second == {"sip:", "rtsp://", "other"}
Third == {"HTTP/1.1", "SIP/2.0", "RTSP/1.0", "other"}

\* What ends in its second word has no third one.
TextPayloads ==
  {p \in [kind : {"text"}, surplus : Surplus, first : First,
          second : Second \cup {"cut"}, third : Third \cup {"cut"}] :
     p.second = "cut" => p.third = "cut"}

BinaryPayloads ==
  [kind : {"binary"}, surplus : Surplus, version : 0 .. 3,
   extension : BOOLEAN, csrc_count : {0, 1, 15}, payload_type : {34, 35, 96},
   ssrc : {0, 1}, words : {0, 1, 16384}]

MCPayloads ==
  TextPayloads \cup BinaryPayloads \cup [kind : {"none"}, surplus : {-34, -1}]

Text(first, second, third) ==
  [kind |-> "text", surplus |-> 1200, first |-> first, second |-> second,
   third |-> third]

MCStale ==
  {Text("GET", "other", "HTTP/1.1"), Text("OPTIONS", "sip:", "SIP/2.0"),
   Text("SETUP", "rtsp://", "RTSP/1.0"), Text("other", "other", "other"),
   [kind |-> "binary", surplus |-> 76, version |-> 2, extension |-> TRUE,
    csrc_count |-> 15, payload_type |-> 34, ssrc |-> 1, words |-> 0]}

Frame(tags) == [tags |-> tags, type |-> "0800", proto |-> "UDP"]

\* As many tags as l2_len can count, and one more.
ManyTags == {Frame([n \in 1 .. k |-> <<"8100", "r1">>]) : k \in {28, 29}}

FewTags ==
  [tags : BoundedSeq(MCReceivedTags, 2), type : EtherTypes,
   proto : {"TCP", "UDP", "ICMP"}]

MCReceived == FewTags \cup ManyTags

\* Every payload in a frame without tags, in one with two and in those with
\* many, without a rule; every frame with one payload and any pushes.
MCInit ==
  /\ \/ /\ payload \in MCPayloads
        /\ frame \in {Frame(<< >>), Frame(<< <<"88a8", "r2">>, <<"8100", "r1">> >>)}
        /\ room = 0
        /\ ruled = FALSE
     \/ /\ payload \in MCStale
        /\ frame \in ManyTags
        /\ room = 0
        /\ ruled = FALSE
     \/ /\ payload = Text("GET", "other", "HTTP/1.1")
        /\ ruled = TRUE
  /\ PInit

MCSpec == MCInit /\ [][PNext]_pvars
=============================================================================
