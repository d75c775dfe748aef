----------------------------- MODULE MCStartup -----------------------------
(***************************************************************************)
(* Start-ups for checking Startup: every machine with a few files and      *)
(* command lines, and a few machines with every file.                      *)
(*                                                                         *)
(* The files have numbers at and beyond each limit, keywords in and out of *)
(* place, and every way of being refused.                                  *)
(***************************************************************************)
EXTENDS Startup, SequencesExt

Word(kind, high, low) == [kind |-> kind, high |-> high, low |-> low]

MCTags ==
  {Word("vlan", tpid, 2^13 * pcp + 2^12 * cfi + vid) :
     tpid \in {33024, 34984}, pcp \in 0 .. 7, cfi \in 0 .. 1,
     vid \in {1, 100, 4094}}
    \cup {Word("mpls", label \div 2^4, 2^12 * (label % 2^4) + 2^9 * exp
                                         + 2^8 * bos + ttl) :
            label \in {0, 15, 17, 100, 1048575}, exp \in {0, 3, 7},
            bos \in 0 .. 1, ttl \in {0, 64, 255}}

Number(n) == [ok |-> TRUE, value |-> n]
NotANumber == [ok |-> FALSE, value |-> 0]

Text(keywords, exact, fields) ==
  [names |-> keywords, exact |-> exact, args |-> fields]
Output(n) == Text({"OUTPUT("}, TRUE, <<Number(n)>>)
Drop == Text({"DROP"}, FALSE, << >>)
Vlan(tpid, pcp, cfi, vid) ==
  Text({"PUSH-VLAN("}, TRUE,
       <<Number(tpid), Number(pcp), Number(cfi), Number(vid)>>)
Mpls(label, exp, bos, ttl) ==
  Text({"PUSH-MPLS("}, TRUE,
       <<Number(label), Number(exp), Number(bos), Number(ttl)>>)

Rule(port, protocol, texts) ==
  [colon |-> TRUE, comma |-> TRUE, port |-> Number(port),
   protocol |-> protocol, texts |-> texts, rest |-> FALSE]

Plain == Rule(1, "HTTP", <<Output(2)>>)

\* Texts that are refused or read otherwise than they look.
OddTexts ==
  {Text({}, FALSE, << >>),
   Text({"DROP", "OUTPUT("}, TRUE, <<Number(1)>>),
   Text({"OUTPUT("}, FALSE, <<Number(1)>>),
   Text({"OUTPUT("}, TRUE, <<NotANumber>>),
   Text({"OUTPUT("}, TRUE, <<Number(1), Number(2)>>),
   Text({"PUSH-VLAN(", "OUTPUT("}, FALSE, << >>),
   Text({"PUSH-VLAN("}, TRUE, <<Number(33024), Number(0), Number(0)>>),
   Text({"PUSH-MPLS("}, TRUE, <<Number(1), NotANumber, Number(1), Number(1)>>),
   Text({"PUSH-MPLS("}, TRUE, <<Number(1), Number(1), Number(1)>>),
   Output(0), Output(3), Output(-1)}

VlanTexts ==
  {Vlan(tpid, pcp, cfi, vid) :
     tpid \in {33024, 34984, 98560, 2048}, pcp \in {0, 7, 8, 263},
     cfi \in {0, 1, 2, 257}, vid \in {0, 1, 4094, 4095, 65537, -65535}}
MplsTexts ==
  {Mpls(label, exp, bos, ttl) :
     label \in {0, 15, 1048575, 1048576, 1048593}, exp \in {0, 7, 8, 256},
     bos \in {0, 1, 2}, ttl \in {0, 64, 255, 256}}

\* One line files: every limit of every number.
NumberLines ==
  {Rule(1, "HTTP", <<t, Output(2)>>) : t \in VlanTexts \cup MplsTexts}
    \cup {Rule(1, "HTTP", <<t>>) : t \in OddTexts}

\* Lines that compete for keys, in every order of actions.
Tag == Vlan(33024, 3, 1, 100)
Label == Mpls(100, 3, 1, 64)
ShapeLines ==
  {Rule(port, protocol, texts) :
     port \in {0, 1, 2, 3, 257}, protocol \in {"HTTP", "SIP", "FTP"},
     texts \in {<<Output(2)>>, <<Output(1), Output(2)>>, << >>,
                <<Tag, Label, Tag, Output(1)>>, <<Output(1), Tag>>,
                <<Tag, Output(2), Label>>, <<Drop>>, <<Tag, Drop>>,
                <<Drop, Output(3)>>, <<Tag>>}}
    \cup {[Plain EXCEPT !.colon = FALSE], [Plain EXCEPT !.comma = FALSE],
          [Plain EXCEPT !.port = NotANumber], [Plain EXCEPT !.rest = TRUE]}

Protocols == <<"HTTP", "SIP", "RTP", "RTSP", "UNKNOWN">>

\* Every pair of lines for the same or different keys.
AcceptedShapes ==
  {Rule(port, protocol, texts) :
     port \in {1, 2}, protocol \in ToSet(Protocols),
     texts \in {<<Output(2)>>, <<Tag, Label, Tag, Output(1)>>, <<Drop>>}}

\* A line for each key, and then a second one for the last key.
KeyLines ==
  [n \in 1 .. 11 |-> Rule(IF n <= 5 THEN 1 ELSE 2,
                          Protocols[IF n = 11 THEN 5 ELSE 1 + ((n - 1) % 5)],
                          <<Output(1)>>)]

\* Files of one line; files of up to three lines; one of a line for each key
\* and one more.
MCFiles ==
  {<<line>> : line \in NumberLines \cup ShapeLines}
    \cup {<<Rule(1, "HTTP", <<Output(2)>>), Rule(2, "HTTP", <<Drop>>), line>> :
           line \in ShapeLines}
    \cup {<<line, other>> : line, other \in AcceptedShapes}
    \cup {KeyLines}

\* Two files on a disk: one has a rule, the other varies.
Disk(f) == [a |-> <<Rule(1, "SIP", <<Output(1)>>)>>, b |-> f]

MCDisks == {Disk(f) : f \in MCFiles \cup {<< >>, <<Plain>>}}

ConfigOption(name) == [kind |-> "config", name |-> name]
IntervalOption(field) ==
  [kind |-> "stats-interval", ok |-> field.ok, value |-> field.value]

Usual == <<ConfigOption("b")>>

\* Options left out, repeated, unknown, out of order, with numbers that do not
\* fit 16 bits or are none, and a file that is not there.
MCArgvs ==
  {Usual, << >>, <<ConfigOption("a"), ConfigOption("c")>>,
   <<ConfigOption("a"), ConfigOption("b"), IntervalOption(Number(5))>>,
   <<IntervalOption(Number(65538)), ConfigOption("b"), IntervalOption(Number(65535)),
     [kind |-> "other"]>>,
   <<IntervalOption(Number(5)), [kind |-> "other"], ConfigOption("a"),
     IntervalOption(Number(65538))>>,
   <<ConfigOption("a"), IntervalOption(NotANumber), ConfigOption("b")>>}

OneMachine ==
  [enabled |-> Lcores, master |-> 0, socket |-> [l \in Lcores |-> 0],
   nb_ports |-> 2]

\* Every machine, some files; every file, some machines.
MCInit ==
  /\ \/ /\ machine \in Machines
        /\ disk \in {Disk(<< >>), Disk(<<Plain>>)}
        /\ argv = Usual
     \/ /\ machine = OneMachine
        /\ disk \in MCDisks
        /\ argv = Usual
     \/ /\ machine \in {[OneMachine EXCEPT !.nb_ports = n] : n \in 0 .. MaxPorts}
        /\ disk = Disk(<<Plain>>)
        /\ argv \in MCArgvs
  /\ Start

MCSpec == MCInit /\ [][SNext]_svars
=============================================================================
