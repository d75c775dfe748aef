------------------------------- MODULE Config -------------------------------
(***************************************************************************)
(* Config::Initialize: the configuration file becomes rules_, line by      *)
(* line, or is refused.                                                    *)
(*                                                                         *)
(* A line is abstracted to what the parser asks of it, once its spaces are *)
(* erased.  A number field is whether std::stoul converts all of it to an  *)
(* unsigned long, and the number: stoul accepts a minus sign and negates   *)
(* modulo 2^64, so that narrowing to w bits is % 2^w for any integer.  An  *)
(* action text is what precedes one ";": the keywords that occur in it,    *)
(* whether it starts with the one the parser picks and ends with ")", and  *)
(* the fields in between.  What follows the last ";" is never looked at.   *)
(***************************************************************************)
EXTENDS Rules

CONSTANT Files    \* the files considered, as sequences of lines

Keywords == {"DROP", "PUSH-VLAN(", "PUSH-MPLS(", "OUTPUT("}

Fields == [ok : BOOLEAN, value : Int]

Texts == [names : SUBSET Keywords, exact : BOOLEAN, args : Seq(Fields)]

\* Whether there is a ":", a "," before it, and text after the last ";".
Lines == [colon : BOOLEAN, comma : BOOLEAN, port : Fields, protocol : STRING,
          texts : Seq(Texts), rest : BOOLEAN]

IsLine(line) == line \in Lines

\* What the constants satisfy; rte_eth_dev_count() is a uint8_t.
ConfigAssumption ==
  /\ NbPorts <= 255
  /\ \A f \in Files : \A n \in DOMAIN f : IsLine(f[n])

VARIABLES
  phase,         \* "closed", "reading", "accepted" or "rejected"
  unread,        \* the lines still to be read
  file,          \* history: the lines read so far
  line_counter,  \* a uint16_t
  rules_         \* from rule keys to lists of actions

vars == <<phase, unread, file, line_counter, rules_>>

-----------------------------------------------------------------------------
(* The numbers of PUSH-VLAN, PUSH-MPLS and OUTPUT. *)

PortIdIsValid(field) == field.ok /\ field.value \in 1 .. NbPorts

AllNumbers(args) == \A i \in DOMAIN args : args[i].ok

\* The field as a variable of the given width holds it.
Narrowed(field, bits) == field.value % 2^bits

\* A 32-bit word as the two halves the network sees, the first one first.
Word(kind, high, low) == [kind |-> kind, high |-> high, low |-> low]

VlanAccepted(args) ==
  /\ Len(args) = 4
  /\ AllNumbers(args)
  /\ Narrowed(args[1], 16) \in {33024, 34984}   \* 0x8100, 0x88a8
  /\ Narrowed(args[2], 8) <= 7
  /\ Narrowed(args[3], 8) <= 1
  /\ Narrowed(args[4], 16) \in 1 .. 4094

\* Mutant: pcp starts where cfi does.
VlanTagOverlapping(args) ==
  Word("vlan", Narrowed(args[1], 16),
       2^12 * Narrowed(args[2], 8) + 2^12 * Narrowed(args[3], 8)
         + Narrowed(args[4], 16))

VlanTag(args) ==
  Word("vlan", Narrowed(args[1], 16),
       2^13 * Narrowed(args[2], 8) + 2^12 * Narrowed(args[3], 8)
         + Narrowed(args[4], 16))

MplsAccepted(args) ==
  /\ Len(args) = 4
  /\ AllNumbers(args)
  /\ Narrowed(args[2], 8) <= 7
  /\ Narrowed(args[3], 8) <= 1

\* label << 12 keeps the low 20 bits of the label.
MplsLabel(args) ==
  LET label == Narrowed(args[1], 20)
  IN Word("mpls", label \div 2^4,
          2^12 * (label % 2^4) + 2^9 * Narrowed(args[2], 8)
            + 2^8 * Narrowed(args[3], 8) + Narrowed(args[4], 8))

-----------------------------------------------------------------------------
(* Config::ParseActions. *)

\* The order of the tests: a text with DROP in it is a DROP.
Keyword(text) ==
  IF "DROP" \in text.names THEN "DROP"
  ELSE IF "PUSH-VLAN(" \in text.names THEN "PUSH-VLAN("
  ELSE IF "PUSH-MPLS(" \in text.names THEN "PUSH-MPLS("
  ELSE IF "OUTPUT(" \in text.names THEN "OUTPUT("
  ELSE "unknown"

TextAccepted(text) ==
  \/ Keyword(text) = "DROP"
  \/ Keyword(text) = "PUSH-VLAN(" /\ text.exact /\ VlanAccepted(text.args)
  \/ Keyword(text) = "PUSH-MPLS(" /\ text.exact /\ MplsAccepted(text.args)
  \/ /\ Keyword(text) = "OUTPUT("
     /\ text.exact
     /\ Len(text.args) = 1
     /\ PortIdIsValid(text.args[1])

Action(text) ==
  IF Keyword(text) = "DROP" THEN DROP
  ELSE IF Keyword(text) = "PUSH-VLAN(" THEN PUSH(VlanTag(text.args))
  ELSE IF Keyword(text) = "PUSH-MPLS(" THEN PUSH(MplsLabel(text.args))
  ELSE OUTPUT(text.args[1].value - 1)

\* The loop breaks after the first DROP, wherever it is.
Parsed(texts) ==
  {i \in DOMAIN texts : \A j \in 1 .. i - 1 : Keyword(texts[j]) # "DROP"}

Actions(texts) == [i \in Parsed(texts) |-> Action(texts[i])]

\* Mutant: the first two actions are in order.
ActionsAcceptedUnordered(texts) ==
  /\ \A i \in Parsed(texts) : TextAccepted(texts[i])
  /\ Actions(texts) # << >>
  /\ \A i \in DOMAIN Actions(texts) \ {1, 2} :
       Priority(Actions(texts)[i - 1]) <= Priority(Actions(texts)[i])

ActionsAccepted(texts) ==
  /\ \A i \in Parsed(texts) : TextAccepted(texts[i])
  /\ Actions(texts) # << >>
  /\ \A i \in DOMAIN Actions(texts) \ {1} :
       Priority(Actions(texts)[i - 1]) <= Priority(Actions(texts)[i])

\* The labels the texts of a line push.
Labels(line) ==
  {Action(line.texts[i]).tag :
     i \in {i \in DOMAIN line.texts : /\ TextAccepted(line.texts[i])
                                     /\ IsPush(Action(line.texts[i]))}}

-----------------------------------------------------------------------------
(* Config::ParsePortAndProtocol, Initialize and GetActions. *)

\* The values of protocol_type.
Code == [HTTP |-> 0, SIP |-> 1, RTP |-> 2, RTSP |-> 3, UNKNOWN |-> 4]

RuleKey(port, protocol) == port + 2^8 * Code[protocol]

KeyAccepted(line) ==
  line.comma /\ PortIdIsValid(line.port) /\ line.protocol \in Protocols

KeyOf(line) == RuleKey(line.port.value - 1, line.protocol)

\* Mutant: a second line for a key replaces the first.
LineAcceptedTwice(line) ==
  /\ line.colon
  /\ KeyAccepted(line)
  /\ ActionsAccepted(line.texts)

LineAccepted(line) ==
  /\ line.colon
  /\ KeyAccepted(line)
  /\ KeyOf(line) \notin DOMAIN rules_
  /\ ActionsAccepted(line.texts)

GetActions(port, protocol) ==
  IF RuleKey(port, protocol) \in DOMAIN rules_
  THEN rules_[RuleKey(port, protocol)] ELSE << >>

Init ==
  /\ phase = "closed"
  /\ unread \in Files
  /\ file = << >>
  /\ line_counter = 1
  /\ rules_ = << >>

Open ==
  /\ phase = "closed"
  /\ phase' \in {"reading", "rejected"}
  /\ UNCHANGED <<unread, file, line_counter, rules_>>

\* std::getline: the line is read whatever becomes of it.
ReadLine ==
  /\ phase = "reading"
  /\ unread # << >>
  /\ unread' = Tail(unread)
  /\ file' = Append(file, Head(unread))

AcceptLine ==
  /\ ReadLine
  /\ LineAccepted(Head(unread))
  /\ LET key == KeyOf(Head(unread))
     IN rules_' = [k \in DOMAIN rules_ \cup {key} |->
                     IF k = key THEN Actions(Head(unread).texts) ELSE rules_[k]]
  /\ line_counter' = (line_counter + 1) % 2^16
  /\ UNCHANGED phase

RejectLine ==
  /\ ReadLine
  /\ ~LineAccepted(Head(unread))
  /\ phase' = "rejected"
  /\ UNCHANGED <<line_counter, rules_>>

EndOfFile ==
  /\ phase = "reading"
  /\ unread = << >>
  /\ phase' = "accepted"
  /\ UNCHANGED <<unread, file, line_counter, rules_>>

Next == Open \/ AcceptLine \/ RejectLine \/ EndOfFile

Spec == Init /\ [][Next]_vars

-----------------------------------------------------------------------------
(* Correctness. *)

\* rules_ as a table from ports and protocols to actions.
Table ==
  [k \in {k \in Keys : RuleKey(k[1], k[2]) \in DOMAIN rules_} |->
     rules_[RuleKey(k[1], k[2])]]

\* What the data plane assumes of the rules it is given: every list is
\* well formed and names existing ports only.
TableWellFormed == IsRuleTable(Table)

\* Each line of an accepted file is the one rule of its port and protocol:
\* no line is shadowed by another, none is under the key of another, and
\* there is no rule the file does not state.  The line the error message
\* names is the line refused: each line read before it has a key of its own,
\* so that the 16-bit counter never wraps.
TableIsFile ==
  /\ line_counter = IF phase = "rejected" /\ file # << >> THEN Len(file)
                                                       ELSE Len(file) + 1
  /\ line_counter <= 5 * NbPorts + 1
  /\ phase = "accepted" =>
       /\ \A i \in DOMAIN file :
            LET port == file[i].port.value - 1
            IN GetActions(port, file[i].protocol) = Actions(file[i].texts)
       /\ \A k \in Keys : GetActions(k[1], k[2]) # << >> =>
            \E i \in DOMAIN file : /\ file[i].port.value = k[1] + 1
                                   /\ file[i].protocol = k[2]

\* The fields of a word, as IEEE 802.1Q and RFC 3032 place them.
VlanFields(word) == <<word.high, word.low \div 2^13, (word.low \div 2^12) % 2,
                      word.low % 2^12>>
MplsFields(word) == <<word.high * 2^4 + word.low \div 2^12,
                      (word.low \div 2^9) % 8, (word.low \div 2^8) % 2,
                      word.low % 2^8>>

Decoded(word) ==
  IF word.kind = "vlan" THEN VlanFields(word) ELSE MplsFields(word)

\* The pushes of the line, as pairs of the arguments and the word made of
\* them.
Pushes(line) ==
  {<<line.texts[i].args, Actions(line.texts)[i].tag>> :
     i \in {i \in DOMAIN Actions(line.texts) :
              IsPush(Actions(line.texts)[i])}}

\* Whatever an accepted line says, the fields of the word pushed do not
\* disturb each other: reading them back gives the numbers of the line, up
\* to the width of the field.
WordsExact ==
  phase = "accepted" =>
    \A i \in DOMAIN file : \A push \in Pushes(file[i]) :
      LET width == IF push[2].kind = "vlan" THEN <<16, 3, 1, 12>>
                                            ELSE <<20, 3, 1, 8>>
      IN \A f \in 1 .. 4 :
           Decoded(push[2])[f] = Narrowed(push[1][f], width[f])
=============================================================================
