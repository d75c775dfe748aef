----------------------------- MODULE EditConfig -----------------------------
(***************************************************************************)
(* common/edit_config.cc: the program that sets or deletes a key of a      *)
(* configuration file.  configReplace writes the changed file line by line *)
(* to a second one, which then takes the first one's name; configAppend    *)
(* adds a line at the end.  A run may be killed between any two calls of   *)
(* the system, and leaves the second file behind.  The disk may be full    *)
(* for a while: the program does not look at what fwrite and fclose return *)
(* and goes on, and what a buffer held that could not be written is lost.  *)
(*                                                                         *)
(* A line is what configReplace takes for one: it ends in a newline, in a  *)
(* byte 0xFF, which "char c" cannot tell from EOF, or with the file.  It   *)
(* is its key and its value; one without "=" has NoKey for a key.  A line  *)
(* that is written without an end is glued to the next; a key that this    *)
(* makes is none of Keys.  Left out are blanks around keys and values,     *)
(* empty keys, and two runs at the same time.  A call that fails and is    *)
(* looked at ends the run like a kill.                                     *)
(***************************************************************************)
EXTENDS Integers, Sequences, SequencesExt

CONSTANTS
  Keys,        \* the keys of lines with "="
  Values,      \* the values, and the texts of lines without "="
  NoKey,       \* the key of a line without "=": the empty string
  Files,       \* what the file may be before the first run
  MaxRuns      \* bound of the model: runs of the program

\* Among the Values no text is empty.
NoText == [key |-> NoKey, value |-> "blank"]

Lines == [text : [key : Keys \cup {NoKey}, value : Values] \cup {NoText},
          end : {"newline", "0xff", "none"}]

ASSUME EditConfigAssumption ==
  /\ NoKey \notin Keys /\ {"blank", "cut", "glued"} \cap Values = {}
  /\ Files \subseteq Seq(Lines)
  /\ \A lines \in Files : \A n \in DOMAIN lines :
       lines[n].end = "none" => n = Len(lines) /\ lines[n].text # NoText
  /\ MaxRuns \in Nat

Requests == [key : Keys, value : Values,
             mode : {"replace", "app", "del"}]

VARIABLES
  file,      \* the file named on the command line
  temp,      \* the file named .tmp
  pc,        \* where the program is
  request,   \* its arguments
  rest,      \* the lines fgetc has not come to
  timen,     \* the number of lines replaced
  short,     \* history: whether a write of the run failed
  before,    \* history: the file when the program began
  runs       \* the number of runs

vars == <<file, temp, pc, request, rest, timen, short, before, runs>>

BlankLine == [text |-> NoText, end |-> "newline"]

Init ==
  /\ file \in Files
  /\ temp = << >>
  /\ pc = "idle"
  /\ request \in Requests
  /\ rest = << >> /\ timen = 0 /\ before = file /\ runs = 0
  /\ short = FALSE

-----------------------------------------------------------------------------

\* The second file is truncated, whatever a killed run has left in it.
Begin ==
  /\ pc \in {"idle", "done"}
  /\ runs < MaxRuns
  /\ request' \in Requests
  /\ temp' = << >>
  /\ rest' = file
  /\ timen' = 0
  /\ short' = FALSE
  /\ before' = file
  /\ runs' = runs + 1
  /\ pc' = "copy"
  /\ UNCHANGED file

Replacing(line) == line.text.key = request.key

\* A line that is replaced gets a newline, whatever it ended with.
Replaced(line) ==
  IF request.mode = "del" THEN << >>
  ELSE <<[text |-> [key |-> line.text.key, value |-> request.value],
          end |-> "newline"]>>

\* Of another line all but a byte 0xFF is written, if there is anything.
Copied(line) ==
  IF line.end = "newline" THEN <<line>>
  ELSE IF line.text = NoText THEN << >>
  ELSE <<[text |-> line.text, end |-> "none"]>>

\* Mutant: a line without a key counts as one with the key last found.
WrittenStale(line) ==
  IF Replacing(line) \/ (line.text.key = NoKey /\ timen > 0) THEN Replaced(line)
  ELSE Copied(line)

\* Mutant: only the first line of the key is replaced.
WrittenOnce(line) ==
  IF Replacing(line) /\ timen = 0 THEN Replaced(line) ELSE Copied(line)

\* What is written for a line.
Written(line) == IF Replacing(line) THEN Replaced(line) ELSE Copied(line)

Glued(first, second) ==
  [text |-> IF second.text = NoText THEN first.text
            ELSE [key |-> first.text.key, value |-> "glued"],
   end |-> second.end]

\* A file once a line, or nothing, is written at its end.
Put(lines, written) ==
  IF written = << >> THEN lines
  ELSE IF lines # << >> /\ Last(lines).end = "none"
    THEN Append(Front(lines), Glued(Last(lines), written[1]))
  ELSE Append(lines, written[1])

CopyLine ==
  /\ pc = "copy"
  /\ rest # << >>
  /\ temp' = Put(temp, Written(Head(rest)))
  /\ timen' = IF Replacing(Head(rest)) THEN timen + 1 ELSE timen
  /\ rest' = Tail(rest)
  /\ UNCHANGED <<file, pc, request, short, before, runs>>

\* What may be left of a line that is written when the disk is full: any part
\* of its text, with its end or without.
Parts(line) ==
  {<< >>, <<line>>}
    \cup (IF line = BlankLine THEN {}
          ELSE {<<cut>> : cut \in
                  [text : {line.text} \cup [key : Keys \cup {NoKey}, value : {"cut"}],
                   end : {"none", line.end}]})
    \cup (IF line.end = "newline" THEN {<<BlankLine>>} ELSE {})

\* Which lines these are shows when their buffer is written.
CopyLineShort ==
  /\ pc = "copy"
  /\ rest # << >>
  /\ LET written == Written(Head(rest))
     IN written # << >> /\ \E part \in Parts(written[1]) : temp' = Put(temp, part)
  /\ timen' = IF Replacing(Head(rest)) THEN timen + 1 ELSE timen
  /\ rest' = Tail(rest)
  /\ short' = TRUE
  /\ UNCHANGED <<file, pc, request, before, runs>>

Rename ==
  /\ pc = "copy"
  /\ rest = << >>
  /\ file' = temp
  /\ temp' = << >>
  /\ pc' = IF timen = 0 /\ request.mode = "app" THEN "append" ELSE "done"
  /\ UNCHANGED <<request, rest, timen, short, before, runs>>

\* One fwrite: a newline first unless the last character is one, none after.
\* An empty file has no last character.
NewLined ==
  IF file # << >> /\ Last(file).end = "newline" THEN file
  ELSE Put(file, <<BlankLine>>)

Line == [text |-> [key |-> request.key, value |-> request.value],
         end |-> "none"]

configAppend ==
  /\ pc = "append"
  /\ file' = Put(NewLined, <<Line>>)
  /\ pc' = "done"
  /\ UNCHANGED <<temp, request, rest, timen, short, before, runs>>

\* The same with too little room, some of which the rename may have freed.
configAppendShort ==
  /\ pc = "append"
  /\ file' \in {file} \cup {Put(NewLined, part) : part \in Parts(Line)}
  /\ short' = TRUE
  /\ pc' = "done"
  /\ UNCHANGED <<temp, request, rest, timen, before, runs>>

Killed ==
  /\ pc \in {"copy", "append"}
  /\ pc' = "idle"
  /\ UNCHANGED <<file, temp, request, rest, timen, short, before, runs>>

Next == Begin \/ CopyLine \/ CopyLineShort \/ Rename \/ configAppend
        \/ configAppendShort \/ Killed

Spec == Init /\ [][Next]_vars

-----------------------------------------------------------------------------
(* Correctness. *)

\* The texts a line may come to have.
AnyText == [key : Keys \cup {NoKey},
            value : Values \cup {"blank", "cut", "glued"}]

Others == {text \in AnyText : text.key # request.key /\ text # NoText}

WholeOthers == {text \in Others : text.value \notin {"cut", "glued"}}

\* The texts of lines that are among some, in their order.
Among(lines, some) ==
  LET among[n \in 0 .. Len(lines)] ==
        IF n = 0 THEN << >>
        ELSE IF lines[n].text \in some THEN Append(among[n - 1], lines[n].text)
        ELSE among[n - 1]
  IN among[Len(lines)]

\* One sequence is another with some elements left out.
LeftOf(s, t) ==
  \E place \in [DOMAIN s -> DOMAIN t] :
    /\ \A i \in DOMAIN s : s[i] = t[place[i]]
    /\ \A i, j \in DOMAIN s : i < j => place[i] < place[j]

Clean(lines) == \A n \in DOMAIN lines : lines[n].end # "0xff"

\* Every other line of the file is as it was, in its place among the others,
\* whether the run has ended, goes on, or was killed: no line is lost with
\* the second file or glued to the one appended, whatever earlier runs that
\* were killed or cut short have left.  When the disk is full in the run, or
\* a byte 0xFF was in the file, lines are lost, cut or glued anywhere, but
\* the whole ones are still those of before, each once and in their order.
OthersKept ==
  IF short \/ ~Clean(before)
    THEN LeftOf(Among(file, WholeOthers), Among(before, WholeOthers))
  ELSE Among(file, Others) = Among(before, Others)

\* A run that ends with every write made has done what it was asked: deleted
\* every line of the key, or given all of them its value, and with "app"
\* there is one, unless it was glued behind what a byte 0xFF had ended.
KeyIsSet ==
  pc = "done" /\ ~short =>
    LET with == {n \in DOMAIN file : Replacing(file[n])}
    IN /\ request.mode = "del" => with = {}
       /\ \A n \in with : file[n].text.value = request.value
       /\ request.mode = "app" /\ Clean(before) => with # {}
=============================================================================
