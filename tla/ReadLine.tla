------------------------------ MODULE ReadLine ------------------------------
(***************************************************************************)
(* CmdLine of common/readline.cc, the first version of the line editor: no *)
(* cursor inside the line, and a history that is entered from its end.  A  *)
(* key is an action, readLine on it; what main prints of a line that was   *)
(* read is part of the action.  main ends at a line of its choice, which   *)
(* is to stop taking steps.                                                *)
(*                                                                         *)
(* HintCompare takes a command and its beginnings for equal, so that the   *)
(* set keeps no two commands one of which begins with the other.           *)
(***************************************************************************)
EXTENDS Terminal, SequencesExt

CONSTANTS
  Chars,        \* the characters typed
  Prompt,       \* the prompt
  hints,        \* the commands in the set, in its order
  MaxLen,       \* bound of the model: characters of a line
  MaxHistory    \* bound of the model: entries of the history

Equal(a, b) == IsPrefix(a, b) \/ IsPrefix(b, a)

\* What the constants satisfy.
ReadLineAssumption ==
  /\ Chars \subseteq Characters
  /\ Prompt \in Text
  /\ hints \in Seq(Text)
  /\ \A m, n \in DOMAIN hints : Equal(hints[m], hints[n]) => m = n
  /\ {MaxLen, MaxHistory} \subseteq Nat

VARIABLES
  history,     \* the lines read
  curr,        \* the entry Up shows next; 0 is an iterator that has not been
               \* set, or that points into memory the vector has given back
  cmd,         \* the line being edited
  front,       \* history: what is in front of the line, the prompt or nothing
  terminal     \* the terminal

vars == <<history, curr, cmd, front, terminal>>

Init ==
  /\ history = << >> /\ curr = 0
  /\ cmd = << >>
  /\ front = Prompt
  /\ terminal = write(NewRow, Prompt)

-----------------------------------------------------------------------------

clearLine == backSpace(terminal, Len(cmd))

\* Mutant: the line is replaced before it is cleared.
ReplaceAndClear(s) ==
  /\ terminal' = write(backSpace(terminal, Len(s)), s)
  /\ cmd' = s

Show(s) ==
  /\ terminal' = write(clearLine, s)
  /\ cmd' = s

Nothing == UNCHANGED <<cmd, terminal>>

\* Mutant: the iterator is set by the first line only.
CurrIfFirst(kept) == IF history = << >> THEN 1 ELSE kept

\* The iterator after push_back, whatever it was.
CurrAfter(kept) == Len(history) + 1

\* The prompt is written for an empty line; of another one main prints the
\* text on a row of its own, and no prompt follows.  push_back may move the
\* vector, after which the iterator points nowhere.
Enter ==
  /\ IF cmd = << >>
     THEN /\ front' = Prompt
          /\ UNCHANGED <<history, curr>>
     ELSE /\ Len(history) < MaxHistory
          /\ history' = Append(history, cmd)
          /\ \E kept \in {curr, 0} : curr' = CurrAfter(kept)
          /\ front' = << >>
  /\ cmd' = << >>
  /\ terminal' = write(NewRow, front')

\* The first command of the set that equals the line.  A line that goes on
\* behind a command is cut back to it.
Tab ==
  /\ LET equal == {n \in DOMAIN hints : Equal(cmd, hints[n])}
     IN IF equal = {} THEN Nothing ELSE Show(hints[Min(equal)])
  /\ UNCHANGED <<history, curr, front>>

Backspace ==
  /\ IF cmd = << >> THEN Nothing
     ELSE /\ cmd' = Front(cmd)
          /\ terminal' = backSpace(terminal, 1)
  /\ UNCHANGED <<history, curr, front>>

\* The entry is shown, and then curr goes on to the one before.
Up ==
  /\ history # << >>
  /\ Show(history[curr])
  /\ curr' = IF curr = 1 THEN 1 ELSE curr - 1
  /\ UNCHANGED <<history, front>>

\* curr goes on first, so that Down after Up shows the same entry again.
Down ==
  /\ history # << >>
  /\ IF curr = Len(history) THEN UNCHANGED <<curr, cmd, terminal>>
     ELSE /\ curr' = curr + 1
          /\ Show(history[curr'])
  /\ UNCHANGED <<history, front>>

Type(c) ==
  /\ Len(cmd) < MaxLen
  /\ terminal' = write(terminal, <<c>>)
  /\ cmd' = Append(cmd, c)
  /\ UNCHANGED <<history, curr, front>>

Next == \/ Enter \/ Tab \/ Backspace \/ Up \/ Down
        \/ \E c \in Chars : Type(c)

Spec == Init /\ [][Next]_vars

-----------------------------------------------------------------------------
(* Correctness. *)

\* Whatever is typed, erased, completed or fetched from the history: the row
\* shows the line behind what was there before it, and nothing else, with the
\* cursor at the end of the line; and the iterator that the next key follows
\* into the history points to an entry, although every line read may have
\* moved the vector.
RowShowsLine ==
  /\ Shows(terminal, front \o cmd)
  /\ terminal.col = Len(front \o cmd)
  /\ history # << >> => curr \in DOMAIN history
=============================================================================
