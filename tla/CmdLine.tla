------------------------------ MODULE CmdLine ------------------------------
(***************************************************************************)
(* CmdLine of common/cmdline.cpp: a line editor with a history and the     *)
(* completion of commands.  A key is an action, readLine on it; the line   *)
(* read is what the caller gets at the end of a line, and the caller's     *)
(* prompt (cmdline_test.cc) is part of that action.                        *)
(*                                                                         *)
(* readLine does not look at how many bytes it has read: at the end of     *)
(* input it handles the last key once more, and of an escape sequence cut  *)
(* short the missing byte is any; both are keys that can be pressed at any *)
(* time anyway.                                                            *)
(***************************************************************************)
EXTENDS Terminal, SequencesExt

CONSTANTS
  Chars,        \* the characters typed
  Prompt,       \* the prompt
  Help,         \* the first entry of the history
  hints,        \* the commands that can be completed, in the order added
  MaxLen,       \* bound of the model: characters of a line
  MaxHistory    \* bound of the model: entries of the history

ASSUME CmdLineAssumption ==
  /\ Chars \subseteq Characters
  /\ {Prompt, Help} \subseteq Text
  /\ hints \in Seq(Text)
  /\ Help # << >>
  /\ \A m, n \in DOMAIN hints : hints[m] = hints[n] => m = n
  /\ {MaxLen, MaxHistory} \subseteq Nat

VARIABLES
  history,       \* the lines read
  curr,          \* the entry shown; one past the last when none is
  cmd,           \* the line being edited
  cmd_buffer,    \* what was typed last, for the way back from the history
  m_index,       \* where the next character goes
  last_tab,      \* last_key is TAB; not initialised
  terminal       \* the row of the cursor and the cursor's column

vars == <<history, curr, cmd, cmd_buffer, m_index, last_tab, terminal>>

-----------------------------------------------------------------------------
(* Output. *)

\* Mutant: what is to the right of the cursor stays.
clearLeftOnly == backSpace(terminal, m_index)

clearLine ==
  LET right == Len(cmd) - m_index
  IN backSpace(Left(Space(terminal, right), right), m_index)

NewLine == write(NewRow, Prompt)

\* The line becomes s, with the cursor behind it.
Show(s) ==
  /\ terminal' = write(clearLine, s)
  /\ cmd' = s
  /\ m_index' = Len(s)

Init ==
  /\ history = <<Help>>
  /\ curr = 2
  /\ cmd = << >> /\ cmd_buffer = << >> /\ m_index = 0
  /\ last_tab \in BOOLEAN
  /\ terminal = NewLine

-----------------------------------------------------------------------------
(* compareHints. *)

HasBlank(s) == Blank \in Range(s)

\* have_space is set by a hint with a blank and never reset.
have_space(n) == \E k \in 1 .. n : HasBlank(hints[k])

Extends(n) == Len(hints[n]) > Len(cmd) /\ IsPrefix(cmd, hints[n])

common ==
  IF cmd = << >> THEN {}
  ELSE {n \in DOMAIN hints : Extends(n) /\ (HasBlank(cmd) \/ ~have_space(n))}

\* The longest line all the matches begin with.
CommonPrefix == LongestCommonPrefix({hints[n] : n \in common})

-----------------------------------------------------------------------------
(* The keys. *)

Trimmed(s) ==
  LET inner == {n \in DOMAIN s : s[n] # Blank}
  IN IF inner = {} THEN << >> ELSE SubSeq(s, Min(inner), Max(inner))

\* Mutant: a line read twice is in the history twice.
EnterTwice ==
  LET line == Trimmed(cmd)
  IN /\ history' = IF line = << >> THEN history ELSE Append(history, line)
     /\ Len(history') <= MaxHistory
     /\ curr' = IF line = << >> THEN curr ELSE Len(history') + 1
     /\ cmd' = << >> /\ cmd_buffer' = << >> /\ m_index' = 0
     /\ last_tab' = FALSE
     /\ terminal' = NewLine

\* An empty line leaves the place in the history.
Enter ==
  LET line == Trimmed(cmd)
  IN /\ history' = IF line \in {<< >>, Last(history)} THEN history
                   ELSE Append(history, line)
     /\ Len(history') <= MaxHistory
     /\ curr' = IF line = << >> THEN curr ELSE Len(history') + 1
     /\ cmd' = << >> /\ cmd_buffer' = << >> /\ m_index' = 0
     /\ last_tab' = FALSE
     /\ terminal' = NewLine

\* The only match, with a blank behind it.
Complete ==
  /\ Cardinality(common) = 1
  /\ \E n \in common : Show(Append(hints[n], Blank))

\* Mutant: the list is followed by the common beginning alone.
ListForgetting ==
  /\ Cardinality(common) > 1 /\ last_tab
  /\ cmd' = SubSeq(CommonPrefix, Len(cmd) + 1, Len(CommonPrefix))
  /\ m_index' = Len(cmd')
  /\ terminal' = write(NewLine, cmd')

\* The matches are listed, the second time TAB is pressed, on lines of their
\* own; below them the line, with what the matches have in common.
List ==
  /\ Cardinality(common) > 1 /\ last_tab
  /\ cmd' = CommonPrefix
  /\ m_index' = Len(cmd')
  /\ terminal' = write(NewLine, cmd')

Nothing == UNCHANGED <<cmd, m_index, terminal>>

Tab ==
  /\ \/ Complete
     \/ List
     \/ /\ Cardinality(common) # 1
        /\ ~(Cardinality(common) > 1 /\ last_tab)
        /\ Nothing
  /\ last_tab' = TRUE
  /\ UNCHANGED <<history, curr, cmd_buffer>>

Backspace ==
  /\ IF m_index > 0
     THEN /\ cmd' = RemoveAt(cmd, m_index)
          /\ m_index' = m_index - 1
          /\ terminal' = Left(write(clearLine, cmd'), Len(cmd) - m_index)
     ELSE Nothing
  /\ last_tab' = FALSE
  /\ UNCHANGED <<history, curr, cmd_buffer>>

\* An entry that is what the line shows already is passed over.
Up ==
  /\ curr' = IF curr = 1 THEN 1
             ELSE IF history[curr - 1] = cmd /\ curr > 2 THEN curr - 2
             ELSE curr - 1
  /\ Show(history[curr'])
  /\ last_tab' = FALSE
  /\ UNCHANGED <<history, cmd_buffer>>

Down ==
  /\ curr' = IF curr > Len(history) THEN curr ELSE curr + 1
  /\ IF curr < Len(history) THEN Show(history[curr'])
     ELSE IF curr = Len(history) /\ cmd_buffer # << >> THEN Show(cmd_buffer)
     ELSE Nothing
  /\ last_tab' = FALSE
  /\ UNCHANGED <<history, cmd_buffer>>

LeftKey ==
  /\ m_index' = IF m_index > 0 THEN m_index - 1 ELSE 0
  /\ terminal' = Left(terminal, m_index - m_index')
  /\ last_tab' = FALSE
  /\ UNCHANGED <<history, curr, cmd, cmd_buffer>>

RightKey ==
  /\ IF m_index < Len(cmd)
     THEN /\ m_index' = m_index + 1
          /\ terminal' = write(terminal, <<cmd[m_index + 1]>>)
     ELSE UNCHANGED <<m_index, terminal>>
  /\ last_tab' = FALSE
  /\ UNCHANGED <<history, curr, cmd, cmd_buffer>>

Type(c) ==
  /\ Len(cmd) < MaxLen
  /\ cmd' = InsertAt(cmd, m_index + 1, c)
  /\ cmd_buffer' = cmd'
  /\ m_index' = m_index + 1
  /\ terminal' = Left(write(clearLine, cmd'), Len(cmd) - m_index)
  /\ last_tab' = FALSE
  /\ UNCHANGED <<history, curr>>

Next == \/ Enter \/ Tab \/ Backspace \/ Up \/ Down \/ LeftKey \/ RightKey
        \/ \E c \in Chars : Type(c)

Spec == Init /\ [][Next]_vars

-----------------------------------------------------------------------------
(* Correctness. *)

\* Whatever is typed, erased, completed or fetched from the history, with
\* the cursor anywhere: the row shows the prompt and the line, nothing of
\* what was there before, and the cursor stands where the next character
\* will go.
ScreenShowsCommand ==
  /\ Shows(terminal, Prompt \o cmd)
  /\ m_index \in 0 .. Len(cmd)
  /\ terminal.col = Len(Prompt) + m_index

\* Going up in the history shows another line each time, until the first
\* entry, and the line shown is an entry: for that no entry may repeat the
\* one before it, and curr must be where the history is.
UpShowsAnother ==
  [][Up => cmd' \in Range(history) /\ (cmd' # cmd \/ curr' = 1)]_vars

\* TAB extends what was typed, and only by what some command goes on with.
TabExtends ==
  [][Tab => /\ IsPrefix(cmd, cmd')
            /\ cmd' # cmd => \E n \in DOMAIN hints :
                               IsPrefix(cmd', Append(hints[n], Blank))]_vars
=============================================================================
