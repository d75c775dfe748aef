----------------------------- MODULE MCCmdLine -----------------------------
(***************************************************************************)
(* One of the two line editors, the keys of which are pressed: CmdLine of  *)
(* cmdline.cpp or the one of readline.cc.  "h" stands for the entry "help" *)
(* of the history.                                                         *)
(***************************************************************************)
EXTENDS CmdLine

CONSTANT first_hints    \* the commands of the editor of readline.cc

VARIABLES
  editor,               \* the editor that runs, "cmdline" or "readline"
  first_history, first_curr, first_cmd, first_front, first_terminal

First ==
  INSTANCE ReadLine WITH hints <- first_hints, history <- first_history,
                         curr <- first_curr, cmd <- first_cmd,
                         front <- first_front, terminal <- first_terminal

ASSUME FirstAssumption == First!ReadLineAssumption

first_vars ==
  <<first_history, first_curr, first_cmd, first_front, first_terminal>>

EditorsInit ==
  /\ editor \in {"cmdline", "readline"}
  /\ Init
  /\ First!Init

EditorsNext ==
  \/ editor = "cmdline" /\ Next /\ UNCHANGED <<editor, first_vars>>
  \/ editor = "readline" /\ First!Next /\ UNCHANGED <<editor, vars>>

EditorsSpec == EditorsInit /\ [][EditorsNext]_<<editor, vars, first_vars>>

\* ReadLine!RowShowsLine.
RowShowsLine == First!RowShowsLine

-----------------------------------------------------------------------------

MCPrompt == <<">">>
MCHelp == <<"h">>

\* Two that have a beginning in common, two of the second level, and one of
\* the first level that those hide.
MCHints == << <<"a", "a", "b">>, <<"a", "a", "h">>,
              <<"b", " ", "a">>, <<"b", " ", "h">>, <<"b", "h">> >>

\* Two that have a beginning in common, and one that can be typed in full.
MCFirstHints == << <<"a", "a", "b">>, <<"a", "b">>, <<"b">> >>
=============================================================================
