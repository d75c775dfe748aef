---------------------------- MODULE MCEditConfig ----------------------------
(* The files for checking EditConfig. *)
EXTENDS EditConfig

A(key, end) == [text |-> [key |-> key, value |-> "x"], end |-> end]

Anyhow(ends) == {A(key, end) : key \in Keys \cup {NoKey}, end \in ends}

\* Up to two lines, each of which ends in any way, and three of which the
\* second may be ended by a byte 0xFF.
MCFiles ==
  LET last == Anyhow({"newline", "0xff", "none"})
      first == Anyhow({"newline", "0xff"}) \cup {BlankLine}
  IN {<< >>} \cup {<<l>> : l \in last} \cup {<<f, l>> : f \in first, l \in last}
       \cup {<<A("k2", "newline"), A("k1", end), A("k2", "none")>> :
                end \in {"newline", "0xff"}}

\* What was asked for before the first run does not matter.
MCInit == Init /\ request = [key |-> "k1", value |-> "y", mode |-> "app"]

MCSpec == MCInit /\ [][Next]_vars
=============================================================================
