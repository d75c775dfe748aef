------------------------------ MODULE Terminal ------------------------------
(***************************************************************************)
(* What the line editors of common/ write to: a terminal, which is the row *)
(* the cursor is in, as wide as need be, and the column of the cursor.     *)
(***************************************************************************)
EXTENDS Integers, Sequences

CONSTANT Characters    \* what can stand in a column

Blank == " "

ASSUME TerminalAssumption == Blank \in Characters

Text == Seq(Characters)

write(t, s) ==
  LET end == t.col + Len(s)
  IN [row |-> [n \in 1 .. (IF end > Len(t.row) THEN end ELSE Len(t.row)) |->
                 IF t.col < n /\ n <= end THEN s[n - t.col] ELSE t.row[n]],
      col |-> end]

\* n backspaces, which stop at the margin.
Left(t, n) == [t EXCEPT !.col = IF @ < n THEN 0 ELSE @ - n]

Space(t, n) == write(t, [k \in 1 .. n |-> Blank])

backSpace(t, n) == Left(Space(Left(t, n), n), n)

NewRow == [row |-> << >>, col |-> 0]

CellOf(row, n) == IF n \in DOMAIN row THEN row[n] ELSE Blank

\* The row shows the text and else blanks.
Shows(t, text) ==
  \A n \in DOMAIN t.row \cup DOMAIN text : CellOf(t.row, n) = CellOf(text, n)
=============================================================================
