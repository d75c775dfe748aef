---------------------------- MODULE CommonProofs ----------------------------
(***************************************************************************)
(* Three helpers of src/common/ that nothing but their callers touches.    *)
(* The first part is about the two line editors: what they show and keep,  *)
(* for commands, prompts and lines of any length, and any number of keys   *)
(* pressed.  The second is about GzipHelper: what it makes of its sources, *)
(* for every size of the buffer and of the sources, and however deflate    *)
(* parts its output.                                                       *)
(***************************************************************************)
EXTENDS MCCmdLine, GzipHelper, SequenceTheorems, FiniteSetTheorems, WellFoundedInduction, TLAPS

-----------------------------------------------------------------------------
(* The terminal.  Of its row it is enough to know what stands in each      *)
(* column, blanks to the right of what was written.                        *)

Columns == Nat \ {0}

IsTerminal(t) ==
  /\ t = [row |-> t.row, col |-> t.col]
  /\ t.row \in Text
  /\ t.col \in Nat /\ t.col <= Len(t.row)

LEMMA WriteIs ==
  ASSUME NEW t, IsTerminal(t), NEW s \in Text
  PROVE  /\ IsTerminal(write(t, s))
         /\ write(t, s).col = t.col + Len(s)
         /\ \A n \in Columns :
              CellOf(write(t, s).row, n) =
                IF t.col < n /\ n <= t.col + Len(s) THEN s[n - t.col]
                                                    ELSE CellOf(t.row, n)
<1>1. PICK old : old = t.row
  OBVIOUS
<1>2. PICK c : c = t.col
  OBVIOUS
<1>3. /\ old \in Text /\ Len(old) \in Nat /\ DOMAIN old = 1 .. Len(old)
      /\ \A n \in 1 .. Len(old) : old[n] \in Characters
  BY <1>1, LenProperties, ElementOfSeq DEF IsTerminal, Text
<1>4. /\ Len(s) \in Nat /\ \A n \in 1 .. Len(s) : s[n] \in Characters
  BY LenProperties, ElementOfSeq DEF Text
<1>5. c \in Nat /\ c <= Len(old)
  BY <1>1, <1>2 DEF IsTerminal
<1> DEFINE end == c + Len(s)
           width == IF end > Len(old) THEN end ELSE Len(old)
           cell(n) == IF c < n /\ n <= end THEN s[n - c] ELSE old[n]
           new == [n \in 1 .. width |-> cell(n)]
<1>6. width \in Nat /\ \A n \in 1 .. width : cell(n) \in Characters
  <2>1. width \in Nat
    BY <1>3, <1>4, <1>5
  <2>2. ASSUME NEW n \in 1 .. width
        PROVE  cell(n) \in Characters
    <3>1. CASE c < n /\ n <= end
      <4>1. n - c \in 1 .. Len(s)
        BY <1>3, <1>4, <1>5, <3>1
      <4> QED
        BY <4>1, <3>1, <1>4
    <3>2. CASE ~(c < n /\ n <= end)
      <4>1. n \in 1 .. Len(old)
        BY <1>3, <1>4, <1>5, <3>2
      <4> QED
        BY <4>1, <3>2, <1>3
    <3> QED
      BY <3>1, <3>2
  <2> QED
    BY <2>1, <2>2
<1>7. new \in Seq(Characters) /\ Len(new) = width /\ DOMAIN new = 1 .. width
  <2> HIDE DEF width, cell
  <2>1. new \in Seq(Characters)
    BY <1>6, IsASeq
  <2> QED
    BY <2>1, <1>6, LenProperties
<1>8. write(t, s) = [row |-> new, col |-> end]
  BY <1>1, <1>2 DEF write
<1>9. end \in Nat /\ end <= width
  BY <1>3, <1>4, <1>5
<1>10. IsTerminal(write(t, s))
  <2> HIDE DEF new, end, width
  <2> QED
    BY <1>7, <1>8, <1>9 DEF IsTerminal, Text
<1>11. ASSUME NEW n \in Columns
       PROVE  CellOf(new, n) = IF c < n /\ n <= end THEN s[n - c]
                                                    ELSE CellOf(old, n)
  <2>1. CASE n \in 1 .. width
    <3>1. new[n] = cell(n) /\ CellOf(new, n) = new[n]
      BY <2>1, <1>7 DEF CellOf
    <3>2. CASE c < n /\ n <= end
      BY <3>1, <3>2
    <3>3. CASE ~(c < n /\ n <= end)
      <4>1. n \in 1 .. Len(old)
        BY <1>3, <1>4, <1>5, <3>3, <2>1
      <4>2. CellOf(old, n) = old[n]
        BY <4>1, <1>3 DEF CellOf
      <4> QED
        BY <3>1, <3>3, <4>2
    <3> QED
      BY <3>2, <3>3
  <2>2. CASE n \notin 1 .. width
    <3>1. n > end /\ n \notin 1 .. Len(old)
      BY <2>2, <1>3, <1>4, <1>5 DEF Columns
    <3>2. CellOf(new, n) = Blank /\ CellOf(old, n) = Blank
      <4> HIDE DEF new, width
      <4> QED
        BY <2>2, <3>1, <1>7, <1>3 DEF CellOf
    <3>3. ~(n <= end)
      BY <3>1, <1>9 DEF Columns
    <3> QED
      BY <3>2, <3>3
  <2> QED
    BY <2>1, <2>2
<1>12. write(t, s).row = new /\ write(t, s).col = end
  BY <1>8
<1> QED
  <2> HIDE DEF new, end
  <2>1. end = t.col + Len(s)
    BY <1>2 DEF end
  <2> QED
    BY <1>1, <1>2, <1>10, <1>11, <1>12, <2>1

LEMMA LeftIs ==
  ASSUME NEW t, IsTerminal(t), NEW n \in Nat, n <= t.col
  PROVE  /\ IsTerminal(Left(t, n))
         /\ Left(t, n).row = t.row
         /\ Left(t, n).col = t.col - n
<1>1. Left(t, n) = [row |-> t.row, col |-> t.col - n]
  BY DEF Left, IsTerminal
<1>2. PICK old : old = t.row
  OBVIOUS
<1>3. Len(old) \in Nat
  BY <1>2, LenProperties DEF IsTerminal, Text
<1> QED
  BY <1>1, <1>2, <1>3 DEF IsTerminal

LEMMA BlanksAre ==
  ASSUME NEW n \in Nat
  PROVE  /\ [k \in 1 .. n |-> Blank] \in Text
         /\ Len([k \in 1 .. n |-> Blank]) = n
         /\ \A k \in 1 .. n : [j \in 1 .. n |-> Blank][k] = Blank
<1>1. [k \in 1 .. n |-> Blank] \in Seq(Characters)
  BY TerminalAssumption, IsASeq
<1> QED
  BY <1>1 DEF Text

LEMMA SpaceIs ==
  ASSUME NEW t, IsTerminal(t), NEW n \in Nat
  PROVE  /\ IsTerminal(Space(t, n))
         /\ Space(t, n).col = t.col + n
         /\ \A k \in Columns :
              CellOf(Space(t, n).row, k) =
                IF t.col < k /\ k <= t.col + n THEN Blank ELSE CellOf(t.row, k)
<1>1. PICK s : s = [k \in 1 .. n |-> Blank]
  OBVIOUS
<1>2. s \in Text /\ Len(s) = n /\ \A k \in 1 .. n : s[k] = Blank
  BY <1>1, BlanksAre
<1>3. Space(t, n) = write(t, s)
  BY <1>1 DEF Space
<1>4. t.col \in Nat
  BY DEF IsTerminal
<1>5. /\ IsTerminal(write(t, s)) /\ write(t, s).col = t.col + n
      /\ \A k \in Columns :
           CellOf(write(t, s).row, k) =
             IF t.col < k /\ k <= t.col + n THEN s[k - t.col] ELSE CellOf(t.row, k)
  BY <1>2, WriteIs
<1>6. ASSUME NEW k \in Columns, t.col < k, k <= t.col + n
      PROVE  s[k - t.col] = Blank
  <2>1. k - t.col \in 1 .. n
    BY <1>4, <1>6 DEF Columns
  <2> QED
    BY <2>1, <1>2
<1> QED
  BY <1>3, <1>5, <1>6

\* n columns to the left of the cursor become blank, and the cursor goes
\* there.
LEMMA BackSpaceIs ==
  ASSUME NEW t, IsTerminal(t), NEW n \in Nat, n <= t.col
  PROVE  /\ IsTerminal(backSpace(t, n))
         /\ backSpace(t, n).col = t.col - n
         /\ \A k \in Columns :
              CellOf(backSpace(t, n).row, k) =
                IF t.col - n < k /\ k <= t.col THEN Blank ELSE CellOf(t.row, k)
<1>1. PICK u : u = Left(t, n)
  OBVIOUS
<1>2. IsTerminal(u) /\ u.row = t.row /\ u.col = t.col - n
  BY <1>1, LeftIs
<1>3. PICK w : w = Space(u, n)
  OBVIOUS
<1>4. /\ IsTerminal(w) /\ w.col = u.col + n
      /\ \A k \in Columns :
           CellOf(w.row, k) =
             IF u.col < k /\ k <= u.col + n THEN Blank ELSE CellOf(u.row, k)
  BY <1>2, <1>3, SpaceIs
<1>5. t.col \in Nat /\ u.col + n = t.col
  BY <1>2 DEF IsTerminal
<1>6. backSpace(t, n) = Left(w, n)
  BY <1>1, <1>3 DEF backSpace
<1>7. n <= w.col
  BY <1>4, <1>5
<1>8. IsTerminal(Left(w, n)) /\ Left(w, n).row = w.row /\ Left(w, n).col = w.col - n
  BY <1>4, <1>7, LeftIs
<1>9. w.col = t.col
  BY <1>4, <1>5
<1> QED
  BY <1>2, <1>4, <1>5, <1>6, <1>8, <1>9

LEMMA NewRowIs == IsTerminal(NewRow) /\ NewRow.col = 0 /\ \A k \in Columns : CellOf(NewRow.row, k) = Blank
<1>1. << >> \in Text /\ Len(<< >>) = 0
  BY EmptySeq DEF Text
<1> QED
  BY <1>1 DEF NewRow, IsTerminal, CellOf, Columns

\* The row shows the text: said of every column.
LEMMA ShowsIs ==
  ASSUME NEW t, IsTerminal(t), NEW text \in Text
  PROVE  Shows(t, text) <=> \A n \in Columns : CellOf(t.row, n) = CellOf(text, n)
<1>1. PICK old : old = t.row
  OBVIOUS
<1>2. old \in Text
  BY <1>1 DEF IsTerminal
<1>3. /\ DOMAIN old = 1 .. Len(old) /\ Len(old) \in Nat
      /\ DOMAIN text = 1 .. Len(text) /\ Len(text) \in Nat
  BY <1>2, LenProperties DEF Text
<1>4. DOMAIN old \cup DOMAIN text \subseteq Columns
  BY <1>3 DEF Columns
<1>5. \A n \in Columns :
        n \notin DOMAIN old \cup DOMAIN text => CellOf(old, n) = CellOf(text, n)
  BY DEF CellOf
<1>6. Shows(t, text) <=> \A n \in DOMAIN old \cup DOMAIN text :
                           CellOf(old, n) = CellOf(text, n)
  BY <1>1 DEF Shows
<1> QED
  BY <1>1, <1>4, <1>5, <1>6

LEMMA CellOfConcat ==
  ASSUME NEW a \in Text, NEW b \in Text, NEW n \in Columns
  PROVE  CellOf(a \o b, n) =
           IF n <= Len(a) THEN a[n]
           ELSE IF n <= Len(a) + Len(b) THEN b[n - Len(a)] ELSE Blank
<1>1. PICK ab : ab = a \o b
  OBVIOUS
<1>2. /\ ab \in Text /\ Len(ab) = Len(a) + Len(b)
      /\ \A i \in 1 .. Len(a) + Len(b) :
           ab[i] = IF i <= Len(a) THEN a[i] ELSE b[i - Len(a)]
  BY <1>1, ConcatProperties DEF Text
<1>3. Len(a) \in Nat /\ Len(b) \in Nat /\ DOMAIN ab = 1 .. Len(a) + Len(b)
  BY <1>2, LenProperties DEF Text
<1>4. n \in DOMAIN ab <=> n <= Len(a) + Len(b)
  BY <1>3 DEF Columns
<1>5. CASE n \in DOMAIN ab
  <2>1. ab[n] = IF n <= Len(a) THEN a[n] ELSE b[n - Len(a)]
    BY <1>5, <1>2, <1>3
  <2> QED
    BY <1>1, <1>4, <1>5, <2>1, <1>3 DEF CellOf, Columns
<1>6. CASE n \notin DOMAIN ab
  BY <1>1, <1>4, <1>6, <1>3 DEF CellOf, Columns
<1> QED
  BY <1>5, <1>6

\* The cursor stands behind the text, and nothing else is shown.
Behind(t, text) ==
  /\ IsTerminal(t) /\ t.col = Len(text)
  /\ \A n \in Columns : CellOf(t.row, n) = CellOf(text, n)

\* What follows is shown when it is written there.
LEMMA WriteBehind ==
  ASSUME NEW t, NEW text \in Text, Behind(t, text), NEW s \in Text
  PROVE  /\ IsTerminal(write(t, s)) /\ write(t, s).col = Len(text) + Len(s)
         /\ text \o s \in Text /\ Shows(write(t, s), text \o s)
<1>1. PICK w : w = write(t, s)
  OBVIOUS
<1>2. PICK whole : whole = text \o s
  OBVIOUS
<1>3. whole \in Text
  BY <1>2, ConcatProperties DEF Text
<1>4. Len(text) \in Nat /\ Len(s) \in Nat /\ DOMAIN text = 1 .. Len(text)
  BY LenProperties DEF Text
<1>5. /\ IsTerminal(w) /\ w.col = Len(text) + Len(s)
      /\ \A n \in Columns :
           CellOf(w.row, n) =
             IF Len(text) < n /\ n <= Len(text) + Len(s) THEN s[n - Len(text)]
                                                         ELSE CellOf(t.row, n)
  BY <1>1, WriteIs DEF Behind
<1>6. ASSUME NEW n \in Columns
      PROVE  CellOf(w.row, n) = CellOf(whole, n)
  <2>1. CellOf(whole, n) =
           IF n <= Len(text) THEN text[n]
           ELSE IF n <= Len(text) + Len(s) THEN s[n - Len(text)] ELSE Blank
    BY <1>2, CellOfConcat
  <2>2. CellOf(text, n) = IF n <= Len(text) THEN text[n] ELSE Blank
    BY <1>4 DEF CellOf, Columns
  <2>3. CellOf(t.row, n) = CellOf(text, n)
    BY DEF Behind
  <2> QED
    BY <1>4, <1>5, <2>1, <2>2, <2>3 DEF Columns
<1>7. Shows(w, whole)
  BY <1>3, <1>5, <1>6, ShowsIs
<1> QED
  BY <1>1, <1>2, <1>3, <1>5, <1>7

\* Of a line that is shown, with the cursor anywhere in it, nothing is left
\* when blanks have been written over what is to the right of the cursor and
\* then to the left of it.
LEMMA ClearIs ==
  ASSUME NEW t, IsTerminal(t), NEW text \in Text, NEW line \in Text,
         Shows(t, text \o line), NEW at \in 0 .. Len(line),
         t.col = Len(text) + at, NEW right, right = Len(line) - at
  PROVE  Behind(backSpace(Left(Space(t, right), right), at), text)
<1>1. PICK whole : whole = text \o line
  OBVIOUS
<1>2. whole \in Text
  BY <1>1, ConcatProperties DEF Text
<1>3. /\ Len(text) \in Nat /\ Len(line) \in Nat /\ DOMAIN text = 1 .. Len(text)
      /\ right \in Nat /\ at \in Nat
  BY LenProperties DEF Text
<1>4. \A n \in Columns : CellOf(t.row, n) = CellOf(whole, n)
  BY <1>1, <1>2, ShowsIs
<1>5. PICK u : u = Space(t, right)
  OBVIOUS
<1>6. /\ IsTerminal(u) /\ u.col = t.col + right
      /\ \A k \in Columns :
           CellOf(u.row, k) =
             IF t.col < k /\ k <= t.col + right THEN Blank ELSE CellOf(t.row, k)
  BY <1>3, <1>5, SpaceIs
<1>7. PICK v : v = Left(u, right)
  OBVIOUS
<1>8. right <= u.col
  BY <1>3, <1>6
<1>9. IsTerminal(v) /\ v.row = u.row /\ v.col = u.col - right
  BY <1>3, <1>6, <1>7, <1>8, LeftIs
<1>10. at <= v.col /\ v.col = Len(text) + at
  BY <1>3, <1>6, <1>9
<1>11. PICK w : w = backSpace(v, at)
  OBVIOUS
<1>12. /\ IsTerminal(w) /\ w.col = v.col - at
       /\ \A k \in Columns :
            CellOf(w.row, k) =
              IF v.col - at < k /\ k <= v.col THEN Blank ELSE CellOf(v.row, k)
  BY <1>3, <1>9, <1>10, <1>11, BackSpaceIs
<1>13. ASSUME NEW n \in Columns
       PROVE  CellOf(w.row, n) = CellOf(text, n)
  <2>1. CellOf(whole, n) =
           IF n <= Len(text) THEN text[n]
           ELSE IF n <= Len(text) + Len(line) THEN line[n - Len(text)] ELSE Blank
    BY <1>1, CellOfConcat
  <2>2. CellOf(text, n) = IF n <= Len(text) THEN text[n] ELSE Blank
    BY <1>3 DEF CellOf, Columns
  <2>3. CellOf(w.row, n) =
          IF Len(text) < n /\ n <= Len(text) + at THEN Blank ELSE CellOf(u.row, n)
    BY <1>3, <1>9, <1>10, <1>12
  <2>4. CellOf(u.row, n) =
          IF Len(text) + at < n /\ n <= Len(text) + Len(line) THEN Blank
          ELSE CellOf(whole, n)
    BY <1>3, <1>4, <1>6
  <2> QED
    BY <1>3, <2>1, <2>2, <2>3, <2>4 DEF Columns
<1> QED
  BY <1>3, <1>5, <1>7, <1>10, <1>11, <1>12, <1>13 DEF Behind

\* A prompt on a row of its own.
LEMMA NewLineIs ==
  ASSUME NEW text \in Text
  PROVE  Behind(write(NewRow, text), text)
<1>1. PICK w : w = write(NewRow, text)
  OBVIOUS
<1>2. Len(text) \in Nat /\ DOMAIN text = 1 .. Len(text)
  BY LenProperties DEF Text
<1>3. /\ IsTerminal(w) /\ w.col = 0 + Len(text)
      /\ \A n \in Columns :
           CellOf(w.row, n) =
             IF 0 < n /\ n <= 0 + Len(text) THEN text[n - 0] ELSE CellOf(NewRow.row, n)
  BY <1>1, NewRowIs, WriteIs
<1>4. ASSUME NEW n \in Columns
      PROVE  CellOf(w.row, n) = CellOf(text, n)
  <2>1. CellOf(NewRow.row, n) = Blank
    BY NewRowIs
  <2>2. n \in Nat /\ 0 < n
    BY DEF Columns
  <2>3. n - 0 = n
    BY <2>2
  <2> QED
    BY <1>2, <1>3, <2>1, <2>2, <2>3 DEF CellOf
<1> QED
  BY <1>1, <1>2, <1>3, <1>4 DEF Behind

-----------------------------------------------------------------------------
(* Lines. *)

LEMMA Piece ==
  ASSUME NEW s \in Text, NEW m \in Int, NEW n \in Int, 1 <= m, n <= Len(s)
  PROVE  /\ SubSeq(s, m, n) \in Text
         /\ Len(SubSeq(s, m, n)) = IF m <= n THEN n - m + 1 ELSE 0
         /\ \A i \in 1 .. n - m + 1 : SubSeq(s, m, n)[i] = s[m + i - 1]
<1>1. Len(s) \in Nat /\ \A i \in 1 .. Len(s) : s[i] \in Characters
  BY LenProperties, ElementOfSeq DEF Text
<1>2. \A i \in m .. n : s[i] \in Characters
  BY <1>1
<1> QED
  BY <1>2, SubSeqProperties DEF Text

LEMMA Beginning ==
  ASSUME NEW s \in Text, NEW n \in 0 .. Len(s)
  PROVE  /\ SubSeq(s, 1, n) \in Text /\ Len(SubSeq(s, 1, n)) = n
         /\ \A i \in 1 .. n : SubSeq(s, 1, n)[i] = s[i]
<1>1. Len(s) \in Nat /\ n \in Nat /\ n <= Len(s)
  BY LenProperties DEF Text
<1>2. /\ SubSeq(s, 1, n) \in Text
      /\ Len(SubSeq(s, 1, n)) = IF 1 <= n THEN n - 1 + 1 ELSE 0
      /\ \A i \in 1 .. n - 1 + 1 : SubSeq(s, 1, n)[i] = s[1 + i - 1]
  BY <1>1, Piece
<1>3. n - 1 + 1 = n /\ (~(1 <= n) => n = 0) /\ \A i \in 1 .. n : 1 + i - 1 = i
  BY <1>1
<1> QED
  BY <1>2, <1>3

LEMMA Joined ==
  ASSUME NEW a \in Text, NEW b \in Text
  PROVE  a \o b \in Text /\ Len(a \o b) = Len(a) + Len(b)
  BY ConcatProperties DEF Text

LEMMA Extended ==
  ASSUME NEW s \in Text, NEW c \in Characters
  PROVE  /\ Append(s, c) \in Text /\ Len(Append(s, c)) = Len(s) + 1
         /\ \A i \in 1 .. Len(s) : Append(s, c)[i] = s[i]
  BY AppendProperties DEF Text

LEMMA InsertIs ==
  ASSUME NEW s \in Text, NEW at \in 0 .. Len(s), NEW c \in Characters
  PROVE  InsertAt(s, at + 1, c) \in Text /\ Len(InsertAt(s, at + 1, c)) = Len(s) + 1
<1>1. Len(s) \in Nat /\ at \in Nat
  BY LenProperties DEF Text
<1>2. PICK a, b, k : a = SubSeq(s, 1, at) /\ b = SubSeq(s, at + 1, Len(s)) /\ k = <<c>>
  OBVIOUS
<1>3. a \in Text /\ Len(a) = at
  BY <1>1, <1>2, Piece
<1>4. b \in Text /\ Len(b) = Len(s) - at
  <2>1. PICK m, n : m = at + 1 /\ n = Len(s)
    OBVIOUS
  <2>2. m \in Int /\ n \in Int /\ 1 <= m /\ n <= Len(s)
    BY <1>1, <2>1
  <2>3. SubSeq(s, m, n) \in Text
        /\ Len(SubSeq(s, m, n)) = IF m <= n THEN n - m + 1 ELSE 0
    BY <2>2, Piece
  <2> QED
    BY <1>1, <1>2, <2>1, <2>3
<1>5. k \in Text /\ Len(k) = 1
  BY <1>2 DEF Text
<1>6. a \o k \in Text /\ Len(a \o k) = at + 1
  BY <1>3, <1>5, Joined
<1>7. (a \o k) \o b \in Text /\ Len((a \o k) \o b) = at + 1 + (Len(s) - at)
  BY <1>4, <1>6, Joined
<1>8. PICK j : j = at + 1
  OBVIOUS
<1>9. InsertAt(s, j, c) = (a \o k) \o b
  <2>1. j - 1 = at /\ SubSeq(s, j, Len(s)) = b
    BY <1>1, <1>2, <1>8
  <2>2. InsertAt(s, j, c) = SubSeq(s, 1, j - 1) \o <<c>> \o SubSeq(s, j, Len(s))
    BY DEF InsertAt
  <2> QED
    BY <1>2, <2>1, <2>2
<1>10. at + 1 + (Len(s) - at) = Len(s) + 1
  BY <1>1
<1> QED
  BY <1>7, <1>8, <1>9, <1>10

LEMMA RemoveIs ==
  ASSUME NEW s \in Text, NEW at \in 1 .. Len(s)
  PROVE  RemoveAt(s, at) \in Text /\ Len(RemoveAt(s, at)) = Len(s) - 1
<1>1. Len(s) \in Nat /\ at \in Nat
  BY LenProperties DEF Text
<1>2. PICK m, n : m = at + 1 /\ n = Len(s)
  OBVIOUS
<1>3. PICK k : k = at - 1
  OBVIOUS
<1>4. PICK a, b : a = SubSeq(s, 1, k) /\ b = SubSeq(s, m, n)
  OBVIOUS
<1>5. k \in Nat /\ k <= Len(s)
  BY <1>1, <1>3
<1>6. a \in Text /\ Len(a) = k
  <2>1. SubSeq(s, 1, k) \in Text
        /\ Len(SubSeq(s, 1, k)) = IF 1 <= k THEN k - 1 + 1 ELSE 0
    BY <1>5, Piece
  <2> QED
    BY <1>4, <1>5, <2>1
<1>7. m \in Int /\ n \in Int /\ 1 <= m /\ n <= Len(s)
  BY <1>1, <1>2
<1>8. b \in Text /\ Len(b) = Len(s) - at
  <2>1. SubSeq(s, m, n) \in Text
        /\ Len(SubSeq(s, m, n)) = IF m <= n THEN n - m + 1 ELSE 0
    BY <1>7, Piece
  <2> QED
    BY <1>1, <1>2, <1>4, <2>1
<1>9. a \o b \in Text /\ Len(a \o b) = k + (Len(s) - at)
  BY <1>6, <1>8, Joined
<1>10. RemoveAt(s, at) = a \o b
  BY <1>2, <1>3, <1>4 DEF RemoveAt
<1> QED
  BY <1>1, <1>3, <1>9, <1>10

LEMMA LeastElement ==
  ASSUME NEW S \in SUBSET Nat, S # {}
  PROVE  \E x \in S : \A y \in S : x <= y
<1>1. \E x \in S : \A y \in S : ~(<<y, x>> \in OpToRel(<, Nat))
  BY NatLessThanWellFounded, WFMin
<1>2. ASSUME NEW x \in S, NEW y \in S, ~(<<y, x>> \in OpToRel(<, Nat))
      PROVE  x <= y
  <2>1. <<y, x>> \in Nat \X Nat /\ <<y, x>>[1] = y /\ <<y, x>>[2] = x
    OBVIOUS
  <2>2. ~(y < x)
    BY <1>2, <2>1, Zenon DEF OpToRel
  <2> QED
    BY <2>2
<1> QED
  BY <1>1, <1>2

LEMMA GreatestElement ==
  ASSUME NEW n \in Nat, NEW S \in SUBSET (0 .. n), S # {}
  PROVE  \E x \in S : \A y \in S : y <= x
<1> DEFINE Mirror == {n - x : x \in S}
<1>1. Mirror \in SUBSET Nat /\ Mirror # {}
  <2>1. \A x \in S : n - x \in Nat
    OBVIOUS
  <2> QED
    BY <2>1
<1>2. PICK m \in Mirror : \A y \in Mirror : m <= y
  <2> HIDE DEF Mirror
  <2> QED
    BY <1>1, LeastElement
<1>3. PICK x \in S : m = n - x
  BY <1>2
<1>4. ASSUME NEW y \in S
      PROVE  y <= x
  <2>1. n - y \in Mirror
    BY <1>4
  <2>2. m <= n - y
    BY <1>2, <2>1
  <2> QED
    BY <1>3, <2>2
<1> QED
  BY <1>4

LEMMA Bounds ==
  ASSUME NEW n \in Nat, NEW S \in SUBSET (1 .. n), S # {}
  PROVE  Min(S) \in S /\ Max(S) \in S
<1>1. S \in SUBSET Nat /\ S \in SUBSET (0 .. n)
  OBVIOUS
<1>2. \E x \in S : \A y \in S : x <= y
  BY <1>1, LeastElement
<1>3. \E x \in S : \A y \in S : x >= y
  <2>1. PICK x \in S : \A y \in S : y <= x
    BY <1>1, GreatestElement
  <2>2. \A y \in S : x >= y
    BY <1>1, <2>1
  <2> QED
    BY <2>2
<1> QED
  BY <1>2, <1>3, Zenon DEF Min, Max

LEMMA TrimmedIs ==
  ASSUME NEW s \in Text
  PROVE  Trimmed(s) \in Text
<1> DEFINE inner == {n \in DOMAIN s : s[n] # Blank}
<1>1. Len(s) \in Nat /\ DOMAIN s = 1 .. Len(s)
  BY LenProperties DEF Text
<1>2. inner \in SUBSET (1 .. Len(s))
  BY <1>1
<1>3. Trimmed(s) = IF inner = {} THEN << >> ELSE SubSeq(s, Min(inner), Max(inner))
  BY DEF Trimmed
<1> HIDE DEF inner
<1>4. CASE inner = {}
  BY <1>3, <1>4, EmptySeq DEF Text
<1>5. CASE inner # {}
  <2>1. Min(inner) \in inner /\ Max(inner) \in inner
    BY <1>1, <1>2, <1>5, Bounds
  <2>2. PICK m, n : m = Min(inner) /\ n = Max(inner)
    OBVIOUS
  <2>3. m \in 1 .. Len(s) /\ n \in 1 .. Len(s)
    BY <1>2, <2>1, <2>2
  <2>4. m \in Int /\ n \in Int /\ 1 <= m /\ n <= Len(s)
    BY <1>1, <2>3
  <2>5. SubSeq(s, m, n) \in Text
    BY <2>4, Piece
  <2> QED
    BY <1>3, <1>5, <2>2, <2>5
<1> QED
  BY <1>4, <1>5

\* Of two beginnings of a line the longer goes on where the shorter ends.
LEMMA PrefixIs ==
  ASSUME NEW a \in Text, NEW b \in Text
  PROVE  IsPrefix(a, b) <=>
           Len(a) <= Len(b) /\ \A i \in 1 .. Len(a) : a[i] = b[i]
<1>1. Len(a) \in Nat /\ Len(b) \in Nat
  BY LenProperties DEF Text
<1>2. SubSeq(a, 1, Len(a)) = a
  BY SubSeqFull DEF Text
<1>3. CASE Len(a) <= Len(b)
  <2>1. PICK c : c = SubSeq(b, 1, Len(a))
    OBVIOUS
  <2>2. Len(a) \in 0 .. Len(b)
    BY <1>1, <1>3
  <2>3. c \in Text /\ Len(c) = Len(a) /\ \A i \in 1 .. Len(a) : c[i] = b[i]
    BY <2>1, <2>2, Beginning
  <2>4. a = c <=> \A i \in 1 .. Len(a) : a[i] = c[i]
    BY <2>3, SeqEqual DEF Text
  <2>5. IsPrefix(a, b) <=> a = c
    BY <1>2, <1>3, <2>1 DEF IsPrefix
  <2> QED
    BY <1>3, <2>3, <2>4, <2>5
<1>4. CASE ~(Len(a) <= Len(b))
  BY <1>4 DEF IsPrefix
<1> QED
  BY <1>3, <1>4

LEMMA PrefixOfAppend ==
  ASSUME NEW a \in Text, NEW b \in Text, IsPrefix(a, b), NEW c \in Characters
  PROVE  IsPrefix(a, Append(b, c))
<1>1. PICK bc : bc = Append(b, c)
  OBVIOUS
<1>2. bc \in Text /\ Len(bc) = Len(b) + 1 /\ \A i \in 1 .. Len(b) : bc[i] = b[i]
  BY <1>1, Extended
<1>3. Len(a) \in Nat /\ Len(b) \in Nat
  BY LenProperties DEF Text
<1>4. Len(a) <= Len(b) /\ \A i \in 1 .. Len(a) : a[i] = b[i]
  BY PrefixIs
<1>5. Len(a) <= Len(bc) /\ \A i \in 1 .. Len(a) : a[i] = bc[i]
  BY <1>2, <1>3, <1>4
<1> QED
  BY <1>1, <1>2, <1>5, PrefixIs

LEMMA PrefixOfSame ==
  ASSUME NEW a \in Text, NEW b \in Text, NEW c \in Text,
         IsPrefix(a, c), IsPrefix(b, c), Len(a) <= Len(b)
  PROVE  IsPrefix(a, b)
<1>1. Len(a) <= Len(c) /\ \A i \in 1 .. Len(a) : a[i] = c[i]
  BY PrefixIs
<1>2. Len(b) <= Len(c) /\ \A i \in 1 .. Len(b) : b[i] = c[i]
  BY PrefixIs
<1>3. Len(a) \in Nat /\ Len(b) \in Nat
  BY LenProperties DEF Text
<1>4. \A i \in 1 .. Len(a) : a[i] = b[i]
  BY <1>1, <1>2, <1>3
<1> QED
  BY <1>4, PrefixIs

\* What lines have in common at their beginning is a beginning of each, and
\* no other is longer.
LEMMA LongestIs ==
  ASSUME NEW S \in SUBSET Text, NEW line \in S, NEW start \in Text,
         \A t \in S : IsPrefix(start, t)
  PROVE  LET all == LongestCommonPrefix(S)
         IN /\ all \in Text
            /\ IsPrefix(start, all)
            /\ \A t \in S : IsPrefix(all, t)
<1> DEFINE P == UNION {Prefixes(s) : s \in S}
           C == CommonPrefixes(S)
           Lengths == {Len(s) : s \in C}
<1>1. Len(line) \in Nat
  BY LenProperties DEF Text
<1>2. C = {s \in P : \A t \in S : IsPrefix(s, t)}
  BY DEF CommonPrefixes
<1>3. ASSUME NEW s \in P
      PROVE  s \in Text
  <2>1. PICK t \in S : s \in Prefixes(t)
    BY <1>3
  <2>2. PICK n \in 0 .. Len(t) : s = SubSeq(t, 1, n)
    BY <2>1, Zenon DEF Prefixes
  <2>3. t \in Text /\ Len(t) \in Nat
    BY LenProperties DEF Text
  <2>4. SubSeq(t, 1, n) \in Text
    <3>1. n \in Int /\ 1 \in Int /\ 1 <= 1 /\ n <= Len(t)
      BY <2>3
    <3> QED
      BY <2>3, <3>1, Piece
  <2> QED
    BY <2>2, <2>4
<1>4. start \in C
  <2>1. IsPrefix(start, line)
    OBVIOUS
  <2>2. Len(start) <= Len(line) /\ SubSeq(start, 1, Len(start)) = SubSeq(line, 1, Len(start))
    BY <2>1, Zenon DEF IsPrefix
  <2>3. SubSeq(start, 1, Len(start)) = start
    BY SubSeqFull DEF Text
  <2>4. Len(start) \in 0 .. Len(line)
    <3>1. Len(start) \in Nat
      BY LenProperties DEF Text
    <3> QED
      BY <1>1, <2>2, <3>1
  <2>5. start = SubSeq(line, 1, Len(start))
    BY <2>2, <2>3, Zenon
  <2>6. start \in Prefixes(line)
    BY <2>4, <2>5, Zenon DEF Prefixes
  <2>7. start \in P
    BY <2>6, Zenon
  <2> QED
    BY <1>2, <2>7, Zenon
<1> HIDE DEF P, C
<1>5. ASSUME NEW s \in C
      PROVE  s \in Text /\ Len(s) \in 0 .. Len(line)
  <2>1. s \in Text /\ IsPrefix(s, line)
    BY <1>2, <1>3
  <2>2. Len(s) \in Nat /\ Len(s) <= Len(line)
    BY <2>1, PrefixIs, LenProperties DEF Text
  <2> QED
    BY <1>1, <2>1, <2>2
<1>6. Lengths \in SUBSET (0 .. Len(line)) /\ Lengths # {}
  BY <1>4, <1>5
<1>7. PICK x \in Lengths : \A y \in Lengths : y <= x
  <2> HIDE DEF Lengths
  <2> QED
    BY <1>1, <1>6, GreatestElement
<1>8. PICK l \in C : \A s \in C : Len(s) <= Len(l)
  BY <1>7
<1>9. PICK all : all = LongestCommonPrefix(S)
  OBVIOUS
<1>10. all \in C /\ \A s \in C : Len(s) <= Len(all)
  <2>1. all = CHOOSE longest \in C : \A other \in C : Len(other) <= Len(longest)
    BY <1>9 DEF LongestCommonPrefix, C
  <2> QED
    BY <1>8, <2>1, Zenon
<1>11. all \in Text /\ \A t \in S : IsPrefix(all, t)
  BY <1>2, <1>5, <1>10
<1>12. Len(start) <= Len(all)
  BY <1>4, <1>10
<1>13. IsPrefix(start, all)
  <2>1. line \in Text /\ IsPrefix(start, line) /\ IsPrefix(all, line)
    BY <1>11
  <2> QED
    BY <1>11, <1>12, <2>1, PrefixOfSame
<1> QED
  BY <1>9, <1>11, <1>13

-----------------------------------------------------------------------------
(* The editor of cmdline.cpp: the inductive invariant. *)

LinesOK ==
  /\ cmd \in Text /\ cmd_buffer \in Text
  /\ IsTerminal(terminal)

\* No entry repeats the one before it, and curr is an entry or one past the
\* last.
HistoryOK ==
  /\ history \in Seq(Text) /\ history # << >>
  /\ curr \in 1 .. Len(history) + 1
  /\ \A n \in 1 .. Len(history) - 1 : history[n] # history[n + 1]

EInv == LinesOK /\ HistoryOK /\ ScreenShowsCommand

LEMMA Typed ==
  /\ Prompt \in Text /\ Len(Prompt) \in Nat
  /\ Help \in Text /\ Blank \in Characters
  /\ \A n \in DOMAIN hints : hints[n] \in Text
  /\ \A c \in Chars : c \in Characters
<1>1. Prompt \in Text /\ Help \in Text /\ hints \in Seq(Text)
  BY CmdLineAssumption
<1>2. Len(Prompt) \in Nat
  BY <1>1, LenProperties DEF Text
<1>3. \A n \in DOMAIN hints : hints[n] \in Text
  BY <1>1, LenProperties, ElementOfSeq
<1> QED
  BY <1>1, <1>2, <1>3, CmdLineAssumption, TerminalAssumption

\* The history is a function from places to lines.
LEMMA EntriesAre ==
  ASSUME HistoryOK
  PROVE  /\ Len(history) \in Nat \ {0} /\ DOMAIN history = 1 .. Len(history)
         /\ \A n \in 1 .. Len(history) : history[n] \in Text
         /\ curr \in Nat
<1>1. history \in Seq(Text)
  BY DEF HistoryOK
<1>2. Len(history) \in Nat /\ DOMAIN history = 1 .. Len(history)
  BY <1>1, LenProperties
<1>3. Len(history) # 0
  BY <1>1, EmptySeq DEF HistoryOK
<1> QED
  BY <1>1, <1>2, <1>3, ElementOfSeq DEF HistoryOK

LEMMA CleanIs ==
  ASSUME EInv
  PROVE  Behind(clearLine, Prompt)
<1>1. PICK right : right = Len(cmd) - m_index
  OBVIOUS
<1>2. clearLine = backSpace(Left(Space(terminal, right), right), m_index)
  BY <1>1 DEF clearLine
<1>3. /\ IsTerminal(terminal) /\ cmd \in Text /\ Shows(terminal, Prompt \o cmd)
      /\ m_index \in 0 .. Len(cmd) /\ terminal.col = Len(Prompt) + m_index
  BY DEF EInv, LinesOK, ScreenShowsCommand
<1> QED
  BY <1>1, <1>2, <1>3, Typed, ClearIs

\* A line that is shown behind the prompt, with the cursor n from its end.
LEMMA LineShown ==
  ASSUME NEW t, Behind(t, Prompt), NEW s \in Text,
         NEW n \in 0 .. Len(s), cmd' = s, m_index' = Len(s) - n,
         terminal' = Left(write(t, s), n)
  PROVE  IsTerminal(terminal') /\ ScreenShowsCommand'
<1>1. Len(s) \in Nat
  BY LenProperties DEF Text
<1>2. PICK w : w = write(t, s)
  OBVIOUS
<1>3. /\ IsTerminal(w) /\ w.col = Len(Prompt) + Len(s)
      /\ Shows(w, Prompt \o s)
  BY <1>2, Typed, WriteBehind
<1>4. /\ IsTerminal(Left(w, n)) /\ Left(w, n).row = w.row
      /\ Left(w, n).col = w.col - n
  <2>1. n \in Nat /\ n <= w.col
    BY <1>1, <1>3, Typed
  <2> QED
    BY <1>3, <2>1, LeftIs
<1>5. Shows(Left(w, n), Prompt \o s)
  BY <1>3, <1>4 DEF Shows
<1>6. m_index' \in 0 .. Len(cmd') /\ terminal'.col = Len(Prompt) + m_index'
  BY <1>1, <1>2, <1>3, <1>4, Typed
<1> QED
  BY <1>2, <1>4, <1>5, <1>6 DEF ScreenShowsCommand

\* ... and with the cursor at its end.
LEMMA LineWritten ==
  ASSUME NEW t, Behind(t, Prompt), NEW s \in Text,
         cmd' = s, m_index' = Len(s), terminal' = write(t, s)
  PROVE  IsTerminal(terminal') /\ ScreenShowsCommand'
<1>1. Len(s) \in Nat
  BY LenProperties DEF Text
<1>2. PICK w : w = write(t, s)
  OBVIOUS
<1>3. /\ IsTerminal(w) /\ w.col = Len(Prompt) + Len(s)
      /\ Shows(w, Prompt \o s)
  BY <1>2, Typed, WriteBehind
<1>4. m_index' \in 0 .. Len(cmd')
  BY <1>1
<1> QED
  BY <1>2, <1>3, <1>4 DEF ScreenShowsCommand

LEMMA ShowStep ==
  ASSUME EInv, NEW s \in Text, Show(s)
  PROVE  cmd' \in Text /\ IsTerminal(terminal') /\ ScreenShowsCommand'
<1>1. cmd' = s /\ m_index' = Len(s) /\ terminal' = write(clearLine, s)
  BY DEF Show
<1>2. Behind(clearLine, Prompt)
  BY CleanIs
<1> QED
  BY <1>1, <1>2, LineWritten

LEMMA NothingStep ==
  ASSUME EInv, Nothing
  PROVE  cmd' \in Text /\ IsTerminal(terminal') /\ ScreenShowsCommand'
  BY DEF EInv, LinesOK, ScreenShowsCommand, Nothing

LEMMA InitEInv == Init => EInv
<1> SUFFICES ASSUME Init PROVE EInv
  OBVIOUS
<1>1. PICK t : t = terminal
  OBVIOUS
<1>2. Behind(t, Prompt)
  BY <1>1, Typed, NewLineIs DEF Init, NewLine
<1>3. << >> \in Text /\ Len(<< >>) = 0
  BY EmptySeq DEF Text
<1>4. PICK s : s = << >>
  OBVIOUS
<1>5. /\ IsTerminal(write(t, s)) /\ Prompt \o s = Prompt
  BY <1>2, <1>3, <1>4, Typed, WriteIs, ConcatEmptySeq DEF Behind, Text
<1>6. Shows(t, Prompt)
  BY <1>2, Typed, ShowsIs DEF Behind
<1>7. LinesOK
  BY <1>1, <1>2, <1>3 DEF LinesOK, Init, Behind
<1>8. ScreenShowsCommand
  <2>1. cmd = s /\ m_index = 0 /\ terminal = t
    BY <1>1, <1>4 DEF Init
  <2>2. t.col = Len(Prompt) + 0
    BY <1>2, Typed DEF Behind
  <2> QED
    BY <1>3, <1>4, <1>5, <1>6, <2>1, <2>2 DEF ScreenShowsCommand
<1>9. HistoryOK
  <2>1. Help \in Text
    BY Typed
  <2>2. history \in Seq(Text) /\ Len(history) = 1 /\ history # << >>
    BY <2>1 DEF Init
  <2>3. curr = 2
    BY DEF Init
  <2> QED
    BY <2>2, <2>3 DEF HistoryOK
<1> QED
  BY <1>7, <1>8, <1>9 DEF EInv

\* A line read is added behind the others unless it repeats the last.
LEMMA EnterStep ==
  ASSUME EInv, Enter
  PROVE  EInv'
<1> DEFINE line == Trimmed(cmd)
<1>1. /\ history' = IF line \in {<< >>, Last(history)} THEN history
                    ELSE Append(history, line)
      /\ curr' = IF line = << >> THEN curr ELSE Len(history') + 1
      /\ cmd' = << >> /\ cmd_buffer' = << >> /\ m_index' = 0
      /\ terminal' = NewLine
  BY DEF Enter
<1>2. line \in Text
  BY TrimmedIs DEF EInv, LinesOK
<1> HIDE DEF line
<1>3. PICK s : s = << >>
  OBVIOUS
<1>4. s \in Text /\ Len(s) = 0
  BY <1>3, EmptySeq DEF Text
<1>5. PICK t : t = NewLine
  OBVIOUS
<1>6. Behind(t, Prompt)
  BY <1>5, Typed, NewLineIs DEF NewLine
<1>7. LinesOK'
  BY <1>1, <1>3, <1>4, <1>5, <1>6 DEF LinesOK, Behind
<1>8. ScreenShowsCommand'
  <2>1. Prompt \o s = Prompt
    BY <1>3, Typed, ConcatEmptySeq DEF Text
  <2>2. Shows(t, Prompt)
    BY <1>6, Typed, ShowsIs DEF Behind
  <2>3. t.col = Len(Prompt) + 0
    BY <1>6, Typed DEF Behind
  <2> QED
    BY <1>1, <1>3, <1>4, <1>5, <2>1, <2>2, <2>3 DEF ScreenShowsCommand
<1>9. HistoryOK'
  <2>1. HistoryOK
    BY DEF EInv
  <2>2. CASE line \in {<< >>, Last(history)}
    <3>1. history' = history /\ (curr' = curr \/ curr' = Len(history) + 1)
      BY <1>1, <2>2
    <3>2. curr' \in 1 .. Len(history) + 1
      BY <2>1, <3>1, EntriesAre DEF HistoryOK
    <3> QED
      BY <2>1, <3>1, <3>2 DEF HistoryOK
  <2>3. CASE line \notin {<< >>, Last(history)}
    <3>1. history' = Append(history, line) /\ curr' = Len(history') + 1
      BY <1>1, <2>3
    <3>2. history \in Seq(Text) /\ Len(history) \in Nat \ {0}
      BY <2>1, EntriesAre DEF HistoryOK
    <3>3. /\ history' \in Seq(Text) /\ history' # << >>
          /\ Len(history') = Len(history) + 1
          /\ \A i \in 1 .. Len(history) : history'[i] = history[i]
          /\ history'[Len(history) + 1] = line
      BY <1>2, <3>1, <3>2, AppendProperties
    <3>4. history[Len(history)] # line
      BY <2>3 DEF Last
    <3>5. ASSUME NEW n \in 1 .. Len(history') - 1
          PROVE  history'[n] # history'[n + 1]
      <4>1. CASE n = Len(history)
        BY <3>2, <3>3, <3>4, <4>1
      <4>2. CASE n # Len(history)
        <5>1. n \in 1 .. Len(history) /\ n + 1 \in 1 .. Len(history)
              /\ n \in 1 .. Len(history) - 1
          BY <3>2, <3>3, <3>5, <4>2
        <5>2. history[n] # history[n + 1]
          BY <2>1, <5>1 DEF HistoryOK
        <5> QED
          BY <3>3, <5>1, <5>2
      <4> QED
        BY <4>1, <4>2
    <3>6. curr' \in 1 .. Len(history') + 1
      BY <3>1, <3>2, <3>3
    <3> QED
      BY <3>3, <3>5, <3>6 DEF HistoryOK
  <2> QED
    BY <2>2, <2>3
<1> QED
  BY <1>7, <1>8, <1>9 DEF EInv

\* The commands that go on with the line, and what they have in common.
LEMMA CommonIs ==
  ASSUME EInv
  PROVE  /\ \A n \in common : n \in DOMAIN hints /\ hints[n] \in Text
                                /\ IsPrefix(cmd, hints[n])
         /\ common # {} =>
              /\ CommonPrefix \in Text /\ IsPrefix(cmd, CommonPrefix)
              /\ \A n \in common : IsPrefix(CommonPrefix, hints[n])
<1>1. \A n \in common : n \in DOMAIN hints /\ IsPrefix(cmd, hints[n])
  BY DEF common, Extends
<1>2. \A n \in common : hints[n] \in Text
  BY <1>1, Typed
<1>3. ASSUME NEW k \in common
      PROVE  /\ CommonPrefix \in Text /\ IsPrefix(cmd, CommonPrefix)
             /\ \A n \in common : IsPrefix(CommonPrefix, hints[n])
  <2>1. PICK S : S = {hints[n] : n \in common}
    OBVIOUS
  <2>2. S \in SUBSET Text /\ hints[k] \in S /\ \A t \in S : IsPrefix(cmd, t)
    BY <1>1, <1>2, <1>3, <2>1
  <2>3. PICK all : all = LongestCommonPrefix(S)
    OBVIOUS
  <2>4. cmd \in Text
    BY DEF EInv, LinesOK
  <2>5. all \in Text /\ IsPrefix(cmd, all) /\ \A t \in S : IsPrefix(all, t)
    BY <2>2, <2>3, <2>4, LongestIs
  <2>6. CommonPrefix = all
    BY <2>1, <2>3 DEF CommonPrefix
  <2> QED
    BY <2>1, <2>5, <2>6
<1> QED
  BY <1>1, <1>2, <1>3

\* More than one match is at least one.
LEMMA SomeMatch ==
  ASSUME Cardinality(common) > 1
  PROVE  common # {}
<1>1. Cardinality({}) = 0
  BY FS_EmptySet
<1> QED
  BY <1>1

LEMMA TabStep ==
  ASSUME EInv, Tab
  PROVE  EInv'
<1>1. UNCHANGED <<history, curr, cmd_buffer>>
  BY DEF Tab
<1>2. cmd' \in Text /\ IsTerminal(terminal') /\ ScreenShowsCommand'
  <2>1. CASE Complete
    <3>1. PICK n \in common : Show(Append(hints[n], Blank))
      BY <2>1 DEF Complete
    <3>2. Append(hints[n], Blank) \in Text
      BY CommonIs, Typed, Extended
    <3> QED
      BY <3>1, <3>2, ShowStep
  <2>2. CASE List
    <3>1. /\ cmd' = CommonPrefix /\ m_index' = Len(cmd')
          /\ terminal' = write(NewLine, cmd')
      BY <2>2 DEF List
    <3>2. CommonPrefix \in Text
      BY <2>2, SomeMatch, CommonIs DEF List
    <3>3. Behind(NewLine, Prompt)
      BY Typed, NewLineIs DEF NewLine
    <3> QED
      BY <3>1, <3>2, <3>3, LineWritten
  <2>3. CASE Nothing
    BY <2>3, NothingStep
  <2> QED
    BY <2>1, <2>2, <2>3 DEF Tab
<1> QED
  BY <1>1, <1>2 DEF EInv, LinesOK, HistoryOK

LEMMA BackspaceStep ==
  ASSUME EInv, Backspace
  PROVE  EInv'
<1>1. UNCHANGED <<history, curr, cmd_buffer>>
  BY DEF Backspace
<1>2. cmd' \in Text /\ IsTerminal(terminal') /\ ScreenShowsCommand'
  <2>1. CASE m_index > 0
    <3>1. PICK s : s = RemoveAt(cmd, m_index)
      OBVIOUS
    <3>2. PICK n : n = Len(cmd) - m_index
      OBVIOUS
    <3>3. cmd \in Text /\ Len(cmd) \in Nat /\ m_index \in 1 .. Len(cmd)
      BY <2>1, LenProperties DEF EInv, LinesOK, ScreenShowsCommand, Text
    <3>4. s \in Text /\ Len(s) = Len(cmd) - 1
      BY <3>1, <3>3, RemoveIs
    <3>5. /\ cmd' = s /\ m_index' = m_index - 1
          /\ terminal' = Left(write(clearLine, s), n)
      BY <2>1, <3>1, <3>2 DEF Backspace
    <3>6. n \in 0 .. Len(s) /\ m_index' = Len(s) - n
      BY <3>2, <3>3, <3>4, <3>5
    <3>7. Behind(clearLine, Prompt)
      BY CleanIs
    <3> QED
      BY <3>4, <3>5, <3>6, <3>7, LineShown
  <2>2. CASE ~(m_index > 0)
    BY <2>2, NothingStep DEF Backspace
  <2> QED
    BY <2>1, <2>2
<1> QED
  BY <1>1, <1>2 DEF EInv, LinesOK, HistoryOK

LEMMA TypeStep ==
  ASSUME EInv, NEW c \in Chars, Type(c)
  PROVE  EInv'
<1>1. UNCHANGED <<history, curr>>
  BY DEF Type
<1>2. cmd' \in Text /\ IsTerminal(terminal') /\ ScreenShowsCommand'
  <2>1. PICK s : s = InsertAt(cmd, m_index + 1, c)
    OBVIOUS
  <2>2. PICK n : n = Len(cmd) - m_index
    OBVIOUS
  <2>3. cmd \in Text /\ Len(cmd) \in Nat /\ m_index \in 0 .. Len(cmd)
    BY LenProperties DEF EInv, LinesOK, ScreenShowsCommand, Text
  <2>4. s \in Text /\ Len(s) = Len(cmd) + 1
    BY <2>1, <2>3, Typed, InsertIs
  <2>5. /\ cmd' = s /\ m_index' = m_index + 1
        /\ terminal' = Left(write(clearLine, s), n)
    BY <2>1, <2>2 DEF Type
  <2>6. n \in 0 .. Len(s) /\ m_index' = Len(s) - n
    BY <2>2, <2>3, <2>4, <2>5
  <2>7. Behind(clearLine, Prompt)
    BY CleanIs
  <2> QED
    BY <2>4, <2>5, <2>6, <2>7, LineShown
<1>3. cmd_buffer' = cmd'
  BY DEF Type
<1> QED
  BY <1>1, <1>2, <1>3 DEF EInv, LinesOK, HistoryOK

LEMMA UpStep ==
  ASSUME EInv, Up
  PROVE  /\ EInv' /\ curr' \in 1 .. Len(history) /\ cmd' = history[curr']
         /\ cmd' # cmd \/ curr' = 1
<1>1. UNCHANGED <<history, cmd_buffer>> /\ Show(history[curr'])
  BY DEF Up
<1>2. curr' = IF curr = 1 THEN 1
              ELSE IF history[curr - 1] = cmd /\ curr > 2 THEN curr - 2
              ELSE curr - 1
  BY DEF Up
<1>3. /\ Len(history) \in Nat \ {0} /\ curr \in 1 .. Len(history) + 1
      /\ \A n \in 1 .. Len(history) : history[n] \in Text
      /\ \A n \in 1 .. Len(history) - 1 : history[n] # history[n + 1]
  BY EntriesAre DEF EInv, HistoryOK
<1>4. curr' \in 1 .. Len(history)
  BY <1>2, <1>3
<1>5. cmd' = history[curr']
  BY <1>1 DEF Show
<1>6. cmd' \in Text /\ IsTerminal(terminal') /\ ScreenShowsCommand'
  BY <1>1, <1>3, <1>4, ShowStep
<1>7. cmd' # cmd \/ curr' = 1
  <2>1. CASE curr # 1 /\ history[curr - 1] = cmd /\ curr > 2
    <3>1. PICK n : n = curr - 2
      OBVIOUS
    <3>2. n \in 1 .. Len(history) - 1 /\ n + 1 = curr - 1 /\ curr' = n
      BY <1>2, <1>3, <2>1, <3>1
    <3>3. history[n] # history[n + 1]
      BY <1>3, <3>2
    <3> QED
      BY <1>5, <2>1, <3>2, <3>3
  <2>2. CASE ~(curr # 1 /\ history[curr - 1] = cmd /\ curr > 2)
    <3>1. CASE curr \in {1, 2}
      <4>1. curr' = 1
        BY <1>2, <3>1
      <4> QED
        BY <4>1
    <3>2. CASE curr \notin {1, 2}
      <4>1. curr > 2 /\ curr # 1
        BY <1>3, <3>2
      <4>2. history[curr - 1] # cmd /\ curr' = curr - 1
        BY <1>2, <2>2, <4>1
      <4> QED
        BY <1>5, <4>2
    <3> QED
      BY <3>1, <3>2
  <2> QED
    BY <2>1, <2>2
<1>8. curr' \in 1 .. Len(history') + 1
  BY <1>1, <1>3, <1>4
<1>9. EInv'
  BY <1>1, <1>6, <1>8 DEF EInv, LinesOK, HistoryOK
<1> QED
  BY <1>4, <1>5, <1>7, <1>9

LEMMA DownStep ==
  ASSUME EInv, Down
  PROVE  EInv'
<1>1. UNCHANGED <<history, cmd_buffer>>
  BY DEF Down
<1>2. curr' = IF curr > Len(history) THEN curr ELSE curr + 1
  BY DEF Down
<1>3. /\ Len(history) \in Nat \ {0} /\ curr \in 1 .. Len(history) + 1
      /\ \A n \in 1 .. Len(history) : history[n] \in Text
  BY EntriesAre DEF EInv, HistoryOK
<1>4. curr' \in 1 .. Len(history) + 1
  BY <1>2, <1>3
<1>5. cmd' \in Text /\ IsTerminal(terminal') /\ ScreenShowsCommand'
  <2>1. CASE curr < Len(history)
    <3>1. Show(history[curr'])
      BY <2>1 DEF Down
    <3>2. curr' \in 1 .. Len(history)
      BY <1>2, <1>3, <2>1
    <3> QED
      BY <1>3, <3>1, <3>2, ShowStep
  <2>2. CASE ~(curr < Len(history)) /\ curr = Len(history) /\ cmd_buffer # << >>
    <3>1. Show(cmd_buffer) /\ cmd_buffer \in Text
      BY <2>2 DEF Down, EInv, LinesOK
    <3> QED
      BY <3>1, ShowStep
  <2>3. CASE ~(curr < Len(history)) /\ ~(curr = Len(history) /\ cmd_buffer # << >>)
    <3>1. Nothing
      BY <2>3 DEF Down
    <3> QED
      BY <3>1, NothingStep
  <2> QED
    BY <2>1, <2>2, <2>3
<1> QED
  BY <1>1, <1>4, <1>5 DEF EInv, LinesOK, HistoryOK

LEMMA LeftStep ==
  ASSUME EInv, LeftKey
  PROVE  EInv'
<1>1. UNCHANGED <<history, curr, cmd, cmd_buffer>>
  BY DEF LeftKey
<1>2. PICK n : n = m_index - m_index'
  OBVIOUS
<1>3. /\ IsTerminal(terminal) /\ Shows(terminal, Prompt \o cmd)
      /\ m_index \in 0 .. Len(cmd) /\ Len(cmd) \in Nat
      /\ terminal.col = Len(Prompt) + m_index
  BY LenProperties DEF EInv, LinesOK, ScreenShowsCommand, Text
<1>4. m_index' = IF m_index > 0 THEN m_index - 1 ELSE 0
  BY DEF LeftKey
<1>5. n \in Nat /\ n <= terminal.col /\ m_index' \in 0 .. Len(cmd)
  BY <1>2, <1>3, <1>4, Typed
<1>6. terminal' = Left(terminal, n)
  BY <1>2 DEF LeftKey
<1>7. /\ IsTerminal(terminal') /\ terminal'.row = terminal.row
      /\ terminal'.col = terminal.col - n
  BY <1>3, <1>5, <1>6, LeftIs
<1>8. terminal'.col = Len(Prompt) + m_index'
  BY <1>2, <1>3, <1>5, <1>7, Typed
<1>9. Shows(terminal', Prompt \o cmd')
  BY <1>1, <1>3, <1>7 DEF Shows
<1> QED
  BY <1>1, <1>5, <1>7, <1>8, <1>9 DEF EInv, LinesOK, HistoryOK, ScreenShowsCommand

\* The character under the cursor is written once more.
LEMMA RightStep ==
  ASSUME EInv, RightKey
  PROVE  EInv'
<1>1. UNCHANGED <<history, curr, cmd, cmd_buffer>>
  BY DEF RightKey
<1>2. CASE m_index < Len(cmd)
  <2>1. PICK t, s, k : t = write(terminal, s) /\ s = <<cmd[k]>> /\ k = m_index + 1
    OBVIOUS
  <2>2. /\ IsTerminal(terminal) /\ Shows(terminal, Prompt \o cmd) /\ cmd \in Text
        /\ m_index \in 0 .. Len(cmd) /\ Len(cmd) \in Nat
        /\ terminal.col = Len(Prompt) + m_index
    BY LenProperties DEF EInv, LinesOK, ScreenShowsCommand, Text
  <2>3. k \in 1 .. Len(cmd) /\ cmd[k] \in Characters
    BY <1>2, <2>1, <2>2, ElementOfSeq DEF Text
  <2>4. s \in Text /\ Len(s) = 1 /\ s[1] = cmd[k]
    BY <2>1, <2>3 DEF Text
  <2>5. m_index' = k /\ terminal' = t
    BY <1>2, <2>1 DEF RightKey
  <2>6. /\ IsTerminal(t) /\ t.col = Len(Prompt) + k
        /\ \A n \in Columns :
             CellOf(t.row, n) =
               IF terminal.col < n /\ n <= terminal.col + 1 THEN s[n - terminal.col]
                                                            ELSE CellOf(terminal.row, n)
    <3>1. /\ IsTerminal(t) /\ t.col = terminal.col + Len(s)
          /\ \A n \in Columns :
               CellOf(t.row, n) =
                 IF terminal.col < n /\ n <= terminal.col + Len(s)
                 THEN s[n - terminal.col] ELSE CellOf(terminal.row, n)
      BY <2>1, <2>2, <2>4, WriteIs
    <3>2. terminal.col + 1 = Len(Prompt) + k
      BY <2>1, <2>2, Typed
    <3> QED
      BY <2>4, <3>1, <3>2
  <2>7. PICK whole : whole = Prompt \o cmd
    OBVIOUS
  <2>8. whole \in Text
    BY <2>2, <2>7, Typed, Joined
  <2>9. ASSUME NEW n \in Columns
        PROVE  CellOf(t.row, n) = CellOf(whole, n)
    <3>1. CellOf(terminal.row, n) = CellOf(whole, n)
      BY <2>2, <2>7, <2>8, ShowsIs
    <3>2. CASE n = Len(Prompt) + k
      <4>1. CellOf(whole, n) =
               IF n <= Len(Prompt) THEN Prompt[n]
               ELSE IF n <= Len(Prompt) + Len(cmd) THEN cmd[n - Len(Prompt)] ELSE Blank
        BY <2>2, <2>7, Typed, CellOfConcat
      <4>2. /\ ~(n <= Len(Prompt)) /\ n <= Len(Prompt) + Len(cmd)
            /\ n - Len(Prompt) = k
        BY <2>3, <2>2, <3>2, Typed
      <4>3. CellOf(whole, n) = cmd[k]
        BY <4>1, <4>2
      <4>4. terminal.col < n /\ n <= terminal.col + 1 /\ n - terminal.col = 1
        BY <2>1, <2>2, <3>2, Typed
      <4>5. CellOf(t.row, n) = s[1]
        BY <2>6, <4>4
      <4> QED
        BY <2>4, <4>3, <4>5
    <3>3. CASE n # Len(Prompt) + k
      <4>1. ~(terminal.col < n /\ n <= terminal.col + 1)
        BY <2>1, <2>2, <3>3, Typed DEF Columns
      <4> QED
        BY <2>6, <3>1, <4>1
    <3> QED
      BY <3>2, <3>3
  <2>10. Shows(t, whole)
    BY <2>6, <2>8, <2>9, ShowsIs
  <2>11. m_index' \in 0 .. Len(cmd)
    BY <2>2, <2>3, <2>5
  <2> QED
    BY <1>1, <2>5, <2>6, <2>7, <2>10, <2>11
    DEF EInv, LinesOK, HistoryOK, ScreenShowsCommand
<1>3. CASE ~(m_index < Len(cmd))
  <2>1. UNCHANGED <<m_index, terminal>>
    BY <1>3 DEF RightKey
  <2> QED
    BY <1>1, <2>1 DEF EInv, LinesOK, HistoryOK, ScreenShowsCommand
<1> QED
  BY <1>2, <1>3

LEMMA EditorStep ==
  ASSUME EInv, [Next]_vars
  PROVE  EInv'
<1>1. CASE Enter
  BY <1>1, EnterStep
<1>2. CASE Tab
  BY <1>2, TabStep
<1>3. CASE Backspace
  BY <1>3, BackspaceStep
<1>4. CASE Up
  BY <1>4, UpStep
<1>5. CASE Down
  BY <1>5, DownStep
<1>6. CASE LeftKey
  BY <1>6, LeftStep
<1>7. CASE RightKey
  BY <1>7, RightStep
<1>8. ASSUME NEW c \in Chars, Type(c) PROVE EInv'
  BY <1>8, TypeStep
<1>9. CASE UNCHANGED vars
  BY <1>9 DEF vars, EInv, LinesOK, HistoryOK, ScreenShowsCommand
<1> QED
  BY <1>1, <1>2, <1>3, <1>4, <1>5, <1>6, <1>7, <1>8, <1>9 DEF Next

\* TAB goes on with what was typed, and with nothing but a command.
LEMMA TabGoesOn ==
  ASSUME EInv, Tab
  PROVE  /\ IsPrefix(cmd, cmd')
         /\ cmd' # cmd => \E n \in DOMAIN hints :
                            IsPrefix(cmd', Append(hints[n], Blank))
<1>1. cmd \in Text
  BY DEF EInv, LinesOK
<1>2. ASSUME NEW s \in Text
      PROVE  IsPrefix(s, s)
  BY PrefixIs, LenProperties DEF Text
<1>3. CASE Complete
  <2>1. PICK n \in common : Show(Append(hints[n], Blank))
    BY <1>3 DEF Complete
  <2>2. cmd' = Append(hints[n], Blank)
    BY <2>1 DEF Show
  <2>3. /\ n \in DOMAIN hints /\ hints[n] \in Text /\ IsPrefix(cmd, hints[n])
        /\ Append(hints[n], Blank) \in Text
    BY CommonIs, Typed, Extended
  <2>4. IsPrefix(cmd, cmd') /\ IsPrefix(cmd', cmd')
    BY <1>1, <1>2, <2>2, <2>3, Typed, PrefixOfAppend
  <2> QED
    BY <2>2, <2>3, <2>4
<1>4. CASE List
  <2>1. cmd' = CommonPrefix /\ common # {}
    BY <1>4, SomeMatch DEF List
  <2>2. PICK n : n \in common
    BY <2>1
  <2>3. /\ n \in DOMAIN hints /\ hints[n] \in Text
        /\ CommonPrefix \in Text /\ IsPrefix(cmd, CommonPrefix)
        /\ IsPrefix(CommonPrefix, hints[n])
    BY <2>1, <2>2, CommonIs
  <2>4. IsPrefix(CommonPrefix, Append(hints[n], Blank))
    BY <2>3, Typed, PrefixOfAppend
  <2> QED
    BY <2>1, <2>3, <2>4
<1>5. CASE Nothing
  <2>1. cmd' = cmd
    BY <1>5 DEF Nothing
  <2> QED
    BY <1>1, <1>2, <2>1
<1> QED
  BY <1>3, <1>4, <1>5 DEF Tab

-----------------------------------------------------------------------------
(* The editor of readline.cc.  Its instance has the terminal's operators   *)
(* under its own name.                                                     *)

LEMMA SameTerminal ==
  /\ \A t, s : First!write(t, s) = write(t, s)
  /\ \A t, n : First!backSpace(t, n) = backSpace(t, n)
  /\ \A t, text : First!Shows(t, text) <=> Shows(t, text)
  /\ First!NewRow = NewRow /\ First!Text = Text
<1>1. \A t, s : First!write(t, s) = write(t, s)
  BY DEF First!write, write
<1>2. \A t, n : First!Left(t, n) = Left(t, n)
  BY DEF First!Left, Left
<1>3. \A t, n : First!Space(t, n) = Space(t, n)
  BY <1>1, Zenon DEF First!Space, Space, First!Blank, Blank
<1>4. \A t, n : First!backSpace(t, n) = backSpace(t, n)
  BY <1>2, <1>3, Zenon DEF First!backSpace, backSpace
<1>5. \A row, n : First!CellOf(row, n) = CellOf(row, n)
  BY Zenon DEF First!CellOf, CellOf, First!Blank, Blank
<1>6. \A t, text : First!Shows(t, text) <=> Shows(t, text)
  BY <1>5, Zenon DEF First!Shows, Shows
<1> QED
  BY <1>1, <1>4, <1>6, Zenon DEF First!NewRow, NewRow, First!Text, Text

\* The line is shown behind what is in front of it, the entries and the line
\* are lines, and curr is an entry when there is one.
FirstTypeOK ==
  /\ first_cmd \in Text /\ first_front \in Text
  /\ IsTerminal(first_terminal)
  /\ first_history \in Seq(Text)

FirstInv == FirstTypeOK /\ RowShowsLine

FirstRow ==
  /\ Shows(first_terminal, first_front \o first_cmd)
  /\ first_terminal.col = Len(first_front \o first_cmd)

FirstCurr == first_history # << >> => first_curr \in DOMAIN first_history

LEMMA FirstInvIs == FirstInv <=> FirstTypeOK /\ FirstRow /\ FirstCurr
  BY SameTerminal DEF FirstInv, RowShowsLine, First!RowShowsLine, FirstRow, FirstCurr

LEMMA FirstTyped ==
  /\ Prompt \in Text
  /\ \A n \in DOMAIN first_hints : first_hints[n] \in Text
  /\ DOMAIN first_hints = 1 .. Len(first_hints) /\ Len(first_hints) \in Nat
  /\ \A c \in Chars : c \in Characters
<1>1. /\ Prompt \in Text /\ first_hints \in Seq(Text)
      /\ \A c \in Chars : c \in Characters
  BY FirstAssumption, SameTerminal DEF First!ReadLineAssumption
<1> QED
  BY <1>1, LenProperties, ElementOfSeq

\* The line is erased: blanks are written over it.
LEMMA FirstClean ==
  ASSUME NEW t, IsTerminal(t), NEW front \in Text, NEW line \in Text,
         NEW m \in 0 .. Len(line), NEW n, n = Len(line) - m,
         Shows(t, front \o line), t.col = Len(front \o line),
         NEW kept, kept = SubSeq(line, 1, m)
  PROVE  /\ IsTerminal(backSpace(t, n))
         /\ Shows(backSpace(t, n), front \o kept)
         /\ backSpace(t, n).col = Len(front \o kept)
         /\ n = Len(line) => Behind(backSpace(t, n), front)
<1>1. m = Len(line) - n
  BY LenProperties DEF Text
<1>2. /\ Len(line) \in Nat /\ Len(front) \in Nat /\ n \in Nat
      /\ m \in Nat /\ DOMAIN front = 1 .. Len(front)
  BY LenProperties DEF Text
<1>3. kept \in Text /\ Len(kept) = m /\ \A i \in 1 .. m : kept[i] = line[i]
  BY Beginning
<1>4. PICK whole, rest : whole = front \o line /\ rest = front \o kept
  OBVIOUS
<1>5. whole \in Text /\ Len(whole) = Len(front) + Len(line)
  BY <1>4, Joined
<1>6. rest \in Text /\ Len(rest) = Len(front) + m
  BY <1>3, <1>4, Joined
<1>7. PICK u : u = backSpace(t, n)
  OBVIOUS
<1>8. t.col = Len(front) + Len(line) /\ n <= t.col
  BY <1>2, <1>4, <1>5
<1>9. /\ IsTerminal(u) /\ u.col = t.col - n
      /\ \A k \in Columns :
           CellOf(u.row, k) =
             IF t.col - n < k /\ k <= t.col THEN Blank ELSE CellOf(t.row, k)
  BY <1>2, <1>7, <1>8, BackSpaceIs
<1>10. t.col - n = Len(front) + m
  BY <1>1, <1>2, <1>8
<1>11. ASSUME NEW k \in Columns
       PROVE  /\ CellOf(u.row, k) = CellOf(rest, k)
              /\ m = 0 => CellOf(u.row, k) = CellOf(front, k)
  <2>1. CellOf(whole, k) =
           IF k <= Len(front) THEN front[k]
           ELSE IF k <= Len(front) + Len(line) THEN line[k - Len(front)] ELSE Blank
    BY <1>4, CellOfConcat
  <2>2. CellOf(rest, k) =
           IF k <= Len(front) THEN front[k]
           ELSE IF k <= Len(front) + m THEN kept[k - Len(front)] ELSE Blank
    BY <1>3, <1>4, CellOfConcat
  <2>3. CellOf(t.row, k) = CellOf(whole, k)
    BY <1>4, <1>5, ShowsIs
  <2>4. CellOf(front, k) = IF k <= Len(front) THEN front[k] ELSE Blank
    BY <1>2 DEF CellOf, Columns
  <2>5. CASE k <= Len(front)
    BY <1>2, <1>8, <1>9, <1>10, <2>1, <2>2, <2>3, <2>4, <2>5 DEF Columns
  <2>6. CASE Len(front) < k /\ k <= Len(front) + m
    <3>1. k - Len(front) \in 1 .. m
      BY <1>2, <2>6 DEF Columns
    <3>2. kept[k - Len(front)] = line[k - Len(front)]
      BY <1>3, <3>1
    <3>3. ~(t.col - n < k) /\ k <= Len(front) + Len(line) /\ ~(k <= Len(front))
          /\ m # 0
      BY <1>2, <1>10, <2>6 DEF Columns
    <3> QED
      BY <1>9, <2>1, <2>2, <2>3, <2>6, <3>2, <3>3
  <2>7. CASE Len(front) + m < k
    <3>1. t.col - n < k /\ ~(k <= Len(front)) /\ ~(k <= Len(front) + m)
      BY <1>2, <1>10, <2>7 DEF Columns
    <3>2. CellOf(rest, k) = Blank /\ CellOf(front, k) = Blank
      BY <2>2, <2>4, <3>1
    <3>3. CellOf(u.row, k) = IF k <= t.col THEN Blank ELSE CellOf(t.row, k)
      BY <1>9, <3>1
    <3>4. ~(k <= t.col) => CellOf(whole, k) = Blank
      BY <1>8, <2>1, <3>1
    <3> QED
      BY <2>3, <3>2, <3>3, <3>4
  <2> QED
    BY <1>2, <2>5, <2>6, <2>7 DEF Columns
<1>12. Shows(u, rest)
  BY <1>6, <1>9, <1>11, ShowsIs
<1>13. n = Len(line) => Behind(u, front)
  BY <1>1, <1>2, <1>9, <1>10, <1>11 DEF Behind
<1> QED
  BY <1>3, <1>4, <1>6, <1>7, <1>9, <1>10, <1>12, <1>13

LEMMA FirstShow ==
  ASSUME FirstTypeOK, FirstRow, UNCHANGED first_front,
         NEW s \in Text, First!Show(s)
  PROVE  /\ first_cmd' \in Text /\ IsTerminal(first_terminal') /\ FirstRow'
<1>1. PICK t, n : t = first_terminal /\ n = Len(first_cmd)
  OBVIOUS
<1>2. n \in 0 .. Len(first_cmd)
  BY <1>1, LenProperties DEF FirstTypeOK, Text
<1>3. PICK u : u = backSpace(t, n)
  OBVIOUS
<1>4. Behind(u, first_front)
  <2>1. PICK kept, m : kept = SubSeq(first_cmd, 1, m) /\ m = 0
    OBVIOUS
  <2>2. m \in 0 .. Len(first_cmd) /\ n = Len(first_cmd) - m
    BY <1>1, <1>2, <2>1
  <2> QED
    BY <1>1, <1>3, <2>1, <2>2, FirstClean DEF FirstTypeOK, FirstRow
<1>5. PICK w : w = write(u, s)
  OBVIOUS
<1>6. first_cmd' = s /\ first_terminal' = w
  BY <1>1, <1>3, <1>5, SameTerminal DEF First!Show, First!clearLine
<1>7. /\ IsTerminal(w) /\ w.col = Len(first_front) + Len(s)
      /\ first_front \o s \in Text /\ Shows(w, first_front \o s)
  BY <1>4, <1>5, WriteBehind DEF FirstTypeOK
<1>8. Len(first_front \o s) = Len(first_front) + Len(s)
  BY Joined DEF FirstTypeOK
<1> QED
  BY <1>6, <1>7, <1>8 DEF FirstRow

LEMMA FirstNothing ==
  ASSUME FirstTypeOK, FirstRow, UNCHANGED first_front, First!Nothing
  PROVE  /\ first_cmd' \in Text /\ IsTerminal(first_terminal') /\ FirstRow'
  BY DEF FirstTypeOK, FirstRow, First!Nothing

\* The row when a line begins.
LEMMA FirstNewRow ==
  ASSUME NEW front \in Text
  PROVE  /\ IsTerminal(write(NewRow, front)) /\ << >> \in Text
         /\ Shows(write(NewRow, front), front \o << >>)
         /\ write(NewRow, front).col = Len(front \o << >>)
<1>1. PICK t, s : t = write(NewRow, front) /\ s = << >>
  OBVIOUS
<1>2. Behind(t, front)
  BY <1>1, NewLineIs
<1>3. s \in Text /\ front \o s = front
  BY <1>1, EmptySeq, ConcatEmptySeq DEF Text
<1>4. Shows(t, front) /\ t.col = Len(front) /\ IsTerminal(t)
  BY <1>2, ShowsIs DEF Behind
<1> QED
  BY <1>1, <1>3, <1>4

LEMMA InitFirstInv == First!Init => FirstInv
<1> SUFFICES ASSUME First!Init PROVE FirstTypeOK /\ FirstRow /\ FirstCurr
  BY FirstInvIs
<1>1. /\ first_cmd = << >> /\ first_front = Prompt /\ first_history = << >>
      /\ first_terminal = write(NewRow, Prompt)
  BY SameTerminal DEF First!Init
<1>2. << >> \in Seq(Text)
  BY EmptySeq
<1> QED
  BY <1>1, <1>2, FirstTyped, FirstNewRow DEF FirstTypeOK, FirstRow, FirstCurr

\* The entries are lines.
LEMMA FirstEntries ==
  ASSUME FirstTypeOK
  PROVE  /\ Len(first_history) \in Nat /\ DOMAIN first_history = 1 .. Len(first_history)
         /\ first_history # << >> => Len(first_history) # 0
         /\ \A n \in DOMAIN first_history : first_history[n] \in Text
<1>1. first_history \in Seq(Text)
  BY DEF FirstTypeOK
<1> QED
  BY <1>1, LenProperties, ElementOfSeq, EmptySeq

\* Of a line that is read the text stays, the row is a new one, and curr is
\* the last entry, even if appending the line has moved the others.
LEMMA FirstEnter ==
  ASSUME FirstInv, First!Enter
  PROVE  FirstInv'
<1>1. FirstTypeOK /\ FirstRow /\ FirstCurr
  BY FirstInvIs
<1>2. /\ first_cmd' = << >>
      /\ first_terminal' = write(NewRow, first_front')
  BY SameTerminal DEF First!Enter
<1>3. /\ first_front' \in Text /\ first_history' \in Seq(Text) /\ FirstCurr'
  <2>1. CASE first_cmd = << >>
    BY <1>1, <2>1, FirstTyped DEF First!Enter, FirstTypeOK, FirstCurr
  <2>2. CASE first_cmd # << >>
    <3>1. /\ first_history' = Append(first_history, first_cmd)
          /\ first_curr' = Len(first_history) + 1 /\ first_front' = << >>
      BY <2>2 DEF First!Enter, First!CurrAfter
    <3>2. first_history \in Seq(Text) /\ first_cmd \in Text
      BY <1>1 DEF FirstTypeOK
    <3>3. /\ first_history' \in Seq(Text)
          /\ Len(first_history') = Len(first_history) + 1
      BY <3>1, <3>2, AppendProperties
    <3>4. Len(first_history) \in Nat /\ DOMAIN first_history' = 1 .. Len(first_history')
      BY <3>2, <3>3, LenProperties
    <3>5. first_curr' \in DOMAIN first_history'
      BY <3>1, <3>3, <3>4
    <3> QED
      BY <3>1, <3>3, <3>5, EmptySeq DEF FirstCurr, Text
  <2> QED
    BY <2>1, <2>2
<1>4. FirstTypeOK' /\ FirstRow'
  BY <1>2, <1>3, FirstNewRow DEF FirstTypeOK, FirstRow
<1> QED
  <2>1. FirstInv' <=> FirstTypeOK' /\ FirstRow' /\ FirstCurr'
    BY FirstInvIs, PTL
  <2> QED
    BY <1>3, <1>4, <2>1

LEMMA FirstTab ==
  ASSUME FirstTypeOK, FirstRow, FirstCurr, First!Tab
  PROVE  FirstTypeOK' /\ FirstRow' /\ FirstCurr'
<1>1. UNCHANGED <<first_history, first_curr, first_front>>
  BY DEF First!Tab
<1> DEFINE equal == {n \in DOMAIN first_hints : First!Equal(first_cmd, first_hints[n])}
<1>2. IF equal = {} THEN First!Nothing ELSE First!Show(first_hints[First!Min(equal)])
  BY DEF First!Tab
<1>3. First!Min(equal) = Min(equal)
  BY Zenon DEF First!Min, Min
<1>4. equal \in SUBSET (1 .. Len(first_hints))
  BY FirstTyped
<1> HIDE DEF equal
<1>5. first_cmd' \in Text /\ IsTerminal(first_terminal') /\ FirstRow'
  <2>1. CASE equal = {}
    BY <1>1, <1>2, <2>1, FirstNothing
  <2>2. CASE equal # {}
    <3>1. Min(equal) \in 1 .. Len(first_hints)
      BY <1>4, <2>2, FirstTyped, Bounds
    <3>2. first_hints[Min(equal)] \in Text
      BY <3>1, FirstTyped
    <3> QED
      BY <1>1, <1>2, <1>3, <2>2, <3>2, FirstShow
  <2> QED
    BY <2>1, <2>2
<1> QED
  BY <1>1, <1>5 DEF FirstTypeOK, FirstCurr

LEMMA FirstBackspace ==
  ASSUME FirstTypeOK, FirstRow, FirstCurr, First!Backspace
  PROVE  FirstTypeOK' /\ FirstRow' /\ FirstCurr'
<1>1. UNCHANGED <<first_history, first_curr, first_front>>
  BY DEF First!Backspace
<1>2. first_cmd' \in Text /\ IsTerminal(first_terminal') /\ FirstRow'
  <2>1. CASE first_cmd = << >>
    BY <1>1, <2>1, FirstNothing DEF First!Backspace
  <2>2. CASE first_cmd # << >>
    <3>1. first_cmd' = First!Front(first_cmd) /\ first_terminal' = backSpace(first_terminal, 1)
      BY <2>2, SameTerminal DEF First!Backspace
    <3>2. first_cmd' = SubSeq(first_cmd, 1, Len(first_cmd) - 1)
      BY <3>1 DEF First!Front
    <3>3. 1 \in 0 .. Len(first_cmd)
      BY <2>2, EmptySeq, LenProperties DEF FirstTypeOK, Text
    <3>4. PICK kept : kept = SubSeq(first_cmd, 1, Len(first_cmd) - 1)
      OBVIOUS
    <3>5. PICK t, m, n, front, line :
            /\ t = first_terminal /\ front = first_front /\ line = first_cmd
            /\ m = Len(line) - 1 /\ n = 1
      OBVIOUS
    <3>6. m \in 0 .. Len(line) /\ n = Len(line) - m
      BY <3>3, <3>5, LenProperties DEF FirstTypeOK, Text
    <3>7. /\ IsTerminal(t) /\ front \in Text /\ line \in Text
          /\ Shows(t, front \o line) /\ t.col = Len(front \o line)
          /\ kept = SubSeq(line, 1, m)
      BY <3>4, <3>5 DEF FirstTypeOK, FirstRow
    <3> HIDE <3>5
    <3>8. /\ IsTerminal(backSpace(t, n))
          /\ Shows(backSpace(t, n), front \o kept)
          /\ backSpace(t, n).col = Len(front \o kept)
      <4>1. IsTerminal(backSpace(t, n))
        BY <3>6, <3>7, FirstClean
      <4>2. Shows(backSpace(t, n), front \o kept)
        BY <3>6, <3>7, FirstClean
      <4>3. backSpace(t, n).col = Len(front \o kept)
        BY <3>6, <3>7, FirstClean
      <4> QED
        BY <4>1, <4>2, <4>3
    <3>9. kept \in Text
      BY <3>6, <3>7, Beginning
    <3> QED
      BY <1>1, <3>1, <3>2, <3>4, <3>5, <3>8, <3>9 DEF FirstRow
  <2> QED
    BY <2>1, <2>2
<1> QED
  BY <1>1, <1>2 DEF FirstTypeOK, FirstCurr

LEMMA FirstUp ==
  ASSUME FirstTypeOK, FirstRow, FirstCurr, First!Up
  PROVE  FirstTypeOK' /\ FirstRow' /\ FirstCurr'
<1>1. /\ UNCHANGED <<first_history, first_front>> /\ first_history # << >>
      /\ First!Show(first_history[first_curr])
      /\ first_curr' = IF first_curr = 1 THEN 1 ELSE first_curr - 1
  BY DEF First!Up
<1>2. /\ first_curr \in 1 .. Len(first_history) /\ Len(first_history) \in Nat
      /\ DOMAIN first_history = 1 .. Len(first_history)
      /\ first_history[first_curr] \in Text
  BY <1>1, FirstEntries DEF FirstCurr
<1>3. first_cmd' \in Text /\ IsTerminal(first_terminal') /\ FirstRow'
  BY <1>1, <1>2, FirstShow
<1>4. first_curr' \in 1 .. Len(first_history)
  <2>0. first_curr' = IF first_curr = 1 THEN 1 ELSE first_curr - 1
    BY <1>1
  <2>1. CASE first_curr = 1
    BY <1>2, <2>0, <2>1
  <2>2. CASE first_curr # 1
    <3>1. first_curr' = first_curr - 1
      BY <2>0, <2>2
    <3>2. first_curr - 1 \in 1 .. Len(first_history)
      BY <1>2, <2>2
    <3> QED
      BY <3>1, <3>2
  <2> QED
    BY <2>1, <2>2
<1> QED
  BY <1>1, <1>2, <1>3, <1>4 DEF FirstTypeOK, FirstCurr

LEMMA FirstDown ==
  ASSUME FirstTypeOK, FirstRow, FirstCurr, First!Down
  PROVE  FirstTypeOK' /\ FirstRow' /\ FirstCurr'
<1>1. UNCHANGED <<first_history, first_front>> /\ first_history # << >>
  BY DEF First!Down
<1>2. /\ first_curr \in 1 .. Len(first_history) /\ Len(first_history) \in Nat
      /\ DOMAIN first_history = 1 .. Len(first_history)
      /\ \A n \in DOMAIN first_history : first_history[n] \in Text
  BY <1>1, FirstEntries DEF FirstCurr
<1>3. CASE first_curr = Len(first_history)
  <2>1. UNCHANGED <<first_curr, first_cmd, first_terminal>>
    BY <1>3 DEF First!Down
  <2> QED
    BY <1>1, <2>1 DEF FirstTypeOK, FirstRow, FirstCurr
<1>4. CASE first_curr # Len(first_history)
  <2>1. first_curr' = first_curr + 1 /\ First!Show(first_history[first_curr'])
    BY <1>4 DEF First!Down
  <2>2. first_curr' \in 1 .. Len(first_history)
    <3>1. first_curr \in 1 .. Len(first_history) /\ Len(first_history) \in Nat
      BY <1>2
    <3>2. first_curr + 1 \in 1 .. Len(first_history)
      BY <1>4, <3>1
    <3> QED
      BY <2>1, <3>2
  <2>3. first_history[first_curr'] \in Text
    BY <1>2, <2>2
  <2>4. first_cmd' \in Text /\ IsTerminal(first_terminal') /\ FirstRow'
    BY <1>1, <2>1, <2>3, FirstShow
  <2> QED
    BY <1>1, <1>2, <2>2, <2>4 DEF FirstTypeOK, FirstCurr
<1> QED
  BY <1>3, <1>4

LEMMA FirstType ==
  ASSUME FirstTypeOK, FirstRow, FirstCurr, NEW c \in Chars, First!Type(c)
  PROVE  FirstTypeOK' /\ FirstRow' /\ FirstCurr'
<1>1. /\ UNCHANGED <<first_history, first_curr, first_front>>
      /\ first_terminal' = write(first_terminal, <<c>>)
      /\ first_cmd' = Append(first_cmd, c)
  BY SameTerminal DEF First!Type
<1>2. PICK t, s, line : t = first_terminal /\ s = <<c>> /\ line = first_front \o first_cmd
  OBVIOUS
<1>3. /\ first_front \in Text /\ first_cmd \in Text /\ s \in Text
      /\ line \in Text
  BY <1>2, FirstTyped, Joined DEF FirstTypeOK, Text
<1>4. Behind(t, line)
  BY <1>2, <1>3, ShowsIs DEF Behind, FirstTypeOK, FirstRow
<1>5. /\ IsTerminal(write(t, s)) /\ write(t, s).col = Len(line) + Len(s)
      /\ Shows(write(t, s), line \o s)
  BY <1>3, <1>4, WriteBehind
<1>6. first_cmd' = first_cmd \o s /\ first_cmd' \in Text
  BY <1>1, <1>2, <1>3, FirstTyped, AppendIsConcat, Extended DEF Text
<1>7. line \o s = first_front \o first_cmd'
  BY <1>2, <1>3, <1>6, ConcatAssociative DEF Text
<1>8. Len(line \o s) = Len(line) + Len(s)
  BY <1>3, Joined
<1> QED
  BY <1>1, <1>2, <1>5, <1>6, <1>7, <1>8 DEF FirstTypeOK, FirstRow, FirstCurr

LEMMA FirstStep ==
  ASSUME FirstInv, [First!Next]_first_vars
  PROVE  FirstInv'
<1>1. FirstTypeOK /\ FirstRow /\ FirstCurr
  BY FirstInvIs
<1>2. FirstInv' <=> FirstTypeOK' /\ FirstRow' /\ FirstCurr'
  BY FirstInvIs, PTL
<1>3. CASE First!Enter
  BY <1>3, FirstEnter
<1>4. CASE First!Tab
  BY <1>1, <1>2, <1>4, FirstTab
<1>5. CASE First!Backspace
  BY <1>1, <1>2, <1>5, FirstBackspace
<1>6. CASE First!Up
  BY <1>1, <1>2, <1>6, FirstUp
<1>7. CASE First!Down
  BY <1>1, <1>2, <1>7, FirstDown
<1>8. ASSUME NEW c \in Chars, First!Type(c) PROVE FirstInv'
  BY <1>1, <1>2, <1>8, FirstType
<1>9. CASE UNCHANGED first_vars
  BY <1>1, <1>2, <1>9 DEF first_vars, FirstTypeOK, FirstRow, FirstCurr
<1> QED
  BY <1>3, <1>4, <1>5, <1>6, <1>7, <1>8, <1>9 DEF First!Next

-----------------------------------------------------------------------------
(* Both. *)

LEMMA EditorsStep ==
  ASSUME [EditorsNext]_<<editor, vars, first_vars>>
  PROVE  [Next]_vars /\ [First!Next]_first_vars
  BY DEF EditorsNext

\* The inductive invariants of both editors.
THEOREM EditorsCorrect == EditorsSpec => [](EInv /\ FirstInv)
<1>1. EditorsInit => EInv /\ FirstInv
  BY InitEInv, InitFirstInv DEF EditorsInit
<1>2. EInv /\ FirstInv /\ [EditorsNext]_<<editor, vars, first_vars>> => (EInv /\ FirstInv)'
  BY EditorsStep, EditorStep, FirstStep
<1> QED
  BY <1>1, <1>2, PTL DEF EditorsSpec

\* The editor of cmdline.cpp (readLine, clearLine, backSpace): whatever is
\* typed, erased, completed or fetched from the history, with the cursor
\* anywhere, the row shows the prompt and the line and nothing of what was
\* there before, and the cursor is where the next character goes.
THEOREM ScreenIsCommand == EditorsSpec => []ScreenShowsCommand
<1>1. EInv => ScreenShowsCommand
  BY DEF EInv
<1> QED
  BY <1>1, EditorsCorrect, PTL

\* The editor of readline.cc: the row shows the line behind what was there
\* before it, the cursor is at its end, and the iterator into the history is
\* an entry whenever there is one.
THEOREM RowIsLine == EditorsSpec => []RowShowsLine
<1>1. FirstInv => RowShowsLine
  BY DEF FirstInv
<1> QED
  BY <1>1, EditorsCorrect, PTL

\* Going up in the history (readLine on the arrow) shows another entry each
\* time, until the first.
THEOREM UpGoesOn == EditorsSpec => UpShowsAnother
<1>1. EInv /\ [EditorsNext]_<<editor, vars, first_vars>> =>
        [Up => cmd' \in Range(history) /\ (cmd' # cmd \/ curr' = 1)]_vars
  <2> SUFFICES ASSUME EInv, Up
               PROVE  cmd' \in Range(history) /\ (cmd' # cmd \/ curr' = 1)
    OBVIOUS
  <2>1. /\ curr' \in 1 .. Len(history) /\ cmd' = history[curr']
        /\ cmd' # cmd \/ curr' = 1
    BY UpStep
  <2>2. DOMAIN history = 1 .. Len(history)
    BY EntriesAre DEF EInv
  <2> QED
    BY <2>1, <2>2, Zenon DEF Range
<1> QED
  BY <1>1, EditorsCorrect, PTL DEF EditorsSpec, UpShowsAnother

\* TAB (compareHints and the completion in readLine) goes on with what was
\* typed, and with nothing but what some command goes on with.
THEOREM TabCompletes == EditorsSpec => TabExtends
<1>1. EInv /\ [EditorsNext]_<<editor, vars, first_vars>> =>
        [Tab => /\ IsPrefix(cmd, cmd')
                /\ cmd' # cmd => \E n \in DOMAIN hints :
                                   IsPrefix(cmd', Append(hints[n], Blank))]_vars
  BY TabGoesOn
<1> QED
  BY <1>1, EditorsCorrect, PTL DEF EditorsSpec, TabExtends

-----------------------------------------------------------------------------
(* GzipHelper: the inductive invariant. *)

HelperTypeOK ==
  /\ stream \in {"none", "open", "finished", "failed"}
  /\ inside \in Seq(Int)
  /\ total_out \in Nat /\ m_size \in Nat /\ given \in Nat
  /\ m_data \in [1 .. Capacity -> Int]
  /\ file \in Seq(Int)
  /\ uses \in 0 .. 2 /\ calls \in Nat

FlagsOK == overrun \in BOOLEAN /\ written \in BOOLEAN

\* The unit in place k of the stream: the header is unit 0, and the unit that
\* was given as the k-th stands behind k others.
PutOut == \A k \in 1 .. m_size : m_data[k] = k - 1

\* What was given has been put out or is inside, in order.
InOrder ==
  /\ m_size + Len(inside) = given + 1
  /\ \A k \in 1 .. Len(inside) : inside[k] = m_size + k - 1
  /\ PutOut

\* Units are lost only when the first of the output fills the buffer: then no
\* unit is put out any more without overrunning it.
Filled == m_size = Capacity /\ given >= Capacity

Ended ==
  /\ m_size = given + 2
  /\ m_data[m_size] = Trailer
  /\ \A k \in 1 .. m_size - 1 : m_data[k] = k - 1

FirstUse ==
  /\ overrun \/ stream = "failed" => given + 2 > Capacity
  /\ stream = "open" /\ ~overrun =>
       total_out = m_size /\ m_size <= Capacity /\ (InOrder \/ Filled)
  /\ stream = "finished" /\ ~overrun => m_size <= Capacity /\ Ended

Dumped == Len(file) >= m_size /\ \A k \in 1 .. m_size : file[k] = m_data[k]

HelperInv ==
  /\ HelperTypeOK /\ FlagsOK
  /\ uses = 0 => stream = "none" /\ m_size = 0 /\ ~overrun
  /\ uses = 1 => FirstUse
  /\ written => m_size <= Capacity /\ Dumped

-----------------------------------------------------------------------------
(* Sequences. *)

LEMMA Cut ==
  ASSUME NEW held \in Seq(Int), NEW out \in 0 .. Len(held)
  PROVE  /\ SubSeq(held, 1, out) \in Seq(Int) /\ Len(SubSeq(held, 1, out)) = out
         /\ \A i \in 1 .. out : SubSeq(held, 1, out)[i] = held[i]
         /\ SubSeq(held, out + 1, Len(held)) \in Seq(Int)
         /\ Len(SubSeq(held, out + 1, Len(held))) = Len(held) - out
         /\ \A i \in 1 .. Len(held) - out :
              SubSeq(held, out + 1, Len(held))[i] = held[out + i]
<1>1. /\ Len(held) \in Nat /\ out \in Nat /\ out <= Len(held)
      /\ \A i \in 1 .. Len(held) : held[i] \in Int
  BY LenProperties, ElementOfSeq
<1>2. /\ SubSeq(held, 1, out) \in Seq(Int) /\ Len(SubSeq(held, 1, out)) = out
      /\ \A i \in 1 .. out : SubSeq(held, 1, out)[i] = held[i]
  <2>1. 1 \in Int /\ out \in Int /\ \A i \in 1 .. out : held[i] \in Int
    BY <1>1
  <2>2. /\ SubSeq(held, 1, out) \in Seq(Int)
        /\ Len(SubSeq(held, 1, out)) = IF 1 <= out THEN out - 1 + 1 ELSE 0
        /\ \A i \in 1 .. out - 1 + 1 : SubSeq(held, 1, out)[i] = held[1 + i - 1]
    BY <2>1, SubSeqProperties
  <2>3. out - 1 + 1 = out /\ (~(1 <= out) => out = 0) /\ \A i \in 1 .. out : 1 + i - 1 = i
    BY <1>1
  <2> QED
    BY <2>2, <2>3
<1>3. /\ SubSeq(held, out + 1, Len(held)) \in Seq(Int)
      /\ Len(SubSeq(held, out + 1, Len(held))) = Len(held) - out
      /\ \A i \in 1 .. Len(held) - out :
           SubSeq(held, out + 1, Len(held))[i] = held[out + i]
  <2>1. PICK p, q : p = out + 1 /\ q = Len(held)
    OBVIOUS
  <2>2. p \in Int /\ q \in Int /\ \A i \in p .. q : held[i] \in Int
    BY <1>1, <2>1
  <2>3. /\ SubSeq(held, p, q) \in Seq(Int)
        /\ Len(SubSeq(held, p, q)) = IF p <= q THEN q - p + 1 ELSE 0
        /\ \A i \in 1 .. q - p + 1 : SubSeq(held, p, q)[i] = held[p + i - 1]
    BY <2>2, SubSeqProperties
  <2>4. /\ q - p + 1 = Len(held) - out /\ (~(p <= q) => Len(held) - out = 0)
        /\ \A i \in 1 .. Len(held) - out : p + i - 1 = out + i
    BY <1>1, <2>1
  <2> QED
    BY <2>1, <2>3, <2>4
<1> QED
  BY <1>2, <1>3

LEMMA PartIs ==
  ASSUME NEW n \in Nat, given \in Nat
  PROVE  /\ Part(n) \in Seq(Int) /\ Len(Part(n)) = n
         /\ \A k \in 1 .. n : Part(n)[k] = given + k
<1>1. \A k \in 1 .. n : given + k \in Int
  OBVIOUS
<1>2. Part(n) \in Seq(Int) /\ Len(Part(n)) = n
  BY <1>1, IsASeq DEF Part
<1> QED
  BY <1>2 DEF Part

Held(n, taken) == inside \o SubSeq(Part(n), 1, taken)

AllHeld(n) == Append(inside \o Part(n), Trailer)

\* What deflate holds when it has taken a number of units: they follow those
\* it had inside.
LEMMA Taken ==
  ASSUME HelperTypeOK, NEW n \in Nat, NEW taken \in 0 .. n
  PROVE  /\ Held(n, taken) \in Seq(Int) /\ Len(Held(n, taken)) = Len(inside) + taken
         /\ Len(inside) \in Nat
         /\ m_size + Len(inside) = given + 1
              /\ (\A k \in 1 .. Len(inside) : inside[k] = m_size + k - 1)
            => \A k \in 1 .. Len(Held(n, taken)) : Held(n, taken)[k] = m_size + k - 1
<1>0. PICK held : held = inside \o SubSeq(Part(n), 1, taken) /\ held = Held(n, taken)
  BY DEF Held
<1>1. PICK part : part = SubSeq(Part(n), 1, taken)
  OBVIOUS
<1>2. /\ part \in Seq(Int) /\ Len(part) = taken
      /\ \A k \in 1 .. taken : part[k] = given + k
  <2>1. PICK whole : whole = Part(n)
    OBVIOUS
  <2>2. /\ whole \in Seq(Int) /\ Len(whole) = n
        /\ \A k \in 1 .. n : whole[k] = given + k
    BY <2>1, PartIs DEF HelperTypeOK
  <2>3. taken \in 0 .. Len(whole)
    BY <2>2
  <2>4. /\ SubSeq(whole, 1, taken) \in Seq(Int) /\ Len(SubSeq(whole, 1, taken)) = taken
        /\ \A i \in 1 .. taken : SubSeq(whole, 1, taken)[i] = whole[i]
    BY <2>2, <2>3, Cut
  <2> QED
    BY <1>1, <2>1, <2>2, <2>4
<1>3. inside \in Seq(Int) /\ Len(inside) \in Nat /\ m_size \in Nat /\ given \in Nat
  BY LenProperties DEF HelperTypeOK
<1>4. /\ held \in Seq(Int) /\ Len(held) = Len(inside) + taken
      /\ \A i \in 1 .. Len(inside) + taken :
           held[i] = IF i <= Len(inside) THEN inside[i] ELSE part[i - Len(inside)]
  BY <1>0, <1>1, <1>2, <1>3, ConcatProperties
<1>5. ASSUME m_size + Len(inside) = given + 1,
             \A k \in 1 .. Len(inside) : inside[k] = m_size + k - 1,
             NEW k \in 1 .. Len(held)
      PROVE  held[k] = m_size + k - 1
  <2>1. CASE k <= Len(inside)
    <3>1. k \in 1 .. Len(inside) /\ k \in 1 .. Len(inside) + taken
      BY <1>3, <1>4, <2>1
    <3> QED
      BY <1>4, <1>5, <2>1, <3>1
  <2>2. CASE ~(k <= Len(inside))
    <3>1. PICK i : i = k - Len(inside)
      OBVIOUS
    <3>2. i \in 1 .. taken /\ k \in 1 .. Len(inside) + taken
      BY <1>3, <1>4, <2>2, <3>1
    <3>3. held[k] = part[i] /\ part[i] = given + i
      BY <1>2, <1>4, <2>2, <3>1, <3>2
    <3>4. given + i = m_size + k - 1
      BY <1>3, <1>5, <3>1, <3>2
    <3> QED
      BY <3>3, <3>4
  <2> QED
    BY <2>1, <2>2
<1> QED
  BY <1>0, <1>3, <1>4, <1>5

\* With the trailer behind all of a source.
LEMMA Finished ==
  ASSUME HelperTypeOK, NEW n \in Nat
  PROVE  /\ AllHeld(n) \in Seq(Int) /\ Len(AllHeld(n)) = Len(inside) + n + 1
         /\ Len(inside) \in Nat /\ AllHeld(n)[Len(AllHeld(n))] = Trailer
         /\ m_size + Len(inside) = given + 1
              /\ (\A k \in 1 .. Len(inside) : inside[k] = m_size + k - 1)
            => \A k \in 1 .. Len(AllHeld(n)) - 1 : AllHeld(n)[k] = m_size + k - 1
<1>1. PICK taken \in 0 .. n : taken = n /\ Held(n, taken) = inside \o Part(n)
  <2>1. PICK part \in Seq(Int) : part = Part(n) /\ Len(part) = n
    BY PartIs DEF HelperTypeOK
  <2>2. SubSeq(part, 1, Len(part)) = part
    BY SubSeqFull
  <2>3. n \in 0 .. n
    OBVIOUS
  <2> QED
    BY <2>1, <2>2, <2>3 DEF Held
<1>2. /\ Held(n, taken) \in Seq(Int) /\ Len(Held(n, taken)) = Len(inside) + taken
      /\ Len(inside) \in Nat
      /\ m_size + Len(inside) = given + 1
              /\ (\A k \in 1 .. Len(inside) : inside[k] = m_size + k - 1)
            => \A k \in 1 .. Len(Held(n, taken)) : Held(n, taken)[k] = m_size + k - 1
  BY Taken, Zenon
<1>3. PICK front \in Seq(Int) :
        /\ front = Held(n, taken)
        /\ Len(front) = Len(inside) + n /\ Len(inside) \in Nat
        /\ m_size + Len(inside) = given + 1
              /\ (\A k \in 1 .. Len(inside) : inside[k] = m_size + k - 1)
            => \A k \in 1 .. Len(front) : front[k] = m_size + k - 1
  BY <1>1, <1>2
<1>4. PICK held \in Seq(Int) :
        /\ held = AllHeld(n)
        /\ Len(held) = Len(front) + 1
        /\ \A k \in 1 .. Len(front) : held[k] = front[k]
        /\ held[Len(front) + 1] = Trailer
  <2>1. PICK last \in Int : last = Trailer
    BY DEF Trailer
  <2>2. /\ Append(front, last) \in Seq(Int)
        /\ Len(Append(front, last)) = Len(front) + 1
        /\ \A k \in 1 .. Len(front) : Append(front, last)[k] = front[k]
        /\ Append(front, last)[Len(front) + 1] = last
    BY AppendProperties
  <2>3. AllHeld(n) = Append(front, last)
    BY <1>1, <1>3, <2>1 DEF AllHeld
  <2> QED
    BY <2>1, <2>2, <2>3
<1>5. Len(held) - 1 = Len(front) /\ Len(held) = Len(inside) + n + 1
  BY <1>3, <1>4
<1> QED
  BY <1>3, <1>4, <1>5

-----------------------------------------------------------------------------
(* What deflate puts out is behind what it has put out before. *)

LEMMA PutIs ==
  ASSUME HelperTypeOK, NEW bytes \in Seq(Int), Put(bytes)
  PROVE  /\ m_data' \in [1 .. Capacity -> Int]
         /\ overrun' \in BOOLEAN
         /\ total_out' = total_out + Len(bytes) /\ total_out' \in Nat
         /\ overrun' <=> m_size + Len(bytes) > Capacity
         /\ \A k \in 1 .. Capacity : k <= m_size => m_data'[k] = m_data[k]
         /\ \A i \in 1 .. Len(bytes) :
              m_size + i <= Capacity => m_data'[m_size + i] = bytes[i]
<1>1. /\ Len(bytes) \in Nat /\ DOMAIN bytes = 1 .. Len(bytes)
      /\ \A i \in 1 .. Len(bytes) : bytes[i] \in Int
      /\ m_size \in Nat /\ Capacity \in Nat
      /\ m_data \in [1 .. Capacity -> Int] /\ total_out \in Nat
  BY LenProperties, ElementOfSeq, GzipAssumption DEF HelperTypeOK
<1>2. m_data' = [k \in 1 .. Capacity |->
                   IF k - m_size \in 1 .. Len(bytes) THEN bytes[k - m_size]
                                                    ELSE m_data[k]]
  BY <1>1 DEF Put, next_out
<1>3. m_data' \in [1 .. Capacity -> Int]
  BY <1>1, <1>2
<1>4. \A k \in 1 .. Capacity : k <= m_size => m_data'[k] = m_data[k]
  <2> SUFFICES ASSUME NEW k \in 1 .. Capacity, k <= m_size
               PROVE  m_data'[k] = m_data[k]
    OBVIOUS
  <2>1. ~(k - m_size \in 1 .. Len(bytes))
    BY <1>1
  <2> QED
    BY <1>2, <2>1
<1>5. ASSUME NEW i \in 1 .. Len(bytes), m_size + i <= Capacity
      PROVE  m_data'[m_size + i] = bytes[i]
  <2>1. PICK k : k = m_size + i
    OBVIOUS
  <2>2. k \in 1 .. Capacity /\ k - m_size = i
    BY <1>1, <1>5, <2>1
  <2> QED
    BY <1>2, <2>1, <2>2
<1>6. overrun' = (m_size + Len(bytes) > Capacity)
  BY DEF Put, next_out
<1>7. overrun' \in BOOLEAN /\ (overrun' <=> m_size + Len(bytes) > Capacity)
  <2>1. PICK b \in BOOLEAN : b <=> m_size + Len(bytes) > Capacity
    OBVIOUS
  <2>2. overrun' <=> b
    BY <1>6, <2>1
  <2>3. overrun' \in BOOLEAN
    BY <1>6
  <2> QED
    BY <2>1, <2>2, <2>3
<1>8. total_out' = total_out + Len(bytes) /\ total_out' \in Nat
  BY <1>1 DEF Put
<1> QED
  BY <1>3, <1>4, <1>5, <1>7, <1>8

-----------------------------------------------------------------------------
(* Steps. *)

LEMMA InitHelperInv == HelperInit => HelperInv
<1> SUFFICES ASSUME HelperInit PROVE HelperInv
  OBVIOUS
<1>1. HelperTypeOK
  <2>1. inside \in Seq(Int)
    BY EmptySeq DEF HelperInit
  <2>2. m_data \in [1 .. Capacity -> Int]
    BY DEF HelperInit, Unset
  <2>3. file \in Seq(Int)
    BY GzipAssumption DEF HelperInit
  <2> QED
    BY <2>1, <2>2, <2>3 DEF HelperInit, HelperTypeOK
<1>2. FlagsOK
  BY DEF HelperInit, FlagsOK
<1> QED
  BY <1>1, <1>2 DEF HelperInit, HelperInv

LEMMA InitStep ==
  ASSUME HelperInv, compressInit
  PROVE  HelperInv'
<1> USE DEF compressInit
<1>1. PICK header \in Int : header = Header /\ header = 0
  BY DEF Header
<1>2. HelperTypeOK'
  <2>1. inside' \in Seq(Int) /\ Len(inside') = 1 /\ inside'[1] = 0
    BY <1>1
  <2>2. uses' \in 0 .. 2
    BY DEF HelperInv, HelperTypeOK
  <2> QED
    BY <2>1, <2>2 DEF HelperInv, HelperTypeOK
<1>5. FlagsOK'
  BY DEF HelperInv, FlagsOK
<1>3. CASE uses = 0
  <2>1. m_size' = 0 /\ ~overrun' /\ total_out' = 0 /\ given' = 0 /\ stream' = "open"
    BY <1>3 DEF HelperInv
  <2>2. Len(inside') = 1 /\ inside'[1] = 0
    BY <1>1
  <2>3. InOrder'
    BY <2>1, <2>2 DEF InOrder, PutOut
  <2>4. m_size' <= Capacity
    BY <2>1, GzipAssumption
  <2>5. FirstUse'
    BY <2>1, <2>3, <2>4 DEF FirstUse
  <2>6. uses' = 1
    BY <1>3
  <2> QED
    BY <1>2, <1>5, <2>5, <2>6 DEF HelperInv
<1>4. CASE uses # 0
  <2>1. uses' # 0 /\ uses' # 1
    BY <1>4 DEF HelperInv, HelperTypeOK
  <2> QED
    BY <1>2, <1>5, <2>1 DEF HelperInv
<1> QED
  BY <1>3, <1>4

\* Units that deflate puts out behind those in order are in order.
LEMMA PutInOrder ==
  ASSUME HelperTypeOK, PutOut, m_size <= Capacity, NEW bytes \in Seq(Int), Put(bytes),
         NEW L \in Nat, L <= Len(bytes), m_size + L <= Capacity,
         \A i \in 1 .. L : bytes[i] = m_size + i - 1
  PROVE  \A k \in 1 .. m_size + L : m_data'[k] = k - 1
<1>1. /\ m_size \in Nat /\ Len(bytes) \in Nat /\ Capacity \in Nat
  BY LenProperties, GzipAssumption DEF HelperTypeOK
<1>2. /\ \A k \in 1 .. Capacity : k <= m_size => m_data'[k] = m_data[k]
      /\ \A i \in 1 .. Len(bytes) :
           m_size + i <= Capacity => m_data'[m_size + i] = bytes[i]
  BY PutIs
<1> SUFFICES ASSUME NEW k \in 1 .. m_size + L PROVE m_data'[k] = k - 1
  OBVIOUS
<1>3. CASE k <= m_size
  <2>1. k \in 1 .. m_size /\ k \in 1 .. Capacity
    BY <1>1, <1>3
  <2> QED
    BY <1>2, <1>3, <2>1 DEF PutOut
<1>4. CASE ~(k <= m_size)
  <2>1. PICK i : i = k - m_size
    OBVIOUS
  <2>2. i \in 1 .. L /\ i \in 1 .. Len(bytes) /\ m_size + i = k /\ k <= Capacity
    BY <1>1, <1>4, <2>1
  <2>3. m_data'[k] = bytes[i]
    BY <1>2, <2>2
  <2>4. bytes[i] = k - 1
    BY <1>1, <2>1, <2>2
  <2> QED
    BY <2>3, <2>4
<1> QED
  BY <1>3, <1>4

LEMMA UpdateStep ==
  ASSUME HelperInv, compressUpdate
  PROVE  HelperInv'
<1>0. PICK n \in 0 .. MaxPart : \E taken \in 0 .. n :
        /\ Call(n)
        /\ \E out \in 0 .. Shorter(Len(Held(n, taken)), avail_out) :
             /\ taken < n => out = avail_out
             /\ Put(SubSeq(Held(n, taken), 1, out))
             /\ inside' = SubSeq(Held(n, taken), out + 1, Len(Held(n, taken)))
  BY DEF compressUpdate, Held
<1>1. PICK taken \in 0 .. n :
        /\ Call(n)
        /\ \E out \in 0 .. Shorter(Len(Held(n, taken)), avail_out) :
             /\ taken < n => out = avail_out
             /\ Put(SubSeq(Held(n, taken), 1, out))
             /\ inside' = SubSeq(Held(n, taken), out + 1, Len(Held(n, taken)))
  BY <1>0
<1>2. HelperTypeOK /\ n \in Nat /\ taken \in Nat /\ taken <= n
      /\ Capacity \in Nat \ {0} /\ given \in Nat /\ m_size \in Nat /\ total_out \in Nat
  BY GzipAssumption DEF HelperInv, HelperTypeOK
<1>3. /\ Held(n, taken) \in Seq(Int) /\ Len(Held(n, taken)) = Len(inside) + taken
      /\ Len(inside) \in Nat
      /\ m_size + Len(inside) = given + 1
              /\ (\A k \in 1 .. Len(inside) : inside[k] = m_size + k - 1)
            => \A k \in 1 .. Len(Held(n, taken)) : Held(n, taken)[k] = m_size + k - 1
  BY <1>2, Taken, Zenon
<1>4. PICK held \in Seq(Int) : held = Held(n, taken)
  BY <1>3
<1>5. PICK out \in 0 .. Shorter(Len(held), avail_out) :
        /\ taken < n => out = avail_out
        /\ Put(SubSeq(held, 1, out))
        /\ inside' = SubSeq(held, out + 1, Len(held))
  BY <1>1, <1>4
<1>6. out \in 0 .. Len(held) /\ out <= Capacity /\ out \in Nat
      /\ (taken < n => out = Capacity)
  BY <1>2, <1>3, <1>4, <1>5 DEF Shorter, avail_out
<1>7. PICK bytes \in Seq(Int) :
        /\ bytes = SubSeq(held, 1, out) /\ Len(bytes) = out
        /\ \A i \in 1 .. out : bytes[i] = held[i]
        /\ inside' \in Seq(Int) /\ Len(inside') = Len(held) - out
        /\ \A i \in 1 .. Len(held) - out : inside'[i] = held[out + i]
  BY <1>5, <1>6, Cut
<1>8. Put(bytes)
  BY <1>5, <1>7
<1>9. /\ m_data' \in [1 .. Capacity -> Int] /\ overrun' \in BOOLEAN
      /\ total_out' = total_out + out /\ total_out' \in Nat
      /\ overrun' <=> m_size + out > Capacity
  BY <1>2, <1>7, <1>8, PutIs
<1>10. /\ stream = "open" /\ stream' = stream /\ m_size' = total_out'
       /\ uses > 0 /\ uses' = uses /\ ~overrun
       /\ given' = given + n /\ written' = FALSE /\ file' = file /\ calls' = calls + 1
  BY <1>1 DEF compressUpdate, Call
<1>11. HelperTypeOK'
  BY <1>2, <1>7, <1>9, <1>10 DEF HelperTypeOK
<1>13. FlagsOK'
  BY <1>9, <1>10 DEF FlagsOK
<1>12. ASSUME uses = 1 PROVE FirstUse'
  <2>1. total_out = m_size /\ m_size <= Capacity /\ (InOrder \/ Filled)
    BY <1>10, <1>12 DEF HelperInv, FirstUse
  <2>2. m_size' = m_size + out /\ total_out' = m_size'
    BY <1>9, <1>10, <2>1
  <2>3. CASE InOrder
    <3>1. /\ \A k \in 1 .. Len(held) : held[k] = m_size + k - 1
          /\ m_size + Len(held) = given + 1 + taken
      <4>1. /\ m_size + Len(inside) = given + 1
            /\ \A k \in 1 .. Len(inside) : inside[k] = m_size + k - 1
        BY <2>3 DEF InOrder
      <4>2. \A k \in 1 .. Len(held) : held[k] = m_size + k - 1
        BY <1>3, <1>4, <4>1, Zenon
      <4>3. PICK I, H \in Nat : H = Len(held) /\ H = I + taken
                               /\ m_size + I = given + 1
        BY <1>2, <1>3, <1>4, <4>1
      <4>4. m_size + H = given + 1 + taken
        BY <1>2, <4>3
      <4> QED
        BY <4>2, <4>3, <4>4
    <3>2. overrun' => given' + 2 > Capacity
      BY <1>2, <1>3, <1>4, <1>6, <1>9, <1>10, <3>1
    <3>3. ASSUME ~overrun' PROVE InOrder' \/ Filled'
      <4>1. m_size + out <= Capacity
        BY <1>2, <1>6, <1>9, <3>3
      <4>2. CASE taken = n
        <5>1. m_size' + Len(inside') = given' + 1
          <6>0. /\ Len(held) \in Nat /\ Len(inside') \in Int
                /\ Len(inside') = Len(held) - out
            BY <1>7, LenProperties
          <6>1. PICK H \in Nat, I \in Int : H = Len(held) /\ I = Len(inside') /\ I = H - out
            BY <6>0, Zenon
          <6>2. m_size + out + I = given + n + 1
            BY <1>2, <1>6, <3>1, <4>2, <6>1
          <6> QED
            BY <1>10, <2>2, <6>1, <6>2
        <5>2. ASSUME NEW k \in 1 .. Len(inside') PROVE inside'[k] = m_size' + k - 1
          <6>1. PICK j : j = out + k
            OBVIOUS
          <6>2. k \in 1 .. Len(held) - out /\ j \in 1 .. Len(held)
            BY <1>3, <1>4, <1>6, <1>7, <6>1
          <6>3. inside'[k] = m_size + j - 1
            BY <1>7, <3>1, <6>1, <6>2
          <6> QED
            BY <1>2, <1>6, <2>2, <6>1, <6>2, <6>3
        <5>3. PutOut'
          <6>1. \A i \in 1 .. out : bytes[i] = m_size + i - 1
            BY <1>3, <1>4, <1>6, <1>7, <3>1
          <6>2. PICK L \in Nat : L = out
            BY <1>6
          <6>3. PutOut /\ L <= Len(bytes) /\ m_size + L <= Capacity
                /\ \A i \in 1 .. L : bytes[i] = m_size + i - 1
            BY <1>7, <2>3, <4>1, <6>1, <6>2 DEF InOrder
          <6>4. \A k \in 1 .. m_size + L : m_data'[k] = k - 1
            BY <1>2, <1>8, <2>1, <6>3, PutInOrder
          <6> QED
            BY <2>2, <6>2, <6>4 DEF PutOut
        <5> QED
          BY <5>1, <5>2, <5>3 DEF InOrder
      <4>3. CASE taken # n
        BY <1>2, <1>3, <1>4, <1>6, <1>10, <2>2, <3>1, <4>1, <4>3 DEF Filled
      <4> QED
        BY <4>2, <4>3
    <3>4. ~overrun' => m_size' <= Capacity
      BY <1>2, <1>6, <1>9, <2>2
    <3> QED
      BY <1>10, <2>2, <3>2, <3>3, <3>4 DEF FirstUse
  <2>4. CASE Filled
    <3>1. given' >= Capacity /\ given' + 2 > Capacity
      BY <1>2, <1>10, <2>4 DEF Filled
    <3>2. ~overrun' => Filled' /\ m_size' <= Capacity
      BY <1>2, <1>6, <1>9, <2>2, <2>4, <3>1 DEF Filled
    <3> QED
      BY <1>10, <2>2, <3>1, <3>2 DEF FirstUse
  <2> QED
    BY <2>1, <2>3, <2>4
<1> QED
  BY <1>10, <1>11, <1>12, <1>13 DEF HelperInv

LEMMA FailsStep ==
  ASSUME HelperInv, CallFails
  PROVE  HelperInv'
<1>1. /\ given' = given + 0 /\ given' = given /\ written' = FALSE /\ calls' = calls + 1
      /\ UNCHANGED <<uses, file, stream, inside, total_out, m_size, m_data, overrun>>
  BY DEF CallFails, Call, HelperInv, HelperTypeOK
<1>2. HelperTypeOK'
  BY <1>1 DEF HelperInv, HelperTypeOK
<1>3. FirstUse' = FirstUse
  BY <1>1 DEF FirstUse, InOrder, PutOut, Filled, Ended
<1>4. FlagsOK'
  BY <1>1 DEF HelperInv, FlagsOK
<1> QED
  BY <1>1, <1>2, <1>3, <1>4 DEF HelperInv

LEMMA FinishStep ==
  ASSUME HelperInv, compressFinish
  PROVE  HelperInv'
<1>1. PICK n \in 0 .. MaxPart :
        Call(n) /\ Len(AllHeld(n)) <= avail_out /\ Put(AllHeld(n))
  BY DEF compressFinish, AllHeld
<1>2. HelperTypeOK /\ n \in Nat
      /\ Capacity \in Nat \ {0} /\ given \in Nat /\ m_size \in Nat /\ total_out \in Nat
  BY GzipAssumption DEF HelperInv, HelperTypeOK
<1>3. /\ AllHeld(n) \in Seq(Int) /\ Len(AllHeld(n)) = Len(inside) + n + 1
      /\ Len(inside) \in Nat /\ AllHeld(n)[Len(AllHeld(n))] = Trailer
      /\ m_size + Len(inside) = given + 1
              /\ (\A k \in 1 .. Len(inside) : inside[k] = m_size + k - 1)
            => \A k \in 1 .. Len(AllHeld(n)) - 1 : AllHeld(n)[k] = m_size + k - 1
  BY <1>2, Finished, Zenon
<1>4. PICK held \in Seq(Int), N \in Nat : held = AllHeld(n) /\ N = Len(held)
  BY <1>3
<1>5. Put(held)
  BY <1>1, <1>4
<1>6. /\ m_data' \in [1 .. Capacity -> Int] /\ overrun' \in BOOLEAN
      /\ total_out' = total_out + N /\ total_out' \in Nat
      /\ overrun' <=> m_size + N > Capacity
      /\ \A i \in 1 .. N : m_size + i <= Capacity => m_data'[m_size + i] = held[i]
  BY <1>2, <1>4, <1>5, PutIs
<1>7. /\ stream = "open" /\ stream' = "finished" /\ m_size' = total_out'
      /\ uses > 0 /\ uses' = uses /\ ~overrun /\ inside' = << >>
      /\ given' = given + n /\ written' = FALSE /\ file' = file /\ calls' = calls + 1
  BY <1>1 DEF compressFinish, Call
<1>8. HelperTypeOK'
  BY <1>2, <1>6, <1>7, EmptySeq DEF HelperTypeOK
<1>10. FlagsOK'
  BY <1>6, <1>7 DEF FlagsOK
<1>9. ASSUME uses = 1 PROVE FirstUse'
  <2>1. total_out = m_size /\ m_size <= Capacity /\ (InOrder \/ Filled)
    BY <1>7, <1>9 DEF HelperInv, FirstUse
  <2>2. m_size' = m_size + N /\ N >= 1
    BY <1>2, <1>3, <1>4, <1>6, <1>7, <2>1
  <2>3. CASE InOrder
    <3>1. /\ \A k \in 1 .. N - 1 : held[k] = m_size + k - 1
          /\ m_size + N = given' + 2 /\ held[N] = Trailer
      <4>1. /\ m_size + Len(inside) = given + 1
            /\ \A k \in 1 .. Len(inside) : inside[k] = m_size + k - 1
        BY <2>3 DEF InOrder
      <4>2. \A k \in 1 .. Len(AllHeld(n)) - 1 : AllHeld(n)[k] = m_size + k - 1
        BY <1>3, <4>1, Zenon
      <4>3. PICK I \in Nat : N = I + n + 1 /\ m_size + I = given + 1
        BY <1>3, <1>4, <4>1
      <4>4. m_size + N = given' + 2
        BY <1>2, <1>7, <4>3
      <4> QED
        BY <1>3, <1>4, <4>2, <4>4
    <3>2. overrun' => given' + 2 > Capacity
      BY <1>6, <3>1
    <3>3. ASSUME ~overrun' PROVE m_size' <= Capacity /\ Ended'
      <4>1. m_size + N <= Capacity /\ m_size + (N - 1) <= Capacity
            /\ N \in 1 .. N /\ N - 1 \in Nat /\ N - 1 <= N
            /\ m_size' - 1 = m_size + (N - 1)
        BY <1>2, <1>6, <2>2, <3>3
      <4>2. m_data'[m_size + N] = Trailer
        BY <1>6, <3>1, <4>1
      <4>3. \A k \in 1 .. m_size + (N - 1) : m_data'[k] = k - 1
        <5>1. PICK L \in Nat : L = N - 1
          BY <4>1
        <5>2. \A k \in 1 .. m_size + L : m_data'[k] = k - 1
          BY <1>2, <1>4, <1>5, <2>1, <2>3, <3>1, <4>1, <5>1, PutInOrder DEF InOrder
        <5> QED
          BY <5>1, <5>2
      <4> QED
        BY <2>2, <3>1, <4>1, <4>2, <4>3 DEF Ended
    <3> QED
      BY <1>7, <3>2, <3>3 DEF FirstUse
  <2>4. CASE Filled
    <3>1. overrun' /\ given' + 2 > Capacity
      BY <1>2, <1>6, <1>7, <2>2, <2>4 DEF Filled
    <3> QED
      BY <1>7, <3>1 DEF FirstUse
  <2> QED
    BY <2>1, <2>3, <2>4
<1> QED
  BY <1>7, <1>8, <1>9, <1>10 DEF HelperInv

LEMMA FinishFailsStep ==
  ASSUME HelperInv, FinishFails
  PROVE  HelperInv'
<1>1. PICK n \in 0 .. MaxPart :
        /\ Call(n) /\ Len(AllHeld(n)) > avail_out
        /\ Put(SubSeq(AllHeld(n), 1, avail_out))
  BY DEF FinishFails, AllHeld
<1>2. HelperTypeOK /\ n \in Nat
      /\ Capacity \in Nat \ {0} /\ given \in Nat /\ m_size \in Nat
  BY GzipAssumption DEF HelperInv, HelperTypeOK
<1>3. /\ AllHeld(n) \in Seq(Int) /\ Len(AllHeld(n)) = Len(inside) + n + 1
      /\ Len(inside) \in Nat
  BY <1>2, Finished, Zenon
<1>4. PICK held \in Seq(Int) :
        held = AllHeld(n) /\ \E out \in 0 .. Len(held) : out = Capacity
  <2>1. Capacity \in 0 .. Len(AllHeld(n))
    BY <1>1, <1>2, <1>3 DEF avail_out
  <2> QED
    BY <1>3, <2>1
<1> PICK out \in 0 .. Len(held) : out = Capacity
  BY <1>4
<1>5. PICK bytes \in Seq(Int) : bytes = SubSeq(held, 1, out)
  BY Cut
<1>6. Put(bytes)
  BY <1>1, <1>4, <1>5 DEF avail_out
<1>7. /\ m_data' \in [1 .. Capacity -> Int] /\ overrun' \in BOOLEAN
      /\ total_out' \in Nat
  BY <1>2, <1>6, PutIs
<1>8. /\ stream = "open" /\ stream' = "failed" /\ m_size' = m_size
      /\ uses > 0 /\ uses' = uses /\ ~overrun /\ inside' = << >>
      /\ given' = given + n /\ written' = FALSE /\ file' = file /\ calls' = calls + 1
  BY <1>1 DEF FinishFails, Call
<1>9. HelperTypeOK'
  BY <1>2, <1>7, <1>8, EmptySeq DEF HelperTypeOK
<1>10. ASSUME uses = 1 PROVE given' + 2 > Capacity
  <2>1. m_size <= Capacity /\ (InOrder \/ Filled)
    BY <1>8, <1>10 DEF HelperInv, FirstUse
  <2>2. Len(inside) + n + 1 > Capacity
    BY <1>1, <1>3 DEF avail_out
  <2>3. CASE InOrder
    BY <1>2, <1>3, <1>8, <2>2, <2>3 DEF InOrder
  <2>4. CASE Filled
    BY <1>2, <1>8, <2>4 DEF Filled
  <2> QED
    BY <2>1, <2>3, <2>4
<1>11. FlagsOK'
  BY <1>7, <1>8 DEF FlagsOK
<1> QED
  BY <1>8, <1>9, <1>10, <1>11 DEF HelperInv, FirstUse

\* What a dump leaves in the file, when all of it is written.
LEMMA DumpStep ==
  ASSUME HelperInv, dumpCompressFile
  PROVE  HelperInv'
<1>1. PICK n \in 0 .. m_size :
        file' = Overwritten(n) /\ written' = (n = m_size)
  BY DEF dumpCompressFile
<1>2. /\ m_size <= Capacity
      /\ UNCHANGED <<stream, inside, total_out, m_size, m_data, overrun, uses,
                     calls, given>>
  BY DEF dumpCompressFile
<1>3. /\ HelperTypeOK /\ m_size \in Nat /\ Capacity \in Nat /\ n \in Nat
      /\ m_data \in [1 .. Capacity -> Int]
      /\ file \in Seq(Int) /\ Len(file) \in Nat /\ n <= m_size
      /\ \A k \in 1 .. Len(file) : file[k] \in Int
  BY GzipAssumption, LenProperties, ElementOfSeq DEF HelperInv, HelperTypeOK
<1>4. \A k \in 1 .. m_size : Data[k] = m_data[k] /\ m_data[k] \in Int
  <2>1. m_data \in Seq(Int) /\ Len(m_data) = Capacity
    BY <1>3, SeqDef
  <2>2. m_size \in 0 .. Len(m_data)
    BY <1>2, <1>3, <2>1
  <2>3. \A k \in 1 .. m_size : SubSeq(m_data, 1, m_size)[k] = m_data[k]
    BY <2>1, <2>2, Cut
  <2>4. \A k \in 1 .. m_size : k \in 1 .. Capacity
    BY <1>2, <1>3
  <2> QED
    BY <1>3, <2>3, <2>4 DEF Data
<1>5. PICK N \in Nat : /\ N = IF n < Len(file) THEN Len(file) ELSE n
                       /\ N >= n /\ N >= Len(file) /\ (N = n \/ N = Len(file))
  BY <1>3
<1>6. file' = [k \in 1 .. N |-> IF k <= n THEN Data[k] ELSE file[k]]
  BY <1>1, <1>5 DEF Overwritten
<1>7. \A k \in 1 .. N : /\ k <= n => k \in 1 .. m_size
                        /\ ~(k <= n) => k \in 1 .. Len(file)
  BY <1>3, <1>5
<1>8. file' \in Seq(Int) /\ Len(file') = N /\ \A k \in 1 .. n : file'[k] = m_data[k]
  <2>1. \A k \in 1 .. N : (IF k <= n THEN Data[k] ELSE file[k]) \in Int
    BY <1>3, <1>4, <1>7
  <2>2. file' \in Seq(Int) /\ Len(file') = N
    BY <1>6, <2>1, IsASeq
  <2>3. \A k \in 1 .. n : k \in 1 .. N /\ k <= n
    BY <1>3, <1>5
  <2> QED
    BY <1>4, <1>6, <1>7, <2>2, <2>3
<1>9. written' \in BOOLEAN
  BY <1>1
<1>10. HelperTypeOK'
  BY <1>2, <1>3, <1>8 DEF HelperTypeOK
<1>13. FlagsOK'
  BY <1>2, <1>9 DEF HelperInv, FlagsOK
<1>11. FirstUse' = FirstUse
  BY <1>2 DEF FirstUse, InOrder, PutOut, Filled, Ended
<1>12. written' => m_size' <= Capacity /\ Dumped'
  <2>1. written' => n = m_size
    BY <1>1
  <2> QED
    BY <1>2, <1>3, <1>5, <1>8, <2>1 DEF Dumped
<1> QED
  BY <1>2, <1>10, <1>11, <1>12, <1>13 DEF HelperInv

-----------------------------------------------------------------------------
(* The theorems. *)

\* The invariant of a helper.
THEOREM HelperCorrect == HelperSpec => []HelperInv
<1>1. HelperInit => HelperInv
  BY InitHelperInv
<1>2. HelperInv /\ [HelperNext]_helper_vars => HelperInv'
  <2> SUFFICES ASSUME HelperInv, [HelperNext]_helper_vars PROVE HelperInv'
    OBVIOUS
  <2>1. CASE compressInit
    BY <2>1, InitStep
  <2>2. CASE compressUpdate
    BY <2>2, UpdateStep
  <2>3. CASE CallFails
    BY <2>3, FailsStep
  <2>4. CASE compressFinish
    BY <2>4, FinishStep
  <2>5. CASE FinishFails
    BY <2>5, FinishFailsStep
  <2>6. CASE dumpCompressFile
    BY <2>6, DumpStep
  <2>7. CASE UNCHANGED helper_vars
    BY <2>7 DEF helper_vars, HelperInv, HelperTypeOK, FlagsOK, FirstUse, InOrder, PutOut, Filled,
                Ended, Dumped
  <2> QED
    BY <2>1, <2>2, <2>3, <2>4, <2>5, <2>6, <2>7 DEF HelperNext
<1> QED
  BY <1>1, <1>2, PTL DEF HelperSpec

LEMMA WholeIs ==
  ASSUME given \in Nat
  PROVE  /\ Whole \in Seq(Int) /\ Len(Whole) = given + 2
         /\ \A k \in 1 .. given + 1 : Whole[k] = k - 1
         /\ Whole[given + 2] = Trailer
<1>1. PICK first \in Seq(Int) : first = <<Header>> /\ Len(first) = 1 /\ first[1] = 0
  <2>1. <<0>> \in Seq(Int) /\ Len(<<0>>) = 1
    OBVIOUS
  <2> QED
    BY <2>1 DEF Header
<1>2. PICK last \in Seq(Int) : last = <<Trailer>> /\ Len(last) = 1 /\ last[1] = Trailer
  <2>1. PICK t \in Int : t = Trailer
    BY DEF Trailer
  <2>2. <<t>> \in Seq(Int) /\ Len(<<t>>) = 1
    OBVIOUS
  <2> QED
    BY <2>1, <2>2
<1>3. PICK units \in Seq(Int) : /\ units = [k \in 1 .. given |-> k]
                                /\ Len(units) = given
                                /\ \A k \in 1 .. given : units[k] = k
  <2>1. \A k \in 1 .. given : k \in Int
    OBVIOUS
  <2>2. [k \in 1 .. given |-> k] \in Seq(Int) /\ Len([k \in 1 .. given |-> k]) = given
    BY <2>1, IsASeq
  <2> QED
    BY <2>2
<1>4. PICK front \in Seq(Int) :
        /\ front = first \o units /\ Len(front) = given + 1
        /\ \A k \in 1 .. given + 1 : front[k] = k - 1
  <2>1. /\ first \o units \in Seq(Int)
        /\ Len(first \o units) = Len(first) + Len(units)
        /\ \A i \in 1 .. Len(first) + Len(units) :
             (first \o units)[i] = IF i <= Len(first) THEN first[i]
                                                      ELSE units[i - Len(first)]
    BY ConcatProperties
  <2>2. PICK f \in Seq(Int) : f = first \o units
    BY <2>1
  <2>3. ASSUME NEW k \in 1 .. given + 1 PROVE f[k] = k - 1
    <3>1. k \in 1 .. Len(first) + Len(units)
      BY <1>1, <1>3
    <3>2. CASE k = 1
      BY <1>1, <2>1, <2>2, <3>1, <3>2
    <3>3. CASE k # 1
      <4>1. PICK j : j = k - 1
        OBVIOUS
      <4>2. j \in 1 .. given /\ ~(k <= Len(first)) /\ k - Len(first) = j
        BY <1>1, <3>3, <4>1
      <4>3. f[k] = units[j]
        BY <2>1, <2>2, <3>1, <4>2
      <4> QED
        BY <1>3, <4>1, <4>2, <4>3
    <3> QED
      BY <3>2, <3>3
  <2>4. Len(f) = given + 1
    BY <1>1, <1>3, <2>1, <2>2
  <2> QED
    BY <2>2, <2>3, <2>4
<1>5. /\ front \o last \in Seq(Int)
      /\ Len(front \o last) = Len(front) + Len(last)
      /\ \A i \in 1 .. Len(front) + Len(last) :
           (front \o last)[i] = IF i <= Len(front) THEN front[i] ELSE last[i - Len(front)]
  BY ConcatProperties
<1>6. PICK whole \in Seq(Int) : whole = front \o last /\ whole = Whole
  BY <1>1, <1>2, <1>3, <1>4, <1>5 DEF Whole
<1>7. Len(whole) = given + 2
  BY <1>2, <1>4, <1>5, <1>6
<1>8. ASSUME NEW k \in 1 .. given + 1 PROVE whole[k] = k - 1
  <2>1. k \in 1 .. Len(front) + Len(last) /\ k <= Len(front)
    BY <1>2, <1>4
  <2> QED
    BY <1>4, <1>5, <1>6, <2>1
<1>9. whole[given + 2] = Trailer
  <2>1. PICK k : k = given + 2
    OBVIOUS
  <2>2. /\ k \in 1 .. Len(front) + Len(last) /\ ~(k <= Len(front))
        /\ k - Len(front) = 1
    BY <1>2, <1>4, <2>1
  <2>3. whole[k] = last[1]
    BY <1>5, <1>6, <2>2
  <2> QED
    BY <1>2, <2>1, <2>3
<1> QED
  BY <1>6, <1>7, <1>8, <1>9

\* The sources of a helper used once are got back whole and in order, for
\* every size of the buffer and of the sources and however deflate parts its
\* output, from the buffer and from the file it is dumped to.
THEOREM Unpacked == HelperSpec => []Unpacks
<1>1. ASSUME HelperInv PROVE Unpacks
  <2> SUFFICES ASSUME stream = "finished", uses = 1, ~overrun
               PROVE  /\ Data = Whole
                      /\ written => IsPrefix(Whole, file)
    BY DEF Unpacks
  <2>1. /\ m_size <= Capacity /\ m_size = given + 2 /\ m_data[m_size] = Trailer
        /\ \A k \in 1 .. m_size - 1 : m_data[k] = k - 1
    BY <1>1 DEF HelperInv, FirstUse, Ended
  <2>2. /\ m_size \in Nat /\ given \in Nat /\ Capacity \in Nat
        /\ m_data \in Seq(Int) /\ Len(m_data) = Capacity
        /\ file \in Seq(Int) /\ Len(file) \in Nat
    BY <1>1, SeqDef, LenProperties, GzipAssumption DEF HelperInv, HelperTypeOK
  <2>3. /\ Data \in Seq(Int) /\ Len(Data) = m_size
        /\ \A k \in 1 .. m_size : Data[k] = m_data[k]
    <3>1. m_size \in 0 .. Len(m_data)
      BY <2>1, <2>2
    <3> QED
      BY <2>2, <3>1, Cut DEF Data
  <2>4. /\ Whole \in Seq(Int) /\ Len(Whole) = m_size
        /\ \A k \in 1 .. m_size - 1 : Whole[k] = k - 1
        /\ Whole[m_size] = Trailer
    <3>1. given + 2 = m_size /\ given + 1 = m_size - 1
      BY <2>1, <2>2
    <3>2. /\ Whole \in Seq(Int) /\ Len(Whole) = given + 2
          /\ \A k \in 1 .. given + 1 : Whole[k] = k - 1
          /\ Whole[given + 2] = Trailer
      BY <2>2, WholeIs
    <3> QED
      BY <3>1, <3>2
  <2>5. Data = Whole
    <3>1. ASSUME NEW k \in 1 .. m_size PROVE Data[k] = Whole[k]
      <4>1. CASE k = m_size
        BY <2>1, <2>3, <2>4, <4>1
      <4>2. CASE k # m_size
        <5>1. k \in 1 .. m_size - 1
          BY <2>2, <4>2
        <5> QED
          BY <2>1, <2>3, <2>4, <5>1
      <4> QED
        BY <4>1, <4>2
    <3> QED
      BY <2>3, <2>4, <3>1, SeqEqual
  <2>6. ASSUME written PROVE IsPrefix(Whole, file)
    <3>1. m_size <= Len(file) /\ \A k \in 1 .. m_size : file[k] = m_data[k]
      BY <1>1, <2>2, <2>6 DEF HelperInv, Dumped
    <3>2. m_size \in 0 .. Len(file)
      BY <2>2, <3>1
    <3>3. /\ SubSeq(file, 1, m_size) \in Seq(Int)
          /\ Len(SubSeq(file, 1, m_size)) = m_size
          /\ \A k \in 1 .. m_size : SubSeq(file, 1, m_size)[k] = file[k]
      BY <2>2, <3>2, Cut
    <3>4. SubSeq(file, 1, m_size) = Data
      BY <2>3, <3>1, <3>3, SeqEqual
    <3>5. SubSeq(Data, 1, Len(Data)) = Data
      BY <2>3, SubSeqFull
    <3> QED
      BY <2>3, <2>5, <3>1, <3>4, <3>5 DEF IsPrefix
  <2> QED
    BY <2>5, <2>6
<1> QED
  BY <1>1, HelperCorrect, PTL

\* Sources of a first use that fit the buffer neither overrun it nor are
\* refused.
THEOREM Room == HelperSpec => []RoomSuffices
<1>1. HelperInv => RoomSuffices
  BY DEF HelperInv, FirstUse, RoomSuffices
<1> QED
  BY <1>1, HelperCorrect, PTL
=============================================================================
