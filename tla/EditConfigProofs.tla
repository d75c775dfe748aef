-------------------------- MODULE EditConfigProofs --------------------------
(***************************************************************************)
(* What a run of edit_config leaves of a configuration file, for files of  *)
(* any length, any keys and values and any number of runs, each of which   *)
(* may be killed or find the disk full for a while.                        *)
(***************************************************************************)
EXTENDS EditConfig, SequenceTheorems, WellFoundedInduction, TLAPS

-----------------------------------------------------------------------------
(* The inductive invariant. *)

AnyLine == [text : AnyText, end : {"newline", "0xff", "none"}]

TypeOK ==
  /\ file \in Seq(AnyLine) /\ temp \in Seq(AnyLine)
  /\ before \in Seq(AnyLine) /\ rest \in Seq(AnyLine)
  /\ request \in Requests
  /\ timen \in Nat

\* Nothing has come between the program and the lines of the file.
Strict == ~short /\ Clean(before)

\* What OthersKept says of the file, of any lines.
KeptIn(lines) ==
  /\ LeftOf(Among(lines, WholeOthers), Among(before, WholeOthers))
  /\ Strict => Among(lines, Others) = Among(before, Others)

\* No line but the last is without an end.
Ended(lines) ==
  \A n \in DOMAIN lines : lines[n].end = "none" => n = Len(lines)

LastEnded(lines) == lines # << >> => Last(lines).end = "newline"

\* The lines come to are the first c; what is written next is not glued.
Come(c) ==
  LET come == SubSeq(before, 1, c)
  IN /\ rest = SubSeq(before, c + 1, Len(before))
     /\ LeftOf(Among(temp, WholeOthers), Among(come, WholeOthers))
     /\ Strict => /\ Among(temp, Others) = Among(come, Others)
                  /\ rest # << >> => LastEnded(temp)

\* The lines of the key are as requested, and nothing is glued to them.
SetIn(lines) ==
  \A n \in DOMAIN lines :
    Replacing(lines[n]) =>
      /\ request.mode # "del" /\ lines[n].text.value = request.value
      /\ lines[n].end # "none"

Found(lines) == \E n \in DOMAIN lines : Replacing(lines[n])

IInv ==
  /\ TypeOK
  /\ KeptIn(file)
  /\ Ended(file) /\ Ended(before)
  /\ pc = "copy" =>
       /\ file = before
       /\ Ended(temp)
       /\ \E c \in 0 .. Len(before) : Come(c)
       /\ ~short => SetIn(temp)
       /\ Strict /\ timen > 0 /\ request.mode = "app" => Found(temp)
  /\ pc = "append" /\ ~short => SetIn(file) /\ request.mode = "app"
  /\ pc = "done" /\ ~short =>
       /\ \A n \in DOMAIN file :
            Replacing(file[n]) =>
              request.mode # "del" /\ file[n].text.value = request.value
       /\ Strict /\ request.mode = "app" => Found(file)

-----------------------------------------------------------------------------
(* Numbers. *)

\* A set of numbers that is not empty has a least element.
LEMMA LeastElement ==
  ASSUME NEW S \in SUBSET Nat, S # {}
  PROVE  Min(S) \in S /\ \A x \in S : Min(S) <= x
<1>1. \E x \in S : \A y \in S : ~(<<y, x>> \in OpToRel(<, Nat))
  BY NatLessThanWellFounded, WFMin
<1>2. ASSUME NEW x \in S, NEW y \in S, ~(<<y, x>> \in OpToRel(<, Nat))
      PROVE  x <= y
  <2>1. <<y, x>> \in Nat \X Nat /\ <<y, x>>[1] = y /\ <<y, x>>[2] = x
    OBVIOUS
  <2>2. ~(y < x)
    BY <1>2, <2>1, Zenon DEF OpToRel
  <2> QED
    BY <2>2
<1>3. \E x \in S : \A y \in S : x <= y
  BY <1>1, <1>2
<1> QED
  BY <1>3 DEF Min

\* A number of which something holds that passes from each number below N to
\* the next is stated by the numbers it fails for: there is no first.
LEMMA NoFirst ==
  ASSUME NEW N \in Nat, NEW Fails \in SUBSET (0 .. N), 0 \notin Fails,
         \A n \in 1 .. N : n - 1 \notin Fails => n \notin Fails
  PROVE  Fails = {}
<1> SUFFICES ASSUME Fails # {} PROVE FALSE
  OBVIOUS
<1>1. Fails \in SUBSET Nat
  OBVIOUS
<1>2. Min(Fails) \in Fails /\ \A x \in Fails : Min(Fails) <= x
  BY <1>1, LeastElement
<1>3. PICK m \in Fails : \A x \in Fails : m <= x
  BY <1>2
<1>4. m \in 0 .. N /\ m # 0
  OBVIOUS
<1>5. m \in 1 .. N /\ ~(m <= m - 1)
  BY <1>4
<1>6. m - 1 \notin Fails
  BY <1>3, <1>5
<1> QED
  BY <1>5, <1>6

-----------------------------------------------------------------------------
(* Sequences of lines. *)

Text == Seq(AnyLine)

LEMMA FirstLines ==
  ASSUME NEW s \in Text, NEW n \in 0 .. Len(s)
  PROVE  /\ SubSeq(s, 1, n) \in Text /\ Len(SubSeq(s, 1, n)) = n
         /\ \A i \in 1 .. n : SubSeq(s, 1, n)[i] = s[i]
<1>1. /\ Len(s) \in Nat /\ n \in Nat /\ n <= Len(s)
      /\ \A i \in 1 .. Len(s) : s[i] \in AnyLine
  BY LenProperties, ElementOfSeq DEF Text
<1>2. 1 \in Int /\ n \in Int /\ \A i \in 1 .. n : s[i] \in AnyLine
  BY <1>1
<1>3. /\ SubSeq(s, 1, n) \in Seq(AnyLine)
      /\ Len(SubSeq(s, 1, n)) = IF 1 <= n THEN n - 1 + 1 ELSE 0
      /\ \A i \in 1 .. n - 1 + 1 : SubSeq(s, 1, n)[i] = s[1 + i - 1]
  BY <1>2, SubSeqProperties
<1>4. n - 1 + 1 = n /\ (~(1 <= n) => n = 0) /\ \A i \in 1 .. n : 1 + i - 1 = i
  BY <1>1
<1> QED
  BY <1>3, <1>4 DEF Text

LEMMA Appended ==
  ASSUME NEW s \in Text, NEW x \in AnyLine
  PROVE  /\ Append(s, x) \in Text /\ Len(Append(s, x)) = Len(s) + 1
         /\ Len(s) \in Nat
         /\ \A i \in 1 .. Len(s) : Append(s, x)[i] = s[i]
         /\ Append(s, x)[Len(s) + 1] = x
         /\ DOMAIN s = 1 .. Len(s) /\ DOMAIN Append(s, x) = 1 .. Len(s) + 1
BY LenProperties, AppendProperties DEF Text

\* The first lines, and one more.
LEMMA OneMoreLine ==
  ASSUME NEW s \in Text, NEW n \in 1 .. Len(s), NEW m, m = n - 1
  PROVE  SubSeq(s, 1, n) = Append(SubSeq(s, 1, m), s[n])
<1>1. /\ Len(s) \in Nat /\ n \in 0 .. Len(s) /\ m \in 0 .. Len(s) /\ n = m + 1
      /\ s[n] \in AnyLine
  BY LenProperties, ElementOfSeq DEF Text
<1>2. PICK a \in Text, b \in Text, x \in AnyLine :
        /\ a = SubSeq(s, 1, n) /\ b = SubSeq(s, 1, m) /\ x = s[n]
        /\ Len(a) = n /\ Len(b) = m
        /\ \A i \in 1 .. n : a[i] = s[i]
        /\ \A i \in 1 .. m : b[i] = s[i]
  BY <1>1, FirstLines
<1>3. /\ Append(b, x) \in Text /\ Len(Append(b, x)) = n
      /\ \A i \in 1 .. m : Append(b, x)[i] = b[i]
      /\ Append(b, x)[n] = x
  BY <1>1, <1>2, Appended
<1>4. \A i \in 1 .. n : i = n \/ i \in 1 .. m
  BY <1>1
<1>5. \A i \in 1 .. n : a[i] = Append(b, x)[i]
  BY <1>2, <1>3, <1>4
<1>6. a = Append(b, x)
  BY <1>2, <1>3, <1>5, SeqEqual DEF Text
<1> QED
  BY <1>2, <1>6

\* Sequences of texts.
Words == Seq(AnyText)

-----------------------------------------------------------------------------
(* Among. *)

\* Among has a value: were there a first length for which its recursion has no
\* solution, the solution for one less could be continued.
LEMMA AmongIs ==
  ASSUME NEW lines \in Text, NEW some
  PROVE  \E f : /\ f[0] = << >>
                /\ \A n \in 1 .. Len(lines) :
                     f[n] = IF lines[n].text \in some THEN Append(f[n - 1], lines[n].text)
                                                     ELSE f[n - 1]
                /\ Among(lines, some) = f[Len(lines)]
<1> DEFINE N == Len(lines)
           Solves(f, k) ==
             f = [n \in 0 .. k |->
                    IF n = 0 THEN << >>
                    ELSE IF lines[n].text \in some THEN Append(f[n - 1], lines[n].text)
                    ELSE f[n - 1]]
           Unsolved == {k \in Nat : ~ \E f : Solves(f, k)}
<1>0. N \in Nat
  BY LenProperties DEF Text
<1>1. \A k \in Nat : \E f : Solves(f, k)
  <2> SUFFICES ASSUME Unsolved # {} PROVE FALSE
    OBVIOUS
  <2>1. PICK k \in Unsolved : \A y \in Unsolved : k <= y
    <3> Unsolved \in SUBSET Nat
      OBVIOUS
    <3> HIDE DEF Unsolved
    <3> QED
      BY LeastElement
  <2>2. CASE k = 0
    <3>1. Solves([n \in 0 .. 0 |-> << >>], 0)
      OBVIOUS
    <3> QED
      BY <2>1, <2>2, <3>1
  <2>3. CASE k # 0
    <3>1. k \in Nat /\ k - 1 \in Nat /\ k - 1 \notin Unsolved
      <4>1. k \in Nat
        OBVIOUS
      <4> HIDE DEF Unsolved
      <4> QED
        BY <2>1, <2>3, <4>1
    <3>2. PICK f : Solves(f, k - 1)
      BY <3>1
    <3> DEFINE last == IF lines[k].text \in some THEN Append(f[k - 1], lines[k].text)
                                                ELSE f[k - 1]
               g == [n \in 0 .. k |-> IF n < k THEN f[n] ELSE last]
    <3>3. \A n \in 0 .. k - 1 : g[n] = f[n]
      BY <3>1
    <3>4. \A n \in 0 .. k - 1 :
            f[n] = IF n = 0 THEN << >>
                   ELSE IF lines[n].text \in some THEN Append(f[n - 1], lines[n].text)
                   ELSE f[n - 1]
      BY <3>2
    <3>5. \A n \in 0 .. k :
            g[n] = IF n = 0 THEN << >>
                   ELSE IF lines[n].text \in some THEN Append(g[n - 1], lines[n].text)
                   ELSE g[n - 1]
      <4> TAKE n \in 0 .. k
      <4>1. CASE n = k
        <5>1. g[n] = last
          BY <3>1, <4>1
        <5>2. k - 1 \in 0 .. k - 1
          BY <2>3, <3>1
        <5>3. g[k - 1] = f[k - 1]
          BY <3>3, <5>2
        <5> HIDE DEF g
        <5> QED
          BY <2>3, <4>1, <5>1, <5>3
      <4>2. CASE n # k
        <5>1. n \in 0 .. k - 1 /\ (n # 0 => n - 1 \in 0 .. k - 1)
          BY <3>1, <4>2
        <5> HIDE DEF g, last
        <5> QED
          BY <3>3, <3>4, <5>1
      <4> QED
        BY <4>1, <4>2
    <3>6. Solves(g, k)
      BY <3>5
    <3> QED
      BY <2>1, <3>6
  <2> QED
    BY <2>2, <2>3
<1> DEFINE among == CHOOSE f : Solves(f, N)
<1>2. Solves(among, N)
  BY <1>0, <1>1
<1>3. Among(lines, some) = among[N]
  BY DEF Among
<1>4. /\ among[0] = << >>
      /\ \A n \in 1 .. N :
           among[n] = IF lines[n].text \in some THEN Append(among[n - 1], lines[n].text)
                                               ELSE among[n - 1]
  <2>1. among = [n \in 0 .. N |->
                   IF n = 0 THEN << >>
                   ELSE IF lines[n].text \in some THEN Append(among[n - 1], lines[n].text)
                   ELSE among[n - 1]]
    BY <1>2
  <2> HIDE DEF among, N
  <2>2. 0 \in 0 .. N /\ \A n \in 1 .. N : n \in 0 .. N /\ n # 0
    BY <1>0
  <2>3. among[0] = << >>
    BY <2>1, <2>2
  <2> QED
    BY <2>1, <2>2, <2>3
<1> QED
  BY <1>3, <1>4


LEMMA AmongTyped ==
  ASSUME NEW s \in Text, NEW some
  PROVE  Among(s, some) \in Words
<1> DEFINE N == Len(s)
<1>1. N \in Nat
  BY LenProperties DEF Text
<1>2. PICK f : /\ f[0] = << >>
               /\ \A n \in 1 .. N :
                    f[n] = IF s[n].text \in some THEN Append(f[n - 1], s[n].text) ELSE f[n - 1]
               /\ Among(s, some) = f[N]
  BY AmongIs
<1> DEFINE Fails == {n \in 0 .. N : f[n] \notin Words}
<1>3. f[0] \in Words
  BY <1>1, <1>2, EmptySeq DEF Words
<1>4. ASSUME NEW n \in 1 .. N, f[n - 1] \in Words
      PROVE  f[n] \in Words
  <2>1. s[n].text \in AnyText
    <3>1. s[n] \in AnyLine
      BY ElementOfSeq DEF Text
    <3> QED
      BY <3>1 DEF AnyLine
  <2>2. f[n] = IF s[n].text \in some THEN Append(f[n - 1], s[n].text) ELSE f[n - 1]
    BY <1>1, <1>2
  <2>3. PICK b \in Words, x \in AnyText : b = f[n - 1] /\ x = s[n].text
    BY <1>4, <2>1
  <2>4. Append(b, x) \in Words
    BY AppendProperties DEF Words
  <2> QED
    BY <2>2, <2>3, <2>4
<1>5. Fails = {}
  <2>1. \A n \in 1 .. N : n - 1 \in 0 .. N /\ n \in 0 .. N
    BY <1>1
  <2>2. 0 \notin Fails /\ \A n \in 1 .. N : n - 1 \notin Fails => n \notin Fails
    BY <1>3, <1>4, <2>1
  <2>3. Fails \in SUBSET (0 .. N)
    OBVIOUS
  <2> HIDE DEF Fails, N
  <2> QED
    BY <1>1, <2>2, <2>3, NoFirst
<1> QED
  BY <1>1, <1>2, <1>5

\* Among the lines of a file that is one line longer.
LEMMA AmongOneMore ==
  ASSUME NEW s \in Text, NEW x \in AnyLine, NEW some
  PROVE  Among(Append(s, x), some) =
           IF x.text \in some THEN Append(Among(s, some), x.text)
                                    ELSE Among(s, some)
<1> DEFINE N == Len(s)
           t == Append(s, x)
<1>1. /\ N \in Nat /\ Len(t) = N + 1 /\ N + 1 \in Nat
      /\ \A n \in 1 .. N : t[n] = s[n]
      /\ t[N + 1] = x /\ t \in Text
  BY LenProperties, AppendProperties DEF Text
<1> HIDE DEF N, t
<1>2. PICK f : /\ f[0] = << >>
               /\ \A n \in 1 .. N :
                    f[n] = IF s[n].text \in some THEN Append(f[n - 1], s[n].text) ELSE f[n - 1]
               /\ Among(s, some) = f[N]
  BY AmongIs DEF N
<1>3. PICK g : /\ g[0] = << >>
               /\ \A n \in 1 .. Len(t) :
                    g[n] = IF t[n].text \in some THEN Append(g[n - 1], t[n].text) ELSE g[n - 1]
               /\ Among(t, some) = g[Len(t)]
  <2>1. t \in Text
    BY <1>1
  <2> QED
    BY <2>1, AmongIs
<1> DEFINE Fails == {n \in 0 .. N : f[n] # g[n]}
<1>4. f[0] = g[0]
  BY <1>1, <1>2, <1>3
<1>5. ASSUME NEW n \in 1 .. N, f[n - 1] = g[n - 1]
      PROVE  f[n] = g[n]
  <2>1. f[n] = IF s[n].text \in some THEN Append(f[n - 1], s[n].text) ELSE f[n - 1]
    BY <1>1, <1>2
  <2>2. g[n] = IF t[n].text \in some THEN Append(g[n - 1], t[n].text) ELSE g[n - 1]
    <3>1. n \in 1 .. Len(t)
      BY <1>1
    <3> QED
      BY <1>3, <3>1
  <2> QED
    BY <1>1, <1>5, <2>1, <2>2
<1>6. Fails = {}
  <2>1. \A n \in 1 .. N : n - 1 \in 0 .. N /\ n \in 0 .. N
    BY <1>1
  <2>2. 0 \notin Fails /\ \A n \in 1 .. N : n - 1 \notin Fails => n \notin Fails
    BY <1>4, <1>5, <2>1
  <2>3. Fails \in SUBSET (0 .. N)
    OBVIOUS
  <2> HIDE DEF Fails
  <2> QED
    BY <1>1, <2>2, <2>3, NoFirst
<1>7. f[N] = g[N]
  BY <1>1, <1>6
<1>8. g[Len(t)] = IF x.text \in some THEN Append(g[N], x.text) ELSE g[N]
  <2>1. PICK k : k = Len(t)
    OBVIOUS
  <2>2. k \in 1 .. Len(t) /\ k - 1 = N /\ t[k] = x
    BY <1>1, <2>1
  <2>3. g[k] = IF t[k].text \in some THEN Append(g[k - 1], t[k].text) ELSE g[k - 1]
    BY <1>3, <2>2
  <2> QED
    BY <2>1, <2>2, <2>3
<1> QED
  BY <1>2, <1>3, <1>7, <1>8 DEF t

LEMMA AmongNone ==
  ASSUME NEW some
  PROVE  Among(<< >>, some) = << >>
<1>1. << >> \in Text /\ Len(<< >>) = 0
  BY EmptySeq DEF Text
<1>2. PICK none \in Text : none = << >> /\ Len(none) = 0
  BY <1>1
<1>3. PICK f : f[0] = << >> /\ Among(none, some) = f[Len(none)]
  BY AmongIs
<1> QED
  BY <1>2, <1>3

-----------------------------------------------------------------------------
(* What is left of a sequence when elements are left out. *)

LEMMA LeftSelf ==
  ASSUME NEW s \in Words
  PROVE  LeftOf(s, s)
<1>1. DOMAIN s = 1 .. Len(s) /\ Len(s) \in Nat
  BY LenProperties DEF Words
<1> DEFINE place == [i \in DOMAIN s |-> i]
<1>2. place \in [DOMAIN s -> DOMAIN s]
  OBVIOUS
<1>3. /\ \A i \in DOMAIN s : s[i] = s[place[i]]
      /\ \A i, j \in DOMAIN s : i < j => place[i] < place[j]
  OBVIOUS
<1> HIDE DEF place
<1> QED
  BY <1>2, <1>3 DEF LeftOf

LEMMA LeftLonger ==
  ASSUME NEW s \in Words, NEW t \in Words, NEW x \in AnyText, LeftOf(s, t)
  PROVE  LeftOf(s, Append(t, x))
<1>1. /\ Len(t) \in Nat /\ DOMAIN t = 1 .. Len(t)
      /\ DOMAIN Append(t, x) = 1 .. Len(t) + 1
      /\ \A i \in 1 .. Len(t) : Append(t, x)[i] = t[i]
  BY LenProperties, AppendProperties DEF Words
<1>2. PICK u : u = Append(t, x)
  OBVIOUS
<1>3. PICK place \in [DOMAIN s -> DOMAIN t] :
        /\ \A i \in DOMAIN s : s[i] = t[place[i]]
        /\ \A i, j \in DOMAIN s : i < j => place[i] < place[j]
  BY DEF LeftOf
<1>4. DOMAIN t \subseteq DOMAIN u /\ \A i \in DOMAIN t : u[i] = t[i]
  BY <1>1, <1>2
<1>5. place \in [DOMAIN s -> DOMAIN u] /\ \A i \in DOMAIN s : s[i] = u[place[i]]
  BY <1>3, <1>4
<1>6. LeftOf(s, u)
  BY <1>3, <1>5 DEF LeftOf
<1> QED
  BY <1>2, <1>6

LEMMA LeftBoth ==
  ASSUME NEW s \in Words, NEW t \in Words, NEW x \in AnyText, LeftOf(s, t)
  PROVE  LeftOf(Append(s, x), Append(t, x))
<1>1. PICK m \in Nat, n \in Nat : m = Len(s) /\ n = Len(t)
  BY LenProperties DEF Words
<1>2. PICK v, u : v = Append(s, x) /\ u = Append(t, x)
  OBVIOUS
<1>3. /\ DOMAIN s = 1 .. m /\ DOMAIN t = 1 .. n
      /\ DOMAIN v = 1 .. m + 1 /\ DOMAIN u = 1 .. n + 1
      /\ \A i \in 1 .. m : v[i] = s[i]
      /\ \A i \in 1 .. n : u[i] = t[i]
      /\ v[m + 1] = x /\ u[n + 1] = x
  BY <1>1, <1>2, LenProperties, AppendProperties DEF Words
<1>4. PICK place \in [1 .. m -> 1 .. n] :
        /\ \A i \in 1 .. m : s[i] = t[place[i]]
        /\ \A i, j \in 1 .. m : i < j => place[i] < place[j]
  BY <1>3 DEF LeftOf
<1> DEFINE more == [i \in 1 .. m + 1 |-> IF i = m + 1 THEN n + 1 ELSE place[i]]
<1>5. \A i \in 1 .. m + 1 : i = m + 1 \/ i \in 1 .. m
  OBVIOUS
<1>6. \A i \in 1 .. m : place[i] \in 1 .. n /\ more[i] = place[i]
  OBVIOUS
<1>7. more[m + 1] = n + 1
  OBVIOUS
<1>8. more \in [1 .. m + 1 -> 1 .. n + 1]
  OBVIOUS
<1> HIDE DEF more
<1>9. \A i \in 1 .. m + 1 : v[i] = u[more[i]]
  <2> TAKE i \in 1 .. m + 1
  <2>1. CASE i = m + 1
    BY <1>3, <1>7, <2>1
  <2>2. CASE i \in 1 .. m
    BY <1>3, <1>4, <1>6, <2>2
  <2> QED
    BY <1>5, <2>1, <2>2
<1>10. \A i, j \in 1 .. m + 1 : i < j => more[i] < more[j]
  <2> SUFFICES ASSUME NEW i \in 1 .. m + 1, NEW j \in 1 .. m + 1, i < j
               PROVE  more[i] < more[j]
    OBVIOUS
  <2>1. i \in 1 .. m
    OBVIOUS
  <2>2. CASE j = m + 1
    BY <1>6, <1>7, <2>1, <2>2
  <2>3. CASE j \in 1 .. m
    BY <1>4, <1>6, <2>1, <2>3
  <2> QED
    BY <1>5, <2>2, <2>3
<1>11. LeftOf(v, u)
  BY <1>3, <1>8, <1>9, <1>10 DEF LeftOf
<1> QED
  BY <1>2, <1>11

LEMMA LeftTwice ==
  ASSUME NEW s \in Words, NEW t \in Words, NEW u \in Words,
         LeftOf(s, t), LeftOf(t, u)
  PROVE  LeftOf(s, u)
<1>1. PICK f \in [DOMAIN s -> DOMAIN t] :
        /\ \A i \in DOMAIN s : s[i] = t[f[i]]
        /\ \A i, j \in DOMAIN s : i < j => f[i] < f[j]
  BY DEF LeftOf
<1>2. PICK g \in [DOMAIN t -> DOMAIN u] :
        /\ \A i \in DOMAIN t : t[i] = u[g[i]]
        /\ \A i, j \in DOMAIN t : i < j => g[i] < g[j]
  BY DEF LeftOf
<1> DEFINE h == [i \in DOMAIN s |-> g[f[i]]]
<1>3. h \in [DOMAIN s -> DOMAIN u] /\ \A i \in DOMAIN s : h[i] = g[f[i]]
  OBVIOUS
<1> HIDE DEF h
<1>4. \A i \in DOMAIN s : s[i] = u[h[i]]
  BY <1>1, <1>2, <1>3
<1>5. \A i, j \in DOMAIN s : i < j => h[i] < h[j]
  BY <1>1, <1>2, <1>3
<1> QED
  BY <1>3, <1>4, <1>5 DEF LeftOf

-----------------------------------------------------------------------------
(* What the actions write. *)

LEMMA LinesTyped ==
  /\ Lines \subseteq AnyLine
  /\ NoText \in AnyText /\ BlankLine \in AnyLine
<1>1. NoText \in AnyText
  BY DEF NoText, AnyText
<1>2. [key : Keys \cup {NoKey}, value : Values] \subseteq AnyText
  BY DEF AnyText
<1>3. Lines \subseteq AnyLine
  BY <1>1, <1>2 DEF Lines, AnyLine
<1>4. BlankLine \in AnyLine
  BY <1>1 DEF BlankLine, AnyLine
<1> QED
  BY <1>1, <1>3, <1>4

\* A line of the key is none of the others, nor is an empty line, nor a whole
\* one what is left of a line that was cut, or made of two.
LEMMA Counted ==
  ASSUME NEW x \in AnyText
  PROVE  /\ x.key = request.key => x \notin Others /\ x \notin WholeOthers
         /\ x = NoText => x \notin Others /\ x \notin WholeOthers
         /\ x.value \in {"cut", "glued"} => x \notin WholeOthers
BY DEF Others, WholeOthers

\* A sequence that is not empty is one to which its last line was added.
LEMMA LastIs ==
  ASSUME NEW s \in Text, s # << >>
  PROVE  /\ Front(s) \in Text /\ Last(s) \in AnyLine
         /\ Len(s) \in Nat \ {0} /\ Len(Front(s)) = Len(s) - 1
         /\ Last(s) = s[Len(s)] /\ s = Append(Front(s), Last(s))
<1>1. PICK n \in Nat : n = Len(s)
  BY LenProperties DEF Text
<1>2. n # 0
  BY <1>1, EmptySeq DEF Text
<1>3. n \in 1 .. Len(s) /\ n - 1 \in 0 .. Len(s)
  BY <1>1, <1>2
<1>4. s[n] \in AnyLine
  BY <1>3, ElementOfSeq DEF Text
<1>5. PICK m \in 0 .. Len(s) : m = n - 1
  BY <1>3
<1>6. SubSeq(s, 1, m) \in Text /\ Len(SubSeq(s, 1, m)) = m
  BY FirstLines
<1>7. SubSeq(s, 1, n) = Append(SubSeq(s, 1, m), s[n])
  BY <1>3, <1>5, OneMoreLine
<1>8. SubSeq(s, 1, n) = s
  BY <1>1, SubSeqFull DEF Text
<1>9. Front(s) = SubSeq(s, 1, m) /\ Last(s) = s[n]
  BY <1>1, <1>5 DEF Front, Last
<1> QED
  BY <1>1, <1>2, <1>4, <1>5, <1>6, <1>7, <1>8, <1>9

\* One line is written: it is added, or glued to the last one.
LEMMA PutIs ==
  ASSUME NEW s \in Text, NEW x \in AnyLine
  PROVE  \/ /\ s = << >> \/ Last(s).end # "none"
            /\ Put(s, <<x>>) = Append(s, x)
         \/ /\ s # << >>
            /\ \E f \in Text, l \in AnyLine, g \in AnyLine :
                 /\ f = Front(s) /\ l = Last(s) /\ l.end = "none"
                 /\ s = Append(f, l) /\ g = Glued(l, x)
                 /\ Put(s, <<x>>) = Append(f, g)
<1>1. <<x>> # << >> /\ <<x>>[1] = x
  OBVIOUS
<1>2. CASE s = << >> \/ Last(s).end # "none"
  BY <1>1, <1>2 DEF Put
<1>3. CASE s # << >> /\ Last(s).end = "none"
  <2>1. /\ Front(s) \in Text /\ Last(s) \in AnyLine
        /\ s = Append(Front(s), Last(s))
    BY <1>3, LastIs
  <2>2. Put(s, <<x>>) = Append(Front(s), Glued(Last(s), x))
    BY <1>1, <1>3 DEF Put
  <2>3. ASSUME NEW l \in AnyLine PROVE Glued(l, x) \in AnyLine
    <3>1. l.text \in AnyText /\ x.end \in {"newline", "0xff", "none"}
      BY DEF AnyLine
    <3>2. [key |-> l.text.key, value |-> "glued"] \in AnyText
      BY <3>1 DEF AnyText
    <3> QED
      BY <3>1, <3>2 DEF Glued, AnyLine
  <2>4. PICK f \in Text, l \in AnyLine : f = Front(s) /\ l = Last(s)
    BY <2>1
  <2>5. PICK g \in AnyLine : g = Glued(l, x)
    BY <2>3
  <2> QED
    BY <1>3, <2>1, <2>2, <2>4, <2>5
<1> QED
  BY <1>2, <1>3

\* The same without the cases' conditions.
LEMMA PutForms ==
  ASSUME NEW s \in Text, NEW x \in AnyLine, Put(s, <<x>>) # Append(s, x)
  PROVE  \E f \in Text, l \in AnyLine, g \in AnyLine :
           /\ l.end = "none" /\ s = Append(f, l) /\ g = Glued(l, x)
           /\ Put(s, <<x>>) = Append(f, g)
BY PutIs

LEMMA PutNothing ==
  ASSUME NEW s
  PROVE  Put(s, << >>) = s
BY DEF Put

LEMMA PutTyped ==
  ASSUME NEW s \in Text, NEW x \in AnyLine
  PROVE  Put(s, <<x>>) \in Text
<1>1. Append(s, x) \in Text
  BY Appended
<1>2. CASE Put(s, <<x>>) # Append(s, x)
  <2>1. PICK f \in Text, l \in AnyLine, g \in AnyLine :
          /\ l.end = "none" /\ s = Append(f, l) /\ g = Glued(l, x)
          /\ Put(s, <<x>>) = Append(f, g)
    BY <1>2, PutForms
  <2>2. Append(f, g) \in Text
    BY Appended
  <2> QED
    BY <2>1, <2>2
<1> QED
  BY <1>1, <1>2

LEMMA EndedAppended ==
  ASSUME NEW s \in Text, NEW x \in AnyLine,
         \A n \in DOMAIN s : s[n].end # "none"
  PROVE  Ended(Append(s, x))
<1>1. PICK t \in Text :
        /\ t = Append(s, x) /\ Len(t) = Len(s) + 1 /\ Len(s) \in Nat
        /\ \A i \in 1 .. Len(s) : t[i] = s[i]
        /\ DOMAIN s = 1 .. Len(s) /\ DOMAIN t = 1 .. Len(s) + 1
  BY Appended
<1>2. \A i \in DOMAIN t : i = Len(t) \/ i \in DOMAIN s
  BY <1>1
<1>3. Ended(t)
  BY <1>1, <1>2 DEF Ended
<1> QED
  BY <1>1, <1>3

LEMMA PutEnded ==
  ASSUME NEW s \in Text, NEW x \in AnyLine, Ended(s)
  PROVE  Ended(Put(s, <<x>>))
<1>1. CASE s = << >>
  <2>1. Put(s, <<x>>) = Append(s, x)
    BY <1>1, PutIs
  <2>2. DOMAIN s = {}
    BY <1>1
  <2> QED
    BY <2>1, <2>2, EndedAppended
<1>2. CASE s # << >>
  <2>1. PICK f \in Text, l \in AnyLine :
          /\ f = Front(s) /\ l = Last(s) /\ s = Append(f, l)
    BY <1>2, LastIs
  <2>2. /\ Len(s) = Len(f) + 1 /\ Len(f) \in Nat
        /\ \A i \in 1 .. Len(f) : s[i] = f[i]
        /\ s[Len(f) + 1] = l
        /\ DOMAIN f = 1 .. Len(f) /\ DOMAIN s = 1 .. Len(f) + 1
    <3>1. PICK t \in Text :
            /\ t = Append(f, l) /\ Len(t) = Len(f) + 1 /\ Len(f) \in Nat
            /\ \A i \in 1 .. Len(f) : t[i] = f[i]
            /\ t[Len(f) + 1] = l
            /\ DOMAIN f = 1 .. Len(f) /\ DOMAIN t = 1 .. Len(f) + 1
      BY Appended
    <3>2. t = s
      BY <2>1, <3>1
    <3> QED
      BY <3>1, <3>2
  <2>3. \A n \in DOMAIN f : n \in DOMAIN s /\ n # Len(s) /\ s[n] = f[n]
    BY <2>2
  <2>4. \A n \in DOMAIN f : f[n].end # "none"
    BY <2>3 DEF Ended
  <2>5. CASE l.end = "none"
    <3>0. s # << >> /\ Last(s).end = "none"
      BY <1>2, <2>1, <2>5
    <3>1. PICK g \in AnyLine : Put(s, <<x>>) = Append(Front(s), g)
      BY <3>0, PutIs
    <3>2. Put(s, <<x>>) = Append(f, g)
      BY <2>1, <3>1
    <3> QED
      BY <2>4, <3>2, EndedAppended
  <2>6. CASE l.end # "none"
    <3>0. Last(s).end # "none"
      BY <2>1, <2>6
    <3>1. Put(s, <<x>>) = Append(s, x)
      BY <3>0, PutIs
    <3>2. \A n \in DOMAIN s : n = Len(f) + 1 \/ n \in DOMAIN f
      BY <2>2
    <3>3. \A n \in DOMAIN s : s[n].end # "none"
      BY <2>2, <2>3, <2>4, <2>6, <3>2
    <3> QED
      BY <3>1, <3>3, EndedAppended
  <2> QED
    BY <2>5, <2>6
<1> QED
  BY <1>1, <1>2

\* A line that is added to, or one that is glued, leaves out at most itself
\* and the one it is glued to.
LEMMA PutLeft ==
  ASSUME NEW s \in Text, NEW x \in AnyLine
  PROVE  LeftOf(Among(Put(s, <<x>>), WholeOthers),
                Among(Append(s, x), WholeOthers))
<1> DEFINE W == WholeOthers
<1>1. x.text \in AnyText
  BY DEF AnyLine
<1>2. Among(s, W) \in Words /\ Among(Append(s, x), W) \in Words
  BY Appended, AmongTyped
<1>3. CASE Put(s, <<x>>) = Append(s, x)
  BY <1>2, <1>3, LeftSelf
<1>4. ASSUME NEW f \in Text, NEW l \in AnyLine, NEW g \in AnyLine,
             s = Append(f, l), g = Glued(l, x)
      PROVE  LeftOf(Among(Append(f, g), W), Among(Append(s, x), W))
  <2>1. l.text \in AnyText /\ Among(f, W) \in Words
    BY AmongTyped DEF AnyLine
  <2>2. Among(s, W) = IF l.text \in W THEN Append(Among(f, W), l.text) ELSE Among(f, W)
    BY <1>4, AmongOneMore
  <2>3. Among(Append(s, x), W)
          = IF x.text \in W THEN Append(Among(s, W), x.text) ELSE Among(s, W)
    BY AmongOneMore
  <2>4. Among(Append(f, g), W)
          = IF g.text \in W THEN Append(Among(f, W), g.text) ELSE Among(f, W)
    BY AmongOneMore
  <2>5. CASE x.text = NoText
    <3>1. g.text = l.text /\ x.text \notin W
      BY <1>1, <1>4, <2>5, Counted DEF Glued
    <3>2. Among(Append(f, g), W) = Among(Append(s, x), W)
      BY <2>2, <2>3, <2>4, <3>1
    <3> QED
      BY <1>2, <3>2, LeftSelf
  <2>6. CASE x.text # NoText
    <3>1. g.text.value = "glued" /\ g.text \in AnyText
      BY <1>4, <2>6 DEF Glued, AnyLine
    <3>2. Among(Append(f, g), W) = Among(f, W)
      BY <2>4, <3>1, Counted
    <3>3. LeftOf(Among(f, W), Among(s, W))
      BY <2>1, <2>2, LeftSelf, LeftLonger
    <3>4. LeftOf(Among(f, W), Among(Append(s, x), W))
      BY <1>1, <1>2, <2>1, <2>3, <3>3, LeftLonger
    <3> QED
      BY <3>2, <3>4
  <2> QED
    BY <2>5, <2>6
<1>5. CASE Put(s, <<x>>) # Append(s, x)
  <2>1. PICK f \in Text, l \in AnyLine, g \in AnyLine :
          /\ l.end = "none" /\ s = Append(f, l) /\ g = Glued(l, x)
          /\ Put(s, <<x>>) = Append(f, g)
    BY <1>5, PutForms
  <2> HIDE DEF W
  <2> QED
    BY <1>4, <2>1 DEF W
<1> QED
  BY <1>3, <1>5

\* An empty line, or the newline of the last line, is not counted.
LEMMA BlankPut ==
  ASSUME NEW s \in Text, NEW some, NoText \notin some
  PROVE  Among(Put(s, <<BlankLine>>), some) = Among(s, some)
<1>1. PICK x \in AnyLine : x = BlankLine /\ x.text = NoText
  BY LinesTyped DEF BlankLine
<1>2. CASE Put(s, <<x>>) = Append(s, x)
  <2>1. Among(Append(s, x), some)
          = IF x.text \in some THEN Append(Among(s, some), x.text) ELSE Among(s, some)
    BY AmongOneMore
  <2> QED
    BY <1>1, <1>2, <2>1
<1>3. CASE Put(s, <<x>>) # Append(s, x)
  <2>1. PICK f \in Text, l \in AnyLine, g \in AnyLine :
          /\ l.end = "none" /\ s = Append(f, l) /\ g = Glued(l, x)
          /\ Put(s, <<x>>) = Append(f, g)
    BY <1>3, PutForms
  <2>2. g.text = l.text
    BY <1>1, <2>1 DEF Glued
  <2>3. /\ Among(Append(f, g), some)
            = IF g.text \in some THEN Append(Among(f, some), g.text) ELSE Among(f, some)
        /\ Among(Append(f, l), some)
            = IF l.text \in some THEN Append(Among(f, some), l.text) ELSE Among(f, some)
    BY AmongOneMore
  <2> QED
    BY <1>1, <2>1, <2>2, <2>3
<1> QED
  BY <1>1, <1>2, <1>3

\* A line more has been read, and a line with its text, one that does not
\* count, or none has been written.
LEMMA OneMoreLeft ==
  ASSUME NEW s \in Text, NEW t \in Text, NEW line \in AnyLine, NEW x \in AnyLine,
         LeftOf(Among(s, WholeOthers), Among(t, WholeOthers))
  PROVE  /\ LeftOf(Among(s, WholeOthers), Among(Append(t, line), WholeOthers))
         /\ x.text = line.text \/ x.text \notin WholeOthers =>
              LeftOf(Among(Put(s, <<x>>), WholeOthers),
                     Among(Append(t, line), WholeOthers))
<1> DEFINE W == WholeOthers
<1>1. PICK a \in Words, b \in Words : a = Among(s, W) /\ b = Among(t, W)
  BY AmongTyped
<1>2. /\ Among(Append(s, x), W) = IF x.text \in W THEN Append(a, x.text) ELSE a
      /\ Among(Append(t, line), W) = IF line.text \in W THEN Append(b, line.text) ELSE b
  BY <1>1, AmongOneMore
<1>3. x.text \in AnyText /\ line.text \in AnyText
  BY DEF AnyLine
<1>4. LeftOf(a, b)
  BY <1>1
<1>5. LeftOf(a, Among(Append(t, line), W))
  BY <1>2, <1>3, <1>4, LeftLonger
<1>6. ASSUME x.text = line.text \/ x.text \notin W
      PROVE  LeftOf(Among(Put(s, <<x>>), W), Among(Append(t, line), W))
  <2>1. LeftOf(Among(Append(s, x), W), Among(Append(t, line), W))
    <3>1. CASE x.text \in W
      <4>1. LeftOf(Append(a, x.text), Append(b, x.text))
        BY <1>3, <1>4, LeftBoth
      <4> QED
        BY <1>2, <1>6, <3>1, <4>1
    <3>2. CASE x.text \notin W
      BY <1>2, <1>5, <3>2
    <3> QED
      BY <3>1, <3>2
  <2>2. LeftOf(Among(Put(s, <<x>>), W), Among(Append(s, x), W))
    BY PutLeft
  <2>3. /\ Among(Put(s, <<x>>), W) \in Words /\ Among(Append(s, x), W) \in Words
        /\ Among(Append(t, line), W) \in Words
    BY PutTyped, Appended, AmongTyped
  <2> HIDE DEF W
  <2> QED
    BY <2>1, <2>2, <2>3, LeftTwice
<1> QED
  BY <1>1, <1>5, <1>6

\* SetIn of lines to which one is added, or glued.
LEMMA SetAppended ==
  ASSUME NEW s \in Text, NEW x \in AnyLine, SetIn(s),
         Replacing(x) => /\ request.mode # "del" /\ x.text.value = request.value
                         /\ x.end # "none"
  PROVE  SetIn(Append(s, x))
<1>1. PICK t \in Text :
        /\ t = Append(s, x) /\ Len(s) \in Nat
        /\ \A i \in 1 .. Len(s) : t[i] = s[i]
        /\ t[Len(s) + 1] = x
        /\ DOMAIN s = 1 .. Len(s) /\ DOMAIN t = 1 .. Len(s) + 1
  BY Appended
<1>2. \A i \in DOMAIN t : i = Len(s) + 1 \/ i \in DOMAIN s
  BY <1>1
<1>3. SetIn(t)
  BY <1>1, <1>2 DEF SetIn, Replacing
<1> QED
  BY <1>1, <1>3

LEMMA SetPut ==
  ASSUME NEW s \in Text, NEW x \in AnyLine, SetIn(s),
         Replacing(x) => /\ request.mode # "del" /\ x.text.value = request.value
                         /\ x.end # "none"
  PROVE  SetIn(Put(s, <<x>>))
<1>1. CASE Put(s, <<x>>) = Append(s, x)
  BY <1>1, SetAppended
<1>2. ASSUME NEW f \in Text, NEW l \in AnyLine, NEW g \in AnyLine,
             s = Append(f, l), g = Glued(l, x), l.end = "none"
      PROVE  SetIn(Append(f, g))
  <2>1. /\ Len(f) \in Nat /\ s[Len(f) + 1] = l
        /\ \A i \in 1 .. Len(f) : s[i] = f[i]
        /\ DOMAIN f = 1 .. Len(f) /\ DOMAIN s = 1 .. Len(f) + 1
    BY <1>2, Appended
  <2>2. Len(f) + 1 \in DOMAIN s /\ \A i \in DOMAIN f : i \in DOMAIN s /\ s[i] = f[i]
    BY <2>1
  <2>3. SetIn(f)
    BY <2>2 DEF SetIn, Replacing
  <2>4. ~Replacing(l)
    BY <1>2, <2>1, <2>2 DEF SetIn
  <2>5. g.text.key = l.text.key
    BY <1>2 DEF Glued
  <2>6. ~Replacing(g)
    BY <2>4, <2>5 DEF Replacing
  <2> QED
    BY <2>3, <2>6, SetAppended
<1>3. CASE Put(s, <<x>>) # Append(s, x)
  <2>1. PICK f \in Text, l \in AnyLine, g \in AnyLine :
          /\ l.end = "none" /\ s = Append(f, l) /\ g = Glued(l, x)
          /\ Put(s, <<x>>) = Append(f, g)
    BY <1>3, PutForms
  <2>2. SetIn(Append(f, g))
    BY <1>2, <2>1
  <2> QED
    BY <2>1, <2>2
<1> QED
  BY <1>1, <1>3

LEMMA FoundAppended ==
  ASSUME NEW s \in Text, NEW x \in AnyLine
  PROVE  Found(s) \/ Replacing(x) => Found(Append(s, x))
<1>1. PICK t \in Text :
        /\ t = Append(s, x) /\ Len(s) \in Nat
        /\ \A i \in 1 .. Len(s) : t[i] = s[i]
        /\ t[Len(s) + 1] = x
        /\ DOMAIN s = 1 .. Len(s) /\ DOMAIN t = 1 .. Len(s) + 1
  BY Appended
<1>2. /\ \A i \in DOMAIN s : i \in DOMAIN t /\ t[i] = s[i]
      /\ Len(s) + 1 \in DOMAIN t
  BY <1>1
<1>3. Found(s) \/ Replacing(x) => Found(t)
  BY <1>1, <1>2 DEF Found
<1> QED
  BY <1>1, <1>3

\* One line is copied, replaced or dropped: none, or x, is written.
LEMMA WrittenIs ==
  ASSUME NEW line \in AnyLine, request \in Requests
  PROVE  \/ /\ Written(line) = << >>
            /\ Replacing(line) => request.mode = "del"
            /\ line.text \notin Others
         \/ \E x \in AnyLine :
              /\ Written(line) = <<x>>
              /\ Replacing(x) <=> Replacing(line)
              /\ Replacing(x) => /\ request.mode # "del"
                                 /\ x.text.value = request.value /\ x.end # "none"
              /\ x.text = line.text \/ (x.text \notin Others /\ line.text \notin Others)
              /\ line.end = "newline" \/ Replacing(line) => x.end = "newline"
<1>0. /\ request.key \in Keys /\ request.value \in Values /\ line.text \in AnyText
      /\ line.end \in {"newline", "0xff", "none"}
      /\ line.text.key \in Keys \cup {NoKey}
  BY DEF Requests, AnyLine, AnyText
<1>1. CASE Replacing(line) /\ request.mode = "del"
  <2>1. Written(line) = << >>
    BY <1>1 DEF Written, Replaced
  <2>2. line.text \notin Others
    BY <1>0, <1>1, Counted DEF Replacing
  <2> QED
    BY <1>1, <2>1, <2>2
<1>2. CASE Replacing(line) /\ request.mode # "del"
  <2>1. PICK u : u = [key |-> line.text.key, value |-> request.value]
    OBVIOUS
  <2>2. u \in AnyText /\ u.key = request.key /\ u.value = request.value
    BY <1>0, <1>2, <2>1 DEF Replacing, AnyText
  <2>3. PICK x : x = [text |-> u, end |-> "newline"]
    OBVIOUS
  <2>4. x \in AnyLine /\ x.text = u /\ x.end = "newline"
    BY <2>2, <2>3 DEF AnyLine
  <2>5. Written(line) = <<x>>
    BY <1>2, <2>1, <2>3 DEF Written, Replaced
  <2>6. u \notin Others /\ line.text \notin Others
    BY <1>0, <1>2, <2>2, Counted DEF Replacing
  <2> QED
    BY <1>2, <2>2, <2>4, <2>5, <2>6 DEF Replacing
<1>3. CASE ~Replacing(line) /\ line.end = "newline"
  <2>1. Written(line) = <<line>>
    BY <1>3 DEF Written, Copied
  <2> QED
    BY <1>3, <2>1
<1>4. CASE ~Replacing(line) /\ line.end # "newline" /\ line.text = NoText
  <2>1. Written(line) = << >>
    BY <1>4 DEF Written, Copied
  <2> QED
    BY <1>0, <1>4, <2>1, Counted
<1>5. CASE ~Replacing(line) /\ line.end # "newline" /\ line.text # NoText
  <2>1. PICK x : x = [text |-> line.text, end |-> "none"]
    OBVIOUS
  <2>2. x \in AnyLine /\ x.text = line.text
    BY <1>0, <2>1 DEF AnyLine
  <2>3. Written(line) = <<x>>
    BY <1>5, <2>1 DEF Written, Copied
  <2> QED
    BY <1>5, <2>2, <2>3 DEF Replacing
<1> QED
  BY <1>1, <1>2, <1>3, <1>4, <1>5

\* What is left of it: none, or a line with its text or one that does not count.
LEMMA PartsAre ==
  ASSUME NEW x \in AnyLine, NEW part \in Parts(x)
  PROVE  \/ part = << >>
         \/ \E y \in AnyLine : /\ part = <<y>>
                               /\ y.text = x.text \/ y.text \notin WholeOthers
<1>0. x.text \in AnyText /\ x.end \in {"newline", "0xff", "none"}
  BY DEF AnyLine
<1>1. CASE part = <<BlankLine>>
  BY <1>1, LinesTyped, Counted DEF BlankLine
<1> DEFINE Cut == [text : {x.text} \cup [key : Keys \cup {NoKey}, value : {"cut"}],
                   end : {"none", x.end}]
<1>2. ASSUME NEW y \in Cut, part = <<y>>
      PROVE  \E z \in AnyLine : /\ part = <<z>>
                                /\ z.text = x.text \/ z.text \notin WholeOthers
  <2>1. y.text \in AnyText /\ (y.text = x.text \/ y.text.value = "cut")
    BY <1>0 DEF AnyText
  <2>2. y \in AnyLine
    BY <1>0, <2>1 DEF AnyLine
  <2> QED
    BY <1>2, <2>1, <2>2, Counted
<1> HIDE DEF Cut
<1>3. \/ part = << >> \/ part = <<x>> \/ part = <<BlankLine>>
      \/ \E y \in Cut : part = <<y>>
  BY Zenon DEF Parts, Cut
<1> QED
  BY <1>1, <1>2, <1>3

-----------------------------------------------------------------------------
(* The invariant. *)

LEMMA SameSets ==
  ASSUME request' = request
  PROVE  Others' = Others /\ WholeOthers' = WholeOthers
BY DEF Others, WholeOthers

LEMMA Starts ==
  Init => IInv
<1> SUFFICES ASSUME Init PROVE IInv
  OBVIOUS
<1>1. file \in Seq(AnyLine)
  BY LinesTyped, SeqMonotonic, EditConfigAssumption DEF Init
<1>2. << >> \in Text
  BY EmptySeq DEF Text
<1>3. TypeOK
  BY <1>1, <1>2 DEF Init, TypeOK, Text
<1>4. KeptIn(file)
  <2>1. Among(file, WholeOthers) \in Words
    BY <1>1, AmongTyped DEF Text
  <2> QED
    BY <2>1, LeftSelf DEF Init, KeptIn
<1>5. Ended(file) /\ Ended(before)
  BY EditConfigAssumption DEF Init, Ended
<1> QED
  BY <1>3, <1>4, <1>5 DEF Init, IInv

LEMMA StepBegin ==
  ASSUME IInv, Begin
  PROVE  IInv'
<1>1. file \in Text /\ << >> \in Text
  BY EmptySeq DEF IInv, TypeOK, Text
<1>2. TypeOK'
  BY <1>1 DEF IInv, TypeOK, Begin, Text
<1>3. KeptIn(file)'
  <2>1. PICK W : W = WholeOthers'
    OBVIOUS
  <2>2. Among(file, W) \in Words
    BY <1>1, AmongTyped
  <2>3. LeftOf(Among(file, W), Among(file, W))
    BY <2>2, LeftSelf
  <2> QED
    BY <2>1, <2>3 DEF Begin, KeptIn
<1>4. (\E c \in 0 .. Len(before) : Come(c))'
  <2>1. Len(file) \in Nat
    BY <1>1, LenProperties DEF Text
  <2>2. PICK z \in 0 .. Len(file) : z = 0 /\ z + 1 = 1
    BY <2>1
  <2>3. PICK e \in Text : e = SubSeq(file, 1, z) /\ Len(e) = 0
    BY <1>1, <2>2, FirstLines
  <2>4. e = << >>
    BY <2>3, EmptySeq DEF Text
  <2>5. SubSeq(file, z + 1, Len(file)) = file
    BY <1>1, <2>2, SubSeqFull DEF Text
  <2>6. before' = file /\ rest' = file /\ temp' = << >>
    BY DEF Begin
  <2>7. LeftOf(Among(e, WholeOthers'), Among(e, WholeOthers'))
    <3>1. Among(e, WholeOthers') \in Words
      BY AmongTyped
    <3> QED
      BY <3>1, LeftSelf
  <2>8. LastEnded(temp)'
    BY <2>6 DEF LastEnded
  <2>9. Come(z)'
    BY <2>3, <2>4, <2>5, <2>6, <2>7, <2>8 DEF Come
  <2> QED
    BY <2>2, <2>6, <2>9
<1>5. SetIn(temp)' /\ Ended(temp)'
  BY DEF Begin, SetIn, Ended
<1>6. Ended(file)' /\ Ended(before)'
  BY DEF Begin, IInv, Ended
<1> QED
  BY <1>2, <1>3, <1>4, <1>5, <1>6 DEF IInv, Begin

\* What is copied is one line more, whatever became of the line.
LEMMA ComeOne ==
  ASSUME TypeOK, NEW c \in 0 .. Len(before), Come(c), rest # << >>
  PROVE  /\ c + 1 \in 0 .. Len(before)
         /\ Head(rest) = before[c + 1] /\ Head(rest) \in AnyLine
         /\ Tail(rest) \in Text
         /\ Tail(rest) = SubSeq(before, c + 2, Len(before))
         /\ SubSeq(before, 1, c + 1)
              = Append(SubSeq(before, 1, c), Head(rest))
<1>1. PICK b \in Text : b = before
  BY DEF TypeOK, Text
<1>2. PICK N \in Nat : N = Len(b)
  BY LenProperties DEF Text
<1>3. c \in Nat /\ c <= N
  BY <1>1, <1>2
<1>4. \A i \in 1 .. N : b[i] \in AnyLine
  BY <1>2, ElementOfSeq DEF Text
<1>5. rest \in Text /\ rest = SubSeq(b, c + 1, N)
  BY <1>1, <1>2 DEF TypeOK, Come, Text
<1>6. \A k \in 1 .. N + 2 :
        /\ Len(SubSeq(b, k, N)) = IF k <= N THEN N - k + 1 ELSE 0
        /\ \A i \in 1 .. N - k + 1 : SubSeq(b, k, N)[i] = b[k + i - 1]
        /\ SubSeq(b, k, N) \in Seq(AnyLine)
  <2> TAKE k \in 1 .. N + 2
  <2>1. k \in Int /\ N \in Int /\ \A i \in k .. N : b[i] \in AnyLine
    BY <1>2, <1>4
  <2> QED
    BY <2>1, SubSeqProperties
<1>7. PICK r \in Text :
        r = rest /\ Len(r) = (IF c + 1 <= N THEN N - (c + 1) + 1 ELSE 0)
        /\ \A i \in 1 .. N - (c + 1) + 1 : r[i] = b[c + 1 + i - 1]
  <2>1. PICK k \in 1 .. N + 2 : k = c + 1
    BY <1>2, <1>3
  <2> QED
    BY <1>5, <1>6, <2>1
<1>8. Len(r) # 0
  BY <1>7, EmptySeq DEF Text
<1>9. c + 1 <= N /\ Len(r) = N - c /\ 1 \in 1 .. N - (c + 1) + 1
  BY <1>2, <1>3, <1>7, <1>8
<1>10. /\ Head(r) = r[1] /\ Tail(r) \in Text /\ Len(Tail(r)) = Len(r) - 1
       /\ \A i \in 1 .. Len(Tail(r)) : Tail(r)[i] = r[i + 1]
  BY <1>7, <1>8, HeadTailProperties, EmptySeq DEF Text
<1>11. r[1] = b[c + 1]
  <2>1. c + 1 + 1 - 1 = c + 1
    BY <1>3
  <2>2. r[1] = b[c + 1 + 1 - 1]
    BY <1>7, <1>9
  <2> QED
    BY <2>1, <2>2
<1>12. PICK t \in Text : t = Tail(r) /\ Len(t) = N - c - 1
                         /\ \A i \in 1 .. N - c - 1 : t[i] = r[i + 1]
  <2>1. Len(r) - 1 = N - c - 1
    BY <1>9
  <2> QED
    BY <1>10, <2>1
<1>13. PICK u \in Text : u = SubSeq(b, c + 2, N) /\ Len(u) = N - c - 1
                         /\ \A i \in 1 .. N - c - 1 : u[i] = b[c + 2 + i - 1]
  <2>1. PICK k \in 1 .. N + 2 : k = c + 2
    BY <1>2, <1>3
  <2>2. /\ (IF k <= N THEN N - k + 1 ELSE 0) = N - c - 1
        /\ N - k + 1 = N - c - 1
    BY <1>2, <1>3, <1>9, <2>1
  <2> QED
    BY <1>6, <2>1, <2>2 DEF Text
<1>14. \A i \in 1 .. N - c - 1 : t[i] = u[i]
  <2> TAKE i \in 1 .. N - c - 1
  <2>1. /\ i + 1 \in 1 .. N - (c + 1) + 1
        /\ c + 1 + (i + 1) - 1 = c + 2 + i - 1
    BY <1>2, <1>3, <1>9
  <2>2. r[i + 1] = b[c + 1 + (i + 1) - 1]
    BY <1>7, <2>1
  <2> QED
    BY <1>12, <1>13, <2>1, <2>2
<1>15. t = u
  BY <1>12, <1>13, <1>14, SeqEqual DEF Text
<1>16. PICK n \in 1 .. Len(b) : n = c + 1 /\ c = n - 1
  BY <1>2, <1>3, <1>9
<1>17. SubSeq(b, 1, n) = Append(SubSeq(b, 1, c), b[n])
  BY <1>16, OneMoreLine
<1>18. c + 1 \in 0 .. Len(b) /\ b[n] \in AnyLine
  BY <1>2, <1>3, <1>4, <1>9, <1>16
<1> QED
  BY <1>1, <1>2, <1>7, <1>10, <1>11, <1>12, <1>13, <1>15, <1>16, <1>17, <1>18


\* When all of the file is clean and there are lines to come, the line that is
\* copied has its newline.
LEMMA LineEnded ==
  ASSUME TypeOK, Ended(before), Clean(before),
         NEW c \in 0 .. Len(before), Come(c), rest # << >>, Tail(rest) # << >>
  PROVE  Head(rest).end = "newline"
<1>1. PICK N \in Nat : N = Len(before)
  BY LenProperties DEF TypeOK
<1>2. /\ c + 1 \in 0 .. Len(before)
      /\ Head(rest) = before[c + 1] /\ Head(rest) \in AnyLine
      /\ Tail(rest) = SubSeq(before, c + 2, Len(before))
  BY ComeOne
<1>3. c + 1 # N
  <2> SUFFICES ASSUME c + 1 = N PROVE FALSE
    OBVIOUS
  <2>1. PICK k : k = c + 2
    OBVIOUS
  <2>2. k > N /\ k \in Int
    BY <1>1, <2>1
  <2>3. SubSeq(before, k, N) = << >>
    BY <1>1, <2>2, SubSeqEmpty
  <2> QED
    BY <1>1, <1>2, <2>1, <2>3
<1>4. c + 1 \in DOMAIN before
  <2>1. DOMAIN before = 1 .. N
    BY <1>1, LenProperties DEF TypeOK
  <2> QED
    BY <1>1, <1>2, <2>1
<1>5. before[c + 1].end # "none" /\ before[c + 1].end # "0xff"
  BY <1>1, <1>3, <1>4 DEF Ended, Clean
<1> QED
  BY <1>2, <1>5 DEF AnyLine

\* One line is read, and what is written of it, all or a part.
LEMMA StepRead ==
  ASSUME IInv, pc = "copy", rest # << >>, rest' = Tail(rest),
         timen' = IF Replacing(Head(rest)) THEN timen + 1 ELSE timen,
         UNCHANGED <<file, pc, request, before>>,
         NEW written,
         \/ written = << >>
         \/ \E x \in AnyLine :
              /\ written = <<x>>
              /\ x.text = Head(rest).text \/ x.text \notin WholeOthers,
         temp' = Put(temp, written),
         short' => short',
         short => short',
         ~short' => written = Written(Head(rest))
  PROVE  IInv'
<1> DEFINE line == Head(rest)
<1>1. /\ TypeOK /\ file = before /\ KeptIn(file) /\ Ended(temp)
      /\ Ended(file) /\ Ended(before)
      /\ timen \in Nat /\ request \in Requests /\ temp \in Text
      /\ file \in Text /\ before \in Text
      /\ ~short => SetIn(temp)
      /\ Strict /\ timen > 0 /\ request.mode = "app" => Found(temp)
  BY DEF IInv, TypeOK, Text
<1>2. PICK c \in 0 .. Len(before) : Come(c)
  BY DEF IInv
<1>3. Others' = Others /\ WholeOthers' = WholeOthers
  BY SameSets
<1>4. /\ c + 1 \in 0 .. Len(before)
      /\ line \in AnyLine
      /\ Tail(rest) \in Text
      /\ Tail(rest) = SubSeq(before, c + 2, Len(before))
      /\ SubSeq(before, 1, c + 1) = Append(SubSeq(before, 1, c), line)
  BY <1>1, <1>2, ComeOne
<1>5. PICK s \in Text : s = SubSeq(before, 1, c)
  BY <1>1, FirstLines
<1> HIDE DEF line
<1>6. /\ temp' \in Text /\ Ended(temp')
      /\ LeftOf(Among(temp', WholeOthers), Among(Append(s, line), WholeOthers))
  <2>1. LeftOf(Among(temp, WholeOthers), Among(s, WholeOthers))
    BY <1>2, <1>5 DEF Come
  <2>2. CASE written = << >>
    <3>1. temp' = temp
      BY <2>2, PutNothing
    <3> QED
      BY <1>1, <1>4, <2>1, <3>1, OneMoreLeft
  <2>3. ASSUME NEW x \in AnyLine, written = <<x>>,
               x.text = line.text \/ x.text \notin WholeOthers
        PROVE  /\ temp' \in Text /\ Ended(temp')
               /\ LeftOf(Among(temp', WholeOthers), Among(Append(s, line), WholeOthers))
    <3>1. temp' = Put(temp, <<x>>)
      BY <2>3
    <3> QED
      BY <1>1, <1>4, <2>1, <2>3, <3>1, PutTyped, PutEnded, OneMoreLeft
  <2> QED
    BY <2>2, <2>3 DEF line
<1>7. ~short' => SetIn(temp')
  <2> SUFFICES ASSUME ~short' PROVE SetIn(temp')
    OBVIOUS
  <2>1. SetIn(temp) /\ temp' = Put(temp, Written(line))
    BY <1>1 DEF line
  <2>2. CASE Written(line) = << >>
    BY <2>1, <2>2, PutNothing
  <2>3. ASSUME NEW x \in AnyLine, Written(line) = <<x>>,
               Replacing(x) => /\ request.mode # "del"
                               /\ x.text.value = request.value /\ x.end # "none"
        PROVE  SetIn(temp')
    BY <1>1, <2>1, <2>3, SetPut
  <2> QED
    BY <1>1, <1>4, <2>2, <2>3, WrittenIs
<1>8. ASSUME Strict'
      PROVE  /\ Among(temp', Others) = Among(Append(s, line), Others)
             /\ Tail(rest) # << >> => LastEnded(temp')
             /\ timen' > 0 /\ request.mode = "app" => Found(temp')
  <2>1. Strict /\ temp' = Put(temp, Written(line))
    BY <1>8 DEF Strict, Clean, line
  <2>2. Among(temp, Others) = Among(s, Others) /\ LastEnded(temp)
    BY <1>2, <1>5, <2>1 DEF Come
  <2>3. Tail(rest) # << >> => line.end = "newline"
    BY <1>1, <1>2, <2>1, LineEnded DEF Strict, line
  <2>4. timen' = IF Replacing(line) THEN timen + 1 ELSE timen
    BY DEF line
  <2>5. CASE /\ Written(line) = << >> /\ line.text \notin Others
             /\ Replacing(line) => request.mode = "del"
    <3>1. temp' = temp
      BY <2>1, <2>5, PutNothing
    <3>2. Among(Append(s, line), Others) = Among(s, Others)
      BY <1>4, <2>5, AmongOneMore
    <3>3. timen' > 0 /\ request.mode = "app" => Found(temp)
      BY <1>1, <2>1, <2>4, <2>5
    <3> QED
      BY <2>2, <3>1, <3>2, <3>3
  <2>6. ASSUME NEW x \in AnyLine, Written(line) = <<x>>,
               Replacing(x) <=> Replacing(line),
               x.text = line.text \/ (x.text \notin Others /\ line.text \notin Others),
               line.end = "newline" \/ Replacing(line) => x.end = "newline"
        PROVE  /\ Among(temp', Others) = Among(Append(s, line), Others)
               /\ Tail(rest) # << >> => LastEnded(temp')
               /\ timen' > 0 /\ request.mode = "app" => Found(temp')
    <3>1. temp' = Append(temp, x)
      <4>1. temp = << >> \/ Last(temp).end # "none"
        BY <2>2 DEF LastEnded
      <4> QED
        BY <1>1, <2>1, <2>6, <4>1, PutIs
    <3>2. Among(Append(temp, x), Others) = Among(Append(s, line), Others)
      <4>1. Among(Append(temp, x), Others)
              = IF x.text \in Others THEN Append(Among(temp, Others), x.text)
                                     ELSE Among(temp, Others)
        BY <1>1, AmongOneMore
      <4>2. Among(Append(s, line), Others)
              = IF line.text \in Others THEN Append(Among(s, Others), line.text)
                                        ELSE Among(s, Others)
        BY <1>4, AmongOneMore
      <4> QED
        BY <2>2, <2>6, <4>1, <4>2
    <3>3. Tail(rest) # << >> => LastEnded(temp')
      <4>1. Last(temp') = x
        <5>1. /\ Len(Append(temp, x)) = Len(temp) + 1
              /\ Append(temp, x)[Len(temp) + 1] = x
          BY <1>1, Appended
        <5> QED
          BY <3>1, <5>1 DEF Last
      <4> QED
        BY <2>3, <2>6, <4>1 DEF LastEnded
    <3>4. timen' > 0 /\ request.mode = "app" => Found(temp')
      <4>1. Found(temp) \/ Replacing(x) => Found(Append(temp, x))
        BY <1>1, FoundAppended
      <4>2. timen' > 0 /\ request.mode = "app" => Found(temp) \/ Replacing(x)
        BY <1>1, <2>1, <2>4, <2>6
      <4> QED
        BY <3>1, <4>1, <4>2
    <3> QED
      BY <3>1, <3>2, <3>3, <3>4
  <2> QED
    BY <1>1, <1>4, <2>5, <2>6, WrittenIs
<1>9. Come(c + 1)'
  <2>1. c + 1 + 1 = c + 2
    BY <1>2
  <2>2. rest' = SubSeq(before, c + 1 + 1, Len(before))
    BY <1>4, <2>1
  <2>3. SubSeq(before, 1, c + 1) = Append(s, line)
    BY <1>4, <1>5
  <2>4. LastEnded(temp') => LastEnded(temp)'
    BY DEF LastEnded
  <2> QED
    BY <1>3, <1>6, <1>8, <2>2, <2>3, <2>4 DEF Come
<1>10. KeptIn(file)'
  BY <1>1, <1>3 DEF KeptIn, Strict, Clean
<1>11. TypeOK'
  <2>1. timen' \in Nat
    BY <1>1
  <2> QED
    BY <1>1, <1>4, <1>6, <2>1 DEF TypeOK, Text
<1>12. /\ SetIn(temp') => SetIn(temp)'
       /\ Found(temp') => Found(temp)'
       /\ Ended(temp') => Ended(temp)'
       /\ Ended(file)' /\ Ended(before)'
  BY <1>1 DEF SetIn, Found, Ended, Replacing
<1>13. (\E d \in 0 .. Len(before) : Come(d))'
  BY <1>4, <1>9
<1> QED
  BY <1>1, <1>6, <1>7, <1>8, <1>10, <1>11, <1>12, <1>13 DEF IInv

LEMMA StepCopyLine ==
  ASSUME IInv, CopyLine
  PROVE  IInv'
<1>1. PICK line : line = Head(rest)
  OBVIOUS
<1>2. /\ TypeOK /\ line \in AnyLine /\ request \in Requests
  <2>1. TypeOK /\ \E c \in 0 .. Len(before) : Come(c)
    BY DEF IInv, CopyLine
  <2> QED
    BY <1>1, <2>1, ComeOne DEF CopyLine, TypeOK
<1>3. \/ Written(line) = << >>
      \/ \E x \in AnyLine :
           /\ Written(line) = <<x>>
           /\ x.text = line.text \/ x.text \notin WholeOthers
  <2>1. ASSUME NEW x, x \notin Others PROVE x \notin WholeOthers
    BY <2>1 DEF WholeOthers
  <2> QED
    BY <1>2, <2>1, WrittenIs
<1>4. PICK written : written = Written(line)
  OBVIOUS
<1>5. /\ pc = "copy" /\ rest # << >> /\ rest' = Tail(rest)
      /\ timen' = (IF Replacing(line) THEN timen + 1 ELSE timen)
      /\ UNCHANGED <<file, pc, request, before>>
      /\ temp' = Put(temp, written) /\ short' = short
  BY <1>1, <1>4 DEF CopyLine
<1> QED
  BY <1>1, <1>3, <1>4, <1>5, StepRead, Zenon

LEMMA StepCopyLineShort ==
  ASSUME IInv, CopyLineShort
  PROVE  IInv'
<1>1. PICK line : line = Head(rest)
  OBVIOUS
<1>2. /\ TypeOK /\ line \in AnyLine /\ request \in Requests
  <2>1. TypeOK /\ \E c \in 0 .. Len(before) : Come(c)
    BY DEF IInv, CopyLineShort
  <2> QED
    BY <1>1, <2>1, ComeOne DEF CopyLineShort, TypeOK
<1>3. PICK x \in AnyLine :
        /\ Written(line) = <<x>>
        /\ x.text = line.text \/ x.text \notin WholeOthers
  <2>1. ASSUME NEW y, y \notin Others PROVE y \notin WholeOthers
    BY <2>1 DEF WholeOthers
  <2>2. Written(line) # << >>
    BY <1>1 DEF CopyLineShort
  <2> QED
    BY <1>2, <2>1, <2>2, WrittenIs
<1>4. PICK part \in Parts(x) : temp' = Put(temp, part)
  <2>1. <<x>>[1] = x
    OBVIOUS
  <2> QED
    BY <1>1, <1>3, <2>1 DEF CopyLineShort
<1>5. \/ part = << >>
      \/ \E y \in AnyLine : /\ part = <<y>>
                            /\ y.text = line.text \/ y.text \notin WholeOthers
  BY <1>3, PartsAre
<1>6. /\ pc = "copy" /\ rest # << >> /\ rest' = Tail(rest)
      /\ timen' = (IF Replacing(line) THEN timen + 1 ELSE timen)
      /\ UNCHANGED <<file, pc, request, before>>
      /\ short'
  BY <1>1 DEF CopyLineShort
<1> QED
  BY <1>1, <1>4, <1>5, <1>6, StepRead, Zenon

LEMMA StepRename ==
  ASSUME IInv, Rename
  PROVE  IInv'
<1>1. /\ pc = "copy" /\ rest = << >> /\ file' = temp /\ temp' = << >>
      /\ pc' = IF timen = 0 /\ request.mode = "app" THEN "append" ELSE "done"
      /\ UNCHANGED <<request, rest, timen, short, before>>
  BY DEF Rename
<1>2. /\ TypeOK /\ timen \in Nat /\ Ended(temp) /\ Ended(before)
      /\ \E c \in 0 .. Len(before) : Come(c)
      /\ ~short => SetIn(temp)
      /\ Strict /\ timen > 0 /\ request.mode = "app" => Found(temp)
  BY <1>1 DEF IInv, TypeOK
<1>3. Others' = Others /\ WholeOthers' = WholeOthers
  BY <1>1, SameSets
<1>4. TypeOK'
  <2>1. << >> \in Seq(AnyLine)
    BY EmptySeq
  <2> QED
    BY <1>1, <1>2, <2>1 DEF TypeOK
<1>5. KeptIn(temp)
  <2>1. PICK c \in 0 .. Len(before) : Come(c)
    BY <1>2
  <2>2. PICK b \in Text : b = before
    BY <1>2 DEF TypeOK, Text
  <2>3. PICK N \in Nat : N = Len(b)
    BY LenProperties DEF Text
  <2>4. c = N
    <3>1. PICK k \in Nat : k = c + 1
      BY <2>2, <2>3
    <3>2. ASSUME k <= N PROVE FALSE
      <4>1. \A i \in k .. N : b[i] \in AnyLine
        BY <2>3, <3>1, ElementOfSeq DEF Text
      <4>2. Len(SubSeq(b, k, N)) = N - k + 1
        BY <2>3, <3>2, <4>1, SubSeqProperties
      <4>3. SubSeq(b, k, N) = << >>
        BY <1>1, <2>1, <2>2, <2>3, <3>1 DEF Come
      <4>4. Len(<< >>) = 0
        OBVIOUS
      <4>5. N - k + 1 = 0
        BY <4>2, <4>3, <4>4, Zenon
      <4> QED
        BY <3>2, <4>5
    <3> QED
      BY <2>2, <2>3, <3>1, <3>2
  <2>5. SubSeq(b, 1, N) = b
    BY <2>3, SubSeqFull DEF Text
  <2> QED
    BY <2>1, <2>2, <2>4, <2>5 DEF Come, KeptIn
<1>6. KeptIn(file)'
  BY <1>1, <1>3, <1>5 DEF KeptIn, Strict, Clean
<1>7. Ended(file)' /\ Ended(before)'
  BY <1>1, <1>2 DEF Ended
<1>8. ~short => SetIn(file)'
  BY <1>1, <1>2 DEF SetIn, Replacing
<1>9. Strict' /\ timen > 0 /\ request.mode = "app" => Found(file)'
  BY <1>1, <1>2 DEF Strict, Clean, Found, Replacing
<1>10. timen = 0 \/ timen > 0
  BY <1>2
<1>11. ~short' /\ pc' = "append" => SetIn(file)' /\ request'.mode = "app"
  BY <1>1, <1>8
<1>12. ~short' /\ pc' = "done" =>
         /\ \A n \in DOMAIN file' :
              Replacing(file[n])' =>
                request'.mode # "del" /\ file'[n].text.value = request'.value
         /\ Strict' /\ request'.mode = "app" => Found(file)'
  BY <1>1, <1>8, <1>9, <1>10 DEF SetIn, Replacing
<1>13. pc' # "copy"
  BY <1>1
<1> QED
  BY <1>4, <1>6, <1>7, <1>11, <1>12, <1>13 DEF IInv, Replacing

\* Nothing but a newline comes before the line that is appended.
LEMMA NewLinedIs ==
  ASSUME file \in Text, request \in Requests, Ended(file)
  PROVE  /\ NewLined \in Text /\ Ended(NewLined)
         /\ Among(NewLined, Others) = Among(file, Others)
         /\ Among(NewLined, WholeOthers) = Among(file, WholeOthers)
         /\ SetIn(file) => SetIn(NewLined)
         /\ NewLined # << >> /\ Last(NewLined).end = "newline"
<1>1. CASE file # << >> /\ Last(file).end = "newline"
  BY <1>1 DEF NewLined
<1>2. CASE ~(file # << >> /\ Last(file).end = "newline")
  <2>1. NewLined = Put(file, <<BlankLine>>)
    BY <1>2 DEF NewLined
  <2>2. /\ BlankLine \in AnyLine /\ BlankLine.text = NoText
        /\ BlankLine.end = "newline"
        /\ NoText \notin Others /\ NoText \notin WholeOthers
    BY LinesTyped, Counted DEF BlankLine
  <2>3. ~Replacing(BlankLine)
    BY <2>2, EditConfigAssumption DEF Replacing, Requests, NoText
  <2>4. ASSUME NEW f \in Text, NEW y \in AnyLine, y.end = "newline"
        PROVE  Append(f, y) # << >> /\ Last(Append(f, y)).end = "newline"
    <3>1. /\ Len(Append(f, y)) = Len(f) + 1 /\ Len(f) \in Nat
          /\ Append(f, y)[Len(f) + 1] = y
      BY Appended
    <3>2. Append(f, y) # << >>
      BY <3>1
    <3> QED
      BY <2>4, <3>1, <3>2 DEF Last
  <2>5. PICK x \in AnyLine, s \in Text : x = BlankLine /\ s = file
    BY <2>2
  <2>6. NewLined # << >> /\ Last(NewLined).end = "newline"
    <3>1. CASE Put(s, <<x>>) = Append(s, x)
      BY <2>1, <2>2, <2>4, <2>5, <3>1
    <3>2. CASE Put(s, <<x>>) # Append(s, x)
      <4>1. PICK f \in Text, l \in AnyLine, g \in AnyLine :
              /\ l.end = "none" /\ s = Append(f, l) /\ g = Glued(l, x)
              /\ Put(s, <<x>>) = Append(f, g)
        BY <3>2, PutForms
      <4>2. g.end = "newline"
        BY <2>2, <2>5, <4>1 DEF Glued
      <4> QED
        BY <2>1, <2>4, <2>5, <4>1, <4>2
    <3> QED
      BY <3>1, <3>2
  <2> QED
    BY <2>1, <2>2, <2>3, <2>6, PutTyped, PutEnded, BlankPut, SetPut
<1> QED
  BY <1>1, <1>2

LEMMA LineIs ==
  ASSUME request \in Requests
  PROVE  /\ Line \in AnyLine /\ Replacing(Line)
         /\ Line.text.value = request.value
         /\ Line.text \notin Others /\ Line.text \notin WholeOthers
<1>1. /\ Line.text \in AnyText /\ Line.text.key = request.key
      /\ Line.text.value = request.value /\ Line.end = "none"
  BY DEF Line, Requests, AnyText
<1>2. Line \in AnyLine
  BY <1>1 DEF Line, AnyLine
<1> QED
  BY <1>1, <1>2, Counted DEF Replacing

\* What is appended is a line of the key, after a newline.
LEMMA StepAppend ==
  ASSUME IInv, configAppend
  PROVE  IInv'
<1>1. /\ pc = "append" /\ file' = Put(NewLined, <<Line>>)
      /\ pc' = "done"
      /\ UNCHANGED <<temp, request, rest, timen, short, before>>
  BY DEF configAppend
<1>2. /\ TypeOK /\ KeptIn(file) /\ Ended(file) /\ Ended(before)
      /\ ~short => SetIn(file) /\ request.mode = "app"
      /\ file \in Text /\ request \in Requests
  BY <1>1 DEF IInv, TypeOK, Text
<1>3. Others' = Others /\ WholeOthers' = WholeOthers
  BY <1>1, SameSets
<1>4. PICK n \in Text : /\ n = NewLined /\ Ended(n)
                        /\ Among(n, Others) = Among(file, Others)
                        /\ Among(n, WholeOthers) = Among(file, WholeOthers)
                        /\ SetIn(file) => SetIn(n)
                        /\ n # << >> /\ Last(n).end = "newline"
  BY <1>2, NewLinedIs
<1>5. PICK x \in AnyLine : /\ x = Line /\ Replacing(x) /\ x.text.value = request.value
                           /\ x.text \notin Others /\ x.text \notin WholeOthers
  BY <1>2, LineIs
<1>6. file' = Put(n, <<x>>) /\ Put(n, <<x>>) = Append(n, x)
  BY <1>1, <1>4, <1>5, PutIs
<1>7. /\ Append(n, x) \in Text /\ Ended(Append(n, x))
      /\ Among(Append(n, x), Others) = Among(n, Others)
      /\ Among(Append(n, x), WholeOthers) = Among(n, WholeOthers)
      /\ Found(Append(n, x))
  <2>1. Ended(Put(n, <<x>>)) /\ Append(n, x) \in Text /\ Found(Append(n, x))
    BY <1>4, <1>5, PutEnded, Appended, FoundAppended
  <2>2. \A some :
          Among(Append(n, x), some)
            = IF x.text \in some THEN Append(Among(n, some), x.text) ELSE Among(n, some)
    BY AmongOneMore
  <2>3. /\ Among(Append(n, x), Others) = Among(n, Others)
        /\ Among(Append(n, x), WholeOthers) = Among(n, WholeOthers)
    BY <1>5, <2>2
  <2> QED
    BY <1>6, <2>1, <2>3
<1>8. KeptIn(file)'
  BY <1>1, <1>2, <1>3, <1>4, <1>6, <1>7 DEF KeptIn, Strict, Clean
<1>9. TypeOK'
  BY <1>1, <1>2, <1>6, <1>7 DEF TypeOK, Text
<1>10. ASSUME ~short, NEW i \in DOMAIN Append(n, x), Replacing(Append(n, x)[i])
       PROVE  request.mode # "del" /\ Append(n, x)[i].text.value = request.value
  <2>1. /\ Len(n) \in Nat /\ DOMAIN n = 1 .. Len(n) /\ Append(n, x)[Len(n) + 1] = x
        /\ DOMAIN Append(n, x) = 1 .. Len(n) + 1
        /\ \A k \in 1 .. Len(n) : Append(n, x)[k] = n[k]
    BY Appended
  <2>2. i = Len(n) + 1 \/ i \in DOMAIN n
    BY <2>1
  <2>3. SetIn(n) /\ request.mode = "app"
    BY <1>2, <1>4, <1>10
  <2> QED
    BY <1>5, <1>10, <2>1, <2>2, <2>3 DEF SetIn
<1>11. Found(file)' /\ Ended(file)' /\ Ended(before)'
  BY <1>1, <1>2, <1>6, <1>7 DEF Found, Replacing, Ended
<1>12. ~short' => \A i \in DOMAIN file' :
                    Replacing(file[i])' =>
                      request'.mode # "del" /\ file'[i].text.value = request'.value
  BY <1>1, <1>6, <1>10 DEF Replacing
<1> QED
  BY <1>1, <1>8, <1>9, <1>11, <1>12 DEF IInv, Replacing

\* With too little room, nothing is added to the lines kept but a newline and
\* what is left of the line that was to be appended.
LEMMA StepAppendShort ==
  ASSUME IInv, configAppendShort
  PROVE  IInv'
<1>1. /\ pc = "append" /\ pc' = "done" /\ short'
      /\ file' \in {file} \cup {Put(NewLined, part) : part \in Parts(Line)}
      /\ UNCHANGED <<temp, request, rest, timen, before>>
  BY DEF configAppendShort
<1>2. /\ TypeOK /\ KeptIn(file) /\ Ended(file) /\ Ended(before)
      /\ file \in Text /\ before \in Text /\ request \in Requests
  BY <1>1 DEF IInv, TypeOK, Text
<1>3. Others' = Others /\ WholeOthers' = WholeOthers
  BY <1>1, SameSets
<1>4. LeftOf(Among(file, WholeOthers), Among(before, WholeOthers))
  BY <1>2 DEF KeptIn
<1>5. PICK n \in Text : /\ n = NewLined /\ Ended(n)
                        /\ Among(n, WholeOthers) = Among(file, WholeOthers)
  BY <1>2, NewLinedIs
<1>6. PICK a \in Words, b \in Words :
        a = Among(n, WholeOthers) /\ b = Among(before, WholeOthers) /\ LeftOf(a, b)
  BY <1>2, <1>4, <1>5, AmongTyped
<1>7. /\ file' \in Text /\ Ended(file')
      /\ LeftOf(Among(file', WholeOthers), Among(before, WholeOthers))
  <2>1. CASE file' = file
    BY <1>2, <1>4, <2>1
  <2>2. ASSUME NEW part \in Parts(Line), file' = Put(n, part)
        PROVE  /\ file' \in Text /\ Ended(file')
               /\ LeftOf(Among(file', WholeOthers), Among(before, WholeOthers))
    <3>1. \/ part = << >>
          \/ \E y \in AnyLine : part = <<y>> /\ y.text \notin WholeOthers
      BY <1>2, LineIs, PartsAre
    <3>2. CASE part = << >>
      BY <1>5, <1>6, <2>2, <3>2, PutNothing
    <3>3. ASSUME NEW y \in AnyLine, part = <<y>>, y.text \notin WholeOthers
          PROVE  /\ file' \in Text /\ Ended(file')
                 /\ LeftOf(Among(file', WholeOthers), Among(before, WholeOthers))
      <4>1. file' = Put(n, <<y>>)
        BY <2>2, <3>3
      <4>2. file' \in Text /\ Ended(file')
        BY <1>5, <4>1, PutTyped, PutEnded
      <4>3. LeftOf(Among(Put(n, <<y>>), WholeOthers), Among(Append(n, y), WholeOthers))
        BY PutLeft
      <4>4. Among(Append(n, y), WholeOthers) = a
        BY <1>6, <3>3, AmongOneMore
      <4>5. PICK d \in Words : d = Among(Put(n, <<y>>), WholeOthers)
        BY PutTyped, AmongTyped
      <4>6. LeftOf(d, a) /\ LeftOf(a, b)
        BY <1>6, <4>3, <4>4, <4>5
      <4>7. LeftOf(d, b)
        BY <4>6, LeftTwice
      <4> QED
        BY <1>6, <4>1, <4>2, <4>5, <4>7
    <3> QED
      BY <3>1, <3>2, <3>3
  <2> QED
    BY <1>1, <1>5, <2>1, <2>2
<1>8. KeptIn(file)'
  BY <1>1, <1>3, <1>7 DEF KeptIn, Strict
<1>9. TypeOK'
  BY <1>1, <1>2, <1>7 DEF TypeOK, Text
<1>10. Ended(file)' /\ Ended(before)'
  BY <1>1, <1>2, <1>7 DEF Ended
<1> QED
  BY <1>1, <1>8, <1>9, <1>10 DEF IInv

\* A run that is killed leaves the file as it was.
LEMMA StepKilled ==
  ASSUME IInv, Killed \/ UNCHANGED vars
  PROVE  IInv'
<1>1. /\ UNCHANGED <<file, temp, request, rest, timen, short, before>>
      /\ pc' \in {pc, "idle"}
  BY DEF Killed, vars
<1>2. Others' = Others /\ WholeOthers' = WholeOthers
  BY <1>1, SameSets
<1>3. TypeOK'
  BY <1>1 DEF IInv, TypeOK
<1>4. Strict' = Strict
  BY <1>1 DEF Strict, Clean
<1>5. KeptIn(file)' /\ Ended(file)' /\ Ended(before)'
      /\ (Ended(temp) => Ended(temp)')
  BY <1>1, <1>2, <1>4 DEF IInv, KeptIn, Ended
<1>6. /\ SetIn(file) => SetIn(file)'
      /\ SetIn(temp) => SetIn(temp)'
      /\ Found(file) => Found(file)'
      /\ Found(temp) => Found(temp)'
      /\ \A n : Replacing(file[n])' <=> Replacing(file[n])
  BY <1>1 DEF SetIn, Found, Replacing
<1>7. \A c : Come(c) => Come(c)'
  BY <1>1, <1>2, <1>4 DEF Come, LastEnded
<1>8. CASE pc' = "idle"
  BY <1>3, <1>5, <1>8 DEF IInv
<1>9. CASE pc' = pc
  BY <1>1, <1>3, <1>4, <1>5, <1>6, <1>7, <1>9 DEF IInv
<1> QED
  BY <1>1, <1>8, <1>9

-----------------------------------------------------------------------------
(* The theorems. *)

\* The invariant holds in every run of the editor: what is written to the
\* second file is what is read from the first, line by line, and what the file
\* holds in the meantime is what it held before (configReplace, configAppend).
THEOREM EditorCorrect == Spec => []IInv
<1>1. IInv /\ [Next]_vars => IInv'
  BY StepBegin, StepCopyLine, StepCopyLineShort, StepRename, StepAppend,
     StepAppendShort, StepKilled DEF Next
<1> QED
  BY <1>1, Starts, PTL DEF Spec

\* Whatever the file's length and however often a run was killed, every line
\* of another key is kept in its place; in a run that finds the disk full for
\* a while, or a byte 0xFF in the file, lines are lost, cut or glued, but none
\* is made up, doubled or moved (configReplace, configAppend and the rename
\* between them).
THEOREM OthersSafe == Spec => []OthersKept
<1>1. IInv => OthersKept
  BY DEF IInv, KeptIn, Strict, OthersKept
<1> QED
  BY <1>1, EditorCorrect, PTL

\* When a run ends with every write made, each line of the key has the value
\* asked for, none is left after "del", and after "app" there is one, if no
\* byte 0xFF was in the file (configReplace's count of lines replaced decides
\* between the two).
THEOREM KeysSet == Spec => []KeyIsSet
<1>1. IInv => KeyIsSet
  BY DEF IInv, Strict, Found, KeyIsSet
<1> QED
  BY <1>1, EditorCorrect, PTL
=============================================================================
