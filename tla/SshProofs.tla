----------------------------- MODULE SshProofs -----------------------------
(***************************************************************************)
(* Proofs about SshTransfer and the SshSession it extends: what is written *)
(* of a file is its beginning, and the whole of it when a transfer says    *)
(* so; a session closes its own socket and no other.                       *)
(***************************************************************************)
EXTENDS SshTransfer, SequenceTheorems, WellFoundedInduction, TLAPS

-----------------------------------------------------------------------------
(* The inductive invariant: the socket, and what each kind of channel has  *)
(* done so far.                                                            *)

SessionTypeOK ==
  /\ session \in {"new", "connected", "authenticated", "freed"}
  /\ m_sock \in Descriptors \cup {-1}
  /\ holder \in [Descriptors -> {"free", "session", "other"}]
  /\ answers \in Seq({0, -1})
  /\ foreign \in BOOLEAN

\* Before connect is called the session has nothing; after the first call, if
\* it has answered 0, the one descriptor of m_sock until it is freed.
SocketOwned ==
  /\ answers = << >> => \A d \in Descriptors : holder[d] # "session"
  /\ answers = <<0>> =>
       /\ ~foreign
       /\ session # "freed" => m_sock \in Descriptors /\ holder[m_sock] = "session"
       /\ \A d \in Descriptors :
            holder[d] = "session" => session # "freed" /\ d = m_sock
  /\ session # "freed" => ~foreign

SessionInv == SessionTypeOK /\ SocketOwned

\* Where a transfer can be, given what was opened.
Place ==
  \/ channel = "none" /\ pc = "idle"
  \/ channel = "command" /\ pc \in {"command", "done"}
  \/ channel = "get" /\ pc \in {"receive", "done"}
  \/ channel = "post" /\ pc \in {"send", "write", "finish", "done"}

TransferTypeOK ==
  /\ Place
  /\ source \in Sources
  /\ st_size \in Int /\ got \in Int /\ position \in Nat /\ status \in Int
  /\ stream \in Seq(Nat) /\ buffer \in Seq(Nat) /\ copy \in Seq(Nat)

\* What a peer that lives sends.
Sent == Append(source, Zero)

\* Until a channel is opened nothing has come and nothing has been written.
Fresh ==
  channel = "none" => got = 0 /\ position = 0 /\ buffer = << >> /\ copy = << >>

\* c bytes have been read, of which what is written is the beginning, or all
\* if the disk has room; got counts them, or has wrapped and then falls short
\* by two at least, for good.
ReadSoFar(c) ==
  /\ stream = SubSeq(Sent, c + 1, Len(Sent)) \/ stream = << >>
  /\ got >= IntMin
  /\ \/ got = c /\ c <= Len(source)
     \/ got <= c - 2 /\ st_size > IntMax
  /\ \E k \in 0 .. c : /\ copy = SubSeq(Sent, 1, k)
                       /\ k = c \/ "disk full" \in events

ReceiveInv ==
  channel = "get" =>
    /\ st_size = Len(source)
    /\ "read" \notin events =>
         /\ \E c \in 0 .. Len(source) + 1 : ReadSoFar(c)
         /\ pc = "done" => got >= st_size

\* As long as nobody has changed the file or killed the peer, what is at the
\* peer and in the buffer is the part of the file read, or is shorter because
\* a write has failed; and only a copy of the full length is answered with 0.
SendInv ==
  channel = "post" /\ events \cap {"changed", "killed", "missing"} = {} =>
    /\ st_size = Len(source) /\ position <= Len(source)
    /\ pc = "write" <=> buffer # << >>
    /\ \/ copy \o buffer = SubSeq(source, 1, position)
       \/ Len(copy) + Len(buffer) < position
    /\ pc = "done" /\ status = 0 => Len(copy) = st_size

TransferInv == TransferTypeOK /\ Fresh /\ ReceiveInv /\ SendInv

IInv == SessionInv /\ TransferInv


-----------------------------------------------------------------------------
(* The socket. *)

LEMMA LeastElement ==
  ASSUME NEW S \in SUBSET Nat, S # {}
  PROVE  Min(S) \in S
<1>1. \E x \in S : \A y \in S : ~(<<y, x>> \in OpToRel(<, Nat))
  BY NatLessThanWellFounded, WFMin
<1>2. ASSUME NEW x \in S, NEW y \in S, ~(<<y, x>> \in OpToRel(<, Nat))
      PROVE  x <= y
  <2>1. <<y, x>> \in Nat \X Nat /\ <<y, x>>[1] = y /\ <<y, x>>[2] = x
    OBVIOUS
  <2>2. ~(y < x)
    BY <1>2, <2>1, Zenon DEF OpToRel
  <2> QED
    BY <2>2
<1>3. \E x \in S : \A y \in S : x <= y
  BY <1>1, <1>2
<1> QED
  BY <1>3 DEF Min

LEMMA LowestFree ==
  ASSUME Free # {}
  PROVE  Min(Free) \in Descriptors /\ holder[Min(Free)] = "free"
<1>1. Free \in SUBSET Nat
  BY SessionAssumption DEF Free, Descriptors
<1>2. Min(Free) \in Free
  BY <1>1, LeastElement
<1> QED
  BY <1>2 DEF Free

LEMMA NoDescriptor == -1 \notin Descriptors
  BY SessionAssumption DEF Descriptors

\* What connect answers is added to its answers.
LEMMA Answered ==
  ASSUME answers \in Seq({0, -1}), NEW n \in {0, -1}
  PROVE  LET s == Append(answers, n)
         IN /\ s \in Seq({0, -1}) /\ s # << >>
            /\ s = <<0>> => n = 0 /\ answers = << >>
<1> DEFINE s == Append(answers, n)
<1>1. s \in Seq({0, -1}) /\ s # << >> /\ Len(s) = Len(answers) + 1 /\ s[Len(answers) + 1] = n
  BY AppendProperties
<1>2. s = <<0>> => n = 0 /\ answers = << >>
  <2> HAVE s = <<0>>
  <2>1. Len(s) = 1 /\ s[1] = 0
    OBVIOUS
  <2>2. Len(answers) = 0
    BY <1>1, <2>1
  <2> QED
    BY <1>1, <2>1, <2>2
<1> QED
  BY <1>1, <1>2

LEMMA SessionStarts == SessionInit => SessionInv
<1> SUFFICES ASSUME SessionInit PROVE SessionInv
  OBVIOUS
<1>1. SessionTypeOK
  <2>1. answers \in Seq({0, -1})
    BY EmptySeq DEF SessionInit
  <2>2. holder \in [Descriptors -> {"free", "session", "other"}]
    BY DEF SessionInit
  <2> QED
    BY <2>1, <2>2 DEF SessionInit, SessionTypeOK
<1>2. SocketOwned
  BY DEF SessionInit, SocketOwned
<1> QED
  BY <1>1, <1>2 DEF SessionInv

\* Every call of the program, and of its other threads, keeps the invariant.
LEMMA SessionStep ==
  ASSUME SessionInv, SessionCall \/ OthersStep
  PROVE  SessionInv'
<1> USE DEF SessionInv
<1>1. CASE NoSocket
  <2>1. /\ answers' \in Seq({0, -1}) /\ answers' # << >> /\ answers' # <<0>>
        /\ m_sock' = -1 /\ UNCHANGED <<session, holder, foreign>>
    BY <1>1, Answered DEF NoSocket, SessionTypeOK
  <2>2. SessionTypeOK'
    BY <2>1 DEF SessionTypeOK
  <2>3. SocketOwned'
    BY <2>1 DEF SocketOwned
  <2> QED
    BY <2>2, <2>3
<1>2. CASE CannotConnect
  <2>1. /\ answers' \in Seq({0, -1}) /\ answers' # << >> /\ answers' # <<0>>
        /\ m_sock' \in Descriptors /\ UNCHANGED <<session, holder, foreign>>
    BY <1>2, Answered, LowestFree DEF CannotConnect, SessionTypeOK
  <2>2. SessionTypeOK'
    BY <2>1 DEF SessionTypeOK
  <2>3. SocketOwned'
    BY <2>1 DEF SocketOwned
  <2> QED
    BY <2>2, <2>3
<1>3. CASE Connect
  <2>1. /\ answers' \in Seq({0, -1}) /\ answers' # << >>
        /\ answers' = <<0>> => answers = << >>
        /\ m_sock' \in Descriptors
        /\ holder' = [holder EXCEPT ![m_sock'] = "session"]
        /\ session # "freed" /\ session' \in {session, "connected"}
        /\ UNCHANGED foreign
    BY <1>3, Answered, LowestFree DEF Connect, MayConnect, SessionTypeOK
  <2>2. SessionTypeOK'
    BY <2>1 DEF SessionTypeOK
  <2>3. SocketOwned'
    BY <2>1 DEF SocketOwned, SessionTypeOK
  <2> QED
    BY <2>2, <2>3
<1>4. CASE Auth
  BY <1>4 DEF Auth, SessionTypeOK, SocketOwned
<1>5. CASE Destroy
  <2>1. SessionTypeOK'
    BY <1>5 DEF Destroy, SessionTypeOK
  <2>2. SocketOwned'
    BY <1>5 DEF Destroy, SessionTypeOK, SocketOwned
  <2> QED
    BY <2>1, <2>2
<1>6. CASE OtherOpens
  <2>1. PICK d \in Descriptors : /\ holder[d] = "free"
                                 /\ holder' = [holder EXCEPT ![d] = "other"]
    BY <1>6, LowestFree DEF OtherOpens
  <2>2. SessionTypeOK'
    BY <1>6, <2>1 DEF OtherOpens, SessionTypeOK
  <2>3. SocketOwned'
    BY <1>6, <2>1 DEF OtherOpens, SessionTypeOK, SocketOwned
  <2> QED
    BY <2>2, <2>3
<1>7. CASE OtherCloses
  <2>1. PICK d \in Descriptors : /\ holder[d] = "other"
                                 /\ holder' = [holder EXCEPT ![d] = "free"]
    BY <1>7 DEF OtherCloses
  <2>2. SessionTypeOK'
    BY <1>7, <2>1 DEF OtherCloses, SessionTypeOK
  <2>3. SocketOwned'
    BY <1>7, <2>1 DEF OtherCloses, SessionTypeOK, SocketOwned
  <2> QED
    BY <2>2, <2>3
<1> QED
  BY <1>1, <1>2, <1>3, <1>4, <1>5, <1>6, <1>7 DEF SessionCall, OthersStep

LEMMA SessionKept ==
  ASSUME SessionInv, UNCHANGED session_vars
  PROVE  SessionInv'
BY DEF SessionInv, SessionTypeOK, SocketOwned, session_vars

LEMMA SocketIsReturned == SessionInv => SocketReturned
BY DEF SessionInv, SessionTypeOK, SocketOwned, SocketReturned


-----------------------------------------------------------------------------
(* The transfer: parts of sequences. *)

LEMMA SourceIsFile ==
  ASSUME TransferTypeOK
  PROVE  /\ source \in Seq(Nat) /\ Len(source) \in Nat
         /\ Sent \in Seq(Nat) /\ Len(Sent) = Len(source) + 1
         /\ \A k \in 1 .. Len(source) : Sent[k] = source[k]
<1>1. source \in Seq(Nat \ {0})
  BY TransferAssumption DEF TransferTypeOK
<1>2. source \in Seq(Nat)
  BY <1>1, SeqMonotonic
<1> QED
  BY <1>2, AppendProperties, LenProperties DEF Sent, Zero

LEMMA PartOf ==
  ASSUME NEW s \in Seq(Nat), NEW m \in 1 .. Len(s) + 1, NEW n \in m - 1 .. Len(s)
  PROVE  /\ SubSeq(s, m, n) \in Seq(Nat)
         /\ Len(SubSeq(s, m, n)) = n - m + 1
         /\ \A k \in 1 .. n - m + 1 : SubSeq(s, m, n)[k] = s[m + k - 1]
<1>1. Len(s) \in Nat
  BY LenProperties
<1>2. \A k \in m .. n : s[k] \in Nat
  BY <1>1, ElementOfSeq
<1>3. m \in Int /\ n \in Int /\ (m <= n \/ n - m + 1 = 0)
  BY <1>1
<1> QED
  BY <1>2, <1>3, SubSeqProperties

LEMMA Beginning ==
  ASSUME NEW s \in Seq(Nat), NEW n \in 0 .. Len(s)
  PROVE  /\ SubSeq(s, 1, n) \in Seq(Nat)
         /\ Len(SubSeq(s, 1, n)) = n
         /\ \A k \in 1 .. n : SubSeq(s, 1, n)[k] = s[k]
<1>1. 1 \in 1 .. Len(s) + 1 /\ n \in 1 - 1 .. Len(s)
  BY LenProperties
<1>2. n - 1 + 1 = n /\ \A k \in 1 .. n : 1 + k - 1 = k
  BY LenProperties
<1>3. /\ SubSeq(s, 1, n) \in Seq(Nat) /\ Len(SubSeq(s, 1, n)) = n - 1 + 1
      /\ \A k \in 1 .. n - 1 + 1 : SubSeq(s, 1, n)[k] = s[1 + k - 1]
  BY <1>1, PartOf
<1> QED
  BY <1>2, <1>3

\* The n elements that follow the first c.
LEMMA Piece ==
  ASSUME NEW s \in Seq(Nat), NEW c \in 0 .. Len(s), NEW n \in 0 .. Len(s) - c
  PROVE  /\ SubSeq(s, c + 1, c + n) \in Seq(Nat)
         /\ Len(SubSeq(s, c + 1, c + n)) = n
         /\ \A k \in 1 .. n : SubSeq(s, c + 1, c + n)[k] = s[c + k]
<1>1. Len(s) \in Nat /\ c \in Nat /\ n \in Nat
  BY LenProperties
<1>2. PICK m \in Nat : m = c + 1
  BY <1>1
<1>3. PICK e \in Nat : e = c + n
  BY <1>1
<1>4. m \in 1 .. Len(s) + 1 /\ e \in m - 1 .. Len(s)
  BY <1>1, <1>2, <1>3
<1>5. /\ SubSeq(s, m, e) \in Seq(Nat) /\ Len(SubSeq(s, m, e)) = e - m + 1
      /\ \A k \in 1 .. e - m + 1 : SubSeq(s, m, e)[k] = s[m + k - 1]
  BY <1>4, PartOf
<1>6. e - m + 1 = n /\ \A k \in 1 .. n : m + k - 1 = c + k
  BY <1>1, <1>2, <1>3
<1>7. \A k \in 1 .. n : SubSeq(s, m, e)[k] = s[c + k]
  BY <1>5, <1>6
<1> QED
  BY <1>2, <1>3, <1>5, <1>6, <1>7

\* The first part of what is left, and the rest of it.
LEMMA Parted ==
  ASSUME NEW s \in Seq(Nat), NEW c \in 0 .. Len(s), NEW n \in 0 .. Len(s) - c
  PROVE  LET rest == SubSeq(s, c + 1, Len(s))
         IN /\ rest \in Seq(Nat) /\ Len(rest) = Len(s) - c
            /\ SubSeq(rest, 1, n) = SubSeq(s, c + 1, c + n)
            /\ SubSeq(rest, n + 1, Len(rest)) = SubSeq(s, c + n + 1, Len(s))
            /\ SubSeq(s, 1, c) \o SubSeq(s, c + 1, c + n) = SubSeq(s, 1, c + n)
<1> DEFINE rest == SubSeq(s, c + 1, Len(s))
<1>1. /\ Len(s) \in Nat /\ c + 1 \in 1 .. Len(s) + 1 /\ Len(s) \in c .. Len(s)
      /\ c + n \in c .. Len(s) /\ c + n + 1 \in 1 .. Len(s) + 1
  BY LenProperties
<1>2. /\ rest \in Seq(Nat) /\ Len(rest) = Len(s) - c
      /\ \A k \in 1 .. Len(s) - c : rest[k] = s[c + k]
  BY <1>1, PartOf
<1>3. /\ SubSeq(rest, 1, n) \in Seq(Nat) /\ Len(SubSeq(rest, 1, n)) = n
      /\ \A k \in 1 .. n : SubSeq(rest, 1, n)[k] = rest[k]
  BY <1>1, <1>2, PartOf
<1>4. /\ SubSeq(s, c + 1, c + n) \in Seq(Nat) /\ Len(SubSeq(s, c + 1, c + n)) = n
      /\ \A k \in 1 .. n : SubSeq(s, c + 1, c + n)[k] = s[c + k]
  BY Piece
<1>5. SubSeq(rest, 1, n) = SubSeq(s, c + 1, c + n)
  <2>1. \A k \in 1 .. n : SubSeq(rest, 1, n)[k] = SubSeq(s, c + 1, c + n)[k]
    BY <1>1, <1>2, <1>3, <1>4
  <2> QED
    BY <1>3, <1>4, <2>1, SeqEqual
<1>6. LET u == SubSeq(rest, n + 1, Len(rest))
      IN /\ u \in Seq(Nat) /\ Len(u) = Len(s) - c - n
         /\ \A k \in 1 .. Len(s) - c - n : u[k] = rest[n + k]
  <2>1. n + 1 \in 1 .. Len(rest) + 1 /\ Len(rest) \in n .. Len(rest)
    BY <1>1, <1>2
  <2> QED
    BY <1>1, <1>2, <2>1, PartOf
<1>7. LET v == SubSeq(s, c + n + 1, Len(s))
      IN /\ v \in Seq(Nat) /\ Len(v) = Len(s) - c - n
         /\ \A k \in 1 .. Len(s) - c - n : v[k] = s[c + n + k]
  <2>1. Len(s) \in c + n .. Len(s)
    BY <1>1
  <2> QED
    BY <1>1, <2>1, PartOf
<1>8. SubSeq(rest, n + 1, Len(rest)) = SubSeq(s, c + n + 1, Len(s))
  <2>1. \A k \in 1 .. Len(s) - c - n :
           SubSeq(rest, n + 1, Len(rest))[k] = SubSeq(s, c + n + 1, Len(s))[k]
    BY <1>1, <1>2, <1>6, <1>7
  <2> QED
    BY <1>6, <1>7, <2>1, SeqEqual
<1>9. SubSeq(s, 1, c) \o SubSeq(s, c + 1, c + n) = SubSeq(s, 1, c + n)
  <2>1. /\ 1 \in 1 .. Len(s) + 1 /\ c \in 1 - 1 .. Len(s) /\ c + n \in c .. Len(s)
    BY <1>1
  <2> QED
    BY <2>1, ConcatAdjacentSubSeq
<1> QED
  BY <1>2, <1>5, <1>8, <1>9

\* A beginning of a file, with the beginning of what follows it.
LEMMA LongerBeginning ==
  ASSUME NEW s \in Seq(Nat), NEW c \in 0 .. Len(s), NEW n \in 0 .. Len(s) - c,
         NEW m \in 0 .. n
  PROVE  SubSeq(s, 1, c) \o SubSeq(SubSeq(s, c + 1, c + n), 1, m)
           = SubSeq(s, 1, c + m)
<1> DEFINE rest == SubSeq(s, c + 1, Len(s))
           part == SubSeq(s, c + 1, c + n)
<1>1. Len(s) \in Nat /\ m \in 0 .. Len(s) - c
  BY LenProperties
<1>2. /\ part \in Seq(Nat) /\ Len(part) = n
      /\ \A k \in 1 .. n : part[k] = s[c + k]
  BY Piece
<1>3. /\ SubSeq(part, 1, m) \in Seq(Nat) /\ Len(SubSeq(part, 1, m)) = m
      /\ \A k \in 1 .. m : SubSeq(part, 1, m)[k] = part[k]
  <2>1. 1 \in 1 .. Len(part) + 1 /\ m \in 1 - 1 .. Len(part)
    BY <1>1, <1>2
  <2> HIDE DEF part
  <2>2. /\ SubSeq(part, 1, m) \in Seq(Nat) /\ Len(SubSeq(part, 1, m)) = m - 1 + 1
        /\ \A k \in 1 .. m - 1 + 1 : SubSeq(part, 1, m)[k] = part[1 + k - 1]
    BY <1>2, <2>1, PartOf
  <2>3. \A k \in 1 .. m : 1 + k - 1 = k
    OBVIOUS
  <2> QED
    BY <1>1, <2>2, <2>3
<1>4. /\ SubSeq(s, c + 1, c + m) \in Seq(Nat) /\ Len(SubSeq(s, c + 1, c + m)) = m
      /\ \A k \in 1 .. m : SubSeq(s, c + 1, c + m)[k] = s[c + k]
  BY <1>1, Piece
<1>5. SubSeq(part, 1, m) = SubSeq(s, c + 1, c + m)
  <2>1. \A k \in 1 .. m : SubSeq(part, 1, m)[k] = SubSeq(s, c + 1, c + m)[k]
    BY <1>1, <1>2, <1>3, <1>4
  <2> QED
    BY <1>3, <1>4, <2>1, SeqEqual
<1> QED
  BY <1>1, <1>5, Parted


\* What an int holds of a number that is not too small: the number, or, when
\* it is too large, one that is less by two or more.
LEMMA IntHolds ==
  ASSUME NEW n \in Int, n >= IntMin, NEW v \in AsInt(n)
  PROVE  /\ v \in Int /\ v >= IntMin
         /\ v = n \/ (v <= n - 2 /\ n > IntMax)
<1> DEFINE w == 2 * (IntMax + 1)
           x == n - IntMin
<1>1. IntMax \in Nat /\ IntMin \in Int /\ IntMin = -IntMax - 1
  BY TransferAssumption DEF IntMin
<1>2. CASE n \in IntMin .. IntMax
  BY <1>1, <1>2 DEF AsInt
<1>3. CASE n \notin IntMin .. IntMax
  <2>1. n > IntMax
    BY <1>1, <1>3
  <2>2. v = (x % w) + IntMin \/ v = n
    BY <1>3, <2>1 DEF AsInt
  <2>3. w \in Nat \ {0} /\ w >= 2 /\ x \in Nat /\ x >= w
    BY <1>1, <2>1
  <2> HIDE DEF w, x
  <2>4. x % w \in 0 .. w - 1 /\ x % w <= x - w
    <3>1. x % w \in 0 .. w - 1 /\ x \div w \in Int /\ x = w * (x \div w) + (x % w)
      BY <2>3
    <3>2. x \div w >= 1
      BY <2>3, <3>1
    <3>3. w * (x \div w) >= w
      BY <2>3, <3>1, <3>2
    <3> QED
      BY <2>3, <3>1, <3>3
  <2>5. x = n - IntMin
    BY DEF x
  <2> QED
    BY <1>1, <2>1, <2>2, <2>3, <2>4, <2>5
<1> QED
  BY <1>2, <1>3

LEMMA SmallerOf ==
  ASSUME NEW m \in Int, NEW n \in Int
  PROVE  /\ Smaller(m, n) \in Int /\ Smaller(m, n) <= m /\ Smaller(m, n) <= n
         /\ Smaller(m, n) \in {m, n}
BY DEF Smaller

\* Writing adds bytes to the copy, or the beginning of them.
LEMMA Writing ==
  ASSUME NEW bytes \in Seq(Nat), copy \in Seq(Nat), Kept(bytes)
  PROVE  /\ copy' \in Seq(Nat)
         /\ events \subseteq events' /\ events' \subseteq events \cup {"disk full"}
         /\ \/ "disk full" \notin events /\ copy' = copy \o bytes
            \/ /\ "disk full" \in events'
               /\ \/ "disk full" \in events /\ copy' = copy
                  \/ /\ "disk full" \notin events
                     /\ \E m \in 0 .. Len(bytes) : copy' = copy \o SubSeq(bytes, 1, m)
<1>1. CASE "disk full" \notin events /\ copy' = copy \o bytes /\ UNCHANGED events
  BY <1>1, ConcatProperties
<1>2. CASE /\ events' = events \cup {"disk full"}
           /\ \E n \in 0 .. Len(bytes) - 1 :
                copy' = IF "disk full" \in events THEN copy
                                                  ELSE copy \o SubSeq(bytes, 1, n)
  <2>1. PICK n \in 0 .. Len(bytes) - 1 :
          copy' = IF "disk full" \in events THEN copy
                                            ELSE copy \o SubSeq(bytes, 1, n)
    BY <1>2
  <2>2. n \in 0 .. Len(bytes) /\ 1 \in 1 .. Len(bytes) + 1 /\ n \in 1 - 1 .. Len(bytes)
    BY LenProperties
  <2>3. SubSeq(bytes, 1, n) \in Seq(Nat)
    BY <2>2, PartOf
  <2>4. copy \o SubSeq(bytes, 1, n) \in Seq(Nat)
    BY <2>3, ConcatProperties
  <2> QED
    BY <1>2, <2>1, <2>2, <2>4
<1> QED
  BY <1>1, <1>2 DEF Kept

-----------------------------------------------------------------------------
(* The transfer: receiving. *)

LEMMA ReceivePartStep ==
  ASSUME TransferInv, ReceivePart
  PROVE  TransferInv'
<1> USE DEF TransferInv
<1>1. /\ pc = "receive" /\ got < st_size
      /\ UNCHANGED <<session_vars, pc, channel, source, st_size, position, buffer,
                     status>>
  BY DEF ReceivePart, Receiving
<1>2. channel = "get" /\ TransferTypeOK /\ st_size = Len(source)
  BY <1>1 DEF TransferTypeOK, Place, ReceiveInv
<1>3. PICK n \in 1 .. Smaller(Amount, Len(stream)) :
        /\ Kept(SubSeq(stream, 1, n))
        /\ stream' = SubSeq(stream, n + 1, Len(stream))
        /\ got' \in AsInt(got + n)
  BY DEF ReceivePart, Counted
<1>4. /\ stream \in Seq(Nat) /\ Len(stream) \in Nat /\ copy \in Seq(Nat)
      /\ source \in Seq(Nat) /\ Len(source) \in Nat /\ Sent \in Seq(Nat)
      /\ Len(Sent) = Len(source) + 1 /\ got \in Int /\ st_size \in Int
  BY <1>2, SourceIsFile, LenProperties DEF TransferTypeOK
<1>5. n \in 1 .. Len(stream) /\ got + n <= st_size
  <2>1. /\ Smaller(st_size, BufferMax) \in Int
        /\ Amount \in Int /\ Amount <= st_size - got
    <3>1. BufferMax \in Int
      BY TransferAssumption
    <3>2. Smaller(st_size, BufferMax) \in Int
      BY <1>4, <3>1, SmallerOf
    <3>3. st_size - got \in Int
      BY <1>4
    <3> QED
      BY <3>2, <3>3, SmallerOf DEF Amount
  <2>2. Smaller(Amount, Len(stream)) <= Amount /\ Smaller(Amount, Len(stream)) <= Len(stream)
    BY <1>4, <2>1, SmallerOf
  <2>3. Smaller(Amount, Len(stream)) \in Int
    BY <1>4, <2>1, SmallerOf
  <2> QED
    BY <1>4, <2>1, <2>2, <2>3
<1>6. SubSeq(stream, 1, n) \in Seq(Nat) /\ Len(SubSeq(stream, 1, n)) = n /\ stream' \in Seq(Nat)
  <2>1. /\ 1 \in 1 .. Len(stream) + 1 /\ n \in 1 - 1 .. Len(stream)
        /\ n + 1 \in 1 .. Len(stream) + 1 /\ Len(stream) \in n + 1 - 1 .. Len(stream)
    BY <1>4, <1>5
  <2>2. SubSeq(stream, 1, n) \in Seq(Nat) /\ Len(SubSeq(stream, 1, n)) = n - 1 + 1
    BY <1>4, <2>1, PartOf
  <2>3. SubSeq(stream, n + 1, Len(stream)) \in Seq(Nat)
    BY <1>4, <2>1, PartOf
  <2> QED
    BY <1>3, <2>2, <2>3
<1>7. /\ copy' \in Seq(Nat)
      /\ events \subseteq events' /\ events' \subseteq events \cup {"disk full"}
  BY <1>3, <1>4, <1>6, Writing
<1>8. got' \in Int
  <2>1. CASE got + n >= IntMin
    BY <1>3, <1>4, <2>1, IntHolds
  <2>2. CASE ~(got + n >= IntMin)
    BY <1>3, <1>4, <2>2, TransferAssumption DEF AsInt, IntMin
  <2> QED
    BY <2>1, <2>2
<1>9. TransferTypeOK'
  BY <1>1, <1>2, <1>6, <1>7, <1>8 DEF TransferTypeOK, Place
<1>10. Fresh' /\ SendInv'
  BY <1>1, <1>2 DEF Fresh, SendInv
<1>11. ReceiveInv'
  <2> SUFFICES ASSUME "read" \notin events'
               PROVE  \E c \in 0 .. Len(source)' + 1 : ReadSoFar(c)'
    BY <1>1, <1>2 DEF ReceiveInv
  <2>1. PICK c \in 0 .. Len(source) + 1 : ReadSoFar(c)
    BY <1>2, <1>7 DEF ReceiveInv
  <2>2. stream = SubSeq(Sent, c + 1, Len(Sent)) /\ Len(stream) = Len(Sent) - c
    <3>1. Len(<< >>) = 0
      OBVIOUS
    <3>2. stream # << >>
      BY <1>4, <1>5, <3>1
    <3>3. stream = SubSeq(Sent, c + 1, Len(Sent))
      BY <2>1, <3>2 DEF ReadSoFar
    <3>4. c \in 0 .. Len(Sent) /\ 0 \in 0 .. Len(Sent) - c
      BY <1>4
    <3> QED
      BY <1>4, <3>3, <3>4, Parted
  <2>3. n \in 0 .. Len(Sent) - c /\ c \in 0 .. Len(Sent) /\ c + n \in 0 .. Len(source) + 1
    BY <1>4, <1>5, <2>2
  <2>4. /\ stream' = SubSeq(Sent, c + n + 1, Len(Sent))
        /\ SubSeq(stream, 1, n) = SubSeq(Sent, c + 1, c + n)
        /\ SubSeq(Sent, 1, c) \o SubSeq(Sent, c + 1, c + n) = SubSeq(Sent, 1, c + n)
    BY <1>3, <1>4, <2>2, <2>3, Parted
  <2>5. /\ got' >= IntMin
        /\ \/ got' = c + n /\ c + n <= Len(source)
           \/ got' <= c + n - 2 /\ st_size > IntMax
    <3>1. IntMax \in Nat /\ IntMin \in Int /\ got >= IntMin
      <4>1. IntMax \in Nat /\ IntMin \in Int
        BY TransferAssumption DEF IntMin
      <4>2. got >= IntMin
        BY <2>1 DEF ReadSoFar
      <4> QED
        BY <4>1, <4>2
    <3>2. got + n \in Int /\ got + n >= IntMin
      BY <1>4, <1>5, <3>1
    <3>3. /\ got' >= IntMin
          /\ got' = got + n \/ (got' <= got + n - 2 /\ got + n > IntMax)
      <4>1. PICK x : x = got + n
        OBVIOUS
      <4>2. x \in Int /\ x >= IntMin /\ got' \in AsInt(x)
        BY <1>3, <3>2, <4>1
      <4>3. /\ got' >= IntMin
            /\ got' = x \/ (got' <= x - 2 /\ x > IntMax)
        BY <4>2, IntHolds
      <4> QED
        BY <1>4, <1>5, <1>8, <3>1, <4>1, <4>2, <4>3
    <3>4. CASE got = c /\ c <= Len(source)
      <4>1. c + n <= Len(source)
        BY <1>2, <1>5, <3>4
      <4>2. CASE got' = got + n
        BY <3>3, <3>4, <4>1, <4>2
      <4>3. CASE got' <= got + n - 2 /\ got + n > IntMax
        <5>1. st_size > IntMax
          BY <1>4, <1>5, <3>1, <4>3
        <5> QED
          BY <3>3, <3>4, <4>3, <5>1
      <4> QED
        BY <3>3, <4>2, <4>3
    <3>5. CASE got <= c - 2 /\ st_size > IntMax
      <4>1. got' <= got + n
        BY <1>4, <1>5, <1>8, <3>3
      <4>2. got' <= c + n - 2
        BY <1>4, <1>5, <1>8, <3>5, <4>1
      <4> QED
        BY <3>3, <3>5, <4>2
    <3>6. \/ got = c /\ c <= Len(source)
          \/ got <= c - 2 /\ st_size > IntMax
      BY <2>1 DEF ReadSoFar
    <3> QED
      BY <3>4, <3>5, <3>6
  <2>6. \E k \in 0 .. c + n : /\ copy' = SubSeq(Sent, 1, k)
                              /\ k = c + n \/ "disk full" \in events'
    <3>1. PICK k \in 0 .. c : /\ copy = SubSeq(Sent, 1, k)
                              /\ k = c \/ "disk full" \in events
      BY <2>1 DEF ReadSoFar
    <3>2. c \in Nat /\ n \in Nat /\ k \in 0 .. c + n /\ c + n \in 0 .. c + n
      BY <1>4, <1>5
    <3>3. CASE "disk full" \notin events /\ copy' = copy \o SubSeq(stream, 1, n)
      <4>1. copy' = SubSeq(Sent, 1, c + n)
        BY <2>4, <3>1, <3>3
      <4> QED
        BY <3>2, <4>1
    <3>4. CASE "disk full" \in events /\ copy' = copy /\ "disk full" \in events'
      BY <3>1, <3>2, <3>4
    <3>5. CASE /\ "disk full" \in events' /\ "disk full" \notin events
               /\ \E m \in 0 .. n : copy' = copy \o SubSeq(SubSeq(stream, 1, n), 1, m)
      <4>1. PICK m \in 0 .. n : copy' = copy \o SubSeq(SubSeq(stream, 1, n), 1, m)
        BY <3>5
      <4>2. SubSeq(Sent, 1, c) \o SubSeq(SubSeq(Sent, c + 1, c + n), 1, m)
              = SubSeq(Sent, 1, c + m)
        BY <1>4, <2>3, LongerBeginning
      <4>3. copy' = SubSeq(Sent, 1, c + m)
        BY <2>4, <3>1, <3>5, <4>1, <4>2
      <4>4. c + m \in 0 .. c + n
        BY <3>2
      <4> QED
        BY <3>5, <4>3, <4>4
    <3>6. \/ "disk full" \notin events /\ copy' = copy \o SubSeq(stream, 1, n)
          \/ /\ "disk full" \in events'
             /\ \/ "disk full" \in events /\ copy' = copy
                \/ /\ "disk full" \notin events
                   /\ \E m \in 0 .. n : copy' = copy \o SubSeq(SubSeq(stream, 1, n), 1, m)
      BY <1>3, <1>4, <1>6, Writing
    <3> QED
      BY <3>3, <3>4, <3>5, <3>6
  <2>7. Sent' = Sent /\ Len(source)' = Len(source)
    BY <1>1 DEF Sent
  <2>8. PICK d : d = c + n
    OBVIOUS
  <2>9. ReadSoFar(d)'
    <3>1. stream' = SubSeq(Sent', d + 1, Len(Sent'))
      BY <2>4, <2>7, <2>8
    <3>2. \E k \in 0 .. d : /\ copy' = SubSeq(Sent', 1, k)
                            /\ k = d \/ "disk full" \in events'
      BY <2>6, <2>7, <2>8
    <3>3. \/ got' = d /\ d <= Len(source)
          \/ got' <= d - 2 /\ st_size > IntMax
      BY <1>4, <1>5, <1>8, <2>5, <2>8
    <3>4. source' = source /\ st_size' = st_size
      BY <1>1
    <3> QED
      BY <2>5, <3>1, <3>2, <3>3, <3>4, Zenon DEF ReadSoFar
  <2>10. d \in 0 .. Len(source)' + 1
    BY <2>3, <2>7, <2>8
  <2> QED
    BY <2>9, <2>10
<1> QED
  BY <1>9, <1>10, <1>11


\* got is all of the file when it is not less; so is then what is written.
LEMMA ReceivedStep ==
  ASSUME TransferInv, Received
  PROVE  TransferInv'
<1> USE DEF TransferInv
<1>1. /\ pc = "receive" /\ channel = "get" /\ got >= st_size
      /\ pc' = "done" /\ status' = 0
      /\ UNCHANGED <<session_vars, channel, source, st_size, stream, got, position,
                     buffer, copy, events>>
  BY DEF Received, TransferTypeOK, Place
<1>2. TransferTypeOK'
  BY <1>1 DEF TransferTypeOK, Place
<1>3. Fresh' /\ SendInv'
  BY <1>1 DEF Fresh, SendInv
<1>4. ASSUME NEW c, ReadSoFar(c) PROVE ReadSoFar(c)'
  BY <1>1, <1>4 DEF ReadSoFar, Sent
<1>5. ReceiveInv'
  BY <1>1, <1>4 DEF ReceiveInv
<1> QED
  BY <1>2, <1>3, <1>5

LEMMA ReceiveErrorStep ==
  ASSUME TransferInv, ReceiveError
  PROVE  TransferInv'
<1> USE DEF TransferInv
<1>1. /\ pc = "receive" /\ channel = "get" /\ "read" \in events'
      /\ got' \in AsInt(got + ReadError)
      /\ UNCHANGED <<session_vars, pc, channel, source, st_size, stream, position,
                     buffer, copy, status>>
  BY DEF ReceiveError, Receiving, TransferTypeOK, Place
<1>2. got' \in Int
  BY <1>1, TransferAssumption DEF AsInt, IntMin, TransferTypeOK
<1>3. TransferTypeOK'
  BY <1>1, <1>2 DEF TransferTypeOK, Place
<1>4. Fresh' /\ SendInv'
  BY <1>1 DEF Fresh, SendInv
<1>5. ReceiveInv'
  BY <1>1 DEF ReceiveInv
<1> QED
  BY <1>3, <1>4, <1>5

LEMMA PeerDiesStep ==
  ASSUME TransferInv, PeerDies
  PROVE  TransferInv'
<1> USE DEF TransferInv
<1>1. /\ events' = events \cup {"killed"} /\ stream' = << >>
      /\ pc # "idle"
      /\ UNCHANGED <<session_vars, pc, channel, source, st_size, got, position,
                     buffer, copy, status>>
  BY DEF PeerDies
<1>2. TransferTypeOK'
  BY <1>1, EmptySeq DEF TransferTypeOK, Place
<1>3. Fresh' /\ SendInv'
  BY <1>1 DEF Fresh, SendInv
<1>4. ASSUME NEW c, ReadSoFar(c) PROVE ReadSoFar(c)'
  BY <1>1, <1>4 DEF ReadSoFar, Sent
<1>5. ReceiveInv'
  BY <1>1, <1>4 DEF ReceiveInv
<1> QED
  BY <1>2, <1>3, <1>5

-----------------------------------------------------------------------------
(* The transfer: opening a channel, and commands. *)

LEMMA StartStep ==
  ASSUME TransferInv, StartChannelCmd \/ StartChannelScpGet \/ StartChannelScpPost
  PROVE  TransferInv'
<1> USE DEF TransferInv
<1>1. /\ channel = "none" /\ got = 0 /\ position = 0 /\ buffer = << >> /\ copy = << >>
      /\ source \in Seq(Nat) /\ Len(source) \in Nat
      /\ UNCHANGED <<session_vars, source, got, position, buffer, copy, status>>
  BY SourceIsFile DEF StartChannelCmd, StartChannelScpGet, StartChannelScpPost, Opens, Fresh
<1>2. CASE StartChannelCmd
  <2>1. /\ channel' = "command" /\ pc' = "command" /\ stream' = source
        /\ UNCHANGED <<st_size, events>>
    BY <1>2 DEF StartChannelCmd, Opens
  <2>2. TransferTypeOK'
    BY <1>1, <2>1 DEF TransferTypeOK, Place
  <2> QED
    BY <2>1, <2>2 DEF Fresh, ReceiveInv, SendInv
<1>3. CASE StartChannelScpGet
  <2>1. /\ channel' = "get" /\ pc' = "receive" /\ stream' = Sent /\ st_size' = Len(source)
        /\ UNCHANGED events
    BY <1>3 DEF StartChannelScpGet, Opens, Sent
  <2>2. Sent \in Seq(Nat) /\ Sent' = Sent
    BY <1>1, SourceIsFile DEF Sent
  <2>3. TransferTypeOK'
    BY <1>1, <2>1, <2>2 DEF TransferTypeOK, Place
  <2>4. /\ SubSeq(Sent, 0 + 1, Len(Sent)) = Sent
        /\ SubSeq(Sent, 1, 0) = << >>
    BY <2>2, SubSeqFull, SubSeqEmpty
  <2>5. ReadSoFar(0)'
    <3>1. stream' = SubSeq(Sent', 0 + 1, Len(Sent')) /\ copy' = SubSeq(Sent', 1, 0)
      BY <1>1, <2>1, <2>2, <2>4
    <3>2. got' = 0 /\ got' >= IntMin /\ 0 <= Len(source') /\ 0 \in 0 .. 0
      BY <1>1, TransferAssumption DEF IntMin
    <3> QED
      BY <3>1, <3>2 DEF ReadSoFar
  <2>6. ReceiveInv'
    <3>1. st_size' = Len(source') /\ 0 \in 0 .. Len(source') + 1
      BY <1>1, <2>1
    <3> QED
      BY <2>1, <2>5, <3>1 DEF ReceiveInv
  <2> QED
    BY <2>1, <2>3, <2>6 DEF Fresh, SendInv
<1>4. CASE StartChannelScpPost
  <2>1. /\ channel' = "post" /\ UNCHANGED stream
        /\ pc' = IF st_size' < 0 THEN "done" ELSE "send"
        /\ \/ st_size' = Len(source) /\ UNCHANGED events
           \/ st_size' \in Garbage /\ events' = events \cup {"missing"}
    BY <1>4 DEF StartChannelScpPost, Opens
  <2>2. TransferTypeOK'
    <3>1. Garbage \subseteq Int
      BY TransferAssumption
    <3>2. st_size' = Len(source) \/ st_size' \in Garbage
      BY <2>1
    <3>3. ASSUME st_size' = Len(source) PROVE st_size' \in Int
      BY <1>1, <3>3
    <3>4. ASSUME st_size' \in Garbage PROVE st_size' \in Int
      BY <3>1, <3>4
    <3>5. st_size' \in Int
      BY <3>2, <3>3, <3>4
    <3> QED
      BY <1>1, <2>1, <3>5 DEF TransferTypeOK, Place
  <2>3. SendInv'
    <3> SUFFICES ASSUME "missing" \notin events'
                 PROVE  /\ (st_size = Len(source) /\ position <= Len(source))'
                        /\ (pc = "write" <=> buffer # << >>)'
                        /\ (copy \o buffer = SubSeq(source, 1, position))'
                        /\ pc' # "done"
      BY DEF SendInv
    <3>1. st_size' = Len(source) /\ pc' = "send"
      BY <1>1, <2>1
    <3>2. << >> \o << >> = << >> /\ SubSeq(source, 1, 0) = << >>
      BY <1>1, ConcatEmptySeq, EmptySeq, SubSeqEmpty
    <3> QED
      BY <1>1, <3>1, <3>2
  <2> QED
    BY <2>1, <2>2, <2>3 DEF Fresh, ReceiveInv
<1> QED
  BY <1>2, <1>3, <1>4

LEMMA CommandStep ==
  ASSUME TransferInv, ReadOutput \/ EndOfOutput \/ OutputError
  PROVE  TransferInv'
<1> USE DEF TransferInv
<1>1. /\ pc = "command" /\ channel = "command" /\ pc' \in {"command", "done"}
      /\ UNCHANGED <<session_vars, channel, source, st_size, got, position, buffer,
                     status>>
  BY DEF ReadOutput, EndOfOutput, OutputError, TransferTypeOK, Place
<1>2. copy' \in Seq(Nat) /\ stream' \in Seq(Nat)
  <2>1. CASE ReadOutput
    <3>1. PICK n \in 1 .. Len(stream) : /\ copy' = copy \o SubSeq(stream, 1, n)
                                        /\ stream' = SubSeq(stream, n + 1, Len(stream))
      BY <2>1 DEF ReadOutput
    <3>2. /\ stream \in Seq(Nat) /\ copy \in Seq(Nat) /\ Len(stream) \in Nat
          /\ 1 \in 1 .. Len(stream) + 1 /\ n \in 1 - 1 .. Len(stream)
          /\ n + 1 \in 1 .. Len(stream) + 1 /\ Len(stream) \in n + 1 - 1 .. Len(stream)
      BY LenProperties DEF TransferTypeOK
    <3>3. /\ SubSeq(stream, 1, n) \in Seq(Nat)
          /\ SubSeq(stream, n + 1, Len(stream)) \in Seq(Nat)
      BY <3>2, PartOf
    <3> QED
      BY <3>1, <3>2, <3>3, ConcatProperties
  <2>2. CASE EndOfOutput \/ OutputError
    BY <2>2 DEF EndOfOutput, OutputError, TransferTypeOK
  <2> QED
    BY <2>1, <2>2
<1>3. TransferTypeOK'
  BY <1>1, <1>2 DEF TransferTypeOK, Place
<1> QED
  BY <1>1, <1>3 DEF Fresh, ReceiveInv, SendInv


-----------------------------------------------------------------------------
(* The transfer: sending. *)

LEMMA ReadSomeStep ==
  ASSUME TransferInv, ReadSome
  PROVE  TransferInv'
<1> USE DEF TransferInv
<1>1. /\ pc = "send" /\ channel = "post" /\ pc' = "write"
      /\ UNCHANGED <<session_vars, channel, source, st_size, stream, got, copy,
                     status, events>>
  BY DEF ReadSome, TransferTypeOK, Place
<1>2. PICK n \in 1 .. Smaller(Left, Smaller(st_size, BufferMax)) :
        /\ buffer' = SubSeq(source, position + 1, position + n)
        /\ position' = position + n
  BY DEF ReadSome
<1>3. /\ source \in Seq(Nat) /\ Len(source) \in Nat /\ position \in Nat
      /\ copy \in Seq(Nat) /\ Len(copy) \in Nat /\ st_size \in Int /\ BufferMax \in Int
  BY SourceIsFile, LenProperties, TransferAssumption DEF TransferTypeOK
<1>4. n \in Nat \ {0} /\ position + n <= Len(source)
  <2>1. Left \in Int /\ Left = Len(source) - position
    BY <1>3 DEF Left
  <2>2. Smaller(st_size, BufferMax) \in Int
    BY <1>3, SmallerOf
  <2>3. /\ Smaller(Left, Smaller(st_size, BufferMax)) \in Int
        /\ Smaller(Left, Smaller(st_size, BufferMax)) <= Left
    BY <2>1, <2>2, SmallerOf
  <2> QED
    BY <1>3, <2>1, <2>3
<1>5. buffer' \in Seq(Nat) /\ Len(buffer') = n
  <2>1. PICK first, last : first = position + 1 /\ last = position + n
    OBVIOUS
  <2>2. first \in 1 .. Len(source) + 1 /\ last \in first - 1 .. Len(source)
    BY <1>3, <1>4, <2>1
  <2>3. /\ SubSeq(source, first, last) \in Seq(Nat)
        /\ Len(SubSeq(source, first, last)) = last - first + 1
    BY <1>3, <2>2, PartOf
  <2>4. last - first + 1 = n
    BY <1>3, <1>4, <2>1
  <2> QED
    BY <1>2, <2>1, <2>3, <2>4
<1>6. TransferTypeOK'
  <2>1. position' \in Nat
    BY <1>2, <1>3, <1>4
  <2> QED
    BY <1>1, <1>5, <2>1 DEF TransferTypeOK, Place
<1>7. SendInv'
  <2> SUFFICES ASSUME events \cap {"changed", "killed", "missing"} = {}
               PROVE  /\ position' <= Len(source)
                      /\ buffer' # << >>
                      /\ \/ copy \o buffer' = SubSeq(source, 1, position')
                         \/ Len(copy) + Len(buffer') < position'
    BY <1>1 DEF SendInv
  <2>1. /\ buffer = << >> /\ position <= Len(source)
        /\ \/ copy \o buffer = SubSeq(source, 1, position)
           \/ Len(copy) + Len(buffer) < position
    BY <1>1 DEF SendInv
  <2>2. CASE copy \o buffer = SubSeq(source, 1, position)
    <3>1. copy = SubSeq(source, 1, position)
      BY <1>3, <2>1, <2>2, ConcatEmptySeq
    <3>2. position \in 0 .. Len(source) /\ n \in 0 .. Len(source) - position
      BY <1>3, <1>4
    <3>3. SubSeq(source, 1, position) \o SubSeq(source, position + 1, position + n)
            = SubSeq(source, 1, position + n)
      BY <1>3, <3>2, Parted
    <3> QED
      BY <1>2, <1>3, <1>4, <1>5, <3>1, <3>3
  <2>3. CASE Len(copy) + Len(buffer) < position
    <3>1. Len(copy) < position
      BY <1>3, <2>1, <2>3
    <3>2. Len(copy) + Len(buffer') < position'
      BY <1>2, <1>3, <1>4, <1>5, <3>1
    <3> QED
      BY <1>2, <1>3, <1>4, <1>5, <3>2
  <2> QED
    BY <2>1, <2>2, <2>3
<1> QED
  BY <1>1, <1>6, <1>7 DEF Fresh, ReceiveInv

LEMMA EndOfSourceStep ==
  ASSUME TransferInv, EndOfSource
  PROVE  TransferInv'
<1>1. /\ pc = "send" /\ channel = "post" /\ pc' = "finish"
      /\ UNCHANGED <<session_vars, channel, source, st_size, stream, got, position,
                     buffer, copy, status, events>>
  BY DEF EndOfSource, TransferInv, TransferTypeOK, Place
<1>2. TransferTypeOK'
  BY <1>1 DEF TransferInv, TransferTypeOK, Place
<1>3. SendInv'
  BY <1>1 DEF TransferInv, SendInv
<1> QED
  BY <1>1, <1>2, <1>3 DEF TransferInv, Fresh, ReceiveInv

LEMMA MovedOver ==
  ASSUME NEW s \in Seq(Nat), NEW t \in Seq(Nat), NEW u \in Seq(Nat)
  PROVE  (s \o t) \o u = s \o (t \o u)
BY ConcatAssociative

\* What is written moves from the buffer to the copy; together they stay.
LEMMA WritePartStep ==
  ASSUME TransferInv, WritePart
  PROVE  TransferInv'
<1> USE DEF TransferInv
<1>1. /\ pc = "write" /\ channel = "post"
      /\ pc' = IF buffer' = << >> THEN "send" ELSE "write"
      /\ UNCHANGED <<session_vars, channel, source, st_size, stream, got, position,
                     status, events>>
  BY DEF WritePart, TransferTypeOK, Place
<1>2. PICK n \in 1 .. Len(buffer) :
        /\ copy' = IF "killed" \in events THEN copy ELSE copy \o SubSeq(buffer, 1, n)
        /\ buffer' = SubSeq(buffer, n + 1, Len(buffer))
  BY DEF WritePart, RestOf
<1>3. /\ buffer \in Seq(Nat) /\ Len(buffer) \in Nat /\ copy \in Seq(Nat) /\ Len(copy) \in Nat
      /\ 1 \in 1 .. Len(buffer) + 1 /\ n \in 1 - 1 .. Len(buffer)
      /\ n + 1 \in 1 .. Len(buffer) + 1 /\ Len(buffer) \in n + 1 - 1 .. Len(buffer)
  BY LenProperties DEF TransferTypeOK
<1> DEFINE part == SubSeq(buffer, 1, n)
           rest == SubSeq(buffer, n + 1, Len(buffer))
<1>4. part \in Seq(Nat) /\ rest \in Seq(Nat) /\ copy \o part \in Seq(Nat)
  BY <1>3, PartOf, ConcatProperties
<1>5. part \o rest = buffer
  <2>1. Len(buffer) \in n .. Len(buffer)
    BY <1>3
  <2>2. part \o rest = SubSeq(buffer, 1, Len(buffer))
    BY <1>3, <2>1, ConcatAdjacentSubSeq
  <2> QED
    BY <1>3, <2>2, SubSeqFull
<1>6. /\ (copy \o part) \o rest = copy \o buffer
      /\ Len(copy \o part) + Len(rest) = Len(copy) + Len(buffer)
  <2> HIDE DEF part, rest
  <2>1. (copy \o part) \o rest = copy \o buffer
    <3>1. (copy \o part) \o rest = copy \o (part \o rest)
      BY <1>3, <1>4, MovedOver
    <3> QED
      BY <1>5, <3>1
  <2>2. /\ Len((copy \o part) \o rest) = Len(copy \o part) + Len(rest)
        /\ Len(copy \o buffer) = Len(copy) + Len(buffer)
    BY <1>3, <1>4, ConcatProperties
  <2> QED
    BY <2>1, <2>2
<1>7. copy' \in Seq(Nat) /\ buffer' = rest
  BY <1>2, <1>3, <1>4
<1> HIDE DEF part, rest
<1>8. TransferTypeOK'
  BY <1>1, <1>4, <1>7 DEF TransferTypeOK, Place
<1>9. SendInv'
  <2> SUFFICES ASSUME events \cap {"changed", "killed", "missing"} = {}
               PROVE  \/ copy' \o buffer' = SubSeq(source, 1, position)
                      \/ Len(copy') + Len(buffer') < position
    BY <1>1 DEF SendInv
  <2>1. copy' = copy \o part
    BY <1>2 DEF part
  <2>2. \/ copy \o buffer = SubSeq(source, 1, position)
        \/ Len(copy) + Len(buffer) < position
    BY <1>1 DEF SendInv
  <2> QED
    BY <1>6, <1>7, <2>1, <2>2
<1> QED
  BY <1>1, <1>8, <1>9 DEF Fresh, ReceiveInv

\* Once the rest of a part is given up, the copy is shorter than what is read.
LEMMA WriteErrorStep ==
  ASSUME TransferInv, WriteError
  PROVE  TransferInv'
<1> USE DEF TransferInv
<1>1. /\ pc = "write" /\ channel = "post" /\ pc' = "send" /\ buffer' = << >>
      /\ events' = events \cup {"write"}
      /\ UNCHANGED <<session_vars, channel, source, st_size, stream, got, position,
                     copy, status>>
  BY DEF WriteError, TransferTypeOK, Place
<1>2. TransferTypeOK'
  BY <1>1, EmptySeq DEF TransferTypeOK, Place
<1>3. SendInv'
  <2> SUFFICES ASSUME events \cap {"changed", "killed", "missing"} = {}
               PROVE  Len(copy) + Len(<< >>) < position
    BY <1>1 DEF SendInv
  <2>1. /\ buffer # << >> /\ position <= Len(source)
        /\ \/ copy \o buffer = SubSeq(source, 1, position)
           \/ Len(copy) + Len(buffer) < position
    BY <1>1 DEF SendInv
  <2>2. /\ buffer \in Seq(Nat) /\ Len(buffer) \in Nat \ {0} /\ Len(<< >>) = 0
        /\ copy \in Seq(Nat) /\ Len(copy) \in Nat
        /\ source \in Seq(Nat) /\ Len(source) \in Nat /\ position \in Nat
    BY <2>1, SourceIsFile, LenProperties, EmptySeq DEF TransferTypeOK
  <2>3. CASE copy \o buffer = SubSeq(source, 1, position)
    <3>1. 1 \in 1 .. Len(source) + 1 /\ position \in 1 - 1 .. Len(source)
      BY <2>1, <2>2
    <3>2. Len(SubSeq(source, 1, position)) = position - 1 + 1
      BY <2>2, <3>1, PartOf
    <3>3. Len(copy \o buffer) = Len(copy) + Len(buffer)
      BY <2>2, ConcatProperties
    <3> QED
      BY <2>2, <2>3, <3>2, <3>3
  <2>4. CASE Len(copy) + Len(buffer) < position
    BY <2>2, <2>4
  <2> QED
    BY <2>1, <2>3, <2>4
<1> QED
  BY <1>1, <1>2, <1>3 DEF Fresh, ReceiveInv

LEMMA SourceChangesStep ==
  ASSUME TransferInv, SourceChanges
  PROVE  TransferInv'
<1>1. /\ channel = "post" /\ events' = events \cup {"changed"} /\ source' \in Sources
      /\ UNCHANGED <<session_vars, pc, channel, st_size, stream, got, position,
                     buffer, copy, status>>
  BY DEF SourceChanges
<1>2. TransferTypeOK'
  BY <1>1 DEF TransferInv, TransferTypeOK, Place
<1> QED
  BY <1>1, <1>2 DEF TransferInv, Fresh, ReceiveInv, SendInv

\* finish answers 0 for a copy of the full length only.
LEMMA FinishStep ==
  ASSUME TransferInv, Finish
  PROVE  TransferInv'
<1> USE DEF TransferInv
<1>1. /\ pc = "finish" /\ channel = "post" /\ pc' = "done"
      /\ \/ status' = -1
         \/ "killed" \in events /\ status' = 0
         \/ Len(copy) = st_size /\ status' \in {0, 1}
         \/ Len(copy) # st_size /\ status' = 1
      /\ UNCHANGED <<session_vars, channel, source, st_size, stream, got, position,
                     buffer, copy, events>>
  BY DEF Finish, TransferTypeOK, Place
<1>2. TransferTypeOK'
  BY <1>1 DEF TransferTypeOK, Place
<1>3. SendInv'
  <2> SUFFICES ASSUME events \cap {"changed", "killed", "missing"} = {}, status' = 0
               PROVE  Len(copy) = st_size
    BY <1>1 DEF SendInv
  <2>1. "killed" \notin events
    OBVIOUS
  <2> QED
    BY <1>1, <2>1
<1> QED
  BY <1>1, <1>2, <1>3 DEF Fresh, ReceiveInv


-----------------------------------------------------------------------------
(* The theorems. *)

LEMMA Starts == Init => IInv
<1> SUFFICES ASSUME Init PROVE IInv
  OBVIOUS
<1>1. SessionInv
  BY SessionStarts DEF Init
<1>2. TransferTypeOK
  BY EmptySeq DEF Init, TransferTypeOK, Place
<1>3. Fresh /\ ReceiveInv /\ SendInv
  BY DEF Init, Fresh, ReceiveInv, SendInv
<1> QED
  BY <1>1, <1>2, <1>3 DEF IInv, TransferInv

LEMMA TransferKept ==
  ASSUME TransferInv, UNCHANGED transfer_vars
  PROVE  TransferInv'
<1>1. UNCHANGED <<pc, channel, source, st_size, stream, got, position, buffer, copy,
                  status, events>>
  BY DEF transfer_vars
<1>2. ASSUME NEW c, ReadSoFar(c) PROVE ReadSoFar(c)'
  BY <1>1, <1>2 DEF ReadSoFar, Sent
<1>3. TransferTypeOK' /\ Fresh' /\ SendInv'
  BY <1>1 DEF TransferInv, TransferTypeOK, Place, Fresh, SendInv
<1>4. ReceiveInv'
  BY <1>1, <1>2 DEF TransferInv, ReceiveInv
<1> QED
  BY <1>3, <1>4 DEF TransferInv

LEMMA Step == IInv /\ [Next]_vars => IInv'
<1> SUFFICES ASSUME IInv, [Next]_vars PROVE IInv'
  OBVIOUS
<1>1. SessionInv /\ TransferInv
  BY DEF IInv
<1>2. CASE Session
  BY <1>1, <1>2, SessionStep, TransferKept DEF Session, IInv
<1>3. CASE PeerFallsSilent \/ PeerSpeaks
  BY <1>1, <1>3, TransferKept, SessionKept DEF PeerFallsSilent, PeerSpeaks, IInv
<1>4. CASE StartChannelCmd \/ StartChannelScpGet \/ StartChannelScpPost
  <2>1. UNCHANGED session_vars
    BY <1>4 DEF StartChannelCmd, StartChannelScpGet, StartChannelScpPost, Opens
  <2> QED
    BY <1>1, <1>4, <2>1, StartStep, SessionKept DEF IInv
<1>5. CASE ReceivePart \/ ReceiveError \/ Received
  <2>1. UNCHANGED session_vars
    BY <1>5 DEF ReceivePart, ReceiveError, Received
  <2> QED
    BY <1>1, <1>5, <2>1, ReceivePartStep, ReceiveErrorStep, ReceivedStep, SessionKept
       DEF IInv
<1>6. CASE ReadSome \/ EndOfSource \/ WritePart \/ WriteError \/ Finish
  <2>1. UNCHANGED session_vars
    BY <1>6 DEF ReadSome, EndOfSource, WritePart, WriteError, Finish
  <2> QED
    BY <1>1, <1>6, <2>1, ReadSomeStep, EndOfSourceStep, WritePartStep, WriteErrorStep,
       FinishStep, SessionKept DEF IInv
<1>7. CASE ReadOutput \/ EndOfOutput \/ OutputError
  <2>1. UNCHANGED session_vars
    BY <1>7 DEF ReadOutput, EndOfOutput, OutputError
  <2> QED
    BY <1>1, <1>7, <2>1, CommandStep, SessionKept DEF IInv
<1>8. CASE PeerDies \/ SourceChanges
  <2>1. UNCHANGED session_vars
    BY <1>8 DEF PeerDies, SourceChanges
  <2> QED
    BY <1>1, <1>8, <2>1, PeerDiesStep, SourceChangesStep, SessionKept DEF IInv
<1>9. CASE ReceiveNothing \/ UNCHANGED vars
  <2>1. UNCHANGED session_vars /\ UNCHANGED transfer_vars
    BY <1>9 DEF ReceiveNothing, vars
  <2> QED
    BY <1>1, <2>1, TransferKept, SessionKept DEF IInv
<1> QED
  BY <1>2, <1>3, <1>4, <1>5, <1>6, <1>7, <1>8, <1>9
     DEF Next, Others, Transferring, Local, PeerAnswers

\* The inductive invariant holds in every state: what the socket is, and what
\* of the file has been read and written, at every step of connect, transfer
\* and the destructor.
THEOREM TransferCorrect == Spec => []IInv
BY Starts, Step, PTL DEF Spec

\* A session connected once closes its socket and no other thread's.
THEOREM Sockets == Spec => []SocketReturned
<1>1. IInv => SocketReturned
  BY SocketIsReturned DEF IInv
<1> QED
  BY <1>1, TransferCorrect, PTL

\* transfer of a channel that receives writes the file and the whole of it,
\* unless it has been told otherwise, and the beginning of it at any time.
THEOREM WholeReceived == Spec => []ReceivedWhole
<1>1. ASSUME IInv PROVE ReceivedWhole
  <2> SUFFICES ASSUME channel = "get", "read" \notin events
               PROVE  /\ pc = "done" /\ "disk full" \notin events => copy = source
                      /\ IsPrefix(copy, source) \/ st_size > IntMax
    BY DEF ReceivedWhole
  <2>1. TransferTypeOK /\ st_size = Len(source) /\ (pc = "done" => got >= st_size)
    BY <1>1 DEF IInv, TransferInv, ReceiveInv
  <2>2. PICK c \in 0 .. Len(source) + 1 : ReadSoFar(c)
    BY <1>1 DEF IInv, TransferInv, ReceiveInv
  <2>3. /\ source \in Seq(Nat) /\ Len(source) \in Nat /\ Sent \in Seq(Nat)
        /\ Len(Sent) = Len(source) + 1 /\ got \in Int /\ IntMax \in Nat
        /\ \A k \in 1 .. Len(source) : Sent[k] = source[k]
    BY <2>1, SourceIsFile, TransferAssumption DEF TransferTypeOK
  <2>4. \/ got = c /\ c <= Len(source)
        \/ got <= c - 2 /\ st_size > IntMax
    BY <2>2 DEF ReadSoFar
  <2>5. PICK k \in 0 .. c : copy = SubSeq(Sent, 1, k) /\ (k = c \/ "disk full" \in events)
    BY <2>2 DEF ReadSoFar
  <2>6. ASSUME k <= Len(source) PROVE copy = SubSeq(source, 1, k) /\ Len(copy) = k
    <3>1. k \in 0 .. Len(Sent) /\ k \in 0 .. Len(source)
      BY <2>3, <2>6
    <3>2. /\ copy \in Seq(Nat) /\ Len(copy) = k
          /\ \A n \in 1 .. k : copy[n] = Sent[n]
      BY <2>3, <2>5, <3>1, Beginning
    <3>3. /\ SubSeq(source, 1, k) \in Seq(Nat) /\ Len(SubSeq(source, 1, k)) = k
          /\ \A n \in 1 .. k : SubSeq(source, 1, k)[n] = source[n]
      BY <2>3, <3>1, Beginning
    <3>4. \A n \in 1 .. Len(copy) : copy[n] = SubSeq(source, 1, k)[n]
      <4>1. \A n \in 1 .. k : n \in 1 .. Len(source)
        BY <2>3, <3>1
      <4> QED
        BY <2>3, <3>2, <3>3, <4>1
    <3> QED
      BY <3>2, <3>3, <3>4, SeqEqual
  <2>7. ASSUME pc = "done", "disk full" \notin events PROVE copy = source
    <3>1. k = c
      BY <2>5, <2>7
    <3>2. got >= Len(source) /\ c \in 0 .. Len(source) + 1
      BY <2>1, <2>7
    <3>3. ASSUME got = c, c <= Len(source) PROVE c = Len(source)
      BY <2>3, <3>1, <3>2, <3>3
    <3>4. ASSUME got <= c - 2 PROVE c = Len(source)
      BY <2>3, <3>2, <3>4
    <3>5. c = Len(source)
      BY <2>3, <2>4, <3>2, <3>3, <3>4
    <3> QED
      BY <2>3, <2>6, <3>1, <3>5, SubSeqFull
  <2>8. ASSUME ~(st_size > IntMax) PROVE IsPrefix(copy, source)
    <3>1. k <= Len(source)
      BY <2>1, <2>3, <2>4, <2>8
    <3>2. copy = SubSeq(source, 1, k) /\ Len(copy) = k
      BY <2>6, <3>1
    <3>3. copy \in Seq(Nat)
      BY <2>1 DEF TransferTypeOK
    <3> QED
      BY <3>1, <3>2, <3>3, SubSeqFull DEF IsPrefix
  <2> QED
    BY <2>7, <2>8
<1> QED
  BY <1>1, TransferCorrect, PTL

\* A file that is sent and accepted is whole at the peer, although a write
\* that fails gives up the rest of its part and the copying goes on.
THEOREM WholeSent == Spec => []SentWhole
<1>1. ASSUME IInv PROVE SentWhole
  <2> SUFFICES ASSUME channel = "post", pc = "done", status = 0,
                      events \cap {"changed", "killed", "missing"} = {}
               PROVE  copy = source
    BY DEF SentWhole
  <2>1. TransferTypeOK
    BY <1>1 DEF IInv, TransferInv
  <2>2. /\ Len(copy) = Len(source) /\ position <= Len(source) /\ buffer = << >>
        /\ \/ copy \o buffer = SubSeq(source, 1, position)
           \/ Len(copy) + Len(buffer) < position
    BY <1>1 DEF IInv, TransferInv, SendInv
  <2>3. /\ source \in Seq(Nat) /\ Len(source) \in Nat /\ position \in Nat
        /\ copy \in Seq(Nat) /\ Len(<< >>) = 0
    BY <2>1, SourceIsFile DEF TransferTypeOK
  <2>4. copy = SubSeq(source, 1, position)
    BY <2>2, <2>3, ConcatEmptySeq
  <2>5. position = Len(source)
    <3>1. 1 \in 1 .. Len(source) + 1 /\ position \in 1 - 1 .. Len(source)
      BY <2>2, <2>3
    <3>2. Len(SubSeq(source, 1, position)) = position - 1 + 1
      BY <2>3, <3>1, PartOf
    <3> QED
      BY <2>2, <2>3, <2>4, <3>2
  <2> QED
    BY <2>3, <2>4, <2>5, SubSeqFull
<1> QED
  BY <1>1, TransferCorrect, PTL
=============================================================================
