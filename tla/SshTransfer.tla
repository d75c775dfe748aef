---------------------------- MODULE SshTransfer ----------------------------
(***************************************************************************)
(* A file copied over a session: startChannelScpGet or startChannelScpPost *)
(* opens a channel, SshChannelScp::transfer copies, finish asks the peer;  *)
(* and a command, whose output is read until there is no more.             *)
(*                                                                         *)
(* A file is a sequence of bytes.  Reading and writing are in parts of any *)
(* size, and any of them may fail.                                         *)
(*                                                                         *)
(* External: libssh2, whose blocking read answers 0 at the end only and    *)
(* whose calls wait, as no timeout is set, for as long as the peer or the  *)
(* network is silent; the peer's scp, which sends the size it has          *)
(* announced and then a zero byte, and which says 0 only if it has got the *)
(* size announced; ifstream's readsome, which answers 0 at the end only;   *)
(* the disk, which may be full.                                            *)
(***************************************************************************)
EXTENDS SshSession, SequencesExt

CONSTANTS
  Sources,       \* files that may be copied
  BufferMax,     \* 6400*1000
  IntMax,        \* INT_MAX
  ReadError,     \* a negative answer of libssh2
  Garbage        \* what an uninitialised st_size may hold

ASSUME TransferAssumption ==
  /\ BufferMax \in Nat \ {0}
  /\ IntMax \in Nat
  /\ ReadError \in Int /\ ReadError < 0
  /\ Garbage \subseteq Int
  /\ \A s \in Sources : s \in Seq(Nat \ {0})

VARIABLES
  pc,         \* "idle", "command", "receive", "send", "write", "finish", "done"
  channel,    \* what was opened: "none", "command", "get" or "post"
  source,     \* the file to be copied
  st_size,    \* m_fileinfo.st_size
  stream,     \* what the peer has still to send
  got,        \* an int
  position,   \* of the local file, while it is read
  buffer,     \* the bytes still to be written
  copy,       \* the file at the other end
  status,     \* what finish answers
  events,     \* history: what has gone wrong
  silent      \* nothing comes from the peer, no window nor answer either

transfer_vars == <<pc, channel, source, st_size, stream, got, position,
                   buffer, copy, status, events>>
vars == <<session_vars, transfer_vars, silent>>

\* The byte that ends what the peer sends.
Zero == 0

IntMin == -IntMax - 1

Smaller(a, b) == IF a < b THEN a ELSE b

Init ==
  /\ SessionInit
  /\ pc = "idle"
  /\ channel = "none"
  /\ source \in Sources
  /\ st_size = 0
  /\ stream = << >>
  /\ got = 0
  /\ position = 0
  /\ buffer = << >>
  /\ copy = << >>
  /\ status = 0
  /\ events = {}
  /\ silent = FALSE

-----------------------------------------------------------------------------
(* Opening a channel: none is opened twice in the model. *)

Opens(kind) ==
  /\ session = "authenticated"
  /\ channel = "none"
  /\ channel' = kind
  /\ UNCHANGED <<session_vars, source, got, position, buffer, copy, status>>

StartChannelCmd ==
  /\ Opens("command")
  /\ stream' = source
  /\ pc' = "command"
  /\ UNCHANGED <<st_size, events>>

\* The size of the header is that of the file.
StartChannelScpGet ==
  /\ Opens("get")
  /\ st_size' = Len(source)
  /\ stream' = Append(source, Zero)
  /\ pc' = "receive"
  /\ UNCHANGED events

\* What stat answers is not looked at.
StartChannelScpPost ==
  /\ Opens("post")
  /\ \/ st_size' = Len(source) /\ UNCHANGED events
     \/ source = << >> /\ st_size' \in Garbage /\ events' = events \cup {"missing"}
  \* new char[buffer_len] throws when buffer_len is negative
  /\ pc' = IF st_size' < 0 THEN "done" ELSE "send"
  /\ UNCHANGED stream

-----------------------------------------------------------------------------
(* Receiving. *)

Amount == Smaller(Smaller(st_size, BufferMax), st_size - got)

\* Signed overflow: the value wraps, or is kept in a wider register, where
\* those below IntMin are all alike.
AsInt(n) ==
  IF n \in IntMin .. IntMax THEN {n}
  ELSE {((n - IntMin) % (2 * (IntMax + 1))) + IntMin,
        IF n > IntMax THEN n ELSE IntMin}

\* out.write fails when the disk is full; so does every one after it.
Kept(bytes) ==
  \/ "disk full" \notin events /\ copy' = copy \o bytes /\ UNCHANGED events
  \/ /\ bytes # << >>
     /\ \E n \in 0 .. Len(bytes) - 1 :
          copy' = IF "disk full" \in events THEN copy
                                            ELSE copy \o SubSeq(bytes, 1, n)
     /\ events' = events \cup {"disk full"}

\* Mutant: what was asked for is counted, not what has come.
CountedAmount(n) == Amount

Counted(n) == n

Receiving == pc = "receive" /\ got < st_size

ReceivePart ==
  /\ Receiving
  /\ \E n \in 1 .. Smaller(Amount, Len(stream)) :
       /\ Kept(SubSeq(stream, 1, n))
       /\ stream' = SubSeq(stream, n + 1, Len(stream))
       /\ got' \in AsInt(got + Counted(n))
  /\ UNCHANGED <<session_vars, pc, channel, source, st_size, position, buffer,
                 status>>

\* The answer is added to got whatever its sign.
ReceiveError ==
  /\ Receiving
  /\ got' \in AsInt(got + ReadError)
  /\ events' = events \cup {"read"}
  /\ UNCHANGED <<session_vars, pc, channel, source, st_size, stream, position,
                 buffer, copy, status>>

\* At the end of the stream read answers 0, as often as it is asked.
ReceiveNothing ==
  /\ Receiving
  /\ stream = << >>
  /\ UNCHANGED vars

\* finish has nothing to ask of a peer that has sent.
Received ==
  /\ pc = "receive"
  /\ got >= st_size
  /\ pc' = "done"
  /\ status' = 0
  /\ UNCHANGED <<session_vars, channel, source, st_size, stream, got, position,
                 buffer, copy, events>>

\* The peer dies: what it has not sent is not sent any more.
PeerDies ==
  /\ pc \in {"command", "receive", "send", "write"}
  /\ "killed" \notin events
  /\ events' = events \cup {"killed"}
  /\ stream' = << >>
  /\ UNCHANGED <<session_vars, pc, channel, source, st_size, got, position,
                 buffer, copy, status>>

-----------------------------------------------------------------------------
(* Sending. *)

Left == Len(source) - position

ReadSome ==
  /\ pc = "send"
  /\ \E n \in 1 .. Smaller(Left, Smaller(st_size, BufferMax)) :
       /\ buffer' = SubSeq(source, position + 1, position + n)
       /\ position' = position + n
  /\ pc' = "write"
  /\ UNCHANGED <<session_vars, channel, source, st_size, stream, got, copy,
                 status, events>>

\* Mutant: the file ends where stat said it would.
AllOfSize == position = st_size

NothingToRead == Smaller(Left, st_size) <= 0

\* readsome answers 0: at the end of the file, or with a buffer of no size.
EndOfSource ==
  /\ pc = "send"
  /\ NothingToRead
  /\ pc' = "finish"
  /\ UNCHANGED <<session_vars, channel, source, st_size, stream, got, position,
                 buffer, copy, status, events>>

\* Mutant: the pointer stays where it is.
LastOf(n) == SubSeq(buffer, 1, Len(buffer) - n)

\* What remains once n bytes of the buffer are written.
RestOf(n) == SubSeq(buffer, n + 1, Len(buffer))

\* write goes round and round while it is told of 0 bytes: nothing changes.
WritePart ==
  /\ pc = "write"
  /\ \E n \in 1 .. Len(buffer) :
       /\ copy' = IF "killed" \in events THEN copy
                                         ELSE copy \o SubSeq(buffer, 1, n)
       /\ buffer' = RestOf(n)
  /\ pc' = IF buffer' = << >> THEN "send" ELSE "write"
  /\ UNCHANGED <<session_vars, channel, source, st_size, stream, got, position,
                 status, events>>

\* write gives up the rest of the part; transfer goes on with the next one.
WriteError ==
  /\ pc = "write"
  /\ buffer' = << >>
  /\ events' = events \cup {"write"}
  /\ pc' = "send"
  /\ UNCHANGED <<session_vars, channel, source, st_size, stream, got, position,
                 copy, status>>

\* Another process changes the file after stat has been asked.
SourceChanges ==
  /\ channel = "post" /\ pc \in {"send", "write"}
  /\ "changed" \notin events
  /\ events' = events \cup {"changed"}
  /\ source' \in Sources \ {source}
  /\ UNCHANGED <<session_vars, pc, channel, st_size, stream, got, position,
                 buffer, copy, status>>

\* The end of file is sent and the channel closed.  A peer that was killed has
\* no status, which reads as 0, and its signal is not looked at.
Finish ==
  /\ pc = "finish"
  /\ pc' = "done"
  /\ \/ status' = -1
     \/ "killed" \in events /\ status' = 0
     \/ "killed" \notin events /\ Len(copy) = st_size /\ status' \in {0, 1}
     \/ "killed" \notin events /\ Len(copy) # st_size /\ status' = 1
  /\ UNCHANGED <<session_vars, channel, source, st_size, stream, got, position,
                 buffer, copy, events>>

-----------------------------------------------------------------------------
(* The output of a command, as ssh2_test.cc reads it. *)

ReadOutput ==
  /\ pc = "command"
  /\ \E n \in 1 .. Len(stream) :
       /\ copy' = copy \o SubSeq(stream, 1, n)
       /\ stream' = SubSeq(stream, n + 1, Len(stream))
  /\ UNCHANGED <<session_vars, pc, channel, source, st_size, got, position,
                 buffer, status, events>>

EndOfOutput ==
  /\ pc = "command"
  /\ stream = << >>
  /\ pc' = "done"
  /\ UNCHANGED <<session_vars, channel, source, st_size, stream, got, position,
                 buffer, copy, status, events>>

\* A negative answer is not 0: the loop goes on.
OutputError ==
  /\ pc = "command"
  /\ events' = events \cup {"read"}
  /\ UNCHANGED <<session_vars, pc, channel, source, st_size, stream, got,
                 position, buffer, copy, status>>

\* The session is not used for anything else while a transfer runs.
Session ==
  /\ \/ pc \in {"idle", "done"} /\ SessionCall
     \/ OthersStep
  /\ UNCHANGED transfer_vars

\* What needs nothing of the peer.
Local == Received \/ ReadSome \/ EndOfSource

\* Calls of libssh2 that come back.
PeerAnswers ==
  \/ ReceivePart \/ ReceiveError \/ ReceiveNothing
  \/ WritePart \/ WriteError \/ Finish
  \/ ReadOutput \/ EndOfOutput \/ OutputError

Transferring ==
  /\ \/ Local
     \/ ~silent /\ PeerAnswers
  /\ UNCHANGED silent

InTransfer == pc \in {"command", "receive", "send", "write", "finish"}

PeerFallsSilent ==
  /\ InTransfer
  /\ ~silent
  /\ silent' = TRUE
  /\ UNCHANGED <<session_vars, transfer_vars>>

PeerSpeaks ==
  /\ silent
  /\ silent' = FALSE
  /\ UNCHANGED <<session_vars, transfer_vars>>

\* What does not depend on the peer, and the opening of a channel.
Others ==
  /\ \/ Session
     \/ StartChannelCmd \/ StartChannelScpGet \/ StartChannelScpPost
     \/ PeerDies \/ SourceChanges
  /\ UNCHANGED silent

Next == Transferring \/ Others \/ PeerFallsSilent \/ PeerSpeaks

\* What the peer has sent waits in the socket: a call that waits comes back,
\* though the peer is not always there.
Spec == Init /\ [][Next]_vars /\ SF_vars(Transferring)

-----------------------------------------------------------------------------
(* Correctness. *)

\* A transfer that receives and returns has written the file, the whole file
\* and nothing else, however it came in parts, unless a read has failed or the
\* disk was full; and at any time what is written is the beginning of the
\* file, the zero byte behind it never, unless a read has failed or the file
\* has more bytes than an int can count.
ReceivedWhole ==
  channel = "get" =>
    /\ pc = "done" => copy = source \/ events \cap {"read", "disk full"} # {}
    /\ IsPrefix(copy, source) \/ "read" \in events \/ st_size > IntMax

\* A file that is sent while nobody changes it is whole at the peer if finish
\* answers 0, whatever writes have failed on the way, unless the peer was
\* killed or there was no file.
SentWhole ==
  channel = "post" /\ pc = "done" /\ status = 0 =>
    copy = source \/ events \cap {"changed", "killed", "missing"} # {}

\* A read that fails, or whose peer is dead, may be repeated for ever; so may
\* one of a file with more bytes than an int can count.
Hopeless ==
  \/ channel # "post" /\ "read" \in events
  \/ channel = "get" /\ ("killed" \in events \/ st_size > IntMax)

\* A transfer returns, whatever parts it is made of, whatever writes fail and
\* however often the peer is silent, unless the peer is silent for good, in
\* which case a call waits for ever, or reading has become hopeless.
Returns ==
  []<>~silent => ((channel # "none") ~> (pc = "done" \/ Hopeless))
=============================================================================
