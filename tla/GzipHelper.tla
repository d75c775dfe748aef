---------------------------- MODULE GzipHelper ----------------------------
(***************************************************************************)
(* GzipHelper: sources are compressed one after the other into one buffer, *)
(* which is then written to a file.                                        *)
(*                                                                         *)
(* What deflate makes of a unit of a source is a unit of output, the unit  *)
(* itself; a header precedes and a trailer follows.  deflate may keep any  *)
(* number of units inside until it is told to finish, and leaves input     *)
(* unread only when it has filled the room it was given.                   *)
(*                                                                         *)
(* External: zlib, and the file system, whose write may be short.          *)
(***************************************************************************)
EXTENDS Integers, SequencesExt, Functions

CONSTANTS
  Capacity,    \* what compressInit reserves
  MaxPart,     \* bound of the model: units of one source
  MaxCalls,    \* bound of the model: calls of a helper
  OldFiles     \* what dumpCompressFile may find

ASSUME GzipAssumption ==
  /\ Capacity \in Nat \ {0}
  /\ MaxPart \in Nat
  /\ MaxCalls \in Nat
  /\ OldFiles \subseteq Seq(Int)

Header == 0
Trailer == -1
Unset == -2

VARIABLES
  stream,      \* m_stream: "none", "open", "finished" or "failed"
  inside,      \* what deflate has taken and not put out
  total_out,
  m_size,
  m_data,      \* the elements up to the capacity of the vector
  overrun,     \* a unit was written behind them
  file,
  uses,        \* history: calls of compressInit
  calls,       \* history: calls since
  given,       \* history: units given to this stream
  written      \* history: the last dump wrote all it was to write

helper_vars == <<stream, inside, total_out, m_size, m_data, overrun, file,
                 uses, calls, given, written>>

HelperInit ==
  /\ stream = "none"
  /\ inside = << >>
  /\ total_out = 0
  /\ m_size = 0
  /\ m_data = [k \in 1 .. Capacity |-> Unset]
  /\ overrun = FALSE
  /\ file \in OldFiles
  /\ uses = 0
  /\ calls = 0
  /\ given = 0
  /\ written = FALSE

\* A stream is made; m_size stays what it was, and so does the buffer.
compressInit ==
  /\ uses < 2
  /\ stream' = "open"
  /\ inside' = <<Header>>
  /\ total_out' = 0
  /\ uses' = uses + 1
  /\ calls' = 0
  /\ given' = 0
  /\ written' = FALSE
  /\ UNCHANGED <<m_size, m_data, overrun, file>>

\* The next n units of the source.
Part(n) == [k \in 1 .. n |-> given + k]

\* Mutant: output starts at the front of the buffer each time.
FromFront == 0

next_out == m_size

\* Mutant: room is kept for a header and a trailer that deflate writes itself.
RoomForData == Capacity - 2

\* m_data.size() is 0 whatever the buffer holds.
avail_out == Capacity

Shorter(a, b) == IF a < b THEN a ELSE b

\* What deflate puts out, at next_out and behind.
Put(bytes) ==
  /\ m_data' = [k \in 1 .. Capacity |->
                  IF k - next_out \in DOMAIN bytes THEN bytes[k - next_out]
                                                   ELSE m_data[k]]
  /\ overrun' = (next_out + Len(bytes) > Capacity)
  /\ total_out' = total_out + Len(bytes)

Call(n) ==
  /\ uses > 0
  /\ ~overrun
  /\ calls < MaxCalls
  /\ calls' = calls + 1
  /\ given' = given + n
  /\ written' = FALSE
  /\ UNCHANGED <<uses, file>>

\* The units of the source that deflate has not taken are not given again.
compressUpdate ==
  /\ stream = "open"
  /\ \E n \in 0 .. MaxPart : \E taken \in 0 .. n :
       LET held == inside \o SubSeq(Part(n), 1, taken)
       IN /\ Call(n)
          /\ \E out \in 0 .. Shorter(Len(held), avail_out) :
               /\ taken < n => out = avail_out
               /\ Put(SubSeq(held, 1, out))
               /\ inside' = SubSeq(held, out + 1, Len(held))
  /\ m_size' = total_out'
  /\ UNCHANGED stream

\* Z_BUF_ERROR, when there is no source and nothing to put out; and what a
\* stream that has ended answers to either call.  No source is taken.
CallFails ==
  /\ stream # "none"
  /\ Call(0)
  /\ UNCHANGED <<stream, inside, total_out, m_size, m_data, overrun>>

\* All that is left, and the trailer.
compressFinish ==
  /\ stream = "open"
  /\ \E n \in 0 .. MaxPart :
       LET held == Append(inside \o Part(n), Trailer)
       IN /\ Call(n)
          /\ Len(held) <= avail_out
          /\ Put(held)
  /\ inside' = << >>
  /\ m_size' = total_out'
  /\ stream' = "finished"

\* The room is filled before the end: the stream ends with Z_BUF_ERROR.
FinishFails ==
  /\ stream = "open"
  /\ \E n \in 0 .. MaxPart :
       LET held == Append(inside \o Part(n), Trailer)
       IN /\ Call(n)
          /\ Len(held) > avail_out
          /\ Put(SubSeq(held, 1, avail_out))
  /\ inside' = << >>
  /\ stream' = "failed"
  /\ UNCHANGED m_size

Data == SubSeq(m_data, 1, m_size)

\* The file is not truncated: what lies behind the units written stays.
Overwritten(n) ==
  [k \in 1 .. IF n < Len(file) THEN Len(file) ELSE n |->
     IF k <= n THEN Data[k] ELSE file[k]]

\* What write answers is not looked at.
dumpCompressFile ==
  /\ uses > 0 /\ ~overrun
  /\ m_size <= Capacity
  /\ \E n \in 0 .. m_size : /\ file' = Overwritten(n)
                            /\ written' = (n = m_size)
  /\ UNCHANGED <<stream, inside, total_out, m_size, m_data, overrun, uses,
                 calls, given>>

HelperNext == compressInit \/ compressUpdate \/ CallFails \/ compressFinish
                \/ FinishFails \/ dumpCompressFile

HelperSpec == HelperInit /\ [][HelperNext]_helper_vars

-----------------------------------------------------------------------------
(* Correctness. *)

\* The stream that decompresses to the units given, in order.
Whole == <<Header>> \o [k \in 1 .. given |-> k] \o <<Trailer>>

\* When finish succeeds on a helper that was used once, the buffer holds what
\* unpacks to all the sources, however deflate has parted its output, whatever
\* calls have failed in between; and the file dumped then begins with it, and
\* is it unless an older file was longer.
Unpacks ==
  stream = "finished" /\ uses = 1 /\ ~overrun =>
    /\ Data = Whole
    /\ written => IsPrefix(Whole, file)

\* The buffer is overrun, or finish refused, only by sources that do not fit
\* it: the room told to deflate counts from the front, not from where output
\* continues, but a first stream that fits ends in time.
RoomSuffices ==
  uses = 1 /\ (overrun \/ stream = "failed") => given + 2 > Capacity
=============================================================================
