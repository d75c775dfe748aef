---------------------------- MODULE SshSession ----------------------------
(***************************************************************************)
(* SshSession: the socket of a session, from connect to the destructor, in *)
(* a process whose other threads open and close descriptors meanwhile.     *)
(*                                                                         *)
(* External: socket answers the lowest free descriptor or fails; resolving *)
(* the name, connecting, the handshake and the password may each fail.     *)
(***************************************************************************)
EXTENDS Integers, Sequences, FiniteSetsExt

CONSTANTS
  NbDescriptors,   \* descriptors of the process
  NbConnects       \* bound of the model: calls of connect

ASSUME SessionAssumption ==
  NbDescriptors \in Nat \ {0} /\ NbConnects \in Nat \ {0}

Descriptors == 0 .. NbDescriptors - 1

VARIABLES
  session,    \* "new", "connected", "authenticated" or "freed"
  m_sock,     \* a descriptor, or -1
  holder,     \* of each descriptor: "free", "session" or "other"
  answers,    \* history: what connect has answered
  foreign     \* history: the session has closed what another holds

session_vars == <<session, m_sock, holder, answers, foreign>>

SessionInit ==
  /\ session = "new"
  /\ m_sock = -1
  /\ holder = [d \in Descriptors |-> "free"]
  /\ answers = << >>
  /\ foreign = FALSE

Free == {d \in Descriptors : holder[d] = "free"}

MayConnect == session # "freed" /\ Len(answers) < NbConnects

NoSocket ==
  /\ MayConnect
  /\ m_sock' = -1
  /\ answers' = Append(answers, -1)
  /\ UNCHANGED <<session, holder, foreign>>

\* The socket is opened and closed again; m_sock keeps its number.
CannotConnect ==
  /\ MayConnect
  /\ Free # {}
  /\ m_sock' = Min(Free)
  /\ answers' = Append(answers, -1)
  /\ UNCHANGED <<session, holder, foreign>>

\* Mutant: a socket whose handshake fails is closed like one that cannot be
\* connected.
ConnectClosing ==
  /\ MayConnect
  /\ Free # {}
  /\ m_sock' = Min(Free)
  /\ session' \in {session, "connected"}
  /\ holder' = IF session' = "connected"
                 THEN [holder EXCEPT ![m_sock'] = "session"] ELSE holder
  /\ answers' = Append(answers, 0)
  /\ UNCHANGED foreign

\* connect answers 0 whether or not the handshake succeeds.
Connect ==
  /\ MayConnect
  /\ Free # {}
  /\ m_sock' = Min(Free)
  /\ session' \in {session, "connected"}
  /\ holder' = [holder EXCEPT ![m_sock'] = "session"]
  /\ answers' = Append(answers, 0)
  /\ UNCHANGED foreign

\* A wrong password leaves everything as it is.
Auth ==
  /\ session = "connected"
  /\ session' = "authenticated"
  /\ UNCHANGED <<m_sock, holder, answers, foreign>>

\* close fails on -1 and on a descriptor that is free.
Destroy ==
  /\ session # "freed"
  /\ session' = "freed"
  /\ holder' = [d \in Descriptors |-> IF d = m_sock THEN "free" ELSE holder[d]]
  /\ foreign' = \E d \in Descriptors : d = m_sock /\ holder[d] = "other"
  /\ UNCHANGED <<m_sock, answers>>

OtherOpens ==
  /\ Free # {}
  /\ holder' = [holder EXCEPT ![Min(Free)] = "other"]
  /\ UNCHANGED <<session, m_sock, answers, foreign>>

OtherCloses ==
  /\ \E d \in Descriptors : /\ holder[d] = "other"
                            /\ holder' = [holder EXCEPT ![d] = "free"]
  /\ UNCHANGED <<session, m_sock, answers, foreign>>

\* The calls of the program, and what its other threads do meanwhile.
SessionCall == NoSocket \/ CannotConnect \/ Connect \/ Auth \/ Destroy

OthersStep == OtherOpens \/ OtherCloses

\* A session connected once leaves no descriptor of its own open and never
\* closes one that another thread has got meanwhile.  (One whose connect has
\* failed may: m_sock keeps the number it has closed.  One connected twice
\* leaves the first socket open.)
SocketReturned ==
  session = "freed" /\ answers = <<0>> =>
    /\ ~foreign
    /\ \A d \in Descriptors : holder[d] # "session"
=============================================================================
