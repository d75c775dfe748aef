----------------------------- MODULE Statistics -----------------------------
(***************************************************************************)
(* The statistics of the service: every worker counts the packets of its   *)
(* port by protocol, in the element of protocol_stats_ that belongs to its *)
(* lcore; one of the workers, every stats_interval seconds, stops handling *)
(* packets, adds the elements up and prints the sums, while the others     *)
(* keep counting.                                                          *)
(*                                                                         *)
(* Time is counted in units of which Second make a second by the estimate  *)
(* of kTIMER_MILLISECOND.  The packets in and out of a port, which the     *)
(* driver counts, and the wording of the report are left out.              *)
(***************************************************************************)
EXTENDS Integers, Sequences, FiniteSetsExt

CONSTANTS
  NbPorts,        \* rte_eth_dev_count()
  LcoreOf,        \* LcoreOf[p]: the lcore that handles port p
  StatsPort,      \* the port whose lcore has stats_lcore_id_
  MaxLcores,      \* kMAX_LCORES
  Asked,          \* arguments of --stats-interval, in seconds
  Second,         \* units of time in a second
  DrainTsc,       \* units of time between two drains
  MaxIteration,   \* bound of the model: units of time one iteration takes
  MaxTime,        \* bound of the model: units of time observed
  MaxCount        \* bound of the model: packets counted

Ports == 0 .. NbPorts - 1

ASSUME StatisticsAssumption ==
  /\ {NbPorts, MaxLcores, Second, DrainTsc, MaxIteration} \subseteq Nat \ {0}
  /\ Asked \cup {MaxTime, MaxCount} \subseteq Nat
  /\ StatsPort \in Ports
  /\ LcoreOf \in [Ports -> 0 .. MaxLcores - 1]
  /\ \A p, q \in Ports : LcoreOf[p] = LcoreOf[q] => p = q

\* In the order PrintStats prints them.
Counted == <<"HTTP", "SIP", "RTP", "RTSP">>

Cells == Ports \X (DOMAIN Counted) \X (0 .. MaxLcores - 1)
Sums == Ports \X (DOMAIN Counted)

VARIABLES
  asked,             \* the argument of --stats-interval
  now,               \* rte_rdtsc()
  head,              \* when the stats worker was last at its loop's head
  prev_tsc,          \* when it last drained
  timer_stats_tsc,   \* the time it has added up since the last report
  protocol_stats_,   \* for each port, protocol and lcore
  cell,              \* the element to be loaded next; << >> when not printing
  ret,               \* the sum of the elements loaded
  printed,           \* the sums of the report, those of the one before first
  begun,             \* history: the sums when the report began
  reports            \* history: when reports began, the start of the worker first

vars == <<asked, now, head, prev_tsc, timer_stats_tsc, protocol_stats_, cell,
          ret, printed, begun, reports>>

\* The sums GetProtocolStats goes through: of no element, of one, and so on.
Upto(stats, s) ==
  LET sum[n \in 0 .. MaxLcores] ==
        IF n = 0 THEN 0 ELSE sum[n - 1] + stats[<<s[1], s[2], n - 1>>]
  IN sum

Sum(s) == Upto(protocol_stats_, s)[MaxLcores]

\* ret.stats_interval = stats_interval, an unsigned long into a uint16_t.
stats_interval_tsc == (asked % 2^16) * Second

Init ==
  /\ asked \in Asked
  /\ now = 0 /\ head = 0 /\ prev_tsc = 0 /\ timer_stats_tsc = 0
  /\ protocol_stats_ = [c \in Cells |-> 0]
  /\ cell = << >>
  /\ ret = 0
  /\ printed = [s \in Sums |-> 0]
  /\ begun = [s \in Sums |-> 0]
  /\ reports = <<0>>

-----------------------------------------------------------------------------

Tick ==
  /\ now < MaxTime
  /\ now - head < MaxIteration
  /\ now' = now + 1
  /\ UNCHANGED <<asked, head, prev_tsc, timer_stats_tsc, protocol_stats_, cell,
                 ret, printed, begun, reports>>

\* The stats worker does not handle packets while it prints.
UpdateProtocolStats(p, n) ==
  /\ p = StatsPort => cell = << >>
  /\ FoldSet(LAMBDA c, sum : sum + protocol_stats_[c], 0, Cells) < MaxCount
  /\ protocol_stats_' = [protocol_stats_ EXCEPT ![<<p, n, LcoreOf[p]>>] = @ + 1]
  /\ UNCHANGED <<asked, now, head, prev_tsc, timer_stats_tsc, cell, ret,
                 printed, begun, reports>>

Drains == now - prev_tsc >= DrainTsc

\* The statistics are printed at a drain, when more than the interval has
\* gone by.
Due == /\ stats_interval_tsc > 0
       /\ timer_stats_tsc + (now - prev_tsc) > stats_interval_tsc

\* Mutant: the time of iterations that do not drain is added as well.
IterateAddingTwice ==
  /\ cell = << >>
  /\ head < now
  /\ ~(Drains /\ Due)
  /\ head' = now
  /\ prev_tsc' = IF Drains THEN now ELSE prev_tsc
  /\ timer_stats_tsc' = IF stats_interval_tsc > 0
                        THEN timer_stats_tsc + (now - prev_tsc)
                        ELSE timer_stats_tsc
  /\ UNCHANGED <<asked, now, protocol_stats_, cell, ret, printed, begun,
                 reports>>

\* An iteration of the stats worker that does not print.
Iterate ==
  /\ cell = << >>
  /\ head < now
  /\ ~(Drains /\ Due)
  /\ head' = now
  /\ prev_tsc' = IF Drains THEN now ELSE prev_tsc
  /\ timer_stats_tsc' = IF Drains /\ stats_interval_tsc > 0
                        THEN timer_stats_tsc + (now - prev_tsc)
                        ELSE timer_stats_tsc
  /\ UNCHANGED <<asked, now, protocol_stats_, cell, ret, printed, begun,
                 reports>>

\* One that calls PrintStats.
BeginReport ==
  /\ cell = << >>
  /\ head < now
  /\ Drains /\ Due
  /\ head' = now
  /\ prev_tsc' = now
  /\ timer_stats_tsc' = timer_stats_tsc + (now - prev_tsc)
  /\ cell' = <<0, 1, 0>>
  /\ begun' = [s \in Sums |-> Sum(s)]
  /\ reports' = Append(reports, now)
  /\ UNCHANGED <<asked, now, protocol_stats_, ret, printed>>

\* Mutant: the last element is not loaded.
NextCellButLast(c) ==
  IF c[3] < MaxLcores - 2 THEN <<c[1], c[2], c[3] + 1>>
  ELSE IF c[2] < Len(Counted) THEN <<c[1], c[2] + 1, 0>>
  ELSE IF c[1] < NbPorts - 1 THEN <<c[1] + 1, 1, 0>>
  ELSE << >>

\* The element after c; << >> when there is none.
NextCell(c) ==
  IF c[3] < MaxLcores - 1 THEN <<c[1], c[2], c[3] + 1>>
  ELSE IF c[2] < Len(Counted) THEN <<c[1], c[2] + 1, 0>>
  ELSE IF c[1] < NbPorts - 1 THEN <<c[1] + 1, 1, 0>>
  ELSE << >>

\* One round of the loop of GetProtocolStats.  After the last one the sum is
\* printed; after the last sum the timer starts again.
Load ==
  /\ cell # << >>
  /\ LET sum == ret + protocol_stats_[cell]
         next == NextCell(cell)
         last == next = << >> \/ next[3] = 0
     IN /\ cell' = next
        /\ ret' = IF last THEN 0 ELSE sum
        /\ printed' = IF last
                      THEN [printed EXCEPT ![<<cell[1], cell[2]>>] = sum]
                      ELSE printed
        /\ timer_stats_tsc' = IF next = << >> THEN 0 ELSE timer_stats_tsc
  /\ UNCHANGED <<asked, now, head, prev_tsc, protocol_stats_, begun, reports>>

Next == \/ Tick
        \/ \E p \in Ports, n \in DOMAIN Counted : UpdateProtocolStats(p, n)
        \/ Iterate
        \/ BeginReport
        \/ Load

Spec == Init /\ [][Next]_vars

-----------------------------------------------------------------------------
(* Correctness. *)

\* The elements are loaded one by one while other lcores add to them, with
\* no lock: still, each sum printed is one the counter had at some moment
\* between the beginning and the end of the report.
ReportBetween ==
  \A s \in Sums :
    /\ printed[s] <= Sum(s)
    /\ Len(reports) > 1 /\ cell = << >> => begun[s] <= printed[s]

Gap == reports[Len(reports)] - reports[Len(reports) - 1]

\* Reports come more than the interval asked for apart, and do not stop: the
\* latest is never older than the interval, a drain and an iteration, however
\* long printing takes.  None comes if none was asked for.  (An interval of
\* 2^16 seconds or more is cut to its last 16 bits: nothing is said of it.)
EveryInterval ==
  /\ asked \in 1 .. 2^16 - 1 =>
       /\ Len(reports) > 1 => Gap > asked * Second
       /\ now - reports[Len(reports)] <= asked * Second + (DrainTsc - 1) + MaxIteration
  /\ asked = 0 => Len(reports) = 1
=============================================================================
