-------------------------- MODULE StatisticsProofs --------------------------
(***************************************************************************)
(* The report, proved for any number of ports, lcores and packets, and for *)
(* any interval: what is printed lies between what the counters held when  *)
(* it began and what they hold now, although they are read without a lock, *)
(* and reports come neither earlier nor much later than asked for.         *)
(***************************************************************************)
EXTENDS Statistics, SequenceTheorems, WellFoundedInduction, TLAPS

\* A sum, as the pair of its port and its protocol.
SumOf(c) == <<c[1], c[2]>>

TypeOK ==
  /\ asked \in Asked
  /\ {now, head, prev_tsc, timer_stats_tsc, ret} \subseteq Nat
  /\ protocol_stats_ \in [Cells -> Nat]
  /\ cell = << >> \/ cell \in Cells
  /\ printed \in [Sums -> Nat] /\ begun \in [Sums -> Nat]
  /\ reports \in Seq(Nat) /\ reports # << >>

Latest == reports[Len(reports)]

\* Where the worker is in time: between two drains, and never longer in an
\* iteration than MaxIteration.
Times ==
  /\ prev_tsc <= head /\ head <= now
  /\ now - head <= MaxIteration
  /\ head - prev_tsc < DrainTsc
  /\ Latest <= prev_tsc

\* What the timer has added up is the time from the latest report to the
\* latest drain, which is not yet more than the interval.
Timer ==
  /\ stats_interval_tsc = 0 => cell = << >> /\ Len(reports) = 1
  /\ cell # << >> => Latest = prev_tsc
  /\ cell = << >> /\ stats_interval_tsc > 0 =>
       timer_stats_tsc = prev_tsc - Latest /\ timer_stats_tsc <= stats_interval_tsc

\* Two reports are more than the interval apart.
Spaced == Len(reports) > 1 => Gap > stats_interval_tsc

\* What has been loaded of the sum being made is not more than the counters
\* hold, and with what is still to be loaded it is not less than the report
\* began with.
Loaded ==
  LET upto == Upto(protocol_stats_, SumOf(cell))
  IN cell # << >> =>
       /\ ret <= upto[cell[3]]
       /\ begun[SumOf(cell)] <= ret + (Sum(SumOf(cell)) - upto[cell[3]])

\* The sums before that of the element c have been printed.
Before(s, c) == s[1] < c[1] \/ (s[1] = c[1] /\ s[2] < c[2])

Printed ==
  /\ cell = << >> => ret = 0
  /\ \A s \in Sums :
       /\ printed[s] <= Sum(s)
       /\ begun[s] <= Sum(s)
       /\ cell # << >> /\ Before(s, cell) => begun[s] <= printed[s]
       /\ cell = << >> /\ Len(reports) > 1 => begun[s] <= printed[s]

IInv == TypeOK /\ Times /\ Timer /\ Spaced /\ Loaded /\ Printed

-----------------------------------------------------------------------------
(* The sums. *)

\* A set of numbers that is not empty has a least element.
LEMMA LeastElement ==
  ASSUME NEW S \in SUBSET Nat, S # {}
  PROVE  \E x \in S : \A y \in S : x <= y
<1>1. \E x \in S : \A y \in S : ~(<<y, x>> \in OpToRel(<, Nat))
  BY NatLessThanWellFounded, WFMin
<1>2. ASSUME NEW x \in S, NEW y \in S, ~(<<y, x>> \in OpToRel(<, Nat))
      PROVE  x <= y
  <2>1. <<y, x>> \in Nat \X Nat /\ <<y, x>>[1] = y /\ <<y, x>>[2] = x
    OBVIOUS
  <2>2. ~(y < x)
    BY <1>2, <2>1, Zenon DEF OpToRel
  <2> QED
    BY <2>2
<1> QED
  BY <1>1, <1>2

\* The recursion of Upto has a solution: were there a first number of
\* elements for which it had none, the solution for one element less could
\* be continued.
LEMMA UptoIs ==
  ASSUME NEW stats, NEW s
  PROVE  LET sum == Upto(stats, s)
         IN sum = [n \in 0 .. MaxLcores |->
                     IF n = 0 THEN 0 ELSE sum[n - 1] + stats[<<s[1], s[2], n - 1>>]]
<1> DEFINE Element(n) == stats[<<s[1], s[2], n - 1>>]
           Solves(f, k) ==
             f = [n \in 0 .. k |-> IF n = 0 THEN 0 ELSE f[n - 1] + Element(n)]
           Unsolved == {k \in Nat : ~ \E f : Solves(f, k)}
<1>1. \A k \in Nat : \E f : Solves(f, k)
  <2> SUFFICES ASSUME Unsolved # {} PROVE FALSE
    OBVIOUS
  <2>1. PICK k \in Unsolved : \A y \in Unsolved : k <= y
    <3> Unsolved \in SUBSET Nat
      OBVIOUS
    <3> HIDE DEF Unsolved
    <3> QED
      BY LeastElement
  <2>2. CASE k = 0
    <3>1. Solves([n \in 0 .. 0 |-> 0], 0)
      OBVIOUS
    <3> QED
      BY <2>1, <2>2, <3>1
  <2>3. CASE k # 0
    <3>1. k \in Nat /\ k - 1 \in Nat /\ k - 1 \notin Unsolved
      BY <2>1, <2>3
    <3>2. PICK f : Solves(f, k - 1)
      BY <3>1
    <3> DEFINE g == [n \in 0 .. k |-> IF n = k THEN f[k - 1] + Element(k) ELSE f[n]]
    <3>3. \A n \in 0 .. k - 1 : g[n] = f[n]
      BY <3>1
    <3>4. \A n \in 0 .. k - 1 : f[n] = IF n = 0 THEN 0 ELSE f[n - 1] + Element(n)
      BY <3>2
    <3> HIDE DEF Element
    <3>5. \A n \in 0 .. k :
            g[n] = IF n = 0 THEN 0 ELSE g[n - 1] + Element(n)
      <4> TAKE n \in 0 .. k
      <4>1. CASE n = k
        BY <2>3, <3>1, <3>3, <4>1
      <4>2. CASE n # k
        BY <3>1, <3>3, <3>4, <4>2
      <4> QED
        BY <4>1, <4>2
    <3>6. Solves(g, k)
      BY <3>5
    <3> QED
      BY <2>1, <3>6
  <2> QED
    BY <2>2, <2>3
<1>2. MaxLcores \in Nat
  BY StatisticsAssumption
<1>3. Solves(CHOOSE f : Solves(f, MaxLcores), MaxLcores)
  <2> HIDE DEF Solves
  <2> QED
    BY <1>1, <1>2
<1> QED
  BY <1>3 DEF Upto

\* The first sum is 0, and each one adds an element.
LEMMA UptoSteps ==
  ASSUME NEW stats \in [Cells -> Nat], NEW s \in Sums
  PROVE  /\ Upto(stats, s)[0] = 0
         /\ \A n \in 1 .. MaxLcores :
              Upto(stats, s)[n] = Upto(stats, s)[n - 1] + stats[<<s[1], s[2], n - 1>>]
<1> DEFINE sum == Upto(stats, s)
<1>1. sum = [n \in 0 .. MaxLcores |->
               IF n = 0 THEN 0 ELSE sum[n - 1] + stats[<<s[1], s[2], n - 1>>]]
  BY UptoIs
<1> HIDE DEF sum
<1>2. MaxLcores \in Nat
  BY StatisticsAssumption
<1>3. /\ sum[0] = 0
      /\ \A n \in 1 .. MaxLcores :
           sum[n] = sum[n - 1] + stats[<<s[1], s[2], n - 1>>]
  BY <1>1, <1>2
<1> QED
  BY <1>3 DEF sum

\* When counters only grow, so does the sum of any part of them.
LEMMA UptoGrows ==
  ASSUME NEW old \in [Cells -> Nat], NEW new \in [Cells -> Nat],
         \A c \in Cells : old[c] <= new[c],
         NEW s \in Sums, NEW k \in 0 .. MaxLcores, NEW n \in k .. MaxLcores
  PROVE  /\ {Upto(old, s)[k], Upto(old, s)[n], Upto(new, s)[k], Upto(new, s)[n]}
              \subseteq Nat
         /\ Upto(old, s)[n] - Upto(old, s)[k] <= Upto(new, s)[n] - Upto(new, s)[k]
<1> DEFINE before == Upto(old, s)
           after == Upto(new, s)
           Element(stats, m) == stats[<<s[1], s[2], m - 1>>]
<1>1. MaxLcores \in Nat
  BY StatisticsAssumption
<1>2. \A m \in 1 .. MaxLcores :
        /\ Element(old, m) \in Nat /\ Element(new, m) \in Nat
        /\ Element(old, m) <= Element(new, m)
  <2> TAKE m \in 1 .. MaxLcores
  <2>1. <<s[1], s[2], m - 1>> \in Cells
    BY <1>1 DEF Sums, Cells
  <2> QED
    BY <2>1
<1>3. /\ before[0] = 0 /\ after[0] = 0
      /\ \A m \in 1 .. MaxLcores : /\ before[m] = before[m - 1] + Element(old, m)
                                   /\ after[m] = after[m - 1] + Element(new, m)
  BY UptoSteps
<1> HIDE DEF before, after, Element
<1> DEFINE NotSums == {m \in 0 .. MaxLcores : ~(before[m] \in Nat /\ after[m] \in Nat)}
<1>4. NotSums = {}
  <2> SUFFICES ASSUME NotSums # {} PROVE FALSE
    OBVIOUS
  <2>1. PICK m \in NotSums : \A y \in NotSums : m <= y
    <3> NotSums \in SUBSET Nat
      BY <1>1
    <3> HIDE DEF NotSums
    <3> QED
      BY LeastElement
  <2>2. m # 0
    BY <1>3, <2>1
  <2>3. m \in 1 .. MaxLcores /\ m - 1 \in 0 .. MaxLcores /\ m - 1 \notin NotSums
    BY <1>1, <2>1, <2>2
  <2> QED
    BY <1>2, <1>3, <2>1, <2>3
<1> DEFINE Shrunk == {m \in k .. MaxLcores : ~(before[m] - before[k] <= after[m] - after[k])}
<1>5. Shrunk = {}
  <2> SUFFICES ASSUME Shrunk # {} PROVE FALSE
    OBVIOUS
  <2>1. PICK m \in Shrunk : \A y \in Shrunk : m <= y
    <3> Shrunk \in SUBSET Nat
      BY <1>1
    <3> HIDE DEF Shrunk
    <3> QED
      BY LeastElement
  <2>2. \A l \in 0 .. MaxLcores : before[l] \in Nat /\ after[l] \in Nat
    BY <1>4
  <2>3. m # k
    BY <1>1, <2>1, <2>2
  <2>4. m \in 1 .. MaxLcores /\ m - 1 \in k .. MaxLcores /\ m - 1 \notin Shrunk
    BY <1>1, <2>1, <2>3
  <2>5. before[m - 1] - before[k] <= after[m - 1] - after[k]
    BY <2>4
  <2>6. /\ m \in 0 .. MaxLcores /\ m - 1 \in 0 .. MaxLcores /\ k \in 0 .. MaxLcores
        /\ ~(before[m] - before[k] <= after[m] - after[k])
    BY <1>1, <2>1, <2>4
  <2> QED
    BY <1>2, <1>3, <2>2, <2>4, <2>5, <2>6
<1>6. k \in 0 .. MaxLcores /\ n \in 0 .. MaxLcores
  BY <1>1
<1>7. /\ before[k] \in Nat /\ before[n] \in Nat /\ after[k] \in Nat /\ after[n] \in Nat
      /\ before[n] - before[k] <= after[n] - after[k]
  BY <1>4, <1>5, <1>6
<1> QED
  BY <1>7 DEF before, after

-----------------------------------------------------------------------------
(* IInv is inductive. *)

LEMMA Constants ==
  /\ NbPorts \in Nat \ {0} /\ MaxLcores \in Nat \ {0}
  /\ Second \in Nat \ {0} /\ DrainTsc \in Nat \ {0} /\ MaxIteration \in Nat \ {0}
  /\ Asked \subseteq Nat /\ StatsPort \in Ports
  /\ \A p \in Ports : LcoreOf[p] \in 0 .. MaxLcores - 1
  /\ DOMAIN Counted = 1 .. 4 /\ Len(Counted) = 4
BY StatisticsAssumption DEF Counted

LEMMA Interval ==
  ASSUME TypeOK
  PROVE  stats_interval_tsc \in Nat
<1>1. asked \in Nat /\ Second \in Nat
  BY Constants DEF TypeOK
<1>2. asked % 2^16 \in Nat
  BY <1>1
<1>3. \A x, y \in Nat : x * y \in Nat
  OBVIOUS
<1> QED
  BY <1>1, <1>2, <1>3 DEF stats_interval_tsc

LEMMA InitReport == Init => IInv
<1> SUFFICES ASSUME Init PROVE IInv
  OBVIOUS
<1>1. TypeOK
  BY DEF Init, TypeOK
<1>2. Times /\ Spaced
  BY Constants DEF Init, Times, Spaced, Latest
<1>3. Timer
  BY <1>1, Interval DEF Init, Timer, Latest
<1>4. Loaded
  BY DEF Init, Loaded
<1>5. Printed
  <2>1. protocol_stats_ \in [Cells -> Nat] /\ \A c \in Cells : protocol_stats_[c] <= protocol_stats_[c]
    BY <1>1 DEF TypeOK
  <2>2. \A s \in Sums : Sum(s) \in Nat
    BY <2>1, UptoGrows, Constants DEF Sum
  <2> QED
    BY <2>2 DEF Init, Printed
<1> QED
  BY <1>1, <1>2, <1>3, <1>4, <1>5 DEF IInv

\* The sums when no counter changes, and the cell's own.
LEMMA SumsAreNumbers ==
  ASSUME TypeOK
  PROVE  /\ \A s \in Sums : /\ Sum(s) \in Nat
                            /\ \A k \in 0 .. MaxLcores : Upto(protocol_stats_, s)[k] \in Nat
         /\ cell # << >> => /\ SumOf(cell) \in Sums
                            /\ cell[1] \in Ports /\ cell[2] \in 1 .. 4
                            /\ cell[3] \in 0 .. MaxLcores - 1
                            /\ SumOf(cell)[1] = cell[1] /\ SumOf(cell)[2] = cell[2]
                            /\ cell = <<cell[1], cell[2], cell[3]>>
<1>1. protocol_stats_ \in [Cells -> Nat] /\ \A c \in Cells : protocol_stats_[c] <= protocol_stats_[c]
  BY DEF TypeOK
<1>2. \A s \in Sums : /\ Sum(s) \in Nat
                      /\ \A k \in 0 .. MaxLcores : Upto(protocol_stats_, s)[k] \in Nat
  BY <1>1, UptoGrows, Constants DEF Sum
<1>3. cell # << >> => /\ SumOf(cell) \in Sums
                      /\ cell[1] \in Ports /\ cell[2] \in 1 .. 4
                      /\ cell[3] \in 0 .. MaxLcores - 1
                      /\ SumOf(cell)[1] = cell[1] /\ SumOf(cell)[2] = cell[2]
                      /\ cell = <<cell[1], cell[2], cell[3]>>
  <2>1. /\ Cells = Ports \X (1 .. 4) \X (0 .. MaxLcores - 1)
        /\ Sums = Ports \X (1 .. 4)
    BY Constants DEF Cells, Sums
  <2> QED
    BY <2>1 DEF TypeOK, SumOf
<1> QED
  BY <1>2, <1>3

\* A step that neither counts nor prints.
LEMMA QuietStep ==
  ASSUME IInv, UNCHANGED <<protocol_stats_, cell, ret, printed, begun, reports>>
  PROVE  Loaded' /\ Printed'
<1>1. Printed'
  <2>1. \A s \in Sums : Sum(s)' = Sum(s)
    BY DEF Sum, Upto
  <2> QED
    BY <2>1 DEF IInv, Printed, Before
<1>2. Loaded'
  BY DEF IInv, Loaded, Sum, Upto, SumOf
<1> QED
  BY <1>1, <1>2

LEMMA TickStep ==
  ASSUME IInv, Tick
  PROVE  IInv'
<1> USE DEF IInv
<1>1. /\ now - head < MaxIteration /\ now' = now + 1
      /\ UNCHANGED <<asked, head, prev_tsc, timer_stats_tsc, protocol_stats_, cell>>
      /\ UNCHANGED <<ret, printed, begun, reports>>
  BY DEF Tick
<1>2. Loaded' /\ Printed'
  BY <1>1, QuietStep
<1>3. TypeOK'
  BY <1>1 DEF TypeOK
<1>4. Times'
  BY <1>1, Constants DEF TypeOK, Times, Latest
<1>5. Timer' /\ Spaced'
  BY <1>1 DEF Timer, Spaced, stats_interval_tsc, Gap, Latest
<1> QED
  BY <1>2, <1>3, <1>4, <1>5

LEMMA IterateStep ==
  ASSUME IInv, Iterate
  PROVE  IInv'
<1> USE DEF IInv
<1> DEFINE T == stats_interval_tsc
<1>1. /\ cell = << >> /\ head < now /\ ~(Drains /\ Due)
      /\ head' = now /\ prev_tsc' = IF Drains THEN now ELSE prev_tsc
      /\ timer_stats_tsc' = IF Drains /\ T > 0
                              THEN timer_stats_tsc + (now - prev_tsc) ELSE timer_stats_tsc
      /\ UNCHANGED <<asked, now, protocol_stats_, cell, ret, printed, begun, reports>>
  BY DEF Iterate
<1>2. Loaded' /\ Printed'
  BY <1>1, QuietStep
<1>3. T \in Nat /\ T' = T
  BY <1>1, Interval DEF stats_interval_tsc
<1>4. /\ {now, head, prev_tsc, timer_stats_tsc, Latest} \subseteq Int
      /\ prev_tsc <= head /\ head - prev_tsc < DrainTsc /\ Latest <= prev_tsc
  <2>1. Latest \in Nat
    BY DEF TypeOK, Latest
  <2> QED
    BY <2>1 DEF TypeOK, Times
<1>5. TypeOK'
  BY <1>1, <1>4 DEF TypeOK
<1>6. Latest' = Latest
  BY <1>1 DEF Latest
<1>7. Times'
  BY <1>1, <1>4, <1>6, Constants DEF Times, Drains
<1>8. Timer'
  <2>1. T > 0 => timer_stats_tsc = prev_tsc - Latest /\ timer_stats_tsc <= T
    BY <1>1 DEF Timer
  <2>2. Drains /\ T > 0 => timer_stats_tsc + (now - prev_tsc) <= T
    BY <1>1, <1>3, <1>4 DEF Due
  <2>3. T > 0 => timer_stats_tsc' = prev_tsc' - Latest /\ timer_stats_tsc' <= T
    BY <1>1, <1>4, <2>1, <2>2
  <2>4. T = 0 => Len(reports) = 1
    BY DEF Timer
  <2> QED
    BY <1>1, <1>3, <1>6, <2>3, <2>4 DEF Timer
<1>9. Spaced'
  BY <1>1, <1>3 DEF Spaced, Gap
<1> QED
  BY <1>2, <1>5, <1>7, <1>8, <1>9

LEMMA BeginStep ==
  ASSUME IInv, BeginReport
  PROVE  IInv'
<1> USE DEF IInv
<1> DEFINE T == stats_interval_tsc
<1>1. /\ cell = << >> /\ head < now /\ Drains /\ Due
      /\ head' = now /\ prev_tsc' = now
      /\ timer_stats_tsc' = timer_stats_tsc + (now - prev_tsc)
      /\ cell' = <<0, 1, 0>>
      /\ begun' = [s \in Sums |-> Sum(s)]
      /\ reports' = Append(reports, now)
      /\ UNCHANGED <<asked, now, protocol_stats_, ret, printed>>
  BY DEF BeginReport
<1>2. T \in Nat /\ T' = T /\ T > 0
  BY <1>1, Interval DEF stats_interval_tsc, Due
<1>3. /\ {now, head, prev_tsc, timer_stats_tsc} \subseteq Nat /\ Latest \in Nat
      /\ prev_tsc <= head /\ head - prev_tsc < DrainTsc /\ Latest <= prev_tsc
      /\ now - head <= MaxIteration
      /\ timer_stats_tsc = prev_tsc - Latest /\ timer_stats_tsc <= T
  <2>1. Latest \in Nat
    BY DEF TypeOK, Latest
  <2> QED
    BY <1>1, <1>2, <2>1 DEF TypeOK, Times, Timer
<1>4. /\ Len(reports') = Len(reports) + 1 /\ Len(reports) \in Nat \ {0}
      /\ reports'[Len(reports')] = now /\ reports'[Len(reports') - 1] = Latest
      /\ reports' \in Seq(Nat) /\ reports' # << >>
  <2>1. reports \in Seq(Nat) /\ reports # << >> /\ now \in Nat
    BY DEF TypeOK
  <2>2. Len(reports) \in Nat \ {0}
    BY <2>1
  <2>3. /\ Len(Append(reports, now)) = Len(reports) + 1
        /\ Append(reports, now) \in Seq(Nat)
        /\ Append(reports, now)[Len(reports) + 1] = now
        /\ Append(reports, now)[Len(reports)] = reports[Len(reports)]
    BY <2>1, <2>2
  <2> QED
    BY <1>1, <2>2, <2>3 DEF Latest
<1>5. \A s \in Sums : Sum(s) \in Nat
  BY SumsAreNumbers
<1>6. cell' \in Cells
  BY <1>1, Constants DEF Cells, Ports
<1>7. TypeOK'
  <2>1. begun' \in [Sums -> Nat]
    BY <1>1, <1>5
  <2>2. {now', head', prev_tsc', timer_stats_tsc', ret'} \subseteq Nat
    <3>1. ret \in Nat
      BY DEF TypeOK
    <3> QED
      BY <1>1, <1>3, <3>1
  <2> QED
    BY <1>1, <1>4, <1>6, <2>1, <2>2 DEF TypeOK
<1>8. Latest' = now
  BY <1>4 DEF Latest
<1>9. Times' /\ Timer'
  <2>1. cell' # << >> /\ stats_interval_tsc' # 0
    BY <1>1, <1>2
  <2>2. Timer'
    BY <1>1, <1>8, <2>1 DEF Timer
  <2>3. now - now = 0 /\ now <= now /\ 0 < DrainTsc /\ 0 <= MaxIteration
    BY <1>3, Constants
  <2>4. Times'
    BY <1>1, <1>8, <2>3 DEF Times
  <2> QED
    BY <2>2, <2>4
<1>10. Spaced'
  <2>1. Gap' = now - Latest
    BY <1>4 DEF Gap
  <2>2. timer_stats_tsc + (now - prev_tsc) > T
    BY <1>1 DEF Due
  <2>3. /\ now - Latest > T
        /\ now - Latest <= T + (DrainTsc - 1) + MaxIteration
    BY <1>2, <1>3, <2>2, Constants
  <2> QED
    BY <1>2, <2>1, <2>3 DEF Spaced
<1>11. \A s \in Sums : Sum(s)' = Sum(s) /\ begun'[s] = Sum(s)
  BY <1>1 DEF Sum, Upto
<1>12. Loaded'
  <2>1. PICK s \in Sums : s = <<0, 1>>
    <3>1. Sums = Ports \X (1 .. 4) /\ 0 \in Ports
      BY Constants DEF Sums, Ports
    <3>2. <<0, 1>> \in Ports \X (1 .. 4)
      BY <3>1
    <3> QED
      BY <3>1, <3>2
  <2>2. Upto(protocol_stats_, s)[0] = 0
    BY UptoSteps DEF TypeOK
  <2>3. Upto(protocol_stats_', s) = Upto(protocol_stats_, s)
    BY <1>1
  <2>4. ret' = 0
    BY <1>1 DEF Printed
  <2>5. cell'[3] = 0 /\ <<cell'[1], cell'[2]>> = s
    BY <1>1, <2>1
  <2>6. begun'[s] = Sum(s) /\ Sum(s) \in Nat
    BY <1>5, <1>11
  <2>7. Upto(protocol_stats_', s)[MaxLcores] = Sum(s)
    BY <2>3 DEF Sum
  <2> QED
    BY <2>2, <2>3, <2>4, <2>5, <2>6, <2>7 DEF Loaded, SumOf, Sum
<1>13. Printed'
  <2>1. \A s \in Sums : ~Before(s, cell')
    BY <1>1, Constants DEF Before, Sums, Ports
  <2> QED
    BY <1>1, <1>5, <1>11, <2>1 DEF Printed
<1> QED
  BY <1>7, <1>9, <1>10, <1>12, <1>13

\* A packet is counted, while a sum is being made of the counters or not.
LEMMA CountStep ==
  ASSUME IInv, NEW p \in Ports, NEW n \in DOMAIN Counted, UpdateProtocolStats(p, n)
  PROVE  IInv'
<1> USE DEF IInv
<1> DEFINE here == <<p, n, LcoreOf[p]>>
<1>1. /\ protocol_stats_' = [protocol_stats_ EXCEPT ![here] = @ + 1]
      /\ UNCHANGED <<asked, now, head, prev_tsc, timer_stats_tsc, cell, ret>>
      /\ UNCHANGED <<printed, begun, reports>>
  BY DEF UpdateProtocolStats
<1>2. here \in Cells
  BY Constants DEF Cells
<1>3. /\ protocol_stats_ \in [Cells -> Nat] /\ protocol_stats_' \in [Cells -> Nat]
      /\ \A c \in Cells : protocol_stats_[c] <= protocol_stats_'[c]
  <2> HIDE DEF here
  <2>1. protocol_stats_ \in [Cells -> Nat]
    BY DEF TypeOK
  <2> QED
    BY <1>1, <1>2, <2>1
<1>4. ASSUME NEW s \in Sums, NEW k \in 0 .. MaxLcores
      PROVE  /\ {Upto(protocol_stats_, s)[k], Upto(protocol_stats_', s)[k],
                 Sum(s), Sum(s)'} \subseteq Nat
             /\ Upto(protocol_stats_, s)[k] <= Upto(protocol_stats_', s)[k]
             /\ Sum(s) - Upto(protocol_stats_, s)[k]
                  <= Sum(s)' - Upto(protocol_stats_', s)[k]
             /\ Sum(s) <= Sum(s)'
  <2>1. /\ MaxLcores \in Nat /\ MaxLcores \in k .. MaxLcores /\ k \in 0 .. k
        /\ 0 \in 0 .. MaxLcores /\ k \in 0 .. MaxLcores /\ MaxLcores \in 0 .. MaxLcores
    BY Constants
  <2>2. Upto(protocol_stats_, s)[0] = 0 /\ Upto(protocol_stats_', s)[0] = 0
    BY <1>3, UptoSteps
  <2>3. /\ {Upto(protocol_stats_, s)[k], Upto(protocol_stats_', s)[k],
            Upto(protocol_stats_, s)[MaxLcores], Upto(protocol_stats_', s)[MaxLcores]}
             \subseteq Nat
        /\ Upto(protocol_stats_, s)[MaxLcores] - Upto(protocol_stats_, s)[k]
             <= Upto(protocol_stats_', s)[MaxLcores] - Upto(protocol_stats_', s)[k]
    BY <1>3, <2>1, UptoGrows
  <2>4. Upto(protocol_stats_, s)[k] - Upto(protocol_stats_, s)[0]
          <= Upto(protocol_stats_', s)[k] - Upto(protocol_stats_', s)[0]
    BY <1>3, <2>1, UptoGrows
  <2> QED
    BY <2>2, <2>3, <2>4 DEF Sum
<1>5. TypeOK'
  BY <1>1, <1>3 DEF TypeOK
<1>6. Times' /\ Timer' /\ Spaced'
  BY <1>1 DEF Times, Timer, Spaced, Latest, stats_interval_tsc, Gap
<1>7. Loaded'
  <2> SUFFICES ASSUME cell # << >> PROVE Loaded'
    BY <1>1 DEF Loaded
  <2>1. PICK s \in Sums, k \in 0 .. MaxLcores : s = SumOf(cell) /\ k = cell[3]
    BY SumsAreNumbers, Constants
  <2>2. /\ ret <= Upto(protocol_stats_, s)[k]
        /\ begun[s] <= ret + (Sum(s) - Upto(protocol_stats_, s)[k])
    BY <2>1 DEF Loaded
  <2>3. ret \in Nat /\ begun[s] \in Nat
    BY DEF TypeOK
  <2>4. /\ ret <= Upto(protocol_stats_', s)[k]
        /\ begun[s] <= ret + (Sum(s)' - Upto(protocol_stats_', s)[k])
    BY <1>4, <2>2, <2>3
  <2>5. Sum(s)' = Upto(protocol_stats_', s)[MaxLcores]
    BY DEF Sum
  <2> QED
    BY <1>1, <2>1, <2>4, <2>5 DEF Loaded, SumOf, Sum
<1>8. Printed'
  <2>1. \A s \in Sums : printed[s] <= Sum(s)' /\ begun[s] <= Sum(s)'
    <3> TAKE s \in Sums
    <3>1. Sum(s) \in Nat /\ Sum(s)' \in Nat /\ Sum(s) <= Sum(s)'
      BY <1>4, Constants
    <3>2. printed[s] \in Nat /\ begun[s] \in Nat /\ printed[s] <= Sum(s) /\ begun[s] <= Sum(s)
      BY DEF TypeOK, Printed
    <3> QED
      BY <3>1, <3>2
  <2> QED
    BY <1>1, <2>1 DEF Printed, Before
<1> QED
  BY <1>5, <1>6, <1>7, <1>8

\* Where the loop goes next: on in the sum, to the next sum, or to the end,
\* every other sum having been printed.
LEMMA NextCellIs ==
  ASSUME NEW c \in Cells
  PROVE  \/ /\ c[3] < MaxLcores - 1
            /\ NextCell(c) = <<c[1], c[2], c[3] + 1>>
            /\ NextCell(c) \in Cells
         \/ /\ c[3] = MaxLcores - 1
            /\ NextCell(c) \in Cells /\ NextCell(c)[3] = 0
            /\ \A s \in Sums : Before(s, NextCell(c)) => Before(s, c) \/ s = SumOf(c)
         \/ /\ c[3] = MaxLcores - 1
            /\ NextCell(c) = << >>
            /\ \A s \in Sums : Before(s, c) \/ s = SumOf(c)
<1>1. /\ Cells = Ports \X (1 .. 4) \X (0 .. MaxLcores - 1)
      /\ Sums = Ports \X (1 .. 4)
      /\ Ports = 0 .. NbPorts - 1 /\ NbPorts \in Nat /\ MaxLcores \in Nat
  BY Constants DEF Cells, Sums, Ports
<1>2. PICK p \in Ports, n \in 1 .. 4, l \in 0 .. MaxLcores - 1 :
        /\ c = <<p, n, l>> /\ c[1] = p /\ c[2] = n /\ c[3] = l /\ SumOf(c) = <<p, n>>
  BY <1>1 DEF SumOf
<1>3. CASE l < MaxLcores - 1
  BY <1>1, <1>2, <1>3 DEF NextCell
<1>4. CASE l = MaxLcores - 1 /\ n < 4
  <2>1. NextCell(c) = <<p, n + 1, 0>> /\ <<p, n + 1, 0>> \in Cells
    BY <1>1, <1>2, <1>4, Constants DEF NextCell
  <2>2. ASSUME NEW s \in Sums, Before(s, <<p, n + 1, 0>>)
        PROVE  Before(s, c) \/ s = SumOf(c)
    <3>1. s = <<s[1], s[2]>> /\ s[1] \in Nat /\ s[2] \in Nat
      BY <1>1
    <3> QED
      BY <1>2, <2>2, <3>1 DEF Before
  <2> QED
    BY <1>2, <1>4, <2>1, <2>2
<1>5. CASE l = MaxLcores - 1 /\ n = 4 /\ p < NbPorts - 1
  <2>1. NextCell(c) = <<p + 1, 1, 0>> /\ <<p + 1, 1, 0>> \in Cells
    BY <1>1, <1>2, <1>5, Constants DEF NextCell
  <2>2. ASSUME NEW s \in Sums, Before(s, <<p + 1, 1, 0>>)
        PROVE  Before(s, c) \/ s = SumOf(c)
    <3>1. s = <<s[1], s[2]>> /\ s[1] \in Nat /\ s[2] \in 1 .. 4
      BY <1>1
    <3> QED
      BY <1>1, <1>2, <1>5, <2>2, <3>1 DEF Before
  <2> QED
    BY <1>2, <1>5, <2>1, <2>2
<1>6. CASE l = MaxLcores - 1 /\ n = 4 /\ p = NbPorts - 1
  <2>1. NextCell(c) = << >>
    BY <1>1, <1>2, <1>6, Constants DEF NextCell
  <2>2. ASSUME NEW s \in Sums
        PROVE  Before(s, c) \/ s = SumOf(c)
    <3>1. s = <<s[1], s[2]>> /\ s[1] \in 0 .. NbPorts - 1 /\ s[2] \in 1 .. 4
      BY <1>1
    <3> QED
      BY <1>1, <1>2, <1>6, <3>1 DEF Before
  <2> QED
    BY <1>2, <1>6, <2>1, <2>2
<1> QED
  BY <1>1, <1>2, <1>3, <1>4, <1>5, <1>6

\* What a step that loads an element does, and what the element adds.
LEMMA Loading ==
  ASSUME IInv, Load
  PROVE  \E s \in Sums, k \in 0 .. MaxLcores - 1, v \in Nat :
           /\ s = SumOf(cell) /\ k = cell[3] /\ cell \in Cells
           /\ cell' = NextCell(cell)
           /\ LET last == cell' = << >> \/ cell'[3] = 0
              IN /\ ret' = IF last THEN 0 ELSE ret + v
                 /\ printed' = IF last THEN [printed EXCEPT ![s] = ret + v] ELSE printed
           /\ timer_stats_tsc' = IF cell' = << >> THEN 0 ELSE timer_stats_tsc
           /\ Upto(protocol_stats_, s)[k + 1] = Upto(protocol_stats_, s)[k] + v
           /\ ret + v <= Upto(protocol_stats_, s)[k + 1]
           /\ begun[s] <= (ret + v) + (Sum(s) - Upto(protocol_stats_, s)[k + 1])
<1> USE DEF IInv
<1>1. cell # << >> /\ cell \in Cells
  BY DEF Load, TypeOK
<1>2. PICK s \in Sums, k \in 0 .. MaxLcores - 1 : s = SumOf(cell) /\ k = cell[3]
  BY <1>1, SumsAreNumbers
<1>3. PICK v \in Nat : v = protocol_stats_[cell]
  BY <1>1 DEF TypeOK
<1>4. s = <<cell[1], cell[2]>> /\ cell = <<s[1], s[2], k>>
  BY <1>1, <1>2, SumsAreNumbers DEF SumOf
<1>5. Upto(protocol_stats_, s)[k + 1] = Upto(protocol_stats_, s)[k] + v
  <2>1. k + 1 \in 1 .. MaxLcores /\ (k + 1) - 1 = k
    BY Constants
  <2>2. Upto(protocol_stats_, s)[k + 1]
          = Upto(protocol_stats_, s)[(k + 1) - 1] + protocol_stats_[<<s[1], s[2], (k + 1) - 1>>]
    BY <2>1, UptoSteps DEF TypeOK
  <2> QED
    BY <1>3, <1>4, <2>1, <2>2
<1>6. /\ ret <= Upto(protocol_stats_, s)[k]
      /\ begun[s] <= ret + (Sum(s) - Upto(protocol_stats_, s)[k])
  BY <1>1, <1>2 DEF Loaded
<1>7. /\ ret \in Nat /\ begun[s] \in Nat /\ Sum(s) \in Nat
      /\ Upto(protocol_stats_, s)[k] \in Nat
  <2>1. k \in 0 .. MaxLcores
    BY Constants
  <2> QED
    BY <2>1, SumsAreNumbers DEF TypeOK
<1>8. /\ ret + v <= Upto(protocol_stats_, s)[k + 1]
      /\ begun[s] <= (ret + v) + (Sum(s) - Upto(protocol_stats_, s)[k + 1])
  BY <1>5, <1>6, <1>7
<1>9. /\ cell' = NextCell(cell)
      /\ LET last == cell' = << >> \/ cell'[3] = 0
         IN /\ ret' = IF last THEN 0 ELSE ret + v
            /\ printed' = IF last THEN [printed EXCEPT ![s] = ret + v] ELSE printed
      /\ timer_stats_tsc' = IF cell' = << >> THEN 0 ELSE timer_stats_tsc
  BY <1>3, <1>4 DEF Load
<1> QED
  BY <1>1, <1>2, <1>5, <1>8, <1>9

LEMMA LoadStep ==
  ASSUME IInv, Load
  PROVE  IInv'
<1> USE DEF IInv
<1>1. /\ cell # << >>
      /\ UNCHANGED <<asked, now, head, prev_tsc, protocol_stats_, begun, reports>>
  BY DEF Load
<1>2. PICK s \in Sums, k \in 0 .. MaxLcores - 1, v \in Nat :
           /\ s = SumOf(cell) /\ k = cell[3] /\ cell \in Cells
           /\ cell' = NextCell(cell)
           /\ LET last == cell' = << >> \/ cell'[3] = 0
              IN /\ ret' = IF last THEN 0 ELSE ret + v
                 /\ printed' = IF last THEN [printed EXCEPT ![s] = ret + v] ELSE printed
           /\ timer_stats_tsc' = IF cell' = << >> THEN 0 ELSE timer_stats_tsc
           /\ Upto(protocol_stats_, s)[k + 1] = Upto(protocol_stats_, s)[k] + v
           /\ ret + v <= Upto(protocol_stats_, s)[k + 1]
           /\ begun[s] <= (ret + v) + (Sum(s) - Upto(protocol_stats_, s)[k + 1])
  BY Loading
<1>3. /\ \A t \in Sums : Sum(t)' = Sum(t) /\ Sum(t) \in Nat
      /\ \A t \in Sums : Upto(protocol_stats_', t) = Upto(protocol_stats_, t)
      /\ \A t \in Sums : Sum(t) = Upto(protocol_stats_, t)[MaxLcores]
  BY <1>1, SumsAreNumbers DEF Sum, Upto
<1>4. /\ ret \in Nat /\ timer_stats_tsc \in Nat /\ prev_tsc \in Nat
      /\ printed \in [Sums -> Nat] /\ begun \in [Sums -> Nat]
  BY DEF TypeOK
<1>5. cell' = << >> \/ cell' \in Cells
  BY <1>2, NextCellIs
<1>6. TypeOK'
  <2>1. ret' \in Nat /\ timer_stats_tsc' \in Nat /\ printed' \in [Sums -> Nat]
    BY <1>2, <1>4
  <2> QED
    BY <1>1, <1>5, <2>1 DEF TypeOK
<1>7. Times' /\ Spaced'
  BY <1>1 DEF Times, Spaced, Latest, Gap, stats_interval_tsc
<1>8. Timer'
  <2>1. Latest' = Latest /\ Latest = prev_tsc /\ stats_interval_tsc' = stats_interval_tsc
    BY <1>1 DEF Latest, Timer, stats_interval_tsc
  <2>2. stats_interval_tsc \in Nat /\ stats_interval_tsc # 0
    BY <1>1, Interval DEF Timer
  <2>3. cell' = << >> => timer_stats_tsc' = 0
    BY <1>2
  <2>4. Timer'
    BY <1>1, <1>4, <2>1, <2>2, <2>3 DEF Timer
  <2> QED
    BY <2>4
<1>9. CASE k < MaxLcores - 1
  <2>1. cell' = <<cell[1], cell[2], k + 1>> /\ cell' \in Cells
    BY <1>2, <1>9, NextCellIs
  <2>2. cell' # << >> /\ cell'[3] = k + 1 /\ k + 1 # 0 /\ SumOf(cell') = s
    BY <1>2, <2>1 DEF SumOf
  <2>3. ret' = ret + v /\ printed' = printed
    BY <1>2, <2>2
  <2>4. Loaded'
    BY <1>1, <1>2, <1>3, <2>2, <2>3 DEF Loaded, SumOf
  <2>5. \A t \in Sums : Before(t, cell') <=> Before(t, cell)
    BY <2>1 DEF Before
  <2>6. Printed'
    BY <1>1, <1>3, <2>2, <2>3, <2>5 DEF Printed
  <2> QED
    BY <1>6, <1>7, <1>8, <2>4, <2>6
<1>10. CASE k = MaxLcores - 1
  <2>1. /\ cell' = << >> \/ (cell' \in Cells /\ cell'[3] = 0 /\ cell' # << >>)
        /\ \A t \in Sums :
             cell' = << >> \/ Before(t, cell') => Before(t, cell) \/ t = s
    <3>1. ASSUME NEW c \in Cells PROVE c # << >>
      <4>1. PICK p \in Ports, n \in DOMAIN Counted, l \in 0 .. MaxLcores - 1 : c = <<p, n, l>>
        BY DEF Cells
      <4>2. <<p, n, l>> # << >>
        OBVIOUS
      <4> QED
        BY <4>1, <4>2
    <3>2. \/ /\ NextCell(cell) \in Cells /\ NextCell(cell)[3] = 0
             /\ \A t \in Sums : Before(t, NextCell(cell)) => Before(t, cell) \/ t = SumOf(cell)
          \/ /\ NextCell(cell) = << >>
             /\ \A t \in Sums : Before(t, cell) \/ t = SumOf(cell)
      <4>1. cell \in Cells /\ ~(cell[3] < MaxLcores - 1)
        BY <1>2, <1>10, Constants
      <4> QED
        BY <4>1, NextCellIs, Zenon
    <3> QED
      BY <1>2, <3>1, <3>2
  <2>2. ret' = 0 /\ printed' = [printed EXCEPT ![s] = ret + v]
    BY <1>2, <2>1
  <2>3. k + 1 = MaxLcores /\ Upto(protocol_stats_, s)[k + 1] = Sum(s)
    BY <1>3, <1>10, Constants
  <2>4. ret + v <= Sum(s) /\ begun[s] <= ret + v
    BY <1>2, <1>3, <1>4, <2>3
  <2>5. \A t \in Sums : printed'[t] = IF t = s THEN ret + v ELSE printed[t]
    BY <1>4, <2>2
  <2>6. Printed'
    <3>1. \A t \in Sums :
            /\ printed[t] <= Sum(t) /\ begun[t] <= Sum(t)
            /\ Before(t, cell) => begun[t] <= printed[t]
      BY <1>1 DEF Printed
    <3> QED
      BY <1>1, <1>3, <2>1, <2>2, <2>4, <2>5, <3>1 DEF Printed
  <2>7. Loaded'
    <3> SUFFICES ASSUME cell' # << >> PROVE Loaded'
      BY DEF Loaded
    <3>1. cell' \in Cells /\ cell'[3] = 0
      BY <2>1
    <3>2. PICK t \in Sums : t = SumOf(cell')
      BY <1>6, SumsAreNumbers, <3>1, Constants DEF Cells, Sums, SumOf
    <3>3. Upto(protocol_stats_, t)[0] = 0
      BY UptoSteps DEF TypeOK
    <3>4. begun[t] <= Sum(t) /\ Sum(t) \in Nat /\ begun[t] \in Nat
      BY <1>3, <1>4 DEF Printed
    <3> QED
      BY <1>1, <1>3, <2>2, <3>1, <3>2, <3>3, <3>4 DEF Loaded, SumOf, Sum
  <2> QED
    BY <1>6, <1>7, <1>8, <2>6, <2>7
<1> QED
  BY <1>9, <1>10, Constants

LEMMA NextReport == IInv /\ [Next]_vars => IInv'
<1> SUFFICES ASSUME IInv, [Next]_vars PROVE IInv'
  OBVIOUS
<1>1. CASE Next
  BY <1>1, TickStep, CountStep, IterateStep, BeginStep, LoadStep DEF Next
<1>2. CASE UNCHANGED vars
  <2>1. UNCHANGED <<protocol_stats_, cell, ret, printed, begun, reports>>
    BY <1>2 DEF vars
  <2>2. Loaded' /\ Printed'
    BY <2>1, QuietStep
  <2>3. TypeOK' /\ Times' /\ Timer' /\ Spaced'
    BY <1>2 DEF vars, IInv, TypeOK, Times, Timer, Spaced, Latest, Gap,
                stats_interval_tsc
  <2> QED
    BY <2>2, <2>3 DEF IInv
<1> QED
  BY <1>1, <1>2

-----------------------------------------------------------------------------
(* The theorems. *)

\* However packets are counted and however long anything takes, the service
\* keeps to IInv.
THEOREM ReportsCorrect == Spec => []IInv
<1> QED
  BY InitReport, NextReport, PTL DEF Spec

\* Each sum printed lies between what the counters held when the report
\* began and what they hold, for any number of ports and lcores.
THEOREM Reports == Spec => []ReportBetween
<1>1. IInv => ReportBetween
  BY DEF IInv, Printed, ReportBetween
<1> QED
  BY <1>1, ReportsCorrect, PTL

\* An interval of seconds that 16 bits hold is kept: reports come more than
\* that apart, and at any time the latest is at most a drain and an iteration
\* older than that; and none comes if none was asked for.
THEOREM Intervals == Spec => []EveryInterval
<1>1. ASSUME IInv PROVE EveryInterval
  <2>1. /\ TypeOK /\ Times /\ Timer /\ Spaced
        /\ Latest = reports[Len(reports)]
    BY <1>1 DEF IInv, Latest
  <2>2. Second \in Nat \ {0} /\ DrainTsc \in Nat \ {0} /\ MaxIteration \in Nat
    BY StatisticsAssumption
  <2>3. Latest \in Nat /\ {now, head, prev_tsc, timer_stats_tsc} \subseteq Nat
    BY <2>1 DEF TypeOK
  <2>4. ASSUME asked \in 1 .. 2^16 - 1
        PROVE  /\ Len(reports) > 1 => Gap > asked * Second
               /\ now - Latest <= asked * Second + (DrainTsc - 1) + MaxIteration
    <3>1. \A x \in 1 .. 2^16 - 1 : x % 2^16 = x
      OBVIOUS
    <3>2. stats_interval_tsc = asked * Second
      BY <2>4, <3>1, Zenon DEF stats_interval_tsc
    <3>3. asked * Second \in Nat /\ asked * Second > 0
      BY <2>2, <2>4
    <3> DEFINE interval == asked * Second
    <3> HIDE DEF interval
    <3>4. interval \in Nat /\ interval > 0 /\ stats_interval_tsc = interval
      BY <3>2, <3>3 DEF interval
    <3>5. prev_tsc - Latest <= interval
      <4>1. CASE cell = << >>
        BY <2>1, <2>3, <3>4, <4>1 DEF Timer
      <4>2. CASE cell # << >>
        BY <2>1, <2>3, <3>4, <4>2 DEF Timer
      <4> QED
        BY <4>1, <4>2
    <3>6. now - Latest <= interval + (DrainTsc - 1) + MaxIteration
      <4>1. /\ now - head <= MaxIteration /\ head - prev_tsc <= DrainTsc - 1
            /\ Latest \in Int /\ now \in Int /\ head \in Int /\ prev_tsc \in Int
        BY <2>1, <2>2, <2>3 DEF Times
      <4> HIDE DEF Latest
      <4> QED
        BY <2>2, <3>4, <3>5, <4>1
    <3> QED
      BY <2>1, <3>4, <3>6 DEF Spaced, interval
  <2>5. ASSUME asked = 0 PROVE Len(reports) = 1
    <3>1. stats_interval_tsc = 0
      BY <2>2, <2>5 DEF stats_interval_tsc
    <3> QED
      BY <2>1, <3>1 DEF Timer
  <2> QED
    BY <2>1, <2>4, <2>5 DEF EveryInterval
<1> QED
  BY <1>1, ReportsCorrect, PTL
=============================================================================
