------------------------------ MODULE CpuProofs ------------------------------
(* What get_process_cpu_usage returns, for calls of any length.              *)
EXTENDS CpuUsage, TLAPS

\* The states of a history are states of the machine, each later than the one
\* before.
LEMMA HistoryStates ==
  ASSUME NEW h \in Histories
  PROVE  /\ h = <<h[1], h[2], h[3], h[4]>>
         /\ h[1] \in Machine /\ ~h[1].reused
         /\ h[2] \in Later(h[1]) /\ h[3] \in Later(h[2]) /\ h[4] \in Later(h[3])
<1>1. PICK a \in {s \in Machine : s.total = 0 /\ ~s.reused} :
        h \in UNION {UNION {{<<a, b, c, d>> : d \in Later(c)} : c \in Later(b)} : b \in Later(a)}
  BY Zenon DEF Histories
<1>2. PICK b \in Later(a) : h \in UNION {{<<a, b, c, d>> : d \in Later(c)} : c \in Later(b)}
  BY <1>1, Zenon
<1>3. PICK c \in Later(b) : h \in {<<a, b, c, d>> : d \in Later(c)}
  BY <1>2, Zenon
<1>4. PICK d \in Later(c) : h = <<a, b, c, d>>
  BY <1>3, Zenon
<1> QED  BY <1>4, Zenon

\* Within one life of the process its time does not go back and grows by at
\* most the ticks that pass.
LEMMA SameLife ==
  ASSUME NEW s \in Machine, NEW t \in Later(s), s.exists, t.exists, ~t.reused
  PROVE  /\ t \in Machine /\ ~s.reused
         /\ s.total \in Int /\ t.total \in Int /\ s.time \in Int /\ t.time \in Int
         /\ s.total <= t.total /\ s.time <= t.time
         /\ t.time - s.time <= t.total - s.total
BY CpuAssumption DEF Later, Machine

\* A percentage of a part is between 0 and 100.
LEMMA Percentage ==
  ASSUME NEW d \in Int, NEW t \in Int, 0 < t, 0 <= d
  PROVE  /\ (100 * d) \div t \in Int
         /\ 0 <= (100 * d) \div t
         /\ d <= t => (100 * d) \div t <= 100
<1> DEFINE q == (100 * d) \div t
           r == (100 * d) % t
<1>1. q \in Int /\ r \in Int /\ 100 * d = t * q + r /\ 0 <= r /\ r < t
  OBVIOUS
<1> HIDE DEF q, r
<1>2. 0 <= q
  <2>1. CASE q <= -1
    <3>1. t * q <= -t  BY <1>1, <2>1
    <3> QED  BY <1>1, <3>1
  <2> QED  BY <1>1, <2>1
<1>3. d <= t => q <= 100
  <2>1. CASE q >= 101
    <3>1. t * q >= 101 * t  BY <1>1, <2>1
    <3> QED  BY <1>1, <3>1
  <2> QED  BY <1>1, <2>1
<1> QED  BY <1>1, <1>2, <1>3, Zenon DEF q

\* The readings of a call on a process that lives through it.
LEMMA SteadyReadings ==
  ASSUME NEW h \in Histories, NEW ok, Steady(h, ok)
  PROVE  LET t == h[3].total - h[1].total
             d == h[4].time - h[2].time
         IN /\ t \in Int /\ d \in Int /\ 0 <= t /\ 0 <= d
            /\ d <= t + (h[4].total - h[3].total)
            /\ h[3].total \in Int /\ h[4].total \in Int
            /\ Usage(h, ok) = IF t <= 0 THEN 0 ELSE (100 * d) \div t
<1>1. /\ h[1] \in Machine /\ h[2] \in Later(h[1])
      /\ h[3] \in Later(h[2]) /\ h[4] \in Later(h[3])
  BY HistoryStates, Zenon
<1>2. /\ 1 \in ok /\ 2 \in ok /\ 3 \in ok /\ 4 \in ok
      /\ h[1].exists /\ h[2].exists /\ h[3].exists /\ h[4].exists
      /\ ~h[2].reused /\ ~h[3].reused /\ ~h[4].reused
      /\ ~h[2].spaced /\ ~h[4].spaced
  BY DEF Steady
<1>3. /\ h[2] \in Machine /\ h[1].total \in Int /\ h[2].total \in Int /\ h[2].time \in Int
      /\ h[1].total <= h[2].total
  BY <1>1, <1>2, SameLife, Zenon
<1>4. /\ h[3] \in Machine /\ h[3].total \in Int /\ h[3].time \in Int
      /\ h[2].total <= h[3].total /\ h[2].time <= h[3].time
      /\ h[3].time - h[2].time <= h[3].total - h[2].total
  BY <1>1, <1>2, <1>3, SameLife, Zenon
<1>5. /\ h[4] \in Machine /\ h[4].total \in Int /\ h[4].time \in Int
      /\ h[3].time <= h[4].time
      /\ h[4].time - h[3].time <= h[4].total - h[3].total
  BY <1>1, <1>2, <1>4, SameLife, Zenon
<1>6. /\ h[1].total # -1 /\ h[2].time # -1 /\ h[3].total # -1 /\ h[4].time # -1
  BY <1>1, <1>3, <1>4, <1>5, CpuAssumption DEF Machine
<1>7. Usage(h, ok) = IF h[3].total - h[1].total <= 0 THEN 0
                     ELSE (100 * (h[4].time - h[2].time)) \div (h[3].total - h[1].total)
  BY <1>2, <1>6, Zenon DEF Usage, TotalTime, ProcessTime
<1> QED  BY <1>3, <1>4, <1>5, <1>7

\* A process that lives through the call under a one-word name is never
\* answered as not found: get_process_cpu_usage returns no negative number.
THEOREM SteadyIsFound ==
  ASSUME NEW h \in Histories, NEW ok, Steady(h, ok)
  PROVE  Usage(h, ok) >= 0
BY SteadyReadings, Percentage

\* The usage exceeds 100 percent only if the clock ticks between the last two
\* readings: the total is read before the time of the process.
THEOREM UsageAtMostAll ==
  ASSUME NEW h \in Histories, NEW ok, Steady(h, ok), h[4].total = h[3].total
  PROVE  Usage(h, ok) <= 100
BY SteadyReadings, Percentage

\* A pid that no process has during the call is answered as not found.
THEOREM AbsentIsNotFound ==
  ASSUME NEW h \in Histories, NEW ok, Absent(h)
  PROVE  Usage(h, ok) < 0
<1>1. ProcessTime(h[2], 2 \in ok) = -1
  BY DEF Absent, ProcessTime
<1> QED  BY <1>1 DEF Usage
=============================================================================
