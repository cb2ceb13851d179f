------------------------------ MODULE CpuUsage ------------------------------
(***************************************************************************)
(* src/server/process_cpu_usage.c: the usage of a process from two         *)
(* readings of /proc/stat and two of /proc/<pid>/stat, about 20 ms apart.  *)
(* The four files are read one after the other while the machine goes on,  *)
(* so a call sees a history of four states: at the first and the third the *)
(* total time is read, at the second and the fourth the time of the        *)
(* process.  Times count clock ticks.                                      *)
(***************************************************************************)
EXTENDS Integers

CONSTANT MaxTicks  \* bound: the ticks that pass during a call

ASSUME CpuAssumption == MaxTicks \in Nat

\* What the kernel knows: the total time, counted from the first reading, and
\* of the pid asked for whether a process has it, whether the name of that
\* process holds a space, its time, and whether the pid was given to a new
\* process during the call.
Machine == {s \in [total : 0 .. MaxTicks, exists : BOOLEAN, spaced : BOOLEAN,
                   time : 0 .. MaxTicks, reused : BOOLEAN] :
              ~s.exists => s.time = 0 /\ ~s.spaced}

\* What may have happened between two readings.  A process gets no more ticks
\* than have passed on all processors together.
Later(s) ==
  {t \in Machine :
     /\ t.total >= s.total
     /\ \/ ~t.exists /\ t.reused = s.reused
        \/ /\ s.exists /\ t.exists /\ t.reused = s.reused
           /\ t.time >= s.time
           /\ t.time - s.time <= t.total - s.total
        \/ ~s.reused /\ t.exists /\ t.reused /\ t.time <= t.total - s.total}

\* A call begins at some state in which no time has passed and the pid was
\* not yet reused.
Histories ==
  UNION {UNION {UNION {{<<a, b, c, d>> : d \in Later(c)} : c \in Later(b)} : b \in Later(a)} :
           a \in {s \in Machine : s.total = 0 /\ ~s.reused}}

\* get_total_time of a state; -1 if the file cannot be read.
TotalTime(s, readable) == IF readable THEN s.total ELSE -1

\* Slip: a process that does not exist has used no time.
ProcessTimeOfNone(s, readable) == IF readable /\ ~s.spaced THEN s.time ELSE -1

\* get_process_time.  sscanf takes a name up to its first space, so that the
\* fields after a name with a space do not parse.
ProcessTime(s, readable) == IF readable /\ s.exists /\ ~s.spaced THEN s.time ELSE -1

\* get_process_cpu_usage for the history h, of whose readings those in ok
\* succeed: a percentage, here rounded down, or -1.
Usage(h, ok) ==
  LET start_total == TotalTime(h[1], 1 \in ok)
      start_proc == ProcessTime(h[2], 2 \in ok)
      end_total == TotalTime(h[3], 3 \in ok)
      end_proc == ProcessTime(h[4], 4 \in ok)
      total_diff == end_total - start_total
      proc_diff == end_proc - start_proc
  IN IF -1 \in {start_total, start_proc, end_total, end_proc} THEN -1
     ELSE IF total_diff <= 0 THEN 0
     ELSE (100 * proc_diff) \div total_diff

\* The process lives through the call under a name without spaces, and every
\* reading succeeds.
Steady(h, ok) == /\ ok = 1 .. 4
                 /\ \A i \in 1 .. 4 : h[i].exists /\ ~h[i].spaced /\ ~h[i].reused

\* No process has the pid during the call.
Absent(h) == \A i \in 1 .. 4 : ~h[i].exists
=============================================================================
