--------------------------- MODULE CollectorRates ---------------------------
(***************************************************************************)
(* The rates of collector.Collector.Collect (internal/collector/           *)
(* collector.go), run by several goroutines at once.  A rate is the        *)
(* difference between a counter and the sample an earlier Collect left,    *)
(* over the time since the previous Collect began.  The process table is   *)
(* read, diffed and stored in one critical section of mu; the disk and     *)
(* network counters are read before mu is taken.                           *)
(*                                                                         *)
(* Time is a clock in seconds.  A monitored counter advances by one per    *)
(* second and stood at Offset when the collector was made.                 *)
(***************************************************************************)
EXTENDS Integers

CONSTANTS
  Calls,        \* concurrent Collect calls
  MaxElapsed,   \* a longer gap counts as a resumed suspension (30s)
  Offset,       \* what the counters stood at when the collector was made
  Restarting,   \* sections whose counter may restart
  MaxClock      \* bound on time

Never == -1             \* the zero time.Time
None == -1              \* no sample, no rate
(* collectDiskIO and collectNet keep their samples the same way, apart from *)
(* each other: "io" is either of them.                                     *)
Sections == {"procs", "io"}

ASSUME RatesAssumption ==
  /\ MaxElapsed \in Nat \ {0} /\ Offset \in Nat /\ MaxClock \in Nat
  /\ Restarting \subseteq Sections

VARIABLES
  clock,        \* wall clock
  off,          \* per section: counter value minus clock
  pollClock,    \* when the previous Collect began
  base,         \* lastCPU, and lastDiskIO or lastNet: the stored sample
  pc,           \* the step each Collect takes next
  now, elapsed, \* its local variables
  read,         \* the counter it has read and not yet stored
  rate          \* the rate this step computed: its section, counter difference
                \* and window

vars == <<clock, off, pollClock, base, pc, now, elapsed, read, rate>>

Counter(s) == off[s] + clock
Larger(a, b) == IF a >= b THEN a ELSE b
NoRate == [of |-> "none", delta |-> None, since |-> None]

Init ==
  /\ clock = 0
  /\ off = [s \in Sections |-> Offset]
  /\ pollClock = Never
  /\ base = [s \in Sections |-> None]
  /\ pc = [w \in Calls |-> "idle"]
  /\ now = [w \in Calls |-> 0]
  /\ elapsed = [w \in Calls |-> 0]
  /\ read = [w \in Calls |-> None]
  /\ rate = NoRate

Step(w, from, to) == pc[w] = from /\ pc' = [pc EXCEPT ![w] = to]

-----------------------------------------------------------------------------
Advance ==
  /\ clock < MaxClock
  /\ clock' = clock + 1
  /\ rate' = NoRate
  /\ UNCHANGED <<off, pollClock, base, pc, now, elapsed, read>>

(* A device reinitialises, an interface bounces, a pid is reused: the      *)
(* counter restarts from zero (at most once per section).                  *)
Restart(s) ==
  /\ off[s] = Offset /\ clock > 0
  /\ off' = [off EXCEPT ![s] = -clock]
  /\ rate' = NoRate
  /\ UNCHANGED <<clock, pollClock, base, pc, now, elapsed, read>>

-----------------------------------------------------------------------------
(* Mutant of Elapsed: a suspension is a window like any other.             *)
Elapsed_NoGap(t) ==
  LET gap == t - pollClock
  IN IF pollClock = Never \/ gap <= 0 THEN 0 ELSE gap

(* The time since the previous call; none on the first one, and none after *)
(* a suspension.                                                           *)
Elapsed(t) ==
  LET gap == t - pollClock
  IN IF pollClock = Never \/ gap <= 0 \/ gap > MaxElapsed THEN 0 ELSE gap

(* Mutant of Begin: a suspended or failed Collect does not move pollClock. *)
Begin_KeepsClock(w) ==
  /\ Step(w, "idle", "procs")
  /\ now' = [now EXCEPT ![w] = clock]
  /\ elapsed' = [elapsed EXCEPT ![w] = Elapsed(clock)]
  /\ pollClock' = IF pollClock = Never THEN clock ELSE pollClock
  /\ rate' = NoRate
  /\ UNCHANGED <<clock, off, base, read>>

(* Under mu: read the clock and measure the time since the previous call.  *)
Begin(w) ==
  /\ Step(w, "idle", "procs")
  /\ now' = [now EXCEPT ![w] = clock]
  /\ elapsed' = [elapsed EXCEPT ![w] = Elapsed(clock)]
  /\ pollClock' = clock
  /\ rate' = NoRate
  /\ UNCHANGED <<clock, off, base, read>>

(* Mutant of Difference: a missing sample counts as zero.                  *)
Difference_FromZero(prev, cur) == Larger(0, IF prev = None THEN cur ELSE cur - prev)

(* Counters that went backwards report nothing; so does a first sample.    *)
Difference(prev, cur) == IF prev = None THEN None ELSE Larger(0, cur - prev)

Store(w, s, cur) ==
  /\ rate' = IF elapsed[w] <= 0 THEN NoRate
             ELSE [of |-> s, delta |-> Difference(base[s], cur), since |-> now[w] - elapsed[w]]
  /\ base' = [base EXCEPT ![s] = cur]

(* The process table: read, diffed and stored in one section of mu.        *)
CollectProcs(w) ==
  /\ Step(w, "procs", "io")
  /\ Store(w, "procs", Counter("procs"))
  /\ UNCHANGED <<clock, off, pollClock, now, elapsed, read>>

(* Counters are read without mu and exchanged for the stored sample under  *)
(* it; the snapshot is then complete.                                      *)
ReadIO(w) ==
  /\ Step(w, "io", "swap")
  /\ read' = [read EXCEPT ![w] = Counter("io")]
  /\ rate' = NoRate
  /\ UNCHANGED <<clock, off, pollClock, base, now, elapsed>>

SwapIO(w) ==
  /\ Step(w, "swap", "idle")
  /\ Store(w, "io", read[w])
  /\ read' = [read EXCEPT ![w] = None]
  /\ UNCHANGED <<clock, off, pollClock, now, elapsed>>

(* The probe of a section fails: no rate, and the stored sample stays.     *)
SectionFails(w) ==
  /\ Step(w, "procs", "io") \/ Step(w, "io", "idle")
  /\ rate' = NoRate
  /\ UNCHANGED <<clock, off, pollClock, base, now, elapsed, read>>

Collect(w) ==
  \/ Begin(w) \/ CollectProcs(w) \/ ReadIO(w) \/ SwapIO(w) \/ SectionFails(w)

Next ==
  \/ Advance
  \/ \E s \in Restarting : Restart(s)
  \/ \E w \in Calls : Collect(w)

Spec == Init /\ [][Next]_vars

-----------------------------------------------------------------------------
(* Properties. *)

(* The type invariant.                                                     *)
TypeOK ==
  /\ clock \in Nat /\ pollClock \in Nat \cup {Never}
  /\ off \in [Sections -> Int]
  /\ base \in [Sections -> Nat \cup {None}]
  /\ pc \in [Calls -> {"idle", "procs", "io", "swap"}]
  /\ now \in [Calls -> Nat] /\ elapsed \in [Calls -> 0 .. MaxElapsed]
  /\ read \in [Calls -> Nat \cup {None}]
  /\ rate \in [of : Sections \cup {"none"}, delta : Nat \cup {None}, since : Nat \cup {None}]

(* The windows that concurrent Collects divide by do not overlap: time is  *)
(* attributed to one Collect only, though each measures it while others    *)
(* are still running.                                                      *)
WindowsDisjoint ==
  \A v, w \in Calls :
    v # w /\ pc[v] # "idle" /\ pc[w] # "idle" /\ elapsed[v] > 0 /\ elapsed[w] > 0
      => now[v] <= now[w] - elapsed[w] \/ now[w] <= now[v] - elapsed[v]

(* No order of reads and stores, no failed section and no process that    *)
(* takes over a pid makes a rate negative or charges an interval with what *)
(* was counted before the collector looked for the first time.  (A device  *)
(* counter that restarts between the reads of two overlapping Collects can *)
(* do so: the later store may hold the earlier read.)                      *)
NoSpuriousSpike ==
  rate.delta # None =>
    /\ rate.delta >= 0
    /\ rate.of = "procs" \/ off[rate.of] = Offset => rate.delta <= clock

(* "Rate-based metrics are deltas over the interval between Collect        *)
(* calls": a rate counts nothing from before the interval it divides by.   *)
RateCoversInterval == rate.delta # None => rate.delta <= clock - rate.since
=============================================================================
