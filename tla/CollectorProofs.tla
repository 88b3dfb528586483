-------------------------- MODULE CollectorProofs ---------------------------
(***************************************************************************)
(* Proofs about the two halves of the collector, CollectorRates and        *)
(* CollectorCaches, for any number of concurrent Collects, any clock, any  *)
(* counters and any intervals.                                             *)
(***************************************************************************)
EXTENDS MCCollector, TLAPS

USE RatesAssumption DEF RatesAssumption, vars, Never, None, Sections

(* Every Collect that runs began no later than the last one that did.      *)
ClocksInv ==
  /\ clock \in Nat /\ pollClock \in Nat \cup {Never} /\ pollClock <= clock
  /\ pc \in [Calls -> {"idle", "procs", "io", "swap"}]
  /\ now \in [Calls -> Nat] /\ elapsed \in [Calls -> Nat]
  /\ \A w \in Calls : pc[w] # "idle" => now[w] <= pollClock

(* The steps that touch no clock.                                          *)
LEMMA ClocksKept ==
  ASSUME ClocksInv, WindowsDisjoint, UNCHANGED <<pollClock, now, elapsed>>, clock' \in Nat, clock <= clock',
         pc' \in [Calls -> {"idle", "procs", "io", "swap"}],
         \A w \in Calls : pc'[w] # "idle" => pc[w] # "idle"
  PROVE  ClocksInv' /\ WindowsDisjoint'
<1>1. ClocksInv'
  BY DEF ClocksInv
<1>2. WindowsDisjoint'
  BY DEF WindowsDisjoint
<1> QED BY <1>1, <1>2

(* Every step of every Collect keeps the clocks and the windows apart.     *)
LEMMA ClocksStep ==
  ASSUME ClocksInv, WindowsDisjoint, [Next]_vars
  PROVE  ClocksInv' /\ WindowsDisjoint'
<1>1. CASE Advance
  BY <1>1, ClocksKept DEF Advance, ClocksInv
<1>2. ASSUME NEW s \in Restarting, Restart(s) PROVE ClocksInv' /\ WindowsDisjoint'
  BY <1>2, ClocksKept DEF Restart, ClocksInv
<1>3. ASSUME NEW w \in Calls, CollectProcs(w) \/ ReadIO(w) \/ SwapIO(w) \/ SectionFails(w)
      PROVE  ClocksInv' /\ WindowsDisjoint'
  <2>1. /\ UNCHANGED <<clock, pollClock, now, elapsed>>
        /\ \/ Step(w, "procs", "io") \/ Step(w, "io", "swap") \/ Step(w, "swap", "idle") \/ Step(w, "io", "idle")
    BY <1>3 DEF CollectProcs, ReadIO, SwapIO, SectionFails
  <2>2. /\ pc' \in [Calls -> {"idle", "procs", "io", "swap"}]
        /\ \A v \in Calls : pc'[v] # "idle" => pc[v] # "idle"
    BY <2>1 DEF Step, ClocksInv
  <2> QED BY <2>1, <2>2, ClocksKept DEF ClocksInv
<1>4. ASSUME NEW w \in Calls, Begin(w) PROVE ClocksInv' /\ WindowsDisjoint'
  <2>1. /\ pc[w] = "idle" /\ pc' = [pc EXCEPT ![w] = "procs"]
        /\ now' = [now EXCEPT ![w] = clock] /\ elapsed' = [elapsed EXCEPT ![w] = Elapsed(clock)]
        /\ pollClock' = clock /\ clock' = clock
    BY <1>4 DEF Begin, Step
  <2>2. Elapsed(clock) \in Nat /\ (Elapsed(clock) > 0 => clock - Elapsed(clock) = pollClock)
    BY DEF Elapsed, ClocksInv
  <2>3. ClocksInv'
    BY <2>1, <2>2 DEF ClocksInv
  <2>4. ASSUME NEW u \in Calls, NEW v \in Calls, u # v, pc'[u] # "idle", pc'[v] # "idle",
               elapsed'[u] > 0, elapsed'[v] > 0
        PROVE  now'[u] <= now'[v] - elapsed'[v] \/ now'[v] <= now'[u] - elapsed'[u]
    <3>1. CASE u # w /\ v # w
      BY <2>1, <2>4, <3>1 DEF WindowsDisjoint, ClocksInv
    <3>2. CASE v = w
      <4>1. now'[v] - elapsed'[v] = pollClock
        BY <2>1, <2>2, <2>4, <3>2 DEF ClocksInv
      <4>2. now'[u] <= pollClock
        BY <2>1, <2>4, <3>2 DEF ClocksInv
      <4> QED BY <4>1, <4>2
    <3>3. CASE u = w
      <4>1. now'[u] - elapsed'[u] = pollClock
        BY <2>1, <2>2, <2>4, <3>3 DEF ClocksInv
      <4>2. now'[v] <= pollClock
        BY <2>1, <2>4, <3>3 DEF ClocksInv
      <4> QED BY <4>1, <4>2
    <3> QED BY <3>1, <3>2, <3>3
  <2> QED BY <2>3, <2>4 DEF WindowsDisjoint
<1>5. CASE UNCHANGED vars
  BY <1>5, ClocksKept DEF ClocksInv
<1> QED BY <1>1, <1>2, <1>3, <1>4, <1>5 DEF Next, Collect

(* Of any number of overlapping Collects, no two divide by windows of      *)
(* pollClock that share a moment.                                          *)
THEOREM WindowsAreDisjoint == Spec => []WindowsDisjoint
<1>1. Init => ClocksInv /\ WindowsDisjoint
  BY DEF Init, ClocksInv, WindowsDisjoint
<1>2. ClocksInv /\ WindowsDisjoint /\ [Next]_vars => (ClocksInv /\ WindowsDisjoint)'
  BY ClocksStep
<1> QED BY <1>1, <1>2, PTL DEF Spec

-----------------------------------------------------------------------------
(* What the samples and the counters read hold: nothing from before the    *)
(* collector looked, unless the device restarted.                          *)
Original(s) == off[s] = Offset
CountersInv ==
  /\ clock \in Nat /\ off \in [Sections -> Int]
  /\ base \in [Sections -> Int] /\ read \in [Calls -> Int]
  /\ pc \in [Calls -> {"idle", "procs", "io", "swap"}]
  /\ \A s \in Sections : Original(s) => base[s] = None \/ base[s] \in Offset .. Offset + clock
  /\ \A s \in Sections : ~Original(s) => off[s] + clock \in 0 .. clock
  /\ base["procs"] = None \/ base["procs"] >= 0
  /\ \A w \in Calls : pc[w] = "swap" /\ Original("io") => read[w] \in Offset .. Offset + clock

(* A rate of a section whose counter is what it was, or of the processes.  *)
LEMMA RateBounded ==
  ASSUME NEW lo \in Int, NEW cur \in Int, NEW c \in Nat, NEW low \in Int,
         lo = None \/ lo >= low, cur <= low + c
  PROVE  Difference(lo, cur) # None => Difference(lo, cur) >= 0 /\ Difference(lo, cur) <= c
BY DEF Difference, Larger

(* Every step of every Collect keeps the counters and the rates sane.      *)
LEMMA CountersStep ==
  ASSUME CountersInv, NoSpuriousSpike, [Next]_vars
  PROVE  CountersInv' /\ NoSpuriousSpike'
<1>1. CASE Advance
  <2>1. clock' = clock + 1 /\ rate' = NoRate /\ UNCHANGED <<off, base, read, pc>>
    BY <1>1 DEF Advance
  <2> QED BY <2>1 DEF CountersInv, NoSpuriousSpike, NoRate, Original
<1>2. ASSUME NEW s \in Restarting, Restart(s) PROVE CountersInv' /\ NoSpuriousSpike'
  <2>1. /\ off[s] = Offset /\ clock > 0 /\ off' = [off EXCEPT ![s] = -clock] /\ s \in Sections
        /\ rate' = NoRate /\ UNCHANGED <<clock, base, read, pc>>
    BY <1>2 DEF Restart
  <2>2. ~Original(s)' /\ off'[s] + clock' = 0
    BY <2>1 DEF CountersInv, Original
  <2>3. \A u \in Sections \ {s} : off'[u] = off[u]
    BY <2>1 DEF CountersInv
  <2>4. NoSpuriousSpike'
    BY <2>1 DEF NoSpuriousSpike, NoRate
  <2>5. CountersInv'
    BY <2>1, <2>2, <2>3 DEF CountersInv, Original
  <2> QED BY <2>4, <2>5
<1>3. ASSUME NEW w \in Calls, Begin(w) \/ SectionFails(w) PROVE CountersInv' /\ NoSpuriousSpike'
  <2>1. /\ rate' = NoRate /\ UNCHANGED <<clock, off, base, read>>
        /\ Step(w, "idle", "procs") \/ Step(w, "procs", "io") \/ Step(w, "io", "idle")
    BY <1>3 DEF Begin, SectionFails
  <2>2. /\ pc' \in [Calls -> {"idle", "procs", "io", "swap"}]
        /\ \A v \in Calls : pc'[v] = "swap" => pc[v] = "swap"
    BY <2>1 DEF Step, CountersInv
  <2> QED BY <2>1, <2>2 DEF CountersInv, NoSpuriousSpike, NoRate, Original
<1>4. ASSUME NEW w \in Calls, ReadIO(w) PROVE CountersInv' /\ NoSpuriousSpike'
  <2>1. /\ rate' = NoRate /\ UNCHANGED <<clock, off, base>> /\ Step(w, "io", "swap")
        /\ read' = [read EXCEPT ![w] = off["io"] + clock]
    BY <1>4 DEF ReadIO, Counter
  <2>2. /\ pc' \in [Calls -> {"idle", "procs", "io", "swap"}]
        /\ \A v \in Calls \ {w} : pc'[v] = pc[v] /\ read'[v] = read[v]
        /\ read' \in [Calls -> Int]
    BY <2>1 DEF Step, CountersInv
  <2>3. Original("io") => read'[w] \in Offset .. Offset + clock
    BY <2>1 DEF CountersInv, Original
  <2> QED BY <2>1, <2>2, <2>3 DEF CountersInv, NoSpuriousSpike, NoRate, Original
<1>5. ASSUME NEW w \in Calls, CollectProcs(w) PROVE CountersInv' /\ NoSpuriousSpike'
  <2> DEFINE cur == off["procs"] + clock
  <2>1. /\ Step(w, "procs", "io") /\ UNCHANGED <<clock, off, read>>
        /\ base' = [base EXCEPT !["procs"] = cur]
        /\ \/ rate' = NoRate
           \/ rate' = [of |-> "procs", delta |-> Difference(base["procs"], cur), since |-> now[w] - elapsed[w]]
    BY <1>5 DEF CollectProcs, Store, Counter
  <2>2. /\ pc' \in [Calls -> {"idle", "procs", "io", "swap"}]
        /\ \A v \in Calls : pc'[v] = "swap" => pc[v] = "swap"
    BY <2>1 DEF Step, CountersInv
  <2>3. cur \in Int /\ cur >= 0 /\ (Original("procs") => cur = Offset + clock) /\ (~Original("procs") => cur <= clock)
    BY DEF CountersInv, Original
  <2>4. Difference(base["procs"], cur) # None
          => Difference(base["procs"], cur) >= 0 /\ Difference(base["procs"], cur) <= clock
    <3>1. CASE Original("procs")
      BY <2>3, <3>1, RateBounded DEF CountersInv
    <3>2. CASE ~Original("procs")
      BY <2>3, <3>2, RateBounded DEF CountersInv
    <3> QED BY <3>1, <3>2
  <2>5. NoSpuriousSpike'
    BY <2>1, <2>4 DEF NoSpuriousSpike, NoRate
  <2>6. CountersInv'
    BY <2>1, <2>2, <2>3 DEF CountersInv, Original
  <2> QED BY <2>5, <2>6
<1>6. ASSUME NEW w \in Calls, SwapIO(w) PROVE CountersInv' /\ NoSpuriousSpike'
  <2>1. /\ pc[w] = "swap" /\ Step(w, "swap", "idle") /\ UNCHANGED <<clock, off>>
        /\ base' = [base EXCEPT !["io"] = read[w]] /\ read' = [read EXCEPT ![w] = None]
        /\ \/ rate' = NoRate
           \/ rate' = [of |-> "io", delta |-> Difference(base["io"], read[w]), since |-> now[w] - elapsed[w]]
    BY <1>6 DEF SwapIO, Store, Step
  <2>2. /\ pc' \in [Calls -> {"idle", "procs", "io", "swap"}]
        /\ \A v \in Calls : pc'[v] = "swap" => pc[v] = "swap" /\ read'[v] = read[v]
        /\ read' \in [Calls -> Int]
    BY <2>1 DEF Step, CountersInv
  <2>3. Original("io") => read[w] \in Offset .. Offset + clock
    BY <2>1 DEF CountersInv
  <2>4. ASSUME Difference(base["io"], read[w]) # None
        PROVE  /\ Difference(base["io"], read[w]) >= 0
               /\ Original("io") => Difference(base["io"], read[w]) <= clock
    <3>1. base["io"] \in Int /\ read[w] \in Int
      BY DEF CountersInv
    <3>2. Difference(base["io"], read[w]) >= 0
      BY <2>4, <3>1 DEF Difference, Larger
    <3>3. CASE Original("io")
      <4>1. base["io"] = None \/ base["io"] >= Offset
        BY <3>3 DEF CountersInv
      <4>2. read[w] <= Offset + clock /\ clock \in Nat
        BY <2>3, <3>3 DEF CountersInv
      <4>3. Difference(base["io"], read[w]) <= clock
        BY <2>4, <3>1, <4>1, <4>2 DEF Difference, Larger
      <4> QED BY <3>2, <4>3
    <3> QED BY <3>2, <3>3
  <2>5. NoSpuriousSpike'
    BY <2>1, <2>4 DEF NoSpuriousSpike, NoRate, Original
  <2>6. CountersInv'
    BY <2>1, <2>2, <2>3 DEF CountersInv, Original
  <2> QED BY <2>5, <2>6
<1>7. CASE UNCHANGED vars
  BY <1>7 DEF CountersInv, NoSpuriousSpike, Original
<1> QED BY <1>1, <1>2, <1>3, <1>4, <1>5, <1>6, <1>7 DEF Next, Collect

(* No rate is negative or counts what was there before the collector, in   *)
(* any order of reads and stores and with any failed section.              *)
THEOREM RatesAreSane == Spec => []NoSpuriousSpike
<1>1. Init => CountersInv /\ NoSpuriousSpike
  BY DEF Init, CountersInv, NoSpuriousSpike, NoRate, Original
<1>2. CountersInv /\ NoSpuriousSpike /\ [Next]_vars => (CountersInv /\ NoSpuriousSpike)'
  BY CountersStep
<1> QED BY <1>1, <1>2, PTL DEF Spec

-----------------------------------------------------------------------------
(* The types of this half.  A window that is measured began at a moment,   *)
(* and a counter that restarted counts from zero, hence no rate and no     *)
(* sample below zero.                                                      *)
RatesTyped ==
  /\ TypeOK
  /\ \A s \in Sections : off[s] + clock >= 0
  /\ \A w \in Calls : elapsed[w] <= now[w]

(* A stored sample, and the rate it gives.                                 *)
LEMMA StoreTyped ==
  ASSUME RatesTyped, NEW w \in Calls, NEW s \in Sections, NEW cur \in Nat \cup {None},
         Store(w, s, cur)
  PROVE  /\ base' \in [Sections -> Nat \cup {None}]
         /\ rate' \in [of : Sections \cup {"none"}, delta : Nat \cup {None}, since : Nat \cup {None}]
<1>1. base' \in [Sections -> Nat \cup {None}]
  BY DEF Store, RatesTyped, TypeOK
<1>2. Difference(base[s], cur) \in Nat \cup {None}
  <2>1. base[s] \in Int /\ cur \in Int
    BY DEF RatesTyped, TypeOK
  <2> QED BY <2>1 DEF Difference, Larger
<1>3. now[w] - elapsed[w] \in Nat
  BY DEF RatesTyped, TypeOK
<1> QED BY <1>1, <1>2, <1>3 DEF Store, NoRate

(* Every step keeps the types.                                             *)
LEMMA RatesTypedStep ==
  ASSUME RatesTyped, Next
  PROVE  RatesTyped'
<1> USE DEF RatesTyped
<1>0. NoRate \in [of : Sections \cup {"none"}, delta : Nat \cup {None}, since : Nat \cup {None}]
  BY DEF NoRate
<1>1. CASE Advance
  BY <1>0, <1>1 DEF Advance, TypeOK
<1>2. ASSUME NEW s \in Restarting, Restart(s) PROVE RatesTyped'
  <2>1. s \in Sections /\ off' = [off EXCEPT ![s] = -clock]
    BY <1>2 DEF Restart
  <2>2. off' \in [Sections -> Int] /\ \A t \in Sections : off'[t] + clock >= 0
    BY <2>1 DEF TypeOK
  <2> QED BY <1>0, <1>2, <2>2 DEF Restart, TypeOK
<1>3. ASSUME NEW w \in Calls, NEW a, NEW b \in {"idle", "procs", "io", "swap"}, Step(w, a, b)
      PROVE  pc' \in [Calls -> {"idle", "procs", "io", "swap"}]
  BY <1>3 DEF Step, TypeOK
<1>4. ASSUME NEW w \in Calls, Begin(w) PROVE RatesTyped'
  <2>1. Elapsed(clock) \in 0 .. MaxElapsed /\ Elapsed(clock) <= clock
    BY DEF Elapsed, TypeOK
  <2>2. /\ now' = [now EXCEPT ![w] = clock] /\ elapsed' = [elapsed EXCEPT ![w] = Elapsed(clock)]
        /\ pc' \in [Calls -> {"idle", "procs", "io", "swap"}]
    BY <1>3, <1>4 DEF Begin
  <2>3. /\ now' \in [Calls -> Nat] /\ elapsed' \in [Calls -> 0 .. MaxElapsed]
        /\ \A v \in Calls : elapsed'[v] <= now'[v]
    BY <2>1, <2>2 DEF TypeOK
  <2> QED BY <1>0, <1>4, <2>2, <2>3 DEF Begin, TypeOK
<1>5. \A s \in Sections : Counter(s) \in Nat
  BY DEF Counter, TypeOK
<1>6. ASSUME NEW w \in Calls, CollectProcs(w) PROVE RatesTyped'
  BY <1>3, <1>5, <1>6, StoreTyped DEF CollectProcs, TypeOK
<1>7. ASSUME NEW w \in Calls, ReadIO(w) PROVE RatesTyped'
  <2>1. read' \in [Calls -> Nat \cup {None}]
    BY <1>5, <1>7 DEF ReadIO, TypeOK
  <2> QED BY <1>0, <1>3, <1>7, <2>1 DEF ReadIO, TypeOK
<1>8. ASSUME NEW w \in Calls, SwapIO(w) PROVE RatesTyped'
  <2>1. read[w] \in Nat \cup {None} /\ read' \in [Calls -> Nat \cup {None}]
    BY <1>8 DEF SwapIO, TypeOK
  <2> QED BY <1>3, <1>8, <2>1, StoreTyped DEF SwapIO, TypeOK
<1>9. ASSUME NEW w \in Calls, SectionFails(w) PROVE RatesTyped'
  BY <1>0, <1>3, <1>9 DEF SectionFails, TypeOK
<1> QED BY <1>1, <1>2, <1>4, <1>6, <1>7, <1>8, <1>9 DEF Next, Collect

-----------------------------------------------------------------------------
(* The caches.                                                             *)

(* The types of this half hold at first, and every step keeps them.        *)
LEMMA CachesTypedInit == C!Init => C!TypeOK
<1> SUFFICES ASSUME C!Init PROVE C!TypeOK
  OBVIOUS
<1>1. clock \in Nat /\ lastSlow = -1 /\ lastConn = -1 /\ lastGPU = -1
  BY DEF C!Init, C!Never
<1>2. now \in [Calls -> Nat] /\ pc \in [Calls -> {"idle", "slow", "host", "gpu", "conns"}]
  BY DEF C!Init
<1>3. gpuFailed \in BOOLEAN /\ idOK \in BOOLEAN
  BY DEF C!Init
<1> QED BY <1>1, <1>2, <1>3 DEF C!TypeOK, C!Never

(* Every section of a Collect, and the clock, keep the types.              *)
LEMMA CachesTypedStep ==
  ASSUME C!TypeOK, C!Next
  PROVE  C!TypeOK'
<1> USE DEF C!TypeOK, C!Never
<1>1. CASE C!Advance
  BY <1>1 DEF C!Advance, C!caches
<1>2. ASSUME NEW w \in Calls, C!Collect(w) PROVE C!TypeOK'
  <2>1. CASE C!Begin(w)
    BY <2>1 DEF C!Begin, C!Step, C!caches
  <2>2. CASE C!CollectSlow(w)
    BY <2>2 DEF C!CollectSlow, C!Step
  <2>3. CASE C!CollectHost(w)
    BY <2>3 DEF C!CollectHost, C!Step
  <2>4. CASE C!CollectGPUs(w)
    BY <2>4 DEF C!CollectGPUs, C!Step
  <2>5. CASE C!CollectConns(w)
    BY <2>5 DEF C!CollectConns, C!Step
  <2> QED BY <1>2, <2>1, <2>2, <2>3, <2>4, <2>5 DEF C!Collect
<1> QED BY <1>1, <1>2 DEF C!Next

(* An expensive cache is filled at most once per interval, whichever       *)
(* Collect fills it and however old its `now`; a probe that failed is not  *)
(* repeated within its back-off.                                           *)
THEOREM CachesArePaced == C!Spec => CachesPaced
<1> DEFINE Slow == lastSlow' # lastSlow => lastSlow = C!Never \/ lastSlow' - lastSlow >= SlowEvery
           Conn == lastConn' # lastConn => lastConn = C!Never \/ lastConn' - lastConn >= SlowEvery
           Gpu == lastGPU' # lastGPU =>
                    \/ lastGPU = C!Never
                    \/ lastGPU' - lastGPU >= IF gpuFailed THEN GpuBackOff ELSE GpuEvery
<1>1. C!Init => C!TypeOK
  BY CachesTypedInit
<1>2. C!TypeOK /\ [C!Next]_C!vars => C!TypeOK'
  <2>1. UNCHANGED C!vars /\ C!TypeOK => C!TypeOK'
    BY DEF C!vars, C!caches, C!TypeOK
  <2> QED BY <2>1, CachesTypedStep
<1>3. C!TypeOK /\ [C!Next]_C!vars => [Slow /\ Conn]_C!vars /\ [Gpu]_C!vars
  <2> SUFFICES ASSUME C!TypeOK, C!Next PROVE Slow /\ Conn /\ Gpu
    OBVIOUS
  <2>1. CASE C!Advance
    BY <2>1 DEF C!Advance, C!caches
  <2>2. ASSUME NEW w \in Calls, C!Collect(w) PROVE Slow /\ Conn /\ Gpu
    <3>1. CASE C!Begin(w) \/ C!CollectHost(w)
      BY <3>1 DEF C!Begin, C!CollectHost, C!caches
    <3>2. CASE C!CollectSlow(w)
      BY <3>2 DEF C!CollectSlow, C!Due
    <3>3. CASE C!CollectGPUs(w)
      <4>1. now[w] \in Nat /\ lastGPU \in Int /\ GpuBackOff \in Int
        BY IntervalsAssumption DEF C!CachesAssumption, C!TypeOK, C!Never
      <4> QED BY <3>3, <4>1 DEF C!CollectGPUs, C!Due
    <3>4. CASE C!CollectConns(w)
      BY <3>4 DEF C!CollectConns, C!Due
    <3> QED BY <2>2, <3>1, <3>2, <3>3, <3>4 DEF C!Collect
  <2> QED BY <2>1, <2>2 DEF C!Next
<1> QED BY <1>1, <1>2, <1>3, PTL
        DEF C!Spec, CachesPaced, C!CachesPaced, C!CadenceKept, C!GpuBackOffKept

(* Whichever half a behaviour exercises, its state is well typed.          *)
THEOREM CollectorTypesCorrect == MCSpec => []Types
<1> DEFINE TInv == IF half = "rates" THEN RatesTyped ELSE C!TypeOK
<1>1. MCInit => TInv
  <2>1. Init => RatesTyped
    BY DEF Init, RatesTyped, TypeOK, NoRate
  <2> QED BY <2>1, CachesTypedInit DEF MCInit
<1>2. TInv /\ [MCNext]_allVars => TInv'
  <2> SUFFICES ASSUME TInv, [MCNext]_allVars PROVE TInv'
    OBVIOUS
  <2>1. CASE half = "rates" /\ Next /\ half' = half
    BY <2>1, RatesTypedStep
  <2>2. CASE half = "caches" /\ C!Next /\ half' = half
    BY <2>2, CachesTypedStep
  <2>3. CASE UNCHANGED allVars
    BY <2>3 DEF allVars, RatesTyped, TypeOK, C!TypeOK
  <2> QED BY <2>1, <2>2, <2>3 DEF MCNext
<1>3. TInv => Types
  BY DEF RatesTyped, Types
<1> QED BY <1>1, <1>2, <1>3, PTL DEF MCSpec

(* A behaviour that exercises one half of the collector is one of that     *)
(* half, and keeps the other's stored state as it was made.                *)
LEMMA HalfRuns ==
  MCSpec => \/ Spec /\ [][UNCHANGED <<lastSlow, lastConn, lastGPU>>]_C!vars
            \/ C!Spec /\ [](WindowsDisjoint /\ NoSpuriousSpike)
<1> DEFINE InRates == half = "rates"
           AtRest == half = "caches" /\ elapsed = [w \in Calls |-> 0] /\ rate = NoRate
<1>1. MCInit => (InRates /\ Init) \/ (AtRest /\ C!Init)
  BY DEF MCInit, Init
<1>2. InRates /\ [MCNext]_allVars => InRates'
  BY DEF MCNext, allVars
<1>3. InRates /\ [MCNext]_allVars => [Next]_vars /\ [UNCHANGED <<lastSlow, lastConn, lastGPU>>]_C!vars
  BY DEF MCNext, allVars
<1>4. AtRest /\ [MCNext]_allVars => AtRest'
  BY DEF MCNext, allVars
<1>5. AtRest /\ [MCNext]_allVars => [C!Next]_C!vars
  BY DEF MCNext, allVars, C!vars, C!caches
<1>6. AtRest => WindowsDisjoint /\ NoSpuriousSpike
  BY DEF WindowsDisjoint, NoSpuriousSpike, NoRate
<1> HIDE DEF InRates, AtRest, vars
<1> QED BY <1>1, <1>2, <1>3, <1>4, <1>5, <1>6, PTL DEF MCSpec, Spec, C!Spec

(* All that the model checker is asked of one instance of the collector,   *)
(* of every instance.                                                      *)
THEOREM CollectorCorrect ==
  MCSpec => [](Types /\ WindowsDisjoint /\ NoSpuriousSpike) /\ CachesPaced
<1>1. [UNCHANGED <<lastSlow, lastConn, lastGPU>>]_C!vars
        => /\ [/\ lastSlow' # lastSlow => lastSlow = C!Never \/ lastSlow' - lastSlow >= SlowEvery
               /\ lastConn' # lastConn => lastConn = C!Never \/ lastConn' - lastConn >= SlowEvery]_C!vars
           /\ [lastGPU' # lastGPU =>
                 \/ lastGPU = C!Never
                 \/ lastGPU' - lastGPU >= IF gpuFailed THEN GpuBackOff ELSE GpuEvery]_C!vars
  OBVIOUS
<1>2. [][UNCHANGED <<lastSlow, lastConn, lastGPU>>]_C!vars => CachesPaced
  BY <1>1, PTL DEF CachesPaced, C!CachesPaced, C!CadenceKept, C!GpuBackOffKept
<1> QED BY <1>2, HalfRuns, CollectorTypesCorrect, WindowsAreDisjoint, RatesAreSane, CachesArePaced, PTL
=============================================================================
