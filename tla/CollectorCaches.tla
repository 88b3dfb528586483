-------------------------- MODULE CollectorCaches ---------------------------
(***************************************************************************)
(* The cached half of collector.Collector.Collect (internal/collector/     *)
(* collector.go, gpu.go), run by several goroutines at once: the           *)
(* application starts one Collect per tick and waits for none.  Each cache *)
(* has a mutex of its own, held while it is checked and filled, so a step  *)
(* here is one such critical section; the `now` it compares with was read  *)
(* when the Collect began and may be older than the cache.  Time is a      *)
(* clock in seconds.                                                       *)
(***************************************************************************)
EXTENDS Integers

CONSTANTS
  Calls,        \* concurrent Collect calls
  SlowEvery,    \* slowInterval and connInterval (the same expression)
  GpuEvery,     \* gpuInterval
  GpuBackOff,   \* pause after a failed GPU probe (30s)
  MaxClock      \* bound on time

(* What collector.New guarantees of the intervals.                         *)
CachesAssumption ==
  /\ SlowEvery \in Nat \ {0} /\ GpuEvery \in Nat \ {0}
  /\ GpuBackOff \in Nat \ {0} /\ MaxClock \in Nat

Never == -1             \* the zero time.Time

VARIABLES
  clock,      \* wall clock
  pc, now,    \* of each Collect: its next step, and when it began
  lastSlow, lastConn, lastGPU,   \* `now` of the Collect that filled each cache
  gpuFailed,  \* the last GPU probe failed
  idOK        \* the host identity was fetched

caches == <<lastSlow, lastConn, lastGPU, gpuFailed, idOK>>
vars == <<clock, pc, now, caches>>

Init ==
  /\ clock = 0
  /\ pc = [w \in Calls |-> "idle"]
  /\ now = [w \in Calls |-> 0]
  /\ lastSlow = Never /\ lastConn = Never /\ lastGPU = Never
  /\ gpuFailed = FALSE /\ idOK = FALSE

Step(w, from, to) == pc[w] = from /\ pc' = [pc EXCEPT ![w] = to]

Advance ==
  /\ clock < MaxClock
  /\ clock' = clock + 1
  /\ UNCHANGED <<pc, now, caches>>

Begin(w) ==
  /\ Step(w, "idle", "slow")
  /\ now' = [now EXCEPT ![w] = clock]
  /\ UNCHANGED <<clock, caches>>

(* Mutant of Due: a cache filled in the Collect's future counts as stale.  *)
Due_EitherWay(last, t, interval) == last = Never \/ t - last >= interval \/ t < last

Due(last, t, interval) == last = Never \/ t - last >= interval

(* Frequency, temperatures, fans, battery and users.                       *)
CollectSlow(w) ==
  /\ Step(w, "slow", "host")
  /\ lastSlow' = IF Due(lastSlow, now[w], SlowEvery) THEN now[w] ELSE lastSlow
  /\ UNCHANGED <<clock, now, lastConn, lastGPU, gpuFailed, idOK>>

(* The identity is fetched, and the fetch may fail, until one succeeds.    *)
CollectHost(w) ==
  /\ Step(w, "host", "gpu")
  /\ idOK' \in {idOK, TRUE}
  /\ UNCHANGED <<clock, now, lastSlow, lastConn, lastGPU, gpuFailed>>

(* Mutant of CollectGPUs: the back-off is not looked at.                   *)
CollectGPUs_NoBackOff(w) ==
  LET due == Due(lastGPU, now[w], GpuEvery)
  IN
  /\ Step(w, "gpu", "conns")
  /\ \/ ~due /\ UNCHANGED <<lastGPU, gpuFailed>>
     \/ due /\ lastGPU' = now[w] /\ gpuFailed' \in BOOLEAN
  /\ UNCHANGED <<clock, now, lastSlow, lastConn, idOK>>

(* The cached readings while the back-off of a failed probe or the cadence *)
(* lasts; otherwise a probe, which may fail.                               *)
CollectGPUs(w) ==
  LET backedOff == gpuFailed /\ now[w] - lastGPU < GpuBackOff
      due == Due(lastGPU, now[w], GpuEvery)
  IN
  /\ Step(w, "gpu", "conns")
  /\ \/ backedOff /\ UNCHANGED <<lastGPU, gpuFailed>>
     \/ ~backedOff /\ ~due /\ gpuFailed' = FALSE /\ UNCHANGED lastGPU
     \/ ~backedOff /\ due /\ lastGPU' = now[w] /\ gpuFailed' \in BOOLEAN
  /\ UNCHANGED <<clock, now, lastSlow, lastConn, idOK>>

(* The connection table; the snapshot is then complete.                    *)
CollectConns(w) ==
  /\ Step(w, "conns", "idle")
  /\ lastConn' = IF Due(lastConn, now[w], SlowEvery) THEN now[w] ELSE lastConn
  /\ UNCHANGED <<clock, now, lastSlow, lastGPU, gpuFailed, idOK>>

Collect(w) ==
  \/ Begin(w) \/ CollectSlow(w) \/ CollectHost(w) \/ CollectGPUs(w) \/ CollectConns(w)

Next == Advance \/ \E w \in Calls : Collect(w)

Spec == Init /\ [][Next]_vars

-----------------------------------------------------------------------------
(* Properties. *)

(* The type invariant.                                                     *)
TypeOK ==
  /\ clock \in Nat
  /\ pc \in [Calls -> {"idle", "slow", "host", "gpu", "conns"}]
  /\ now \in [Calls -> Nat]
  /\ lastSlow \in Nat \cup {Never} /\ lastConn \in Nat \cup {Never}
  /\ lastGPU \in Nat \cup {Never}
  /\ gpuFailed \in BOOLEAN /\ idOK \in BOOLEAN

(* However Collects overlap, and though a late one still carries an old    *)
(* `now`, two fills of an expensive cache are at least an interval apart   *)
(* and a cache never goes back in time.                                    *)
CadenceKept ==
  [][/\ lastSlow' # lastSlow => lastSlow = Never \/ lastSlow' - lastSlow >= SlowEvery
     /\ lastConn' # lastConn => lastConn = Never \/ lastConn' - lastConn >= SlowEvery]_vars

(* After a probe that failed no probe runs for the whole back-off, and     *)
(* after one that succeeded none runs within the cadence.                  *)
GpuBackOffKept ==
  [][lastGPU' # lastGPU =>
       \/ lastGPU = Never
       \/ lastGPU' - lastGPU >= IF gpuFailed THEN GpuBackOff ELSE GpuEvery]_vars

(* No cache is filled ahead of its time.                                   *)
CachesPaced == CadenceKept /\ GpuBackOffKept
=============================================================================
