---------------------------- MODULE MCCollector -----------------------------
(***************************************************************************)
(* The two halves of the collector for TLC.  They share only the clock and *)
(* the moment a Collect began, so a behaviour exercises one half: `half`   *)
(* is chosen in the initial state.                                         *)
(***************************************************************************)
EXTENDS CollectorRates, TLC

CONSTANTS w1, w2, SlowEvery, GpuEvery, GpuBackOff
VARIABLES half, lastSlow, lastConn, lastGPU, gpuFailed, idOK

C == INSTANCE CollectorCaches

MCCalls == {w1, w2}
Symm == Permutations(MCCalls)
ASSUME IntervalsAssumption == C!CachesAssumption

allVars == <<vars, half, lastSlow, lastConn, lastGPU, gpuFailed, idOK>>

MCInit == Init /\ C!Init /\ half \in {"rates", "caches"}
MCNext ==
  \/ half = "rates" /\ Next /\ UNCHANGED <<half, lastSlow, lastConn, lastGPU, gpuFailed, idOK>>
  \/ half = "caches" /\ C!Next /\ UNCHANGED <<half, off, pollClock, base, elapsed, read, rate>>
MCSpec == MCInit /\ [][MCNext]_allVars

(* The type invariants and action properties of the half in play.          *)
Types == IF half = "rates" THEN TypeOK ELSE C!TypeOK
CachesPaced == C!CachesPaced
=============================================================================
