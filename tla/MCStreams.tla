----------------------------- MODULE MCStreams ------------------------------
(***************************************************************************)
(* The two streams a front end follows, for TLC: container logs and a      *)
(* remote server.  They share nothing, so a behaviour exercises one of     *)
(* them: `half` is chosen in the initial state, and in the other half no   *)
(* fair action is ever enabled.                                            *)
(***************************************************************************)
EXTENDS DockerLogs

CONSTANTS MaxWire, MaxSent
VARIABLES half, ctx, hook, conn, pc, wire, sent, hung

C == INSTANCE RemoteClient
ASSUME FramesAssumption == C!ClientAssumption

remoteVars == <<ctx, hook, conn, pc, wire, sent, hung>>

MCInit == Init /\ C!Init /\ half \in {"logs", "remote"}

(* The first container fills its channel, its pump's hand and a message;   *)
(* the later ones, of which only the mixing with the first is asked, write *)
(* two lines less.  What fairness owes is not restricted: a copier that    *)
(* must end may still do so.                                               *)
Writes(s) == copier[s] = "read" /\ copier'[s] = "write"
Talks == \A s \in Streams \ {1} : Writes(s) => line[s] < MaxLine - 2

MCNext ==
  \/ half = "logs" /\ Next /\ Talks /\ UNCHANGED <<half, remoteVars>>
  \/ half = "remote" /\ C!Next /\ UNCHANGED <<half, vars>>
MCSpec == MCInit /\ [][MCNext]_<<vars, half, remoteVars>> /\ Fairness /\ C!Fairness

(* The type invariants and the client's properties.                        *)
Types == TypeOK /\ C!TypeOK
DialLeavesNothing == C!DialLeavesNothing
DialEnds == C!DialEnds
=============================================================================
