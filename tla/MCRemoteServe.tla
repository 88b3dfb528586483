--------------------------- MODULE MCRemoteServe ----------------------------
(* RemoteServe for TLC. *)
EXTENDS RemoteServe
CONSTANTS c1, c2
MCClients == {c1, c2}
=============================================================================
