--------------------------- MODULE MCWebSocketHook ---------------------------
(* An instance of WebSocketHook for TLC: as many sockets as there may be   *)
(* connections alive at once.                                              *)
EXTENDS WebSocketHook, TLC

CONSTANTS s1, s2, s3

MCSockets == {s1, s2, s3}
Symmetry  == Permutations(MCSockets)
=============================================================================
