-------------------------- MODULE MCHeartbeatManager --------------------------
(* Small instances of HeartbeatManager for TLC: a tick stands for the      *)
(* shortest backoff's half, and the server may send no interval, one the   *)
(* loop has to ignore, or one it has to take, below the cap of the backoff *)
(* or above it.                                                            *)
EXTENDS HeartbeatManager

NegativeInterval == -1
MCServerIntervals == {NegativeInterval, 0, 3, 7}
=============================================================================
