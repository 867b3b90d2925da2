--------------------------- MODULE MCClientSession ----------------------------
(* A small instance of ClientSession for TLC.                              *)
EXTENDS ClientSession

AllUses == Callbacks \X Calls
=============================================================================
