--------------------------- MODULE MCAsyncLogger ---------------------------
(* AsyncLogger for TLC: the constants get their values in the .cfg files. *)
EXTENDS AsyncLogger
=============================================================================
