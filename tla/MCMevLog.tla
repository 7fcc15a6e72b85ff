----------------------------- MODULE MCMevLog -----------------------------
(* Two banking threads and the log thread.                                 *)
EXTENDS MevLog
============================================================================
