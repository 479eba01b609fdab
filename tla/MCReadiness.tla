---------------------------- MODULE MCReadiness -----------------------------
(* TLC's instance of Readiness.  Two goroutines, so that two collections   *)
(* could overlap; three starts, so that a snapshot of a daemon that itself *)
(* began from one is loaded.                                               *)
EXTENDS Readiness
=============================================================================
