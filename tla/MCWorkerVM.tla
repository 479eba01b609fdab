------------------------------ MODULE MCWorkerVM ------------------------------
(* TLC's instance of WorkerVM: two tasks, so that one replaces another.    *)
EXTENDS WorkerVM
=============================================================================
