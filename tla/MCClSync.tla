------------------------------- MODULE MCClSync -------------------------------
(* TLC's instance of ClSync: two commands at once, a store of each kind.   *)
EXTENDS ClSync, TLC

Symmetric == Permutations(Proc)
=============================================================================
