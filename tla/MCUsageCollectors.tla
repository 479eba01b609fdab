-------------------------- MODULE MCUsageCollectors ---------------------------
(* TLC's instance of UsageCollectors: an agent of each service.            *)
EXTENDS UsageCollectors
=============================================================================
