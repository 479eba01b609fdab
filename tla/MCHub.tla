------------------------------- MODULE MCHub --------------------------------
(* TLC's instance of Hub: one client that asks for two of the three topics *)
(* (as the bar does), with a ring of two events and a channel of one, so   *)
(* that both overflow within the revisions MaxRev allows.                  *)
EXTENDS HubInv

MCTopic == {"workers", "quota", "usage"}
MCWant == [c \in Client |-> {"workers", "usage"}]
(* "busy" and "busier" differ only in what the change key leaves out.      *)
MCPayload == {"empty", "busy", "busier"}
MCKeyOf == [d \in MCPayload |-> IF d = "empty" THEN "none" ELSE "some"]
=============================================================================
