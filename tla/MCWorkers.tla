----------------------------- MODULE MCWorkers ------------------------------
(* TLC's instance of Workers: two providers, and a policy that allows one, *)
(* both, none, or lists one of them twice.                                 *)
EXTENDS Workers

MCPolicies == {<< >>, <<"local">>, <<"local", "e2b">>, <<"e2b", "local", "e2b">>}
=============================================================================
