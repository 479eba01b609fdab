---------------------------- MODULE MCPolicyFile ----------------------------
(* TLC's instance of PolicyFile: two cad processes race each other, an     *)
(* editor and the daemon for three writes of one file.                     *)
EXTENDS PolicyFile
=============================================================================
