------------------------------ MODULE MCQuota -------------------------------
(* TLC's instance of Quota: two handlers and the loop write the quotas of  *)
(* two reviewers.                                                          *)
EXTENDS Quota
=============================================================================
