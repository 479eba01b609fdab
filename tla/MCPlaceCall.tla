---------------------------- MODULE MCPlaceCall -----------------------------
(* TLC's instance of PlaceCall: one call, and a cad that may die as often  *)
(* as the call has requests.                                               *)
EXTENDS PlaceCall
=============================================================================
