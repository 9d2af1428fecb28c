---------------------------- MODULE MCRendezvous ----------------------------
(* Rendezvous for TLC.                                                     *)
EXTENDS Rendezvous

BothModes == {"online", "local"}
LocalMode == {"local"}
=============================================================================
