------------------------ MODULE MCResumableTransfer ------------------------
(* The transfers for TLC: with a relay that may lag, a loss, a death and   *)
(* ticks, in pairs; with one that keeps up, many losses.                   *)
EXTENDS ResumableTransfer

Scene(n, pulses, prompt, broken, dead, early) ==
  [total |-> n, ticks |-> pulses, settle |-> prompt,
   losses |-> broken, deaths |-> dead, vain |-> early]

AnyOrSettled ==
  {Scene(3, TRUE, FALSE, 1, 0, 0), Scene(3, TRUE, FALSE, 0, 1, 0),
   Scene(2, TRUE, FALSE, 1, 1, 0), Scene(4, FALSE, FALSE, 1, 1, 0),
   Scene(6, FALSE, TRUE, 3, 0, 2)}
=============================================================================
