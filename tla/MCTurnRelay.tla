---------------------------- MODULE MCTurnRelay ----------------------------
(* TurnRelay with the constants of the runs.                               *)
EXTENDS TurnRelay

SomeServers ==
  {<<[credentials |-> FALSE, urls |-> {"stun"}, resolves |-> TRUE]>>,
   <<[credentials |-> TRUE, urls |-> {"turn"}, resolves |-> FALSE],
     [credentials |-> TRUE, urls |-> {"turn"}, resolves |-> TRUE]>>,
   <<[credentials |-> FALSE, urls |-> {"turn"}, resolves |-> TRUE],
     [credentials |-> TRUE, urls |-> {"stun", "turn"}, resolves |-> TRUE]>>}
=============================================================================
