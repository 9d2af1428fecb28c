----------------------------- MODULE MCPeerLoop -----------------------------
(* PeerLoop with the constants of the runs.                                *)
EXTENDS PeerLoop

AllStyles == {"local", "online", "recipient"}
OnlineSender == {"online"}
=============================================================================
