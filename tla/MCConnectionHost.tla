-------------------------- MODULE MCConnectionHost --------------------------
(* ConnectionHost for TLC: two retries over a two-step backoff.            *)
EXTENDS ConnectionHost
MCBackoff == <<1, 2>>
=============================================================================
