----------------------------- MODULE MCRetryFlow -----------------------------
(* RetryFlow for TLC, with the three-step backoff of retry.rs in seconds.  *)
EXTENDS RetryFlow
MCBackoff == <<1, 2, 4>>
=============================================================================
