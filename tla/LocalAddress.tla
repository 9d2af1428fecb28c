---------------------------- MODULE LocalAddress ----------------------------
(***************************************************************************)
(* The address a peer advertises as its host candidate                     *)
(* (src/src/webrtc/net.rs).  An IPv4 address is its four octets, a host    *)
(* name is <<>>; ifconfig's output is the sequence of its inet addresses.  *)
(***************************************************************************)
EXTENDS Integers, Sequences, SequencesExt

Loopback == <<127, 0, 0, 1>>

IsPrivateLanUnmasked(o) ==
  o[1] = 10 \/ (o[1] = 172 /\ o[2] >= 16) \/ (o[1] = 192 /\ o[2] = 168)
\* o[1] & 0xF0 == 16 keeps the upper four bits of the second octet.
IsPrivateLan(o) ==
  o[1] = 10 \/ (o[1] = 172 /\ o[2] \div 16 = 1) \/ (o[1] = 192 /\ o[2] = 168)

\* The first private interface; else the address that routes outside, which
\* is <<>> when there is no route.
DiscoverLocalIp(interfaces, outbound) ==
  LET lan == SelectSeq(interfaces, IsPrivateLan) IN
  IF lan # <<>> THEN Head(lan) ELSE IF outbound # <<>> THEN outbound ELSE Loopback

\* sender is the other machine's address: only a loopback one is our own too.
ReceiverBindIp(sender, own) ==
  IF sender # <<>> /\ sender[1] = 127 THEN sender ELSE own

\* build_rtc_inner's host candidates: the address, and loopback beside it.
HostCandidates(ip) == {ip, Loopback}
=============================================================================
