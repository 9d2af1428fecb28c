------------------------------ MODULE Commands ------------------------------
(***************************************************************************)
(* The program as src/main.rs dispatches it, for the commands that talk to *)
(* servers in single requests: `check`, and `share`, `manage` and `get` of *)
(* a server share.  Beside them, what a peer builds once and does not keep *)
(* state about: the datagrams of the STUN probe and of the TURN client,    *)
(* and the address it advertises.  A behaviour is about one subject.       *)
(***************************************************************************)
EXTENDS Connectivity, ServerShare

Codec == INSTANCE StunCodec
Lan == INSTANCE LocalAddress

VARIABLES
  subject,  \* "check", "store", "datagram" or "address"
  sample,   \* the datagram's or the address's input
  made      \* what came of it

vars == <<checkVars, storeVars, subject, sample, made>>

NoSample == [is |-> "none"]

-----------------------------------------------------------------------------
(* Inputs.                                                                 *)

\* A message: any method and class, attributes of every length modulo four,
\* an address of either family and an error code among its attributes.
Txn == [i \in 1..12 |-> 16 * i + 3]
Value(n) == [i \in 1..n |-> 37 * i % 256]
AttrLists == {<<>>} \cup {<<<<32802, Value(n)>>>> : n \in 0..5}
               \cup {<<<<6, Value(n)>>, <<19, Value(k)>>>> : n, k \in 0..4}
Ips == {<<192, 168, 0, 255>>, <<33, 18, 164, 66>>, [i \in 1..16 |-> 15 * i]}
Addresses == [ip : Ips, port : {<<0, 0>>, <<33, 18>>, <<219, 210>>}]

Datagrams ==
  [is : {"message"}, method : DOMAIN Codec!MethodCode, class : DOMAIN Codec!ClassBits,
   attrs : AttrLists]
    \cup [is : {"address"}, addr : Addresses]
    \cup [is : {"error"}, code : {300, 401, 437, 438, 486, 508, 699}]

\* A machine: its interfaces in the order they are listed, the address its
\* default route leaves from, and the other side's address.
LanIps == {Lan!Loopback, <<10, 1, 2, 3>>, <<172, 31, 0, 9>>, <<172, 32, 0, 9>>,
           <<192, 168, 0, 5>>, <<192, 169, 0, 5>>, <<100, 64, 0, 1>>}
Machines == [is : {"machine"}, interfaces : LanIps \X LanIps, outbound : {<<>>, <<100, 64, 0, 1>>},
             sender : LanIps \cup {<<>>}]

-----------------------------------------------------------------------------
(* The specification.                                                      *)

CheckOff == world = NoWorld /\ target = "off" /\ todo = <<>> /\ results = <<>>
StoreOff ==
  /\ share = Gone /\ owner = [pc |-> "off", left |-> 0]
  /\ get = [g \in Getters |-> [pc |-> "off"]] /\ disk = EmptyDisk

Init ==
  /\ made = NoSample
  /\ \/ subject = "check" /\ CheckInit /\ StoreOff /\ sample = NoSample
     \/ subject = "store" /\ StoreInit /\ CheckOff /\ sample = NoSample
     \/ subject = "datagram" /\ sample \in Datagrams /\ CheckOff /\ StoreOff
     \/ subject = "address" /\ sample \in Machines /\ CheckOff /\ StoreOff

Check == subject = "check" /\ Probe /\ UNCHANGED <<storeVars, subject, sample, made>>
Store == subject = "store" /\ StoreNext /\ UNCHANGED <<checkVars, subject, sample, made>>

\* One datagram is built.
Build ==
  /\ subject = "datagram" /\ made = NoSample
  /\ made' = [is |-> "bytes", bytes |->
       CASE sample.is = "address" -> Codec!EncodeXorAddress(sample.addr, Txn)
         [] sample.is = "error"   -> Codec!EncodeErrorCode(sample.code)
         [] OTHER -> Codec!BuildWithIntegrity(sample.method, sample.class, Txn,
                                              Codec!EncodeAll(sample.attrs))]
  /\ UNCHANGED <<checkVars, storeVars, subject, sample>>

\* build_rtc_inner's host address, of a sender or of a recipient.
Advertise ==
  /\ subject = "address" /\ made = NoSample
  /\ made' = [is |-> "address", ip |->
       Lan!ReceiverBindIp(sample.sender, Lan!DiscoverLocalIp(sample.interfaces, sample.outbound))]
  /\ UNCHANGED <<checkVars, storeVars, subject, sample>>

Next == Check \/ Store \/ Build \/ Advertise
Spec == Init /\ [][Next]_vars

-----------------------------------------------------------------------------
(* Properties.                                                             *)

\* What is built is what the other side reads.  A message with integrity
\* decodes to its own type, transaction and attributes and to both trailers,
\* which verify although the length field that each was computed over is not
\* the one that is sent; cut short anywhere, its attributes are those whose
\* value is whole, and as a datagram it is refused.  An address of either
\* family survives the XOR with its transaction id, an error code its split.
MessageDecodes(msg, attrs) ==
  LET got == Codec!Decode(msg)
      body == Codec!EncodeAll(attrs)
      at == Codec!HeaderSize + Len(body)
      End(i) == Len(Codec!EncodeAll(SubSeq(attrs, 1, i - 1))) + 4 + Len(attrs[i][2])
  IN /\ got.method = Codec!MethodCode[sample.method] /\ got.class = sample.class
     /\ got.txn = Txn /\ SubSeq(got.attrs, 1, Len(attrs)) = attrs
     /\ [i \in 1..Len(got.attrs) |-> got.attrs[i][1]]
          = [i \in 1..Len(attrs) |-> attrs[i][1]]
              \o <<Codec!MessageIntegrity, Codec!Fingerprint>>
     /\ Codec!Verifies(msg, Codec!MessageIntegrity, at, 20)
     /\ Codec!Verifies(msg, Codec!Fingerprint, at + 24, 4)
     /\ \A n \in 0..(Len(msg) - 1) : Codec!Decode(SubSeq(msg, 1, n)) = Codec!Malformed
     /\ \A n \in 0..Len(body) :
          Codec!DecodeAttrs(SubSeq(body, 1, n))
            = SubSeq(attrs, 1, Cardinality({i \in 1..Len(attrs) : End(i) <= n}))

DatagramsDecode ==
  subject = "datagram" /\ made # NoSample =>
    CASE sample.is = "error"   -> Codec!DecodeErrorCode(made.bytes) = sample.code
      [] sample.is = "message" -> MessageDecodes(made.bytes, sample.attrs)
      [] sample.is = "address" ->
           /\ Codec!DecodeXorAddress(made.bytes, Txn) = sample.addr
           /\ \A n \in 0..(Len(made.bytes) - 1) :
                Codec!DecodeXorAddress(SubSeq(made.bytes, 1, n), Txn) = Codec!NoAddress

\* On a machine with a LAN interface, whatever other interfaces (Tailscale,
\* loopback, public) come first and wherever its default route goes, a peer
\* advertises that interface's address, and a recipient never the sender's,
\* unless the two are one machine.
Rfc1918 == {<<10, 1, 2, 3>>, <<172, 31, 0, 9>>, <<192, 168, 0, 5>>}
LanAddressAdvertised ==
  subject = "address" /\ made # NoSample =>
    LET lan == ToSet(sample.interfaces) \cap Rfc1918 IN
    IF sample.sender = Lan!Loopback THEN made.ip = Lan!Loopback
    ELSE IF lan # {} THEN made.ip \in lan
    ELSE made.ip = IF sample.outbound = <<>> THEN Lan!Loopback ELSE sample.outbound
=============================================================================
