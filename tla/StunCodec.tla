----------------------------- MODULE StunCodec -----------------------------
(***************************************************************************)
(* The STUN/TURN message format of src/crates/turn: the message type, the  *)
(* TLV attributes, the XOR-ed addresses, the error code and the trailing   *)
(* MESSAGE-INTEGRITY and FINGERPRINT.  A datagram is a sequence of bytes.  *)
(* HMAC-SHA1 and CRC32 are external: any function of the bytes they cover  *)
(* stands for them, here a sum.                                            *)
(***************************************************************************)
EXTENDS Integers, Sequences, SequencesExt, FiniteSets, TLC, Bitwise

MethodCode == [Binding |-> 1, Allocate |-> 3, Refresh |-> 4, Send |-> 6,
               Data |-> 7, CreatePermission |-> 8]
ClassBits == [Request |-> <<0, 0>>, Indication |-> <<1, 0>>,
              Success |-> <<0, 1>>, Error |-> <<1, 1>>]

MessageIntegrity == 8
Fingerprint == 32808
MagicCookie == <<33, 18, 164, 66>>
HeaderSize == 20

Bytes == 0..255
Be16(n) == <<(n \div 256) % 256, n % 256>>
FromBe16(b, i) == b[i] * 256 + b[i + 1]

-----------------------------------------------------------------------------
(* The message type: the class bits sit between those of the method.       *)

EncodeMsgType(method, class) ==
  LET m == MethodCode[method] IN
  (m \div 128) * 512 + ClassBits[class][2] * 256
    + ((m \div 16) % 8) * 32 + ClassBits[class][1] * 16 + (m % 16)

DecodeMsgType(typ) ==
  [method |-> (typ % 16) + ((typ \div 32) % 8) * 16 + ((typ \div 512) % 32) * 128,
   class  |-> CHOOSE c \in DOMAIN ClassBits :
                ClassBits[c] = <<(typ \div 16) % 2, (typ \div 256) % 2>>]

-----------------------------------------------------------------------------
(* Attributes: type, length, value, zeros up to a multiple of four.        *)

PaddedLen(n) == ((n + 3) \div 4) * 4

EncodeAttr(typ, value) ==
  Be16(typ) \o Be16(Len(value)) \o value
    \o [i \in 1..(PaddedLen(Len(value)) - Len(value)) |-> 0]

\* The scan stops at the first attribute whose value is not all there.
DecodeAttrs(data) ==
  LET from[pos \in 1..(Len(data) + 8)] ==
        IF pos + 3 > Len(data) THEN <<>>
        ELSE LET len == FromBe16(data, pos + 2) IN
             IF pos + 3 + len > Len(data) THEN <<>>
             ELSE <<<<FromBe16(data, pos), SubSeq(data, pos + 4, pos + 3 + len)>>>>
                    \o from[pos + 4 + PaddedLen(len)]
  IN from[1]

\* Family, then the port and the address XOR-ed with the cookie and, for the
\* twelve bytes more of an IPv6 address, with the transaction id.
XorWith(bytes, key) == [i \in DOMAIN bytes |-> bytes[i] ^^ key[i]]

EncodeXorAddress(addr, txn) ==
  <<0, IF Len(addr.ip) = 4 THEN 1 ELSE 2>>
    \o XorWith(addr.port, MagicCookie) \o XorWith(addr.ip, MagicCookie \o txn)

NoAddress == [ip |-> <<>>, port |-> <<>>]

DecodeXorAddress(data, txn) ==
  LET size == CASE Len(data) < 4 -> 0 [] data[2] = 1 -> 4 [] data[2] = 2 -> 16
                [] OTHER -> 0
  IN IF size = 0 \/ Len(data) < 4 + size
       THEN NoAddress
       ELSE [port |-> XorWith(SubSeq(data, 3, 4), MagicCookie),
             ip   |-> XorWith(SubSeq(data, 5, 4 + size), MagicCookie \o txn)]

EncodeErrorCode(code) == <<0, 0, code \div 100, code % 100>>
DecodeErrorCode(value) == (value[3] % 8) * 100 + value[4]

-----------------------------------------------------------------------------
(* Messages.                                                               *)

Digest(bytes, size) ==
  LET sum == FoldLeft(LAMBDA acc, b : (acc * 3 + b) % 251, 7, bytes) IN
  [i \in 1..size |-> sum + (i % 4)]

Header(method, class, length, txn) ==
  Be16(EncodeMsgType(method, class)) \o Be16(length) \o MagicCookie \o txn

\* The length field counts the attribute that the digest is about to become.
WithLength(msg, length) == SubSeq(msg, 1, 2) \o Be16(length) \o SubSeq(msg, 5, Len(msg))

BuildRaw(method, class, txn, attrs) ==
  Header(method, class, Len(attrs), txn) \o attrs

BuildWithIntegrityOnly(method, class, txn, attrs) ==
  LET msg == Header(method, class, Len(attrs) + 24, txn) \o attrs IN
  msg \o EncodeAttr(MessageIntegrity, Digest(msg, 20))

BuildStaleLength(method, class, txn, attrs) ==
  LET msg == BuildWithIntegrityOnly(method, class, txn, attrs) IN
  msg \o EncodeAttr(Fingerprint, Digest(msg, 4))
BuildWithIntegrity(method, class, txn, attrs) ==
  LET msg == WithLength(BuildWithIntegrityOnly(method, class, txn, attrs),
                        Len(attrs) + 24 + 8)
  IN msg \o EncodeAttr(Fingerprint, Digest(msg, 4))

BuildWithFingerprint(method, class, txn, attrs) ==
  LET msg == Header(method, class, Len(attrs) + 8, txn) \o attrs IN
  msg \o EncodeAttr(Fingerprint, Digest(msg, 4))

Malformed == [class |-> "malformed"]

Decode(data) ==
  IF Len(data) < HeaderSize THEN Malformed
  ELSE LET length == FromBe16(data, 3) IN
       IF \/ data[1] >= 64
          \/ SubSeq(data, 5, 8) # MagicCookie
          \/ Len(data) < HeaderSize + length
         THEN Malformed
         ELSE DecodeMsgType(FromBe16(data, 1))
                @@ [txn   |-> SubSeq(data, 9, 20),
                    attrs |-> DecodeAttrs(SubSeq(data, 21, 20 + length))]

\* What a server checks: the digest of the message before the attribute, the
\* length field reaching to the attribute's end.
Verifies(data, typ, at, size) ==
  DecodeAttrs(SubSeq(data, at + 1, at + 4 + size))
    = <<<<typ, Digest(WithLength(SubSeq(data, 1, at), at + 4 + size - HeaderSize),
                      size)>>>>

EncodeAll(attrs) ==
  FlattenSeq([i \in DOMAIN attrs |-> EncodeAttr(attrs[i][1], attrs[i][2])])
=============================================================================
