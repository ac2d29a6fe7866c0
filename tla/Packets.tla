------------------------------- MODULE Packets -------------------------------
(***************************************************************************)
(* The protobuf conversions of src/src/protocol/packets.py: varints byte   *)
(* by byte, messages as sequences of fields.  Numbers keep their width:    *)
(* WORD and WORD32 stand for 2^64 and 2^32, and DIGIT for the 2^7 values   *)
(* of a varint byte, so that an instance can take small ones.  A message is *)
(* the sequence of its fields, and no bytes are sent of an empty one; the  *)
(* strings and payloads inside are opaque.                                 *)
(***************************************************************************)
EXTENDS Integers, Sequences, FiniteSetsExt

CONSTANTS
  DIGIT, WORD, WORD32,
  MAX_BYTES,   (* a varint of more bytes is refused                        *)
  None

ASSUME PacketsAssumption ==
  /\ DIGIT \in Nat \ {0, 1} /\ MAX_BYTES \in Nat \ {0}
  /\ WORD32 \in Nat \ {0, 1} /\ WORD \in Nat /\ WORD32 < WORD
  /\ (WORD % WORD32) = 0
  /\ None \notin 0 .. WORD - 1

(* No bytes, or no characters.                                             *)
Nothing == <<>>

(* The outcome of a decoder that raises ValueError.                        *)
Malformed == [size |-> 0]

-----------------------------------------------------------------------------
(* Varints: the low digit first, every byte but the last marked.           *)
Byte(digit, more) == [low |-> digit, more |-> more]

Digits[v \in Nat] ==
  IF v < DIGIT THEN <<Byte(v, FALSE)>>
  ELSE <<Byte(v % DIGIT, TRUE)>> \o Digits[v \div DIGIT]

(* The numbers of n digits are those below this one.  A varint of as many  *)
(* bytes as are read holds any word.                                       *)
Weight[n \in Nat] == IF n = 0 THEN 1 ELSE DIGIT * Weight[n - 1]

ASSUME WidthAssumption == WORD <= Weight[MAX_BYTES]

(* A negative number becomes its 64-bit two's complement.                  *)
Unsigned(v) == IF v < 0 THEN v + WORD ELSE v

(* A byte full of ones taken for the last.                                 *)
MutEncodeVarint(v) ==
  IF Unsigned(v) = DIGIT THEN <<Byte(0, FALSE)>> ELSE Digits[Unsigned(v)]

EncodeVarint(v) == Digits[Unsigned(v)]

(* The value of the first n bytes.                                         *)
ValueOf(data, n) ==
  LET from[i \in 1 .. n + 1] ==
        IF i > n THEN 0 ELSE data[i].low + DIGIT * from[i + 1]
  IN  from[1]

(* The value and the number of bytes it took.                              *)
DecodeVarint(data) ==
  LET ends == {i \in DOMAIN data : ~data[i].more}
  IN  IF ends = {} THEN Malformed
      ELSE IF Min(ends) > MAX_BYTES THEN Malformed
      ELSE [size |-> Min(ends), value |-> ValueOf(data, Min(ends))]

-----------------------------------------------------------------------------
(* Fields.  A number that is 0 and a string that is empty are not sent.    *)
Field(n, wire, v) == <<[num |-> n, wire |-> wire, value |-> v]>>

VarintField(n, v) == IF v = 0 THEN <<>> ELSE Field(n, "varint", Unsigned(v))
Fixed32(n, v) == Field(n, "32bit", v % WORD32)
SFixed32(n, v) == Field(n, "32bit", v % WORD32)
BytesField(n, v) == IF v = Nothing THEN <<>> ELSE Field(n, "bytes", v)

(* What struct.pack("<i", ...) takes; it raises for any other number.      *)
Packs(v) == 2 * v \in (-WORD32) .. WORD32 - 1

(* The fields sent only if they are true in Python's sense.                *)
Fixed32If(n, v) == IF v = 0 THEN <<>> ELSE Fixed32(n, v)
BoolIf(n, b) == IF b THEN VarintField(n, 1) ELSE <<>>

(* struct.unpack("<i", ...).                                               *)
Signed32(v) == IF 2 * v >= WORD32 THEN v - WORD32 ELSE v

(* What a decoder's loop over _iter_fields leaves in an attribute: the     *)
(* last field of that number and wire type, or the default.                *)
Last(msg, n, wire, default) ==
  LET hits == {i \in DOMAIN msg : msg[i].num = n /\ msg[i].wire = wire}
  IN  IF hits = {} THEN default ELSE msg[Max(hits)].value

LastBool(msg, n) == Last(msg, n, "varint", 0) # 0

-----------------------------------------------------------------------------
(* Data: the decrypted payload of a packet.                                *)
(* The values of PortNum.                                                  *)
KnownPorts == (0 .. 10) \union (32 .. 34) \union (64 .. 74) \union {256, 257, 511}

EncodeData(d) ==
  VarintField(1, d.portnum) \o BytesField(2, d.payload)
  \o BoolIf(3, d.want_response) \o Fixed32If(6, d.request_id)
  \o (IF d.bitfield = None THEN <<>> ELSE VarintField(9, d.bitfield))

DecodeData(msg) ==
  LET port == Last(msg, 1, "varint", 0)
  IN  [portnum |-> IF port \in KnownPorts THEN port ELSE 0,
       payload |-> Last(msg, 2, "bytes", Nothing),
       want_response |-> LastBool(msg, 3),
       request_id |-> Last(msg, 6, "32bit", 0),
       bitfield |-> Last(msg, 9, "varint", None)]

(* Position: an altitude is a plain varint, a latitude a signed fixed32,   *)
(* and None stands for the exception of a latitude that is too large.      *)
Given(v, field) == IF v = None THEN <<>> ELSE field

MutEncodePosition(p) ==
  Given(p.latitude, VarintField(1, p.latitude))
  \o Given(p.altitude, VarintField(3, p.altitude)) \o Fixed32If(4, p.time)

EncodePosition(p) ==
  IF p.latitude # None /\ ~Packs(p.latitude) THEN None
  ELSE Given(p.latitude, SFixed32(1, p.latitude))
       \o Given(p.altitude, VarintField(3, p.altitude)) \o Fixed32If(4, p.time)

DecodePosition(msg) ==
  LET lat == Last(msg, 1, "32bit", None)
  IN  [latitude |-> IF lat = None THEN None ELSE Signed32(lat),
       altitude |-> Last(msg, 3, "varint", None),
       time |-> Last(msg, 4, "32bit", 0)]

(* User: what a node tells of itself.                                      *)
EncodeUser(u) ==
  BytesField(2, u.long_name) \o BytesField(3, u.short_name)
  \o VarintField(5, u.hw_model) \o BoolIf(6, u.is_licensed)

DecodeUser(msg) ==
  [long_name |-> Last(msg, 2, "bytes", Nothing),
   short_name |-> Last(msg, 3, "bytes", Nothing),
   hw_model |-> Last(msg, 5, "varint", 0),
   is_licensed |-> LastBool(msg, 6)]

-----------------------------------------------------------------------------
(* MeshPacket.to_protobuf and from_protobuf.  The RSSI is sent as 32 bits  *)
(* and read back unsigned; a hop limit of 0 is not sent, and the reader    *)
(* starts from the default header, whose hop limit is 3.                   *)
ToProtobuf(p) ==
  Fixed32(1, p.source) \o Fixed32(2, p.destination) \o VarintField(3, p.channel)
  \o (IF p.decoded = None THEN BytesField(5, p.encrypted) ELSE BytesField(4, EncodeData(p.decoded)))
  \o Fixed32(6, p.id) \o VarintField(9, p.hop_limit) \o BoolIf(10, p.want_ack)
  \o (IF p.rssi = 0 THEN <<>> ELSE VarintField(12, p.rssi % WORD32))

DecodedIn(msg) ==
  LET data == Last(msg, 4, "bytes", None)
  IN  IF data = None THEN None ELSE DecodeData(data)

(* A reader that takes a missing hop limit for 0.                          *)
MutFromProtobuf(msg) ==
  [source |-> Last(msg, 1, "32bit", 0), destination |-> Last(msg, 2, "32bit", WORD32 - 1),
   channel |-> Last(msg, 3, "varint", 0), decoded |-> DecodedIn(msg),
   encrypted |-> Last(msg, 5, "bytes", None), id |-> Last(msg, 6, "32bit", 0),
   hop_limit |-> Last(msg, 9, "varint", 0), want_ack |-> LastBool(msg, 10),
   rssi |-> Last(msg, 12, "varint", 0)]

FromProtobuf(msg) ==
  [source |-> Last(msg, 1, "32bit", 0),
   destination |-> Last(msg, 2, "32bit", WORD32 - 1),
   channel |-> Last(msg, 3, "varint", 0),
   decoded |-> DecodedIn(msg),
   encrypted |-> Last(msg, 5, "bytes", None),
   id |-> Last(msg, 6, "32bit", 0),
   hop_limit |-> Last(msg, 9, "varint", 3),
   want_ack |-> LastBool(msg, 10),
   rssi |-> Last(msg, 12, "varint", 0)]
===============================================================================
