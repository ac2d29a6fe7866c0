-------------------------------- MODULE Uplink --------------------------------
(***************************************************************************)
(* What ConcentratordZMQ reads of an event of the Concentratord            *)
(* (src/src/bridge/bridge.py: receive_event, _parse_uplink).  The event    *)
(* itself is the Concentratord's, and external: a protobuf that leaves out *)
(* every number that is 0.                                                 *)
(***************************************************************************)
EXTENDS Packets

CONSTANT DEFAULT_FREQUENCY, DEFAULT_RSSI

(* A float as the 32 bits of its sign and magnitude.                       *)
FloatBits(x) == IF x < 0 THEN (WORD32 \div 2) - x ELSE x
FloatOf(bits) == IF 2 * bits >= WORD32 THEN (WORD32 \div 2) - bits ELSE bits

(* gw.Event with an UplinkFrame or gateway statistics inside (external).   *)
UplinkFrame(f) ==
  BytesField(1, f.payload)
  \o BytesField(4, VarintField(1, f.frequency))
  \o BytesField(5, VarintField(6, f.rssi)
                   \o (IF f.snr = 0 THEN <<>> ELSE Field(7, "32bit", FloatBits(f.snr))))

GwEvent(e) == Field(IF e.stats THEN 2 ELSE 1, "bytes", UplinkFrame(e.frame))

(* read_field: every 32-bit field is read as a signed integer ("<i"), and  *)
(* parse_nested and the loop over the frame keep the last of each number.  *)
ReadField(msg, n, default) ==
  LET hits == {i \in DOMAIN msg : msg[i].num = n}
  IN  IF hits = {} THEN default
      ELSE LET f == msg[Max(hits)]
           IN  IF f.wire = "32bit" THEN Signed32(f.value) ELSE f.value

(* An int32 left as the 64 bits of a varint.                               *)
MutInt32(v) == v

(* An int32 out of the 64 bits of a varint.                                *)
Int32(v) == Signed32(v % WORD32)

(* struct.pack("<I", ...) refuses the negative integer that the sign bit   *)
(* of a float makes, and _parse_uplink then drops the frame.               *)
SnrRefused(rx) == ReadField(rx, 7, 0) < 0

(* _parse_uplink: a frame without a payload is dropped too.                *)
ParseUplink(msg) ==
  LET payload == ReadField(msg, 1, None)
      tx == ReadField(msg, 4, <<>>)
      rx == ReadField(msg, 5, <<>>)
      rssi == ReadField(rx, 6, None)
  IN  IF payload = None \/ SnrRefused(rx) THEN None
      ELSE [payload |-> payload,
            frequency |-> ReadField(tx, 1, DEFAULT_FREQUENCY),
            rssi |-> IF rssi = None THEN DEFAULT_RSSI ELSE Int32(rssi),
            snr |-> FloatOf(ReadField(rx, 7, 0))]

(* receive_event: only an event that begins with an UplinkFrame.           *)
ReceiveEvent(msg) == IF msg[1].num = 1 THEN ParseUplink(msg[1].value) ELSE None
===============================================================================
