----------------------------- MODULE BridgeFrames -----------------------------
(***************************************************************************)
(* The frames of the bridge (src/src/bridge/meshtastic_proto.py): what     *)
(* build_packet puts on the air, and what decode_packet makes of a frame,  *)
(* its own or one of the Meshtastic firmware, which is external.  A body   *)
(* is sealed with a key and the packet's id and source; opened with        *)
(* anything else it is noise.                                              *)
(***************************************************************************)
EXTENDS Packets

CONSTANTS Noise, TooShort

(* AES-CTR (external).                                                     *)
Seal(key, id, src, data) == [key |-> key, nonce |-> <<id, src>>, data |-> data]
Opens(key, id, src, body) == body.key = key /\ body.nonce = <<id, src>>

(* Unlike those of Packets, these fields are sent even if they are empty.  *)
DataPayload(text) == Field(1, "varint", 1) \o Field(2, "bytes", text)

(* The last of the headers build_packet packs has the hop limit in the     *)
(* flags byte, and no hop_start.                                           *)
BuildFlags(p) == p.hop_limit % 8

(* Without the header that is packed and thrown away.                      *)
MutFits(p) == TRUE

(* The one before it, thrown away, shifts the hop limit by five bits into  *)
(* a byte: struct.pack refuses more than 7.                                *)
Fits(p) == p.hop_limit \in 0 .. 7

BuildPacket(p, key) ==
  IF ~Fits(p) THEN None
  ELSE [dst |-> p.dst, src |-> p.src, id |-> p.id, flags |-> BuildFlags(p),
        body |-> Seal(key, p.id, p.src, DataPayload(p.text))]

(* The firmware's (external): the hops left, the wish for an               *)
(* acknowledgement, and the hops the packet began with; some have no body. *)
FirmwarePacket(p, key, port, payload) ==
  [dst |-> p.dst, src |-> p.src, id |-> p.id,
   flags |-> p.hop_limit + (IF p.want_ack THEN 8 ELSE 0) + (32 * p.hop_start),
   body |-> IF p.bare THEN Nothing
            ELSE Seal(key, p.id, p.src,
                      Field(1, "varint", port) \o Field(2, "bytes", payload))]

(* parse_fields: the last field of a number, whatever its wire type.       *)
FieldOf(msg, n, default) ==
  LET hits == {i \in DOMAIN msg : msg[i].num = n}
  IN  IF hits = {} THEN default ELSE msg[Max(hits)].value

(* The position as decode_packet reports it: what was not sent is 0, the   *)
(* latitude is given its sign back, the altitude is not.                   *)
PositionIn(msg) ==
  [lat |-> Signed32(FieldOf(msg, 1, 0)), alt |-> FieldOf(msg, 3, 0)]

Contents(port, payload) ==
  CASE port = 1 -> [text |-> payload]
    [] port = 3 -> [position |-> PositionIn(payload)]
    [] port = 4 -> [longname |-> FieldOf(payload, 2, Nothing)]
    [] OTHER -> [other |-> payload]

(* decode_packet.  A frame of a bare header is too short; the channel hash *)
(* is not compared with the key's.                                         *)
DecodePacket(frame, key) ==
  IF frame.body = Nothing THEN TooShort
  ELSE [dst |-> frame.dst, src |-> frame.src, id |-> frame.id,
        hop_limit |-> frame.flags % 8,
        want_ack |-> ((frame.flags \div 8) % 2) = 1,
        hop_start |-> (frame.flags \div 32) % 8,
        contents |->
          IF Opens(key, frame.id, frame.src, frame.body)
          THEN Contents(FieldOf(frame.body.data, 1, 0), FieldOf(frame.body.data, 2, Nothing))
          ELSE Noise]
===============================================================================
