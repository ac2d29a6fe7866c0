-------------------------------- MODULE Codecs --------------------------------
(***************************************************************************)
(* Values through the conversions of Packets, BridgeFrames, Uplink and     *)
(* Channels and back: a writer encodes one, the bytes may be cut short,    *)
(* and a reader decodes what is there.                                     *)
(***************************************************************************)
EXTENDS BridgeFrames, Uplink, Channels

CONSTANTS
  Numbers,   (* the numbers that are tried                                 *)
  Strings,   (* the strings and payloads, the empty one among them         *)
  Slots,     (* the slots asked for, or hashes of channel names            *)
  Keys,      (* channel keys                                               *)
  Unread

ASSUME CodecsAssumption ==
  /\ Numbers \subseteq (-WORD) .. (WORD - 1)
  /\ Nothing \in Strings
  /\ None \notin Numbers /\ None \notin Strings
  /\ Slots \subseteq Nat

VARIABLES
  form,   (* what is converted                                             *)
  sent,   (* the value                                                     *)
  wire,   (* its encoding                                                  *)
  got     (* what the reader makes of it                                   *)

vars == <<form, sent, wire, got>>

Words == {v \in Numbers : v \in 0 .. WORD32 - 1}
Signed == {v \in Numbers : 2 * v \in (-WORD32) .. WORD32 - 1}
Unsigneds == {v \in Numbers : v >= 0}

Positions ==
  [latitude : Numbers \union {None}, altitude : Numbers \union {None}, time : Words]
Users ==
  [long_name : Strings, short_name : Strings, hw_model : Unsigneds, is_licensed : BOOLEAN]
Datas ==
  [portnum : {0, 4, 10, 11}, payload : Strings, want_response : BOOLEAN,
   request_id : Words, bitfield : Unsigneds \union {None}]

(* None is no bytes.                                                       *)
ASSUME DataAssumption == \A d \in Datas : EncodeData(d) # None

(* A packet holds encrypted bytes, decoded data, or neither.               *)
PacketOf(decoded, encrypted) ==
  [source : {1, WORD32 - 1}, destination : {WORD32 - 1}, channel : {1}, decoded : decoded,
   encrypted : encrypted, id : {WORD32 - 2}, hop_limit : 0 .. 7, want_ack : BOOLEAN,
   rssi : Signed]
Packets0 ==
  PacketOf({None}, {None} \union (Strings \ {Nothing}))
  \union PacketOf({d \in Datas : d.bitfield = None /\ d.request_id = 0}, {None})

(* Frames of the bridge itself, for whatever hop limit, and of the firmware. *)
Texts ==
  [own : {TRUE}, bare : {FALSE}, dst : {WORD32 - 1}, src : Words, id : Words,
   hop_limit : 0 .. 9, text : Strings, key : Keys, under : Keys]
Heard ==
  [own : {FALSE}, bare : BOOLEAN, dst : {WORD32 - 1}, src : {1}, id : {1, 2},
   hop_limit : 0 .. 7, want_ack : BOOLEAN, hop_start : {3, 7}, key : Keys,
   under : Keys, port : {3}, latitude : Signed, altitude : Numbers]

Events ==
  [stats : BOOLEAN,
   frame : [payload : Strings, frequency : Words, rssi : Signed, 
            snr : {v \in Signed : -v \in Signed}]]

Init == form = "none" /\ sent = None /\ wire = <<>> /\ got = Unread

Write(f, v, data) ==
  /\ form' = f /\ sent' = v /\ wire' = data
  /\ UNCHANGED got

WriteVarint == \E v \in Numbers, next \in Numbers :
  Write("varint", v, EncodeVarint(v) \o EncodeVarint(next))
WritePosition == \E p \in Positions :
  EncodePosition(p) # None /\ Write("position", p, EncodePosition(p))
WriteUser == \E u \in Users : Write("user", u, EncodeUser(u))
WriteData == \E d \in Datas : Write("data", d, EncodeData(d))
WritePacket == \E p \in Packets0 : Write("packet", p, ToProtobuf(p))
WriteText == \E p \in Texts :
  BuildPacket(p, p.key) # None /\ Write("frame", p, BuildPacket(p, p.key))
WriteHeard == \E p \in Heard :
  Write("frame", p,
        FirmwarePacket(p, p.key, p.port,
                       EncodePosition([latitude |-> p.latitude, altitude |-> p.altitude,
                                       time |-> 0])))
WriteEvent == \E e \in Events : Write("event", e, GwEvent(e))

(* A channel is tuned to: the frequency is its form on the air.            *)
Tune == \E p \in Presets, choice \in Slots :
  Write("channel", [preset |-> p, choice |-> choice], <<GetFrequency(p, choice)>>)

(* The end of a varint is lost.                                            *)
CutShort ==
  /\ form = "varint" /\ got = Unread
  /\ \E n \in 0 .. Len(EncodeVarint(sent)) - 1 :
       /\ n < Len(wire)
       /\ wire' = SubSeq(wire, 1, n)
  /\ UNCHANGED <<form, sent, got>>

ReadAs(f, value) == form = f /\ got' = value

Read ==
  /\ got = Unread
  /\ \/ ReadAs("varint", DecodeVarint(wire))
     \/ ReadAs("position", DecodePosition(wire))
     \/ ReadAs("user", DecodeUser(wire))
     \/ ReadAs("data", DecodeData(wire))
     \/ ReadAs("packet", FromProtobuf(wire))
     \/ ReadAs("frame", DecodePacket(wire, sent.under))
     \/ ReadAs("event", ReceiveEvent(wire))
     \/ ReadAs("channel", AllSlotFrequencies(sent.preset))
  /\ UNCHANGED <<form, sent, wire>>

Next ==
  \/ /\ form = "none"
     /\ \/ WriteVarint \/ WritePosition \/ WriteUser \/ WriteData \/ WritePacket
        \/ WriteText \/ WriteHeard \/ WriteEvent \/ Tune
  \/ CutShort
  \/ Read

Spec == Init /\ [][Next]_vars

-----------------------------------------------------------------------------
IsRead(f) == form = f /\ got # Unread

(* A varint is read back, whatever follows it, as the number written or as *)
(* its two's complement; one that is cut short is refused; and no byte of  *)
(* it is spare (packets.py 30-58).                                         *)
VarintRoundTrip ==
  IsRead("varint") =>
    LET code == EncodeVarint(sent)
    IN  /\ Len(code) > 1 => code[Len(code)].low # 0
        /\ got = IF Len(wire) < Len(code) THEN Malformed
                 ELSE [size |-> Len(code), value |-> Unsigned(sent)]

(* What a message carries is read back, a latitude too large being refused *)
(* and not cut to 32 bits (packets.py 78), but for three things: an        *)
(* altitude of 0 is lost and a negative one comes back near 2^64, since it *)
(* goes as a plain varint (333, 352); a bitfield of 0 is lost (266); and a *)
(* port this code does not name becomes UNKNOWN_APP (277).                 *)
MessagesRoundTrip ==
  /\ IsRead("position") =>
       got = [sent EXCEPT !.altitude = IF @ \in {None, 0} THEN None ELSE Unsigned(@)]
  /\ IsRead("user") => got = sent
  /\ IsRead("data") =>
       got = [sent EXCEPT !.portnum = IF @ \in KnownPorts THEN @ ELSE 0,
                          !.bitfield = IF @ = 0 THEN None ELSE @]

(* A packet survives the protobuf form, except that a hop limit of 0 comes *)
(* back as 3: what may not be relayed any further is (packets.py 535, 564, *)
(* 433); that a negative RSSI comes back as its two's complement (540,     *)
(* 569); and that an empty Data is lost (527).                             *)
PacketRoundTrip ==
  IsRead("packet") =>
    got = [sent EXCEPT
             !.hop_limit = IF @ = 0 THEN 3 ELSE @,
             !.rssi = @ % WORD32,
             !.decoded = IF @ = None THEN None
                         ELSE IF EncodeData(@) = Nothing THEN None
                         ELSE DecodeData(EncodeData(@))]

(* A frame is read as it was sent by whoever has its key, and as noise by  *)
(* anyone else: a hop limit too large is refused (meshtastic_proto.py 207) *)
(* and never cut to three bits (225).  But no own text says how many hops  *)
(* it began with (225, 340), and an altitude below 0 loses its sign (377). *)
FrameRoundTrip ==
  IsRead("frame") =>
    IF sent.bare THEN got = TooShort
    ELSE /\ <<got.dst, got.src, got.id>> = <<sent.dst, sent.src, sent.id>>
         /\ got.hop_limit = sent.hop_limit
         /\ got.hop_start = IF sent.own THEN 0 ELSE sent.hop_start
         /\ got.want_ack = (~sent.own /\ sent.want_ack)
         /\ got.contents =
              IF sent.key # sent.under THEN Noise
              ELSE IF sent.own THEN [text |-> sent.text]
              ELSE [position |-> [lat |-> sent.latitude, alt |-> Unsigned(sent.altitude)]]

(* A frame the Concentratord received reaches the bridge with the signal   *)
(* it was received with, what is 0 on its way taken for the default, but   *)
(* only if its SNR is not negative: the sign bit makes _parse_uplink raise *)
(* and drop it (bridge.py 306, 357).  Statistics and frames without a      *)
(* payload never do.                                                       *)
UplinkRoundTrip ==
  IsRead("event") =>
    LET f == sent.frame
    IN  got = IF sent.stats \/ f.payload = Nothing \/ f.snr < 0 THEN None
              ELSE [f EXCEPT
                      !.frequency = IF @ = 0 THEN DEFAULT_FREQUENCY ELSE @,
                      !.rssi = IF @ = 0 THEN DEFAULT_RSSI ELSE @]

(* Whatever slot or channel name is asked for, the frequency is one of the *)
(* slots listed for its preset, and the channel lies in the US band and    *)
(* overlaps no other slot of the preset (channels.py 228-236, 253).        *)
TunedInBand ==
  IsRead("channel") =>
    LET bw == Bandwidth[sent.preset]
        f == wire[1]
    IN  /\ f \in got
        /\ 2 * f - bw >= 2 * US915_BASE_FREQ_HZ
        /\ 2 * f + bw <= 2 * US915_END_FREQ_HZ
        /\ \A g \in got : g # f => (g - f >= bw \/ f - g >= bw)
===============================================================================
