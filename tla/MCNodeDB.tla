------------------------------- MODULE MCNodeDB -------------------------------
(* Instances of NodeDB: two databases that hear the same node, and a clock  *)
(* that stops at MaxTime.                                                   *)
EXTENDS NodeDB, TLC

CONSTANTS a, b, n1, zero, alice, MaxTime

Packet(n, rssi, data) == [source |-> n, rssi |-> rssi, decoded |-> data]
Port(port, payload) == [portnum |-> port, payload |-> payload]

Named == EncodeUser([long_name |-> alice, short_name |-> alice, hw_model |-> 3, is_licensed |-> TRUE])
Unnamed == EncodeUser([long_name |-> Nothing, short_name |-> alice, hw_model |-> 0, is_licensed |-> TRUE])
Place == EncodePosition([latitude |-> -3, altitude |-> -2, time |-> 0])

(* One database hears who n1 is, then messages that name nobody or do not   *)
(* parse, and the address 0; the other hears where n1 is.                   *)
MCInbound ==
  (a :> { Packet(n1, -3, Port(4, Named)), Packet(n1, -3, Port(4, Unnamed)),
          Packet(n1, -3, Port(3, Garbage)), Packet(zero, 0, None) })
  @@ (b :> { Packet(n1, -2, Port(3, Place)) })

MCNext == Next /\ now' <= MaxTime
MCSpec == Init /\ [][MCNext]_vars
===============================================================================
