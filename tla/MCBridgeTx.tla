------------------------------ MODULE MCBridgeTx ------------------------------
(* Instances of BridgeTx: one broadcast and one or two unicast messages.    *)
EXTENDS BridgeTx, TLC

CONSTANTS b1, u1, u2

MCPair == {b1, u1}          (* a broadcast and a unicast, in real numbers    *)
MCTriple == {b1, u1, u2}    (* one more unicast, fewer retries               *)
MCUnicasts == {u1, u2}
MCBroadcasts == {b1}
MCNobody == {}

(* The unicast calls are interchangeable (safety runs only).                *)
Symmetry == Permutations(MCUnicasts)
===============================================================================
