------------------------------ MODULE MCBridgeRx ------------------------------
(* Instances of BridgeRx: two nodes, the copies and kinds of frame that     *)
(* reception tells apart, and a clock that stops at MaxTime.                *)
EXTENDS BridgeRx, TLC

CONSTANTS n1, n2, MaxTime

Frame(src, hops, key, kind, inData, inner) ==
  [src |-> src, pkt |-> 1, hops |-> hops, key |-> key, kind |-> kind,
   inData |-> inData, inner |-> inner]

(* A NodeInfo of n1 and a later copy of its packet id, which is a routing   *)
(* reply; a NodeInfo of n2 under the default channel; a foreign frame from  *)
(* address 0.                                                               *)
MCFrames ==
  { Frame(n1, 3, "own", "nodeinfo", 0, 0),
    Frame(n1, 2, "own", "routing", 0, 7),
    Frame(n2, 3, "LongFast", "nodeinfo", 0, 0),
    Frame(NoNode, 3, "other", "text", 0, 0) }

(* Replies with the request id in either place, and a bare header.          *)
MCReplies ==
  { Frame(n1, 3, "own", "routing", 7, 0),
    Frame(n1, 2, "own", "routing", 0, 7),
    Frame(n2, 1, "own", "bare", 0, 0) }

MCNodes == {n1, n2}
MCKnown == {n1}

MCNext == Next /\ now' <= MaxTime
MCSpec == Init /\ [][MCNext]_vars
===============================================================================
