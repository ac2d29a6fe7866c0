---------------------------- MODULE MCFloodNetwork ----------------------------
(* A mesh of four nodes: y and x in range of the source o and of each       *)
(* other, z behind x only.  A packet may reach x by way of y before it      *)
(* arrives directly.                                                        *)
EXTENDS FloodNetwork, TLC

CONSTANTS o, x, y, z, MaxTime

MCRouters == {o, x, y, z}
MCObservers == {y}

(* y reaches x, but is too weak for o to hear.                              *)
MCLinks == {<<o, x>>, <<x, o>>, <<o, y>>, <<y, x>>, <<x, z>>, <<z, x>>}

MCDist ==
  [a \in MCRouters |-> [b \in MCRouters |->
     CASE a = b -> 0
       [] <<a, b>> \in MCLinks -> 1
       [] <<a, b>> = <<z, y>> -> 3
       [] OTHER -> 2]]

ASSUME MeshAssumption == ShortestPaths

Head(id, src, dest, hops) ==
  [src |-> src, id |-> id, dest |-> dest, hops |-> hops, ack |-> id = 3, chan |-> 2]

(* Broadcasts of o with no, one or two hops, and a unicast of z.            *)
MCPackets == {Head(i, o, Everyone, i) : i \in 0 .. 2} \union {Head(3, z, x, 1)}

(* One packet in each behaviour; x, where the two ways meet, is queried,    *)
(* and x and z behind it are cleared meanwhile.                             *)
MCNext ==
  /\ \/ started = {} /\ \E p \in Packets : Originate(p)
     \/ \E m \in air : Arrive(m) \/ Lose(m)
     \/ Ask(x) \/ ForgetNeighbors(x)
     \/ \E n \in {x, z} : Forget(n)
     \/ Tick
  /\ now' <= MaxTime

MCSpec == Init /\ [][MCNext]_vars /\ Fairness
===============================================================================
