-------------------------------- MODULE Flood --------------------------------
(***************************************************************************)
(* What flooding is, without caches, clocks or messages: a packet starts   *)
(* at its source with a hop limit and spreads along links, losing one hop  *)
(* at each node that passes it on.  FloodNetwork, the network of           *)
(* MeshRouters, implements this.                                           *)
(***************************************************************************)
EXTENDS Integers

CONSTANTS
  Routers,    (* the nodes of the mesh                                     *)
  Links,      (* <<n, r>>: what n transmits, r can hear                    *)
  Keys,       (* what identifies a packet                                  *)
  SourceOf,   (* the node a packet starts at                               *)
  LimitOf     (* the hop limit it starts with                              *)

VARIABLE reach  (* the largest hop limit with which n transmitted k, or -1 *)

FloodTypeOK == reach \in [Keys -> [Routers -> Int]]

FloodInit == reach = [k \in Keys |-> [n \in Routers |-> -1]]

Raised(k, n, h) ==
  reach' = [reach EXCEPT ![k][n] = IF h > reach[k][n] THEN h ELSE reach[k][n]]

(* The source transmits its packet.                                        *)
Start(k) == Raised(k, SourceOf[k], LimitOf[k])

(* n hears a node that transmitted with a larger hop limit, and passes on. *)
Spread(k, r) ==
  \E n \in Routers :
    /\ <<n, r>> \in Links
    /\ \E h \in 0 .. reach[k][n] - 1 : Raised(k, r, h)

FloodNext == \E k \in Keys : Start(k) \/ \E r \in Routers : Spread(k, r)

FloodSpec == FloodInit /\ [][FloodNext]_reach
===============================================================================
