----------------------------- MODULE FloodNetwork -----------------------------
(***************************************************************************)
(* A mesh in which every node runs a MeshRouter the way its class          *)
(* documentation shows (routing.py 59-67): a received packet that          *)
(* should_accept takes is rebroadcast if should_rebroadcast says so.       *)
(*                                                                         *)
(* The radio is external: a transmission puts one copy on its way to each  *)
(* node in range; copies arrive in any order, late, or not at all.  Equal  *)
(* copies on their way to one node are one element of a set: a second one  *)
(* that arrives is a loss of the first.                                    *)
(***************************************************************************)
EXTENDS MeshRouter

CONSTANTS
  Packets,   (* the headers their sources transmit                         *)
  Links,     (* <<n, r>>: r hears what n transmits                         *)
  Dist       (* Dist[n][r]: hops between them, or any lower bound          *)

Keys == {Key(p) : p \in Packets}
SourceOf == [k \in Keys |-> k[1]]
PacketOf(k) == CHOOSE p \in Packets : Key(p) = k
LimitOf == [k \in Keys |-> OverTheAir(PacketOf(k)).hops]

HeaderType ==
  [src : Routers, id : Nat, dest : Routers \union {Everyone},
   hops : Nat, ack : BOOLEAN, chan : Nat]

ASSUME NetworkAssumption ==
  /\ Packets \subseteq HeaderType
  /\ \A p, q \in Packets : Key(p) = Key(q) => p = q
  /\ Links \subseteq Routers \X Routers
  /\ Dist \in [Routers -> [Routers -> Nat]]
  /\ \A n \in Routers : Dist[n][n] = 0
  /\ \A s \in Routers : \A l \in Links : Dist[s][l[2]] <= Dist[s][l[1]] + 1

VARIABLES
  started,  (* the packets that were transmitted by their source           *)
  air,      (* the copies on their way: [to, head]                         *)
  first,    (* hop_limit_at_receipt of the first copy accepted, or -1      *)
  relayed,  (* for each router, packet key -> time of its last rebroadcast *)
  reach,    (* the largest hop limit with which n transmitted k, or -1     *)
  lossy     (* a copy was lost                                             *)

netVars == <<started, air, first, relayed, reach, lossy>>
vars == <<now, routerVars, netVars>>

Init ==
  /\ now = 0
  /\ RouterInit
  /\ started = {} /\ air = {} /\ lossy = FALSE
  /\ first = [r \in Routers |-> [k \in Keys |-> -1]]
  /\ relayed = [r \in Routers |-> NoneSeen]
  /\ reach = [k \in Keys |-> [n \in Routers |-> -1]]

-----------------------------------------------------------------------------
(* The copies of h that n's transmission sends on their way.               *)
Copies(n, h) ==
  {[to |-> l[2], head |-> OverTheAir(h)] : l \in {l \in Links : l[1] = n}}

Reached(n, h) ==
  LET hops == OverTheAir(h).hops
  IN  reach' = [reach EXCEPT ![Key(h)][n] =
                  IF hops > reach[Key(h)][n] THEN hops ELSE reach[Key(h)][n]]

(* A source sends: encode_mesh_packet.  Its own router is not told.        *)
Originate(p) ==
  /\ p \in Packets /\ Key(p) \notin started
  /\ started' = started \union {Key(p)}
  /\ air' = air \union Copies(p.src, p)
  /\ Reached(p.src, p)
  /\ UNCHANGED <<now, routerVars, first, relayed, lossy>>

(* A copy arrives that should_accept refuses.                              *)
DropDuplicate(m) ==
  /\ IsDuplicate(m.to, m.head)
  /\ ShouldAccept(m.to, m.head)
  /\ air' = air \ {m}
  /\ UNCHANGED <<now, started, first, relayed, reach, lossy>>

FirstWith(m) ==
  [first EXCEPT ![m.to][Key(m.head)] =
     IF first[m.to][Key(m.head)] = -1 THEN m.head.hops ELSE first[m.to][Key(m.head)]]

(* A copy arrives that is accepted and goes no further.                    *)
AcceptLast(m) ==
  /\ ~IsDuplicate(m.to, m.head)
  /\ ~ShouldRebroadcast(m.to, m.head)
  /\ ShouldAccept(m.to, m.head)
  /\ air' = air \ {m}
  /\ first' = FirstWith(m)
  /\ UNCHANGED <<now, started, relayed, reach, lossy>>

(* A copy arrives that is accepted and rebroadcast.                        *)
Relay(m) ==
  LET r == m.to
      h == PrepareRebroadcast(m.head)
      k == Key(m.head)
  IN  /\ ~IsDuplicate(r, m.head)
      /\ ShouldRebroadcast(r, m.head)
      /\ ShouldAccept(r, m.head)
      /\ air' = (air \ {m}) \union Copies(r, h)
      /\ first' = FirstWith(m)
      /\ relayed' = [relayed EXCEPT ![r] =
                       [j \in DOMAIN relayed[r] \union {k} |->
                          IF j = k THEN now ELSE relayed[r][j]]]
      /\ Reached(r, h)
      /\ UNCHANGED <<now, started, lossy>>

Arrive(m) == DropDuplicate(m) \/ AcceptLast(m) \/ Relay(m)

(* The radio loses a copy.                                                 *)
Lose(m) ==
  /\ air' = air \ {m}
  /\ lossy' = TRUE
  /\ UNCHANGED <<now, routerVars, started, first, relayed, reach>>

(* The other operations of a router.  A cleared cache starts a new life,   *)
(* in which nothing was relayed yet.                                       *)
Ask(r) == Query(r) /\ UNCHANGED <<now, netVars>>

Forget(r) ==
  /\ ClearSeen(r)
  /\ relayed' = [relayed EXCEPT ![r] = NoneSeen]
  /\ UNCHANGED <<now, started, air, first, reach, lossy>>

ForgetNeighbors(r) == ClearNeighbors(r) /\ UNCHANGED <<now, netVars>>

Tick == now' = now + 1 /\ UNCHANGED <<routerVars, netVars>>

Next ==
  \/ \E p \in Packets : Originate(p)
  \/ \E m \in air : Arrive(m) \/ Lose(m)
  \/ \E r \in Routers : Ask(r) \/ Forget(r) \/ ForgetNeighbors(r)
  \/ Tick

Spec == Init /\ [][Next]_vars

(* The radio delivers or loses what is on its way in finite time.          *)
Fairness == WF_vars(\E m \in air : Arrive(m) \/ Lose(m))

-----------------------------------------------------------------------------
TypeOK ==
  /\ now \in Nat
  /\ \A r \in Routers : DOMAIN seen[r] \subseteq Keys /\ seen[r] \in [DOMAIN seen[r] -> 0 .. now]
  /\ cleaned \in [Routers -> 0 .. now]
  /\ neighbors \in [Routers -> SUBSET Routers]
  /\ started \subseteq Keys
  /\ \A m \in air : m.to \in Routers /\ Key(m.head) \in started /\ m.head.hops \in 0 .. 7
  /\ first \in [Routers -> [Keys -> -1 .. 7]]
  /\ \A r \in Routers : DOMAIN relayed[r] \subseteq Keys /\ relayed[r] \in [DOMAIN relayed[r] -> 0 .. now]
  /\ reach \in [Keys -> [Routers -> -1 .. 7]]
  /\ lossy \in BOOLEAN

(* Every copy on the air is the packet its source sent, but for the hop    *)
(* limit: relaying (prepare_rebroadcast, 253-260) keeps source, id,        *)
(* destination, want_ack and channel, and a unicast is only ever heard     *)
(* from its source (233).                                                  *)
RelayedUnaltered ==
  \A m \in air : \E p \in Packets :
    LET sent == OverTheAir(p)
    IN  /\ m.head = [sent EXCEPT !.hops = m.head.hops]
        /\ m.head.hops <= sent.hops
        /\ p.dest # Everyone => <<p.src, m.to>> \in Links

(* A router rebroadcasts a packet again only after seen_ttl: the lazy      *)
(* cleanup (96-106) may keep an entry longer than that, never less, and    *)
(* a copy that arrives while the entry lives is refused (183).             *)
RelayGap ==
  [][\A r \in Routers : \A k \in DOMAIN relayed[r] \intersect DOMAIN relayed'[r] :
       relayed'[r][k] # relayed[r][k] => relayed'[r][k] > relayed[r][k] + SEEN_TTL]_vars

(* r is at most one hop beyond the hop limit of k from its source.         *)
Within(k, r) == Dist[k[1]][r] <= LimitOf[k] + 1

(* The first copy of a packet decides (187): n is overtaken if its first   *)
(* copy came by a detour and had spent more hops than the shortest path.   *)
Overtaken(k, n) ==
  /\ first[n][k] # -1
  /\ Dist[k[1]][n] > 0
  /\ first[n][k] < LimitOf[k] - (Dist[k[1]][n] - 1)

(* Dist is the number of hops, not just a lower bound of it, as far as the *)
(* largest hop limit and one hop more reach.                               *)
ShortestPaths ==
  \A s, r \in Routers :
    r # s =>
      /\ Dist[s][r] > 0
      /\ Dist[s][r] <= 8 => \E n \in Routers : <<n, r>> \in Links /\ Dist[s][n] = Dist[s][r] - 1

(* When a flood is over and no copy was lost, every router within the hop  *)
(* limit has accepted the packet, unless some router was overtaken: the    *)
(* duplicate test (183) then stops the copy that could have gone further.  *)
FloodCovers ==
  air = {} /\ ~lossy =>
    \A k \in started, r \in Routers :
      \/ PacketOf(k).dest # Everyone
      \/ r = k[1] \/ ~Within(k, r)
      \/ first[r][k] # -1
      \/ \E n \in Routers : Overtaken(k, n)

(* Every flood ends, however caches expire or are cleared: each rebroadcast *)
(* has a smaller hop limit (257) and none is made at 0 (228).              *)
FloodEnds == <>[](air = {})

(* The network floods as Flood says: what a router transmits, it heard     *)
(* from a node in range with one hop more (should_rebroadcast 207-236,     *)
(* prepare_rebroadcast 249-260).                                           *)
FloodOf == INSTANCE Flood
ImplementsFlood == FloodOf!FloodSpec

-----------------------------------------------------------------------------
(* What the comments say of the neighbour table, and the code does not do. *)

(* routing.py:93 "Direct neighbor tracking", 35 "Information about a       *)
(* direct neighbor node", 179 "Always update neighbor info for the         *)
(* immediate sender": whoever is in the table is heard without a relay.    *)
NeighborsAreDirect ==
  \A r \in Routers : neighbors[r] \subseteq {s \in Routers : <<s, r>> \in Links}
===============================================================================
