------------------------------ MODULE MeshRouter ------------------------------
(***************************************************************************)
(* MeshRouter (src/src/protocol/routing.py), one instance per node: the    *)
(* cache of seen packets with its time to live and the cleanup that runs   *)
(* at most once per interval, the neighbour table, and the decision to     *)
(* rebroadcast.  The one-byte flags of the packet header are those of      *)
(* PacketHeader (packets.py).                                              *)
(*                                                                         *)
(* A header is a record [src, id, dest, hops, ack, chan].  Signal quality  *)
(* and packet counts, which no decision reads, are left out, and so is the *)
(* age of a neighbour: only the listing filters by it.                     *)
(***************************************************************************)
EXTENDS Integers, Functions

CONSTANTS
  Routers,           (* the nodes; each runs one router                    *)
  Observers,         (* the routers created with my_node_id = 0            *)
  Everyone,          (* BROADCAST_ADDR                                     *)
  SEEN_TTL,          (* seen_ttl: how long a packet counts as seen         *)
  CLEANUP_INTERVAL   (* the least time between two cleanups                *)

ASSUME RouterAssumption ==
  /\ Observers \subseteq Routers
  /\ Everyone \notin Routers
  /\ SEEN_TTL \in Nat /\ CLEANUP_INTERVAL \in Nat

VARIABLES
  now,        (* time.time()                                               *)
  seen,       (* _seen: for each router, packet key -> first_seen          *)
  cleaned,    (* _last_cleanup                                             *)
  neighbors   (* the keys of _neighbors                                    *)

routerVars == <<seen, cleaned, neighbors>>

NoneSeen == [k \in {} |-> 0]

RouterInit ==
  /\ seen = [r \in Routers |-> NoneSeen]
  /\ cleaned = [r \in Routers |-> now]
  /\ neighbors = [r \in Routers |-> {}]

-----------------------------------------------------------------------------
(* The flags byte: three bits of hop limit, want_ack, four bits of channel *)
(* hash.  A hop limit beyond 7 wraps; nothing enforces max_hop_limit.      *)
Flags(h) == (h.hops % 8) + (IF h.ack THEN 8 ELSE 0) + 16 * (h.chan % 16)

(* The hop limit read without its mask.                                    *)
MutWithFlags(h, f) ==
  [h EXCEPT !.hops = f, !.ack = (f \div 8) % 2 = 1, !.chan = f \div 16]

WithFlags(h, f) ==
  [h EXCEPT !.hops = f % 8, !.ack = (f \div 8) % 2 = 1, !.chan = f \div 16]

(* A header as the receiver of encode_mesh_packet decodes it.              *)
OverTheAir(h) == WithFlags(h, Flags(h))

-----------------------------------------------------------------------------
Key(h) == <<h.src, h.id>>

CleanupDue(r) == now - cleaned[r] >= CLEANUP_INTERVAL

(* A cleanup that keeps only what was seen this very second.               *)
MutFresh(r) ==
  IF CleanupDue(r)
  THEN Restrict(seen[r], {k \in DOMAIN seen[r] : seen[r][k] >= now})
  ELSE seen[r]

(* The cache as _cleanup_seen leaves it.                                   *)
Fresh(r) ==
  IF CleanupDue(r)
  THEN Restrict(seen[r], {k \in DOMAIN seen[r] : seen[r][k] >= now - SEEN_TTL})
  ELSE seen[r]

(* Every query and every test for a duplicate runs the cleanup first.      *)
Cleanup(r, cache) ==
  /\ seen' = [seen EXCEPT ![r] = cache]
  /\ cleaned' = [cleaned EXCEPT ![r] = IF CleanupDue(r) THEN now ELSE cleaned[r]]

IsDuplicate(r, h) == Key(h) \in DOMAIN Fresh(r)

Marked(r, h) ==
  [k \in DOMAIN Fresh(r) \union {Key(h)} |->
     IF k = Key(h) THEN now ELSE Fresh(r)[k]]

(* A source is recorded as a neighbour whether or not the packet came from *)
(* it directly; the address 0 of an observer is not.                       *)
NeighborsWith(r, h) ==
  IF h.src \in Observers THEN neighbors[r] ELSE neighbors[r] \union {h.src}

(* should_accept, which answers ~IsDuplicate(r, h).                        *)
ShouldAccept(r, h) ==
  /\ neighbors' = [neighbors EXCEPT ![r] = NeighborsWith(r, h)]
  /\ Cleanup(r, IF IsDuplicate(r, h) THEN Fresh(r) ELSE Marked(r, h))

IsForUs(r, h) == r \in Observers \/ h.dest \in {r, Everyone}

(* An off-by-one: the last hop is not used.                                *)
MutLastHop(r, h) ==
  /\ ~(h.src = r /\ r \notin Observers)
  /\ h.hops > 1
  /\ h.dest = Everyone

(* A rebroadcast of unicasts, too.                                         *)
MutUnicastToo(r, h) == ~(h.src = r /\ r \notin Observers) /\ h.hops > 0

ShouldRebroadcast(r, h) ==
  /\ ~(h.src = r /\ r \notin Observers)
  /\ h.hops > 0
  /\ h.dest = Everyone

(* A rebroadcast that keeps the hop limit.                                 *)
MutPrepareRebroadcast(h) == h

PrepareRebroadcast(h) == [h EXCEPT !.hops = h.hops - 1]

-----------------------------------------------------------------------------
(* get_seen_count and has_seen: a query, with the cleanup it runs.         *)
Query(r) == Cleanup(r, Fresh(r)) /\ UNCHANGED neighbors

(* clear_seen and clear_neighbors.                                         *)
ClearSeen(r) == seen' = [seen EXCEPT ![r] = NoneSeen] /\ UNCHANGED <<cleaned, neighbors>>

ClearNeighbors(r) == neighbors' = [neighbors EXCEPT ![r] = {}] /\ UNCHANGED <<seen, cleaned>>
===============================================================================
