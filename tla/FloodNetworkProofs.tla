-------------------------- MODULE FloodNetworkProofs --------------------------
(***************************************************************************)
(* Proofs about FloodNetwork, for any mesh, any packets and any times to   *)
(* live.                                                                   *)
(***************************************************************************)
EXTENDS FloodNetwork, TLAPS

(* The flags byte loses nothing of a hop limit up to 7 and a channel hash  *)
(* up to 15.                                                               *)
LEMMA FlagsArithmetic ==
  ASSUME NEW a \in 0 .. 7, NEW b \in 0 .. 1, NEW c \in 0 .. 15
  PROVE  LET f == a + (8 * b) + (16 * c)
         IN  f % 8 = a /\ (f \div 8) % 2 = b /\ f \div 16 = c
  BY SMTT(60)

LEMMA HeaderOnAir ==
  ASSUME NEW h \in HeaderType
  PROVE  OverTheAir(h) = [h EXCEPT !.hops = h.hops % 8, !.chan = h.chan % 16]
<1> DEFINE b == IF h.ack THEN 1 ELSE 0
<1>1. h.hops % 8 \in 0 .. 7 /\ h.chan % 16 \in 0 .. 15 /\ b \in 0 .. 1
      /\ h.ack \in BOOLEAN
  BY DEF HeaderType
<1>2. Flags(h) = (h.hops % 8) + (8 * b) + (16 * (h.chan % 16))
  BY DEF Flags
<1>3. (b = 1) = h.ack
  BY <1>1
<1> HIDE DEF b
<1>4. /\ Flags(h) % 8 = h.hops % 8
      /\ (Flags(h) \div 8) % 2 = b
      /\ Flags(h) \div 16 = h.chan % 16
  BY <1>1, <1>2, FlagsArithmetic
<1>5. ((Flags(h) \div 8) % 2 = 1) = h.ack
  BY <1>3, <1>4
<1>6. [h EXCEPT !.ack = h.ack] = h
  BY DEF HeaderType
<1>7. OverTheAir(h) = [h EXCEPT !.hops = h.hops % 8, !.ack = h.ack, !.chan = h.chan % 16]
  BY <1>4, <1>5, Zenon DEF OverTheAir, WithFlags
<1> QED
  BY <1>7 DEF HeaderType

(* What is on the air is a header, stays what it is on the air, and keeps  *)
(* all but the hop limit from one relay to the next.                       *)
LEMMA OnAirFacts ==
  ASSUME NEW h \in HeaderType
  PROVE  /\ OverTheAir(h) \in HeaderType
         /\ OverTheAir(h).hops \in 0 .. 7 /\ OverTheAir(h).chan \in 0 .. 15
         /\ OverTheAir(h).hops = h.hops % 8
         /\ Key(OverTheAir(h)) = Key(h)
         /\ OverTheAir(h).src = h.src /\ OverTheAir(h).dest = h.dest
<1> DEFINE a == h.hops % 8
           c == h.chan % 16
           o == [h EXCEPT !.hops = a, !.chan = c]
<1>1. a \in 0 .. 7 /\ c \in 0 .. 15
  BY DEF HeaderType
<1>2. OverTheAir(h) = o
  BY HeaderOnAir
<1>h. o.hops = a /\ o.chan = c /\ a = h.hops % 8
  BY DEF HeaderType
<1> HIDE DEF a, c
<1>3. o \in HeaderType
  <2>1. a \in Nat /\ c \in Nat
    BY <1>1
  <2> QED
    BY <2>1, Zenon DEF HeaderType
<1>5. Key(o) = Key(h) /\ o.src = h.src /\ o.dest = h.dest
  BY DEF HeaderType, Key
<1> HIDE DEF o
<1> QED
  BY <1>1, <1>2, <1>3, <1>h, <1>5

LEMMA RelayedHeader ==
  ASSUME NEW p \in HeaderType, NEW m, NEW n \in 1 .. 7, m = [OverTheAir(p) EXCEPT !.hops = n]
  PROVE  /\ PrepareRebroadcast(m) \in HeaderType
         /\ PrepareRebroadcast(m).hops = n - 1
         /\ Key(PrepareRebroadcast(m)) = Key(p)
         /\ OverTheAir(PrepareRebroadcast(m)) = [OverTheAir(p) EXCEPT !.hops = n - 1]
<1> DEFINE o == OverTheAir(p)
           q == PrepareRebroadcast(m)
<1>1. o \in HeaderType /\ o.chan \in 0 .. 15 /\ Key(o) = Key(p) /\ m = [o EXCEPT !.hops = n]
  BY OnAirFacts
<1> HIDE DEF o
<1>2. m.hops = n
  BY <1>1 DEF HeaderType
<1>3. q = [o EXCEPT !.hops = n - 1]
  BY <1>1, <1>2 DEF PrepareRebroadcast, HeaderType
<1>4. n - 1 \in 0 .. 7 /\ n - 1 \in Nat
  OBVIOUS
<1> HIDE DEF q
<1>5. q \in HeaderType
  BY <1>1, <1>3, <1>4 DEF HeaderType
<1>6. q.hops = n - 1 /\ q.chan = o.chan /\ Key(q) = Key(o)
  BY <1>1, <1>3 DEF HeaderType, Key
<1>7. OverTheAir(q) = [q EXCEPT !.hops = q.hops % 8, !.chan = q.chan % 16]
  BY <1>5, HeaderOnAir
<1>8. q.hops % 8 = q.hops /\ q.chan % 16 = q.chan
  BY <1>1, <1>4, <1>6
<1>9. [q EXCEPT !.hops = q.hops, !.chan = q.chan] = q
  BY <1>5, Zenon DEF HeaderType
<1>10. OverTheAir(q) = q
  BY <1>7, <1>8, <1>9
<1> QED
  BY <1>1, <1>3, <1>5, <1>6, <1>10 DEF o, q

-----------------------------------------------------------------------------
(* The inductive invariant: a copy comes from a node in range that had as  *)
(* many hops left; a node that transmitted is as far from the source as    *)
(* the hops it spent; a packet that was relayed is in the cache until its  *)
(* time to live has passed.                                                *)
AirReach ==
  \A m \in air : \E n \in Routers :
    <<n, m.to>> \in Links /\ reach[Key(m.head)][n] >= m.head.hops

ReachRadius ==
  \A k \in Keys, n \in Routers :
    reach[k][n] # -1 => k \in started /\ Dist[k[1]][n] <= LimitOf[k] - reach[k][n]

CacheCovers ==
  \A r \in Routers : \A k \in DOMAIN relayed[r] :
    now <= relayed[r][k] + SEEN_TTL =>
      k \in DOMAIN seen[r] /\ relayed[r][k] <= seen[r][k]

RouterTyped ==
  /\ now \in Nat
  /\ DOMAIN seen = Routers
  /\ \A r \in Routers :
       DOMAIN seen[r] \subseteq Keys /\ seen[r] \in [DOMAIN seen[r] -> 0 .. now]
  /\ cleaned \in [Routers -> 0 .. now]
  /\ neighbors \in [Routers -> SUBSET Routers]

RelayedTyped ==
  /\ DOMAIN relayed = Routers
  /\ \A r \in Routers :
       DOMAIN relayed[r] \subseteq Keys /\ relayed[r] \in [DOMAIN relayed[r] -> 0 .. now]

NetTyped ==
  /\ started \subseteq Keys
  /\ \A m \in air : m.to \in Routers /\ Key(m.head) \in started /\ m.head.hops \in 0 .. 7
  /\ first \in [Routers -> [Keys -> -1 .. 7]]
  /\ reach \in [Keys -> [Routers -> -1 .. 7]]
  /\ lossy \in BOOLEAN

Typed == RouterTyped /\ RelayedTyped /\ NetTyped

OnAir == RelayedUnaltered /\ AirReach

IInv == Typed /\ OnAir /\ ReachRadius /\ CacheCovers

(* Of a packet, what the assumptions say; of a copy, what the invariant.   *)
LEMMA PacketFacts ==
  ASSUME NEW p \in Packets
  PROVE  /\ p \in HeaderType /\ p.src \in Routers /\ p.hops \in Nat
         /\ Key(p) \in Keys /\ PacketOf(Key(p)) = p
         /\ Key(p)[1] = p.src
         /\ LimitOf[Key(p)] = OverTheAir(p).hops
         /\ SourceOf[Key(p)] = p.src
<1>1. p \in HeaderType /\ Key(p) \in Keys
  BY NetworkAssumption DEF Keys
<1>2. PacketOf(Key(p)) = p
  BY NetworkAssumption DEF PacketOf
<1> QED
  BY <1>1, <1>2 DEF HeaderType, Key, LimitOf, SourceOf

LEMMA CopyFacts ==
  ASSUME NetTyped, RelayedUnaltered, NEW m \in air
  PROVE  \E p \in Packets :
           /\ m.head = [OverTheAir(p) EXCEPT !.hops = m.head.hops]
           /\ m.head.hops \in 0 .. 7
           /\ m.head.hops <= OverTheAir(p).hops
           /\ Key(m.head) = Key(p)
           /\ m.head.src = p.src /\ m.head.dest = p.dest
           /\ m.to \in Routers
           /\ Key(m.head) \in started
<1>1. PICK p \in Packets :
        /\ m.head = [OverTheAir(p) EXCEPT !.hops = m.head.hops]
        /\ m.head.hops <= OverTheAir(p).hops
  BY DEF RelayedUnaltered
<1>2. m.head.hops \in 0 .. 7 /\ m.to \in Routers /\ Key(m.head) \in started
  BY DEF NetTyped
<1> DEFINE o == OverTheAir(p)
           n == m.head.hops
<1>3. o \in HeaderType /\ Key(o) = Key(p) /\ o.src = p.src /\ o.dest = p.dest
  BY OnAirFacts, PacketFacts
<1>4. m.head = [o EXCEPT !.hops = n]
  BY <1>1
<1> HIDE DEF o, n
<1>5. Key(m.head) = Key(p) /\ m.head.src = p.src /\ m.head.dest = p.dest
  BY <1>3, <1>4 DEF HeaderType, Key
<1> QED
  BY <1>1, <1>2, <1>5

-----------------------------------------------------------------------------
(* The cache after a cleanup, and after a packet is marked as seen, still  *)
(* covers what was relayed.                                                *)
CacheOK(c, r) ==
  /\ DOMAIN c \subseteq Keys /\ c \in [DOMAIN c -> 0 .. now]
  /\ \A k \in DOMAIN relayed[r] :
       now <= relayed[r][k] + SEEN_TTL => k \in DOMAIN c /\ relayed[r][k] <= c[k]

LEMMA FreshFacts ==
  ASSUME RouterTyped, NEW r \in Routers
  PROVE  /\ DOMAIN Fresh(r) \subseteq DOMAIN seen[r]
         /\ Fresh(r) = [k \in DOMAIN Fresh(r) |-> seen[r][k]]
         /\ \A k \in DOMAIN seen[r] \ DOMAIN Fresh(r) : seen[r][k] < now - SEEN_TTL
<1> DEFINE young == {k \in DOMAIN seen[r] : seen[r][k] >= now - SEEN_TTL}
<1>1. Fresh(r) = Restrict(seen[r], young) \/ Fresh(r) = seen[r]
  BY DEF Fresh
<1>2. \A k \in DOMAIN seen[r] : seen[r][k] \in 0 .. now /\ now \in Nat
  BY DEF RouterTyped
<1>3. CASE Fresh(r) = Restrict(seen[r], young)
  <2>1. DOMAIN Fresh(r) = young
    BY <1>3 DEF Restrict
  <2>2. \A k \in DOMAIN seen[r] \ young : seen[r][k] < now - SEEN_TTL
    BY <1>2, RouterAssumption
  <2> QED
    BY <1>3, <2>1, <2>2 DEF Restrict
<1>4. CASE Fresh(r) = seen[r]
  BY <1>4 DEF RouterTyped
<1> QED
  BY <1>1, <1>3, <1>4

LEMMA FreshCovers ==
  ASSUME RouterTyped, RelayedTyped, CacheCovers, NEW r \in Routers
  PROVE  CacheOK(Fresh(r), r)
<1>1. Fresh(r) \in [DOMAIN Fresh(r) -> 0 .. now] /\ DOMAIN Fresh(r) \subseteq Keys
  BY FreshFacts DEF RouterTyped
<1>2. ASSUME NEW k \in DOMAIN relayed[r], now <= relayed[r][k] + SEEN_TTL
      PROVE  k \in DOMAIN Fresh(r) /\ relayed[r][k] <= Fresh(r)[k]
  <2>1. k \in DOMAIN seen[r] /\ relayed[r][k] <= seen[r][k]
    BY <1>2 DEF CacheCovers
  <2>2. seen[r][k] \in 0 .. now /\ relayed[r][k] \in 0 .. now /\ now \in Nat
    BY <2>1, <1>2 DEF RouterTyped, RelayedTyped
  <2>3. ~(seen[r][k] < now - SEEN_TTL)
    BY <1>2, <2>1, <2>2, RouterAssumption
  <2> QED
    BY <2>1, <2>3, FreshFacts
<1> QED
  BY <1>1, <1>2 DEF CacheOK

LEMMA MarkedCovers ==
  ASSUME RouterTyped, RelayedTyped, CacheCovers, NEW r \in Routers, NEW h, Key(h) \in Keys
  PROVE  CacheOK(Marked(r, h), r) /\ Key(h) \in DOMAIN Marked(r, h) /\ Marked(r, h)[Key(h)] = now
<1>1. CacheOK(Fresh(r), r) /\ now \in Nat
  BY FreshCovers DEF RouterTyped
<1>2. /\ DOMAIN Marked(r, h) = DOMAIN Fresh(r) \union {Key(h)}
      /\ Marked(r, h)[Key(h)] = now
      /\ \A k \in DOMAIN Fresh(r) : k # Key(h) => Marked(r, h)[k] = Fresh(r)[k]
  BY DEF Marked
<1>3. Marked(r, h) \in [DOMAIN Marked(r, h) -> 0 .. now]
  BY <1>1 DEF Marked, CacheOK
<1>4. \A k \in DOMAIN relayed[r] : relayed[r][k] \in 0 .. now
  BY DEF RelayedTyped
<1> QED
  BY <1>1, <1>2, <1>3, <1>4 DEF CacheOK

(* Replacing one router's cache by such a one.                             *)
StillCovers ==
  \A s \in Routers : \A k \in DOMAIN relayed[s] :
    now <= relayed[s][k] + SEEN_TTL =>
      k \in DOMAIN seen'[s] /\ relayed[s][k] <= seen'[s][k]

LEMMA CacheStep ==
  ASSUME RouterTyped, CacheCovers, NEW r \in Routers, NEW c, CacheOK(c, r),
         Cleanup(r, c)
  PROVE  /\ DOMAIN seen' = Routers /\ seen'[r] = c
         /\ \A s \in Routers :
              DOMAIN seen'[s] \subseteq Keys /\ seen'[s] \in [DOMAIN seen'[s] -> 0 .. now]
         /\ cleaned' \in [Routers -> 0 .. now]
         /\ StillCovers
<1>1. seen' = [seen EXCEPT ![r] = c]
  BY DEF Cleanup
<1>2. DOMAIN seen' = Routers /\ seen'[r] = c /\ \A s \in Routers : s # r => seen'[s] = seen[s]
  BY <1>1 DEF RouterTyped
<1>3. cleaned' \in [Routers -> 0 .. now]
  BY DEF Cleanup, RouterTyped
<1>4. \A s \in Routers :
        DOMAIN seen'[s] \subseteq Keys /\ seen'[s] \in [DOMAIN seen'[s] -> 0 .. now]
  BY <1>2 DEF CacheOK, RouterTyped
<1>5. StillCovers
  BY <1>2 DEF CacheCovers, CacheOK, StillCovers
<1> QED
  BY <1>2, <1>3, <1>4, <1>5

(* should_accept, for a copy on the air.                                   *)
LEMMA AcceptStep ==
  ASSUME IInv, NEW m \in air, ShouldAccept(m.to, m.head), now' = now, started' = started
  PROVE  /\ RouterTyped' /\ StillCovers
         /\ ~IsDuplicate(m.to, m.head) =>
              Key(m.head) \in DOMAIN seen'[m.to] /\ seen'[m.to][Key(m.head)] = now
<1> DEFINE r == m.to
           k == Key(m.head)
<1>1. PICK p \in Packets :
        /\ m.head.hops \in 0 .. 7
        /\ k = Key(p) /\ m.head.src = p.src
        /\ r \in Routers /\ k \in started
  BY CopyFacts DEF IInv, Typed, OnAir
<1>2. p.src \in Routers /\ k \in Keys /\ k[1] = m.head.src
  BY <1>1, PacketFacts
<1>3. RouterTyped /\ RelayedTyped /\ CacheCovers /\ now \in Nat
  BY DEF IInv, Typed, RouterTyped
<1>4. CacheOK(Fresh(r), r) /\ CacheOK(Marked(r, m.head), r)
      /\ k \in DOMAIN Marked(r, m.head) /\ Marked(r, m.head)[k] = now
  BY <1>1, <1>2, <1>3, FreshCovers, MarkedCovers
<1> DEFINE c == IF IsDuplicate(r, m.head) THEN Fresh(r) ELSE Marked(r, m.head)
<1>5. CacheOK(c, r) /\ Cleanup(r, c) /\ neighbors' = [neighbors EXCEPT ![r] = NeighborsWith(r, m.head)]
  BY <1>4 DEF ShouldAccept
<1>6. ~IsDuplicate(r, m.head) => c = Marked(r, m.head)
  OBVIOUS
<1> HIDE DEF c
<1>7. /\ DOMAIN seen' = Routers /\ seen'[r] = c
      /\ \A s \in Routers :
           DOMAIN seen'[s] \subseteq Keys /\ seen'[s] \in [DOMAIN seen'[s] -> 0 .. now]
      /\ cleaned' \in [Routers -> 0 .. now]
      /\ StillCovers
  BY <1>1, <1>3, <1>5, CacheStep
<1>8. neighbors' \in [Routers -> SUBSET Routers]
  BY <1>1, <1>2, <1>3, <1>5 DEF NeighborsWith, RouterTyped
<1>9. RouterTyped'
  BY <1>3, <1>7, <1>8 DEF RouterTyped
<1> QED
  BY <1>4, <1>6, <1>7, <1>9

(* A transmission raises the reach of its node, and of no other.           *)
LEMMA ReachedStep ==
  ASSUME NetTyped, NEW n \in Routers, NEW h \in HeaderType, Key(h) \in Keys, Reached(n, h)
  PROVE  /\ reach' \in [Keys -> [Routers -> -1 .. 7]]
         /\ reach'[Key(h)][n] >= OverTheAir(h).hops
         /\ \A k \in Keys, q \in Routers :
              /\ reach'[k][q] >= reach[k][q]
              /\ reach'[k][q] # reach[k][q] =>
                   k = Key(h) /\ q = n /\ reach'[k][q] = OverTheAir(h).hops
<1> DEFINE hops == OverTheAir(h).hops
           k == Key(h)
           new == IF hops > reach[k][n] THEN hops ELSE reach[k][n]
<1>1. hops \in 0 .. 7 /\ k \in Keys
  BY OnAirFacts
<1>2. reach' = [reach EXCEPT ![k][n] = new] /\ reach \in [Keys -> [Routers -> -1 .. 7]]
  BY DEF Reached, NetTyped
<1> HIDE DEF hops, k
<1>3. new \in -1 .. 7 /\ new >= hops /\ new >= reach[k][n] /\ (new # reach[k][n] => new = hops)
  BY <1>1, <1>2
<1> HIDE DEF new
<1>4. /\ reach' \in [Keys -> [Routers -> -1 .. 7]]
      /\ reach'[k][n] = new
      /\ \A j \in Keys, q \in Routers : ~(j = k /\ q = n) => reach'[j][q] = reach[j][q]
  BY <1>1, <1>2, <1>3
<1>5. \A j \in Keys, q \in Routers : reach[j][q] \in Int
  BY <1>2
<1> QED
  BY <1>1, <1>3, <1>4, <1>5 DEF hops, k

(* Transmitting what p is, with no more hops.                              *)
LEMMA TransmitStep ==
  ASSUME IInv, NEW p \in Packets, NEW n \in Routers, NEW h \in HeaderType,
         Key(h) = Key(p),
         OverTheAir(h) = [OverTheAir(p) EXCEPT !.hops = OverTheAir(h).hops],
         OverTheAir(h).hops <= OverTheAir(p).hops,
         p.dest # Everyone => n = p.src,
         Dist[p.src][n] <= LimitOf[Key(p)] - OverTheAir(h).hops,
         Reached(n, h), air' \subseteq air \union Copies(n, h),
         started \subseteq started', started' \subseteq Keys, Key(p) \in started'
  PROVE  /\ OnAir' /\ ReachRadius' /\ reach' \in [Keys -> [Routers -> -1 .. 7]]
         /\ \A m \in air' : m.to \in Routers /\ Key(m.head) \in started' /\ m.head.hops \in 0 .. 7
<1> DEFINE o == OverTheAir(h)
           k == Key(p)
<1>1. p \in HeaderType /\ k \in Keys /\ k[1] = p.src /\ LimitOf[k] \in 0 .. 7
      /\ o.hops \in 0 .. 7 /\ Key(o) = k
  BY PacketFacts, OnAirFacts
<1>2. NetTyped
  BY DEF IInv, Typed
<1>3. /\ reach' \in [Keys -> [Routers -> -1 .. 7]]
      /\ reach'[k][n] >= o.hops
      /\ \A j \in Keys, q \in Routers :
           /\ reach'[j][q] >= reach[j][q]
           /\ reach'[j][q] # reach[j][q] => j = k /\ q = n /\ reach'[j][q] = o.hops
  BY <1>1, <1>2, ReachedStep
<1> HIDE DEF k
<1>4. ASSUME NEW m \in air'
      PROVE  m \in air \/ (m.head = o /\ <<n, m.to>> \in Links /\ m.to \in Routers)
  <2>1. m \in air \/ m \in Copies(n, h)
    OBVIOUS
  <2>2. CASE m \in Copies(n, h)
    <3>1. PICK l \in Links : l[1] = n /\ m = [to |-> l[2], head |-> o]
      BY <2>2 DEF Copies
    <3>2. l = <<n, m.to>> /\ m.to \in Routers
      BY <3>1, NetworkAssumption
    <3> QED
      BY <3>1, <3>2
  <2> QED
    BY <2>1, <2>2
<1> HIDE DEF o
<1>5. ASSUME NEW m \in air'
      PROVE  m.to \in Routers /\ Key(m.head) \in started' /\ m.head.hops \in 0 .. 7
  BY <1>1, <1>2, <1>4 DEF NetTyped, k
<1>6. RelayedUnaltered'
  <2> SUFFICES ASSUME NEW m \in air'
               PROVE  \E q \in Packets :
                        /\ m.head = [OverTheAir(q) EXCEPT !.hops = m.head.hops]
                        /\ m.head.hops <= OverTheAir(q).hops
                        /\ q.dest # Everyone => <<q.src, m.to>> \in Links
    BY DEF RelayedUnaltered
  <2>1. CASE m \in air
    BY <2>1 DEF IInv, OnAir, RelayedUnaltered
  <2>2. CASE m.head = o /\ <<n, m.to>> \in Links
    <3>1. /\ m.head = [OverTheAir(p) EXCEPT !.hops = m.head.hops]
          /\ m.head.hops <= OverTheAir(p).hops
      BY <2>2 DEF o
    <3>2. p.dest # Everyone => <<p.src, m.to>> \in Links
      BY <2>2
    <3> QED
      BY <3>1, <3>2, Zenon
  <2> QED
    BY <1>4, <2>1, <2>2
<1>7. AirReach'
  <2> SUFFICES ASSUME NEW m \in air'
               PROVE  \E q \in Routers :
                        <<q, m.to>> \in Links /\ reach'[Key(m.head)][q] >= m.head.hops
    BY DEF AirReach
  <2>1. CASE m \in air
    <3>1. PICK q \in Routers : <<q, m.to>> \in Links /\ reach[Key(m.head)][q] >= m.head.hops
      BY <2>1 DEF IInv, OnAir, AirReach
    <3>2. Key(m.head) \in Keys /\ m.head.hops \in 0 .. 7
      BY <2>1, <1>2 DEF NetTyped
    <3> DEFINE j == Key(m.head)
    <3>3. j \in Keys /\ q \in Routers
      BY <3>2
    <3>4. reach[j][q] >= m.head.hops
      BY <3>1
    <3> HIDE DEF j
    <3>5. reach[j][q] \in -1 .. 7 /\ reach'[j][q] \in -1 .. 7 /\ reach'[j][q] >= reach[j][q]
      BY <1>2, <1>3, <3>3 DEF NetTyped
    <3>6. reach'[j][q] >= m.head.hops
      BY <3>2, <3>4, <3>5
    <3> QED
      BY <3>1, <3>6 DEF j
  <2>2. CASE m.head = o /\ <<n, m.to>> \in Links
    BY <1>1, <1>3, <2>2
  <2> QED
    BY <1>4, <2>1, <2>2
<1>8. ReachRadius'
  <2> SUFFICES ASSUME NEW j \in Keys, NEW q \in Routers, reach'[j][q] # -1
               PROVE  j \in started' /\ Dist[j[1]][q] <= LimitOf[j] - reach'[j][q]
    BY DEF ReachRadius
  <2>1. CASE reach'[j][q] = reach[j][q]
    BY <2>1 DEF IInv, ReachRadius
  <2>2. CASE reach'[j][q] # reach[j][q]
    BY <1>1, <1>3, <2>2 DEF k, o
  <2> QED
    BY <2>1, <2>2
<1> QED
  BY <1>3, <1>5, <1>6, <1>7, <1>8 DEF OnAir

-----------------------------------------------------------------------------
(* Each action preserves the invariant.                                    *)
LEMMA InitInv == Init => IInv
<1> SUFFICES ASSUME Init PROVE IInv
  OBVIOUS
<1>1. RouterTyped /\ RelayedTyped /\ NetTyped
  <2>1. now = 0 /\ NoneSeen \in [{} -> 0 .. now] /\ DOMAIN NoneSeen = {}
    BY DEF Init, NoneSeen
  <2>2. RouterTyped
    BY <2>1 DEF Init, RouterInit, RouterTyped
  <2>3. RelayedTyped
    BY <2>1 DEF Init, RelayedTyped
  <2>4. -1 \in -1 .. 7
    OBVIOUS
  <2>5. first \in [Routers -> [Keys -> -1 .. 7]] /\ reach \in [Keys -> [Routers -> -1 .. 7]]
    BY <2>4, Zenon DEF Init
  <2>6. NetTyped
    BY <2>5 DEF Init, NetTyped
  <2> QED
    BY <2>2, <2>3, <2>6
<1>2. OnAir /\ ReachRadius /\ CacheCovers
  BY DEF Init, RouterInit, NoneSeen, OnAir, RelayedUnaltered, AirReach, ReachRadius,
         CacheCovers
<1> QED
  BY <1>1, <1>2 DEF IInv, Typed

(* What TransmitStep asks of a source, and of a relay of m.                *)
LEMMA OriginateInv == IInv /\ (\E p \in Packets : Originate(p)) => IInv'
<1> SUFFICES ASSUME IInv, NEW p \in Packets, Originate(p) PROVE IInv'
  OBVIOUS
<1>1. /\ p \in HeaderType /\ p.src \in Routers /\ Key(p) \in Keys
      /\ LimitOf[Key(p)] = OverTheAir(p).hops
      /\ Dist[p.src][p.src] = 0
      /\ OverTheAir(p).hops \in 0 .. 7
      /\ OverTheAir(p) \in HeaderType
  BY PacketFacts, OnAirFacts, NetworkAssumption
<1>2. OverTheAir(p) = [OverTheAir(p) EXCEPT !.hops = OverTheAir(p).hops]
  BY <1>1, Zenon DEF HeaderType
<1>3. /\ started \subseteq started' /\ started' \subseteq Keys /\ Key(p) \in started'
      /\ Reached(p.src, p) /\ air' = air \union Copies(p.src, p)
      /\ UNCHANGED <<now, routerVars, first, relayed, lossy>>
  BY <1>1 DEF Originate, IInv, Typed, NetTyped
<1>4. Dist[p.src][p.src] <= LimitOf[Key(p)] - OverTheAir(p).hops
  BY <1>1
<1>5. air' \subseteq air \union Copies(p.src, p)
      /\ OverTheAir(p).hops <= OverTheAir(p).hops
      /\ (p.dest # Everyone => p.src = p.src)
  BY <1>1, <1>3
<1>6. /\ OnAir' /\ ReachRadius' /\ reach' \in [Keys -> [Routers -> -1 .. 7]]
      /\ \A m \in air' : m.to \in Routers /\ Key(m.head) \in started' /\ m.head.hops \in 0 .. 7
  BY <1>1, <1>2, <1>3, <1>4, <1>5, TransmitStep
<1>7. Typed'
  BY <1>3, <1>6 DEF IInv, Typed, RouterTyped, RelayedTyped, NetTyped, routerVars
<1>8. CacheCovers'
  BY <1>3 DEF IInv, CacheCovers, routerVars
<1> QED
  BY <1>6, <1>7, <1>8 DEF IInv

(* Nothing is transmitted, and the air holds no more than before.          *)
LEMMA QuietStep ==
  ASSUME IInv, air' \subseteq air, started' = started, reach' = reach,
         first' \in [Routers -> [Keys -> -1 .. 7]], lossy' \in BOOLEAN
  PROVE  NetTyped' /\ OnAir' /\ ReachRadius'
<1>1. NetTyped'
  BY DEF IInv, Typed, NetTyped
<1>2. RelayedUnaltered'
  BY DEF IInv, OnAir, RelayedUnaltered
<1>3. AirReach'
  BY DEF IInv, OnAir, AirReach
<1>4. ReachRadius'
  BY DEF IInv, ReachRadius
<1> QED
  BY <1>1, <1>2, <1>3, <1>4 DEF OnAir

LEMMA FirstTyped ==
  ASSUME IInv, NEW m \in air
  PROVE  FirstWith(m) \in [Routers -> [Keys -> -1 .. 7]]
<1> DEFINE k == Key(m.head)
           r == m.to
           hops == IF first[r][k] = -1 THEN m.head.hops ELSE first[r][k]
<1>1. m.to \in Routers /\ k \in Keys /\ m.head.hops \in 0 .. 7
      /\ first \in [Routers -> [Keys -> -1 .. 7]]
  BY DEF IInv, Typed, NetTyped
<1>2. FirstWith(m) = [first EXCEPT ![r][k] = hops]
  BY DEF FirstWith
<1> HIDE DEF k
<1>3. hops \in -1 .. 7
  BY <1>1
<1> HIDE DEF hops
<1> QED
  BY <1>1, <1>2, <1>3

LEMMA DropDuplicateInv == IInv /\ (\E m \in air : DropDuplicate(m)) => IInv'
<1> SUFFICES ASSUME IInv, NEW m \in air, DropDuplicate(m) PROVE IInv'
  OBVIOUS
<1>1. ShouldAccept(m.to, m.head) /\ air' \subseteq air
      /\ UNCHANGED <<now, started, first, relayed, reach, lossy>>
  BY DEF DropDuplicate
<1>2. RouterTyped' /\ StillCovers
  BY <1>1, AcceptStep
<1>3. NetTyped' /\ OnAir' /\ ReachRadius'
  <2>1. first' \in [Routers -> [Keys -> -1 .. 7]] /\ lossy' \in BOOLEAN
    BY <1>1 DEF IInv, Typed, NetTyped
  <2> QED
    BY <1>1, <2>1, QuietStep
<1>4. RelayedTyped' /\ CacheCovers'
  BY <1>1, <1>2 DEF IInv, Typed, RelayedTyped, CacheCovers, StillCovers
<1> QED
  BY <1>2, <1>3, <1>4 DEF IInv, Typed

LEMMA AcceptLastInv == IInv /\ (\E m \in air : AcceptLast(m)) => IInv'
<1> SUFFICES ASSUME IInv, NEW m \in air, AcceptLast(m) PROVE IInv'
  OBVIOUS
<1>1. ShouldAccept(m.to, m.head) /\ air' \subseteq air /\ first' = FirstWith(m)
      /\ UNCHANGED <<now, started, relayed, reach, lossy>>
  BY DEF AcceptLast
<1>2. RouterTyped' /\ StillCovers
  BY <1>1, AcceptStep
<1>3. NetTyped' /\ OnAir' /\ ReachRadius'
  <2>1. first' \in [Routers -> [Keys -> -1 .. 7]] /\ lossy' \in BOOLEAN
    BY <1>1, FirstTyped DEF IInv, Typed, NetTyped
  <2> QED
    BY <1>1, <2>1, QuietStep
<1>4. RelayedTyped' /\ CacheCovers'
  BY <1>1, <1>2 DEF IInv, Typed, RelayedTyped, CacheCovers, StillCovers
<1> QED
  BY <1>2, <1>3, <1>4 DEF IInv, Typed

(* What a relay of m transmits, and that a node in range transmitted m.    *)
LEMMA RelayFacts ==
  ASSUME IInv, NEW m \in air, ShouldRebroadcast(m.to, m.head)
  PROVE  \E p \in Packets :
           LET h == PrepareRebroadcast(m.head)
           IN  /\ h \in HeaderType /\ Key(h) = Key(p) /\ Key(m.head) = Key(p)
               /\ OverTheAir(h) = [OverTheAir(p) EXCEPT !.hops = OverTheAir(h).hops]
               /\ OverTheAir(h).hops = m.head.hops - 1
               /\ OverTheAir(h).hops \in 0 .. 6
               /\ OverTheAir(h).hops <= OverTheAir(p).hops
               /\ p.dest = Everyone
               /\ Dist[p.src][m.to] <= LimitOf[Key(p)] - OverTheAir(h).hops
               /\ m.to \in Routers /\ Key(p) \in started
<1> DEFINE n == m.head.hops
           h == PrepareRebroadcast(m.head)
<1>1. PICK p \in Packets :
        /\ m.head = [OverTheAir(p) EXCEPT !.hops = n]
        /\ n \in 0 .. 7 /\ n <= OverTheAir(p).hops
        /\ Key(m.head) = Key(p)
        /\ m.head.src = p.src /\ m.head.dest = p.dest
        /\ m.to \in Routers /\ Key(m.head) \in started
  BY CopyFacts DEF IInv, Typed, OnAir
<1>2. n \in 1 .. 7 /\ p.dest = Everyone
  BY <1>1 DEF ShouldRebroadcast
<1>3. /\ p \in HeaderType /\ p.src \in Routers /\ Key(p) \in Keys /\ Key(p)[1] = p.src
      /\ OverTheAir(p).hops \in 0 .. 7 /\ OverTheAir(p) \in HeaderType
      /\ LimitOf[Key(p)] = OverTheAir(p).hops
  BY PacketFacts, OnAirFacts
<1>4. /\ h \in HeaderType /\ h.hops = n - 1 /\ Key(h) = Key(p)
      /\ OverTheAir(h) = [OverTheAir(p) EXCEPT !.hops = n - 1]
  BY <1>1, <1>2, <1>3, RelayedHeader
<1>5. OverTheAir(h).hops = n - 1
  BY <1>3, <1>4 DEF HeaderType
<1>6. Dist[p.src][m.to] <= LimitOf[Key(p)] - (n - 1)
  <2>1. PICK q \in Routers : <<q, m.to>> \in Links /\ reach[Key(p)][q] >= n
    BY <1>1 DEF IInv, OnAir, AirReach
  <2>2. reach[Key(p)][q] \in -1 .. 7 /\ reach[Key(p)][q] # -1
    BY <1>2, <1>3, <2>1 DEF IInv, Typed, NetTyped
  <2>3. Dist[p.src][q] <= LimitOf[Key(p)] - reach[Key(p)][q]
    BY <1>3, <2>2 DEF IInv, ReachRadius
  <2>4. Dist[p.src][m.to] <= Dist[p.src][q] + 1
        /\ Dist[p.src][m.to] \in Nat /\ Dist[p.src][q] \in Nat
    BY <1>1, <1>3, <2>1, NetworkAssumption
  <2> QED
    BY <1>2, <1>3, <2>1, <2>2, <2>3, <2>4
<1> HIDE DEF h, n
<1>7. n - 1 \in 0 .. 6 /\ n - 1 <= OverTheAir(p).hops
  BY <1>1, <1>2, <1>3
<1>8. OverTheAir(h) = [OverTheAir(p) EXCEPT !.hops = OverTheAir(h).hops]
  BY <1>4, <1>5
<1> QED
  BY <1>1, <1>2, <1>4, <1>5, <1>6, <1>7, <1>8 DEF h, n

LEMMA RelayInv == IInv /\ (\E m \in air : Relay(m)) => IInv'
<1> SUFFICES ASSUME IInv, NEW m \in air, Relay(m) PROVE IInv'
  OBVIOUS
<1> DEFINE r == m.to
           h == PrepareRebroadcast(m.head)
           k == Key(m.head)
<1>1. /\ ~IsDuplicate(r, m.head) /\ ShouldRebroadcast(r, m.head)
      /\ ShouldAccept(r, m.head)
      /\ air' = (air \ {m}) \union Copies(r, h)
      /\ first' = FirstWith(m)
      /\ relayed' = [relayed EXCEPT ![r] =
                       [j \in DOMAIN relayed[r] \union {k} |->
                          IF j = k THEN now ELSE relayed[r][j]]]
      /\ Reached(r, h)
      /\ UNCHANGED <<now, started, lossy>>
  BY DEF Relay
<1>2. PICK p \in Packets :
        /\ h \in HeaderType /\ Key(h) = Key(p) /\ k = Key(p)
        /\ OverTheAir(h) = [OverTheAir(p) EXCEPT !.hops = OverTheAir(h).hops]
        /\ OverTheAir(h).hops \in 0 .. 6
        /\ OverTheAir(h).hops <= OverTheAir(p).hops
        /\ p.dest = Everyone
        /\ Dist[p.src][r] <= LimitOf[Key(p)] - OverTheAir(h).hops
        /\ r \in Routers /\ Key(p) \in started
  BY <1>1, RelayFacts
<1> HIDE DEF h
<1>3. /\ RouterTyped' /\ StillCovers
      /\ k \in DOMAIN seen'[r] /\ seen'[r][k] = now
  BY <1>1, AcceptStep
<1>4. /\ OnAir' /\ ReachRadius' /\ reach' \in [Keys -> [Routers -> -1 .. 7]]
      /\ \A c \in air' : c.to \in Routers /\ Key(c.head) \in started' /\ c.head.hops \in 0 .. 7
  <2>1. /\ air' \subseteq air \union Copies(r, h)
        /\ started \subseteq started' /\ started' \subseteq Keys /\ Key(p) \in started'
        /\ (p.dest # Everyone => r = p.src)
    BY <1>1, <1>2 DEF IInv, Typed, NetTyped
  <2> HIDE DEF r
  <2> QED
    BY <1>1, <1>2, <2>1, TransmitStep
<1>5. NetTyped'
  BY <1>1, <1>4, FirstTyped DEF IInv, Typed, NetTyped
<1>6. /\ RelayedTyped /\ k \in Keys /\ now \in Nat
      /\ \A s \in Routers : \A j \in DOMAIN relayed[s] : relayed[s][j] \in 0 .. now
  BY <1>2, PacketFacts DEF IInv, Typed, RelayedTyped, RouterTyped
<1>7. /\ DOMAIN relayed' = Routers
      /\ DOMAIN relayed'[r] = DOMAIN relayed[r] \union {k}
      /\ relayed'[r] = [j \in DOMAIN relayed[r] \union {k} |->
                          IF j = k THEN now ELSE relayed[r][j]]
      /\ \A s \in Routers : s # r => relayed'[s] = relayed[s]
  BY <1>1, <1>2, <1>6 DEF RelayedTyped
<1>8. RelayedTyped'
  <2> SUFFICES ASSUME NEW s \in Routers
               PROVE  DOMAIN relayed'[s] \subseteq Keys
                      /\ relayed'[s] \in [DOMAIN relayed'[s] -> 0 .. now]
    BY <1>1, <1>7 DEF RelayedTyped
  <2>1. CASE s = r
    BY <1>6, <1>7, <2>1 DEF RelayedTyped
  <2>2. CASE s # r
    BY <1>6, <1>7, <2>2 DEF RelayedTyped
  <2> QED
    BY <2>1, <2>2
<1>9. CacheCovers'
  <2> SUFFICES ASSUME NEW s \in Routers, NEW j \in DOMAIN relayed'[s],
                      now <= relayed'[s][j] + SEEN_TTL
               PROVE  j \in DOMAIN seen'[s] /\ relayed'[s][j] <= seen'[s][j]
    BY <1>1 DEF CacheCovers
  <2>1. CASE s = r /\ j = k
    BY <1>3, <1>6, <1>7, <2>1
  <2>2. CASE ~(s = r /\ j = k)
    BY <1>3, <1>7, <2>2 DEF StillCovers
  <2> QED
    BY <2>1, <2>2
<1> QED
  BY <1>3, <1>4, <1>5, <1>8, <1>9 DEF IInv, Typed

LEMMA LoseInv == IInv /\ (\E m \in air : Lose(m)) => IInv'
<1> SUFFICES ASSUME IInv, NEW m \in air, Lose(m) PROVE IInv'
  OBVIOUS
<1>1. air' \subseteq air /\ lossy' = TRUE
      /\ UNCHANGED <<now, routerVars, started, first, relayed, reach>>
  BY DEF Lose
<1>2. NetTyped' /\ OnAir' /\ ReachRadius'
  <2>1. first' \in [Routers -> [Keys -> -1 .. 7]] /\ lossy' \in BOOLEAN
    BY <1>1 DEF IInv, Typed, NetTyped
  <2> QED
    BY <1>1, <2>1, QuietStep
<1>3. RouterTyped' /\ RelayedTyped' /\ CacheCovers'
  BY <1>1 DEF IInv, Typed, RouterTyped, RelayedTyped, CacheCovers, routerVars
<1> QED
  BY <1>2, <1>3 DEF IInv, Typed

(* Nothing happens on the air or to the neighbours.                        *)
LEMMA StillStep ==
  ASSUME IInv, UNCHANGED <<started, air, first, reach, lossy, neighbors>>
  PROVE  /\ NetTyped' /\ OnAir' /\ ReachRadius'
         /\ UNCHANGED <<now, relayed>> => RelayedTyped'
<1>1. NetTyped' /\ OnAir' /\ ReachRadius'
  <2>1. air' \subseteq air /\ first' \in [Routers -> [Keys -> -1 .. 7]] /\ lossy' \in BOOLEAN
    BY DEF IInv, Typed, NetTyped
  <2> QED
    BY <2>1, QuietStep
<1>2. UNCHANGED <<now, relayed>> => RelayedTyped'
  BY DEF IInv, Typed, RelayedTyped
<1> QED
  BY <1>1, <1>2

LEMMA AskInv == IInv /\ (\E r \in Routers : Ask(r)) => IInv'
<1> SUFFICES ASSUME IInv, NEW r \in Routers, Ask(r) PROVE IInv'
  OBVIOUS
<1>1. Cleanup(r, Fresh(r)) /\ UNCHANGED neighbors /\ UNCHANGED <<now, netVars>>
  BY DEF Ask, Query
<1>2. /\ DOMAIN seen' = Routers
      /\ \A s \in Routers :
           DOMAIN seen'[s] \subseteq Keys /\ seen'[s] \in [DOMAIN seen'[s] -> 0 .. now]
      /\ cleaned' \in [Routers -> 0 .. now]
      /\ StillCovers
  BY <1>1, FreshCovers, CacheStep DEF IInv, Typed
<1>3. RouterTyped'
  BY <1>1, <1>2 DEF IInv, Typed, RouterTyped
<1>4. RelayedTyped' /\ NetTyped' /\ OnAir' /\ ReachRadius'
  BY <1>1, StillStep DEF netVars
<1>5. CacheCovers'
  BY <1>1, <1>2 DEF CacheCovers, StillCovers, netVars
<1> QED
  BY <1>3, <1>4, <1>5 DEF IInv, Typed

LEMMA ForgetInv == IInv /\ (\E r \in Routers : Forget(r)) => IInv'
<1> SUFFICES ASSUME IInv, NEW r \in Routers, Forget(r) PROVE IInv'
  OBVIOUS
<1>1. /\ seen' = [seen EXCEPT ![r] = NoneSeen]
      /\ relayed' = [relayed EXCEPT ![r] = NoneSeen]
      /\ UNCHANGED <<cleaned, neighbors>>
      /\ UNCHANGED <<now, started, air, first, reach, lossy>>
  BY DEF Forget, ClearSeen
<1>2. NoneSeen \in [{} -> 0 .. now] /\ DOMAIN NoneSeen = {}
  BY DEF NoneSeen
<1>3. /\ DOMAIN seen' = Routers /\ DOMAIN relayed' = Routers
      /\ seen'[r] = NoneSeen /\ relayed'[r] = NoneSeen
      /\ \A s \in Routers : s # r => seen'[s] = seen[s] /\ relayed'[s] = relayed[s]
  BY <1>1 DEF IInv, Typed, RouterTyped, RelayedTyped
<1> HIDE DEF NoneSeen
<1>4. RouterTyped'
  BY <1>1, <1>2, <1>3 DEF IInv, Typed, RouterTyped
<1>5. RelayedTyped'
  BY <1>1, <1>2, <1>3 DEF IInv, Typed, RelayedTyped
<1>6. CacheCovers'
  BY <1>1, <1>2, <1>3 DEF IInv, CacheCovers
<1>7. NetTyped' /\ OnAir' /\ ReachRadius'
  BY <1>1, StillStep
<1> QED
  BY <1>4, <1>5, <1>6, <1>7 DEF IInv, Typed

LEMMA ForgetNeighborsInv == IInv /\ (\E r \in Routers : ForgetNeighbors(r)) => IInv'
<1> SUFFICES ASSUME IInv, NEW r \in Routers, ForgetNeighbors(r) PROVE IInv'
  OBVIOUS
<1>1. neighbors' = [neighbors EXCEPT ![r] = {}]
      /\ UNCHANGED <<seen, cleaned>> /\ UNCHANGED <<now, netVars>>
  BY DEF ForgetNeighbors, ClearNeighbors
<1>2. neighbors' \in [Routers -> SUBSET Routers]
  BY <1>1 DEF IInv, Typed, RouterTyped
<1>3. RouterTyped' /\ RelayedTyped' /\ NetTyped' /\ CacheCovers'
  BY <1>1, <1>2 DEF IInv, Typed, RouterTyped, RelayedTyped, NetTyped, CacheCovers, netVars
<1>4. OnAir' /\ ReachRadius'
  BY <1>1 DEF IInv, OnAir, RelayedUnaltered, AirReach, ReachRadius, netVars
<1> QED
  BY <1>3, <1>4 DEF IInv, Typed

(* Time only shortens what the cache has to cover.                         *)
LEMMA TickInv == IInv /\ Tick => IInv'
<1> SUFFICES ASSUME IInv, Tick PROVE IInv'
  OBVIOUS
<1>1. now \in Nat /\ now' = now + 1 /\ UNCHANGED <<routerVars, netVars>>
  BY DEF Tick, IInv, Typed, RouterTyped
<1>2. now' \in Nat /\ 0 .. now \subseteq 0 .. now'
  BY <1>1
<1>3. RouterTyped'
  <2>1. \A r \in Routers : seen[r] \in [DOMAIN seen[r] -> 0 .. now']
    BY <1>2 DEF IInv, Typed, RouterTyped
  <2> QED
    BY <1>1, <1>2, <2>1 DEF IInv, Typed, RouterTyped, routerVars
<1>4. RelayedTyped'
  <2>1. \A r \in Routers : relayed[r] \in [DOMAIN relayed[r] -> 0 .. now']
    BY <1>2 DEF IInv, Typed, RelayedTyped
  <2> QED
    BY <1>1, <2>1 DEF IInv, Typed, RelayedTyped, netVars
<1>5. CacheCovers'
  <2> SUFFICES ASSUME NEW r \in Routers, NEW k \in DOMAIN relayed[r],
                      now' <= relayed[r][k] + SEEN_TTL
               PROVE  k \in DOMAIN seen[r] /\ relayed[r][k] <= seen[r][k]
    BY <1>1 DEF CacheCovers, netVars, routerVars
  <2>1. relayed[r][k] \in 0 .. now
    BY DEF IInv, Typed, RelayedTyped
  <2>2. now <= relayed[r][k] + SEEN_TTL
    BY <1>1, <2>1, RouterAssumption
  <2> QED
    BY <2>2 DEF IInv, CacheCovers
<1>6. NetTyped' /\ OnAir' /\ ReachRadius'
  BY <1>1, StillStep DEF netVars, routerVars
<1> QED
  BY <1>3, <1>4, <1>5, <1>6 DEF IInv, Typed

LEMMA NextInv == IInv /\ [Next]_vars => IInv'
<1> SUFFICES ASSUME IInv, [Next]_vars PROVE IInv'
  OBVIOUS
<1>1. CASE UNCHANGED vars
  <2>1. NetTyped' /\ OnAir' /\ ReachRadius' /\ RelayedTyped'
    BY <1>1, StillStep DEF vars, netVars, routerVars
  <2>2. RouterTyped' /\ CacheCovers'
    BY <1>1 DEF vars, netVars, routerVars, IInv, Typed, RouterTyped, CacheCovers
  <2> QED
    BY <2>1, <2>2 DEF IInv, Typed
<1>2. CASE \E p \in Packets : Originate(p)
  BY <1>2, OriginateInv
<1>3. CASE \E m \in air : Arrive(m) \/ Lose(m)
  BY <1>3, DropDuplicateInv, AcceptLastInv, RelayInv, LoseInv DEF Arrive
<1>4. CASE \E r \in Routers : Ask(r) \/ Forget(r) \/ ForgetNeighbors(r)
  BY <1>4, AskInv, ForgetInv, ForgetNeighborsInv
<1>5. CASE Tick
  BY <1>5, TickInv
<1> QED
  BY <1>1, <1>2, <1>3, <1>4, <1>5 DEF Next

-----------------------------------------------------------------------------
LEMMA Invariant == Spec => []IInv
  BY InitInv, NextInv, PTL DEF Spec

(* The routers' caches, clocks and neighbour tables and what is on the air *)
(* are what routing.py's annotations say, in any mesh.                     *)
THEOREM NetworkTyped == Spec => []TypeOK
<1>1. IInv => TypeOK
  BY DEF IInv, Typed, RouterTyped, RelayedTyped, NetTyped, TypeOK
<1> QED
  BY <1>1, Invariant, PTL

(* However often and in whatever order a packet is relayed, what is on the *)
(* air differs from what its source sent in the hop limit only             *)
(* (prepare_rebroadcast, routing.py 249-260), and a unicast is not relayed *)
(* at all (233).                                                           *)
THEOREM RelaysPassOnWhatWasSent == Spec => []RelayedUnaltered
<1>1. IInv => RelayedUnaltered
  BY DEF IInv, OnAir
<1> QED
  BY <1>1, Invariant, PTL

(* A packet in the cache, as long as its time to live lasts, is a          *)
(* duplicate: no router rebroadcasts twice within seen_ttl, whenever its   *)
(* cleanups run (routing.py 96-106, 183).                                  *)
LEMMA RelayWaits ==
  ASSUME IInv, NEW m \in air, Relay(m), NEW r \in Routers,
         NEW k \in DOMAIN relayed[r] \intersect DOMAIN relayed'[r],
         relayed'[r][k] # relayed[r][k]
  PROVE  relayed'[r][k] > relayed[r][k] + SEEN_TTL
<1>1. /\ ~IsDuplicate(m.to, m.head)
      /\ relayed' = [relayed EXCEPT ![m.to] =
                       [j \in DOMAIN relayed[m.to] \union {Key(m.head)} |->
                          IF j = Key(m.head) THEN now ELSE relayed[m.to][j]]]
  BY DEF Relay
<1>2. m.to = r /\ k = Key(m.head) /\ relayed'[r][k] = now
  BY <1>1 DEF IInv, Typed, RelayedTyped
<1>3. k \notin DOMAIN Fresh(r)
  BY <1>1, <1>2 DEF IsDuplicate
<1>4. ~(now <= relayed[r][k] + SEEN_TTL)
  BY <1>3, FreshCovers DEF CacheOK, IInv, Typed
<1>5. now \in Nat /\ relayed[r][k] \in 0 .. now
  BY DEF IInv, Typed, RouterTyped, RelayedTyped
<1> QED
  BY <1>2, <1>4, <1>5, RouterAssumption

THEOREM RelaysAreSpaced == Spec => RelayGap
<1> DEFINE Gap == \A r \in Routers : \A k \in DOMAIN relayed[r] \intersect DOMAIN relayed'[r] :
                    relayed'[r][k] # relayed[r][k] => relayed'[r][k] > relayed[r][k] + SEEN_TTL
<1>1. IInv /\ [Next]_vars => [Gap]_vars
  <2> SUFFICES ASSUME IInv, Next, NEW r \in Routers,
                      NEW k \in DOMAIN relayed[r] \intersect DOMAIN relayed'[r],
                      relayed'[r][k] # relayed[r][k]
               PROVE  relayed'[r][k] > relayed[r][k] + SEEN_TTL
    OBVIOUS
  <2>1. (\E m \in air : Relay(m)) \/ (\E s \in Routers : Forget(s))
    BY DEF Next, Originate, Arrive, DropDuplicate, AcceptLast, Lose, Ask, ForgetNeighbors,
           Tick, netVars
  <2>2. CASE \E m \in air : Relay(m)
    BY <2>2, RelayWaits
  <2>3. CASE \E s \in Routers : Forget(s)
    BY <2>3 DEF Forget, NoneSeen, IInv, Typed, RelayedTyped
  <2> QED
    BY <2>1, <2>2, <2>3
<1> QED
  BY <1>1, Invariant, PTL DEF Spec, RelayGap

(* The network of routers floods as Flood says.                            *)
LEMMA StepsSpread == IInv /\ [Next]_vars => [FloodOf!FloodNext]_reach
<1> SUFFICES ASSUME IInv, Next, reach' # reach PROVE FloodOf!FloodNext
  BY DEF vars, netVars
<1>1. (\E p \in Packets : Originate(p)) \/ (\E m \in air : Relay(m))
  BY DEF Next, Arrive, DropDuplicate, AcceptLast, Lose, Ask, Forget, ForgetNeighbors,
         Tick, netVars
<1>2. CASE \E p \in Packets : Originate(p)
  <2>1. PICK p \in Packets : Originate(p)
    BY <1>2
  <2>2. Key(p) \in Keys /\ SourceOf[Key(p)] = p.src /\ LimitOf[Key(p)] = OverTheAir(p).hops
    BY PacketFacts
  <2>3. FloodOf!Start(Key(p))
    BY <2>1, <2>2 DEF Originate, Reached, FloodOf!Start, FloodOf!Raised
  <2> QED
    BY <2>2, <2>3 DEF FloodOf!FloodNext
<1>3. CASE \E m \in air : Relay(m)
  <2>1. PICK m \in air : Relay(m)
    BY <1>3
  <2> DEFINE h == PrepareRebroadcast(m.head)
             k == Key(m.head)
             hops == OverTheAir(h).hops
  <2>2. Reached(m.to, h) /\ ShouldRebroadcast(m.to, m.head)
    BY <2>1 DEF Relay
  <2>3. Key(h) = k /\ hops = m.head.hops - 1 /\ hops \in 0 .. 6 /\ m.to \in Routers
        /\ k \in started /\ m.head.hops \in 0 .. 7
    BY <2>2, RelayFacts DEF IInv, Typed, NetTyped
  <2>4. PICK n \in Routers : <<n, m.to>> \in Links /\ reach[k][n] >= m.head.hops
    BY DEF IInv, OnAir, AirReach
  <2>5. k \in Keys /\ reach[k][n] \in -1 .. 7
    BY <2>3, <2>4 DEF IInv, Typed, NetTyped
  <2>6. hops \in 0 .. reach[k][n] - 1
    BY <2>3, <2>4, <2>5
  <2>7. FloodOf!Raised(k, m.to, hops)
    BY <2>2, <2>3 DEF Reached, FloodOf!Raised
  <2> HIDE DEF k, hops
  <2>8. FloodOf!Spread(k, m.to)
    BY <2>4, <2>6, <2>7 DEF FloodOf!Spread
  <2> QED
    BY <2>3, <2>5, <2>8 DEF FloodOf!FloodNext
<1> QED
  BY <1>1, <1>2, <1>3

(* Whatever the caches, the clocks and the losses: a node transmits a      *)
(* packet only if it is the source or heard a node in range transmit it    *)
(* with more hops left (routing.py 207-236, 249-260).                      *)
THEOREM NetworkFloods == Spec => ImplementsFlood
<1>1. Init => FloodOf!FloodInit
  BY DEF Init, FloodOf!FloodInit
<1> QED
  BY <1>1, StepsSpread, Invariant, PTL DEF Spec, ImplementsFlood, FloodOf!FloodSpec

-----------------------------------------------------------------------------
(* As long as nothing was lost, what the source sent and what every node   *)
(* it was accepted by with hops left passed on is on its way to each node  *)
(* in range, or was accepted there.  A copy is only refused where one was  *)
(* accepted, whatever the caches forgot since.                             *)
SeenAccepted == \A r \in Routers : \A k \in DOMAIN seen[r] : first[r][k] # -1

Coming(k, r) == first[r][k] # -1 \/ \E m \in air : m.to = r /\ Key(m.head) = k

PassesOn(k, n) == n = k[1] \/ (first[n][k] > 0 /\ PacketOf(k).dest = Everyone)

HandedOn ==
  ~lossy => \A k \in started, n \in Routers :
              PassesOn(k, n) => \A r \in Routers : <<n, r>> \in Links => Coming(k, r)

FirstStarted == \A r \in Routers, k \in Keys : first[r][k] # -1 => k \in started

Delivery == SeenAccepted /\ FirstStarted /\ HandedOn

LEMMA FirstFacts ==
  ASSUME IInv, NEW m \in air, first' = FirstWith(m)
  PROVE  LET k == Key(m.head)
         IN  /\ first'[m.to][k] # -1
             /\ first[m.to][k] = -1 => first'[m.to][k] = m.head.hops
             /\ \A r \in Routers, j \in Keys :
                  (first[r][j] # -1 \/ r # m.to \/ j # k) => first'[r][j] = first[r][j]
<1> DEFINE k == Key(m.head)
           r == m.to
           hops == IF first[r][k] = -1 THEN m.head.hops ELSE first[r][k]
<1>1. r \in Routers /\ k \in Keys /\ m.head.hops \in 0 .. 7
      /\ first \in [Routers -> [Keys -> -1 .. 7]]
  BY DEF IInv, Typed, NetTyped
<1>2. first' = [first EXCEPT ![r][k] = hops]
  BY DEF FirstWith
<1> HIDE DEF k, r
<1>3. hops # -1 /\ (first[r][k] # -1 => hops = first[r][k]) /\ (first[r][k] = -1 => hops = m.head.hops)
  BY <1>1
<1> HIDE DEF hops
<1>4. first'[r][k] = hops /\ \A q \in Routers, j \in Keys : (q # r \/ j # k) => first'[q][j] = first[q][j]
  BY <1>1, <1>2
<1> QED
  BY <1>1, <1>3, <1>4 DEF k, r

(* The cache after should_accept.                                          *)
LEMMA SeenAcceptedStep ==
  ASSUME IInv, SeenAccepted, NEW m \in air, ShouldAccept(m.to, m.head),
         first' = FirstWith(m) \/ (IsDuplicate(m.to, m.head) /\ first' = first)
  PROVE  SeenAccepted'
<1> DEFINE k == Key(m.head)
           c == IF IsDuplicate(m.to, m.head) THEN Fresh(m.to) ELSE Marked(m.to, m.head)
<1>1. RouterTyped /\ m.to \in Routers /\ k \in Keys
  BY DEF IInv, Typed, NetTyped
<1>2. seen' = [seen EXCEPT ![m.to] = c]
  BY DEF ShouldAccept, Cleanup
<1>3. DOMAIN c \subseteq DOMAIN seen[m.to] \union (IF IsDuplicate(m.to, m.head) THEN {} ELSE {k})
  BY <1>1, FreshFacts DEF Marked
<1> HIDE DEF c, k
<1>4. \A r \in Routers : r # m.to => seen'[r] = seen[r]
  BY <1>1, <1>2 DEF RouterTyped
<1>5. seen'[m.to] = c
  BY <1>1, <1>2 DEF RouterTyped
<1>6. \A r \in Routers : \A j \in DOMAIN seen[r] : j \in Keys /\ first[r][j] # -1
  BY <1>1 DEF SeenAccepted, RouterTyped
<1>7. \A r \in Routers : \A j \in DOMAIN seen[r] : first'[r][j] # -1
  BY <1>6, FirstFacts
<1>8. ~IsDuplicate(m.to, m.head) => first'[m.to][k] # -1
  BY FirstFacts DEF k
<1> QED
  BY <1>3, <1>4, <1>5, <1>7, <1>8 DEF SeenAccepted

(* The copy that arrives was accepted there, now or before.                *)
LEMMA ComingStep ==
  ASSUME IInv, NEW m \in air, air \ {m} \subseteq air',
         first' = FirstWith(m) \/ (first' = first /\ first[m.to][Key(m.head)] # -1),
         NEW k \in Keys, NEW r \in Routers, Coming(k, r)
  PROVE  Coming(k, r)'
<1>1. first[r][k] # -1 => first'[r][k] # -1
  BY FirstFacts
<1>2. first'[m.to][Key(m.head)] # -1
  BY FirstFacts
<1> QED
  BY <1>1, <1>2 DEF Coming

LEMMA FirstStartedStep ==
  ASSUME IInv, FirstStarted, NEW m \in air, started' = started,
         first' = FirstWith(m) \/ first' = first
  PROVE  FirstStarted'
<1>1. Key(m.head) \in started
  BY DEF IInv, Typed, NetTyped
<1>2. \A r \in Routers, j \in Keys : j # Key(m.head) => first'[r][j] = first[r][j]
  BY FirstFacts
<1> QED
  BY <1>1, <1>2 DEF FirstStarted

LEMMA DropHandsOn ==
  ASSUME IInv, Delivery, NEW m \in air, DropDuplicate(m)
  PROVE  Delivery'
<1>1. IsDuplicate(m.to, m.head) /\ ShouldAccept(m.to, m.head) /\ air' = air \ {m}
      /\ UNCHANGED <<now, started, first, relayed, reach, lossy>>
  BY DEF DropDuplicate
<1>2. RouterTyped /\ m.to \in Routers /\ started \subseteq Keys
  BY DEF IInv, Typed, NetTyped
<1>3. Key(m.head) \in DOMAIN seen[m.to]
  BY <1>1, <1>2, FreshFacts DEF IsDuplicate
<1>4. first[m.to][Key(m.head)] # -1
  BY <1>2, <1>3 DEF Delivery, SeenAccepted
<1>5. SeenAccepted' /\ FirstStarted'
  BY <1>1, SeenAcceptedStep, FirstStartedStep DEF Delivery
<1>6. \A k \in Keys, r \in Routers : Coming(k, r) => Coming(k, r)'
  BY <1>1, <1>4, ComingStep
<1>7. HandedOn'
  BY <1>1, <1>2, <1>6 DEF Delivery, HandedOn, PassesOn
<1> QED
  BY <1>5, <1>7 DEF Delivery

LEMMA AcceptLastHandsOn ==
  ASSUME IInv, Delivery, NEW m \in air, AcceptLast(m)
  PROVE  Delivery'
<1> DEFINE k == Key(m.head)
<1>1. ~IsDuplicate(m.to, m.head) /\ ShouldAccept(m.to, m.head) /\ air' = air \ {m}
      /\ ~ShouldRebroadcast(m.to, m.head) /\ first' = FirstWith(m)
      /\ UNCHANGED <<now, started, relayed, reach, lossy>>
  BY DEF AcceptLast
<1>2. PICK p \in Packets :
        /\ m.head.hops \in 0 .. 7 /\ k = Key(p)
        /\ m.head.src = p.src /\ m.head.dest = p.dest
        /\ m.to \in Routers
  BY CopyFacts DEF IInv, Typed, OnAir
<1>3. k \in Keys /\ PacketOf(k) = p /\ k[1] = p.src /\ started \subseteq Keys
  BY <1>2, PacketFacts DEF IInv, Typed, NetTyped
<1>4. SeenAccepted' /\ FirstStarted'
  BY <1>1, SeenAcceptedStep, FirstStartedStep DEF Delivery
<1>5. \A j \in Keys, r \in Routers : Coming(j, r) => Coming(j, r)'
  BY <1>1, ComingStep
<1>6. ASSUME NEW j \in started, NEW n \in Routers, PassesOn(j, n)'
      PROVE  PassesOn(j, n)
  <2>1. CASE first[n][j] = -1 /\ n = m.to /\ j = k
    <3>1. first'[n][j] = m.head.hops
      BY <1>1, <2>1, FirstFacts
    <3> QED
      BY <1>1, <1>2, <1>3, <2>1, <3>1, <1>6 DEF PassesOn, ShouldRebroadcast
  <2>2. CASE ~(first[n][j] = -1 /\ n = m.to /\ j = k)
    <3>1. first'[n][j] = first[n][j]
      BY <1>1, <1>3, <2>2, FirstFacts
    <3> QED
      BY <1>6, <3>1 DEF PassesOn
  <2> QED
    BY <2>1, <2>2
<1>7. HandedOn'
  BY <1>1, <1>3, <1>5, <1>6 DEF Delivery, HandedOn
<1> QED
  BY <1>4, <1>7 DEF Delivery

LEMMA RelayHandsOn ==
  ASSUME IInv, Delivery, NEW m \in air, Relay(m)
  PROVE  Delivery'
<1> DEFINE k == Key(m.head)
           h == PrepareRebroadcast(m.head)
<1>1. ~IsDuplicate(m.to, m.head) /\ ShouldAccept(m.to, m.head)
      /\ air' = (air \ {m}) \union Copies(m.to, h) /\ first' = FirstWith(m)
      /\ ShouldRebroadcast(m.to, m.head)
      /\ UNCHANGED <<now, started, lossy>>
  BY DEF Relay
<1>2. PICK p \in Packets : h \in HeaderType /\ Key(h) = Key(p) /\ k = Key(p) /\ m.to \in Routers
  BY <1>1, RelayFacts
<1>3. k \in Keys /\ started \subseteq Keys /\ Key(OverTheAir(h)) = k
  BY <1>2, PacketFacts, OnAirFacts DEF IInv, Typed, NetTyped
<1>4. SeenAccepted' /\ FirstStarted'
  BY <1>1, SeenAcceptedStep, FirstStartedStep DEF Delivery
<1>5. \A j \in Keys, r \in Routers : Coming(j, r) => Coming(j, r)'
  BY <1>1, ComingStep
<1>6. \A r \in Routers : <<m.to, r>> \in Links => Coming(k, r)'
  <2> SUFFICES ASSUME NEW r \in Routers, <<m.to, r>> \in Links PROVE Coming(k, r)'
    OBVIOUS
  <2> DEFINE c == [to |-> r, head |-> OverTheAir(h)]
  <2>1. c \in Copies(m.to, h)
    BY DEF Copies
  <2>2. c \in air' /\ c.to = r /\ Key(c.head) = k
    BY <1>1, <1>3, <2>1
  <2> QED
    BY <2>2 DEF Coming
<1>7. ASSUME NEW j \in started, NEW n \in Routers, PassesOn(j, n)', ~(n = m.to /\ j = k)
      PROVE  PassesOn(j, n)
  <2>1. first'[n][j] = first[n][j]
    BY <1>1, <1>3, <1>7, FirstFacts
  <2> QED
    BY <1>7, <2>1 DEF PassesOn
<1> HIDE DEF k
<1>8. HandedOn'
  BY <1>1, <1>3, <1>5, <1>6, <1>7 DEF Delivery, HandedOn
<1> QED
  BY <1>4, <1>8 DEF Delivery

LEMMA OriginateHandsOn ==
  ASSUME IInv, Delivery, NEW p \in Packets, Originate(p)
  PROVE  Delivery'
<1> DEFINE k == Key(p)
<1>1. started' = started \union {k} /\ air' = air \union Copies(p.src, p) /\ k \notin started
      /\ UNCHANGED <<now, routerVars, first, relayed, lossy>>
  BY DEF Originate
<1>2. k \in Keys /\ k[1] = p.src /\ Key(OverTheAir(p)) = k /\ started \subseteq Keys
  BY PacketFacts, OnAirFacts DEF IInv, Typed, NetTyped
<1>3. SeenAccepted'
  BY <1>1 DEF Delivery, SeenAccepted, routerVars
<1>4. \A j \in Keys, r \in Routers : Coming(j, r) => Coming(j, r)'
  BY <1>1 DEF Coming
<1>5. \A r \in Routers : <<p.src, r>> \in Links => Coming(k, r)'
  <2> SUFFICES ASSUME NEW r \in Routers, <<p.src, r>> \in Links PROVE Coming(k, r)'
    OBVIOUS
  <2> DEFINE c == [to |-> r, head |-> OverTheAir(p)]
  <2>1. c \in Copies(p.src, p)
    BY DEF Copies
  <2>2. c \in air' /\ c.to = r /\ Key(c.head) = k
    BY <1>1, <1>2, <2>1
  <2> QED
    BY <2>2 DEF Coming
<1>6. FirstStarted' /\ \A n \in Routers : first[n][k] = -1
  BY <1>1, <1>2 DEF Delivery, FirstStarted
<1>7. HandedOn'
  <2> SUFFICES ASSUME ~lossy, NEW j \in started', NEW n \in Routers, PassesOn(j, n),
                      NEW r \in Routers, <<n, r>> \in Links
               PROVE  Coming(j, r)'
    BY <1>1 DEF HandedOn, PassesOn
  <2>1. CASE j \in started
    BY <1>2, <1>4, <2>1 DEF Delivery, HandedOn
  <2>2. CASE j = k
    <3>1. n = p.src
      BY <1>2, <1>6, <2>2 DEF PassesOn
    <3> QED
      BY <1>5, <2>2, <3>1
  <2> QED
    BY <1>1, <2>1, <2>2
<1> QED
  BY <1>3, <1>6, <1>7 DEF Delivery

LEMMA DeliveryInit == Init => Delivery
<1> SUFFICES ASSUME Init PROVE Delivery
  OBVIOUS
<1>1. SeenAccepted
  BY DEF Init, RouterInit, NoneSeen, SeenAccepted
<1>2. FirstStarted /\ HandedOn
  BY DEF Init, FirstStarted, HandedOn
<1> QED
  BY <1>1, <1>2 DEF Delivery

LEMMA DeliveryNext == IInv /\ Delivery /\ [Next]_vars => Delivery'
<1> SUFFICES ASSUME IInv, Delivery, [Next]_vars PROVE Delivery'
  OBVIOUS
<1>1. ASSUME UNCHANGED <<started, air, first, lossy>>,
             \A r \in Routers : DOMAIN seen'[r] \subseteq DOMAIN seen[r]
      PROVE  Delivery'
  BY <1>1 DEF Delivery, SeenAccepted, FirstStarted, HandedOn, PassesOn, Coming
<1>2. CASE UNCHANGED vars
  BY <1>1, <1>2 DEF vars, netVars, routerVars
<1>3. CASE \E p \in Packets : Originate(p)
  BY <1>3, OriginateHandsOn
<1>4. CASE \E m \in air : Arrive(m)
  BY <1>4, DropHandsOn, AcceptLastHandsOn, RelayHandsOn DEF Arrive
<1>5. CASE \E m \in air : Lose(m)
  <2>1. UNCHANGED <<routerVars, started, first>> /\ lossy' = TRUE
    BY <1>5 DEF Lose
  <2> QED
    BY <2>1 DEF Delivery, SeenAccepted, FirstStarted, HandedOn, routerVars
<1>6. CASE \E r \in Routers : Ask(r)
  <2>1. PICK r \in Routers : seen' = [seen EXCEPT ![r] = Fresh(r)] /\ UNCHANGED netVars
    BY <1>6 DEF Ask, Query, Cleanup
  <2>2. \A q \in Routers : DOMAIN seen'[q] \subseteq DOMAIN seen[q]
    BY <2>1, FreshFacts DEF IInv, Typed, RouterTyped
  <2> QED
    BY <1>1, <2>1, <2>2 DEF netVars
<1>7. CASE \E r \in Routers : Forget(r)
  <2>1. PICK r \in Routers : seen' = [seen EXCEPT ![r] = NoneSeen]
                             /\ UNCHANGED <<started, air, first, lossy>>
    BY <1>7 DEF Forget, ClearSeen
  <2>2. \A q \in Routers : DOMAIN seen'[q] \subseteq DOMAIN seen[q]
    BY <2>1 DEF NoneSeen, IInv, Typed, RouterTyped
  <2> QED
    BY <1>1, <2>1, <2>2
<1>8. CASE (\E r \in Routers : ForgetNeighbors(r)) \/ Tick
  BY <1>1, <1>8 DEF ForgetNeighbors, ClearNeighbors, Tick, netVars, routerVars
<1> QED
  BY <1>2, <1>3, <1>4, <1>5, <1>6, <1>7, <1>8 DEF Next

(* Along a shortest path: a router d + 1 hops away is behind one d hops    *)
(* away, whose first copy had hops left.                                   *)
LEMMA CoveredFarther ==
  ASSUME IInv, Delivery, ShortestPaths, air = {}, ~lossy,
         NEW k \in started, PacketOf(k).dest = Everyone,
         \A n \in Routers : ~Overtaken(k, n),
         NEW d \in 0 .. 7,
         \A n \in Routers : n # k[1] /\ Within(k, n) /\ Dist[k[1]][n] <= d => first[n][k] # -1,
         NEW r \in Routers, r # k[1], Within(k, r), Dist[k[1]][r] <= d + 1
  PROVE  first[r][k] # -1
<1>1. k \in Keys /\ k[1] \in Routers /\ LimitOf[k] \in 0 .. 7
  <2>1. k \in Keys
    BY DEF IInv, Typed, NetTyped
  <2>2. PICK p \in Packets : k = Key(p)
    BY <2>1 DEF Keys
  <2> QED
    BY <2>1, <2>2, PacketFacts, OnAirFacts
<1>2. \A n \in Routers : Dist[k[1]][n] \in Nat
  BY <1>1, NetworkAssumption
<1>3. PICK n \in Routers : <<n, r>> \in Links /\ Dist[k[1]][n] = Dist[k[1]][r] - 1
  <2>1. Dist[k[1]][r] <= 8
    BY <1>1, <1>2 DEF Within
  <2> QED
    BY <1>1, <2>1, Zenon DEF ShortestPaths
<1>4. Dist[k[1]][n] <= d /\ Dist[k[1]][n] <= LimitOf[k] /\ Within(k, n)
  BY <1>1, <1>2, <1>3 DEF Within
<1>5. PassesOn(k, n)
  <2> SUFFICES ASSUME n # k[1] PROVE first[n][k] > 0
    BY DEF PassesOn
  <2>1. Dist[k[1]][n] > 0
    BY <1>1 DEF ShortestPaths
  <2>2. first[n][k] # -1
    BY <1>4
  <2>3. first[n][k] >= LimitOf[k] - (Dist[k[1]][n] - 1)
    <3>1. first[n][k] \in -1 .. 7
      BY <1>1 DEF IInv, Typed, NetTyped
    <3> QED
      BY <1>1, <1>2, <2>1, <2>2, <3>1 DEF Overtaken
  <2>4. first[n][k] \in Int
    BY <1>1 DEF IInv, Typed, NetTyped
  <2> QED
    BY <1>1, <1>2, <1>4, <2>3, <2>4
<1>6. Coming(k, r)
  BY <1>3, <1>5 DEF Delivery, HandedOn
<1> QED
  BY <1>6 DEF Coming

LEMMA Covers == IInv /\ Delivery /\ ShortestPaths => FloodCovers
<1> SUFFICES ASSUME IInv, Delivery, ShortestPaths, air = {}, ~lossy,
                    NEW k \in started, PacketOf(k).dest = Everyone,
                    \A n \in Routers : ~Overtaken(k, n)
             PROVE  \A r \in Routers : r # k[1] /\ Within(k, r) => first[r][k] # -1
  BY DEF FloodCovers
<1> DEFINE C(d) == \A n \in Routers :
                     n # k[1] /\ Within(k, n) /\ Dist[k[1]][n] <= d => first[n][k] # -1
<1>1. k \in Keys /\ k[1] \in Routers /\ LimitOf[k] \in 0 .. 7
  <2>1. k \in Keys
    BY DEF IInv, Typed, NetTyped
  <2>2. PICK p \in Packets : k = Key(p)
    BY <2>1 DEF Keys
  <2> QED
    BY <2>1, <2>2, PacketFacts, OnAirFacts
<1>2. C(0)
  <2>1. \A n \in Routers : n # k[1] => Dist[k[1]][n] > 0 /\ Dist[k[1]][n] \in Nat
    BY <1>1, NetworkAssumption DEF ShortestPaths
  <2> QED
    BY <2>1
<1>3. ASSUME NEW d \in 0 .. 7, C(d) PROVE C(d + 1)
  BY <1>3, CoveredFarther
<1> HIDE DEF C
<1>4. C(1)
  BY <1>2, <1>3
<1>5. C(2)
  BY <1>3, <1>4
<1>6. C(3)
  BY <1>3, <1>5
<1>7. C(4)
  BY <1>3, <1>6
<1>8. C(5)
  BY <1>3, <1>7
<1>9. C(6)
  BY <1>3, <1>8
<1>10. C(7)
  BY <1>3, <1>9
<1>11. C(8)
  BY <1>3, <1>10
<1>12. \A r \in Routers : Within(k, r) => Dist[k[1]][r] <= 8
  BY <1>1, NetworkAssumption DEF Within
<1> QED
  BY <1>11, <1>12 DEF C

(* When a flood is over, nothing was lost and nobody was overtaken, every  *)
(* router within the hop limit has accepted the packet, in any mesh, with  *)
(* any packets, times to live and clearing of caches in between            *)
(* (routing.py 183-191, 207-236): the duplicate test never leaves a hole.  *)
THEOREM FloodsCover == ShortestPaths => (Spec => []FloodCovers)
<1> SUFFICES ASSUME ShortestPaths PROVE Spec => []FloodCovers
  OBVIOUS
<1>1. Spec => []Delivery
  BY Invariant, DeliveryInit, DeliveryNext, PTL DEF Spec
<1>2. IInv /\ Delivery => FloodCovers
  BY Covers
<1> QED
  BY <1>1, <1>2, Invariant, PTL
===============================================================================
