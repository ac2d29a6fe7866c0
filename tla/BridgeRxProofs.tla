---------------------------- MODULE BridgeRxProofs ----------------------------
(***************************************************************************)
(* Proofs about BridgeRx, for any set of frames, any windows with          *)
(* DUP_WINDOW <= PURGE_AGE and any length of the message log.              *)
(***************************************************************************)
EXTENDS BridgeRx, SequenceTheorems, TLAPS

Entries == [frame : Frames, as : Readings, at : Nat]

LEMMA InitInv == Init => IInv
<1> SUFFICES ASSUME Init PROVE IInv
  OBVIOUS
<1>1. TypeOK
  <2>1. DOMAIN EmptyFun = {} /\ \A S : EmptyFun \in [{} -> S]
    BY DEF EmptyFun
  <2>2. log \in Seq([frame : Frames, as : Readings, at : Nat])
    BY DEF Init
  <2>3. DOMAIN seen = {} /\ DOMAIN nodes = {}
        /\ seen \in [{} -> Nat] /\ nodes \in [{} -> [seen : Nat, named : BOOLEAN]]
    BY <2>1 DEF Init
  <2> QED
    BY <2>2, <2>3, BridgeRxAssumption DEF Init, TypeOK
<1>2. Len(log) = 0
  BY DEF Init
<1>3. /\ NoRepeatWithinWindow /\ SeenCoversLog /\ SeenInPast
      /\ NodesCoverLog /\ LogAndCacheBounded
  BY <1>2, BridgeRxAssumption DEF Init, EmptyFun, NoRepeatWithinWindow,
     SeenCoversLog, SeenInPast, NodesCoverLog, LogAndCacheBounded
<1>4. NodeFileKept
  BY DEF Init, NodeFileKept
<1> QED
  BY <1>1, <1>3, <1>4 DEF IInv

(* A frame is a record over the header's components, and has a reading.    *)
LEMMA FrameFacts ==
  ASSUME NEW f \in Frames
  PROVE  /\ f.src \in Nodes \union {NoNode}
         /\ Header(f) \in Headers
         /\ Decodings(f) \subseteq Readings
         /\ \A d : Cleared(f, d) \subseteq Ids
<1>1. f \in FrameType
  BY BridgeRxAssumption
<1>2. f.src \in Nodes \union {NoNode} /\ f.pkt \in Nat /\ f.hops \in 0 .. 7
      /\ f.inner \in Ids \union {0}
  BY <1>1 DEF FrameType
<1>3. Header(f) \in Headers
  BY <1>2 DEF Header, Headers
<1>4. Decodings(f) \subseteq Readings
  BY DEF Decodings, Readings
<1>5. \A d : Cleared(f, d) \subseteq Ids
  BY <1>2 DEF Cleared
<1> QED
  BY <1>2, <1>3, <1>4, <1>5

(* The new log is the old one, shifted by at most one, and the new entry.  *)
LEMMA LogWithShape ==
  ASSUME TypeOK, Len(log) <= MAX_LOG, NEW f \in Frames, NEW d \in Readings
  PROVE  LET L == LogWith(f, d)
             n == Len(LogWith(f, d))
         IN  /\ L \in Seq(Entries)
             /\ n \in 1 .. MAX_LOG
             /\ L[n] = [frame |-> f, as |-> d, at |-> now]
             /\ \E k \in {0, 1} :
                  \A i \in 1 .. (n - 1) :
                    i + k \in 1 .. Len(log) /\ L[i] = log[i + k]
<1> DEFINE e == [frame |-> f, as |-> d, at |-> now]
           longer == Append(log, e)
<1>1. log \in Seq(Entries) /\ e \in Entries /\ Len(log) \in Nat
  BY DEF TypeOK, Entries
<1>2. /\ longer \in Seq(Entries) /\ Len(longer) = Len(log) + 1
      /\ longer[Len(log) + 1] = e
      /\ \A i \in 1 .. Len(log) : longer[i] = log[i]
  BY <1>1
<1>3. CASE Len(longer) <= MAX_LOG
  <2>1. LogWith(f, d) = longer
    BY <1>3 DEF LogWith
  <2>2. \A i \in 1 .. (Len(longer) - 1) :
          i + 0 \in 1 .. Len(log) /\ longer[i] = log[i + 0]
    BY <1>1, <1>2
  <2> HIDE DEF longer, e
  <2> QED
    BY <1>1, <1>2, <1>3, <2>1, <2>2, BridgeRxAssumption DEF e
<1>4. CASE ~(Len(longer) <= MAX_LOG)
  <2> DEFINE s == SubSeq(longer, 2, Len(longer))
  <2>1. LogWith(f, d) = s
    BY <1>4 DEF LogWith
  <2> HIDE DEF longer, e
  <2>2. Len(log) = MAX_LOG /\ Len(log) >= 1
    BY <1>1, <1>2, <1>4, BridgeRxAssumption
  <2>3. s \in Seq(Entries) /\ Len(s) = Len(log)
        /\ \A i \in 1 .. Len(log) : s[i] = longer[i + 1]
    BY <1>1, <1>2, <2>2
  <2>4. \A i \in 1 .. (Len(s) - 1) :
          i + 1 \in 1 .. Len(log) /\ s[i] = log[i + 1]
    BY <1>1, <1>2, <2>2, <2>3
  <2>5. s[Len(s)] = e
    BY <1>1, <1>2, <2>2, <2>3
  <2> HIDE DEF s
  <2> QED
    BY <2>1, <2>2, <2>3, <2>4, <2>5, BridgeRxAssumption DEF e
<1> QED
  BY <1>3, <1>4

(* The cache after a reception: the new header is in it, and an old one    *)
(* that is not too old is still there, with its time.                      *)
LEMMA MarkSeenFacts ==
  ASSUME TypeOK, NEW f \in Frames
  PROVE  LET m == MarkSeen(f) IN
         /\ DOMAIN m \subseteq Headers
         /\ m \in [DOMAIN m -> Nat]
         /\ \A h \in DOMAIN m :
              /\ now - m[h] < PURGE_AGE
              /\ \/ h = Header(f) /\ m[h] = now
                 \/ h # Header(f) /\ h \in DOMAIN seen /\ m[h] = seen[h]
         /\ PURGE_AGE > 0 => Header(f) \in DOMAIN m
         /\ \A h \in DOMAIN seen :
              h # Header(f) /\ now - seen[h] < PURGE_AGE => h \in DOMAIN m
<1> DEFINE S == DOMAIN seen \union {Header(f)}
           marked == [h \in S |-> IF h = Header(f) THEN now ELSE seen[h]]
           T == {h \in S : now - marked[h] < PURGE_AGE}
<1>1. MarkSeen(f) = [h \in T |-> marked[h]]
  BY DEF MarkSeen, Restrict
<1>2. now \in Nat /\ seen \in [DOMAIN seen -> Nat] /\ DOMAIN seen \subseteq Headers
  BY DEF TypeOK
<1>3. Header(f) \in Headers
  BY FrameFacts
<1>4. \A h \in S : marked[h] \in Nat
  BY <1>2
<1>5. DOMAIN MarkSeen(f) = T /\ \A h \in T : MarkSeen(f)[h] = marked[h]
  BY <1>1
<1>6. \A h \in S : h = Header(f) => marked[h] = now
  OBVIOUS
<1>7. \A h \in S : h # Header(f) => h \in DOMAIN seen /\ marked[h] = seen[h]
  OBVIOUS
<1>8. Header(f) \in S /\ marked[Header(f)] = now
  OBVIOUS
<1>9. MarkSeen(f) \in [T -> Nat]
  BY <1>1, <1>4
<1>10. PURGE_AGE > 0 => Header(f) \in T
  BY <1>2, <1>8
<1>11. \A h \in DOMAIN seen :
         h # Header(f) /\ now - seen[h] < PURGE_AGE => h \in T
  BY <1>7
<1>12. T \subseteq Headers
  BY <1>2, <1>3
<1> HIDE DEF marked, S
<1> QED
  BY <1>5, <1>6, <1>7, <1>9, <1>10, <1>11, <1>12

LEMMA NodesWithFacts ==
  ASSUME TypeOK, NEW f \in Frames, NEW d \in Readings
  PROVE  LET m == NodesWith(f, d) IN
         /\ DOMAIN m \subseteq Nodes
         /\ m \in [DOMAIN m -> [seen : Nat, named : BOOLEAN]]
         /\ DOMAIN nodes \subseteq DOMAIN m
         /\ \A n \in DOMAIN nodes :
              m[n] = nodes[n] \/ (m[n].seen = now /\ (nodes[n].named => m[n].named))
         /\ d # "error" /\ f.src # NoNode =>
              /\ f.src \in DOMAIN m
              /\ m[f.src].seen = now
              /\ d = "clear" /\ f.kind = "nodeinfo" => m[f.src].named
<1>1. /\ now \in Nat /\ DOMAIN nodes \subseteq Nodes
      /\ nodes \in [DOMAIN nodes -> [seen : Nat, named : BOOLEAN]]
  BY DEF TypeOK
<1>2. CASE d = "error" \/ f.src = NoNode
  BY <1>1, <1>2 DEF NodesWith
<1>3. CASE ~(d = "error" \/ f.src = NoNode)
  <2> DEFINE D == DOMAIN nodes \union {f.src}
             named(n) == \/ d = "clear" /\ f.kind = "nodeinfo"
                         \/ n \in DOMAIN nodes /\ nodes[n].named
             new(n) == [seen |-> now, named |-> named(n)]
  <2>1. NodesWith(f, d) = [n \in D |-> IF n # f.src THEN nodes[n] ELSE new(n)]
    BY <1>3 DEF NodesWith
  <2>2. f.src \in Nodes
    BY <1>3, FrameFacts
  <2>3. \A n : named(n) \in BOOLEAN
    OBVIOUS
  <2>4. \A n : new(n) \in [seen : Nat, named : BOOLEAN]
               /\ new(n).seen = now /\ new(n).named = named(n)
    <3> HIDE DEF named
    <3> QED
      BY <1>1, <2>3
  <2>5. \A n \in DOMAIN nodes : nodes[n].named => named(n)
    OBVIOUS
  <2>6. d = "clear" /\ f.kind = "nodeinfo" => named(f.src)
    OBVIOUS
  <2> HIDE DEF named, new
  <2>7. DOMAIN NodesWith(f, d) = D
        /\ \A n \in D : NodesWith(f, d)[n] = IF n # f.src THEN nodes[n] ELSE new(n)
    BY <2>1
  <2>8. NodesWith(f, d) \in [D -> [seen : Nat, named : BOOLEAN]]
    BY <1>1, <2>1, <2>4
  <2> QED
    BY <1>1, <1>3, <2>2, <2>4, <2>5, <2>6, <2>7, <2>8
<1> QED
  BY <1>2, <1>3

-----------------------------------------------------------------------------
(* Receiving a frame.                                                      *)
LEMMA ReceiveInv ==
  ASSUME IInv, NEW f \in Frames, Receive(f)
  PROVE  IInv'
<1> USE DEF IInv
<1>1. PICK d \in Decodings(f) :
        /\ nodes' = NodesWith(f, d)
        /\ pending' = pending \ Cleared(f, d)
        /\ log' = LogWith(f, d)
  BY DEF Receive
<1>2. /\ d \in Readings /\ Header(f) \in Headers /\ ~IsDuplicate(f)
      /\ seen' = MarkSeen(f) /\ UNCHANGED <<now, phase, nodeDb, disk, torn, lost>>
  BY FrameFacts DEF Receive, fileVars
<1>3. now \in Nat /\ Len(log) \in Nat /\ log \in Seq(Entries) /\ Len(log) <= MAX_LOG
  BY DEF TypeOK, LogAndCacheBounded, Entries
<1> DEFINE n == Len(log')
           new == [frame |-> f, as |-> d, at |-> now]
<1>4. log' \in Seq(Entries) /\ n \in 1 .. MAX_LOG /\ log'[n] = new
  BY <1>1, <1>2, <1>3, LogWithShape
<1>5. PICK k \in {0, 1} : \A i \in 1 .. (n - 1) :
        i + k \in 1 .. Len(log) /\ log'[i] = log[i + k]
  BY <1>1, <1>2, <1>3, LogWithShape
<1>6. \A i \in 1 .. n : i = n \/ i \in 1 .. (n - 1)
  BY <1>4
<1>7. \A i \in 1 .. Len(log) : log[i] \in Entries /\ log[i].at \in Nat
  <2>1. \A i \in 1 .. Len(log) : log[i] \in Entries
    BY <1>3
  <2>2. \A e \in Entries : e.at \in Nat
    BY DEF Entries
  <2> QED
    BY <2>1, <2>2
<1>8. new.frame = f /\ new.as = d /\ new.at = now
  OBVIOUS
<1> HIDE DEF n, new
<1>9. TypeOK'
  <2>1. DOMAIN seen' \subseteq Headers /\ seen' \in [DOMAIN seen' -> Nat]
    BY <1>2, MarkSeenFacts
  <2>2. DOMAIN nodes' \subseteq Nodes
        /\ nodes' \in [DOMAIN nodes' -> [seen : Nat, named : BOOLEAN]]
    BY <1>1, <1>2, NodesWithFacts
  <2>3. pending' \subseteq Ids
    BY <1>1 DEF TypeOK
  <2> QED
    BY <1>2, <1>4, <2>1, <2>2, <2>3 DEF TypeOK, Entries
<1>10. NoRepeatWithinWindow'
  <2> SUFFICES ASSUME NEW i \in 1 .. n, NEW j \in 1 .. n, i < j,
                      Header(log'[i].frame) = Header(log'[j].frame)
               PROVE  log'[j].at >= log'[i].at + DUP_WINDOW
    BY DEF NoRepeatWithinWindow, n
  <2>1. i \in 1 .. (n - 1) /\ i + k \in 1 .. Len(log) /\ log'[i] = log[i + k]
    BY <1>4, <1>5
  <2>2. CASE j = n
    <3>1. log'[j].at = now /\ Header(log[i + k].frame) = Header(f)
      BY <1>4, <1>8, <2>1, <2>2
    <3>2. now - log[i + k].at < DUP_WINDOW => now - seen[Header(f)] < DUP_WINDOW
          /\ Header(f) \in DOMAIN seen
      <4>1. Header(f) \in DOMAIN seen => seen[Header(f)] \in Nat
        BY DEF TypeOK
      <4> QED
        BY <1>3, <1>7, <2>1, <3>1, <4>1, BridgeRxAssumption DEF SeenCoversLog
    <3>3. now - log[i + k].at >= DUP_WINDOW
      BY <1>2, <1>3, <1>7, <2>1, <3>2, BridgeRxAssumption DEF IsDuplicate
    <3> QED
      BY <1>3, <1>7, <2>1, <3>1, <3>3, BridgeRxAssumption
  <2>3. CASE j # n
    <3>1. j \in 1 .. (n - 1) /\ j + k \in 1 .. Len(log) /\ log'[j] = log[j + k]
      BY <1>4, <1>5, <2>3
    <3>2. i + k < j + k
      BY <1>4
    <3> QED
      BY <2>1, <3>1, <3>2 DEF NoRepeatWithinWindow
  <2> QED
    BY <2>2, <2>3
<1>11. SeenCoversLog'
  <2> SUFFICES ASSUME NEW i \in 1 .. n
               PROVE  /\ log'[i].at <= now
                      /\ now - log'[i].at < DUP_WINDOW =>
                           /\ Header(log'[i].frame) \in DOMAIN seen'
                           /\ seen'[Header(log'[i].frame)] >= log'[i].at
    BY <1>2 DEF SeenCoversLog, n
  <2>1. CASE i = n
    BY <1>2, <1>3, <1>4, <1>8, <2>1, MarkSeenFacts, BridgeRxAssumption
  <2>2. CASE i # n
    <3>1. i + k \in 1 .. Len(log) /\ log'[i] = log[i + k]
      BY <1>5, <1>6, <2>2
    <3> DEFINE h == Header(log[i + k].frame)
    <3>2. log[i + k].at <= now /\ log[i + k].at \in Nat
      BY <1>7, <3>1 DEF SeenCoversLog
    <3>3. ASSUME now - log[i + k].at < DUP_WINDOW
          PROVE  h \in DOMAIN seen' /\ seen'[h] >= log[i + k].at
      <4>1. h \in DOMAIN seen /\ seen[h] >= log[i + k].at /\ seen[h] \in Nat
        BY <3>1, <3>3 DEF SeenCoversLog, TypeOK
      <4>2. now - seen[h] < PURGE_AGE /\ PURGE_AGE > 0
        BY <1>3, <3>2, <3>3, <4>1, BridgeRxAssumption
      <4> HIDE DEF h
      <4>3. h \in DOMAIN seen'
        BY <1>2, <4>1, <4>2, MarkSeenFacts
      <4>4. seen'[h] = now \/ seen'[h] = seen[h]
        BY <1>2, <4>3, MarkSeenFacts
      <4> QED
        BY <3>2, <4>1, <4>3, <4>4
    <3> QED
      BY <3>1, <3>2, <3>3
  <2> QED
    BY <2>1, <2>2
<1>12. SeenInPast'
  <2> SUFFICES ASSUME NEW h \in DOMAIN seen'
               PROVE  seen'[h] <= now
    BY <1>2 DEF SeenInPast
  <2>1. h \in DOMAIN MarkSeen(f) /\ seen'[h] = MarkSeen(f)[h]
    BY <1>2
  <2>2. \/ h = Header(f) /\ MarkSeen(f)[h] = now
        \/ h # Header(f) /\ h \in DOMAIN seen /\ MarkSeen(f)[h] = seen[h]
    <3>1. TypeOK
      OBVIOUS
    <3> HIDE DEF IInv
    <3> QED
      BY <2>1, <3>1, MarkSeenFacts, Zenon
  <2> QED
    BY <1>3, <2>1, <2>2 DEF SeenInPast
<1>13. NodesCoverLog'
  <2> SUFFICES ASSUME NEW i \in 1 .. n,
                      log'[i].as # "error", log'[i].frame.src # NoNode
               PROVE  /\ log'[i].frame.src \in DOMAIN nodes'
                      /\ nodes'[log'[i].frame.src].seen >= log'[i].at
                      /\ log'[i].as = "clear" /\ log'[i].frame.kind = "nodeinfo" =>
                           nodes'[log'[i].frame.src].named
    BY DEF NodesCoverLog, n
  <2>1. CASE i = n
    BY <1>1, <1>2, <1>3, <1>4, <1>8, <2>1, NodesWithFacts
  <2>2. CASE i # n
    <3> DEFINE e == log[i + k]
               s == e.frame.src
    <3>1. i + k \in 1 .. Len(log) /\ log'[i] = e
      BY <1>5, <1>6, <2>2
    <3>2. /\ s \in DOMAIN nodes /\ nodes[s].seen >= e.at
          /\ e.as = "clear" /\ e.frame.kind = "nodeinfo" => nodes[s].named
      BY <3>1 DEF NodesCoverLog
    <3>3. e.at <= now /\ e.at \in Nat
      BY <1>7, <3>1 DEF SeenCoversLog
    <3>4. /\ s \in DOMAIN nodes'
          /\ \/ nodes'[s] = nodes[s]
             \/ nodes'[s].seen = now /\ (nodes[s].named => nodes'[s].named)
      <4> HIDE DEF s
      <4> QED
        BY <1>1, <1>2, <3>2, NodesWithFacts
    <3> HIDE DEF e
    <3> QED
      BY <1>3, <3>1, <3>2, <3>3, <3>4
  <2> QED
    BY <2>1, <2>2
<1>14. LogAndCacheBounded'
  <2>1. \A h \in DOMAIN seen' : now - seen'[h] < PURGE_AGE
    BY <1>2, MarkSeenFacts
  <2> QED
    BY <1>2, <1>3, <1>4, <1>8, <2>1 DEF LogAndCacheBounded, n
<1>15. NodeFileKept'
  BY <1>2 DEF NodeFileKept
<1> QED
  BY <1>9, <1>10, <1>11, <1>12, <1>13, <1>14, <1>15

-----------------------------------------------------------------------------
(* The other actions.                                                      *)

Reception == NoRepeatWithinWindow /\ SeenCoversLog /\ SeenInPast
               /\ NodesCoverLog /\ LogAndCacheBounded

LEMMA ReceptionUnchanged ==
  ASSUME Reception, UNCHANGED <<now, seen, nodes, log>>
  PROVE  Reception'
  BY DEF Reception, NoRepeatWithinWindow, SeenCoversLog, SeenInPast,
         NodesCoverLog, LogAndCacheBounded

LEMMA PendingInv ==
  ASSUME IInv, NEW id \in Ids, Await(id) \/ GiveUp(id)
  PROVE  IInv'
<1>1. UNCHANGED <<now, seen, nodes, log, fileVars>> /\ pending' \subseteq Ids
  BY DEF Await, GiveUp, IInv, TypeOK
<1>2. TypeOK'
  BY <1>1 DEF IInv, TypeOK, fileVars
<1>3. Reception'
  BY <1>1, ReceptionUnchanged DEF IInv, Reception
<1>4. NodeFileKept'
  BY <1>1 DEF IInv, NodeFileKept, fileVars
<1> QED
  BY <1>2, <1>3, <1>4 DEF IInv, Reception

LEMMA TickInv ==
  ASSUME IInv, Tick
  PROVE  IInv'
<1>1. now' = now + 1 /\ now \in Nat /\ UNCHANGED <<rxVars, fileVars>>
  BY DEF Tick, IInv, TypeOK
<1>2. UNCHANGED <<seen, nodes, pending, log>>
  BY <1>1 DEF rxVars
<1>3. TypeOK'
  BY <1>1, <1>2 DEF IInv, TypeOK, fileVars
<1>4. NoRepeatWithinWindow' /\ NodesCoverLog' /\ LogAndCacheBounded'
  BY <1>2 DEF IInv, NoRepeatWithinWindow, NodesCoverLog, LogAndCacheBounded
<1>5. SeenInPast'
  BY <1>1, <1>2 DEF IInv, TypeOK, SeenInPast
<1>6. SeenCoversLog'
  <2>1. \A i \in 1 .. Len(log) : log[i].at \in Nat
    <3>1. log \in Seq(Entries)
      BY DEF IInv, TypeOK, Entries
    <3>2. \A i \in 1 .. Len(log) : log[i] \in Entries
      BY <3>1
    <3> QED
      BY <3>2 DEF Entries
  <2>2. \A i \in 1 .. Len(log) :
          now' - log[i].at < DUP_WINDOW => now - log[i].at < DUP_WINDOW
    BY <1>1, <2>1, BridgeRxAssumption
  <2> QED
    BY <1>1, <1>2, <2>1, <2>2 DEF IInv, SeenCoversLog
<1>7. NodeFileKept'
  BY <1>1 DEF IInv, NodeFileKept, fileVars
<1> QED
  BY <1>3, <1>4, <1>5, <1>6, <1>7 DEF IInv

(* A process that starts or stops takes or saves what the file held.       *)
LEMMA StartSignalInv ==
  ASSUME IInv, Start \/ Signal
  PROVE  IInv'
<1>1. UNCHANGED <<now, seen, nodes, pending, log>>
  BY DEF Start, Signal, rxVars
<1>2. Reception'
  BY <1>1, ReceptionUnchanged DEF IInv, Reception
<1>3. TypeOK'
  BY <1>1 DEF IInv, TypeOK, Start, Signal, SaveNodedb, Truncated
<1>4. NodeFileKept'
  BY DEF IInv, TypeOK, NodeFileKept, Start, Signal, SaveNodedb, Truncated
<1> QED
  BY <1>2, <1>3, <1>4 DEF IInv, Reception

(* A process that ends takes its memory with it.                           *)
LEMMA EndInv ==
  ASSUME IInv, Finish \/ Crash
  PROVE  IInv'
<1>1. Gone /\ now' = now /\ lost' = lost
  BY DEF Finish, Crash
<1>2. DOMAIN EmptyFun = {} /\ \A S : EmptyFun \in [{} -> S]
  BY DEF EmptyFun
<1>3. Len(log') = 0 /\ log' \in Seq([frame : Frames, as : Readings, at : Nat])
  BY <1>1 DEF Gone
<1>4. DOMAIN seen' = {} /\ DOMAIN nodes' = {} /\ seen' \in [{} -> Nat]
      /\ nodes' \in [{} -> [seen : Nat, named : BOOLEAN]]
  BY <1>1, <1>2 DEF Gone
<1>5. disk' \subseteq Nodes /\ torn' \in BOOLEAN
  BY DEF Finish, Crash, SaveNodedb, Truncated, IInv, TypeOK
<1>6. TypeOK'
  BY <1>1, <1>3, <1>4, <1>5 DEF Gone, IInv, TypeOK
<1>7. Reception'
  BY <1>3, <1>4, BridgeRxAssumption
  DEF Reception, NoRepeatWithinWindow, SeenCoversLog, SeenInPast,
      NodesCoverLog, LogAndCacheBounded
<1>8. NodeFileKept'
  BY <1>1 DEF Gone, IInv, TypeOK, NodeFileKept, Finish, Crash, SaveNodedb, Truncated
<1> QED
  BY <1>6, <1>7, <1>8 DEF IInv, Reception

LEMMA NextInv == IInv /\ [Next]_vars => IInv'
<1> SUFFICES ASSUME IInv, [Next]_vars PROVE IInv'
  OBVIOUS
<1>1. ASSUME NEW f \in Frames, Receive(f) PROVE IInv'
  BY <1>1, ReceiveInv
<1>2. ASSUME NEW id \in Ids, Await(id) \/ GiveUp(id) PROVE IInv'
  BY <1>2, PendingInv
<1>3. CASE Tick
  BY <1>3, TickInv
<1>4. CASE Start \/ Signal
  BY <1>4, StartSignalInv
<1>5. CASE Finish \/ Crash
  BY <1>5, EndInv
<1>6. CASE UNCHANGED vars
  <2>1. UNCHANGED <<now, seen, nodes, pending, log, phase, nodeDb, disk, torn, lost>>
    BY <1>6 DEF vars, rxVars, fileVars
  <2>2. TypeOK' /\ NodeFileKept'
    BY <2>1 DEF IInv, TypeOK, NodeFileKept
  <2>3. Reception'
    BY <2>1, ReceptionUnchanged DEF IInv, Reception
  <2> QED
    BY <2>2, <2>3 DEF IInv, Reception
<1> QED
  BY <1>1, <1>2, <1>3, <1>4, <1>5, <1>6 DEF Next

-----------------------------------------------------------------------------
(* Every behaviour of the receiving half satisfies the inductive invariant.*)
THEOREM ReceptionCorrect == Spec => []IInv
<1> QED
  BY InitInv, NextInv, PTL DEF Spec

(* The variables of the receiving half keep their types.                   *)
THEOREM ReceptionTypes == Spec => []TypeOK
<1>1. IInv => TypeOK
  BY DEF IInv
<1> QED
  BY <1>1, ReceptionCorrect, PTL

(* For every DUP_WINDOW <= PURGE_AGE, the message log never shows a frame  *)
(* twice within the window: the purge cannot undo the duplicate test.      *)
THEOREM NoFrameLoggedTwice == Spec => []NoRepeatWithinWindow
<1>1. IInv => NoRepeatWithinWindow
  BY DEF IInv
<1> QED
  BY <1>1, ReceptionCorrect, PTL

(* The node table knows at least what the message log shows.               *)
THEOREM NodeTableCoversLog == Spec => []NodesCoverLog
<1>1. IInv => NodesCoverLog
  BY DEF IInv
<1> QED
  BY <1>1, ReceptionCorrect, PTL

(* The message log and the cache of duplicates stay within their bounds.   *)
THEOREM LogAndCacheAreBounded == Spec => []LogAndCacheBounded
<1>1. IInv => LogAndCacheBounded
  BY DEF IInv
<1> QED
  BY <1>1, ReceptionCorrect, PTL

(* Only a start that meets a torn file loses the node table, however often *)
(* stop() runs and wherever the process dies.                              *)
THEOREM NodeFileSurvives == Spec => []NodeFileKept
<1>1. IInv => NodeFileKept
  BY DEF IInv
<1> QED
  BY <1>1, ReceptionCorrect, PTL
=============================================================================
