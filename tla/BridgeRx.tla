------------------------------- MODULE BridgeRx -------------------------------
(***************************************************************************)
(* The receiving half of MeshtasticBridge (src/src/bridge/bridge.py):      *)
(* _process_rx with its duplicate window, node table and message log, the  *)
(* clearing of _pending_acks, and the life of the process around it, from  *)
(* _load_nodedb through stop() to _save_nodedb and the crashes in between. *)
(*                                                                         *)
(* _process_rx has no await: one action per frame.  Times are wall-clock   *)
(* seconds that only move forward.  _rx_count is a statistic, and          *)
(* _last_rx_time is what BridgeTx calls busy; both are left out here.      *)
(***************************************************************************)
EXTENDS Integers, Sequences, Functions

CONSTANTS
  Nodes,        (* source addresses                                        *)
  NoNode,       (* the source address 0                                    *)
  Ids,          (* packet ids that send_text waits for                     *)
  Frames,       (* what the radio may deliver                              *)
  DUP_WINDOW,   (* 60: a header is a duplicate for this long               *)
  PURGE_AGE,    (* 300: a header is forgotten at this age                  *)
  MAX_LOG,      (* _max_message_log                                        *)
  OnDisk        (* the nodes in the node file before the first start       *)

(* src and pkt name the packet, hops is the hop limit of this copy; the    *)
(* body is encrypted under one of three keys and holds one kind of         *)
(* payload, "bare" being a header with nothing behind it; inData and inner *)
(* are the request id (field 8) of the Data message and of the Routing     *)
(* message inside it, 0 when there is none.                                *)
Kinds == {"bare", "text", "nodeinfo", "routing"}
FrameType ==
  [src : Nodes \union {NoNode}, pkt : Nat, hops : 0 .. 7,
   key : {"own", "LongFast", "other"}, kind : Kinds,
   inData : Ids \union {0}, inner : Ids \union {0}]

ASSUME BridgeRxAssumption ==
  /\ Frames \subseteq FrameType
  /\ NoNode \notin Nodes
  /\ Ids \subseteq Nat \ {0}
  /\ DUP_WINDOW \in Nat /\ PURGE_AGE \in Nat /\ DUP_WINDOW <= PURGE_AGE
  /\ MAX_LOG \in Nat \ {0}
  /\ OnDisk \subseteq Nodes

VARIABLES
  now,       (* time.time()                                                *)
  seen,      (* _seen_packets: a partial function from headers to times    *)
  nodes,     (* _nodes: what was heard of each source                      *)
  pending,   (* the keys of _pending_acks                                  *)
  log,       (* _message_log: each frame, how it was decoded, and when     *)
  phase,     (* "down", "up", or "stopping": a stop() has run              *)
  nodeDb,    (* _node_db                                                   *)
  disk,      (* what a start reads from the node file, {} if it is absent  *)
  torn,      (* the file is cut short: json.loads refuses it               *)
  lost       (* a start has met a torn file                                *)

rxVars == <<seen, nodes, pending, log>>
fileVars == <<phase, nodeDb, disk, torn, lost>>
vars == <<now, rxVars, fileVars>>

(* The first 16 bytes: what the duplicate window compares (529).           *)
Header(f) == <<f.src, f.pkt, f.hops>>
Headers == (Nodes \union {NoNode}) \X Nat \X (0 .. 7)
Readings == {"clear", "noise", "error"}

TypeOK ==
  /\ now \in Nat
  /\ DOMAIN seen \subseteq Headers /\ seen \in [DOMAIN seen -> Nat]
  /\ DOMAIN nodes \subseteq Nodes
  /\ nodes \in [DOMAIN nodes -> [seen : Nat, named : BOOLEAN]]
  /\ pending \subseteq Ids
  /\ log \in Seq([frame : Frames, as : Readings, at : Nat])
  /\ phase \in {"down", "up", "stopping"}
  /\ nodeDb \subseteq Nodes /\ disk \subseteq Nodes
  /\ torn \in BOOLEAN /\ lost \in BOOLEAN

EmptyFun == [x \in {} |-> 0]

Init ==
  /\ now = 0
  /\ seen = EmptyFun /\ nodes = EmptyFun /\ pending = {} /\ log = <<>>
  /\ phase = "down" /\ nodeDb = {}
  /\ disk = OnDisk /\ torn = FALSE /\ lost = FALSE

-----------------------------------------------------------------------------
(* _process_rx.                                                            *)

IsDuplicate(f) ==
  Header(f) \in DOMAIN seen /\ now - seen[Header(f)] < DUP_WINDOW

(* decode_packet under the configured channel, then under LongFast if the  *)
(* first reports an error.  A wrong key yields random bytes, which mostly  *)
(* parse as a message of no meaning ("noise", not an error) and sometimes  *)
(* do not parse.                                                           *)
Decodings(f) ==
  IF f.kind = "bare" THEN {"error"}
  ELSE IF f.key = "own" THEN {"clear"}
  ELSE IF f.key = "LongFast" THEN {"noise", "clear"} ELSE {"noise", "error"}

(* A duplicate window without a purge.                                     *)
MutMarkSeen(f) ==
  [h \in DOMAIN seen \union {Header(f)} |->
     IF h = Header(f) THEN now ELSE seen[h]]

(* A purge that forgets a header before its window is over.                *)
MutShortPurge(f) ==
  LET marked == [h \in DOMAIN seen \union {Header(f)} |->
                   IF h = Header(f) THEN now ELSE seen[h]]
  IN  Restrict(marked, {h \in DOMAIN marked : now - marked[h] < 1})

(* The header is recorded, then everything as old as PURGE_AGE dropped.    *)
MarkSeen(f) ==
  LET marked == [h \in DOMAIN seen \union {Header(f)} |->
                   IF h = Header(f) THEN now ELSE seen[h]]
  IN  Restrict(marked, {h \in DOMAIN marked : now - marked[h] < PURGE_AGE})

(* A table with an entry for the source address 0.                         *)
MutNodesWithZero(f, d) ==
  IF d = "error" THEN nodes
  ELSE [n \in DOMAIN nodes \union {f.src} |-> [seen |-> now, named |-> TRUE]]

(* A record written afresh for every frame, without the name it had.       *)
MutNodesWith(f, d) ==
  IF d = "error" \/ f.src = NoNode THEN nodes
  ELSE [n \in DOMAIN nodes \union {f.src} |->
          IF n # f.src THEN nodes[n]
          ELSE [seen |-> now, named |-> d = "clear" /\ f.kind = "nodeinfo"]]

(* The source of a frame that decodes was heard now; a NodeInfo names it,  *)
(* and any other frame leaves its names alone.                             *)
NodesWith(f, d) ==
  IF d = "error" \/ f.src = NoNode THEN nodes
  ELSE [n \in DOMAIN nodes \union {f.src} |->
          IF n # f.src THEN nodes[n]
          ELSE [seen |-> now,
                named |-> \/ d = "clear" /\ f.kind = "nodeinfo"
                          \/ n \in DOMAIN nodes /\ nodes[n].named]]

(* The packet id a routing message acknowledges, where _process_rx looks   *)
(* for it: in the Routing message (612-614).                               *)
Cleared(f, d) ==
  IF d = "clear" /\ f.kind = "routing" THEN {f.inner} \ {0} ELSE {}

(* The log keeps the newest MAX_LOG entries.                               *)
LogWith(f, d) ==
  LET longer == Append(log, [frame |-> f, as |-> d, at |-> now])
  IN  IF Len(longer) <= MAX_LOG THEN longer ELSE SubSeq(longer, 2, Len(longer))

(* A duplicate, or a frame shorter than a header, changes nothing here.    *)
(* The receive loop still processes the frame it was waiting for when      *)
(* stop() runs.                                                            *)
Receive(f) ==
  /\ phase # "down"
  /\ ~IsDuplicate(f)
  /\ seen' = MarkSeen(f)
  /\ \E d \in Decodings(f) :
       /\ nodes' = NodesWith(f, d)
       /\ pending' = pending \ Cleared(f, d)
       /\ log' = LogWith(f, d)
  /\ UNCHANGED <<now, fileVars>>

(* send_text waits for an acknowledgement, or stops waiting (BridgeTx).    *)
Await(id) ==
  /\ phase # "down"
  /\ pending' = pending \union {id}
  /\ UNCHANGED <<now, seen, nodes, log, fileVars>>

GiveUp(id) ==
  /\ phase # "down"
  /\ pending' = pending \ {id}
  /\ UNCHANGED <<now, seen, nodes, log, fileVars>>

Tick ==
  /\ now' = now + 1
  /\ UNCHANGED <<rxVars, fileVars>>

-----------------------------------------------------------------------------
(* The process and the node file.                                          *)

(* The memory of a process is gone with it.                                *)
Gone ==
  /\ phase' = "down"
  /\ seen' = EmptyFun /\ nodes' = EmptyFun /\ pending' = {} /\ log' = <<>>
  /\ nodeDb' = {}

(* A start that leaves the node table for later.                           *)
MutStart ==
  /\ phase = "down"
  /\ phase' = "up"
  /\ lost' = (lost \/ torn)
  /\ UNCHANGED <<now, rxVars, nodeDb, disk, torn>>

(* start: _load_nodedb, then the sockets.  A start that fails to connect   *)
(* returns without a trace.                                                *)
Start ==
  /\ phase = "down"
  /\ phase' = "up"
  /\ nodeDb' = disk
  /\ lost' = (lost \/ torn)
  /\ UNCHANGED <<now, rxVars, disk, torn>>

(* write_text empties the file before it writes.                           *)
Truncated == disk' = {} /\ torn' = TRUE

(* A save of what was heard.                                               *)
MutSaveNodedb == disk' = DOMAIN nodes /\ torn' = FALSE

(* _save_nodedb: the file is written, or cannot be opened, or write_text   *)
(* fails after it has truncated the file; the exception is logged.         *)
SaveNodedb ==
  \/ disk' = nodeDb /\ torn' = FALSE
  \/ UNCHANGED <<disk, torn>>
  \/ Truncated

(* A signal: stop() runs as a task of its own, saves and disconnects.  A   *)
(* second signal runs it once more.                                        *)
Signal ==
  /\ phase # "down"
  /\ phase' = "stopping"
  /\ SaveNodedb
  /\ UNCHANGED <<now, rxVars, nodeDb, lost>>

(* The receive loop sees _running FALSE, and the finally of start() runs   *)
(* stop() again: another save, then the process ends.                      *)
Finish ==
  /\ phase = "stopping"
  /\ Gone
  /\ SaveNodedb
  /\ UNCHANGED <<now, lost>>

(* The process dies, possibly inside write_text.                           *)
Crash ==
  /\ phase # "down"
  /\ Gone
  /\ UNCHANGED <<disk, torn>> \/ Truncated
  /\ UNCHANGED <<now, lost>>

Next ==
  \/ \E f \in Frames : Receive(f)
  \/ \E id \in Ids : Await(id) \/ GiveUp(id)
  \/ Tick
  \/ Start \/ Signal \/ Finish \/ Crash

Spec == Init /\ [][Next]_vars

-----------------------------------------------------------------------------
(* The message log never shows one frame twice within DUP_WINDOW (531-534):*)
(* the purge of the cache, which runs on every other frame's reception,    *)
(* never forgets a header too early.                                       *)
NoRepeatWithinWindow ==
  \A i, j \in 1 .. Len(log) :
    i < j /\ Header(log[i].frame) = Header(log[j].frame)
      => log[j].at >= log[i].at + DUP_WINDOW

(* Whatever the log holds of a source, the node table knows at least as    *)
(* much: it was heard no earlier, and it has a name if a NodeInfo in the   *)
(* log gave it one, whatever came in since (579-588).                      *)
NodesCoverLog ==
  \A i \in 1 .. Len(log) :
    LET e == log[i] IN
    e.as # "error" /\ e.frame.src # NoNode =>
      /\ e.frame.src \in DOMAIN nodes
      /\ nodes[e.frame.src].seen >= e.at
      /\ e.as = "clear" /\ e.frame.kind = "nodeinfo" => nodes[e.frame.src].named

(* The message log is no longer than MAX_LOG (622-624), and the cache of   *)
(* duplicates holds no header older than PURGE_AGE at the newest message   *)
(* (537-541).  Nothing like it holds of _nodes (435, 588): it gains an     *)
(* entry for every new source, and nothing ever takes one out.             *)
LogAndCacheBounded ==
  /\ Len(log) <= MAX_LOG
  /\ \A h \in DOMAIN seen :
       Len(log) > 0 /\ log[Len(log)].at - seen[h] < PURGE_AGE

(* The node table survives every stop, crash and failed save, until a      *)
(* start meets a torn file: stop() running twice saves the same table      *)
(* twice, and what is heard never reaches the file (849-868).              *)
NodeFileKept ==
  ~lost => /\ torn \/ disk = OnDisk
           /\ phase # "down" => nodeDb = OnDisk

(* What makes NoRepeatWithinWindow inductive: the window of every logged   *)
(* frame is still open in the cache, and no time lies in the future.       *)
SeenCoversLog ==
  \A i \in 1 .. Len(log) :
    LET h == Header(log[i].frame) IN
    /\ log[i].at <= now
    /\ now - log[i].at < DUP_WINDOW =>
         h \in DOMAIN seen /\ seen[h] >= log[i].at

SeenInPast == \A h \in DOMAIN seen : seen[h] <= now

IInv ==
  /\ TypeOK
  /\ NoRepeatWithinWindow /\ SeenCoversLog /\ SeenInPast
  /\ NodesCoverLog /\ LogAndCacheBounded
  /\ NodeFileKept

-----------------------------------------------------------------------------
(* What the comments of _process_rx say, and the code does not do.         *)

(* bridge.py:603 "Clear pending ACK if this is a ROUTING reply matching    *)
(* one of our packets", a reply being a Data message whose field 8 is the  *)
(* request id (meshtastic_proto.py:361-362).                               *)
AckClearsPending ==
  [][log' # log /\ log' # <<>> =>
       LET e == log'[Len(log')] IN
       e.as = "clear" /\ e.frame.kind = "routing" => e.frame.inData \notin pending']_vars

(* bridge.py:578 "Update node database from decoded info": a node whose    *)
(* frame was decoded is one the nodes command lists (802-807).             *)
HeardNodesListed == phase # "down" => DOMAIN nodes \subseteq nodeDb
=============================================================================
