---------------------------- MODULE CommandSocket ----------------------------
(***************************************************************************)
(* The command path of ConcentratordZMQ (src/src/bridge/bridge.py):        *)
(* send_downlink_raw hands _do_tx to a thread of the default executor,     *)
(* where it calls send and then recv on one ZeroMQ REQ socket shared by    *)
(* every caller.  A REQ socket alternates: after a send it accepts nothing *)
(* but a recv that obtains the reply, and a recv that runs into RCVTIMEO   *)
(* leaves it where it was.  Nothing in the bridge ever replaces the        *)
(* socket; disconnect closes it, whoever is using it.                      *)
(*                                                                         *)
(* The socket and the concentratord behind it are external: modelled from  *)
(* the options the bridge sets and from what it does with their results.   *)
(***************************************************************************)
EXTENDS Naturals

CONSTANTS
  Calls,     (* the callers of send_downlink_raw: one send_text each       *)
  NoCall     (* "nobody"                                                   *)

ASSUME NoCallAssumption == NoCall \notin Calls

VARIABLES
  running,   (* _running: connected, and not disconnected yet            *)
  sock,      (* the REQ socket: "idle" may send, "await" must receive      *)
  owner,     (* whose request the socket is waiting for, or NoCall         *)
  wire,      (* that request: "none", "queued", "replied" or "lost"        *)
  tx,        (* tx[c]: how far c's call of send_downlink_raw has come      *)
  accepted   (* accepted[c]: downlinks of c the concentratord transmitted  *)

sockVars == <<running, sock, owner, wire, tx, accepted>>

WireStates == {"none", "queued", "replied", "lost"}
TxStates == {"none", "submitted", "waiting", "ok", "fail"}

SockTypeOK ==
  /\ running \in BOOLEAN
  /\ sock \in {"idle", "await"}
  /\ owner \in Calls \union {NoCall}
  /\ wire \in WireStates
  /\ tx \in [Calls -> TxStates]
  /\ accepted \in [Calls -> Nat]

SockInit ==
  /\ running = TRUE
  /\ sock = "idle"
  /\ owner = NoCall
  /\ wire = "none"
  /\ tx = [c \in Calls |-> "none"]
  /\ accepted = [c \in Calls |-> 0]

-----------------------------------------------------------------------------
(* The coroutine's side: loop.run_in_executor(None, _do_tx) and, later,    *)
(* its result.                                                             *)

(* Once disconnected, False at once.                                       *)
Submit(c) ==
  /\ tx[c] = "none"
  /\ tx' = [tx EXCEPT ![c] = IF running THEN "submitted" ELSE "fail"]
  /\ UNCHANGED <<running, sock, owner, wire, accepted>>

Return(c) ==
  /\ tx[c] \in {"ok", "fail"}
  /\ tx' = [tx EXCEPT ![c] = "none"]
  /\ UNCHANGED <<running, sock, owner, wire, accepted>>

-----------------------------------------------------------------------------
(* The thread's side: _do_tx.                                              *)

(* A socket that let a second request out before the reply (ZMQ_REQ_RELAXED). *)
MutThreadSend(c) ==
  /\ tx[c] = "submitted"
  /\ sock' = "await"
  /\ owner' = c
  /\ wire' = "queued"
  /\ tx' = [tx EXCEPT ![c] = "waiting"]
  /\ UNCHANGED <<running, accepted>>

ThreadSend(c) ==
  /\ tx[c] = "submitted"
  /\ running /\ sock = "idle"
  /\ sock' = "await"
  /\ owner' = c
  /\ wire' = "queued"
  /\ tx' = [tx EXCEPT ![c] = "waiting"]
  /\ UNCHANGED <<running, accepted>>

(* A failed send that put the socket back in order on its way out.         *)
MutThreadSendRefused(c) ==
  /\ tx[c] = "submitted"
  /\ sock = "await"
  /\ sock' = "idle"
  /\ owner' = NoCall
  /\ wire' = "none"
  /\ tx' = [tx EXCEPT ![c] = "fail"]
  /\ UNCHANGED <<running, accepted>>

(* The socket still waits for a reply, or is closed: the exception becomes *)
(* False.                                                                  *)
ThreadSendRefused(c) ==
  /\ tx[c] = "submitted"
  /\ ~running \/ sock = "await"
  /\ tx' = [tx EXCEPT ![c] = "fail"]
  /\ UNCHANGED <<running, sock, owner, wire, accepted>>

(* Whatever the reply says, send_downlink_raw returns True.                *)
ThreadRecv(c) ==
  /\ tx[c] = "waiting"
  /\ wire = "replied"
  /\ sock' = "idle"
  /\ owner' = NoCall
  /\ wire' = "none"
  /\ tx' = [tx EXCEPT ![c] = "ok"]
  /\ UNCHANGED <<running, accepted>>

(* A timeout that replaced the REQ socket by a fresh one.                  *)
MutThreadRecvTimeout(c) ==
  /\ tx[c] = "waiting"
  /\ wire # "replied"
  /\ tx' = [tx EXCEPT ![c] = "fail"]
  /\ sock' = "idle"
  /\ owner' = NoCall
  /\ wire' = "none"
  /\ UNCHANGED <<running, accepted>>

(* A timeout taken for an empty reply, "empty (ok)".                       *)
MutThreadTimeoutOk(c) ==
  /\ tx[c] = "waiting"
  /\ wire # "replied"
  /\ tx' = [tx EXCEPT ![c] = "ok"]
  /\ UNCHANGED <<running, sock, owner, wire, accepted>>

(* A socket without RCVTIMEO: recv waits for the reply for ever.           *)
MutNoRecvTimeout(c) ==
  /\ FALSE
  /\ UNCHANGED sockVars

(* RCVTIMEO: recv raises Again, the call returns False, the request stays  *)
(* where it is and the socket keeps waiting for its reply.                 *)
ThreadRecvTimeout(c) ==
  /\ tx[c] = "waiting"
  /\ wire # "replied"
  /\ tx' = [tx EXCEPT ![c] = "fail"]
  /\ UNCHANGED <<running, sock, owner, wire, accepted>>

Thread(c) ==
  \/ ThreadSend(c) \/ ThreadSendRefused(c)
  \/ ThreadRecv(c) \/ ThreadRecvTimeout(c)

-----------------------------------------------------------------------------
(* The concentratord (external).  It answers each request it reads, after  *)
(* transmitting or rejecting the frame; it may be down or restart, and     *)
(* then the request or the reply is lost.  A request queued in the socket  *)
(* while it is down is read when it comes back, however late.              *)

Transmit ==
  /\ wire = "queued"
  /\ wire' = "replied"
  /\ accepted' = [accepted EXCEPT ![owner] = @ + 1]
  /\ UNCHANGED <<running, sock, owner, tx>>

Reject ==
  /\ wire = "queued"
  /\ wire' = "replied"
  /\ UNCHANGED <<running, sock, owner, tx, accepted>>

LoseRequestOrReply ==
  /\ wire \in {"queued", "replied"}
  /\ wire' = "lost"
  /\ UNCHANGED <<running, sock, owner, tx, accepted>>

Concentratord == Transmit \/ Reject \/ LoseRequestOrReply

-----------------------------------------------------------------------------
(* disconnect, called by stop: the socket is closed under the thread that  *)
(* may be in it.                                                           *)
Disconnect ==
  /\ running = TRUE
  /\ running' = FALSE
  /\ UNCHANGED <<sock, owner, wire, tx, accepted>>

(* Two threads inside one socket are undefined behaviour in libzmq, a send *)
(* or a close while another receives.  The outcomes: the second send is    *)
(* refused (ThreadSendRefused), the receiver goes on to its reply or its   *)
(* timeout, or libzmq aborts the process.  The service manager then starts *)
(* a new bridge with a new socket (Restart=on-failure), as it does after   *)
(* stop sooner or later; a request already on its way may still be         *)
(* transmitted.                                                            *)

Race(c) == tx[c] = "submitted" /\ \E d \in Calls : tx[d] = "waiting"

SockReset ==
  /\ running' = TRUE
  /\ sock' = "idle"
  /\ owner' = NoCall
  /\ wire' = "none"
  /\ tx' = [c \in Calls |-> "none"]
  /\ \/ UNCHANGED accepted
     \/ /\ wire = "queued"
        /\ accepted' = [accepted EXCEPT ![owner] = @ + 1]

NewProcess == (~running \/ \E c \in Calls : Race(c)) /\ SockReset

SockNext ==
  \/ \E c \in Calls : Submit(c) \/ Return(c) \/ Thread(c)
  \/ Concentratord
  \/ Disconnect \/ NewProcess

SockSpec == SockInit /\ [][SockNext]_sockVars

-----------------------------------------------------------------------------
(* The reply a thread waits for is the reply to its own request, although  *)
(* callers share the socket without a lock: at most one thread waits, and  *)
(* the outstanding request is its own.                                     *)
ReplyBelongsToWaiter ==
  \A c \in Calls : tx[c] = "waiting" => owner = c /\ sock = "await"

(* The socket, the outstanding request and its owner agree.                *)
SocketConsistent ==
  /\ (sock = "await") <=> (owner # NoCall)
  /\ (sock = "idle") <=> (wire = "none")

SockInv == SockTypeOK /\ ReplyBelongsToWaiter /\ SocketConsistent

(* A wedged socket waits for a reply that no thread will ever read.        *)
Wedged == sock = "await" /\ \A c \in Calls : tx[c] # "waiting"

(* Once wedged, the socket stays wedged and no downlink succeeds any more: *)
(* nothing short of a new process repairs the command path.                *)
WedgedStaysWedged ==
  [][Wedged /\ (running' => running) => Wedged' /\ \A c \in Calls : tx[c] # "ok" => tx'[c] # "ok"]_sockVars

(* The refinement mapping: what a caller knows of its call, where its      *)
(* request stands, and whether it left one behind.                         *)
StateOf(c) ==
  IF tx[c] = "none" THEN "idle"
  ELSE IF tx[c] \in {"submitted", "waiting"} THEN "calling" ELSE tx[c]

RequestOf(c) ==
  IF tx[c] = "submitted" THEN "open"
  ELSE IF tx[c] # "waiting" THEN "none"
  ELSE IF wire = "queued" THEN "open"
  ELSE IF wire = "replied" THEN "done" ELSE "lost"

LeftBehind(c) == tx[c] # "waiting" /\ owner = c /\ wire = "queued"

Service == INSTANCE DownlinkService WITH
  state <- [c \in Calls |-> StateOf(c)],
  cur <- [c \in Calls |-> RequestOf(c)],
  stale <- [c \in Calls |-> LeftBehind(c)]

(* send_downlink_raw keeps the promise DownlinkService states: at most one *)
(* processing per request, True only for a processed request, and at most  *)
(* one request per caller left behind.                                     *)
ImplementsDownlinkService == Service!Spec
==============================================================================
