------------------------------- MODULE BridgeTx -------------------------------
(***************************************************************************)
(* MeshtasticBridge.send_text (src/src/bridge/bridge.py): the coroutines   *)
(* of several API clients jitter, listen before talking, send a downlink   *)
(* through the shared command socket, wait for an acknowledgement and      *)
(* retry, while the receive loop clears acknowledged packet ids behind     *)
(* their backs.                                                            *)
(*                                                                         *)
(* One action per stretch of code between two awaits: the event loop runs  *)
(* such a stretch without interruption.  Durations are abstracted: a sleep *)
(* ends at any time, a deadline passes at any time.                        *)
(***************************************************************************)
EXTENDS CommandSocket

CONSTANTS
  Broadcasts,       (* the calls whose destination is 0xFFFFFFFF           *)
  MAX_RETRIES,
  LBT_MAX_TRIES,
  StartTime,        (* int(time.time() * 1000) when the first id is taken  *)
  IdSpace,          (* packet ids are times modulo IdSpace (2^32)          *)
  SameMillisecond   (* TRUE: two calls may take their id in the same ms    *)

ASSUME BridgeTxAssumption ==
  /\ Broadcasts \subseteq Calls
  /\ MAX_RETRIES \in Nat
  /\ LBT_MAX_TRIES \in Nat \ {0}
  /\ StartTime \in Nat
  /\ IdSpace \in Nat \ {0}
  /\ SameMillisecond \in BOOLEAN

VARIABLES
  pc,          (* where each send_text stands                              *)
  attempt,     (* the loop variable "attempt" of the LBT, then retry, loop *)
  pid,         (* packet_id, 0 before it is taken                          *)
  lock,        (* the holder of _tx_lock, or NoCall                        *)
  busy,        (* a packet was heard less than LBT_BUSY_WINDOW ago         *)
  pending,     (* the keys of _pending_acks                                *)
  clock,       (* the millisecond clock packet ids are taken from          *)
  acked        (* the calls whose peer's ACK has reached the bridge        *)

coVars == <<pc, attempt, pid, lock, clock>>
vars == <<sockVars, coVars, busy, pending, acked>>

Returned == {"ok", "error"}
PCs == {"new", "wait", "jitter", "backoff", "send", "ackwait", "sleep", "lost"}
         \union Returned

MAX_ATTEMPTS == MAX_RETRIES + 1     (* range(1, MAX_RETRIES + 2) *)

TypeOK ==
  /\ SockTypeOK
  /\ pc \in [Calls -> PCs]
  /\ attempt \in [Calls -> Nat]
  /\ pid \in [Calls -> 0 .. (IdSpace - 1)]
  /\ lock \in Calls \union {NoCall}
  /\ busy \in BOOLEAN
  /\ pending \subseteq 0 .. (IdSpace - 1)
  /\ clock \in Nat
  /\ acked \subseteq Calls

Init ==
  /\ SockInit
  /\ pc = [c \in Calls |-> "new"]
  /\ attempt = [c \in Calls |-> 0]
  /\ pid = [c \in Calls |-> 0]
  /\ lock = NoCall
  /\ busy = FALSE
  /\ pending = {}
  /\ clock = StartTime
  /\ acked = {}

Go(c, from, to) == pc[c] = from /\ pc' = [pc EXCEPT ![c] = to]

-----------------------------------------------------------------------------
(* Jitter and listen-before-talk.                                          *)

(* An API client calls send_text; it queues for _tx_lock.                  *)
Begin(c) ==
  /\ Go(c, "new", "wait")
  /\ UNCHANGED <<sockVars, attempt, pid, lock, clock, busy, pending, acked>>

Acquire(c) ==
  /\ Go(c, "wait", "jitter")
  /\ lock = NoCall
  /\ lock' = c
  /\ UNCHANGED <<sockVars, attempt, pid, clock, busy, pending, acked>>

(* A packet id without the mask.                                           *)
MutFirstSend(c, from) ==
  /\ Go(c, from, "send")
  /\ attempt' = [attempt EXCEPT ![c] = 1]
  /\ pid' = [pid EXCEPT ![c] = clock]
  /\ clock' = clock + 1
  /\ Submit(c)

(* packet_id = int(time.time() * 1000) & 0xFFFFFFFF, and the first attempt *)
(* of the retry loop reaches the executor before the next await.           *)
FirstSend(c, from) ==
  /\ Go(c, from, "send")
  /\ attempt' = [attempt EXCEPT ![c] = 1]
  /\ pid' = [pid EXCEPT ![c] = clock % IdSpace]
  /\ clock' \in {clock + 1} \union (IF SameMillisecond THEN {clock} ELSE {})
  /\ Submit(c)

(* The frame cannot be built (744): the call returns False.                *)
BuildFails(c, from) ==
  /\ Go(c, from, "error")
  /\ UNCHANGED <<sockVars, attempt, pid, clock>>

(* The jitter ends, the lock is released, and the first LBT check runs.    *)
JitterEnds(c) ==
  /\ lock' = NoCall
  /\ \/ /\ ~busy
        /\ FirstSend(c, "jitter") \/ BuildFails(c, "jitter")
     \/ /\ busy
        /\ Go(c, "jitter", "backoff")
        /\ UNCHANGED <<sockVars, attempt, pid, clock>>
  /\ UNCHANGED <<busy, pending, acked>>

(* A backoff ends: check again, or transmit anyway after the last try.     *)
BackoffEnds(c) ==
  /\ \/ /\ ~busy \/ attempt[c] + 1 = LBT_MAX_TRIES
        /\ FirstSend(c, "backoff") \/ BuildFails(c, "backoff")
     \/ /\ busy /\ attempt[c] + 1 < LBT_MAX_TRIES
        /\ pc[c] = "backoff"
        /\ attempt' = [attempt EXCEPT ![c] = @ + 1]
        /\ UNCHANGED <<sockVars, pc, pid, clock>>
  /\ UNCHANGED <<lock, busy, pending, acked>>

-----------------------------------------------------------------------------
(* The retransmission loop.                                                *)

(* send_downlink_raw returned True.                                        *)
SendSucceeded(c) ==
  /\ tx[c] = "ok"
  /\ Return(c)
  /\ \/ /\ c \in Broadcasts
        /\ Go(c, "send", "ok")
        /\ UNCHANGED pending
     \/ /\ c \notin Broadcasts
        /\ Go(c, "send", "ackwait")
        /\ pending' = pending \union {pid[c]}
  /\ UNCHANGED <<attempt, pid, lock, clock, busy, acked>>

(* send_downlink_raw returned False: sleep, or return ok, which is False.  *)
SendFailed(c) ==
  /\ tx[c] = "fail"
  /\ Return(c)
  /\ Go(c, "send", IF attempt[c] > MAX_RETRIES THEN "error" ELSE "sleep")
  /\ UNCHANGED <<attempt, pid, lock, clock, busy, pending, acked>>

(* The polling loop finds the packet id gone from _pending_acks.           *)
AckSeen(c) ==
  /\ Go(c, "ackwait", "ok")
  /\ pid[c] \notin pending
  /\ UNCHANGED <<sockVars, attempt, pid, lock, clock, busy, pending, acked>>

(* A last deadline that returns without dropping the entry.                *)
MutAckDeadline(c) ==
  /\ Go(c, "ackwait", IF attempt[c] <= MAX_RETRIES THEN "sleep" ELSE "ok")
  /\ UNCHANGED <<sockVars, attempt, pid, lock, clock, busy, pending, acked>>

(* ack_deadline passes during the last sleep(0.1): the loop ends without   *)
(* another look at _pending_acks.  After the last attempt the entry is     *)
(* dropped and the call returns ok, which is True.                         *)
AckDeadline(c) ==
  /\ \/ /\ attempt[c] <= MAX_RETRIES
        /\ Go(c, "ackwait", "sleep")
        /\ UNCHANGED pending
     \/ /\ attempt[c] > MAX_RETRIES
        /\ Go(c, "ackwait", "ok")
        /\ pending' = pending \ {pid[c]}
  /\ UNCHANGED <<sockVars, attempt, pid, lock, clock, busy, acked>>

(* A retry loop that starts again from its first attempt.                  *)
MutRetry(c) ==
  /\ Go(c, "sleep", "send")
  /\ attempt' = [attempt EXCEPT ![c] = 1]
  /\ Submit(c)
  /\ UNCHANGED <<pid, lock, clock, busy, pending, acked>>

(* The sleep between two attempts ends.                                    *)
Retry(c) ==
  /\ Go(c, "sleep", "send")
  /\ attempt' = [attempt EXCEPT ![c] = @ + 1]
  /\ Submit(c)
  /\ UNCHANGED <<pid, lock, clock, busy, pending, acked>>

Coroutine(c) ==
  \/ Acquire(c) \/ JitterEnds(c) \/ BackoffEnds(c)
  \/ SendSucceeded(c) \/ SendFailed(c)
  \/ AckSeen(c) \/ AckDeadline(c) \/ Retry(c)

-----------------------------------------------------------------------------
(* The receive loop, seen from here: _process_rx sets _last_rx_time and,   *)
(* for an acknowledgement, drops a non-zero packet id.                     *)

(* A receive loop that clears every pending packet on any acknowledgement. *)
MutReceiveAck(c) ==
  /\ accepted[c] > 0 /\ c \notin Broadcasts
  /\ busy' = TRUE
  /\ pending' = {}
  /\ acked' = acked \union {c}
  /\ UNCHANGED <<sockVars, coVars>>

(* The peer's ACK of c's frame arrives: once, several times or never, and  *)
(* at any time after the frame went on the air.  It holds the id where     *)
(* _process_rx looks for it; any other packet is ReceiveOther (BridgeRx).  *)
ReceiveAck(c) ==
  /\ accepted[c] > 0 /\ c \notin Broadcasts
  /\ busy' = TRUE
  /\ pending' = pending \ ({pid[c]} \ {0})
  /\ acked' = acked \union {c}
  /\ UNCHANGED <<sockVars, coVars>>

ReceiveOther ==
  /\ busy' = TRUE
  /\ UNCHANGED <<sockVars, coVars, pending, acked>>

(* LBT_BUSY_WINDOW passes without a reception.                             *)
ChannelClears ==
  /\ busy
  /\ busy' = FALSE
  /\ UNCHANGED <<sockVars, coVars, pending, acked>>

-----------------------------------------------------------------------------
SocketStep ==
  /\ Concentratord \/ Disconnect \/ \E c \in Calls : Thread(c)
  /\ UNCHANGED <<coVars, busy, pending, acked>>

(* libzmq aborts the process, or it ends after stop, and a new bridge      *)
(* starts: the calls in flight are lost with everything the bridge kept in *)
(* memory.                                                                 *)
Abort ==
  /\ NewProcess
  /\ pc' = [c \in Calls |->
              IF pc[c] \in {"new"} \union Returned THEN pc[c] ELSE "lost"]
  /\ lock' = NoCall
  /\ busy' = FALSE
  /\ pending' = {}
  /\ UNCHANGED <<attempt, pid, clock, acked>>

Next ==
  \/ \E c \in Calls : Begin(c) \/ Coroutine(c) \/ ReceiveAck(c)
  \/ SocketStep
  \/ ReceiveOther \/ ChannelClears
  \/ Abort

(* The event loop runs every ready coroutine and fires every timer, and    *)
(* the executor runs every thread.  Nothing is assumed of the radio, of    *)
(* the concentratord or of the clients.                                    *)
Fairness ==
  \A c \in Calls :
    /\ WF_vars(Coroutine(c))
    /\ WF_vars(Thread(c) /\ UNCHANGED <<coVars, busy, pending, acked>>)

Spec == Init /\ [][Next]_vars
FairSpec == Spec /\ Fairness

-----------------------------------------------------------------------------
(* A message is put on the air at most MAX_RETRIES + 1 times, however late *)
(* the concentratord comes back to a request the bridge gave up on, and    *)
(* whatever the other callers do to the socket (send_text, 706).           *)
TransmissionsBounded == \A c \in Calls : accepted[c] <= MAX_ATTEMPTS

(* A broadcast goes on the air at most once (714-716), although a call     *)
(* whose reply was lost retries it up to MAX_RETRIES times: the socket     *)
(* that lost the reply refuses every retry.                                *)
BroadcastOnce == \A c \in Broadcasts : accepted[c] <= 1

(* _pending_acks holds only ids of calls that are still running or that    *)
(* returned False: a call that returns True leaves nothing behind, so the  *)
(* dictionary does not grow with the traffic that works.                   *)
PendingHasOwner ==
  \A id \in pending : \E c \in Calls \ Broadcasts :
    pid[c] = id /\ pc[c] \in {"send", "ackwait", "sleep", "error"}

(* A unicast call that returns True before its last attempt was            *)
(* acknowledged (722-724).  It needs packet ids that are not shared.       *)
NoFalseAck ==
  \A c \in Calls \ Broadcasts :
    pc[c] = "ok" /\ attempt[c] <= MAX_RETRIES => c \in acked

(* Every call returns: no lock, socket or lost reply holds it for ever     *)
(* (RCVTIMEO, 142; ack_deadline, 720), unless the process dies under it.   *)
EveryCallReturns ==
  \A c \in Calls : pc[c] = "wait" ~> pc[c] \in Returned \union {"lost"}

(* What makes the three bounds above inductive: how the coroutine, its     *)
(* thread, the lock and the socket fit together, and what is left of a     *)
(* call's budget of transmissions.                                         *)
Early == {"new", "wait", "jitter", "backoff"}
OnItsWay(c) == IF owner = c /\ wire = "queued" THEN 1 ELSE 0
ToSubmit(c) == IF tx[c] = "submitted" THEN 1 ELSE 0

PhaseInv ==
  \A c \in Calls :
    /\ tx[c] # "none" <=> pc[c] = "send"
    /\ pc[c] = "jitter" <=> lock = c
    /\ pc[c] = "sleep" => attempt[c] <= MAX_RETRIES
    /\ pc[c] \in {"send", "ackwait"} => attempt[c] <= MAX_ATTEMPTS

BudgetInv ==
  \A c \in Calls :
    /\ pc[c] \in Early => accepted[c] = 0 /\ owner # c
    /\ pc[c] \in {"send", "ackwait", "sleep"} =>
         accepted[c] + OnItsWay(c) + ToSubmit(c) <= attempt[c]
    /\ accepted[c] + OnItsWay(c) <= MAX_ATTEMPTS

BroadcastInv ==
  \A c \in Broadcasts :
    /\ pc[c] # "ackwait"
    /\ accepted[c] + OnItsWay(c) <= 1
    /\ accepted[c] = 1 /\ pc[c] \in {"send", "sleep"} =>
         owner = c \/ tx[c] = "ok"

IInv == TypeOK /\ SockInv /\ PhaseInv /\ BudgetInv /\ BroadcastInv

-----------------------------------------------------------------------------
(* What the comments and log messages of send_text say, and the code does  *)
(* not do.                                                                 *)

(* bridge.py:637 "Serialize TX calls - REQ socket is half-duplex".         *)
TxSerialized ==
  \A c, d \in Calls :
    tx[c] \in {"submitted", "waiting"} /\ tx[d] \in {"submitted", "waiting"}
      => c = d

(* bridge.py:718 "Unicast: wait for ACK then retry if needed": a call that *)
(* waits for an ACK that has already arrived does not go on to retry.      *)
RetryOnlyIfNeeded ==
  [][\A c \in acked : pc[c] = "ackwait" => pc'[c] # "sleep"]_vars
==============================================================================
