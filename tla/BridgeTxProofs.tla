---------------------------- MODULE BridgeTxProofs ----------------------------
(***************************************************************************)
(* Proofs about BridgeTx, for any number of calls, any retry and LBT       *)
(* limits and any packet id space: types, and the bounds on what a message *)
(* costs in air time.                                                      *)
(***************************************************************************)
EXTENDS BridgeTx, CommandSocketProofs, FiniteSetTheorems

LEMMA InitInv == Init => IInv
<1> SUFFICES ASSUME Init PROVE IInv
  OBVIOUS
<1>1. SockInv
  BY SockInitInv DEF Init
<1>2. TypeOK
  <2>1. 0 \in 0 .. (IdSpace - 1)
    BY BridgeTxAssumption
  <2>2. pc \in [Calls -> PCs] /\ attempt \in [Calls -> Nat] /\ acked \subseteq Calls
    BY DEF Init, PCs
  <2>3. pid \in [Calls -> 0 .. (IdSpace - 1)] /\ pending \subseteq 0 .. (IdSpace - 1)
    BY <2>1 DEF Init
  <2>4. lock \in Calls \union {NoCall} /\ busy \in BOOLEAN /\ clock \in Nat
    BY BridgeTxAssumption DEF Init
  <2> QED
    BY <1>1, <2>2, <2>3, <2>4 DEF SockInv, TypeOK
<1>3. PhaseInv /\ BudgetInv /\ BroadcastInv
  BY BridgeTxAssumption, NoCallAssumption
  DEF Init, SockInit, PhaseInv, BudgetInv, BroadcastInv, OnItsWay, ToSubmit,
      Early, MAX_ATTEMPTS
<1> QED
  BY <1>1, <1>2, <1>3 DEF IInv

(* A packet id is a time modulo the id space.                              *)
LEMMA PidInRange ==
  ASSUME NEW n \in Nat PROVE n % IdSpace \in 0 .. (IdSpace - 1)
  BY BridgeTxAssumption

(* Every step of the bridge is, for the socket, one of its own or none.    *)
LEMMA NextIsSocketStep == [Next]_vars => [SockNext]_sockVars
<1> SUFFICES ASSUME Next PROVE SockNext \/ UNCHANGED sockVars
  BY DEF vars, sockVars
<1>1. ASSUME NEW c \in Calls, Coroutine(c) PROVE SockNext \/ UNCHANGED sockVars
  BY <1>1
  DEF Coroutine, Acquire, JitterEnds, BackoffEnds, FirstSend, BuildFails,
      SendSucceeded, SendFailed, AckSeen, AckDeadline, Retry, SockNext
<1>2. ASSUME NEW c \in Calls, Begin(c) \/ ReceiveAck(c) PROVE UNCHANGED sockVars
  BY <1>2 DEF Begin, ReceiveAck
<1> QED
  BY <1>1, <1>2
  DEF Next, SocketStep, ReceiveOther, ChannelClears, Abort, SockNext

-----------------------------------------------------------------------------
(* One lemma per action: from IInv it preserves the rest of IInv.          *)

Rest == TypeOK /\ PhaseInv /\ BudgetInv /\ BroadcastInv

LEMMA BeginInv ==
  ASSUME IInv, SockInv', NEW c \in Calls, Begin(c) \/ Acquire(c) PROVE Rest'
<1> USE NoCallAssumption
    DEF IInv, SockInv, SockTypeOK, Begin, Acquire, Go, sockVars
<1>1. TypeOK'
  BY DEF TypeOK, PCs
<1>2. PhaseInv'
  BY DEF TypeOK, PhaseInv
<1>3. BudgetInv'
  BY DEF TypeOK, BudgetInv, Early, OnItsWay, ToSubmit
<1>4. BroadcastInv'
  BY BridgeTxAssumption DEF TypeOK, BroadcastInv, OnItsWay
<1> QED
  BY <1>1, <1>2, <1>3, <1>4 DEF Rest

LEMMA FirstSendInv ==
  ASSUME IInv, SockInv', NEW c \in Calls, NEW from \in {"jitter", "backoff"},
         FirstSend(c, from) \/ BuildFails(c, from),
         lock' = IF from = "jitter" THEN NoCall ELSE lock,
         UNCHANGED <<busy, pending, acked>>
  PROVE  Rest'
<1> USE BridgeTxAssumption, NoCallAssumption
    DEF IInv, SockInv, SockTypeOK
<1>1. CASE FirstSend(c, from)
  <2>1. clock % IdSpace \in 0 .. (IdSpace - 1)
    BY PidInRange DEF TypeOK
  <2>2. TypeOK'
    BY <1>1, <2>1 DEF TypeOK, FirstSend, Go, PCs, Submit
  <2>3. PhaseInv'
    BY <1>1 DEF TypeOK, PhaseInv, FirstSend, Go, Submit, MAX_ATTEMPTS
  <2>4. BudgetInv'
    BY <1>1 DEF TypeOK, PhaseInv, BudgetInv, FirstSend, Go, Submit, Early, OnItsWay, ToSubmit
  <2>5. BroadcastInv'
    BY <1>1 DEF TypeOK, BudgetInv, BroadcastInv, FirstSend, Go, Submit, Early, OnItsWay
  <2> QED
    BY <2>2, <2>3, <2>4, <2>5 DEF Rest
<1>2. CASE BuildFails(c, from)
  BY <1>2
  DEF Rest, TypeOK, PhaseInv, BudgetInv, BroadcastInv, BuildFails, Go, sockVars,
      PCs, Returned, Early, OnItsWay, ToSubmit
<1> QED
  BY <1>1, <1>2

LEMMA LbtInv ==
  ASSUME IInv, SockInv', NEW c \in Calls, JitterEnds(c) \/ BackoffEnds(c)
  PROVE  Rest'
<1>1. CASE FirstSend(c, "jitter") \/ BuildFails(c, "jitter")
  BY <1>1, FirstSendInv DEF JitterEnds, BackoffEnds, FirstSend, BuildFails, Go
<1>2. CASE FirstSend(c, "backoff") \/ BuildFails(c, "backoff")
  BY <1>2, FirstSendInv DEF JitterEnds, BackoffEnds, FirstSend, BuildFails, Go
<1>3. CASE /\ pc[c] \in {"jitter", "backoff"}
           /\ pc' = [pc EXCEPT ![c] = "backoff"]
           /\ attempt' \in {attempt, [attempt EXCEPT ![c] = @ + 1]}
           /\ lock' = IF pc[c] = "jitter" THEN NoCall ELSE lock
           /\ UNCHANGED <<sockVars, pid, clock, busy, pending, acked>>
  BY <1>3, NoCallAssumption
  DEF IInv, Rest, TypeOK, PhaseInv, BudgetInv, BroadcastInv, SockInv,
      SockTypeOK, sockVars, PCs, Returned, Early, OnItsWay, ToSubmit
<1> QED
  BY <1>1, <1>2, <1>3 DEF JitterEnds, BackoffEnds, Go, IInv, TypeOK

LEMMA SendReturnsInv ==
  ASSUME IInv, SockInv', NEW c \in Calls, SendSucceeded(c) \/ SendFailed(c)
  PROVE  Rest'
<1> USE BridgeTxAssumption
    DEF IInv, SockInv, SockTypeOK, SendSucceeded, SendFailed, Go, Return
<1>1. TypeOK'
  <2>1. pc' \in [Calls -> PCs]
    BY DEF TypeOK, PCs, Returned
  <2>2. pending' \subseteq 0 .. (IdSpace - 1)
    <3>1. pid[c] \in 0 .. (IdSpace - 1) /\ pending \subseteq 0 .. (IdSpace - 1)
      BY DEF TypeOK
    <3>2. pending' \in {pending, pending \union {pid[c]}}
      OBVIOUS
    <3> QED
      BY ONLY <3>1, <3>2
  <2> QED
    BY <2>1, <2>2 DEF TypeOK
<1>2. PhaseInv'
  BY DEF TypeOK, PhaseInv, MAX_ATTEMPTS
<1>3. BudgetInv'
  BY DEF TypeOK, BudgetInv, Early, OnItsWay, ToSubmit
<1>4. BroadcastInv'
  BY DEF TypeOK, PhaseInv, BroadcastInv, OnItsWay
<1> QED
  BY <1>1, <1>2, <1>3, <1>4 DEF Rest

LEMMA AckWaitInv ==
  ASSUME IInv, SockInv', NEW c \in Calls, AckSeen(c) \/ AckDeadline(c)
  PROVE  Rest'
<1> USE BridgeTxAssumption
    DEF IInv, SockInv, SockTypeOK, AckSeen, AckDeadline, Go, sockVars
<1>1. TypeOK'
  BY DEF TypeOK, PCs, Returned
<1>2. PhaseInv'
  BY DEF TypeOK, PhaseInv
<1>3. BudgetInv'
  BY DEF TypeOK, BudgetInv, Early, OnItsWay, ToSubmit
<1>4. BroadcastInv'
  BY DEF TypeOK, BroadcastInv, OnItsWay
<1> QED
  BY <1>1, <1>2, <1>3, <1>4 DEF Rest

(* A retry spends one more attempt before it submits one more request.     *)
LEMMA RetryInv ==
  ASSUME IInv, SockInv', NEW c \in Calls, Retry(c) PROVE Rest'
<1> USE BridgeTxAssumption
    DEF IInv, SockInv, SockTypeOK, Retry, Go, Submit
<1>1. TypeOK'
  BY DEF TypeOK, PCs
<1>2. PhaseInv'
  BY DEF TypeOK, PhaseInv, MAX_ATTEMPTS
<1>3. BudgetInv'
  BY DEF TypeOK, BudgetInv, Early, OnItsWay, ToSubmit
<1>4. BroadcastInv'
  BY DEF TypeOK, BroadcastInv, OnItsWay
<1> QED
  BY <1>1, <1>2, <1>3, <1>4 DEF Rest

LEMMA ReceiveInv ==
  ASSUME IInv, SockInv',
         (\E c \in Calls : ReceiveAck(c)) \/ ReceiveOther \/ ChannelClears
  PROVE  Rest'
<1> USE DEF IInv, ReceiveAck, ReceiveOther, ChannelClears, sockVars, coVars
<1>1. TypeOK'
  BY DEF TypeOK, SockTypeOK
<1>2. PhaseInv' /\ BudgetInv' /\ BroadcastInv'
  BY DEF PhaseInv, BudgetInv, BroadcastInv, OnItsWay, ToSubmit
<1> QED
  BY <1>1, <1>2 DEF Rest

-----------------------------------------------------------------------------
(* The threads and the concentratord: a request moves from "to submit" to  *)
(* "on its way" to "accepted", or falls out.                               *)

LEMMA ThreadInv ==
  ASSUME IInv, SockInv', NEW c \in Calls, Thread(c),
         UNCHANGED <<coVars, busy, pending, acked>>
  PROVE  Rest'
<1> USE BridgeTxAssumption, NoCallAssumption
    DEF IInv, SockInv, SockTypeOK, ReplyBelongsToWaiter, SocketConsistent,
        Thread, ThreadSend, ThreadSendRefused, ThreadRecv, ThreadRecvTimeout, coVars
<1>1. TypeOK'
  BY DEF TypeOK
<1>2. PhaseInv'
  BY DEF TypeOK, PhaseInv
<1>3. BudgetInv'
  BY DEF TypeOK, PhaseInv, BudgetInv, Early, OnItsWay, ToSubmit, MAX_ATTEMPTS
<1>4. BroadcastInv'
  BY DEF TypeOK, PhaseInv, BroadcastInv, OnItsWay
<1> QED
  BY <1>1, <1>2, <1>3, <1>4 DEF Rest

LEMMA ConcentratordInv ==
  ASSUME IInv, SockInv', Concentratord \/ Disconnect, UNCHANGED <<coVars, busy, pending, acked>>
  PROVE  Rest'
<1> USE BridgeTxAssumption, NoCallAssumption
    DEF IInv, SockInv, SockTypeOK, SocketConsistent,
        Concentratord, Transmit, Reject, LoseRequestOrReply, Disconnect, coVars
<1>1. TypeOK'
  BY DEF TypeOK
<1>2. PhaseInv'
  BY DEF PhaseInv
<1>3. BudgetInv'
  BY DEF TypeOK, BudgetInv, OnItsWay, ToSubmit, MAX_ATTEMPTS
<1>4. BroadcastInv'
  BY DEF TypeOK, BroadcastInv, OnItsWay
<1> QED
  BY <1>1, <1>2, <1>3, <1>4 DEF Rest

(* The calls an abort loses never transmit again.                          *)
LEMMA AbortInv ==
  ASSUME IInv, SockInv', Abort PROVE Rest'
<1> USE BridgeTxAssumption, NoCallAssumption
    DEF IInv, SockInv, SockTypeOK, SocketConsistent, Abort, NewProcess, SockReset
<1>1. TypeOK'
  BY DEF TypeOK, PCs, Returned
<1>2. PhaseInv'
  BY DEF TypeOK, PhaseInv, PCs, Returned
<1>3. BudgetInv'
  BY DEF TypeOK, BudgetInv, Early, OnItsWay, ToSubmit, PCs, Returned, MAX_ATTEMPTS
<1>4. BroadcastInv'
  BY DEF TypeOK, BroadcastInv, OnItsWay, PCs, Returned
<1> QED
  BY <1>1, <1>2, <1>3, <1>4 DEF Rest

-----------------------------------------------------------------------------
LEMMA NextInv == IInv /\ [Next]_vars => IInv'
<1> SUFFICES ASSUME IInv, [Next]_vars PROVE IInv'
  OBVIOUS
<1>0. SockInv'
  BY NextIsSocketStep, SockNextInv DEF IInv
<1>1. ASSUME NEW c \in Calls, Begin(c) \/ Coroutine(c) PROVE Rest'
  BY <1>0, <1>1, BeginInv, LbtInv, SendReturnsInv, AckWaitInv, RetryInv DEF Coroutine
<1>2. ASSUME (\E c \in Calls : ReceiveAck(c)) \/ ReceiveOther \/ ChannelClears
      PROVE  Rest'
  BY <1>0, <1>2, ReceiveInv
<1>3. ASSUME SocketStep PROVE Rest'
  BY <1>0, <1>3, ThreadInv, ConcentratordInv DEF SocketStep
<1>4. ASSUME Abort PROVE Rest'
  BY <1>0, <1>4, AbortInv
<1>5. ASSUME UNCHANGED vars PROVE Rest'
  BY <1>5
  DEF IInv, Rest, TypeOK, SockTypeOK, PhaseInv, BudgetInv, BroadcastInv,
      OnItsWay, ToSubmit, vars, sockVars, coVars
<1>6. Rest'
  BY <1>1, <1>2, <1>3, <1>4, <1>5 DEF Next
<1> QED
  BY <1>0, <1>6 DEF Rest, IInv

(* Every behaviour of send_text, with any number of clients, satisfies the *)
(* inductive invariant: budgets, claims on the socket, counted receptions. *)
THEOREM SendingCorrect == Spec => []IInv
<1> QED
  BY InitInv, NextInv, PTL DEF Spec

(* The bridge's variables keep their types, with any number of clients.    *)
THEOREM TypeCorrect == Spec => []TypeOK
<1>1. IInv => TypeOK
  BY DEF IInv
<1> QED
  BY <1>1, InitInv, NextInv, PTL DEF Spec

(* send_text, 706-737: a message costs at most MAX_RETRIES + 1             *)
(* transmissions, whatever is lost, late or concurrent.                    *)
THEOREM TransmissionsAreBounded == Spec => []TransmissionsBounded
<1>1. ASSUME IInv, NEW c \in Calls PROVE accepted[c] <= MAX_ATTEMPTS
  BY <1>1, BridgeTxAssumption
  DEF IInv, TypeOK, SockTypeOK, BudgetInv, OnItsWay, MAX_ATTEMPTS
<1>2. IInv => TransmissionsBounded
  BY <1>1 DEF TransmissionsBounded
<1> QED
  BY <1>2, InitInv, NextInv, PTL DEF Spec

(* send_text, 714-716: a broadcast goes on the air at most once, although  *)
(* it is retried whenever its reply was lost.                              *)
THEOREM BroadcastsAreSentOnce == Spec => []BroadcastOnce
<1>1. IInv => BroadcastOnce
  BY BridgeTxAssumption
  DEF IInv, TypeOK, SockTypeOK, BroadcastInv, BroadcastOnce, OnItsWay
<1> QED
  BY <1>1, InitInv, NextInv, PTL DEF Spec

(* send_text never uses the command socket in any way but the one the      *)
(* socket's own specification allows, so the downlink service keeps its    *)
(* promise while several send_texts run.                                   *)
THEOREM SendTextKeepsServicePromise == Spec => ImplementsDownlinkService
<1>1. Init => SockInit
  BY DEF Init
<1>2. Spec => SockSpec
  BY <1>1, NextIsSocketStep, PTL DEF Spec, SockSpec
<1> QED
  BY <1>2, SocketImplementsService

(* send_text, 719-732: no id outlives its call in _pending_acks unless the *)
(* call returned False.                                                    *)
THEOREM PendingIdsHaveOwners == Spec => []PendingHasOwner
<1>1. Init => PendingHasOwner
  BY DEF Init, PendingHasOwner
<1>2. ASSUME IInv, PendingHasOwner, [Next]_vars, NEW id \in pending'
      PROVE  \E c \in Calls \ Broadcasts :
               pid'[c] = id /\ pc'[c] \in {"send", "ackwait", "sleep", "error"}
  <2> DEFINE Owns(c) ==
        /\ c \in Calls \ Broadcasts
        /\ pid[c] = id
        /\ pc[c] \in {"send", "ackwait", "sleep", "error"}
  <2> USE <1>2 DEF IInv, TypeOK
  <2>1. ASSUME id \in pending PROVE \E c : Owns(c)
    BY <2>1 DEF PendingHasOwner
  <2>2. ASSUME NEW d \in Calls, SendSucceeded(d), id \notin pending
        PROVE  d \in Calls \ Broadcasts /\ pid'[d] = id /\ pc'[d] = "ackwait"
    BY <2>2 DEF SendSucceeded, Go
  <2>3. ASSUME id \in pending, NEW d \in Calls, Begin(d) \/ Coroutine(d),
               NEW c, Owns(c)
        PROVE  pid'[c] = id /\ pc'[c] \in {"send", "ackwait", "sleep", "error"}
    BY <2>3
    DEF Begin, Coroutine, Acquire, JitterEnds, BackoffEnds, FirstSend, BuildFails,
        SendSucceeded, SendFailed, AckSeen, AckDeadline, Retry, Go
  <2>4. CASE \E d \in Calls : Begin(d) \/ Coroutine(d)
    <3>1. PICK d \in Calls : Begin(d) \/ Coroutine(d)
      BY <2>4
    <3>2. CASE id \in pending
      BY <2>1, <2>3, <3>1, <3>2
    <3>3. CASE id \notin pending
      <4>1. SendSucceeded(d)
        BY <3>1, <3>3
        DEF Begin, Coroutine, Acquire, JitterEnds, BackoffEnds, SendFailed,
            AckSeen, AckDeadline, Retry
      <4> QED
        BY <2>2, <3>3, <4>1
    <3> QED
      BY <3>2, <3>3
  <2>5. CASE \/ \E c \in Calls : ReceiveAck(c)
             \/ SocketStep \/ ReceiveOther \/ ChannelClears \/ UNCHANGED vars
    <3>1. pending' \subseteq pending /\ UNCHANGED <<pc, pid>>
      BY <2>5 DEF ReceiveAck, SocketStep, ReceiveOther, ChannelClears, vars, coVars
    <3> QED
      BY <2>1, <3>1
  <2>6. CASE Abort
    BY <2>6 DEF Abort
  <2> QED
    BY <2>4, <2>5, <2>6 DEF Next
<1>3. IInv /\ PendingHasOwner /\ [Next]_vars => PendingHasOwner'
  BY <1>2 DEF PendingHasOwner
<1> QED
  BY <1>1, <1>3, InitInv, NextInv, PTL DEF Spec

-----------------------------------------------------------------------------
(* A call that waits has its id in _pending_acks until its own ACK, or its *)
(* own last deadline, takes it out, if no other call that has taken an id  *)
(* has the same.                                                           *)
Taken(c) == pc[c] \in {"send", "ackwait", "sleep", "ok"} \/ accepted[c] > 0 \/ owner = c

IdsDistinct ==
  \A c, d \in Calls : Taken(c) /\ Taken(d) /\ pid[c] = pid[d] => c = d

AckInv ==
  \A c \in Calls \ Broadcasts :
    /\ pc[c] = "ackwait" => pid[c] \in pending \/ c \in acked
    /\ pc[c] = "ok" /\ attempt[c] <= MAX_RETRIES => c \in acked

LEMMA AckWaitStep ==
  ASSUME IInv, IdsDistinct, AckInv, [Next]_vars
  PROVE  AckInv'
<1> USE DEF IInv, TypeOK
<1> SUFFICES ASSUME NEW c \in Calls \ Broadcasts
             PROVE  /\ pc'[c] = "ackwait" => pid'[c] \in pending' \/ c \in acked'
                    /\ pc'[c] = "ok" /\ attempt'[c] <= MAX_RETRIES => c \in acked'
  BY DEF AckInv
<1>0. /\ pc[c] = "ackwait" => pid[c] \in pending \/ c \in acked
      /\ pc[c] = "ok" /\ attempt[c] <= MAX_RETRIES => c \in acked
  BY DEF AckInv
<1>1. ASSUME NEW d \in Calls, Begin(d) \/ Acquire(d) \/ JitterEnds(d) \/ BackoffEnds(d)
                              \/ SendFailed(d) \/ Retry(d)
      PROVE  /\ pc'[c] = "ackwait" => pid'[c] \in pending' \/ c \in acked'
             /\ pc'[c] = "ok" /\ attempt'[c] <= MAX_RETRIES => c \in acked'
  BY <1>0, <1>1
  DEF Begin, Acquire, JitterEnds, BackoffEnds, FirstSend, BuildFails, SendFailed, Retry, Go
<1>2. ASSUME NEW d \in Calls, SendSucceeded(d)
      PROVE  /\ pc'[c] = "ackwait" => pid'[c] \in pending' \/ c \in acked'
             /\ pc'[c] = "ok" /\ attempt'[c] <= MAX_RETRIES => c \in acked'
  BY <1>0, <1>2 DEF SendSucceeded, Go
<1>3. ASSUME NEW d \in Calls, AckSeen(d)
      PROVE  /\ pc'[c] = "ackwait" => pid'[c] \in pending' \/ c \in acked'
             /\ pc'[c] = "ok" /\ attempt'[c] <= MAX_RETRIES => c \in acked'
  BY <1>0, <1>3 DEF AckSeen, Go
<1>4. ASSUME NEW d \in Calls, AckDeadline(d)
      PROVE  /\ pc'[c] = "ackwait" => pid'[c] \in pending' \/ c \in acked'
             /\ pc'[c] = "ok" /\ attempt'[c] <= MAX_RETRIES => c \in acked'
  <2>1. pc[d] = "ackwait" /\ pending \ {pid[d]} \subseteq pending'
        /\ UNCHANGED <<pid, attempt, acked>>
        /\ pc' = [pc EXCEPT ![d] = IF attempt[d] <= MAX_RETRIES THEN "sleep" ELSE "ok"]
    <3>1. attempt[d] \in Nat /\ MAX_RETRIES \in Nat
      BY BridgeTxAssumption
    <3> QED
      BY <1>4, <3>1 DEF AckDeadline, Go
  <2>2. CASE c = d
    BY <2>1, <2>2, BridgeTxAssumption
  <2>3. CASE c # d
    <3>1. pc[c] = "ackwait" => pid[c] # pid[d]
      BY <2>1, <2>3 DEF IdsDistinct, Taken
    <3> QED
      BY <1>0, <2>1, <2>3, <3>1
  <2> QED
    BY <2>2, <2>3
<1>5. ASSUME NEW d \in Calls, ReceiveAck(d)
      PROVE  /\ pc'[c] = "ackwait" => pid'[c] \in pending' \/ c \in acked'
             /\ pc'[c] = "ok" /\ attempt'[c] <= MAX_RETRIES => c \in acked'
  <2>1. accepted[d] > 0 /\ pending \ {pid[d]} \subseteq pending'
        /\ acked' = acked \union {d} /\ UNCHANGED <<pc, pid, attempt>>
    BY <1>5 DEF ReceiveAck, coVars
  <2>2. c # d /\ pc[c] = "ackwait" => pid[c] # pid[d]
    BY <2>1 DEF IdsDistinct, Taken
  <2> QED
    BY <1>0, <2>1, <2>2
<1>6. ASSUME SocketStep \/ ReceiveOther \/ ChannelClears \/ UNCHANGED vars
      PROVE  UNCHANGED <<pc, pid, attempt, pending, acked>>
  BY <1>6 DEF SocketStep, ReceiveOther, ChannelClears, vars, coVars
<1>7. ASSUME Abort
      PROVE  /\ pc'[c] = "ackwait" => pid'[c] \in pending' \/ c \in acked'
             /\ pc'[c] = "ok" /\ attempt'[c] <= MAX_RETRIES => c \in acked'
  BY <1>0, <1>7 DEF Abort, Returned
<1> QED
  BY <1>0, <1>1, <1>2, <1>3, <1>4, <1>5, <1>6, <1>7 DEF Next, Coroutine

(* bridge.py 718-731: as long as packet ids are distinct, whatever the     *)
(* order of replies, deadlines, retries, other calls' ACKs and restarts, a *)
(* unicast that returns True with attempts to spare was acknowledged.      *)
THEOREM DistinctIdsAreAcked == Spec /\ []IdsDistinct => []NoFalseAck
<1>1. Init => AckInv
  BY DEF Init, AckInv
<1>2. IInv /\ IdsDistinct /\ AckInv /\ [Next]_vars => AckInv'
  BY AckWaitStep
<1>3. AckInv => NoFalseAck
  BY DEF AckInv, NoFalseAck
<1> QED
  BY <1>1, <1>2, <1>3, SendingCorrect, PTL DEF Spec

-----------------------------------------------------------------------------
(* Ids are distinct if no two are taken in one millisecond and the clock   *)
(* does not come round: the clock has moved at most once for each call     *)
(* that is past its jitter, and no id of a time to come is in use.         *)
Past == {c \in Calls : pc[c] \notin Early}

ClockInv ==
  /\ StartTime <= clock /\ clock <= StartTime + Cardinality(Past)
  /\ IdsDistinct
  /\ \A c \in Calls, t \in Nat :
       Taken(c) /\ clock <= t /\ t < StartTime + Cardinality(Calls) => pid[c] # t % IdSpace

LEMMA NoWrap ==
  ASSUME NEW a \in Nat, NEW b \in Nat, a < b, b < a + IdSpace
  PROVE  a % IdSpace # b % IdSpace
<1> DEFINE N == IdSpace
<1>1. N \in Nat \ {0}
  BY BridgeTxAssumption
<1> HIDE DEF N
<1>2. a = N * (a \div N) + (a % N) /\ b = N * (b \div N) + (b % N)
      /\ a \div N \in Int /\ b \div N \in Int /\ a % N \in Int /\ b % N \in Int
  BY <1>1
<1>3. ASSUME NEW d \in Int, b - a = N * d PROVE FALSE
  <2>1. CASE d >= 1
    BY <1>1, <1>3, <2>1 DEF N
  <2>2. CASE d <= 0
    BY <1>1, <1>3, <2>2 DEF N
  <2> QED
    BY <2>1, <2>2
<1>4. ASSUME a % N = b % N PROVE FALSE
  <2> DEFINE d == (b \div N) - (a \div N)
  <2>1. d \in Int /\ b - a = N * d
    BY <1>1, <1>2, <1>4
  <2> QED
    BY <1>3, <2>1
<1> QED
  BY <1>4 DEF N

LEMMA PastGrows ==
  ASSUME IsFiniteSet(Calls), Past \subseteq Past'
  PROVE  /\ Cardinality(Past) \in Nat /\ Cardinality(Past)' \in Nat
         /\ Cardinality(Past) <= Cardinality(Past)'
         /\ Cardinality(Past)' <= Cardinality(Calls) /\ Cardinality(Calls) \in Nat
<1>1. Past \subseteq Calls /\ Past' \subseteq Calls
  BY DEF Past
<1>2. IsFiniteSet(Past) /\ IsFiniteSet(Past')
  BY <1>1, FS_Subset
<1> QED
  BY <1>1, <1>2, FS_Subset, FS_CardinalityType

(* A step in which no call takes its id.                                   *)
LEMMA NoIdStep ==
  ASSUME ClockInv, IsFiniteSet(Calls), IInv,
         UNCHANGED <<clock, pid>>, Past \subseteq Past',
         \A c \in Calls : Taken(c)' => Taken(c)
  PROVE  ClockInv'
<1>1. clock' <= StartTime + Cardinality(Past)'
  BY PastGrows, BridgeTxAssumption DEF ClockInv, IInv, TypeOK
<1>2. IdsDistinct'
  BY DEF ClockInv, IdsDistinct
<1> QED
  BY <1>1, <1>2 DEF ClockInv

LEMMA FirstIdStep ==
  ASSUME ClockInv, IsFiniteSet(Calls), Cardinality(Calls) <= IdSpace, ~SameMillisecond, IInv,
         NEW d \in Calls, NEW from \in {"jitter", "backoff"}, FirstSend(d, from)
  PROVE  ClockInv'
<1>1. /\ pc[d] = from /\ pc' = [pc EXCEPT ![d] = "send"]
      /\ pid' = [pid EXCEPT ![d] = clock % IdSpace] /\ clock' = clock + 1
      /\ UNCHANGED <<owner, accepted>>
  BY DEF FirstSend, Go, Submit
<1>2. pc \in [Calls -> PCs] /\ pid \in [Calls -> 0 .. (IdSpace - 1)] /\ clock \in Nat
      /\ StartTime \in Nat /\ IdSpace \in Nat \ {0}
  BY BridgeTxAssumption DEF IInv, TypeOK
<1>3. Past' = Past \union {d} /\ d \notin Past /\ Past \subseteq Calls
  BY <1>1, <1>2 DEF Past, Early
<1>4. IsFiniteSet(Past) /\ Cardinality(Past') = Cardinality(Past) + 1
  <2>1. IsFiniteSet(Past)
    BY <1>3, FS_Subset
  <2> QED
    BY <2>1, <1>3, FS_AddElement
<1>5. /\ Cardinality(Past) \in Nat /\ Cardinality(Calls) \in Nat
      /\ Cardinality(Past) + 1 <= Cardinality(Calls)
  BY <1>3, <1>4, PastGrows
<1>6. \A c \in Calls : Taken(c)' => Taken(c) \/ c = d
  BY <1>1, <1>2 DEF Taken
<1>7. \A c \in Calls : c # d => pid'[c] = pid[c]
  BY <1>1, <1>2
<1>8. pid'[d] = clock % IdSpace
  BY <1>1, <1>2
<1>9. \A c \in Calls, t \in Nat :
        Taken(c) /\ clock <= t /\ t < StartTime + Cardinality(Calls) => pid[c] # t % IdSpace
  BY DEF ClockInv
<1>10. StartTime <= clock /\ clock < StartTime + Cardinality(Calls)
       /\ clock <= StartTime + Cardinality(Past)
  BY <1>2, <1>5 DEF ClockInv
<1>11. \A c \in Calls : Taken(c) => pid[c] # clock % IdSpace
  BY <1>2, <1>9, <1>10
<1>12. IdsDistinct'
  BY <1>6, <1>7, <1>8, <1>11 DEF ClockInv, IdsDistinct
<1>13. ASSUME NEW c \in Calls, NEW t \in Nat, Taken(c)', clock' <= t,
              t < StartTime + Cardinality(Calls)
       PROVE  pid'[c] # t % IdSpace
  <2>1. clock < t /\ t < clock + IdSpace
    BY <1>1, <1>2, <1>5, <1>10, <1>13
  <2>2. CASE c = d
    BY <1>2, <1>8, <2>1, <2>2, NoWrap
  <2>3. CASE c # d
    BY <1>2, <1>6, <1>7, <1>9, <1>13, <2>1, <2>3
  <2> QED
    BY <2>2, <2>3
<1>14. StartTime <= clock' /\ clock' <= StartTime + Cardinality(Past)'
  BY <1>1, <1>2, <1>4, <1>5, <1>10
<1> QED
  BY <1>12, <1>13, <1>14 DEF ClockInv

LEMMA ClockStep ==
  ASSUME ClockInv, IsFiniteSet(Calls), Cardinality(Calls) <= IdSpace, ~SameMillisecond, IInv,
         [Next]_vars
  PROVE  ClockInv'
<1>0. /\ pc \in [Calls -> PCs] /\ accepted \in [Calls -> Nat] /\ tx \in [Calls -> TxStates]
      /\ NoCall \notin Calls
      /\ \A c \in Calls : tx[c] = "submitted" => pc[c] = "send"
  BY NoCallAssumption DEF IInv, TypeOK, SockTypeOK, PhaseInv
<1>1. CASE \E d \in Calls : FirstSend(d, "jitter") \/ FirstSend(d, "backoff")
  BY <1>1, FirstIdStep
<1>2. ASSUME NEW d \in Calls,
             Begin(d) \/ Coroutine(d), ~FirstSend(d, "jitter"), ~FirstSend(d, "backoff")
      PROVE  ClockInv'
  <2>1. /\ UNCHANGED <<clock, pid, owner, accepted>>
        /\ \E to \in PCs : pc' = [pc EXCEPT ![d] = to]
                           /\ (to \in Early => pc[d] \in Early)
                           /\ (to \in {"send", "ackwait", "sleep", "ok"} =>
                                 pc[d] \in {"send", "ackwait", "sleep", "ok"})
    <3> USE DEF PCs, Returned, Early
    <3>1. CASE Begin(d) \/ Acquire(d)
      BY <1>0, <3>1 DEF Begin, Acquire, Go, sockVars
    <3>2. CASE JitterEnds(d)
      BY <1>0, <1>2, <3>2 DEF JitterEnds, BuildFails, Go, sockVars
    <3>3. CASE BackoffEnds(d)
      <4>1. CASE BuildFails(d, "backoff")
        BY <1>0, <4>1 DEF BuildFails, Go, sockVars
      <4>2. CASE pc[d] = "backoff" /\ UNCHANGED <<sockVars, pc, pid, clock>>
        <5>1. pc' = [pc EXCEPT ![d] = "backoff"]
          BY <1>0, <4>2
        <5> QED
          BY <4>2, <5>1 DEF sockVars
      <4> QED
        BY <1>2, <3>3, <4>1, <4>2 DEF BackoffEnds
    <3>4. CASE SendSucceeded(d) \/ SendFailed(d)
      BY <1>0, <3>4 DEF SendSucceeded, SendFailed, Return, Go
    <3>5. CASE AckSeen(d) \/ AckDeadline(d)
      BY <1>0, <3>5 DEF AckSeen, AckDeadline, Go, sockVars
    <3>6. CASE Retry(d)
      BY <1>0, <3>6 DEF Retry, Submit, Go
    <3> QED
      BY <1>2, <3>1, <3>2, <3>3, <3>4, <3>5, <3>6 DEF Coroutine
  <2>2. Past \subseteq Past' /\ \A c \in Calls : Taken(c)' => Taken(c)
    BY <1>0, <2>1 DEF Past, Taken
  <2> QED
    BY <2>1, <2>2, NoIdStep
<1>3. CASE SocketStep
  <2>1. UNCHANGED <<clock, pid, pc>>
    BY <1>3 DEF SocketStep, coVars
  <2>2. \A c \in Calls : Taken(c)' => Taken(c)
    BY <1>0, <1>3, <2>1
    DEF SocketStep, Taken, Thread, ThreadSend, ThreadSendRefused, ThreadRecv, ThreadRecvTimeout,
        Concentratord, Transmit, Reject, LoseRequestOrReply, Disconnect
  <2> QED
    BY <2>1, <2>2, NoIdStep DEF Past
<1>4. CASE (\E c \in Calls : ReceiveAck(c)) \/ ReceiveOther \/ ChannelClears \/ UNCHANGED vars
  <2>1. UNCHANGED <<clock, pid, pc, owner, accepted>>
    BY <1>4 DEF ReceiveAck, ReceiveOther, ChannelClears, vars, coVars, sockVars
  <2> QED
    BY <2>1, NoIdStep DEF Past, Taken
<1>5. CASE Abort
  <2>1. /\ UNCHANGED <<clock, pid>> /\ owner' = NoCall
        /\ accepted' = accepted \/ accepted' = [accepted EXCEPT ![owner] = @ + 1]
        /\ pc' = [c \in Calls |-> IF pc[c] \in {"new"} \union Returned THEN pc[c] ELSE "lost"]
    BY <1>5 DEF Abort, NewProcess, SockReset
  <2>2. Past \subseteq Past'
    BY <2>1 DEF Past, Early
  <2>3. \A c \in Calls : Taken(c)' => Taken(c)
    BY <1>0, <2>1 DEF Taken, Returned
  <2> QED
    BY <2>1, <2>2, <2>3, NoIdStep
<1> QED
  BY <1>1, <1>2, <1>3, <1>4, <1>5 DEF Next

(* The clock the ids are taken from keeps them apart, if no two calls take *)
(* theirs in one millisecond and there are not more calls than ids         *)
(* (bridge.py 662: a time in milliseconds modulo 2^32): then every unicast *)
(* that returns True with attempts to spare was acknowledged.              *)
THEOREM NoAckIsFalse ==
  ~SameMillisecond /\ IsFiniteSet(Calls) /\ Cardinality(Calls) <= IdSpace
    => (Spec => []NoFalseAck)
<1> SUFFICES ASSUME ~SameMillisecond, IsFiniteSet(Calls), Cardinality(Calls) <= IdSpace
             PROVE  Spec => []NoFalseAck
  OBVIOUS
<1>1. Init => ClockInv
  <2> SUFFICES ASSUME Init PROVE ClockInv
    OBVIOUS
  <2>1. Past = {} /\ \A c \in Calls : ~Taken(c)
    BY NoCallAssumption DEF Init, SockInit, Past, Early, Taken
  <2>2. Cardinality(Past) = 0
    BY <2>1, FS_EmptySet
  <2>3. clock = StartTime /\ StartTime \in Nat
    BY BridgeTxAssumption DEF Init
  <2> QED
    BY <2>1, <2>2, <2>3 DEF ClockInv, IdsDistinct
<1>2. IInv /\ ClockInv /\ [Next]_vars => ClockInv'
  BY ClockStep
<1>3. ClockInv => IdsDistinct
  BY DEF ClockInv
<1>4. Spec => []IdsDistinct
  BY <1>1, <1>2, <1>3, SendingCorrect, PTL DEF Spec
<1> QED
  BY <1>4, DistinctIdsAreAcked, PTL
===============================================================================
