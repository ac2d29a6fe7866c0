------------------------- MODULE CommandSocketProofs -------------------------
(***************************************************************************)
(* Proofs about CommandSocket, for any set of callers: the shared socket   *)
(* never mixes up replies, a wedged socket stays wedged, and               *)
(* send_downlink_raw implements DownlinkService.                           *)
(***************************************************************************)
EXTENDS CommandSocket, TLAPS

LEMMA SockInitInv == SockInit => SockInv
  BY NoCallAssumption
  DEF SockInit, SockInv, SockTypeOK, ReplyBelongsToWaiter, SocketConsistent,
      WireStates, TxStates

(* Every step of the socket, its threads and the concentratord preserves   *)
(* the socket invariant.                                                   *)
LEMMA SockNextInv == SockInv /\ [SockNext]_sockVars => SockInv'
<1> SUFFICES ASSUME SockInv, [SockNext]_sockVars PROVE SockInv'
  OBVIOUS
<1> USE NoCallAssumption
    DEF SockInv, SockTypeOK, ReplyBelongsToWaiter, SocketConsistent,
        WireStates, TxStates
<1>1. ASSUME NEW c \in Calls, Submit(c) PROVE SockInv'
  BY <1>1 DEF Submit
<1>2. ASSUME NEW c \in Calls, Return(c) PROVE SockInv'
  BY <1>2 DEF Return
<1>3. ASSUME NEW c \in Calls, ThreadSend(c) PROVE SockInv'
  BY <1>3 DEF ThreadSend
<1>4. ASSUME NEW c \in Calls, ThreadSendRefused(c) PROVE SockInv'
  BY <1>4 DEF ThreadSendRefused
<1>5. ASSUME NEW c \in Calls, ThreadRecv(c) PROVE SockInv'
  BY <1>5 DEF ThreadRecv
<1>6. ASSUME NEW c \in Calls, ThreadRecvTimeout(c) PROVE SockInv'
  BY <1>6 DEF ThreadRecvTimeout
<1>7. CASE Concentratord
  BY <1>7 DEF Concentratord, Transmit, Reject, LoseRequestOrReply
<1>8. CASE Disconnect
  BY <1>8 DEF Disconnect
<1>9. CASE NewProcess
  BY <1>9 DEF NewProcess, SockReset
<1>10. CASE UNCHANGED sockVars
  BY <1>10 DEF sockVars
<1> QED
  BY <1>1, <1>2, <1>3, <1>4, <1>5, <1>6, <1>7, <1>8, <1>9, <1>10
  DEF SockNext, Thread

(* send_downlink_raw, 229-249: of all the threads that share the socket    *)
(* only the one whose request is outstanding ever waits for a reply.       *)
THEOREM SocketCorrect == SockSpec => [](SockTypeOK /\ ReplyBelongsToWaiter)
<1>1. SockInv => SockTypeOK /\ ReplyBelongsToWaiter
  BY DEF SockInv
<1> QED
  BY <1>1, SockInitInv, SockNextInv, PTL DEF SockSpec

(* send_downlink_raw, 239-249: a request whose reply never came ends the   *)
(* command path until the process is replaced.                             *)
THEOREM WedgedForEver == SockSpec => WedgedStaysWedged
<1> DEFINE Step ==
      Wedged /\ (running' => running) =>
        Wedged' /\ \A c \in Calls : tx[c] # "ok" => tx'[c] # "ok"
<1>1. ASSUME SockInv, [SockNext]_sockVars PROVE [Step]_sockVars
  <2> SUFFICES ASSUME SockNext PROVE Step
    BY <1>1
  <2> USE DEF SockInv, SockTypeOK, Wedged, TxStates
  <2>0. SockInv
    BY <1>1
  <2>1. ASSUME NEW c \in Calls, Submit(c) PROVE Step
    BY <2>0, <2>1 DEF Submit
  <2>2. ASSUME NEW c \in Calls, Return(c) PROVE Step
    BY <2>0, <2>2 DEF Return
  <2>3. ASSUME NEW c \in Calls, Thread(c) PROVE Step
    BY <2>0, <2>3
    DEF Thread, ThreadSend, ThreadSendRefused, ThreadRecv, ThreadRecvTimeout
  <2>4. CASE Concentratord
    BY <2>4 DEF Concentratord, Transmit, Reject, LoseRequestOrReply
  <2>5. CASE Disconnect
    BY <2>5 DEF Disconnect
  <2>6. CASE NewProcess
    BY <2>0, <2>6 DEF NewProcess, Race, SockReset
  <2> QED
    BY <2>1, <2>2, <2>3, <2>4, <2>5, <2>6 DEF SockNext
<1> QED
  BY <1>1, SockInitInv, SockNextInv, PTL DEF SockSpec, WedgedStaysWedged

-----------------------------------------------------------------------------
(* The refinement.  Initial states map to initial states ...               *)
LEMMA ServiceInit == SockInit => Service!Init
  BY NoCallAssumption DEF SockInit, Service!Init, StateOf, RequestOf, LeftBehind

(* ... and every step maps to a step of DownlinkService or to a stutter:   *)
(* entering and closing the socket are invisible, a refused send and a timeout are both *)
(* GiveUp, and what the concentratord does to the outstanding request      *)
(* depends on whether somebody still waits for it.                         *)
LEMMA ServiceStep ==
  SockInv /\ [SockNext]_sockVars => [Service!Next]_(Service!vars)
<1> SUFFICES ASSUME SockInv, [SockNext]_sockVars
             PROVE  Service!Next \/ UNCHANGED Service!vars
  OBVIOUS
<1> USE NoCallAssumption
    DEF SockInv, SockTypeOK, ReplyBelongsToWaiter, SocketConsistent,
        WireStates, TxStates, StateOf, RequestOf, LeftBehind
<1>1. ASSUME NEW c \in Calls, Submit(c)
      PROVE  Service!Call(c) \/ Service!Refuse(c)
  <2>1. CASE running
    BY <1>1, <2>1 DEF Submit, Service!Call
  <2>2. CASE ~running
    BY <1>1, <2>2 DEF Submit, Service!Refuse
  <2> QED
    BY <2>1, <2>2
<1>2. ASSUME NEW c \in Calls, Return(c) PROVE Service!Return(c)
  BY <1>2 DEF Return, Service!Return
<1>3. ASSUME NEW c \in Calls, ThreadSend(c) PROVE UNCHANGED Service!vars
  BY <1>3 DEF ThreadSend, Service!vars
<1>4. ASSUME NEW c \in Calls, ThreadSendRefused(c) PROVE Service!GiveUp(c)
  BY <1>4 DEF ThreadSendRefused, Service!GiveUp
<1>5. ASSUME NEW c \in Calls, ThreadRecv(c) PROVE Service!Answer(c)
  BY <1>5 DEF ThreadRecv, Service!Answer
<1>6. ASSUME NEW c \in Calls, ThreadRecvTimeout(c) PROVE Service!GiveUp(c)
  BY <1>6 DEF ThreadRecvTimeout, Service!GiveUp
<1>7. ASSUME NEW c \in Calls, c = owner, Transmit \/ Reject
      PROVE  Service!Process(c) \/ Service!ProcessLate(c)
  <2>0. Service!Outcome(c)
    <3>1. CASE Transmit
      <4>1. accepted' = [accepted EXCEPT ![c] = @ + 1]
        BY <1>7, <3>1 DEF Transmit
      <4> QED
        BY <4>1 DEF Service!Outcome
    <3>2. CASE Reject
      <4>1. accepted' = [accepted EXCEPT ![c] = @ + 0]
        BY <1>7, <3>2 DEF Reject
      <4> QED
        BY <4>1 DEF Service!Outcome
    <3> QED
      BY <1>7, <3>1, <3>2
  <2>1. CASE tx[c] = "waiting"
    BY <1>7, <2>0, <2>1 DEF Transmit, Reject, Service!Process
  <2>2. CASE tx[c] # "waiting"
    BY <1>7, <2>0, <2>2 DEF Transmit, Reject, Service!ProcessLate
  <2> QED
    BY <2>1, <2>2
<1>8. ASSUME NEW c \in Calls, c = owner, LoseRequestOrReply
      PROVE  Service!Lose(c) \/ Service!LoseLate(c) \/ UNCHANGED Service!vars
  <2>1. CASE tx[c] = "waiting"
    BY <1>8, <2>1 DEF LoseRequestOrReply, Service!Lose
  <2>2. CASE tx[c] # "waiting" /\ wire = "queued"
    BY <1>8, <2>2 DEF LoseRequestOrReply, Service!LoseLate
  <2>3. CASE tx[c] # "waiting" /\ wire = "replied"
    BY <1>8, <2>3 DEF LoseRequestOrReply, Service!vars
  <2> QED
    BY <1>8, <2>1, <2>2, <2>3 DEF LoseRequestOrReply
<1>9. ASSUME NewProcess PROVE Service!Crash
  <2> DEFINE late == {c \in Calls : c = owner /\ accepted'[c] = accepted[c] + 1}
  <2>1. accepted' = [c \in Calls |-> accepted[c] + (IF c \in late THEN 1 ELSE 0)]
    BY <1>9 DEF NewProcess, SockReset
  <2>2. ASSUME NEW c \in late PROVE wire = "queued" /\ owner = c /\ c \in Calls
    BY <1>9, <2>2 DEF NewProcess, SockReset
  <2> QED
    BY <1>9, <2>1, <2>2 DEF NewProcess, SockReset, Service!Crash
<1>10. CASE UNCHANGED sockVars \/ Disconnect
  BY <1>10 DEF sockVars, Disconnect, Service!vars
<1>11. Concentratord => \E c \in Calls : c = owner
  BY DEF Concentratord, Transmit, Reject, LoseRequestOrReply
<1> QED
  BY <1>1, <1>2, <1>3, <1>4, <1>5, <1>6, <1>7, <1>8, <1>9, <1>10, <1>11
  DEF SockNext, Thread, Concentratord, Service!Next

(* send_downlink_raw answers True only for a request that was processed,   *)
(* and no request is processed twice, with any number of callers.          *)
THEOREM SocketImplementsService == SockSpec => ImplementsDownlinkService
  BY ServiceInit, ServiceStep, SockInitInv, SockNextInv, PTL
  DEF SockSpec, ImplementsDownlinkService, Service!Spec
==============================================================================
