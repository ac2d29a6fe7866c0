------------------------------ MODULE Transports ------------------------------
(***************************************************************************)
(* An application over a transport of the kind it was configured with: the *)
(* shared state of MeshTransport, the own state of each kind, and one kind *)
(* at work.  Each is shown to implement TransportService.                  *)
(***************************************************************************)
EXTENDS ConcentratorTransport, UsbTransport, SkillTransport

CONSTANT Kinds   (* those that are configured                              *)

ASSUME KindAssumption == Kinds \subseteq {"concentrator", "usb", "skill"}

vars == <<baseVars, concentratorVars, usbVars, skillVars>>

Init ==
  /\ kind \in Kinds
  /\ BaseInit /\ ConcentratorInit /\ UsbInit /\ SkillInit

Next ==
  \/ kind = "concentrator" /\ ConcentratorNext /\ UNCHANGED <<usbVars, skillVars>>
  \/ kind = "usb" /\ UsbNext /\ UNCHANGED <<concentratorVars, skillVars>>
  \/ kind = "skill" /\ SkillNext /\ UNCHANGED <<concentratorVars, usbVars>>
  \/ kind # "skill" /\ Receive /\ UNCHANGED <<concentratorVars, usbVars, skillVars>>

(* The event loop runs every coroutine that can go on, the five seconds    *)
(* end, and a thread of the executor finishes its call to the library.     *)
Fairness ==
  \A t \in Tasks :
    /\ WF_vars(kind = "concentrator" /\ Drained(t) /\ UNCHANGED <<usbVars, skillVars>>)
    /\ WF_vars(kind = "concentrator" /\ ReadAnswer(t) /\ UNCHANGED <<usbVars, skillVars>>)
    /\ WF_vars(kind = "concentrator" /\ Timeout(t) /\ UNCHANGED <<usbVars, skillVars>>)
    /\ WF_vars(kind = "concentrator" /\ StreamGone(t) /\ UNCHANGED <<usbVars, skillVars>>)
    /\ WF_vars(kind = "usb" /\ USent(t) /\ UNCHANGED <<concentratorVars, skillVars>>)
    /\ WF_vars(kind = "usb" /\ USendReturns(t) /\ UNCHANGED <<concentratorVars, skillVars>>)
    /\ WF_vars(kind = "skill" /\ SSendReturns(t) /\ UNCHANGED <<concentratorVars, usbVars>>)

Spec == Init /\ [][Next]_vars /\ Fairness

-----------------------------------------------------------------------------
(* Every transport keeps the promise of the interface (base.py 119, 133,   *)
(* 155): packets in order and at most once, no success that nobody made.   *)
Service == INSTANCE TransportService
ImplementsService == Service!ServiceSpec

(* While the calls on a stream neither overlap nor end unanswered, a True  *)
(* from send_raw is the daemon's answer to that very command, although the *)
(* receive loop reads the same stream (127, 183): what it may do is take   *)
(* an answer away, never give a wrong one.                                 *)
OwnAnswer == trusted \subseteq verdicts

(* An is_connected that is the same for every transport.                   *)
MutIsConnected == connected

(* is_connected: of a radio on a port, only with an interface (usb.py 154).*)
IsConnected == connected /\ (kind = "usb" => iface # 0)

(* A transport that says it is connected has somebody to listen, unless it *)
(* is being disconnected: the receive loop has not ended (193), or the     *)
(* listener is subscribed (usb.py 49), however late the library tells that *)
(* the connection was established (172).  On a stream that was reset the   *)
(* loop that has not ended hears nothing: it fails and sleeps (201-203).   *)
ConnectedIsServed ==
  IsConnected /\ LifeIdle =>
    /\ kind = "concentrator" => loop # "off"
    /\ kind = "usb" /\ ~overlap => listening

(* Unless connects and disconnects overlap, an interface that holds the    *)
(* serial port is the one that disconnect would close: else the port is    *)
(* lost to the process (usb.py 42, 70, 73).                                *)
PortNotLeaked ==
  kind = "usb" /\ LifeIdle /\ ~overlap /\ port # 0 => iface = port

(* drain has no limit of time (162): it holds a send as long as the daemon *)
(* leaves more unread than the stream takes.                               *)
Held(t) == at[t] = "draining" /\ ~Drains

(* At every point of a send, it returns or comes to be held by drain: the  *)
(* daemon's answer may be lost to the receive loop and its stream may end, *)
(* but readline is given five seconds (170), and a drain that can go on    *)
(* does.                                                                   *)
SendReturns ==
  \A t \in Tasks : at[t] \in Sending ~> (at[t] = "idle" \/ Held(t))
===============================================================================
