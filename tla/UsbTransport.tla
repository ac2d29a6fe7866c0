----------------------------- MODULE UsbTransport -----------------------------
(***************************************************************************)
(* USBTransport (src/src/bridge/transports/usb.py): a radio on a serial    *)
(* port, through the meshtastic library.  Its calls run in executor        *)
(* threads, and its callbacks in a thread of the library.                  *)
(*                                                                         *)
(* External: the library, which opens the port exclusively, tells          *)
(* "established" afterwards from a thread of its own, however late, and    *)
(* tells nobody when the radio is unplugged (nobody asked); and pubsub,    *)
(* which takes a listener once.                                            *)
(***************************************************************************)
EXTENDS MeshTransport

CONSTANTS
  Interfaces,      (* names of interfaces, enough that one is always unused *)
  MAX_ANNOUNCED    (* bound: messages "established" on their way           *)

ASSUME UsbAssumption == MAX_ANNOUNCED \in Nat

VARIABLES
  iface,      (* _interface: 0 is None                                     *)
  port,       (* the interface that has the serial port open, or 0         *)
  listening,  (* _on_receive is subscribed                                 *)
  watching,   (* _on_connection is subscribed                              *)
  posted,     (* packets on their way to the event loop                    *)
  announced,  (* messages "established" not delivered yet                  *)
  hand,       (* the interface each connect has opened, or disconnect is   *)
              (* closing, and 0                                            *)
  overlap     (* a connect and a disconnect, or two, have overlapped       *)

portVars == <<iface, port>>
pubsubVars == <<listening, watching, posted, announced>>
usbVars == <<portVars, pubsubVars, hand, overlap>>

UsbInit ==
  /\ iface = 0 /\ port = 0
  /\ listening = FALSE /\ watching = FALSE /\ posted = <<>> /\ announced = 0
  /\ hand = [t \in Tasks |-> 0] /\ overlap = FALSE

-----------------------------------------------------------------------------
(* connect: the interface is opened in a thread; until the coroutine goes  *)
(* on, nothing refers to it.                                               *)
UConnect(t) ==
  /\ at[t] = "idle"
  /\ Goes(t, "opening")
  /\ overlap' = (overlap \/ ~LifeIdle)
  /\ UNCHANGED <<kind, connected, queue, call, begun, historyVars, portVars, pubsubVars, hand>>

InUse == {0, iface, port} \union {hand[t] : t \in Tasks}
NewInterface == CHOOSE i \in Interfaces : i \notin InUse

UOpens(t) ==
  /\ at[t] = "opening" /\ port = 0
  /\ announced < MAX_ANNOUNCED /\ announced' = announced + 1
  /\ port' = NewInterface
  /\ hand' = [hand EXCEPT ![t] = NewInterface]
  /\ Goes(t, "opened")
  /\ UNCHANGED <<kind, connected, queue, call, begun, historyVars, iface,
                 listening, watching, posted, overlap>>

(* _on_connection, in the library's thread: before connect has gone on, or *)
(* long after the interface was closed.  Nothing unsubscribes it.          *)
Established ==
  /\ announced > 0 /\ announced' = announced - 1
  /\ connected' = (connected \/ watching)
  /\ UNCHANGED <<kind, queue, at, call, begun, historyVars, portVars,
                 listening, watching, posted, hand, overlap>>

UConnected(t) ==
  /\ at[t] = "opened"
  /\ iface' = hand[t] /\ hand' = [hand EXCEPT ![t] = 0]
  /\ listening' = TRUE /\ watching' = TRUE
  /\ connected' = TRUE
  /\ Goes(t, "idle")
  /\ UNCHANGED <<kind, queue, call, begun, historyVars, port, posted, announced, overlap>>

(* There is no device, or its port is open already: by this transport, if  *)
(* it is connected, and then is_connected turns false all the same.        *)
UConnectFails(t) ==
  /\ at[t] = "opening"
  /\ connected' = FALSE
  /\ Goes(t, "idle")
  /\ UNCHANGED <<kind, queue, call, begun, historyVars, usbVars>>

(* disconnect: unsubscribe _on_receive, close in a thread, forget.         *)
UDisconnect(t) ==
  /\ at[t] = "idle" /\ iface # 0
  /\ listening' = FALSE
  /\ hand' = [hand EXCEPT ![t] = iface]
  /\ overlap' = (overlap \/ ~LifeIdle)
  /\ Goes(t, "closing")
  /\ UNCHANGED <<kind, connected, queue, call, begun, historyVars, portVars, watching,
                 posted, announced>>

(* A disconnect that only drops the reference.                             *)
MutUCloses(t) ==
  /\ at[t] = "closing"
  /\ hand' = [hand EXCEPT ![t] = 0]
  /\ Goes(t, "closed")
  /\ UNCHANGED <<kind, connected, queue, call, begun, historyVars, portVars,
                 pubsubVars, overlap>>

UCloses(t) ==
  /\ at[t] = "closing"
  /\ port' = IF port = hand[t] THEN 0 ELSE port
  /\ hand' = [hand EXCEPT ![t] = 0]
  /\ Goes(t, "closed")
  /\ UNCHANGED <<kind, connected, queue, call, begun, historyVars, iface,
                 pubsubVars, overlap>>

UDisconnected(t) ==
  /\ at[t] = "closed"
  /\ iface' = 0 /\ connected' = FALSE
  /\ Goes(t, "idle")
  /\ UNCHANGED <<kind, queue, call, begun, historyVars, port, pubsubVars, hand, overlap>>

(* With no interface there is nothing to close.                            *)
UNoInterface(t) ==
  /\ at[t] = "idle" /\ iface = 0 /\ connected
  /\ connected' = FALSE
  /\ UNCHANGED <<kind, queue, at, call, begun, historyVars, usbVars>>

Unplug ==
  /\ port # 0
  /\ port' = 0
  /\ UNCHANGED <<baseVars, iface, pubsubVars, hand, overlap>>

-----------------------------------------------------------------------------
(* _on_receive posts the packet to the event loop, which queues it later.  *)
UHears ==
  /\ heard < MAX_HEARD
  /\ heard' = heard + 1
  /\ posted' = IF port # 0 /\ listening THEN Append(posted, heard + 1) ELSE posted
  /\ UNCHANGED <<appVars, inbox, accepted, trues, portVars, listening, watching,
                 announced, hand, overlap>>

(* The packets of a burst in the order of a stack.                         *)
MutPosted ==
  /\ posted # <<>>
  /\ queue' = Append(queue, posted[Len(posted)])
  /\ posted' = SubSeq(posted, 1, Len(posted) - 1)
  /\ UNCHANGED <<kind, connected, at, call, begun, historyVars, portVars,
                 listening, watching, announced, hand, overlap>>

Posted ==
  /\ posted # <<>>
  /\ queue' = Append(queue, Head(posted))
  /\ posted' = Tail(posted)
  /\ UNCHANGED <<kind, connected, at, call, begun, historyVars, portVars,
                 listening, watching, announced, hand, overlap>>

-----------------------------------------------------------------------------
(* send_text and send_raw, in a thread; the interface is looked up there.  *)
USend(t) ==
  /\ at[t] = "idle" /\ iface # 0
  /\ BeginCall(t, "sending")
  /\ UNCHANGED <<kind, connected, queue, call, historyVars, usbVars>>

USent(t) ==
  /\ at[t] = "sending"
  /\ IF iface # 0 /\ iface = port
     THEN accepted' = accepted + 1 /\ Goes(t, "sent")
     ELSE UNCHANGED accepted /\ Goes(t, "refused")
  /\ UNCHANGED <<kind, connected, queue, call, begun, heard, inbox, trues, usbVars>>

USendReturns(t) ==
  /\ at[t] \in {"sent", "refused"}
  /\ trues' = IF at[t] = "sent" THEN trues + 1 ELSE trues
  /\ Goes(t, "idle")
  /\ UNCHANGED <<kind, connected, queue, call, begun, heard, inbox, accepted, usbVars>>

UsbNext ==
  \/ UHears \/ Posted \/ Established \/ Unplug
  \/ \E t \in Tasks :
       \/ UConnect(t) \/ UOpens(t) \/ UConnected(t) \/ UConnectFails(t)
       \/ UDisconnect(t) \/ UNoInterface(t) \/ UCloses(t) \/ UDisconnected(t)
       \/ USend(t) \/ USent(t) \/ USendReturns(t)
===============================================================================
