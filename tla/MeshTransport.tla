----------------------------- MODULE MeshTransport -----------------------------
(***************************************************************************)
(* The state every transport has (src/src/bridge/transports/base.py and    *)
(* skill/scripts/meshtastic_api.py), the application's side of it, and the *)
(* history its correctness is about.  An application is a set of tasks,    *)
(* each in at most one call; packets carry the number they were heard at.  *)
(***************************************************************************)
EXTENDS Integers, Sequences

CONSTANTS
  Tasks,
  MAX_HEARD,   (* bound: packets heard                                     *)
  MAX_CALLS    (* bound: calls of send_raw or send_text                    *)

ASSUME TransportAssumption == MAX_HEARD \in Nat /\ MAX_CALLS \in Nat

VARIABLES
  kind,        (* transport_type                                           *)
  connected,   (* _connected                                               *)
  queue,       (* _receive_queue, or _received                             *)
  at,          (* where each task is                                       *)
  call,        (* the number of the concentrator's send each task is in    *)
  begun,       (* sends begun                                              *)
  heard, inbox, accepted, trues   (* as in TransportService                *)

appVars == <<kind, connected, queue, at, call, begun>>
historyVars == <<heard, inbox, accepted, trues>>
baseVars == <<appVars, historyVars>>

BaseInit ==
  /\ connected = FALSE /\ queue = <<>> /\ begun = 0
  /\ at = [t \in Tasks |-> "idle"] /\ call = [t \in Tasks |-> 0]
  /\ heard = 0 /\ inbox = <<>> /\ accepted = 0 /\ trues = 0

Sending == {"draining", "reading", "waiting", "dropped", "sending", "sent", "refused"}

(* Nobody is in connect or disconnect.                                     *)
LifeIdle == \A t \in Tasks : at[t] \in Sending \union {"idle"}

Goes(t, place) == at' = [at EXCEPT ![t] = place]

(* A call that has got past its first checks.                              *)
BeginCall(t, place) ==
  /\ begun < MAX_CALLS
  /\ begun' = begun + 1
  /\ Goes(t, place)

(* receive(), when there is something to return.                           *)
Receive ==
  /\ queue # <<>>
  /\ inbox' = Append(inbox, Head(queue))
  /\ queue' = Tail(queue)
  /\ UNCHANGED <<kind, connected, at, call, begun, heard, accepted, trues>>
===============================================================================
