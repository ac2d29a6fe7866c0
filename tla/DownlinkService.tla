--------------------------- MODULE DownlinkService ---------------------------
(***************************************************************************)
(* What ConcentratordZMQ.send_downlink_raw promises its callers, without   *)
(* sockets, threads or a wire: every call carries one request, the         *)
(* concentratord processes a request at most once, a call answers "ok"     *)
(* only when its own request was processed, and a call that gives up may   *)
(* leave its request behind to be processed late.                          *)
(*                                                                         *)
(* CommandSocket is shown to implement this module.                        *)
(***************************************************************************)
EXTENDS Naturals

CONSTANTS Calls        (* the callers: one send_text coroutine each        *)

VARIABLES
  state,     (* state[c]: what c has been told of its current call         *)
  cur,       (* cur[c]: where the request of c's current call stands       *)
  stale,     (* stale[c]: a request c gave up on may still be processed    *)
  accepted   (* accepted[c]: downlinks of c put on the air                 *)

vars == <<state, cur, stale, accepted>>

Init ==
  /\ state = [c \in Calls |-> "idle"]
  /\ cur = [c \in Calls |-> "none"]
  /\ stale = [c \in Calls |-> FALSE]
  /\ accepted = [c \in Calls |-> 0]

Call(c) ==
  /\ state[c] = "idle"
  /\ state' = [state EXCEPT ![c] = "calling"]
  /\ cur' = [cur EXCEPT ![c] = "open"]
  /\ UNCHANGED <<stale, accepted>>

(* A call may be refused before there is a request.                        *)
Refuse(c) ==
  /\ state[c] = "idle"
  /\ state' = [state EXCEPT ![c] = "fail"]
  /\ UNCHANGED <<cur, stale, accepted>>

(* The concentratord processes a request: it transmits the frame or        *)
(* rejects it.                                                             *)
Outcome(c) == \E n \in {0, 1} : accepted' = [accepted EXCEPT ![c] = @ + n]

Process(c) ==
  /\ cur[c] = "open"
  /\ cur' = [cur EXCEPT ![c] = "done"]
  /\ Outcome(c)
  /\ UNCHANGED <<state, stale>>

ProcessLate(c) ==
  /\ stale[c]
  /\ stale' = [stale EXCEPT ![c] = FALSE]
  /\ Outcome(c)
  /\ UNCHANGED <<state, cur>>

(* A request, or its answer, is lost.                                      *)
Lose(c) ==
  /\ cur[c] \in {"open", "done"}
  /\ cur' = [cur EXCEPT ![c] = "lost"]
  /\ UNCHANGED <<state, stale, accepted>>

LoseLate(c) ==
  /\ stale[c]
  /\ stale' = [stale EXCEPT ![c] = FALSE]
  /\ UNCHANGED <<state, cur, accepted>>

Answer(c) ==
  /\ state[c] = "calling"
  /\ cur[c] = "done"
  /\ state' = [state EXCEPT ![c] = "ok"]
  /\ cur' = [cur EXCEPT ![c] = "none"]
  /\ UNCHANGED <<stale, accepted>>

(* A call fails without an answer; an open request may be left behind.     *)
GiveUp(c) ==
  /\ state[c] = "calling"
  /\ cur[c] \in {"open", "lost"}
  /\ state' = [state EXCEPT ![c] = "fail"]
  /\ cur' = [cur EXCEPT ![c] = "none"]
  /\ stale' \in {stale, [stale EXCEPT ![c] = @ \/ cur[c] = "open"]}
  /\ UNCHANGED accepted

Return(c) ==
  /\ state[c] \in {"ok", "fail"}
  /\ state' = [state EXCEPT ![c] = "idle"]
  /\ UNCHANGED <<cur, stale, accepted>>

(* The bridge process dies: every call is forgotten, and requests that     *)
(* were already on their way may still be processed.                       *)
Crash ==
  /\ \E late \in SUBSET {c \in Calls : cur[c] = "open" \/ stale[c]} :
       accepted' = [c \in Calls |-> accepted[c] + (IF c \in late THEN 1 ELSE 0)]
  /\ state' = [c \in Calls |-> "idle"]
  /\ cur' = [c \in Calls |-> "none"]
  /\ stale' = [c \in Calls |-> FALSE]

Next ==
  \/ \E c \in Calls :
       \/ Call(c) \/ Refuse(c) \/ Process(c) \/ ProcessLate(c) \/ Lose(c)
       \/ LoseLate(c) \/ Answer(c) \/ GiveUp(c) \/ Return(c)
  \/ Crash

Spec == Init /\ [][Next]_vars
==============================================================================
