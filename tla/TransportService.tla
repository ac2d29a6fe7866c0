--------------------------- MODULE TransportService ---------------------------
(***************************************************************************)
(* What a transport promises its application (src/src/bridge/transports/   *)
(* base.py: MeshTransport): received packets are handed over in the order  *)
(* they were heard, each at most once, and send_raw reports no more        *)
(* successes than the radio or its daemon has accepted frames.  Which      *)
(* packets are handed over, and whether a success is reported at all, is   *)
(* left open.                                                              *)
(***************************************************************************)
EXTENDS Integers, Sequences

VARIABLES
  heard,      (* packets are numbered as the radio hears them: 1 .. heard  *)
  inbox,      (* what receive() has returned                               *)
  accepted,   (* frames taken by the radio or its daemon                   *)
  trues       (* calls of send_raw or send_text that returned True         *)

serviceVars == <<heard, inbox, accepted, trues>>

Newest(s) == IF s = <<>> THEN 0 ELSE s[Len(s)]

ServiceInit == heard = 0 /\ inbox = <<>> /\ accepted = 0 /\ trues = 0

Hear == heard' = heard + 1 /\ UNCHANGED <<inbox, accepted, trues>>

(* One packet, or those of a listening window.                             *)
Deliver ==
  /\ Len(inbox') > Len(inbox)
  /\ SubSeq(inbox', 1, Len(inbox)) = inbox
  /\ \A i \in Len(inbox) + 1 .. Len(inbox') :
       inbox'[i] > Newest(SubSeq(inbox', 1, i - 1)) /\ inbox'[i] <= heard
  /\ UNCHANGED <<heard, accepted, trues>>

Accept == accepted' = accepted + 1 /\ UNCHANGED <<heard, inbox, trues>>

Report ==
  /\ trues < accepted
  /\ trues' = trues + 1
  /\ UNCHANGED <<heard, inbox, accepted>>

ServiceNext == Hear \/ Deliver \/ Accept \/ Report

ServiceSpec == ServiceInit /\ [][ServiceNext]_serviceVars
===============================================================================
