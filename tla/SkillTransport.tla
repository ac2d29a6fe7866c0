---------------------------- MODULE SkillTransport ----------------------------
(***************************************************************************)
(* The agent skill (skill/scripts/meshtastic_api.py): ConnectionManager    *)
(* and its transports, over USB or TCP alike.  One thread runs commands;   *)
(* the library's thread calls the listener.                                *)
(*                                                                         *)
(* pubsub (external) keeps weak references: the listener of _subscribe is  *)
(* a local function and lives on only if something else refers to it, so   *)
(* that after a connect there may be none.                                 *)
(***************************************************************************)
EXTENDS MeshTransport

CONSTANTS
  ATTEMPTS,   (* reconnect_attempts                                        *)
  Commander   (* the one thread that runs commands                         *)

ASSUME SkillAssumption == ATTEMPTS \in Nat \ {0} /\ Commander \in Tasks

VARIABLES
  open,      (* _transport has an interface, as is_connected tells         *)
  alive,     (* its device is still there                                  *)
  hears,     (* its listener is still subscribed                           *)
  attempt,   (* of get_transport, 0 outside                                *)
  copied     (* what receive_messages has copied from _received            *)

skillVars == <<open, alive, hears, attempt, copied>>

SkillInit ==
  open = FALSE /\ alive = FALSE /\ hears = FALSE /\ attempt = 0 /\ copied = <<>>

(* get_transport returns what is connected, whether its device is there or *)
(* not; otherwise it tries, and raises after the last attempt.             *)
SGet(t) ==
  /\ at[t] = "idle" /\ ~open
  /\ attempt' = 1
  /\ Goes(t, "attempting")
  /\ UNCHANGED <<kind, connected, queue, call, begun, historyVars, open, alive, hears, copied>>

SConnects(t) ==
  /\ at[t] = "attempting"
  /\ open' = TRUE /\ alive' = TRUE /\ hears' \in BOOLEAN
  /\ attempt' = 0
  /\ Goes(t, "idle")
  /\ queue' = <<>>
  /\ UNCHANGED <<kind, connected, call, begun, historyVars, copied>>

SAttemptFails(t) ==
  /\ at[t] = "attempting"
  /\ IF attempt < ATTEMPTS THEN attempt' = attempt + 1 /\ UNCHANGED at
     ELSE attempt' = 0 /\ Goes(t, "idle")
  /\ UNCHANGED <<kind, connected, queue, call, begun, historyVars, open, alive, hears, copied>>

SClose(t) ==
  /\ at[t] = "idle" /\ open
  /\ open' = FALSE /\ alive' = FALSE /\ hears' = FALSE
  /\ UNCHANGED <<appVars, historyVars, attempt, copied>>

DeviceGone ==
  /\ alive /\ alive' = FALSE
  /\ UNCHANGED <<appVars, historyVars, open, hears, attempt, copied>>

(* The listener appends to _received, whether or not anyone is listening.  *)
SHears ==
  /\ heard < MAX_HEARD
  /\ heard' = heard + 1
  /\ queue' = IF alive /\ hears THEN Append(queue, heard + 1) ELSE queue
  /\ UNCHANGED <<kind, connected, at, call, begun, inbox, accepted, trues, skillVars>>

(* cmd_send: sendText, then the answer to the command.                     *)
SSend(t) ==
  /\ at[t] = "idle" /\ open
  /\ BeginCall(t, IF alive THEN "sent" ELSE "refused")
  /\ accepted' = IF alive THEN accepted + 1 ELSE accepted
  /\ UNCHANGED <<kind, connected, queue, call, heard, inbox, trues, skillVars>>

SSendReturns(t) ==
  /\ at[t] \in {"sent", "refused"}
  /\ trues' = IF at[t] = "sent" THEN trues + 1 ELSE trues
  /\ Goes(t, "idle")
  /\ UNCHANGED <<kind, connected, queue, call, begun, heard, inbox, accepted, skillVars>>

(* receive_messages: clear, listen for the window, copy, clear.            *)
SListen(t) ==
  /\ at[t] = "idle" /\ open
  /\ queue' = <<>>
  /\ Goes(t, "listening")
  /\ UNCHANGED <<kind, connected, call, begun, historyVars, skillVars>>

SCopy(t) ==
  /\ at[t] = "listening"
  /\ copied' = queue
  /\ Goes(t, "copied")
  /\ UNCHANGED <<kind, connected, queue, call, begun, historyVars, open, alive, hears, attempt>>

(* What arrived since the copy is gone.                                    *)
SReturn(t) ==
  /\ at[t] = "copied"
  /\ queue' = <<>>
  /\ inbox' = inbox \o copied
  /\ copied' = <<>>
  /\ Goes(t, "idle")
  /\ UNCHANGED <<kind, connected, call, begun, heard, accepted, trues,
                 open, alive, hears, attempt>>

SkillNext ==
  \/ SHears \/ DeviceGone
  \/ SGet(Commander) \/ SConnects(Commander) \/ SAttemptFails(Commander)
  \/ SClose(Commander) \/ SSend(Commander) \/ SSendReturns(Commander)
  \/ SListen(Commander) \/ SCopy(Commander) \/ SReturn(Commander)
===============================================================================
