------------------------- MODULE ConcentratorTransport -------------------------
(***************************************************************************)
(* ConcentratorTransport (src/src/bridge/transports/concentrator.py): a    *)
(* stream to lora-mesh-daemon on which packets and answers arrive mixed,   *)
(* read line by line by the receive loop and by every call of send_raw.    *)
(* asyncio lets one coroutine wait for a line: a second that finds none    *)
(* gets a RuntimeError.  A coroutine that finds a line takes it at once,   *)
(* even if another was waiting for it.  On a stream that was reset no      *)
(* line can be read any more, except by a coroutine already woken for it:  *)
(* reading raises.                                                         *)
(*                                                                         *)
(* The daemon is external, as are the streams.  The application connects   *)
(* when it is not connected and disconnects, one at a time.                *)
(***************************************************************************)
EXTENDS MeshTransport

CONSTANT BUFFER   (* commands the socket and the writer hold before drain  *)
                  (* waits for the daemon to read                          *)

ASSUME BufferAssumption == BUFFER \in Nat

VARIABLES
  link,      (* _reader and _writer: "none", "up", "eof" or "reset" by the *)
             (* daemon, or "shut" by disconnect                            *)
  lines,     (* written by the daemon and not read yet                     *)
  cmds,      (* commands the daemon has not read: calls, and 0 for status  *)
  loop,      (* _rx_task: "off", "ready", "waiting" or "sleeping"          *)
  verdicts,  (* the calls whose frame the daemon accepted                  *)
  trusted,   (* the calls that returned True on a stream not mixed         *)
  mixed      (* on this stream calls have overlapped, or ended without     *)
             (* their answer                                               *)

streamVars == <<link, lines, cmds, loop>>
answerVars == <<verdicts, trusted, mixed>>
concentratorVars == <<streamVars, answerVars>>

ConcentratorInit ==
  /\ link = "none" /\ lines = <<>> /\ cmds = <<>> /\ loop = "off"
  /\ verdicts = {} /\ trusted = {} /\ mixed = FALSE

Line(event, n) == [event |-> event, n |-> n]

Waiting == {t \in Tasks : at[t] = "waiting"}
InCall == {t \in Tasks : at[t] \in {"draining", "reading", "waiting"}}
SomeoneWaits == loop = "waiting" \/ Waiting # {}

(* The daemon has read enough for drain, or the stream is lost.            *)
Drains == Len(cmds) <= BUFFER \/ link = "reset"

(* Tasks that use a stream that has been replaced get its end.             *)
Dropped == [t \in Tasks |-> IF t \in InCall THEN "dropped" ELSE at[t]]

-----------------------------------------------------------------------------
(* The daemon.                                                             *)
DaemonHears ==
  /\ heard < MAX_HEARD
  /\ heard' = heard + 1
  /\ lines' = IF link = "up" THEN Append(lines, Line("rx", heard + 1)) ELSE lines
  /\ UNCHANGED <<appVars, inbox, accepted, trues, link, cmds, loop, answerVars>>

(* A command is carried out, even if nobody is there for the answer.       *)
DaemonAnswers(event) ==
  /\ cmds # <<>>
  /\ cmds' = Tail(cmds)
  /\ lines' = IF link = "up" THEN Append(lines, Line(event, 0)) ELSE lines
  /\ IF Head(cmds) # 0 /\ event = "ok"
     THEN accepted' = accepted + 1 /\ verdicts' = verdicts \union {Head(cmds)}
     ELSE UNCHANGED <<accepted, verdicts>>
  /\ UNCHANGED <<appVars, heard, inbox, trues, link, loop, trusted, mixed>>

(* The daemon's end is closed with nothing left to read there.             *)
DaemonCloses ==
  /\ link = "up" /\ Len(cmds) <= BUFFER
  /\ link' = "eof"
  /\ UNCHANGED <<baseVars, lines, cmds, loop, answerVars>>

(* It is closed with commands unread, or dies with them.                   *)
DaemonResets ==
  /\ link \in {"up", "shut"}
  /\ link' = "reset"
  /\ UNCHANGED <<baseVars, lines, cmds, loop, answerVars>>

-----------------------------------------------------------------------------
(* connect: a new stream, in the place of the old, and a status command.   *)
Connect(t) ==
  /\ at[t] = "idle" /\ LifeIdle /\ ~connected
  /\ link' = "up" /\ lines' = <<>> /\ cmds' = <<0>>
  /\ mixed' = FALSE
  /\ at' = [Dropped EXCEPT ![t] = "greeting"]
  /\ UNCHANGED <<kind, connected, queue, call, begun, historyVars, loop, verdicts, trusted>>

(* A connect that takes any line for the answer.                           *)
MutGreeted(t) ==
  /\ at[t] = "greeting" /\ lines # <<>>
  /\ lines' = Tail(lines)
  /\ connected' = TRUE /\ loop' = "ready"
  /\ Goes(t, "idle")
  /\ UNCHANGED <<kind, queue, call, begun, historyVars, link, cmds, answerVars>>

(* The first line must be the answer to it; if it is a packet, or there is *)
(* none in time, connect fails and leaves the stream open.                 *)
Greeted(t) ==
  /\ at[t] = "greeting" /\ lines # <<>>
  /\ lines' = Tail(lines)
  /\ IF Head(lines).event = "ok" THEN connected' = TRUE /\ loop' = "ready"
     ELSE UNCHANGED <<connected, loop>>
  /\ Goes(t, "idle")
  /\ UNCHANGED <<kind, queue, call, begun, historyVars, link, cmds, answerVars>>

NotGreeted(t) ==
  /\ at[t] = "greeting"
  /\ Goes(t, "idle")
  /\ UNCHANGED <<kind, connected, queue, call, begun, historyVars, concentratorVars>>

(* disconnect: cancel the loop, close the stream, forget it.               *)
Disconnect(t) ==
  /\ at[t] = "idle" /\ LifeIdle /\ link # "none"
  /\ loop' = "off"
  /\ Goes(t, "cancelling")
  /\ UNCHANGED <<kind, connected, queue, call, begun, historyVars, link, lines, cmds, answerVars>>

CloseStream(t) ==
  /\ at[t] = "cancelling"
  /\ link' = IF link = "reset" THEN link ELSE "shut"
  /\ Goes(t, "closing")
  /\ UNCHANGED <<kind, connected, queue, call, begun, historyVars, lines, cmds, loop, answerVars>>

(* wait_closed waits until what was written has gone, or the stream has.   *)
Disconnected(t) ==
  /\ at[t] = "closing" /\ Drains
  /\ link' = "none" /\ lines' = <<>>
  /\ connected' = FALSE
  /\ at' = [Dropped EXCEPT ![t] = "idle"]
  /\ UNCHANGED <<kind, queue, call, begun, historyVars, cmds, loop, answerVars>>

-----------------------------------------------------------------------------
(* send_raw: the command is written, and an answer read at once if the     *)
(* stream takes it.  To write where the daemon has closed is an error that *)
(* stays with the stream.                                                  *)
Send(t) ==
  /\ at[t] = "idle" /\ connected
  /\ BeginCall(t, IF link = "up" /\ Len(cmds) < BUFFER THEN "reading" ELSE "draining")
  /\ call' = [call EXCEPT ![t] = begun + 1]
  /\ cmds' = IF link = "up" THEN Append(cmds, begun + 1) ELSE cmds
  /\ link' = IF link = "eof" THEN "reset" ELSE link
  /\ mixed' = (mixed \/ InCall # {})
  /\ UNCHANGED <<kind, connected, queue, historyVars, lines, loop, verdicts, trusted>>

(* Whatever line the call takes, it is this call's answer.                 *)
TakeAnswer(t) ==
  LET line == Head(lines)
  IN  /\ lines # <<>>
      /\ lines' = Tail(lines)
      /\ trues' = IF line.event = "ok" THEN trues + 1 ELSE trues
      /\ trusted' = IF line.event = "ok" /\ ~mixed THEN trusted \union {call[t]} ELSE trusted
      /\ mixed' = (mixed \/ line.event = "rx")
      /\ Goes(t, "idle")
      /\ UNCHANGED <<kind, connected, queue, call, begun, heard, inbox, accepted,
                     link, cmds, loop, verdicts>>

(* No answer: the stream ends or is lost, the RuntimeError, five seconds.  *)
Unanswered(t) ==
  /\ Goes(t, "idle")
  /\ mixed' = TRUE
  /\ UNCHANGED <<kind, connected, queue, call, begun, historyVars, streamVars,
                 verdicts, trusted>>

(* drain waits without a limit of time, and raises if the stream is lost.  *)
Drained(t) ==
  /\ at[t] = "draining" /\ Drains
  /\ \/ link = "reset" /\ Unanswered(t)
     \/ /\ link # "reset"
        /\ Goes(t, "reading")
        /\ UNCHANGED <<kind, connected, queue, call, begun, historyVars, concentratorVars>>

ReadAnswer(t) ==
  /\ at[t] = "reading"
  /\ \/ link # "reset" /\ TakeAnswer(t)
     \/ link = "reset" /\ Unanswered(t)
     \/ lines = <<>> /\ (link # "up" \/ SomeoneWaits) /\ Unanswered(t)
     \/ /\ lines = <<>> /\ link = "up" /\ ~SomeoneWaits
        /\ Goes(t, "waiting")
        /\ UNCHANGED <<kind, connected, queue, call, begun, historyVars, concentratorVars>>

Answered(t) ==
  /\ at[t] = "waiting"
  /\ TakeAnswer(t) \/ (lines = <<>> /\ link # "up" /\ Unanswered(t))

(* A wait that ends only with the stream.                                  *)
MutTimeout(t) == at[t] = "waiting" /\ link # "up" /\ Unanswered(t)

(* wait_for gives up after 5 s.                                            *)
Timeout(t) == at[t] = "waiting" /\ Unanswered(t)

(* The stream this call read is gone; readline returns its end.            *)
StreamGone(t) ==
  /\ at[t] = "dropped"
  /\ Goes(t, "idle")
  /\ UNCHANGED <<kind, connected, queue, call, begun, historyVars, concentratorVars>>

-----------------------------------------------------------------------------
(* _rx_loop: a packet is queued, an answer that strays here is dropped.    *)
LoopTakes ==
  /\ lines # <<>>
  /\ lines' = Tail(lines)
  /\ queue' = IF Head(lines).event = "rx" THEN Append(queue, Head(lines).n) ELSE queue
  /\ loop' = "ready"
  /\ UNCHANGED <<kind, connected, at, call, begun, historyVars, link, cmds, answerVars>>

LoopEnds ==
  /\ lines = <<>> /\ link = "eof"
  /\ connected' = FALSE /\ loop' = "off"
  /\ UNCHANGED <<kind, queue, at, call, begun, historyVars, link, lines, cmds, answerVars>>

LoopStays(place) ==
  /\ loop' = place
  /\ UNCHANGED <<baseVars, link, lines, cmds, answerVars>>

LoopReads ==
  /\ loop = "ready"
  /\ \/ link # "reset" /\ (LoopTakes \/ LoopEnds)
     \/ link = "reset" /\ LoopStays("sleeping")
     \/ /\ lines = <<>> /\ link = "up"
        /\ LoopStays(IF SomeoneWaits THEN "sleeping" ELSE "waiting")

LoopWoken ==
  /\ loop = "waiting"
  /\ \/ LoopTakes \/ LoopEnds
     \/ lines = <<>> /\ link = "reset" /\ LoopStays("sleeping")

(* The second after an exception is over; a lost stream raises again, and  *)
(* connected stays as it is.                                               *)
LoopWakes == loop = "sleeping" /\ LoopStays("ready")

ConcentratorNext ==
  \/ DaemonHears \/ DaemonCloses \/ DaemonResets
  \/ \E event \in {"ok", "err"} : DaemonAnswers(event)
  \/ \E t \in Tasks :
       \/ Connect(t) \/ Greeted(t) \/ NotGreeted(t)
       \/ Disconnect(t) \/ CloseStream(t) \/ Disconnected(t)
       \/ Send(t) \/ Drained(t) \/ ReadAnswer(t) \/ Answered(t) \/ Timeout(t) \/ StreamGone(t)
  \/ LoopReads \/ LoopWoken \/ LoopWakes
===============================================================================
