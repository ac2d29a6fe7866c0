---------------------------- MODULE TransportsProofs ----------------------------
(***************************************************************************)
(* Proofs about Transports: what connects, disconnects, sends and the      *)
(* receive loop may do to each other, for any number of tasks, calls and   *)
(* packets.                                                                *)
(***************************************************************************)
EXTENDS Transports, SequenceTheorems, TLAPS

(* The inductive invariant of the concentrator's stream.  An answer is     *)
(* outstanding for at most one call as long as the stream is not mixed;    *)
(* it is a command the daemon has not read, or a line nobody has read.     *)
LineType == [event : {"rx", "ok", "err"}, n : Nat]

StreamTyped ==
  /\ lines \in Seq(LineType)
  /\ cmds \in Seq(Nat)
  /\ at = [t \in Tasks |-> at[t]]
  /\ call \in [Tasks -> Nat]
  /\ begun \in Nat /\ heard \in Nat
  /\ \A t \in InCall : call[t] > 0

AnswerAt(i) == i \in 1 .. Len(lines) /\ lines[i].event # "rx"

NoAnswer == \A i \in 1 .. Len(lines) : ~AnswerAt(i)

OneAnswer ==
  /\ \A i, j \in 1 .. Len(lines) : AnswerAt(i) /\ AnswerAt(j) => i = j
  /\ cmds # <<>> => Len(cmds) = 1 /\ NoAnswer

AnswerFor(t) ==
  /\ OneAnswer
  /\ cmds # <<>> => Head(cmds) = call[t]
  /\ \A i \in 1 .. Len(lines) : lines[i].event = "ok" => call[t] \in verdicts

GreetingAlone ==
  \A t \in Tasks : at[t] = "greeting" =>
    /\ ~connected /\ InCall = {} /\ OneAnswer
    /\ \A u \in Tasks : at[u] = "greeting" => u = t

Unmixed ==
  connected /\ ~mixed =>
    /\ InCall = {} => cmds = <<>> /\ NoAnswer
    /\ \A t \in InCall : InCall = {t} /\ AnswerFor(t)

Orphaned == InCall # {} /\ ~connected => lines = <<>> /\ link # "up"

LoopRuns ==
  connected /\ loop = "off" => \E t \in Tasks : at[t] \in {"cancelling", "closing"}

StreamInv == StreamTyped /\ GreetingAlone /\ Unmixed /\ Orphaned /\ LoopRuns

(* The inductive invariant of the serial port: where the one connect or    *)
(* disconnect is, and who then refers to the interface that has the port.  *)
AtLife(t) == at[t] \notin Sending \union {"idle"}

PortInv ==
  /\ at = [t \in Tasks |-> at[t]]
  /\ hand = [t \in Tasks |-> hand[t]]
  /\ ~overlap =>
       /\ \A t, u \in Tasks : AtLife(t) /\ AtLife(u) => t = u
       /\ \A t \in Tasks : AtLife(t) => at[t] \in {"opening", "opened", "closing", "closed"}
       /\ \A t \in Tasks : at[t] = "opened" => (port # 0 => port = hand[t])
       /\ \A t \in Tasks : at[t] = "closing" => hand[t] = iface
       /\ \A t \in Tasks : at[t] = "closed" => port = 0
       /\ port # 0 => iface = port \/ \E t \in Tasks : at[t] = "opened"
       /\ iface # 0 /\ ~listening =>
            \E t \in Tasks : at[t] \in {"opened", "closing", "closed"}

IInv ==
  /\ OwnAnswer
  /\ kind = "concentrator" => StreamInv
  /\ kind = "usb" => PortInv

-----------------------------------------------------------------------------
(* Reading the first line, or adding one at the end.                       *)
LEMMA TailLines ==
  ASSUME StreamTyped, lines # <<>>, lines' = Tail(lines)
  PROVE  /\ lines' \in Seq(LineType) /\ Len(lines') = Len(lines) - 1
         /\ \A i \in 1 .. Len(lines') : lines'[i] = lines[i + 1] /\ i + 1 \in 1 .. Len(lines)
         /\ Head(lines) = lines[1] /\ 1 \in 1 .. Len(lines) /\ lines[1] \in LineType
  BY DEF StreamTyped

LEMMA MoreLines ==
  ASSUME StreamTyped, NEW l \in LineType, lines' = Append(lines, l)
  PROVE  /\ lines' \in Seq(LineType) /\ Len(lines') = Len(lines) + 1
         /\ lines'[Len(lines) + 1] = l
         /\ \A i \in 1 .. Len(lines) : lines'[i] = lines[i] /\ i \in 1 .. Len(lines')
         /\ Len(lines) \in Nat
  BY DEF StreamTyped

(* Taking a line leaves at most the answer there was, and none if it was   *)
(* the answer.                                                             *)
LEMMA TakeLine ==
  ASSUME StreamTyped, lines # <<>>, lines' = Tail(lines), cmds' = cmds
  PROVE  /\ NoAnswer => NoAnswer'
         /\ OneAnswer => OneAnswer'
         /\ OneAnswer /\ Head(lines).event # "rx" => NoAnswer' /\ cmds = <<>>
         /\ \A t \in Tasks :
              AnswerFor(t) /\ call'[t] = call[t] /\ verdicts' = verdicts => AnswerFor(t)'
<1>1. /\ Len(lines') = Len(lines) - 1 /\ Len(lines) \in Nat
      /\ \A i \in 1 .. Len(lines') : lines'[i] = lines[i + 1] /\ i + 1 \in 1 .. Len(lines)
      /\ Head(lines) = lines[1] /\ 1 \in 1 .. Len(lines)
  BY TailLines DEF StreamTyped
<1>2. \A i \in 1 .. Len(lines') : AnswerAt(i)' => AnswerAt(i + 1)
  BY <1>1 DEF AnswerAt
<1>3. NoAnswer => NoAnswer'
  BY <1>1, <1>2 DEF NoAnswer
<1>4. OneAnswer => OneAnswer'
  <2> SUFFICES ASSUME OneAnswer PROVE OneAnswer'
    OBVIOUS
  <2>1. ASSUME NEW i \in 1 .. Len(lines'), NEW j \in 1 .. Len(lines'), AnswerAt(i)', AnswerAt(j)'
        PROVE  i = j
    <3>1. i + 1 = j + 1
      BY <1>1, <1>2, <2>1 DEF OneAnswer
    <3> QED
      BY <3>1
  <2> QED
    BY <1>3, <2>1 DEF OneAnswer
<1>5. OneAnswer /\ Head(lines).event # "rx" => NoAnswer' /\ cmds = <<>>
  <2> SUFFICES ASSUME OneAnswer, Head(lines).event # "rx" PROVE NoAnswer' /\ cmds = <<>>
    OBVIOUS
  <2>1. AnswerAt(1)
    BY <1>1 DEF AnswerAt
  <2>2. cmds = <<>>
    BY <1>1, <2>1 DEF OneAnswer, NoAnswer
  <2>3. ASSUME NEW i \in 1 .. Len(lines'), AnswerAt(i)' PROVE FALSE
    <3>1. i + 1 = 1
      BY <1>1, <1>2, <2>1, <2>3 DEF OneAnswer
    <3> QED
      BY <3>1
  <2> QED
    BY <2>2, <2>3 DEF NoAnswer
<1>6. ASSUME NEW t \in Tasks, AnswerFor(t), call'[t] = call[t], verdicts' = verdicts
      PROVE  AnswerFor(t)'
  BY <1>1, <1>4, <1>6 DEF AnswerFor
<1> QED
  BY <1>3, <1>4, <1>5, <1>6

(* A packet on the stream answers nothing.                                 *)
LEMMA MorePackets ==
  ASSUME StreamTyped, NEW n \in Nat, lines' = Append(lines, Line("rx", n)), cmds' = cmds
  PROVE  /\ lines' \in Seq(LineType)
         /\ NoAnswer => NoAnswer'
         /\ OneAnswer => OneAnswer'
         /\ \A t \in Tasks :
              AnswerFor(t) /\ call'[t] = call[t] /\ verdicts' = verdicts => AnswerFor(t)'
<1>1. Line("rx", n) \in LineType /\ Line("rx", n).event = "rx"
  BY DEF Line, LineType
<1>2. /\ lines' \in Seq(LineType) /\ Len(lines') = Len(lines) + 1 /\ Len(lines) \in Nat
      /\ lines'[Len(lines) + 1].event = "rx"
      /\ \A i \in 1 .. Len(lines) : lines'[i] = lines[i]
  BY <1>1, MoreLines
<1>3. \A i \in 1 .. Len(lines') :
        i \in 1 .. Len(lines) \/ (i = Len(lines) + 1 /\ lines'[i].event = "rx")
  BY <1>2
<1>4. \A i \in 1 .. Len(lines') : AnswerAt(i)' => AnswerAt(i)
  BY <1>2, <1>3 DEF AnswerAt
<1>5. NoAnswer => NoAnswer'
  BY <1>4 DEF NoAnswer, AnswerAt
<1>6. OneAnswer => OneAnswer'
  BY <1>4, <1>5 DEF OneAnswer, AnswerAt
<1>7. ASSUME NEW t \in Tasks, AnswerFor(t), call'[t] = call[t], verdicts' = verdicts
      PROVE  AnswerFor(t)'
  BY <1>2, <1>3, <1>6, <1>7 DEF AnswerFor
<1> QED
  BY <1>2, <1>5, <1>6, <1>7

(* Where the tasks are after a step of one of them, and who is in a call.  *)
InReading == {"draining", "reading", "waiting"}

LEMMA GoesFacts ==
  ASSUME at = [t \in Tasks |-> at[t]], NEW t \in Tasks, NEW place, Goes(t, place)
  PROVE  /\ at' = [u \in Tasks |-> at'[u]] /\ at'[t] = place
         /\ \A u \in Tasks : u # t => at'[u] = at[u]
         /\ place \notin InReading => InCall' = InCall \ {t}
         /\ place \in InReading => InCall' = InCall \union {t}
<1>1. at' = [u \in Tasks |-> at'[u]] /\ at'[t] = place
      /\ \A u \in Tasks : u # t => at'[u] = at[u]
  BY DEF Goes
<1>2. place \notin InReading => InCall' = InCall \ {t}
  BY <1>1 DEF InCall, InReading
<1>3. place \in InReading => InCall' = InCall \union {t}
  BY <1>1 DEF InCall, InReading
<1> QED
  BY <1>1, <1>2, <1>3

LEMMA DroppedFacts ==
  ASSUME at = [t \in Tasks |-> at[t]], NEW t \in Tasks, NEW place, place \notin InReading,
         at' = [Dropped EXCEPT ![t] = place]
  PROVE  /\ at' = [u \in Tasks |-> at'[u]] /\ at'[t] = place
         /\ \A u \in Tasks : u # t => at'[u] \in {at[u], "dropped"}
         /\ InCall' = {}
<1>1. /\ at' = [u \in Tasks |-> at'[u]] /\ at'[t] = place
      /\ \A u \in Tasks : u # t => at'[u] = IF u \in InCall THEN "dropped" ELSE at[u]
  BY DEF Dropped
<1>2. \A u \in Tasks : u # t => at'[u] \notin InReading
  BY <1>1 DEF InCall, InReading
<1>3. InCall' = {}
  BY <1>1, <1>2 DEF InCall, InReading
<1> QED
  BY <1>1, <1>3

-----------------------------------------------------------------------------
(* The daemon's steps.                                                     *)
LEMMA DaemonHearsInv == StreamInv /\ DaemonHears => StreamInv'
<1> SUFFICES ASSUME StreamInv, DaemonHears PROVE StreamInv'
  OBVIOUS
<1>1. /\ heard' = heard + 1
      /\ lines' = (IF link = "up" THEN Append(lines, Line("rx", heard + 1)) ELSE lines)
      /\ UNCHANGED <<appVars, inbox, accepted, trues, link, cmds, loop, answerVars>>
  BY DEF DaemonHears
<1>2. StreamTyped /\ heard + 1 \in Nat /\ InCall' = InCall
  BY <1>1 DEF StreamInv, StreamTyped, appVars, InCall
<1>3. CASE link # "up"
  BY <1>1, <1>2, <1>3 DEF StreamInv, StreamTyped, GreetingAlone, Unmixed, Orphaned, LoopRuns,
     OneAnswer, NoAnswer, AnswerAt, AnswerFor, appVars, answerVars
<1>4. CASE link = "up"
  <2>1. /\ lines' \in Seq(LineType)
        /\ NoAnswer => NoAnswer'
        /\ OneAnswer => OneAnswer'
        /\ \A t \in Tasks :
             AnswerFor(t) /\ call'[t] = call[t] /\ verdicts' = verdicts => AnswerFor(t)'
    BY <1>1, <1>2, <1>4, MorePackets
  <2>2. \A t \in Tasks : AnswerFor(t) => AnswerFor(t)'
    BY <1>1, <2>1 DEF appVars, answerVars
  <2>3. StreamTyped'
    BY <1>1, <1>2, <2>1 DEF StreamTyped, appVars
  <2>4. GreetingAlone' /\ LoopRuns' /\ Orphaned'
    BY <1>1, <1>2, <1>4, <2>1 DEF StreamInv, GreetingAlone, LoopRuns, Orphaned, appVars
  <2>5. InCall \subseteq Tasks
    BY DEF InCall
  <2>6. Unmixed'
    BY <1>1, <1>2, <2>1, <2>2, <2>5 DEF StreamInv, Unmixed, appVars, answerVars
  <2> QED
    BY <2>3, <2>4, <2>6 DEF StreamInv
<1> QED
  BY <1>3, <1>4

LEMMA DaemonClosesInv == StreamInv /\ (DaemonCloses \/ DaemonResets) => StreamInv'
<1> SUFFICES ASSUME StreamInv, DaemonCloses \/ DaemonResets PROVE StreamInv'
  OBVIOUS
<1>1. link' # "up" /\ UNCHANGED <<baseVars, lines, cmds, loop, answerVars>>
  BY DEF DaemonCloses, DaemonResets
<1>2. InCall' = InCall
  BY <1>1 DEF InCall, baseVars, appVars
<1>3. StreamTyped' /\ GreetingAlone' /\ LoopRuns' /\ Orphaned'
  BY <1>1, <1>2 DEF StreamInv, StreamTyped, GreetingAlone, LoopRuns, Orphaned, OneAnswer,
     NoAnswer, AnswerAt, baseVars, appVars, historyVars
<1>4. Unmixed'
  BY <1>1, <1>2 DEF StreamInv, Unmixed, OneAnswer, NoAnswer, AnswerAt, AnswerFor,
     baseVars, appVars, answerVars
<1> QED
  BY <1>3, <1>4 DEF StreamInv

LEMMA DaemonAnswersInv ==
  ASSUME StreamInv, OwnAnswer, NEW event \in {"ok", "err"}, DaemonAnswers(event)
  PROVE  StreamInv' /\ OwnAnswer'
<1>1. /\ cmds # <<>> /\ cmds' = Tail(cmds)
      /\ lines' = (IF link = "up" THEN Append(lines, Line(event, 0)) ELSE lines)
      /\ verdicts' = (IF Head(cmds) # 0 /\ event = "ok" THEN verdicts \union {Head(cmds)}
                      ELSE verdicts)
      /\ UNCHANGED <<appVars, heard, link, loop, trusted, mixed>>
  BY DEF DaemonAnswers
<1>2. StreamTyped /\ InCall' = InCall /\ InCall \subseteq Tasks
  BY <1>1 DEF StreamInv, InCall, appVars
<1>3. Line(event, 0) \in LineType /\ Line(event, 0).event = event
  BY DEF Line, LineType
<1>4. cmds' \in Seq(Nat) /\ lines' \in Seq(LineType)
  BY <1>1, <1>2, <1>3 DEF StreamTyped
<1>5. StreamTyped'
  BY <1>1, <1>2, <1>4 DEF StreamTyped, appVars
(* If this was the one command, its answer is the one answer.              *)
<1>6. OneAnswer => OneAnswer' /\ cmds' = <<>>
      /\ \A i \in 1 .. Len(lines') : lines'[i].event = "ok" => event = "ok"
  <2> SUFFICES ASSUME OneAnswer
               PROVE  /\ OneAnswer' /\ cmds' = <<>>
                      /\ \A i \in 1 .. Len(lines') : lines'[i].event = "ok" => event = "ok"
    OBVIOUS
  <2>1. Len(cmds) = 1 /\ NoAnswer
    BY <1>1 DEF OneAnswer
  <2>2. cmds' = <<>>
    <3>1. Len(cmds') = 0
      BY <1>1, <1>2, <2>1 DEF StreamTyped
    <3> QED
      BY <1>4, <3>1, EmptySeq
  <2>3. CASE link # "up"
    BY <1>1, <2>1, <2>2, <2>3 DEF OneAnswer, NoAnswer, AnswerAt
  <2>4. CASE link = "up"
    <3>1. /\ Len(lines') = Len(lines) + 1 /\ Len(lines) \in Nat
          /\ lines'[Len(lines) + 1].event = event
          /\ \A i \in 1 .. Len(lines) : lines'[i] = lines[i]
      BY <1>1, <1>2, <1>3, <2>4, MoreLines
    <3>2. \A i \in 1 .. Len(lines') :
            i = Len(lines) + 1 \/ (i \in 1 .. Len(lines) /\ lines'[i].event = "rx")
      BY <2>1, <3>1 DEF NoAnswer, AnswerAt
    <3> QED
      BY <2>2, <3>1, <3>2 DEF OneAnswer, AnswerAt
  <2> QED
    BY <2>3, <2>4
<1>7. GreetingAlone'
  BY <1>1, <1>2, <1>6 DEF StreamInv, GreetingAlone, appVars
<1>8. Unmixed'
  <2> SUFFICES ASSUME connected, ~mixed
               PROVE  /\ InCall = {} => cmds' = <<>> /\ NoAnswer'
                      /\ \A t \in InCall : InCall = {t} /\ AnswerFor(t)'
    BY <1>1, <1>2 DEF Unmixed, appVars
  <2>1. InCall # {}
    BY <1>1 DEF StreamInv, Unmixed
  <2>2. ASSUME NEW t \in InCall PROVE InCall = {t} /\ AnswerFor(t)'
    <3>1. InCall = {t} /\ AnswerFor(t) /\ OneAnswer
      BY <2>2 DEF StreamInv, Unmixed, AnswerFor
    <3>2. Head(cmds) = call[t] /\ call[t] \in Nat /\ call[t] # 0
      BY <1>1, <1>2, <2>2, <3>1 DEF AnswerFor, StreamTyped
    <3>3. event = "ok" => call'[t] \in verdicts'
      BY <1>1, <3>2 DEF appVars
    <3> QED
      BY <1>6, <3>1, <3>3 DEF AnswerFor
  <2> QED
    BY <2>1, <2>2
<1>9. Orphaned' /\ LoopRuns'
  BY <1>1, <1>2 DEF StreamInv, Orphaned, LoopRuns, appVars
<1>10. OwnAnswer'
  BY <1>1 DEF OwnAnswer
<1> QED
  BY <1>5, <1>7, <1>8, <1>9, <1>10 DEF StreamInv

-----------------------------------------------------------------------------
(* Connecting and disconnecting.                                           *)
LEMMA ConnectInv == StreamInv /\ (\E t \in Tasks : Connect(t)) => StreamInv'
<1> SUFFICES ASSUME StreamInv, NEW t \in Tasks, Connect(t) PROVE StreamInv'
  OBVIOUS
<1>1. /\ LifeIdle /\ ~connected /\ lines' = <<>> /\ cmds' = <<0>>
      /\ at' = [Dropped EXCEPT ![t] = "greeting"]
      /\ UNCHANGED <<connected, call, begun, historyVars>>
  BY DEF Connect
<1>2. /\ at' = [u \in Tasks |-> at'[u]] /\ at'[t] = "greeting"
      /\ \A u \in Tasks : u # t => at'[u] \in {at[u], "dropped"}
      /\ InCall' = {}
  BY <1>1, DroppedFacts DEF StreamInv, StreamTyped, InReading
<1>3. \A u \in Tasks : at'[u] = "greeting" => u = t
  BY <1>1, <1>2 DEF LifeIdle, Sending
<1>4. lines' \in Seq(LineType) /\ cmds' \in Seq(Nat) /\ Len(cmds') = 1 /\ Len(lines') = 0
  BY <1>1
<1>5. OneAnswer'
  BY <1>1, <1>4 DEF OneAnswer, NoAnswer, AnswerAt
<1> QED
  BY <1>1, <1>2, <1>3, <1>4, <1>5 DEF StreamInv, StreamTyped, GreetingAlone, Unmixed, Orphaned,
     LoopRuns, historyVars

LEMMA GreetedInv == StreamInv /\ (\E t \in Tasks : Greeted(t)) => StreamInv'
<1> SUFFICES ASSUME StreamInv, NEW t \in Tasks, Greeted(t) PROVE StreamInv'
  OBVIOUS
<1>1. /\ at[t] = "greeting" /\ lines # <<>> /\ lines' = Tail(lines) /\ cmds' = cmds
      /\ IF Head(lines).event = "ok" THEN connected' = TRUE /\ loop' = "ready"
         ELSE UNCHANGED <<connected, loop>>
      /\ Goes(t, "idle")
      /\ UNCHANGED <<call, begun, historyVars, link, answerVars>>
  BY DEF Greeted
<1>2. StreamTyped /\ ~connected /\ InCall = {} /\ OneAnswer
      /\ \A u \in Tasks : at[u] = "greeting" => u = t
  BY <1>1 DEF StreamInv, GreetingAlone
<1>3. /\ at' = [u \in Tasks |-> at'[u]] /\ at'[t] = "idle"
      /\ \A u \in Tasks : u # t => at'[u] = at[u]
      /\ InCall' = {}
  BY <1>1, <1>2, GoesFacts DEF StreamTyped, InReading
<1>4. lines' \in Seq(LineType)
  BY <1>1, <1>2, TailLines
<1>5. StreamTyped'
  BY <1>1, <1>2, <1>3, <1>4 DEF StreamTyped, historyVars
<1>6. GreetingAlone'
  BY <1>2, <1>3 DEF GreetingAlone
<1>7. Unmixed'
  <2>1. connected' => Head(lines).event # "rx"
    BY <1>1, <1>2
  <2>2. connected' => cmds' = <<>> /\ NoAnswer'
    BY <1>1, <1>2, <2>1, TakeLine
  <2> QED
    BY <1>3, <2>2 DEF Unmixed
<1>8. Orphaned' /\ LoopRuns'
  BY <1>1, <1>2, <1>3 DEF Orphaned, LoopRuns
<1> QED
  BY <1>5, <1>6, <1>7, <1>8 DEF StreamInv

(* A task that is in no call goes elsewhere, and the stream is left alone. *)
LEMMA ElsewhereStep ==
  ASSUME StreamInv, NEW t \in Tasks, NEW place, Goes(t, place),
         at[t] \notin InReading, place \notin InReading, place # "greeting",
         UNCHANGED <<connected, lines, cmds, call, begun, heard, verdicts, mixed>>
  PROVE  /\ StreamTyped' /\ GreetingAlone' /\ Unmixed' /\ InCall' = InCall
         /\ \A u \in Tasks : u # t => at'[u] = at[u]
         /\ at'[t] = place
<1>1. /\ at' = [u \in Tasks |-> at'[u]] /\ at'[t] = place
      /\ \A u \in Tasks : u # t => at'[u] = at[u]
      /\ InCall' = InCall \ {t}
  BY GoesFacts DEF StreamInv, StreamTyped
<1>2. InCall' = InCall
  BY <1>1 DEF InCall, InReading
<1>3. StreamTyped'
  BY <1>1, <1>2 DEF StreamInv, StreamTyped
<1>4. (OneAnswer' <=> OneAnswer) /\ (NoAnswer' <=> NoAnswer)
      /\ \A u \in Tasks : AnswerFor(u)' <=> AnswerFor(u)
  BY DEF OneAnswer, NoAnswer, AnswerAt, AnswerFor
<1>5. GreetingAlone'
  BY <1>1, <1>2, <1>4 DEF StreamInv, GreetingAlone
<1>6. Unmixed'
  BY <1>2, <1>4 DEF StreamInv, Unmixed, InCall
<1> QED
  BY <1>1, <1>2, <1>3, <1>5, <1>6

LEMMA ElsewhereInv ==
  ASSUME StreamInv, NEW t \in Tasks,
         NotGreeted(t) \/ Disconnect(t) \/ CloseStream(t) \/ StreamGone(t)
  PROVE  StreamInv'
<1>1. CASE NotGreeted(t) \/ StreamGone(t)
  <2>1. /\ at[t] \in {"greeting", "dropped"} /\ Goes(t, "idle")
        /\ UNCHANGED <<connected, lines, cmds, call, begun, heard, verdicts, mixed, link, loop>>
    BY <1>1 DEF NotGreeted, StreamGone, historyVars, concentratorVars, streamVars, answerVars
  <2>2. StreamTyped' /\ GreetingAlone' /\ Unmixed' /\ InCall' = InCall
        /\ \A u \in Tasks : u # t => at'[u] = at[u]
    BY <2>1, ElsewhereStep DEF InReading
  <2>3. Orphaned' /\ LoopRuns'
    BY <2>1, <2>2 DEF StreamInv, Orphaned, LoopRuns
  <2> QED
    BY <2>2, <2>3 DEF StreamInv
<1>2. CASE Disconnect(t)
  <2>1. /\ at[t] = "idle" /\ Goes(t, "cancelling")
        /\ UNCHANGED <<connected, lines, cmds, call, begun, heard, verdicts, mixed, link>>
    BY <1>2 DEF Disconnect, historyVars, answerVars
  <2>2. StreamTyped' /\ GreetingAlone' /\ Unmixed' /\ InCall' = InCall /\ at'[t] = "cancelling"
    BY <2>1, ElsewhereStep DEF InReading
  <2>3. Orphaned' /\ LoopRuns'
    BY <2>1, <2>2 DEF StreamInv, Orphaned, LoopRuns
  <2> QED
    BY <2>2, <2>3 DEF StreamInv
<1>3. CASE CloseStream(t)
  <2>1. /\ at[t] = "cancelling" /\ Goes(t, "closing") /\ link' # "up"
        /\ UNCHANGED <<connected, lines, cmds, call, begun, heard, verdicts, mixed>>
    BY <1>3 DEF CloseStream, historyVars, answerVars
  <2>2. StreamTyped' /\ GreetingAlone' /\ Unmixed' /\ InCall' = InCall /\ at'[t] = "closing"
    BY <2>1, ElsewhereStep DEF InReading
  <2>3. Orphaned' /\ LoopRuns'
    BY <2>1, <2>2 DEF StreamInv, Orphaned, LoopRuns
  <2> QED
    BY <2>2, <2>3 DEF StreamInv
<1> QED
  BY <1>1, <1>2, <1>3

LEMMA DisconnectedInv == StreamInv /\ (\E t \in Tasks : Disconnected(t)) => StreamInv'
<1> SUFFICES ASSUME StreamInv, NEW t \in Tasks, Disconnected(t) PROVE StreamInv'
  OBVIOUS
<1>1. /\ lines' = <<>> /\ connected' = FALSE
      /\ at' = [Dropped EXCEPT ![t] = "idle"]
      /\ UNCHANGED <<cmds, call, begun, historyVars>>
  BY DEF Disconnected
<1>2. /\ at' = [u \in Tasks |-> at'[u]] /\ at'[t] = "idle"
      /\ \A u \in Tasks : u # t => at'[u] \in {at[u], "dropped"}
      /\ InCall' = {}
  BY <1>1, DroppedFacts DEF StreamInv, StreamTyped, InReading
<1>3. lines' \in Seq(LineType) /\ Len(lines') = 0
  BY <1>1
<1>4. OneAnswer => OneAnswer'
  BY <1>1, <1>3 DEF OneAnswer, NoAnswer, AnswerAt
<1>5. StreamTyped'
  BY <1>1, <1>2, <1>3 DEF StreamInv, StreamTyped, historyVars
<1>6. GreetingAlone'
  BY <1>1, <1>2, <1>4 DEF StreamInv, GreetingAlone
<1> QED
  BY <1>1, <1>2, <1>5, <1>6 DEF StreamInv, Unmixed, Orphaned, LoopRuns

-----------------------------------------------------------------------------
(* Sending.                                                                *)
LEMMA SendInv == StreamInv /\ (\E t \in Tasks : Send(t)) => StreamInv'
<1> SUFFICES ASSUME StreamInv, NEW t \in Tasks, Send(t) PROVE StreamInv'
  OBVIOUS
<1> DEFINE place == IF link = "up" /\ Len(cmds) < BUFFER THEN "reading" ELSE "draining"
<1>1. /\ at[t] = "idle" /\ connected
      /\ begun' = begun + 1 /\ call' = [call EXCEPT ![t] = begun + 1] /\ Goes(t, place)
      /\ cmds' = (IF link = "up" THEN Append(cmds, begun + 1) ELSE cmds)
      /\ mixed' = (mixed \/ InCall # {})
      /\ UNCHANGED <<connected, historyVars, lines, loop, verdicts>>
  BY DEF Send, BeginCall
<1>place. place \in InReading /\ place \notin {"greeting", "cancelling", "closing"}
  BY DEF InReading
<1> HIDE DEF place
<1>2. StreamTyped /\ begun + 1 \in Nat /\ begun + 1 > 0
  BY DEF StreamInv, StreamTyped
<1>3. /\ at' = [u \in Tasks |-> at'[u]] /\ at'[t] = place
      /\ \A u \in Tasks : u # t => at'[u] = at[u]
      /\ InCall' = InCall \union {t}
  BY <1>1, <1>2, <1>place, GoesFacts DEF StreamTyped
<1>4. /\ call' \in [Tasks -> Nat] /\ call'[t] = begun + 1
      /\ \A u \in Tasks : u # t => call'[u] = call[u]
  BY <1>1, <1>2 DEF StreamTyped
<1>5. cmds' \in Seq(Nat)
  BY <1>1, <1>2 DEF StreamTyped
<1>6. StreamTyped'
  <2>1. ASSUME NEW u \in InCall' PROVE call'[u] > 0
    <3>1. CASE u = t
      BY <1>2, <1>4, <3>1
    <3>2. CASE u # t
      <4>1. u \in InCall /\ u \in Tasks
        BY <1>3, <2>1, <3>2 DEF InCall
      <4> QED
        BY <1>2, <1>4, <3>2, <4>1 DEF StreamTyped
    <3> QED
      BY <3>1, <3>2
  <2> QED
    BY <1>1, <1>2, <1>3, <1>4, <1>5, <2>1 DEF StreamTyped, historyVars
<1>7. GreetingAlone' /\ Orphaned' /\ LoopRuns'
  BY <1>1, <1>3, <1>place DEF StreamInv, GreetingAlone, Orphaned, LoopRuns
<1>8. Unmixed'
  <2> SUFFICES ASSUME ~mixed, InCall = {}
               PROVE  \A u \in InCall' : InCall' = {u} /\ AnswerFor(u)'
    BY <1>1, <1>3 DEF Unmixed
  <2>1. cmds = <<>> /\ NoAnswer
    BY <1>1 DEF StreamInv, Unmixed
  <2>2. cmds' = <<>> \/ (Len(cmds') = 1 /\ Head(cmds') = begun + 1)
    BY <1>1, <1>2, <2>1
  <2>3. NoAnswer' /\ \A i \in 1 .. Len(lines') : lines'[i].event # "ok"
    BY <1>1, <2>1 DEF NoAnswer, AnswerAt
  <2>4. OneAnswer'
    BY <2>2, <2>3 DEF OneAnswer, NoAnswer
  <2>5. AnswerFor(t)'
    BY <1>4, <2>2, <2>3, <2>4 DEF AnswerFor
  <2> QED
    BY <1>3, <2>5
<1> QED
  BY <1>6, <1>7, <1>8 DEF StreamInv

(* A call ends, with or without an answer.                                 *)
LEMMA TakeAnswerInv ==
  ASSUME StreamInv, OwnAnswer, NEW t \in InCall, TakeAnswer(t)
  PROVE  StreamInv' /\ OwnAnswer'
<1> DEFINE line == Head(lines)
<1>1. /\ lines # <<>> /\ lines' = Tail(lines) /\ cmds' = cmds
      /\ trusted' = (IF line.event = "ok" /\ ~mixed THEN trusted \union {call[t]} ELSE trusted)
      /\ mixed' = (mixed \/ line.event = "rx")
      /\ Goes(t, "idle")
      /\ UNCHANGED <<connected, call, begun, heard, link, loop, verdicts>>
  BY DEF TakeAnswer
<1>2. StreamTyped /\ t \in Tasks /\ at[t] \in InReading
  BY DEF StreamInv, InCall, InReading
<1>3. /\ at' = [u \in Tasks |-> at'[u]] /\ at'[t] = "idle"
      /\ \A u \in Tasks : u # t => at'[u] = at[u]
      /\ InCall' = InCall \ {t}
  <2>1. at = [u \in Tasks |-> at[u]] /\ t \in Tasks /\ Goes(t, "idle")
    BY <1>1, <1>2 DEF StreamTyped
  <2>2. "idle" \notin InReading
    BY DEF InReading
  <2> QED
    BY <2>1, <2>2, GoesFacts
<1>4. connected
  BY <1>1 DEF StreamInv, Orphaned
<1>5. lines' \in Seq(LineType) /\ line = lines[1] /\ 1 \in 1 .. Len(lines)
  BY <1>1, <1>2, TailLines
<1>6. StreamTyped'
  BY <1>1, <1>2, <1>3, <1>5 DEF StreamTyped
<1>7. GreetingAlone' /\ Orphaned'
  BY <1>1, <1>3, <1>4 DEF StreamInv, GreetingAlone, Orphaned
<1>8. LoopRuns'
  BY <1>1, <1>2, <1>3 DEF StreamInv, LoopRuns, InReading
<1>9. ~mixed => InCall = {t} /\ AnswerFor(t) /\ OneAnswer
  BY <1>4 DEF StreamInv, Unmixed, AnswerFor
<1>10. Unmixed'
  BY <1>1, <1>2, <1>3, <1>9, TakeLine DEF Unmixed
<1>11. OwnAnswer'
  BY <1>1, <1>5, <1>9 DEF OwnAnswer, AnswerFor
<1> QED
  BY <1>6, <1>7, <1>8, <1>10, <1>11 DEF StreamInv

LEMMA UnansweredInv ==
  ASSUME StreamInv, NEW t \in InCall, Unanswered(t)
  PROVE  StreamInv'
<1>1. /\ Goes(t, "idle") /\ mixed' = TRUE
      /\ UNCHANGED <<connected, call, begun, heard, lines, cmds, link, loop, verdicts>>
  BY DEF Unanswered, streamVars, historyVars
<1>2. t \in Tasks /\ at[t] \in InReading
  BY DEF InCall, InReading
<1>3. /\ at' = [u \in Tasks |-> at'[u]] /\ at'[t] = "idle"
      /\ \A u \in Tasks : u # t => at'[u] = at[u]
      /\ InCall' = InCall \ {t}
  BY <1>1, <1>2, GoesFacts DEF StreamInv, StreamTyped, InReading
<1>4. StreamTyped' /\ Unmixed'
  BY <1>1, <1>3 DEF StreamInv, StreamTyped, Unmixed
<1>5. GreetingAlone' /\ Orphaned'
  BY <1>1, <1>3 DEF StreamInv, GreetingAlone, Orphaned
<1>6. LoopRuns'
  BY <1>1, <1>2, <1>3 DEF StreamInv, LoopRuns, InReading
<1> QED
  BY <1>4, <1>5, <1>6 DEF StreamInv

(* The call goes on to read, or there is nothing to read yet and it waits. *)
LEMMA WaitInv ==
  ASSUME StreamInv, NEW t \in Tasks, at[t] \in InReading,
         NEW place \in {"reading", "waiting"}, Goes(t, place),
         UNCHANGED <<connected, call, begun, heard, lines, cmds, link, loop, verdicts, mixed>>
  PROVE  StreamInv'
<1>1. /\ at' = [u \in Tasks |-> at'[u]] /\ at'[t] = place
      /\ \A u \in Tasks : u # t => at'[u] = at[u]
      /\ InCall' = InCall \union {t}
  BY GoesFacts DEF StreamInv, StreamTyped, InReading
<1>2. InCall' = InCall
  BY <1>1 DEF InCall, InReading
<1>3. StreamTyped'
  BY <1>1, <1>2 DEF StreamInv, StreamTyped
<1>4. GreetingAlone'
  BY <1>1, <1>2 DEF StreamInv, GreetingAlone, OneAnswer, NoAnswer, AnswerAt
<1>5. Unmixed' /\ Orphaned'
  BY <1>2 DEF StreamInv, Unmixed, Orphaned, AnswerFor, OneAnswer, NoAnswer, AnswerAt
<1>6. LoopRuns'
  BY <1>1 DEF StreamInv, LoopRuns, InReading
<1> QED
  BY <1>3, <1>4, <1>5, <1>6 DEF StreamInv

LEMMA ReadingInv ==
  ASSUME StreamInv, OwnAnswer, NEW t \in Tasks,
         Drained(t) \/ ReadAnswer(t) \/ Answered(t) \/ Timeout(t)
  PROVE  StreamInv' /\ OwnAnswer'
<1>1. CASE TakeAnswer(t) /\ at[t] \in InReading
  BY <1>1, TakeAnswerInv DEF InCall, InReading
<1>2. CASE Unanswered(t) /\ at[t] \in InReading
  <2>1. StreamInv'
    BY <1>2, UnansweredInv DEF InCall, InReading
  <2> QED
    BY <1>2, <2>1 DEF Unanswered, OwnAnswer
<1>3. CASE /\ at[t] \in InReading /\ \E place \in {"reading", "waiting"} : Goes(t, place)
           /\ UNCHANGED <<kind, connected, queue, call, begun, historyVars, concentratorVars>>
  <2>1. UNCHANGED <<connected, call, begun, heard, lines, cmds, link, loop, verdicts, mixed, trusted>>
    BY <1>3 DEF historyVars, concentratorVars, streamVars, answerVars
  <2> QED
    BY <1>3, <2>1, WaitInv DEF OwnAnswer
<1> QED
  BY <1>1, <1>2, <1>3 DEF Drained, ReadAnswer, Answered, Timeout, InReading

-----------------------------------------------------------------------------
(* The receive loop.                                                       *)
LEMMA LoopInv == StreamInv /\ (LoopReads \/ LoopWoken \/ LoopWakes) => StreamInv'
<1> SUFFICES ASSUME StreamInv, LoopReads \/ LoopWoken \/ LoopWakes PROVE StreamInv'
  OBVIOUS
<1>1. CASE LoopTakes
  <2>1. /\ lines # <<>> /\ lines' = Tail(lines) /\ loop' = "ready" /\ cmds' = cmds
        /\ UNCHANGED <<connected, at, call, begun, heard, link, verdicts, mixed>>
    BY <1>1 DEF LoopTakes, historyVars, answerVars
  <2>2. StreamTyped /\ InCall' = InCall /\ lines' \in Seq(LineType) /\ InCall \subseteq Tasks
    BY <2>1, TailLines DEF StreamInv, InCall
  <2>3. /\ NoAnswer => NoAnswer'
        /\ OneAnswer => OneAnswer'
        /\ \A t \in Tasks : AnswerFor(t) => AnswerFor(t)'
    BY <2>1, <2>2, TakeLine
  <2>4. StreamTyped'
    BY <2>1, <2>2 DEF StreamTyped
  <2>5. GreetingAlone' /\ Unmixed'
    BY <2>1, <2>2, <2>3 DEF StreamInv, GreetingAlone, Unmixed
  <2>6. Orphaned' /\ LoopRuns'
    BY <2>1, <2>2 DEF StreamInv, Orphaned, LoopRuns
  <2> QED
    BY <2>4, <2>5, <2>6 DEF StreamInv
<1>2. CASE LoopEnds
  <2>1. /\ lines = <<>> /\ link # "up" /\ connected' = FALSE
        /\ UNCHANGED <<at, call, begun, heard, link, lines, cmds, verdicts, mixed>>
    BY <1>2 DEF LoopEnds, historyVars, answerVars
  <2>2. InCall' = InCall
    BY <2>1 DEF InCall
  <2> QED
    BY <2>1, <2>2 DEF StreamInv, StreamTyped, GreetingAlone, Unmixed, Orphaned, LoopRuns,
       OneAnswer, NoAnswer, AnswerAt
<1>3. CASE \E place \in {"ready", "waiting", "sleeping"} : LoopStays(place)
  <2>1. /\ loop' # "off"
        /\ UNCHANGED <<connected, at, call, begun, heard, link, lines, cmds, verdicts, mixed>>
    BY <1>3 DEF LoopStays, baseVars, appVars, historyVars, answerVars
  <2>2. InCall' = InCall
    BY <2>1 DEF InCall
  <2> QED
    BY <2>1, <2>2 DEF StreamInv, StreamTyped, GreetingAlone, Unmixed, Orphaned, LoopRuns,
       AnswerFor, OneAnswer, NoAnswer, AnswerAt
<1> QED
  BY <1>1, <1>2, <1>3 DEF LoopReads, LoopWoken, LoopWakes

LEMMA ConcentratorInv ==
  ASSUME StreamInv, OwnAnswer, ConcentratorNext
  PROVE  StreamInv' /\ OwnAnswer'
<1>1. CASE \E event \in {"ok", "err"} : DaemonAnswers(event)
  BY <1>1, DaemonAnswersInv
<1>2. CASE \E t \in Tasks : Drained(t) \/ ReadAnswer(t) \/ Answered(t) \/ Timeout(t)
  BY <1>2, ReadingInv
<1>3. CASE DaemonHears \/ DaemonCloses \/ DaemonResets \/ LoopReads \/ LoopWoken \/ LoopWakes
  <2>1. StreamInv'
    BY <1>3, DaemonHearsInv, DaemonClosesInv, LoopInv
  <2>2. UNCHANGED <<trusted, verdicts>>
    BY <1>3 DEF DaemonHears, DaemonCloses, DaemonResets, LoopReads, LoopWoken, LoopWakes, LoopTakes,
       LoopEnds, LoopStays, answerVars
  <2> QED
    BY <2>1, <2>2 DEF OwnAnswer
<1>4. CASE \E t \in Tasks : \/ Connect(t) \/ Greeted(t) \/ NotGreeted(t)
                            \/ Disconnect(t) \/ CloseStream(t) \/ Disconnected(t)
                            \/ Send(t) \/ StreamGone(t)
  <2>1. StreamInv'
    BY <1>4, ConnectInv, GreetedInv, ElsewhereInv, DisconnectedInv, SendInv
  <2>2. UNCHANGED <<trusted, verdicts>>
    BY <1>4 DEF Connect, Greeted, NotGreeted, Disconnect, CloseStream, Disconnected, Send,
       StreamGone, concentratorVars, answerVars
  <2> QED
    BY <2>1, <2>2 DEF OwnAnswer
<1> QED
  BY <1>1, <1>2, <1>3, <1>4 DEF ConcentratorNext

-----------------------------------------------------------------------------
(* The serial port: connects and disconnects.                              *)
LEMMA PortGoes ==
  ASSUME PortInv, NEW t \in Tasks, NEW place, Goes(t, place)
  PROVE  /\ at' = [u \in Tasks |-> at'[u]] /\ at'[t] = place
         /\ \A u \in Tasks : u # t => at'[u] = at[u]
  BY DEF PortInv, Goes

LEMMA UConnectInv == PortInv /\ (\E t \in Tasks : UConnect(t)) => PortInv'
<1> SUFFICES ASSUME PortInv, NEW t \in Tasks, UConnect(t) PROVE PortInv'
  OBVIOUS
<1>1. /\ at[t] = "idle" /\ Goes(t, "opening") /\ overlap' = (overlap \/ ~LifeIdle)
      /\ UNCHANGED <<iface, port, listening, hand>>
  BY DEF UConnect, portVars, pubsubVars
<1>2. /\ at' = [u \in Tasks |-> at'[u]] /\ at'[t] = "opening"
      /\ \A u \in Tasks : u # t => at'[u] = at[u]
  BY <1>1, PortGoes
<1>3. ~overlap' => ~overlap /\ \A u \in Tasks : ~AtLife(u)
  BY <1>1 DEF LifeIdle, AtLife
<1> QED
  BY <1>1, <1>2, <1>3 DEF PortInv, AtLife, Sending

LEMMA UOpensInv == PortInv /\ (\E t \in Tasks : UOpens(t)) => PortInv'
<1> SUFFICES ASSUME PortInv, NEW t \in Tasks, UOpens(t) PROVE PortInv'
  OBVIOUS
<1>1. /\ at[t] = "opening" /\ port = 0 /\ port' = NewInterface
      /\ hand' = [hand EXCEPT ![t] = NewInterface]
      /\ Goes(t, "opened")
      /\ UNCHANGED <<iface, listening, overlap>>
  BY DEF UOpens, pubsubVars
<1> HIDE DEF NewInterface
<1>2. /\ at' = [u \in Tasks |-> at'[u]] /\ at'[t] = "opened"
      /\ \A u \in Tasks : u # t => at'[u] = at[u]
  BY <1>1, PortGoes
<1>3. hand' = [u \in Tasks |-> hand'[u]] /\ hand'[t] = port'
  BY <1>1 DEF PortInv
<1>4. ~overlap => \A u \in Tasks : u # t => ~AtLife(u)
  BY <1>1 DEF PortInv, AtLife, Sending
<1> QED
  BY <1>1, <1>2, <1>3, <1>4 DEF PortInv, AtLife, Sending

LEMMA UConnectedInv == PortInv /\ (\E t \in Tasks : UConnected(t)) => PortInv'
<1> SUFFICES ASSUME PortInv, NEW t \in Tasks, UConnected(t) PROVE PortInv'
  OBVIOUS
<1>1. /\ at[t] = "opened" /\ iface' = hand[t] /\ hand' = [hand EXCEPT ![t] = 0]
      /\ listening' = TRUE /\ Goes(t, "idle")
      /\ UNCHANGED <<port, overlap>>
  BY DEF UConnected
<1>2. /\ at' = [u \in Tasks |-> at'[u]] /\ at'[t] = "idle"
      /\ \A u \in Tasks : u # t => at'[u] = at[u]
  BY <1>1, PortGoes
<1>3. hand' = [u \in Tasks |-> hand'[u]]
  BY <1>1 DEF PortInv
<1>4. ~overlap => (port # 0 => port = hand[t]) /\ \A u \in Tasks : u # t => ~AtLife(u)
  BY <1>1 DEF PortInv, AtLife, Sending
<1> QED
  BY <1>1, <1>2, <1>3, <1>4 DEF PortInv, AtLife, Sending

LEMMA UConnectFailsInv == PortInv /\ (\E t \in Tasks : UConnectFails(t)) => PortInv'
<1> SUFFICES ASSUME PortInv, NEW t \in Tasks, UConnectFails(t) PROVE PortInv'
  OBVIOUS
<1>1. /\ at[t] = "opening" /\ Goes(t, "idle")
      /\ UNCHANGED <<iface, port, listening, hand, overlap>>
  BY DEF UConnectFails, usbVars, portVars, pubsubVars
<1>2. /\ at' = [u \in Tasks |-> at'[u]] /\ at'[t] = "idle"
      /\ \A u \in Tasks : u # t => at'[u] = at[u]
  BY <1>1, PortGoes
<1> QED
  BY <1>1, <1>2 DEF PortInv, AtLife, Sending

LEMMA UDisconnectInv == PortInv /\ (\E t \in Tasks : UDisconnect(t)) => PortInv'
<1> SUFFICES ASSUME PortInv, NEW t \in Tasks, UDisconnect(t) PROVE PortInv'
  OBVIOUS
<1>1. /\ at[t] = "idle" /\ hand' = [hand EXCEPT ![t] = iface]
      /\ Goes(t, "closing") /\ overlap' = (overlap \/ ~LifeIdle)
      /\ UNCHANGED <<iface, port>>
  BY DEF UDisconnect, portVars
<1>2. /\ at' = [u \in Tasks |-> at'[u]] /\ at'[t] = "closing"
      /\ \A u \in Tasks : u # t => at'[u] = at[u]
  BY <1>1, PortGoes
<1>3. hand' = [u \in Tasks |-> hand'[u]] /\ hand'[t] = iface
  BY <1>1 DEF PortInv
<1>4. ~overlap' => ~overlap /\ \A u \in Tasks : ~AtLife(u)
  BY <1>1 DEF LifeIdle, AtLife
<1> QED
  BY <1>1, <1>2, <1>3, <1>4 DEF PortInv, AtLife, Sending

LEMMA UClosesInv == PortInv /\ (\E t \in Tasks : UCloses(t)) => PortInv'
<1> SUFFICES ASSUME PortInv, NEW t \in Tasks, UCloses(t) PROVE PortInv'
  OBVIOUS
<1>1. /\ at[t] = "closing" /\ port' = (IF port = hand[t] THEN 0 ELSE port)
      /\ hand' = [hand EXCEPT ![t] = 0] /\ Goes(t, "closed")
      /\ UNCHANGED <<iface, overlap, listening>>
  BY DEF UCloses, pubsubVars
<1>2. /\ at' = [u \in Tasks |-> at'[u]] /\ at'[t] = "closed"
      /\ \A u \in Tasks : u # t => at'[u] = at[u]
  BY <1>1, PortGoes
<1>3. hand' = [u \in Tasks |-> hand'[u]]
  BY <1>1 DEF PortInv
<1>4. ~overlap => \A u \in Tasks : u # t => ~AtLife(u)
  BY <1>1 DEF PortInv, AtLife, Sending
<1>5. ~overlap => port' = 0
  <2> SUFFICES ASSUME ~overlap, port # 0 PROVE port = hand[t]
    BY <1>1
  <2>1. ~\E u \in Tasks : at[u] = "opened"
    BY <1>1, <1>4 DEF AtLife, Sending
  <2> QED
    BY <1>1, <2>1 DEF PortInv
<1> QED
  BY <1>1, <1>2, <1>3, <1>4, <1>5 DEF PortInv, AtLife, Sending

LEMMA UDisconnectedInv == PortInv /\ (\E t \in Tasks : UDisconnected(t)) => PortInv'
<1> SUFFICES ASSUME PortInv, NEW t \in Tasks, UDisconnected(t) PROVE PortInv'
  OBVIOUS
<1>1. /\ at[t] = "closed" /\ iface' = 0 /\ Goes(t, "idle")
      /\ UNCHANGED <<port, listening, hand, overlap>>
  BY DEF UDisconnected, pubsubVars
<1>2. /\ at' = [u \in Tasks |-> at'[u]] /\ at'[t] = "idle"
      /\ \A u \in Tasks : u # t => at'[u] = at[u]
  BY <1>1, PortGoes
<1>3. ~overlap => port = 0 /\ \A u \in Tasks : u # t => ~AtLife(u)
  BY <1>1 DEF PortInv, AtLife, Sending
<1> QED
  BY <1>1, <1>2, <1>3 DEF PortInv, AtLife, Sending

(* The steps that leave connects and disconnects where they are.           *)
LEMMA SendingMoves ==
  ASSUME PortInv, NEW t \in Tasks, NEW place, Goes(t, place),
         ~AtLife(t), place \in Sending \union {"idle"},
         UNCHANGED <<iface, port, listening, hand, overlap>>
  PROVE  PortInv'
<1>1. /\ at' = [u \in Tasks |-> at'[u]] /\ at'[t] = place
      /\ \A u \in Tasks : u # t => at'[u] = at[u]
  BY PortGoes
<1> QED
  BY <1>1 DEF PortInv, AtLife, Sending

LEMMA UsbElsewhereInv ==
  ASSUME PortInv,
         \/ UHears \/ Posted \/ Established \/ Unplug
         \/ \E t \in Tasks : UNoInterface(t) \/ USend(t) \/ USent(t) \/ USendReturns(t)
  PROVE  PortInv'
<1>1. CASE UHears \/ Posted \/ Established \/ \E t \in Tasks : UNoInterface(t)
  <2>1. UNCHANGED <<at, iface, port, listening, hand, overlap>>
    BY <1>1 DEF UHears, Posted, Established, UNoInterface, appVars, usbVars, portVars, pubsubVars
  <2> QED
    BY <2>1 DEF PortInv, AtLife
<1>2. CASE Unplug
  <2>1. port' = 0 /\ UNCHANGED <<at, iface, listening, hand, overlap>>
    BY <1>2 DEF Unplug, baseVars, appVars, pubsubVars
  <2> QED
    BY <2>1 DEF PortInv, AtLife
<1>3. ASSUME NEW t \in Tasks, USend(t) \/ USent(t) \/ USendReturns(t) PROVE PortInv'
  <2>1. \E place \in {"sending", "sent", "refused", "idle"} : Goes(t, place)
    BY <1>3 DEF USend, BeginCall, USent, USendReturns
  <2>2. at[t] \in {"idle", "sending", "sent", "refused"}
        /\ UNCHANGED <<iface, port, listening, hand, overlap>>
    BY <1>3 DEF USend, USent, USendReturns, usbVars, portVars, pubsubVars
  <2> QED
    BY <2>1, <2>2, SendingMoves DEF AtLife, Sending
<1> QED
  BY <1>1, <1>2, <1>3

LEMMA UsbInv == PortInv /\ UsbNext => PortInv'
<1> SUFFICES ASSUME PortInv, UsbNext PROVE PortInv'
  OBVIOUS
<1> QED
  BY UConnectInv, UOpensInv, UConnectedInv, UConnectFailsInv, UDisconnectInv, UClosesInv,
     UDisconnectedInv, UsbElsewhereInv DEF UsbNext

-----------------------------------------------------------------------------
(* The kind of a transport never changes, and the states of the other      *)
(* kinds are left alone.                                                   *)
LEMMA KindStays == Next => kind' = kind
<1> SUFFICES ASSUME Next PROVE kind' = kind
  OBVIOUS
<1>1. CASE ConcentratorNext
  BY <1>1 DEF ConcentratorNext, DaemonHears, DaemonCloses, DaemonResets, DaemonAnswers, Connect,
     Greeted, NotGreeted, Disconnect, CloseStream, Disconnected, Send, Drained, ReadAnswer, Answered, Timeout,
     StreamGone, TakeAnswer, Unanswered, LoopReads, LoopWoken, LoopWakes, LoopTakes, LoopEnds,
     LoopStays, baseVars, appVars
<1>2. CASE UsbNext
  BY <1>2 DEF UsbNext, UHears, Posted, Established, Unplug, UConnect, UOpens, UConnected, UConnectFails,
     UDisconnect, UNoInterface, UCloses, UDisconnected, USend, USent, USendReturns,
     baseVars, appVars
<1>3. CASE SkillNext
  BY <1>3 DEF SkillNext, SHears, DeviceGone, SGet, SConnects, SAttemptFails, SClose, SSend,
     SSendReturns, SListen, SCopy, SReturn, appVars
<1>4. CASE Receive
  BY <1>4 DEF Receive
<1> QED
  BY <1>1, <1>2, <1>3, <1>4 DEF Next

LEMMA ReceiveInv ==
  ASSUME IInv, Receive, UNCHANGED <<concentratorVars, usbVars, skillVars>>
  PROVE  IInv'
<1>1. UNCHANGED <<kind, connected, at, call, begun, heard>>
  BY DEF Receive
<1>2. UNCHANGED <<link, lines, cmds, loop, verdicts, trusted, mixed>>
      /\ UNCHANGED <<iface, port, listening, hand, overlap>>
  BY DEF concentratorVars, streamVars, answerVars, usbVars, portVars, pubsubVars
<1>3. InCall' = InCall
  BY <1>1 DEF InCall
<1>4. StreamInv => StreamInv'
  BY <1>1, <1>2, <1>3 DEF StreamInv, StreamTyped, GreetingAlone, Unmixed, Orphaned, LoopRuns,
     AnswerFor, OneAnswer, NoAnswer, AnswerAt
<1>5. PortInv => PortInv'
  BY <1>1, <1>2 DEF PortInv, AtLife
<1> QED
  BY <1>1, <1>2, <1>4, <1>5 DEF IInv, OwnAnswer

LEMMA InitInv == Init => IInv
<1> SUFFICES ASSUME Init PROVE IInv
  OBVIOUS
<1>1. InCall = {}
  BY DEF Init, BaseInit, InCall
<1>2. lines \in Seq(LineType) /\ cmds \in Seq(Nat) /\ Len(lines) = 0
  BY DEF Init, ConcentratorInit
<1>3. StreamInv
  BY <1>1, <1>2 DEF Init, BaseInit, ConcentratorInit, StreamInv, StreamTyped, GreetingAlone,
     Unmixed, Orphaned, LoopRuns, NoAnswer, AnswerAt
<1>4. PortInv
  BY DEF Init, BaseInit, UsbInit, PortInv, AtLife, Sending
<1> QED
  BY <1>3, <1>4 DEF IInv, OwnAnswer, Init, ConcentratorInit

LEMMA NextInv == IInv /\ [Next]_vars => IInv'
<1> SUFFICES ASSUME IInv, [Next]_vars PROVE IInv'
  OBVIOUS
<1>1. CASE kind = "concentrator" /\ ConcentratorNext /\ UNCHANGED <<usbVars, skillVars>>
  <2>1. kind' = kind
    BY <1>1, KindStays DEF Next
  <2> QED
    BY <1>1, <2>1, ConcentratorInv DEF IInv
<1>2. CASE kind = "usb" /\ UsbNext /\ UNCHANGED <<concentratorVars, skillVars>>
  <2>1. kind' = kind /\ UNCHANGED <<trusted, verdicts>>
    BY <1>2, KindStays DEF Next, concentratorVars, answerVars
  <2> QED
    BY <1>2, <2>1, UsbInv DEF IInv, OwnAnswer
<1>3. CASE kind = "skill" /\ SkillNext /\ UNCHANGED <<concentratorVars, usbVars>>
  <2>1. kind' = kind /\ UNCHANGED <<trusted, verdicts>>
    BY <1>3, KindStays DEF Next, concentratorVars, answerVars
  <2> QED
    BY <1>3, <2>1 DEF IInv, OwnAnswer
<1>4. CASE kind # "skill" /\ Receive /\ UNCHANGED <<concentratorVars, usbVars, skillVars>>
  BY <1>4, ReceiveInv
<1>5. CASE UNCHANGED vars
  <2>1. UNCHANGED <<kind, connected, at, call, begun, heard>>
        /\ UNCHANGED <<link, lines, cmds, loop, verdicts, trusted, mixed>>
        /\ UNCHANGED <<iface, port, listening, hand, overlap>>
    BY <1>5 DEF vars, baseVars, appVars, historyVars, concentratorVars, streamVars, answerVars,
       usbVars, portVars, pubsubVars
  <2>2. InCall' = InCall
    BY <2>1 DEF InCall
  <2>3. StreamInv => StreamInv'
    BY <2>1, <2>2 DEF StreamInv, StreamTyped, GreetingAlone, Unmixed, Orphaned, LoopRuns,
       AnswerFor, OneAnswer, NoAnswer, AnswerAt
  <2>4. PortInv => PortInv'
    BY <2>1 DEF PortInv, AtLife
  <2> QED
    BY <2>1, <2>3, <2>4 DEF IInv, OwnAnswer
<1> QED
  BY <1>1, <1>2, <1>3, <1>4, <1>5 DEF Next

LEMMA Invariant == Spec => []IInv
  BY InitInv, NextInv, PTL DEF Spec

(* As long as no two calls of send_raw overlap on a stream and none ends   *)
(* without its answer, a True is the daemon's answer to that very command, *)
(* whatever the receive loop reads meanwhile (concentrator.py 127-183).    *)
THEOREM TrueIsOwnAnswer == Spec => []OwnAnswer
<1>1. IInv => OwnAnswer
  BY DEF IInv
<1> QED
  BY <1>1, Invariant, PTL

(* A transport that is connected has its receive loop (concentrator.py     *)
(* 185-203), or its listener (usb.py 44-50).                               *)
THEOREM ConnectedTransportsAreServed == Spec => []ConnectedIsServed
<1>1. IInv => ConnectedIsServed
  BY DEF IInv, StreamInv, LoopRuns, PortInv, ConnectedIsServed, IsConnected, LifeIdle, Sending
<1> QED
  BY <1>1, Invariant, PTL

(* Connects and disconnects that do not overlap never lose the interface   *)
(* that has the serial port (usb.py 36-76), however sends and losses of    *)
(* the device come between.                                                *)
THEOREM SerialPortIsKept == Spec => []PortNotLeaked
<1>1. IInv => PortNotLeaked
  BY DEF IInv, PortInv, PortNotLeaked, LifeIdle, Sending
<1> QED
  BY <1>1, Invariant, PTL
===============================================================================
