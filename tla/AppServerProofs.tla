----------------------------- MODULE AppServerProofs -----------------------------
(***************************************************************************)
(* Theorems about a provider run: whatever the App Server writes and       *)
(* however many lines of it, whatever the order in which answers, alarms,  *)
(* the abort and the end of the process reach the run, a run that resolves *)
(* lost no failure and saw its own turn complete, nothing is told after a  *)
(* failure, and every step is one that ProviderContract allows.            *)
(***************************************************************************)
EXTENDS AppServer, TLAPS

(* A line on the wire. *)
Verdict == {Rejection} \cup Results(BOOLEAN, Settings)

Line == [kind : {"garbage", "error", "record"}]
        \cup [kind : {"settings"}, settings : Settings]
        \cup [kind : {"completed"}, own : BOOLEAN, completed : BOOLEAN]
        \cup [kind : {"response"}, to : Requests, verdict : Verdict]

WireOK == wire \in Seq(Line)

(* How far the run has told its events. *)
Prefix(k) == SubSeq(EventOrder, 1, k)

Stage ==
    CASE pc = "prepare" -> {0}
      [] pc \in {"initialize", "models", "thread"} -> {1}
      [] pc = "turn" -> {3}
      [] pc = "completion" -> {4}
      [] pc \in {"outcome", "drain", "retainExit", "resolved"} -> {5}
      [] pc \in {"term", "kill"} -> IF failing THEN 0..5 ELSE {5}
      [] pc = "emit" -> 0..4
      [] OTHER -> 0..5

Telling == pc # "rejected" => \E k \in Stage : told = Prefix(k)

(* Before the process is spawned there is nothing to hear or to lose. *)
Preparing ==
    pc = "prepare" =>
       /\ ~terminal /\ ~failing /\ ~failed /\ ~closed /\ ~leader /\ exit = "none"
       /\ wire = << >> /\ reader = "idle" /\ said = {} /\ waiter = "none"

(* A run that may still resolve has not entered its catch block, and once  *)
(* the end of the process is told it has ended.                            *)
Ending ==
    /\ pc \notin {"interrupt", "term", "kill", "emitFailed", "rejected"} => ~failing
    /\ pc = "interrupt" => failing
    /\ pc = "emitFailed" => failing /\ exit # "none"
    /\ pc \in {"drain", "retainExit", "resolved"} => closed /\ exit = "clean"
    /\ exit # "none" => pc \in {"drain", "retainExit", "resolved", "emitFailed", "rejected"}
    /\ exit = "clean" => closed
    /\ closed => ~leader
(* A failure is on its way to the run: recorded, in a line that is still   *)
(* to be handled, or in an exit that nobody has looked at.                 *)
Announced == terminal \/ \E n \in 1..Len(wire) : wire[n].kind \in Alarms

Losing ==
    ~failing =>
       /\ failed => terminal
       /\ reader = "ended" => terminal
       /\ "alarm" \in said => Announced
       /\ "left" \in said => terminal \/ ExitUnseen
       /\ aborted => terminal \/ pc \in {"prepare", "rejected"}
       /\ pc \in {"retainExit", "resolved"} => wire = << >>
       /\ pc \in {"term", "kill", "drain", "retainExit", "resolved"} => expected
       /\ pc = "resolved" => ~terminal

(* The turn is awaited only when the thread is known, and what a waiter    *)
(* heard the server has said.                                              *)
Heard == waiter = "completed"

Hearing ==
    ~failing =>
       /\ waiter # "none" => threadId
       /\ pc = "turn" => threadId
       /\ pc = "emit" /\ Len(told) > 0 => threadId
       /\ Heard => "completed" \in said
       /\ \A n \in 1..Len(wire) :
             wire[n].kind = "completed" /\ wire[n].own /\ wire[n].completed
             => "completed" \in said
       /\ pc = "emit" /\ Len(told) = 4 => Heard
       /\ pc \in {"outcome", "term", "kill", "drain", "retainExit", "resolved"} => Heard

IInv == /\ TypeOK /\ WireOK /\ Preparing /\ Telling /\ Ending
        /\ Losing /\ Hearing
-----------------------------------------------------------------------------
(* Lines and responses *)

LEMMA VerdictsTyped ==
  ASSUME NEW r \in Requests, NEW v \in Verdicts(r)
  PROVE  v \in Verdict
<1>1. Unreported \in Settings
  BY DEF Settings
<1> QED BY <1>1 DEF Verdicts, Verdict, Results, Requests

(* What is read of an answer that is a result. *)
LEMMA ResultRead ==
  ASSUME NEW a \in {NoAnswer} \cup Verdict, a.is = "result"
  PROVE  a.complete \in BOOLEAN /\ a.settings \in Settings
BY DEF Verdict, NoAnswer, Rejection, Results

LEMMA SettingsTyped ==
  ASSUME NEW s \in Settings
  PROVE  s \in [{"model", "effort"} -> {"asked", "other", "none"}]
BY DEF Settings, Asked, Unreported, Reported

LEMMA NoticesTyped ==
  ASSUME NEW m \in Notices
  PROVE  m \in Line
BY DEF Notices, Line

(* Events *)

LEMMA PrefixLength ==
  ASSUME NEW k \in 0..5
  PROVE  Len(Prefix(k)) = k
BY DEF Prefix, EventOrder

LEMMA PrefixGrows ==
  ASSUME NEW k \in 0..4
  PROVE  Append(Prefix(k), EventOrder[k + 1]) = Prefix(k + 1)
BY DEF Prefix, EventOrder

LEMMA EventNamed ==
  ASSUME NEW k \in 0..4
  PROVE  EventOrder[k + 1] \in {EventOrder[n] : n \in 1..5}
<1>1. k + 1 \in 1..5
  OBVIOUS
<1> QED BY <1>1

LEMMA NextEvent ==
  ASSUME Telling, pc = "emit"
  PROVE  /\ Len(told) \in 0..4
         /\ told = Prefix(Len(told))
         /\ Append(told, EventOrder[Len(told) + 1]) = Prefix(Len(told) + 1)
BY PrefixLength, PrefixGrows DEF Telling, Stage

(* The catch block *)

(* What every way into the catch block, and every step in it, does. *)
Caught ==
    /\ failing' = TRUE /\ answer' = NoAnswer
    /\ pc' \in {"interrupt", "term", "emitFailed"}
    /\ pending' \in {"none", "interrupt"}
    /\ exit' \in {"none", "clean", "timedOut"}
    /\ exit' # "none" <=> pc' = "emitFailed"
    /\ exit' = "clean" => closed
    /\ failed' \in BOOLEAN /\ expected' \in BOOLEAN /\ terminal' \in BOOLEAN
    /\ signal' \in {signal, "term"}
    /\ sent' \in {0, sent} /\ said' \in {{}, said}

LEMMA TerminateCaught ==
  ASSUME TypeOK, NEW known \in BOOLEAN, Terminate(known), exit = "none",
         failing' = TRUE, answer' = NoAnswer, UNCHANGED historyVars
  PROVE  Caught
BY DEF TypeOK, Terminate, Caught, historyVars

LEMMA CatchCaught ==
  ASSUME TypeOK, Ending, NEW known \in BOOLEAN, Catch(known)
  PROVE  Caught
BY DEF TypeOK, Ending, Catch, Terminate, Caught
-----------------------------------------------------------------------------
(* Types *)

LEMMA WireShrinks ==
  ASSUME WireOK, wire # << >>
  PROVE  /\ Head(wire) \in Line /\ Tail(wire) \in Seq(Line)
         /\ Len(Tail(wire)) = Len(wire) - 1
         /\ \A n \in 1..Len(Tail(wire)) : n + 1 \in 1..Len(wire) /\ Tail(wire)[n] = wire[n + 1]
BY DEF WireOK

(* What the kinds of lines carry. *)
LEMMA LineCarries ==
  ASSUME NEW m \in Line
  PROVE  /\ m.kind = "response" => m.verdict \in Verdict
         /\ m.kind = "settings" => m.settings \in Settings
         /\ m.kind = "completed" => m.own \in BOOLEAN /\ m.completed \in BOOLEAN
BY DEF Line

LEMMA EnvironmentTyped ==
  ASSUME TypeOK, WireOK, ServerNext \/ ProcessNext
  PROVE  TypeOK' /\ WireOK'
<1> USE BoundsAssumption
    DEF TypeOK, WireOK, runVars, rpcSettled, rpcVars, protocolVars, wireVars,
        historyVars, processVars
<1>1. CASE ServerSays
  <2>1. PICK m \in Notices : wire' = Append(wire, m)
    BY <1>1 DEF ServerSays
  <2>2. m \in Line
    BY <2>1, NoticesTyped
  <2>3. WireOK' /\ Len(wire') = Len(wire) + 1
    BY <2>1, <2>2
  <2>4. sent' \in 0..MaxSaid
    BY <1>1 DEF ServerSays
  <2> QED BY <1>1, <2>3, <2>4 DEF ServerSays
<1>2. CASE ServerAnswers
  <2>1. PICK v \in Verdicts(pending) :
           wire' = Append(wire, [kind |-> "response", to |-> pending, verdict |-> v])
    BY <1>2 DEF ServerAnswers
  <2>2. pending \in Requests
    BY <1>2 DEF ServerAnswers
  <2>3. [kind |-> "response", to |-> pending, verdict |-> v] \in Line
    BY <2>2, VerdictsTyped DEF Line
  <2>4. WireOK' /\ Len(wire') = Len(wire) + 1
    BY <2>1, <2>3
  <2> QED BY <1>2, <2>4 DEF ServerAnswers
<1>3. CASE HelperStarts
  BY <1>3 DEF HelperStarts
<1>4. CASE HelperLeaves
  BY <1>4 DEF HelperLeaves
<1>5. CASE LeaderLeaves
  <2>1. leader' \in BOOLEAN
    BY <1>5 DEF LeaderLeaves
  <2> QED BY <1>5, <2>1 DEF LeaderLeaves
<1>6. CASE KillLands
  <2>1. leader' \in BOOLEAN
    BY <1>6 DEF KillLands
  <2> QED BY <1>6, <2>1 DEF KillLands
<1>7. CASE Closes
  BY <1>7 DEF Closes
<1> QED BY <1>1, <1>2, <1>3, <1>4, <1>5, <1>6, <1>7 DEF ServerNext, ProcessNext

LEMMA ReaderTyped ==
  ASSUME TypeOK, WireOK, ReaderNext \/ ExitObserved
  PROVE  TypeOK' /\ WireOK'
<1> USE DEF TypeOK, WireOK, runVars, rpcSettled, rpcVars, protocolVars, wireVars,
            historyVars, processVars
<1>1. CASE HandleLine
  <2> DEFINE m == Head(wire)
  <2>1. m \in Line /\ WireOK' /\ Len(wire') <= MaxWire
    BY <1>1, WireShrinks, BoundsAssumption DEF HandleLine
  <2>2. CASE HandleResponse(m)
    BY <1>1, <2>1, <2>2, LineCarries DEF HandleLine, HandleResponse, Verdict
  <2>3. CASE HandleGarbage(m)
    BY <1>1, <2>1, <2>3 DEF HandleLine, HandleGarbage, Fail, RejectActive
  <2>4. CASE HandleAlarm(m)
    BY <1>1, <2>1, <2>4 DEF HandleLine, HandleAlarm
  <2>5. CASE HandleSettings(m)
    <3>1. m.settings \in [{"model", "effort"} -> {"asked", "other", "none"}]
      BY <2>1, <2>5, LineCarries, SettingsTyped DEF HandleSettings
    <3>2. observed' \in [{"model", "effort"} -> {"asked", "other", "none"}]
      BY <2>5, <3>1 DEF HandleSettings
    <3> QED BY <1>1, <2>1, <2>5, <3>2 DEF HandleLine, HandleSettings
  <2>6. CASE HandleRecord(m)
    BY <1>1, <2>1, <2>6 DEF HandleLine, HandleRecord
  <2>7. CASE HandleCompleted(m)
    BY <1>1, <2>1, <2>7 DEF HandleLine, HandleCompleted
  <2> QED BY <1>1, <2>2, <2>3, <2>4, <2>5, <2>6, <2>7 DEF HandleLine
<1>2. CASE RecordRetained
  BY <1>2 DEF RecordRetained
<1>3. CASE RecordRefused
  BY <1>3, BoundsAssumption DEF RecordRefused, Fail, RejectActive
<1>4. CASE ExitObserved
  BY <1>4 DEF ExitObserved, Fail, RejectActive
<1> QED BY <1>1, <1>2, <1>3, <1>4 DEF ReaderNext

(* The types of what the catch block changes. *)
CaughtTypes ==
    /\ pc' \in Requests \cup {"term", "emitFailed"}
    /\ failing' \in BOOLEAN /\ exit' \in {"none", "clean", "timedOut"}
    /\ pending' \in Requests \cup {"none"} /\ answer' \in {NoAnswer, Rejection}
    /\ failed' \in BOOLEAN /\ expected' \in BOOLEAN /\ terminal' \in BOOLEAN
    /\ signal' \in {"none", "term", "kill"}
    /\ sent' \in 0..MaxSaid /\ said' \subseteq {"alarm", "completed", "left"}

LEMMA CaughtTyped ==
  ASSUME TypeOK, 0 \in 0..MaxSaid, Caught
  PROVE  CaughtTypes
BY DEF Caught, CaughtTypes, TypeOK, Requests

(* The store takes an event: what the run does next. *)
Continues ==
    /\ pc' = CASE Len(told) = 0 -> "initialize"
               [] Len(told) = 1 -> "emit"
               [] Len(told) = 2 -> "turn"
               [] Len(told) = 3 -> "completion"
               [] Len(told) = 4 -> "outcome"
    /\ waiter' = IF Len(told) = 2 THEN "waiting" ELSE waiter
    /\ pending' \in {pending, "none", "initialize", "turn"}
    /\ answer' \in {answer, NoAnswer}
    /\ UNCHANGED <<failing, exit, failed, expected, terminal, signal, historyVars>>

LEMMA EmitTakenWays ==
  ASSUME EmitTaken, Telling
  PROVE  /\ Len(told) \in 0..4
         /\ \/ Catch(expected) /\ UNCHANGED waiter
            \/ Continues /\ ~terminal
<1>0. Len(told) \in 0..4
  BY NextEvent DEF EmitTaken
<1>1. CASE terminal \/ (Len(told) \in {1, 4} /\ ~SettingsAccepted)
  <2>1. Catch(expected) /\ UNCHANGED waiter
    BY <1>1, Zenon DEF EmitTaken
  <2> QED BY <1>0, <2>1
<1>2. CASE ~(terminal \/ (Len(told) \in {1, 4} /\ ~SettingsAccepted))
  <2>1. CASE Len(told) = 0
    BY <1>2, <2>1 DEF EmitTaken, Ask, Continues
  <2>2. CASE Len(told) = 1
    BY <1>2, <2>2 DEF EmitTaken, Emit, Continues
  <2>3. CASE Len(told) = 2
    BY <1>2, <2>3 DEF EmitTaken, Ask, Continues
  <2>4. CASE Len(told) = 3
    BY <1>2, <2>4 DEF EmitTaken, Continues, rpcVars, rpcSettled
  <2>5. CASE Len(told) = 4
    BY <1>2, <2>5 DEF EmitTaken, Continues, rpcVars, rpcSettled
  <2> QED BY <1>0, <1>2, <2>1, <2>2, <2>3, <2>4, <2>5
<1> QED BY <1>0, <1>1, <1>2

LEMMA RunTyped ==
  ASSUME TypeOK, WireOK, Telling, Ending, RunNext \/ TurnTimesOut \/ Abort
  PROVE  TypeOK' /\ WireOK'
<1> USE DEF WireOK, runVars, rpcSettled, rpcVars, protocolVars, wireVars,
            historyVars, processVars, Unmoved
<1>0. TypeOK /\ 0 \in 0..MaxSaid /\ answer \in {NoAnswer} \cup Verdict
  BY BoundsAssumption DEF TypeOK, Verdict
<1>1. CASE Caught /\ UNCHANGED Unmoved
  <2>1. CaughtTypes
    BY <1>0, <1>1, CaughtTyped
  <2> QED BY <1>1, <2>1 DEF CaughtTypes, TypeOK
<1>2. CASE PreparationFails \/ PreparedTooLate \/ Spawns
  <2>1. leader' \in BOOLEAN
    BY <1>2 DEF PreparationFails, PreparedTooLate, Spawns, TypeOK
  <2>2. /\ pc' \in {"emit", "rejected"} /\ exit' \in {exit, "none", "timedOut"}
        /\ UNCHANGED <<failing, told, rpcVars, protocolVars, aborted, wireVars, historyVars,
                       helper, signal, closed>>
    BY <1>2 DEF PreparationFails, PreparedTooLate, Spawns
  <2> QED BY <2>1, <2>2 DEF TypeOK
<1>3. CASE EmitTaken
  <2>0. Len(told) \in 0..4
    BY <1>3, EmitTakenWays
  <2>1. told' \in Seq({"failed"} \cup {EventOrder[n] : n \in 1..5})
    <3>1. EventOrder[Len(told) + 1] \in {EventOrder[n] : n \in 1..5}
      BY <2>0, EventNamed
    <3> QED BY <1>3, <3>1 DEF EmitTaken, TypeOK
  <2>2. UNCHANGED <<threadId, turnId, observed, aborted, wireVars, leader, helper, closed>>
    BY <1>3 DEF EmitTaken
  <2>3. CASE Catch(expected) /\ UNCHANGED waiter
    <3>1. CaughtTypes
      BY <1>0, <2>3, CatchCaught, CaughtTyped DEF TypeOK
    <3> QED BY <2>1, <2>2, <2>3, <3>1 DEF CaughtTypes, TypeOK
  <2>4. CASE Continues
    <3>1. pc' \in Requests \cup {"emit", "completion", "outcome"}
      BY <2>0, <2>4 DEF Continues, Requests
    <3>2. pending' \in Requests \cup {"none"}
      BY <2>4 DEF Continues, Requests, TypeOK
    <3>3. waiter' \in {waiter, "waiting"} /\ answer' \in {answer, NoAnswer}
      BY <2>4 DEF Continues
    <3>4. UNCHANGED <<failing, exit, failed, expected, terminal, signal, historyVars>>
      BY <2>4 DEF Continues
    <3> QED BY <2>1, <2>2, <3>1, <3>2, <3>3, <3>4 DEF TypeOK
  <2> QED BY <1>3, <2>3, <2>4, EmitTakenWays
<1>4. CASE RequestTimesOut
  BY <1>4 DEF RequestTimesOut, TypeOK
<1>5. CASE Initialized
  BY <1>5 DEF Initialized, Ask, TypeOK, Requests
<1>6. CASE ModelsListed /\ ~Catch(expected)
  <2>1. /\ pc' = "thread" /\ pending' = "thread" /\ answer' = NoAnswer
        /\ UNCHANGED <<failing, exit, failed, expected, terminal, signal, historyVars, Unmoved>>
    BY <1>6 DEF ModelsListed, Ask
  <2> QED BY <2>1 DEF TypeOK, Requests
<1>7. CASE ThreadStarted
  <2>1. threadId' \in BOOLEAN /\ observed' \in [{"model", "effort"} -> {"asked", "other", "none"}]
    BY <1>0, <1>7, ResultRead, SettingsTyped DEF ThreadStarted, Answered
  <2>2. CASE Caught
    <3>1. CaughtTypes /\ UNCHANGED <<told, waiter, turnId, aborted, wireVars, leader, helper, closed>>
      BY <1>0, <1>7, <2>2, CaughtTyped DEF ThreadStarted
    <3> QED BY <2>1, <3>1 DEF CaughtTypes, TypeOK
  <2>3. CASE Emit
    BY <1>7, <2>1, <2>3 DEF ThreadStarted, Emit, TypeOK
  <2> QED BY <1>7, <2>2, <2>3, CatchCaught DEF ThreadStarted, TypeOK
<1>8. CASE TurnStarted
  <2>1. turnId' \in BOOLEAN
    BY <1>0, <1>8, ResultRead DEF TurnStarted, Answered
  <2>2. CASE Caught
    <3>1. CaughtTypes /\ UNCHANGED <<told, waiter, threadId, observed, aborted, wireVars, leader, helper, closed>>
      BY <1>0, <1>8, <2>2, CaughtTyped DEF TurnStarted
    <3> QED BY <2>1, <3>1 DEF CaughtTypes, TypeOK
  <2>3. CASE Emit
    BY <1>8, <2>1, <2>3 DEF TurnStarted, Emit, TypeOK
  <2> QED BY <1>8, <2>2, <2>3, CatchCaught DEF TurnStarted, TypeOK
<1>9. CASE TurnCompleted
  BY <1>9 DEF TurnCompleted, Emit, TypeOK
<1>10. CASE BeginCleanup /\ ~Caught
  <2>1. exit = "none"
    BY <1>10 DEF BeginCleanup, Ending, TypeOK
  <2>2. /\ UNCHANGED <<failing, exit, pending, answer, failed, terminal, historyVars, Unmoved>>
        /\ pc' = "term" /\ signal' = "term" /\ expected' = TRUE
    BY <1>10, <2>1, CatchCaught, TerminateCaught DEF BeginCleanup, TypeOK
  <2> QED BY <2>2 DEF TypeOK
<1>11. CASE TermWaitEnds /\ ~Catch(expected)
  <2>1. /\ \/ pc' = "kill" /\ signal' = "kill" /\ UNCHANGED <<failing, exit>>
           \/ /\ pc' \in {"emitFailed", "drain"} /\ failing' \in BOOLEAN
              /\ exit' \in {"clean", "timedOut"} /\ UNCHANGED signal
        /\ UNCHANGED <<rpcSettled, terminal, historyVars, Unmoved>>
    BY <1>11 DEF TermWaitEnds, Exited
  <2> QED BY <2>1 DEF TypeOK
<1>12. CASE KillWaitEnds
  BY <1>12 DEF KillWaitEnds, Exited, TypeOK
<1>13. CASE Drained /\ ~Catch(expected)
  <2>1. /\ pc' = "retainExit"
        /\ UNCHANGED <<failing, exit, rpcSettled, terminal, signal, historyVars, Unmoved>>
    BY <1>13 DEF Drained
  <2> QED BY <2>1 DEF TypeOK
<1>14. CASE ExitRetained /\ ~Catch(expected)
  <2>1. /\ pc' = "resolved"
        /\ UNCHANGED <<failing, exit, rpcSettled, terminal, signal, historyVars, Unmoved>>
    BY <1>14 DEF ExitRetained
  <2> QED BY <2>1 DEF TypeOK
<1>15. CASE FailureTold
  <2>1. told' \in Seq({"failed"} \cup {EventOrder[n] : n \in 1..5})
    <3> DEFINE Events == {"failed"} \cup {EventOrder[n] : n \in 1..5}
    <3>1. told \in Seq(Events) /\ "failed" \in Events
      BY DEF TypeOK
    <3>2. told' \in {told, Append(told, "failed")}
      BY <1>15 DEF FailureTold
    <3> HIDE DEF Events
    <3>3. told' \in Seq(Events)
      BY <3>1, <3>2
    <3> QED BY <3>3 DEF Events
  <2> QED BY <1>15, <2>1 DEF FailureTold, TypeOK
<1>16. CASE TurnTimesOut
  BY <1>16 DEF TurnTimesOut, TypeOK
<1>17. CASE Abort
  BY <1>17 DEF Abort, TypeOK
<1>18. CASE InterruptEnded
  <2>1. exit = "none" /\ failing' = TRUE
    BY <1>18 DEF InterruptEnded, Ending, TypeOK
  <2>2. Caught
    BY <1>18, <2>1, TerminateCaught DEF InterruptEnded, TypeOK
  <2> QED BY <1>1, <1>18, <2>2 DEF InterruptEnded
<1>19. CASE \/ EmitRefused \/ RaceLost
            \/ (ModelsListed \/ TermWaitEnds \/ Drained \/ ExitRetained) /\ Catch(expected)
            \/ BeginCleanup /\ Caught
  <2>1. Caught
    BY <1>19, CatchCaught DEF EmitRefused, RaceLost, TypeOK
  <2>2. UNCHANGED Unmoved
    BY <1>19 DEF EmitRefused, RaceLost, ModelsListed, TermWaitEnds, Drained, ExitRetained,
                 BeginCleanup
  <2> QED BY <1>1, <2>1, <2>2
<1> QED
  BY <1>2, <1>3, <1>4, <1>5, <1>6, <1>7, <1>8, <1>9, <1>10, <1>11, <1>12, <1>13, <1>14,
     <1>15, <1>16, <1>17, <1>18, <1>19 DEF RunNext

-----------------------------------------------------------------------------
(* How a step of the run goes *)

(* Into the catch block or further in it. *)
Catches ==
    /\ pc # "rejected" /\ Caught /\ UNCHANGED <<leader, closed>>
    /\ UNCHANGED told \/ EmitTaken

(* From a place in the straight path to the next one, without a failure. *)
Goes(to) ==
    /\ ~terminal /\ pc' = to
    /\ UNCHANGED <<failing, exit, rpcSettled, terminal, signal, historyVars, Unmoved>>

Begins ==
    /\ pc = "outcome" /\ ~closed /\ ~terminal
    /\ pc' = "term" /\ signal' = "term" /\ expected' = TRUE
    /\ UNCHANGED <<failing, exit, pending, answer, failed, terminal, historyVars, Unmoved>>

(* A wait of the cleanup ends: the group is killed, or what follows. *)
Kills ==
    /\ pc = "term" /\ pc' = "kill" /\ signal' = "kill"
    /\ UNCHANGED <<failing, exit, rpcSettled, terminal, historyVars, Unmoved>>

Leaves ==
    /\ pc \in {"term", "kill"}
    /\ exit' \in {"clean", "timedOut"}
    /\ exit' = "clean" => closed
    /\ \/ failing' = TRUE /\ pc' = "emitFailed"
       \/ /\ ~failing /\ ~terminal /\ exit' = "clean"
          /\ failing' = FALSE /\ pc' = "drain"
    /\ UNCHANGED <<rpcSettled, terminal, signal, historyVars, Unmoved>>

RunStep ==
    \/ Catches
    \/ PreparationFails \/ PreparedTooLate \/ Spawns
    \/ EmitTaken /\ Continues /\ ~terminal
    \/ RequestTimesOut
    \/ Initialized
    \/ ModelsListed /\ Ask("thread")
    \/ ThreadStarted /\ Emit
    \/ TurnStarted /\ Emit
    \/ TurnCompleted
    \/ Begins \/ Kills \/ Leaves
    \/ Drained /\ Goes("retainExit")
    \/ ExitRetained /\ Goes("resolved")
    \/ FailureTold

LEMMA RunSteps ==
  ASSUME TypeOK, Telling, Ending, RunNext
  PROVE  RunStep
<1> USE DEF RunStep
<1>0. expected \in BOOLEAN
  BY DEF TypeOK
<1>1. ASSUME NEW known \in BOOLEAN, Catch(known), UNCHANGED Unmoved, pc # "rejected"
      PROVE  Catches
  BY <1>1, CatchCaught DEF Catches, Unmoved
<1>2. CASE EmitTaken
  <2>1. CASE Catch(expected)
    <3>1. Caught
      BY <1>0, <2>1, CatchCaught
    <3> QED BY <1>2, <3>1 DEF Catches, EmitTaken
  <2> QED BY <1>2, <2>1, EmitTakenWays
<1>3. CASE EmitRefused \/ RaceLost
  BY <1>0, <1>1, <1>3 DEF EmitRefused, RaceLost, Racing
<1>4. CASE ModelsListed
  BY <1>0, <1>1, <1>4 DEF ModelsListed, Answered
<1>5. CASE ThreadStarted
  <2>1. CASE Catch(expected)
    <3>1. Caught
      BY <1>0, <2>1, CatchCaught
    <3> QED BY <1>5, <3>1 DEF Catches, ThreadStarted, Answered
  <2> QED BY <1>5, <2>1 DEF ThreadStarted
<1>6. CASE TurnStarted
  <2>1. CASE Catch(expected)
    <3>1. Caught
      BY <1>0, <2>1, CatchCaught
    <3> QED BY <1>6, <3>1 DEF Catches, TurnStarted, Answered
  <2> QED BY <1>6, <2>1 DEF TurnStarted
<1>7. CASE BeginCleanup
  <2>1. pc = "outcome" /\ exit = "none" /\ UNCHANGED Unmoved
    BY <1>7 DEF BeginCleanup, Ending, TypeOK
  <2>2. CASE closed
    <3>1. Caught
      BY <1>0, <1>7, <2>1, <2>2, TerminateCaught DEF BeginCleanup
    <3> QED BY <2>1, <3>1 DEF Catches, Unmoved
  <2>3. CASE Catch(TRUE)
    BY <1>1, <2>1, <2>3
  <2>4. CASE ~closed /\ ~Catch(TRUE)
    BY <1>7, <2>4, Zenon DEF BeginCleanup, Begins
  <2> QED BY <2>2, <2>3, <2>4, Zenon
<1>8. CASE InterruptEnded
  <2>1. /\ pc = "interrupt" /\ exit = "none" /\ failing' = TRUE /\ answer' = NoAnswer
        /\ Terminate(expected) /\ UNCHANGED <<historyVars, Unmoved>>
    BY <1>8 DEF InterruptEnded, Ending, TypeOK
  <2>2. Caught
    BY <1>0, <2>1, TerminateCaught
  <2> QED BY <2>1, <2>2 DEF Catches, Unmoved
<1>9. CASE TermWaitEnds
  <2>1. CASE Catch(expected)
    BY <1>0, <1>1, <1>9, <2>1 DEF TermWaitEnds
  <2>2. CASE Exited("clean") /\ closed
    BY <1>9, <2>2 DEF TermWaitEnds, Exited, Leaves, TypeOK
  <2>3. CASE Exited("timedOut") /\ failing
    BY <1>9, <2>3, Zenon DEF TermWaitEnds, Exited, Leaves
  <2> QED BY <1>9, <2>1, <2>2, <2>3 DEF TermWaitEnds, Kills
<1>10. CASE KillWaitEnds
  <2>1. CASE closed
    BY <1>10, <2>1 DEF KillWaitEnds, Exited, Leaves, TypeOK
  <2>2. CASE ~closed
    BY <1>10, <2>2, Zenon DEF KillWaitEnds, Exited, Leaves
  <2> QED BY <2>1, <2>2
<1>11. CASE Drained
  <2>1. CASE terminal
    BY <1>0, <1>1, <1>11, <2>1 DEF Drained
  <2> QED BY <1>11, <2>1 DEF Drained, Goes
<1>12. CASE ExitRetained
  <2>1. CASE Catch(expected)
    BY <1>0, <1>1, <1>12, <2>1 DEF ExitRetained
  <2> QED BY <1>12, <2>1 DEF ExitRetained, Goes
<1> QED
  BY <1>2, <1>3, <1>4, <1>5, <1>6, <1>7, <1>8, <1>9, <1>10, <1>11, <1>12 DEF RunNext

-----------------------------------------------------------------------------
(* Where the run is, and its process *)

(* A failing run loses and hears nothing any more. *)
LEMMA CaughtPlaced ==
  ASSUME TypeOK, Ending, Catches
  PROVE  Preparing' /\ Ending' /\ Losing' /\ Hearing'
<1>1. /\ failing' = TRUE /\ pc' \in {"interrupt", "term", "emitFailed"}
      /\ exit' # "none" <=> pc' = "emitFailed"
      /\ exit' = "clean" => closed
      /\ UNCHANGED <<leader, closed>>
  BY DEF Catches, Caught
<1> QED BY <1>1 DEF Preparing, Ending, Losing, Hearing

LEMMA PlacedStep ==
  ASSUME TypeOK, Telling, Preparing, Ending, [Next]_vars
  PROVE  Preparing' /\ Ending'
<1> USE DEF Preparing, Ending
<1>1. CASE RunNext
  <2> USE DEF runVars, rpcSettled, rpcVars, protocolVars, wireVars, historyVars, processVars,
              Unmoved
  <2>1. CASE Catches
    BY <2>1, CaughtPlaced
  <2>2. CASE PreparationFails \/ PreparedTooLate \/ Spawns
    BY <2>2 DEF PreparationFails, PreparedTooLate, Spawns
  <2>3. CASE EmitTaken /\ Continues
    <3>1. pc = "emit" /\ pc' \in {"initialize", "emit", "turn", "completion", "outcome"}
      <4>1. Len(told) \in 0..4
        BY <2>3, EmitTakenWays
      <4> QED BY <2>3, <4>1 DEF EmitTaken, Continues
    <3>2. UNCHANGED <<failing, exit, leader, closed>>
      BY <2>3 DEF EmitTaken, Continues
    <3> QED BY <3>1, <3>2
  <2>4. CASE RequestTimesOut
    BY <2>4 DEF RequestTimesOut, Requests
  <2>5. CASE Initialized \/ (ModelsListed /\ Ask("thread"))
    BY <2>5 DEF Initialized, ModelsListed, Answered, Ask
  <2>6. CASE (ThreadStarted \/ TurnStarted) /\ Emit
    BY <2>6 DEF ThreadStarted, TurnStarted, Answered, Emit
  <2>7. CASE TurnCompleted
    BY <2>7 DEF TurnCompleted, Emit
  <2>8. CASE Begins \/ Kills
    BY <2>8 DEF Begins, Kills
  <2>9. CASE Leaves
    BY <2>9 DEF Leaves
  <2>10. CASE Drained /\ Goes("retainExit")
    BY <2>10 DEF Drained, Goes
  <2>11. CASE ExitRetained /\ Goes("resolved")
    BY <2>11 DEF ExitRetained, Goes
  <2>12. CASE FailureTold
    BY <2>12 DEF FailureTold
  <2> QED
    BY <1>1, <2>1, <2>2, <2>3, <2>4, <2>5, <2>6, <2>7, <2>8, <2>9, <2>10, <2>11, <2>12,
       RunSteps DEF RunStep
<1>2. CASE ServerNext \/ ProcessNext
  <2>1. CASE pc = "prepare"
    BY <1>2, <2>1 DEF ServerNext, ServerSays, ServerAnswers, ProcessNext, HelperStarts,
       HelperLeaves, LeaderLeaves, KillLands, Closes, runVars, rpcSettled, rpcVars,
       protocolVars, wireVars, historyVars, processVars
  <2>2. (leader' => leader) /\ (closed' => closed \/ ~leader')
    BY <1>2 DEF ServerNext, ServerSays, ServerAnswers, ProcessNext, HelperStarts,
       HelperLeaves, LeaderLeaves, KillLands, Closes, processVars
  <2>3. UNCHANGED <<pc, failing, exit>> /\ (closed => closed')
    BY <1>2 DEF ServerNext, ServerSays, ServerAnswers, ProcessNext, HelperStarts,
       HelperLeaves, LeaderLeaves, KillLands, Closes, runVars, processVars
  <2> QED BY <2>1, <2>2, <2>3
<1>3. CASE ReaderNext \/ ExitObserved \/ TurnTimesOut \/ Abort
  <2>1. UNCHANGED <<runVars, processVars>>
    BY <1>3 DEF ReaderNext, HandleLine, RecordRetained, RecordRefused, ExitObserved,
       TurnTimesOut, Abort
  <2>2. CASE pc = "prepare"
    <3>1. Abort
      BY <1>3, <2>2 DEF ReaderNext, HandleLine, RecordRetained, RecordRefused, ExitObserved,
         ExitUnseen, TurnTimesOut
    <3>2. terminal' = terminal /\ UNCHANGED <<rpcVars, wireVars, historyVars>>
      BY <2>2, <3>1 DEF Abort, TypeOK
    <3> QED BY <2>1, <2>2, <3>2 DEF runVars, rpcVars, rpcSettled, wireVars, historyVars,
       processVars
  <2> QED BY <2>1, <2>2 DEF runVars, processVars
<1>4. CASE UNCHANGED vars
  BY <1>4 DEF vars, runVars, rpcSettled, rpcVars, protocolVars, wireVars, historyVars,
     processVars
<1> QED BY <1>1, <1>2, <1>3, <1>4 DEF Next, Done

LEMMA ToldGrows ==
  ASSUME Telling, EmitTaken
  PROVE  /\ Len(told) \in 0..4 /\ Len(told) + 1 \in 0..5
         /\ told' = Prefix(Len(told) + 1)
<1>1. /\ Len(told) \in 0..4
      /\ Append(told, EventOrder[Len(told) + 1]) = Prefix(Len(told) + 1)
  BY NextEvent DEF EmitTaken
<1>2. told' = Append(told, EventOrder[Len(told) + 1])
  BY DEF EmitTaken
<1>3. \A k \in 0..4 : k + 1 \in 0..5
  OBVIOUS
<1> QED BY <1>1, <1>2, <1>3

LEMMA TellingStep ==
  ASSUME TypeOK, Telling, Preparing, Ending, [Next]_vars
  PROVE  Telling'
<1>1. CASE RunNext
  <2> USE DEF Telling, Stage
  <2>1. CASE Catches
    <3>1. failing' = TRUE /\ pc' \in {"interrupt", "term", "emitFailed"}
      BY <2>1 DEF Catches, Caught
    <3>2. CASE UNCHANGED told
      <4>1. PICK k \in 0..5 : told = Prefix(k)
        BY <2>1 DEF Catches
      <4> QED BY <3>1, <3>2, <4>1
    <3>3. CASE EmitTaken
      BY <3>1, <3>3, ToldGrows
    <3> QED BY <2>1, <3>2, <3>3 DEF Catches
  <2>2. CASE PreparationFails \/ PreparedTooLate \/ Spawns
    BY <2>2 DEF PreparationFails, PreparedTooLate, Spawns
  <2>3. CASE EmitTaken /\ Continues
    <3>1. /\ Len(told) \in 0..4 /\ told' = Prefix(Len(told) + 1)
          /\ Len(told) + 1 \in 0..5 /\ UNCHANGED failing
      BY <2>3, ToldGrows DEF Continues
    <3>2. Len(told) + 1 \in Stage'
      <4>1. CASE Len(told) = 0
        BY <2>3, <4>1 DEF Continues
      <4>2. CASE Len(told) = 1
        BY <2>3, <4>2 DEF Continues
      <4>3. CASE Len(told) = 2
        BY <2>3, <4>3 DEF Continues
      <4>4. CASE Len(told) = 3
        BY <2>3, <4>4 DEF Continues
      <4>5. CASE Len(told) = 4
        BY <2>3, <4>5 DEF Continues
      <4> QED BY <3>1, <4>1, <4>2, <4>3, <4>4, <4>5
    <3> QED BY <3>1, <3>2
  <2>4. CASE RequestTimesOut
    BY <2>4 DEF RequestTimesOut, runVars
  <2>5. CASE Initialized \/ (ModelsListed /\ Ask("thread"))
    BY <2>5 DEF Initialized, ModelsListed, Answered, Ask, Unmoved
  <2>6. CASE (ThreadStarted \/ TurnStarted) /\ Emit
    BY <2>6 DEF ThreadStarted, TurnStarted, Answered, Emit
  <2>7. CASE TurnCompleted
    BY <2>7 DEF TurnCompleted, Emit, Unmoved
  <2>8. CASE Begins \/ Kills \/ Leaves
    BY <2>8 DEF Begins, Kills, Leaves, Unmoved, Ending
  <2>9. CASE Drained /\ Goes("retainExit")
    BY <2>9 DEF Drained, Goes, Unmoved
  <2>10. CASE ExitRetained /\ Goes("resolved")
    BY <2>10 DEF ExitRetained, Goes, Unmoved
  <2>11. CASE FailureTold
    BY <2>11 DEF FailureTold
  <2> QED
    BY <1>1, <2>1, <2>2, <2>3, <2>4, <2>5, <2>6, <2>7, <2>8, <2>9, <2>10, <2>11,
       RunSteps DEF RunStep
<1>2. CASE ~RunNext
  <2>1. UNCHANGED runVars
    BY <1>2 DEF Next, ServerNext, ServerSays, ServerAnswers, ProcessNext, HelperStarts,
       HelperLeaves, LeaderLeaves, KillLands, Closes, ReaderNext, HandleLine, RecordRetained,
       RecordRefused, ExitObserved, TurnTimesOut, Abort, Done, vars
  <2> QED BY <2>1 DEF Telling, Stage, runVars
<1> QED BY <1>1, <1>2

-----------------------------------------------------------------------------
(* No failure is lost *)

(* A step that leaves what Losing is about, and only goes on. *)
LEMMA LosingFrame ==
  ASSUME Losing, pc \notin {"prepare", "rejected"},
         UNCHANGED <<failing, failed, expected, terminal, aborted, wire, reader, said, closed>>,
         pc' \in {"term", "kill", "drain", "retainExit", "resolved"} => expected,
         pc' \in {"retainExit", "resolved"} => wire = << >>,
         pc' = "resolved" => ~terminal
  PROVE  Losing'
BY DEF Losing, Announced, ExitUnseen

LEMMA LosingRun ==
  ASSUME TypeOK, Telling, Preparing, Ending, Losing, RunNext
  PROVE  Losing'
<1> USE DEF runVars, rpcSettled, rpcVars, protocolVars, wireVars, historyVars, processVars,
            Unmoved
<1>1. CASE Catches
  BY <1>1, CaughtPlaced
<1>2. CASE PreparationFails \/ PreparedTooLate \/ Spawns
  <2>1. /\ pc = "prepare" /\ pc' \in {"emit", "rejected"}
        /\ pc' = "emit" => ~aborted
        /\ UNCHANGED <<failing, failed, expected, terminal, aborted, wire, reader, said, closed>>
    BY <1>2 DEF PreparationFails, PreparedTooLate, Spawns
  <2> QED BY <2>1 DEF Losing, Announced, ExitUnseen
<1>3. CASE EmitTaken /\ Continues
  <2>1. pc = "emit" /\ pc' \in {"initialize", "emit", "turn", "completion", "outcome"}
    <3>1. Len(told) \in 0..4
      BY <1>3, EmitTakenWays
    <3> QED BY <1>3, <3>1 DEF EmitTaken, Continues
  <2>2. UNCHANGED <<failing, failed, expected, terminal, aborted, wire, reader, said, closed>>
    BY <1>3 DEF EmitTaken, Continues
  <2> QED BY <2>1, <2>2, LosingFrame
<1>4. CASE RequestTimesOut
  <2>1. /\ pc \in Requests /\ pc' = pc
        /\ UNCHANGED <<failing, failed, expected, terminal, aborted, wire, reader, said, closed>>
    BY <1>4 DEF RequestTimesOut
  <2> QED BY <2>1, LosingFrame DEF Requests
<1>5. CASE Initialized \/ (ModelsListed /\ Ask("thread"))
  <2>1. /\ pc \in {"initialize", "models"} /\ pc' \in {"models", "thread"}
        /\ UNCHANGED <<failing, failed, expected, terminal, aborted, wire, reader, said, closed>>
    BY <1>5 DEF Initialized, ModelsListed, Answered, Ask
  <2> QED BY <2>1, LosingFrame
<1>6. CASE (ThreadStarted \/ TurnStarted \/ TurnCompleted) /\ Emit
  <2>1. /\ pc \in {"thread", "turn", "completion"} /\ pc' = "emit"
        /\ UNCHANGED <<failing, failed, expected, terminal, aborted, wire, reader, said, closed>>
    BY <1>6 DEF ThreadStarted, TurnStarted, TurnCompleted, Answered, Emit
  <2> QED BY <2>1, LosingFrame
<1>7. CASE Begins
  BY <1>7 DEF Begins, Losing, Announced, ExitUnseen
<1>8. CASE Kills
  <2>1. /\ pc = "term" /\ pc' = "kill"
        /\ UNCHANGED <<failing, failed, expected, terminal, aborted, wire, reader, said, closed>>
    BY <1>8 DEF Kills
  <2>2. CASE failing
    BY <2>1, <2>2 DEF Losing
  <2> QED BY <2>1, <2>2, LosingFrame DEF Losing
<1>9. CASE Leaves
  <2>1. CASE failing' = TRUE
    BY <2>1 DEF Losing
  <2>2. CASE failing' # TRUE
    <3>1. /\ ~failing /\ pc \in {"term", "kill"} /\ pc' = "drain" /\ failing' = failing
          /\ UNCHANGED <<failed, expected, terminal, aborted, wire, reader, said, closed>>
      BY <1>9, <2>2 DEF Leaves, TypeOK
    <3> QED BY <3>1, LosingFrame DEF Losing
  <2> QED BY <2>1, <2>2, Zenon
<1>10. CASE Drained /\ Goes("retainExit")
  <2>1. /\ pc = "drain" /\ pc' = "retainExit" /\ ~terminal
        /\ reader = "ended" \/ wire = << >>
        /\ UNCHANGED <<failing, failed, expected, terminal, aborted, wire, reader, said, closed>>
    BY <1>10 DEF Drained, Goes
  <2> QED BY <2>1, LosingFrame DEF Losing, Ending
<1>11. CASE ExitRetained /\ Goes("resolved")
  <2>1. /\ pc = "retainExit" /\ pc' = "resolved" /\ ~terminal
        /\ UNCHANGED <<failing, failed, expected, terminal, aborted, wire, reader, said, closed>>
    BY <1>11 DEF ExitRetained, Goes
  <2> QED BY <2>1, LosingFrame DEF Losing, Ending
<1>12. CASE FailureTold
  BY <1>12 DEF FailureTold, Losing, Ending
<1> QED
  BY <1>1, <1>2, <1>3, <1>4, <1>5, <1>6, <1>7, <1>8, <1>9, <1>10, <1>11, <1>12, RunSteps
     DEF RunStep, TurnCompleted

(* The server writes one line, and what it says is counted. *)
LEMMA ServerWrites ==
  ASSUME TypeOK, ServerSays \/ ServerAnswers
  PROVE  \E m \in Line :
            /\ wire' = Append(wire, m)
            /\ "alarm" \in said' => "alarm" \in said \/ m.kind \in Alarms
            /\ "left" \in said' => "left" \in said
            /\ m.kind = "completed" /\ m.own /\ m.completed => "completed" \in said'
<1>1. CASE ServerSays
  BY <1>1, NoticesTyped DEF ServerSays
<1>2. CASE ServerAnswers
  <2>1. pending \in Requests
    BY <1>2 DEF ServerAnswers, TypeOK
  <2>2. PICK v \in Verdict :
           wire' = Append(wire, [kind |-> "response", to |-> pending, verdict |-> v])
    BY <1>2, <2>1, VerdictsTyped DEF ServerAnswers
  <2>3. [kind |-> "response", to |-> pending, verdict |-> v] \in Line
    BY <2>1 DEF Line
  <2>4. said' = said
    BY <1>2 DEF ServerAnswers, historyVars
  <2> QED BY <2>2, <2>3, <2>4
<1> QED BY <1>1, <1>2

(* A line is appended; what was announced stays so. *)
LEMMA AnnouncedStays ==
  ASSUME WireOK, NEW m \in Line, wire' = Append(wire, m), terminal' = terminal
  PROVE  (Announced \/ m.kind \in Alarms) => Announced'
<1>1. Len(wire') = Len(wire) + 1 /\ wire'[Len(wire) + 1] = m
  BY DEF WireOK
<1>2. \A n \in 1..Len(wire) : n \in 1..Len(wire') /\ wire'[n] = wire[n]
  BY DEF WireOK
<1>3. Len(wire) + 1 \in 1..Len(wire')
  BY <1>1 DEF WireOK
<1> QED BY <1>1, <1>2, <1>3 DEF Announced

LEMMA LosingEnvironment ==
  ASSUME TypeOK, WireOK, Ending, Losing, ServerNext \/ ProcessNext
  PROVE  Losing'
<1>0. UNCHANGED <<runVars, rpcVars, protocolVars, aborted, reader>>
  BY DEF ServerNext, ServerSays, ServerAnswers, ProcessNext, HelperStarts, HelperLeaves,
     LeaderLeaves, KillLands, Closes, wireVars
<1>1. UNCHANGED <<pc, failing, failed, expected, terminal, aborted, reader>>
  BY <1>0 DEF runVars, rpcVars, rpcSettled, protocolVars
<1>2. CASE ServerSays \/ ServerAnswers
  <2>1. leader /\ UNCHANGED closed
    BY <1>2 DEF ServerSays, ServerAnswers, processVars
  <2>2. PICK m \in Line : /\ wire' = Append(wire, m)
                          /\ "alarm" \in said' => "alarm" \in said \/ m.kind \in Alarms
                          /\ "left" \in said' => "left" \in said
    BY <1>2, ServerWrites
  <2>3. (Announced \/ m.kind \in Alarms) => Announced'
    BY <1>1, <2>2, AnnouncedStays
  <2> QED BY <1>1, <2>1, <2>2, <2>3 DEF Losing, Ending, ExitUnseen
<1>3. CASE HelperStarts \/ HelperLeaves \/ LeaderLeaves \/ KillLands
  <2>1. UNCHANGED <<closed, wire, said>>
    BY <1>3 DEF HelperStarts, HelperLeaves, LeaderLeaves, KillLands, wireVars, historyVars
  <2> QED BY <1>1, <2>1 DEF Losing, Announced, ExitUnseen
<1>4. CASE Closes
  <2>1. /\ ~closed /\ closed' = TRUE /\ UNCHANGED wire
        /\ said' = IF expected THEN said ELSE said \cup {"left"}
    BY <1>4 DEF Closes, wireVars
  <2> QED BY <1>1, <2>1 DEF Losing, Announced, ExitUnseen
<1> QED BY <1>2, <1>3, <1>4 DEF ServerNext, ProcessNext

LEMMA LosingReader ==
  ASSUME TypeOK, WireOK, Losing, ReaderNext \/ ExitObserved \/ TurnTimesOut \/ Abort
  PROVE  Losing'
<1> USE DEF runVars, rpcSettled, rpcVars, protocolVars, wireVars, historyVars, processVars
<1>0. /\ UNCHANGED <<pc, failing, expected, said, closed>>
      /\ terminal => terminal'
  <2>1. UNCHANGED <<pc, failing, expected, said, closed>>
    BY DEF ReaderNext, HandleLine, RecordRetained, RecordRefused, ExitObserved, TurnTimesOut,
       Abort
  <2>2. CASE HandleLine
    BY <2>2 DEF HandleLine, HandleResponse, HandleGarbage, HandleAlarm, HandleSettings,
       HandleRecord, HandleCompleted, Fail
  <2>3. CASE RecordRetained \/ TurnTimesOut
    BY <2>3 DEF RecordRetained, TurnTimesOut
  <2>4. CASE RecordRefused \/ ExitObserved
    BY <2>4 DEF RecordRefused, ExitObserved, Fail
  <2>5. CASE Abort
    BY <2>5, Zenon DEF Abort
  <2> QED BY <2>1, <2>2, <2>3, <2>4, <2>5 DEF ReaderNext
<1>1. CASE HandleLine
  <2> DEFINE m == Head(wire)
  <2>1. wire # << >> /\ wire' = Tail(wire) /\ UNCHANGED aborted /\ pc # "resolved"
    BY <1>1 DEF HandleLine, Settled
  <2>2. /\ m.kind \in Alarms => terminal'
        /\ failed' => failed \/ terminal'
        /\ reader' # "ended"
    BY <1>1 DEF HandleLine, HandleResponse, HandleGarbage, HandleAlarm, HandleSettings,
       HandleRecord, HandleCompleted, Fail, Alarms
  <2>3. Announced => Announced'
    <3>1. CASE terminal
      BY <1>0, <3>1 DEF Announced
    <3>2. ASSUME NEW n \in 1..Len(wire), wire[n].kind \in Alarms
          PROVE  Announced'
      <4>1. CASE n = 1
        BY <2>1, <2>2, <3>2, <4>1 DEF Announced, WireOK
      <4>2. CASE n # 1
        <5>1. n - 1 \in 1..Len(wire') /\ wire'[n - 1] = wire[n]
          BY <2>1, <4>2 DEF WireOK
        <5> QED BY <3>2, <5>1 DEF Announced
      <4> QED BY <4>1, <4>2
    <3> QED BY <3>1, <3>2 DEF Announced
  <2> QED BY <1>0, <2>1, <2>2, <2>3 DEF Losing, ExitUnseen
<1>2. CASE RecordRetained
  <2>1. UNCHANGED <<failed, terminal, aborted, wire>> /\ reader' = "idle"
    BY <1>2 DEF RecordRetained
  <2> QED BY <1>0, <2>1 DEF Losing, Announced, ExitUnseen
<1>3. CASE RecordRefused \/ ExitObserved
  <2>1. terminal' = TRUE /\ wire' \in {wire, << >>}
    BY <1>3 DEF RecordRefused, ExitObserved, Fail
  <2>2. ~failing => pc # "resolved"
    BY <1>3 DEF RecordRefused, ExitObserved, ExitUnseen, Settled, Losing
  <2> QED BY <1>0, <2>1, <2>2 DEF Losing, Announced
<1>4. CASE TurnTimesOut
  <2>1. UNCHANGED <<failed, terminal, aborted, wire, reader>>
    BY <1>4 DEF TurnTimesOut
  <2> QED BY <1>0, <2>1 DEF Losing, Announced, ExitUnseen
<1>5. CASE Abort
  <2>1. /\ terminal' = (terminal \/ pc # "prepare") /\ pc # "resolved"
        /\ UNCHANGED <<failed, wire, reader>>
    BY <1>5 DEF Abort, Settled
  <2> QED BY <1>0, <2>1 DEF Losing, Announced, ExitUnseen
<1> QED BY <1>1, <1>2, <1>3, <1>4, <1>5 DEF ReaderNext

-----------------------------------------------------------------------------
(* What is heard was said *)

LEMMA HearingRun ==
  ASSUME TypeOK, Telling, Preparing, Ending, Hearing, RunNext
  PROVE  Hearing'
<1> USE DEF runVars, rpcSettled, rpcVars, protocolVars, wireVars, historyVars, processVars,
            Unmoved
<1>1. CASE Catches
  BY <1>1, CaughtPlaced
<1>2. CASE PreparationFails \/ PreparedTooLate \/ Spawns
  <2>1. /\ pc = "prepare" /\ pc' \in {"emit", "rejected"}
        /\ UNCHANGED <<failing, told, waiter, threadId, wire, said>>
    BY <1>2 DEF PreparationFails, PreparedTooLate, Spawns
  <2>2. told = Prefix(0)
    BY <2>1 DEF Telling, Stage
  <2>3. Len(told') = 0
    BY <2>1, <2>2, PrefixLength
  <2> QED BY <2>1, <2>3 DEF Preparing, Hearing, Heard
<1>3. CASE EmitTaken /\ Continues
  <2>0. /\ pc = "emit" /\ Len(told) \in 0..4 /\ Len(told') = Len(told) + 1
        /\ UNCHANGED <<failing, threadId, wire, said>>
    <3>1. Len(told) \in 0..4 /\ Len(told) + 1 \in 0..5 /\ told' = Prefix(Len(told) + 1)
      BY <1>3, ToldGrows
    <3>2. Len(told') = Len(told) + 1
      BY <3>1, PrefixLength
    <3> QED BY <1>3, <3>1, <3>2 DEF EmitTaken, Continues
  <2>1. CASE Len(told) = 0
    <3>1. pc' = "initialize" /\ waiter' = waiter
      BY <1>3, <2>1 DEF Continues
    <3> QED BY <2>0, <3>1 DEF Hearing, Heard
  <2>2. CASE Len(told) = 1
    <3>1. pc' = "emit" /\ waiter' = waiter /\ Len(told') = 2
      BY <1>3, <2>0, <2>2 DEF Continues
    <3> QED BY <2>0, <2>2, <3>1 DEF Hearing, Heard
  <2>3. CASE Len(told) = 2
    <3>1. pc' = "turn" /\ waiter' = "waiting"
      BY <1>3, <2>3 DEF Continues
    <3> QED BY <2>0, <2>3, <3>1 DEF Hearing, Heard
  <2>4. CASE Len(told) = 3
    <3>1. pc' = "completion" /\ waiter' = waiter
      BY <1>3, <2>4 DEF Continues
    <3> QED BY <2>0, <2>4, <3>1 DEF Hearing, Heard
  <2>5. CASE Len(told) = 4
    <3>1. pc' = "outcome" /\ waiter' = waiter
      BY <1>3, <2>5 DEF Continues
    <3> QED BY <2>0, <2>5, <3>1 DEF Hearing, Heard
  <2> QED BY <2>0, <2>1, <2>2, <2>3, <2>4, <2>5
<1>4. CASE RequestTimesOut
  BY <1>4 DEF RequestTimesOut, Hearing, Heard
<1>5. CASE Initialized \/ (ModelsListed /\ Ask("thread"))
  <2>1. /\ pc \in {"initialize", "models"} /\ pc' \in {"models", "thread"}
        /\ UNCHANGED <<failing, told, waiter, threadId, wire, said>>
    BY <1>5 DEF Initialized, ModelsListed, Answered, Ask
  <2> QED BY <2>1 DEF Hearing, Heard
<1>6. CASE ThreadStarted /\ Emit
  <2>1. /\ pc = "thread" /\ pc' = "emit" /\ UNCHANGED <<failing, told, waiter, wire, said>>
    BY <1>6 DEF ThreadStarted, Answered, Emit
  <2>2. threadId'
    <3>1. CASE answer.complete
      BY <1>6, <3>1 DEF ThreadStarted
    <3>2. CASE ~answer.complete
      <4>1. failing' = TRUE
        BY <1>6, <3>2 DEF ThreadStarted, Catch
      <4> QED BY <2>1, <4>1 DEF Ending
    <3> QED BY <3>1, <3>2
  <2>3. Len(told) = 1
    <3>1. told = Prefix(1)
      BY <2>1 DEF Telling, Stage
    <3> QED BY <3>1, PrefixLength
  <2> QED BY <2>1, <2>2, <2>3 DEF Hearing, Heard
<1>7. CASE TurnStarted /\ Emit
  <2>1. /\ pc = "turn" /\ pc' = "emit"
        /\ UNCHANGED <<failing, told, waiter, threadId, wire, said>>
    BY <1>7 DEF TurnStarted, Answered, Emit
  <2>2. Len(told) = 3
    <3>1. told = Prefix(3)
      BY <2>1 DEF Telling, Stage
    <3> QED BY <3>1, PrefixLength
  <2> QED BY <2>1, <2>2 DEF Hearing, Heard
<1>8. CASE TurnCompleted
  BY <1>8 DEF TurnCompleted, Emit, Hearing, Heard
<1>9. CASE Begins \/ Kills
  BY <1>9 DEF Begins, Kills, Hearing, Heard
<1>10. CASE Leaves
  BY <1>10 DEF Leaves, Hearing, Heard
<1>11. CASE (Drained /\ Goes("retainExit")) \/ (ExitRetained /\ Goes("resolved"))
  <2>1. /\ pc \in {"drain", "retainExit"} /\ pc' \in {"retainExit", "resolved"}
        /\ UNCHANGED <<failing, told, waiter, threadId, wire, said>>
    BY <1>11 DEF Drained, ExitRetained, Goes
  <2> QED BY <2>1 DEF Hearing, Heard
<1>12. CASE FailureTold
  BY <1>12 DEF FailureTold, Ending, Hearing
<1> QED
  BY <1>1, <1>2, <1>3, <1>4, <1>5, <1>6, <1>7, <1>8, <1>9, <1>10, <1>11, <1>12, RunSteps
     DEF RunStep

LEMMA HearingOthers ==
  ASSUME TypeOK, WireOK, Hearing,
         \/ ServerNext \/ ProcessNext \/ ReaderNext
         \/ ExitObserved \/ TurnTimesOut \/ Abort
  PROVE  Hearing'
<1>0. /\ UNCHANGED <<pc, failing, told, threadId>>
      /\ said \subseteq said'
  BY DEF ServerNext, ServerSays, ServerAnswers, ProcessNext, HelperStarts, HelperLeaves,
     LeaderLeaves, KillLands, Closes, ReaderNext, HandleLine, RecordRetained, RecordRefused,
     ExitObserved, TurnTimesOut, Abort, runVars, protocolVars, historyVars
<1>1. CASE ServerSays \/ ServerAnswers
  <2>1. UNCHANGED waiter
    BY <1>1 DEF ServerSays, ServerAnswers, rpcVars
  <2>2. PICK m \in Line :
           /\ wire' = Append(wire, m)
           /\ m.kind = "completed" /\ m.own /\ m.completed => "completed" \in said'
    BY <1>1, ServerWrites
  <2>3. \A n \in 1..Len(wire') : wire'[n] = m \/ (n \in 1..Len(wire) /\ wire'[n] = wire[n])
    BY <2>2 DEF WireOK
  <2> QED BY <1>0, <2>1, <2>2, <2>3 DEF Hearing, Heard
<1>2. CASE ProcessNext \/ RecordRetained \/ Abort
  <2>1. UNCHANGED <<waiter, wire>>
    BY <1>2 DEF ProcessNext, HelperStarts, HelperLeaves, LeaderLeaves, KillLands, Closes,
       RecordRetained, Abort, rpcVars, wireVars
  <2> QED BY <1>0, <2>1 DEF Hearing, Heard
<1>3. CASE RecordRefused \/ ExitObserved \/ TurnTimesOut
  <2>1. /\ \/ waiter' = waiter
           \/ waiter = "waiting" /\ waiter' = "rejected"
        /\ wire' \in {wire, << >>}
    <3>1. CASE RecordRefused
      BY <3>1 DEF RecordRefused, Fail, RejectActive
    <3>2. CASE ExitObserved
      BY <3>2 DEF ExitObserved, Fail, RejectActive, wireVars
    <3>3. CASE TurnTimesOut
      BY <3>3 DEF TurnTimesOut, wireVars
    <3> QED BY <1>3, <3>1, <3>2, <3>3
  <2> QED BY <1>0, <2>1 DEF Hearing, Heard
<1>4. CASE HandleLine
  <2> DEFINE m == Head(wire)
  <2>1. wire # << >> /\ wire' = Tail(wire) /\ m \in Line /\ m = wire[1] /\ 1 \in 1..Len(wire)
    BY <1>4, WireShrinks DEF HandleLine, WireOK
  <2>2. \A n \in 1..Len(wire') : n + 1 \in 1..Len(wire) /\ wire'[n] = wire[n + 1]
    BY <2>1, WireShrinks
  <2>3. \/ waiter' = waiter
        \/ waiter = "waiting" /\ waiter' \in {"rejected", "notCompleted"}
        \/ /\ waiter = "waiting" /\ waiter' = "completed"
           /\ m.kind = "completed" /\ m.completed /\ Belongs(m)
    BY <1>4 DEF HandleLine, HandleResponse, HandleGarbage, HandleAlarm, HandleSettings,
       HandleRecord, HandleCompleted, Fail, RejectActive
  <2>4. CASE failing
    BY <1>0, <2>4 DEF Hearing
  <2>5. CASE ~failing
    <3>1. ASSUME Heard'
          PROVE  "completed" \in said
      <4>1. CASE waiter' = waiter
        BY <2>5, <3>1, <4>1 DEF Hearing, Heard
      <4>2. CASE waiter' # waiter
        <5>1. waiter = "waiting" /\ m.kind = "completed" /\ m.completed /\ Belongs(m)
          BY <2>3, <3>1, <4>2 DEF Heard
        <5>2. m.own
          BY <2>1, <2>5, <5>1 DEF Belongs, Hearing, Line
        <5> QED BY <2>1, <2>5, <5>1, <5>2 DEF Hearing
      <4> QED BY <4>1, <4>2
    <3>2. waiter' # "none" => waiter # "none"
      BY <2>3
    <3>3. Heard => Heard'
      BY <2>3 DEF Heard
    <3>4. \A n \in 1..Len(wire') :
             wire'[n].kind = "completed" /\ wire'[n].own /\ wire'[n].completed
             => "completed" \in said
      BY <2>2, <2>5 DEF Hearing
    <3> QED BY <1>0, <2>5, <3>1, <3>2, <3>3, <3>4 DEF Hearing
  <2> QED BY <2>4, <2>5
<1> QED BY <1>1, <1>2, <1>3, <1>4 DEF ServerNext, ReaderNext

-----------------------------------------------------------------------------
(* Theorems *)

LEMMA IInvInit == Init => IInv
<1> SUFFICES ASSUME Init PROVE IInv
  OBVIOUS
<1>1. TypeOK /\ WireOK
  <2>1. told \in Seq({"failed"} \cup {EventOrder[n] : n \in 1..5})
    BY DEF Init
  <2>2. observed \in [{"model", "effort"} -> {"asked", "other", "none"}]
    BY SettingsTyped DEF Init, Settings
  <2>3. WireOK /\ Len(wire) <= MaxWire /\ sent \in 0..MaxSaid
    BY BoundsAssumption DEF Init, WireOK
  <2> QED BY <2>1, <2>2, <2>3 DEF Init, TypeOK
<1>2. Telling
  BY DEF Init, Telling, Stage, Prefix, EventOrder
<1> QED
  BY <1>1, <1>2 DEF Init, IInv, Preparing, Ending, Losing, Hearing, Heard

LEMMA Resolved ==
  ASSUME Ending, Losing, Hearing
  PROVE  NothingFatalLost /\ OwnTurnCompleted
BY DEF Ending, Losing, Announced, ExitUnseen, Hearing, Heard, NothingFatalLost,
   OwnTurnCompleted

LEMMA IInvStep == IInv /\ [Next]_vars => IInv'
<1> SUFFICES ASSUME IInv, [Next]_vars PROVE IInv'
  OBVIOUS
<1> USE DEF IInv
<1>1. Preparing' /\ Ending' /\ Telling'
  BY PlacedStep, TellingStep
<1>2. CASE RunNext
  <2>1. TypeOK' /\ WireOK' /\ Losing' /\ Hearing'
    BY <1>2, RunTyped, LosingRun, HearingRun
  <2> QED BY <1>1, <2>1
<1>3. CASE ServerNext \/ ProcessNext
  <2>1. TypeOK' /\ WireOK' /\ Losing' /\ Hearing'
    BY <1>3, EnvironmentTyped, LosingEnvironment, HearingOthers
  <2> QED BY <1>1, <2>1
<1>4. CASE ReaderNext \/ ExitObserved \/ TurnTimesOut \/ Abort
  <2>1. TypeOK' /\ WireOK' /\ Losing' /\ Hearing'
    BY <1>4, ReaderTyped, RunTyped, LosingReader, HearingOthers
  <2> QED BY <1>1, <2>1
<1>5. CASE UNCHANGED vars
  <2> USE <1>5 DEF vars, runVars, rpcVars, rpcSettled, protocolVars, wireVars, historyVars,
                   processVars
  <2>1. TypeOK' /\ WireOK'
    BY DEF TypeOK, WireOK
  <2>2. Losing' /\ Hearing'
    BY DEF Losing, Announced, ExitUnseen, Hearing, Heard
  <2> QED BY <1>1, <2>1, <2>2
<1> QED BY <1>2, <1>3, <1>4, <1>5 DEF Next, Done

LEMMA IInvAlways == Spec => []IInv
BY IInvInit, IInvStep, PTL DEF Spec

(* The state of a run, of its client and of its process keep their types,  *)
(* whatever the App Server writes (provider.ts, protocol.ts, rpc.ts).      *)
THEOREM TypeCorrect == Spec => []TypeOK
<1>1. IInv => TypeOK
  BY DEF IInv
<1> QED BY <1>1, IInvAlways, PTL

(* A run that resolves lost no failure: nothing fatal was sent, the server *)
(* did not leave by itself and nobody aborted the run (guardTerminal,      *)
(* drainOutput, expectProcessExit).                                        *)
THEOREM NoFatalLost == Spec => []NothingFatalLost
<1>1. IInv => NothingFatalLost
  BY Resolved DEF IInv
<1> QED BY <1>1, IInvAlways, PTL

(* A run resolves only after its own thread's turn completed               *)
(* (belongsToAssignmentThread).                                            *)
THEOREM OwnTurn == Spec => []OwnTurnCompleted
<1>1. IInv => OwnTurnCompleted
  BY Resolved DEF IInv
<1> QED BY <1>1, IInvAlways, PTL

(* After a terminal failure is recorded the run begins to store nothing    *)
(* but the failure (guardTerminal, raceTerminal).                          *)
THEOREM NothingNew == Spec => NothingNewAfterFailure
<1>1. ASSUME IInv, Next, terminal, <<pc, told>>' # <<pc, told>>
      PROVE  pc' \notin {"emit", "retainExit"}
  <2>1. RunNext
    BY <1>1 DEF Next, ServerNext, ServerSays, ServerAnswers, ProcessNext, HelperStarts,
       HelperLeaves, LeaderLeaves, KillLands, Closes, ReaderNext, HandleLine, RecordRetained,
       RecordRefused, ExitObserved, TurnTimesOut, Abort, Done, runVars, vars
  <2>2. RunStep
    BY <1>1, <2>1, RunSteps DEF IInv
  <2>3. pc # "prepare"
    BY <1>1 DEF IInv, Preparing
  <2> QED
    BY <1>1, <2>2, <2>3 DEF RunStep, Catches, Caught, PreparationFails, PreparedTooLate,
       Spawns, RequestTimesOut, Initialized, ModelsListed, ThreadStarted, TurnStarted,
       Answered, TurnCompleted, Begins, Kills, Leaves, Goes, FailureTold, runVars
<1>2. IInv /\ [Next]_vars =>
         [terminal /\ <<pc, told>>' # <<pc, told>> => pc' \notin {"emit", "retainExit"}]_vars
  BY <1>1
<1> QED BY <1>2, IInvAlways, PTL DEF Spec, NothingNewAfterFailure

LEMMA ContractStep ==
  ASSUME IInv, [Next]_vars
  PROVE  [Contract!ContractNext]_(Contract!contractVars)
<1> USE DEF Contract!contractVars, Contract!ContractNext, Settled
<1>0. TypeOK /\ Telling /\ Preparing /\ Ending
  BY DEF IInv
<1>1. CASE RunNext
  <2>1. RunStep
    BY <1>0, <1>1, RunSteps
  <2>2. ASSUME UNCHANGED <<told, closed>>, pc \notin {"resolved", "rejected"},
               pc' \notin {"resolved", "rejected"}
        PROVE  UNCHANGED Contract!contractVars
    BY <2>2
  <2>3. ASSUME EmitTaken, UNCHANGED closed, pc' \notin {"resolved", "rejected"}
        PROVE  Contract!TellNext
    <3>1. pc = "emit" /\ Len(told) \in 0..4 /\ told = Prefix(Len(told))
      BY <1>0, <2>3, NextEvent DEF EmitTaken
    <3>2. told' = Prefix(Len(told) + 1)
      BY <1>0, <2>3, ToldGrows
    <3>3. \A k \in 0..4 : k + 1 \in 1..5 /\ (k + 1) - 1 = k
      OBVIOUS
    <3>4. Len(Contract!EventOrder) = 5 /\ Contract!EventOrder = EventOrder
      BY DEF Contract!EventOrder, EventOrder
    <3>5. \E n \in 1..Len(Contract!EventOrder) :
             /\ told = SubSeq(Contract!EventOrder, 1, n - 1)
             /\ told' = SubSeq(Contract!EventOrder, 1, n)
      BY <3>1, <3>2, <3>3, <3>4 DEF Prefix
    <3> QED BY <2>3, <3>1, <3>5 DEF Contract!TellNext
  <2>4. CASE Catches
    <3>1. /\ pc' \in {"interrupt", "term", "emitFailed"} /\ UNCHANGED closed
          /\ UNCHANGED told \/ EmitTaken
      BY <2>4 DEF Catches, Caught
    <3>2. pc \notin {"resolved", "rejected"}
      BY <1>1 DEF RunNext, PreparationFails, PreparedTooLate, Spawns, EmitTaken, EmitRefused,
         RequestTimesOut, RaceLost, Racing, Requests, Initialized, ModelsListed, ThreadStarted,
         TurnStarted, Answered, TurnCompleted, BeginCleanup, InterruptEnded, TermWaitEnds,
         KillWaitEnds, Drained, ExitRetained, FailureTold
    <3> QED BY <2>2, <2>3, <3>1, <3>2
  <2>5. CASE PreparationFails \/ PreparedTooLate \/ Spawns
    <3>1. pc = "prepare" /\ pc' \in {"emit", "rejected"} /\ UNCHANGED <<told, closed>>
      BY <2>5 DEF PreparationFails, PreparedTooLate, Spawns, processVars
    <3>2. told = << >>
      BY <1>0, <3>1 DEF Telling, Stage, Prefix, EventOrder
    <3>3. CASE pc' = "rejected"
      BY <3>1, <3>2, <3>3 DEF Contract!Reject
    <3> QED BY <2>2, <3>1, <3>3
  <2>6. CASE EmitTaken /\ Continues
    <3>1. Len(told) \in 0..4
      BY <1>0, <2>6, EmitTakenWays
    <3>2. pc' \notin {"resolved", "rejected"}
      BY <2>6, <3>1 DEF Continues
    <3> QED BY <2>3, <2>6, <3>2 DEF EmitTaken
  <2>7. CASE \/ RequestTimesOut \/ Initialized \/ (ModelsListed /\ Ask("thread"))
             \/ ((ThreadStarted \/ TurnStarted) /\ Emit) \/ TurnCompleted
             \/ Begins \/ Kills \/ Leaves \/ (Drained /\ Goes("retainExit"))
    BY <2>2, <2>7 DEF RequestTimesOut, Requests, Initialized, ModelsListed, ThreadStarted,
       TurnStarted, Answered, TurnCompleted, Ask, Emit, Begins, Kills, Leaves, Drained, Goes,
       Unmoved, runVars, processVars
  <2>8. CASE ExitRetained /\ Goes("resolved")
    <3>1. /\ pc = "retainExit" /\ pc' = "resolved" /\ UNCHANGED <<told, exit, closed>>
      BY <2>8 DEF ExitRetained, Goes, Unmoved
    <3>2. closed /\ exit = "clean"
      BY <1>0, <3>1 DEF Ending
    <3>3. told = Contract!EventOrder
      BY <1>0, <3>1 DEF Telling, Stage, Prefix, EventOrder, Contract!EventOrder
    <3> QED BY <3>1, <3>2, <3>3 DEF Contract!Resolve
  <2>9. CASE FailureTold
    <3>1. /\ pc = "emitFailed" /\ pc' = "rejected" /\ told' \in {told, Append(told, "failed")}
          /\ UNCHANGED <<exit, closed>>
      BY <2>9 DEF FailureTold, processVars
    <3>2. exit # "timedOut" => closed
      BY <1>0, <3>1 DEF Ending, TypeOK
    <3> QED BY <3>1, <3>2 DEF Contract!Reject
  <2> QED BY <2>1, <2>4, <2>5, <2>6, <2>7, <2>8, <2>9 DEF RunStep
<1>2. CASE ~RunNext
  <2>1. /\ UNCHANGED runVars /\ closed' \in BOOLEAN
        /\ pc \in {"resolved", "rejected"} => closed' = closed
    BY <1>0, <1>2 DEF Next, ServerNext, ServerSays, ServerAnswers, ProcessNext, HelperStarts,
       HelperLeaves, LeaderLeaves, KillLands, Closes, ReaderNext, HandleLine, RecordRetained,
       RecordRefused, ExitObserved, TurnTimesOut, Abort, Done, vars, processVars, TypeOK
  <2> QED BY <1>0, <2>1 DEF Contract!ProcessChanges, runVars
<1> QED BY <1>1, <1>2

(* The adapter keeps the safety part of the contract that Attempt.tla      *)
(* relies on: the events in order and the failure last, resolved only with *)
(* everything told and the process gone, and no process left behind in     *)
(* silence (provider.ts, run).                                             *)
THEOREM KeepsContract ==
  Spec => Contract!ContractInit /\ [][Contract!ContractNext]_(Contract!contractVars)
<1>1. Init => Contract!ContractInit
  BY DEF Init, Contract!ContractInit, Settled
<1>2. IInv /\ [Next]_vars => [Contract!ContractNext]_(Contract!contractVars)
  BY ContractStep
<1> QED BY <1>1, <1>2, IInvAlways, PTL DEF Spec
=============================================================================
