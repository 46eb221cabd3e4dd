-------------------------------- MODULE AppServer --------------------------------
(***************************************************************************)
(* One run of the Codex provider: makeCodexProvider (provider.ts) drives   *)
(* the protocol (protocol.ts) over JSON-RPC (rpc.ts) with a process it     *)
(* owns (process.ts), and the App Server on the other side of the pipe is  *)
(* free to answer, to notify and to leave as it likes.                     *)
(*                                                                         *)
(* JavaScript runs the continuations of settled promises before it takes   *)
(* the next event.  Urgent says that one is due; until it has run, only    *)
(* the lines that came in the same chunk (what is on the wire already) are *)
(* handled, which is what happens between a response and the statement     *)
(* that awaits it.                                                         *)
(***************************************************************************)
EXTENDS Naturals, Sequences

CONSTANTS
    Helpers,   \* what a turn may start in the group: "piped", "detached"
    MaxEarly,  \* bound: notifications the App Server sends before the turn
    MaxSaid,   \* bound: notifications it sends in the whole run
    MaxWire    \* bound: lines written and not yet handled

ASSUME BoundsAssumption ==
    /\ MaxSaid \in Nat /\ MaxEarly \in 0..MaxSaid /\ MaxWire \in Nat
    /\ Helpers \subseteq {"piped", "detached"}

VARIABLES
    pc,         \* what the run awaits
    failing,    \* the catch block of run has been entered
    exit,       \* processExit: "none", "clean", or "timedOut" (cleanupTimedOut)
    told,       \* the events the store has taken
    pending,    \* the request that waits for its response, or "none"
    answer,     \* how it was settled, while its continuation is still due
    waiter,     \* the waiter for turn/completed
    failed,     \* AppServerRpc.failure is set
    expected,   \* AppServerRpc.processExitExpected
    terminal,   \* terminalFailure is recorded
    threadId,   \* threadId is known
    turnId,     \* turnId is known
    observed,   \* observedModel and observedEffort
    aborted,    \* the abort signal of the effect that runs the provider
    wire,       \* lines on standard output that are not handled yet
    reader,     \* readStdout: "idle", "retaining" or "ended"
    sent,       \* how many notifications were sent
    said,       \* what of them, and of its exit, the properties ask about
    leader,     \* the process that was spawned runs
    helper,     \* a process it started in its group
    signal,     \* the strongest signal sent to the group
    closed      \* hasExited: the leader ended and its pipes are closed

runVars == <<pc, failing, exit, told>>
rpcSettled == <<pending, answer, failed, expected>>
rpcVars == <<rpcSettled, waiter>>
protocolVars == <<terminal, threadId, turnId, observed>>
wireVars == <<wire, reader>>
historyVars == <<sent, said>>
processVars == <<leader, helper, signal, closed>>
vars == <<runVars, rpcVars, protocolVars, aborted, wireVars, historyVars, processVars>>

(* Settings that the server reports: the model and the effort that were    *)
(* asked for, others, or (a null field) nothing.                           *)
Reported(model, effort) == [model |-> model, effort |-> effort]
Asked == Reported("asked", "asked")
Unreported == Reported("none", "none")
Settings == {Asked, Unreported, Reported("asked", "none"),
             Reported("asked", "other")}

NoAnswer == [is |-> "none"]
Rejection == [is |-> "error"]
Results(complete, settings) ==
    [is : {"result"}, complete : complete, settings : settings]

Settled == pc \in {"resolved", "rejected"}
Requests == {"initialize", "models", "thread", "turn", "interrupt"}

(* raceTerminal: the awaits that a recorded failure ends at once. *)
Racing == {"initialize", "models", "thread", "turn", "completion"}

(* The exit of the process has not been looked at by the rpc client. *)
ExitUnseen == closed /\ ~expected /\ ~failed

Urgent == \/ answer.is # "none"
          \/ pc = "outcome"
          \/ pc = "completion" /\ waiter # "waiting"
          \/ pc \in Racing /\ terminal
          \/ ExitUnseen

------------------------------------------------------------------------------
(* What the App Server may write.  Once the catch block is entered, what   *)
(* it says changes only the details that the failure reports, so it says   *)
(* nothing more; once the run has settled nobody reads.                    *)

(* Answers of the App Server, as far as the run tells them apart: a result *)
(* may lack the model or the id it looks for, only thread/start reports    *)
(* settings, and nothing of the answer to an interrupt is read.            *)
Verdicts(request) ==
    CASE request = "initialize" -> {Rejection} \cup Results({TRUE}, {Unreported})
      [] request = "thread" ->
           {Rejection} \cup Results({FALSE}, {Unreported}) \cup Results({TRUE}, Settings)
      [] request = "interrupt" -> Results({TRUE}, {Unreported})
      [] OTHER -> {Rejection} \cup Results(BOOLEAN, {Unreported})

(* Notifications, each from the point at which the server can send it.     *)
(* "error" is any of those that end the run whenever they come: an error,  *)
(* a model reroute, or a request for an approval, which is declined first. *)
(* How a turn of another thread ended makes no difference.                 *)
Notices ==
    {[kind |-> "garbage"], [kind |-> "error"]}
    \cup (IF pc = "thread" \/ threadId
          THEN {[kind |-> "settings", settings |-> s] :
                  s \in Settings \ {Unreported, Reported("asked", "none")}}
          ELSE {})
    \cup (IF waiter # "none"
          THEN {[kind |-> "record"]}
               \cup {m \in [kind : {"completed"}, own : BOOLEAN, completed : BOOLEAN] :
                       m.own \/ m.completed}
          ELSE {})

(* The failures that docs/stack.md says fail the assignment, as far as a   *)
(* notification announces them.                                            *)
Alarms == {"garbage", "error"}

ServerSays ==
    /\ ~Urgent /\ ~Settled /\ ~failing /\ leader /\ reader # "ended"
    /\ sent < IF waiter = "none" THEN MaxEarly ELSE MaxSaid
    /\ Len(wire) < MaxWire
    /\ \E m \in Notices :
          /\ wire' = Append(wire, m)
          /\ said' = said
               \cup (IF m.kind \in Alarms THEN {"alarm"} ELSE {})
               \cup (IF m.kind = "completed" /\ m.own /\ m.completed
                     THEN {"completed"} ELSE {})
    /\ sent' = sent + 1
    /\ UNCHANGED <<runVars, rpcVars, protocolVars, aborted, reader, processVars>>

ServerAnswers ==
    /\ ~Urgent /\ leader /\ reader # "ended"
    /\ pending # "none" /\ Len(wire) < MaxWire
    /\ \A n \in 1..Len(wire) : wire[n].kind # "response"
    /\ \E v \in Verdicts(pending) :
          wire' = Append(wire, [kind |-> "response", to |-> pending, verdict |-> v])
    /\ UNCHANGED <<runVars, rpcVars, protocolVars, aborted, reader, historyVars,
                   processVars>>

------------------------------------------------------------------------------
(* The process group of the run. *)

(* A command of the turn starts a process in the group; it may hold the    *)
(* server's pipes or have its own.  One that has its own may outlive the   *)
(* server; that it ends by itself changes nothing the run can see.         *)
HelperStarts ==
    /\ ~Urgent /\ ~Settled /\ leader /\ waiter # "none" /\ helper = "never"
    /\ helper' \in Helpers
    /\ UNCHANGED <<runVars, rpcVars, protocolVars, aborted, wireVars,
                   historyVars, leader, signal, closed>>

HelperLeaves ==
    /\ ~Urgent /\ ~Settled /\ helper = "piped"
    /\ helper' = "gone"
    /\ UNCHANGED <<runVars, rpcVars, protocolVars, aborted, wireVars,
                   historyVars, leader, signal, closed>>

(* The server ends: by itself, or because of SIGTERM. *)
LeaderLeaves ==
    /\ ~Urgent /\ ~Settled /\ leader
    /\ leader' = FALSE
    /\ UNCHANGED <<runVars, rpcVars, protocolVars, aborted, wireVars,
                   historyVars, helper, signal, closed>>

(* SIGKILL ends every member of the group. *)
KillLands ==
    /\ ~Urgent /\ ~Settled /\ signal = "kill" /\ (leader \/ helper \in {"piped", "detached"})
    /\ leader' = FALSE
    /\ helper' = IF helper = "never" THEN "never" ELSE "gone"
    /\ UNCHANGED <<runVars, rpcVars, protocolVars, aborted, wireVars,
                   historyVars, signal, closed>>

(* The 'close' event: the leader has ended, nobody holds its pipes, and    *)
(* every chunk has been read (the last one may still be in the handler).   *)
Closes ==
    /\ ~Urgent /\ ~Settled /\ pc # "prepare" /\ ~leader /\ ~closed /\ helper # "piped"
    /\ wire = << >> \/ reader = "retaining"
    /\ closed' = TRUE
    /\ said' = IF expected THEN said ELSE said \cup {"left"}
    /\ UNCHANGED <<runVars, rpcVars, protocolVars, aborted, wireVars, sent,
                   leader, helper, signal>>

------------------------------------------------------------------------------
(* AppServerRpc *)

(* rejectActive after fail: what waits is rejected with the failure. *)
RejectActive ==
    /\ pending' = "none"
    /\ answer' = IF pending = "none" THEN answer ELSE Rejection
    /\ waiter' = IF waiter = "waiting" THEN "rejected" ELSE waiter

(* fail: the first failure is kept and told to the protocol's listener. *)
Fail == failed' = TRUE /\ terminal' = TRUE /\ RejectActive

(* The callback that start() puts on the exit of the process. *)
ExitObserved ==
    /\ ExitUnseen
    /\ Fail
    /\ UNCHANGED <<runVars, expected, threadId, turnId, observed, aborted, wireVars, historyVars,
                   processVars>>

(* Mutant of Belongs: the thread of a notification is not looked at. *)
BelongsToAny(m) == TRUE

(* belongsToAssignmentThread *)
Belongs(m) == ~threadId \/ "own" \notin DOMAIN m \/ m.own

HandleResponse(m) ==
    /\ m.kind = "response"
    /\ IF m.to = pending
       THEN pending' = "none" /\ answer' = m.verdict
       ELSE UNCHANGED <<pending, answer>>
    /\ UNCHANGED <<waiter, failed, terminal, observed, reader>>

HandleGarbage(m) ==
    /\ m.kind = "garbage"
    /\ Fail
    /\ UNCHANGED <<observed, reader>>

HandleAlarm(m) ==
    /\ m.kind = "error"
    /\ terminal' = TRUE
    /\ UNCHANGED <<pending, answer, waiter, failed, observed, reader>>

HandleSettings(m) ==
    /\ m.kind = "settings"
    /\ observed' = [f \in DOMAIN observed |->
                      IF m.settings[f] = "none" THEN observed[f] ELSE m.settings[f]]
    /\ UNCHANGED <<pending, answer, waiter, failed, terminal, reader>>

(* Items and token usage are retained before the next line is handled. *)
HandleRecord(m) ==
    /\ m.kind = "record"
    /\ reader' = "retaining"
    /\ UNCHANGED <<pending, answer, waiter, failed, terminal, observed>>

HandleCompleted(m) ==
    /\ m.kind = "completed"
    /\ waiter' = IF waiter = "waiting" /\ Belongs(m)
                 THEN IF m.completed THEN "completed" ELSE "notCompleted"
                 ELSE waiter
    /\ UNCHANGED <<pending, answer, failed, terminal, observed, reader>>

HandleLine ==
    /\ reader = "idle" /\ wire # << >> /\ ~Settled
    /\ wire' = Tail(wire)
    /\ LET m == Head(wire) IN
          \/ HandleResponse(m) \/ HandleGarbage(m) \/ HandleAlarm(m)
          \/ HandleSettings(m) \/ HandleRecord(m) \/ HandleCompleted(m)
    /\ UNCHANGED <<runVars, expected, threadId, turnId, aborted, historyVars, processVars>>

RecordRetained ==
    /\ reader = "retaining" /\ ~Urgent /\ ~Settled
    /\ reader' = "idle"
    /\ UNCHANGED <<runVars, rpcVars, protocolVars, aborted, wire, historyVars, processVars>>

(* The store refuses the record, or the usage is not a number: the error   *)
(* leaves the handler, fails the client and ends the reading for good.     *)
RecordRefused ==
    /\ reader = "retaining" /\ ~Urgent /\ ~Settled
    /\ reader' = "ended"
    /\ wire' = << >>
    /\ Fail
    /\ UNCHANGED <<runVars, expected, threadId, turnId, observed, aborted, historyVars,
                   processVars>>

------------------------------------------------------------------------------
(* run and its catch block (provider.ts), with protocol.run in between *)

EventOrder == <<"processStarted", "settingsObserved", "threadStarted",
                "turnStarted", "settingsConfirmed">>

Init ==
    /\ pc = "prepare" /\ failing = FALSE /\ exit = "none" /\ told = << >>
    /\ pending = "none" /\ answer = NoAnswer /\ waiter = "none"
    /\ failed = FALSE /\ expected = FALSE
    /\ terminal = FALSE /\ threadId = FALSE /\ turnId = FALSE /\ observed = Unreported
    /\ aborted = FALSE
    /\ wire = << >> /\ reader = "idle" /\ sent = 0 /\ said = {}
    /\ leader = FALSE /\ helper = "never" /\ signal = "none" /\ closed = FALSE

(* A command of the preparation fails; one that exceeded its time is       *)
(* terminated first, and that termination may time out in its turn.        *)
PreparationFails ==
    /\ pc = "prepare"
    /\ pc' = "rejected"
    /\ exit' \in {"none", "timedOut"}
    /\ UNCHANGED <<failing, told, rpcVars, protocolVars, aborted, wireVars, historyVars,
                   processVars>>

PreparedTooLate ==
    /\ pc = "prepare" /\ aborted
    /\ pc' = "rejected"
    /\ UNCHANGED <<failing, exit, told, rpcVars, protocolVars, aborted, wireVars, historyVars,
                   processVars>>

(* The process is spawned; its identity is read outside the try block, so  *)
(* that an unreadable one leaves the run with the process running.         *)
Spawns ==
    /\ pc = "prepare" /\ ~aborted
    /\ leader' = TRUE
    /\ pc' \in {"emit", "rejected"}
    /\ UNCHANGED <<failing, exit, told, rpcVars, protocolVars, aborted, wireVars, historyVars,
                   helper, signal, closed>>

(* The fiber that runs the provider is interrupted: shutdownRequested, or  *)
(* the check of the signal after the preparation.  In the catch block it   *)
(* changes nothing any more.                                               *)
Abort ==
    /\ ~Urgent /\ ~Settled /\ ~failing /\ ~aborted
    /\ aborted' = TRUE
    /\ terminal' = (terminal \/ pc # "prepare")
    /\ UNCHANGED <<runVars, rpcVars, threadId, turnId, observed, wireVars, historyVars,
                   processVars>>

(* expectProcessExit and terminateProcessGroup as the catch block calls    *)
(* them; [known] is what processExitExpected was before.                   *)
Terminate(known) ==
    /\ pending' = "none"
    /\ \/ /\ closed
          /\ failed' = TRUE /\ terminal' = TRUE /\ expected' = known
          /\ exit' = "clean" /\ pc' = "emitFailed"
          /\ UNCHANGED signal
       \/ /\ ~closed
          /\ expected' = TRUE
          /\ \/ signal' = "term" /\ pc' = "term" /\ UNCHANGED exit
             \/ exit' = "timedOut" /\ pc' = "emitFailed" /\ UNCHANGED signal
          /\ UNCHANGED <<failed, terminal>>

CanInterrupt == threadId /\ turnId /\ ~closed /\ ~failed

(* The catch block: nothing is left to end, or the turn is interrupted     *)
(* first, or (no turn, no time left) the group is terminated at once.      *)
(* The run cannot resolve any more, so the history is dropped.             *)
Catch(known) ==
    /\ failing' = TRUE
    /\ answer' = NoAnswer
    /\ sent' = 0 /\ said' = {}
    /\ \/ /\ exit # "none" \/ CanInterrupt
          /\ IF exit # "none"
             THEN pc' = "emitFailed" /\ pending' = "none"
             ELSE pc' = "interrupt" /\ pending' = "interrupt"
          /\ expected' = known
          /\ UNCHANGED <<exit, failed, terminal, signal>>
       \/ /\ exit = "none" /\ (CanInterrupt => expected)
          /\ Terminate(known)

(* The next request, or the next event, after the one that succeeded. *)
Ask(request) ==
    /\ pc' = request /\ pending' = request /\ answer' = NoAnswer
    /\ UNCHANGED <<failing, exit, failed, expected, terminal, signal, historyVars>>

Emit ==
    /\ pc' = "emit" /\ pending' = "none" /\ answer' = NoAnswer
    /\ UNCHANGED <<failing, exit, failed, expected, terminal, signal, historyVars>>

Unmoved == <<told, waiter, threadId, turnId, observed, aborted, wireVars,
             leader, helper, closed>>

RequestTimesOut ==
    /\ ~Urgent /\ pc \in Requests /\ pending # "none"
    /\ pending' = "none"
    /\ answer' = Rejection
    /\ UNCHANGED <<runVars, waiter, failed, expected, protocolVars, aborted, wireVars, historyVars,
                   processVars>>

(* The waiter's timer; after the failure nobody waits for it. *)
TurnTimesOut ==
    /\ ~Urgent /\ ~Settled /\ ~failing /\ waiter = "waiting"
    /\ waiter' = "rejected"
    /\ UNCHANGED <<runVars, pending, answer, failed, expected, protocolVars, aborted,
                   wireVars, historyVars,
                   processVars>>

(* raceTerminal ends with an error: a failure is recorded, the request was *)
(* rejected, or the turn ended other than completed.                       *)
RaceLost ==
    /\ pc \in Racing
    /\ \/ terminal
       \/ answer.is = "error"
       \/ pc = "completion" /\ waiter \in {"notCompleted", "rejected"}
    /\ Catch(expected)
    /\ UNCHANGED Unmoved

(* Mutant of Answered: an answer counts although a failure is recorded. *)
AnsweredAnyway(request) == pc = request /\ answer.is = "result"

Answered(request) == pc = request /\ answer.is = "result" /\ ~terminal

Initialized == Answered("initialize") /\ Ask("models") /\ UNCHANGED Unmoved

ModelsListed ==
    /\ Answered("models")
    /\ IF answer.complete THEN Ask("thread") ELSE Catch(expected)
    /\ UNCHANGED Unmoved

(* Mutant of ThreadStarted: the whole response is taken for settings. *)
ThreadStartedRaw ==
    /\ Answered("thread")
    /\ threadId' = answer.complete
    /\ observed' = answer
    /\ IF answer.complete THEN Emit ELSE Catch(expected)
    /\ UNCHANGED <<told, waiter, turnId, aborted, wireVars, leader, helper, closed>>

(* What the response says replaces the settings observed so far. *)
ThreadStarted ==
    /\ Answered("thread")
    /\ threadId' = answer.complete
    /\ observed' = answer.settings
    /\ IF answer.complete THEN Emit ELSE Catch(expected)
    /\ UNCHANGED <<told, waiter, turnId, aborted, wireVars, leader, helper, closed>>

TurnStarted ==
    /\ Answered("turn")
    /\ turnId' = answer.complete
    /\ IF answer.complete THEN Emit ELSE Catch(expected)
    /\ UNCHANGED <<told, waiter, threadId, observed, aborted, wireVars, leader, helper, closed>>

TurnCompleted ==
    /\ pc = "completion" /\ waiter = "completed" /\ ~terminal
    /\ Emit
    /\ UNCHANGED Unmoved

(* The settings that each of the two settings events is followed by. *)
SettingsAccepted ==
    /\ observed.model = "asked"
    /\ observed.effort \in IF Len(told) = 1 THEN {"asked", "none"} ELSE {"asked"}

(* The store takes the event; guardTerminal looks for a failure before the *)
(* run goes on.                                                            *)
EmitTaken ==
    /\ pc = "emit" /\ ~Urgent
    /\ told' = Append(told, EventOrder[Len(told) + 1])
    /\ IF terminal \/ (Len(told) \in {1, 4} /\ ~SettingsAccepted)
       THEN Catch(expected) /\ UNCHANGED waiter
       ELSE CASE Len(told) = 0 -> Ask("initialize") /\ UNCHANGED waiter
              [] Len(told) = 1 -> Emit /\ UNCHANGED waiter
              [] Len(told) = 2 -> Ask("turn") /\ waiter' = "waiting"
              [] Len(told) = 3 ->
                   /\ pc' = "completion"
                   /\ UNCHANGED <<failing, exit, rpcVars, terminal, signal, historyVars>>
              [] Len(told) = 4 ->
                   /\ pc' = "outcome"
                   /\ UNCHANGED <<failing, exit, rpcVars, terminal, signal, historyVars>>
    /\ UNCHANGED <<threadId, turnId, observed, aborted, wireVars, leader, helper, closed>>

EmitRefused ==
    /\ pc = "emit" /\ ~Urgent
    /\ Catch(expected)
    /\ UNCHANGED Unmoved

(* protocol.run has returned: from here the exit of the process is         *)
(* expected, unless it has ended already.                                  *)
BeginCleanup ==
    /\ pc = "outcome"
    /\ IF closed
       THEN /\ failing' = TRUE /\ answer' = NoAnswer
            /\ Terminate(expected) /\ UNCHANGED historyVars
       ELSE IF terminal
       THEN Catch(TRUE)
       ELSE \/ /\ pc' = "term" /\ signal' = "term" /\ expected' = TRUE
               /\ UNCHANGED <<failing, exit, pending, answer, failed, terminal, historyVars>>
            \/ Catch(TRUE)
    /\ UNCHANGED Unmoved

InterruptEnded ==
    /\ pc = "interrupt" /\ answer.is # "none"
    /\ answer' = NoAnswer
    /\ Terminate(expected)
    /\ UNCHANGED <<failing, historyVars, Unmoved>>

(* terminateProcessGroup returns: the catch block tells the failure, the   *)
(* try block goes on when nothing failed meanwhile.                        *)
Exited(how) ==
    /\ exit' = how
    /\ failing' = (failing \/ terminal \/ how = "timedOut")
    /\ pc' = IF failing' THEN "emitFailed" ELSE "drain"
    /\ UNCHANGED <<rpcSettled, terminal, signal, historyVars>>

TermWaitEnds ==
    /\ pc = "term" /\ ~Urgent
    /\ IF closed
       THEN Exited("clean")
       ELSE \/ /\ pc' = "kill" /\ signal' = "kill"
               /\ UNCHANGED <<failing, exit, rpcSettled, terminal, historyVars>>
            \/ IF failing THEN Exited("timedOut") ELSE Catch(expected)
    /\ UNCHANGED Unmoved

(* Mutant of KillWaitEnds: after SIGKILL the group is taken for gone. *)
KillWaitAssumed ==
    /\ pc = "kill" /\ ~Urgent
    /\ Exited("clean")
    /\ UNCHANGED Unmoved

KillWaitEnds ==
    /\ pc = "kill" /\ ~Urgent
    /\ Exited(IF closed THEN "clean" ELSE "timedOut")
    /\ UNCHANGED Unmoved

(* Mutant of Drained: the lines that are still to be handled do not count. *)
DrainedAtOnce ==
    /\ pc = "drain"
    /\ IF terminal
       THEN Catch(expected)
       ELSE /\ pc' = "retainExit"
            /\ UNCHANGED <<failing, exit, rpcSettled, terminal, signal, historyVars>>
    /\ UNCHANGED Unmoved

(* drainOutput: what the server wrote before it left has been handled. *)
Drained ==
    /\ pc = "drain"
    /\ reader = "ended" \/ (reader = "idle" /\ wire = << >>)
    /\ IF terminal
       THEN Catch(expected)
       ELSE /\ pc' = "retainExit"
            /\ UNCHANGED <<failing, exit, rpcSettled, terminal, signal, historyVars>>
    /\ UNCHANGED Unmoved

(* The record of the exit is stored (or refused), and the run returns      *)
(* unless a failure came while it was.                                     *)
ExitRetained ==
    /\ pc = "retainExit" /\ ~Urgent
    /\ \/ Catch(expected)
       \/ /\ ~terminal /\ pc' = "resolved"
          /\ UNCHANGED <<failing, exit, rpcSettled, terminal, signal, historyVars>>
    /\ UNCHANGED Unmoved

(* The failure is told, or the store refuses it, and the run rejects. *)
FailureTold ==
    /\ pc = "emitFailed" /\ ~Urgent
    /\ told' \in {told, Append(told, "failed")}
    /\ pc' = "rejected"
    /\ UNCHANGED <<failing, exit, rpcVars, protocolVars, aborted, wireVars, historyVars,
                   processVars>>

------------------------------------------------------------------------------
ServerNext == ServerSays \/ ServerAnswers

ProcessNext == HelperStarts \/ HelperLeaves \/ LeaderLeaves \/ KillLands \/ Closes

ReaderNext == HandleLine \/ RecordRetained \/ RecordRefused

RunNext ==
    \/ PreparationFails \/ PreparedTooLate \/ Spawns
    \/ EmitTaken \/ EmitRefused
    \/ RequestTimesOut \/ RaceLost
    \/ Initialized \/ ModelsListed \/ ThreadStarted \/ TurnStarted
    \/ TurnCompleted \/ BeginCleanup \/ InterruptEnded
    \/ TermWaitEnds \/ KillWaitEnds \/ Drained \/ ExitRetained \/ FailureTold

Done == Settled /\ UNCHANGED vars

Next == ServerNext \/ ProcessNext \/ ReaderNext \/ RunNext
        \/ ExitObserved \/ TurnTimesOut \/ Abort \/ Done

Spec == Init /\ [][Next]_vars
             /\ WF_vars(RunNext) /\ WF_vars(ReaderNext)
             /\ WF_vars(ExitObserved) /\ WF_vars(TurnTimesOut)

------------------------------------------------------------------------------
TypeOK ==
    /\ pc \in Requests \cup {"prepare", "emit", "completion", "outcome", "term", "kill",
                              "drain", "retainExit", "emitFailed", "resolved", "rejected"}
    /\ failing \in BOOLEAN /\ exit \in {"none", "clean", "timedOut"}
    /\ told \in Seq({"failed"} \cup {EventOrder[n] : n \in 1..5})
    /\ pending \in Requests \cup {"none"}
    /\ answer \in {NoAnswer, Rejection} \cup Results(BOOLEAN, Settings)
    /\ waiter \in {"none", "waiting", "completed", "notCompleted", "rejected"}
    /\ failed \in BOOLEAN /\ expected \in BOOLEAN /\ terminal \in BOOLEAN
    /\ threadId \in BOOLEAN /\ turnId \in BOOLEAN /\ aborted \in BOOLEAN
    /\ observed \in [{"model", "effort"} -> {"asked", "other", "none"}]
    /\ sent \in 0..MaxSaid /\ Len(wire) <= MaxWire
    /\ reader \in {"idle", "retaining", "ended"}
    /\ said \subseteq {"alarm", "completed", "left"}
    /\ leader \in BOOLEAN /\ closed \in BOOLEAN
    /\ helper \in {"never", "piped", "detached", "gone"}
    /\ signal \in {"none", "term", "kill"}

(* A run that resolves lost no failure on the way: in the whole run the    *)
(* server sent nothing that fails an assignment, not even among the last   *)
(* lines before it was ended, it did not leave by itself, and nobody had   *)
(* aborted the run (guardTerminal, drainOutput, expectProcessExit).        *)
NothingFatalLost ==
    pc = "resolved" => said \cap {"alarm", "left"} = {} /\ ~aborted

(* A run resolves only after the turn of the assignment's own thread ended *)
(* as completed; a subagent's turn on the same pipe does not count         *)
(* (belongsToAssignmentThread).                                            *)
OwnTurnCompleted == pc = "resolved" => "completed" \in said

(* Once a terminal failure is recorded the run begins to store nothing     *)
(* more but the failure: an answer or a completion that was already on its *)
(* way does not become news (guardTerminal, raceTerminal).                 *)
NothingNewAfterFailure ==
    [][terminal /\ <<pc, told>>' # <<pc, told>> => pc' \notin {"emit", "retainExit"}]_vars

(* When the run has settled without saying that the cleanup timed out, the *)
(* process group it owned has no member left (docs/stack.md:60-62,         *)
(* process.test.ts:75).                                                    *)
GroupStopped ==
    Settled /\ exit = "clean" => ~leader /\ helper \notin {"piped", "detached"}

(* The model and the effort of a run that resolves are those it asked for  *)
(* (docs/stack.md:54-55).                                                  *)
SettingsAsAsked == pc = "resolved" => observed = Asked

Contract == INSTANCE ProviderContract WITH
    outcome <- IF Settled THEN pc ELSE "running",
    timedOut <- Settled /\ exit = "timedOut",
    gone <- closed

(* The adapter keeps the promise that Attempt.tla relies on: the events in *)
(* order, the failure last and once, the process accounted for, and the    *)
(* run settles.                                                            *)
ImplementsContract == Contract!ContractSpec
=============================================================================
