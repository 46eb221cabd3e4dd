------------------------------- MODULE Lifecycle -------------------------------
(***************************************************************************)
(* The operators' commands on the attempts of one issue (Stop, Return,     *)
(* Restart, Archive and Restore), crashes, and the recovery that finishes  *)
(* commands from their last checkpoint: controlAttempt,                    *)
(* executeLifecycleCommand and recoverInterruptedAttempts of               *)
(* packages/application/src/service.ts, with the lifecycle_commands table  *)
(* of packages/state-sqlite/src/store.ts.                                  *)
(*                                                                         *)
(* A command writes several transactions between two awaits.  Nothing else *)
(* runs between them ("turn" is the command that has the event loop), but  *)
(* the process may die there, so each is a step.                           *)
(***************************************************************************)
EXTENDS Attempt, Sequences, SequencesExt

CONSTANTS
  Commands,         \* ids of lifecycle commands
  Nobody,           \* neither a command nor an attempt
  KindOf,           \* the kind of each command
  MaxDisturbances   \* bound on crashes, GitHub's failures and outside edits

Kinds == {"stop", "return", "restart", "archive", "restore"}

ASSUME LifecycleAssumption ==
  /\ Nobody \notin Commands \cup Attempts
  /\ KindOf \in [Commands -> Kinds]
  /\ MaxDisturbances \in Nat

VARIABLES
  commands,       \* lifecycle_commands
  order,          \* the unfinished commands in creation order
  noted,          \* events that carry the command's id
  sibling,        \* receipt "lifecycle:<id>": the attempt it reserved
  refused,        \* receipts "lifecycle:<id>" that refused a reservation
  origin,         \* history: the command that reserved each attempt
  run,            \* the fibers that execute commands
  turn,           \* the command whose fiber has the event loop
  service,        \* "down", "recovering" or "up"
  todo,           \* commands that recovery has still to execute
  looking,        \* attempts whose pull request recovery is looking up
  paused,         \* dispatch is paused or Codex disabled
  disturbances    \* disturbances so far

commandVars == <<commands, order, noted, sibling, refused, origin>>
serviceVars == <<service, todo, looking, paused, disturbances>>
vars == <<attemptVars, commandVars, run, turn, serviceVars>>

-----------------------------------------------------------------------------
Results == {"exited", "terminated", "uncertain"}

\* Checkpoints.  "resolved" is "process_resolved:<result>", with the result in
\* a field of its own.
Effects == {"none", "admitted", "process_interrupting", "resolved",
            "pull_request_inspecting", "pull_request_absent", "label_removing",
            "label_removed", "issue_revalidating", "issue_validated",
            "sibling_reserved", "visibility_updating", "complete"}

Consequences == {"none", "rejected", "stopped", "stop_uncertain", "returned",
                 "restarted", "archived", "restored"}

Command == [phase : {"unknown", "accepted", "executing", "final"},
            target : Attempts \cup {Nobody}, effect : Effects, result : Results,
            consequence : Consequences]

\* Where the fiber of a command is.  The first group has the event loop, the
\* second awaits GitHub or the end of an attempt's fiber.
SyncStates == {"begin", "interrupt", "unlabel", "admit", "reserved", "conclude",
               "finish"}
AwaitStates == {"reconcile", "inspecting", "claim_read", "removing",
                "revalidating"}

\* "from" is the effect the command had when its execution began.
Run == [pc : {"idle"} \cup SyncStates \cup AwaitStates, from : Effects,
        consequence : Consequences]

IdleRun == [pc |-> "idle", from |-> "none", consequence |-> "none"]

LifecycleTypeOK ==
  /\ commands \in [Commands -> Command]
  /\ order \in Seq(Commands)
  /\ noted \in [Commands -> Nat]
  /\ sibling \in [Commands -> {{}} \cup {{a} : a \in Attempts}]
  /\ refused \in SUBSET Commands
  /\ origin \in [Attempts -> Commands \cup {Nobody}]
  /\ run \in [Commands -> Run]
  /\ turn \in Commands \cup {Nobody}
  /\ turn # Nobody => run[turn].pc # "idle"
  /\ service \in {"down", "recovering", "up"}
  /\ todo \in Seq(Commands)
  /\ looking \in SUBSET Attempts
  /\ paused \in BOOLEAN
  /\ disturbances \in 0..MaxDisturbances

TypeOK == AttemptTypeOK /\ LifecycleTypeOK

Init ==
  /\ AttemptInit
  /\ commands = [c \in Commands |->
                   [phase |-> "unknown", target |-> Nobody,
                    effect |-> "none", result |-> "exited",
                    consequence |-> "none"]]
  /\ order = <<>>
  /\ noted = [c \in Commands |-> 0]
  /\ sibling = [c \in Commands |-> {}]
  /\ refused = {}
  /\ origin = [a \in Attempts |-> Nobody]
  /\ run = [c \in Commands |-> IdleRun]
  /\ turn = Nobody
  /\ service = "up"
  /\ todo = <<>>
  /\ looking = {}
  /\ paused = FALSE
  /\ disturbances = 0

Free == turn = Nobody

Disturb ==
  /\ disturbances < MaxDisturbances
  /\ disturbances' = disturbances + 1

Target(c) == commands[c].target

-----------------------------------------------------------------------------
(* Command rows *)

\* Source states that admit each kind of command.
Allowed(kind) ==
  CASE kind = "stop" -> ActiveStates
    [] kind \in {"return", "restart"} -> {"failed", "interrupted", "stopped"}
    [] OTHER -> {"completed", "failed", "interrupted", "stopped"}

\* The checks of beginLifecycleCommand, but for the attempt's version and the
\* repository's configuration.
Admissible(kind, a) ==
  /\ rows[a].state \in Allowed(kind)
  /\ rows[a].archived = (kind = "restore")
  /\ kind \in {"return", "restart"} => ~rows[a].pullRequest

\* markLifecycleCommandExecuting, after which the fiber is at "pc".
Mark(c, effect, pc) ==
  /\ commands' = [commands EXCEPT ![c].phase = "executing", ![c].effect = effect]
  /\ run' = [run EXCEPT ![c].pc = pc]

\* The fiber goes on to finishLifecycleCommand.
Concluding(c, consequence) ==
  run' = [run EXCEPT ![c].pc = "conclude", ![c].consequence = consequence]

Keep(c) == turn' = c
Release == turn' = Nobody

\* The command's fiber fails; the command keeps its checkpoint.  A failure
\* during recovery fails the start of the service, and the process ends.
Abandon(c) ==
  /\ IF service = "recovering"
       THEN /\ service' = "down"
            /\ fiber' = [a \in Attempts |-> "none"]
            /\ provider' = [a \in Attempts |-> NoPromise]
       ELSE UNCHANGED <<service, fiber, provider>>
  /\ run' = [run EXCEPT ![c] = IdleRun]
  /\ Release

-----------------------------------------------------------------------------
(* Requests *)

\* controlAttempt with a new id.  A stale version or a repository that is not
\* configured is a rejection of its own; nothing reads a rejection's target.
Begin(c, a) ==
  /\ service = "up" /\ Free
  /\ commands[c].phase = "unknown" /\ rows[a].state # "absent"
  /\ \/ /\ Admissible(KindOf[c], a)
        /\ commands' = [commands EXCEPT ![c] =
                          [@ EXCEPT !.phase = "accepted", !.target = a,
                                    !.effect = "admitted"]]
        /\ order' = Append(order, c)
        /\ run' = [run EXCEPT ![c] = [IdleRun EXCEPT !.pc = "begin",
                                                     !.from = "admitted"]]
        /\ Keep(c)
     \/ /\ commands' = [commands EXCEPT ![c] =
                          [@ EXCEPT !.phase = "final",
                                    !.consequence = "rejected"]]
        /\ UNCHANGED <<order, run, turn>>
  /\ UNCHANGED <<attemptVars, noted, sibling, refused, origin, serviceVars>>

\* The same id again, while nothing executes the command: it goes on from the
\* checkpoint.
Resend(c) ==
  /\ service = "up" /\ Free
  /\ commands[c].phase \in {"accepted", "executing"} /\ run[c].pc = "idle"
  /\ run' = [run EXCEPT ![c] = [IdleRun EXCEPT !.pc = "begin",
                                               !.from = commands[c].effect]]
  /\ Keep(c)
  /\ UNCHANGED <<attemptVars, commandVars, serviceVars>>

-----------------------------------------------------------------------------
(* Stop *)

StopResult(result) == IF result = "uncertain" THEN "stop_uncertain" ELSE "stopped"

StopBegins(c) ==
  /\ turn = c /\ run[c].pc = "begin" /\ KindOf[c] = "stop"
  /\ IF run[c].from = "resolved"
       THEN Concluding(c, StopResult(commands[c].result)) /\ UNCHANGED commands
       ELSE Mark(c, "process_interrupting", "interrupt")
  /\ Keep(c)
  /\ UNCHANGED <<attemptVars, order, noted, sibling, refused, origin, serviceVars>>

\* The attempt's fiber is interrupted and awaited, if there is one.
StopInterrupts(c) ==
  /\ turn = c /\ run[c].pc = "interrupt"
  /\ IF fiber[Target(c)] # "none" THEN Interrupt(Target(c)) /\ Release
                                  ELSE UNCHANGED <<fiber, provider>> /\ Keep(c)
  /\ run' = [run EXCEPT ![c].pc = "reconcile"]
  /\ UNCHANGED <<rows, group, posts, claimed, published, commandVars, serviceVars>>

StopReconciles(c) ==
  /\ turn \in {c, Nobody} /\ run[c].pc = "reconcile"
  /\ \E r \in Reconciled(Target(c)) :
       /\ group' = [group EXCEPT ![Target(c)] = r.left]
       /\ commands' = [commands EXCEPT ![c].effect = "resolved",
                                       ![c].result = r.result]
       /\ Concluding(c, StopResult(r.result))
  /\ Keep(c)
  /\ UNCHANGED <<rows, fiber, provider, posts, claimed, published,
                 order, noted, sibling, refused, origin, serviceVars>>

-----------------------------------------------------------------------------
(* Return *)

ReturnBegins(c) ==
  /\ turn = c /\ run[c].pc = "begin" /\ KindOf[c] = "return"
  /\ CASE run[c].from = "label_removed" ->
            Concluding(c, "returned") /\ UNCHANGED commands /\ Keep(c)
       [] run[c].from \in {"label_removing", "pull_request_absent"} ->
            Mark(c, "label_removing", "claim_read") /\ Release
       [] OTHER ->
            /\ Mark(c, "pull_request_inspecting", "inspecting")
            /\ IF rows[Target(c)].workspace THEN Release ELSE Keep(c)
  /\ UNCHANGED <<attemptVars, order, noted, sibling, refused, origin, serviceVars>>

\* Mutant of InspectionAnswers: a failed lookup counts as absence.
InspectionTrusted(c) ==
  /\ turn \in {c, Nobody} /\ run[c].pc = "inspecting"
  /\ \/ /\ Mark(c, "pull_request_absent", "unlabel")
        /\ UNCHANGED disturbances
     \/ /\ Target(c) \in published
        /\ Concluding(c, "rejected")
        /\ UNCHANGED <<commands, disturbances>>
  /\ Keep(c)
  /\ UNCHANGED <<attemptVars, order, noted, sibling, refused, origin,
                 service, todo, looking, paused>>

\* The branch's pull requests are read, unless no workspace was recorded.
InspectionAnswers(c) ==
  /\ turn \in {c, Nobody} /\ run[c].pc = "inspecting"
  /\ \/ /\ Target(c) \notin published \/ ~rows[Target(c)].workspace
        /\ Mark(c, "pull_request_absent", "unlabel")
        /\ UNCHANGED disturbances
     \/ /\ rows[Target(c)].workspace
        /\ \/ Target(c) \in published /\ UNCHANGED disturbances
           \/ Disturb
        /\ Concluding(c, "rejected")
        /\ UNCHANGED commands
  /\ Keep(c)
  /\ UNCHANGED <<attemptVars, order, noted, sibling, refused, origin,
                 service, todo, looking, paused>>

ReturnUnlabels(c) ==
  /\ turn = c /\ run[c].pc = "unlabel"
  /\ Mark(c, "label_removing", "claim_read")
  /\ Release
  /\ UNCHANGED <<attemptVars, order, noted, sibling, refused, origin, serviceVars>>

\* The label is gone: checkpoint and finish.
Unclaimed(c) ==
  /\ commands' = [commands EXCEPT ![c].effect = "label_removed"]
  /\ Concluding(c, "returned")
  /\ Keep(c)

\* inspectClaim; a label that cannot be read is removed as well.
ClaimRead(c) ==
  /\ Free /\ run[c].pc = "claim_read"
  /\ \/ /\ ~claimed
        /\ Unclaimed(c)
        /\ UNCHANGED disturbances
     \/ /\ \/ claimed /\ UNCHANGED disturbances
           \/ Disturb
        /\ run' = [run EXCEPT ![c].pc = "removing"]
        /\ UNCHANGED <<commands, turn>>
  /\ UNCHANGED <<attemptVars, order, noted, sibling, refused, origin,
                 service, todo, looking, paused>>

\* removeClaim sends its request...
RemovalLands(c) ==
  /\ Free /\ run[c].pc = "removing" /\ claimed
  /\ claimed' = FALSE
  /\ UNCHANGED <<rows, fiber, provider, group, posts, published,
                 commandVars, run, turn, serviceVars>>

\* ... and reads the label again.
RemovalAnswers(c) ==
  /\ Free /\ run[c].pc = "removing"
  /\ \/ /\ ~claimed
        /\ Unclaimed(c)
        /\ UNCHANGED disturbances
     \/ /\ Disturb
        /\ Concluding(c, "rejected")
        /\ Keep(c)
        /\ UNCHANGED commands
  /\ UNCHANGED <<attemptVars, order, noted, sibling, refused, origin,
                 service, todo, looking, paused>>

-----------------------------------------------------------------------------
(* Restart *)

\* Mutant of RestartBegins: the receipt is not looked up.
RestartBeginsAnew(c) ==
  /\ turn = c /\ run[c].pc = "begin" /\ KindOf[c] = "restart"
  /\ Mark(c, "issue_revalidating", "revalidating") /\ Release
  /\ UNCHANGED <<attemptVars, order, noted, sibling, refused, origin, serviceVars>>

\* The receipt of an earlier execution decides.
RestartBegins(c) ==
  /\ turn = c /\ run[c].pc = "begin" /\ KindOf[c] = "restart"
  /\ CASE sibling[c] # {} -> Mark(c, "sibling_reserved", "reserved") /\ Keep(c)
       [] c \in refused ->
            Concluding(c, "rejected") /\ UNCHANGED commands /\ Keep(c)
       [] OTHER -> Mark(c, "issue_revalidating", "revalidating") /\ Release
  /\ UNCHANGED <<attemptVars, order, noted, sibling, refused, origin, serviceVars>>

\* revalidateClaimedIssue wants an issue that is still claimed.
ClaimedRevalidated(c) ==
  /\ Free /\ run[c].pc = "revalidating"
  /\ \/ /\ claimed
        /\ Mark(c, "issue_validated", "admit")
        /\ UNCHANGED disturbances
     \/ /\ \/ ~claimed /\ UNCHANGED disturbances
           \/ Disturb
        /\ Concluding(c, "rejected")
        /\ UNCHANGED commands
  /\ Keep(c)
  /\ UNCHANGED <<attemptVars, order, noted, sibling, refused, origin,
                 service, todo, looking, paused>>

\* admit: an error while dispatch is paused, a refusal when the issue has an
\* active attempt or every slot is taken, or a new attempt.
RestartAdmits(c) ==
  /\ turn = c /\ run[c].pc = "admit"
  /\ \/ /\ paused
        /\ Abandon(c)
        /\ UNCHANGED <<rows, sibling, refused, origin>>
     \/ /\ ~paused
        /\ refused' = refused \cup {c}
        /\ Concluding(c, "rejected")
        /\ Keep(c)
        /\ UNCHANGED <<rows, fiber, provider, sibling, origin, service>>
     \/ /\ ~paused /\ \A a \in Attempts : ~Active(a)
        /\ \E a \in Absent :
             /\ Write(a, ReservedRow)
             /\ sibling' = [sibling EXCEPT ![c] = {a}]
             /\ origin' = [origin EXCEPT ![a] = c]
        /\ run' = [run EXCEPT ![c].pc = "reserved"]
        /\ Keep(c)
        /\ UNCHANGED <<fiber, provider, refused, service>>
  /\ UNCHANGED <<group, posts, claimed, published, commands, order, noted,
                 todo, looking, paused, disturbances>>

\* The sibling's fiber is forked, whatever has become of its row.
RestartForks(c) ==
  /\ turn = c /\ run[c].pc = "reserved"
  /\ \E a \in sibling[c] : Fork(a)
  /\ commands' = [commands EXCEPT ![c].effect = "sibling_reserved"]
  /\ Concluding(c, "restarted")
  /\ Keep(c)
  /\ UNCHANGED <<rows, provider, group, posts, claimed, published,
                 order, noted, sibling, refused, origin, serviceVars>>

-----------------------------------------------------------------------------
(* Archive and Restore; the end of every command *)

VisibilityBegins(c) ==
  /\ turn = c /\ run[c].pc = "begin" /\ KindOf[c] \in {"archive", "restore"}
  /\ commands' = [commands EXCEPT ![c].phase = "executing",
                                  ![c].effect = "visibility_updating"]
  /\ Concluding(c, IF KindOf[c] = "archive" THEN "archived" ELSE "restored")
  /\ Keep(c)
  /\ UNCHANGED <<attemptVars, order, noted, sibling, refused, origin, serviceVars>>

\* What a consequence does to the target's row.
Consequent(row, consequence) ==
  CASE consequence = "stopped" -> [row EXCEPT !.state = "stopped",
                                              !.process = FALSE,
                                              !.pending = FALSE]
    [] consequence = "stop_uncertain" -> [row EXCEPT !.state = "stop_uncertain"]
    [] consequence = "archived" -> [row EXCEPT !.archived = TRUE]
    [] consequence = "restored" -> [row EXCEPT !.archived = FALSE]
    [] OTHER -> row

\* Mutant of NoteNeeded: the event is appended without a look.
NoteAlways(c) == run[c].consequence # "rejected"

\* The event is appended unless one with this command's id is there.
NoteNeeded(c) == run[c].consequence # "rejected" /\ noted[c] = 0

\* finishLifecycleCommand, first transaction.
Conclude(c) ==
  LET row == Consequent(rows[Target(c)], run[c].consequence) IN
  /\ turn = c /\ run[c].pc = "conclude"
  /\ \/ /\ NoteNeeded(c) /\ Writable(Target(c), row)
        /\ Write(Target(c), row)
        /\ noted' = [noted EXCEPT ![c] = @ + 1]
        /\ run' = [run EXCEPT ![c].pc = "finish"]
        /\ Keep(c)
        /\ UNCHANGED <<fiber, provider, service>>
     \/ /\ NoteNeeded(c) /\ ~Writable(Target(c), row)
        /\ Abandon(c)
        /\ UNCHANGED <<rows, noted>>
     \/ /\ ~NoteNeeded(c)
        /\ run' = [run EXCEPT ![c].pc = "finish"]
        /\ Keep(c)
        /\ UNCHANGED <<rows, fiber, provider, noted, service>>
  /\ UNCHANGED <<group, posts, claimed, published, commands, order,
                 sibling, refused, origin, todo, looking, paused, disturbances>>

\* Where a command stands among the unfinished ones.
Position(c) == CHOOSE n \in DOMAIN order : order[n] = c

\* Mutant of Finish: the fiber never ends.
FinishHolding(c) ==
  /\ turn = c /\ run[c].pc = "finish"
  /\ commands' = [commands EXCEPT ![c].phase = "final", ![c].effect = "complete",
                                  ![c].consequence = run[c].consequence]
  /\ order' = RemoveAt(order, Position(c))
  /\ run' = [run EXCEPT ![c] = IdleRun]
  /\ UNCHANGED <<turn, attemptVars, noted, sibling, refused, origin, serviceVars>>

\* finishLifecycleCommand, second transaction.
Finish(c) ==
  /\ turn = c /\ run[c].pc = "finish"
  /\ commands' = [commands EXCEPT ![c].phase = "final", ![c].effect = "complete",
                                  ![c].consequence = run[c].consequence]
  /\ order' = RemoveAt(order, Position(c))
  /\ run' = [run EXCEPT ![c] = IdleRun]
  /\ Release
  /\ UNCHANGED <<attemptVars, noted, sibling, refused, origin, serviceVars>>

CommandStep(c) ==
  \/ StopBegins(c) \/ StopInterrupts(c) \/ StopReconciles(c)
  \/ ReturnBegins(c) \/ InspectionAnswers(c) \/ ReturnUnlabels(c)
  \/ ClaimRead(c) \/ RemovalAnswers(c)
  \/ RestartBegins(c) \/ ClaimedRevalidated(c) \/ RestartAdmits(c)
  \/ RestartForks(c)
  \/ VisibilityBegins(c) \/ Conclude(c) \/ Finish(c)

-----------------------------------------------------------------------------
(* Crashes and recovery *)

\* The process dies, perhaps between the spawn of a provider and the record
\* of its identity.
Crash(spawned) ==
  /\ service # "down" /\ Disturb
  /\ spawned \subseteq {a \in Attempts : provider[a].pc = "preparing"
                                          /\ ~provider[a].aborted}
  /\ service' = "down"
  /\ fiber' = [a \in Attempts |-> "none"]
  /\ provider' = [a \in Attempts |-> NoPromise]
  /\ group' = [a \in Attempts |-> IF a \in spawned THEN "leader" ELSE group[a]]
  /\ run' = [c \in Commands |-> IdleRun]
  /\ todo' = <<>>
  /\ looking' = {}
  /\ Release
  /\ UNCHANGED <<rows, posts, claimed, published, commandVars, paused>>

\* The row of an active attempt after interruptUnfinished.
Interrupted(row, result) ==
  [row EXCEPT !.state =
     IF result # "uncertain" THEN "interrupted"
     ELSE IF row.state = "stop_uncertain" THEN "stop_uncertain"
     ELSE "ownership_uncertain"]

\* Mutant of Unfinished: only the commands that have not begun.
UnfinishedAccepted == SelectSeq(order, LAMBDA c : commands[c].phase = "accepted")

\* unfinishedLifecycleCommands
Unfinished == order

\* The store opens.  At most one attempt of the issue is active.
Open ==
  /\ service = "down"
  /\ service' = "recovering"
  /\ todo' = Unfinished
  /\ \/ /\ \A a \in Attempts : ~Active(a)
        /\ UNCHANGED <<rows, group>>
     \/ \E a \in Attempts : \E r \in Reconciled(a) :
          /\ Active(a)
          /\ Write(a, Interrupted(rows[a], r.result))
          /\ group' = [group EXCEPT ![a] = r.left]
  /\ UNCHANGED <<fiber, provider, posts, claimed, published, commandVars, run,
                 turn, looking, paused, disturbances>>

Recovering ==
  /\ service = "recovering" /\ looking = {}
  /\ \A c \in Commands : run[c].pc = "idle"

\* Recovery executes the next unfinished command and waits for it.
RecoverNext ==
  /\ Recovering /\ todo # <<>>
  /\ todo' = Tail(todo)
  /\ run' = [run EXCEPT ![Head(todo)] = [IdleRun EXCEPT
               !.pc = "begin", !.from = commands[Head(todo)].effect]]
  /\ Keep(Head(todo))
  /\ UNCHANGED <<attemptVars, commandVars, service, looking, paused, disturbances>>

Lookups(stage) ==
  {a \in Attempts : rows[a].state = "interrupted" /\ rows[a].lookup = stage}

\* Then pull requests of interrupted attempts are looked up, once each.  A
\* lookup that a crash cut off stays unknown.
LookupForgotten(a) ==
  /\ Recovering /\ todo = <<>>
  /\ a \in Lookups("started")
  /\ Write(a, [rows[a] EXCEPT !.lookup = "reconciled"])
  /\ UNCHANGED <<fiber, provider, group, posts, claimed, published,
                 commandVars, run, turn, serviceVars>>

LookupStarts(a) ==
  /\ Recovering /\ todo = <<>> /\ Lookups("started") = {}
  /\ a \in Lookups("none") /\ rows[a].workspace /\ ~rows[a].pullRequest
  /\ Write(a, [rows[a] EXCEPT !.lookup = "started"])
  /\ looking' = {a}
  /\ UNCHANGED <<fiber, provider, group, posts, claimed, published,
                 commandVars, run, turn, service, todo, paused, disturbances>>

LookupAnswers(a) ==
  /\ Free /\ a \in looking
  /\ \E found \in BOOLEAN :
       /\ found => a \in published
       /\ Write(a, [rows[a] EXCEPT !.lookup = "reconciled",
                                   !.pullRequest = @ \/ found])
  /\ looking' = {}
  /\ UNCHANGED <<fiber, provider, group, posts, claimed, published,
                 commandVars, run, turn, service, todo, paused, disturbances>>

Serve ==
  /\ Recovering /\ todo = <<>> /\ Lookups("started") = {}
  /\ \A a \in Lookups("none") : ~rows[a].workspace \/ rows[a].pullRequest
  /\ service' = "up"
  /\ UNCHANGED <<attemptVars, commandVars, run, turn, todo, looking, paused, disturbances>>

RecoveryStep ==
  \/ Open \/ RecoverNext \/ Serve
  \/ \E a \in Attempts : LookupForgotten(a) \/ LookupStarts(a) \/ LookupAnswers(a)

-----------------------------------------------------------------------------
(* Everything else *)

\* Dispatch, or a manual start, reserves an attempt of an unclaimed issue.
Admit(a) ==
  /\ service = "up" /\ Free
  /\ ~claimed /\ ~paused /\ a \in Absent /\ \A b \in Attempts : ~Active(b)
  /\ Write(a, ReservedRow)
  /\ Fork(a)
  /\ UNCHANGED <<provider, group, posts, claimed, published, commandVars, run,
                 turn, serviceVars>>

SetControls ==
  /\ service = "up" /\ Free
  /\ paused' = ~paused
  /\ UNCHANGED <<attemptVars, commandVars, run, turn, service, todo, looking, disturbances>>

RevalidationDisturbed(a) ==
  /\ Free /\ Disturb
  /\ RevalidationFails(a)
  /\ UNCHANGED <<commandVars, run, turn, service, todo, looking, paused>>

\* Somebody adds or removes the label.
EditLabel ==
  /\ Disturb
  /\ claimed' = ~claimed
  /\ UNCHANGED <<rows, fiber, provider, group, posts, published, commandVars,
                 run, turn, service, todo, looking, paused>>

AttemptStep(a) ==
  /\ Free
  /\ FiberStep(a) \/ ProviderStep(a)
  /\ UNCHANGED <<commandVars, run, turn, serviceVars>>

OutsideStep(a) ==
  /\ WorldStep(a)
  /\ UNCHANGED <<commandVars, run, turn, serviceVars>>

Next ==
  \/ \E c \in Commands :
       \/ \E a \in Attempts : Begin(c, a)
       \/ Resend(c) \/ CommandStep(c) \/ RemovalLands(c)
  \/ \E a \in Attempts :
       \/ AttemptStep(a) \/ OutsideStep(a) \/ Admit(a)
       \/ RevalidationDisturbed(a)
  \/ RecoveryStep
  \/ SetControls \/ EditLabel
  \/ \E spawned \in SUBSET Attempts : Crash(spawned)

Spec == Init /\ [][Next]_vars

\* Awaited answers arrive, GitHub's requests have time limits, and whoever
\* runs the service starts it again when it is down.
Fairness ==
  /\ WF_vars(RecoveryStep)
  /\ \A c \in Commands : WF_vars(CommandStep(c)) /\ WF_vars(RemovalLands(c))

FairSpec == Spec /\ Fairness

-----------------------------------------------------------------------------
(* Properties *)

\* docs/decisions/operator-product.md: "If process ownership cannot be
\* established, the attempt remains blocked and continues to consume
\* capacity."  A provider's process never runs without its slot, whatever
\* crashes, stops and late writes happen.
ProcessHoldsSlot == \A a \in Attempts : group[a] = "leader" => Active(a)

\* "Stop waits for confirmed provider-process exit": nothing is left of the
\* group of a stopped attempt.
StoppedIsGone == \A a \in Attempts : rows[a].state = "stopped" => group[a] = "none"

\* The consequence of a command is recorded once, although the event and the
\* final phase are two transactions with a crash between them.
ConsequenceOnce == \A c \in Commands : noted[c] <= 1

\* A Restart reserves at most one sibling, however often it is executed.
OneSiblingPerRestart ==
  \A c \in Commands : Cardinality({a \in Attempts : origin[a] = c}) <= 1

\* A Return that succeeded found no pull request of the attempt, and none
\* appeared afterwards: its provider was gone before the lookup.  Only a failed
\* attempt may have left members of its group behind, and only the sibling of a
\* Restart may be taken up again after it was interrupted.
ReturnedHasNoPullRequest ==
  \A c \in Commands :
    /\ commands[c].consequence = "returned"
    /\ origin[Target(c)] = Nobody
    /\ MembersSurvive => rows[Target(c)].state # "failed"
    => Target(c) \notin published

\* An accepted command becomes final, through crashes and whatever fails.
CommandsFinish ==
  \A c \in Commands :
    commands[c].phase = "accepted" ~> commands[c].phase = "final"

\* "Return or Restart becomes available after stopped": a stopped attempt
\* never becomes active again.
StoppedStays ==
  [][\A a \in Attempts : rows[a].state = "stopped" => rows'[a].state = "stopped"
    ]_vars

\* docs/operator.md: startup "also completes unfinished Stop, Return, Restart,
\* Archive, and Restore commands".  A service that is down comes up.
StartupCompletes == service = "down" ~> service = "up"
=============================================================================
