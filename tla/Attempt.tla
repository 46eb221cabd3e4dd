-------------------------------- MODULE Attempt --------------------------------
(***************************************************************************)
(* The attempts of one issue: the fiber that processes an attempt          *)
(* (processAssignment in packages/application/src/service.ts), the Codex   *)
(* provider it waits for (packages/codex/src/provider.ts), the operating   *)
(* system's process group, and the attempt's row in the store.             *)
(*                                                                         *)
(* The provider is a promise: interrupting the fiber aborts it, but does   *)
(* not wait for it, so it may go on and still write to the row.  Each      *)
(* action below runs from one await to the next.  GitHub is external: the  *)
(* issue is either claimed or free, and anything else that may keep it     *)
(* from being started makes a revalidation fail.                           *)
(***************************************************************************)
EXTENDS Naturals, FiniteSets

CONSTANTS
  Attempts,         \* attempts that may be made of the issue
  MembersSurvive    \* may a process outlive the leader of its group?

ASSUME AttemptAssumption ==
  /\ IsFiniteSet(Attempts)
  /\ MembersSurvive \in BOOLEAN

VARIABLES
  rows,           \* assignments
  fiber,          \* where the fiber of each attempt waits
  provider,       \* the provider's promise
  group,          \* the provider's process group
  posts,          \* attempts whose claim request may still reach GitHub
  claimed,        \* GitHub: the issue has the claimed label
  published       \* GitHub: attempts whose branch has a pull request

attemptVars == <<rows, fiber, provider, group, posts, claimed, published>>

-----------------------------------------------------------------------------
ActiveStates == {"reserved", "starting", "running", "stop_uncertain",
                 "ownership_uncertain"}

States == ActiveStates \cup {"completed", "failed", "interrupted", "stopped"}

\* "process" says that a process group and its start identity are stored,
\* "lookup" how far the recovery's pull request lookup got.
Row == [state : States \cup {"absent"}, process : BOOLEAN, pending : BOOLEAN,
        workspace : BOOLEAN, pullRequest : BOOLEAN, archived : BOOLEAN,
        lookup : {"none", "started", "reconciled"}]

AbsentRow == [state |-> "absent", process |-> FALSE, pending |-> FALSE,
              workspace |-> FALSE, pullRequest |-> FALSE, archived |-> FALSE,
              lookup |-> "none"]

ReservedRow == [AbsentRow EXCEPT !.state = "reserved"]

\* At "claim" the fiber waits for claimIssue, at "claimed" the label was seen.
FiberStates == {"none", "revalidate", "claim", "claimed", "workspace",
                "provider", "verify"}

\* "ok" says that the turn completed, "timedOut" that the cleanup did not.
Promise == [pc : {"none", "preparing", "running", "cleaning", "resolved",
                  "rejected"},
            aborted : BOOLEAN, ok : BOOLEAN, timedOut : BOOLEAN]

NoPromise == [pc |-> "none", aborted |-> FALSE, ok |-> FALSE, timedOut |-> FALSE]

\* A group loses its leader before its last member: "orphans".
Groups == {"none", "leader", "orphans"}

AttemptTypeOK ==
  /\ rows \in [Attempts -> Row]
  /\ fiber \in [Attempts -> FiberStates]
  /\ provider \in [Attempts -> Promise]
  /\ group \in [Attempts -> Groups]
  /\ posts \in SUBSET Attempts
  /\ claimed \in BOOLEAN
  /\ published \in SUBSET Attempts

AttemptInit ==
  /\ rows = [a \in Attempts |-> AbsentRow]
  /\ fiber = [a \in Attempts |-> "none"]
  /\ provider = [a \in Attempts |-> NoPromise]
  /\ group = [a \in Attempts |-> "none"]
  /\ posts = {}
  /\ claimed = FALSE
  /\ published = {}

Active(a) == rows[a].state \in ActiveStates

Absent == {a \in Attempts : rows[a].state = "absent"}

\* appendEvent writes the patched row whatever the row was.  Only the unique
\* index on the active attempts of an issue makes a write fail.
Writable(a, row) ==
  row.state \in ActiveStates => \A b \in Attempts \ {a} : ~Active(b)

Write(a, row) == rows' = [rows EXCEPT ![a] = row]

-----------------------------------------------------------------------------
(* The fiber: processAssignment *)

At(a, pc) == fiber[a] = pc

\* An admission, or the recovery of a Restart, forks the fiber.
Fork(a) == fiber' = [fiber EXCEPT ![a] = "revalidate"]

OwnershipUncertain(a, code) ==
  \/ rows[a].state = "ownership_uncertain"
  \/ code = "cleanup_timeout"
  \/ rows[a].pending /\ code = "process_identity_changed"

FailedRow(a, code) ==
  IF OwnershipUncertain(a, code)
    THEN [rows[a] EXCEPT !.state = "ownership_uncertain"]
    ELSE [rows[a] EXCEPT !.state = "failed", !.pending = FALSE]

\* The fiber's catchAll.  A failure of its own write is dropped.
CatchAll(a, code) ==
  /\ fiber' = [fiber EXCEPT ![a] = "none"]
  /\ IF Writable(a, FailedRow(a, code)) THEN Write(a, FailedRow(a, code))
                                        ELSE UNCHANGED rows

\* revalidateIssue answers.  Discovery leaves a claimed issue out.
Revalidated(a) ==
  /\ At(a, "revalidate")
  /\ \/ /\ ~claimed
        /\ fiber' = [fiber EXCEPT ![a] = "claim"]
        /\ posts' = posts \cup {a}
        /\ UNCHANGED rows
     \/ /\ claimed
        /\ CatchAll(a, "issue_ineligible")
        /\ UNCHANGED posts
  /\ UNCHANGED <<provider, group, claimed, published>>

\* GitHub fails, or something else about the issue changed.
RevalidationFails(a) ==
  /\ At(a, "revalidate")
  /\ CatchAll(a, "issue_ineligible")
  /\ UNCHANGED <<provider, group, posts, claimed, published>>

\* GitHub adds the label; the fiber may be gone by then.
ClaimLands(a) ==
  /\ a \in posts
  /\ posts' = posts \ {a}
  /\ claimed' = TRUE
  /\ fiber' = [fiber EXCEPT ![a] = IF @ = "claim" THEN "claimed" ELSE @]
  /\ UNCHANGED <<rows, provider, group, published>>

\* The request fails and the label, somebody else's, is read.
ClaimRecognised(a) ==
  /\ At(a, "claim") /\ claimed
  /\ fiber' = [fiber EXCEPT ![a] = "claimed"]
  /\ UNCHANGED <<rows, provider, group, posts, claimed, published>>

\* claimIssue answers "confirmed".
ClaimConfirmed(a) ==
  LET row == [rows[a] EXCEPT !.state = "starting"] IN
  /\ At(a, "claimed")
  /\ IF Writable(a, row)
       THEN Write(a, row) /\ fiber' = [fiber EXCEPT ![a] = "workspace"]
       ELSE CatchAll(a, "state_store_failed")
  /\ UNCHANGED <<provider, group, posts, claimed, published>>

\* claimIssue answers "unclaimed" or "unknown".  The request may still land.
ClaimNotConfirmed(a) ==
  /\ At(a, "claim") \/ At(a, "claimed")
  /\ posts' \in {posts, posts \ {a}}
  /\ Write(a, [rows[a] EXCEPT !.state = "failed"])
  /\ fiber' = [fiber EXCEPT ![a] = "none"]
  /\ UNCHANGED <<provider, group, claimed, published>>

\* workspaces.create answers; provider.run begins.
WorkspaceCreated(a) ==
  /\ At(a, "workspace")
  /\ Write(a, [rows[a] EXCEPT !.workspace = TRUE, !.pending = TRUE])
  /\ fiber' = [fiber EXCEPT ![a] = "provider"]
  /\ provider' = [provider EXCEPT ![a] = [NoPromise EXCEPT !.pc = "preparing"]]
  /\ UNCHANGED <<group, posts, claimed, published>>

WorkspaceFails(a) ==
  /\ At(a, "workspace")
  /\ CatchAll(a, "workspace_failed")
  /\ UNCHANGED <<provider, group, posts, claimed, published>>

\* The fiber continues with what the provider's promise came to.
ProviderAnswers(a) ==
  /\ At(a, "provider")
  /\ \/ /\ provider[a].pc = "resolved"
        /\ Write(a, [rows[a] EXCEPT !.pending = FALSE])
        /\ fiber' = [fiber EXCEPT ![a] = "verify"]
     \/ /\ provider[a].pc = "rejected"
        /\ CatchAll(a, IF provider[a].timedOut THEN "cleanup_timeout"
                                               ELSE "provider_failed")
  /\ provider' = [provider EXCEPT ![a] = NoPromise]
  /\ UNCHANGED <<group, posts, claimed, published>>

\* verifyPullRequest finds exactly one pull request.
Completed(a) ==
  /\ At(a, "verify") /\ a \in published
  /\ Write(a, [rows[a] EXCEPT !.state = "completed", !.pullRequest = TRUE])
  /\ fiber' = [fiber EXCEPT ![a] = "none"]
  /\ UNCHANGED <<provider, group, posts, claimed, published>>

VerificationFails(a) ==
  /\ At(a, "verify")
  /\ CatchAll(a, "pull_request_unverified")
  /\ UNCHANGED <<provider, group, posts, claimed, published>>

\* Fiber.interrupt: the fiber ends without its catchAll, and the signal of
\* the promise it waits for is aborted.
Interrupt(a) ==
  /\ fiber' = [fiber EXCEPT ![a] = "none"]
  /\ provider' = [provider EXCEPT ![a] =
                    IF @.pc \in {"none", "resolved", "rejected"}
                      THEN NoPromise ELSE [@ EXCEPT !.aborted = TRUE]]

-----------------------------------------------------------------------------
(* The provider: run *)

\* prepareCodex is done.  Spawning the process and recording its identity
\* is one synchronous step.
ProcessStarts(a) ==
  /\ provider[a].pc = "preparing"
  /\ IF provider[a].aborted
       THEN /\ provider' = [provider EXCEPT ![a] = NoPromise]
            /\ UNCHANGED <<rows, group>>
       ELSE /\ provider' = [provider EXCEPT ![a].pc = "running"]
            /\ group' = [group EXCEPT ![a] = "leader"]
            /\ Write(a, [rows[a] EXCEPT !.process = TRUE, !.pending = FALSE])
  /\ UNCHANGED <<fiber, posts, claimed, published>>

\* The version or schema command fails, perhaps without a confirmed cleanup.
PreparationFails(a) ==
  /\ provider[a].pc = "preparing"
  /\ \E timedOut \in BOOLEAN :
       provider' = [provider EXCEPT ![a] =
                      IF @.aborted THEN NoPromise
                      ELSE [@ EXCEPT !.pc = "rejected", !.timedOut = timedOut]]
  /\ UNCHANGED <<rows, fiber, group, posts, claimed, published>>

\* The process was spawned but its start identity could not be read.
IdentityUnreadable(a) ==
  /\ At(a, "provider") /\ provider[a].pc = "preparing" /\ ~provider[a].aborted
  /\ group' \in {group, [group EXCEPT ![a] = "leader"]}
  /\ provider' = [provider EXCEPT ![a] = NoPromise]
  /\ CatchAll(a, "process_identity_changed")
  /\ UNCHANGED <<posts, claimed, published>>

\* Codex answered thread/start.
ThreadStarts(a) ==
  /\ provider[a].pc = "running" /\ ~provider[a].aborted
  /\ rows[a].state # "running"
  /\ Write(a, [rows[a] EXCEPT !.state = "running"])
  /\ UNCHANGED <<fiber, provider, group, posts, claimed, published>>

\* The turn completes, or anything fails; cleanup of the process group begins.
TurnEnds(a) ==
  /\ provider[a].pc = "running"
  /\ \E ok \in BOOLEAN :
       /\ ok => ~provider[a].aborted /\ rows[a].state = "running"
       /\ provider' = [provider EXCEPT ![a].pc = "cleaning", ![a].ok = ok]
  /\ UNCHANGED <<rows, fiber, group, posts, claimed, published>>

\* What terminateOwnedGroup leaves: it signals the group only while the
\* leader lives, and waits for the leader.
Terminated(a) ==
  IF group[a] = "leader"
    THEN IF MembersSurvive THEN {"none", "orphans"} ELSE {"none"}
    ELSE {group[a]}

\* An aborted promise has no fiber to answer.
Answer(a, pc, timedOut) ==
  provider' = [provider EXCEPT ![a] =
                 IF @.aborted THEN NoPromise
                              ELSE [@ EXCEPT !.pc = pc, !.timedOut = timedOut]]

CleanedUp(a) ==
  /\ provider[a].pc = "cleaning"
  /\ \E left \in Terminated(a) : group' = [group EXCEPT ![a] = left]
  /\ \E pc \in {"resolved", "rejected"} :
       /\ pc = "resolved" => provider[a].ok
       /\ Answer(a, pc, FALSE)
  /\ UNCHANGED <<rows, fiber, posts, claimed, published>>

\* The deadline passed before the exit was seen, perhaps because a process
\* outside the group holds the pipes, or because the reconciliation of a Stop
\* blocked the service.  The event it emits takes the attempt into
\* ownership_uncertain; a failed write is dropped.
CleanupTimesOut(a) ==
  LET row == [rows[a] EXCEPT !.state = "ownership_uncertain"] IN
  /\ provider[a].pc = "cleaning"
  /\ IF Writable(a, row) THEN Write(a, row) ELSE UNCHANGED rows
  /\ Answer(a, "rejected", TRUE)
  /\ UNCHANGED <<fiber, group, posts, claimed, published>>

-----------------------------------------------------------------------------
(* The process group *)

LeaderExits(a) ==
  /\ group[a] = "leader"
  /\ \E left \in Terminated(a) : group' = [group EXCEPT ![a] = left]
  /\ UNCHANGED <<rows, fiber, provider, posts, claimed, published>>

MembersExit(a) ==
  /\ group[a] = "orphans"
  /\ group' = [group EXCEPT ![a] = "none"]
  /\ UNCHANGED <<rows, fiber, provider, posts, claimed, published>>

\* Codex pushes its branch and opens a pull request.
Publish(a) ==
  /\ group[a] # "none" /\ rows[a].workspace
  /\ published' = published \cup {a}
  /\ UNCHANGED <<rows, fiber, provider, group, posts, claimed>>

\* A live leader is signalled together with its group.
Signalled(a) ==
  {[result |-> "terminated", left |-> "none"]} \cup
  {[result |-> "uncertain", left |-> l] :
     l \in {"leader"} \cup (Terminated(a) \ {"none"})}

\* Mutant of Reconciled: an attempt without a stored process has none.
ReconciledByIdentity(a) ==
  IF ~rows[a].process THEN {[result |-> "exited", left |-> group[a]]}
  ELSE IF group[a] = "leader" THEN Signalled(a)
  ELSE {[result |-> IF group[a] = "none" THEN "exited" ELSE "uncertain",
         left |-> group[a]]}

\* Mutant of Reconciled: only the leader of the group is looked for.
ReconciledByLeader(a) ==
  IF ~rows[a].process
    THEN {[result |-> IF rows[a].pending THEN "uncertain" ELSE "exited",
           left |-> group[a]]}
  ELSE IF group[a] = "leader" THEN Signalled(a)
  ELSE {[result |-> "exited", left |-> group[a]]}

\* reconcileAttemptProcess and reconcileStoredProcess: what they may report and
\* what they leave of the group.  They block the whole service meanwhile.
Reconciled(a) ==
  IF ~rows[a].process
    THEN {[result |-> IF rows[a].pending THEN "uncertain" ELSE "exited",
           left |-> group[a]]}
  ELSE IF group[a] = "leader" THEN Signalled(a)
  ELSE {[result |-> IF group[a] = "none" THEN "exited" ELSE "uncertain",
         left |-> group[a]]}

-----------------------------------------------------------------------------
FiberStep(a) ==
  \/ Revalidated(a) \/ ClaimRecognised(a) \/ ClaimConfirmed(a)
  \/ ClaimNotConfirmed(a)
  \/ WorkspaceCreated(a) \/ WorkspaceFails(a) \/ ProviderAnswers(a)
  \/ Completed(a) \/ VerificationFails(a)

ProviderStep(a) ==
  \/ ProcessStarts(a) \/ PreparationFails(a) \/ IdentityUnreadable(a)
  \/ ThreadStarts(a) \/ TurnEnds(a) \/ CleanedUp(a) \/ CleanupTimesOut(a)

\* What happens outside the service.
WorldStep(a) ==
  ClaimLands(a) \/ LeaderExits(a) \/ MembersExit(a) \/ Publish(a)
=============================================================================
