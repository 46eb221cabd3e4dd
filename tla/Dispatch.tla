------------------------------- MODULE Dispatch -------------------------------
(***************************************************************************)
(* Automatic and manual starts: the poller, the dispatch loops and the     *)
(* operators' commands of packages/application/src/service.ts, working on  *)
(* the tables of QueueStore.                                               *)
(*                                                                         *)
(* The service is one JavaScript process.  Code between two awaits runs    *)
(* alone, so the steps here are: one GitHub answer, or one store           *)
(* transaction with the code around it.  Whatever a fiber read before an   *)
(* await is a local value in its record (the poller's "seen", a loop's     *)
(* "queue", a client's "candidates") and may be stale when it is used.     *)
(*                                                                         *)
(* GitHub is external.  An issue is "eligible" when discovery would return *)
(* it, and "head" is the default-branch commit, which pins the workflow.   *)
(***************************************************************************)
EXTENDS QueueStore

CONSTANTS
  Poller,         \* the polling fiber's dispatch loop
  Resumers,       \* dispatch loops that resume and enable requests run
  Clients,        \* requests for a manual start that may be under way at once
  KindOf,         \* how each command starts an issue
  FetchLimit,     \* rows one read of the queue returns
  MaxDisturbances \* bound on what the environment does to the service

Loops == {Poller} \cup Resumers

ASSUME DispatchAssumption ==
  /\ Poller \notin Resumers
  /\ KindOf \in [Commands -> Kinds \ {"automatic"}]
  /\ FetchLimit \in Nat \ {0}
  /\ MaxDisturbances \in Nat

VARIABLES
  eligible,       \* GitHub: would discovery return the issue?
  head,           \* GitHub: default-branch commit of each repository
  configured,     \* repositories of the running configuration
  poll,           \* the poller's observation round
  loop,           \* the dispatch loops
  client,         \* requests for a manual start
  disturbances    \* disturbances so far

worldVars == <<eligible, head>>
vars == <<attempts, tenures, status, receipts, paused, codexEnabled,
          eligible, head, configured, poll, loop, client, disturbances>>

-----------------------------------------------------------------------------
(* Local state of the fibers *)

Unread == [state |-> "unread"]
Observed(issues, commit) ==
  [state |-> "observed", issues |-> issues, commit |-> commit]
Done == [state |-> "done"]

Answer == {Unread, Done} \cup
          [state : {"observed"}, issues : SUBSET Issues, commit : Nat]

\* A row of getDispatchableQueue as the loop holds it.
Entry == [issue : Issues, tenure : 1..MaxTenures, since : Nat, commit : Nat]

LoopStates == {"idle", "controls", "fetch", "revalidate", "mark", "admit",
               "reject"}

IdleLoop == [pc |-> "idle", queue |-> {}]
IdleClient == [pc |-> "idle"]
NoPoll == [pc |-> "sleeping", since |-> 0,
           seen |-> [r \in Repositories |-> Done]]

Busy == [pc : {"busy"}, command : Commands, wanted : SUBSET Issues,
         unread : SUBSET Repositories, candidates : SUBSET Issues]

DispatchTypeOK ==
  /\ eligible \in [Issues -> BOOLEAN]
  /\ head \in [Repositories -> Nat]
  /\ configured \in SUBSET Repositories
  /\ poll \in [pc : {"sleeping", "observing"}, since : Nat,
               seen : [Repositories -> Answer]]
  /\ loop \in [Loops -> [pc : LoopStates, queue : SUBSET Entry]]
  /\ client \in [Clients -> {IdleClient} \cup Busy]
  /\ disturbances \in 0..MaxDisturbances

TypeOK == StoreTypeOK /\ DispatchTypeOK

Init ==
  /\ StoreInit
  /\ eligible \in [Issues -> BOOLEAN]
  /\ head = [r \in Repositories |-> 0]
  /\ configured = Repositories
  /\ poll = NoPoll
  /\ loop = [l \in Loops |-> IdleLoop]
  /\ client = [c \in Clients |-> IdleClient]
  /\ disturbances = 0

Disturb ==
  /\ disturbances < MaxDisturbances
  /\ disturbances' = disturbances + 1

Calm == UNCHANGED disturbances

-----------------------------------------------------------------------------
(* Polling: observeRepositories, then a dispatch loop *)

\* eligible_since is the wall-clock time at which a poll began.  Only the
\* order of the times of the recorded tenures matters, so the time advances
\* when the last one has been used.
PollTime ==
  IF \E i \in Issues : \E k \in 1..Len(tenures[i]) :
       tenures[i][k].since = poll.since
    THEN poll.since + 1 ELSE poll.since

PollBegins ==
  /\ poll.pc = "sleeping" /\ loop[Poller].pc = "idle"
  /\ EndTenuresOutside(configured)
  /\ poll' = [pc |-> "observing", since |-> PollTime,
              seen |-> [r \in Repositories |->
                          IF r \in configured THEN Unread ELSE Done]]
  /\ Calm
  /\ UNCHANGED <<worldVars, configured, loop, client>>

Eligible(r) == {i \in Issues : RepositoryOf[i] = r /\ eligible[i]}

\* discoverCandidates answers for one repository; the others are asked at
\* the same time.
Discover(r) ==
  /\ poll.pc = "observing" /\ poll.seen[r] = Unread
  /\ poll' = [poll EXCEPT !.seen[r] = Observed(Eligible(r), head[r])]
  /\ Calm
  /\ UNCHANGED <<storeVars, worldVars, configured, loop, client>>

\* A failed discovery leaves that repository's queue as it was.
DiscoverFails(r) ==
  /\ poll.pc = "observing" /\ poll.seen[r] = Unread
  /\ poll' = [poll EXCEPT !.seen[r] = Done]
  /\ Disturb
  /\ UNCHANGED <<storeVars, worldVars, configured, loop, client>>

Record(r) ==
  /\ poll.pc = "observing" /\ poll.seen[r].state = "observed"
  /\ Reconcile(r, poll.seen[r].issues, poll.seen[r].commit, poll.since)
  /\ poll' = [poll EXCEPT !.seen[r] = Done]
  /\ Calm
  /\ UNCHANGED <<worldVars, configured, loop, client>>

PollDispatches ==
  /\ poll.pc = "observing" /\ \A r \in Repositories : poll.seen[r] = Done
  /\ poll' = [poll EXCEPT !.pc = "sleeping"]
  /\ loop' = [loop EXCEPT ![Poller].pc = "controls"]
  /\ Calm
  /\ UNCHANGED <<storeVars, worldVars, configured, client>>

-----------------------------------------------------------------------------
(* A dispatch loop: dispatchQueue *)

\* Mutant of Precedes: the queue is ordered by issue alone.
PrecedesByRank(e, f) == Rank[e.issue] < Rank[f.issue]

\* Queue order.  Two tenures of one issue never have the same time.
Precedes(e, f) ==
  \/ e.since < f.since
  \/ e.since = f.since /\ Rank[e.issue] < Rank[f.issue]

Row(t) == [issue |-> t[1], tenure |-> t[2],
           since |-> tenures[t[1]][t[2]].since,
           commit |-> tenures[t[1]][t[2]].commit]

\* getDispatchableQueue
DispatchableQueue ==
  LET rows == {Row(t) : t \in OpenTenures} IN
  {e \in rows : Cardinality({f \in rows : Precedes(f, e)}) < FetchLimit}

IsFirst(e, queue) == e \in queue /\ \A f \in queue \ {e} : Precedes(e, f)

Goto(l, pc) == loop' = [loop EXCEPT ![l].pc = pc]

\* Mutant of Finish: the loop ends in a state that nothing leaves.
FinishForGood(l) == loop' = [loop EXCEPT ![l] = [pc |-> "ended", queue |-> {}]]

Finish(l) == loop' = [loop EXCEPT ![l] = IdleLoop]

\* Done with an entry; an exhausted list is read again.
Continue(l, e) ==
  loop' = [loop EXCEPT ![l] =
             [pc |-> IF @.queue = {e} THEN "fetch" ELSE "revalidate",
              queue |-> @.queue \ {e}]]

\* The dispatch state is read once, before the first read of the queue.
CheckControls(l) ==
  /\ loop[l].pc = "controls"
  /\ IF AdmissionOpen THEN Goto(l, "fetch") ELSE Finish(l)
  /\ Calm
  /\ UNCHANGED <<storeVars, worldVars, configured, poll, client>>

Fetch(l) ==
  /\ loop[l].pc = "fetch"
  /\ IF DispatchableQueue = {}
       THEN Finish(l)
       ELSE loop' = [loop EXCEPT ![l] = [pc |-> "revalidate",
                                         queue |-> DispatchableQueue]]
  /\ Calm
  /\ UNCHANGED <<storeVars, worldVars, configured, poll, client>>

Current(e) == eligible[e.issue] /\ head[RepositoryOf[e.issue]] = e.commit

\* GitHub answers revalidateIssue for the first entry.
Revalidate(l, e) ==
  /\ loop[l].pc = "revalidate" /\ IsFirst(e, loop[l].queue)
  /\ Goto(l, IF Current(e) THEN "admit" ELSE "mark")
  /\ Calm
  /\ UNCHANGED <<storeVars, worldVars, configured, poll, client>>

\* Any error but "issue_ineligible" ends the loop.
RevalidateFails(l, e) ==
  /\ loop[l].pc = "revalidate" /\ IsFirst(e, loop[l].queue)
  /\ Finish(l)
  /\ Disturb
  /\ UNCHANGED <<storeVars, worldVars, configured, poll, client>>

MarkStale(l, e) ==
  /\ loop[l].pc = "mark" /\ IsFirst(e, loop[l].queue)
  /\ MarkIneligible(e.issue, e.tenure)
  /\ Continue(l, e)
  /\ Calm
  /\ UNCHANGED <<worldVars, configured, poll, client>>

\* admitCandidates for the entry's tenure.  A receipt is replayed before
\* anything else is looked at; a pause or disablement since the controls
\* were read is an error that ends the loop.
AdmitQueued(l, e) ==
  LET tenure == <<e.issue, e.tenure>>
      outcome == AdmitOutcome("automatic", {e.issue}, tenure)
  IN
  /\ loop[l].pc = "admit" /\ IsFirst(e, loop[l].queue)
  /\ \/ /\ receipts[tenure] # NoReceipt
        /\ IF receipts[tenure].tag = "no_candidate" THEN Goto(l, "reject")
                                                    ELSE Continue(l, e)
        /\ UNCHANGED storeVars
     \/ /\ receipts[tenure] = NoReceipt /\ ~AdmissionOpen
        /\ Finish(l)
        /\ UNCHANGED storeVars
     \/ /\ Admit(tenure, "automatic", {e.issue}, tenure)
        /\ CASE outcome = "provider_busy" -> Finish(l)
             [] outcome = "no_candidate"  -> Goto(l, "reject")
             [] OTHER -> Continue(l, e)
  /\ Calm
  /\ UNCHANGED <<worldVars, configured, poll, client>>

\* Mutant of Reject: the tenure is left in the queue.
RejectOnly(l, e) ==
  /\ loop[l].pc = "reject" /\ IsFirst(e, loop[l].queue)
  /\ Continue(l, e)
  /\ Calm
  /\ UNCHANGED <<storeVars, worldVars, configured, poll, client>>

Reject(l, e) ==
  /\ loop[l].pc = "reject" /\ IsFirst(e, loop[l].queue)
  /\ EndTenure(e.issue, e.tenure, "admission_rejected")
  /\ Continue(l, e)
  /\ Calm
  /\ UNCHANGED <<worldVars, configured, poll, client>>

-----------------------------------------------------------------------------
(* Manual starts: startIssue, runNextEligibleIssue and a Restart command *)

\* A settled attempt of the issue that a Restart may target.
Restartable(i) == \E j \in 1..Len(attempts[i]) : ~attempts[i][j].active

\* A request arrives.  With a receipt for its id it is answered from it.
Request(c, command, i) ==
  /\ client[c] = IdleClient
  /\ receipts[command] = NoReceipt
  /\ RepositoryOf[i] \in configured
  /\ KindOf[command] = "restart" => Restartable(i)
  /\ LET next == KindOf[command] = "next" IN
     client' = [client EXCEPT ![c] =
                  [pc |-> "busy", command |-> command,
                   wanted |-> IF next THEN Issues ELSE {i},
                   unread |-> IF next THEN configured ELSE {RepositoryOf[i]},
                   candidates |-> {}]]
  /\ Calm
  /\ UNCHANGED <<storeVars, worldVars, configured, poll, loop>>

\* GitHub answers: discoverCandidates for one repository and, for a start,
\* the revalidation that follows it.
ReadCandidates(c, r) ==
  /\ client[c] # IdleClient /\ r \in client[c].unread
  /\ KindOf[client[c].command] # "restart"
  /\ client' = [client EXCEPT ![c].unread = @ \ {r},
                              ![c].candidates =
                                @ \cup (client[c].wanted \cap Eligible(r))]
  /\ Calm
  /\ UNCHANGED <<storeVars, worldVars, configured, poll, loop>>

\* revalidateClaimedIssue wants the claimed label, so the issue is one that
\* discovery leaves out.
ReadClaimed(c, r) ==
  /\ client[c] # IdleClient /\ r \in client[c].unread
  /\ KindOf[client[c].command] = "restart"
  /\ \A i \in client[c].wanted : ~eligible[i]
  /\ client' = [client EXCEPT ![c].unread = {}, ![c].candidates = client[c].wanted]
  /\ Calm
  /\ UNCHANGED <<storeVars, worldVars, configured, poll, loop>>

\* The request fails: GitHub fails, or the issue is not eligible.
RequestFails(c) ==
  /\ client[c] # IdleClient /\ client[c].unread # {}
  /\ client' = [client EXCEPT ![c] = IdleClient]
  /\ Calm
  /\ UNCHANGED <<storeVars, worldVars, configured, poll, loop>>

\* Mutant of TenureFor: a manual start never names a tenure.
TenureForNone(kind, candidates) == NoTenure

\* Only a start, and a run-next that saw a single candidate, names the open
\* tenure of the issue it starts.
TenureFor(kind, candidates) ==
  IF kind # "restart" /\ \E i \in candidates : candidates = {i}
    THEN OpenTenureOf(CHOOSE i \in candidates : TRUE)
    ELSE NoTenure

AdmitRequest(c) ==
  /\ client[c] # IdleClient /\ client[c].unread = {}
  /\ LET command == client[c].command
         kind == KindOf[command]
         candidates == client[c].candidates
     IN \/ /\ \/ kind = "start" /\ candidates = {}
              \/ receipts[command] # NoReceipt
              \/ ~AdmissionOpen
           /\ UNCHANGED storeVars
        \/ /\ kind = "start" => candidates # {}
           /\ Admit(command, kind, candidates, TenureFor(kind, candidates))
  /\ client' = [client EXCEPT ![c] = IdleClient]
  /\ Calm
  /\ UNCHANGED <<worldVars, configured, poll, loop>>

-----------------------------------------------------------------------------
(* Operators, attempts, GitHub and crashes *)

Pause == /\ SetControls(TRUE, codexEnabled) /\ ~paused /\ Disturb
         /\ UNCHANGED <<worldVars, configured, poll, loop, client>>

Disable == /\ SetControls(paused, FALSE) /\ codexEnabled /\ Disturb
           /\ UNCHANGED <<worldVars, configured, poll, loop, client>>

\* Resume and enable run a dispatch loop beside the poller's.
Resume(l) ==
  /\ loop[l].pc = "idle"
  /\ \/ SetControls(FALSE, codexEnabled)
     \/ SetControls(paused, TRUE)
  /\ Goto(l, "controls")
  /\ Calm
  /\ UNCHANGED <<worldVars, configured, poll, client>>

\* The attempt's claim takes its issue out of discovery.
Claim(i) ==
  /\ eligible[i] /\ HasActiveAttempt(i)
  /\ eligible' = [eligible EXCEPT ![i] = FALSE]
  /\ Calm
  /\ UNCHANGED <<storeVars, head, configured, poll, loop, client>>

AttemptSettles(i, j) ==
  /\ Settle(i, j)
  /\ Calm
  /\ UNCHANGED <<worldVars, configured, poll, loop, client>>

AttemptRevives(i, j) ==
  /\ Revive(i, j)
  /\ Disturb
  /\ UNCHANGED <<worldVars, configured, poll, loop, client>>

\* Return removes the claim before it records its consequence.
AttemptReturned(i, j) ==
  /\ Return(i, j)
  /\ eligible' \in {eligible, [eligible EXCEPT ![i] = TRUE]}
  /\ Calm
  /\ UNCHANGED <<head, configured, poll, loop, client>>

\* Somebody edits the issue, its labels or its blockers.
Edit(i) ==
  /\ eligible' = [eligible EXCEPT ![i] = ~@]
  /\ Disturb
  /\ UNCHANGED <<storeVars, head, configured, poll, loop, client>>

Push(r) ==
  /\ head' = [head EXCEPT ![r] = @ + 1]
  /\ Disturb
  /\ UNCHANGED <<storeVars, eligible, configured, poll, loop, client>>

\* The process dies and starts again, perhaps with other repositories.
CrashAndRestart(kept, repositories) ==
  /\ Recover(kept, repositories)
  /\ configured' = repositories
  /\ poll' = [NoPoll EXCEPT !.since = poll.since]
  /\ loop' = [l \in Loops |-> IdleLoop]
  /\ client' = [c \in Clients |-> IdleClient]
  /\ Disturb
  /\ UNCHANGED worldVars

-----------------------------------------------------------------------------
LoopStep(l) ==
  \/ CheckControls(l) \/ Fetch(l)
  \/ \E e \in loop[l].queue :
       Revalidate(l, e) \/ MarkStale(l, e) \/ AdmitQueued(l, e) \/ Reject(l, e)

PollStep ==
  \/ PollBegins \/ PollDispatches
  \/ \E r \in Repositories : Discover(r) \/ Record(r)

ClientStep(c) ==
  \/ \E command \in Commands, i \in Issues : Request(c, command, i)
  \/ \E r \in Repositories : ReadCandidates(c, r) \/ ReadClaimed(c, r)
  \/ RequestFails(c) \/ AdmitRequest(c)

AttemptStep ==
  \E i \in Issues :
    \/ Claim(i)
    \/ \E j \in 1..MaxAttempts :
         AttemptSettles(i, j) \/ AttemptRevives(i, j) \/ AttemptReturned(i, j)

Environment ==
  \/ Pause \/ Disable
  \/ \E l \in Resumers : Resume(l)
  \/ \E i \in Issues : Edit(i)
  \/ \E r \in Repositories : Push(r) \/ DiscoverFails(r)
  \/ \E l \in Loops : \E e \in loop[l].queue : RevalidateFails(l, e)
  \/ \E kept \in SUBSET ActiveAttempts, repositories \in SUBSET Repositories :
       CrashAndRestart(kept, repositories)

Next ==
  \/ PollStep
  \/ \E l \in Loops : LoopStep(l)
  \/ \E c \in Clients : ClientStep(c)
  \/ AttemptStep
  \/ Environment

Spec == Init /\ [][Next]_vars

\* The poller sleeps and polls forever, whatever a round fails with, and
\* GitHub answers or fails within its time limits.
Fairness ==
  /\ WF_vars(PollStep)
  /\ \A l \in Loops : WF_vars(LoopStep(l))

FairSpec == Spec /\ Fairness

-----------------------------------------------------------------------------
(* Properties *)

\* docs/product-intent.md: "No retries: a failed run is something a human
\* looks at."  After an attempt that the queue or a start command began, only a
\* tenure that did not exist by then can start the issue automatically again.
QueuedStartNotRetried ==
  \A i \in Issues : \A m, j \in 1..Len(attempts[i]) :
    /\ m < j /\ attempts[i][m].kind \in {"automatic", "start"}
    /\ attempts[i][j].kind = "automatic"
    => attempts[i][j].tenure > attempts[i][m].seen

\* The same for an attempt that run-next began.  runNextEligibleIssue names a
\* tenure only when discovery returned a single candidate, though admit may
\* still choose one of several, and then the tenure stays in the queue.
NextStartNotRetried ==
  \A i \in Issues : \A m, j \in 1..Len(attempts[i]) :
    m < j /\ attempts[i][m].kind = "next" /\ attempts[i][j].kind = "automatic"
    => attempts[i][j].tenure > attempts[i][m].seen

\* An automatic start never overtakes a tenure that has waited since an
\* earlier poll, even when the loop's copy of the queue is stale.
FifoAcrossPolls ==
  [][\A t \in TenureIds :
       receipts[t] = NoReceipt /\ receipts'[t].tag = "started"
         => \A u \in OpenTenures :
              tenures[t[1]][t[2]].since <= tenures[u[1]][u[2]].since
    ]_vars

\* No tenure waits forever: once dispatch stays open, and if slots keep
\* becoming free, every tenure is admitted or ended.  Disturbances, GitHub's
\* errors among them, are finite.
QueueServed ==
  <>[]AdmissionOpen /\ []<>(Cardinality(ActiveAttempts) < Slots)
    => \A t \in TenureIds : IsOpen(t[1], t[2]) ~> ~IsOpen(t[1], t[2])
=============================================================================
