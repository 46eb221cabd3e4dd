# TLA+ verification of irudd-factory

irudd-factory ("Factory") is a single Node.js service that watches GitHub
repositories for issues labelled for an agent, queues them, starts a Codex process
for each in a Git worktree of its own, and lets operators stop, return, restart,
archive and restore the attempts. Its state is one SQLite database. The modules in
this directory model what decides *which* attempt runs *when*, what becomes of it, the
run of its Codex process, and what the operator's console shows of it all; TLC checks them on small instances and TLAPS proves theorems about them for every
instance. Every definition is translated from the source; `map` in `PROJECT.json`
gives the lines.

Short names of source files used below:

| name | file |
|---|---|
| `application` | `packages/application/src/service.ts` |
| `store` | `packages/state-sqlite/src/store.ts` |
| `provider`, `process` | `packages/codex/src/provider.ts`, `process.ts` |
| `protocol`, `rpc` | `packages/codex/src/protocol.ts`, `rpc.ts` |
| `github` | `packages/github/src/github.ts` |
| `host` | `apps/service/src/service.ts` |
| `inspector`, `overview` | `apps/console/src/AttemptInspector.tsx`, `App.tsx` |

## 1. Inventory

### Components, their state and operations

| component | state | operations | modelled in |
|---|---|---|---|
| Queue and admission store (`store`) | `assignments`, `queue_tenures`, `issue_queue_status`, `command_receipts`, `dispatch_state` | `reconcileQueue`, `endQueueTenuresOutsideRepositories`, `markQueueTenureIneligible`, `endQueueTenure`, `admit`, controls, `appendEvent`, `interruptUnfinished` | `QueueStore` |
| Poller, dispatch loops, manual starts (`application`) | local values of the fibers: discovery answers, a copy of up to 100 queue rows, candidates | `observeRepositories`, `dispatchQueue`, `startIssue`, `runNextEligibleIssue`, pause and disable | `Dispatch`, `DispatchSteady` |
| Attempt processing (`application`) | the `active` map of fibers, the attempt's row | `processAssignment` from revalidation to verification, and its catch-all | `Attempt` |
| Codex provider (`provider`, `process`) | a promise, its abort signal, a process group | prepare, spawn, record the identity, thread, turn, the catch block, cleanup with two waits | `AppServer`; as one promise with a group in `Attempt` |
| Codex app-server protocol (`protocol`, `rpc`) | pending requests, a waiter, a recorded terminal failure, observed settings | JSON-RPC correlation, notifications, thread and turn, draining | `AppServer` |
| Lifecycle commands and recovery (`application`, `store`, `host`) | `lifecycle_commands` with phases and checkpoints, receipts, the `lifecycleInFlight` map | `controlAttempt`, `executeLifecycleCommand`, `recoverInterruptedAttempts`, the order of startup | `Lifecycle` |
| Database lease (`store`) | a lock file | `acquireDatabaseLease`, `release` | `Lease` |
| GitHub adapter (`github`) | none of its own | discovery, revalidation, claim, claim inspection and removal, pull request lookup | answers and failures in `Dispatch`, `Attempt`, `Lifecycle` |
| Read pages (`store`) | an append-only log of tenure versions; stored snapshots | keyset and snapshot pages at a watermark | `ReadPages`, used by `Overview` and `Inspector` |
| Console: overview (`overview`) | what is on the screen, request generations, the busy control | refresh, queue pages, start, pause and resume | `Overview` |
| Console: attempt inspector (`inspector`) | the attempt on the screen, its evidence, flags, request generations | select, page, control, poll | `Inspector` |
| Workspaces (`packages/workspaces`) | Git worktrees | create | not modelled; one step of `Attempt` |
| Access, configuration, workflow policy, text retention | none that others read | pure decisions and conversions | not modelled |
| CLI (`apps/cli`) | none | one request per call | not modelled |
| Contracts, migrations, integration mode, fixtures | schemas, tables, test stand-ins | | not modelled |

### How they interact

The service is one JavaScript process. Its fibers interleave only at an `await`, and a
store call is a synchronous transaction. So the unit of interleaving between fibers is
the code from one await to the next; the unit of atomicity under a *crash* is the
transaction, which is smaller, since a fiber may run several transactions between two
awaits. A fiber carries values read before an await over it: the poller its discovery
answers, a loop its copy of the queue, a client its candidates, a command its
checkpoint. GitHub is asked over those awaits and changes on its own. The provider is
a *promise*: interrupting the fiber that waits for it aborts it but does not wait for
it, so it can still write to the attempt's row later. The process group outlives both
fibers and the service.

Inside a provider run, the continuations of settled promises run before the next event
of the event loop, but a chunk of the pipe may hold several lines: lines that came
together are handled before the statement that awaits the first of them goes on. The
console has the same one-threaded loop, and many calls under way whose answers return in
any order; it tells current from outdated ones by generation numbers.

### What is hard

* Two dispatch loops (the poller's and one that a resume starts) and any number of
  manual requests work from stale copies towards one slot limit.
* A discovery answer read before a manual start and reconciled after it.
* Several transactions per command with a possible death of the process between any
  two, and a recovery that executes the command again from its checkpoint.
* Effects outside the database: a label request that lands late, a provider that is
  spawned but not recorded, group members that outlive their leader.
* Late writes by an aborted provider, since `appendEvent` patches a row whatever
  state it has.
* File locking by several system calls on a name.
* Responses, notifications, timeouts, an abort and the end of the process, all racing for
  the one outcome of a provider run.
* Pages and flags of a screen whose answers overtake each other while the operator moves
  on.

`hazards` in `PROJECT.json` lists each with the line where it bites and the properties
that would catch it going wrong.

### What makes each component correct

* Store and dispatch: one active attempt per issue, no more attempts than slots, one
  attempt per command, receipts that never change, tenures consumed once, no start
  while dispatch is closed, queue order, no automatic retry, no tenure that waits
  forever.
* Attempt and lifecycle: a running provider always holds its slot, nothing is left of a
  stopped attempt, a command takes effect once and finishes, a returned attempt has no
  pull request, a Restart reserves one sibling, recovery does not resume.
* Lease: one owner; a crash never locks everybody out.
* Provider: a run that resolves lost no failure and saw its own turn complete, nothing
  new is stored after a failure, and the contract that `Attempt` builds on is kept.
* Pages and console: what an operator pages through is one piece of one moment's list,
  nothing on the screen goes back, no flag takes the controls away for ever, and the
  command beside the controls is one of the attempt they act on.

## 2. Modules

| module | what it is |
|---|---|
| `QueueStore` | the tables and one action per transaction; `StoreSpec`, the store as a machine of its own, is the abstract specification of what decides starts |
| `Dispatch` | the fibers that call the store; EXTENDS `QueueStore`; its `Spec` implements `StoreSpec` |
| `DispatchSteady` | `Dispatch` with a history variable, for one action property |
| `Attempt` | the attempts of one issue: fiber, provider promise, process group, row |
| `Lifecycle` | commands, crashes and recovery; EXTENDS `Attempt` |
| `Lease` | the lock file |
| `ProviderContract` | abstract: what one provider run promises its caller |
| `AppServer` | the adapter, its JSON-RPC client, the process group and a free App Server; implements `ProviderContract` |
| `ReadPages` | pure: what a page holds and where the next one starts |
| `Overview`, `Inspector` | the two screens of the console with the calls they have under way; EXTEND `ReadPages` |
| `QueueStoreProofs`, `DispatchProofs`, `AppServerProofs`, `LifecycleProofs`, `LeaseProofs`, `InspectorProofs`, `OverviewProofs` | theorems about the module each is named after |
| `ReadPagesProofs` | lemmas about pages, the order of the queue, sorting, joined sequences, and induction over a set of numbers |
| `MCDispatch`, `MCDispatchSteady`, `MCLifecycle`, `MCLease`, `MCAppServer`, `MCOverview`, `MCInspector` | definitions that the configurations assign to the constants |

Operators that begin with the words "Mutant of" in their comment are wrong versions of the
definition they name; a property is known to say something because it fails with one of
them in place.

### QueueStore and Dispatch

An attempt is an element of a sequence per issue, a tenure is identified by its issue
and its position. Of an attempt's nine states these modules keep whether it is active,
because that is all that admission looks at; `Settle`, `Revive`, `Return` and `Recover`
stand for whatever the rest of the service does to it, and `Lifecycle` shows where a
revival comes from. Fields that the code does not have (`revived`, `seen`, `tenure` of an
attempt) are history and are marked so.

`eligible_since` is a wall-clock time in the code; only its order matters, so the
model's time advances when a poll begins and the last time was used. A command id that
has a receipt is not requested again (the answer is the receipt), but two requests with
one id may be under way at once: that is the race that `admit`'s own lookup settles.

`FetchLimit` is the 100 of `getDispatchableQueue`. `MaxDisturbances` bounds what comes
from outside: pauses, edits, pushes, GitHub failures, late writes and crashes.

### Attempt and Lifecycle

`Attempt` takes one issue, because attempts of different issues meet only in the slots,
which `Dispatch` covers. An action runs from one await to the next. `published` and
`claimed` are GitHub's; `posts` are claim requests that may still land after the service
stopped waiting. `group` distinguishes a live leader from members that outlive it, since
`terminateOwnedGroup` waits for the leader and `reconcileStoredProcess` looks for members.

`Lifecycle` makes each transaction between two awaits a step, with `turn` naming the
fiber that has the event loop: other fibers cannot run in between, a crash can. `from`
is the checkpoint that an execution started at. The process may die at any point; after
a graceful shutdown fibers are interrupted, which leaves what an interruption followed
by a crash leaves. A failure during recovery ends the process, as `handlerLayer` lets it
through.

`MembersSurvive` says whether a process may outlive its group's leader. It is TRUE in
the run `restarts` and FALSE in `command_liveness`, which checks
`ReturnedHasNoPullRequest`: the provider's cleanup may leave members behind (see
`GroupStopped` below), and one of them may still publish. For the same property the
attempt must not be the sibling of a Restart: recovery may take an interrupted sibling up
again (see below), a Return of it succeeds before that, and the sibling then publishes.

`order` lists the unfinished commands as recovery will execute them; a command that
finishes is removed at its `Position`.

### Lease

Processes interleave at system calls. `unlink` removes whatever file has the name, a
write goes to the file that was opened. A process starts once, a restart is another
member of `Services`. `Age` makes a recent lock old; with `MayStall` FALSE it does so
only when no process is in the midst of an attempt, that is, nobody takes five seconds
between two calls. The model assumes that a live process is recognised by its start
time in `/proc`; where `/proc` does not exist every lock looks stale.

Two variables are history, which no guard reads. `judged` is the file a process saw when
it last read or looked at the lock. `raced` collects what went on behind a process's
back: a live process's lock was removed by a process that had judged another file
("replaced"), or a live process's lock came to be five seconds old before its token was
written or while a contender that found no token was yet to look at its age ("late").

### AppServer and ProviderContract

`pc` names the await at which the run stands. `Urgent` says that the continuation of a
settled promise is due: until it has run only `HandleLine` is possible, for the lines
that are on the wire already. `Catch` and `Terminate` are the catch block up to its next
await and its call of `terminateProcessGroup`; `Exited` is what follows a wait for the
group's end.

The App Server answers what is asked, or an error, or never; it says what it likes and
leaves when it likes. Answers and notifications are reduced to what the run tells apart:
whether a result has the field it looks for, the settings it reports, whether a turn is
of the run's own thread. `wire` holds written lines that are not handled yet. A process
that a turn starts holds the server's pipes (`piped`: the 'close' event waits for it) or
has its own output (`detached`). The history `said` notes what the properties ask about:
an alarm, a completion, a departure that nobody expected. Once the catch block is entered
it is dropped, since the run cannot resolve any more.

`ProviderContract` is what `Attempt` relies on. The refinement maps the outcome to the
settled `pc`, the process to `closed`, and "may still be running" to the timed-out
cleanup in the rejection.

### ReadPages, Overview and Inspector

`Upto` is the part of the log of versions that a watermark includes; `QueueRows` is the queue
that part describes, the latest version of each tenure in the order of the query; `Page`
cuts a piece out of it and says where the next begins. `QueueOrder` says which order that is
(a CHOOSE among the sequences of the rows), not how SQLite sorts; `ReadPagesProofs` shows
that there is one. The other lists are read from a snapshot of all
rows stored when the traversal begins, which is `Page` over the rows at the watermark.

`Overview` keeps one refresh of the current generation and the last superseded one that
the service had served already: one served later brings nothing older than the screen
has. A command and the refresh it begins are one turn.

In `Inspector` a call whose generation is over is `outdated`: its answer changes nothing,
whatever it says. Every call has the same fields, of which its kind uses some. The model
assumes that an issue has no more attempts than one page of siblings can grow to
(`MaxRelated`). `transcript` stands for the events as well, whose code is the same. Left
out are the list of sessions and its pages, copying a path, archive filters and the
branch for a service that has no such attempt any more.

## 3. Runs

CHECK_DEADLOCK is FALSE in the configurations of `Dispatch`, `Lifecycle`, `Lease` and
`Inspector`: commands, attempts, tenures and disturbances are bounded, so the modelled
system really stops when they are used up. `AppServer` is checked for deadlock: a settled
run is its only end, and has a step of its own. `Overview` is too, since the screen
refreshes for ever.

### Runs that pass

| run | instance | what it shows |
|---|---|---|
| `commands` | 1 issue, 2 slots, 1 command sent by 2 clients at once, 1 disturbance | `OneActiveAttempt`, `StartedOnce`, `ReceiptsDurable`, `TenureAdmitsOnce`, `QueuedStartNotRetried`, `QueueConsistent`: a command starts one attempt and no tenure starts two |
| `loops` | 2 repositories with an issue each, 1 slot, poller and a resumed loop, 1 disturbance | `QueueConsistent`, `CapacityRespected`, `LossObserved`, `ClosedDispatchReservesNothing`, `FifoAcrossPolls` with two stale copies of the queue, while one repository's discovery fails or a restart removes repositories |
| `liveness` | 1 issue, 2 slots, a Restart that may take the issue from under its open tenure, fairness | `QueueServed`: a tenure that cannot be used leaves the queue, and the loop does not read it for ever |
| `restarts` | 3 attempts, a Stop and a Restart, members survive, 1 disturbance | `OneSiblingPerRestart`, `StoppedIsGone`, `ProcessHoldsSlot`; the third attempt is the least with which a Stop concludes against another active attempt |
| `command_liveness` | 1 attempt, Stop, Return, Archive and Restore, 2 disturbances, fairness | `TypeOK`, `CommandsFinish`, `ConsequenceOnce`, `ReturnedHasNoPullRequest`, and `ProcessHoldsSlot` where a second crash hits the recovery from the first |
| `lease` | 3 processes that may stall, 2 crashes, fairness | `ExclusiveUnlessRaced`: two owners only after a race that `raced` records; `LeaseRecovered` |
| `provider` | 3 notifications, 1 of them before the turn, 2 lines on the wire, a piped helper, fairness | `NothingFatalLost`, `OwnTurnCompleted`, `NothingNewAfterFailure`; `ImplementsContract` with the liveness of the contract: every run settles |
| `overview` | 2 tenures, pages of 1, 3 versions, 1 change of the dispatch state by others, 1 failure | `PagesJoin`, `ShownNeverOlder` |
| `inspector` | 2 attempts, 2 calls under way, pages of 1, 2 entries, 2 rows, 1 command, 1 failure | `TranscriptContiguous`, `BusyOnlyWhileCalling`, `CommandOfTheAttempt` |

Why the bounds are enough: the store's and the loops' hazards need two actors that
compete for one thing, so each instance has two of the actors its properties are about,
as few slots as let them meet (with one issue, two slots: with one the slot check would
hide the check of the issue) and a read limit of two rows, so that a loop holds one stale
row while it works on another; two attempts of an issue are the least with which a retry
exists, two tenures the least with which a tenure can be reopened. The kind run-next is in
no passing run, where it multiplies the states by ten: `DispatchRunNext.cfg` has it, and
the theorems about `Dispatch` and `QueueStore` hold with it. Three processes are the least
with which a lock can be replaced behind a contender's back, for each creates one at most;
the inductive invariant of `LeaseProofs` was also checked with four. A command meets at most one crash between two of its checkpoints; two
disturbances allow a crash and, in the recovery from it, a second crash or a failure of
GitHub. Three notifications are an alarm, a foreign and an own completion in any order,
one of them behind a response in the same chunk; a detached helper adds nothing to these
properties and is left to `ProviderGroup.cfg`. Two attempts are what a selection can
switch between; two calls are the least that overtake each other. What does not depend on
these choices is proved (section 5). Symmetry of the attempts is used only for invariants;
attempts are named by no constant but the symmetric set. The longest run takes about two
minutes on two cores.

### Findings: runs that must fail

Each states what the repository says of itself and is violated by what the code does.

| run | property | what happens |
|---|---|---|
| `stale_discovery` | `SteadyIssueNotRetried` | a discovery answer older than a manual start is reconciled after it: a loss is recorded that never was, and the issue is queued again |
| `startup` | `StartupCompletes` | a Restart left unfinished by a pause fails every later start |
| `lease_race` | `Exclusive` | three processes, no crash, no stall: a contender that judged a lock stale or gone unlinks the one that another process has created since (`store:449`, `store:463`). `docs/decisions/operator-product.md:67`: "One Factory service process owns a database." |

`DispatchSteady` with no manual starts satisfies `SteadyIssueNotRetried`: the manual start is what the poll's old answer must overtake.

### Other divergences the models reach

Those in the first table are properties of the modules; a configuration that TLC refutes
them with is kept beside them, or is the passing run's with the property added.

| property | configuration | what the code does, and what the repository says |
|---|---|---|
| `NextStartNotRetried` (`Dispatch`) | `DispatchRunNext.cfg` | run-next chooses one of two discovered issues and names no tenure (`application:406`); the tenure stays queued, and when the attempt has failed the loop starts the issue again. `docs/product-intent.md:33`: "No retries" |
| `StoppedStays` (`Lifecycle`) | `LifecycleLateWrite.cfg` | the cleanup of an interrupted provider takes a stopped attempt back to `ownership_uncertain` (`provider:390`), without any disturbance. `docs/attempt-lifecycle.md:15`: Return or Restart "becomes available after `stopped`" |
| `GroupStopped` (`AppServer`) | `ProviderGroup.cfg` | a process with its own output outlives the leader that left within the first wait: the 'close' event is all that is waited for, and SIGKILL is never sent. `docs/stack.md:60`: shutdown stops the owned process group; `packages/codex/test/process.test.ts:75` tests it |
| `SettingsAsAsked` (`AppServer`) | `ProviderRun.cfg` | settings reported after the second settings event are not compared any more, and the run returns them as observed (`protocol:168`, `provider:284`). `docs/stack.md:54` |
| `EvidenceOfTheAttempt` (`Inspector`) | `InspectorEvidence.cfg` | a control on A, then B, then A again whose details fail to load: the control's refresh clears the error, and B's evidence stands under A (`inspector:313`). `apps/console/test/AttemptInspector.test.tsx:383`: "switches every evidence section when a sibling is selected" |
| `SiblingsContiguous` (`Inspector`) | `InspectorCalls.cfg` with `MaxRelated = 3` | more siblings, asked for before closing and reopening, are appended to the new first page (`inspector:495`). `docs/decisions/operator-product.md:116`: a page watermark freezes the traversal |

The formulas in the second table are no definitions: each is a state or action formula of
`Lifecycle` that TLC refutes on two attempts and the commands
named.

| formula | commands | what the code does, and what the repository says |
|---|---|---|
| `rows[a].state = "interrupted" => fiber[a] = "none"` | one Restart and a crash | a crash after the sibling's reservation leaves a receipt; recovery marks the sibling interrupted, then executes the command again and processes the sibling (`application:785`). `docs/decisions/operator-product.md:87`: startup "never resumes or retries them automatically" |
| `ReturnedHasNoPullRequest` for siblings as well | a Restart and a Return of its sibling, a crash | the sibling is interrupted, a Return of it succeeds, and recovery then takes it up again for the unfinished Restart (`application:785`), so it opens a pull request. `docs/attempt-lifecycle.md:16`: "Confirm no pull request exists for the retained branch and issue" |
| `fiber[a] \in {"workspace", "provider"} => claimed`, without label edits | one Return | a Return of an old attempt is admitted while a newer one runs (`store:1541`) and removes its claim. `docs/stack.md:108`: "never removes or overrides an existing one" |
| `[]` of "a sibling's fiber does not fail its revalidation while nothing changed" | one Restart | Restart needs the claimed label (`github:661`), the sibling's revalidation excludes it (`github:546`, `application:69`). `docs/attempt-lifecycle.md:17`: the label "must already be present and remains present" |
| `run'[c].consequence = "stop_uncertain"` only if a group or a promise is left | two Stops | a Stop during preparation leaves `processStartPending` set, and nothing clears it (`store:1763`). `docs/operator.md:351`: "A later Stop can resolve it." |
| `rows[a].state \in {"completed", "failed"} => group[a] = "none"` | none, `MembersSurvive` | the cleanup waits for the leader only (`process:128`). `docs/stack.md:61`: shutdown "stops the owned process group" |

Smaller things seen on the way, about which the repository says nothing: a refresh of the
overview that always takes longer than its five seconds is superseded for ever; the answer
to a switch may show an older dispatch state until the refresh that begins with it; a
poll's late answer can take a final command back to executing on the screen; a list
filter that fails to load leaves the next page's request with the old cursor, which the
service refuses.

## 4. Fairness

* `Dispatch`: weak fairness of the poll's steps and of each loop's steps. The poller
  sleeps and polls for ever and catches what a round fails with
  (`startDispatcher`); requests to GitHub have time limits, so an awaited answer or
  failure comes. Nothing is assumed of operators, clients, attempts or GitHub's content;
  `QueueServed` is conditional on dispatch staying open and slots becoming free.
* `Lifecycle`: weak fairness of recovery's steps (whoever runs the service starts it
  again when it is down), of each command's steps and of a label removal that was sent.
  Attempts and providers get none. `CommandsFinish` is checked without Restart, because
  of the finding `startup`.
* `Lease`: weak fairness of each process's acquisition steps: it runs a finite loop
  without waiting for anybody.
* `AppServer`: weak fairness of the run's steps, of reading the pipe, of the exit callback
  and of the turn's timer: every await of the run is bounded by a timer or by the store,
  and promise continuations run. Nothing is assumed of the App Server, its helpers or
  the operating system, so the run settles even if SIGKILL never lands.
* `Overview` and `Inspector` state safety only: whether a call is ever answered is up to the
  network.

## 5. Theorems

All are proved from the named ASSUMEs on the constants only: issues are finite and
totally ordered by `Rank`, slots and bounds are natural numbers, command kinds are
kinds. `DispatchFifo` alone has a premise of its own, given below. No theorem restricts the number of issues, repositories, loops, clients, commands
or slots.

`QueueStoreProofs` is about `StoreSpec`, the store under *any* caller that names a
tenure only for the tenure's own issue:

* `StoreTypeCorrect`: one lemma per transaction.
* `StoreOneActiveAttempt`, `StoreLossObserved`, `StoreQueueConsistent`,
  `StoreCapacityRespected`, `StoreStartedOnce` are inductive relative to the types.
  `AttemptsStep` is the lemma they share: what any transaction does to the attempts is
  to keep every row's history fields and never to activate one, to revive one row of an
  issue without an active attempt, or to append one in an admission.
* `CapacityRespected` counts the active attempts that no late write revived. A revived
  one may exceed the slots in the code as well: `appendEvent` does not count.
* `StoreReceiptsDurable` and `StoreClosedDispatch` are action properties.
* `StoreTenureAdmitsOnce` needs a stronger invariant, `TenureInv`: an attempt names a
  tenure only if that tenure is among its issue's and ended as admitted; an admitted
  tenure is named by some attempt; and no tenure is named by two. Without the
  first part nothing excludes that a tenure still open was already named, and its
  admission would then name it twice.

`DispatchProofs` proves `TypeCorrect` for the fibers' local state and
`ImplementsStore`: every step of the poller, the loops, the clients and the
environment is a step of `StoreNext` or leaves the store's variables alone. What makes it more
than an inclusion is that fibers act on stale local values: the proof needs that a
stale row still names a tenure of its own issue, and that `TenureFor` names a tenure only with one
candidate. The next theorems carry the store's properties over. The last two are about
what the fibers remember between two transactions (`StoreCall` says which transactions
they run with which arguments, `TenuresGrow` what all of those leave of the tenures):

* `DispatchNotRetried` needs `QueuedInv`: an attempt that the queue or a start began leaves
  no tenure of its issue open, since it ended the only one there was (`QueueConsistent`). A
  start does so only because its request has one candidate, the issue it wants
  (`RequestInv`); run-next with several candidates and Restart end none. For run-next the
  property does not hold (`NextStartNotRetried`, section 3).
* `DispatchFifo` needs `LoopInv`: a waiting tenure older than an entry of a loop's queue is an entry
  of that queue, however old the copy is. Reading the first `FetchLimit` rows establishes it,
  new tenures are never older (`TimeInv`), and an entry the loop is done with no longer
  waits: a receipt that lets the loop pass over an entry says that its tenure was admitted
  (`ReceiptInv`). The theorem assumes `OwnIds`: no operator's command has the id of an automatic
  start. The contract takes any string as an id (`rpc.ts`), and a command with the id
  `automatic:<tenureId>` (`service.ts:346`) would be answered from, or write, the receipt of that
  tenure. The runs' constants satisfy it.

`AppServerProofs` is about a provider run with any number of notifications and any length
of the wire. `IInv` has six parts beside the types:

* `Preparing`: before the process is spawned there is nothing to hear or to lose.
* `Telling`: which prefix of the events is told at each await.
* `Ending`: the catch block is never left for the straight path, and a cleanup that ended
  clean saw the process go.
* `Losing`: while nothing has failed, an alarm that was sent is recorded or still on the
  wire, an unexpected exit is recorded or about to be seen, an abort is recorded; and from
  the beginning of `retainExit` the wire is empty. That is why a run that resolves lost
  nothing: the three places where a failure can wait are empty when it does.
* `Hearing`: a waiter is set up only when the thread is known, so what completes it was said
  of the own thread.

`RunSteps` is the lemma the parts share: a step of the run enters or stays in the catch
block with one common effect (`Caught`), or goes to the next await with no failure
recorded. `TypeCorrect`, `NoFatalLost`, `OwnTurn` and `NothingNew` follow, and
`KeepsContract`: initial states and steps map to those of `ProviderContract`.

`LifecycleProofs` is about any number of attempts of an issue, commands, disturbances and
crashes. None of its properties is inductive alone, and their strengthenings need each
other, so there is one invariant, `IInv == TypeOK /\ Sound /\ ConsequenceOnce`. `Sound` has,
per attempt, what its fiber, its provider promise and its process group may be together:

* `FiberSound`: a fiber waits for its provider until the provider is aborted, and works on
  an active row only.
* `ProviderSound`: from the promise's first write on, the process is recorded in the row or
  the start is still marked pending; a promise that resolved saw its leader go.
* `GroupSound`: a group exists only while its promise may still write or after its identity
  is in the row, and a live leader's row is active. This gives `ProcessHoldsSlot` and
  `StoppedIsGone`: neither can be shown from the rows alone, since the group is started
  before anything about it is stored.

and per command, where its execution stands and what that promises of its target:

* `CommandSound`, `KindSound`, `OrderInv`: an execution under way has an unfinished record,
  of the kind whose steps it takes; unfinished records are exactly those in `order`.
* `StopSound`: from its interruption on, the target's fiber stays ended, and a resolved
  effect other than an uncertain one means that the group is gone.
* `OriginInv`, `SiblingSound`: the reserved siblings are those that the rows' receipts
  name, and a Restart that has not finished has a sibling nobody has touched: no provider,
  no claim, and no command that names it.
* `ReturnSound`: a Return's target has no fiber and no group any more, and from the lookup
  on no pull request. This is where the two exceptions above are needed.
* `ForkInv`, `OneActive`, `Quiet`: no fiber runs for an inactive attempt but a forked
  sibling's, at most one attempt is active, and nothing runs while the service is down.

Each action has a lemma that says what it does to one attempt (to one command) and one that
no other attempt (command) notices it.

`LeaseProofs` says what must have happened before two processes have the lease, which is not
exclusive always (`lease_race`). `ExclusiveButForRaces` has no premise: any number of
processes start, contend, stall, crash and recover, and as long as `raced` is empty one
at most has the lease. `LeaseInv` adds to `Exclusive` what makes it inductive while nothing
has raced: an owner's lock is in its place (`Backed`); a lock still to be written is there
and recent (`WriteSafe`); a contender that found no token meets no file, a recent one or a
dead process's when it looks at the age (`StatSafe`); and what it goes on to remove had no
living owner when it judged it (`RemovalSafe`). The theorem does not say that a race always
leads to two owners. None of the three can be left out, though: with "replaced" no longer
recorded, or either half of "late", TLC finds two owners on three processes with `MayStall`
TRUE.

`InspectorProofs` is about any number of attempts, calls under way, rows, page sizes and
commands. `BusyInv` adds to `BusyOnlyWhileCalling` that a kind of call that has a flag has at
most one call of the current generation, or the answer to one would clear the flag of
another. `CallInv` says what each call under way has read, of which attempt; `TranscriptInv`
that the list on the screen begins the transcript as it was at the watermark, with the
calls for more of it following a list of which the same holds. `CommandInv` and `ShownInv` give
`CommandOfTheAttempt`: identities of commands are not given twice, and what a poll, a
control and a record say of one identity is the same attempt.

`OverviewProofs` is about any number of tenures, page sizes, versions and failures.
`TrailInv` says of every page of the history and of the one on the screen that it is the
page, at its watermark, that the request kept beside it asks for, and that each request is
the one for the page after: `PagesJoin` follows by joining the pieces, however many there
are. It needs `CallInv`, that the pages of calls under way are such pages of the request
they were sent for, since a refresh may bring the page of a request and a click the next one
in either order; and that a longer log keeps what a watermark includes (`Extends`).
`ShownInv` has that the snapshot of the current refresh is at least as new as the screen:
a command's answer begins a new refresh, and superseded ones are not shown.

`ReadPagesProofs` holds the lemmas: a page is what lies between its offset and the
next one's; a page that follows another joins it, and so does a sequence of adjacent pieces
(`Flattened`); a finite set on which a relation is total and transitive can be listed in its
order (`Sortable`), as the rows of the queue can (`RowsOrdered`, `QueueOrdered`). Induction
is used in the form that needs no operator parameter: a set of numbers without its members
has a least one (`Smallest`, `InductionOn`).

### What is only model-checked

* Liveness (`QueueServed`, `CommandsFinish`, `LeaseRecovered`, and the fairness in
  `ImplementsContract`): TLAPS does not prove liveness under fairness or ENABLED.

Every other property of the passing runs is stated by a theorem. The properties of the
runs that must fail do not hold (section 3).

No module declares a RECURSIVE operator.

## 6. Not modelled, and why

* Workspaces: creation is a sequence of git commands that `Attempt` takes as one step. Its
  hazard (two first clones of one repository, or one that died half way) depends on what
  git leaves on the disk, of which the source says nothing.
* Access decisions, configuration, workflow parsing, text retention and event
  projection are conversions without state that the modelled parts read.
* The CLI sends requests that are modelled. Of the console, the list of sessions, the
  timeline's screen and rendering are left out.
* Whether the RPC library interrupts the handler of a client that disconnects lies
  outside this repository; the model keeps a command running once begun, and lets a
  crash or a refusal leave it unfinished.
* An attempt's version, which a command must quote, and the check that its repository is
  configured: a mismatch is a rejection, and `Begin` may always reject.

## 7. Plan

In this order, most important first:

1. Done: the queue and its admission (`QueueStore`, `Dispatch`) with proofs, attempts and
   lifecycle commands, the lease, the provider's protocol with proofs, read pages and the
   console's two screens.
2. Done: proofs about `Lifecycle`, `Lease`, `Inspector` and `Overview`.
3. Done: `FifoAcrossPolls` and `QueuedStartNotRetried`, which relate the fibers' local values
   to the store's history.
4. A slot pool as an abstract specification that both `Dispatch` and a version of
   `Lifecycle` with several issues implement.
5. `Attempt` over `ProviderContract` itself instead of its own promise variable.
6. The timeline's layout and the retention of text as operators checked against
   reference definitions.
