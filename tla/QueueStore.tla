------------------------------ MODULE QueueStore ------------------------------
(***************************************************************************)
(* The tables of the state store that decide which issue is started, and   *)
(* the transactions on them.  Each action below is one BEGIN IMMEDIATE     *)
(* transaction of packages/state-sqlite/src/store.ts: it either commits    *)
(* whole or has no effect.                                                 *)
(*                                                                         *)
(* An attempt (a row of "assignments") is kept per issue, oldest first.    *)
(* Of its nine lifecycle states this module keeps only whether the state   *)
(* is one of ACTIVE_ASSIGNMENT_STATES; module Lifecycle has all nine.      *)
(* A queue tenure is identified by its issue and its position among the    *)
(* tenures of that issue.                                                  *)
(***************************************************************************)
EXTENDS Naturals, Sequences, FiniteSets

CONSTANTS
  Issues,         \* GitHub node ids
  Repositories,   \* repositories that may be configured
  RepositoryOf,   \* the repository of each issue
  Rank,           \* order of the issues by repository, number and node id
  Commands,       \* ids of the commands that operators send
  Slots,          \* codex.slots of the configuration
  MaxAttempts,    \* bound on the attempts of one issue
  MaxTenures      \* bound on the queue tenures of one issue

ASSUME QueueStoreAssumption ==
  /\ IsFiniteSet(Issues)
  /\ RepositoryOf \in [Issues -> Repositories]
  /\ Rank \in [Issues -> Nat]
  /\ \A i, j \in Issues : Rank[i] = Rank[j] => i = j
  /\ Slots \in Nat \ {0}
  /\ MaxAttempts \in Nat \ {0}
  /\ MaxTenures \in Nat \ {0}

VARIABLES
  attempts,       \* assignments, per issue in creation order
  tenures,        \* queue_tenures, per issue in creation order
  status,         \* issue_queue_status.eligible, "unseen" when there is no row
  receipts,       \* command_receipts
  paused,         \* dispatch_state.paused
  codexEnabled    \* dispatch_state.codex_enabled

storeVars == <<attempts, tenures, status, receipts, paused, codexEnabled>>

-----------------------------------------------------------------------------
(* Rows *)

TenureIds == Issues \X (1..MaxTenures)

\* Automatic admissions use the command id "automatic:<tenureId>", here the
\* tenure id itself; every other command id is chosen by an operator.
CommandIds == Commands \cup TenureIds

NoTenure == <<>>

EndReasons == {"admitted", "no_longer_eligible", "issue_ineligible",
               "admission_rejected", "repository_removed"}

Tenure == [since : Nat, commit : Nat, ended : EndReasons \cup {"open"}]

\* How an attempt was started.
Kinds == {"automatic", "start", "next", "restart"}

\* "lost" says that an eligibility loss was observed for the attempt and
\* "returned" that it has an attempt.returned event.  The rest is history:
\* "tenure" is the tenure the admission ended (0 for none), "seen" the number
\* of tenures the issue had had by then, and "revived" says that a write
\* brought the attempt back into an active state after it had left them.
Attempt == [active : BOOLEAN, revived : BOOLEAN, returned : BOOLEAN,
            lost : BOOLEAN, kind : Kinds, tenure : 0..MaxTenures,
            seen : 0..MaxTenures]

Refusals == {"no_candidate", "provider_busy", "selection_ambiguous"}

NoReceipt == [tag |-> "none"]
Refused(reason) == [tag |-> reason]
Started(i, j) == [tag |-> "started", issue |-> i, attempt |-> j]

Receipt == {NoReceipt} \cup {Refused(reason) : reason \in Refusals}
             \cup {Started(i, j) : i \in Issues, j \in 1..MaxAttempts}

StoreTypeOK ==
  /\ attempts \in [Issues -> Seq(Attempt)]
  /\ \A i \in Issues : Len(attempts[i]) <= MaxAttempts
  /\ tenures \in [Issues -> Seq(Tenure)]
  /\ \A i \in Issues : Len(tenures[i]) <= MaxTenures
  /\ status \in [Issues -> {"unseen", "eligible", "ineligible"}]
  /\ receipts \in [CommandIds -> Receipt]
  /\ paused \in BOOLEAN
  /\ codexEnabled \in BOOLEAN

StoreInit ==
  /\ attempts = [i \in Issues |-> <<>>]
  /\ tenures = [i \in Issues |-> <<>>]
  /\ status = [i \in Issues |-> "unseen"]
  /\ receipts = [c \in CommandIds |-> NoReceipt]
  /\ paused = FALSE
  /\ codexEnabled = TRUE

-----------------------------------------------------------------------------
(* Queries *)

ActiveAttempts ==
  {a \in Issues \X (1..MaxAttempts) :
     a[2] <= Len(attempts[a[1]]) /\ attempts[a[1]][a[2]].active}

HasActiveAttempt(i) == \E j \in 1..Len(attempts[i]) : attempts[i][j].active

IsOpen(i, k) == k <= Len(tenures[i]) /\ tenures[i][k].ended = "open"

OpenTenures == {t \in TenureIds : IsOpen(t[1], t[2])}

HasOpenTenure(i) == \E k \in 1..Len(tenures[i]) : tenures[i][k].ended = "open"

\* The tenure getActiveQueueTenureId finds for an issue.
OpenTenureOf(i) ==
  IF HasOpenTenure(i)
    THEN <<i, CHOOSE k \in 1..Len(tenures[i]) : tenures[i][k].ended = "open">>
    ELSE NoTenure

LatestWasReturned(i) ==
  attempts[i] # <<>> /\ attempts[i][Len(attempts[i])].returned

-----------------------------------------------------------------------------
(* Row updates *)

\* Mutant of Ended: the tenure is left in the queue.
EndedNever(rows, reason) == rows

\* The rows of one issue after its open tenure, if any, ended.
Ended(rows, reason) ==
  [k \in DOMAIN rows |->
     IF rows[k].ended = "open" THEN [rows[k] EXCEPT !.ended = reason]
                               ELSE rows[k]]

Refreshed(rows, commit) ==
  [k \in DOMAIN rows |->
     IF rows[k].ended = "open" THEN [rows[k] EXCEPT !.commit = commit]
                               ELSE rows[k]]

\* The attempts of one issue after its active ones observed a loss.
WithLoss(rows) ==
  [j \in DOMAIN rows |->
     IF rows[j].active THEN [rows[j] EXCEPT !.lost = TRUE] ELSE rows[j]]

\* Mutant of RecordLosses: the observations are not written.
RecordNoLosses(lost) == UNCHANGED attempts

\* recordActiveEligibilityLosses, for the issues of the set "lost".
RecordLosses(lost) ==
  attempts' = [i \in Issues |-> IF i \in lost THEN WithLoss(attempts[i])
                                               ELSE attempts[i]]

LoseEligibility(lost) ==
  /\ status' = [i \in Issues |-> IF i \in lost THEN "ineligible" ELSE status[i]]
  /\ RecordLosses(lost)

-----------------------------------------------------------------------------
(* Queue transactions *)

\* Mutant of StartsTenure: an issue seen again gets a second open tenure.
StartsTenureTwice(i) ==
  \/ status[i] # "eligible"
  \/ ~HasActiveAttempt(i) /\ LatestWasReturned(i)

\* An observed issue starts a tenure when it was not known to be eligible, or
\* when its latest attempt was returned.
StartsTenure(i) ==
  /\ ~HasOpenTenure(i)
  /\ \/ status[i] # "eligible"
     \/ ~HasActiveAttempt(i) /\ LatestWasReturned(i)

\* reconcileQueue: the outcome of one discovery of a repository, made at time
\* "stamp", replaces what the store knew of that repository's queue.
Reconcile(repository, found, commit, stamp) ==
  LET gone == {i \in Issues : RepositoryOf[i] = repository} \ found
      fresh == {i \in found : StartsTenure(i)}
      lost == {i \in gone : status[i] = "eligible"}
  IN
  /\ \A i \in fresh : Len(tenures[i]) < MaxTenures
  /\ tenures' =
       [i \in Issues |->
          CASE i \in gone  -> Ended(tenures[i], "no_longer_eligible")
            [] i \in fresh -> Append(tenures[i], [since |-> stamp,
                                                  commit |-> commit,
                                                  ended |-> "open"])
            [] i \in found \ fresh -> Refreshed(tenures[i], commit)
            [] OTHER -> tenures[i]]
  /\ status' = [i \in Issues |-> CASE i \in found -> "eligible"
                                   [] i \in lost  -> "ineligible"
                                   [] OTHER -> status[i]]
  /\ RecordLosses(lost)
  /\ UNCHANGED <<receipts, paused, codexEnabled>>

\* endQueueTenuresOutsideRepositories
EndTenuresOutside(configured) ==
  LET removed == {i \in Issues : RepositoryOf[i] \notin configured} IN
  /\ tenures' = [i \in Issues |->
                   IF i \in removed THEN Ended(tenures[i], "repository_removed")
                                    ELSE tenures[i]]
  /\ LoseEligibility({i \in removed : status[i] = "eligible"})
  /\ UNCHANGED <<receipts, paused, codexEnabled>>

\* markQueueTenureIneligible
MarkIneligible(i, k) ==
  \/ /\ IsOpen(i, k)
     /\ tenures' = [tenures EXCEPT ![i][k].ended = "issue_ineligible"]
     /\ LoseEligibility({i} \cap {n \in Issues : status[n] = "eligible"})
     /\ UNCHANGED <<receipts, paused, codexEnabled>>
  \/ /\ ~IsOpen(i, k)
     /\ UNCHANGED storeVars

\* endQueueTenure, which leaves the issue's eligibility as it is.
EndTenure(i, k, reason) ==
  \/ /\ IsOpen(i, k)
     /\ tenures' = [tenures EXCEPT ![i][k].ended = reason]
     /\ UNCHANGED <<attempts, status, receipts, paused, codexEnabled>>
  \/ /\ ~IsOpen(i, k)
     /\ UNCHANGED storeVars

SetControls(pausedNow, enabledNow) ==
  /\ paused' = pausedNow
  /\ codexEnabled' = enabledNow
  /\ UNCHANGED <<attempts, tenures, status, receipts>>

-----------------------------------------------------------------------------
(* Admission *)

AdmissionOpen == ~paused /\ codexEnabled

\* Mutant of Unseen: a retry is not checked against active attempts.
UnseenByRunNextOnly(kind, candidates) ==
  IF kind = "next" THEN {i \in candidates : attempts[i] = <<>>} ELSE candidates

\* Candidates that the admission may still start.  Only run-next looks for
\* issues that were never attempted; the other callers allow a retry.
Unseen(kind, candidates) ==
  IF kind = "next" THEN {i \in candidates : attempts[i] = <<>>}
                   ELSE {i \in candidates : ~HasActiveAttempt(i)}

TenureUsable(tenure, candidates) ==
  tenure # NoTenure => IsOpen(tenure[1], tenure[2]) /\ tenure[1] \in candidates

\* Mutant of SlotsTaken: one attempt too many.
SlotsExceeded == Cardinality(ActiveAttempts) > Slots

SlotsTaken == Cardinality(ActiveAttempts) >= Slots

\* What admit answers once dispatch is neither paused nor disabled.
AdmitOutcome(kind, candidates, tenure) ==
  LET unseen == Unseen(kind, candidates) IN
  IF ~TenureUsable(tenure, candidates)       THEN "no_candidate"
  ELSE IF SlotsTaken                         THEN "provider_busy"
  ELSE IF unseen = {}                        THEN "no_candidate"
  ELSE IF \E i, j \in unseen : i # j         THEN "selection_ambiguous"
  ELSE                                            "started"

Refuse(command, kind, outcome) ==
  /\ receipts' = IF kind = "automatic" /\ outcome = "provider_busy"
                   THEN receipts
                   ELSE [receipts EXCEPT ![command] = Refused(outcome)]
  /\ UNCHANGED <<attempts, tenures, status, paused, codexEnabled>>

NewAttempt(kind, i, ending) ==
  [active |-> TRUE, revived |-> FALSE, returned |-> FALSE, lost |-> FALSE,
   kind |-> kind, tenure |-> ending, seen |-> Len(tenures[i])]

\* Mutant of EndAdmitted: the tenure stays in the queue.
LeaveAdmitted(tenure) == UNCHANGED tenures

EndAdmitted(tenure) ==
  tenures' = IF tenure = NoTenure
               THEN tenures
               ELSE [tenures EXCEPT ![tenure[1]][tenure[2]].ended = "admitted"]

\* The reservation: a new active attempt, the tenure ended, the receipt.
Reserve(command, kind, i, tenure) ==
  /\ Len(attempts[i]) < MaxAttempts
  /\ attempts' = [attempts EXCEPT ![i] =
                    Append(@, NewAttempt(kind, i, IF tenure = NoTenure
                                                    THEN 0 ELSE tenure[2]))]
  /\ EndAdmitted(tenure)
  /\ status' = [status EXCEPT ![i] = "eligible"]
  /\ receipts' = [receipts EXCEPT ![command] = Started(i, Len(attempts[i]) + 1)]
  /\ UNCHANGED <<paused, codexEnabled>>

\* Mutant of Admit: the receipt is not looked up in the transaction.
AdmitAgain(command, kind, candidates, tenure) ==
  /\ AdmissionOpen
  /\ LET outcome == AdmitOutcome(kind, candidates, tenure) IN
     \/ outcome # "started" /\ Refuse(command, kind, outcome)
     \/ /\ outcome = "started"
        /\ \E i \in Unseen(kind, candidates) : Reserve(command, kind, i, tenure)

\* Mutant of Admit: the controls are not read in the transaction.
AdmitRegardless(command, kind, candidates, tenure) ==
  /\ receipts[command] = NoReceipt
  /\ LET outcome == AdmitOutcome(kind, candidates, tenure) IN
     \/ outcome # "started" /\ Refuse(command, kind, outcome)
     \/ /\ outcome = "started"
        /\ \E i \in Unseen(kind, candidates) : Reserve(command, kind, i, tenure)

\* admit, for a command that has no receipt yet while dispatch is open.
Admit(command, kind, candidates, tenure) ==
  /\ receipts[command] = NoReceipt
  /\ AdmissionOpen
  /\ LET outcome == AdmitOutcome(kind, candidates, tenure) IN
     \/ outcome # "started" /\ Refuse(command, kind, outcome)
     \/ /\ outcome = "started"
        /\ \E i \in Unseen(kind, candidates) : Reserve(command, kind, i, tenure)

-----------------------------------------------------------------------------
(* What the rest of the service does to an attempt *)

\* The attempt leaves the active states: completed, failed, interrupted or
\* stopped.
Settle(i, j) ==
  /\ j <= Len(attempts[i]) /\ attempts[i][j].active
  /\ attempts' = [attempts EXCEPT ![i][j].active = FALSE]
  /\ UNCHANGED <<tenures, status, receipts, paused, codexEnabled>>

\* appendEvent patches the state whatever it was before, so a late provider
\* event or a lifecycle command can make a settled attempt active again.
\* Only the unique index on active issues can refuse that write.
Revive(i, j) ==
  /\ j <= Len(attempts[i]) /\ ~attempts[i][j].active
  /\ ~HasActiveAttempt(i)
  /\ attempts' = [attempts EXCEPT ![i][j].active = TRUE, ![i][j].revived = TRUE]
  /\ UNCHANGED <<tenures, status, receipts, paused, codexEnabled>>

\* A Return command recorded its consequence on a settled attempt.
Return(i, j) ==
  /\ j <= Len(attempts[i]) /\ ~attempts[i][j].active
  /\ ~attempts[i][j].returned
  /\ attempts' = [attempts EXCEPT ![i][j].returned = TRUE]
  /\ UNCHANGED <<tenures, status, receipts, paused, codexEnabled>>

\* interruptUnfinished: every active attempt is interrupted, or stays active
\* as an uncertain one ("kept").  It is followed, before anything else
\* runs, by endQueueTenuresOutsideRepositories with the new configuration.
Recover(kept, configured) ==
  LET removed == {i \in Issues : RepositoryOf[i] \notin configured}
      lost == {i \in removed : status[i] = "eligible"}
      rows(i) == [j \in DOMAIN attempts[i] |->
                    [attempts[i][j] EXCEPT !.active = @ /\ <<i, j>> \in kept]]
  IN
  /\ attempts' = [i \in Issues |-> IF i \in lost THEN WithLoss(rows(i))
                                                 ELSE rows(i)]
  /\ tenures' = [i \in Issues |->
                   IF i \in removed THEN Ended(tenures[i], "repository_removed")
                                    ELSE tenures[i]]
  /\ status' = [i \in Issues |-> IF i \in lost THEN "ineligible" ELSE status[i]]
  /\ UNCHANGED <<receipts, paused, codexEnabled>>

-----------------------------------------------------------------------------
\* The store as a machine of its own, whoever calls it.  Callers name a tenure
\* only for a single candidate, the tenure's issue.
StoreNext ==
  \/ \E repositories \in SUBSET Repositories : EndTenuresOutside(repositories)
  \/ \E r \in Repositories, found \in SUBSET Issues, commit, stamp \in Nat :
       Reconcile(r, found, commit, stamp)
  \/ \E i \in Issues, k \in 1..MaxTenures :
       \/ MarkIneligible(i, k)
       \/ \E reason \in EndReasons \ {"admitted"} : EndTenure(i, k, reason)
  \/ \E pausedNow, enabledNow \in BOOLEAN : SetControls(pausedNow, enabledNow)
  \/ \E command \in CommandIds, kind \in Kinds, candidates \in SUBSET Issues,
        tenure \in TenureIds \cup {NoTenure} :
       /\ tenure = NoTenure \/ candidates = {tenure[1]}
       /\ Admit(command, kind, candidates, tenure)
  \/ \E i \in Issues, j \in 1..MaxAttempts :
       Settle(i, j) \/ Revive(i, j) \/ Return(i, j)
  \/ \E kept \in SUBSET ActiveAttempts, repositories \in SUBSET Repositories :
       Recover(kept, repositories)

StoreSpec == StoreInit /\ [][StoreNext]_storeVars

-----------------------------------------------------------------------------
(* Properties *)

\* The attempts that an admission made active, as opposed to those that a
\* later write brought back, never exceed the configured slots: store.ts
\* counts every active row before it inserts one.
CapacityRespected ==
  Cardinality({a \in ActiveAttempts : ~attempts[a[1]][a[2]].revived}) <= Slots

\* No issue has two active attempts, whoever starts them: the poller's loop,
\* a loop that a resume runs, and any number of manual requests.  The
\* admission's own checks suffice, so its insert never meets the unique
\* index.
OneActiveAttempt ==
  \A i \in Issues : \A j, m \in 1..Len(attempts[i]) :
    attempts[i][j].active /\ attempts[i][m].active => j = m

\* Only the last tenure of an issue may be open, and the issue is then known
\* to be eligible, so that losing its eligibility will be noticed.
QueueConsistent ==
  \A i \in Issues : \A k \in 1..Len(tenures[i]) :
    tenures[i][k].ended = "open" => k = Len(tenures[i]) /\ status[i] = "eligible"

\* A command starts at most one attempt and every attempt has its receipt,
\* although two requests with one id may be under way at once.
StartedOnce ==
  \A i \in Issues : \A j \in 1..Len(attempts[i]) :
    \E c \in CommandIds : receipts[c] = Started(i, j)

\* A tenure ends as admitted exactly when one attempt consumed it.
TenureAdmitsOnce ==
  \A i \in Issues : \A k \in 1..Len(tenures[i]) :
    LET consumers == {j \in 1..Len(attempts[i]) : attempts[i][j].tenure = k}
    IN IF tenures[i][k].ended = "admitted"
       THEN \E j \in consumers : consumers = {j}
       ELSE consumers = {}

\* An active attempt whose issue is recorded as ineligible has an observation
\* that says so, which the attempt inspector shows.
LossObserved ==
  \A i \in Issues : \A j \in 1..Len(attempts[i]) :
    LET a == attempts[i][j] IN
    a.active /\ ~a.revived /\ status[i] = "ineligible" => a.lost

\* A receipt never changes once it is written, so a repeated command gets
\* the first answer.
ReceiptsDurable ==
  [][\A c \in CommandIds : receipts[c] # NoReceipt => receipts'[c] = receipts[c]
    ]_storeVars

\* Nothing is reserved while dispatch is paused or Codex is disabled, even by
\* a loop that read the controls before they changed.
ClosedDispatchReservesNothing ==
  [][(\E i \in Issues : Len(attempts'[i]) > Len(attempts[i])) => AdmissionOpen
    ]_storeVars
=============================================================================
