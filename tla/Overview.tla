-------------------------------- MODULE Overview --------------------------------
(***************************************************************************)
(* The overview of the browser console (App.tsx): a refresh every five     *)
(* seconds, the pages of the queue, and the commands, all of them calls    *)
(* whose answers arrive in any order or not at all, while other operators  *)
(* and the service change what they read.                                  *)
(***************************************************************************)
EXTENDS ReadPages

CONSTANTS
    Tenures,      \* queue tenures
    Limit,        \* QUEUE_PAGE_SIZE
    MaxVersions,  \* bound: versions in the log
    MaxSwitches,  \* bound: changes of the dispatch state
    MaxFailures   \* bound: calls that fail

ASSUME OverviewAssumption ==
    /\ IsFiniteSet(Tenures)
    /\ Limit \in Nat \ {0}
    /\ {MaxVersions, MaxSwitches, MaxFailures} \subseteq Nat

VARIABLES
    log,           \* queue_tenure_versions
    dispatch,      \* how often the dispatch state has changed
    shown,         \* the dispatch state of the snapshot on the screen
    queue,         \* the page on the screen
    queueRequest,  \* what the refresh asks for
    queueHistory,  \* the pages before, each with its request
    pending,       \* the control that is busy
    loadError,     \* the service is shown as disconnected
    refreshing,    \* the refresh of the current generation
    superseded,    \* a refresh of an earlier generation that is still under way
    call,          \* the call of the busy control
    failures       \* calls that failed so far

serverVars == <<log, dispatch>>
screenVars == <<shown, queue, queueRequest, queueHistory, pending, loadError>>
callVars == <<refreshing, superseded, call, failures>>
vars == <<serverVars, screenVars, callVars>>

None == [is |-> "none"]

(* The three reads of a refresh are served one by one; the snapshot and    *)
(* the queue page are what the screen is made of.                          *)
Refresh(request) ==
    [is |-> "refresh", request |-> request, snapshot |-> << >>, queue |-> << >>]
Served(r) == r.is = "refresh" /\ r.snapshot # << >> /\ r.queue # << >>

Init ==
    /\ log = << >> /\ dispatch = 0
    /\ shown = 0 /\ queue = None
    /\ queueRequest = FirstPage /\ queueHistory = << >>
    /\ pending = "none" /\ loadError = FALSE
    /\ refreshing = Refresh(FirstPage) /\ superseded = None /\ call = None
    /\ failures = 0

------------------------------------------------------------------------------
(* The service *)

Current(tenure) == LET r == Revisions(log, tenure)
                   IN IF r = {} THEN "unseen" ELSE log[Max(r)].status

Versioned(tenure, status) ==
    /\ Len(log) < MaxVersions
    /\ log' = Append(log, [tenure |-> tenure, status |-> status])

(* reconcileQueue and endTenure: a tenure starts, is observed again, or    *)
(* ends, and every change is a version of its row.                         *)
QueueChanges ==
    /\ \E t \in Tenures, s \in {"open", "admitted", "left"} :
          /\ Current(t) = "open" \/ (Current(t) = "unseen" /\ s = "open")
          /\ Versioned(t, s)
    /\ UNCHANGED <<dispatch, screenVars, callVars>>

(* Another operator pauses or resumes. *)
DispatchChanges ==
    /\ dispatch < MaxSwitches
    /\ dispatch' = dispatch + 1
    /\ UNCHANGED <<log, screenVars, callVars>>

(* The service serves a read of the refresh: getSnapshot or ListQueue. *)
ServeRefresh ==
    /\ refreshing.is = "refresh"
    /\ \/ /\ refreshing.snapshot = << >>
          /\ refreshing' = [refreshing EXCEPT !.snapshot = <<dispatch>>]
       \/ /\ refreshing.queue = << >>
          /\ refreshing' = [refreshing EXCEPT
                              !.queue = <<ListQueue(log, refreshing.request, Limit)>>]
    /\ UNCHANGED <<serverVars, screenVars, superseded, call, failures>>

(* The service takes the call of the busy control.  A switch to the state *)
(* that holds already changes nothing.                                     *)
ServeCall ==
    /\ \/ /\ call.is = "next"
          /\ call' = [is |-> "page", page |-> ListQueue(log, call.request, Limit),
                      from |-> call.from]
          /\ UNCHANGED serverVars
       \/ /\ call.is = "start" /\ Current(call.tenure) = "open"
          /\ Versioned(call.tenure, "admitted")
          /\ call' = [is |-> "started"]
          /\ UNCHANGED dispatch
       \/ /\ call.is = "start" /\ Current(call.tenure) # "open"
          /\ call' = [is |-> "started"]
          /\ UNCHANGED serverVars
       \/ /\ call.is = "switch"
          /\ dispatch' \in {dispatch, dispatch + 1} \cap (0..MaxSwitches)
          /\ call' = [is |-> "switched", dispatch |-> dispatch']
          /\ UNCHANGED log
    /\ UNCHANGED <<screenVars, refreshing, superseded, failures>>

------------------------------------------------------------------------------
(* refresh() *)

(* A new generation: what an earlier one brings is no longer taken.  The   *)
(* last one that was served already stays under way; one served later can  *)
(* bring nothing older than the screen has.                                *)
BeginRefresh(request) ==
    /\ refreshing' = Refresh(request)
    /\ superseded' = IF Served(refreshing) THEN refreshing ELSE superseded

RefreshDue ==
    /\ BeginRefresh(queueRequest)
    /\ UNCHANGED <<serverVars, screenVars, call, failures>>

(* The screen takes the snapshot, and the page if it is still the one that *)
(* is asked for.                                                           *)
Apply(r) ==
    /\ shown' = r.snapshot[1]
    /\ queue' = IF r.request = queueRequest THEN r.queue[1] ELSE queue
    /\ loadError' = FALSE
    /\ UNCHANGED <<queueRequest, queueHistory, pending>>

RefreshArrives ==
    /\ Served(refreshing)
    /\ Apply(refreshing)
    /\ refreshing' = None
    /\ UNCHANGED <<serverVars, superseded, call, failures>>

(* Mutant of Discard: the generation is not compared. *)
DiscardNothing == Apply(superseded)

Discard == UNCHANGED screenVars

SupersededArrives ==
    /\ superseded # None
    /\ Discard
    /\ superseded' = None
    /\ UNCHANGED <<serverVars, refreshing, call, failures>>

RefreshFails ==
    /\ failures < MaxFailures /\ refreshing.is = "refresh"
    /\ failures' = failures + 1
    /\ refreshing' = None
    /\ loadError' = TRUE
    /\ UNCHANGED <<serverVars, shown, queue, queueRequest, queueHistory, pending,
                   superseded, call>>

------------------------------------------------------------------------------
(* The controls; all of them are disabled while one is pending. *)

NextPage ==
    /\ pending = "none" /\ queue # None /\ queue.next # 0
    /\ pending' = "queue-next"
    /\ call' = [is |-> "next", request |-> NextOf(queue), from |-> queue]
    /\ UNCHANGED <<serverVars, shown, queue, queueRequest, queueHistory, loadError,
                   refreshing, superseded, failures>>

(* The page the click came from goes to the history, with the request that *)
(* the refresh has used so far.                                            *)
NextPageArrives ==
    /\ call.is = "page"
    /\ queueHistory' = Append(queueHistory, [page |-> call.from, request |-> queueRequest])
    /\ queueRequest' = NextOf(call.from)
    /\ queue' = call.page
    /\ pending' = "none" /\ call' = None
    /\ UNCHANGED <<serverVars, shown, loadError, refreshing, superseded, failures>>

PreviousPage ==
    /\ pending = "none" /\ queueHistory # << >>
    /\ LET previous == Last(queueHistory) IN
          /\ queueRequest' = previous.request
          /\ queue' = previous.page
    /\ queueHistory' = Front(queueHistory)
    /\ UNCHANGED <<serverVars, shown, pending, loadError, callVars>>

(* Start now, on an entry of the page that is shown as startable. *)
StartNow ==
    /\ pending = "none" /\ ~loadError /\ queue # None
    /\ \E n \in DOMAIN queue.items :
          /\ queue.items[n].status = "open"
          /\ call' = [is |-> "start", tenure |-> queue.items[n].tenure]
    /\ pending' = "start"
    /\ UNCHANGED <<serverVars, shown, queue, queueRequest, queueHistory, loadError,
                   refreshing, superseded, failures>>

(* Pause, resume, enable or disable. *)
SwitchDispatch ==
    /\ pending = "none" /\ ~loadError
    /\ pending' = "dispatch" /\ call' = [is |-> "switch"]
    /\ UNCHANGED <<serverVars, shown, queue, queueRequest, queueHistory, loadError,
                   refreshing, superseded, failures>>

(* A command is answered: the dispatch state it returns is shown, a start  *)
(* goes back to the first page, and a refresh begins in the same turn.     *)
CommandAnswered ==
    /\ call.is \in {"started", "switched"}
    /\ shown' = IF call.is = "switched" THEN call.dispatch ELSE shown
    /\ queueRequest' = IF call.is = "started" THEN FirstPage ELSE queueRequest
    /\ queueHistory' = IF call.is = "started" THEN << >> ELSE queueHistory
    /\ pending' = "none" /\ call' = None
    /\ BeginRefresh(queueRequest')
    /\ UNCHANGED <<serverVars, queue, loadError, failures>>

(* Mutant of CallFails: the control stays busy. *)
CallFailsBusy ==
    /\ failures < MaxFailures /\ call # None
    /\ failures' = failures + 1
    /\ call' = None
    /\ UNCHANGED <<serverVars, screenVars, refreshing, superseded>>

(* The call fails, before or after the service acted on it.  A page that   *)
(* cannot be read disconnects the screen; a command leaves a notice.       *)
CallFails ==
    /\ failures < MaxFailures /\ call # None
    /\ failures' = failures + 1
    /\ pending' = "none" /\ call' = None
    /\ loadError' = (loadError \/ call.is \in {"next", "page"})
    /\ UNCHANGED <<serverVars, shown, queue, queueRequest, queueHistory,
                   refreshing, superseded>>

------------------------------------------------------------------------------
ServiceNext == QueueChanges \/ DispatchChanges \/ ServeRefresh \/ ServeCall

ScreenNext ==
    \/ RefreshDue \/ RefreshArrives \/ SupersededArrives \/ RefreshFails
    \/ NextPage \/ NextPageArrives \/ PreviousPage
    \/ StartNow \/ SwitchDispatch \/ CommandAnswered \/ CallFails

Next == ServiceNext \/ ScreenNext

Spec == Init /\ [][Next]_vars

------------------------------------------------------------------------------
Versions == [tenure : Tenures, status : {"open", "admitted", "left"}]
Pages == [items : Seq(Versions), at : Nat, mark : 0..MaxVersions, next : Nat]
Requests == [cursor : Nat, mark : 0..MaxVersions]

Refreshes == [is : {"refresh"}, request : Requests,
              snapshot : Seq(0..MaxSwitches), queue : Seq(Pages)]

CallRecords ==
    [is : {"next"}, request : Requests, from : Pages]
       \cup [is : {"page"}, page : Pages, from : Pages]
       \cup [is : {"start"}, tenure : Tenures]
       \cup [is : {"started", "switch"}]
       \cup [is : {"switched"}, dispatch : 0..MaxSwitches]

TypeOK ==
    /\ log \in Seq(Versions) /\ Len(log) <= MaxVersions
    /\ dispatch \in 0..MaxSwitches /\ shown \in 0..MaxSwitches
    /\ queue \in Pages \cup {None} /\ queueRequest \in Requests
    /\ queueHistory \in Seq([page : Pages, request : Requests])
    /\ pending \in {"none", "queue-next", "start", "dispatch"}
    /\ (pending = "none") = (call = None)
    /\ loadError \in BOOLEAN /\ failures \in 0..MaxFailures
    /\ {refreshing, superseded} \subseteq Refreshes \cup {None}
    /\ call \in CallRecords \cup {None}

(* The pages the operator went through to the one on the screen. *)
Trail == [n \in DOMAIN queueHistory |-> queueHistory[n].page]
            \o (IF queue = None THEN << >> ELSE <<queue>>)

(* What the operator paged through is one piece of the queue as it was at  *)
(* one moment, with no entry missing and none twice, whatever the service  *)
(* admitted, ended or added and whatever refreshes, starts and pages       *)
(* arrived in between (docs/decisions/operator-product.md:116; listQueue,  *)
(* nextQueuePage, refresh).                                                *)
PagesJoin ==
    Trail # << >> =>
       LET first == Trail[1]
           then == QueueRows(SubSeq(log, 1, first.mark))
           items == FlattenSeq([n \in DOMAIN Trail |-> Trail[n].items])
       IN /\ items = SubSeq(then, first.at + 1, first.at + Len(items))
          /\ Last(Trail).next = 0 => first.at + Len(items) = Len(then)

(* The dispatch state on the screen never goes back to an older one: a     *)
(* refresh that a later one or a command overtook is not shown any more    *)
(* (refreshGeneration).  The one exception is the answer to a command that *)
(* arrives after a refresh has shown a later change, and with it the next  *)
(* refresh begins.                                                         *)
ShownNeverOlder ==
    [][shown' < shown => call.is = "switched" /\ refreshing' = Refresh(queueRequest)]_vars
=============================================================================
