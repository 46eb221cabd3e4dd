-------------------------------- MODULE Inspector --------------------------------
(***************************************************************************)
(* The attempt inspector of the browser console (AttemptInspector.tsx):    *)
(* the operator opens attempts of one issue, pages through their evidence  *)
(* and controls them; every call may be answered after later ones, or      *)
(* after the operator has moved on, and any call may fail.                 *)
(*                                                                         *)
(* The generation numbers of the code are only compared with the current   *)
(* one, so a call of an earlier generation is "outdated": its answer is    *)
(* dropped whatever it says.                                               *)
(* Transcript and events have the same code: "transcript" stands for both. *)
(* What an attempt offers (availableActions) and controlsDisabled only     *)
(* take controls away; here every attempt on the screen offers one.        *)
(***************************************************************************)
EXTENDS ReadPages

CONSTANTS
    Attempts,     \* retained attempts of one issue
    Calls,        \* bound: calls under way at once
    Limit,        \* DETAIL_PAGE_SIZE and SIBLING_LIMIT
    MaxEntries,   \* bound: transcript entries of an attempt
    MaxRelated,   \* bound: attempts of the issue
    MaxCommands,  \* bound: commands of this screen
    MaxFailures   \* bound: calls that fail

None == [is |-> "none"]

ASSUME InspectorAssumption ==
    /\ IsFiniteSet(Attempts) /\ IsFiniteSet(Calls)
    /\ None \notin Attempts
    /\ Limit \in Nat \ {0}
    /\ {MaxEntries, MaxRelated, MaxCommands, MaxFailures} \subseteq Nat
    /\ Cardinality(Attempts) <= MaxRelated

VARIABLES
    entries,     \* attempt_transcript: the number of rows of each attempt
    related,     \* assignments of the issue: their number
    commands,    \* lifecycle_commands, in the order they were accepted
    selected,    \* selectedAttemptId
    attempt,     \* the attempt of the screen
    transcript,  \* its transcript so far
    siblings,    \* its siblings so far, with siblingPage
    command,     \* the command that is shown
    detailError, detailLoading, stateRefreshing, siblingLoading,
    control,     \* runControl under way (commandSubmitting)
    calls,       \* the calls under way
    issued,      \* commands issued so far
    failures     \* calls that failed so far

serverVars == <<entries, related, commands>>
evidenceVars == <<transcript, siblings>>
flagVars == <<detailError, detailLoading, stateRefreshing, siblingLoading>>
shownVars == <<attempt, evidenceVars, command, flagVars>>
boundVars == <<issued, failures>>
vars == <<serverVars, selected, shownVars, control, calls, boundVars>>

(* A call, with the list or the command that it is about, and what it read *)
Call(kind, a) ==
    [is |-> kind, of |-> a, by |-> "screen", from |-> None, id |-> 0, read |-> << >>]

NoCall == Call("none", None)

Init ==
    /\ entries = [a \in Attempts |-> 0] /\ related = Cardinality(Attempts)
    /\ commands = << >>
    /\ selected = None /\ attempt = None /\ transcript = None /\ siblings = None
    /\ command = None
    /\ detailError = FALSE /\ detailLoading = FALSE
    /\ stateRefreshing = FALSE /\ siblingLoading = FALSE
    /\ control = None /\ calls = [c \in Calls |-> NoCall]
    /\ issued = 0 /\ failures = 0

------------------------------------------------------------------------------
(* The service *)

(* Transcript rows in their order; attempts of the issue, newest first.    *)
Transcript(n) == [k \in 1..n |-> k]
Related(n) == [k \in 1..n |-> n + 1 - k]

LatestOf(a) ==
    LET own == {n \in DOMAIN commands : commands[n].of = a}
    IN IF own = {} THEN None ELSE commands[Max(own)]
WithId(id) ==
    LET own == {n \in DOMAIN commands : commands[n].id = id}
    IN IF own = {} THEN None ELSE commands[Max(own)]

RowsAppear ==
    /\ \/ /\ \E a \in Attempts :
                entries[a] < MaxEntries /\ entries' = [entries EXCEPT ![a] = @ + 1]
          /\ UNCHANGED related
       \/ /\ related < MaxRelated /\ related' = related + 1
          /\ UNCHANGED entries
    /\ UNCHANGED <<commands, selected, shownVars, control, calls, boundVars>>

(* Mutant of Accepts: a command that is sent again is accepted again.      *)
AcceptsAgain ==
    /\ control.is = "asking"
    /\ commands' = Append(commands, [is |-> "command", id |-> control.id,
                                     of |-> control.of, phase |-> "accepted"])
    /\ UNCHANGED <<entries, related, selected, shownVars, control, calls, boundVars>>

(* The command of the screen is accepted, and becomes final whatever the   *)
(* screen does (controlAttempt).  The screen treats "executing" as it does *)
(* "accepted".                                                             *)
Accepts ==
    /\ control.is = "asking" /\ WithId(control.id) = None
    /\ commands' = Append(commands, [is |-> "command", id |-> control.id,
                                     of |-> control.of, phase |-> "accepted"])
    /\ UNCHANGED <<entries, related, selected, shownVars, control, calls, boundVars>>

Proceeds ==
    /\ \E n \in DOMAIN commands :
          /\ commands[n].phase # "final"
          /\ commands' = [commands EXCEPT ![n].phase = "final"]
    /\ UNCHANGED <<entries, related, selected, shownVars, control, calls, boundVars>>

(* What a call reads.  The five reads that follow the first of loadDetail  *)
(* are served together: nothing relates them to each other.                *)
Answer(call) ==
    CASE call.is = "detail" ->
           [transcript |-> Page(Transcript(entries[call.of]), 0, Limit, entries[call.of]),
            siblings |-> Page(Related(related), 0, Limit, related),
            command |-> LatestOf(call.of)]
      [] call.is = "refresh" -> LatestOf(call.of)
      [] call.is = "transcript" ->
           Page(Transcript(call.from.mark), call.from.next, Limit, call.from.mark)
      [] call.is = "siblings" ->
           Page(Related(call.from.mark), call.from.next, Limit, call.from.mark)
      [] call.is = "poll" -> WithId(call.id)

Serve ==
    /\ \E c \in Calls :
          /\ calls[c].is \notin {"none", "outdated"} /\ calls[c].read = << >>
          /\ calls' = [calls EXCEPT ![c].read = <<Answer(calls[c])>>]
    /\ UNCHANGED <<serverVars, selected, shownVars, control, boundVars>>

------------------------------------------------------------------------------
(* Calls *)

(* A new generation for calls of these kinds. *)
Outdated(kinds) ==
    [c \in Calls |-> IF calls[c].is \in kinds
                     THEN [Call("outdated", None) EXCEPT !.by = calls[c].by]
                     ELSE calls[c]]

(* The calls of "new" are sent, each in a free slot of "now". *)
Sends(now, new) ==
    \E slot \in [DOMAIN new -> {c \in Calls : now[c] = NoCall}] :
       /\ \A m, n \in DOMAIN new : slot[m] = slot[n] => m = n
       /\ calls' = [c \in Calls |->
                      IF \E n \in DOMAIN new : slot[n] = c
                      THEN new[CHOOSE n \in DOMAIN new : slot[n] = c] ELSE now[c]]

Answered(kind, c) == calls[c].is = kind /\ calls[c].read # << >>
Without(c) == [calls EXCEPT ![c] = NoCall]

(* The operator still looks at the attempt a call was made for. *)
StillOn(call) == selected = call.of

------------------------------------------------------------------------------
(* Selecting *)

DetailKinds == {"detail", "transcript", "siblings", "refresh"}

(* Mutant of ClearsBusy: a refresh of the state keeps its flag. *)
ClearsSiblingsOnly == siblingLoading' = FALSE /\ UNCHANGED stateRefreshing

(* loadDetail begins new generations of everything the screen loads. *)
ClearsBusy == siblingLoading' = FALSE /\ stateRefreshing' = FALSE

(* The effects of a new selection: loadDetail, and refreshCurrent when the *)
(* attempt is the one that the screen has already.                         *)
Select(a) ==
    /\ selected # a /\ selected' = a
    /\ IF attempt = a
       THEN /\ siblingLoading' = FALSE /\ stateRefreshing' = TRUE
            /\ Sends(Outdated(DetailKinds),
                     <<Call("detail", a), Call("refresh", a)>>)
       ELSE ClearsBusy /\ Sends(Outdated(DetailKinds), <<Call("detail", a)>>)
    /\ detailLoading' = TRUE /\ detailError' = FALSE
    /\ UNCHANGED <<serverVars, attempt, evidenceVars, command, control, boundVars>>

Close ==
    /\ selected # None /\ selected' = None
    /\ UNCHANGED <<serverVars, shownVars, control, calls, boundVars>>

(* A page as the list of an attempt. *)
ListOf(a, page) == [of |-> a, items |-> page.items, at |-> page.at,
                    mark |-> page.mark, next |-> page.next]

DetailArrives ==
    \E c \in Calls :
       /\ Answered("detail", c)
       /\ calls' = Without(c)
       /\ attempt' = calls[c].of
       /\ transcript' = ListOf(calls[c].of, calls[c].read[1].transcript)
       /\ siblings' = ListOf(calls[c].of, calls[c].read[1].siblings)
       /\ command' = calls[c].read[1].command
       /\ detailError' = FALSE /\ detailLoading' = FALSE
       /\ UNCHANGED <<serverVars, selected, stateRefreshing, siblingLoading,
                      control, boundVars>>

------------------------------------------------------------------------------
(* refreshCurrent, when the overview has been refreshed *)

RefreshVersionChanges ==
    /\ selected # None /\ attempt = selected
    /\ stateRefreshing' = TRUE
    /\ Sends(Outdated({"refresh"}), <<Call("refresh", selected)>>)
    /\ UNCHANGED <<serverVars, selected, attempt, evidenceVars, command, detailError,
                   detailLoading, siblingLoading, control, boundVars>>

RefreshArrives ==
    \E c \in Calls :
       /\ Answered("refresh", c)
       /\ calls' = Without(c)
       /\ stateRefreshing' = FALSE
       /\ IF StillOn(calls[c])
          THEN /\ attempt' = calls[c].of /\ command' = calls[c].read[1]
               /\ detailError' = FALSE
          ELSE UNCHANGED <<attempt, command, detailError>>
       /\ UNCHANGED <<serverVars, selected, evidenceVars, detailLoading, siblingLoading,
                      control, boundVars>>

------------------------------------------------------------------------------
(* Evidence pages *)

Displayed == selected # None /\ attempt = selected

(* Nothing disables the button: a second click asks for the same page.     *)
LoadMoreTranscript ==
    /\ Displayed /\ transcript.next # 0
    /\ Sends(calls, <<[Call("transcript", attempt) EXCEPT !.from = transcript]>>)
    /\ UNCHANGED <<serverVars, selected, shownVars, control, boundVars>>

(* Mutant of Joined: the rows follow what the screen has now. *)
JoinedNow(from, page) == [transcript EXCEPT !.items = @ \o page.items,
                                            !.next = page.next]

(* The rows of the page follow those the click was made on. *)
Joined(from, page) == [from EXCEPT !.items = @ \o page.items, !.next = page.next]

TranscriptArrives ==
    \E c \in Calls :
       /\ Answered("transcript", c)
       /\ calls' = Without(c)
       /\ transcript' = IF StillOn(calls[c])
                        THEN Joined(calls[c].from, calls[c].read[1]) ELSE transcript
       /\ UNCHANGED <<serverVars, selected, attempt, siblings, command, flagVars,
                      control, boundVars>>

LoadMoreSiblings ==
    /\ Displayed /\ siblings.next # 0 /\ ~siblingLoading
    /\ siblingLoading' = TRUE
    /\ Sends(calls, <<[Call("siblings", attempt) EXCEPT !.from = siblings]>>)
    /\ UNCHANGED <<serverVars, selected, attempt, evidenceVars, command, detailError,
                   detailLoading, stateRefreshing, control, boundVars>>

SiblingsArrive ==
    \E c \in Calls :
       /\ Answered("siblings", c)
       /\ calls' = Without(c)
       /\ siblings' = IF StillOn(calls[c])
                      THEN [siblings EXCEPT !.items = @ \o calls[c].read[1].items,
                                            !.next = calls[c].read[1].next]
                      ELSE siblings
       /\ siblingLoading' = FALSE
       /\ UNCHANGED <<serverVars, selected, attempt, transcript, command, detailError,
                      detailLoading, stateRefreshing, control, boundVars>>

------------------------------------------------------------------------------
(* runControl *)

Unfinished == command # None /\ command.phase = "accepted"

ControlsEnabled ==
    /\ Displayed /\ ~detailError /\ ~detailLoading /\ ~stateRefreshing
    /\ control = None /\ ~Unfinished

PollOf(id) == {c \in Calls : calls[c].is = "poll" /\ calls[c].id = id}

RunControl ==
    /\ ControlsEnabled /\ issued < MaxCommands
    /\ issued' = issued + 1
    /\ control' = [is |-> "asking", of |-> attempt, id |-> issued']
    /\ command' = None
    /\ Sends(calls, <<[Call("poll", attempt) EXCEPT !.id = issued']>>)
    /\ UNCHANGED <<serverVars, selected, attempt, evidenceVars, flagVars, failures>>

(* The interval of pollCommand, one poll of a command at a time.           *)
PollAgain ==
    /\ control # None /\ PollOf(control.id) = {}
    /\ Sends(calls, <<[Call("poll", control.of) EXCEPT !.id = control.id]>>)
    /\ UNCHANGED <<serverVars, selected, shownVars, control, boundVars>>

(* Mutant of Shows: whatever attempt is selected. *)
ShowsAnywhere(a, record) == command' = record

(* A command is shown while its attempt is selected. *)
Shows(a, record) == command' = IF selected = a THEN record ELSE command

PollArrives ==
    \E c \in Calls :
       /\ Answered("poll", c)
       /\ calls' = Without(c)
       /\ IF calls[c].read[1] = None THEN UNCHANGED command
          ELSE Shows(calls[c].of, calls[c].read[1])
       /\ UNCHANGED <<serverVars, selected, attempt, evidenceVars, flagVars, control,
                      boundVars>>

(* The command is final and the service answers; the screen refreshes the  *)
(* attempt, the sessions and the overview, and waits for all three.        *)
ControlAnswered ==
    /\ control.is = "asking" /\ WithId(control.id) # None
    /\ WithId(control.id).phase = "final"
    /\ control' = [control EXCEPT !.is = "refreshing"]
    /\ Shows(control.of, WithId(control.id))
    /\ IF selected = control.of
       THEN /\ stateRefreshing' = TRUE
            /\ Sends(Outdated({"refresh"}),
                     <<[Call("refresh", control.of) EXCEPT !.by = "control"]>>)
       ELSE UNCHANGED <<stateRefreshing, calls>>
    /\ UNCHANGED <<serverVars, selected, attempt, evidenceVars, detailError,
                   detailLoading, siblingLoading, boundVars>>

(* The call fails, with or without a command behind it, or what follows    *)
(* it does: the command is looked up.                                      *)
ControlFails ==
    /\ control.is = "asking" /\ failures < MaxFailures
    /\ failures' = failures + 1
    /\ control' = [control EXCEPT !.is = "looking"]
    /\ UNCHANGED <<serverVars, selected, shownVars, calls, issued>>

(* The lookup finds the command, or not, or fails itself.  Then the screen *)
(* says that the outcome is uncertain, or that the service refused.        *)
LookedUp ==
    /\ control.is = "looking"
    /\ \/ /\ WithId(control.id) # None
          /\ Shows(control.of, WithId(control.id))
          /\ UNCHANGED failures
       \/ /\ WithId(control.id) = None \/ failures < MaxFailures
          /\ failures' = IF WithId(control.id) = None THEN failures ELSE failures + 1
          /\ Shows(control.of, [is |-> "command", id |-> control.id, of |-> control.of,
                                phase |-> "uncertain"])
    /\ control' = None
    /\ UNCHANGED <<serverVars, selected, attempt, evidenceVars, flagVars, calls, issued>>

ControlEnds ==
    /\ control.is = "refreshing"
    /\ \A c \in Calls : calls[c] # NoCall => calls[c].by # "control"
    /\ control' = None
    /\ UNCHANGED <<serverVars, selected, shownVars, calls, boundVars>>

------------------------------------------------------------------------------
(* What an outdated call brings, or that it failed, changes nothing. *)
OutdatedArrives ==
    \E c \in Calls :
       /\ calls[c].is = "outdated" /\ calls' = Without(c)
       /\ UNCHANGED <<serverVars, selected, shownVars, control, boundVars>>

(* A read fails; what a page or a poll leaves is a message at most. *)
CallFails ==
    /\ failures < MaxFailures /\ failures' = failures + 1
    /\ \E c \in Calls :
          /\ calls[c].is \notin {"none", "outdated"}
          /\ calls' = Without(c)
          /\ detailError' = (\/ detailError
                             \/ calls[c].is = "detail"
                             \/ calls[c].is = "refresh" /\ StillOn(calls[c]))
          /\ detailLoading' = (detailLoading /\ calls[c].is # "detail")
          /\ stateRefreshing' = (stateRefreshing /\ calls[c].is # "refresh")
          /\ siblingLoading' = (siblingLoading /\ calls[c].is # "siblings")
    /\ UNCHANGED <<serverVars, selected, attempt, evidenceVars, command, control, issued>>

ServiceNext == RowsAppear \/ Accepts \/ Proceeds \/ Serve

OperatorNext ==
    \/ \E a \in Attempts : Select(a)
    \/ Close \/ LoadMoreTranscript \/ LoadMoreSiblings \/ RunControl

ScreenNext ==
    \/ DetailArrives \/ RefreshVersionChanges \/ RefreshArrives
    \/ TranscriptArrives \/ SiblingsArrive
    \/ PollAgain \/ PollArrives
    \/ ControlAnswered \/ ControlFails \/ LookedUp \/ ControlEnds
    \/ OutdatedArrives \/ CallFails

Next == ServiceNext \/ OperatorNext \/ ScreenNext

Spec == Init /\ [][Next]_vars

------------------------------------------------------------------------------
Pages == [items : Seq(Nat), at : Nat, mark : Nat, next : Nat]
Lists == [of : Attempts, items : Seq(Nat), at : Nat, mark : Nat, next : Nat]
Records == [is : {"command"}, id : Nat, of : Attempts,
            phase : {"accepted", "final", "uncertain"}]
Answers == [transcript : Pages, siblings : Pages, command : Records \cup {None}]
              \cup Records \cup Pages \cup {None}
CallRecords == [is : {"none", "outdated", "detail", "refresh", "transcript",
                      "siblings", "poll"},
                of : Attempts \cup {None}, by : {"screen", "control"},
                from : Lists \cup {None}, id : 0..MaxCommands, read : Seq(Answers)]

TypeOK ==
    /\ entries \in [Attempts -> 0..MaxEntries] /\ related \in 0..MaxRelated
    /\ commands \in Seq(Records) /\ Len(commands) <= issued
    /\ selected \in Attempts \cup {None} /\ attempt \in Attempts \cup {None}
    /\ transcript \in Lists \cup {None} /\ siblings \in Lists \cup {None}
    /\ (attempt = None) = (transcript = None) /\ (attempt = None) = (siblings = None)
    /\ command \in Records \cup {None}
    /\ {detailError, detailLoading, stateRefreshing, siblingLoading} \subseteq BOOLEAN
    /\ control \in [is : {"asking", "refreshing", "looking"}, of : Attempts,
                    id : 1..MaxCommands] \cup {None}
    /\ calls \in [Calls -> CallRecords]
    /\ issued \in 0..MaxCommands /\ failures \in 0..MaxFailures

Begins(list, rows) ==
    /\ IsPrefix(list.items, rows)
    /\ (list.next = 0) = (Len(list.items) = Len(rows))

(* The transcript on the screen is the beginning of the transcript as it   *)
(* was when it was first read: no entry twice, none missing, and "more" is *)
(* offered exactly while there is more, whatever was clicked twice,        *)
(* answered late or appended meanwhile (loadMoreTranscript).               *)
TranscriptContiguous ==
    attempt # None => Begins(transcript, Transcript(transcript.mark))

(* The same of the siblings, docs/decisions/operator-product.md:116 "A     *)
(* page watermark freezes membership, values, and ordering for the         *)
(* complete traversal".                                                    *)
SiblingsContiguous ==
    attempt # None => Begins(siblings, Related(siblings.mark))

(* A flag that takes the controls away has a call behind it that will give *)
(* them back: no order of answers, failures and selections leaves a flag   *)
(* set for ever (the finally blocks and the resets of loadDetail).         *)
BusyOnlyWhileCalling ==
    LET Live(kind) == \E c \in Calls : calls[c].is = kind
    IN /\ detailLoading = Live("detail")
       /\ stateRefreshing = Live("refresh")
       /\ siblingLoading = Live("siblings")

(* While controls are offered, the command beside them is one of the       *)
(* attempt they act on (runControl, pollCommand, loadDetail).              *)
CommandOfTheAttempt ==
    ControlsEnabled => (command = None \/ command.of = attempt)

(* AttemptInspector.test.tsx:383 "switches every evidence section when a   *)
(* sibling is selected": an attempt that is shown as loaded and free of    *)
(* errors is shown with its own transcript and siblings.                   *)
EvidenceOfTheAttempt ==
    Displayed /\ ~detailLoading /\ ~detailError => transcript.of = attempt
=============================================================================
