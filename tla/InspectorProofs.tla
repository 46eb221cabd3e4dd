---------------------------- MODULE InspectorProofs ----------------------------
(***************************************************************************)
(* Proofs about the attempt inspector of the console: whatever the order   *)
(* of answers, failures, clicks and selections, its flags have calls       *)
(* behind them, its transcript has no gap, and its controls act on the     *)
(* attempt whose command it shows.                                         *)
(***************************************************************************)
EXTENDS Inspector, ReadPagesProofs, FiniteSetTheorems

------------------------------------------------------------------------------
(* The inductive invariant, in parts.                                      *)

(* At most one call of a kind that has a flag. *)
Unique(kind) ==
    \A c, d \in Calls : calls[c].is = kind /\ calls[d].is = kind => c = d

BusyInv ==
    /\ BusyOnlyWhileCalling
    /\ Unique("detail") /\ Unique("refresh") /\ Unique("siblings")

(* A list is a beginning of the transcript as it was at the watermark.     *)
Begun(list) ==
    LET n == Len(list.items)
    IN /\ n <= list.mark /\ (n < list.mark => 0 < n)
       /\ list.items = SubSeq(Transcript(list.mark), 1, n)
       /\ list.next = IF n < list.mark THEN n ELSE 0

(* What a call is about, and what it has read.  A call for more of a list  *)
(* knows the list it follows.                                              *)
CallSound(call) ==
    /\ call.is \notin {"none", "outdated"} => call.of \in Attempts
    /\ call.is \in {"transcript", "siblings"} => call.from \in Lists
    /\ call.is = "transcript" => call.from.next # 0 /\ Begun(call.from)
    /\ call.is = "poll" => call.id # 0

AnswerSound(call) ==
    call.read # << >> =>
       /\ call.is = "detail" =>
             /\ call.read[1].transcript \in Pages /\ Begun(call.read[1].transcript)
             /\ call.read[1].siblings \in Pages
             /\ call.read[1].command \in Records \cup {None}
             /\ call.read[1].command # None => call.read[1].command.of = call.of
       /\ call.is \in {"refresh", "poll"} =>
             /\ call.read[1] \in Records \cup {None}
             /\ call.read[1] # None => call.read[1].of = call.of
       /\ call.is = "transcript" =>
             call.read[1] = Page(Transcript(call.from.mark), call.from.next, Limit,
                                 call.from.mark)
       /\ call.is = "siblings" => call.read[1] \in Pages

CallInv ==
    \A c \in Calls :
       /\ CallSound(calls[c]) /\ AnswerSound(calls[c])
       /\ calls[c].is \in {"refresh", "transcript", "siblings"} => attempt # None
       /\ calls[c].is = "poll" => calls[c].id <= issued

TranscriptInv == attempt # None => Begun(transcript)

(* The control of the screen is the last one issued.  What a command, a    *)
(* control and a poll say of the same identity is the same attempt.        *)
CommandInv ==
    /\ control # None => control.id = issued /\ attempt # None
    /\ \A n \in DOMAIN commands :
          /\ commands[n].id \in 1..issued
          /\ control # None /\ commands[n].id = control.id =>
                commands[n].of = control.of
          /\ \A c \in Calls :
                calls[c].is = "poll" /\ calls[c].id = commands[n].id =>
                   calls[c].of = commands[n].of
    /\ \A c \in Calls :
          control # None /\ calls[c].is = "poll" /\ calls[c].id = control.id =>
             calls[c].of = control.of
    /\ control # None /\ Len(commands) = issued =>
          \E n \in DOMAIN commands : commands[n].id = control.id

(* Unless something is still loading or has failed, the command beside the *)
(* attempt is one of its own.                                              *)
ShownInv ==
    Displayed /\ ~detailLoading /\ ~detailError =>
       (command = None \/ command.of = attempt)

IInv == TypeOK /\ BusyInv /\ CallInv /\ TranscriptInv /\ CommandInv /\ ShownInv

------------------------------------------------------------------------------
(* What the actions do to the calls.                                       *)

LEMMA NoneIsNothing ==
  /\ None \notin Attempts /\ None \notin Lists /\ None \notin Records /\ None \notin Pages
<1>1. None.is = "none" /\ \A r \in Records : r.is = "command"
  BY DEF None, Records
<1>2. None \notin Lists /\ None \notin Pages
  <2>1. \A l \in Lists : "items" \in DOMAIN l
    BY DEF Lists
  <2>2. \A l \in Pages : "items" \in DOMAIN l
    BY DEF Pages
  <2>3. "items" \notin DOMAIN None
    BY DEF None
  <2>. QED
    BY <2>1, <2>2, <2>3
<1>. QED
  BY <1>1, <1>2, InspectorAssumption DEF InspectorAssumption

LEMMA CallsTyped ==
  /\ NoCall \in CallRecords /\ NoCall.is = "none" /\ NoCall.read = << >>
  /\ << >> \in Seq(Answers)
  /\ 0 \in 0..MaxCommands
<1>1. << >> \in Seq(Answers)
  OBVIOUS
<1>2. 0 \in 0..MaxCommands
  BY InspectorAssumption DEF InspectorAssumption
<1>. QED
  BY <1>1, <1>2 DEF NoCall, Call, CallRecords

(* One call is sent, in a free slot. *)
LEMMA SendsOne ==
  ASSUME NEW STATE now, NEW STATE k, Sends(now, <<k>>)
  PROVE  \E c \in Calls : /\ now[c] = NoCall
                          /\ calls' = [e \in Calls |-> IF e = c THEN k ELSE now[e]]
<1>1. PICK slot \in [1..1 -> {c \in Calls : now[c] = NoCall}] :
        calls' = [c \in Calls |->
                    IF \E n \in 1..1 : slot[n] = c
                    THEN <<k>>[CHOOSE n \in 1..1 : slot[n] = c] ELSE now[c]]
  <2>1. DOMAIN <<k>> = 1..1
    OBVIOUS
  <2>. QED
    BY <2>1 DEF Sends
<1>2. slot[1] \in Calls /\ now[slot[1]] = NoCall
  OBVIOUS
<1>3. \A n \in 1..1 : n = 1
  OBVIOUS
<1>4. ASSUME NEW c \in Calls
      PROVE  (IF \E n \in 1..1 : slot[n] = c
              THEN <<k>>[CHOOSE n \in 1..1 : slot[n] = c] ELSE now[c])
             = (IF c = slot[1] THEN k ELSE now[c])
  BY <1>3
<1>. QED
  BY <1>1, <1>2, <1>4

(* Two calls are sent, in two free slots. *)
LEMMA SendsTwo ==
  ASSUME NEW STATE now, NEW STATE k, NEW STATE l, Sends(now, <<k, l>>)
  PROVE  \E c, d \in Calls :
           /\ c # d /\ now[c] = NoCall /\ now[d] = NoCall
           /\ calls' = [e \in Calls |-> IF e = c THEN k ELSE IF e = d THEN l ELSE now[e]]
<1>1. PICK slot \in [1..2 -> {c \in Calls : now[c] = NoCall}] :
        /\ \A m, n \in 1..2 : slot[m] = slot[n] => m = n
        /\ calls' = [c \in Calls |->
                       IF \E n \in 1..2 : slot[n] = c
                       THEN <<k, l>>[CHOOSE n \in 1..2 : slot[n] = c] ELSE now[c]]
  <2>1. DOMAIN <<k, l>> = 1..2
    OBVIOUS
  <2>. QED
    BY <2>1 DEF Sends
<1>2. /\ slot[1] \in Calls /\ now[slot[1]] = NoCall
      /\ slot[2] \in Calls /\ now[slot[2]] = NoCall
      /\ slot[1] # slot[2]
  BY <1>1
<1>3. \A n \in 1..2 : n = 1 \/ n = 2
  OBVIOUS
<1>4. ASSUME NEW c \in Calls
      PROVE  (IF \E n \in 1..2 : slot[n] = c
              THEN <<k, l>>[CHOOSE n \in 1..2 : slot[n] = c] ELSE now[c])
             = (IF c = slot[1] THEN k ELSE IF c = slot[2] THEN l ELSE now[c])
  BY <1>2, <1>3
<1>. QED
  BY <1>1, <1>2, <1>4

(* A call that is over, and the calls of an earlier generation.            *)
LEMMA WithoutTyped ==
  ASSUME calls \in [Calls -> CallRecords], NEW c \in Calls
  PROVE  /\ Without(c) \in [Calls -> CallRecords]
         /\ Without(c)[c] = NoCall
         /\ \A d \in Calls \ {c} : Without(c)[d] = calls[d]
  BY CallsTyped DEF Without

LEMMA OutdatedTyped ==
  ASSUME calls \in [Calls -> CallRecords], NEW kinds
  PROVE  /\ Outdated(kinds) \in [Calls -> CallRecords]
         /\ \A c \in Calls : calls[c].is \in kinds => Outdated(kinds)[c].is = "outdated"
         /\ \A c \in Calls : calls[c].is \notin kinds => Outdated(kinds)[c] = calls[c]
<1>1. ASSUME NEW c \in Calls
      PROVE  LET k == [Call("outdated", None) EXCEPT !.by = calls[c].by]
             IN k \in CallRecords /\ k.is = "outdated"
  <2>1. calls[c].by \in {"screen", "control"}
    BY DEF CallRecords
  <2>2. PICK by \in {"screen", "control"} : by = calls[c].by
    BY <2>1
  <2>3. LET k == [Call("outdated", None) EXCEPT !.by = by]
        IN k \in CallRecords /\ k.is = "outdated"
    BY CallsTyped DEF Call, CallRecords
  <2>. QED
    BY <2>2, <2>3
<1>. QED
  BY <1>1 DEF Outdated

(* The command that the service finds is one of the attempt, or has the    *)
(* identity, that was asked for.                                           *)
LEMMA LatestFound ==
  ASSUME commands \in Seq(Records), NEW a
  PROVE  \/ LatestOf(a) = None
         \/ LatestOf(a) \in Records /\ LatestOf(a).of = a
<1>. DEFINE own == {n \in DOMAIN commands : commands[n].of = a}
<1>1. DOMAIN commands = 1..Len(commands) /\ Len(commands) \in Nat
  OBVIOUS
<1>2. CASE own = {}
  BY <1>2 DEF LatestOf
<1>3. CASE own # {}
  <2>1. Max(own) \in own
    BY <1>1, <1>3, MaxOf
  <2>2. LatestOf(a) = commands[Max(own)]
    BY <1>3 DEF LatestOf
  <2>. QED
    BY <2>1, <2>2
<1>. QED
  BY <1>2, <1>3

LEMMA Found ==
  ASSUME commands \in Seq(Records), NEW id
  PROVE  \/ /\ WithId(id) = None
            /\ \A n \in DOMAIN commands : commands[n].id # id
         \/ \E n \in DOMAIN commands :
               WithId(id) = commands[n] /\ commands[n].id = id
<1>. DEFINE own == {n \in DOMAIN commands : commands[n].id = id}
<1>1. DOMAIN commands = 1..Len(commands) /\ Len(commands) \in Nat
  OBVIOUS
<1>2. CASE own = {}
  BY <1>2 DEF WithId
<1>3. CASE own # {}
  <2>1. Max(own) \in own
    BY <1>1, <1>3, MaxOf
  <2>2. WithId(id) = commands[Max(own)]
    BY <1>3 DEF WithId
  <2>. QED
    BY <2>1, <2>2
<1>. QED
  BY <1>2, <1>3

LEMMA RowsTyped ==
  ASSUME NEW n \in Nat
  PROVE  /\ Transcript(n) \in Seq(Nat) /\ Len(Transcript(n)) = n
         /\ Related(n) \in Seq(Nat) /\ Len(Related(n)) = n
<1>1. \A k \in 1..n : k \in Nat /\ n + 1 - k \in Nat
  OBVIOUS
<1>. QED
  BY <1>1 DEF Transcript, Related

(* The first page of a transcript begins it, and a list that begins it is  *)
(* followed by what its next page holds.                                   *)
LEMMA FirstBegins ==
  ASSUME NEW n \in Nat
  PROVE  LET page == Page(Transcript(n), 0, Limit, n)
         IN page \in Pages /\ Begun(page)
<1>1. Transcript(n) \in Seq(Nat) /\ Len(Transcript(n)) = n /\ Limit \in Nat \ {0}
  BY RowsTyped, InspectorAssumption DEF InspectorAssumption
<1>2. PICK end \in 0..n :
        /\ 0 < n => 0 < end
        /\ Page(Transcript(n), 0, Limit, n) =
             [items |-> SubSeq(Transcript(n), 0 + 1, end), at |-> 0, mark |-> n,
              next |-> IF end < n THEN end ELSE 0]
  <2>. DEFINE rows == Transcript(n)
  <2>1. rows \in Seq(Nat) /\ Len(rows) = n /\ Limit \in Nat \ {0}
    BY <1>1
  <2>2. 0 \in 0..Len(rows)
    BY <2>1
  <2>. HIDE DEF rows
  <2>3. \E end \in 0..Len(rows) :
           /\ 0 < Len(rows) => 0 < end
           /\ Page(rows, 0, Limit, n) =
                [items |-> SubSeq(rows, 0 + 1, end), at |-> 0, mark |-> n,
                 next |-> IF end < Len(rows) THEN end ELSE 0]
    BY <2>1, <2>2, PageHolds
  <2>. QED
    BY <2>1, <2>3 DEF rows
<1>3. Len(SubSeq(Transcript(n), 1, end)) = end
  <2>1. 0 \in 0..n /\ end \in 0..n
    OBVIOUS
  <2>. QED
    BY <1>1, <2>1, PageFollows
<1>4. Page(Transcript(n), 0, Limit, n) \in Pages
  BY <1>1, PageTyped DEF Pages
<1>. QED
  BY <1>2, <1>3, <1>4 DEF Begun

LEMMA JoinedBegins ==
  ASSUME NEW from \in Lists, Begun(from), from.next # 0
  PROVE  LET page == Page(Transcript(from.mark), from.next, Limit, from.mark)
         IN page \in Pages /\ Joined(from, page) \in Lists /\ Begun(Joined(from, page))
<1>. DEFINE n == from.mark
            m == Len(from.items)
            page == Page(Transcript(n), from.next, Limit, n)
<1>0. n \in Nat /\ from.items \in Seq(Nat) /\ m \in Nat
  BY DEF Lists
<1>1. Transcript(n) \in Seq(Nat) /\ Len(Transcript(n)) = n /\ Limit \in Nat \ {0}
  BY <1>0, RowsTyped, InspectorAssumption DEF InspectorAssumption
<1>2. m < n /\ from.next = m /\ m \in 0..n /\ from.items = SubSeq(Transcript(n), 1, m)
  BY <1>0 DEF Begun
<1>3. PICK end \in m..n :
        /\ m < end
        /\ page = [items |-> SubSeq(Transcript(n), m + 1, end), at |-> m, mark |-> n,
                   next |-> IF end < n THEN end ELSE 0]
  <2>. HIDE DEF n, m
  <2>1. m \in 0..Len(Transcript(n))
    BY <1>1, <1>2
  <2>2. PICK end \in m..Len(Transcript(n)) :
          /\ m < Len(Transcript(n)) => m < end
          /\ Page(Transcript(n), m, Limit, n) =
               [items |-> SubSeq(Transcript(n), m + 1, end), at |-> m, mark |-> n,
                next |-> IF end < Len(Transcript(n)) THEN end ELSE 0]
    BY <1>1, <2>1, PageHolds
  <2>. QED
    BY <1>1, <1>2, <2>2 DEF page
<1>4. /\ SubSeq(Transcript(n), 1, m) \o SubSeq(Transcript(n), m + 1, end)
           = SubSeq(Transcript(n), 1, end)
      /\ SubSeq(Transcript(n), 1, end) \in Seq(Nat)
      /\ Len(SubSeq(Transcript(n), 1, end)) = end
  <2>. HIDE DEF n, m
  <2>. QED
    <3>1. m \in 0..Len(Transcript(n)) /\ end \in m..Len(Transcript(n))
      BY <1>1, <1>2, <1>3
    <3>. QED
      BY <1>1, <3>1, PageFollows
<1>5. page \in Pages
  BY <1>0, <1>1, <1>2, PageTyped DEF Pages
<1>6. page.next \in Nat /\ page.items = SubSeq(Transcript(n), m + 1, end)
      /\ page.next = IF end < n THEN end ELSE 0
  BY <1>3, <1>5 DEF Pages
<1>7. from.items \o page.items = SubSeq(Transcript(n), 1, end)
  BY <1>2, <1>4, <1>6
<1>. HIDE DEF page, n, m
<1>8. /\ Joined(from, page) \in Lists /\ Joined(from, page).mark = from.mark
      /\ Joined(from, page).items = SubSeq(Transcript(n), 1, end)
      /\ Joined(from, page).next = page.next
  BY <1>4, <1>6, <1>7 DEF Joined, Lists
<1>9. Begun(Joined(from, page))
  <2>1. PICK list \in Lists : list = Joined(from, page)
    BY <1>8
  <2>2. list.items = SubSeq(Transcript(list.mark), 1, end) /\ list.mark = n
    BY <1>8, <2>1 DEF n
  <2>3. Len(list.items) = end
    BY <1>4, <2>2
  <2>4. list.next = IF end < n THEN end ELSE 0
    BY <1>6, <1>8, <2>1
  <2>5. end <= n /\ 0 < end
    BY <1>0, <1>2, <1>3
  <2>. QED
    BY <2>1, <2>2, <2>3, <2>4, <2>5 DEF Begun
<1>. QED
  BY <1>5, <1>8, <1>9 DEF page, n

------------------------------------------------------------------------------
(* The parts of the invariant, when what they are about does not change.   *)

LEMMA BusyKept ==
  ASSUME BusyInv, UNCHANGED <<detailLoading, stateRefreshing, siblingLoading>>,
         \A c \in Calls, kind \in {"detail", "refresh", "siblings"} :
           (calls'[c].is = kind) = (calls[c].is = kind)
  PROVE  BusyInv'
  BY DEF BusyInv, BusyOnlyWhileCalling, Unique

LEMMA CallsKept ==
  ASSUME CallInv, TypeOK, TypeOK', attempt # None => attempt' # None, issued <= issued',
         \A c \in Calls :
           \/ calls'[c] = calls[c]
           \/ calls'[c].is \in {"none", "outdated"}
           \/ /\ CallSound(calls'[c]) /\ AnswerSound(calls'[c])
              /\ calls'[c].is \in {"refresh", "transcript", "siblings"} => attempt' # None
              /\ calls'[c].is = "poll" => calls'[c].id <= issued'
  PROVE  CallInv'
<1>. SUFFICES ASSUME NEW c \in Calls
              PROVE  /\ CallSound(calls'[c]) /\ AnswerSound(calls'[c])
                     /\ calls'[c].is \in {"refresh", "transcript", "siblings"} => attempt' # None
                     /\ calls'[c].is = "poll" => calls'[c].id <= issued'
  BY DEF CallInv
<1>1. calls[c].id \in Int /\ issued \in Int /\ issued' \in Int
  <2>1. calls[c] \in CallRecords
    BY DEF TypeOK
  <2>. QED
    BY <2>1, InspectorAssumption DEF TypeOK, CallRecords, InspectorAssumption
<1>2. CASE calls'[c] = calls[c]
  <2>1. calls[c].is = "poll" => calls[c].id <= issued'
    BY <1>1 DEF CallInv
  <2>. QED
    BY <1>2, <2>1 DEF CallInv
<1>3. CASE calls'[c].is \in {"none", "outdated"}
  BY <1>3 DEF CallSound, AnswerSound
<1>. QED
  BY <1>2, <1>3

LEMMA TranscriptKept ==
  ASSUME TranscriptInv, UNCHANGED <<attempt, transcript>>
  PROVE  TranscriptInv'
  BY DEF TranscriptInv, Begun

LEMMA CommandsKept ==
  ASSUME CommandInv, UNCHANGED <<commands, control, issued>>, attempt # None => attempt' # None,
         \A c \in Calls : calls'[c].is = "poll" =>
           \E d \in Calls : /\ calls[d].is = "poll" /\ calls[d].id = calls'[c].id
                           /\ calls[d].of = calls'[c].of
  PROVE  CommandInv'
  BY DEF CommandInv

LEMMA ShownKept ==
  ASSUME ShownInv, UNCHANGED <<selected, attempt, command, detailLoading, detailError>>
  PROVE  ShownInv'
  BY DEF ShownInv, Displayed

------------------------------------------------------------------------------
(* The service *)

LEMMA RowsAppearKeeps ==
  ASSUME IInv, RowsAppear
  PROVE  IInv'
<1>. USE DEF IInv
<1>1. UNCHANGED <<commands, selected, shownVars, control, calls, boundVars>>
  BY DEF RowsAppear
<1>2. entries' \in [Attempts -> 0..MaxEntries] /\ related' \in 0..MaxRelated
  <2>1. entries \in [Attempts -> 0..MaxEntries] /\ related \in 0..MaxRelated
    BY DEF TypeOK
  <2>2. CASE /\ \E a \in Attempts :
                   entries[a] < MaxEntries /\ entries' = [entries EXCEPT ![a] = @ + 1]
             /\ UNCHANGED related
    <3>1. PICK a \in Attempts :
            entries[a] < MaxEntries /\ entries' = [entries EXCEPT ![a] = @ + 1]
      BY <2>2
    <3>2. entries[a] + 1 \in 0..MaxEntries
      BY <2>1, <3>1, InspectorAssumption DEF InspectorAssumption
    <3>. QED
      BY <2>1, <2>2, <3>1, <3>2
  <2>3. CASE related < MaxRelated /\ related' = related + 1 /\ UNCHANGED entries
    BY <2>1, <2>3, InspectorAssumption DEF InspectorAssumption
  <2>. QED
    BY <2>2, <2>3 DEF RowsAppear
<1>3. TypeOK'
  BY <1>1, <1>2 DEF TypeOK, shownVars, evidenceVars, flagVars, boundVars
<1>. USE <1>1, <1>3 DEF shownVars, evidenceVars, flagVars, boundVars
<1>4. BusyInv'
  BY BusyKept
<1>5. CallInv'
  BY DEF CallInv
<1>6. TranscriptInv' /\ ShownInv'
  BY TranscriptKept, ShownKept
<1>7. CommandInv'
  BY DEF CommandInv
<1>. QED
  BY <1>4, <1>5, <1>6, <1>7

LEMMA AcceptsKeeps ==
  ASSUME IInv, Accepts
  PROVE  IInv'
<1>. USE DEF IInv
<1>1. UNCHANGED <<entries, related, selected, shownVars, control, calls, boundVars>>
  BY DEF Accepts
<1>2. control # None /\ control.of \in Attempts /\ control.id = issued /\ issued \in 1..MaxCommands
  <2>1. control # None
    BY DEF Accepts, None
  <2>. QED
    BY <2>1 DEF TypeOK, CommandInv
<1>3. commands \in Seq(Records) /\ Len(commands) \in Nat /\ DOMAIN commands = 1..Len(commands)
  BY DEF TypeOK
<1>4. \A n \in DOMAIN commands : commands[n].id # control.id
  <2>1. WithId(control.id) = None
    BY DEF Accepts
  <2>2. \A n \in DOMAIN commands : commands[n] # None
    BY <1>3, NoneIsNothing
  <2>. QED
    BY <1>3, <2>1, <2>2, Found
<1>. DEFINE new == [is |-> "command", id |-> control.id, of |-> control.of,
                    phase |-> "accepted"]
<1>5. new \in Records /\ new.id = control.id /\ new.of = control.of
  BY <1>2 DEF Records
<1>. HIDE DEF new
<1>6. commands' = Append(commands, new)
  BY DEF Accepts, new
<1>7. /\ commands' \in Seq(Records) /\ Len(commands') = Len(commands) + 1
      /\ DOMAIN commands' = 1..Len(commands) + 1
      /\ commands'[Len(commands) + 1] = new
      /\ \A n \in 1..Len(commands) : commands'[n] = commands[n]
  BY <1>3, <1>5, <1>6
<1>8. Len(commands) # issued /\ Len(commands) <= issued
  BY <1>2, <1>4 DEF CommandInv, TypeOK
<1>8a. Len(commands') <= issued
  <2>1. issued \in Nat
    BY <1>2, InspectorAssumption DEF InspectorAssumption
  <2>2. Len(commands') = Len(commands) + 1 /\ Len(commands) \in Nat
    BY <1>3, <1>7
  <2>. QED
    BY <1>8, <2>1, <2>2
<1>9. TypeOK'
  BY <1>1, <1>7, <1>8a DEF TypeOK, shownVars, evidenceVars, flagVars, boundVars
<1>10. BusyInv' /\ TranscriptInv' /\ ShownInv'
  BY <1>1, BusyKept, TranscriptKept, ShownKept DEF shownVars, evidenceVars, flagVars
<1>11. CallInv'
  BY <1>1 DEF CallInv, shownVars, boundVars
<1>12. CommandInv'
  <2>1. UNCHANGED <<control, calls, issued>>
    BY <1>1 DEF boundVars
  <2>2. ASSUME NEW n \in DOMAIN commands'
        PROVE  /\ commands'[n].id \in 1..issued
               /\ commands'[n].id = control.id => commands'[n].of = control.of
               /\ \A c \in Calls :
                     calls[c].is = "poll" /\ calls[c].id = commands'[n].id =>
                        calls[c].of = commands'[n].of
    <3>1. CASE n = Len(commands) + 1
      BY <1>2, <1>5, <1>7, <3>1 DEF CommandInv
    <3>2. CASE n \in DOMAIN commands
      BY <1>2, <1>3, <1>7, <3>2 DEF CommandInv
    <3>. QED
      BY <1>3, <1>7, <3>1, <3>2
  <2>3. \E n \in DOMAIN commands' : commands'[n].id = control.id
    <3>1. Len(commands) + 1 \in DOMAIN commands'
      BY <1>3, <1>7
    <3>. QED
      BY <1>5, <1>7, <3>1
  <2>. QED
    BY <1>1, <1>2, <2>1, <2>2, <2>3 DEF CommandInv, shownVars
<1>. QED
  BY <1>9, <1>10, <1>11, <1>12

LEMMA ProceedsKeeps ==
  ASSUME IInv, Proceeds
  PROVE  IInv'
<1>. USE DEF IInv
<1>1. UNCHANGED <<entries, related, selected, shownVars, control, calls, boundVars>>
  BY DEF Proceeds
<1>2. PICK m \in DOMAIN commands : commands' = [commands EXCEPT ![m].phase = "final"]
  BY DEF Proceeds
<1>3. commands \in Seq(Records) /\ Len(commands) \in Nat /\ DOMAIN commands = 1..Len(commands)
  BY DEF TypeOK
<1>4. [commands[m] EXCEPT !.phase = "final"] \in Records
  <2>1. \A r \in Records : [r EXCEPT !.phase = "final"] \in Records
    BY DEF Records
  <2>. QED
    BY <1>3, <2>1
<1>5. commands' \in Seq(Records) /\ Len(commands') = Len(commands)
      /\ DOMAIN commands' = DOMAIN commands
  BY <1>2, <1>3, <1>4
<1>6. \A n \in DOMAIN commands :
        commands'[n].id = commands[n].id /\ commands'[n].of = commands[n].of
  <2>1. \A n \in DOMAIN commands \ {m} : commands'[n] = commands[n]
    BY <1>2, <1>3
  <2>2. commands'[m] = [commands[m] EXCEPT !.phase = "final"] /\ commands[m] \in Records
    BY <1>2, <1>3
  <2>3. commands'[m].id = commands[m].id /\ commands'[m].of = commands[m].of
    BY <2>2 DEF Records
  <2>. QED
    BY <2>1, <2>3
<1>7. TypeOK'
  BY <1>1, <1>5 DEF TypeOK, shownVars, evidenceVars, flagVars, boundVars
<1>8. BusyInv' /\ TranscriptInv' /\ ShownInv'
  BY <1>1, BusyKept, TranscriptKept, ShownKept DEF shownVars, evidenceVars, flagVars
<1>9. CallInv'
  BY <1>1 DEF CallInv, shownVars, boundVars
<1>10. CommandInv'
  BY <1>1, <1>5, <1>6 DEF CommandInv, shownVars, boundVars
<1>. QED
  BY <1>7, <1>8, <1>9, <1>10

LEMMA AnswerHolds ==
  ASSUME IInv, NEW k \in CallRecords, k.is \notin {"none", "outdated"},
         CallSound(k),
         \A n \in DOMAIN commands : k.is = "poll" /\ k.id = commands[n].id =>
                                    k.of = commands[n].of
  PROVE  LET read == [k EXCEPT !.read = <<Answer(k)>>]
         IN /\ read \in CallRecords /\ CallSound(read) /\ AnswerSound(read)
            /\ read.is = k.is /\ read.of = k.of /\ read.id = k.id
<1>. DEFINE r == Answer(k)
            read == [k EXCEPT !.read = <<r>>]
<1>0. commands \in Seq(Records)
  BY DEF IInv, TypeOK
<1>1. \A n \in DOMAIN commands : commands[n] \in Records
  BY <1>0
<1>2. k.of \in Attempts
  BY DEF CallSound
<1>3. entries[k.of] \in Nat /\ related \in Nat /\ Limit \in Nat \ {0}
  BY <1>2, InspectorAssumption DEF IInv, TypeOK, InspectorAssumption
<1>4. \A n, offset \in Nat : Page(Related(n), offset, Limit, n) \in Pages
  BY <1>3, RowsTyped, PageTyped DEF Pages
<1>5. r \in Answers /\ AnswerSound([is |-> k.is, of |-> k.of, from |-> k.from, read |-> <<r>>])
  <2>1. CASE k.is = "detail"
    <3>1. PICK page : page = Page(Transcript(entries[k.of]), 0, Limit, entries[k.of])
      OBVIOUS
    <3>2. page \in Pages /\ Begun(page)
      BY <1>3, <3>1, FirstBegins
    <3>3. PICK others : others = Page(Related(related), 0, Limit, related)
      OBVIOUS
    <3>4. others \in Pages
      BY <1>3, <1>4, <3>3
    <3>5. PICK latest : latest = LatestOf(k.of)
      OBVIOUS
    <3>6. latest \in Records \cup {None} /\ (latest # None => latest.of = k.of)
      BY <1>0, <3>5, LatestFound
    <3>7. r = [transcript |-> page, siblings |-> others, command |-> latest]
      BY <2>1, <3>1, <3>3, <3>5 DEF Answer
    <3>. HIDE DEF r
    <3>. QED
      BY <2>1, <3>2, <3>4, <3>6, <3>7 DEF Answers, AnswerSound
  <2>2. CASE k.is = "refresh"
    <3>1. r = LatestOf(k.of)
      BY <2>2 DEF Answer
    <3>2. r \in Records \cup {None} /\ (r # None => r.of = k.of)
      BY <1>0, <3>1, LatestFound
    <3>. HIDE DEF r
    <3>. QED
      BY <2>2, <3>2 DEF Answers, AnswerSound
  <2>3. CASE k.is = "transcript"
    <3>1. r = Page(Transcript(k.from.mark), k.from.next, Limit, k.from.mark)
      BY <2>3 DEF Answer
    <3>2. r \in Pages
      BY <2>3, <3>1, JoinedBegins DEF CallSound
    <3>. HIDE DEF r
    <3>. QED
      BY <2>3, <3>1, <3>2 DEF Answers, AnswerSound
  <2>4. CASE k.is = "siblings"
    <3>1. r = Page(Related(k.from.mark), k.from.next, Limit, k.from.mark)
      BY <2>4 DEF Answer
    <3>2. k.from.mark \in Nat /\ k.from.next \in Nat
      BY <2>4 DEF CallSound, Lists
    <3>3. r \in Pages
      BY <1>4, <3>1, <3>2
    <3>. HIDE DEF r
    <3>. QED
      BY <2>4, <3>3 DEF Answers, AnswerSound
  <2>5. CASE k.is = "poll"
    <3>1. r = WithId(k.id)
      BY <2>5 DEF Answer
    <3>2. r \in Records \cup {None} /\ (r # None => r.of = k.of)
      BY <1>0, <1>1, <2>5, <3>1, Found
    <3>. HIDE DEF r
    <3>. QED
      BY <2>5, <3>2 DEF Answers, AnswerSound
  <2>. QED
    BY <2>1, <2>2, <2>3, <2>4, <2>5 DEF CallRecords
<1>. HIDE DEF r
<1>6. <<r>> \in Seq(Answers)
  BY <1>5
<1>7. /\ read \in CallRecords
      /\ read.is = k.is /\ read.of = k.of /\ read.id = k.id /\ read.from = k.from
      /\ read.read = <<r>>
  BY <1>6 DEF CallRecords
<1>. HIDE DEF read
<1>8. CallSound(read)
  BY <1>7 DEF CallSound
<1>9. AnswerSound(read)
  BY <1>5, <1>7 DEF AnswerSound
<1>. QED
  BY <1>7, <1>8, <1>9 DEF read, r

LEMMA ServeKeeps ==
  ASSUME IInv, Serve
  PROVE  IInv'
<1>. USE DEF IInv
<1>1. UNCHANGED <<serverVars, selected, shownVars, control, boundVars>>
  BY DEF Serve
<1>2. PICK c \in Calls :
        /\ calls[c].is \notin {"none", "outdated"}
        /\ calls' = [calls EXCEPT ![c].read = <<Answer(calls[c])>>]
  BY DEF Serve
<1>3. calls \in [Calls -> CallRecords] /\ calls[c] \in CallRecords
  BY DEF TypeOK
<1>4. PICK k \in CallRecords : k = [calls[c] EXCEPT !.read = <<Answer(calls[c])>>]
                              /\ CallSound(k) /\ AnswerSound(k)
                              /\ k.is = calls[c].is /\ k.of = calls[c].of /\ k.id = calls[c].id
  <2>1. CallSound(calls[c])
    BY DEF CallInv
  <2>2. \A n \in DOMAIN commands : calls[c].is = "poll" /\ calls[c].id = commands[n].id =>
                                    calls[c].of = commands[n].of
    BY DEF CommandInv
  <2>. QED
    BY <1>2, <1>3, <2>1, <2>2, AnswerHolds
<1>5. calls' = [calls EXCEPT ![c] = k]
  BY <1>2, <1>3, <1>4
<1>6. calls' \in [Calls -> CallRecords] /\ calls'[c] = k
      /\ \A d \in Calls \ {c} : calls'[d] = calls[d]
  BY <1>3, <1>5
<1>7. TypeOK'
  BY <1>1, <1>6 DEF TypeOK, serverVars, shownVars, evidenceVars, flagVars, boundVars
<1>8. TranscriptInv' /\ ShownInv'
  BY <1>1, TranscriptKept, ShownKept DEF shownVars, evidenceVars, flagVars
<1>9. \A d \in Calls : /\ calls'[d].is = calls[d].is /\ calls'[d].of = calls[d].of
                       /\ calls'[d].id = calls[d].id
  BY <1>4, <1>6
<1>10. BusyInv'
  BY <1>1, <1>9, BusyKept DEF shownVars, flagVars
<1>11. CallInv'
  BY <1>1, <1>4, <1>6, <1>9 DEF CallInv, shownVars, boundVars
<1>12. CommandInv'
  BY <1>1, <1>9, CommandsKept DEF serverVars, shownVars, boundVars
<1>. QED
  BY <1>7, <1>8, <1>10, <1>11, <1>12

------------------------------------------------------------------------------
(* Selecting *)

(* Two calls of the attempt are sent, or one: loadDetail, and              *)
(* refreshCurrent.                                                         *)
LEMMA SelectKeeps ==
  ASSUME IInv, NEW a \in Attempts, Select(a)
  PROVE  IInv'
<1>. USE DEF IInv
<1>1. /\ UNCHANGED <<serverVars, attempt, evidenceVars, command, control, boundVars>>
      /\ selected' = a /\ detailLoading' = TRUE /\ detailError' = FALSE /\ siblingLoading' = FALSE
      /\ stateRefreshing' = (attempt = a)
  BY DEF Select, ClearsBusy
<1>. DEFINE now == Outdated(DetailKinds)
            detail == Call("detail", a)
            refresh == Call("refresh", a)
<1>2. calls \in [Calls -> CallRecords]
  BY DEF TypeOK
<1>3. /\ now \in [Calls -> CallRecords]
      /\ \A c \in Calls : calls[c].is \in DetailKinds => now[c].is = "outdated"
      /\ \A c \in Calls : calls[c].is \notin DetailKinds => now[c] = calls[c]
  BY <1>2, OutdatedTyped
<1>4. /\ detail \in CallRecords /\ detail.is = "detail" /\ CallSound(detail) /\ AnswerSound(detail)
      /\ refresh \in CallRecords /\ refresh.is = "refresh" /\ CallSound(refresh) /\ AnswerSound(refresh)
  BY CallsTyped DEF Call, CallRecords, CallSound, AnswerSound
<1>5. PICK c \in Calls, d \in Calls :
        calls' = [e \in Calls |-> IF e = c THEN detail
                                 ELSE IF e = d /\ attempt = a THEN refresh ELSE now[e]]
        /\ (attempt = a => c # d)
  <2>1. CASE attempt = a
    <3>1. Sends(now, <<detail, refresh>>)
      BY <2>1 DEF Select
    <3>. HIDE DEF now, detail, refresh
    <3>2. PICK c, d \in Calls :
            /\ c # d
            /\ calls' = [e \in Calls |-> IF e = c THEN detail ELSE IF e = d THEN refresh ELSE now[e]]
      BY <3>1, SendsTwo
    <3>. QED
      BY <2>1, <3>2
  <2>2. CASE attempt # a
    <3>1. Sends(now, <<detail>>)
      BY <2>2 DEF Select
    <3>. HIDE DEF now, detail, refresh
    <3>2. PICK c \in Calls : calls' = [e \in Calls |-> IF e = c THEN detail ELSE now[e]]
      BY <3>1, SendsOne
    <3>. QED
      BY <2>2, <3>2
  <2>. QED
    BY <2>1, <2>2
<1>. HIDE DEF now, detail, refresh
<1>6. calls' \in [Calls -> CallRecords]
  BY <1>3, <1>4, <1>5
<1>7. TypeOK'
  BY <1>1, <1>6 DEF TypeOK, serverVars, evidenceVars, boundVars
<1>8. /\ calls'[c] = detail
      /\ attempt = a => calls'[d] = refresh
      /\ \A e \in Calls \ {c, d} : calls'[e] = now[e]
      /\ attempt # a /\ d # c => calls'[d] = now[d]
  BY <1>5
<1>9. ASSUME NEW e \in Calls
      PROVE  \/ e = c /\ calls'[e] = detail
             \/ e = d /\ e # c /\ attempt = a /\ calls'[e] = refresh
             \/ calls'[e].is = "outdated" /\ e # c /\ (attempt = a => e # d)
             \/ /\ calls'[e] = calls[e] /\ calls[e].is \notin DetailKinds
                /\ e # c /\ (attempt = a => e # d)
  <2>1. CASE e = c \/ (e = d /\ attempt = a)
    BY <1>5, <1>8, <2>1
  <2>2. CASE ~(e = c \/ (e = d /\ attempt = a))
    <3>1. calls'[e] = now[e]
      BY <1>5, <2>2
    <3>. QED
      BY <1>3, <2>2, <3>1
  <2>. QED
    BY <2>1, <2>2
<1>10. BusyInv'
  <2>1. \A e \in Calls : /\ (calls'[e].is = "detail") = (e = c)
                        /\ (calls'[e].is = "refresh") = (e = d /\ attempt = a)
                        /\ calls'[e].is # "siblings"
    BY <1>4, <1>5, <1>9 DEF DetailKinds
  <2>. QED
    BY <1>1, <2>1 DEF BusyInv, BusyOnlyWhileCalling, Unique
<1>11. CallInv'
  <2>1. issued' = issued /\ attempt' = attempt /\ issued \in Int
    BY <1>1, InspectorAssumption DEF boundVars, TypeOK, InspectorAssumption
  <2>. QED
    BY <1>4, <1>7, <1>9, <2>1, NoneIsNothing, CallsKept
<1>12. TranscriptInv'
  BY <1>1, TranscriptKept DEF evidenceVars
<1>13. CommandInv'
  BY <1>1, <1>4, <1>9, CommandsKept DEF serverVars, boundVars
<1>14. ShownInv'
  BY <1>1 DEF ShownInv
<1>. QED
  BY <1>7, <1>10, <1>11, <1>12, <1>13, <1>14

LEMMA CloseKeeps ==
  ASSUME IInv, Close
  PROVE  IInv'
<1>. USE DEF IInv, Close, serverVars, shownVars, evidenceVars, flagVars, boundVars
<1>1. TypeOK'
  BY DEF TypeOK
<1>2. BusyInv' /\ TranscriptInv'
  BY BusyKept, TranscriptKept
<1>3. CallInv' /\ CommandInv'
  BY DEF CallInv, CommandInv
<1>4. ShownInv'
  BY DEF ShownInv, Displayed
<1>. QED
  BY <1>1, <1>2, <1>3, <1>4

LEMMA DetailArrivesKeeps ==
  ASSUME IInv, DetailArrives
  PROVE  IInv'
<1>. USE DEF IInv
<1>1. PICK c \in Calls :
        /\ Answered("detail", c) /\ calls' = Without(c)
        /\ attempt' = calls[c].of
        /\ transcript' = ListOf(calls[c].of, calls[c].read[1].transcript)
        /\ siblings' = ListOf(calls[c].of, calls[c].read[1].siblings)
        /\ command' = calls[c].read[1].command
        /\ detailError' = FALSE /\ detailLoading' = FALSE
        /\ UNCHANGED <<serverVars, selected, stateRefreshing, siblingLoading, control, boundVars>>
  BY DEF DetailArrives
<1>2. calls \in [Calls -> CallRecords]
  BY DEF TypeOK
<1>3. /\ calls' \in [Calls -> CallRecords] /\ calls'[c].is = "none"
      /\ \A d \in Calls \ {c} : calls'[d] = calls[d]
  BY <1>1, <1>2, WithoutTyped, CallsTyped
<1>4. PICK page, others, latest :
        /\ page = calls[c].read[1].transcript
        /\ others = calls[c].read[1].siblings
        /\ latest = calls[c].read[1].command
  OBVIOUS
<1>5. /\ calls[c].of \in Attempts
      /\ page \in Pages /\ Begun(page) /\ others \in Pages
      /\ latest \in Records \cup {None} /\ (latest # None => latest.of = calls[c].of)
  BY <1>1, <1>4 DEF Answered, CallInv, CallSound, AnswerSound
<1>6. /\ ListOf(calls[c].of, page) \in Lists /\ ListOf(calls[c].of, others) \in Lists
      /\ Begun(ListOf(calls[c].of, page))
  <2>1. /\ \A p \in Pages : ListOf(calls[c].of, p) \in Lists
        /\ \A p \in Pages : /\ ListOf(calls[c].of, p).items = p.items
                            /\ ListOf(calls[c].of, p).mark = p.mark
                            /\ ListOf(calls[c].of, p).next = p.next
    BY <1>5 DEF ListOf, Lists, Pages
  <2>. QED
    BY <1>5, <2>1 DEF Begun
<1>7. /\ transcript' = ListOf(calls[c].of, page) /\ siblings' = ListOf(calls[c].of, others)
      /\ command' = latest
  BY <1>1, <1>4
<1>8. TypeOK'
  BY <1>1, <1>3, <1>5, <1>6, <1>7, NoneIsNothing DEF TypeOK, serverVars, boundVars
<1>9. BusyInv'
  <2>1. calls[c].is = "detail" /\ \A d \in Calls : calls[d].is = "detail" => d = c
    BY <1>1 DEF Answered, BusyInv, Unique
  <2>2. \A d \in Calls : /\ calls'[d].is # "detail"
                        /\ (calls'[d].is = "refresh") = (calls[d].is = "refresh")
                        /\ (calls'[d].is = "siblings") = (calls[d].is = "siblings")
    BY <1>3, <2>1
  <2>. QED
    BY <1>1, <2>2 DEF BusyInv, BusyOnlyWhileCalling, Unique
<1>10. CallInv'
  <2>1. attempt' # None /\ issued' = issued /\ issued \in Int
    BY <1>1, <1>5, NoneIsNothing, InspectorAssumption DEF boundVars, TypeOK, InspectorAssumption
  <2>. QED
    BY <1>3, <1>8, <2>1, CallsKept
<1>11. TranscriptInv'
  <2>1. PICK list : list = ListOf(calls[c].of, page)
    OBVIOUS
  <2>. QED
    BY <1>6, <1>7, <2>1 DEF TranscriptInv, Begun
<1>12. CommandInv'
  BY <1>1, <1>3, <1>5, NoneIsNothing, CommandsKept DEF serverVars, boundVars
<1>13. ShownInv'
  BY <1>1, <1>5, <1>7 DEF ShownInv
<1>. QED
  BY <1>8, <1>9, <1>10, <1>11, <1>12, <1>13

------------------------------------------------------------------------------
(* refreshCurrent *)

(* A step that sends one call "new", after the calls of "kinds" became     *)
(* outdated.                                                               *)
LEMMA SentOne ==
  ASSUME calls \in [Calls -> CallRecords], NEW STATE kinds, NEW STATE new,
         new \in CallRecords, Sends(Outdated(kinds), <<new>>)
  PROVE  /\ calls' \in [Calls -> CallRecords]
         /\ \E c \in Calls :
              /\ calls'[c] = new
              /\ \A d \in Calls \ {c} :
                   \/ calls[d].is \in kinds /\ calls'[d].is = "outdated"
                   \/ calls[d].is \notin kinds /\ calls'[d] = calls[d]
              /\ calls[c].is \in kinds \cup {"none"}
<1>. DEFINE now == Outdated(kinds)
<1>1. /\ now \in [Calls -> CallRecords]
      /\ \A c \in Calls : calls[c].is \in kinds => now[c].is = "outdated"
      /\ \A c \in Calls : calls[c].is \notin kinds => now[c] = calls[c]
  BY OutdatedTyped
<1>2. Sends(now, <<new>>)
  OBVIOUS
<1>. HIDE DEF now
<1>3. PICK c \in Calls : /\ now[c] = NoCall
                         /\ calls' = [e \in Calls |-> IF e = c THEN new ELSE now[e]]
  BY <1>2, SendsOne
<1>4. calls' \in [Calls -> CallRecords]
  BY <1>1, <1>3
<1>5. calls'[c] = new /\ \A d \in Calls \ {c} : calls'[d] = now[d]
  BY <1>3
<1>6. \A d \in Calls \ {c} : \/ calls[d].is \in kinds /\ calls'[d].is = "outdated"
                             \/ calls[d].is \notin kinds /\ calls'[d] = calls[d]
  BY <1>1, <1>5
<1>7. calls[c].is \in kinds \cup {"none"}
  BY <1>1, <1>3, CallsTyped
<1>. QED
  BY <1>4, <1>5, <1>6, <1>7

LEMMA RefreshVersionChangesKeeps ==
  ASSUME IInv, RefreshVersionChanges
  PROVE  IInv'
<1>. USE DEF IInv
<1>1. /\ stateRefreshing' = TRUE
      /\ UNCHANGED <<serverVars, selected, attempt, evidenceVars, command, detailError,
                     detailLoading, siblingLoading, control, boundVars>>
  BY DEF RefreshVersionChanges
<1>2. calls \in [Calls -> CallRecords] /\ selected \in Attempts
  BY DEF TypeOK, RefreshVersionChanges
<1>3. PICK new \in CallRecords : new = Call("refresh", selected)
  BY <1>2, CallsTyped DEF Call, CallRecords
<1>4. new.is = "refresh" /\ CallSound(new) /\ AnswerSound(new)
  BY <1>2, <1>3 DEF Call, CallSound, AnswerSound
<1>5. Sends(Outdated({"refresh"}), <<new>>)
  BY <1>3 DEF RefreshVersionChanges
<1>6. /\ calls' \in [Calls -> CallRecords]
      /\ \E c \in Calls :
           /\ calls'[c] = new
           /\ \A d \in Calls \ {c} :
                \/ calls[d].is \in {"refresh"} /\ calls'[d].is = "outdated"
                \/ calls[d].is \notin {"refresh"} /\ calls'[d] = calls[d]
           /\ calls[c].is \in {"refresh"} \cup {"none"}
  BY <1>2, <1>5, SentOne
<1>7. PICK c \in Calls :
        /\ calls'[c] = new /\ calls[c].is \in {"refresh", "none"}
        /\ \A d \in Calls \ {c} :
             \/ calls[d].is = "refresh" /\ calls'[d].is = "outdated"
             \/ calls[d].is # "refresh" /\ calls'[d] = calls[d]
  BY <1>6
<1>8. TypeOK'
  BY <1>1, <1>6 DEF TypeOK, serverVars, evidenceVars, boundVars
<1>9. BusyInv'
  <2>1. \A d \in Calls : /\ (calls'[d].is = "refresh") = (d = c)
                         /\ (calls'[d].is = "detail") = (calls[d].is = "detail")
                         /\ (calls'[d].is = "siblings") = (calls[d].is = "siblings")
    BY <1>4, <1>7
  <2>. QED
    BY <1>1, <2>1 DEF BusyInv, BusyOnlyWhileCalling, Unique
<1>10. CallInv'
  <2>1. attempt' = attempt /\ attempt = selected /\ issued' = issued /\ issued \in Int
    BY <1>1, InspectorAssumption
    DEF RefreshVersionChanges, boundVars, TypeOK, InspectorAssumption
  <2>. QED
    BY <1>2, <1>4, <1>7, <1>8, <2>1, NoneIsNothing, CallsKept
<1>11. TranscriptInv' /\ ShownInv'
  BY <1>1, TranscriptKept, ShownKept DEF evidenceVars
<1>12. CommandInv'
  BY <1>1, <1>4, <1>7, CommandsKept DEF serverVars, boundVars
<1>. QED
  BY <1>8, <1>9, <1>10, <1>11, <1>12

LEMMA RefreshArrivesKeeps ==
  ASSUME IInv, RefreshArrives
  PROVE  IInv'
<1>. USE DEF IInv
<1>1. PICK c \in Calls :
        /\ Answered("refresh", c) /\ calls' = Without(c)
        /\ stateRefreshing' = FALSE
        /\ IF StillOn(calls[c])
           THEN /\ attempt' = calls[c].of /\ command' = calls[c].read[1]
                /\ detailError' = FALSE
           ELSE UNCHANGED <<attempt, command, detailError>>
        /\ UNCHANGED <<serverVars, selected, evidenceVars, detailLoading, siblingLoading,
                       control, boundVars>>
  BY DEF RefreshArrives
<1>2. calls \in [Calls -> CallRecords]
  BY DEF TypeOK
<1>3. /\ calls' \in [Calls -> CallRecords] /\ calls'[c].is = "none"
      /\ \A d \in Calls \ {c} : calls'[d] = calls[d]
  BY <1>1, <1>2, WithoutTyped, CallsTyped
<1>4. PICK latest : latest = calls[c].read[1]
  OBVIOUS
<1>5. /\ calls[c].of \in Attempts
      /\ latest \in Records \cup {None} /\ (latest # None => latest.of = calls[c].of)
  BY <1>1, <1>4 DEF Answered, CallInv, CallSound, AnswerSound
<1>6. attempt # None /\ attempt' # None /\ attempt' \in Attempts
  BY <1>1, <1>5, NoneIsNothing DEF Answered, CallInv, TypeOK
<1>7. /\ command' \in Records \cup {None}
      /\ transcript' # None /\ siblings' # None /\ detailError' \in BOOLEAN
  BY <1>1, <1>4, <1>5, <1>6 DEF TypeOK, evidenceVars
<1>8. TypeOK'
  BY <1>1, <1>3, <1>6, <1>7 DEF TypeOK, serverVars, evidenceVars, boundVars
<1>9. BusyInv'
  <2>1. calls[c].is = "refresh" /\ \A d \in Calls : calls[d].is = "refresh" => d = c
    BY <1>1 DEF Answered, BusyInv, Unique
  <2>2. \A d \in Calls : /\ calls'[d].is # "refresh"
                         /\ (calls'[d].is = "detail") = (calls[d].is = "detail")
                         /\ (calls'[d].is = "siblings") = (calls[d].is = "siblings")
    BY <1>3, <2>1
  <2>. QED
    BY <1>1, <2>2 DEF BusyInv, BusyOnlyWhileCalling, Unique
<1>10. CallInv'
  <2>1. issued' = issued /\ issued \in Int
    BY <1>1, InspectorAssumption DEF boundVars, TypeOK, InspectorAssumption
  <2>. QED
    BY <1>3, <1>6, <1>8, <2>1, CallsKept
<1>11. TranscriptInv'
  BY <1>1, <1>6 DEF TranscriptInv, Begun, evidenceVars
<1>12. CommandInv'
  BY <1>1, <1>3, <1>6, CommandsKept DEF serverVars, boundVars
<1>13. ShownInv'
  <2>1. CASE StillOn(calls[c])
    BY <1>1, <1>4, <1>5, <2>1 DEF ShownInv
  <2>2. CASE ~StillOn(calls[c])
    BY <1>1, <2>2, ShownKept
  <2>. QED
    BY <2>1, <2>2
<1>. QED
  BY <1>8, <1>9, <1>10, <1>11, <1>12, <1>13

------------------------------------------------------------------------------
(* Evidence pages *)

(* A step that sends one call more. *)
LEMMA AddedOne ==
  ASSUME calls \in [Calls -> CallRecords], NEW STATE new,
         new \in CallRecords, Sends(calls, <<new>>)
  PROVE  /\ calls' \in [Calls -> CallRecords]
         /\ \E c \in Calls : /\ calls'[c] = new /\ calls[c].is = "none"
                             /\ \A d \in Calls \ {c} : calls'[d] = calls[d]
<1>1. PICK c \in Calls : /\ calls[c] = NoCall
                         /\ calls' = [e \in Calls |-> IF e = c THEN new ELSE calls[e]]
  BY SendsOne
<1>2. calls' \in [Calls -> CallRecords]
  BY <1>1
<1>. QED
  BY <1>1, <1>2, CallsTyped

LEMMA LoadMoreTranscriptKeeps ==
  ASSUME IInv, LoadMoreTranscript
  PROVE  IInv'
<1>. USE DEF IInv
<1>1. UNCHANGED <<serverVars, selected, shownVars, control, boundVars>>
  BY DEF LoadMoreTranscript
<1>2. calls \in [Calls -> CallRecords] /\ attempt \in Attempts /\ attempt # None
      /\ transcript \in Lists /\ transcript.next # 0 /\ Begun(transcript)
  BY NoneIsNothing DEF TypeOK, LoadMoreTranscript, Displayed, TranscriptInv
<1>3. PICK new \in CallRecords :
        new = [Call("transcript", attempt) EXCEPT !.from = transcript]
  BY <1>2, CallsTyped DEF Call, CallRecords
<1>4. new.is = "transcript" /\ new.of = attempt /\ new.from = transcript /\ new.read = << >>
  BY <1>3 DEF Call
<1>5. CallSound(new) /\ AnswerSound(new)
  BY <1>2, <1>4 DEF CallSound, AnswerSound
<1>6. Sends(calls, <<new>>)
  BY <1>3 DEF LoadMoreTranscript
<1>7. calls' \in [Calls -> CallRecords]
  BY <1>2, <1>6, AddedOne
<1>8. PICK c \in Calls : /\ calls'[c] = new /\ calls[c].is = "none"
                         /\ \A d \in Calls \ {c} : calls'[d] = calls[d]
  BY <1>2, <1>6, AddedOne
<1>9. TypeOK'
  BY <1>1, <1>7 DEF TypeOK, serverVars, shownVars, evidenceVars, flagVars, boundVars
<1>10. BusyInv'
  <2>1. \A d \in Calls, kind \in {"detail", "refresh", "siblings"} :
          (calls'[d].is = kind) = (calls[d].is = kind)
    BY <1>4, <1>8
  <2>. QED
    BY <1>1, <2>1, BusyKept DEF shownVars, flagVars
<1>11. CallInv'
  <2>1. attempt' = attempt /\ issued' = issued /\ issued \in Int
    BY <1>1, InspectorAssumption DEF shownVars, boundVars, TypeOK, InspectorAssumption
  <2>. QED
    BY <1>2, <1>4, <1>5, <1>8, <1>9, <2>1, CallsKept
<1>12. TranscriptInv' /\ ShownInv'
  BY <1>1, TranscriptKept, ShownKept DEF shownVars, evidenceVars, flagVars
<1>13. CommandInv'
  BY <1>1, <1>4, <1>8, CommandsKept DEF serverVars, shownVars, boundVars
<1>. QED
  BY <1>9, <1>10, <1>11, <1>12, <1>13

LEMMA TranscriptArrivesKeeps ==
  ASSUME IInv, TranscriptArrives
  PROVE  IInv'
<1>. USE DEF IInv
<1>1. PICK c \in Calls :
        /\ Answered("transcript", c) /\ calls' = Without(c)
        /\ transcript' = IF StillOn(calls[c])
                         THEN Joined(calls[c].from, calls[c].read[1]) ELSE transcript
        /\ UNCHANGED <<serverVars, selected, attempt, siblings, command, flagVars,
                       control, boundVars>>
  BY DEF TranscriptArrives
<1>2. calls \in [Calls -> CallRecords]
  BY DEF TypeOK
<1>3. /\ calls' \in [Calls -> CallRecords] /\ calls'[c].is = "none"
      /\ \A d \in Calls \ {c} : calls'[d] = calls[d]
  BY <1>1, <1>2, WithoutTyped, CallsTyped
<1>4. PICK from \in Lists : from = calls[c].from /\ from.next # 0 /\ Begun(from)
  BY <1>1 DEF Answered, CallInv, CallSound
<1>5. PICK page : /\ page = calls[c].read[1]
                  /\ page = Page(Transcript(from.mark), from.next, Limit, from.mark)
  BY <1>1, <1>4 DEF Answered, CallInv, AnswerSound
<1>6. Joined(from, page) \in Lists /\ Begun(Joined(from, page))
  BY <1>4, <1>5, JoinedBegins
<1>7. attempt # None /\ transcript \in Lists
  BY <1>1 DEF Answered, CallInv, TypeOK
<1>8. PICK list \in Lists : transcript' = list /\ Begun(list)
  <2>1. CASE StillOn(calls[c])
    BY <1>1, <1>4, <1>5, <1>6, <2>1
  <2>2. CASE ~StillOn(calls[c])
    BY <1>1, <1>7, <2>2 DEF TranscriptInv
  <2>. QED
    BY <2>1, <2>2
<1>9. TypeOK'
  BY <1>1, <1>3, <1>7, <1>8, NoneIsNothing DEF TypeOK, serverVars, flagVars, boundVars
<1>10. BusyInv'
  <2>1. \A d \in Calls, kind \in {"detail", "refresh", "siblings"} :
          (calls'[d].is = kind) = (calls[d].is = kind)
    BY <1>1, <1>3 DEF Answered
  <2>. QED
    BY <1>1, <2>1, BusyKept DEF flagVars
<1>11. CallInv'
  <2>1. attempt' = attempt /\ issued' = issued /\ issued \in Int
    BY <1>1, InspectorAssumption DEF boundVars, TypeOK, InspectorAssumption
  <2>. QED
    BY <1>3, <1>9, <2>1, CallsKept
<1>12. TranscriptInv'
  BY <1>8 DEF TranscriptInv, Begun
<1>13. CommandInv' /\ ShownInv'
  BY <1>1, <1>3, CommandsKept, ShownKept DEF serverVars, flagVars, boundVars
<1>. QED
  BY <1>9, <1>10, <1>11, <1>12, <1>13

LEMMA LoadMoreSiblingsKeeps ==
  ASSUME IInv, LoadMoreSiblings
  PROVE  IInv'
<1>. USE DEF IInv
<1>1. /\ ~siblingLoading /\ siblingLoading' = TRUE
      /\ UNCHANGED <<serverVars, selected, attempt, evidenceVars, command, detailError,
                     detailLoading, stateRefreshing, control, boundVars>>
  BY DEF LoadMoreSiblings
<1>2. calls \in [Calls -> CallRecords] /\ attempt \in Attempts /\ attempt # None
      /\ siblings \in Lists
  BY NoneIsNothing DEF TypeOK, LoadMoreSiblings, Displayed
<1>3. PICK new \in CallRecords :
        new = [Call("siblings", attempt) EXCEPT !.from = siblings]
  BY <1>2, CallsTyped DEF Call, CallRecords
<1>4. new.is = "siblings" /\ new.of = attempt /\ new.from = siblings /\ new.read = << >>
  BY <1>3 DEF Call
<1>5. CallSound(new) /\ AnswerSound(new)
  BY <1>2, <1>4 DEF CallSound, AnswerSound
<1>6. Sends(calls, <<new>>)
  BY <1>3 DEF LoadMoreSiblings
<1>7. calls' \in [Calls -> CallRecords]
  BY <1>2, <1>6, AddedOne
<1>8. PICK c \in Calls : /\ calls'[c] = new /\ calls[c].is = "none"
                         /\ \A d \in Calls \ {c} : calls'[d] = calls[d]
  BY <1>2, <1>6, AddedOne
<1>9. TypeOK'
  BY <1>1, <1>7 DEF TypeOK, serverVars, evidenceVars, boundVars
<1>10. BusyInv'
  <2>1. \A d \in Calls : calls[d].is # "siblings"
    BY <1>1 DEF BusyInv, BusyOnlyWhileCalling
  <2>2. \A d \in Calls : /\ (calls'[d].is = "siblings") = (d = c)
                         /\ (calls'[d].is = "detail") = (calls[d].is = "detail")
                         /\ (calls'[d].is = "refresh") = (calls[d].is = "refresh")
    BY <1>4, <1>8, <2>1
  <2>. QED
    BY <1>1, <2>2 DEF BusyInv, BusyOnlyWhileCalling, Unique
<1>11. CallInv'
  <2>1. attempt' = attempt /\ issued' = issued /\ issued \in Int
    BY <1>1, InspectorAssumption DEF boundVars, TypeOK, InspectorAssumption
  <2>. QED
    BY <1>2, <1>4, <1>5, <1>8, <1>9, <2>1, CallsKept
<1>12. TranscriptInv' /\ ShownInv'
  BY <1>1, TranscriptKept, ShownKept DEF evidenceVars
<1>13. CommandInv'
  BY <1>1, <1>4, <1>8, CommandsKept DEF serverVars, boundVars
<1>. QED
  BY <1>9, <1>10, <1>11, <1>12, <1>13

LEMMA SiblingsArriveKeeps ==
  ASSUME IInv, SiblingsArrive
  PROVE  IInv'
<1>. USE DEF IInv
<1>1. PICK c \in Calls :
        /\ Answered("siblings", c) /\ calls' = Without(c)
        /\ siblings' = IF StillOn(calls[c])
                       THEN [siblings EXCEPT !.items = @ \o calls[c].read[1].items,
                                             !.next = calls[c].read[1].next]
                       ELSE siblings
        /\ siblingLoading' = FALSE
        /\ UNCHANGED <<serverVars, selected, attempt, transcript, command, detailError,
                       detailLoading, stateRefreshing, control, boundVars>>
  BY DEF SiblingsArrive
<1>2. calls \in [Calls -> CallRecords]
  BY DEF TypeOK
<1>3. /\ calls' \in [Calls -> CallRecords] /\ calls'[c].is = "none"
      /\ \A d \in Calls \ {c} : calls'[d] = calls[d]
  BY <1>1, <1>2, WithoutTyped, CallsTyped
<1>4. PICK page \in Pages : page = calls[c].read[1]
  BY <1>1 DEF Answered, CallInv, AnswerSound
<1>5. attempt # None /\ siblings \in Lists
  BY <1>1 DEF Answered, CallInv, TypeOK
<1>6. siblings' \in Lists
  <2>1. page.items \in Seq(Nat) /\ page.next \in Nat
    BY DEF Pages
  <2>2. siblings.items \o page.items \in Seq(Nat)
    BY <1>5, <2>1 DEF Lists
  <2>3. [siblings EXCEPT !.items = @ \o page.items, !.next = page.next] \in Lists
    BY <1>5, <2>1, <2>2 DEF Lists
  <2>. QED
    BY <1>1, <1>4, <1>5, <2>3
<1>7. TypeOK'
  BY <1>1, <1>3, <1>5, <1>6, NoneIsNothing DEF TypeOK, serverVars, boundVars
<1>8. BusyInv'
  <2>1. calls[c].is = "siblings" /\ \A d \in Calls : calls[d].is = "siblings" => d = c
    BY <1>1 DEF Answered, BusyInv, Unique
  <2>2. \A d \in Calls : /\ calls'[d].is # "siblings"
                         /\ (calls'[d].is = "detail") = (calls[d].is = "detail")
                         /\ (calls'[d].is = "refresh") = (calls[d].is = "refresh")
    BY <1>3, <2>1
  <2>. QED
    BY <1>1, <2>2 DEF BusyInv, BusyOnlyWhileCalling, Unique
<1>9. CallInv'
  <2>1. attempt' = attempt /\ issued' = issued /\ issued \in Int
    BY <1>1, InspectorAssumption DEF boundVars, TypeOK, InspectorAssumption
  <2>. QED
    BY <1>3, <1>7, <2>1, CallsKept
<1>10. TranscriptInv' /\ ShownInv'
  BY <1>1, TranscriptKept, ShownKept
<1>11. CommandInv'
  BY <1>1, <1>3, CommandsKept DEF serverVars, boundVars
<1>. QED
  BY <1>7, <1>8, <1>9, <1>10, <1>11

------------------------------------------------------------------------------
(* runControl *)

LEMMA RunControlKeeps ==
  ASSUME IInv, RunControl
  PROVE  IInv'
<1>. USE DEF IInv
<1>1. /\ issued < MaxCommands /\ issued' = issued + 1
      /\ control' = [is |-> "asking", of |-> attempt, id |-> issued']
      /\ command' = None
      /\ UNCHANGED <<serverVars, selected, attempt, evidenceVars, flagVars, failures>>
  BY DEF RunControl
<1>2. calls \in [Calls -> CallRecords] /\ attempt \in Attempts /\ attempt # None
  BY NoneIsNothing DEF TypeOK, RunControl, ControlsEnabled, Displayed
<1>3. issued \in Nat /\ issued' \in Nat /\ issued' \in 1..MaxCommands
      /\ issued' \in 0..MaxCommands
  BY <1>1, InspectorAssumption DEF TypeOK, InspectorAssumption
<1>4. PICK new \in CallRecords :
        new = [Call("poll", attempt) EXCEPT !.id = issued']
  BY <1>2, <1>3, CallsTyped DEF Call, CallRecords
<1>5. new.is = "poll" /\ new.of = attempt /\ new.id = issued' /\ new.read = << >>
  BY <1>4 DEF Call
<1>6. CallSound(new) /\ AnswerSound(new)
  BY <1>2, <1>3, <1>5 DEF CallSound, AnswerSound
<1>7. Sends(calls, <<new>>)
  BY <1>4 DEF RunControl
<1>8. calls' \in [Calls -> CallRecords]
  BY <1>2, <1>7, AddedOne
<1>9. PICK c \in Calls : /\ calls'[c] = new /\ calls[c].is = "none"
                         /\ \A d \in Calls \ {c} : calls'[d] = calls[d]
  BY <1>2, <1>7, AddedOne
<1>10. control' # None /\ control'.id = issued' /\ control'.of = attempt
       /\ control' \in [is : {"asking", "refreshing", "looking"}, of : Attempts,
                        id : 1..MaxCommands]
  <2>1. control'.is = "asking"
    BY <1>1
  <2>. QED
    BY <1>1, <1>2, <1>3, <2>1 DEF None
<1>11. Len(commands') <= issued'
  <2>1. Len(commands) \in Nat /\ Len(commands) <= issued /\ commands' = commands
    BY <1>1 DEF TypeOK, serverVars
  <2>. QED
    BY <1>1, <1>3, <2>1
<1>12. TypeOK'
  BY <1>1, <1>3, <1>8, <1>10, <1>11 DEF TypeOK, serverVars, evidenceVars, flagVars
<1>13. BusyInv'
  <2>1. \A d \in Calls, kind \in {"detail", "refresh", "siblings"} :
          (calls'[d].is = kind) = (calls[d].is = kind)
    BY <1>5, <1>9
  <2>. QED
    BY <1>1, <2>1, BusyKept DEF flagVars
<1>14. CallInv'
  <2>1. attempt' = attempt /\ issued <= issued'
    BY <1>1, <1>3
  <2>. QED
    BY <1>2, <1>3, <1>5, <1>6, <1>9, <1>12, <2>1, CallsKept
<1>15. TranscriptInv'
  BY <1>1, TranscriptKept DEF evidenceVars
<1>16. ShownInv'
  BY <1>1 DEF ShownInv
<1>17. CommandInv'
  <2>1. commands' = commands /\ attempt' # None
    BY <1>1, <1>2 DEF serverVars
  <2>2. \A n \in DOMAIN commands : commands[n].id \in 1..issued
    BY DEF CommandInv
  <2>3. \A n \in DOMAIN commands : commands[n].id \in 1..issued' /\ commands[n].id # issued'
    BY <1>1, <1>3, <2>2
  <2>4. \A d \in Calls \ {c} : calls[d].is = "poll" => calls[d].id # issued'
    <3>1. \A d \in Calls : calls[d].id \in 0..MaxCommands
      BY <1>2 DEF CallRecords
    <3>2. \A d \in Calls : calls[d].is = "poll" => calls[d].id <= issued
      BY DEF CallInv
    <3>. QED
      BY <1>1, <1>3, <3>1, <3>2, InspectorAssumption DEF InspectorAssumption
  <2>5. ASSUME NEW n \in DOMAIN commands, NEW d \in Calls,
               calls'[d].is = "poll", calls'[d].id = commands[n].id
        PROVE  calls'[d].of = commands[n].of
    <3>1. d # c
      BY <1>5, <1>9, <2>3, <2>5
    <3>. QED
      BY <1>9, <2>5, <3>1 DEF CommandInv
  <2>6. ASSUME NEW d \in Calls, calls'[d].is = "poll", calls'[d].id = control'.id
        PROVE  calls'[d].of = control'.of
    BY <1>5, <1>9, <1>10, <2>4, <2>6
  <2>7. Len(commands) # issued'
    BY <1>1, <1>3 DEF TypeOK
  <2>. QED
    BY <1>10, <2>1, <2>3, <2>5, <2>6, <2>7 DEF CommandInv
<1>. QED
  BY <1>12, <1>13, <1>14, <1>15, <1>16, <1>17

LEMMA PollAgainKeeps ==
  ASSUME IInv, PollAgain
  PROVE  IInv'
<1>. USE DEF IInv
<1>1. control # None /\ UNCHANGED <<serverVars, selected, shownVars, control, boundVars>>
  BY DEF PollAgain
<1>2. calls \in [Calls -> CallRecords] /\ control.of \in Attempts
      /\ control.id \in 1..MaxCommands /\ control.id \in 0..MaxCommands /\ control.id = issued
      /\ control.id # 0
  BY <1>1, InspectorAssumption DEF TypeOK, CommandInv, InspectorAssumption
<1>3. PICK new \in CallRecords :
        new = [Call("poll", control.of) EXCEPT !.id = control.id]
  BY <1>2, CallsTyped DEF Call, CallRecords
<1>4. new.is = "poll" /\ new.of = control.of /\ new.id = control.id /\ new.read = << >>
  BY <1>3 DEF Call
<1>5. CallSound(new) /\ AnswerSound(new)
  BY <1>2, <1>4 DEF CallSound, AnswerSound
<1>6. Sends(calls, <<new>>)
  BY <1>3 DEF PollAgain
<1>7. calls' \in [Calls -> CallRecords]
  BY <1>2, <1>6, AddedOne
<1>8. PICK c \in Calls : /\ calls'[c] = new /\ calls[c].is = "none"
                         /\ \A d \in Calls \ {c} : calls'[d] = calls[d]
  BY <1>2, <1>6, AddedOne
<1>9. TypeOK'
  BY <1>1, <1>7 DEF TypeOK, serverVars, shownVars, evidenceVars, flagVars, boundVars
<1>10. BusyInv'
  <2>1. \A d \in Calls, kind \in {"detail", "refresh", "siblings"} :
          (calls'[d].is = kind) = (calls[d].is = kind)
    BY <1>4, <1>8
  <2>. QED
    BY <1>1, <2>1, BusyKept DEF shownVars, flagVars
<1>11. CallInv'
  <2>1. attempt' = attempt /\ issued' = issued /\ issued \in Int
    BY <1>1, InspectorAssumption DEF shownVars, boundVars, TypeOK, InspectorAssumption
  <2>. QED
    BY <1>2, <1>4, <1>5, <1>8, <1>9, <2>1, CallsKept
<1>12. TranscriptInv' /\ ShownInv'
  BY <1>1, TranscriptKept, ShownKept DEF shownVars, evidenceVars, flagVars
<1>13. CommandInv'
  <2>1. UNCHANGED <<commands, control, issued, attempt>>
    BY <1>1 DEF serverVars, shownVars, boundVars
  <2>2. ASSUME NEW n \in DOMAIN commands, NEW d \in Calls,
               calls'[d].is = "poll", calls'[d].id = commands[n].id
        PROVE  calls'[d].of = commands[n].of
    BY <1>1, <1>4, <1>8, <2>2 DEF CommandInv
  <2>3. ASSUME NEW d \in Calls, calls'[d].is = "poll", calls'[d].id = control.id
        PROVE  calls'[d].of = control.of
    BY <1>1, <1>4, <1>8, <2>3 DEF CommandInv
  <2>. QED
    BY <2>1, <2>2, <2>3 DEF CommandInv
<1>. QED
  BY <1>9, <1>10, <1>11, <1>12, <1>13

LEMMA PollArrivesKeeps ==
  ASSUME IInv, PollArrives
  PROVE  IInv'
<1>. USE DEF IInv
<1>1. PICK c \in Calls :
        /\ Answered("poll", c) /\ calls' = Without(c)
        /\ IF calls[c].read[1] = None THEN UNCHANGED command
           ELSE Shows(calls[c].of, calls[c].read[1])
        /\ UNCHANGED <<serverVars, selected, attempt, evidenceVars, flagVars, control,
                       boundVars>>
  BY DEF PollArrives
<1>2. calls \in [Calls -> CallRecords]
  BY DEF TypeOK
<1>3. /\ calls' \in [Calls -> CallRecords] /\ calls'[c].is = "none"
      /\ \A d \in Calls \ {c} : calls'[d] = calls[d]
  BY <1>1, <1>2, WithoutTyped, CallsTyped
<1>4. PICK record : /\ record = calls[c].read[1] /\ record \in Records \cup {None}
                    /\ record # None => record.of = calls[c].of
  BY <1>1 DEF Answered, CallInv, AnswerSound
<1>5. \/ command' = command
      \/ command' \in Records /\ command'.of = selected
  BY <1>1, <1>4 DEF Shows
<1>6. TypeOK'
  BY <1>1, <1>3, <1>5 DEF TypeOK, serverVars, evidenceVars, flagVars, boundVars
<1>7. BusyInv'
  <2>1. \A d \in Calls, kind \in {"detail", "refresh", "siblings"} :
          (calls'[d].is = kind) = (calls[d].is = kind)
    BY <1>1, <1>3 DEF Answered
  <2>. QED
    BY <1>1, <2>1, BusyKept DEF flagVars
<1>8. CallInv'
  <2>1. attempt' = attempt /\ issued' = issued /\ issued \in Int
    BY <1>1, InspectorAssumption DEF boundVars, TypeOK, InspectorAssumption
  <2>. QED
    BY <1>3, <1>6, <2>1, CallsKept
<1>9. TranscriptInv'
  BY <1>1, TranscriptKept DEF evidenceVars
<1>10. CommandInv'
  BY <1>1, <1>3, CommandsKept DEF serverVars, boundVars
<1>11. ShownInv'
  BY <1>1, <1>5 DEF ShownInv, Displayed, flagVars
<1>. QED
  BY <1>6, <1>7, <1>8, <1>9, <1>10, <1>11

LEMMA ControlAnsweredKeeps ==
  ASSUME IInv, ControlAnswered
  PROVE  IInv'
<1>. USE DEF IInv
<1>1. /\ control.is = "asking" /\ WithId(control.id) # None
      /\ control' = [control EXCEPT !.is = "refreshing"]
      /\ Shows(control.of, WithId(control.id))
      /\ UNCHANGED <<serverVars, selected, attempt, evidenceVars, detailError,
                     detailLoading, siblingLoading, boundVars>>
  BY DEF ControlAnswered
<1>2. control # None
  BY <1>1 DEF None
<1>3. /\ calls \in [Calls -> CallRecords] /\ commands \in Seq(Records)
      /\ control \in [is : {"asking", "refreshing", "looking"}, of : Attempts,
                      id : 1..MaxCommands]
      /\ control.id = issued /\ attempt # None
  BY <1>2 DEF TypeOK, CommandInv
<1>4. /\ control' \in [is : {"asking", "refreshing", "looking"}, of : Attempts,
                       id : 1..MaxCommands]
      /\ control'.id = control.id /\ control'.of = control.of /\ control' # None
  BY <1>1, <1>3 DEF None
<1>5. PICK record \in Records : record = WithId(control.id) /\ record.of = control.of
  <2>1. PICK n \in DOMAIN commands :
          WithId(control.id) = commands[n] /\ commands[n].id = control.id
    BY <1>1, <1>3, Found
  <2>. QED
    BY <1>2, <1>3, <2>1 DEF CommandInv
<1>6. \/ command' = command
      \/ command' \in Records /\ command'.of = selected
  BY <1>1, <1>5 DEF Shows
<1>7. PICK new \in CallRecords : new = [Call("refresh", control.of) EXCEPT !.by = "control"]
  BY <1>3, CallsTyped DEF Call, CallRecords
<1>8. new.is = "refresh" /\ CallSound(new) /\ AnswerSound(new)
  BY <1>3, <1>7 DEF Call, CallSound, AnswerSound
<1>9. /\ calls' \in [Calls -> CallRecords]
      /\ \/ calls' = calls /\ stateRefreshing' = stateRefreshing
         \/ /\ stateRefreshing' = TRUE
            /\ \E c \in Calls :
                 /\ calls'[c] = new /\ calls[c].is \in {"refresh", "none"}
                 /\ \A d \in Calls \ {c} :
                      \/ calls[d].is = "refresh" /\ calls'[d].is = "outdated"
                      \/ calls[d].is # "refresh" /\ calls'[d] = calls[d]
  <2>1. CASE selected = control.of
    <3>1. stateRefreshing' = TRUE /\ Sends(Outdated({"refresh"}), <<new>>)
      BY <1>7, <2>1 DEF ControlAnswered
    <3>2. /\ calls' \in [Calls -> CallRecords]
          /\ \E c \in Calls :
               /\ calls'[c] = new
               /\ \A d \in Calls \ {c} :
                    \/ calls[d].is \in {"refresh"} /\ calls'[d].is = "outdated"
                    \/ calls[d].is \notin {"refresh"} /\ calls'[d] = calls[d]
               /\ calls[c].is \in {"refresh"} \cup {"none"}
      BY <1>3, <3>1, SentOne
    <3>. QED
      BY <3>1, <3>2
  <2>2. CASE selected # control.of
    BY <1>3, <2>2 DEF ControlAnswered
  <2>. QED
    BY <2>1, <2>2
<1>10. stateRefreshing' \in BOOLEAN
  BY <1>9 DEF TypeOK
<1>11. TypeOK'
  BY <1>1, <1>4, <1>6, <1>9, <1>10 DEF TypeOK, serverVars, evidenceVars, boundVars
<1>12. \A d \in Calls : \/ calls'[d] = calls[d]
                        \/ calls'[d].is = "outdated" /\ calls[d].is = "refresh"
                        \/ calls'[d] = new /\ calls[d].is \in {"refresh", "none"}
  BY <1>9
<1>13. BusyInv'
  <2>1. CASE calls' = calls /\ stateRefreshing' = stateRefreshing
    BY <1>1, <2>1, BusyKept
  <2>2. CASE /\ stateRefreshing' = TRUE
             /\ \E c \in Calls :
                  /\ calls'[c] = new /\ calls[c].is \in {"refresh", "none"}
                  /\ \A d \in Calls \ {c} :
                       \/ calls[d].is = "refresh" /\ calls'[d].is = "outdated"
                       \/ calls[d].is # "refresh" /\ calls'[d] = calls[d]
    <3>1. PICK c \in Calls :
            /\ calls'[c] = new /\ calls[c].is \in {"refresh", "none"}
            /\ \A d \in Calls \ {c} :
                 \/ calls[d].is = "refresh" /\ calls'[d].is = "outdated"
                 \/ calls[d].is # "refresh" /\ calls'[d] = calls[d]
      BY <2>2
    <3>2. \A d \in Calls : /\ (calls'[d].is = "refresh") = (d = c)
                           /\ (calls'[d].is = "detail") = (calls[d].is = "detail")
                           /\ (calls'[d].is = "siblings") = (calls[d].is = "siblings")
      BY <1>8, <3>1
    <3>. QED
      BY <1>1, <2>2, <3>2 DEF BusyInv, BusyOnlyWhileCalling, Unique
  <2>. QED
    BY <1>9, <2>1, <2>2
<1>14. CallInv'
  <2>1. attempt' = attempt /\ issued' = issued /\ issued \in Int
    BY <1>1, InspectorAssumption DEF boundVars, TypeOK, InspectorAssumption
  <2>. QED
    BY <1>3, <1>8, <1>11, <1>12, <2>1, CallsKept
<1>15. TranscriptInv'
  BY <1>1, TranscriptKept DEF evidenceVars
<1>16. CommandInv'
  <2>1. commands' = commands /\ issued' = issued /\ attempt' = attempt
    BY <1>1 DEF serverVars, boundVars
  <2>2. \A d \in Calls : calls'[d].is = "poll" => calls'[d] = calls[d]
    BY <1>8, <1>12
  <2>. QED
    BY <1>2, <1>3, <1>4, <2>1, <2>2 DEF CommandInv
<1>17. ShownInv'
  BY <1>1, <1>6 DEF ShownInv, Displayed
<1>. QED
  BY <1>11, <1>13, <1>14, <1>15, <1>16, <1>17

LEMMA ControlFailsKeeps ==
  ASSUME IInv, ControlFails
  PROVE  IInv'
<1>. USE DEF IInv
<1>1. /\ control.is = "asking" /\ failures < MaxFailures /\ failures' = failures + 1
      /\ control' = [control EXCEPT !.is = "looking"]
      /\ UNCHANGED <<serverVars, selected, shownVars, calls, issued>>
  BY DEF ControlFails
<1>2. control # None
  BY <1>1 DEF None
<1>3. control \in [is : {"asking", "refreshing", "looking"}, of : Attempts,
                   id : 1..MaxCommands]
  BY <1>2 DEF TypeOK
<1>4. /\ control' \in [is : {"asking", "refreshing", "looking"}, of : Attempts,
                       id : 1..MaxCommands]
      /\ control'.id = control.id /\ control'.of = control.of /\ control' # None
  BY <1>1, <1>3 DEF None
<1>5. failures' \in 0..MaxFailures
  BY <1>1, InspectorAssumption DEF TypeOK, InspectorAssumption
<1>6. TypeOK'
  BY <1>1, <1>4, <1>5 DEF TypeOK, serverVars, shownVars, evidenceVars, flagVars
<1>7. BusyInv' /\ TranscriptInv' /\ ShownInv'
  BY <1>1, BusyKept, TranscriptKept, ShownKept DEF shownVars, evidenceVars, flagVars
<1>8. CallInv' /\ CommandInv'
  BY <1>1, <1>2, <1>4 DEF CallInv, CommandInv, serverVars, shownVars
<1>. QED
  BY <1>6, <1>7, <1>8

LEMMA LookedUpKeeps ==
  ASSUME IInv, LookedUp
  PROVE  IInv'
<1>. USE DEF IInv
<1>1. /\ control.is = "looking" /\ control' = None
      /\ UNCHANGED <<serverVars, selected, attempt, evidenceVars, flagVars, calls, issued>>
  BY DEF LookedUp
<1>2. control # None
  BY <1>1 DEF None
<1>3. /\ commands \in Seq(Records)
      /\ control \in [is : {"asking", "refreshing", "looking"}, of : Attempts,
                      id : 1..MaxCommands]
      /\ control.id \in Nat
  BY <1>2, InspectorAssumption DEF TypeOK, InspectorAssumption
<1>4. failures' \in 0..MaxFailures
  BY InspectorAssumption DEF LookedUp, TypeOK, InspectorAssumption
<1>5. \/ command' = command
      \/ command' \in Records /\ command'.of = selected
  <2>1. CASE WithId(control.id) # None /\ Shows(control.of, WithId(control.id))
    <3>1. PICK n \in DOMAIN commands :
            WithId(control.id) = commands[n] /\ commands[n].id = control.id
      BY <1>3, <2>1, Found
    <3>2. WithId(control.id) \in Records /\ WithId(control.id).of = control.of
      BY <1>2, <1>3, <3>1 DEF CommandInv
    <3>. QED
      BY <2>1, <3>2 DEF Shows
  <2>2. CASE Shows(control.of, [is |-> "command", id |-> control.id, of |-> control.of,
                                phase |-> "uncertain"])
    BY <1>3, <2>2 DEF Shows, Records
  <2>. QED
    BY <2>1, <2>2 DEF LookedUp
<1>6. TypeOK'
  BY <1>1, <1>4, <1>5 DEF TypeOK, serverVars, evidenceVars, flagVars
<1>7. BusyInv' /\ TranscriptInv'
  BY <1>1, BusyKept, TranscriptKept DEF evidenceVars, flagVars
<1>8. CallInv' /\ CommandInv'
  BY <1>1 DEF CallInv, CommandInv, serverVars
<1>9. ShownInv'
  BY <1>1, <1>5 DEF ShownInv, Displayed, flagVars
<1>. QED
  BY <1>6, <1>7, <1>8, <1>9

LEMMA ControlEndsKeeps ==
  ASSUME IInv, ControlEnds
  PROVE  IInv'
<1>. USE DEF IInv
<1>1. control' = None /\ UNCHANGED <<serverVars, selected, shownVars, calls, boundVars>>
  BY DEF ControlEnds
<1>2. TypeOK'
  BY <1>1 DEF TypeOK, serverVars, shownVars, evidenceVars, flagVars, boundVars
<1>3. BusyInv' /\ TranscriptInv' /\ ShownInv'
  BY <1>1, BusyKept, TranscriptKept, ShownKept DEF shownVars, evidenceVars, flagVars
<1>4. CallInv' /\ CommandInv'
  BY <1>1 DEF CallInv, CommandInv, serverVars, shownVars, boundVars
<1>. QED
  BY <1>2, <1>3, <1>4

------------------------------------------------------------------------------
LEMMA OutdatedArrivesKeeps ==
  ASSUME IInv, OutdatedArrives
  PROVE  IInv'
<1>. USE DEF IInv
<1>1. PICK c \in Calls :
        /\ calls[c].is = "outdated" /\ calls' = Without(c)
        /\ UNCHANGED <<serverVars, selected, shownVars, control, boundVars>>
  BY DEF OutdatedArrives
<1>2. calls \in [Calls -> CallRecords]
  BY DEF TypeOK
<1>3. /\ calls' \in [Calls -> CallRecords] /\ calls'[c].is = "none"
      /\ \A d \in Calls \ {c} : calls'[d] = calls[d]
  BY <1>1, <1>2, WithoutTyped, CallsTyped
<1>4. TypeOK'
  BY <1>1, <1>3 DEF TypeOK, serverVars, shownVars, evidenceVars, flagVars, boundVars
<1>5. BusyInv'
  <2>1. \A d \in Calls, kind \in {"detail", "refresh", "siblings"} :
          (calls'[d].is = kind) = (calls[d].is = kind)
    BY <1>1, <1>3
  <2>. QED
    BY <1>1, <2>1, BusyKept DEF shownVars, flagVars
<1>6. CallInv'
  <2>1. attempt' = attempt /\ issued' = issued /\ issued \in Int
    BY <1>1, InspectorAssumption DEF shownVars, boundVars, TypeOK, InspectorAssumption
  <2>. QED
    BY <1>3, <1>4, <2>1, CallsKept
<1>7. TranscriptInv' /\ ShownInv'
  BY <1>1, TranscriptKept, ShownKept DEF shownVars, evidenceVars, flagVars
<1>8. CommandInv'
  BY <1>1, <1>3, CommandsKept DEF serverVars, shownVars, boundVars
<1>. QED
  BY <1>4, <1>5, <1>6, <1>7, <1>8

LEMMA CallFailsKeeps ==
  ASSUME IInv, CallFails
  PROVE  IInv'
<1>. USE DEF IInv
<1>1. PICK c \in Calls :
        /\ calls[c].is \notin {"none", "outdated"}
        /\ calls' = Without(c)
        /\ detailError' = (\/ detailError
                           \/ calls[c].is = "detail"
                           \/ calls[c].is = "refresh" /\ StillOn(calls[c]))
        /\ detailLoading' = (detailLoading /\ calls[c].is # "detail")
        /\ stateRefreshing' = (stateRefreshing /\ calls[c].is # "refresh")
        /\ siblingLoading' = (siblingLoading /\ calls[c].is # "siblings")
  BY DEF CallFails
<1>2. /\ failures < MaxFailures /\ failures' = failures + 1
      /\ UNCHANGED <<serverVars, selected, attempt, evidenceVars, command, control, issued>>
  BY DEF CallFails
<1>3. calls \in [Calls -> CallRecords]
  BY DEF TypeOK
<1>4. /\ calls' \in [Calls -> CallRecords] /\ calls'[c].is = "none"
      /\ \A d \in Calls \ {c} : calls'[d] = calls[d]
  BY <1>1, <1>3, WithoutTyped, CallsTyped
<1>5. failures' \in 0..MaxFailures
  BY <1>2, InspectorAssumption DEF TypeOK, InspectorAssumption
<1>6. {detailError, detailLoading, stateRefreshing, siblingLoading}' \subseteq BOOLEAN
  BY <1>1
<1>7. TypeOK'
  BY <1>2, <1>4, <1>5, <1>6 DEF TypeOK, serverVars, evidenceVars
<1>8. BusyInv'
  <2>1. ASSUME NEW kind \in {"detail", "refresh", "siblings"}
        PROVE  /\ (\E d \in Calls : calls'[d].is = kind)
                    = ((\E d \in Calls : calls[d].is = kind) /\ calls[c].is # kind)
               /\ Unique(kind)'
    <3>1. Unique(kind)
      BY DEF BusyInv
    <3>2. CASE calls[c].is = kind
      BY <1>4, <3>1, <3>2 DEF Unique
    <3>3. CASE calls[c].is # kind
      BY <1>4, <3>1, <3>3 DEF Unique
    <3>. QED
      BY <3>2, <3>3
  <2>. QED
    BY <1>1, <2>1 DEF BusyInv, BusyOnlyWhileCalling
<1>9. CallInv'
  <2>1. attempt' = attempt /\ issued' = issued /\ issued \in Int
    BY <1>2, InspectorAssumption DEF TypeOK, InspectorAssumption
  <2>. QED
    BY <1>4, <1>7, <2>1, CallsKept
<1>10. TranscriptInv'
  BY <1>2, TranscriptKept DEF evidenceVars
<1>11. CommandInv'
  BY <1>2, <1>4, CommandsKept DEF serverVars
<1>12. ShownInv'
  <2>1. CASE ~detailError' /\ ~detailLoading'
    <3>1. ~detailError /\ calls[c].is # "detail"
      BY <1>1, <2>1
    <3>2. ~detailLoading
      BY <1>1, <2>1, <3>1
    <3>. QED
      BY <1>2, <3>1, <3>2 DEF ShownInv, Displayed
  <2>2. CASE ~(~detailError' /\ ~detailLoading')
    BY <2>2 DEF ShownInv
  <2>. QED
    BY <2>1, <2>2
<1>. QED
  BY <1>7, <1>8, <1>9, <1>10, <1>11, <1>12

------------------------------------------------------------------------------
(* The theorems *)

LEMMA Starts == Init => IInv
<1>. SUFFICES ASSUME Init PROVE IInv
  OBVIOUS
<1>. USE DEF Init
<1>1. TypeOK
  <2>1. [c \in Calls |-> NoCall] \in [Calls -> CallRecords]
    BY CallsTyped
  <2>2. Cardinality(Attempts) \in 0..MaxRelated
    <3>1. Cardinality(Attempts) \in Nat
      BY InspectorAssumption, FS_CardinalityType DEF InspectorAssumption
    <3>. QED
      BY <3>1, InspectorAssumption DEF InspectorAssumption
  <2>3. << >> \in Seq(Records) /\ Len(<< >>) = 0
    OBVIOUS
  <2>4. 0 \in 0..MaxEntries /\ 0 \in 0..MaxCommands /\ 0 \in 0..MaxFailures
    BY InspectorAssumption DEF InspectorAssumption
  <2>5. entries \in [Attempts -> 0..MaxEntries] /\ related \in 0..MaxRelated
    BY <2>2, <2>4
  <2>6. commands \in Seq(Records) /\ Len(commands) = 0 /\ Len(commands) <= issued
    BY <2>3
  <2>7. calls \in [Calls -> CallRecords]
    BY <2>1
  <2>. QED
    BY <2>4, <2>5, <2>6, <2>7 DEF TypeOK
<1>2. \A c \in Calls : calls[c].is = "none"
  BY CallsTyped
<1>3. BusyInv
  BY <1>2 DEF BusyInv, BusyOnlyWhileCalling, Unique
<1>4. CallInv
  BY <1>2 DEF CallInv, CallSound, AnswerSound
<1>5. TranscriptInv /\ CommandInv /\ ShownInv
  BY <1>2 DEF TranscriptInv, CommandInv, ShownInv
<1>. QED
  BY <1>1, <1>3, <1>4, <1>5 DEF IInv

LEMMA Preserved == IInv /\ [Next]_vars => IInv'
<1>. SUFFICES ASSUME IInv, [Next]_vars PROVE IInv'
  OBVIOUS
<1>1. CASE ServiceNext
  BY <1>1, RowsAppearKeeps, AcceptsKeeps, ProceedsKeeps, ServeKeeps DEF ServiceNext
<1>2. CASE OperatorNext
  BY <1>2, SelectKeeps, CloseKeeps, LoadMoreTranscriptKeeps, LoadMoreSiblingsKeeps,
     RunControlKeeps DEF OperatorNext
<1>3. CASE ScreenNext
  BY <1>3, DetailArrivesKeeps, RefreshVersionChangesKeeps, RefreshArrivesKeeps,
     TranscriptArrivesKeeps, SiblingsArriveKeeps, PollAgainKeeps, PollArrivesKeeps,
     ControlAnsweredKeeps, ControlFailsKeeps, LookedUpKeeps, ControlEndsKeeps,
     OutdatedArrivesKeeps, CallFailsKeeps DEF ScreenNext
<1>4. CASE UNCHANGED vars
  <2>. USE <1>4 DEF vars, serverVars, shownVars, evidenceVars, flagVars, boundVars, IInv
  <2>1. TypeOK'
    BY DEF TypeOK
  <2>2. BusyInv' /\ TranscriptInv' /\ ShownInv'
    BY BusyKept, TranscriptKept, ShownKept
  <2>3. CallInv' /\ CommandInv'
    BY DEF CallInv, CommandInv
  <2>. QED
    BY <2>1, <2>2, <2>3
<1>. QED
  BY <1>1, <1>2, <1>3, <1>4 DEF Next

LEMMA Invariance == Spec => []IInv
  BY Starts, Preserved, PTL DEF Spec

(* Every variable has its type, whatever is answered late, twice or not at *)
(* all: in particular no more commands are retained than controls were     *)
(* issued (controlAttempt: a command is accepted once).                    *)
THEOREM TypeCorrect == Spec => []TypeOK
  BY Invariance, PTL DEF IInv

(* A flag that takes the controls away has a call behind it that will give *)
(* them back, for any number of attempts and of calls under way            *)
(* (loadDetail, refreshCurrent, loadMoreSiblings and their finally blocks).*)
THEOREM FlagsHaveCalls == Spec => []BusyOnlyWhileCalling
  BY Invariance, PTL DEF IInv, BusyInv

(* While controls are offered, the command beside them is one of the       *)
(* attempt they act on, whatever attempts the operator looked at while it  *)
(* was polled, accepted and looked up (runControl, pollCommand).           *)
THEOREM CommandBelongs == Spec => []CommandOfTheAttempt
<1>1. IInv => CommandOfTheAttempt
  BY DEF IInv, ShownInv, CommandOfTheAttempt, ControlsEnabled
<1>. QED
  BY <1>1, Invariance, PTL

(* The transcript on the screen is the beginning of the transcript at its  *)
(* watermark, for every page size and every length of it: no entry is      *)
(* missing or shown twice (loadMoreTranscript).                            *)
THEOREM TranscriptJoins == Spec => []TranscriptContiguous
<1>1. IInv => TranscriptContiguous
  <2>. SUFFICES ASSUME IInv, attempt # None
                PROVE  Begins(transcript, Transcript(transcript.mark))
    BY DEF TranscriptContiguous
  <2>1. transcript \in Lists /\ Begun(transcript)
    BY DEF IInv, TypeOK, TranscriptInv
  <2>. DEFINE m == Len(transcript.items)
              rows == Transcript(transcript.mark)
  <2>2. m \in Nat /\ transcript.mark \in Nat /\ transcript.items \in Seq(Nat)
    BY <2>1 DEF Lists
  <2>3. rows \in Seq(Nat) /\ Len(rows) = transcript.mark
    BY <2>2, RowsTyped
  <2>4. m <= Len(rows) /\ transcript.items = SubSeq(rows, 1, m)
    BY <2>1, <2>3 DEF Begun
  <2>5. SubSeq(transcript.items, 1, Len(transcript.items)) = transcript.items
    BY <2>2, SubSeqFull
  <2>6. IsPrefix(transcript.items, rows)
    BY <2>4, <2>5 DEF IsPrefix
  <2>7. (transcript.next = 0) = (m = Len(rows))
    BY <2>1, <2>2, <2>3 DEF Begun
  <2>. QED
    BY <2>6, <2>7 DEF Begins
<1>. QED
  BY <1>1, Invariance, PTL
=============================================================================
