----------------------------- MODULE OverviewProofs -----------------------------
(***************************************************************************)
(* Proofs about the overview of the console: types, the pages of the queue *)
(* and the dispatch state, for any number of tenures, any page size and    *)
(* any length of the log.                                                  *)
(***************************************************************************)
EXTENDS Overview, ReadPagesProofs

(***************************************************************************)
(* The inductive invariant, in parts.                                      *)
(***************************************************************************)

RowsAt(l, mark) == QueueRows(Upto(l, mark))

(* A page of the queue as it was at its watermark. *)
SoundPage(l, p) ==
    /\ p.mark <= Len(l)
    /\ p.at \in 0..Len(RowsAt(l, p.mark))
    /\ p = Page(RowsAt(l, p.mark), p.at, Limit, p.mark)

(* A request for the first page, or for one that exists at its watermark.  *)
SoundRequest(l, r) ==
    \/ r = FirstPage
    \/ r.mark \in 1..Len(l) /\ r.cursor \in 1..Len(RowsAt(l, r.mark))

(* Any page may be left when the first page is asked for: a start goes     *)
(* back to it before its page is there.                                    *)
Fits(l, p, r) ==
    /\ SoundPage(l, p)
    /\ r # FirstPage => p.at = r.cursor /\ p.mark = r.mark

(* Every page of the history answers the request kept with it, and the     *)
(* next request is for the page that follows it.                           *)
TrailInv ==
    /\ queue # None => Fits(log, queue, queueRequest)
    /\ SoundRequest(log, queueRequest)
    /\ \A n \in DOMAIN queueHistory :
          /\ Fits(log, queueHistory[n].page, queueHistory[n].request)
          /\ queueHistory[n].page.next # 0
          /\ queueHistory[n].request =
                IF n = 1 THEN FirstPage ELSE NextOf(queueHistory[n - 1].page)
    /\ queueRequest = IF queueHistory = << >> THEN FirstPage
                      ELSE NextOf(queueHistory[Len(queueHistory)].page)

(* What is under way.  While a next page is, the request of the screen     *)
(* stays the one of the page that the click came from.                     *)
RefreshSound(l, r) ==
    r # None => /\ SoundRequest(l, r.request)
                /\ r.queue # << >> => Fits(l, r.queue[1], r.request)

CallSound(l, c, request) ==
    /\ c.is \in {"next", "page"} => Fits(l, c.from, request) /\ c.from.next # 0
    /\ c.is = "next" => c.request = NextOf(c.from)
    /\ c.is = "page" => Fits(l, c.page, NextOf(c.from))

CallInv ==
    /\ RefreshSound(log, refreshing) /\ RefreshSound(log, superseded)
    /\ CallSound(log, call, queueRequest)

(* The snapshot of the current refresh is at least as new as the screen.   *)
ShownInv ==
    /\ shown <= dispatch
    /\ refreshing # None /\ refreshing.snapshot # << >> =>
          shown <= refreshing.snapshot[1] /\ refreshing.snapshot[1] <= dispatch
    /\ call.is = "switched" => call.dispatch <= dispatch

IInv == TypeOK /\ TrailInv /\ CallInv /\ ShownInv

------------------------------------------------------------------------------
(* Pages and requests *)

(* What a longer log keeps of a shorter one. *)
Extends(l, m) ==
    /\ Len(l) <= Len(m)
    /\ \A k \in 0..Len(l) : Upto(m, k) = Upto(l, k)

LEMMA UptoTyped ==
  ASSUME NEW V, NEW l \in Seq(V), NEW k \in 0..Len(l)
  PROVE  Upto(l, k) \in Seq(V) /\ Len(Upto(l, k)) = k
<1>1. k \in Nat /\ \A i \in 1..k : l[i] \in V
  OBVIOUS
<1>2. /\ SubSeq(l, 1, k) \in Seq(V)
      /\ Len(SubSeq(l, 1, k)) = IF 1 <= k THEN k - 1 + 1 ELSE 0
  BY <1>1, SubSeqProperties
<1>. QED
  BY <1>1, <1>2 DEF Upto

LEMMA RowsTyped ==
  ASSUME NEW V, NEW l \in Seq(V), NEW k \in 0..Len(l)
  PROVE  RowsAt(l, k) \in Seq(V) /\ Len(RowsAt(l, k)) <= k
  BY UptoTyped, QueueTyped DEF RowsAt

LEMMA AppendExtends ==
  ASSUME NEW V, NEW l \in Seq(V), NEW e \in V
  PROVE  /\ Append(l, e) \in Seq(V) /\ Len(Append(l, e)) = Len(l) + 1
         /\ Extends(l, Append(l, e))
<1>1. /\ Append(l, e) \in Seq(V) /\ Len(Append(l, e)) = Len(l) + 1
      /\ Len(l) \in Nat
  OBVIOUS
<1>2. ASSUME NEW k \in 0..Len(l)
      PROVE  SubSeq(Append(l, e), 1, k) = SubSeq(l, 1, k)
  <2>1. \A i \in 1..k : Append(l, e)[i] = l[i]
    OBVIOUS
  <2>2. /\ SubSeq(Append(l, e), 1, k) = [i \in 1..k |-> Append(l, e)[i]]
        /\ SubSeq(l, 1, k) = [i \in 1..k |-> l[i]]
    OBVIOUS
  <2>. QED
    BY <2>1, <2>2
<1>. QED
  BY <1>1, <1>2 DEF Extends, Upto

LEMMA Stays ==
  ASSUME NEW V, NEW l \in Seq(V), NEW m, Extends(l, m), Len(m) \in Nat
  PROVE  /\ \A p : p.mark \in Nat /\ SoundPage(l, p) => SoundPage(m, p)
         /\ \A r : SoundRequest(l, r) => SoundRequest(m, r)
         /\ \A p, r : p.mark \in Nat /\ Fits(l, p, r) => Fits(m, p, r)
<1>1. \A k \in 0..Len(l) : RowsAt(m, k) = RowsAt(l, k)
  BY DEF Extends, RowsAt
<1>2. Len(l) \in Nat /\ Len(l) <= Len(m)
  BY DEF Extends
<1>3. \A p : p.mark \in Nat /\ SoundPage(l, p) => SoundPage(m, p)
  <2>. TAKE p
  <2>. HAVE p.mark \in Nat /\ SoundPage(l, p)
  <2>1. p.mark \in 0..Len(l)
    BY <1>2 DEF SoundPage
  <2>2. RowsAt(m, p.mark) = RowsAt(l, p.mark) /\ p.mark <= Len(m)
    BY <1>1, <1>2, <2>1
  <2>. QED
    BY <2>2 DEF SoundPage
<1>4. \A r : SoundRequest(l, r) => SoundRequest(m, r)
  <2>. TAKE r
  <2>. HAVE SoundRequest(l, r)
  <2>1. CASE r = FirstPage
    BY <2>1 DEF SoundRequest
  <2>2. CASE r.mark \in 1..Len(l) /\ r.cursor \in 1..Len(RowsAt(l, r.mark))
    <3>1. r.mark \in 0..Len(l) /\ r.mark \in 1..Len(m)
      BY <1>2, <2>2
    <3>. QED
      BY <1>1, <2>2, <3>1 DEF SoundRequest
  <2>. QED
    BY <2>1, <2>2 DEF SoundRequest
<1>. QED
  BY <1>3, <1>4 DEF Fits

(* The page that is read for a request. *)
LEMMA ReadFits ==
  ASSUME NEW l \in Seq(Versions), Len(l) <= MaxVersions,
         NEW r \in Requests, SoundRequest(l, r)
  PROVE  ListQueue(l, r, Limit) \in Pages /\ Fits(l, ListQueue(l, r, Limit), r)
<1>. DEFINE mark == RevisionOf(l, r)
            rows == RowsAt(l, mark)
            p == ListQueue(l, r, Limit)
<1>. USE OverviewAssumption DEF OverviewAssumption
<1>1. /\ mark \in 0..Len(l) /\ mark \in Nat /\ mark <= MaxVersions
      /\ r # FirstPage => mark = r.mark
  <2>1. Len(l) \in Nat
    OBVIOUS
  <2>2. CASE r = FirstPage
    BY <2>1, <2>2 DEF RevisionOf, FirstPage
  <2>3. CASE r.mark \in 1..Len(l)
    BY <2>1, <2>3 DEF RevisionOf
  <2>. QED
    BY <2>2, <2>3 DEF SoundRequest
<1>. HIDE DEF mark
<1>2. rows \in Seq(Versions) /\ Len(rows) \in Nat
  BY <1>1, RowsTyped
<1>3. r.cursor \in 0..Len(rows) /\ r.cursor \in Nat
  BY <1>1, <1>2 DEF SoundRequest, FirstPage
<1>4. p = Page(rows, r.cursor, Limit, mark)
  BY DEF ListQueue, RowsAt, mark
<1>. HIDE DEF rows, p
<1>5. p \in [items : Seq(Versions), at : Nat, mark : Nat, next : Nat]
  BY <1>1, <1>2, <1>3, <1>4, PageTyped
<1>6. p.at = r.cursor /\ p.mark = mark
  BY <1>4 DEF Page
<1>7. p \in Pages
  BY <1>1, <1>5, <1>6 DEF Pages
<1>8. SoundPage(l, p)
  BY <1>1, <1>3, <1>4, <1>6 DEF SoundPage, rows
<1>. QED
  BY <1>1, <1>6, <1>7, <1>8 DEF Fits, p

(* The request for the page after one that has a next. *)
LEMMA NextRequest ==
  ASSUME NEW l \in Seq(Versions), NEW p \in Pages, SoundPage(l, p), p.next # 0
  PROVE  /\ NextOf(p) \in Requests /\ SoundRequest(l, NextOf(p))
         /\ NextOf(p) # FirstPage
<1>. DEFINE rows == RowsAt(l, p.mark)
<1>. USE OverviewAssumption DEF OverviewAssumption
<1>1. p.mark \in 0..MaxVersions /\ p.mark \in 0..Len(l) /\ p.next \in Nat
  BY DEF Pages, SoundPage
<1>2. rows \in Seq(Versions) /\ Len(rows) <= p.mark /\ Len(rows) \in Nat
  BY <1>1, RowsTyped
<1>3. PICK end \in p.at..Len(rows) :
        Page(rows, p.at, Limit, p.mark) =
          [items |-> SubSeq(rows, p.at + 1, end), at |-> p.at, mark |-> p.mark,
           next |-> IF end < Len(rows) THEN end ELSE 0]
  <2>1. p.at \in 0..Len(rows)
    BY DEF SoundPage
  <2>. HIDE DEF rows
  <2>. QED
    BY <1>2, <2>1, PageHolds
<1>4. p.next = end /\ end < Len(rows)
  <2>1. p = Page(rows, p.at, Limit, p.mark)
    BY DEF SoundPage
  <2>. HIDE DEF rows
  <2>. QED
    BY <1>3, <2>1
<1>5. p.next \in 1..Len(rows) /\ p.mark \in 1..Len(l)
  <2>. HIDE DEF rows
  <2>. QED
    BY <1>1, <1>2, <1>4
<1>. QED
  BY <1>1, <1>5 DEF NextOf, Requests, SoundRequest, FirstPage

------------------------------------------------------------------------------
(* Records and sequences *)

LEMMA ElementTyped ==
  ASSUME NEW R, NEW s \in Seq(R)
  PROVE  /\ \A n \in DOMAIN s : s[n] \in R /\ n \in 1..Len(s)
         /\ s # << >> => s[1] \in R /\ 1 \in DOMAIN s
  OBVIOUS

LEMMA NoneIsNothing ==
  /\ None \notin Pages /\ None \notin Refreshes /\ None \notin CallRecords
  /\ None.is = "none"
<1>1. \A p \in Pages : "items" \in DOMAIN p
  BY DEF Pages
<1>2. "items" \notin DOMAIN None
  BY DEF None
<1>3. \A r \in Refreshes : r.is = "refresh"
  BY DEF Refreshes
<1>4. \A c \in CallRecords : c.is \in {"next", "page", "start", "started", "switch", "switched"}
  BY DEF CallRecords
<1>5. None.is = "none"
  BY DEF None
<1>. QED
  BY <1>1, <1>2, <1>3, <1>4, <1>5

LEMMA FrontOf ==
  ASSUME NEW R, NEW s \in Seq(R), s # << >>
  PROVE  /\ Len(s) \in DOMAIN s /\ Last(s) = s[Len(s)] /\ Len(s) \in Nat \ {0}
         /\ Len(s) # 1 => Len(s) - 1 \in DOMAIN s
         /\ Front(s) \in Seq(R) /\ Len(Front(s)) = Len(s) - 1
         /\ DOMAIN Front(s) = 1..Len(s) - 1
         /\ Front(s) = << >> <=> Len(s) = 1
         /\ \A k \in 1..Len(s) - 1 : Front(s)[k] = s[k] /\ k \in DOMAIN s
<1>1. Len(s) \in Nat \ {0} /\ DOMAIN s = 1..Len(s)
  OBVIOUS
<1>2. \A k \in 1..Len(s) - 1 : k \in 1..Len(s) /\ s[k] \in R
  BY <1>1
<1>3. /\ SubSeq(s, 1, Len(s) - 1) \in Seq(R)
      /\ Len(SubSeq(s, 1, Len(s) - 1)) =
           IF 1 <= Len(s) - 1 THEN Len(s) - 1 - 1 + 1 ELSE 0
      /\ \A k \in 1..Len(s) - 1 : SubSeq(s, 1, Len(s) - 1)[k] = s[k]
  <2>1. 1 \in Int /\ Len(s) - 1 \in Int
    BY <1>1
  <2>2. /\ SubSeq(s, 1, Len(s) - 1) \in Seq(R)
        /\ Len(SubSeq(s, 1, Len(s) - 1)) =
             IF 1 <= Len(s) - 1 THEN Len(s) - 1 - 1 + 1 ELSE 0
    BY <1>2, <2>1, SubSeqProperties
  <2>3. SubSeq(s, 1, Len(s) - 1) = [k \in 1..Len(s) - 1 |-> s[k]]
    BY <1>1
  <2>. QED
    BY <2>2, <2>3
<1>4. Front(s) = SubSeq(s, 1, Len(s) - 1)
  BY DEF Front
<1>. DEFINE f == Front(s)
<1>5. f \in Seq(R) /\ Len(f) = Len(s) - 1 /\ \A k \in 1..Len(s) - 1 : f[k] = s[k]
  BY <1>1, <1>3, <1>4
<1>. HIDE DEF f
<1>6. DOMAIN f = 1..Len(s) - 1 /\ (f = << >> <=> Len(s) = 1)
  BY <1>1, <1>5
<1>. QED
  BY <1>1, <1>2, <1>5, <1>6 DEF f, Last

LEMMA CallFields ==
  ASSUME NEW c \in CallRecords
  PROVE  /\ c.is = "next" => c.request \in Requests /\ c.from \in Pages
         /\ c.is = "page" => c.page \in Pages /\ c.from \in Pages
         /\ c.is = "start" => c.tenure \in Tenures
         /\ c.is = "switched" => c.dispatch \in 0..MaxSwitches
  BY DEF CallRecords

LEMMA CallsStay ==
  ASSUME NEW l \in Seq(Versions), NEW m, Extends(l, m), Len(m) \in Nat
  PROVE  /\ \A r \in Refreshes \cup {None} : RefreshSound(l, r) => RefreshSound(m, r)
         /\ \A c \in CallRecords \cup {None} : \A q :
               CallSound(l, c, q) => CallSound(m, c, q)
<1>1. \A p \in Pages : p.mark \in Nat
  BY OverviewAssumption DEF Pages, OverviewAssumption
<1>2. /\ \A r : SoundRequest(l, r) => SoundRequest(m, r)
      /\ \A p \in Pages : \A r : Fits(l, p, r) => Fits(m, p, r)
  BY <1>1, Stays
<1>3. ASSUME NEW r \in Refreshes \cup {None}, RefreshSound(l, r)
      PROVE  RefreshSound(m, r)
  <2>1. CASE r = None
    BY <2>1 DEF RefreshSound
  <2>2. CASE r \in Refreshes
    <3>1. r.queue \in Seq(Pages)
      BY <2>2 DEF Refreshes
    <3>2. r.queue # << >> => r.queue[1] \in Pages
      BY <3>1
    <3>. QED
      BY <1>2, <1>3, <3>2 DEF RefreshSound
  <2>. QED
    BY <2>1, <2>2
<1>4. ASSUME NEW c \in CallRecords \cup {None}, NEW q, CallSound(l, c, q)
      PROVE  CallSound(m, c, q)
  <2>1. CASE c = None
    BY <2>1, NoneIsNothing DEF CallSound
  <2>2. CASE c \in CallRecords
    BY <1>2, <1>4, <2>2, CallFields DEF CallSound
  <2>. QED
    BY <2>1, <2>2
<1>. QED
  BY <1>3, <1>4

------------------------------------------------------------------------------
(* Steps *)

(* The log grows by versions of tenures. *)
LogGrows ==
    \/ log' = log
    \/ Len(log) < MaxVersions /\ \E e \in Versions : log' = Append(log, e)

LEMMA Grown ==
  ASSUME TypeOK, LogGrows
  PROVE  /\ log' \in Seq(Versions) /\ Len(log') <= MaxVersions /\ Len(log') \in Nat
         /\ Extends(log, log')
<1>1. CASE log' = log
  <2>1. Extends(log, log)
    BY DEF Extends, TypeOK
  <2>. QED
    BY <1>1, <2>1 DEF TypeOK
<1>2. CASE Len(log) < MaxVersions /\ \E e \in Versions : log' = Append(log, e)
  <2>1. PICK e \in Versions : log' = Append(log, e)
    BY <1>2
  <2>2. /\ Append(log, e) \in Seq(Versions) /\ Len(Append(log, e)) = Len(log) + 1
        /\ Extends(log, Append(log, e))
    BY AppendExtends DEF TypeOK
  <2>3. Len(log) \in Nat /\ MaxVersions \in Nat
    BY OverviewAssumption DEF TypeOK, OverviewAssumption
  <2>. QED
    BY <1>2, <2>1, <2>2, <2>3
<1>. QED
  BY <1>1, <1>2 DEF LogGrows

(* What is sound stays so as the log grows. *)
LEMMA Remains ==
  ASSUME TypeOK, LogGrows
  PROVE  /\ \A p \in Pages : \A r : Fits(log, p, r) => Fits(log', p, r)
         /\ \A r : SoundRequest(log, r) => SoundRequest(log', r)
         /\ \A r \in Refreshes \cup {None} :
               RefreshSound(log, r) => RefreshSound(log', r)
         /\ \A c \in CallRecords \cup {None} : \A q :
               CallSound(log, c, q) => CallSound(log', c, q)
<1>1. /\ log \in Seq(Versions) /\ Extends(log, log') /\ Len(log') \in Nat
      /\ \A p \in Pages : p.mark \in Nat
  BY Grown, OverviewAssumption DEF TypeOK, Pages, OverviewAssumption
<1>. QED
  BY <1>1, Stays, CallsStay

LEMMA TrailRemains ==
  ASSUME TypeOK, TrailInv, LogGrows, UNCHANGED <<queue, queueRequest, queueHistory>>
  PROVE  TrailInv'
<1>1. queue # None => queue \in Pages
  BY DEF TypeOK
<1>2. ASSUME NEW n \in DOMAIN queueHistory
      PROVE  queueHistory[n].page \in Pages
  <2>1. queueHistory \in Seq([page : Pages, request : Requests])
    BY DEF TypeOK
  <2>2. queueHistory[n] \in [page : Pages, request : Requests]
    BY <1>2, <2>1, ElementTyped
  <2>. QED
    BY <2>2
<1>3. \A n \in DOMAIN queueHistory :
         Fits(log', queueHistory[n].page, queueHistory[n].request)
  BY <1>2, Remains DEF TrailInv
<1>. QED
  BY <1>1, <1>3, Remains DEF TrailInv

LEMMA Starts == Init => IInv
<1>. SUFFICES ASSUME Init PROVE IInv
  OBVIOUS
<1>. USE OverviewAssumption DEF OverviewAssumption
<1>1. FirstPage \in Requests
  BY DEF FirstPage, Requests
<1>2. Refresh(FirstPage) \in Refreshes
  BY <1>1 DEF Refresh, Refreshes
<1>3. << >> \in Seq([page : Pages, request : Requests]) /\ Len(log) <= MaxVersions
  BY DEF Init
<1>4. failures \in 0..MaxFailures /\ shown \in 0..MaxSwitches /\ dispatch \in 0..MaxSwitches
  BY DEF Init
<1>5. TypeOK
  <2>1. log \in Seq(Versions)
    BY DEF Init
  <2>2. {refreshing, superseded} \subseteq Refreshes \cup {None}
    BY <1>2 DEF Init
  <2>. QED
    BY <1>1, <1>3, <1>4, <2>1, <2>2 DEF Init, TypeOK
<1>6. SoundRequest(log, FirstPage)
  BY DEF SoundRequest
<1>7. TrailInv
  BY <1>6 DEF Init, TrailInv
<1>8. CallInv
  BY <1>6, NoneIsNothing DEF Init, CallInv, RefreshSound, CallSound, Refresh
<1>9. ShownInv
  BY NoneIsNothing DEF Init, ShownInv, Refresh
<1>. QED
  BY <1>5, <1>7, <1>8, <1>9 DEF IInv

LEMMA LogTyped == ASSUME TypeOK, LogGrows
  PROVE log' \in Seq(Versions) /\ Len(log') <= MaxVersions
  BY Grown

LEMMA QueueChangesKeeps ==
  ASSUME IInv, QueueChanges
  PROVE  IInv'
<1>. USE DEF IInv
<1>1. LogGrows
  <2>1. PICK t \in Tenures, s \in {"open", "admitted", "left"} : Versioned(t, s)
    BY DEF QueueChanges
  <2>2. [tenure |-> t, status |-> s] \in Versions
    BY DEF Versions
  <2>. QED
    BY <2>1, <2>2 DEF Versioned, LogGrows
<1>2. UNCHANGED <<dispatch, screenVars, callVars>>
  BY DEF QueueChanges
<1>3. TypeOK'
  BY <1>1, <1>2, LogTyped DEF TypeOK, screenVars, callVars
<1>4. TrailInv'
  BY <1>1, <1>2, TrailRemains DEF screenVars
<1>5. CallInv'
  BY <1>1, <1>2, Remains DEF CallInv, TypeOK, screenVars, callVars
<1>6. ShownInv'
  BY <1>2 DEF ShownInv, screenVars, callVars
<1>. QED
  BY <1>3, <1>4, <1>5, <1>6

LEMMA DispatchChangesKeeps ==
  ASSUME IInv, DispatchChanges
  PROVE  IInv'
<1>. USE DEF IInv
<1>1. /\ dispatch < MaxSwitches /\ dispatch' = dispatch + 1
      /\ UNCHANGED <<log, screenVars, callVars>>
  BY DEF DispatchChanges
<1>2. dispatch' \in 0..MaxSwitches
  BY <1>1, OverviewAssumption DEF TypeOK, OverviewAssumption
<1>3. TypeOK'
  BY <1>1, <1>2 DEF TypeOK, screenVars, callVars
<1>4. TrailInv'
  BY <1>1 DEF TrailInv, screenVars
<1>5. CallInv'
  BY <1>1 DEF CallInv, screenVars, callVars
<1>6. ShownInv'
  <2>1. dispatch \in Nat /\ shown \in Nat
    BY DEF TypeOK
  <2>2. shown' <= dispatch'
    BY <1>1, <2>1 DEF ShownInv, screenVars
  <2>3. refreshing # None /\ refreshing.snapshot # << >> => refreshing.snapshot[1] \in Nat
    <3>1. refreshing \in Refreshes \cup {None}
      BY DEF TypeOK
    <3>2. refreshing # None => refreshing.snapshot \in Seq(0..MaxSwitches)
      BY <3>1 DEF Refreshes
    <3>3. refreshing # None /\ refreshing.snapshot # << >> =>
             refreshing.snapshot[1] \in 0..MaxSwitches
      BY <3>2, ElementTyped
    <3>. QED
      BY <3>3
  <2>4. call.is = "switched" => call.dispatch \in Nat
    <3>1. call \in CallRecords \cup {None}
      BY DEF TypeOK
    <3>. QED
      BY <3>1, CallFields, NoneIsNothing
  <2>5. refreshing' = refreshing /\ call' = call /\ shown' = shown
    BY <1>1 DEF screenVars, callVars
  <2>6. \A n \in Nat : n <= dispatch => n <= dispatch'
    BY <1>1, <2>1
  <2>. QED
    BY <2>2, <2>3, <2>4, <2>5, <2>6 DEF ShownInv
<1>. QED
  BY <1>3, <1>4, <1>5, <1>6

(* What is read of a refresh, the other reads being as they are. *)
LEMMA ServeRefreshKeeps ==
  ASSUME IInv, ServeRefresh
  PROVE  IInv'
<1>. USE DEF IInv
<1>1. /\ refreshing.is = "refresh"
      /\ UNCHANGED <<log, dispatch, screenVars, superseded, call, failures>>
  BY DEF ServeRefresh, serverVars
<1>2. refreshing \in Refreshes /\ refreshing # None
  BY <1>1, NoneIsNothing DEF TypeOK
<1>3. refreshing.request \in Requests /\ SoundRequest(log, refreshing.request)
  BY <1>2 DEF Refreshes, CallInv, RefreshSound
<1>4. CASE /\ refreshing.snapshot = << >>
           /\ refreshing' = [refreshing EXCEPT !.snapshot = <<dispatch>>]
  <2>1. /\ [refreshing EXCEPT !.snapshot = <<dispatch>>] \in Refreshes
        /\ refreshing' \in Refreshes
    <3>1. <<dispatch>> \in Seq(0..MaxSwitches)
      BY DEF TypeOK
    <3>. QED
      BY <1>2, <1>4, <3>1 DEF Refreshes
  <2>2. /\ refreshing'.request = refreshing.request
        /\ refreshing'.queue = refreshing.queue
        /\ refreshing'.snapshot = <<dispatch>>
    BY <1>2, <1>4 DEF Refreshes
  <2>3. TypeOK'
    BY <1>1, <2>1 DEF TypeOK, screenVars
  <2>4. RefreshSound(log, refreshing')
    BY <1>2, <2>2 DEF CallInv, RefreshSound
  <2>5. CallInv'
    BY <1>1, <2>4 DEF CallInv, screenVars
  <2>6. TrailInv'
    BY <1>1 DEF TrailInv, screenVars
  <2>7. dispatch \in Nat
    BY DEF TypeOK
  <2>8. ShownInv'
    BY <1>1, <2>2, <2>7 DEF ShownInv, screenVars
  <2>. QED
    BY <2>3, <2>5, <2>6, <2>8
<1>5. CASE /\ refreshing.queue = << >>
           /\ refreshing' = [refreshing EXCEPT
                               !.queue = <<ListQueue(log, refreshing.request, Limit)>>]
  <2>. DEFINE page == ListQueue(log, refreshing.request, Limit)
  <2>1. page \in Pages /\ Fits(log, page, refreshing.request)
    BY <1>3, ReadFits DEF TypeOK
  <2>. HIDE DEF page
  <2>2. refreshing' \in Refreshes
    <3>1. <<page>> \in Seq(Pages)
      BY <2>1
    <3>. QED
      BY <1>2, <1>5, <3>1 DEF Refreshes, page
  <2>3. /\ refreshing'.request = refreshing.request
        /\ refreshing'.snapshot = refreshing.snapshot
        /\ refreshing'.queue = <<page>>
    BY <1>2, <1>5 DEF Refreshes, page
  <2>4. TypeOK'
    BY <1>1, <2>2 DEF TypeOK, screenVars
  <2>5. RefreshSound(log, refreshing')
    BY <1>2, <2>1, <2>3 DEF CallInv, RefreshSound
  <2>6. CallInv'
    BY <1>1, <2>5 DEF CallInv, screenVars
  <2>7. TrailInv'
    BY <1>1 DEF TrailInv, screenVars
  <2>8. ShownInv'
    BY <1>1, <1>2, <2>3 DEF ShownInv, screenVars
  <2>. QED
    BY <2>4, <2>6, <2>7, <2>8
<1>. QED
  BY <1>4, <1>5 DEF ServeRefresh

(* A call and what it turns into, the screen being as it is. *)
LEMMA CallMoves ==
  ASSUME IInv, LogGrows, dispatch' \in 0..MaxSwitches, dispatch <= dispatch',
         call # None, call' \in CallRecords,
         CallSound(log', call', queueRequest),
         call'.is = "switched" => call'.dispatch <= dispatch',
         UNCHANGED <<screenVars, refreshing, superseded, failures>>
  PROVE  IInv'
<1>. USE DEF IInv
<1>1. call' # None
  BY NoneIsNothing
<1>2. TypeOK'
  BY <1>1, LogTyped DEF TypeOK, screenVars
<1>3. TrailInv'
  BY TrailRemains DEF screenVars
<1>4. CallInv'
  BY Remains DEF CallInv, TypeOK, screenVars
<1>5. ShownInv'
  <2>1. dispatch \in Nat /\ dispatch' \in Nat /\ shown \in Nat
    BY DEF TypeOK
  <2>2. refreshing # None /\ refreshing.snapshot # << >> => refreshing.snapshot[1] \in Nat
    <3>1. refreshing \in Refreshes \cup {None}
      BY DEF TypeOK
    <3>2. refreshing # None => refreshing.snapshot \in Seq(0..MaxSwitches)
      BY <3>1 DEF Refreshes
    <3>3. refreshing # None /\ refreshing.snapshot # << >> =>
             refreshing.snapshot[1] \in 0..MaxSwitches
      BY <3>2, ElementTyped
    <3>. QED
      BY <3>3
  <2>3. refreshing' = refreshing /\ shown' = shown
    BY DEF screenVars
  <2>4. \A n \in Nat : n <= dispatch => n <= dispatch'
    BY <2>1
  <2>. QED
    BY <2>1, <2>2, <2>3, <2>4 DEF ShownInv
<1>. QED
  BY <1>2, <1>3, <1>4, <1>5

LEMMA ServeCallKeeps ==
  ASSUME IInv, ServeCall
  PROVE  IInv'
<1>. USE DEF IInv
<1>1. UNCHANGED <<screenVars, refreshing, superseded, failures>>
  BY DEF ServeCall
<1>2. dispatch \in 0..MaxSwitches /\ dispatch <= dispatch
  BY DEF TypeOK
<1>3. call \in CallRecords \cup {None} /\ CallSound(log, call, queueRequest)
  BY DEF TypeOK, CallInv
<1>4. CASE /\ call.is = "next"
           /\ call' = [is |-> "page", page |-> ListQueue(log, call.request, Limit),
                       from |-> call.from]
           /\ UNCHANGED serverVars
  <2>1. call \in CallRecords /\ call # None
    BY <1>3, <1>4, NoneIsNothing
  <2>2. /\ call.request \in Requests /\ call.from \in Pages
        /\ call.request = NextOf(call.from)
        /\ Fits(log, call.from, queueRequest) /\ call.from.next # 0
    BY <1>3, <1>4, <2>1, CallFields DEF CallSound
  <2>3. SoundRequest(log, call.request)
    BY <2>2, NextRequest DEF TypeOK, Fits
  <2>4. /\ ListQueue(log, call.request, Limit) \in Pages
        /\ Fits(log, ListQueue(log, call.request, Limit), call.request)
    BY <2>2, <2>3, ReadFits DEF TypeOK
  <2>5. call' \in CallRecords
    BY <1>4, <2>2, <2>4 DEF CallRecords
  <2>6. CallSound(log', call', queueRequest)
    BY <1>4, <2>2, <2>4 DEF CallSound, serverVars
  <2>7. LogGrows /\ dispatch' \in 0..MaxSwitches /\ dispatch <= dispatch'
    BY <1>2, <1>4 DEF LogGrows, serverVars
  <2>8. call'.is # "switched"
    BY <1>4
  <2>. QED
    BY <1>1, <2>1, <2>5, <2>6, <2>7, <2>8, CallMoves
<1>5. CASE call.is = "start" /\ call' = [is |-> "started"]
  <2>1. call \in CallRecords /\ call # None
    BY <1>3, <1>5, NoneIsNothing
  <2>2. call' \in CallRecords /\ call'.is = "started"
    BY <1>5 DEF CallRecords
  <2>3. CallSound(log', call', queueRequest)
    BY <2>2 DEF CallSound
  <2>4. call.is # "next" /\ call.is # "switch"
    BY <1>5
  <2>5. LogGrows /\ dispatch' = dispatch
    <3>1. CASE Versioned(call.tenure, "admitted") /\ UNCHANGED dispatch
      <4>1. [tenure |-> call.tenure, status |-> "admitted"] \in Versions
        BY <1>5, <2>1, CallFields DEF Versions
      <4>. QED
        BY <3>1, <4>1 DEF Versioned, LogGrows
    <3>2. CASE UNCHANGED serverVars
      BY <3>2 DEF LogGrows, serverVars
    <3>. QED
      BY <2>4, <3>1, <3>2 DEF ServeCall
  <2>6. dispatch' \in 0..MaxSwitches /\ dispatch <= dispatch'
    BY <1>2, <2>5
  <2>. QED
    BY <1>1, <2>1, <2>2, <2>3, <2>5, <2>6, CallMoves
<1>6. CASE /\ call.is = "switch"
           /\ dispatch' \in {dispatch, dispatch + 1} \cap (0..MaxSwitches)
           /\ call' = [is |-> "switched", dispatch |-> dispatch']
           /\ UNCHANGED log
  <2>1. call # None
    BY <1>6, NoneIsNothing
  <2>2. dispatch' \in 0..MaxSwitches /\ dispatch <= dispatch' /\ dispatch' <= dispatch'
    BY <1>2, <1>6
  <2>3. /\ call' \in CallRecords /\ call'.is = "switched"
        /\ call'.dispatch = dispatch'
    BY <1>6, <2>2 DEF CallRecords
  <2>4. CallSound(log', call', queueRequest)
    BY <2>3 DEF CallSound
  <2>5. LogGrows
    BY <1>6 DEF LogGrows
  <2>. QED
    BY <1>1, <2>1, <2>2, <2>3, <2>4, <2>5, CallMoves
<1>. QED
  BY <1>4, <1>5, <1>6 DEF ServeCall

------------------------------------------------------------------------------
(* The screen *)

(* A refresh begins for a sound request; the earlier one may stay.         *)
LEMMA RefreshBegins ==
  ASSUME TypeOK, CallInv, NEW request \in Requests, SoundRequest(log, request),
         BeginRefresh(request)
  PROVE  /\ refreshing' \in Refreshes /\ refreshing'.snapshot = << >>
         /\ superseded' \in Refreshes \cup {None}
         /\ RefreshSound(log, refreshing') /\ RefreshSound(log, superseded')
<1>1. /\ refreshing' = Refresh(request)
      /\ superseded' \in {refreshing, superseded}
  BY DEF BeginRefresh
<1>2. Refresh(request) \in Refreshes
  BY DEF Refresh, Refreshes
<1>3. Refresh(request).snapshot = << >> /\ RefreshSound(log, Refresh(request))
  BY DEF Refresh, RefreshSound
<1>. QED
  BY <1>1, <1>2, <1>3 DEF TypeOK, CallInv

LEMMA RefreshDueKeeps ==
  ASSUME IInv, RefreshDue
  PROVE  IInv'
<1>. USE DEF IInv
<1>1. BeginRefresh(queueRequest) /\ UNCHANGED <<serverVars, screenVars, call, failures>>
  BY DEF RefreshDue
<1>2. queueRequest \in Requests /\ SoundRequest(log, queueRequest)
  BY DEF TypeOK, TrailInv
<1>3. /\ refreshing' \in Refreshes /\ refreshing'.snapshot = << >>
      /\ superseded' \in Refreshes \cup {None}
      /\ RefreshSound(log, refreshing') /\ RefreshSound(log, superseded')
  BY <1>1, <1>2, RefreshBegins
<1>4. TypeOK'
  BY <1>1, <1>3 DEF TypeOK, serverVars, screenVars
<1>5. TrailInv'
  BY <1>1 DEF TrailInv, serverVars, screenVars
<1>6. CallInv'
  BY <1>1, <1>3 DEF CallInv, serverVars, screenVars
<1>7. ShownInv'
  BY <1>1, <1>3 DEF ShownInv, serverVars, screenVars
<1>. QED
  BY <1>4, <1>5, <1>6, <1>7

LEMMA RefreshArrivesKeeps ==
  ASSUME IInv, RefreshArrives
  PROVE  IInv'
<1>. USE DEF IInv
<1>1. /\ Served(refreshing) /\ refreshing' = None
      /\ shown' = refreshing.snapshot[1]
      /\ queue' = IF refreshing.request = queueRequest THEN refreshing.queue[1] ELSE queue
      /\ loadError' = FALSE
      /\ UNCHANGED <<queueRequest, queueHistory, pending>>
      /\ UNCHANGED <<serverVars, superseded, call, failures>>
  BY DEF RefreshArrives, Apply
<1>2. refreshing \in Refreshes /\ refreshing # None
  BY <1>1, NoneIsNothing DEF TypeOK, Served
<1>3. /\ refreshing.snapshot \in Seq(0..MaxSwitches) /\ refreshing.snapshot # << >>
      /\ refreshing.queue \in Seq(Pages) /\ refreshing.queue # << >>
  BY <1>1, <1>2 DEF Refreshes, Served
<1>4. refreshing.snapshot[1] \in 0..MaxSwitches /\ refreshing.queue[1] \in Pages
  BY <1>3, ElementTyped
<1>5. Fits(log, refreshing.queue[1], refreshing.request)
  BY <1>2, <1>3 DEF CallInv, RefreshSound
<1>6. queue' \in Pages \cup {None} /\ (queue' # None => Fits(log, queue', queueRequest))
  BY <1>1, <1>4, <1>5 DEF TypeOK, TrailInv
<1>7. TypeOK'
  BY <1>1, <1>4, <1>6 DEF TypeOK, serverVars
<1>8. TrailInv'
  BY <1>1, <1>6 DEF TrailInv, serverVars
<1>9. CallInv'
  BY <1>1, NoneIsNothing DEF CallInv, RefreshSound, serverVars
<1>10. ShownInv'
  BY <1>1, <1>2, <1>3 DEF ShownInv, serverVars
<1>. QED
  BY <1>7, <1>8, <1>9, <1>10

LEMMA SupersededArrivesKeeps ==
  ASSUME IInv, SupersededArrives
  PROVE  IInv'
<1>. USE DEF IInv
<1>1. UNCHANGED <<screenVars, serverVars, refreshing, call, failures>> /\ superseded' = None
  BY DEF SupersededArrives, Discard
<1>2. TypeOK'
  BY <1>1 DEF TypeOK, serverVars, screenVars
<1>3. TrailInv' /\ ShownInv'
  BY <1>1 DEF TrailInv, ShownInv, serverVars, screenVars
<1>4. CallInv'
  BY <1>1 DEF CallInv, RefreshSound, serverVars, screenVars
<1>. QED
  BY <1>2, <1>3, <1>4

LEMMA RefreshFailsKeeps ==
  ASSUME IInv, RefreshFails
  PROVE  IInv'
<1>. USE DEF IInv
<1>1. /\ failures < MaxFailures /\ failures' = failures + 1
      /\ refreshing' = None /\ loadError' = TRUE
      /\ UNCHANGED <<serverVars, shown, queue, queueRequest, queueHistory, pending,
                     superseded, call>>
  BY DEF RefreshFails
<1>2. failures' \in 0..MaxFailures
  BY <1>1, OverviewAssumption DEF TypeOK, OverviewAssumption
<1>3. loadError' \in BOOLEAN
  BY <1>1
<1>4. TypeOK'
  BY <1>1, <1>2, <1>3 DEF TypeOK, serverVars
<1>5. TrailInv' /\ ShownInv'
  BY <1>1 DEF TrailInv, ShownInv, serverVars
<1>6. CallInv'
  BY <1>1 DEF CallInv, RefreshSound, serverVars
<1>. QED
  BY <1>4, <1>5, <1>6

------------------------------------------------------------------------------
(* The controls *)

LEMMA NextPageKeeps ==
  ASSUME IInv, NextPage
  PROVE  IInv'
<1>. USE DEF IInv
<1>1. /\ queue # None /\ queue.next # 0 /\ pending' = "queue-next"
      /\ call' = [is |-> "next", request |-> NextOf(queue), from |-> queue]
      /\ UNCHANGED <<serverVars, shown, queue, queueRequest, queueHistory, loadError,
                     refreshing, superseded, failures>>
  BY DEF NextPage
<1>2. queue \in Pages /\ Fits(log, queue, queueRequest)
  BY <1>1 DEF TypeOK, TrailInv
<1>3. NextOf(queue) \in Requests
  BY <1>1, <1>2, NextRequest DEF TypeOK, Fits
<1>4. call' \in CallRecords /\ call' # None /\ call'.is = "next"
  <2>1. call' \in CallRecords
    BY <1>1, <1>2, <1>3 DEF CallRecords
  <2>. QED
    BY <1>1, <2>1, NoneIsNothing
<1>5. TypeOK'
  BY <1>1, <1>4 DEF TypeOK, serverVars
<1>6. TrailInv'
  BY <1>1 DEF TrailInv, serverVars
<1>7. CallInv'
  BY <1>1, <1>2 DEF CallInv, CallSound, serverVars
<1>8. ShownInv'
  BY <1>1, <1>4 DEF ShownInv, serverVars
<1>. QED
  BY <1>5, <1>6, <1>7, <1>8

LEMMA NextPageArrivesKeeps ==
  ASSUME IInv, NextPageArrives
  PROVE  IInv'
<1>. USE DEF IInv
<1>. DEFINE entry == [page |-> call.from, request |-> queueRequest]
            old == queueHistory
            n == Len(old)
<1>1. /\ call.is = "page" /\ queueHistory' = Append(old, entry)
      /\ queueRequest' = NextOf(call.from) /\ queue' = call.page
      /\ pending' = "none" /\ call' = None
      /\ UNCHANGED <<serverVars, shown, loadError, refreshing, superseded, failures>>
  BY DEF NextPageArrives
<1>2. call \in CallRecords /\ call.page \in Pages /\ call.from \in Pages
  BY <1>1, CallFields, NoneIsNothing DEF TypeOK
<1>3. /\ Fits(log, call.from, queueRequest) /\ call.from.next # 0
      /\ Fits(log, call.page, NextOf(call.from))
  BY <1>1 DEF CallInv, CallSound
<1>4. NextOf(call.from) \in Requests /\ SoundRequest(log, NextOf(call.from))
  BY <1>2, <1>3, NextRequest DEF TypeOK, Fits
<1>5. entry \in [page : Pages, request : Requests]
  BY <1>2 DEF TypeOK
<1>6. old \in Seq([page : Pages, request : Requests]) /\ n \in Nat
  BY DEF TypeOK
<1>. HIDE DEF entry, old
<1>7. /\ queueHistory' \in Seq([page : Pages, request : Requests])
      /\ DOMAIN queueHistory' = 1..n + 1 /\ queueHistory' # << >>
      /\ Len(queueHistory') = n + 1
      /\ \A k \in 1..n : queueHistory'[k] = old[k]
      /\ queueHistory'[n + 1] = entry
  BY <1>1, <1>5, <1>6
<1>8. TypeOK'
  BY <1>1, <1>2, <1>4, <1>7 DEF TypeOK, serverVars
<1>9. TrailInv'
  <2>1. log' = log
    BY <1>1 DEF serverVars
  <2>2. Fits(log, queue', queueRequest') /\ SoundRequest(log, queueRequest')
    BY <1>1, <1>3, <1>4
  <2>3. queueRequest' = NextOf(queueHistory'[Len(queueHistory')].page)
    BY <1>1, <1>7 DEF entry
  <2>4. ASSUME NEW k \in 1..n + 1
        PROVE  /\ Fits(log, queueHistory'[k].page, queueHistory'[k].request)
               /\ queueHistory'[k].page.next # 0
               /\ queueHistory'[k].request =
                     IF k = 1 THEN FirstPage ELSE NextOf(queueHistory'[k - 1].page)
    <3>1. CASE k \in 1..n
      <4>1. /\ Fits(log, old[k].page, old[k].request) /\ old[k].page.next # 0
            /\ old[k].request = IF k = 1 THEN FirstPage ELSE NextOf(old[k - 1].page)
        BY <1>6, <3>1 DEF TrailInv, old
      <4>2. k # 1 => k - 1 \in 1..n
        BY <1>6, <3>1
      <4>. QED
        BY <1>7, <3>1, <4>1, <4>2
    <3>2. CASE k = n + 1
      <4>1. queueHistory'[k].page = call.from /\ queueHistory'[k].request = queueRequest
        BY <1>7, <3>2 DEF entry
      <4>2. queueRequest = IF old = << >> THEN FirstPage ELSE NextOf(old[n].page)
        BY DEF TrailInv, old
      <4>3. old = << >> <=> n = 0
        BY <1>6
      <4>4. n # 0 => n \in 1..n /\ k - 1 = n /\ k # 1
        BY <1>6, <3>2
      <4>5. n = 0 => k = 1
        BY <3>2
      <4>. QED
        BY <1>3, <1>7, <4>1, <4>2, <4>3, <4>4, <4>5
    <3>. QED
      BY <1>6, <3>1, <3>2
  <2>. QED
    BY <1>7, <2>1, <2>2, <2>3, <2>4 DEF TrailInv
<1>10. CallInv'
  BY <1>1, NoneIsNothing DEF CallInv, CallSound, serverVars
<1>11. ShownInv'
  BY <1>1, NoneIsNothing DEF ShownInv, serverVars
<1>. QED
  BY <1>8, <1>9, <1>10, <1>11

LEMMA PreviousPageKeeps ==
  ASSUME IInv, PreviousPage
  PROVE  IInv'
<1>. USE DEF IInv
<1>. DEFINE old == queueHistory
            n == Len(old)
<1>1. /\ pending = "none" /\ old # << >>
      /\ queueRequest' = Last(old).request /\ queue' = Last(old).page
      /\ queueHistory' = Front(old)
      /\ UNCHANGED <<serverVars, shown, pending, loadError, callVars>>
  BY DEF PreviousPage
<1>2. old \in Seq([page : Pages, request : Requests]) /\ n \in Nat \ {0}
  BY <1>1 DEF TypeOK
<1>3. Last(old) = old[n] /\ n \in DOMAIN old /\ (n # 1 => n - 1 \in DOMAIN old)
  BY <1>1, <1>2, FrontOf
<1>4. old[n].page \in Pages /\ old[n].request \in Requests
  <2>1. old[n] \in [page : Pages, request : Requests]
    BY <1>2, <1>3, ElementTyped
  <2>. QED
    BY <2>1
<1>5. /\ Fits(log, old[n].page, old[n].request)
      /\ old[n].request = IF n = 1 THEN FirstPage ELSE NextOf(old[n - 1].page)
  BY <1>3 DEF TrailInv
<1>6. SoundRequest(log, old[n].request)
  <2>1. CASE n = 1
    BY <1>5, <2>1 DEF SoundRequest
  <2>2. CASE n # 1
    <3>1. n - 1 \in DOMAIN old
      BY <1>3, <2>2
    <3>2. Fits(log, old[n - 1].page, old[n - 1].request) /\ old[n - 1].page.next # 0
      BY <3>1 DEF TrailInv
    <3>3. old[n - 1] \in [page : Pages, request : Requests]
      BY <1>2, <3>1, ElementTyped
    <3>4. old[n - 1].page \in Pages
      BY <3>3
    <3>. QED
      BY <1>5, <2>2, <3>2, <3>4, NextRequest DEF TypeOK, Fits
  <2>. QED
    BY <2>1, <2>2
<1>7. /\ queueHistory' \in Seq([page : Pages, request : Requests])
      /\ DOMAIN queueHistory' = 1..n - 1 /\ Len(queueHistory') = n - 1
      /\ queueHistory' = << >> <=> n = 1
      /\ \A k \in 1..n - 1 : queueHistory'[k] = old[k] /\ k \in DOMAIN old
  BY <1>1, <1>2, FrontOf
<1>8. TypeOK'
  BY <1>1, <1>3, <1>4, <1>7 DEF TypeOK, serverVars, callVars
<1>9. TrailInv'
  <2>1. log' = log
    BY <1>1 DEF serverVars
  <2>2. Fits(log, queue', queueRequest') /\ SoundRequest(log, queueRequest')
    BY <1>1, <1>3, <1>5, <1>6
  <2>3. queueRequest' = IF queueHistory' = << >> THEN FirstPage
                        ELSE NextOf(queueHistory'[Len(queueHistory')].page)
    BY <1>1, <1>2, <1>3, <1>5, <1>7
  <2>4. ASSUME NEW k \in 1..n - 1
        PROVE  /\ Fits(log, queueHistory'[k].page, queueHistory'[k].request)
               /\ queueHistory'[k].page.next # 0
               /\ queueHistory'[k].request =
                     IF k = 1 THEN FirstPage ELSE NextOf(queueHistory'[k - 1].page)
    <3>1. k \in DOMAIN old /\ queueHistory'[k] = old[k]
      BY <1>7
    <3>2. /\ Fits(log, old[k].page, old[k].request) /\ old[k].page.next # 0
          /\ old[k].request = IF k = 1 THEN FirstPage ELSE NextOf(old[k - 1].page)
      BY <3>1 DEF TrailInv
    <3>3. k # 1 => k - 1 \in 1..n - 1
      BY <1>2
    <3>. QED
      BY <1>7, <3>1, <3>2, <3>3
  <2>. QED
    BY <1>7, <2>1, <2>2, <2>3, <2>4 DEF TrailInv
<1>10. CallInv'
  <2>1. call = None
    BY <1>1 DEF TypeOK
  <2>. QED
    BY <1>1, <2>1, NoneIsNothing DEF CallInv, CallSound, serverVars, callVars
<1>11. ShownInv'
  BY <1>1 DEF ShownInv, serverVars, callVars
<1>. QED
  BY <1>8, <1>9, <1>10, <1>11

(* A command is sent. *)
LEMMA CommandSent ==
  ASSUME IInv, call' \in CallRecords, call'.is \in {"start", "switch"},
         pending' \in {"start", "dispatch"},
         UNCHANGED <<serverVars, shown, queue, queueRequest, queueHistory, loadError,
                     refreshing, superseded, failures>>
  PROVE  IInv'
<1>. USE DEF IInv
<1>1. call' # None
  BY NoneIsNothing
<1>2. TypeOK'
  BY <1>1 DEF TypeOK, serverVars
<1>3. TrailInv' /\ CallInv' /\ ShownInv'
  BY DEF TrailInv, CallInv, CallSound, ShownInv, serverVars
<1>. QED
  BY <1>2, <1>3

LEMMA StartNowKeeps ==
  ASSUME IInv, StartNow
  PROVE  IInv'
<1>1. PICK n \in DOMAIN queue.items :
         call' = [is |-> "start", tenure |-> queue.items[n].tenure]
  BY DEF StartNow
<1>2. queue \in Pages
  BY DEF StartNow, IInv, TypeOK
<1>3. queue.items \in Seq(Versions)
  BY <1>2 DEF Pages
<1>4. queue.items[n] \in Versions
  BY <1>3, ElementTyped
<1>5. call' \in CallRecords /\ call'.is = "start"
  BY <1>1, <1>4 DEF Versions, CallRecords
<1>. QED
  BY <1>5, CommandSent DEF StartNow

LEMMA SwitchDispatchKeeps ==
  ASSUME IInv, SwitchDispatch
  PROVE  IInv'
<1>1. call' \in CallRecords /\ call'.is = "switch"
  BY DEF SwitchDispatch, CallRecords
<1>. QED
  BY <1>1, CommandSent DEF SwitchDispatch

LEMMA CommandAnsweredKeeps ==
  ASSUME IInv, CommandAnswered
  PROVE  IInv'
<1>. USE DEF IInv
<1>1. /\ call.is \in {"started", "switched"}
      /\ shown' = IF call.is = "switched" THEN call.dispatch ELSE shown
      /\ queueRequest' = IF call.is = "started" THEN FirstPage ELSE queueRequest
      /\ queueHistory' = IF call.is = "started" THEN << >> ELSE queueHistory
      /\ pending' = "none" /\ call' = None
      /\ BeginRefresh(queueRequest')
      /\ UNCHANGED <<serverVars, queue, loadError, failures>>
  BY DEF CommandAnswered
<1>2. call \in CallRecords
  BY <1>1, NoneIsNothing DEF TypeOK
<1>3. shown' \in 0..MaxSwitches /\ shown' <= dispatch
  BY <1>1, <1>2, CallFields DEF TypeOK, ShownInv
<1>4. queueRequest' \in Requests /\ SoundRequest(log, queueRequest')
  <2>1. FirstPage \in Requests
    BY OverviewAssumption DEF FirstPage, Requests, OverviewAssumption
  <2>. QED
    BY <1>1, <2>1 DEF TypeOK, TrailInv, SoundRequest
<1>5. /\ refreshing' \in Refreshes /\ refreshing'.snapshot = << >>
      /\ superseded' \in Refreshes \cup {None}
      /\ RefreshSound(log, refreshing') /\ RefreshSound(log, superseded')
  <2>1. ASSUME NEW r \in Requests, r = queueRequest'
        PROVE  /\ refreshing' \in Refreshes /\ refreshing'.snapshot = << >>
               /\ superseded' \in Refreshes \cup {None}
               /\ RefreshSound(log, refreshing') /\ RefreshSound(log, superseded')
    BY <1>1, <1>4, <2>1, RefreshBegins
  <2>. QED
    BY <1>4, <2>1
<1>6. queueHistory' \in Seq([page : Pages, request : Requests])
  BY <1>1 DEF TypeOK
<1>7. TypeOK'
  BY <1>1, <1>3, <1>4, <1>5, <1>6 DEF TypeOK, serverVars
<1>8. TrailInv'
  <2>1. CASE call.is = "started"
    BY <1>1, <1>4, <2>1 DEF TrailInv, Fits, serverVars
  <2>2. CASE call.is # "started"
    BY <1>1, <2>2 DEF TrailInv, serverVars
  <2>. QED
    BY <2>1, <2>2
<1>9. CallInv'
  BY <1>1, <1>5, NoneIsNothing DEF CallInv, CallSound, serverVars
<1>10. ShownInv'
  BY <1>1, <1>3, <1>5, NoneIsNothing DEF ShownInv, serverVars
<1>. QED
  BY <1>7, <1>8, <1>9, <1>10

LEMMA CallFailsKeeps ==
  ASSUME IInv, CallFails
  PROVE  IInv'
<1>. USE DEF IInv
<1>1. /\ failures < MaxFailures /\ failures' = failures + 1
      /\ pending' = "none" /\ call' = None
      /\ loadError' = (loadError \/ call.is \in {"next", "page"})
      /\ UNCHANGED <<serverVars, shown, queue, queueRequest, queueHistory,
                     refreshing, superseded>>
  BY DEF CallFails
<1>2. failures' \in 0..MaxFailures
  BY <1>1, OverviewAssumption DEF TypeOK, OverviewAssumption
<1>3. loadError' \in BOOLEAN
  BY <1>1
<1>4. TypeOK'
  BY <1>1, <1>2, <1>3 DEF TypeOK, serverVars
<1>5. TrailInv'
  BY <1>1 DEF TrailInv, serverVars
<1>6. CallInv' /\ ShownInv'
  BY <1>1, NoneIsNothing DEF CallInv, CallSound, ShownInv, serverVars
<1>. QED
  BY <1>4, <1>5, <1>6

LEMMA Preserved == IInv /\ [Next]_vars => IInv'
<1>. SUFFICES ASSUME IInv, [Next]_vars PROVE IInv'
  OBVIOUS
<1>1. CASE ServiceNext
  BY <1>1, QueueChangesKeeps, DispatchChangesKeeps, ServeRefreshKeeps, ServeCallKeeps
     DEF ServiceNext
<1>2. CASE ScreenNext
  BY <1>2, RefreshDueKeeps, RefreshArrivesKeeps, SupersededArrivesKeeps,
     RefreshFailsKeeps, NextPageKeeps, NextPageArrivesKeeps, PreviousPageKeeps,
     StartNowKeeps, SwitchDispatchKeeps, CommandAnsweredKeeps, CallFailsKeeps
     DEF ScreenNext
<1>3. CASE UNCHANGED vars
  BY <1>3 DEF vars, serverVars, screenVars, callVars, IInv, TypeOK, TrailInv, CallInv,
              ShownInv
<1>. QED
  BY <1>1, <1>2, <1>3 DEF Next

LEMMA Invariance == Spec => []IInv
  BY Starts, Preserved, PTL DEF Spec

------------------------------------------------------------------------------
(* Pages that follow each other *)

(* Where a page ends. *)
End(p) == p.at + Len(p.items)

LEMMA PageEnds ==
  ASSUME NEW l \in Seq(Versions), NEW p \in Pages, SoundPage(l, p)
  PROVE  /\ p.at \in 0..Len(RowsAt(l, p.mark))
         /\ End(p) \in p.at..Len(RowsAt(l, p.mark))
         /\ p.at < Len(RowsAt(l, p.mark)) => p.at < End(p)
         /\ p.items = SubSeq(RowsAt(l, p.mark), p.at + 1, End(p))
         /\ p.next = IF End(p) < Len(RowsAt(l, p.mark)) THEN End(p) ELSE 0
<1>. DEFINE rows == RowsAt(l, p.mark)
<1>1. p.mark \in 0..Len(l)
  BY OverviewAssumption DEF Pages, SoundPage, OverviewAssumption
<1>2. rows \in Seq(Versions) /\ Len(rows) \in Nat
  BY <1>1, RowsTyped
<1>3. p.at \in 0..Len(rows) /\ p = Page(rows, p.at, Limit, p.mark)
  BY DEF SoundPage
<1>4. Limit \in Nat \ {0}
  BY OverviewAssumption DEF OverviewAssumption
<1>. HIDE DEF rows
<1>5. \A at \in 0..Len(rows), mark \in Nat :
        \E end \in at..Len(rows) :
           /\ at < Len(rows) => at < end
           /\ Page(rows, at, Limit, mark) =
                [items |-> SubSeq(rows, at + 1, end), at |-> at, mark |-> mark,
                 next |-> IF end < Len(rows) THEN end ELSE 0]
  BY <1>2, <1>4, PageHolds
<1>6. p.mark \in Nat
  BY <1>1
<1>7. PICK end \in p.at..Len(rows) :
        /\ p.at < Len(rows) => p.at < end
        /\ p = [items |-> SubSeq(rows, p.at + 1, end), at |-> p.at, mark |-> p.mark,
                next |-> IF end < Len(rows) THEN end ELSE 0]
  BY <1>3, <1>5, <1>6
<1>8. /\ p.items = SubSeq(rows, p.at + 1, end)
      /\ p.next = IF end < Len(rows) THEN end ELSE 0
  BY <1>7
<1>9. Len(p.items) = end - p.at
  <2>1. p.at + 1 \in Int /\ end \in Int /\ \A i \in p.at + 1 .. end : rows[i] \in Versions
    BY <1>2, <1>3
  <2>2. Len(SubSeq(rows, p.at + 1, end)) =
           IF p.at + 1 <= end THEN end - (p.at + 1) + 1 ELSE 0
    BY <2>1, SubSeqProperties
  <2>. QED
    BY <1>3, <1>8, <2>2
<1>10. End(p) = end
  BY <1>3, <1>9 DEF End
<1>. QED
  BY <1>3, <1>7, <1>8, <1>10 DEF rows

LEMMA Joins ==
  ASSUME NEW l \in Seq(Versions), NEW T \in Seq(Pages), T # << >>,
         \A n \in DOMAIN T : SoundPage(l, T[n]),
         \A n \in DOMAIN T : n # 1 =>
            /\ T[n - 1].next # 0
            /\ T[n].at = T[n - 1].next /\ T[n].mark = T[n - 1].mark
  PROVE  LET rows  == RowsAt(l, T[1].mark)
             items == FlattenSeq([n \in DOMAIN T |-> T[n].items])
         IN  /\ items = SubSeq(rows, T[1].at + 1, T[1].at + Len(items))
             /\ T[Len(T)].next = 0 => T[1].at + Len(items) = Len(rows)
<1>. DEFINE N == Len(T)
            mark == T[1].mark
            rows == RowsAt(l, mark)
            S == {i \in Nat : i + 1 \in 1..N => T[i + 1].mark = mark}
<1>1. N \in Nat \ {0} /\ DOMAIN T = 1..N /\ \A n \in 1..N : T[n] \in Pages
  OBVIOUS
<1>. HIDE DEF N
<1>2. \A n \in 1..N : T[n].mark = mark
  <2>1. 0 \in S
    OBVIOUS
  <2>2. ASSUME NEW i \in Nat, i \in S PROVE i + 1 \in S
    <3>1. SUFFICES ASSUME i + 2 \in 1..N PROVE T[i + 2].mark = mark
      OBVIOUS
    <3>2. i + 1 \in 1..N /\ (i + 2) - 1 = i + 1 /\ i + 2 # 1
      BY <1>1, <3>1
    <3>. QED
      BY <1>1, <2>2, <3>1, <3>2
  <2>3. Nat \subseteq S
    <3>. HIDE DEF S
    <3>. QED
      BY <2>1, <2>2, InductionOn
  <2>. TAKE n \in 1..N
  <2>4. n - 1 \in Nat /\ (n - 1) + 1 = n
    OBVIOUS
  <2>5. n - 1 \in S
    BY <2>3, <2>4
  <2>. QED
    BY <2>4, <2>5
<1>3. rows \in Seq(Versions) /\ Len(rows) \in Nat
  <2>1. 1 \in 1..N /\ T[1] \in Pages /\ SoundPage(l, T[1])
    BY <1>1
  <2>2. mark \in 0..Len(l)
    BY <2>1, OverviewAssumption DEF Pages, SoundPage, OverviewAssumption
  <2>. QED
    BY <2>2, RowsTyped
<1>4. \A n \in 1..N :
         /\ T[n].at \in 0..Len(rows) /\ End(T[n]) \in T[n].at..Len(rows)
         /\ T[n].at < Len(rows) => T[n].at < End(T[n])
         /\ T[n].items = SubSeq(rows, T[n].at + 1, End(T[n]))
         /\ T[n].next = IF End(T[n]) < Len(rows) THEN End(T[n]) ELSE 0
  <2>. TAKE n \in 1..N
  <2>1. T[n] \in Pages /\ SoundPage(l, T[n]) /\ RowsAt(l, T[n].mark) = rows
    BY <1>1, <1>2
  <2>. HIDE DEF rows
  <2>. QED
    BY <2>1, PageEnds
<1>. HIDE DEF rows, mark
<1>. DEFINE ends == [n \in 0..N |-> IF n = 0 THEN T[1].at ELSE End(T[n])]
            parts == [n \in DOMAIN T |-> T[n].items]
<1>5. ends \in [0..N -> 0..Len(rows)]
  <2>1. 1 \in 1..N
    BY <1>1
  <2>2. T[1].at \in 0..Len(rows)
    BY <1>4, <2>1
  <2>3. \A n \in 1..N : End(T[n]) \in 0..Len(rows)
    BY <1>3, <1>4
  <2>4. \A n \in 0..N : n # 0 => n \in 1..N
    BY <1>1
  <2>. QED
    BY <2>2, <2>3, <2>4
<1>6. \A n \in 1..N : ends[n] = End(T[n]) /\ ends[n - 1] = T[n].at
  <2>. TAKE n \in 1..N
  <2>1. n \in 0..N /\ n - 1 \in 0..N /\ n # 0
    BY <1>1
  <2>2. CASE n = 1
    BY <2>1, <2>2
  <2>3. CASE n # 1
    <3>1. n - 1 \in 1..N /\ n - 1 # 0
      BY <1>1, <2>3
    <3>2. T[n - 1].next # 0 /\ T[n].at = T[n - 1].next
      BY <1>1, <2>3
    <3>3. T[n].at = End(T[n - 1])
      BY <1>4, <3>1, <3>2
    <3>. QED
      BY <2>1, <3>1, <3>3
  <2>. QED
    BY <2>2, <2>3
<1>. HIDE DEF ends
<1>7. parts = [n \in 1..N |-> SubSeq(rows, ends[n - 1] + 1, ends[n])]
  <2>1. \A n \in 1..N : T[n].items = SubSeq(rows, ends[n - 1] + 1, ends[n])
    BY <1>4, <1>6
  <2>. QED
    BY <1>1, <2>1
<1>8. \A n \in 1..N : ends[n - 1] <= ends[n]
  <2>. TAKE n \in 1..N
  <2>1. \A a \in 0..Len(rows) : \A b \in a..Len(rows) : a <= b
    OBVIOUS
  <2>2. T[n].at <= End(T[n])
    BY <1>4, <2>1
  <2>. QED
    BY <1>6, <2>2
<1>9. 0 \in 0..N /\ N \in 0..N /\ N \in 1..N
  BY <1>1
<1>10. ends[0] = T[1].at
  BY <1>9 DEF ends
<1>. HIDE DEF parts
<1>11. FlattenSeq(parts) = SubSeq(rows, ends[0] + 1, ends[N]) /\ ends[0] <= ends[N]
  BY <1>1, <1>3, <1>5, <1>7, <1>8, Flattened
<1>12. ends[0] \in 0..Len(rows) /\ ends[N] \in 0..Len(rows)
  BY <1>5, <1>9
<1>13. ends[0] + Len(FlattenSeq(parts)) = ends[N]
  <2>1. \A a, b \in 0..Len(rows) : a <= b => a + Len(SubSeq(rows, a + 1, b)) = b
    <3>. TAKE a, b \in 0..Len(rows)
    <3>1. a + 1 \in Int /\ b \in Int /\ \A i \in a + 1 .. b : rows[i] \in Versions
      BY <1>3
    <3>2. Len(SubSeq(rows, a + 1, b)) = IF a + 1 <= b THEN b - (a + 1) + 1 ELSE 0
      BY <3>1, SubSeqProperties
    <3>. QED
      BY <1>3, <3>1, <3>2
  <2>. QED
    BY <1>11, <1>12, <2>1
<1>14. T[N].next = 0 => ends[N] = Len(rows)
  <2>1. /\ ends[N] = End(T[N])
        /\ T[N].at \in 0..Len(rows) /\ ends[N] \in T[N].at..Len(rows)
        /\ T[N].at < Len(rows) => T[N].at < ends[N]
        /\ T[N].next = IF ends[N] < Len(rows) THEN ends[N] ELSE 0
    BY <1>4, <1>6, <1>9
  <2>2. \A a \in 0..Len(rows) : \A e \in a..Len(rows) :
           (a < Len(rows) => a < e) /\ (e < Len(rows) => e = 0) => e = Len(rows)
    BY <1>3
  <2>3. T[N].next = 0 => (ends[N] < Len(rows) => ends[N] = 0)
    BY <2>1
  <2>. QED
    BY <1>12, <2>1, <2>2, <2>3
<1>. QED
  BY <1>10, <1>11, <1>13, <1>14 DEF rows, mark, parts, N

(* What the operator paged through is a sound trail: every page answers    *)
(* the request for the one after the page before it.                       *)
LEMMA TrailSound ==
  ASSUME IInv
  PROVE  /\ Trail \in Seq(Pages)
         /\ \A n \in DOMAIN Trail : SoundPage(log, Trail[n])
         /\ \A n \in DOMAIN Trail : n # 1 =>
               /\ Trail[n - 1].next # 0
               /\ Trail[n].at = Trail[n - 1].next /\ Trail[n].mark = Trail[n - 1].mark
<1>. DEFINE H == queueHistory
            K == Len(H)
            past == [n \in DOMAIN H |-> H[n].page]
            T == Trail
<1>1. /\ K \in Nat /\ DOMAIN H = 1..K
      /\ \A n \in 1..K : H[n].page \in Pages
  <2>1. queueHistory \in Seq([page : Pages, request : Requests])
    BY DEF IInv, TypeOK
  <2>2. K \in Nat /\ DOMAIN H = 1..K
    BY <2>1
  <2>3. \A n \in DOMAIN H : H[n] \in [page : Pages, request : Requests]
    BY <2>1, ElementTyped
  <2>. QED
    BY <2>2, <2>3
<1>2. past \in Seq(Pages) /\ Len(past) = K
  BY <1>1
<1>3. \A p, r : Fits(log, p, r) => SoundPage(log, p)
  BY DEF Fits
<1>4. \A p, q : q.next # 0 /\ Fits(log, p, NextOf(q)) => p.at = q.next /\ p.mark = q.mark
  BY DEF Fits, NextOf, FirstPage
<1>5. /\ \A n \in 1..K : Fits(log, H[n].page, H[n].request) /\ H[n].page.next # 0
      /\ \A n \in 1..K : n # 1 => H[n].request = NextOf(H[n - 1].page)
      /\ K # 0 => queueRequest = NextOf(H[K].page)
      /\ queue # None => Fits(log, queue, queueRequest)
  <2>1. /\ \A n \in 1..K :
              /\ Fits(log, H[n].page, H[n].request) /\ H[n].page.next # 0
              /\ H[n].request = IF n = 1 THEN FirstPage ELSE NextOf(H[n - 1].page)
        /\ queueRequest = IF H = << >> THEN FirstPage ELSE NextOf(H[K].page)
        /\ queue # None => Fits(log, queue, queueRequest)
    BY <1>1 DEF IInv, TrailInv
  <2>2. K # 0 => H # << >>
    OBVIOUS
  <2>. HIDE DEF H, K
  <2>. QED
    BY <2>1, <2>2
<1>6. \A n \in 1..K : n # 1 =>
         /\ H[n].page.at = H[n - 1].page.next /\ H[n].page.mark = H[n - 1].page.mark
  <2>. TAKE n \in 1..K
  <2>. HAVE n # 1
  <2>1. n - 1 \in 1..K
    BY <1>1
  <2>2. H[n - 1].page.next # 0 /\ Fits(log, H[n].page, NextOf(H[n - 1].page))
    BY <1>5, <2>1
  <2>. QED
    BY <1>4, <2>2
<1>7. \A n \in 1..K : past[n] = H[n].page
  BY <1>1
<1>. HIDE DEF past, H, T
<1>8. CASE queue = None
  <2>1. T = past
    BY <1>1, <1>2, <1>8 DEF T, Trail, past, H
  <2>2. DOMAIN T = 1..K
    BY <1>2, <2>1
  <2>3. \A n \in 1..K : n # 1 => n - 1 \in 1..K
    BY <1>1
  <2>. QED
    BY <1>2, <1>3, <1>5, <1>6, <1>7, <2>1, <2>2, <2>3 DEF T
<1>9. CASE queue # None
  <2>1. queue \in Pages
    BY <1>9 DEF IInv, TypeOK
  <2>2. T = past \o <<queue>>
    BY <1>9 DEF T, Trail, past, H
  <2>3. /\ T \in Seq(Pages) /\ DOMAIN T = 1..K + 1
        /\ \A n \in 1..K : T[n] = past[n]
        /\ T[K + 1] = queue
    BY <1>1, <1>2, <2>1, <2>2
  <2>4. \A n \in 1..K + 1 : n \in 1..K \/ n = K + 1
    BY <1>1
  <2>5. \A n \in 1..K + 1 : SoundPage(log, T[n])
    BY <1>3, <1>5, <1>7, <1>9, <2>3, <2>4
  <2>6. ASSUME NEW n \in 1..K + 1, n # 1
        PROVE  /\ T[n - 1].next # 0
               /\ T[n].at = T[n - 1].next /\ T[n].mark = T[n - 1].mark
    <3>1. n - 1 \in 1..K /\ T[n - 1] = H[n - 1].page
      BY <1>1, <1>7, <2>3, <2>6
    <3>2. T[n - 1].next # 0
      BY <1>5, <3>1
    <3>3. CASE n \in 1..K
      BY <1>6, <1>7, <2>3, <2>6, <3>1, <3>2, <3>3
    <3>4. CASE n = K + 1
      <4>1. n - 1 = K /\ K # 0
        BY <1>1, <2>6, <3>4
      <4>2. Fits(log, queue, NextOf(T[n - 1]))
        BY <1>5, <1>9, <3>1, <4>1
      <4>. QED
        BY <1>4, <2>3, <3>2, <3>4, <4>2
    <3>. QED
      BY <2>4, <3>3, <3>4
  <2>. QED
    BY <2>3, <2>5, <2>6 DEF T
<1>. QED
  BY <1>8, <1>9

------------------------------------------------------------------------------
(* Theorems *)

(* The overview (App.tsx) and the queue it reads (store.ts, listQueue) keep *)
(* their types: a page is one the service could return, a watermark is one *)
(* of the log, and a control is busy exactly while its call is under way.  *)
THEOREM TypeCorrect == Spec => []TypeOK
<1>1. IInv => TypeOK
  BY DEF IInv
<1>. QED
  BY <1>1, Invariance, PTL

(* The pages that the operator went through (nextQueuePage, the queue      *)
(* history of App.tsx) are one piece of the queue as listQueue ordered it  *)
(* at the watermark of the first: no entry is missing and none is there    *)
(* twice, whatever changed in between.                                     *)
THEOREM TrailJoins == Spec => []PagesJoin
<1>1. IInv => PagesJoin
  <2>. SUFFICES ASSUME IInv, Trail # << >> PROVE PagesJoin
    BY DEF PagesJoin
  <2>. DEFINE T == Trail
              rows == RowsAt(log, T[1].mark)
              items == FlattenSeq([n \in DOMAIN T |-> T[n].items])
  <2>1. log \in Seq(Versions)
    BY DEF IInv, TypeOK
  <2>2. /\ T \in Seq(Pages) /\ T # << >>
        /\ \A n \in DOMAIN T : SoundPage(log, T[n])
        /\ \A n \in DOMAIN T : n # 1 =>
              /\ T[n - 1].next # 0
              /\ T[n].at = T[n - 1].next /\ T[n].mark = T[n - 1].mark
    BY TrailSound
  <2>. HIDE DEF T
  <2>3. /\ items = SubSeq(rows, T[1].at + 1, T[1].at + Len(items))
        /\ T[Len(T)].next = 0 => T[1].at + Len(items) = Len(rows)
    BY <2>1, <2>2, Joins
  <2>4. rows = QueueRows(SubSeq(log, 1, T[1].mark)) /\ Last(T) = T[Len(T)]
    BY DEF RowsAt, Upto, Last
  <2>. HIDE DEF rows, items
  <2>5. /\ items = SubSeq(QueueRows(SubSeq(log, 1, T[1].mark)),
                          T[1].at + 1, T[1].at + Len(items))
        /\ Last(T).next = 0 =>
              T[1].at + Len(items) = Len(QueueRows(SubSeq(log, 1, T[1].mark)))
    BY <2>3, <2>4
  <2>. QED
    BY <2>5 DEF PagesJoin, T, items
<1>. QED
  BY <1>1, Invariance, PTL

(* The dispatch state on the screen is never replaced by an older one      *)
(* (refreshGeneration in App.tsx), but for the late answer to a command,   *)
(* which begins the next refresh in the same step.                         *)
THEOREM NeverOlder == Spec => ShownNeverOlder
<1>. DEFINE Step == shown' < shown =>
                       call.is = "switched" /\ refreshing' = Refresh(queueRequest)
<1>1. IInv /\ [Next]_vars => [Step]_vars
  <2>. SUFFICES ASSUME IInv, Next PROVE Step
    OBVIOUS
  <2>1. shown \in Nat /\ ~(shown < shown)
    BY OverviewAssumption DEF IInv, TypeOK, OverviewAssumption
  <2>2. CASE UNCHANGED shown
    BY <2>1, <2>2
  <2>3. CASE RefreshArrives
    <3>1. refreshing # None /\ refreshing.snapshot # << >> /\ shown' = refreshing.snapshot[1]
      BY <2>3, NoneIsNothing DEF RefreshArrives, Apply, Served
    <3>2. shown <= shown'
      BY <3>1 DEF IInv, ShownInv
    <3>3. shown' \in Nat
      BY <2>3, RefreshArrivesKeeps, OverviewAssumption DEF IInv, TypeOK, OverviewAssumption
    <3>. QED
      BY <2>1, <3>2, <3>3
  <2>4. CASE CommandAnswered
    <3>1. CASE call.is = "switched"
      BY <2>4, <3>1 DEF CommandAnswered, BeginRefresh
    <3>2. CASE call.is # "switched"
      BY <2>2, <2>4, <3>2 DEF CommandAnswered
    <3>. QED
      BY <3>1, <3>2
  <2>5. Next => RefreshArrives \/ CommandAnswered \/ UNCHANGED shown
    BY DEF Next, ServiceNext, ScreenNext, QueueChanges, DispatchChanges, ServeRefresh,
           ServeCall, RefreshDue, SupersededArrives, Discard, RefreshFails, NextPage,
           NextPageArrives, PreviousPage, StartNow, SwitchDispatch, CallFails,
           screenVars
  <2>. QED
    BY <2>2, <2>3, <2>4, <2>5
<1>. QED
  BY <1>1, Invariance, PTL DEF Spec, ShownNeverOlder
=============================================================================
