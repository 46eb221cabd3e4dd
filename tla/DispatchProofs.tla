---------------------------- MODULE DispatchProofs ----------------------------
(***************************************************************************)
(* Theorems about Dispatch: whatever the poller, the dispatch loops and    *)
(* any number of manual requests do, each of their steps is one            *)
(* transaction of the store called as StoreNext allows, so the theorems of *)
(* QueueStoreProofs hold of the whole service.  The last two theorems need *)
(* more: what the fibers remember between their transactions.              *)
(***************************************************************************)
EXTENDS Dispatch, QueueStoreProofs

-----------------------------------------------------------------------------
(* What the fibers hold in their local variables *)

LEMMA SeenType ==
  ASSUME DispatchTypeOK, NEW r \in Repositories, poll.seen[r].state = "observed"
  PROVE  poll.seen[r].issues \in SUBSET Issues /\ poll.seen[r].commit \in Nat
<1>1. poll.seen[r] \in Answer  BY DEF DispatchTypeOK
<1> QED  BY <1>1 DEF Answer, Unread, Done

LEMMA EntryType ==
  ASSUME DispatchTypeOK, NEW l \in Loops, NEW e \in loop[l].queue
  PROVE  /\ e \in Entry /\ e.issue \in Issues /\ e.tenure \in 1..MaxTenures
         /\ <<e.issue, e.tenure>> \in TenureIds
<1>1. e \in Entry  BY DEF DispatchTypeOK
<1> QED  BY <1>1 DEF Entry, TenureIds

LEMMA ClientType ==
  ASSUME DispatchTypeOK, NEW c \in Clients, client[c] # IdleClient
  PROVE  /\ client[c] \in Busy
         /\ client[c].command \in Commands
         /\ client[c].wanted \in SUBSET Issues
         /\ client[c].unread \in SUBSET Repositories
         /\ client[c].candidates \in SUBSET Issues
<1>1. client[c] \in Busy  BY DEF DispatchTypeOK
<1> QED  BY <1>1 DEF Busy

LEMMA QueueRows ==
  ASSUME StoreTypeOK
  PROVE  DispatchableQueue \subseteq Entry
<1>1. ASSUME NEW t \in OpenTenures  PROVE Row(t) \in Entry
  <2>1. /\ t[1] \in Issues /\ t[2] \in 1..MaxTenures /\ t[2] <= Len(tenures[t[1]])
    BY DEF OpenTenures, TenureIds, IsOpen
  <2>2. tenures[t[1]] \in Seq(Tenure) /\ t[2] \in 1..Len(tenures[t[1]])
    BY <2>1 DEF StoreTypeOK
  <2>3. tenures[t[1]][t[2]] \in Tenure  BY <2>2
  <2> QED  BY <2>1, <2>3 DEF Row, Entry, Tenure
<1> QED  BY <1>1 DEF DispatchableQueue

\* A manual request names a tenure only for its single candidate.
LEMMA TenureForOne ==
  ASSUME StoreTypeOK, NEW kind, NEW candidates \in SUBSET Issues
  PROVE  /\ TenureFor(kind, candidates) \in TenureIds \cup {NoTenure}
         /\ \/ TenureFor(kind, candidates) = NoTenure
            \/ candidates = {TenureFor(kind, candidates)[1]}
<1>1. CASE kind # "restart" /\ \E i \in candidates : candidates = {i}
  <2>1. PICK i \in candidates : candidates = {i}  BY <1>1
  <2>2. (CHOOSE n \in candidates : TRUE) = i  BY <2>1
  <2>3. TenureFor(kind, candidates) = OpenTenureOf(i)  BY <1>1, <2>2 DEF TenureFor
  <2>4. CASE HasOpenTenure(i)
    <3> DEFINE k == CHOOSE n \in 1..Len(tenures[i]) : tenures[i][n].ended = "open"
    <3>1. k \in 1..Len(tenures[i])  BY <2>4 DEF HasOpenTenure
    <3>2. Len(tenures[i]) \in Nat /\ Len(tenures[i]) <= MaxTenures
      BY <2>1 DEF StoreTypeOK
    <3>3. k \in 1..MaxTenures
      BY <3>1, <3>2, QueueStoreAssumption DEF QueueStoreAssumption
    <3>4. OpenTenureOf(i) = <<i, k>>  BY <2>4 DEF OpenTenureOf
    <3> HIDE DEF k
    <3> QED  BY <2>1, <2>3, <3>3, <3>4 DEF TenureIds
  <2>5. CASE ~HasOpenTenure(i)
    BY <2>3, <2>5 DEF OpenTenureOf
  <2> QED  BY <2>4, <2>5
<1>2. CASE ~(kind # "restart" /\ \E i \in candidates : candidates = {i})
  BY <1>2 DEF TenureFor
<1> QED  BY <1>1, <1>2

-----------------------------------------------------------------------------
(* Every step is one transaction, or leaves the store alone *)

LEMMA LoopStoreStep ==
  ASSUME TypeOK, NEW l \in Loops, LoopStep(l)
  PROVE  [StoreNext]_storeVars
<1>1. CASE CheckControls(l) \/ Fetch(l)
  BY <1>1 DEF CheckControls, Fetch
<1>2. ASSUME NEW e \in loop[l].queue,
             Revalidate(l, e) \/ MarkStale(l, e) \/ AdmitQueued(l, e) \/ Reject(l, e)
      PROVE  [StoreNext]_storeVars
  <2>1. /\ e.issue \in Issues /\ e.tenure \in 1..MaxTenures
        /\ <<e.issue, e.tenure>> \in TenureIds
    BY EntryType DEF TypeOK
  <2>2. CASE Revalidate(l, e)  BY <2>2 DEF Revalidate
  <2>3. CASE MarkStale(l, e)  BY <2>1, <2>3 DEF MarkStale, StoreNext
  <2>4. CASE AdmitQueued(l, e)
    <3> DEFINE tenure == <<e.issue, e.tenure>>
    <3>1. CASE UNCHANGED storeVars  BY <3>1
    <3>2. CASE Admit(tenure, "automatic", {e.issue}, tenure)
      <4>1. /\ tenure \in CommandIds /\ tenure \in TenureIds \cup {NoTenure}
            /\ {e.issue} \in SUBSET Issues /\ {e.issue} = {tenure[1]}
            /\ "automatic" \in Kinds
        BY <2>1 DEF CommandIds, Kinds
      <4> QED  BY <3>2, <4>1 DEF StoreNext
    <3> QED  BY <2>4, <3>1, <3>2 DEF AdmitQueued
  <2>5. CASE Reject(l, e)
    <3>1. "admission_rejected" \in EndReasons \ {"admitted"}  BY DEF EndReasons
    <3> QED  BY <2>1, <2>5, <3>1 DEF Reject, StoreNext
  <2> QED  BY <1>2, <2>2, <2>3, <2>4, <2>5
<1> QED  BY <1>1, <1>2 DEF LoopStep

LEMMA PollStoreStep ==
  ASSUME TypeOK, PollStep
  PROVE  [StoreNext]_storeVars
<1>1. CASE PollBegins
  BY <1>1 DEF PollBegins, StoreNext, TypeOK, DispatchTypeOK
<1>2. CASE PollDispatches  BY <1>2 DEF PollDispatches
<1>3. ASSUME NEW r \in Repositories, Discover(r)  PROVE [StoreNext]_storeVars
  BY <1>3 DEF Discover
<1>4. ASSUME NEW r \in Repositories, Record(r)  PROVE [StoreNext]_storeVars
  <2>1. poll.seen[r].issues \in SUBSET Issues /\ poll.seen[r].commit \in Nat
    BY <1>4, SeenType DEF Record, TypeOK
  <2>2. poll.since \in Nat  BY DEF TypeOK, DispatchTypeOK
  <2> QED  BY <1>4, <2>1, <2>2 DEF Record, StoreNext
<1> QED  BY <1>1, <1>2, <1>3, <1>4 DEF PollStep

LEMMA ClientStoreStep ==
  ASSUME TypeOK, NEW c \in Clients, ClientStep(c)
  PROVE  [StoreNext]_storeVars
<1>1. CASE AdmitRequest(c)
  <2> DEFINE command == client[c].command
             kind == KindOf[command]
             candidates == client[c].candidates
             tenure == TenureFor(kind, candidates)
  <2>1. command \in Commands /\ candidates \in SUBSET Issues
    BY <1>1, ClientType DEF AdmitRequest, TypeOK
  <2>2. kind \in Kinds /\ command \in CommandIds
    BY <2>1, DispatchAssumption DEF DispatchAssumption, CommandIds
  <2>3. /\ tenure \in TenureIds \cup {NoTenure}
        /\ tenure = NoTenure \/ candidates = {tenure[1]}
    BY <2>1, TenureForOne DEF TypeOK
  <2>4. UNCHANGED storeVars \/ Admit(command, kind, candidates, tenure)
    BY <1>1 DEF AdmitRequest
  <2> HIDE DEF command, kind, candidates, tenure
  <2> QED  BY <2>1, <2>2, <2>3, <2>4 DEF StoreNext
<1>2. CASE ~AdmitRequest(c)
  BY <1>2 DEF ClientStep, Request, ReadCandidates, ReadClaimed, RequestFails
<1> QED  BY <1>1, <1>2

LEMMA OtherStoreStep ==
  ASSUME TypeOK, AttemptStep \/ Environment
  PROVE  [StoreNext]_storeVars
<1>1. CASE AttemptStep
  BY <1>1 DEF AttemptStep, Claim, AttemptSettles, AttemptRevives, AttemptReturned,
              StoreNext
<1>2. paused \in BOOLEAN /\ codexEnabled \in BOOLEAN  BY DEF TypeOK, StoreTypeOK
<1>3. CASE Pause \/ Disable \/ \E l \in Resumers : Resume(l)
  BY <1>2, <1>3 DEF Pause, Disable, Resume, StoreNext
<1>4. CASE \/ \E i \in Issues : Edit(i)
           \/ \E r \in Repositories : Push(r) \/ DiscoverFails(r)
           \/ \E l \in Loops : \E e \in loop[l].queue : RevalidateFails(l, e)
  BY <1>4 DEF Edit, Push, DiscoverFails, RevalidateFails
<1>5. ASSUME NEW kept \in SUBSET ActiveAttempts,
             NEW repositories \in SUBSET Repositories,
             CrashAndRestart(kept, repositories)
      PROVE  [StoreNext]_storeVars
  BY <1>5 DEF CrashAndRestart, StoreNext
<1> QED  BY <1>1, <1>3, <1>4, <1>5 DEF Environment

LEMMA StoreStep ==
  ASSUME TypeOK, [Next]_vars
  PROVE  [StoreNext]_storeVars
<1>1. CASE UNCHANGED vars  BY <1>1 DEF vars, storeVars
<1>2. CASE Next
  BY <1>2, PollStoreStep, LoopStoreStep, ClientStoreStep, OtherStoreStep DEF Next
<1> QED  BY <1>1, <1>2

-----------------------------------------------------------------------------
(* Type correctness *)

LEMMA DisturbType ==
  ASSUME TypeOK, Disturb \/ Calm  PROVE disturbances' \in 0..MaxDisturbances
BY DispatchAssumption
DEF Disturb, Calm, TypeOK, DispatchTypeOK, DispatchAssumption

\* Changing one loop's record keeps the loops well-formed.
LEMMA LoopType ==
  ASSUME DispatchTypeOK, NEW l \in Loops
  PROVE  /\ Finish(l) => loop' \in [Loops -> [pc : LoopStates, queue : SUBSET Entry]]
         /\ \A pc \in LoopStates :
              Goto(l, pc) => loop' \in [Loops -> [pc : LoopStates, queue : SUBSET Entry]]
         /\ \A e :
              Continue(l, e) => loop' \in [Loops -> [pc : LoopStates, queue : SUBSET Entry]]
<1>1. loop \in [Loops -> [pc : LoopStates, queue : SUBSET Entry]]
  BY DEF DispatchTypeOK
<1>2. IdleLoop \in [pc : LoopStates, queue : SUBSET Entry]
  BY DEF IdleLoop, LoopStates
<1>3. loop[l] \in [pc : LoopStates, queue : SUBSET Entry]  BY <1>1
<1>4. ASSUME Finish(l)
      PROVE  loop' \in [Loops -> [pc : LoopStates, queue : SUBSET Entry]]
  BY <1>1, <1>2, <1>4 DEF Finish
<1>5. ASSUME NEW pc \in LoopStates, Goto(l, pc)
      PROVE  loop' \in [Loops -> [pc : LoopStates, queue : SUBSET Entry]]
  <2>1. [loop[l] EXCEPT !.pc = pc] \in [pc : LoopStates, queue : SUBSET Entry]
    BY <1>3
  <2> QED  BY <1>1, <1>5, <2>1 DEF Goto
<1>6. ASSUME NEW e, Continue(l, e)
      PROVE  loop' \in [Loops -> [pc : LoopStates, queue : SUBSET Entry]]
  <2> DEFINE record == [pc |-> IF loop[l].queue = {e} THEN "fetch" ELSE "revalidate",
                        queue |-> loop[l].queue \ {e}]
  <2>1. record \in [pc : LoopStates, queue : SUBSET Entry]
    BY <1>3 DEF LoopStates
  <2>2. loop' = [loop EXCEPT ![l] = record]  BY <1>6 DEF Continue
  <2> QED  BY <1>1, <2>1, <2>2
<1> QED  BY <1>4, <1>5, <1>6

LEMMA LoopTypeStep ==
  ASSUME TypeOK, NEW l \in Loops,
         LoopStep(l) \/ \E e \in loop[l].queue : RevalidateFails(l, e)
  PROVE  DispatchTypeOK'
<1> DEFINE LoopOK == loop' \in [Loops -> [pc : LoopStates, queue : SUBSET Entry]]
<1>1. LoopOK
  <2>1. CASE CheckControls(l)
    BY <2>1, LoopType DEF CheckControls, TypeOK, LoopStates
  <2>2. CASE Fetch(l)
    <3>1. CASE DispatchableQueue = {}
      BY <2>2, <3>1, LoopType DEF Fetch, TypeOK
    <3>2. CASE DispatchableQueue # {}
      <4> DEFINE record == [pc |-> "revalidate", queue |-> DispatchableQueue]
      <4>1. record \in [pc : LoopStates, queue : SUBSET Entry]
        BY QueueRows DEF TypeOK, LoopStates
      <4>2. loop' = [loop EXCEPT ![l] = record]  BY <2>2, <3>2 DEF Fetch
      <4> HIDE DEF record
      <4> QED  BY <4>1, <4>2 DEF TypeOK, DispatchTypeOK
    <3> QED  BY <3>1, <3>2
  <2>3. ASSUME NEW e \in loop[l].queue, Revalidate(l, e)  PROVE LoopOK
    BY <2>3, LoopType DEF Revalidate, TypeOK, LoopStates
  <2>4. ASSUME NEW e \in loop[l].queue, MarkStale(l, e) \/ Reject(l, e)  PROVE LoopOK
    BY <2>4, LoopType DEF MarkStale, Reject, TypeOK
  <2>5. ASSUME NEW e \in loop[l].queue, AdmitQueued(l, e)  PROVE LoopOK
    <3>1. Finish(l) \/ Goto(l, "reject") \/ Continue(l, e)
      BY <2>5 DEF AdmitQueued
    <3> QED  BY <3>1, LoopType DEF TypeOK, LoopStates
  <2>6. ASSUME NEW e \in loop[l].queue, RevalidateFails(l, e)  PROVE LoopOK
    BY <2>6, LoopType DEF RevalidateFails, TypeOK
  <2> QED  BY <2>1, <2>2, <2>3, <2>4, <2>5, <2>6 DEF LoopStep
<1>2. /\ UNCHANGED <<worldVars, configured, poll, client>>
      /\ Disturb \/ Calm
  BY DEF LoopStep, CheckControls, Fetch, Revalidate, MarkStale, AdmitQueued, Reject,
         RevalidateFails
<1> QED  BY <1>1, <1>2, DisturbType DEF TypeOK, DispatchTypeOK, worldVars

LEMMA PollTypeStep ==
  ASSUME TypeOK, PollStep \/ \E r \in Repositories : DiscoverFails(r)
  PROVE  DispatchTypeOK'
<1> DEFINE Polls == [pc : {"sleeping", "observing"}, since : Nat,
                     seen : [Repositories -> Answer]]
<1>1. /\ poll \in Polls /\ poll.seen \in [Repositories -> Answer]
      /\ poll.since \in Nat /\ poll.pc \in {"sleeping", "observing"}
  BY DEF TypeOK, DispatchTypeOK
<1>2. Unread \in Answer /\ Done \in Answer  BY DEF Answer
<1>3. ASSUME NEW answer \in Answer, NEW r \in Repositories,
             poll' = [poll EXCEPT !.seen[r] = answer]
      PROVE  poll' \in Polls
  BY <1>1, <1>3
<1>4. poll' \in Polls
  <2>1. CASE PollBegins
    <3>1. PollTime \in Nat  BY <1>1 DEF PollTime
    <3>2. [r \in Repositories |-> IF r \in configured THEN Unread ELSE Done]
            \in [Repositories -> Answer]
      BY <1>2
    <3> QED  BY <2>1, <3>1, <3>2 DEF PollBegins
  <2>2. CASE PollDispatches
    BY <1>1, <2>2 DEF PollDispatches
  <2>3. ASSUME NEW r \in Repositories, Discover(r)  PROVE poll' \in Polls
    <3>1. Observed(Eligible(r), head[r]) \in Answer
      BY DEF Observed, Eligible, Answer, TypeOK, DispatchTypeOK
    <3> QED  BY <1>3, <2>3, <3>1 DEF Discover
  <2>4. ASSUME NEW r \in Repositories, Record(r) \/ DiscoverFails(r)
        PROVE  poll' \in Polls
    BY <1>2, <1>3, <2>4 DEF Record, DiscoverFails
  <2> QED  BY <2>1, <2>2, <2>3, <2>4 DEF PollStep
<1>5. loop' \in [Loops -> [pc : LoopStates, queue : SUBSET Entry]]
  <2>1. CASE PollDispatches
    <3>1. Poller \in Loops /\ "controls" \in LoopStates  BY DEF Loops, LoopStates
    <3>2. Goto(Poller, "controls")  BY <2>1 DEF PollDispatches, Goto
    <3> QED  BY <3>1, <3>2, LoopType DEF TypeOK
  <2>2. CASE ~PollDispatches
    BY <2>2 DEF PollStep, PollBegins, Discover, Record, DiscoverFails, TypeOK,
                DispatchTypeOK
  <2> QED  BY <2>1, <2>2
<1>6. /\ UNCHANGED <<worldVars, configured, client>>
      /\ Disturb \/ Calm
  BY DEF PollStep, PollBegins, PollDispatches, Discover, Record, DiscoverFails
<1> QED  BY <1>4, <1>5, <1>6, DisturbType DEF TypeOK, DispatchTypeOK, worldVars

LEMMA ClientTypeStep ==
  ASSUME TypeOK, NEW c \in Clients, ClientStep(c)
  PROVE  DispatchTypeOK'
<1> DEFINE Records == {IdleClient} \cup Busy
<1>1. client \in [Clients -> Records]  BY DEF TypeOK, DispatchTypeOK
<1>2. ASSUME NEW record \in Records, client' = [client EXCEPT ![c] = record]
      PROVE  client' \in [Clients -> Records]
  BY <1>1, <1>2
<1>3. client' \in [Clients -> Records]
  <2>1. ASSUME NEW command \in Commands, NEW i \in Issues, Request(c, command, i)
        PROVE  client' \in [Clients -> Records]
    <3> DEFINE next == KindOf[command] = "next"
               record == [pc |-> "busy", command |-> command,
                          wanted |-> IF next THEN Issues ELSE {i},
                          unread |-> IF next THEN configured ELSE {RepositoryOf[i]},
                          candidates |-> {}]
    <3>1. configured \in SUBSET Repositories /\ RepositoryOf[i] \in Repositories
      BY QueueStoreAssumption DEF TypeOK, DispatchTypeOK, QueueStoreAssumption
    <3>2. record \in Busy  BY <3>1 DEF Busy
    <3>3. client' = [client EXCEPT ![c] = record]  BY <2>1 DEF Request
    <3> HIDE DEF record
    <3> QED  BY <1>2, <3>2, <3>3
  <2>2. ASSUME NEW r \in Repositories, ReadCandidates(c, r)
        PROVE  client' \in [Clients -> Records]
    <3> DEFINE old == client[c]
               record == [old EXCEPT !.unread = @ \ {r},
                            !.candidates = @ \cup (old.wanted \cap Eligible(r))]
    <3>1. old \in Busy  BY <2>2, ClientType DEF ReadCandidates, TypeOK
    <3>2. record \in Busy  BY <3>1 DEF Busy
    <3>3. client' = [client EXCEPT ![c] = record]
      BY <1>1, <2>2, <3>1 DEF ReadCandidates, Busy
    <3> HIDE DEF record
    <3> QED  BY <1>2, <3>2, <3>3
  <2>3. ASSUME NEW r \in Repositories, ReadClaimed(c, r)
        PROVE  client' \in [Clients -> Records]
    <3> DEFINE old == client[c]
               record == [old EXCEPT !.unread = {}, !.candidates = old.wanted]
    <3>1. old \in Busy  BY <2>3, ClientType DEF ReadClaimed, TypeOK
    <3>2. record \in Busy  BY <3>1 DEF Busy
    <3>3. client' = [client EXCEPT ![c] = record]
      BY <1>1, <2>3, <3>1 DEF ReadClaimed, Busy
    <3> HIDE DEF record
    <3> QED  BY <1>2, <3>2, <3>3
  <2>4. CASE RequestFails(c) \/ AdmitRequest(c)
    <3>1. client' = [client EXCEPT ![c] = IdleClient]
      BY <2>4 DEF RequestFails, AdmitRequest
    <3> QED  BY <1>2, <3>1
  <2> QED  BY <2>1, <2>2, <2>3, <2>4 DEF ClientStep
<1>4. UNCHANGED <<worldVars, configured, poll, loop, disturbances>>
  BY DEF ClientStep, Request, ReadCandidates, ReadClaimed, RequestFails,
         AdmitRequest, Calm
<1> QED  BY <1>3, <1>4 DEF TypeOK, DispatchTypeOK, worldVars

LEMMA AttemptTypeStep ==
  ASSUME TypeOK, AttemptStep
  PROVE  DispatchTypeOK'
<1>1. eligible' \in [Issues -> BOOLEAN]
  BY DEF AttemptStep, Claim, AttemptSettles, AttemptRevives, AttemptReturned,
         worldVars, TypeOK, DispatchTypeOK
<1>2. /\ UNCHANGED <<head, configured, poll, loop, client>>
      /\ Disturb \/ Calm
  BY DEF AttemptStep, Claim, AttemptSettles, AttemptRevives, AttemptReturned,
         worldVars
<1> QED  BY <1>1, <1>2, DisturbType DEF TypeOK, DispatchTypeOK

LEMMA EnvironmentTypeStep ==
  ASSUME TypeOK, Environment
  PROVE  DispatchTypeOK'
<1>1. disturbances' \in 0..MaxDisturbances
  <2>1. Disturb \/ Calm
    BY DEF Environment, Pause, Disable, Resume, Edit, Push, DiscoverFails,
           RevalidateFails, CrashAndRestart
  <2> QED  BY <2>1, DisturbType
<1>2. CASE Pause \/ Disable
  BY <1>1, <1>2 DEF Pause, Disable, worldVars, TypeOK, DispatchTypeOK
<1>3. ASSUME NEW l \in Resumers, Resume(l)  PROVE DispatchTypeOK'
  <2>1. l \in Loops /\ "controls" \in LoopStates  BY DEF Loops, LoopStates
  <2>2. loop' \in [Loops -> [pc : LoopStates, queue : SUBSET Entry]]
    BY <1>3, <2>1, LoopType DEF Resume, TypeOK
  <2> QED  BY <1>1, <1>3, <2>2 DEF Resume, worldVars, TypeOK, DispatchTypeOK
<1>4. ASSUME NEW i \in Issues, Edit(i)  PROVE DispatchTypeOK'
  BY <1>1, <1>4 DEF Edit, TypeOK, DispatchTypeOK
<1>5. ASSUME NEW r \in Repositories, Push(r)  PROVE DispatchTypeOK'
  <2>1. head' \in [Repositories -> Nat]
    BY <1>5 DEF Push, TypeOK, DispatchTypeOK
  <2> QED  BY <1>1, <1>5, <2>1 DEF Push, TypeOK, DispatchTypeOK
<1>6. ASSUME NEW kept, NEW repositories \in SUBSET Repositories,
             CrashAndRestart(kept, repositories)
      PROVE  DispatchTypeOK'
  <2>1. poll' \in [pc : {"sleeping", "observing"}, since : Nat,
                   seen : [Repositories -> Answer]]
    BY <1>6 DEF CrashAndRestart, NoPoll, Answer, TypeOK, DispatchTypeOK
  <2>2. loop' \in [Loops -> [pc : LoopStates, queue : SUBSET Entry]]
    BY <1>6 DEF CrashAndRestart, IdleLoop, LoopStates
  <2>3. client' \in [Clients -> {IdleClient} \cup Busy]
    BY <1>6 DEF CrashAndRestart
  <2> QED
    BY <1>1, <1>6, <2>1, <2>2, <2>3
    DEF CrashAndRestart, worldVars, TypeOK, DispatchTypeOK
<1>7. CASE \/ \E r \in Repositories : DiscoverFails(r)
           \/ \E l \in Loops : \E e \in loop[l].queue : RevalidateFails(l, e)
  BY <1>7, PollTypeStep, LoopTypeStep
<1> QED  BY <1>2, <1>3, <1>4, <1>5, <1>6, <1>7 DEF Environment

LEMMA InitType == Init => TypeOK
<1> SUFFICES ASSUME Init PROVE TypeOK  OBVIOUS
<1>1. StoreTypeOK  BY StoreInitType DEF Init
<1>2. poll \in [pc : {"sleeping", "observing"}, since : Nat,
                seen : [Repositories -> Answer]]
  BY DEF Init, NoPoll, Answer
<1>3. loop \in [Loops -> [pc : LoopStates, queue : SUBSET Entry]]
  BY DEF Init, IdleLoop, LoopStates
<1>4. /\ eligible \in [Issues -> BOOLEAN] /\ head \in [Repositories -> Nat]
      /\ configured \in SUBSET Repositories
      /\ client \in [Clients -> {IdleClient} \cup Busy]
      /\ disturbances \in 0..MaxDisturbances
  BY DispatchAssumption DEF Init, DispatchAssumption
<1> QED  BY <1>1, <1>2, <1>3, <1>4 DEF TypeOK, DispatchTypeOK

\* The service's state stays well-formed in every behaviour.
THEOREM TypeCorrect == Spec => []TypeOK
<1>1. TypeOK /\ [Next]_vars => TypeOK'
  <2> SUFFICES ASSUME TypeOK, [Next]_vars PROVE TypeOK'  OBVIOUS
  <2>1. StoreTypeOK'  BY StoreStep, StoreNextType DEF TypeOK
  <2>2. CASE UNCHANGED vars
    BY <2>1, <2>2 DEF vars, TypeOK, DispatchTypeOK
  <2>3. CASE Next
    BY <2>1, <2>3, PollTypeStep, LoopTypeStep, ClientTypeStep, AttemptTypeStep,
       EnvironmentTypeStep
    DEF Next, TypeOK
  <2> QED  BY <2>2, <2>3
<1> QED  BY <1>1, InitType, PTL DEF Spec

\* The service uses the store only through its transactions, in the way that
\* StoreNext allows: it implements the store's own specification.
THEOREM ImplementsStore == Spec => StoreSpec
<1>1. Init => StoreInit  BY DEF Init
<1>2. TypeOK /\ [Next]_vars => [StoreNext]_storeVars  BY StoreStep
<1> QED  BY <1>1, <1>2, TypeCorrect, PTL DEF Spec, StoreSpec

-----------------------------------------------------------------------------
(* The store's theorems, for the service *)

\* The poller's loop, the loops of resume requests and any number of manual
\* requests together never have two active attempts of one issue.
THEOREM DispatchOneActiveAttempt == Spec => []OneActiveAttempt
BY ImplementsStore, StoreOneActiveAttempt, PTL

\* Nor do their admissions exceed the configured slots.
THEOREM DispatchCapacity == Spec => []CapacityRespected
BY ImplementsStore, StoreCapacityRespected, PTL

\* The queue holds at most one open tenure per issue, of a known-eligible one.
THEOREM DispatchQueueConsistent == Spec => []QueueConsistent
BY ImplementsStore, StoreQueueConsistent, PTL

\* Every command starts at most one attempt, and every attempt has its receipt.
THEOREM DispatchStartedOnce == Spec => []StartedOnce
BY ImplementsStore, StoreStartedOnce, PTL

\* Every admitted tenure started exactly one attempt.
THEOREM DispatchTenureAdmitsOnce == Spec => []TenureAdmitsOnce
BY ImplementsStore, StoreTenureAdmitsOnce, PTL

\* Eligibility losses are observed for every active attempt.
THEOREM DispatchLossObserved == Spec => []LossObserved
BY ImplementsStore, StoreLossObserved, PTL

\* Receipts never change.
THEOREM DispatchReceiptsDurable == Spec => ReceiptsDurable
BY ImplementsStore, StoreReceiptsDurable, PTL

\* Closed dispatch reserves nothing, even for a loop with a stale view of it.
THEOREM DispatchClosed == Spec => ClosedDispatchReservesNothing
BY ImplementsStore, StoreClosedDispatch, PTL

-----------------------------------------------------------------------------
(* The transaction a step runs, with what the fiber knows of its arguments *)

\* A request for a start wants one issue and finds at most that one.
RequestInv ==
  \A c \in Clients :
    client[c] # IdleClient /\ KindOf[client[c].command] = "start" =>
      \E i \in Issues : client[c].wanted = {i} /\ client[c].candidates \subseteq {i}

\* The transactions the service runs, with the arguments it gives them.
StoreCall ==
  \/ \E repositories : EndTenuresOutside(repositories)
  \/ \E kept, repositories : Recover(kept, repositories)
  \/ \E r \in Repositories, found \in SUBSET Issues, commit \in Nat :
       Reconcile(r, found, commit, poll.since)
  \/ \E t \in TenureIds :
       \/ MarkIneligible(t[1], t[2])
       \/ EndTenure(t[1], t[2], "admission_rejected")
       \/ Admit(t, "automatic", {t[1]}, t)
  \/ \E p, e : SetControls(p, e)
  \/ \E i \in Issues, j \in 1..MaxAttempts :
       Settle(i, j) \/ Revive(i, j) \/ Return(i, j)
  \/ \E command \in Commands, kind \in Kinds \ {"automatic"},
        candidates \in SUBSET Issues :
       /\ kind = "start" => \E i \in Issues : candidates = {i}
       /\ Admit(command, kind, candidates, TenureFor(kind, candidates))

\* Every step of a loop, a request or anything else is one of them.
LEMMA LoopCall ==
  ASSUME TypeOK, NEW l \in Loops, LoopStep(l)
  PROVE  StoreCall \/ UNCHANGED storeVars
<1>1. CASE CheckControls(l) \/ Fetch(l)
  BY <1>1 DEF CheckControls, Fetch
<1>2. ASSUME NEW e \in loop[l].queue,
             Revalidate(l, e) \/ MarkStale(l, e) \/ AdmitQueued(l, e) \/ Reject(l, e)
      PROVE  StoreCall \/ UNCHANGED storeVars
  <2> DEFINE t == <<e.issue, e.tenure>>
  <2>1. t \in TenureIds /\ t[1] = e.issue /\ t[2] = e.tenure
    BY EntryType DEF TypeOK
  <2>2. \/ MarkIneligible(t[1], t[2])
        \/ EndTenure(t[1], t[2], "admission_rejected")
        \/ Admit(t, "automatic", {t[1]}, t)
        \/ UNCHANGED storeVars
    BY <1>2, <2>1 DEF Revalidate, MarkStale, AdmitQueued, Reject
  <2> HIDE DEF t
  <2> QED  BY <2>1, <2>2 DEF StoreCall
<1> QED  BY <1>1, <1>2 DEF LoopStep

LEMMA ClientCall ==
  ASSUME TypeOK, RequestInv, NEW c \in Clients, ClientStep(c)
  PROVE  StoreCall \/ UNCHANGED storeVars
<1>1. CASE AdmitRequest(c)
  <2> DEFINE command == client[c].command
             kind == KindOf[command]
             candidates == client[c].candidates
  <2>1. client[c] # IdleClient /\ command \in Commands /\ candidates \in SUBSET Issues
    BY <1>1, ClientType DEF AdmitRequest, TypeOK
  <2>2. kind \in Kinds \ {"automatic"}
    BY <2>1, DispatchAssumption DEF DispatchAssumption
  <2>3. \/ UNCHANGED storeVars
        \/ /\ kind = "start" => candidates # {}
           /\ Admit(command, kind, candidates, TenureFor(kind, candidates))
    BY <1>1 DEF AdmitRequest
  <2>4. kind = "start" /\ candidates # {} => \E i \in Issues : candidates = {i}
    BY <2>1 DEF RequestInv
  <2> HIDE DEF command, kind, candidates
  <2> QED  BY <2>1, <2>2, <2>3, <2>4 DEF StoreCall
<1>2. CASE ~AdmitRequest(c)
  BY <1>2 DEF ClientStep, Request, ReadCandidates, ReadClaimed, RequestFails
<1> QED  BY <1>1, <1>2

LEMMA Called ==
  ASSUME TypeOK, RequestInv, [Next]_vars
  PROVE  StoreCall \/ UNCHANGED storeVars
<1>1. CASE UNCHANGED vars  BY <1>1 DEF vars, storeVars
<1>2. CASE PollStep
  <2>1. CASE PollBegins  BY <2>1 DEF PollBegins, StoreCall
  <2>2. ASSUME NEW r \in Repositories, Record(r)  PROVE StoreCall
    <3> DEFINE found == poll.seen[r].issues
               commit == poll.seen[r].commit
    <3>1. found \in SUBSET Issues /\ commit \in Nat
      BY <2>2, SeenType DEF Record, TypeOK
    <3>2. Reconcile(r, found, commit, poll.since)  BY <2>2 DEF Record
    <3> HIDE DEF found, commit
    <3> QED  BY <3>1, <3>2 DEF StoreCall
  <2> QED  BY <1>2, <2>1, <2>2 DEF PollStep, PollDispatches, Discover
<1>3. CASE AttemptStep
  BY <1>3 DEF AttemptStep, Claim, AttemptSettles, AttemptRevives, AttemptReturned,
              StoreCall
<1>4. CASE Environment
  <2>1. CASE Pause \/ Disable \/ \E l \in Resumers : Resume(l)
    BY <2>1 DEF Pause, Disable, Resume, StoreCall
  <2>2. CASE \/ \E i \in Issues : Edit(i)
             \/ \E r \in Repositories : Push(r) \/ DiscoverFails(r)
             \/ \E l \in Loops : \E e \in loop[l].queue : RevalidateFails(l, e)
    BY <2>2 DEF Edit, Push, DiscoverFails, RevalidateFails
  <2>3. ASSUME NEW kept, NEW repositories, CrashAndRestart(kept, repositories)
        PROVE  StoreCall
    BY <2>3 DEF CrashAndRestart, StoreCall
  <2> QED  BY <1>4, <2>1, <2>2, <2>3 DEF Environment
<1> QED  BY <1>1, <1>2, <1>3, <1>4, LoopCall, ClientCall DEF Next

-----------------------------------------------------------------------------
(* Tenures: what every transaction keeps of them *)

\* No tenure of the issue is lost, reopened or moved in time.
TenuresGrow(i) ==
  /\ Len(tenures[i]) \in Nat /\ Len(tenures'[i]) \in Nat
  /\ Len(tenures[i]) <= Len(tenures'[i])
  /\ \A k \in 1..Len(tenures[i]) :
       /\ tenures'[i][k].since = tenures[i][k].since
       /\ tenures[i][k].ended # "open" => tenures'[i][k].ended # "open"
  /\ \A k \in 1..Len(tenures'[i]) :
       k > Len(tenures[i]) => tenures'[i][k].since = poll.since

LEMMA SameGrow ==
  ASSUME StoreTypeOK, NEW i \in Issues, tenures'[i] = tenures[i]
  PROVE  TenuresGrow(i)
<1>1. Len(tenures[i]) \in Nat  BY DEF StoreTypeOK
<1> QED  BY <1>1 DEF TenuresGrow

\* Ending and refreshing change no time.
LEMMA TimesKept ==
  ASSUME NEW rows \in Seq(Tenure)
  PROVE  \A k \in 1..Len(rows) :
           /\ \A reason : Ended(rows, reason)[k].since = rows[k].since
           /\ \A commit : Refreshed(rows, commit)[k].since = rows[k].since
<1>1. DOMAIN rows = 1..Len(rows)  OBVIOUS
<1>2. \A k \in 1..Len(rows) : rows[k] \in Tenure  OBVIOUS
<1> QED  BY <1>1, <1>2 DEF Ended, Refreshed, Tenure

LEMMA EndedGrow ==
  ASSUME StoreTypeOK, NEW i \in Issues, NEW reason \in EndReasons,
         tenures'[i] = Ended(tenures[i], reason)
  PROVE  TenuresGrow(i)
<1>1. tenures[i] \in Seq(Tenure) /\ Len(tenures[i]) \in Nat  BY DEF StoreTypeOK
<1>2. /\ Len(tenures'[i]) = Len(tenures[i])
      /\ \A k \in 1..Len(tenures[i]) : tenures'[i][k].ended # "open"
  BY <1>1, EndedRows
<1>3. \A k \in 1..Len(tenures[i]) :
        Ended(tenures[i], reason)[k].since = tenures[i][k].since
  BY <1>1, TimesKept
<1>4. \A k \in 1..Len(tenures[i]) : tenures'[i][k].since = tenures[i][k].since
  BY <1>3
<1> QED  BY <1>1, <1>2, <1>4 DEF TenuresGrow

LEMMA EndOneGrow ==
  ASSUME StoreTypeOK, NEW i \in Issues, NEW k \in 1..MaxTenures, IsOpen(i, k),
         NEW reason \in EndReasons,
         tenures' = [tenures EXCEPT ![i][k].ended = reason]
  PROVE  /\ \A n \in Issues : TenuresGrow(n)
         /\ k \in 1..Len(tenures'[i]) /\ tenures'[i][k].ended # "open"
<1>1. tenures[i] \in Seq(Tenure) /\ k \in 1..Len(tenures[i]) /\ Len(tenures[i]) \in Nat
  BY DEF IsOpen, StoreTypeOK
<1>2. /\ Len(tenures'[i]) = Len(tenures[i])
      /\ tenures'[i][k].ended = reason
      /\ \A m \in 1..Len(tenures[i]) : m # k => tenures'[i][m] = tenures[i][m]
      /\ \A n \in Issues \ {i} : tenures'[n] = tenures[n]
  BY <1>1, EndOneKept
<1>3. reason # "open"  BY DEF EndReasons
<1>4. tenures'[i][k].since = tenures[i][k].since
  <2>1. tenures[i][k] \in Tenure  BY <1>1
  <2>2. tenures'[i] = [tenures[i] EXCEPT ![k].ended = reason]
    BY DEF StoreTypeOK
  <2>3. tenures'[i][k] = [tenures[i][k] EXCEPT !.ended = reason]
    BY <1>1, <2>2
  <2> QED  BY <2>1, <2>3 DEF Tenure
<1>5. TenuresGrow(i)  BY <1>1, <1>2, <1>3, <1>4 DEF TenuresGrow
<1> QED  BY <1>1, <1>2, <1>3, <1>5, SameGrow

LEMMA ReconcileGrow ==
  ASSUME StoreTypeOK, NEW r, NEW found \in SUBSET Issues, NEW commit \in Nat,
         Reconcile(r, found, commit, poll.since), NEW i \in Issues
  PROVE  TenuresGrow(i)
<1> DEFINE gone  == {n \in Issues : RepositoryOf[n] = r} \ found
           fresh == {n \in found : StartsTenure(n)}
           row   == [since |-> poll.since, commit |-> commit, ended |-> "open"]
<1>1. tenures[i] \in Seq(Tenure) /\ Len(tenures[i]) \in Nat  BY DEF StoreTypeOK
<1>2. CASE i \in gone
  <2>1. tenures'[i] = Ended(tenures[i], "no_longer_eligible")
    BY <1>2 DEF Reconcile
  <2> QED  BY <2>1, EndedGrow DEF EndReasons
<1>3. CASE i \notin gone /\ i \in fresh
  <2>1. tenures'[i] = Append(tenures[i], row)  BY <1>3 DEF Reconcile
  <2>2. /\ Len(tenures'[i]) = Len(tenures[i]) + 1
        /\ tenures'[i][Len(tenures[i]) + 1] = row
        /\ \A k \in 1..Len(tenures[i]) : tenures'[i][k] = tenures[i][k]
    BY <1>1, <2>1
  <2> QED  BY <1>1, <2>2 DEF TenuresGrow
<1>4. CASE i \notin gone /\ i \notin fresh /\ i \in found
  <2>1. tenures'[i] = Refreshed(tenures[i], commit)  BY <1>4 DEF Reconcile
  <2>2. /\ Len(tenures'[i]) = Len(tenures[i])
        /\ \A k \in 1..Len(tenures[i]) :
             tenures'[i][k].ended = tenures[i][k].ended
    BY <1>1, <2>1, RefreshedRows
  <2>3. \A k \in 1..Len(tenures[i]) :
          Refreshed(tenures[i], commit)[k].since = tenures[i][k].since
    BY <1>1, TimesKept
  <2>4. \A k \in 1..Len(tenures[i]) : tenures'[i][k].since = tenures[i][k].since
    BY <2>1, <2>3
  <2> QED  BY <1>1, <2>2, <2>4 DEF TenuresGrow
<1>5. CASE i \notin gone /\ i \notin found
  BY <1>5, SameGrow DEF Reconcile
<1> QED  BY <1>2, <1>3, <1>4, <1>5

\* A reservation ends the tenure it names.
LEMMA ReserveGrow ==
  ASSUME StoreTypeOK, NEW command, NEW kind, NEW i \in Issues,
         NEW tenure \in TenureIds \cup {NoTenure},
         AdmissionChecks(command, kind, i, tenure),
         Reserve(command, kind, i, tenure)
  PROVE  /\ \A n \in Issues : TenuresGrow(n)
         /\ tenure # NoTenure =>
              /\ tenure[1] = i /\ tenure[2] \in 1..Len(tenures'[i])
              /\ tenures'[i][tenure[2]].ended # "open"
         /\ tenure = NoTenure => tenures' = tenures
<1>1. CASE tenure = NoTenure
  BY <1>1, SameGrow DEF Reserve, EndAdmitted
<1>2. CASE tenure # NoTenure
  <2>1. tenure[1] = i /\ IsOpen(i, tenure[2]) /\ tenure[2] \in 1..MaxTenures
    BY <1>2 DEF AdmissionChecks, TenureIds
  <2>2. tenures' = [tenures EXCEPT ![i][tenure[2]].ended = "admitted"]
    BY <1>2, <2>1 DEF Reserve, EndAdmitted
  <2>3. "admitted" \in EndReasons  BY DEF EndReasons
  <2> QED  BY <1>2, <2>1, <2>2, <2>3, EndOneGrow
<1> QED  BY <1>1, <1>2

\* Whatever a transaction does, it removes no tenure, reopens none and changes
\* no time; what it adds is of the current poll.
LEMMA CallGrow ==
  ASSUME StoreTypeOK, StoreCall \/ UNCHANGED storeVars, NEW i \in Issues
  PROVE  TenuresGrow(i)
<1>1. ASSUME NEW repositories,
             \/ EndTenuresOutside(repositories)
             \/ \E kept : Recover(kept, repositories)
      PROVE  TenuresGrow(i)
  <2>1. \/ tenures'[i] = tenures[i]
        \/ tenures'[i] = Ended(tenures[i], "repository_removed")
    BY <1>1 DEF EndTenuresOutside, Recover
  <2>2. "repository_removed" \in EndReasons  BY DEF EndReasons
  <2> QED  BY <2>1, <2>2, SameGrow, EndedGrow
<1>2. ASSUME NEW r \in Repositories, NEW found \in SUBSET Issues, NEW commit \in Nat,
             Reconcile(r, found, commit, poll.since)
      PROVE  TenuresGrow(i)
  BY <1>2, ReconcileGrow
<1>3. ASSUME NEW t \in TenureIds,
             \/ MarkIneligible(t[1], t[2])
             \/ EndTenure(t[1], t[2], "admission_rejected")
      PROVE  TenuresGrow(i)
  <2>1. t[1] \in Issues /\ t[2] \in 1..MaxTenures  BY DEF TenureIds
  <2>2. CASE tenures' = tenures  BY <2>2, SameGrow
  <2>3. ASSUME NEW reason \in EndReasons, IsOpen(t[1], t[2]),
               tenures' = [tenures EXCEPT ![t[1]][t[2]].ended = reason]
        PROVE  TenuresGrow(i)
    BY <2>1, <2>3, EndOneGrow
  <2>4. "issue_ineligible" \in EndReasons /\ "admission_rejected" \in EndReasons
    BY DEF EndReasons
  <2> QED  BY <1>3, <2>2, <2>3, <2>4 DEF MarkIneligible, EndTenure, storeVars
<1>4. ASSUME NEW command, NEW kind, NEW candidates \in SUBSET Issues,
             NEW tenure \in TenureIds \cup {NoTenure},
             tenure = NoTenure \/ candidates = {tenure[1]},
             Admit(command, kind, candidates, tenure)
      PROVE  TenuresGrow(i)
  <2>1. ASSUME NEW reason, Refuse(command, kind, reason)  PROVE TenuresGrow(i)
    BY <2>1, SameGrow DEF Refuse
  <2>2. ASSUME NEW n \in candidates, AdmissionChecks(command, kind, n, tenure),
               Reserve(command, kind, n, tenure)
        PROVE  TenuresGrow(i)
    BY <2>2, ReserveGrow
  <2> QED  BY <1>4, <2>1, <2>2, AdmitCases
<1>5. ASSUME NEW t \in TenureIds, Admit(t, "automatic", {t[1]}, t)
      PROVE  TenuresGrow(i)
  <2>1. {t[1]} \in SUBSET Issues  BY DEF TenureIds
  <2> QED  BY <1>4, <1>5, <2>1
<1>6. ASSUME NEW command \in Commands, NEW kind \in Kinds \ {"automatic"},
             NEW candidates \in SUBSET Issues,
             Admit(command, kind, candidates, TenureFor(kind, candidates))
      PROVE  TenuresGrow(i)
  BY <1>4, <1>6, TenureForOne
<1>7. CASE \/ \E p, e : SetControls(p, e)
           \/ \E n \in Issues, j \in 1..MaxAttempts :
                Settle(n, j) \/ Revive(n, j) \/ Return(n, j)
           \/ UNCHANGED storeVars
  <2>1. tenures' = tenures  BY <1>7 DEF SetControls, Settle, Revive, Return, storeVars
  <2> QED  BY <2>1, SameGrow
<1> QED  BY <1>1, <1>2, <1>3, <1>5, <1>6, <1>7 DEF StoreCall

-----------------------------------------------------------------------------
(* Attempts: the reservation a step makes *)

\* An automatic start names its tenure, and the request for a start names the
\* open tenure of its issue.
Reservation(command, kind, i, tenure) ==
  /\ AdmissionChecks(command, kind, i, tenure)
  /\ Reserve(command, kind, i, tenure)
  /\ kind = "automatic" => tenure = command /\ tenure # NoTenure
  /\ kind = "start" => tenure = OpenTenureOf(i)

\* What the record of an attempt says of its start does not change.
HistoryKept ==
  \A i \in Issues :
    /\ Len(attempts'[i]) = Len(attempts[i])
    /\ \A j \in 1..Len(attempts[i]) :
         /\ attempts'[i][j].kind = attempts[i][j].kind
         /\ attempts'[i][j].tenure = attempts[i][j].tenure
         /\ attempts'[i][j].seen = attempts[i][j].seen

LEMMA KeptHistory == AttemptsKept => HistoryKept
BY DEF AttemptsKept, RowKept, HistoryKept

LEMMA ReviveHistory ==
  ASSUME StoreTypeOK, NEW i \in Issues, NEW j \in 1..MaxAttempts, Revive(i, j)
  PROVE  HistoryKept
<1>1. /\ j \in 1..Len(attempts[i])
      /\ Len(attempts'[i]) = Len(attempts[i])
      /\ attempts'[i][j].tenure = attempts[i][j].tenure
      /\ \A m \in 1..Len(attempts[i]) : m # j => attempts'[i][m] = attempts[i][m]
      /\ \A n \in Issues \ {i} : attempts'[n] = attempts[n]
  BY ReviveRows
<1>2. attempts'[i][j] = [attempts[i][j] EXCEPT !.active = TRUE, !.revived = TRUE]
  BY <1>1 DEF Revive, StoreTypeOK
<1>3. attempts[i][j] \in Attempt  BY <1>1 DEF StoreTypeOK
<1>4. /\ attempts'[i][j].kind = attempts[i][j].kind
      /\ attempts'[i][j].seen = attempts[i][j].seen
  BY <1>2, <1>3 DEF Attempt
<1> QED  BY <1>1, <1>4 DEF HistoryKept

\* The new row says how the attempt was started and what came before it.
LEMMA ReserveHistory ==
  ASSUME StoreTypeOK, NEW command, NEW kind, NEW i \in Issues, NEW tenure,
         Reserve(command, kind, i, tenure)
  PROVE  /\ attempts'[i][Len(attempts[i]) + 1].kind = kind
         /\ attempts'[i][Len(attempts[i]) + 1].seen = Len(tenures[i])
<1> DEFINE row == NewAttempt(kind, i, IF tenure = NoTenure THEN 0 ELSE tenure[2])
<1>1. attempts[i] \in Seq(Attempt) /\ Len(attempts[i]) \in Nat
  BY DEF StoreTypeOK
<1>2. row.kind = kind /\ row.seen = Len(tenures[i])
  BY DEF NewAttempt
<1>3. attempts' = [attempts EXCEPT ![i] = Append(attempts[i], row)]
  BY DEF Reserve
<1> HIDE DEF row
<1> QED  BY <1>1, <1>2, <1>3 DEF StoreTypeOK

LEMMA AdmitReserves ==
  ASSUME NEW command, NEW kind, NEW candidates \in SUBSET Issues,
         NEW tenure \in TenureIds \cup {NoTenure},
         tenure = NoTenure \/ candidates = {tenure[1]},
         kind = "automatic" => tenure = command /\ tenure # NoTenure,
         kind = "start" => \E i \in Issues : candidates = {i} /\ tenure = OpenTenureOf(i),
         Admit(command, kind, candidates, tenure)
  PROVE  \/ /\ receipts[command] = NoReceipt
            /\ \E reason \in Refusals : Refuse(command, kind, reason)
         \/ \E i \in candidates : Reservation(command, kind, i, tenure)
<1>1. CASE \E reason \in Refusals : Refuse(command, kind, reason)
  BY <1>1 DEF Admit
<1>2. ASSUME NEW i \in candidates, AdmissionChecks(command, kind, i, tenure),
             Reserve(command, kind, i, tenure)
      PROVE  Reservation(command, kind, i, tenure)
  BY <1>2 DEF Reservation
<1> QED  BY <1>1, <1>2, AdmitCases

\* A step makes one reservation, or changes nothing that an attempt's record
\* says of its start.
LEMMA CallAttempts ==
  ASSUME StoreTypeOK, StoreCall \/ UNCHANGED storeVars
  PROVE  \/ HistoryKept
         \/ \E command \in CommandIds, kind \in Kinds, i \in Issues,
               tenure \in TenureIds \cup {NoTenure} :
              Reservation(command, kind, i, tenure)
<1>1. CASE \/ \E repositories : EndTenuresOutside(repositories)
           \/ \E r \in Repositories, found \in SUBSET Issues, commit \in Nat :
                Reconcile(r, found, commit, poll.since)
  BY <1>1, LossKept, KeptHistory DEF EndTenuresOutside, LoseEligibility, Reconcile
<1>2. CASE \E kept, repositories : Recover(kept, repositories)
  BY <1>2, RecoverKept, KeptHistory
<1>3. CASE \/ \E t \in TenureIds : \/ MarkIneligible(t[1], t[2])
                                   \/ EndTenure(t[1], t[2], "admission_rejected")
           \/ \E p, e : SetControls(p, e)
           \/ UNCHANGED storeVars
  BY <1>3, LossKept, UnchangedKept, KeptHistory
  DEF MarkIneligible, EndTenure, LoseEligibility, SetControls, storeVars
<1>4. CASE \E i \in Issues, j \in 1..MaxAttempts :
             Settle(i, j) \/ Revive(i, j) \/ Return(i, j)
  BY <1>4, SettleKept, KeptHistory, ReviveHistory
<1>5. ASSUME NEW command, NEW kind, NEW reason, Refuse(command, kind, reason)
      PROVE  HistoryKept
  BY <1>5, UnchangedKept, KeptHistory DEF Refuse
<1>6. ASSUME NEW t \in TenureIds, Admit(t, "automatic", {t[1]}, t)
      PROVE  \/ HistoryKept
             \/ \E i \in Issues : Reservation(t, "automatic", i, t)
  <2>1. {t[1]} \in SUBSET Issues /\ t # NoTenure /\ "automatic" # "start"
    BY DEF TenureIds, NoTenure
  <2>2. \/ \E reason \in Refusals : Refuse(t, "automatic", reason)
        \/ \E i \in {t[1]} : Reservation(t, "automatic", i, t)
    BY <1>6, <2>1, AdmitReserves
  <2> QED  BY <1>5, <2>1, <2>2
<1>7. ASSUME NEW command \in Commands, NEW kind \in Kinds \ {"automatic"},
             NEW candidates \in SUBSET Issues,
             kind = "start" => \E i \in Issues : candidates = {i},
             Admit(command, kind, candidates, TenureFor(kind, candidates))
      PROVE  \/ HistoryKept
             \/ \E i \in Issues : Reservation(command, kind, i,
                                              TenureFor(kind, candidates))
  <2> DEFINE tenure == TenureFor(kind, candidates)
  <2>1. /\ tenure \in TenureIds \cup {NoTenure}
        /\ tenure = NoTenure \/ candidates = {tenure[1]}
    BY TenureForOne
  <2>2. ASSUME kind = "start"
        PROVE  \E i \in Issues : candidates = {i} /\ tenure = OpenTenureOf(i)
    <3>1. PICK i \in Issues : candidates = {i}  BY <1>7, <2>2
    <3>2. (CHOOSE n \in candidates : TRUE) = i  BY <3>1
    <3> QED  BY <2>2, <3>1, <3>2 DEF TenureFor
  <2>3. Admit(command, kind, candidates, tenure) /\ kind # "automatic"  BY <1>7
  <2> HIDE DEF tenure
  <2>4. \/ \E reason \in Refusals : Refuse(command, kind, reason)
        \/ \E i \in candidates : Reservation(command, kind, i, tenure)
    BY <2>1, <2>2, <2>3, AdmitReserves
  <2>5. \/ HistoryKept
        \/ \E i \in Issues : Reservation(command, kind, i, tenure)
    BY <1>5, <2>4
  <2> QED  BY <2>5 DEF tenure
<1>8. Commands \subseteq CommandIds /\ TenureIds \subseteq CommandIds
      /\ "automatic" \in Kinds
  BY DEF CommandIds, Kinds
<1>9. ASSUME NEW t \in TenureIds, Admit(t, "automatic", {t[1]}, t)
      PROVE  \/ HistoryKept
             \/ \E command \in CommandIds, kind \in Kinds, i \in Issues,
                   tenure \in TenureIds \cup {NoTenure} :
                  Reservation(command, kind, i, tenure)
  BY <1>6, <1>8, <1>9
<1>10. ASSUME NEW command \in Commands, NEW kind \in Kinds \ {"automatic"},
              NEW candidates \in SUBSET Issues,
              kind = "start" => \E i \in Issues : candidates = {i},
              Admit(command, kind, candidates, TenureFor(kind, candidates))
       PROVE  \/ HistoryKept
              \/ \E c \in CommandIds, k \in Kinds, i \in Issues,
                    tenure \in TenureIds \cup {NoTenure} :
                   Reservation(c, k, i, tenure)
  <2>1. TenureFor(kind, candidates) \in TenureIds \cup {NoTenure}  BY TenureForOne
  <2> QED  BY <1>7, <1>8, <1>10, <2>1
<1> QED  BY <1>1, <1>2, <1>3, <1>4, <1>9, <1>10 DEF StoreCall

-----------------------------------------------------------------------------
(* QueuedStartNotRetried *)

\* A tenure that exists and no longer waits; it never will again.
Closed(i, k) == k \in 1..Len(tenures[i]) /\ tenures[i][k].ended # "open"

LEMMA ClosedStays ==
  ASSUME NEW i \in Issues, TenuresGrow(i), NEW k, Closed(i, k)
  PROVE  Closed(i, k)'
BY DEF Closed, TenuresGrow

\* An attempt that the queue or a start command began left no tenure of its
\* issue open: it ended the only one that was.
QueuedInv ==
  \A i \in Issues : \A m \in 1..Len(attempts[i]) :
    attempts[i][m].kind \in {"automatic", "start"} =>
      \A k \in 1..attempts[i][m].seen : Closed(i, k)

LEMMA QueuedKept ==
  ASSUME QueuedInv, QueuedStartNotRetried, HistoryKept,
         \A i \in Issues : TenuresGrow(i)
  PROVE  QueuedInv' /\ QueuedStartNotRetried'
<1>1. QueuedInv'
  <2> SUFFICES ASSUME NEW i \in Issues, NEW m \in 1..Len(attempts'[i]),
                      attempts'[i][m].kind \in {"automatic", "start"},
                      NEW k \in 1..attempts'[i][m].seen
               PROVE  Closed(i, k)'
    BY DEF QueuedInv
  <2>1. Closed(i, k)  BY DEF QueuedInv, HistoryKept
  <2> QED  BY <2>1, ClosedStays
<1>2. QueuedStartNotRetried'
  BY DEF QueuedStartNotRetried, HistoryKept
<1> QED  BY <1>1, <1>2

\* A reservation that names the open tenure leaves none that an earlier
\* attempt of the issue had seen.
LEMMA QueuedReserve ==
  ASSUME StoreTypeOK, QueueConsistent, QueuedInv, QueuedStartNotRetried,
         NEW command, NEW kind, NEW i \in Issues,
         NEW tenure \in TenureIds \cup {NoTenure},
         Reservation(command, kind, i, tenure)
  PROVE  QueuedInv' /\ QueuedStartNotRetried'
<1> DEFINE new == Len(attempts[i]) + 1
<1>1. /\ AdmissionChecks(command, kind, i, tenure)
      /\ Reserve(command, kind, i, tenure)
  BY DEF Reservation
<1>2. /\ Len(attempts[i]) \in Nat /\ Len(attempts'[i]) = new
      /\ \A m \in 1..Len(attempts[i]) : attempts'[i][m] = attempts[i][m]
      /\ \A n \in Issues \ {i} : attempts'[n] = attempts[n]
  BY <1>1, ReserveRows
<1>3. /\ attempts'[i][new].kind = kind
      /\ attempts'[i][new].seen = Len(tenures[i])
  BY <1>1, ReserveHistory
<1>4. attempts'[i][new].tenure = (IF tenure = NoTenure THEN 0 ELSE tenure[2])
  BY <1>1, ReserveNames
<1>5. /\ \A n \in Issues : TenuresGrow(n)
      /\ tenure # NoTenure => tenure[1] = i /\ Closed(i, tenure[2])'
  BY <1>1, ReserveGrow DEF Closed
<1>6. tenure # NoTenure => tenure[2] \in 1..MaxTenures /\ IsOpen(i, tenure[2])
  BY <1>1 DEF AdmissionChecks, TenureIds
<1>7. Len(tenures[i]) \in Nat  BY DEF StoreTypeOK
<1>8. ASSUME kind \in {"automatic", "start"}, NEW k \in 1..Len(tenures[i])
      PROVE  Closed(i, k)'
  <2>1. CASE tenures[i][k].ended # "open"
    BY <1>5, <2>1, ClosedStays DEF Closed
  <2>2. CASE tenures[i][k].ended = "open"
    <3>1. tenure # NoTenure
      BY <1>8, <2>2 DEF Reservation, OpenTenureOf, HasOpenTenure, NoTenure
    <3>2. tenure[2] \in 1..Len(tenures[i]) /\ tenures[i][tenure[2]].ended = "open"
      BY <1>6, <1>7, <3>1 DEF IsOpen
    <3>3. tenure[2] = k  BY <2>2, <3>2 DEF QueueConsistent
    <3> QED  BY <1>5, <3>1, <3>3
  <2> QED  BY <2>1, <2>2
<1> HIDE DEF new
<1>9. QueuedInv'
  <2> SUFFICES ASSUME NEW n \in Issues, NEW m \in 1..Len(attempts'[n]),
                      attempts'[n][m].kind \in {"automatic", "start"},
                      NEW k \in 1..attempts'[n][m].seen
               PROVE  Closed(n, k)'
    BY DEF QueuedInv
  <2>1. CASE n = i /\ m = new
    BY <1>3, <1>8, <2>1
  <2>2. CASE ~(n = i /\ m = new)
    <3>1. m \in 1..Len(attempts[n]) /\ attempts'[n][m] = attempts[n][m]
      BY <1>2, <2>2 DEF new
    <3>2. Closed(n, k)  BY <3>1 DEF QueuedInv
    <3> QED  BY <1>5, <3>2, ClosedStays
  <2> QED  BY <2>1, <2>2
<1>10. QueuedStartNotRetried'
  <2> SUFFICES ASSUME NEW n \in Issues, NEW m \in 1..Len(attempts'[n]),
                      NEW j \in 1..Len(attempts'[n]), m < j,
                      attempts'[n][m].kind \in {"automatic", "start"},
                      attempts'[n][j].kind = "automatic"
               PROVE  attempts'[n][j].tenure > attempts'[n][m].seen
    BY DEF QueuedStartNotRetried
  <2>1. CASE n = i /\ j = new
    <3>1. kind = "automatic" /\ tenure # NoTenure  BY <1>3, <2>1 DEF Reservation
    <3>2. m \in 1..Len(attempts[i]) /\ attempts'[i][m] = attempts[i][m]
      BY <1>2, <2>1 DEF new
    <3>3. \A k \in 1..attempts[i][m].seen : Closed(i, k)
      BY <2>1, <3>2 DEF QueuedInv
    <3>4. attempts[i][m].seen \in Nat
      <4>1. attempts[i][m] \in Attempt  BY <3>2 DEF StoreTypeOK
      <4> QED  BY <4>1 DEF Attempt
    <3>5. tenure[2] \in Nat \ {0} /\ ~Closed(i, tenure[2])
      BY <1>6, <3>1 DEF IsOpen, Closed
    <3>6. attempts'[i][new].tenure = tenure[2]  BY <1>4, <3>1
    <3> QED  BY <2>1, <3>2, <3>3, <3>4, <3>5, <3>6
  <2>2. CASE ~(n = i /\ j = new)
    <3>1. /\ j \in 1..Len(attempts[n]) /\ m \in 1..Len(attempts[n])
          /\ attempts'[n][j] = attempts[n][j] /\ attempts'[n][m] = attempts[n][m]
      BY <1>2, <2>2 DEF new
    <3> QED  BY <3>1 DEF QueuedStartNotRetried
  <2> QED  BY <2>1, <2>2
<1> QED  BY <1>9, <1>10

LEMMA RequestStep ==
  ASSUME TypeOK, RequestInv, [Next]_vars
  PROVE  RequestInv'
<1>1. CASE client' = client  BY <1>1 DEF RequestInv
<1>2. ASSUME NEW c \in Clients, ClientStep(c)  PROVE RequestInv'
  <2>1. /\ client \in [Clients -> {IdleClient} \cup Busy]
        /\ \A d \in Clients \ {c} : client'[d] = client[d]
    BY <1>2
    DEF TypeOK, DispatchTypeOK, ClientStep, Request, ReadCandidates, ReadClaimed,
        RequestFails, AdmitRequest
  <2>2. SUFFICES ASSUME client'[c] # IdleClient, KindOf[client'[c].command] = "start"
                 PROVE  \E i \in Issues : /\ client'[c].wanted = {i}
                                         /\ client'[c].candidates \subseteq {i}
    BY <2>1 DEF RequestInv
  <2>3. ASSUME NEW command \in Commands, NEW i \in Issues, Request(c, command, i)
        PROVE  client'[c].wanted = {i} /\ client'[c].candidates = {}
    <3> DEFINE next == KindOf[command] = "next"
               record == [pc |-> "busy", command |-> command,
                          wanted |-> IF next THEN Issues ELSE {i},
                          unread |-> IF next THEN configured ELSE {RepositoryOf[i]},
                          candidates |-> {}]
    <3>1. client' = [client EXCEPT ![c] = record]  BY <2>3 DEF Request
    <3>2. client'[c] = record  BY <2>1, <3>1
    <3>3. ~next  BY <2>2, <3>2
    <3> QED  BY <3>2, <3>3
  <2>4. ASSUME NEW r \in Repositories, ReadCandidates(c, r) \/ ReadClaimed(c, r)
        PROVE  /\ client[c] # IdleClient /\ client[c] \in Busy
               /\ client'[c].command = client[c].command
               /\ client'[c].wanted = client[c].wanted
               /\ client'[c].candidates \subseteq
                    client[c].candidates \cup client[c].wanted
    <3>1. client[c] # IdleClient /\ client[c] \in Busy
      BY <2>4, ClientType DEF ReadCandidates, ReadClaimed, TypeOK
    <3>2. \/ client'[c] = [client[c] EXCEPT !.unread = @ \ {r},
                 !.candidates = @ \cup (client[c].wanted \cap Eligible(r))]
          \/ client'[c] = [client[c] EXCEPT !.unread = {}, !.candidates = client[c].wanted]
      BY <2>1, <2>4, <3>1 DEF ReadCandidates, ReadClaimed, Busy
    <3> QED  BY <3>1, <3>2 DEF Busy
  <2>5. CASE RequestFails(c) \/ AdmitRequest(c)
    BY <2>1, <2>2, <2>5 DEF RequestFails, AdmitRequest
  <2>6. CASE \E r \in Repositories : ReadCandidates(c, r) \/ ReadClaimed(c, r)
    <3>1. /\ client[c] # IdleClient
          /\ client'[c].command = client[c].command
          /\ client'[c].wanted = client[c].wanted
          /\ client'[c].candidates \subseteq client[c].candidates \cup client[c].wanted
      BY <2>4, <2>6
    <3>2. PICK i \in Issues : client[c].wanted = {i} /\ client[c].candidates \subseteq {i}
      BY <2>2, <3>1 DEF RequestInv
    <3> QED  BY <3>1, <3>2
  <2> QED  BY <1>2, <2>3, <2>5, <2>6 DEF ClientStep
<1>3. ASSUME NEW kept, NEW repositories, CrashAndRestart(kept, repositories)
      PROVE  RequestInv'
  BY <1>3 DEF CrashAndRestart, RequestInv
<1>4. CASE PollStep \/ \E l \in Loops : LoopStep(l)
  BY <1>1, <1>4
  DEF PollStep, PollBegins, PollDispatches, Discover, Record, LoopStep, CheckControls,
      Fetch, Revalidate, MarkStale, AdmitQueued, Reject
<1>5. CASE AttemptStep
  BY <1>1, <1>5 DEF AttemptStep, Claim, AttemptSettles, AttemptRevives, AttemptReturned
<1>6. CASE Environment
  BY <1>1, <1>3, <1>6
  DEF Environment, Pause, Disable, Resume, Edit, Push, DiscoverFails, RevalidateFails
<1> QED  BY <1>1, <1>2, <1>4, <1>5, <1>6 DEF Next, vars

QueuedStrong == RequestInv /\ QueuedInv /\ QueuedStartNotRetried

\* docs/product-intent.md promises that a failed run is something a human looks
\* at: after an attempt that the queue or a start command began, only a tenure
\* that did not exist by then starts the issue automatically again, whatever
\* loops and requests are under way.
THEOREM DispatchNotRetried == Spec => []QueuedStartNotRetried
<1>1. Init => QueuedStrong
  BY DEF Init, StoreInit, QueuedStrong, RequestInv, QueuedInv, QueuedStartNotRetried
<1>2. TypeOK /\ QueueConsistent /\ QueuedStrong /\ [Next]_vars => QueuedStrong'
  <2> SUFFICES ASSUME TypeOK, QueueConsistent, QueuedStrong, [Next]_vars
               PROVE  QueuedStrong'
    OBVIOUS
  <2>1. RequestInv /\ QueuedInv /\ QueuedStartNotRetried /\ StoreTypeOK
    BY DEF QueuedStrong, TypeOK
  <2>2. RequestInv'  BY <2>1, RequestStep
  <2>3. StoreCall \/ UNCHANGED storeVars  BY <2>1, Called
  <2>4. \A i \in Issues : TenuresGrow(i)  BY <2>1, <2>3, CallGrow
  <2>5. QueuedInv' /\ QueuedStartNotRetried'
    BY <2>1, <2>3, <2>4, CallAttempts, QueuedKept, QueuedReserve
  <2> QED  BY <2>2, <2>5 DEF QueuedStrong
<1>3. QueuedStrong => QueuedStartNotRetried  BY DEF QueuedStrong
<1> QED  BY <1>1, <1>2, <1>3, TypeCorrect, DispatchQueueConsistent, PTL DEF Spec

-----------------------------------------------------------------------------
(* FifoAcrossPolls *)

\* The id of an automatic command names its tenure.  The contract takes any
\* string as the id of an operator's command; the theorem below is about
\* operators whose ids are not those of tenures.
OwnIds == Commands \cap TenureIds = {}

\* An automatic admission is refused only for its candidate.
LEMMA AutomaticRefusal ==
  ASSUME NEW t \in TenureIds,
         AdmitOutcome("automatic", {t[1]}, t) \notin {"started", "provider_busy"}
  PROVE  AdmitOutcome("automatic", {t[1]}, t) = "no_candidate"
<1>1. ~ \E i, j \in Unseen("automatic", {t[1]}) : i # j  BY DEF Unseen
<1> QED  BY <1>1 DEF AdmitOutcome

\* An automatic admission writes at most the receipt of its own tenure, which
\* is then closed or was refused.
LEMMA AutomaticReceipt ==
  ASSUME StoreTypeOK, NEW t \in TenureIds, Admit(t, "automatic", {t[1]}, t)
  PROVE  LET outcome == AdmitOutcome("automatic", {t[1]}, t) IN
         /\ \A c \in CommandIds \ {t} : receipts'[c] = receipts[c]
         /\ outcome = "started" =>
              Closed(t[1], t[2])' /\ receipts'[t].tag = "started"
         /\ outcome = "no_candidate" => receipts'[t].tag = "no_candidate"
         /\ outcome = "provider_busy" => receipts' = receipts
         /\ outcome \in {"started", "no_candidate", "provider_busy"}
<1> DEFINE outcome == AdmitOutcome("automatic", {t[1]}, t)
<1>1. receipts \in [CommandIds -> Receipt] /\ t \in CommandIds
  BY DEF StoreTypeOK, CommandIds
<1>2. t[1] \in Issues /\ t # NoTenure  BY DEF TenureIds, NoTenure
<1>3. CASE outcome = "started"
  <2>1. PICK i \in Unseen("automatic", {t[1]}) : Reserve(t, "automatic", i, t)
    BY <1>3 DEF Admit
  <2>2. i = t[1] /\ ~HasActiveAttempt(i)  BY <2>1 DEF Unseen
  <2>3. TenureUsable(t, {t[1]}) /\ ~SlotsTaken  BY <1>3 DEF AdmitOutcome
  <2>4. AdmissionChecks(t, "automatic", i, t)
    BY <1>2, <2>2, <2>3 DEF AdmissionChecks, TenureUsable, Admit
  <2>5. Closed(t[1], t[2])'
    <3>1. Reserve(t, "automatic", i, t) /\ i \in Issues  BY <1>2, <2>1, <2>2
    <3>2. t \in TenureIds \cup {NoTenure} /\ t # NoTenure  BY <1>2
    <3>3. t[2] \in 1..Len(tenures'[i]) /\ tenures'[i][t[2]].ended # "open"
      BY <2>4, <3>1, <3>2, ReserveGrow
    <3> QED  BY <2>2, <3>3 DEF Closed
  <2>6. receipts' = [receipts EXCEPT ![t] = Started(i, Len(attempts[i]) + 1)]
    BY <2>1 DEF Reserve
  <2>7. receipts'[t].tag = "started" /\ \A c \in CommandIds \ {t} : receipts'[c] = receipts[c]
    BY <1>1, <2>6 DEF Started
  <2> HIDE DEF outcome
  <2> QED  BY <1>3, <2>5, <2>7 DEF outcome
<1>4. CASE outcome = "provider_busy"
  <2>1. receipts' = receipts  BY <1>4 DEF Admit, Refuse
  <2> HIDE DEF outcome
  <2> QED  BY <1>4, <2>1 DEF outcome
<1>5. CASE outcome \notin {"started", "provider_busy"}
  <2>1. outcome = "no_candidate"  BY <1>5, AutomaticRefusal
  <2>2. receipts' = [receipts EXCEPT ![t] = Refused("no_candidate")]
    BY <2>1 DEF Admit, Refuse
  <2>3. receipts'[t].tag = "no_candidate"
        /\ \A c \in CommandIds \ {t} : receipts'[c] = receipts[c]
    BY <1>1, <2>2 DEF Refused
  <2> HIDE DEF outcome
  <2> QED  BY <2>1, <2>3 DEF outcome
<1> QED  BY <1>3, <1>4, <1>5

\* The receipt of an automatic start says what became of its tenure.
ReceiptInv ==
  \A t \in TenureIds : receipts[t] # NoReceipt =>
    \/ receipts[t].tag = "no_candidate"
    \/ receipts[t].tag = "started" /\ Closed(t[1], t[2])

\* No tenure is of a later time than the last poll.
TimeInv ==
  \A i \in Issues : \A k \in 1..Len(tenures[i]) : tenures[i][k].since <= poll.since

\* An entry a loop holds is a tenure, waiting or not, and no tenure that is
\* older than one of the entries waits without being an entry itself.
EntrySound(e) ==
  /\ e.tenure \in 1..Len(tenures[e.issue])
  /\ e.since = tenures[e.issue][e.tenure].since

NoneOlder(e, queue) ==
  \A u \in OpenTenures :
    tenures[u[1]][u[2]].since < e.since =>
      \E f \in queue : f.issue = u[1] /\ f.tenure = u[2]

LoopInv ==
  \A l \in Loops : \A e \in loop[l].queue :
    EntrySound(e) /\ NoneOlder(e, loop[l].queue)

FifoInv == ReceiptInv /\ TimeInv /\ LoopInv

\* Only a loop's admission writes the receipt of a tenure.
LEMMA ReceiptOf ==
  ASSUME TypeOK, OwnIds, [Next]_vars, NEW t \in TenureIds
  PROVE  \/ receipts'[t] = receipts[t]
         \/ \E l \in Loops : \E e \in loop[l].queue :
              /\ t = <<e.issue, e.tenure>>
              /\ IsFirst(e, loop[l].queue)
              /\ Admit(t, "automatic", {t[1]}, t)
<1> DEFINE Goal == \/ receipts'[t] = receipts[t]
                   \/ \E l \in Loops : \E e \in loop[l].queue :
                        /\ t = <<e.issue, e.tenure>>
                        /\ IsFirst(e, loop[l].queue)
                        /\ Admit(t, "automatic", {t[1]}, t)
<1>1. receipts \in [CommandIds -> Receipt] /\ t \in CommandIds
  BY DEF TypeOK, StoreTypeOK, CommandIds
<1>2. CASE receipts' = receipts  BY <1>2
<1>3. CASE PollStep \/ AttemptStep \/ Environment
  BY <1>2, <1>3
  DEF PollStep, PollBegins, PollDispatches, Discover, Record, EndTenuresOutside,
      Reconcile, AttemptStep, Claim, AttemptSettles, AttemptRevives, AttemptReturned,
      Settle, Revive, Return, Environment, Pause, Disable, Resume, SetControls, Edit,
      Push, DiscoverFails, RevalidateFails, CrashAndRestart, Recover, storeVars
<1>4. ASSUME NEW l \in Loops, LoopStep(l)  PROVE Goal
  <2>1. CASE CheckControls(l) \/ Fetch(l)
    BY <1>2, <2>1 DEF CheckControls, Fetch, storeVars
  <2>2. ASSUME NEW e \in loop[l].queue,
               Revalidate(l, e) \/ MarkStale(l, e) \/ Reject(l, e)
        PROVE  Goal
    BY <1>2, <2>2
    DEF Revalidate, MarkStale, Reject, MarkIneligible, EndTenure, storeVars
  <2>3. ASSUME NEW e \in loop[l].queue, AdmitQueued(l, e)  PROVE Goal
    <3> DEFINE id == <<e.issue, e.tenure>>
    <3>1. id \in TenureIds /\ id[1] = e.issue  BY EntryType DEF TypeOK
    <3>2. IsFirst(e, loop[l].queue)  BY <2>3 DEF AdmitQueued
    <3>3. UNCHANGED storeVars \/ Admit(id, "automatic", {id[1]}, id)
      BY <2>3, <3>1 DEF AdmitQueued
    <3>4. CASE UNCHANGED storeVars  BY <1>2, <3>4 DEF storeVars
    <3>5. CASE Admit(id, "automatic", {id[1]}, id) /\ t # id
      <4> HIDE DEF id
      <4>1. receipts'[t] = receipts[t]
        BY <1>1, <3>1, <3>5, AutomaticReceipt DEF TypeOK
      <4> QED  BY <4>1
    <3>6. CASE Admit(id, "automatic", {id[1]}, id) /\ t = id
      <4>1. Admit(t, "automatic", {t[1]}, t) /\ t = <<e.issue, e.tenure>>
        BY <3>6
      <4> QED  BY <3>2, <4>1
    <3> QED  BY <3>3, <3>4, <3>5, <3>6
  <2> QED  BY <1>4, <2>1, <2>2, <2>3 DEF LoopStep
<1>5. ASSUME NEW c \in Clients, ClientStep(c)  PROVE Goal
  <2>1. CASE AdmitRequest(c)
    <3> DEFINE command == client[c].command
               kind == KindOf[command]
    <3>1. command \in Commands  BY <2>1, ClientType DEF AdmitRequest, TypeOK
    <3>2. command # t /\ kind # "automatic"
      BY <3>1, DispatchAssumption DEF OwnIds, DispatchAssumption
    <3>3. \/ receipts' = receipts
          \/ \E answer : receipts' = [receipts EXCEPT ![command] = answer]
      BY <2>1, <3>2 DEF AdmitRequest, Admit, Refuse, Reserve, storeVars
    <3> HIDE DEF command, kind
    <3> QED  BY <1>1, <3>2, <3>3
  <2>2. CASE ~AdmitRequest(c)
    BY <1>2, <1>5, <2>2
    DEF ClientStep, Request, ReadCandidates, ReadClaimed, RequestFails, storeVars
  <2> QED  BY <2>1, <2>2
<1> HIDE DEF Goal
<1>6. Goal  BY <1>2, <1>3, <1>4, <1>5 DEF Next, vars, Goal
<1> QED  BY <1>6 DEF Goal

\* The three parts of the invariant that the order of starts rests on.
LEMMA ReceiptStep ==
  ASSUME TypeOK, OwnIds, ReceiptInv, [Next]_vars, \A i \in Issues : TenuresGrow(i)
  PROVE  ReceiptInv'
<1> SUFFICES ASSUME NEW t \in TenureIds, receipts'[t] # NoReceipt
             PROVE  \/ receipts'[t].tag = "no_candidate"
                    \/ receipts'[t].tag = "started" /\ Closed(t[1], t[2])'
  BY DEF ReceiptInv
<1>1. t[1] \in Issues /\ StoreTypeOK  BY DEF TenureIds, TypeOK
<1>2. CASE receipts'[t] = receipts[t]
  BY <1>1, <1>2, ClosedStays DEF ReceiptInv
<1>3. CASE Admit(t, "automatic", {t[1]}, t) /\ receipts'[t] # receipts[t]
  <2>1. receipts[t] = NoReceipt  BY <1>3 DEF Admit
  <2> QED  BY <1>1, <1>3, <2>1, AutomaticReceipt
<1> QED  BY <1>2, <1>3, ReceiptOf

LEMMA TimeStep ==
  ASSUME TypeOK, TimeInv, [Next]_vars, \A i \in Issues : TenuresGrow(i)
  PROVE  TimeInv'
<1>1. poll.since \in Nat  BY DEF TypeOK, DispatchTypeOK
<1>2. poll'.since \in Nat /\ poll.since <= poll'.since
  <2>1. CASE poll'.since = poll.since  BY <1>1, <2>1
  <2>2. CASE PollBegins
    BY <1>1, <2>2 DEF PollBegins, PollTime
  <2>3. poll \in [pc : {"sleeping", "observing"}, since : Nat,
                  seen : [Repositories -> Answer]]
    BY DEF TypeOK, DispatchTypeOK
  <2>4. ASSUME NEW r \in Repositories, Discover(r) \/ Record(r) \/ DiscoverFails(r)
        PROVE  poll'.since = poll.since
    BY <2>3, <2>4 DEF Discover, Record, DiscoverFails
  <2>5. CASE PollDispatches \/ \E kept, repositories : CrashAndRestart(kept, repositories)
    <3>1. poll'.since = poll.since
      BY <2>3, <2>5 DEF PollDispatches, CrashAndRestart, NoPoll
    <3> QED  BY <2>1, <3>1
  <2>6. CASE UNCHANGED poll  BY <2>1, <2>6
  <2>7. CASE \/ \E l \in Loops : LoopStep(l) \/ \E e \in loop[l].queue : RevalidateFails(l, e)
             \/ \E c \in Clients : ClientStep(c)
             \/ AttemptStep
             \/ Pause \/ Disable
             \/ \E l \in Resumers : Resume(l)
             \/ \E i \in Issues : Edit(i)
             \/ \E r \in Repositories : Push(r)
    BY <2>6, <2>7
    DEF LoopStep, CheckControls, Fetch, Revalidate, MarkStale, AdmitQueued, Reject,
        RevalidateFails, ClientStep, Request, ReadCandidates, ReadClaimed, RequestFails,
        AdmitRequest, AttemptStep, Claim, AttemptSettles, AttemptRevives,
        AttemptReturned, Pause, Disable, Resume, Edit, Push
  <2> QED
    BY <2>1, <2>2, <2>4, <2>5, <2>6, <2>7 DEF Next, PollStep, Environment, vars
<1> SUFFICES ASSUME NEW i \in Issues, NEW k \in 1..Len(tenures'[i])
             PROVE  tenures'[i][k].since <= poll'.since
  BY DEF TimeInv
<1>3. TenuresGrow(i)  OBVIOUS
<1>4. tenures[i] \in Seq(Tenure) /\ Len(tenures[i]) \in Nat
  BY DEF TypeOK, StoreTypeOK
<1>5. CASE k \in 1..Len(tenures[i])
  <2>1. tenures[i][k] \in Tenure  BY <1>4, <1>5
  <2>2. tenures[i][k].since \in Nat  BY <2>1 DEF Tenure
  <2>3. tenures'[i][k].since = tenures[i][k].since  BY <1>3, <1>5 DEF TenuresGrow
  <2>4. tenures[i][k].since <= poll.since  BY <1>5 DEF TimeInv
  <2> QED  BY <1>1, <1>2, <2>2, <2>3, <2>4
<1>6. CASE k > Len(tenures[i])
  <2>1. tenures'[i][k].since = poll.since  BY <1>3, <1>6 DEF TenuresGrow
  <2> QED  BY <1>2, <2>1
<1>7. Len(tenures'[i]) \in Nat  BY <1>3 DEF TenuresGrow
<1> QED  BY <1>4, <1>5, <1>6, <1>7

-----------------------------------------------------------------------------
(* The queues of the loops *)

\* The loop only dropped entries whose tenures wait no longer.
Drops(l) ==
  /\ loop'[l].queue \subseteq loop[l].queue
  /\ \A e \in loop[l].queue \ loop'[l].queue : ~IsOpen(e.issue, e.tenure)'

LEMMA ClosedNotOpen ==
  ASSUME NEW i, NEW k, Closed(i, k)  PROVE ~IsOpen(i, k)
BY DEF Closed, IsOpen

\* The loop is done with an entry only when its tenure is closed.
LEMMA Processed ==
  ASSUME TypeOK, ReceiptInv, LoopInv, \A i \in Issues : TenuresGrow(i),
         NEW l \in Loops, NEW e \in loop[l].queue, Continue(l, e),
         MarkStale(l, e) \/ AdmitQueued(l, e) \/ Reject(l, e)
  PROVE  ~IsOpen(e.issue, e.tenure)'
<1> DEFINE t == <<e.issue, e.tenure>>
<1>1. t \in TenureIds /\ t[1] = e.issue /\ t[2] = e.tenure /\ e.issue \in Issues
  BY EntryType DEF TypeOK
<1>2. SUFFICES Closed(e.issue, e.tenure)'
  BY DEF Closed, IsOpen
<1>3. e.tenure \in 1..Len(tenures[e.issue])  BY DEF LoopInv, EntrySound
<1>4. CASE ~IsOpen(e.issue, e.tenure)
  <2>1. Len(tenures[e.issue]) \in Nat  BY <1>1 DEF TypeOK, StoreTypeOK
  <2>2. Closed(e.issue, e.tenure)  BY <1>3, <1>4, <2>1 DEF Closed, IsOpen
  <2> QED  BY <1>1, <2>2, ClosedStays
<1>5. ASSUME NEW reason \in EndReasons, IsOpen(e.issue, e.tenure),
             tenures' = [tenures EXCEPT ![e.issue][e.tenure].ended = reason]
      PROVE  Closed(e.issue, e.tenure)'
  <2>1. e.tenure \in 1..MaxTenures  BY EntryType DEF TypeOK
  <2>2. /\ e.tenure \in 1..Len(tenures'[e.issue])
        /\ tenures'[e.issue][e.tenure].ended # "open"
    BY <1>1, <1>5, <2>1, EndOneGrow DEF TypeOK
  <2> QED  BY <2>2 DEF Closed
<1>6. CASE MarkStale(l, e) \/ Reject(l, e)
  <2>1. "issue_ineligible" \in EndReasons /\ "admission_rejected" \in EndReasons
    BY DEF EndReasons
  <2> QED  BY <1>4, <1>5, <1>6, <2>1 DEF MarkStale, Reject, MarkIneligible, EndTenure
<1>7. CASE AdmitQueued(l, e)
  <2> DEFINE outcome == AdmitOutcome("automatic", {t[1]}, t)
  <2>1. loop'[l].queue = loop[l].queue \ {e}
    BY DEF Continue, TypeOK, DispatchTypeOK
  <2>2. loop'[l].queue # loop[l].queue  BY <2>1
  <2>3. ~Goto(l, "reject")
    BY <2>2 DEF Goto, TypeOK, DispatchTypeOK
  <2>4. loop'[l].pc \in {"fetch", "revalidate"}
    BY DEF Continue, TypeOK, DispatchTypeOK
  <2>5. ~Finish(l)  BY <2>4 DEF Finish, IdleLoop, TypeOK, DispatchTypeOK
  <2>6. \/ receipts[t] # NoReceipt /\ receipts[t].tag # "no_candidate"
        \/ /\ Admit(t, "automatic", {t[1]}, t)
           /\ outcome \notin {"provider_busy", "no_candidate"}
    BY <1>7, <2>3, <2>5 DEF AdmitQueued
  <2>7. CASE receipts[t] # NoReceipt /\ receipts[t].tag # "no_candidate"
    <3>1. Closed(t[1], t[2])  BY <1>1, <2>7 DEF ReceiptInv
    <3> QED  BY <1>1, <3>1, ClosedStays
  <2>8. CASE /\ Admit(t, "automatic", {t[1]}, t)
             /\ outcome \notin {"provider_busy", "no_candidate"}
    <3> HIDE DEF t
    <3>1. Closed(t[1], t[2])'  BY <1>1, <2>8, AutomaticReceipt DEF TypeOK
    <3>2. t[2] \in 1..Len(tenures'[t[1]]) /\ tenures'[t[1]][t[2]].ended # "open"
      BY <3>1 DEF Closed
    <3> QED  BY <1>1, <3>2 DEF Closed
  <2> QED  BY <2>6, <2>7, <2>8
<1> QED  BY <1>6, <1>7

\* A step empties a loop's queue, drops what waits no longer, or reads it.
LEMMA QueueStep ==
  ASSUME TypeOK, ReceiptInv, LoopInv, [Next]_vars,
         \A i \in Issues : TenuresGrow(i), NEW l \in Loops
  PROVE  \/ loop'[l].queue = {}
         \/ Drops(l)
         \/ loop'[l].queue = DispatchableQueue /\ tenures' = tenures
<1> DEFINE Goal == \/ loop'[l].queue = {}
                   \/ Drops(l)
                   \/ loop'[l].queue = DispatchableQueue /\ tenures' = tenures
<1>1. loop \in [Loops -> [pc : LoopStates, queue : SUBSET Entry]]
  BY DEF TypeOK, DispatchTypeOK
<1>2. CASE loop'[l].queue = loop[l].queue  BY <1>2 DEF Drops
<1>3. ASSUME NEW m \in Loops, NEW pc, Goto(m, pc)  PROVE Goal
  BY <1>1, <1>2, <1>3 DEF Goto
<1>4. ASSUME NEW m \in Loops, Finish(m)  PROVE Goal
  BY <1>1, <1>2, <1>4 DEF Finish, IdleLoop
<1>5. ASSUME NEW m \in Loops, NEW e \in loop[m].queue, Continue(m, e),
             MarkStale(m, e) \/ AdmitQueued(m, e) \/ Reject(m, e)
      PROVE  Goal
  <2>1. CASE m # l  BY <1>1, <1>2, <1>5, <2>1 DEF Continue
  <2>2. CASE m = l
    <3>1. loop'[l].queue = loop[l].queue \ {e}  BY <1>1, <1>5, <2>2 DEF Continue
    <3>2. ~IsOpen(e.issue, e.tenure)'  BY <1>5, Processed
    <3> QED  BY <3>1, <3>2 DEF Drops
  <2> QED  BY <2>1, <2>2
<1>6. ASSUME NEW m \in Loops, Fetch(m)  PROVE Goal
  <2>1. CASE Finish(m)  BY <1>4, <2>1
  <2>2. CASE loop' = [loop EXCEPT ![m] = [pc |-> "revalidate",
                                          queue |-> DispatchableQueue]]
    <3>1. tenures' = tenures  BY <1>6 DEF Fetch, storeVars
    <3> QED  BY <1>1, <1>2, <2>2, <3>1
  <2> QED  BY <1>6, <2>1, <2>2 DEF Fetch
<1>7. ASSUME NEW m \in Loops, LoopStep(m)  PROVE Goal
  <2>1. CASE CheckControls(m)  BY <1>3, <1>4, <2>1 DEF CheckControls
  <2>2. ASSUME NEW e \in loop[m].queue, Revalidate(m, e)  PROVE Goal
    BY <1>3, <2>2 DEF Revalidate
  <2>3. ASSUME NEW e \in loop[m].queue,
               MarkStale(m, e) \/ AdmitQueued(m, e) \/ Reject(m, e)
        PROVE  Goal
    <3>1. Finish(m) \/ Goto(m, "reject") \/ Continue(m, e)
      BY <2>3 DEF MarkStale, AdmitQueued, Reject
    <3> QED  BY <1>3, <1>4, <1>5, <2>3, <3>1
  <2> QED  BY <1>6, <1>7, <2>1, <2>2, <2>3 DEF LoopStep
<1>8. CASE PollDispatches
  <2>1. Poller \in Loops /\ Goto(Poller, "controls")
    BY <1>8 DEF PollDispatches, Goto, Loops
  <2> QED  BY <1>3, <2>1
<1>9. ASSUME NEW m \in Resumers, Resume(m)  PROVE Goal
  BY <1>3, <1>9 DEF Resume, Loops
<1>10. ASSUME NEW m \in Loops, NEW e \in loop[m].queue, RevalidateFails(m, e)
       PROVE  Goal
  BY <1>4, <1>10 DEF RevalidateFails
<1>11. ASSUME NEW kept, NEW repositories, CrashAndRestart(kept, repositories)
       PROVE  Goal
  BY <1>11 DEF CrashAndRestart, IdleLoop
<1>12. CASE UNCHANGED loop  BY <1>2, <1>12
<1>13. CASE \/ PollBegins
            \/ \E r \in Repositories : \/ Discover(r) \/ Record(r) \/ DiscoverFails(r)
                                       \/ Push(r)
            \/ \E c \in Clients : ClientStep(c)
            \/ AttemptStep
            \/ Pause \/ Disable
            \/ \E i \in Issues : Edit(i)
  BY <1>12, <1>13
  DEF PollBegins, Discover, Record, DiscoverFails, Push, ClientStep, Request,
      ReadCandidates, ReadClaimed, RequestFails, AdmitRequest, AttemptStep, Claim,
      AttemptSettles, AttemptRevives, AttemptReturned, Pause, Disable, Edit
<1>14. Goal
  <2>1. CASE PollStep  BY <1>8, <1>13, <2>1 DEF PollStep
  <2>2. CASE Environment
    BY <1>9, <1>10, <1>11, <1>13, <2>2 DEF Environment
  <2>3. CASE UNCHANGED vars  BY <1>12, <2>3 DEF vars
  <2> QED  BY <1>7, <1>13, <2>1, <2>2, <2>3 DEF Next
<1> QED  BY <1>14

\* A waiting tenure that is older than one of the rows read is read with it.
LEMMA FetchedOldest ==
  ASSUME TypeOK, NEW e \in DispatchableQueue
  PROVE  EntrySound(e) /\ NoneOlder(e, DispatchableQueue)
<1> DEFINE rows == {Row(t) : t \in OpenTenures}
           before(g) == {f \in rows : Precedes(f, g)}
<1>1. IsFiniteSet(rows)
  <2>1. IsFiniteSet(Issues) /\ IsFiniteSet(1..MaxTenures)
    BY QueueStoreAssumption, FS_Interval DEF QueueStoreAssumption
  <2>2. IsFiniteSet(TenureIds)  BY <2>1, FS_Product DEF TenureIds
  <2>3. IsFiniteSet(OpenTenures)  BY <2>2, FS_Subset DEF OpenTenures
  <2>4. [t \in OpenTenures |-> Row(t)] \in Surjection(OpenTenures, rows)
    BY DEF Surjection
  <2> QED  BY <2>3, <2>4, FS_Surjection
<1>2. ASSUME NEW t \in OpenTenures
      PROVE  /\ t[1] \in Issues /\ t[2] \in 1..Len(tenures[t[1]])
             /\ tenures[t[1]][t[2]].since \in Nat
             /\ Row(t).issue = t[1] /\ Row(t).tenure = t[2]
             /\ Row(t).since = tenures[t[1]][t[2]].since
  <2>1. /\ t[1] \in Issues /\ t[2] \in 1..MaxTenures /\ t[2] <= Len(tenures[t[1]])
    BY DEF OpenTenures, TenureIds, IsOpen
  <2>2. tenures[t[1]] \in Seq(Tenure) /\ t[2] \in 1..Len(tenures[t[1]])
    BY <2>1 DEF TypeOK, StoreTypeOK
  <2>3. tenures[t[1]][t[2]] \in Tenure  BY <2>2
  <2> QED  BY <2>1, <2>2, <2>3 DEF Row, Tenure
<1>3. e \in rows /\ Cardinality(before(e)) < FetchLimit
  BY DEF DispatchableQueue
<1>4. PICK s \in OpenTenures : e = Row(s)  BY <1>3
<1>5. EntrySound(e)  BY <1>2, <1>4 DEF EntrySound
<1>6. ASSUME NEW u \in OpenTenures, tenures[u[1]][u[2]].since < e.since
      PROVE  \E f \in DispatchableQueue : f.issue = u[1] /\ f.tenure = u[2]
  <2>1. Row(u) \in rows /\ Row(u).since < e.since /\ e.since \in Nat
        /\ Row(u).since \in Nat
    BY <1>2, <1>4, <1>6
  <2>2. \A g \in rows : g.since \in Nat  BY <1>2
  <2>3. before(Row(u)) \subseteq before(e)
    BY <2>1, <2>2 DEF Precedes
  <2>4. IsFiniteSet(before(e))  BY <1>1, FS_Subset
  <2>5. /\ IsFiniteSet(before(Row(u)))
        /\ Cardinality(before(Row(u))) <= Cardinality(before(e))
    BY <2>3, <2>4, FS_Subset
  <2>6. Cardinality(before(Row(u))) \in Nat /\ Cardinality(before(e)) \in Nat
        /\ FetchLimit \in Nat
    BY <2>4, <2>5, FS_CardinalityType, DispatchAssumption DEF DispatchAssumption
  <2>7. Cardinality(before(Row(u))) < FetchLimit  BY <1>3, <2>5, <2>6
  <2>8. Row(u) \in DispatchableQueue  BY <2>1, <2>7 DEF DispatchableQueue
  <2> QED  BY <1>2, <2>8
<1> QED  BY <1>5, <1>6 DEF NoneOlder

\* What waits after a step and is older than an entry waited before it.
LEMMA OlderWaited ==
  ASSUME TypeOK, TimeInv, \A i \in Issues : TenuresGrow(i),
         NEW l \in Loops, NEW e \in loop[l].queue, EntrySound(e),
         NEW u \in TenureIds, IsOpen(u[1], u[2])',
         tenures'[u[1]][u[2]].since < e.since
  PROVE  u \in OpenTenures /\ tenures'[u[1]][u[2]].since = tenures[u[1]][u[2]].since
<1>1. u[1] \in Issues /\ u[2] \in Nat \ {0} /\ TenuresGrow(u[1])
  BY DEF TenureIds
<1>2. u[2] <= Len(tenures'[u[1]]) /\ tenures'[u[1]][u[2]].ended = "open"
  BY DEF IsOpen
<1>3. e \in Entry /\ e.issue \in Issues  BY EntryType DEF TypeOK
<1>4. e.since <= poll.since  BY <1>3 DEF EntrySound, TimeInv
<1>5. e.since \in Nat /\ poll.since \in Nat
  BY <1>3 DEF Entry, TypeOK, DispatchTypeOK
<1>6. Len(tenures[u[1]]) \in Nat /\ Len(tenures'[u[1]]) \in Nat
  BY <1>1 DEF TenuresGrow
<1>7. u[2] \in 1..Len(tenures[u[1]])
  <2>1. SUFFICES ASSUME u[2] > Len(tenures[u[1]])  PROVE FALSE
    BY <1>1, <1>6
  <2>2. tenures'[u[1]][u[2]].since = poll.since
    BY <1>1, <1>2, <1>6, <2>1 DEF TenuresGrow
  <2> QED  BY <1>4, <1>5, <2>2
<1>8. /\ tenures'[u[1]][u[2]].since = tenures[u[1]][u[2]].since
      /\ tenures[u[1]][u[2]].ended = "open"
  BY <1>1, <1>2, <1>7 DEF TenuresGrow
<1> QED  BY <1>6, <1>7, <1>8 DEF OpenTenures, IsOpen

LEMMA LoopInvStep ==
  ASSUME TypeOK, ReceiptInv, TimeInv, LoopInv, [Next]_vars,
         \A i \in Issues : TenuresGrow(i)
  PROVE  LoopInv'
<1> SUFFICES ASSUME NEW l \in Loops, NEW e \in loop'[l].queue
             PROVE  EntrySound(e)' /\ NoneOlder(e, loop[l].queue)'
  BY DEF LoopInv
<1>1. CASE loop'[l].queue = DispatchableQueue /\ tenures' = tenures
  <2>1. e \in DispatchableQueue  BY <1>1
  <2>2. EntrySound(e) /\ NoneOlder(e, DispatchableQueue)  BY <2>1, FetchedOldest
  <2>3. OpenTenures' = OpenTenures  BY <1>1 DEF OpenTenures, IsOpen
  <2>4. EntrySound(e)'  BY <1>1, <2>2 DEF EntrySound
  <2>5. NoneOlder(e, loop[l].queue)'
    BY <1>1, <2>2, <2>3 DEF NoneOlder
  <2> QED  BY <2>4, <2>5
<1>2. CASE Drops(l)
  <2>1. e \in loop[l].queue  BY <1>2 DEF Drops
  <2>2. EntrySound(e) /\ NoneOlder(e, loop[l].queue)  BY <2>1 DEF LoopInv
  <2>3. e.issue \in Issues  BY <2>1, EntryType DEF TypeOK
  <2>4. EntrySound(e)'
    <3>1. TenuresGrow(e.issue)  BY <2>3
    <3> QED  BY <2>2, <3>1 DEF EntrySound, TenuresGrow
  <2>5. NoneOlder(e, loop[l].queue)'
    <3> SUFFICES ASSUME NEW u \in TenureIds, IsOpen(u[1], u[2])',
                        tenures'[u[1]][u[2]].since < e.since
                 PROVE  \E f \in loop'[l].queue : f.issue = u[1] /\ f.tenure = u[2]
      BY DEF NoneOlder, OpenTenures
    <3>1. u \in OpenTenures /\ tenures[u[1]][u[2]].since < e.since
      BY <2>1, <2>2, OlderWaited
    <3>2. PICK f \in loop[l].queue : f.issue = u[1] /\ f.tenure = u[2]
      BY <2>2, <3>1 DEF NoneOlder
    <3>3. f \in loop'[l].queue
      BY <1>2, <3>2 DEF Drops, IsOpen
    <3> QED  BY <3>2, <3>3
  <2> QED  BY <2>4, <2>5
<1> QED  BY <1>1, <1>2, QueueStep

\* The tenure that a loop admits is the oldest that waits.
LEMMA FifoStep ==
  ASSUME TypeOK, OwnIds, FifoInv, [Next]_vars, NEW t \in TenureIds,
         receipts[t] = NoReceipt, receipts'[t].tag = "started",
         NEW u \in OpenTenures
  PROVE  tenures[t[1]][t[2]].since <= tenures[u[1]][u[2]].since
<1>1. receipts'[t] # receipts[t]  BY DEF NoReceipt
<1>2. PICK l \in Loops : \E e \in loop[l].queue :
             t = <<e.issue, e.tenure>> /\ IsFirst(e, loop[l].queue)
  BY <1>1, ReceiptOf
<1>3. PICK e \in loop[l].queue :
             t = <<e.issue, e.tenure>> /\ IsFirst(e, loop[l].queue)
  BY <1>2
<1>4. EntrySound(e) /\ NoneOlder(e, loop[l].queue)  BY DEF FifoInv, LoopInv
<1>5. e.since = tenures[t[1]][t[2]].since  BY <1>3, <1>4 DEF EntrySound
<1>6. \A f \in loop[l].queue : f.since \in Nat
  BY EntryType DEF TypeOK, Entry
<1>7. tenures[u[1]][u[2]].since \in Nat
  <2>1. /\ u[1] \in Issues /\ u[2] \in 1..MaxTenures /\ u[2] <= Len(tenures[u[1]])
    BY DEF OpenTenures, TenureIds, IsOpen
  <2>2. tenures[u[1]] \in Seq(Tenure) /\ u[2] \in 1..Len(tenures[u[1]])
    BY <2>1 DEF TypeOK, StoreTypeOK
  <2>3. tenures[u[1]][u[2]] \in Tenure  BY <2>2
  <2> QED  BY <2>3 DEF Tenure
<1>8. SUFFICES ASSUME tenures[u[1]][u[2]].since < e.since  PROVE FALSE
  BY <1>5, <1>6, <1>7
<1>9. PICK f \in loop[l].queue : f.issue = u[1] /\ f.tenure = u[2]
  BY <1>4, <1>8 DEF NoneOlder
<1>10. f.since = tenures[u[1]][u[2]].since
  BY <1>9 DEF FifoInv, LoopInv, EntrySound
<1>11. f # e /\ f.since \in Nat /\ e.since \in Nat /\ f.since < e.since
  BY <1>6, <1>7, <1>8, <1>10
<1>12. Precedes(e, f)  BY <1>3, <1>11 DEF IsFirst
<1> QED  BY <1>11, <1>12 DEF Precedes

\* An automatic start never overtakes a tenure that has waited since an earlier
\* poll, whatever the age of the loop's copy of the queue, when no operator uses
\* the command id of an automatic start.
THEOREM DispatchFifo == ASSUME OwnIds PROVE Spec => FifoAcrossPolls
<1>1. Init => FifoInv
  BY DEF Init, StoreInit, FifoInv, ReceiptInv, TimeInv, LoopInv, IdleLoop,
         CommandIds, NoReceipt
<1>2. TypeOK /\ RequestInv /\ FifoInv /\ [Next]_vars => FifoInv'
  <2> SUFFICES ASSUME TypeOK, RequestInv, FifoInv, [Next]_vars  PROVE FifoInv'
    OBVIOUS
  <2>1. ReceiptInv /\ TimeInv /\ LoopInv  BY DEF FifoInv
  <2>2. \A i \in Issues : TenuresGrow(i)  BY Called, CallGrow DEF TypeOK
  <2> QED  BY <2>1, <2>2, ReceiptStep, TimeStep, LoopInvStep DEF FifoInv
<1>3. TypeOK /\ FifoInv /\ [Next]_vars =>
        [\A t \in TenureIds :
           receipts[t] = NoReceipt /\ receipts'[t].tag = "started"
             => \A u \in OpenTenures :
                  tenures[t[1]][t[2]].since <= tenures[u[1]][u[2]].since]_vars
  BY FifoStep
<1>4. Init => RequestInv  BY DEF Init, RequestInv
<1>5. TypeOK /\ RequestInv /\ [Next]_vars => RequestInv'  BY RequestStep
<1> QED
  BY <1>1, <1>2, <1>3, <1>4, <1>5, TypeCorrect, PTL DEF Spec, FifoAcrossPolls
=============================================================================
