----------------------------- MODULE LifecycleProofs -----------------------------
(***************************************************************************)
(* Theorems about the attempts of an issue and the commands on them: for   *)
(* any number of attempts and commands, crashes and failures, a provider   *)
(* that runs holds its slot, nothing is left of a stopped attempt, and a   *)
(* command takes effect once, however often it is executed.                *)
(***************************************************************************)
EXTENDS Lifecycle, FiniteSetTheorems, SequenceTheorems, TLAPS

(* One attempt: its row, fiber, promise and group. *)

Waiting == {"revalidate", "claim", "claimed", "workspace"}

(* Nothing of the attempt has been started. *)
Unstarted(a) ==
  /\ provider[a].pc = "none" /\ ~provider[a].aborted /\ group[a] = "none"
  /\ ~rows[a].process /\ ~rows[a].pending /\ ~rows[a].workspace
  /\ a \notin published

FiberSound(a) ==
  /\ fiber[a] \in Waiting => Unstarted(a)
  /\ fiber[a] = "provider" <=> provider[a].pc # "none" /\ ~provider[a].aborted
  /\ provider[a].aborted => fiber[a] = "none"
  /\ fiber[a] \in {"workspace", "provider", "verify"} => Active(a)
  /\ rows[a].state \in {"failed", "completed"} =>
       fiber[a] = "none" /\ provider[a].pc = "none"

ProviderSound(a) ==
  ~provider[a].aborted =>
    /\ provider[a].pc = "preparing" =>
         rows[a].pending /\ ~rows[a].process /\ group[a] = "none"
    /\ provider[a].pc \in {"running", "cleaning", "resolved"} => rows[a].process
    /\ provider[a].pc = "resolved" => group[a] # "leader"
    /\ provider[a].pc = "rejected" =>
         /\ group[a] = "none" \/ rows[a].process
         /\ ~provider[a].timedOut => group[a] # "leader"

GroupSound(a) ==
  /\ group[a] # "none" => rows[a].process \/ rows[a].pending
  /\ fiber[a] = "verify" =>
       group[a] # "leader" /\ (group[a] = "none" \/ rows[a].process)
  /\ group[a] = "leader" => Active(a)
  /\ rows[a].state \in {"stopped", "interrupted"} => group[a] = "none"
  /\ group[a] = "orphans" => MembersSurvive
  /\ a \in published => rows[a].workspace

AbsentSound(a) ==
  rows[a].state = "absent" =>
    /\ Unstarted(a) /\ fiber[a] = "none"
    /\ a \notin posts /\ origin[a] = Nobody

AttemptSound(a) ==
  /\ FiberSound(a) /\ ProviderSound(a) /\ GroupSound(a) /\ AbsentSound(a)

AttemptInv == \A a \in Attempts : AttemptSound(a)

(* The unique index on the active attempts of an issue. *)
OneActive == \A a, b \in Attempts : Active(a) /\ Active(b) => a = b

(* While the service is down nothing of it is left. *)
Quiet ==
  service = "down" =>
    /\ \A a \in Attempts : fiber[a] = "none" /\ provider[a].pc = "none"
    /\ \A c \in Commands : run[c].pc = "idle"
    /\ turn = Nobody

(* The commands and what remains to be done about them. *)

Underway(c) == commands[c].phase \in {"accepted", "executing"}

CommandSound(c) ==
  /\ commands[c].phase = "unknown" =>
       /\ sibling[c] = {} /\ Target(c) = Nobody
       /\ commands[c].consequence = "none"
  /\ Underway(c) => Target(c) # Nobody
  /\ Target(c) # Nobody => rows[Target(c)].state # "absent"
  /\ run[c].pc # "idle" => Underway(c)
  /\ run[c].pc \in SyncStates => turn = c
  /\ commands[c].consequence = "returned" => KindOf[c] = "return"

CommandInv == \A c \in Commands : CommandSound(c)

(* Which kind of command is where. *)
KindSound(c) ==
  /\ run[c].pc \in {"interrupt", "reconcile"} => KindOf[c] = "stop"
  /\ run[c].pc \in {"inspecting", "unlabel", "claim_read", "removing"} =>
       KindOf[c] = "return"
  /\ run[c].pc \in {"revalidating", "admit", "reserved"} => KindOf[c] = "restart"
  /\ sibling[c] # {} => KindOf[c] = "restart"
  /\ commands[c].effect = "resolved" => KindOf[c] = "stop"
  /\ run[c].pc = "begin" => run[c].from = commands[c].effect
  /\ run[c].pc \in {"conclude", "finish"} =>
       /\ run[c].consequence \in {"stopped", "stop_uncertain"} => KindOf[c] = "stop"
       /\ run[c].consequence = "returned" => KindOf[c] = "return"
       /\ run[c].consequence \in {"archived", "restored"} =>
            KindOf[c] \in {"archive", "restore"}

KindInv == \A c \in Commands : KindSound(c)

(* An unfinished Stop has ended the fiber of its target. *)
StopSound(c) ==
  Underway(c) /\ KindOf[c] = "stop" =>
    /\ \/ fiber[Target(c)] = "none"
       \/ turn = c /\ run[c].pc \in {"begin", "interrupt"}
    /\ rows[Target(c)].state \notin {"failed", "completed"}
    /\ commands[c].effect = "resolved" => fiber[Target(c)] = "none"
    /\ commands[c].effect = "resolved" /\ commands[c].result # "uncertain" =>
         group[Target(c)] = "none"
    /\ run[c].pc = "conclude" =>
         /\ commands[c].effect = "resolved"
         /\ run[c].consequence = StopResult(commands[c].result)

StopInv == \A c \in Commands : StopSound(c)

(* Siblings *)
OriginInv ==
  \A c \in Commands : \A a \in Attempts :
     a \in sibling[c] <=> origin[a] = c

(* A Restart that has reserved and not finished holds a sibling nobody has *)
(* touched; unless it has the event loop, recovery is going to execute it. *)
SiblingSound(c) ==
  /\ run[c].pc \in {"revalidating", "admit"} => sibling[c] = {}
  /\ run[c].pc = "reserved" => sibling[c] # {}
  /\ KindOf[c] = "restart" /\ run[c].pc \in {"conclude", "finish"} =>
       run[c].consequence \in {"rejected", "restarted"}
  /\ Underway(c) =>
       /\ turn # c /\ sibling[c] # {} =>
            service = "down" \/ (service = "recovering" /\ c \in Range(todo))
       /\ \A a \in sibling[c] :
            /\ Unstarted(a) /\ a \notin posts
            /\ fiber[a] \in {"none", "revalidate"}
            /\ rows[a].state \in {"reserved", "interrupted"}
            /\ fiber[a] = "revalidate" => turn = c /\ run[c].pc \in {"conclude", "finish"}
            /\ \A d \in Commands : Target(d) # a

SiblingInv == \A c \in Commands : SiblingSound(c)

(* Every unfinished command is in "order", and recovery has still to       *)
(* execute those in "todo".                                                *)
OrderInv ==
  /\ Range(order) = {c \in Commands : Underway(c)}
  /\ IsInjective(order)
  /\ Range(todo) \subseteq {c \in Commands : Underway(c) /\ run[c].pc = "idle"}
  /\ IsInjective(todo)
  /\ service = "up" => todo = <<>>
  /\ service = "recovering" =>
       \A c, d \in Commands : run[c].pc # "idle" /\ run[d].pc # "idle" => c = d

(* Return *)
Unlabelling(c) ==
  \/ commands[c].effect \in {"pull_request_absent", "label_removing", "label_removed"}
  \/ commands[c].consequence = "returned"

ReturnSound(c) ==
  /\ run[c].pc \in {"claim_read", "removing", "unlabel"} => Unlabelling(c)
  /\ run[c].pc \in {"conclude", "finish"} /\ run[c].consequence = "returned" =>
       Unlabelling(c)
  /\ KindOf[c] = "return" /\ (Underway(c) \/ commands[c].consequence = "returned") =>
    /\ Target(c) \in Attempts
    /\ /\ origin[Target(c)] = Nobody
       /\ MembersSurvive => rows[Target(c)].state # "failed"
       => /\ fiber[Target(c)] = "none" /\ group[Target(c)] = "none"
          /\ Unlabelling(c) => Target(c) \notin published

ReturnInv == \A c \in Commands : ReturnSound(c)

(* Only the sibling of a Restart, which recovery may take up again, is     *)
(* processed without being active.                                         *)
ForkInv == \A a \in Attempts : fiber[a] # "none" => Active(a) \/ origin[a] # Nobody
-----------------------------------------------------------------------------
(* Sequences *)

(* A sequence of distinct commands from which one is taken. *)
LEMMA RemovedAt ==
  ASSUME NEW S, NEW s \in Seq(S), IsInjective(s), NEW n \in 1..Len(s)
  PROVE  /\ RemoveAt(s, n) \in Seq(S) /\ IsInjective(RemoveAt(s, n))
         /\ Range(RemoveAt(s, n)) = Range(s) \ {s[n]}
<1> DEFINE r == RemoveAt(s, n)
<1>1. /\ SubSeq(s, 1, n-1) \in Seq(S) /\ Len(SubSeq(s, 1, n-1)) = n-1
      /\ \A i \in 1..n-1 : SubSeq(s, 1, n-1)[i] = s[i]
  OBVIOUS
<1>2. /\ SubSeq(s, n+1, Len(s)) \in Seq(S) /\ Len(SubSeq(s, n+1, Len(s))) = Len(s) - n
      /\ \A i \in 1..Len(s)-n : SubSeq(s, n+1, Len(s))[i] = s[n+i]
  OBVIOUS
<1>3. /\ r \in Seq(S) /\ Len(r) = Len(s) - 1
      /\ \A i \in 1..Len(s)-1 : r[i] = IF i < n THEN s[i] ELSE s[i+1]
  <2> DEFINE u == SubSeq(s, 1, n-1)
             v == SubSeq(s, n+1, Len(s))
  <2>1. r = u \o v
    BY DEF RemoveAt
  <2>2. /\ u \in Seq(S) /\ Len(u) = n-1 /\ \A i \in 1..n-1 : u[i] = s[i]
        /\ v \in Seq(S) /\ Len(v) = Len(s) - n /\ \A i \in 1..Len(s)-n : v[i] = s[n+i]
    BY <1>1, <1>2
  <2> HIDE DEF r, u, v
  <2>3. /\ r \in Seq(S) /\ Len(r) = Len(u) + Len(v)
        /\ \A i \in 1..Len(u) + Len(v) :
              r[i] = IF i <= Len(u) THEN u[i] ELSE v[i - Len(u)]
    BY <2>1, <2>2, ConcatProperties
  <2>4. Len(r) = Len(s) - 1
    BY <2>2, <2>3
  <2>5. ASSUME NEW i \in 1..Len(s)-1
        PROVE  r[i] = IF i < n THEN s[i] ELSE s[i+1]
    <3>1. CASE i < n
      <4>1. i \in 1..n-1 /\ i \in 1..Len(u) + Len(v) /\ i <= Len(u)
        BY <2>2, <3>1
      <4>2. r[i] = u[i]
        BY <2>3, <4>1
      <4> QED BY <2>2, <3>1, <4>1, <4>2
    <3>2. CASE i >= n
      <4>1. i - (n-1) \in 1..Len(s)-n /\ i \in 1..Len(u) + Len(v) /\ ~(i <= Len(u))
        BY <2>2, <3>2
      <4>2. r[i] = v[i - (n-1)]
        BY <2>2, <2>3, <4>1
      <4>4. n + (i - (n-1)) = i + 1
        OBVIOUS
      <4> QED BY <2>2, <3>2, <4>1, <4>2, <4>4
    <3> QED BY <3>1, <3>2
  <2> QED BY <2>3, <2>4, <2>5
<1> HIDE DEF r
<1>4. IsInjective(r)
  <2> SUFFICES ASSUME NEW i \in DOMAIN r, NEW j \in DOMAIN r, r[i] = r[j]
               PROVE  i = j
    BY DEF IsInjective
  <2> DEFINE Old(k) == IF k < n THEN k ELSE k + 1
  <2>1. /\ i \in 1..Len(s)-1 /\ j \in 1..Len(s)-1
        /\ r[i] = s[Old(i)] /\ r[j] = s[Old(j)]
    BY <1>3
  <2>2. Old(i) \in DOMAIN s /\ Old(j) \in DOMAIN s
    BY <2>1
  <2>3. Old(i) = Old(j)
    BY <2>1, <2>2 DEF IsInjective
  <2> QED BY <2>1, <2>3
<1>5. Range(r) \subseteq Range(s) \ {s[n]}
  BY <1>3 DEF Range, IsInjective
<1>6. ASSUME NEW i \in 1..Len(s), i # n
      PROVE  s[i] \in Range(r)
  <2>1. CASE i < n
    <3>1. i \in 1..Len(s)-1
      BY <2>1
    <3>2. i \in DOMAIN r /\ r[i] = s[i]
      BY <1>3, <2>1, <3>1
    <3> QED BY <3>2 DEF Range
  <2>2. CASE i > n
    <3>1. i-1 \in 1..Len(r) /\ r[i-1] = s[i]
      BY <1>3, <2>2
    <3> QED BY <3>1 DEF Range
  <2> QED BY <1>6, <2>1, <2>2
<1>7. Range(s) \ {s[n]} \subseteq Range(r)
  BY <1>6 DEF Range
<1> QED BY <1>3, <1>4, <1>5, <1>7 DEF r

LEMMA AppendedTo ==
  ASSUME NEW S, NEW s \in Seq(S), IsInjective(s), NEW e \in S, e \notin Range(s)
  PROVE  /\ Append(s, e) \in Seq(S) /\ IsInjective(Append(s, e))
         /\ Range(Append(s, e)) = Range(s) \cup {e}
<1>1. /\ Append(s, e) \in Seq(S) /\ Len(Append(s, e)) = Len(s) + 1
      /\ \A i \in 1..Len(s) : Append(s, e)[i] = s[i]
      /\ Append(s, e)[Len(s) + 1] = e
  OBVIOUS
<1>2. IsInjective(Append(s, e))
  BY <1>1 DEF IsInjective, Range
<1>3. Range(Append(s, e)) \subseteq Range(s) \cup {e}
  BY <1>1 DEF Range
<1>4. Range(s) \cup {e} \subseteq Range(Append(s, e))
  <2>1. Len(s) + 1 \in DOMAIN Append(s, e) /\ \A i \in 1..Len(s) : i \in DOMAIN Append(s, e)
    BY <1>1
  <2> QED BY <1>1, <2>1 DEF Range
<1> QED BY <1>1, <1>2, <1>3, <1>4

LEMMA HeadTaken ==
  ASSUME NEW S, NEW s \in Seq(S), IsInjective(s), s # <<>>
  PROVE  /\ Head(s) \in Range(s) /\ Head(s) \in S
         /\ Tail(s) \in Seq(S) /\ IsInjective(Tail(s))
         /\ Range(Tail(s)) = Range(s) \ {Head(s)}
<1>1. /\ Tail(s) \in Seq(S) /\ Len(Tail(s)) = Len(s) - 1 /\ Len(s) \in Nat \ {0}
      /\ \A i \in 1..Len(s)-1 : Tail(s)[i] = s[i+1]
      /\ Head(s) = s[1] /\ Head(s) \in S
  OBVIOUS
<1>2. IsInjective(Tail(s))
  BY <1>1 DEF IsInjective
<1>3. Range(Tail(s)) \subseteq Range(s) \ {Head(s)}
  BY <1>1 DEF Range, IsInjective
<1>4. ASSUME NEW i \in 1..Len(s), i # 1
      PROVE  s[i] \in Range(Tail(s))
  <2>1. i-1 \in 1..Len(s)-1 /\ (i-1)+1 = i
    BY <1>1, <1>4
  <2>2. i-1 \in DOMAIN Tail(s) /\ Tail(s)[i-1] = s[i]
    BY <1>1, <2>1
  <2> QED BY <2>2 DEF Range
<1>5. Range(s) \ {Head(s)} \subseteq Range(Tail(s))
  BY <1>1, <1>4 DEF Range
<1>6. Head(s) \in Range(s)
  BY <1>1 DEF Range
<1> QED BY <1>1, <1>2, <1>3, <1>5, <1>6

-----------------------------------------------------------------------------
(* Types *)

LEMMA TargetTyped ==
  ASSUME TypeOK, NEW c \in Commands
  PROVE  commands[c] \in Command /\ Target(c) \in Attempts \cup {Nobody}
BY DEF TypeOK, LifecycleTypeOK, Command, Target

LEMMA SiblingTyped ==
  ASSUME TypeOK, NEW c \in Commands
  PROVE  sibling[c] \subseteq Attempts /\ (sibling[c] = {} \/ \E a \in Attempts : sibling[c] = {a})
<1>1. sibling[c] \in {{}} \cup {{a} : a \in Attempts}
  BY DEF TypeOK, LifecycleTypeOK
<1> QED BY <1>1

LEMMA NoPromiseTyped == NoPromise \in Promise
BY DEF NoPromise, Promise

LEMMA IdleRunTyped == IdleRun \in Run
BY DEF IdleRun, Run, Effects, Consequences

LEMMA AbandonTyped ==
  ASSUME TypeOK, NEW c \in Commands, Abandon(c)
  PROVE  /\ fiber' \in [Attempts -> FiberStates]
         /\ provider' \in [Attempts -> Promise]
         /\ run' \in [Commands -> Run]
         /\ service' \in {"down", "recovering", "up"}
         /\ turn' = Nobody
<1> USE DEF TypeOK, AttemptTypeOK, LifecycleTypeOK, Abandon
<1>1. fiber' \in [Attempts -> FiberStates] /\ provider' \in [Attempts -> Promise]
  BY NoPromiseTyped DEF FiberStates
<1>2. run' \in [Commands -> Run]
  BY IdleRunTyped
<1> QED BY <1>1, <1>2 DEF Release

LEMMA FirstRowsTyped == AbsentRow \in Row /\ ReservedRow \in Row
BY DEF AbsentRow, ReservedRow, Row, States, ActiveStates

LEMMA StatePatched ==
  ASSUME NEW row \in Row, NEW s \in States
  PROVE  [row EXCEPT !.state = s] \in Row
BY DEF Row

LEMMA FlagsPatched ==
  ASSUME NEW row \in Row, NEW b \in BOOLEAN, NEW d \in BOOLEAN
  PROVE  /\ [row EXCEPT !.pending = b] \in Row
         /\ [row EXCEPT !.workspace = b, !.pending = d] \in Row
         /\ [row EXCEPT !.process = b, !.pending = d] \in Row
         /\ [row EXCEPT !.state = "completed", !.pullRequest = b] \in Row
BY DEF Row, States

LEMMA LookupPatched ==
  ASSUME NEW row \in Row, NEW l \in {"none", "started", "reconciled"}, NEW b \in BOOLEAN
  PROVE  /\ [row EXCEPT !.lookup = l] \in Row
         /\ [row EXCEPT !.lookup = l, !.pullRequest = b] \in Row
BY DEF Row

LEMMA WriteTyped ==
  ASSUME AttemptTypeOK, NEW a \in Attempts, NEW row \in Row, Write(a, row)
  PROVE  rows' \in [Attempts -> Row]
BY DEF AttemptTypeOK, Write

LEMMA PromisePatched ==
  ASSUME NEW p \in Promise, NEW b \in BOOLEAN,
         NEW pc \in {"none", "preparing", "running", "cleaning", "resolved", "rejected"}
  PROVE  /\ [p EXCEPT !.pc = pc] \in Promise
         /\ [p EXCEPT !.pc = pc, !.ok = b] \in Promise
         /\ [p EXCEPT !.pc = pc, !.timedOut = b] \in Promise
         /\ [p EXCEPT !.aborted = b] \in Promise
BY DEF Promise

LEMMA ConsequentTyped ==
  ASSUME NEW row \in Row, NEW x
  PROVE  Consequent(row, x) \in Row
BY DEF Row, States, Consequent, ActiveStates

LEMMA InterruptedTyped ==
  ASSUME NEW row \in Row, NEW r
  PROVE  Interrupted(row, r) \in Row
BY DEF Row, States, Interrupted, ActiveStates

LEMMA CatchAllTyped ==
  ASSUME AttemptTypeOK, NEW a \in Attempts, NEW code, CatchAll(a, code)
  PROVE  rows' \in [Attempts -> Row] /\ fiber' \in [Attempts -> FiberStates]
<1>1. FailedRow(a, code) \in Row
  <2>1. rows[a] \in Row
    BY DEF AttemptTypeOK
  <2>2. [rows[a] EXCEPT !.state = "failed", !.pending = FALSE] \in Row
    BY <2>1 DEF Row, States
  <2>3. [rows[a] EXCEPT !.state = "ownership_uncertain"] \in Row
    BY <2>1, StatePatched DEF States, ActiveStates
  <2> QED BY <2>2, <2>3 DEF FailedRow
<1> QED BY <1>1 DEF CatchAll, Write, AttemptTypeOK, FiberStates

LEMMA FiberStepTyped ==
  ASSUME AttemptTypeOK, NEW a \in Attempts, FiberStep(a) \/ RevalidationFails(a)
  PROVE  AttemptTypeOK'
<1> USE DEF AttemptTypeOK
<1>1. CASE Revalidated(a)
  BY <1>1, CatchAllTyped DEF Revalidated, FiberStates
<1>2. CASE ClaimRecognised(a)
  BY <1>2 DEF ClaimRecognised, FiberStates
<1>3. CASE ClaimConfirmed(a)
  <2>1. [rows[a] EXCEPT !.state = "starting"] \in Row
    BY StatePatched DEF States, ActiveStates
  <2>2. rows' \in [Attempts -> Row] /\ fiber' \in [Attempts -> FiberStates]
    BY <1>3, <2>1, CatchAllTyped, WriteTyped DEF ClaimConfirmed, FiberStates
  <2> QED BY <1>3, <2>2 DEF ClaimConfirmed
<1>4. CASE ClaimNotConfirmed(a)
  BY <1>4, StatePatched DEF ClaimNotConfirmed, FiberStates, Write, States
<1>5. CASE WorkspaceCreated(a)
  <2>1. [NoPromise EXCEPT !.pc = "preparing"] \in Promise
    BY NoPromiseTyped, PromisePatched
  <2>2. rows' \in [Attempts -> Row]
    BY <1>5, FlagsPatched, WriteTyped DEF WorkspaceCreated
  <2> QED BY <1>5, <2>1, <2>2 DEF WorkspaceCreated, FiberStates
<1>6. CASE WorkspaceFails(a)
  BY <1>6, CatchAllTyped DEF WorkspaceFails
<1>7. CASE ProviderAnswers(a)
  <2>1. provider' \in [Attempts -> Promise]
    BY <1>7 DEF ProviderAnswers, NoPromise, Promise
  <2>2. rows' \in [Attempts -> Row] /\ fiber' \in [Attempts -> FiberStates]
    <3>1. CASE provider[a].pc = "resolved" /\ Write(a, [rows[a] EXCEPT !.pending = FALSE])
               /\ fiber' = [fiber EXCEPT ![a] = "verify"]
      BY <3>1, FlagsPatched, WriteTyped DEF FiberStates
    <3>2. CASE CatchAll(a, IF provider[a].timedOut THEN "cleanup_timeout"
                                                   ELSE "provider_failed")
      BY <3>2, CatchAllTyped
    <3> QED BY <1>7, <3>1, <3>2 DEF ProviderAnswers
  <2> QED BY <1>7, <2>1, <2>2 DEF ProviderAnswers
<1>8. CASE Completed(a)
  BY <1>8 DEF Completed, Write, Row, FiberStates, States
<1>9. CASE VerificationFails(a)
  BY <1>9, CatchAllTyped DEF VerificationFails
<1>10. CASE RevalidationFails(a)
  BY <1>10, CatchAllTyped DEF RevalidationFails
<1> QED BY <1>1, <1>2, <1>3, <1>4, <1>5, <1>6, <1>7, <1>8, <1>9, <1>10 DEF FiberStep

LEMMA TerminatedTyped ==
  ASSUME AttemptTypeOK, NEW a \in Attempts
  PROVE  /\ Terminated(a) \subseteq Groups
         /\ \A r \in Reconciled(a) : r.result \in Results /\ r.left \in Groups
BY DEF AttemptTypeOK, Terminated, Groups, Reconciled, Signalled, Results

LEMMA AnswerTyped ==
  ASSUME AttemptTypeOK, NEW a \in Attempts, NEW pc \in {"resolved", "rejected"},
         NEW timedOut \in BOOLEAN, Answer(a, pc, timedOut)
  PROVE  provider' \in [Attempts -> Promise]
BY DEF AttemptTypeOK, Answer, Promise, NoPromise

LEMMA ProviderStepTyped ==
  ASSUME AttemptTypeOK, NEW a \in Attempts, ProviderStep(a)
  PROVE  AttemptTypeOK'
<1> USE DEF AttemptTypeOK
<1>1. CASE ProcessStarts(a)
  <2>1. rows' \in [Attempts -> Row]
    BY <1>1, FlagsPatched, WriteTyped DEF ProcessStarts
  <2>2. provider' \in [Attempts -> Promise]
    <3>1. CASE provider' = [provider EXCEPT ![a] = NoPromise]
      BY <3>1, NoPromiseTyped
    <3>2. CASE provider' = [provider EXCEPT ![a].pc = "running"]
      BY <3>2 DEF Promise
    <3> QED BY <1>1, <3>1, <3>2 DEF ProcessStarts
  <2> QED BY <1>1, <2>1, <2>2 DEF ProcessStarts, Groups
<1>2. CASE PreparationFails(a)
  <2>1. PICK t \in BOOLEAN :
          provider' = [provider EXCEPT ![a] =
             IF @.aborted THEN NoPromise
                          ELSE [@ EXCEPT !.pc = "rejected", !.timedOut = t]]
    BY <1>2 DEF PreparationFails
  <2>2. [provider[a] EXCEPT !.pc = "rejected", !.timedOut = t] \in Promise
    BY PromisePatched
  <2>3. provider' \in [Attempts -> Promise]
    BY <2>1, <2>2, NoPromiseTyped
  <2> QED BY <1>2, <2>3 DEF PreparationFails
<1>3. CASE IdentityUnreadable(a)
  BY <1>3, CatchAllTyped DEF IdentityUnreadable, Promise, NoPromise, Groups
<1>4. CASE ThreadStarts(a)
  BY <1>4, StatePatched DEF ThreadStarts, Write, States, ActiveStates
<1>5. CASE TurnEnds(a)
  <2>1. PICK ok \in BOOLEAN :
          provider' = [provider EXCEPT ![a].pc = "cleaning", ![a].ok = ok]
    BY <1>5 DEF TurnEnds
  <2>2. provider' \in [Attempts -> Promise]
    BY <2>1 DEF Promise
  <2> QED BY <1>5, <2>2 DEF TurnEnds
<1>6. CASE CleanedUp(a)
  BY <1>6, AnswerTyped, TerminatedTyped DEF CleanedUp
<1>7. CASE CleanupTimesOut(a)
  <2>1. [rows[a] EXCEPT !.state = "ownership_uncertain"] \in Row
    BY StatePatched DEF States, ActiveStates
  <2>2. rows' \in [Attempts -> Row]
    BY <1>7, <2>1, WriteTyped DEF CleanupTimesOut
  <2> QED BY <1>7, <2>2, AnswerTyped DEF CleanupTimesOut
<1> QED BY <1>1, <1>2, <1>3, <1>4, <1>5, <1>6, <1>7 DEF ProviderStep

LEMMA WorldStepTyped ==
  ASSUME AttemptTypeOK, NEW a \in Attempts, WorldStep(a)
  PROVE  AttemptTypeOK'
<1> USE DEF AttemptTypeOK
<1>1. CASE ClaimLands(a)
  BY <1>1 DEF ClaimLands, FiberStates
<1>2. CASE LeaderExits(a)
  BY <1>2, TerminatedTyped DEF LeaderExits
<1>3. CASE MembersExit(a)
  BY <1>3 DEF MembersExit, Groups
<1>4. CASE Publish(a)
  BY <1>4 DEF Publish
<1> QED BY <1>1, <1>2, <1>3, <1>4 DEF WorldStep

LEMMA MarkTyped ==
  ASSUME TypeOK, NEW c \in Commands, NEW effect \in Effects,
         NEW pc \in SyncStates \cup AwaitStates, Mark(c, effect, pc)
  PROVE  /\ commands' \in [Commands -> Command] /\ run' \in [Commands -> Run]
         /\ run'[c].pc # "idle"
<1> USE DEF TypeOK, LifecycleTypeOK, Mark
<1>1. commands' \in [Commands -> Command]
  <2>1. [commands[c] EXCEPT !.phase = "executing", !.effect = effect] \in Command
    BY DEF Command
  <2> QED BY <2>1
<1>2. run' \in [Commands -> Run] /\ run'[c].pc # "idle"
  BY DEF Run, SyncStates, AwaitStates
<1> QED BY <1>1, <1>2

LEMMA RunMoved ==
  ASSUME TypeOK, NEW c \in Commands, NEW pc \in SyncStates \cup AwaitStates,
         run' = [run EXCEPT ![c].pc = pc]
  PROVE  run' \in [Commands -> Run] /\ run'[c].pc # "idle"
BY DEF TypeOK, LifecycleTypeOK, Run, SyncStates, AwaitStates

LEMMA ConcludingTyped ==
  ASSUME TypeOK, NEW c \in Commands, NEW x \in Consequences, Concluding(c, x)
  PROVE  run' \in [Commands -> Run] /\ run'[c].pc # "idle"
BY DEF TypeOK, LifecycleTypeOK, Concluding, Run, SyncStates, AwaitStates

LEMMA EffectTyped ==
  ASSUME TypeOK, NEW c \in Commands, NEW effect \in Effects, NEW r \in Results
  PROVE  /\ [commands EXCEPT ![c].effect = effect] \in [Commands -> Command]
         /\ [commands EXCEPT ![c].effect = effect, ![c].result = r]
               \in [Commands -> Command]
<1>1. commands \in [Commands -> Command]
  BY DEF TypeOK, LifecycleTypeOK
<1>2. [commands[c] EXCEPT !.effect = effect] \in Command
  BY <1>1 DEF Command
<1>3. [commands[c] EXCEPT !.effect = effect, !.result = r] \in Command
  BY <1>1 DEF Command
<1>4. [commands EXCEPT ![c] = [commands[c] EXCEPT !.effect = effect]]
        \in [Commands -> Command]
  BY <1>1, <1>2
<1>5. [commands EXCEPT ![c] = [commands[c] EXCEPT !.effect = effect, !.result = r]]
        \in [Commands -> Command]
  BY <1>1, <1>3
<1> QED BY <1>1, <1>4, <1>5

LEMMA BeginningTyped ==
  ASSUME NEW effect \in Effects
  PROVE  [IdleRun EXCEPT !.pc = "begin", !.from = effect] \in Run
BY DEF IdleRun, Run, SyncStates, Consequences

LEMMA StopResultTyped ==
  ASSUME NEW r
  PROVE  StopResult(r) \in Consequences
BY DEF StopResult, Consequences

(* A step of a command's fiber keeps the types. *)

LEMMA StopTyped ==
  ASSUME TypeOK, NEW c \in Commands,
         StopBegins(c) \/ StopInterrupts(c) \/ StopReconciles(c)
  PROVE  TypeOK'
<1> USE DEF TypeOK, LifecycleTypeOK
<1>1. CASE StopBegins(c)
  <2>1. CASE Concluding(c, StopResult(commands[c].result)) /\ UNCHANGED commands
    BY <1>1, <2>1, ConcludingTyped, StopResultTyped
       DEF StopBegins, serviceVars, attemptVars, AttemptTypeOK, Keep
  <2>2. CASE Mark(c, "process_interrupting", "interrupt")
    BY <1>1, <2>2, MarkTyped
       DEF StopBegins, serviceVars, attemptVars, AttemptTypeOK, Keep, Effects, SyncStates
  <2> QED BY <1>1, <2>1, <2>2 DEF StopBegins
<1>2. CASE StopInterrupts(c)
  <2>1. fiber' \in [Attempts -> FiberStates] /\ provider' \in [Attempts -> Promise]
    <3>1. CASE fiber[Target(c)] # "none" /\ Interrupt(Target(c))
      <4>1. \A p \in Promise : [p EXCEPT !.aborted = TRUE] \in Promise
        BY PromisePatched
      <4> QED BY <3>1, <4>1, NoPromiseTyped DEF Interrupt, FiberStates, AttemptTypeOK
    <3> QED BY <1>2, <3>1 DEF StopInterrupts, AttemptTypeOK
  <2>2. run' \in [Commands -> Run] /\ run'[c].pc # "idle"
    BY <1>2, RunMoved DEF StopInterrupts, AwaitStates
  <2>3. turn' \in {c, Nobody}
    BY <1>2 DEF StopInterrupts, Keep, Release
  <2> QED BY <1>2, <2>1, <2>2, <2>3
          DEF StopInterrupts, commandVars, serviceVars, AttemptTypeOK
<1>3. CASE StopReconciles(c)
  <2>1. PICK r \in Reconciled(Target(c)) :
          /\ group' = [group EXCEPT ![Target(c)] = r.left]
          /\ commands' = [commands EXCEPT ![c].effect = "resolved", ![c].result = r.result]
          /\ Concluding(c, StopResult(r.result))
    BY <1>3 DEF StopReconciles
  <2>2. r.result \in Results
    BY DEF Reconciled, Signalled, Results
  <2>3. group' \in [Attempts -> Groups]
    BY <2>1, TerminatedTyped DEF AttemptTypeOK
  <2>4. commands' \in [Commands -> Command]
    BY <2>1, <2>2, EffectTyped DEF Effects
  <2> QED BY <1>3, <2>1, <2>3, <2>4, ConcludingTyped, StopResultTyped
          DEF StopReconciles, serviceVars, AttemptTypeOK, Keep
<1> QED BY <1>1, <1>2, <1>3

LEMMA ReturnTyped ==
  ASSUME TypeOK, NEW c \in Commands,
         \/ ReturnBegins(c) \/ InspectionAnswers(c) \/ ReturnUnlabels(c)
         \/ ClaimRead(c) \/ RemovalAnswers(c) \/ RemovalLands(c)
  PROVE  TypeOK'
<1> USE DEF TypeOK, LifecycleTypeOK, AttemptTypeOK, attemptVars, serviceVars, commandVars
<1>1. CASE ReturnBegins(c)
  <2>1. turn' \in {c, Nobody}
    BY <1>1 DEF ReturnBegins, Keep, Release
  <2>2. /\ commands' \in [Commands -> Command] /\ run' \in [Commands -> Run]
        /\ run'[c].pc # "idle"
    <3>1. CASE Concluding(c, "returned") /\ UNCHANGED commands
      BY <3>1, ConcludingTyped DEF Consequences
    <3>2. CASE Mark(c, "label_removing", "claim_read")
      BY <3>2, MarkTyped DEF Effects, AwaitStates
    <3>3. CASE Mark(c, "pull_request_inspecting", "inspecting")
      BY <3>3, MarkTyped DEF Effects, AwaitStates
    <3> QED BY <1>1, <3>1, <3>2, <3>3 DEF ReturnBegins
  <2> QED BY <1>1, <2>1, <2>2 DEF ReturnBegins
<1>2. CASE InspectionAnswers(c)
  <2>1. disturbances' \in 0..MaxDisturbances
    BY <1>2, LifecycleAssumption DEF InspectionAnswers, Disturb
  <2>2. /\ commands' \in [Commands -> Command] /\ run' \in [Commands -> Run]
        /\ run'[c].pc # "idle"
    <3>1. CASE Mark(c, "pull_request_absent", "unlabel")
      BY <3>1, MarkTyped DEF Effects, SyncStates
    <3>2. CASE Concluding(c, "rejected") /\ UNCHANGED commands
      BY <3>2, ConcludingTyped DEF Consequences
    <3> QED BY <1>2, <3>1, <3>2 DEF InspectionAnswers
  <2> QED BY <1>2, <2>1, <2>2 DEF InspectionAnswers, Keep
<1>3. CASE ReturnUnlabels(c)
  <2>1. Mark(c, "label_removing", "claim_read")
    BY <1>3 DEF ReturnUnlabels
  <2> QED BY <1>3, <2>1, MarkTyped DEF ReturnUnlabels, Release, Effects, AwaitStates
<1>4. CASE ClaimRead(c)
  <2>1. disturbances' \in 0..MaxDisturbances
    BY <1>4, LifecycleAssumption DEF ClaimRead, Disturb
  <2>2. CASE Unclaimed(c)
    <3>1. commands' \in [Commands -> Command]
      BY <2>2, EffectTyped DEF Unclaimed, Effects, Results
    <3>2. run' \in [Commands -> Run] /\ run'[c].pc # "idle"
      BY <2>2, ConcludingTyped DEF Unclaimed, Consequences
    <3> QED BY <1>4, <2>1, <2>2, <3>1, <3>2 DEF ClaimRead, Unclaimed, Keep
  <2>3. CASE run' = [run EXCEPT ![c].pc = "removing"] /\ UNCHANGED <<commands, turn>>
    <3>1. run' \in [Commands -> Run] /\ run'[c].pc # "idle"
      BY <2>3, RunMoved DEF AwaitStates
    <3> QED BY <1>4, <2>1, <2>3, <3>1 DEF ClaimRead, Free
  <2> QED BY <1>4, <2>2, <2>3 DEF ClaimRead
<1>5. CASE RemovalAnswers(c)
  <2>1. disturbances' \in 0..MaxDisturbances
    BY <1>5, LifecycleAssumption DEF RemovalAnswers, Disturb
  <2>2. /\ commands' \in [Commands -> Command] /\ run' \in [Commands -> Run]
        /\ run'[c].pc # "idle" /\ turn' = c
    <3>1. CASE Unclaimed(c)
      <4>1. commands' \in [Commands -> Command]
        BY <3>1, EffectTyped DEF Unclaimed, Effects, Results
      <4>2. run' \in [Commands -> Run] /\ run'[c].pc # "idle"
        BY <3>1, ConcludingTyped DEF Unclaimed, Consequences
      <4> QED BY <3>1, <4>1, <4>2 DEF Unclaimed, Keep
    <3>2. CASE Concluding(c, "rejected") /\ Keep(c) /\ UNCHANGED commands
      BY <3>2, ConcludingTyped DEF Consequences, Keep
    <3> QED BY <1>5, <3>1, <3>2 DEF RemovalAnswers
  <2> QED BY <1>5, <2>1, <2>2 DEF RemovalAnswers
<1>6. CASE RemovalLands(c)
  BY <1>6 DEF RemovalLands
<1> QED BY <1>1, <1>2, <1>3, <1>4, <1>5, <1>6

LEMMA RestartTyped ==
  ASSUME TypeOK, NEW c \in Commands,
         \/ RestartBegins(c) \/ ClaimedRevalidated(c) \/ RestartAdmits(c)
         \/ RestartForks(c) \/ VisibilityBegins(c)
  PROVE  TypeOK'
<1> USE DEF TypeOK, LifecycleTypeOK, AttemptTypeOK, attemptVars, serviceVars, commandVars
<1>1. CASE RestartBegins(c)
  <2>1. turn' \in {c, Nobody}
    BY <1>1 DEF RestartBegins, Keep, Release
  <2>2. /\ commands' \in [Commands -> Command] /\ run' \in [Commands -> Run]
        /\ run'[c].pc # "idle"
    <3>1. CASE Concluding(c, "rejected") /\ UNCHANGED commands
      BY <3>1, ConcludingTyped DEF Consequences
    <3>2. CASE Mark(c, "sibling_reserved", "reserved")
      BY <3>2, MarkTyped DEF Effects, SyncStates
    <3>3. CASE Mark(c, "issue_revalidating", "revalidating")
      BY <3>3, MarkTyped DEF Effects, AwaitStates
    <3> QED BY <1>1, <3>1, <3>2, <3>3 DEF RestartBegins
  <2> QED BY <1>1, <2>1, <2>2 DEF RestartBegins
<1>2. CASE ClaimedRevalidated(c)
  <2>1. disturbances' \in 0..MaxDisturbances
    BY <1>2, LifecycleAssumption DEF ClaimedRevalidated, Disturb
  <2>2. /\ commands' \in [Commands -> Command] /\ run' \in [Commands -> Run]
        /\ run'[c].pc # "idle"
    <3>1. CASE Mark(c, "issue_validated", "admit")
      BY <3>1, MarkTyped DEF Effects, SyncStates
    <3>2. CASE Concluding(c, "rejected") /\ UNCHANGED commands
      BY <3>2, ConcludingTyped DEF Consequences
    <3> QED BY <1>2, <3>1, <3>2 DEF ClaimedRevalidated
  <2> QED BY <1>2, <2>1, <2>2 DEF ClaimedRevalidated, Keep
<1>3. CASE RestartAdmits(c)
  <2>1. CASE Abandon(c) /\ UNCHANGED <<rows, sibling, refused, origin>>
    BY <1>3, <2>1, AbandonTyped DEF RestartAdmits
  <2>2. CASE /\ refused' = refused \cup {c} /\ Concluding(c, "rejected") /\ Keep(c)
             /\ UNCHANGED <<rows, fiber, provider, sibling, origin, service>>
    <3>1. run' \in [Commands -> Run] /\ run'[c].pc # "idle"
      BY <2>2, ConcludingTyped DEF Consequences
    <3> QED BY <1>3, <2>2, <3>1 DEF RestartAdmits, Keep
  <2>3. CASE \E a \in Absent :
               /\ Write(a, ReservedRow)
               /\ sibling' = [sibling EXCEPT ![c] = {a}]
               /\ origin' = [origin EXCEPT ![a] = c]
               /\ run' = [run EXCEPT ![c].pc = "reserved"]
               /\ Keep(c)
               /\ UNCHANGED <<fiber, provider, refused, service>>
    <3>1. PICK a \in Attempts :
               /\ Write(a, ReservedRow)
               /\ sibling' = [sibling EXCEPT ![c] = {a}]
               /\ origin' = [origin EXCEPT ![a] = c]
      BY <2>3 DEF Absent
    <3>2. rows' \in [Attempts -> Row]
      BY <3>1, FirstRowsTyped, WriteTyped
    <3>3. run' \in [Commands -> Run] /\ run'[c].pc # "idle"
      BY <2>3, RunMoved DEF SyncStates
    <3>4. sibling' \in [Commands -> {{}} \cup {{x} : x \in Attempts}]
      BY <3>1
    <3>5. origin' \in [Attempts -> Commands \cup {Nobody}]
      BY <3>1
    <3> QED BY <1>3, <2>3, <3>2, <3>3, <3>4, <3>5 DEF RestartAdmits, Keep
  <2> QED BY <1>3, <2>1, <2>2, <2>3 DEF RestartAdmits
<1>4. CASE RestartForks(c)
  <2>1. fiber' \in [Attempts -> FiberStates]
    BY <1>4 DEF RestartForks, Fork, FiberStates
  <2>2. commands' \in [Commands -> Command]
    BY <1>4, EffectTyped DEF RestartForks, Effects, Results
  <2>3. run' \in [Commands -> Run] /\ run'[c].pc # "idle"
    BY <1>4, ConcludingTyped DEF RestartForks, Consequences
  <2> QED BY <1>4, <2>1, <2>2, <2>3 DEF RestartForks, Keep
<1>5. CASE VisibilityBegins(c)
  <2>1. commands' \in [Commands -> Command]
    <3>1. [commands[c] EXCEPT !.phase = "executing", !.effect = "visibility_updating"]
            \in Command
      BY DEF Command, Effects
    <3> QED BY <1>5, <3>1 DEF VisibilityBegins
  <2>2. run' \in [Commands -> Run] /\ run'[c].pc # "idle"
    BY <1>5, ConcludingTyped DEF VisibilityBegins, Consequences
  <2> QED BY <1>5, <2>1, <2>2 DEF VisibilityBegins, Keep
<1> QED BY <1>1, <1>2, <1>3, <1>4, <1>5

LEMMA ConcludeTyped ==
  ASSUME TypeOK, NEW c \in Commands, Conclude(c), Target(c) \in Attempts
  PROVE  TypeOK'
<1> USE DEF TypeOK, LifecycleTypeOK, AttemptTypeOK
<1> DEFINE row == Consequent(rows[Target(c)], run[c].consequence)
<1>1. row \in Row
  BY ConsequentTyped
<1>2. ASSUME run' = [run EXCEPT ![c].pc = "finish"]
      PROVE  run' \in [Commands -> Run] /\ run'[c].pc # "idle"
  BY <1>2, RunMoved DEF SyncStates
<1> HIDE DEF row
<1>3. CASE /\ Write(Target(c), row) /\ noted' = [noted EXCEPT ![c] = @ + 1]
           /\ run' = [run EXCEPT ![c].pc = "finish"] /\ Keep(c)
           /\ UNCHANGED <<fiber, provider, service>>
  <2>1. rows' \in [Attempts -> Row]
    BY <1>1, <1>3, WriteTyped
  <2>2. noted' \in [Commands -> Nat]
    BY <1>3
  <2> QED BY <1>2, <1>3, <2>1, <2>2 DEF Conclude, Keep
<1>4. CASE Abandon(c) /\ UNCHANGED <<rows, noted>>
  BY <1>4, AbandonTyped DEF Conclude
<1>5. CASE /\ run' = [run EXCEPT ![c].pc = "finish"] /\ Keep(c)
           /\ UNCHANGED <<rows, fiber, provider, noted, service>>
  BY <1>2, <1>5 DEF Conclude, Keep
<1> QED BY <1>3, <1>4, <1>5 DEF Conclude, row

LEMMA FinishTyped ==
  ASSUME TypeOK, NEW c \in Commands, Finish(c), IsInjective(order), c \in Range(order)
  PROVE  /\ TypeOK' /\ IsInjective(order')
         /\ Range(order') = Range(order) \ {c}
<1> USE DEF TypeOK, LifecycleTypeOK, AttemptTypeOK
<1>1. Position(c) \in 1..Len(order) /\ order[Position(c)] = c
  BY DEF Position, Range
<1>2. /\ order' \in Seq(Commands) /\ IsInjective(order')
      /\ Range(order') = Range(order) \ {c}
  BY <1>1, RemovedAt DEF Finish
<1>3. run' \in [Commands -> Run]
  BY IdleRunTyped DEF Finish
<1>4. commands' \in [Commands -> Command]
  <2>1. run[c].consequence \in Consequences
    BY DEF Run
  <2>2. ASSUME NEW x \in Consequences
        PROVE  [commands[c] EXCEPT !.phase = "final", !.effect = "complete",
                                   !.consequence = x] \in Command
    BY DEF Command, Effects
  <2> QED BY <2>1, <2>2 DEF Finish
<1> QED BY <1>2, <1>3, <1>4 DEF Finish, Release, attemptVars, serviceVars

LEMMA AcceptedTyped ==
  ASSUME NEW d \in Command, NEW a \in Attempts
  PROVE  [d EXCEPT !.phase = "accepted", !.target = a, !.effect = "admitted"] \in Command
BY DEF Command, Effects

LEMMA RequestTyped ==
  ASSUME TypeOK, NEW c \in Commands, NEW a \in Attempts, Begin(c, a) \/ Resend(c)
  PROVE  TypeOK'
<1> USE DEF TypeOK, LifecycleTypeOK, AttemptTypeOK, attemptVars, serviceVars, commandVars
<1>1. CASE Begin(c, a)
  <2>1. CASE /\ commands' = [commands EXCEPT ![c] =
                               [@ EXCEPT !.phase = "accepted", !.target = a,
                                         !.effect = "admitted"]]
             /\ order' = Append(order, c)
             /\ run' = [run EXCEPT ![c] = [IdleRun EXCEPT !.pc = "begin",
                                                          !.from = "admitted"]]
             /\ Keep(c)
    <3>1. [commands[c] EXCEPT !.phase = "accepted", !.target = a, !.effect = "admitted"]
            \in Command
      BY AcceptedTyped
    <3>2. [IdleRun EXCEPT !.pc = "begin", !.from = "admitted"] \in Run
      BY BeginningTyped DEF Effects
    <3>3. run' \in [Commands -> Run] /\ run'[c].pc # "idle"
      BY <2>1, <3>2 DEF IdleRun
    <3>4. order' \in Seq(Commands)
      BY <2>1
    <3>5. commands' \in [Commands -> Command]
      BY <2>1, <3>1
    <3> QED BY <1>1, <2>1, <3>3, <3>4, <3>5 DEF Begin, Keep
  <2>2. CASE /\ commands' = [commands EXCEPT ![c] =
                               [@ EXCEPT !.phase = "final", !.consequence = "rejected"]]
             /\ UNCHANGED <<order, run, turn>>
    <3>1. [commands[c] EXCEPT !.phase = "final", !.consequence = "rejected"] \in Command
      BY DEF Command, Consequences
    <3>2. commands' \in [Commands -> Command]
      BY <2>2, <3>1
    <3> QED BY <1>1, <2>2, <3>2 DEF Begin
  <2> QED BY <1>1, <2>1, <2>2 DEF Begin
<1>2. CASE Resend(c)
  <2>1. [IdleRun EXCEPT !.pc = "begin", !.from = commands[c].effect] \in Run
    BY BeginningTyped DEF Command
  <2>2. run' \in [Commands -> Run] /\ run'[c].pc # "idle"
    BY <1>2, <2>1 DEF IdleRun, Resend
  <2> QED BY <1>2, <2>2 DEF Resend, Keep
<1> QED BY <1>1, <1>2

LEMMA CrashTyped ==
  ASSUME TypeOK, NEW spawned, Crash(spawned)
  PROVE  TypeOK'
<1> USE DEF TypeOK, LifecycleTypeOK, AttemptTypeOK
<1>1. disturbances' \in 0..MaxDisturbances
  BY LifecycleAssumption DEF Crash, Disturb
<1>2. fiber' \in [Attempts -> FiberStates] /\ provider' \in [Attempts -> Promise]
  BY NoPromiseTyped DEF Crash, FiberStates
<1>3. group' \in [Attempts -> Groups] /\ run' \in [Commands -> Run]
  BY IdleRunTyped DEF Crash, Groups
<1>4. todo' \in Seq(Commands) /\ looking' \in SUBSET Attempts /\ turn' = Nobody
  BY DEF Crash, Release
<1> QED BY <1>1, <1>2, <1>3, <1>4 DEF Crash, commandVars

LEMMA RecoveryTyped ==
  ASSUME TypeOK, RecoveryStep
  PROVE  TypeOK'
<1> USE DEF TypeOK, LifecycleTypeOK, AttemptTypeOK, attemptVars, commandVars, serviceVars
<1>1. CASE Open
  <2>1. rows' \in [Attempts -> Row] /\ group' \in [Attempts -> Groups]
    <3>1. CASE UNCHANGED <<rows, group>>
      BY <3>1
    <3>2. ASSUME NEW a \in Attempts, NEW r \in Reconciled(a),
                 Write(a, Interrupted(rows[a], r.result)),
                 group' = [group EXCEPT ![a] = r.left]
          PROVE  rows' \in [Attempts -> Row] /\ group' \in [Attempts -> Groups]
      <4>1. Interrupted(rows[a], r.result) \in Row
        BY InterruptedTyped
      <4>2. rows' \in [Attempts -> Row]
        BY <3>2, <4>1, WriteTyped
      <4>3. group' \in [Attempts -> Groups]
        BY <3>2, TerminatedTyped
      <4> QED BY <4>2, <4>3
    <3> QED BY <1>1, <3>1, <3>2 DEF Open
  <2> QED BY <1>1, <2>1 DEF Open, Unfinished
<1>2. CASE RecoverNext
  <2>1. Head(todo) \in Commands /\ Tail(todo) \in Seq(Commands)
    BY <1>2 DEF RecoverNext
  <2>2. [IdleRun EXCEPT !.pc = "begin", !.from = commands[Head(todo)].effect] \in Run
    BY <2>1, BeginningTyped DEF Command
  <2>3. run' \in [Commands -> Run] /\ run'[Head(todo)].pc # "idle"
    BY <1>2, <2>1, <2>2 DEF RecoverNext, IdleRun
  <2> QED BY <1>2, <2>1, <2>3 DEF RecoverNext, Keep
<1>3. CASE Serve
  BY <1>3 DEF Serve
<1>4. ASSUME NEW a \in Attempts, LookupForgotten(a) \/ LookupStarts(a) \/ LookupAnswers(a)
      PROVE  TypeOK'
  <2>1. \A l \in {"none", "started", "reconciled"} : \A b \in BOOLEAN :
          /\ [rows[a] EXCEPT !.lookup = l] \in Row
          /\ [rows[a] EXCEPT !.lookup = l, !.pullRequest = b] \in Row
    BY LookupPatched
  <2>2. CASE LookupForgotten(a)
    <3>1. rows' \in [Attempts -> Row]
      BY <2>1, <2>2, WriteTyped DEF LookupForgotten
    <3> QED BY <2>2, <3>1 DEF LookupForgotten
  <2>3. CASE LookupStarts(a)
    <3>1. rows' \in [Attempts -> Row]
      BY <2>1, <2>3, WriteTyped DEF LookupStarts
    <3> QED BY <2>3, <3>1 DEF LookupStarts
  <2>4. CASE LookupAnswers(a)
    <3>1. PICK found \in BOOLEAN :
            Write(a, [rows[a] EXCEPT !.lookup = "reconciled", !.pullRequest = @ \/ found])
      BY <2>4 DEF LookupAnswers
    <3>2. (rows[a].pullRequest \/ found) \in BOOLEAN
      OBVIOUS
    <3>3. [rows[a] EXCEPT !.lookup = "reconciled", !.pullRequest = @ \/ found] \in Row
      BY <2>1, <3>2
    <3>4. rows' \in [Attempts -> Row]
      BY <3>1, <3>3, WriteTyped
    <3> QED BY <2>4, <3>4 DEF LookupAnswers
  <2> QED BY <1>4, <2>2, <2>3, <2>4
<1> QED BY <1>1, <1>2, <1>3, <1>4 DEF RecoveryStep

LEMMA OtherTyped ==
  ASSUME TypeOK,
         \/ SetControls \/ EditLabel
         \/ \E a \in Attempts : \/ AttemptStep(a) \/ OutsideStep(a) \/ Admit(a)
                              \/ RevalidationDisturbed(a)
  PROVE  TypeOK'
<1> USE DEF TypeOK, LifecycleTypeOK, commandVars, serviceVars
<1>1. CASE SetControls
  BY <1>1 DEF SetControls, attemptVars, AttemptTypeOK
<1>2. CASE EditLabel
  BY <1>2, LifecycleAssumption DEF EditLabel, AttemptTypeOK, Disturb
<1>3. ASSUME NEW a \in Attempts, AttemptStep(a)
      PROVE  TypeOK'
  BY <1>3, FiberStepTyped, ProviderStepTyped DEF AttemptStep
<1>4. ASSUME NEW a \in Attempts, OutsideStep(a)
      PROVE  TypeOK'
  BY <1>4, WorldStepTyped DEF OutsideStep
<1>5. ASSUME NEW a \in Attempts, Admit(a)
      PROVE  TypeOK'
  <2>1. rows' \in [Attempts -> Row]
    BY <1>5, FirstRowsTyped, WriteTyped DEF Admit
  <2> QED BY <1>5, <2>1 DEF Admit, Fork, AttemptTypeOK, FiberStates
<1>6. ASSUME NEW a \in Attempts, RevalidationDisturbed(a)
      PROVE  TypeOK'
  <2>1. AttemptTypeOK'
    BY <1>6, FiberStepTyped DEF RevalidationDisturbed
  <2>2. disturbances' \in 0..MaxDisturbances
    BY <1>6, LifecycleAssumption DEF RevalidationDisturbed, Disturb
  <2> QED BY <1>6, <2>1, <2>2 DEF RevalidationDisturbed
<1> QED BY <1>1, <1>2, <1>3, <1>4, <1>5, <1>6

-----------------------------------------------------------------------------
(* What a step of an attempt does *)

Elsewhere(a) ==
  /\ \A b \in Attempts \ {a} :
       /\ rows'[b] = rows[b] /\ fiber'[b] = fiber[b]
       /\ provider'[b] = provider[b] /\ group'[b] = group[b]
       /\ b \in published' <=> b \in published
       /\ b \in posts' => b \in posts
  /\ UNCHANGED origin

(* A step that only "a" takes part in.  It makes the attempt active only   *)
(* when no other one is, and once its fiber has ended nothing begins.      *)
Moves(a) ==
  /\ Elsewhere(a) /\ AttemptSound(a)'
  /\ Active(a)' => Active(a) \/ \A b \in Attempts \ {a} : ~Active(b)
  /\ rows[a].state # "absent" /\ rows'[a].state # "absent"
  /\ rows[a].state = "failed" => rows'[a].state = "failed"
  /\ fiber'[a] # "none" => Active(a)' \/ (fiber[a] # "none" /\ ~Active(a))
  /\ fiber[a] = "none" =>
       /\ fiber'[a] = "none"
       /\ provider[a].pc = "none" => provider'[a].pc = "none"
       /\ group[a] = "none" =>
            group'[a] = "none" /\ (a \in published' => a \in published)
       /\ rows'[a].state \in {"failed", "completed"} => rows[a].state = rows'[a].state

(* How catchAll leaves the row. *)
LEMMA Caught ==
  ASSUME TypeOK, NEW a \in Attempts, NEW code, CatchAll(a, code)
  PROVE  /\ fiber' = [fiber EXCEPT ![a] = "none"]
         /\ \A b \in Attempts \ {a} : rows'[b] = rows[b]
         /\ rows'[a].process = rows[a].process /\ rows'[a].workspace = rows[a].workspace
         /\ \/ /\ ~OwnershipUncertain(a, code)
               /\ rows'[a].state = "failed" /\ ~rows'[a].pending
            \/ /\ OwnershipUncertain(a, code) /\ rows'[a].pending = rows[a].pending
               /\ \/ /\ rows'[a].state = "ownership_uncertain"
                     /\ \A b \in Attempts \ {a} : ~Active(b)
                  \/ /\ rows' = rows
                     /\ \E b \in Attempts \ {a} : Active(b)
<1> USE DEF TypeOK, AttemptTypeOK
<1>1. rows[a] \in Row
  OBVIOUS
<1>2. CASE OwnershipUncertain(a, code)
  <2>1. FailedRow(a, code) = [rows[a] EXCEPT !.state = "ownership_uncertain"]
    BY <1>2 DEF FailedRow
  <2>2. FailedRow(a, code).state = "ownership_uncertain"
    BY <2>1, <1>1 DEF Row
  <2>3. CASE Writable(a, FailedRow(a, code))
    <3>1. rows' = [rows EXCEPT ![a] = FailedRow(a, code)]
      BY <2>3 DEF CatchAll, Write
    <3> QED BY <1>1, <1>2, <2>1, <2>2, <2>3, <3>1
            DEF CatchAll, Writable, Row, ActiveStates
  <2>4. CASE ~Writable(a, FailedRow(a, code))
    BY <1>2, <2>2, <2>4 DEF CatchAll, Writable
  <2> QED BY <2>3, <2>4
<1>3. CASE ~OwnershipUncertain(a, code)
  <2>1. FailedRow(a, code) = [rows[a] EXCEPT !.state = "failed", !.pending = FALSE]
    BY <1>3 DEF FailedRow
  <2>2. Writable(a, FailedRow(a, code))
    BY <2>1, <1>1 DEF Writable, Row, ActiveStates
  <2>3. rows' = [rows EXCEPT ![a] = FailedRow(a, code)]
    BY <2>2 DEF CatchAll, Write
  <2> QED BY <1>1, <1>3, <2>1, <2>3 DEF CatchAll, Row
<1> QED BY <1>2, <1>3

LEMMA FiberMoves ==
  ASSUME TypeOK, AttemptInv, OneActive, NEW a \in Attempts, UNCHANGED origin,
         FiberStep(a) \/ RevalidationFails(a)
  PROVE  Moves(a)
<1> USE DEF TypeOK, AttemptTypeOK, LifecycleTypeOK
<1>1. AttemptSound(a)
  BY DEF AttemptInv
<1> USE <1>1 DEF AttemptSound, FiberSound, ProviderSound, GroupSound, AbsentSound,
                 Unstarted, Active, ActiveStates, Waiting, At, Elsewhere, Moves
<1>2. ASSUME At(a, "revalidate") \/ At(a, "claimed"), NEW code,
             code \notin {"cleanup_timeout"}, CatchAll(a, code),
             UNCHANGED <<provider, group, posts, claimed, published>>
      PROVE  Moves(a)
  <2>1. ~rows[a].pending /\ (OwnershipUncertain(a, code) => Active(a))
    BY <1>2 DEF OwnershipUncertain
  <2>6. /\ fiber' = [fiber EXCEPT ![a] = "none"]
        /\ \A b \in Attempts \ {a} : rows'[b] = rows[b]
        /\ rows'[a].process = rows[a].process /\ rows'[a].workspace = rows[a].workspace
    BY <1>2, Caught
  <2>5. /\ fiber'[a] = "none"
        /\ \A b \in Attempts \ {a} : fiber'[b] = fiber[b]
    BY <2>6
  <2>2. CASE rows'[a].state = "failed" /\ ~rows'[a].pending
    BY <1>2, <2>2, <2>5, <2>6
  <2>3. CASE rows'[a].state = "ownership_uncertain" /\ Active(a)
             /\ rows'[a].pending = rows[a].pending
    BY <1>2, <2>3, <2>5, <2>6
  <2>4. CASE rows' = rows /\ Active(a) /\ \E b \in Attempts \ {a} : Active(b)
    BY <2>4 DEF OneActive
  <2> QED BY <1>2, <2>1, <2>2, <2>3, <2>4, Caught
<1>3. CASE Revalidated(a)
  BY <1>2, <1>3 DEF Revalidated
<1>4. CASE ClaimRecognised(a)
  BY <1>4 DEF ClaimRecognised
<1>5. CASE ClaimConfirmed(a)
  <2> DEFINE row == [rows[a] EXCEPT !.state = "starting"]
  <2>1. row.state = "starting" /\ row.process = rows[a].process
        /\ row.pending = rows[a].pending /\ row.workspace = rows[a].workspace
    BY DEF Row
  <2>2. CASE Writable(a, row)
    <3>1. /\ rows'[a] = row /\ \A b \in Attempts \ {a} : rows'[b] = rows[b]
          /\ fiber'[a] = "workspace" /\ \A b \in Attempts \ {a} : fiber'[b] = fiber[b]
      BY <1>5, <2>2 DEF ClaimConfirmed, Write
    <3>2. \A b \in Attempts \ {a} : ~Active(b)
      BY <2>1, <2>2 DEF Writable
    <3> HIDE DEF row
    <3> QED BY <1>5, <2>1, <3>1, <3>2 DEF ClaimConfirmed
  <2>3. CASE ~Writable(a, row)
    BY <1>2, <1>5, <2>3 DEF ClaimConfirmed
  <2> QED BY <2>2, <2>3
<1>6. CASE ClaimNotConfirmed(a)
  <2>1. /\ rows'[a] = [rows[a] EXCEPT !.state = "failed"]
        /\ \A b \in Attempts \ {a} : rows'[b] = rows[b]
        /\ fiber'[a] = "none" /\ \A b \in Attempts \ {a} : fiber'[b] = fiber[b]
    BY <1>6 DEF ClaimNotConfirmed, Write
  <2>2. /\ rows'[a].state = "failed" /\ rows'[a].process = rows[a].process
        /\ rows'[a].pending = rows[a].pending /\ rows'[a].workspace = rows[a].workspace
    BY <2>1 DEF Row
  <2> QED BY <1>6, <2>1, <2>2 DEF ClaimNotConfirmed
<1>7. CASE WorkspaceCreated(a)
  <2>1. /\ rows'[a] = [rows[a] EXCEPT !.workspace = TRUE, !.pending = TRUE]
        /\ \A b \in Attempts \ {a} : rows'[b] = rows[b]
        /\ fiber'[a] = "provider" /\ \A b \in Attempts \ {a} : fiber'[b] = fiber[b]
        /\ provider'[a] = [NoPromise EXCEPT !.pc = "preparing"]
        /\ \A b \in Attempts \ {a} : provider'[b] = provider[b]
    BY <1>7 DEF WorkspaceCreated, Write
  <2>2. /\ rows'[a].state = rows[a].state /\ rows'[a].process = rows[a].process
        /\ rows'[a].pending /\ rows'[a].workspace
    BY <2>1 DEF Row
  <2>3. provider'[a].pc = "preparing" /\ ~provider'[a].aborted
    BY <2>1 DEF NoPromise
  <2> QED BY <1>7, <2>1, <2>2, <2>3 DEF WorkspaceCreated
<1>8. ASSUME At(a, "workspace") \/ At(a, "verify"), NEW code,
             code \notin {"cleanup_timeout", "process_identity_changed"},
             CatchAll(a, code),
             UNCHANGED <<provider, group, posts, claimed, published>>
      PROVE  Moves(a)
  <2>1. /\ Active(a)
        /\ OwnershipUncertain(a, code) => rows[a].state = "ownership_uncertain"
        /\ rows'[a].state = "failed" => group[a] # "leader"
        /\ group[a] = "none" \/ rows[a].process
    BY <1>8 DEF OwnershipUncertain
  <2>2. /\ fiber' = [fiber EXCEPT ![a] = "none"]
        /\ \A b \in Attempts \ {a} : rows'[b] = rows[b]
        /\ rows'[a].process = rows[a].process /\ rows'[a].workspace = rows[a].workspace
    BY <1>8, Caught
  <2>3. fiber'[a] = "none" /\ \A b \in Attempts \ {a} : fiber'[b] = fiber[b]
    BY <2>2
  <2>4. CASE rows'[a].state = "failed" /\ ~rows'[a].pending
    BY <1>8, <2>1, <2>2, <2>3, <2>4
  <2>5. CASE rows'[a].state = "ownership_uncertain" /\ rows'[a].pending = rows[a].pending
    BY <1>8, <2>1, <2>2, <2>3, <2>5
  <2>6. ~(\E b \in Attempts \ {a} : Active(b))
    BY <2>1 DEF OneActive
  <2> QED BY <1>8, <2>4, <2>5, <2>6, Caught
<1>9. CASE WorkspaceFails(a)
  BY <1>8, <1>9 DEF WorkspaceFails
<1>10. CASE VerificationFails(a)
  BY <1>8, <1>10 DEF VerificationFails
<1>11. CASE RevalidationFails(a)
  BY <1>2, <1>11 DEF RevalidationFails
<1>12. CASE Completed(a)
  <2>1. /\ rows'[a] = [rows[a] EXCEPT !.state = "completed", !.pullRequest = TRUE]
        /\ \A b \in Attempts \ {a} : rows'[b] = rows[b]
        /\ fiber'[a] = "none" /\ \A b \in Attempts \ {a} : fiber'[b] = fiber[b]
    BY <1>12 DEF Completed, Write
  <2>2. /\ rows'[a].state = "completed" /\ rows'[a].process = rows[a].process
        /\ rows'[a].pending = rows[a].pending /\ rows'[a].workspace = rows[a].workspace
    BY <2>1 DEF Row
  <2> QED BY <1>12, <2>1, <2>2 DEF Completed
<1>13. CASE ProviderAnswers(a)
  <2>1. /\ provider'[a].pc = "none" /\ ~provider'[a].aborted
        /\ \A b \in Attempts \ {a} : provider'[b] = provider[b]
    BY <1>13 DEF ProviderAnswers, NoPromise
  <2>2. UNCHANGED <<group, posts, published>> /\ fiber[a] = "provider"
    BY <1>13 DEF ProviderAnswers
  <2>3. CASE /\ provider[a].pc = "resolved" /\ Write(a, [rows[a] EXCEPT !.pending = FALSE])
             /\ fiber' = [fiber EXCEPT ![a] = "verify"]
    <3>1. /\ rows'[a] = [rows[a] EXCEPT !.pending = FALSE]
          /\ \A b \in Attempts \ {a} : rows'[b] = rows[b]
          /\ fiber'[a] = "verify" /\ \A b \in Attempts \ {a} : fiber'[b] = fiber[b]
      BY <2>3 DEF Write
    <3>2. /\ rows'[a].state = rows[a].state /\ rows'[a].process = rows[a].process
          /\ ~rows'[a].pending /\ rows'[a].workspace = rows[a].workspace
      BY <3>1 DEF Row
    <3> QED BY <2>1, <2>2, <2>3, <3>1, <3>2
  <2>4. ASSUME NEW code, provider[a].pc = "rejected", CatchAll(a, code),
               provider[a].timedOut => code = "cleanup_timeout",
               code # "process_identity_changed"
        PROVE  Moves(a)
    <3>1. /\ Active(a)
          /\ ~OwnershipUncertain(a, code) => group[a] # "leader"
          /\ group[a] = "none" \/ rows[a].process
      BY <2>2, <2>4 DEF OwnershipUncertain
    <3>2. /\ fiber' = [fiber EXCEPT ![a] = "none"]
          /\ \A b \in Attempts \ {a} : rows'[b] = rows[b]
          /\ rows'[a].process = rows[a].process /\ rows'[a].workspace = rows[a].workspace
      BY <2>4, Caught
    <3>3. fiber'[a] = "none" /\ \A b \in Attempts \ {a} : fiber'[b] = fiber[b]
      BY <3>2
    <3>4. CASE rows'[a].state = "failed" /\ ~rows'[a].pending /\ ~OwnershipUncertain(a, code)
      BY <2>1, <2>2, <3>1, <3>2, <3>3, <3>4
    <3>5. CASE rows'[a].state = "ownership_uncertain" /\ rows'[a].pending = rows[a].pending
      BY <2>1, <2>2, <3>1, <3>2, <3>3, <3>5
    <3>6. CASE rows' = rows /\ \E b \in Attempts \ {a} : Active(b)
      BY <3>1, <3>6 DEF OneActive
    <3> QED BY <2>4, <3>4, <3>5, <3>6, Caught
  <2> QED BY <1>13, <2>3, <2>4 DEF ProviderAnswers
<1> QED BY <1>3, <1>4, <1>5, <1>6, <1>7, <1>9, <1>10, <1>11, <1>12, <1>13 DEF FiberStep
LEMMA WorldMoves ==
  ASSUME TypeOK, AttemptInv, OneActive, NEW a \in Attempts, UNCHANGED origin,
         WorldStep(a)
  PROVE  Moves(a) /\ (group[a] # "none" \/ a \in posts)
<1> USE DEF TypeOK, AttemptTypeOK, LifecycleTypeOK
<1>1. AttemptSound(a)
  BY DEF AttemptInv
<1> USE <1>1 DEF AttemptSound, FiberSound, ProviderSound, GroupSound, AbsentSound,
                 Unstarted, Active, ActiveStates, Waiting, At, Elsewhere, Moves
<1>2. CASE ClaimLands(a)
  <2>1. /\ fiber'[a] = IF fiber[a] = "claim" THEN "claimed" ELSE fiber[a]
        /\ \A b \in Attempts \ {a} : fiber'[b] = fiber[b]
    BY <1>2 DEF ClaimLands
  <2> QED BY <1>2, <2>1 DEF ClaimLands
<1>3. CASE LeaderExits(a)
  <2>1. /\ group'[a] \in {"none", "orphans"} /\ (group'[a] = "orphans" => MembersSurvive)
        /\ \A b \in Attempts \ {a} : group'[b] = group[b]
    BY <1>3 DEF LeaderExits, Terminated
  <2> QED BY <1>3, <2>1 DEF LeaderExits
<1>4. CASE MembersExit(a)
  BY <1>4 DEF MembersExit
<1>5. CASE Publish(a)
  BY <1>5 DEF Publish
<1> QED BY <1>2, <1>3, <1>4, <1>5 DEF WorldStep
LEMMA ProviderMoves ==
  ASSUME TypeOK, AttemptInv, OneActive, NEW a \in Attempts, UNCHANGED origin,
         ProviderStep(a)
  PROVE  Moves(a) /\ provider[a].pc # "none" /\ (fiber'[a] = "none" \/ fiber'[a] = fiber[a])
<1> USE DEF TypeOK, AttemptTypeOK, LifecycleTypeOK
<1>1. AttemptSound(a)
  BY DEF AttemptInv
<1> USE <1>1 DEF AttemptSound, FiberSound, ProviderSound, GroupSound, AbsentSound,
                 Unstarted, Active, ActiveStates, Waiting, At, Elsewhere, Moves
<1>2. CASE ProcessStarts(a)
  <2>1. CASE provider[a].aborted
    <3>1. /\ provider'[a].pc = "none" /\ ~provider'[a].aborted
          /\ \A b \in Attempts \ {a} : provider'[b] = provider[b]
      BY <1>2, <2>1 DEF ProcessStarts, NoPromise
    <3> QED BY <1>2, <2>1, <3>1 DEF ProcessStarts
  <2>2. CASE ~provider[a].aborted
    <3>1. /\ provider'[a] = [provider[a] EXCEPT !.pc = "running"]
          /\ \A b \in Attempts \ {a} : provider'[b] = provider[b]
          /\ rows'[a] = [rows[a] EXCEPT !.process = TRUE, !.pending = FALSE]
          /\ \A b \in Attempts \ {a} : rows'[b] = rows[b]
          /\ group'[a] = "leader" /\ \A b \in Attempts \ {a} : group'[b] = group[b]
      BY <1>2, <2>2 DEF ProcessStarts, Write
    <3>2. provider'[a].pc = "running" /\ provider'[a].aborted = provider[a].aborted
      BY <3>1 DEF Promise
    <3>3. /\ rows'[a].state = rows[a].state /\ rows'[a].process
          /\ ~rows'[a].pending /\ rows'[a].workspace = rows[a].workspace
      BY <3>1 DEF Row
    <3> QED BY <1>2, <2>2, <3>1, <3>2, <3>3 DEF ProcessStarts
  <2> QED BY <2>1, <2>2
<1>3. CASE PreparationFails(a)
  <2>1. PICK t \in BOOLEAN :
          provider' = [provider EXCEPT ![a] =
             IF @.aborted THEN NoPromise
                          ELSE [@ EXCEPT !.pc = "rejected", !.timedOut = t]]
    BY <1>3 DEF PreparationFails
  <2>2. \A b \in Attempts \ {a} : provider'[b] = provider[b]
    BY <2>1
  <2>3. CASE provider[a].aborted
    <3>1. provider'[a].pc = "none" /\ ~provider'[a].aborted
      BY <2>1, <2>3 DEF NoPromise
    <3> QED BY <1>3, <2>2, <2>3, <3>1 DEF PreparationFails
  <2>4. CASE ~provider[a].aborted
    <3>1. provider'[a].pc = "rejected" /\ ~provider'[a].aborted
      BY <2>1, <2>4 DEF Promise
    <3> QED BY <1>3, <2>2, <2>4, <3>1 DEF PreparationFails
  <2> QED BY <2>3, <2>4
<1>4. CASE IdentityUnreadable(a)
  <2>1. /\ fiber[a] = "provider" /\ provider[a].pc = "preparing" /\ ~provider[a].aborted
        /\ rows[a].pending /\ Active(a) /\ group[a] = "none" /\ UNCHANGED <<posts, published>>
        /\ CatchAll(a, "process_identity_changed")
    BY <1>4 DEF IdentityUnreadable
  <2>2. /\ provider'[a].pc = "none" /\ ~provider'[a].aborted
        /\ \A b \in Attempts \ {a} : provider'[b] = provider[b]
        /\ group'[a] \in {"none", "leader"}
        /\ \A b \in Attempts \ {a} : group'[b] = group[b]
    BY <1>4, <2>1 DEF IdentityUnreadable, NoPromise
  <2>3. OwnershipUncertain(a, "process_identity_changed")
    BY <2>1 DEF OwnershipUncertain
  <2>4. /\ fiber' = [fiber EXCEPT ![a] = "none"]
        /\ \A b \in Attempts \ {a} : rows'[b] = rows[b]
        /\ rows'[a].process = rows[a].process /\ rows'[a].workspace = rows[a].workspace
        /\ rows'[a].pending = rows[a].pending
    BY <2>1, <2>3, Caught
  <2>5. rows'[a].state = "ownership_uncertain" \/ \E b \in Attempts \ {a} : Active(b)
    BY <2>1, <2>3, Caught
  <2>6. fiber'[a] = "none" /\ \A b \in Attempts \ {a} : fiber'[b] = fiber[b]
    BY <2>4
  <2>7. rows'[a].state = "ownership_uncertain"
    BY <2>1, <2>5 DEF OneActive
  <2> QED BY <2>1, <2>2, <2>4, <2>6, <2>7
<1>5. CASE ThreadStarts(a)
  <2>1. /\ rows'[a] = [rows[a] EXCEPT !.state = "running"]
        /\ \A b \in Attempts \ {a} : rows'[b] = rows[b]
    BY <1>5 DEF ThreadStarts, Write
  <2>2. /\ rows'[a].state = "running" /\ rows'[a].process = rows[a].process
        /\ rows'[a].pending = rows[a].pending /\ rows'[a].workspace = rows[a].workspace
    BY <2>1 DEF Row
  <2> QED BY <1>5, <2>1, <2>2 DEF ThreadStarts
<1>6. CASE TurnEnds(a)
  <2>1. PICK ok \in BOOLEAN :
          provider' = [provider EXCEPT ![a].pc = "cleaning", ![a].ok = ok]
    BY <1>6 DEF TurnEnds
  <2>2. /\ provider'[a].pc = "cleaning" /\ provider'[a].aborted = provider[a].aborted
        /\ \A b \in Attempts \ {a} : provider'[b] = provider[b]
    BY <2>1 DEF Promise
  <2> QED BY <1>6, <2>2 DEF TurnEnds
<1>7. ASSUME NEW pc \in {"resolved", "rejected"}, NEW t \in BOOLEAN, Answer(a, pc, t)
      PROVE  /\ \A b \in Attempts \ {a} : provider'[b] = provider[b]
             /\ IF provider[a].aborted
                  THEN provider'[a].pc = "none" /\ ~provider'[a].aborted
                  ELSE provider'[a].pc = pc /\ ~provider'[a].aborted
                       /\ provider'[a].timedOut = t
  <2>1. provider'[a] = IF provider[a].aborted THEN NoPromise
                       ELSE [provider[a] EXCEPT !.pc = pc, !.timedOut = t]
    BY <1>7 DEF Answer
  <2> QED BY <1>7, <2>1 DEF Answer, NoPromise, Promise
<1>8. CASE CleanedUp(a)
  <2>1. /\ group'[a] \in {"none", "orphans"}
        /\ group'[a] = "orphans" => MembersSurvive /\ group[a] # "none"
        /\ \A b \in Attempts \ {a} : group'[b] = group[b]
    BY <1>8 DEF CleanedUp, Terminated, Groups
  <2>2. PICK pc \in {"resolved", "rejected"} : Answer(a, pc, FALSE)
    BY <1>8 DEF CleanedUp
  <2>3. /\ provider[a].pc = "cleaning"
        /\ UNCHANGED <<rows, fiber, posts, claimed, published>>
    BY <1>8 DEF CleanedUp
  <2>4. CASE provider[a].aborted
    <3>1. /\ provider'[a].pc = "none" /\ ~provider'[a].aborted
          /\ \A b \in Attempts \ {a} : provider'[b] = provider[b]
      BY <1>7, <2>2, <2>4
    <3> QED BY <2>1, <2>3, <2>4, <3>1
  <2>5. CASE ~provider[a].aborted
    <3>1. /\ provider'[a].pc \in {"resolved", "rejected"} /\ ~provider'[a].aborted
          /\ \A b \in Attempts \ {a} : provider'[b] = provider[b]
      BY <1>7, <2>2, <2>5
    <3> QED BY <2>1, <2>3, <2>5, <3>1
  <2> QED BY <2>4, <2>5
<1>9. CASE CleanupTimesOut(a)
  <2> DEFINE row == [rows[a] EXCEPT !.state = "ownership_uncertain"]
  <2>1. row.state = "ownership_uncertain" /\ row.process = rows[a].process
        /\ row.pending = rows[a].pending /\ row.workspace = rows[a].workspace
    BY DEF Row
  <2>2. /\ provider[a].pc = "cleaning" /\ Answer(a, "rejected", TRUE)
        /\ IF Writable(a, row) THEN Write(a, row) ELSE UNCHANGED rows
        /\ UNCHANGED <<fiber, group, posts, claimed, published>>
    BY <1>9 DEF CleanupTimesOut
  <2> HIDE DEF row
  <2>3. /\ rows'[a] \in {rows[a], row} /\ \A b \in Attempts \ {a} : rows'[b] = rows[b]
        /\ rows'[a] = row => \A b \in Attempts \ {a} : ~Active(b)
    BY <2>1, <2>2 DEF Write, Writable, OneActive
  <2>4. CASE provider[a].aborted
    <3>1. /\ provider'[a].pc = "none" /\ ~provider'[a].aborted
          /\ \A b \in Attempts \ {a} : provider'[b] = provider[b]
      BY <1>7, <2>2, <2>4
    <3> QED BY <2>1, <2>2, <2>3, <2>4, <3>1
  <2>5. CASE ~provider[a].aborted
    <3>1. /\ provider'[a].pc = "rejected" /\ provider'[a].timedOut /\ ~provider'[a].aborted
          /\ \A b \in Attempts \ {a} : provider'[b] = provider[b]
      BY <1>7, <2>2, <2>5
    <3> QED BY <2>1, <2>2, <2>3, <2>5, <3>1
  <2> QED BY <2>4, <2>5
<1> QED BY <1>2, <1>3, <1>4, <1>5, <1>6, <1>8, <1>9 DEF ProviderStep
-----------------------------------------------------------------------------
(* What remains true of the others *)

LEMMA MovedAttempts ==
  ASSUME AttemptInv, OneActive, ForkInv, NEW a \in Attempts, Moves(a)
  PROVE  AttemptInv' /\ OneActive' /\ ForkInv'
<1>1. ASSUME NEW b \in Attempts \ {a}
      PROVE  AttemptSound(b)' /\ (Active(b)' <=> Active(b)) /\ fiber'[b] = fiber[b]
  <2>1. AttemptSound(b)
    BY DEF AttemptInv
  <2>2. /\ rows'[b] = rows[b] /\ fiber'[b] = fiber[b]
        /\ provider'[b] = provider[b] /\ group'[b] = group[b]
        /\ b \in published' <=> b \in published
        /\ b \in posts' => b \in posts
        /\ UNCHANGED origin
    BY DEF Moves, Elsewhere
  <2> QED BY <2>1, <2>2
          DEF AttemptSound, FiberSound, ProviderSound, GroupSound, AbsentSound,
              Unstarted, Active
<1>2. AttemptSound(a)' /\ UNCHANGED origin
  BY DEF Moves, Elsewhere
<1>3. AttemptInv'
  BY <1>1, <1>2 DEF AttemptInv
<1>4. OneActive'
  BY <1>1 DEF OneActive, Moves
<1>5. ForkInv'
  BY <1>1, <1>2 DEF ForkInv, Moves
<1> QED BY <1>3, <1>4, <1>5

LEMMA OtherCommand ==
  ASSUME TypeOK, CommandInv, KindInv, StopInv, ReturnInv, NEW a \in Attempts, Moves(a),
         NEW d \in Commands, commands'[d] = commands[d], run'[d] = run[d],
         sibling'[d] = sibling[d],
         \/ turn # d /\ turn' # d
         \/ turn' = turn /\ (rows' = rows \/ turn = Nobody)
  PROVE  CommandSound(d)' /\ KindSound(d)' /\ StopSound(d)' /\ ReturnSound(d)'
<1>1. CommandSound(d) /\ KindSound(d) /\ StopSound(d) /\ ReturnSound(d)
  BY DEF CommandInv, KindInv, StopInv, ReturnInv
<1>2. /\ Target(d)' = Target(d) /\ Underway(d)' = Underway(d)
      /\ Unlabelling(d)' = Unlabelling(d)
  BY DEF Target, Underway, Unlabelling
<1>3. /\ Target(d) \in Attempts \cup {Nobody} /\ turn \in Commands \cup {Nobody}
      /\ Nobody \notin Commands
  BY TargetTyped, LifecycleAssumption DEF TypeOK, LifecycleTypeOK
<1>4. ASSUME NEW b \in Attempts
      PROVE  /\ rows[b].state # "absent" => rows'[b].state # "absent"
             /\ rows[b].state = "failed" => rows'[b].state = "failed"
             /\ origin'[b] = origin[b]
             /\ fiber[b] = "none" =>
                  /\ fiber'[b] = "none"
                  /\ group[b] = "none" =>
                       group'[b] = "none" /\ (b \in published' => b \in published)
                  /\ rows'[b].state \in {"failed", "completed"} =>
                       rows[b].state = rows'[b].state
  BY DEF Moves, Elsewhere
<1>5. CommandSound(d)'
  BY <1>1, <1>2, <1>3, <1>4 DEF CommandSound
<1>6. KindSound(d)'
  BY <1>1 DEF KindSound
<1>7. StopSound(d)'
  <2> SUFFICES ASSUME Underway(d), KindOf[d] = "stop"
               PROVE  StopSound(d)'
    BY <1>2 DEF StopSound
  <2>1. Target(d) \in Attempts
    BY <1>1, <1>3 DEF CommandSound
  <2>2. CASE fiber[Target(d)] = "none"
    BY <1>1, <1>2, <1>4, <2>1, <2>2 DEF StopSound
  <2>3. CASE fiber[Target(d)] # "none"
    <3>1. turn = d /\ run[d].pc \in {"begin", "interrupt"} /\ commands[d].effect # "resolved"
      BY <1>1, <2>3 DEF StopSound
    <3>2. turn' = turn /\ rows' = rows
      BY <1>3, <3>1
    <3> QED BY <1>1, <1>2, <3>1, <3>2 DEF StopSound
  <2> QED BY <2>2, <2>3
<1>8. ReturnSound(d)'
  BY <1>1, <1>2, <1>4 DEF ReturnSound
<1> QED BY <1>5, <1>6, <1>7, <1>8

LEMMA OtherSibling ==
  ASSUME TypeOK, SiblingInv, NEW a \in Attempts, Elsewhere(a), NEW d \in Commands,
         commands'[d] = commands[d], run'[d] = run[d], sibling'[d] = sibling[d],
         \A c \in Commands : Target(c)' = Target(c),
         Underway(d) => a \notin sibling[d],
         turn' = turn \/ (turn # d /\ turn' # d),
         UNCHANGED <<service, todo>>
  PROVE  SiblingSound(d)'
<1>1. SiblingSound(d) /\ (Underway(d)' = Underway(d))
  BY DEF SiblingInv, Underway
<1>2. sibling[d] \subseteq Attempts
  BY SiblingTyped
<1>3. ASSUME Underway(d), NEW b \in sibling[d]
      PROVE  /\ Unstarted(b)' = Unstarted(b) /\ (b \in posts' => b \in posts)
             /\ fiber'[b] = fiber[b] /\ rows'[b] = rows[b]
  BY <1>2, <1>3 DEF Elsewhere, Unstarted
<1> QED BY <1>1, <1>3 DEF SiblingSound
(* A step of the fiber of a command, in which nothing but its target may   *)
(* change.                                                                 *)
CommandMoves(c) ==
  /\ \A d \in Commands \ {c} : commands'[d] = commands[d] /\ run'[d] = run[d]
  /\ UNCHANGED <<sibling, order, todo, service>>
  /\ turn \in {c, Nobody} /\ turn' \in {c, Nobody}
  /\ run[c].pc # "idle" /\ run'[c].pc # "idle"
  /\ Underway(c) /\ Underway(c)' /\ Target(c)' = Target(c)
  /\ CommandSound(c)' /\ KindSound(c)' /\ StopSound(c)'
  /\ SiblingSound(c)' /\ ReturnSound(c)'

Sound ==
  /\ AttemptInv /\ OneActive /\ Quiet /\ CommandInv /\ KindInv /\ StopInv
  /\ OriginInv /\ SiblingInv /\ OrderInv /\ ReturnInv /\ ForkInv

LEMMA CommandKeeps ==
  ASSUME TypeOK, Sound, NEW c \in Commands, CommandMoves(c),
         NEW a \in Attempts, a = Target(c), Moves(a)
  PROVE  Sound'
<1> USE DEF Sound
<1>1. AttemptInv' /\ OneActive' /\ ForkInv'
  BY MovedAttempts
<1>2. ASSUME NEW d \in Commands \ {c}
      PROVE  /\ CommandSound(d)' /\ KindSound(d)' /\ StopSound(d)' /\ ReturnSound(d)'
             /\ SiblingSound(d)'
  <2>1. d \in Commands /\ d # c /\ d # Nobody
    BY LifecycleAssumption
  <2>2. /\ commands'[d] = commands[d] /\ run'[d] = run[d] /\ sibling'[d] = sibling[d]
        /\ turn # d /\ turn' # d /\ UNCHANGED <<service, todo>>
    BY <2>1 DEF CommandMoves
  <2>3. \A e \in Commands : Target(e)' = Target(e)
    BY DEF CommandMoves, Target
  <2>4. Underway(d) => a \notin sibling[d]
    BY <2>1 DEF SiblingInv, SiblingSound
  <2>5. Elsewhere(a)
    BY DEF Moves
  <2> QED BY <2>1, <2>2, <2>3, <2>4, <2>5, OtherCommand, OtherSibling
<1>3. CommandInv' /\ KindInv' /\ StopInv' /\ ReturnInv' /\ SiblingInv'
  BY <1>2 DEF CommandMoves, CommandInv, KindInv, StopInv, ReturnInv, SiblingInv
<1>4. OriginInv'
  BY DEF CommandMoves, OriginInv, Moves, Elsewhere
<1>5. service # "down"
  BY DEF Quiet, CommandMoves
<1>6. Quiet'
  BY <1>5 DEF Quiet, CommandMoves
<1>7. OrderInv'
  <2>1. \A d \in Commands : Underway(d)' = Underway(d) /\ (run'[d].pc = "idle" <=> run[d].pc = "idle")
    BY DEF CommandMoves, Underway
  <2>2. UNCHANGED <<order, todo, service>>
    BY DEF CommandMoves
  <2> QED BY <2>1, <2>2 DEF OrderInv
<1> QED BY <1>1, <1>3, <1>4, <1>6, <1>7

(* A step of one attempt, by its fiber, its provider or the world.         *)
LEMMA AttemptKeeps ==
  ASSUME TypeOK, Sound, NEW a \in Attempts, Moves(a),
         UNCHANGED <<commands, order, sibling, run, turn, service, todo>>,
         \/ Free /\ (fiber[a] # "none" \/ provider[a].pc # "none")
         \/ /\ group[a] # "none" \/ a \in posts
            /\ UNCHANGED <<rows, provider>>
  PROVE  Sound'
<1> USE DEF Sound, Free
<1>1. AttemptInv' /\ OneActive' /\ ForkInv'
  BY MovedAttempts
<1>2. ASSUME NEW d \in Commands
      PROVE  /\ CommandSound(d)' /\ KindSound(d)' /\ StopSound(d)' /\ ReturnSound(d)'
             /\ SiblingSound(d)'
  <2>1. \A e \in Commands : Target(e)' = Target(e)
    BY DEF Target
  <2>2. Underway(d) => a \notin sibling[d]
    <3>1. d # Nobody
      BY LifecycleAssumption
    <3> QED BY <3>1 DEF SiblingInv, SiblingSound, Unstarted
  <2>3. Elsewhere(a)
    BY DEF Moves
  <2> QED BY <2>1, <2>2, <2>3, OtherCommand, OtherSibling
<1>3. CommandInv' /\ KindInv' /\ StopInv' /\ ReturnInv' /\ SiblingInv'
  BY <1>2 DEF CommandInv, KindInv, StopInv, ReturnInv, SiblingInv
<1>4. OriginInv'
  BY DEF OriginInv, Moves, Elsewhere
<1>5. Quiet'
  <2> SUFFICES ASSUME service = "down"
               PROVE  Quiet'
    BY DEF Quiet
  <2>1. fiber[a] = "none" /\ provider[a].pc = "none"
    BY DEF Quiet
  <2>2. fiber'[a] = "none" /\ provider'[a].pc = "none"
    BY <2>1 DEF Moves
  <2>3. \A b \in Attempts \ {a} : fiber'[b] = fiber[b] /\ provider'[b] = provider[b]
    BY DEF Moves, Elsewhere
  <2> QED BY <2>2, <2>3 DEF Quiet
<1>6. OrderInv'
  BY DEF OrderInv, Underway
<1> QED BY <1>1, <1>3, <1>4, <1>5, <1>6
-----------------------------------------------------------------------------
(* Steps of a command's fiber *)

(* Rows keep everything but archived, pullRequest and lookup. *)
Unmoved ==
  /\ \A b \in Attempts :
       /\ rows'[b].state = rows[b].state /\ rows'[b].process = rows[b].process
       /\ rows'[b].pending = rows[b].pending /\ rows'[b].workspace = rows[b].workspace
  /\ UNCHANGED <<fiber, provider, group, posts, published, origin>>

LEMMA Still ==
  ASSUME AttemptInv, Unmoved, NEW a \in Attempts, rows[a].state # "absent",
         \A b \in Attempts \ {a} : rows'[b] = rows[b]
  PROVE  Moves(a)
<1>1. AttemptSound(a)
  BY DEF AttemptInv
<1>2. AttemptSound(a)'
  BY <1>1 DEF Unmoved, AttemptSound, FiberSound, ProviderSound, GroupSound, AbsentSound,
              Unstarted, Active
<1> QED BY <1>2 DEF Unmoved, Moves, Elsewhere, Active

(* What a command that is executed knows of itself. *)
LEMMA Executing ==
  ASSUME TypeOK, Sound, NEW c \in Commands, run[c].pc # "idle"
  PROVE  /\ Underway(c) /\ Target(c) \in Attempts /\ rows[Target(c)].state # "absent"
         /\ CommandSound(c) /\ KindSound(c) /\ StopSound(c) /\ SiblingSound(c)
         /\ ReturnSound(c) /\ AttemptSound(Target(c))
         /\ service # "down" /\ c # Nobody
         /\ commands[c].phase \in {"accepted", "executing"}
<1>1. CommandSound(c) /\ KindSound(c) /\ StopSound(c) /\ SiblingSound(c) /\ ReturnSound(c)
  BY DEF Sound, CommandInv, KindInv, StopInv, SiblingInv, ReturnInv
<1>2. Underway(c) /\ Target(c) \in Attempts /\ rows[Target(c)].state # "absent"
  BY <1>1, TargetTyped DEF CommandSound
<1> QED BY <1>1, <1>2, LifecycleAssumption DEF Sound, AttemptInv, Quiet, Underway

(* A step that touches no attempt. *)
LEMMA CommandOnly ==
  ASSUME TypeOK, Sound, NEW c \in Commands, run[c].pc # "idle",
         \A d \in Commands \ {c} : commands'[d] = commands[d] /\ run'[d] = run[d],
         Target(c)' = Target(c), Underway(c)', run'[c].pc # "idle",
         UNCHANGED <<rows, fiber, provider, group, posts, published, origin,
                     sibling, order, todo, service>>,
         turn \in {c, Nobody}, turn' \in {c, Nobody},
         CommandSound(c)', KindSound(c)', StopSound(c)', SiblingSound(c)', ReturnSound(c)'
  PROVE  Sound'
<1>1. Underway(c) /\ Target(c) \in Attempts /\ rows[Target(c)].state # "absent"
  BY Executing
<1>2. PICK a \in Attempts : a = Target(c)
  BY <1>1
<1>3. Moves(a)
  BY <1>1, <1>2, Still DEF Sound, Unmoved
<1>4. CommandMoves(c)
  BY <1>1 DEF CommandMoves
<1> QED BY <1>2, <1>3, <1>4, CommandKeeps

LEMMA Marked ==
  ASSUME TypeOK, NEW c \in Commands, NEW effect, NEW pc, Mark(c, effect, pc)
  PROVE  /\ \A d \in Commands \ {c} : commands'[d] = commands[d] /\ run'[d] = run[d]
         /\ commands'[c].phase = "executing" /\ commands'[c].effect = effect
         /\ commands'[c].target = commands[c].target
         /\ commands'[c].result = commands[c].result
         /\ commands'[c].consequence = commands[c].consequence
         /\ run'[c].pc = pc /\ run'[c].from = run[c].from
         /\ run'[c].consequence = run[c].consequence
<1>1. commands[c] \in Command /\ run[c] \in Run
  BY DEF TypeOK, LifecycleTypeOK
<1>2. /\ commands'[c] = [commands[c] EXCEPT !.phase = "executing", !.effect = effect]
      /\ run'[c] = [run[c] EXCEPT !.pc = pc]
      /\ \A d \in Commands \ {c} : commands'[d] = commands[d] /\ run'[d] = run[d]
  BY DEF Mark, TypeOK, LifecycleTypeOK
<1> QED BY <1>1, <1>2 DEF Command, Run

LEMMA Concluded ==
  ASSUME TypeOK, NEW c \in Commands, NEW x, Concluding(c, x)
  PROVE  /\ \A d \in Commands \ {c} : run'[d] = run[d]
         /\ run'[c].pc = "conclude" /\ run'[c].from = run[c].from
         /\ run'[c].consequence = x
<1>1. run[c] \in Run
  BY DEF TypeOK, LifecycleTypeOK
<1>2. /\ run'[c] = [run[c] EXCEPT !.pc = "conclude", !.consequence = x]
      /\ \A d \in Commands \ {c} : run'[d] = run[d]
  BY DEF Concluding, TypeOK, LifecycleTypeOK
<1> QED BY <1>1, <1>2 DEF Run

(* Before its end a fiber marks its command as executing and goes on... *)
LEMMA MarkKeeps ==
  ASSUME TypeOK, Sound, NEW c \in Commands, NEW effect, NEW pc, Mark(c, effect, pc),
         run[c].pc \notin {"idle", "conclude", "finish"},
         turn \in {c, Nobody}, turn' \in {c, Nobody}, effect # "resolved",
         UNCHANGED <<rows, fiber, provider, group, posts, published, origin,
                     sibling, order, todo, service>>,
         \/ pc = "interrupt" /\ turn' = c /\ KindOf[c] = "stop"
         \/ pc = "inspecting" /\ KindOf[c] = "return"
         \/ /\ pc \in {"unlabel", "claim_read"} /\ KindOf[c] = "return"
            /\ effect \in {"pull_request_absent", "label_removing"}
            /\ pc = "unlabel" => turn' = c
            /\ Unlabelling(c) \/ Target(c) \notin published
         \/ pc = "revalidating" /\ KindOf[c] = "restart" /\ sibling[c] = {}
         \/ pc = "admit" /\ turn' = c /\ KindOf[c] = "restart" /\ sibling[c] = {}
         \/ pc = "reserved" /\ turn' = c /\ KindOf[c] = "restart" /\ sibling[c] # {},
         pc = "inspecting" => effect = "pull_request_inspecting"
  PROVE  Sound'
<1> USE DEF CommandSound, KindSound, StopSound, SiblingSound, ReturnSound,
            Underway, Target, Unlabelling, SyncStates
<1>1. /\ Underway(c) /\ Target(c) \in Attempts /\ rows[Target(c)].state # "absent"
      /\ CommandSound(c) /\ KindSound(c) /\ StopSound(c) /\ SiblingSound(c)
      /\ ReturnSound(c) /\ c # Nobody
  BY Executing
<1>2. /\ \A d \in Commands \ {c} : commands'[d] = commands[d] /\ run'[d] = run[d]
      /\ commands'[c].phase = "executing" /\ commands'[c].effect = effect
      /\ commands'[c].target = commands[c].target
      /\ commands'[c].consequence = commands[c].consequence
      /\ run'[c].pc = pc /\ run'[c].consequence = run[c].consequence
  BY Marked
<1>3. CommandSound(c)' /\ KindSound(c)'
  BY <1>1, <1>2
<1>4. StopSound(c)'
  BY <1>1, <1>2
<1>5. SiblingSound(c)'
  <2>1. \A d \in Commands : commands'[d].target = commands[d].target
    BY <1>2
  <2> QED BY <1>1, <1>2, <2>1 DEF Unstarted
<1>6. ReturnSound(c)'
  BY <1>1, <1>2
<1> QED BY <1>1, <1>2, <1>3, <1>4, <1>5, <1>6, CommandOnly

(* ... and at last it knows the consequence.  *)
LEMMA ConcludingKeeps ==
  ASSUME TypeOK, Sound, NEW c \in Commands, NEW x, Concluding(c, x), UNCHANGED commands,
         run[c].pc \notin {"idle", "conclude", "finish"},
         turn \in {c, Nobody}, turn' = c,
         UNCHANGED <<rows, fiber, provider, group, posts, published, origin,
                     sibling, order, todo, service>>,
         \/ x = "rejected" /\ KindOf[c] # "stop"
         \/ /\ KindOf[c] = "stop" /\ commands[c].effect = "resolved"
            /\ x = StopResult(commands[c].result)
         \/ x = "returned" /\ KindOf[c] = "return" /\ Unlabelling(c)
  PROVE  Sound'
<1> USE DEF CommandSound, KindSound, StopSound, SiblingSound, ReturnSound,
            Underway, Target, Unlabelling, SyncStates
<1>1. /\ Underway(c) /\ Target(c) \in Attempts /\ rows[Target(c)].state # "absent"
      /\ CommandSound(c) /\ KindSound(c) /\ StopSound(c) /\ SiblingSound(c)
      /\ ReturnSound(c) /\ c # Nobody
  BY Executing
<1>2. /\ \A d \in Commands \ {c} : run'[d] = run[d]
      /\ run'[c].pc = "conclude" /\ run'[c].consequence = x
  BY Concluded
<1>3. CommandSound(c)' /\ KindSound(c)'
  BY <1>1, <1>2 DEF StopResult
<1>4. StopSound(c)'
  BY <1>1, <1>2
<1>5. SiblingSound(c)'
  <2>1. \A d \in Commands : commands'[d].target = commands[d].target
    BY <1>2
  <2> QED BY <1>1, <1>2, <2>1 DEF Unstarted
<1>6. ReturnSound(c)'
  BY <1>1, <1>2 DEF StopResult
<1> QED BY <1>1, <1>2, <1>3, <1>4, <1>5, <1>6, CommandOnly

LEMMA StopBeginsKeeps ==
  ASSUME TypeOK, Sound, NEW c \in Commands, StopBegins(c)
  PROVE  Sound'
<1>1. /\ run[c].pc = "begin" /\ KindOf[c] = "stop" /\ turn = c /\ turn' = c
      /\ UNCHANGED <<attemptVars, order, noted, sibling, refused, origin, serviceVars>>
  BY DEF StopBegins, Keep
<1>2. KindSound(c)
  BY <1>1, Executing
<1>3. CASE run[c].from = "resolved"
  <2>1. Concluding(c, StopResult(commands[c].result)) /\ UNCHANGED commands
    BY <1>3 DEF StopBegins
  <2> QED BY <1>1, <1>2, <1>3, <2>1, ConcludingKeeps DEF attemptVars, serviceVars, KindSound
<1>4. CASE run[c].from # "resolved"
  <2>1. Mark(c, "process_interrupting", "interrupt")
    BY <1>4 DEF StopBegins
  <2> QED BY <1>1, <2>1, MarkKeeps DEF attemptVars, serviceVars
<1> QED BY <1>3, <1>4

LEMMA ReturnBeginsKeeps ==
  ASSUME TypeOK, Sound, NEW c \in Commands, ReturnBegins(c)
  PROVE  Sound'
<1>1. /\ run[c].pc = "begin" /\ KindOf[c] = "return" /\ turn = c /\ turn' \in {c, Nobody}
      /\ UNCHANGED <<attemptVars, order, noted, sibling, refused, origin, serviceVars>>
  BY DEF ReturnBegins, Keep, Release
<1>2. run[c].from = commands[c].effect
  BY <1>1, Executing DEF KindSound
<1>3. CASE Concluding(c, "returned") /\ UNCHANGED commands /\ Keep(c)
           /\ run[c].from = "label_removed"
  BY <1>1, <1>2, <1>3, ConcludingKeeps DEF attemptVars, serviceVars, Unlabelling, Keep
<1>4. CASE Mark(c, "label_removing", "claim_read")
           /\ run[c].from \in {"label_removing", "pull_request_absent"}
  BY <1>1, <1>2, <1>4, MarkKeeps DEF attemptVars, serviceVars, Unlabelling
<1>5. CASE Mark(c, "pull_request_inspecting", "inspecting")
  BY <1>1, <1>5, MarkKeeps DEF attemptVars, serviceVars
<1> QED BY <1>3, <1>4, <1>5 DEF ReturnBegins

LEMMA InspectionKeeps ==
  ASSUME TypeOK, Sound, NEW c \in Commands, InspectionAnswers(c)
  PROVE  Sound'
<1>1. /\ run[c].pc = "inspecting" /\ turn \in {c, Nobody} /\ turn' = c
      /\ UNCHANGED <<attemptVars, order, noted, sibling, refused, origin,
                     service, todo>>
  BY DEF InspectionAnswers, Keep
<1>2. KindOf[c] = "return" /\ GroupSound(Target(c))
  BY <1>1, Executing DEF KindSound, AttemptSound
<1>3. CASE Concluding(c, "rejected") /\ UNCHANGED commands
  BY <1>1, <1>2, <1>3, ConcludingKeeps DEF attemptVars
<1>4. CASE Mark(c, "pull_request_absent", "unlabel")
           /\ (Target(c) \notin published \/ ~rows[Target(c)].workspace)
  <2>1. Target(c) \notin published
    BY <1>2, <1>4 DEF GroupSound
  <2> QED BY <1>1, <1>2, <1>4, <2>1, MarkKeeps DEF attemptVars
<1> QED BY <1>3, <1>4 DEF InspectionAnswers

LEMMA UnlabelsKeeps ==
  ASSUME TypeOK, Sound, NEW c \in Commands, ReturnUnlabels(c)
  PROVE  Sound'
<1>1. /\ run[c].pc = "unlabel" /\ turn = c /\ turn' = Nobody
      /\ Mark(c, "label_removing", "claim_read")
      /\ UNCHANGED <<attemptVars, order, sibling, origin, serviceVars>>
  BY DEF ReturnUnlabels, Release
<1>2. KindOf[c] = "return" /\ Unlabelling(c)
  BY <1>1, Executing DEF KindSound, ReturnSound
<1> QED BY <1>1, <1>2, MarkKeeps DEF attemptVars, serviceVars

LEMMA UnclaimedKeeps ==
  ASSUME TypeOK, Sound, NEW c \in Commands, Unclaimed(c), Free,
         run[c].pc \in {"claim_read", "removing"},
         UNCHANGED <<attemptVars, order, sibling, origin, service, todo>>
  PROVE  Sound'
<1> USE DEF CommandSound, KindSound, StopSound, SiblingSound, ReturnSound,
            Underway, Target, Unlabelling, SyncStates
<1>1. /\ Underway(c) /\ Target(c) \in Attempts /\ rows[Target(c)].state # "absent"
      /\ CommandSound(c) /\ KindSound(c) /\ StopSound(c) /\ SiblingSound(c)
      /\ ReturnSound(c) /\ c # Nobody
  BY Executing
<1>2. /\ \A d \in Commands \ {c} : run'[d] = run[d]
      /\ run'[c].pc = "conclude" /\ run'[c].consequence = "returned"
  BY Concluded DEF Unclaimed
<1>3. commands[c] \in Command /\ commands'[c] = [commands[c] EXCEPT !.effect = "label_removed"]
      /\ \A d \in Commands \ {c} : commands'[d] = commands[d]
  BY DEF Unclaimed, TypeOK, LifecycleTypeOK
<1>4. /\ commands'[c].phase = commands[c].phase /\ commands'[c].effect = "label_removed"
      /\ commands'[c].target = commands[c].target
      /\ commands'[c].consequence = commands[c].consequence
  BY <1>3 DEF Command
<1>5. turn = Nobody /\ turn' = c /\ KindOf[c] = "return" /\ Unlabelling(c)
  BY <1>1 DEF Unclaimed, Keep, Free
<1>6. CommandSound(c)' /\ KindSound(c)'
  BY <1>1, <1>2, <1>4, <1>5 DEF attemptVars
<1>7. StopSound(c)'
  BY <1>5
<1>8. SiblingSound(c)'
  BY <1>1, <1>2, <1>4, <1>5 DEF attemptVars
<1>9. ReturnSound(c)'
  BY <1>1, <1>2, <1>4, <1>5 DEF attemptVars
<1> QED BY <1>1, <1>2, <1>3, <1>4, <1>5, <1>6, <1>7, <1>8, <1>9, CommandOnly DEF attemptVars

LEMMA LabelKeeps ==
  ASSUME TypeOK, Sound, NEW c \in Commands, ClaimRead(c) \/ RemovalAnswers(c)
  PROVE  Sound'
<1>1. /\ Free /\ run[c].pc \in {"claim_read", "removing"}
      /\ UNCHANGED <<attemptVars, order, sibling, origin, service, todo>>
  BY DEF ClaimRead, RemovalAnswers
<1>2. /\ Underway(c) /\ Target(c) \in Attempts /\ rows[Target(c)].state # "absent"
      /\ CommandSound(c) /\ KindSound(c) /\ StopSound(c) /\ SiblingSound(c)
      /\ ReturnSound(c) /\ c # Nobody
  BY <1>1, Executing
<1>3. KindOf[c] = "return"
  BY <1>1, <1>2 DEF KindSound
<1>4. CASE Unclaimed(c)
  BY <1>1, <1>4, UnclaimedKeeps
<1>5. CASE Concluding(c, "rejected") /\ Keep(c) /\ UNCHANGED commands
  BY <1>1, <1>3, <1>5, ConcludingKeeps DEF attemptVars, Free, Keep
<1>6. CASE run' = [run EXCEPT ![c].pc = "removing"] /\ UNCHANGED <<commands, turn>>
  <2>1. /\ run'[c].pc = "removing" /\ \A d \in Commands \ {c} : run'[d] = run[d]
    BY <1>6 DEF TypeOK, LifecycleTypeOK, Run
  <2> USE DEF CommandSound, KindSound, StopSound, SiblingSound, ReturnSound,
              Underway, Target, Unlabelling, SyncStates, Unstarted, attemptVars, Free
  <2>2. CommandSound(c)' /\ KindSound(c)'
    BY <1>1, <1>2, <1>3, <1>6, <2>1
  <2>3. StopSound(c)' /\ SiblingSound(c)'
    BY <1>1, <1>2, <1>3, <1>6, <2>1
  <2>4. ReturnSound(c)'
    BY <1>1, <1>2, <1>3, <1>6, <2>1
  <2> QED BY <1>1, <1>2, <1>6, <2>1, <2>2, <2>3, <2>4, CommandOnly
<1> QED BY <1>4, <1>5, <1>6 DEF ClaimRead, RemovalAnswers

LEMMA RestartBeginsKeeps ==
  ASSUME TypeOK, Sound, NEW c \in Commands, RestartBegins(c)
  PROVE  Sound'
<1>1. /\ run[c].pc = "begin" /\ KindOf[c] = "restart" /\ turn = c /\ turn' \in {c, Nobody}
      /\ UNCHANGED <<attemptVars, order, sibling, origin, serviceVars>>
  BY DEF RestartBegins, Keep, Release
<1>2. CASE sibling[c] # {} /\ Mark(c, "sibling_reserved", "reserved") /\ Keep(c)
  BY <1>1, <1>2, MarkKeeps DEF attemptVars, serviceVars, Keep
<1>3. CASE Concluding(c, "rejected") /\ UNCHANGED commands /\ Keep(c)
  BY <1>1, <1>3, ConcludingKeeps DEF attemptVars, serviceVars, Keep
<1>4. CASE sibling[c] = {} /\ Mark(c, "issue_revalidating", "revalidating")
  BY <1>1, <1>4, MarkKeeps DEF attemptVars, serviceVars
<1> QED BY <1>2, <1>3, <1>4 DEF RestartBegins

LEMMA RevalidatedKeeps ==
  ASSUME TypeOK, Sound, NEW c \in Commands, ClaimedRevalidated(c)
  PROVE  Sound'
<1>1. /\ run[c].pc = "revalidating" /\ turn = Nobody /\ turn' = c
      /\ UNCHANGED <<attemptVars, order, sibling, origin, service, todo>>
  BY DEF ClaimedRevalidated, Keep, Free
<1>2. KindOf[c] = "restart" /\ sibling[c] = {}
  BY <1>1, Executing DEF KindSound, SiblingSound
<1>3. CASE Mark(c, "issue_validated", "admit")
  BY <1>1, <1>2, <1>3, MarkKeeps DEF attemptVars
<1>4. CASE Concluding(c, "rejected") /\ UNCHANGED commands
  BY <1>1, <1>2, <1>4, ConcludingKeeps DEF attemptVars
<1> QED BY <1>3, <1>4 DEF ClaimedRevalidated

LEMMA VisibilityKeeps ==
  ASSUME TypeOK, Sound, NEW c \in Commands, VisibilityBegins(c)
  PROVE  Sound'
<1> USE DEF CommandSound, KindSound, StopSound, SiblingSound, ReturnSound,
            Underway, Target, Unlabelling, SyncStates, Unstarted, attemptVars, serviceVars
<1>1. /\ run[c].pc = "begin" /\ KindOf[c] \in {"archive", "restore"} /\ turn = c /\ turn' = c
      /\ UNCHANGED <<attemptVars, order, sibling, origin, serviceVars>>
  BY DEF VisibilityBegins, Keep
<1>2. /\ Underway(c) /\ Target(c) \in Attempts /\ rows[Target(c)].state # "absent"
      /\ CommandSound(c) /\ KindSound(c) /\ StopSound(c) /\ SiblingSound(c)
      /\ ReturnSound(c) /\ c # Nobody
  BY <1>1, Executing
<1>3. \E x \in {"archived", "restored"} : Concluding(c, x)
  BY DEF VisibilityBegins
<1>4. /\ \A d \in Commands \ {c} : run'[d] = run[d]
      /\ run'[c].pc = "conclude" /\ run'[c].consequence \in {"archived", "restored"}
  BY <1>3, Concluded
<1>5. /\ commands[c] \in Command
      /\ commands'[c] = [commands[c] EXCEPT !.phase = "executing",
                                            !.effect = "visibility_updating"]
      /\ \A d \in Commands \ {c} : commands'[d] = commands[d]
  BY DEF VisibilityBegins, TypeOK, LifecycleTypeOK
<1>6. /\ commands'[c].phase = "executing" /\ commands'[c].effect = "visibility_updating"
      /\ commands'[c].target = commands[c].target
      /\ commands'[c].consequence = commands[c].consequence
  BY <1>5 DEF Command
<1>7. CommandSound(c)' /\ KindSound(c)'
  BY <1>1, <1>2, <1>4, <1>6
<1>8. StopSound(c)' /\ SiblingSound(c)'
  BY <1>1, <1>2, <1>4, <1>6
<1>9. ReturnSound(c)'
  BY <1>1, <1>2, <1>4, <1>6
<1> HIDE DEF CommandSound, KindSound, StopSound, SiblingSound, ReturnSound
<1> QED BY <1>1, <1>2, <1>4, <1>5, <1>6, <1>7, <1>8, <1>9, CommandOnly

LEMMA InterruptsKeeps ==
  ASSUME TypeOK, Sound, NEW c \in Commands, StopInterrupts(c)
  PROVE  Sound'
<1>0. PICK a \in Attempts : a = Target(c)
  BY Executing DEF StopInterrupts
<1>1. /\ run[c].pc = "interrupt" /\ turn = c /\ turn' \in {c, Nobody}
      /\ run' = [run EXCEPT ![c].pc = "reconcile"]
      /\ UNCHANGED <<rows, group, posts, published, commandVars, serviceVars>>
  BY DEF StopInterrupts, Keep, Release
<1>2. /\ Underway(c) /\ a \in Attempts /\ rows[a].state # "absent"
      /\ CommandSound(c) /\ KindSound(c) /\ StopSound(c) /\ SiblingSound(c)
      /\ ReturnSound(c) /\ AttemptSound(a) /\ c # Nobody
  BY <1>0, <1>1, Executing
<1>3. KindOf[c] = "stop"
  BY <1>1, <1>2 DEF KindSound
<1>4. /\ run'[c].pc = "reconcile" /\ \A d \in Commands \ {c} : run'[d] = run[d]
  BY <1>1 DEF TypeOK, LifecycleTypeOK, Run
<1>5. /\ fiber'[a] = "none" /\ \A b \in Attempts \ {a} : fiber'[b] = fiber[b]
      /\ \A b \in Attempts \ {a} : provider'[b] = provider[b]
      /\ provider'[a].pc = "none" \/ provider'[a].aborted
      /\ provider[a].pc = "none" => provider'[a].pc = "none"
  <2>1. CASE fiber[a] = "none"
    <3>1. UNCHANGED <<fiber, provider>>
      BY <1>0, <2>1 DEF StopInterrupts
    <3> QED BY <1>2, <2>1, <3>1 DEF AttemptSound, FiberSound
  <2>2. CASE fiber[a] # "none"
    <3>1. Interrupt(a)
      BY <1>0, <2>2 DEF StopInterrupts
    <3>2. provider'[a] = IF provider[a].pc \in {"none", "resolved", "rejected"}
                         THEN NoPromise ELSE [provider[a] EXCEPT !.aborted = TRUE]
      BY <1>2, <3>1 DEF Interrupt, TypeOK, AttemptTypeOK
    <3>3. provider'[a].pc = "none" \/ provider'[a].aborted
      BY <1>2, <3>2 DEF NoPromise, TypeOK, AttemptTypeOK, Promise
    <3>4. provider[a].pc = "none" => provider'[a].pc = "none"
      BY <3>2 DEF NoPromise
    <3> QED BY <1>2, <3>1, <3>3, <3>4 DEF Interrupt, TypeOK, AttemptTypeOK
  <2> QED BY <2>1, <2>2
<1>6. Moves(a)
  <2>1. rows[a].state \notin {"failed", "completed"}
    BY <1>0, <1>2, <1>3 DEF StopSound
  <2>2. AttemptSound(a)'
    BY <1>1, <1>2, <1>5, <2>1 DEF AttemptSound, FiberSound, ProviderSound, GroupSound,
       AbsentSound, Unstarted, Active, Waiting, commandVars
  <2> QED BY <1>1, <1>2, <1>5, <2>1, <2>2 DEF Moves, Elsewhere, Active, commandVars
<1>7. CommandMoves(c)
  <2> USE DEF CommandSound, KindSound, StopSound, SiblingSound, ReturnSound,
              Underway, Target, Unlabelling, SyncStates, commandVars, serviceVars
  <2>1. CommandSound(c)' /\ KindSound(c)'
    BY <1>1, <1>2, <1>3, <1>4
  <2>2. StopSound(c)'
    BY <1>0, <1>1, <1>2, <1>3, <1>4, <1>5
  <2>3. SiblingSound(c)' /\ ReturnSound(c)'
    BY <1>1, <1>2, <1>3, <1>4
  <2> QED BY <1>1, <1>2, <1>4, <2>1, <2>2, <2>3 DEF CommandMoves
<1> QED BY <1>0, <1>6, <1>7, CommandKeeps

LEMMA ReconcilesKeeps ==
  ASSUME TypeOK, Sound, NEW c \in Commands, StopReconciles(c)
  PROVE  Sound'
<1>0. PICK a \in Attempts : a = Target(c)
  BY Executing DEF StopReconciles
<1>1. /\ run[c].pc = "reconcile" /\ turn \in {c, Nobody} /\ turn' = c
      /\ UNCHANGED <<rows, fiber, provider, posts, claimed, published,
                     order, noted, sibling, refused, origin, serviceVars>>
  BY DEF StopReconciles, Keep
<1>2. /\ Underway(c) /\ a \in Attempts /\ rows[a].state # "absent"
      /\ CommandSound(c) /\ KindSound(c) /\ StopSound(c) /\ SiblingSound(c)
      /\ ReturnSound(c) /\ AttemptSound(a) /\ c # Nobody
  BY <1>0, <1>1, Executing
<1>3. KindOf[c] = "stop"
  BY <1>1, <1>2 DEF KindSound
<1>4. PICK r \in Reconciled(a) :
        /\ group' = [group EXCEPT ![a] = r.left]
        /\ commands' = [commands EXCEPT ![c].effect = "resolved", ![c].result = r.result]
        /\ Concluding(c, StopResult(r.result))
  BY <1>0 DEF StopReconciles
<1>5. fiber[a] = "none" /\ rows[a].state \notin {"failed", "completed"}
  BY <1>0, <1>1, <1>2, <1>3 DEF StopSound
<1>6. /\ group'[a] = r.left /\ \A b \in Attempts \ {a} : group'[b] = group[b]
      /\ r.left = "leader" => group[a] = "leader"
      /\ r.left = "orphans" => MembersSurvive
      /\ r.left # "none" => group[a] # "none"
      /\ r.result # "uncertain" => r.left = "none"
  <2>1. group'[a] = r.left /\ \A b \in Attempts \ {a} : group'[b] = group[b]
    BY <1>4 DEF TypeOK, AttemptTypeOK
  <2>2. /\ group[a] # "none" => rows[a].process \/ rows[a].pending
        /\ group[a] = "orphans" => MembersSurvive /\ group[a] \in Groups
    BY <1>2 DEF AttemptSound, GroupSound, TypeOK, AttemptTypeOK
  <2> QED BY <2>1, <2>2 DEF Reconciled, Signalled, Terminated, Groups
<1>7. Moves(a)
  <2>1. AttemptSound(a)'
    BY <1>1, <1>2, <1>5, <1>6 DEF AttemptSound, FiberSound, ProviderSound, GroupSound,
       AbsentSound, Unstarted, Active, Waiting
  <2> QED BY <1>1, <1>2, <1>5, <1>6, <2>1 DEF Moves, Elsewhere, Active
<1>8. /\ \A d \in Commands \ {c} : commands'[d] = commands[d]
      /\ commands'[c].phase = commands[c].phase /\ commands'[c].effect = "resolved"
      /\ commands'[c].target = commands[c].target /\ commands'[c].result = r.result
      /\ commands'[c].consequence = commands[c].consequence
  <2>1. /\ commands[c] \in Command
        /\ commands'[c] = [commands[c] EXCEPT !.effect = "resolved", !.result = r.result]
        /\ \A d \in Commands \ {c} : commands'[d] = commands[d]
    BY <1>4 DEF TypeOK, LifecycleTypeOK
  <2> QED BY <2>1 DEF Command
<1>9. /\ \A d \in Commands \ {c} : run'[d] = run[d]
      /\ run'[c].pc = "conclude" /\ run'[c].consequence = StopResult(r.result)
  BY <1>4, Concluded
<1>10. CommandMoves(c)
  <2> USE DEF CommandSound, KindSound, StopSound, SiblingSound, ReturnSound,
              Underway, Target, Unlabelling, SyncStates, serviceVars
  <2>1. CommandSound(c)' /\ KindSound(c)'
    BY <1>1, <1>2, <1>3, <1>8, <1>9 DEF StopResult
  <2>2. StopSound(c)'
    BY <1>0, <1>1, <1>2, <1>3, <1>5, <1>6, <1>8, <1>9
  <2>3. SiblingSound(c)' /\ ReturnSound(c)'
    BY <1>1, <1>2, <1>3, <1>8, <1>9 DEF StopResult
  <2> QED BY <1>1, <1>2, <1>8, <1>9, <2>1, <2>2, <2>3 DEF CommandMoves
<1> QED BY <1>0, <1>7, <1>10, CommandKeeps

(* A fiber that fails while the service recovers takes the service down.   *)
LEMMA AbandonKeeps ==
  ASSUME TypeOK, Sound, NEW c \in Commands, Abandon(c), run[c].pc \in {"admit", "conclude"},
         turn = c, sibling[c] = {},
         UNCHANGED <<rows, group, posts, published, commands, order, sibling,
                     origin, todo>>
  PROVE  Sound'
<1>1. /\ run'[c].pc = "idle" /\ run'[c].consequence = "none" /\ turn' = Nobody
      /\ \A d \in Commands \ {c} : run'[d] = run[d]
  BY DEF Abandon, Release, IdleRun, TypeOK, LifecycleTypeOK
<1>2. c # Nobody
  BY LifecycleAssumption
<1>3. service # "down" /\ service \in {"recovering", "up"}
  BY Executing DEF TypeOK, LifecycleTypeOK
<1>4. \/ /\ service = "recovering" /\ service' = "down"
         /\ \A b \in Attempts : fiber'[b] = "none" /\ provider'[b] = NoPromise
      \/ service = "up" /\ UNCHANGED <<service, fiber, provider>>
  BY <1>3 DEF Abandon
<1>5. \A b \in Attempts :
        /\ fiber'[b] \in {"none", fiber[b]}
        /\ \/ fiber'[b] = fiber[b] /\ provider'[b] = provider[b]
           \/ fiber'[b] = "none" /\ provider'[b] = NoPromise
  BY <1>4
<1> USE DEF Sound
<1>6. AttemptInv'
  <2> SUFFICES ASSUME NEW b \in Attempts
               PROVE  AttemptSound(b)'
    BY DEF AttemptInv
  <2>1. AttemptSound(b)
    BY DEF AttemptInv
  <2> QED BY <1>5, <2>1 DEF AttemptSound, FiberSound, ProviderSound, GroupSound,
             AbsentSound, Unstarted, Active, Waiting, NoPromise
<1>7. OneActive' /\ ForkInv'
  BY <1>5 DEF OneActive, ForkInv, Active
<1>8. CommandInv' /\ KindInv'
  BY <1>1, <1>2 DEF CommandInv, CommandSound, KindInv, KindSound, Underway, Target, SyncStates
<1>9. OriginInv'
  BY DEF OriginInv
<1>10. StopInv'
  <2> SUFFICES ASSUME NEW d \in Commands
               PROVE  StopSound(d)'
    BY DEF StopInv
  <2>1. StopSound(d) /\ CommandSound(d)
    BY DEF StopInv, CommandInv
  <2> QED BY <1>1, <1>2, <1>5, <2>1, TargetTyped DEF StopSound, CommandSound, Target, Underway
<1>11. SiblingInv'
  <2> SUFFICES ASSUME NEW d \in Commands
               PROVE  SiblingSound(d)'
    BY DEF SiblingInv
  <2>1. SiblingSound(d)
    BY DEF SiblingInv
  <2>2. CASE d = c
    BY <1>1, <2>2 DEF SiblingSound
  <2>3. CASE d # c
    <3>1. Underway(d)' = Underway(d) /\ \A e \in Commands : Target(e)' = Target(e)
      BY DEF Underway, Target
    <3>2. Underway(d) /\ sibling[d] # {} => service' = "down"
      BY <1>3, <1>4, <2>1, <2>3 DEF SiblingSound
    <3>3. ASSUME Underway(d), NEW b \in sibling[d]
          PROVE  Unstarted(b)' /\ fiber'[b] = "none"
      <4>1. b \in Attempts
        BY SiblingTyped
      <4> QED BY <1>5, <2>1, <2>3, <3>3, <4>1 DEF SiblingSound, Unstarted, NoPromise
    <3> QED BY <1>1, <2>1, <2>3, <3>1, <3>2, <3>3 DEF SiblingSound
  <2> QED BY <2>2, <2>3
<1>12. OrderInv'
  <2>1. \A d \in Commands : Underway(d)' = Underway(d) /\ (run[d].pc = "idle" => run'[d].pc = "idle")
    BY <1>1 DEF Underway
  <2> QED BY <1>4, <2>1 DEF OrderInv
<1>13. ReturnInv'
  <2> SUFFICES ASSUME NEW d \in Commands
               PROVE  ReturnSound(d)'
    BY DEF ReturnInv
  <2>1. ReturnSound(d)
    BY DEF ReturnInv
  <2> QED BY <1>1, <1>5, <2>1 DEF ReturnSound, Underway, Target, Unlabelling
<1>14. Quiet'
  <2>1. service = "recovering" => \A d \in Commands \ {c} : run[d].pc = "idle"
    BY DEF OrderInv
  <2> QED BY <1>1, <1>4, <2>1 DEF Quiet, NoPromise
<1> QED BY <1>6, <1>7, <1>8, <1>9, <1>10, <1>11, <1>12, <1>13, <1>14

(* The end of a command takes effect on the row of its target.             *)
LEMMA ConcludeKeeps ==
  ASSUME TypeOK, Sound, NEW c \in Commands, Conclude(c)
  PROVE  Sound'
<1>0. PICK a \in Attempts : a = Target(c)
  BY Executing DEF Conclude
<1> DEFINE row == Consequent(rows[a], run[c].consequence)
<1>1. /\ run[c].pc = "conclude" /\ turn = c
      /\ UNCHANGED <<group, posts, claimed, published, commands, order,
                     sibling, refused, origin, todo, looking, paused, disturbances>>
  BY DEF Conclude
<1>2. /\ Underway(c) /\ a \in Attempts /\ rows[a].state # "absent"
      /\ CommandSound(c) /\ KindSound(c) /\ StopSound(c) /\ SiblingSound(c)
      /\ ReturnSound(c) /\ AttemptSound(a) /\ c # Nobody
  BY <1>0, <1>1, Executing
<1>3. rows[a] \in Row
  BY DEF TypeOK, AttemptTypeOK
<1>4. ASSUME KindOf[c] # "stop"
      PROVE  /\ row.state = rows[a].state /\ row.process = rows[a].process
             /\ row.pending = rows[a].pending /\ row.workspace = rows[a].workspace
  <2>1. run[c].consequence \notin {"stopped", "stop_uncertain"}
    BY <1>1, <1>2, <1>4 DEF KindSound
  <2> QED BY <1>3, <2>1 DEF Consequent, Row
<1>5. ASSUME KindOf[c] = "restart"
      PROVE  row = rows[a] /\ Writable(a, row)
  <2>1. run[c].consequence \in {"rejected", "restarted"}
    BY <1>1, <1>2, <1>5 DEF SiblingSound
  <2>2. row = rows[a]
    BY <2>1 DEF Consequent
  <2> QED BY <2>2 DEF Writable, Sound, OneActive, Active
<1>6. ASSUME KindOf[c] = "stop"
      PROVE  /\ fiber[a] = "none" /\ rows[a].state \notin {"failed", "completed"}
             /\ row.process => rows[a].process
             /\ row.workspace = rows[a].workspace
             /\ \/ row.state = "stopped" /\ group[a] = "none"
                \/ row.state = "stop_uncertain" /\ row.process = rows[a].process
                   /\ row.pending = rows[a].pending
  <2>1. /\ fiber[a] = "none" /\ rows[a].state \notin {"failed", "completed"}
        /\ run[c].consequence = StopResult(commands[c].result)
        /\ commands[c].result # "uncertain" => group[a] = "none"
    BY <1>0, <1>1, <1>2, <1>6 DEF StopSound
  <2>2. CASE commands[c].result = "uncertain"
    BY <1>3, <2>1, <2>2 DEF StopResult, Consequent, Row
  <2>3. CASE commands[c].result # "uncertain"
    BY <1>3, <2>1, <2>3 DEF StopResult, Consequent, Row
  <2> QED BY <2>1, <2>2, <2>3
<1> HIDE DEF row
<1>7. ASSUME run' = [run EXCEPT ![c].pc = "finish"], Keep(c),
             UNCHANGED <<fiber, provider, service>>, Moves(a)
      PROVE  Sound'
  <2>1. /\ run'[c].pc = "finish" /\ run'[c].consequence = run[c].consequence
        /\ \A d \in Commands \ {c} : run'[d] = run[d]
    BY <1>7 DEF TypeOK, LifecycleTypeOK, Run
  <2>2. turn' = c
    BY <1>7 DEF Keep
  <2>3. /\ rows'[a].state # "absent"
        /\ rows[a].state = "failed" => rows'[a].state = "failed"
        /\ fiber[a] = "none" /\ rows'[a].state \in {"failed", "completed"} =>
             rows[a].state = rows'[a].state
        /\ \A b \in Attempts \ {a} : rows'[b] = rows[b]
    BY <1>7 DEF Moves, Elsewhere
  <2> USE DEF CommandSound, KindSound, StopSound, SiblingSound, ReturnSound,
              Underway, Target, Unlabelling, SyncStates, Unstarted
  <2>4. CommandSound(c)' /\ KindSound(c)'
    BY <1>0, <1>1, <1>2, <2>1, <2>2, <2>3
  <2>5. StopSound(c)'
    BY <1>0, <1>1, <1>2, <1>7, <2>1, <2>2, <2>3
  <2>6. SiblingSound(c)'
    <3>1. sibling[c] \subseteq Attempts \ {a}
      BY <1>0, <1>2, SiblingTyped
    <3> QED BY <1>1, <1>2, <1>7, <2>1, <2>2, <2>3, <3>1
  <2>7. ReturnSound(c)'
    BY <1>0, <1>1, <1>2, <1>7, <2>1, <2>2, <2>3
  <2>8. CommandMoves(c)
    BY <1>1, <1>2, <1>7, <2>1, <2>2, <2>4, <2>5, <2>6, <2>7 DEF CommandMoves
  <2> QED BY <1>0, <1>7, <2>8, CommandKeeps
<1>8. CASE /\ Writable(a, row) /\ Write(a, row)
           /\ run' = [run EXCEPT ![c].pc = "finish"] /\ Keep(c)
           /\ UNCHANGED <<fiber, provider, service>>
  <2>1. rows'[a] = row /\ \A b \in Attempts \ {a} : rows'[b] = rows[b]
    BY <1>8 DEF Write, TypeOK, AttemptTypeOK
  <2>2. CASE KindOf[c] # "stop"
    <3>1. Unmoved
      BY <1>1, <1>4, <1>8, <2>1, <2>2 DEF Unmoved
    <3>2. Moves(a)
      BY <1>2, <2>1, <3>1, Still DEF Sound
    <3> QED BY <1>7, <1>8, <3>2
  <2>3. CASE KindOf[c] = "stop"
    <3>1. \A b \in Attempts \ {a} : row.state = "stop_uncertain" => ~Active(b)
      BY <1>8 DEF Writable, ActiveStates
    <3>2. AttemptSound(a)'
      BY <1>1, <1>2, <1>6, <1>8, <2>1, <2>3 DEF AttemptSound, FiberSound, ProviderSound,
         GroupSound, AbsentSound, Unstarted, Active, Waiting, ActiveStates
    <3>3. Moves(a)
      BY <1>1, <1>2, <1>6, <1>8, <2>1, <2>3, <3>1, <3>2 DEF Moves, Elsewhere, Active, ActiveStates
    <3> QED BY <1>7, <1>8, <3>3
  <2> QED BY <2>2, <2>3
<1>9. CASE /\ run' = [run EXCEPT ![c].pc = "finish"] /\ Keep(c)
           /\ UNCHANGED <<rows, fiber, provider, noted, service>>
  <2>1. Moves(a)
    BY <1>1, <1>2, <1>9, Still DEF Sound, Unmoved
  <2> QED BY <1>7, <1>9, <2>1
<1>10. CASE ~Writable(a, row) /\ Abandon(c) /\ UNCHANGED <<rows, noted>>
  <2>1. sibling[c] = {}
    BY <1>2, <1>5, <1>10 DEF KindSound
  <2> QED BY <1>1, <1>10, <2>1, AbandonKeeps
<1> QED BY <1>0, <1>8, <1>9, <1>10 DEF Conclude, row

(* A step that changes nothing the invariants speak of.                    *)
LEMMA IdleKeeps ==
  ASSUME Sound, Unmoved, UNCHANGED <<commands, order, sibling, run, turn, service, todo>>,
         TypeOK
  PROVE  Sound'
<1> USE DEF Sound, Unmoved
<1>1. AttemptInv' /\ OneActive' /\ ForkInv'
  BY DEF AttemptInv, OneActive, ForkInv, AttemptSound, FiberSound, ProviderSound,
     GroupSound, AbsentSound, Unstarted, Active
<1>2. Quiet' /\ KindInv' /\ OriginInv' /\ OrderInv'
  BY DEF Quiet, KindInv, KindSound, OriginInv, OrderInv, Underway
<1>3. ASSUME NEW c \in Commands
      PROVE  /\ CommandSound(c)' /\ StopSound(c)' /\ SiblingSound(c)' /\ ReturnSound(c)'
  <2>1. CommandSound(c) /\ StopSound(c) /\ SiblingSound(c) /\ ReturnSound(c)
    BY DEF CommandInv, StopInv, SiblingInv, ReturnInv
  <2>2. /\ Target(c)' = Target(c) /\ Underway(c)' = Underway(c)
        /\ Unlabelling(c)' = Unlabelling(c) /\ Target(c) \in Attempts \cup {Nobody}
        /\ sibling[c] \subseteq Attempts
    BY TargetTyped, SiblingTyped DEF Target, Underway, Unlabelling
  <2>3. CommandSound(c)' /\ ReturnSound(c)'
    BY <2>1, <2>2 DEF CommandSound, ReturnSound
  <2>4. StopSound(c)'
    BY <2>1, <2>2 DEF CommandSound, StopSound
  <2>5. SiblingSound(c)'
    BY <2>1, <2>2 DEF SiblingSound, Unstarted, Target
  <2> QED BY <2>3, <2>4, <2>5
<1>4. CommandInv' /\ StopInv' /\ SiblingInv' /\ ReturnInv'
  BY <1>3 DEF CommandInv, StopInv, SiblingInv, ReturnInv
<1> QED BY <1>1, <1>2, <1>4

(* The sibling's fiber is forked.                                          *)
LEMMA ForksKeeps ==
  ASSUME TypeOK, Sound, NEW c \in Commands, RestartForks(c)
  PROVE  Sound'
<1>1. /\ run[c].pc = "reserved" /\ turn = c /\ turn' = c
      /\ commands' = [commands EXCEPT ![c].effect = "sibling_reserved"]
      /\ Concluding(c, "restarted")
      /\ UNCHANGED <<rows, provider, group, posts, claimed, published,
                     order, noted, sibling, refused, origin, serviceVars>>
  BY DEF RestartForks, Keep
<1>2. PICK a \in sibling[c] : Fork(a)
  BY DEF RestartForks
<1>3. /\ Underway(c) /\ Target(c) \in Attempts /\ rows[Target(c)].state # "absent"
      /\ CommandSound(c) /\ KindSound(c) /\ StopSound(c) /\ SiblingSound(c)
      /\ ReturnSound(c) /\ c # Nobody
  BY <1>1, Executing
<1>4. /\ a \in Attempts /\ sibling[c] = {a} /\ origin[a] = c /\ KindOf[c] = "restart"
      /\ Unstarted(a) /\ rows[a].state \in {"reserved", "interrupted"}
      /\ \A d \in Commands : Target(d) # a
  BY <1>1, <1>2, <1>3, SiblingTyped DEF Sound, OriginInv, KindSound, SiblingSound
<1>5. fiber'[a] = "revalidate" /\ \A b \in Attempts \ {a} : fiber'[b] = fiber[b]
  BY <1>2, <1>4 DEF Fork, TypeOK, AttemptTypeOK
<1>6. /\ \A d \in Commands \ {c} : commands'[d] = commands[d]
      /\ commands'[c].phase = commands[c].phase /\ commands'[c].effect = "sibling_reserved"
      /\ commands'[c].target = commands[c].target /\ commands'[c].result = commands[c].result
      /\ commands'[c].consequence = commands[c].consequence
  <2>1. /\ commands[c] \in Command
        /\ commands'[c] = [commands[c] EXCEPT !.effect = "sibling_reserved"]
        /\ \A d \in Commands \ {c} : commands'[d] = commands[d]
    BY <1>1 DEF TypeOK, LifecycleTypeOK
  <2> QED BY <2>1 DEF Command
<1>7. /\ \A d \in Commands \ {c} : run'[d] = run[d]
      /\ run'[c].pc = "conclude" /\ run'[c].consequence = "restarted"
  BY <1>1, Concluded
<1>8. \A d \in Commands : /\ Underway(d)' = Underway(d) /\ Target(d)' = Target(d)
                          /\ run'[d].pc = "idle" <=> run[d].pc = "idle"
  BY <1>1, <1>6, <1>7 DEF Underway, Target
<1> USE DEF Sound
<1>9. AttemptInv'
  <2>1. AttemptSound(a) /\ provider[a].pc = "none" /\ ~provider[a].aborted
    BY <1>4 DEF AttemptInv, AttemptSound, FiberSound, SiblingSound, Unstarted
  <2>2. AttemptSound(a)'
    BY <1>1, <1>4, <1>5, <2>1 DEF AttemptSound, FiberSound, ProviderSound, GroupSound,
       AbsentSound, Unstarted, Active, Waiting
  <2>3. ASSUME NEW b \in Attempts \ {a}
        PROVE  AttemptSound(b)'
    BY <1>1, <1>5 DEF AttemptInv, AttemptSound, FiberSound, ProviderSound, GroupSound,
       AbsentSound, Unstarted, Active, Waiting
  <2> QED BY <2>2, <2>3 DEF AttemptInv
<1>10. OneActive' /\ OriginInv' /\ Quiet'
  BY <1>1, <1>3, <1>4, Executing DEF OneActive, Active, OriginInv, Quiet, serviceVars
<1>11. ForkInv'
  BY <1>1, <1>3, <1>4, <1>5 DEF ForkInv, Active
<1>12. CommandInv' /\ KindInv'
  BY <1>1, <1>3, <1>6, <1>7, <1>8 DEF CommandInv, CommandSound, KindInv, KindSound, SyncStates
<1>13. OrderInv'
  BY <1>1, <1>8 DEF OrderInv, serviceVars
<1>14. StopInv' /\ ReturnInv'
  <2>1. ASSUME NEW d \in Commands
        PROVE  StopSound(d)' /\ ReturnSound(d)'
    <3>1. StopSound(d) /\ ReturnSound(d) /\ CommandSound(d)
      BY DEF StopInv, ReturnInv, CommandInv
    <3>2. Target(d) \in Attempts => fiber'[Target(d)] = fiber[Target(d)]
      BY <1>4, <1>5
    <3>3. CASE d = c
      BY <1>1, <1>4, <1>7, <3>3 DEF StopSound, ReturnSound
    <3>4. CASE d # c
      <4>1. Unlabelling(d)' = Unlabelling(d) /\ commands'[d] = commands[d] /\ run'[d] = run[d]
        BY <1>6, <1>7, <3>4 DEF Unlabelling
      <4>2. StopSound(d)'
        BY <1>1, <1>8, <3>1, <3>2, <3>4, <4>1, TargetTyped DEF StopSound, CommandSound
      <4>3. ReturnSound(d)'
        BY <1>1, <1>8, <3>1, <3>2, <3>4, <4>1 DEF ReturnSound
      <4> QED BY <4>2, <4>3
    <3> QED BY <3>3, <3>4
  <2> QED BY <2>1 DEF StopInv, ReturnInv
<1>15. SiblingInv'
  <2>1. SiblingSound(c)'
    BY <1>1, <1>3, <1>4, <1>5, <1>7, <1>8 DEF SiblingSound, Unstarted
  <2>2. ASSUME NEW d \in Commands \ {c}
        PROVE  SiblingSound(d)'
    <3>1. SiblingSound(d) /\ a \notin sibling[d] /\ sibling[d] \subseteq Attempts
      BY <1>4, SiblingTyped DEF SiblingInv, OriginInv
    <3> QED BY <1>1, <1>5, <1>7, <1>8, <3>1 DEF SiblingSound, Unstarted, serviceVars
  <2> QED BY <2>1, <2>2 DEF SiblingInv
<1> QED BY <1>9, <1>10, <1>11, <1>12, <1>13, <1>14, <1>15

(* A new attempt: it was nobody's target and nobody's sibling.             *)
LEMMA Arrival ==
  ASSUME TypeOK, Sound, NEW a \in Absent, \A b \in Attempts : ~Active(b),
         Write(a, ReservedRow), fiber' = fiber \/ Fork(a),
         UNCHANGED <<provider, group, posts, published, commands, service, todo, turn>>,
         \A b \in Attempts \ {a} : origin'[b] = origin[b]
  PROVE  /\ AttemptInv' /\ OneActive' /\ ForkInv' /\ a \in Attempts
         /\ origin[a] = Nobody /\ Unstarted(a)' /\ a \notin posts
         /\ \A b \in Attempts \ {a} : rows'[b] = rows[b] /\ fiber'[b] = fiber[b]
         /\ rows'[a].state = "reserved"
         /\ \A d \in Commands : Target(d) # a /\ a \notin sibling[d]
         /\ \A d \in Commands :
              run'[d] = run[d] /\ sibling'[d] = sibling[d] =>
                /\ CommandSound(d)' /\ KindSound(d)' /\ StopSound(d)' /\ ReturnSound(d)'
                /\ SiblingSound(d)'
<1> USE DEF Sound
<1>1. a \in Attempts /\ rows[a].state = "absent"
  BY DEF Absent
<1>2. /\ Unstarted(a) /\ fiber[a] = "none" /\ a \notin posts /\ origin[a] = Nobody
      /\ AttemptSound(a)
  BY <1>1 DEF AttemptInv, AttemptSound, AbsentSound
<1>3. /\ rows'[a].state = "reserved" /\ ~rows'[a].process /\ ~rows'[a].pending
      /\ ~rows'[a].workspace /\ fiber'[a] \in {"none", "revalidate"}
      /\ \A b \in Attempts \ {a} : rows'[b] = rows[b] /\ fiber'[b] = fiber[b]
  <2>1. rows'[a] = ReservedRow /\ \A b \in Attempts \ {a} : rows'[b] = rows[b]
    BY <1>1 DEF Write, TypeOK, AttemptTypeOK
  <2>2. /\ fiber'[a] \in {"none", "revalidate"}
        /\ \A b \in Attempts \ {a} : fiber'[b] = fiber[b]
    BY <1>1, <1>2 DEF Fork, TypeOK, AttemptTypeOK
  <2> QED BY <2>1, <2>2 DEF ReservedRow, AbsentRow
<1>4. AttemptInv'
  <2>1. AttemptSound(a)'
    BY <1>2, <1>3 DEF AttemptSound, FiberSound, ProviderSound, GroupSound,
       AbsentSound, Unstarted, Active, ActiveStates, Waiting
  <2>2. ASSUME NEW b \in Attempts \ {a}
        PROVE  AttemptSound(b)'
    BY <1>3 DEF AttemptInv, AttemptSound, FiberSound, ProviderSound, GroupSound,
       AbsentSound, Unstarted, Active, Waiting
  <2> QED BY <2>1, <2>2 DEF AttemptInv
<1>5. OneActive' /\ ForkInv'
  BY <1>2, <1>3 DEF OneActive, ForkInv, Active, ActiveStates
<1>6. Unstarted(a)'
  BY <1>2, <1>3 DEF Unstarted
<1>7. \A d \in Commands : Target(d) # a /\ a \notin sibling[d]
  <2>1. a # Nobody /\ Nobody \notin Commands
    BY <1>1, LifecycleAssumption
  <2> QED BY <1>1, <1>2, <2>1 DEF CommandInv, CommandSound, OriginInv
<1>8. ASSUME NEW d \in Commands, run'[d] = run[d], sibling'[d] = sibling[d]
      PROVE  /\ CommandSound(d)' /\ KindSound(d)' /\ StopSound(d)' /\ ReturnSound(d)'
             /\ SiblingSound(d)'
  <2>1. /\ CommandSound(d) /\ KindSound(d) /\ StopSound(d) /\ ReturnSound(d)
        /\ SiblingSound(d)
    BY DEF CommandInv, KindInv, StopInv, ReturnInv, SiblingInv
  <2>2. /\ \A e \in Commands : Target(e)' = Target(e)
        /\ Underway(d)' = Underway(d) /\ Unlabelling(d)' = Unlabelling(d)
        /\ Target(d) \in Attempts \cup {Nobody} /\ Target(d) # a
        /\ sibling[d] \subseteq Attempts \ {a}
    BY <1>7, TargetTyped, SiblingTyped DEF Target, Underway, Unlabelling
  <2>3. CommandSound(d)' /\ KindSound(d)'
    BY <1>3, <1>8, <2>1, <2>2 DEF CommandSound, KindSound
  <2>4. StopSound(d)'
    BY <1>3, <1>8, <2>1, <2>2 DEF StopSound, CommandSound
  <2>5. ReturnSound(d)'
    BY <1>3, <1>8, <2>1, <2>2 DEF ReturnSound
  <2>6. SiblingSound(d)'
    BY <1>3, <1>8, <2>1, <2>2 DEF SiblingSound, Unstarted
  <2> QED BY <2>3, <2>4, <2>5, <2>6
<1> QED BY <1>1, <1>2, <1>3, <1>4, <1>5, <1>6, <1>7, <1>8

LEMMA AdmitKeeps ==
  ASSUME TypeOK, Sound, NEW a \in Attempts, Admit(a)
  PROVE  Sound'
<1>1. /\ a \in Absent /\ \A b \in Attempts : ~Active(b) /\ service = "up"
      /\ Write(a, ReservedRow) /\ Fork(a)
      /\ UNCHANGED <<provider, group, posts, claimed, published, commandVars, run,
                     turn, serviceVars>>
  BY DEF Admit
<1>2. /\ AttemptInv' /\ OneActive' /\ ForkInv'
      /\ \A d \in Commands : /\ CommandSound(d)' /\ KindSound(d)' /\ StopSound(d)'
                             /\ ReturnSound(d)' /\ SiblingSound(d)'
  BY <1>1, Arrival DEF commandVars, serviceVars
<1>3. OriginInv' /\ OrderInv' /\ Quiet'
  BY <1>1 DEF Sound, OriginInv, OrderInv, Quiet, Underway, commandVars, serviceVars
<1> QED BY <1>2, <1>3 DEF Sound, CommandInv, KindInv, StopInv, ReturnInv, SiblingInv

LEMMA AdmitsKeeps ==
  ASSUME TypeOK, Sound, NEW c \in Commands, RestartAdmits(c)
  PROVE  Sound'
<1>1. /\ run[c].pc = "admit" /\ turn = c
      /\ UNCHANGED <<group, posts, claimed, published, commands, order, noted,
                     todo, looking, paused, disturbances>>
  BY DEF RestartAdmits
<1>2. /\ Underway(c) /\ Target(c) \in Attempts /\ CommandSound(c) /\ KindSound(c)
      /\ SiblingSound(c) /\ ReturnSound(c) /\ service # "down" /\ c # Nobody
  BY <1>1, Executing
<1>3. KindOf[c] = "restart" /\ sibling[c] = {}
  BY <1>1, <1>2 DEF KindSound, SiblingSound
<1>4. CASE Abandon(c) /\ UNCHANGED <<rows, sibling, refused, origin>>
  BY <1>1, <1>3, <1>4, AbandonKeeps
<1>5. CASE Concluding(c, "rejected") /\ Keep(c)
           /\ UNCHANGED <<rows, fiber, provider, sibling, origin, service>>
  BY <1>1, <1>3, <1>5, ConcludingKeeps DEF Keep
<1>6. ASSUME \A b \in Attempts : ~Active(b), NEW a \in Absent, Write(a, ReservedRow),
             sibling' = [sibling EXCEPT ![c] = {a}], origin' = [origin EXCEPT ![a] = c],
             run' = [run EXCEPT ![c].pc = "reserved"], Keep(c),
             UNCHANGED <<fiber, provider, refused, service>>
      PROVE  Sound'
  <2>1. a \in Attempts
    BY DEF Absent
  <2>2. /\ origin'[a] = c /\ \A b \in Attempts \ {a} : origin'[b] = origin[b]
        /\ sibling'[c] = {a} /\ \A d \in Commands \ {c} : sibling'[d] = sibling[d]
        /\ run'[c].pc = "reserved" /\ run'[c].consequence = run[c].consequence
        /\ \A d \in Commands \ {c} : run'[d] = run[d]
        /\ turn' = c
    BY <1>6, <2>1 DEF TypeOK, LifecycleTypeOK, Run, Keep
  <2>3. /\ AttemptInv' /\ OneActive' /\ ForkInv'
        /\ origin[a] = Nobody /\ Unstarted(a)' /\ a \notin posts
        /\ \A b \in Attempts \ {a} : rows'[b] = rows[b] /\ fiber'[b] = fiber[b]
        /\ rows'[a].state = "reserved"
        /\ \A d \in Commands : Target(d) # a /\ a \notin sibling[d]
        /\ \A d \in Commands \ {c} :
             /\ CommandSound(d)' /\ KindSound(d)' /\ StopSound(d)' /\ ReturnSound(d)'
             /\ SiblingSound(d)'
    BY <1>1, <1>6, <2>2, Arrival
  <2>4. fiber[a] = "none"
    BY <1>6, <2>1 DEF Sound, AttemptInv, AttemptSound, AbsentSound, Absent
  <2>5. /\ \A d \in Commands : Underway(d)' = Underway(d) /\ Target(d)' = Target(d)
        /\ \A d \in Commands : run'[d].pc = "idle" <=> run[d].pc = "idle"
    BY <1>1, <2>2 DEF Underway, Target
  <2>6. CommandSound(c)' /\ KindSound(c)'
    BY <1>1, <1>2, <1>3, <2>2, <2>3, <2>5 DEF CommandSound, KindSound, SyncStates, Underway
  <2>7. StopSound(c)' /\ ReturnSound(c)'
    BY <1>3, <2>2 DEF StopSound, ReturnSound
  <2>8. SiblingSound(c)'
    BY <1>1, <1>3, <1>6, <2>2, <2>3, <2>4, <2>5 DEF SiblingSound
  <2>9. OriginInv'
    BY <1>3, <2>1, <2>2, <2>3 DEF Sound, OriginInv
  <2>10. OrderInv' /\ Quiet'
    BY <1>1, <1>2, <1>6, <2>5 DEF Sound, OrderInv, Quiet
  <2> QED BY <2>3, <2>6, <2>7, <2>8, <2>9, <2>10
          DEF Sound, CommandInv, KindInv, StopInv, ReturnInv, SiblingInv
<1> QED BY <1>4, <1>5, <1>6 DEF RestartAdmits

LEMMA FinishKeeps ==
  ASSUME TypeOK, Sound, NEW c \in Commands, Finish(c)
  PROVE  Sound' /\ TypeOK'
<1>0. PICK a \in Attempts : a = Target(c)
  BY Executing DEF Finish
<1>1. /\ run[c].pc = "finish" /\ turn = c /\ turn' = Nobody
      /\ UNCHANGED <<attemptVars, noted, sibling, refused, origin, serviceVars>>
  BY DEF Finish, Release
<1>2. /\ Underway(c) /\ rows[a].state # "absent"
      /\ CommandSound(c) /\ KindSound(c) /\ StopSound(c) /\ SiblingSound(c)
      /\ ReturnSound(c) /\ service # "down" /\ c # Nobody
  BY <1>0, <1>1, Executing
<1>3. /\ \A d \in Commands \ {c} : commands'[d] = commands[d] /\ run'[d] = run[d]
      /\ commands'[c].phase = "final" /\ commands'[c].effect = "complete"
      /\ commands'[c].target = commands[c].target
      /\ commands'[c].consequence = run[c].consequence
      /\ run'[c] = IdleRun
  <2>1. /\ commands[c] \in Command
        /\ commands'[c] = [commands[c] EXCEPT !.phase = "final", !.effect = "complete",
                                              !.consequence = run[c].consequence]
        /\ \A d \in Commands \ {c} : commands'[d] = commands[d] /\ run'[d] = run[d]
        /\ run'[c] = IdleRun
    BY DEF Finish, TypeOK, LifecycleTypeOK
  <2> QED BY <2>1 DEF Command
<1>4. c \in Range(order) /\ IsInjective(order)
  BY <1>2 DEF Sound, OrderInv
<1>5. TypeOK' /\ IsInjective(order') /\ Range(order') = Range(order) \ {c}
  BY <1>4, FinishTyped
<1>6. Moves(a)
  BY <1>1, <1>2, Still DEF Sound, Unmoved, attemptVars
<1>7. ASSUME NEW d \in Commands \ {c}
      PROVE  /\ CommandSound(d)' /\ KindSound(d)' /\ StopSound(d)' /\ ReturnSound(d)'
             /\ SiblingSound(d)' /\ Underway(d)' = Underway(d)
  <2>1. d \in Commands /\ d # c /\ d # Nobody
    BY LifecycleAssumption
  <2>2. /\ commands'[d] = commands[d] /\ run'[d] = run[d] /\ sibling'[d] = sibling[d]
        /\ turn # d /\ turn' # d /\ UNCHANGED <<service, todo>>
    BY <1>1, <1>3, <2>1 DEF serviceVars
  <2>3. \A e \in Commands : Target(e)' = Target(e)
    BY <1>3 DEF Target
  <2>4. Underway(d) => a \notin sibling[d]
    BY <1>0, <2>1 DEF Sound, SiblingInv, SiblingSound
  <2>5. Elsewhere(a)
    BY <1>6 DEF Moves
  <2>6. Underway(d)' = Underway(d)
    BY <2>2 DEF Underway
  <2> QED BY <1>6, <2>1, <2>2, <2>3, <2>4, <2>5, <2>6, OtherCommand, OtherSibling DEF Sound
<1>8. CommandSound(c)' /\ KindSound(c)' /\ ~Underway(c)'
  BY <1>0, <1>1, <1>2, <1>3 DEF CommandSound, KindSound, Underway, Target, SyncStates, IdleRun,
     attemptVars
<1>9. StopSound(c)' /\ SiblingSound(c)'
  BY <1>3, <1>8 DEF StopSound, SiblingSound, IdleRun
<1>10. ReturnSound(c)'
  <2>1. UNCHANGED <<rows, fiber, group, published, origin>> /\ Target(c)' = Target(c)
    BY <1>1, <1>3 DEF attemptVars, Target
  <2>2. commands'[c].consequence = "returned" => Unlabelling(c) /\ KindOf[c] = "return"
    BY <1>1, <1>2, <1>3 DEF ReturnSound, KindSound
  <2> QED BY <1>2, <1>3, <1>8, <2>1, <2>2 DEF ReturnSound, IdleRun
<1> USE DEF Sound
<1>11. AttemptInv' /\ OneActive' /\ ForkInv'
  BY <1>6, MovedAttempts
<1>12. OriginInv' /\ Quiet'
  BY <1>1, <1>2 DEF OriginInv, Quiet, serviceVars
<1>13. OrderInv'
  <2>1. \A d \in Commands : Underway(d)' <=> Underway(d) /\ d # c
    BY <1>7, <1>8
  <2>2. \A d \in Commands : run'[d].pc # "idle" => run[d].pc # "idle"
    BY <1>1, <1>3
  <2>3. UNCHANGED <<todo, service>>
    BY <1>1 DEF serviceVars
  <2>4. Range(order') = {d \in Commands : Underway(d)}'
    BY <1>5, <2>1 DEF OrderInv
  <2>5. Range(todo') \subseteq {d \in Commands : Underway(d) /\ run[d].pc = "idle"}'
    BY <1>1, <2>1, <2>2, <2>3 DEF OrderInv
  <2> QED BY <1>5, <2>2, <2>3, <2>4, <2>5 DEF OrderInv
<1> QED BY <1>5, <1>7, <1>8, <1>9, <1>10, <1>11, <1>12, <1>13
        DEF CommandInv, KindInv, StopInv, ReturnInv, SiblingInv

(* A new command, or a stored one that is taken up again.                  *)
LEMMA BeginKeeps ==
  ASSUME TypeOK, Sound, NEW c \in Commands, NEW a \in Attempts, Begin(c, a)
  PROVE  Sound'
<1>1. /\ service = "up" /\ turn = Nobody
      /\ commands[c].phase = "unknown" /\ rows[a].state # "absent"
      /\ UNCHANGED <<attemptVars, noted, sibling, refused, origin, serviceVars>>
  BY DEF Begin, Free
<1>2. /\ CommandSound(c) /\ KindSound(c) /\ StopSound(c) /\ SiblingSound(c)
      /\ ReturnSound(c) /\ c # Nobody /\ ~Underway(c) /\ run[c].pc = "idle"
      /\ sibling[c] = {} /\ Target(c) = Nobody /\ commands[c].consequence = "none"
      /\ a # Nobody
  BY <1>1, LifecycleAssumption DEF Sound, CommandInv, KindInv, StopInv, SiblingInv,
     ReturnInv, CommandSound, Underway
<1>3. Moves(a)
  BY <1>1, Still DEF Sound, Unmoved, attemptVars
<1>4. AttemptInv' /\ OneActive' /\ ForkInv'
  BY <1>3, MovedAttempts DEF Sound
<1>5. OriginInv' /\ Quiet'
  BY <1>1 DEF Sound, OriginInv, Quiet, serviceVars
<1>6. \A d \in Commands : Underway(d) => sibling[d] = {}
  <2> SUFFICES ASSUME NEW d \in Commands, Underway(d), sibling[d] # {}
               PROVE  FALSE
    OBVIOUS
  <2>1. d # Nobody /\ SiblingSound(d)
    BY LifecycleAssumption DEF Sound, SiblingInv
  <2> QED BY <1>1, <2>1 DEF SiblingSound
<1>7. ASSUME NEW d \in Commands \ {c}, commands'[d] = commands[d], run'[d] = run[d],
             turn' \in {c, Nobody}
      PROVE  /\ CommandSound(d)' /\ KindSound(d)' /\ StopSound(d)' /\ ReturnSound(d)'
             /\ SiblingSound(d)'
  <2>1. d \in Commands /\ d # c /\ d # Nobody
    BY LifecycleAssumption
  <2>2. sibling'[d] = sibling[d] /\ turn # d /\ turn' # d
    BY <1>1, <1>7, <2>1
  <2>3. CommandSound(d)' /\ KindSound(d)' /\ StopSound(d)' /\ ReturnSound(d)'
    BY <1>3, <1>7, <2>1, <2>2, OtherCommand DEF Sound
  <2>4. SiblingSound(d)'
    BY <1>6, <1>7, <2>1, <2>2 DEF Sound, SiblingInv, SiblingSound, Underway
  <2> QED BY <2>3, <2>4
<1>8. CASE /\ Admissible(KindOf[c], a)
           /\ commands' = [commands EXCEPT ![c] =
                             [@ EXCEPT !.phase = "accepted", !.target = a,
                                       !.effect = "admitted"]]
           /\ order' = Append(order, c)
           /\ run' = [run EXCEPT ![c] = [IdleRun EXCEPT !.pc = "begin",
                                                        !.from = "admitted"]]
           /\ Keep(c)
  <2>1. /\ \A d \in Commands \ {c} : commands'[d] = commands[d] /\ run'[d] = run[d]
        /\ commands'[c].phase = "accepted" /\ commands'[c].effect = "admitted"
        /\ commands'[c].target = a /\ commands'[c].consequence = "none"
        /\ run'[c].pc = "begin" /\ run'[c].from = "admitted" /\ run'[c].consequence = "none"
        /\ turn' = c
    <3>1. /\ commands[c] \in Command
          /\ commands'[c] = [commands[c] EXCEPT !.phase = "accepted", !.target = a,
                                                !.effect = "admitted"]
          /\ run'[c] = [IdleRun EXCEPT !.pc = "begin", !.from = "admitted"]
          /\ \A d \in Commands \ {c} : commands'[d] = commands[d] /\ run'[d] = run[d]
      BY <1>8 DEF TypeOK, LifecycleTypeOK
    <3>2. /\ commands'[c].phase = "accepted" /\ commands'[c].effect = "admitted"
          /\ commands'[c].target = a /\ commands'[c].consequence = "none"
      BY <1>2, <3>1 DEF Command
    <3>3. /\ run'[c].pc = "begin" /\ run'[c].from = "admitted" /\ run'[c].consequence = "none"
      BY <3>1 DEF IdleRun
    <3> QED BY <1>8, <3>1, <3>2, <3>3 DEF Keep
  <2>2. CommandSound(c)' /\ KindSound(c)' /\ SiblingSound(c)'
    BY <1>1, <1>2, <2>1 DEF CommandSound, KindSound, SiblingSound, Underway, Target,
       SyncStates, attemptVars
  <2>3. StopSound(c)'
    BY <1>1, <1>8, <2>1 DEF StopSound, Underway, Target, attemptVars, Admissible, Allowed,
       ActiveStates
  <2>4. ReturnSound(c)'
    <3> SUFFICES ASSUME KindOf[c] = "return", origin[a] = Nobody,
                        MembersSurvive => rows[a].state # "failed"
                 PROVE  fiber[a] = "none" /\ group[a] = "none"
      BY <1>1, <2>1 DEF ReturnSound, Unlabelling, Target, attemptVars
    <3>1. rows[a].state \in {"failed", "interrupted", "stopped"}
      BY <1>8 DEF Admissible, Allowed
    <3>2. fiber[a] = "none" /\ ~Active(a)
      BY <3>1 DEF Sound, ForkInv, Active, ActiveStates
    <3>3. GroupSound(a) /\ group[a] \in {"none", "leader", "orphans"}
      BY DEF Sound, AttemptInv, AttemptSound, TypeOK, AttemptTypeOK, Groups
    <3> QED BY <3>1, <3>2, <3>3 DEF GroupSound
  <2>5. OrderInv'
    <3>1. c \notin Range(order) /\ IsInjective(order) /\ order \in Seq(Commands)
      BY <1>2 DEF Sound, OrderInv, TypeOK, LifecycleTypeOK
    <3>2. IsInjective(order') /\ Range(order') = Range(order) \cup {c}
      BY <1>8, <3>1, AppendedTo
    <3>3. \A d \in Commands : Underway(d)' <=> Underway(d) \/ d = c
      BY <2>1 DEF Underway
    <3>4. UNCHANGED <<todo, service>>
      BY <1>1 DEF serviceVars
    <3>5. Range(order') = {d \in Commands : Underway(d)}'
      BY <3>2, <3>3 DEF Sound, OrderInv
    <3>6. todo = <<>>
      BY <1>1 DEF Sound, OrderInv
    <3>7. Range(todo') = {} /\ IsInjective(todo')
      BY <3>4, <3>6 DEF Range, IsInjective
    <3> QED BY <1>1, <3>2, <3>4, <3>5, <3>6, <3>7 DEF OrderInv
  <2> QED BY <1>4, <1>5, <1>7, <2>1, <2>2, <2>3, <2>4, <2>5
          DEF Sound, CommandInv, KindInv, StopInv, ReturnInv, SiblingInv
<1>9. CASE /\ commands' = [commands EXCEPT ![c] =
                             [@ EXCEPT !.phase = "final", !.consequence = "rejected"]]
           /\ UNCHANGED <<order, run, turn>>
  <2>1. /\ \A d \in Commands \ {c} : commands'[d] = commands[d] /\ run'[d] = run[d]
        /\ commands'[c].phase = "final" /\ commands'[c].effect = commands[c].effect
        /\ commands'[c].target = Nobody /\ commands'[c].consequence = "rejected"
        /\ run'[c] = run[c] /\ turn' = Nobody
    <3>1. /\ commands[c] \in Command
          /\ commands'[c] = [commands[c] EXCEPT !.phase = "final", !.consequence = "rejected"]
          /\ \A d \in Commands \ {c} : commands'[d] = commands[d]
      BY <1>9 DEF TypeOK, LifecycleTypeOK
    <3>2. /\ commands'[c].phase = "final" /\ commands'[c].effect = commands[c].effect
          /\ commands'[c].target = commands[c].target
          /\ commands'[c].consequence = "rejected"
      BY <3>1 DEF Command
    <3> QED BY <1>1, <1>2, <1>9, <3>1, <3>2 DEF Target
  <2>2. CommandSound(c)' /\ KindSound(c)' /\ SiblingSound(c)'
    BY <1>1, <1>2, <2>1 DEF CommandSound, KindSound, SiblingSound, Underway, Target,
       SyncStates, attemptVars
  <2>3. StopSound(c)' /\ ReturnSound(c)'
    BY <1>2, <2>1 DEF StopSound, ReturnSound, Underway
  <2>4. OrderInv'
    <3>1. \A d \in Commands : Underway(d)' <=> Underway(d)
      BY <1>2, <2>1 DEF Underway
    <3>2. UNCHANGED <<order, run, todo, service>>
      BY <1>1, <1>9 DEF serviceVars
    <3> QED BY <3>1, <3>2 DEF Sound, OrderInv
  <2> QED BY <1>4, <1>5, <1>7, <2>1, <2>2, <2>3, <2>4
          DEF Sound, CommandInv, KindInv, StopInv, ReturnInv, SiblingInv
<1> QED BY <1>8, <1>9 DEF Begin

LEMMA ResumingKeeps ==
  ASSUME TypeOK, Sound, NEW c \in Commands, Underway(c), run[c].pc = "idle",
         turn = Nobody, turn' = c,
         run' = [run EXCEPT ![c] = [IdleRun EXCEPT !.pc = "begin",
                                                   !.from = commands[c].effect]],
         UNCHANGED <<attemptVars, commandVars, service>>, service # "down",
         service = "recovering" => \A d \in Commands : run[d].pc = "idle",
         service = "up" => todo' = <<>>,
         Range(todo') = Range(todo) \ {c}, IsInjective(todo')
  PROVE  Sound'
<1>1. /\ CommandSound(c) /\ KindSound(c) /\ StopSound(c) /\ SiblingSound(c)
      /\ ReturnSound(c) /\ c # Nobody
      /\ commands[c].phase \in {"accepted", "executing"}
  BY LifecycleAssumption DEF Sound, CommandInv, KindInv, StopInv, SiblingInv,
     ReturnInv, Underway
<1>2. PICK a \in Attempts : a = Target(c)
  BY <1>1, TargetTyped DEF CommandSound
<1>3. Moves(a)
  BY <1>1, <1>2, Still DEF Sound, Unmoved, attemptVars, CommandSound, commandVars
<1>4. AttemptInv' /\ OneActive' /\ ForkInv'
  BY <1>3, MovedAttempts DEF Sound
<1>5. OriginInv' /\ Quiet'
  BY DEF Sound, OriginInv, Quiet, commandVars
<1>6. /\ run'[c].pc = "begin" /\ run'[c].from = commands[c].effect
      /\ run'[c].consequence = "none"
      /\ \A d \in Commands \ {c} : run'[d] = run[d]
  <2>1. /\ run'[c] = [IdleRun EXCEPT !.pc = "begin", !.from = commands[c].effect]
        /\ \A d \in Commands \ {c} : run'[d] = run[d]
    BY DEF TypeOK, LifecycleTypeOK
  <2> QED BY <2>1 DEF IdleRun
<1>7. \A d \in Commands : /\ Underway(d)' = Underway(d) /\ Target(d)' = Target(d)
                          /\ Unlabelling(d)' = Unlabelling(d)
                          /\ sibling'[d] = sibling[d] /\ commands'[d] = commands[d]
  BY DEF Underway, Target, Unlabelling, commandVars
<1>8. ASSUME NEW d \in Commands \ {c}
      PROVE  /\ CommandSound(d)' /\ KindSound(d)' /\ StopSound(d)' /\ ReturnSound(d)'
             /\ SiblingSound(d)'
  <2>1. d \in Commands /\ d # c /\ turn # d /\ turn' # d
    BY LifecycleAssumption
  <2>2. CommandSound(d)' /\ KindSound(d)' /\ StopSound(d)' /\ ReturnSound(d)'
    BY <1>3, <1>6, <1>7, <2>1, OtherCommand DEF Sound
  <2>3. d \in Range(todo) => d \in Range(todo')
    BY <2>1
  <2>4. SiblingSound(d) /\ run'[d] = run[d]
    BY <1>6, <2>1 DEF Sound, SiblingInv
  <2>5. SiblingSound(d)'
    BY <1>7, <2>1, <2>3, <2>4 DEF SiblingSound, Unstarted, attemptVars
  <2> QED BY <2>2, <2>5
<1>9. CommandSound(c)' /\ KindSound(c)'
  BY <1>1, <1>6, <1>7 DEF CommandSound, KindSound, SyncStates, attemptVars
<1>10. StopSound(c)'
  BY <1>1, <1>6, <1>7 DEF StopSound, attemptVars
<1>11. SiblingSound(c)'
  BY <1>1, <1>6, <1>7 DEF SiblingSound, Unstarted, attemptVars
<1>12. ReturnSound(c)'
  BY <1>1, <1>6, <1>7 DEF ReturnSound, attemptVars, commandVars
<1>13. OrderInv'
  <2>1. order' = order /\ \A d \in Commands \ {c} : run'[d].pc = "idle" <=> run[d].pc = "idle"
    BY <1>6 DEF commandVars
  <2>2. Range(todo') \subseteq {d \in Commands : Underway(d) /\ run[d].pc = "idle"}'
    BY <1>7, <2>1 DEF Sound, OrderInv
  <2>3. Range(order') = {d \in Commands : Underway(d)}' /\ IsInjective(order')
    BY <1>7, <2>1 DEF Sound, OrderInv
  <2>4. service' = "recovering" =>
          \A d, e \in Commands : run'[d].pc # "idle" /\ run'[e].pc # "idle" => d = e
    BY <2>1
  <2> QED BY <2>2, <2>3, <2>4 DEF OrderInv
<1> QED BY <1>4, <1>5, <1>8, <1>9, <1>10, <1>11, <1>12, <1>13
        DEF Sound, CommandInv, KindInv, StopInv, ReturnInv, SiblingInv

LEMMA ResendKeeps ==
  ASSUME TypeOK, Sound, NEW c \in Commands, Resend(c)
  PROVE  Sound'
<1>1. todo = <<>> /\ UNCHANGED todo
  BY DEF Resend, Sound, OrderInv, serviceVars
<1>2. Range(todo) = {} /\ IsInjective(todo)
  BY <1>1 DEF Range, IsInjective
<1> QED BY <1>1, <1>2, ResumingKeeps DEF Resend, Free, Keep, Underway, serviceVars

LEMMA NobodyRuns ==
  ASSUME TypeOK, Recovering
  PROVE  turn = Nobody
BY DEF TypeOK, LifecycleTypeOK, Recovering

LEMMA RecoverNextKeeps ==
  ASSUME TypeOK, Sound, RecoverNext
  PROVE  Sound'
<1>1. /\ todo \in Seq(Commands) /\ IsInjective(todo) /\ todo # <<>>
      /\ Range(todo) \subseteq {c \in Commands : Underway(c) /\ run[c].pc = "idle"}
  BY DEF TypeOK, LifecycleTypeOK, Sound, OrderInv, RecoverNext
<1>2. /\ Head(todo) \in Range(todo) /\ Head(todo) \in Commands
      /\ IsInjective(todo') /\ Range(todo') = Range(todo) \ {Head(todo)}
  BY <1>1, HeadTaken DEF RecoverNext
<1>3. PICK c \in Commands : c = Head(todo)
  BY <1>2
<1>4. Underway(c) /\ run[c].pc = "idle"
  BY <1>1, <1>2, <1>3
<1> QED BY <1>2, <1>3, <1>4, NobodyRuns, ResumingKeeps
        DEF RecoverNext, Recovering, Keep

LEMMA ServeKeeps ==
  ASSUME TypeOK, Sound, Serve
  PROVE  Sound'
<1>1. /\ turn = Nobody /\ service = "recovering" /\ service' = "up" /\ todo = <<>>
      /\ \A c \in Commands : run[c].pc = "idle"
      /\ UNCHANGED <<attemptVars, commandVars, run, turn, todo, looking, paused, disturbances>>
  BY NobodyRuns DEF Serve, Recovering
<1>2. Range(todo) = {}
  BY <1>1 DEF Range
<1>3. AttemptInv' /\ OneActive' /\ ForkInv' /\ OriginInv' /\ Quiet'
  BY <1>1 DEF Sound, AttemptInv, OneActive, ForkInv, OriginInv, Quiet, AttemptSound,
     FiberSound, ProviderSound, GroupSound, AbsentSound, Unstarted, Active,
     attemptVars, commandVars
<1>4. CommandInv' /\ KindInv' /\ StopInv' /\ ReturnInv'
  BY <1>1 DEF Sound, CommandInv, KindInv, StopInv, ReturnInv, CommandSound, KindSound,
     StopSound, ReturnSound, Underway, Target, Unlabelling, attemptVars, commandVars
<1>5. OrderInv'
  BY <1>1 DEF Sound, OrderInv, Underway, commandVars
<1>6. SiblingInv'
  <2> SUFFICES ASSUME NEW c \in Commands
               PROVE  SiblingSound(c)'
    BY DEF SiblingInv
  <2>1. SiblingSound(c) /\ c # Nobody
    BY LifecycleAssumption DEF Sound, SiblingInv
  <2> QED BY <1>1, <1>2, <2>1 DEF SiblingSound, Underway, Target, Unstarted,
             attemptVars, commandVars
<1> QED BY <1>3, <1>4, <1>5, <1>6 DEF Sound

(* The store opens: the active attempt, if there is one, is reconciled.    *)
LEMMA OpenKeeps ==
  ASSUME TypeOK, Sound, Open
  PROVE  Sound'
<1>1. /\ service = "down" /\ service' = "recovering" /\ todo' = order
      /\ UNCHANGED <<fiber, provider, posts, claimed, published, commandVars, run,
                     turn, looking, paused, disturbances>>
  BY DEF Open, Unfinished
<1>2. /\ \A b \in Attempts : fiber[b] = "none" /\ provider[b].pc = "none"
      /\ \A c \in Commands : run[c].pc = "idle"
      /\ turn = Nobody /\ turn' = Nobody
  BY <1>1 DEF Sound, Quiet
<1>3. \A d \in Commands : /\ Underway(d)' = Underway(d) /\ Target(d)' = Target(d)
                          /\ Unlabelling(d)' = Unlabelling(d)
                          /\ sibling'[d] = sibling[d] /\ commands'[d] = commands[d]
                          /\ run'[d] = run[d]
  BY <1>1 DEF Underway, Target, Unlabelling, commandVars
<1>4. OriginInv' /\ Quiet'
  BY <1>1 DEF Sound, OriginInv, Quiet, commandVars
<1>5. OrderInv'
  BY <1>1, <1>2, <1>3 DEF Sound, OrderInv, commandVars
<1>6. ASSUME NEW d \in Commands, Underway(d)
      PROVE  d \in Range(todo')
  BY <1>1, <1>6 DEF Sound, OrderInv
<1>7. CASE UNCHANGED <<rows, group>>
  <2>1. AttemptInv' /\ OneActive' /\ ForkInv'
    BY <1>1, <1>7 DEF Sound, AttemptInv, OneActive, ForkInv, AttemptSound, FiberSound,
       ProviderSound, GroupSound, AbsentSound, Unstarted, Active, commandVars
  <2>2. CommandInv' /\ KindInv' /\ StopInv' /\ ReturnInv'
    BY <1>1, <1>7 DEF Sound, CommandInv, KindInv, StopInv, ReturnInv, CommandSound,
       KindSound, StopSound, ReturnSound, Underway, Target, Unlabelling, commandVars
  <2>3. SiblingInv'
    BY <1>1, <1>2, <1>3, <1>6, <1>7 DEF Sound, SiblingInv, SiblingSound, Unstarted
  <2> QED BY <1>4, <1>5, <2>1, <2>2, <2>3 DEF Sound
<1>8. ASSUME NEW a \in Attempts, NEW r \in Reconciled(a), Active(a),
             Write(a, Interrupted(rows[a], r.result)),
             group' = [group EXCEPT ![a] = r.left]
      PROVE  Sound'
  <2> DEFINE row == Interrupted(rows[a], r.result)
  <2>1. AttemptSound(a) /\ rows[a] \in Row /\ group[a] \in {"none", "leader", "orphans"}
        /\ rows[a].state \in ActiveStates
    BY <1>8 DEF Sound, AttemptInv, TypeOK, AttemptTypeOK, Groups, Active
  <2>2. /\ row.process = rows[a].process /\ row.pending = rows[a].pending
        /\ row.workspace = rows[a].workspace
        /\ IF r.result = "uncertain"
             THEN row.state \in {"stop_uncertain", "ownership_uncertain"}
             ELSE row.state = "interrupted"
    BY <2>1 DEF Interrupted, Row
  <2>3. /\ r.left = "leader" => group[a] = "leader"
        /\ r.left = "orphans" => MembersSurvive
        /\ r.left # "none" => group[a] # "none"
        /\ r.result # "uncertain" => r.left = "none"
        /\ ~rows[a].process /\ ~rows[a].pending => r.result # "uncertain"
    <3>1. /\ group[a] # "none" => rows[a].process \/ rows[a].pending
          /\ group[a] = "orphans" => MembersSurvive
      BY <2>1 DEF AttemptSound, GroupSound
    <3> QED BY <2>1, <3>1 DEF Reconciled, Signalled, Terminated
  <2> HIDE DEF row
  <2>4. /\ rows'[a] = row /\ \A b \in Attempts \ {a} : rows'[b] = rows[b]
        /\ group'[a] = r.left /\ \A b \in Attempts \ {a} : group'[b] = group[b]
    BY <1>8 DEF Write, TypeOK, AttemptTypeOK, row
  <2>5. AttemptSound(a)'
    BY <1>1, <1>2, <2>1, <2>2, <2>3, <2>4 DEF AttemptSound, FiberSound, ProviderSound,
       GroupSound, AbsentSound, Unstarted, Active, Waiting, ActiveStates, commandVars
  <2>6. Moves(a)
    BY <1>1, <1>2, <1>8, <2>1, <2>2, <2>3, <2>4, <2>5
       DEF Moves, Elsewhere, Active, ActiveStates, commandVars
  <2>7. AttemptInv' /\ OneActive' /\ ForkInv'
    BY <2>6, MovedAttempts DEF Sound
  <2>8. ASSUME NEW d \in Commands
        PROVE  /\ CommandSound(d)' /\ KindSound(d)' /\ StopSound(d)' /\ ReturnSound(d)'
               /\ SiblingSound(d)'
    <3>1. CommandSound(d)' /\ KindSound(d)' /\ StopSound(d)' /\ ReturnSound(d)'
      BY <1>2, <1>3, <2>6, OtherCommand DEF Sound
    <3>2. SiblingSound(d) /\ sibling[d] \subseteq Attempts
      BY SiblingTyped DEF Sound, SiblingInv
    <3>3. ASSUME Underway(d), NEW b \in sibling[d]
          PROVE  /\ Unstarted(b)' /\ b \notin posts' /\ fiber'[b] = "none"
                 /\ rows'[b].state \in {"reserved", "interrupted"}
      BY <1>1, <1>2, <2>2, <2>3, <2>4, <3>2, <3>3 DEF SiblingSound, Unstarted
    <3> QED BY <1>1, <1>2, <1>3, <1>6, <3>1, <3>2, <3>3 DEF SiblingSound
  <2> QED BY <1>4, <1>5, <2>7, <2>8
          DEF Sound, CommandInv, KindInv, StopInv, ReturnInv, SiblingInv
<1> QED BY <1>7, <1>8 DEF Open

LEMMA LookupKeeps ==
  ASSUME TypeOK, Sound, NEW a \in Attempts,
         LookupForgotten(a) \/ LookupStarts(a) \/ LookupAnswers(a)
  PROVE  Sound'
<1>1. UNCHANGED <<fiber, provider, group, posts, published, commandVars, run, turn,
                  service, todo>>
  BY DEF LookupForgotten, LookupStarts, LookupAnswers, serviceVars
<1>2. \A l, p : /\ [rows[a] EXCEPT !.lookup = l].state = rows[a].state
                /\ [rows[a] EXCEPT !.lookup = l].process = rows[a].process
                /\ [rows[a] EXCEPT !.lookup = l].pending = rows[a].pending
                /\ [rows[a] EXCEPT !.lookup = l].workspace = rows[a].workspace
                /\ [rows[a] EXCEPT !.lookup = l, !.pullRequest = p].state = rows[a].state
                /\ [rows[a] EXCEPT !.lookup = l, !.pullRequest = p].process = rows[a].process
                /\ [rows[a] EXCEPT !.lookup = l, !.pullRequest = p].pending = rows[a].pending
                /\ [rows[a] EXCEPT !.lookup = l, !.pullRequest = p].workspace
                     = rows[a].workspace
  BY DEF TypeOK, AttemptTypeOK, Row
<1>3. \E row : /\ Write(a, row) /\ row.state = rows[a].state
               /\ row.process = rows[a].process /\ row.pending = rows[a].pending
               /\ row.workspace = rows[a].workspace
  <2>1. CASE LookupForgotten(a)
    BY <1>2, <2>1 DEF LookupForgotten
  <2>2. CASE LookupStarts(a)
    BY <1>2, <2>2 DEF LookupStarts
  <2>3. CASE LookupAnswers(a)
    <3>1. PICK found \in BOOLEAN :
            Write(a, [rows[a] EXCEPT !.lookup = "reconciled",
                                     !.pullRequest = rows[a].pullRequest \/ found])
      BY <2>3 DEF LookupAnswers
    <3>2. PICK p \in BOOLEAN : p = (rows[a].pullRequest \/ found)
      OBVIOUS
    <3>3. Write(a, [rows[a] EXCEPT !.lookup = "reconciled", !.pullRequest = p])
      BY <3>1, <3>2
    <3> DEFINE row == [rows[a] EXCEPT !.lookup = "reconciled", !.pullRequest = p]
    <3>4. /\ row.state = rows[a].state /\ row.process = rows[a].process
          /\ row.pending = rows[a].pending /\ row.workspace = rows[a].workspace
      BY <1>2
    <3>5. Write(a, row)
      BY <3>3
    <3> HIDE DEF row
    <3> QED BY <3>4, <3>5
  <2> QED BY <2>1, <2>2, <2>3
<1>4. Unmoved
  BY <1>1, <1>3 DEF Unmoved, Write, TypeOK, AttemptTypeOK, commandVars
<1> QED BY <1>1, <1>4, IdleKeeps DEF commandVars

(* The process dies: what it had spawned goes on.                          *)
LEMMA CrashKeeps ==
  ASSUME TypeOK, Sound, NEW spawned, Crash(spawned)
  PROVE  Sound'
<1>1. /\ service' = "down" /\ todo' = <<>> /\ turn' = Nobody
      /\ \A a \in Attempts : fiber'[a] = "none" /\ provider'[a] = NoPromise
      /\ \A c \in Commands : run'[c] = IdleRun
      /\ UNCHANGED <<rows, posts, claimed, published, commandVars, paused>>
  BY DEF Crash, Release
<1>2. /\ NoPromise.pc = "none" /\ ~NoPromise.aborted
      /\ IdleRun.pc = "idle" /\ IdleRun.consequence = "none"
  BY DEF NoPromise, IdleRun
<1> USE DEF Sound
<1>3. \A a \in Attempts :
        \/ group'[a] = group[a]
        \/ group'[a] = "leader" /\ fiber[a] = "provider" /\ rows[a].pending /\ Active(a)
  <2> SUFFICES ASSUME NEW a \in Attempts, a \in spawned
               PROVE  fiber[a] = "provider" /\ rows[a].pending /\ Active(a)
    BY DEF Crash
  <2>1. provider[a].pc = "preparing" /\ ~provider[a].aborted
    BY DEF Crash
  <2>2. FiberSound(a) /\ ProviderSound(a)
    BY DEF AttemptInv, AttemptSound
  <2> QED BY <2>1, <2>2 DEF FiberSound, ProviderSound
<1>4. AttemptInv'
  <2> SUFFICES ASSUME NEW a \in Attempts
               PROVE  AttemptSound(a)'
    BY DEF AttemptInv
  <2>1. AttemptSound(a)
    BY DEF AttemptInv
  <2> QED BY <1>1, <1>2, <1>3, <2>1 DEF AttemptSound, FiberSound, ProviderSound, GroupSound,
             AbsentSound, Unstarted, Active, ActiveStates, Waiting, commandVars
<1>5. OneActive' /\ ForkInv' /\ OriginInv' /\ Quiet'
  BY <1>1, <1>2 DEF OneActive, Active, ForkInv, OriginInv, Quiet, commandVars
<1>6. \A d \in Commands : /\ Underway(d)' = Underway(d) /\ Target(d)' = Target(d)
                          /\ Unlabelling(d)' = Unlabelling(d)
                          /\ sibling'[d] = sibling[d] /\ commands'[d] = commands[d]
  BY <1>1 DEF Underway, Target, Unlabelling, commandVars
<1>7. OrderInv'
  <2>1. Range(todo') = {} /\ IsInjective(todo')
    BY <1>1 DEF Range, IsInjective
  <2> QED BY <1>1, <1>2, <1>6, <2>1 DEF OrderInv, commandVars
<1>8. ASSUME NEW d \in Commands
      PROVE  /\ CommandSound(d)' /\ KindSound(d)' /\ StopSound(d)' /\ ReturnSound(d)'
             /\ SiblingSound(d)'
  <2>1. /\ CommandSound(d) /\ KindSound(d) /\ StopSound(d) /\ ReturnSound(d)
        /\ SiblingSound(d) /\ sibling[d] \subseteq Attempts
        /\ Target(d) \in Attempts \cup {Nobody}
        /\ run'[d].pc = "idle" /\ run'[d].consequence = "none"
    BY <1>1, <1>2, SiblingTyped, TargetTyped
       DEF CommandInv, KindInv, StopInv, ReturnInv, SiblingInv
  <2>2. CommandSound(d)' /\ KindSound(d)'
    BY <1>1, <1>6, <2>1 DEF CommandSound, KindSound, SyncStates
  <2>3. StopSound(d)'
    BY <1>1, <1>3, <1>6, <2>1 DEF StopSound, CommandSound
  <2>4. ReturnSound(d)'
    BY <1>1, <1>3, <1>6, <2>1 DEF ReturnSound, commandVars
  <2>5. SiblingSound(d)'
    BY <1>1, <1>2, <1>3, <1>6, <2>1 DEF SiblingSound, Unstarted
  <2> QED BY <2>2, <2>3, <2>4, <2>5
<1> QED BY <1>4, <1>5, <1>7, <1>8 DEF CommandInv, KindInv, StopInv, ReturnInv, SiblingInv

-----------------------------------------------------------------------------
(* The inductive invariant *)

IInv == TypeOK /\ Sound /\ ConsequenceOnce

LEMMA Starts == Init => IInv
<1> SUFFICES ASSUME Init
             PROVE  IInv
  OBVIOUS
<1> USE DEF Init, AttemptInit
<1>1. AttemptTypeOK
  BY NoPromiseTyped, FirstRowsTyped DEF AttemptTypeOK, FiberStates, Groups
<1>2. LifecycleTypeOK
  <2>1. [phase |-> "unknown", target |-> Nobody, effect |-> "none", result |-> "exited",
         consequence |-> "none"] \in Command
    BY DEF Command, Effects, Results, Consequences
  <2>2. commands \in [Commands -> Command] /\ noted \in [Commands -> Nat]
    BY <2>1
  <2>3. sibling \in [Commands -> {{}} \cup {{a} : a \in Attempts}]
    OBVIOUS
  <2>4. run \in [Commands -> Run]
    BY IdleRunTyped
  <2>5. /\ order \in Seq(Commands) /\ todo \in Seq(Commands)
        /\ refused \in SUBSET Commands /\ looking \in SUBSET Attempts
        /\ origin \in [Attempts -> Commands \cup {Nobody}] /\ turn = Nobody
        /\ disturbances \in 0..MaxDisturbances
    BY LifecycleAssumption
  <2> QED BY <2>2, <2>3, <2>4, <2>5 DEF LifecycleTypeOK
<1>3. /\ \A a \in Attempts : /\ rows[a].state = "absent" /\ ~rows[a].process
                             /\ ~rows[a].pending /\ ~rows[a].workspace
                             /\ provider[a].pc = "none" /\ ~provider[a].aborted
                             /\ fiber[a] = "none" /\ group[a] = "none"
                             /\ a \notin posts /\ a \notin published /\ origin[a] = Nobody
      /\ \A c \in Commands : /\ commands[c].phase = "unknown" /\ Target(c) = Nobody
                             /\ commands[c].consequence = "none"
                             /\ commands[c].effect = "none"
                             /\ run[c].pc = "idle" /\ run[c].consequence = "none"
                             /\ sibling[c] = {} /\ noted[c] = 0
  BY DEF AbsentRow, NoPromise, IdleRun, Target
<1>4. Nobody \notin Commands
  BY LifecycleAssumption
<1> HIDE DEF Init, AttemptInit
<1>5. AttemptInv
  BY <1>3 DEF AttemptInv, AttemptSound, FiberSound, ProviderSound, GroupSound, AbsentSound,
     Unstarted, Active, ActiveStates, Waiting
<1>6. OneActive /\ ForkInv
  BY <1>3 DEF OneActive, ForkInv, Active, ActiveStates
<1>7. service = "up" /\ todo = <<>> /\ order = <<>> /\ turn = Nobody
  BY DEF Init
<1>8. Quiet /\ OriginInv
  BY <1>3, <1>4, <1>7 DEF Quiet, OriginInv
<1>9. CommandInv /\ KindInv /\ StopInv /\ SiblingInv /\ ReturnInv
  BY <1>3 DEF CommandInv, CommandSound, KindInv, KindSound, StopInv, StopSound, SiblingInv,
     SiblingSound, ReturnInv, ReturnSound, Underway, SyncStates
<1>10. OrderInv
  <2>1. Range(order) = {} /\ IsInjective(order) /\ Range(todo) = {} /\ IsInjective(todo)
    BY <1>7 DEF Range, IsInjective
  <2> QED BY <1>3, <1>7, <2>1 DEF OrderInv, Underway
<1>11. ConsequenceOnce
  BY <1>3 DEF ConsequenceOnce
<1> QED BY <1>1, <1>2, <1>5, <1>6, <1>8, <1>9, <1>10, <1>11 DEF IInv, TypeOK, Sound

LEMMA NotedOnce ==
  ASSUME TypeOK, ConsequenceOnce, [Next]_vars
  PROVE  ConsequenceOnce'
<1>1. CASE \E c \in Commands : Conclude(c)
  <2>1. PICK c \in Commands : Conclude(c)
    BY <1>1
  <2>2. CASE NoteNeeded(c) /\ noted' = [noted EXCEPT ![c] = @ + 1]
    <3>1. noted[c] = 0 /\ \A d \in Commands : noted'[d] = IF d = c THEN noted[d] + 1 ELSE noted[d]
      BY <2>2 DEF NoteNeeded, TypeOK, LifecycleTypeOK
    <3> QED BY <3>1 DEF ConsequenceOnce
  <2>3. CASE noted' = noted
    BY <2>3 DEF ConsequenceOnce
  <2> QED BY <2>1, <2>2, <2>3 DEF Conclude
<1>2. CASE ~\E c \in Commands : Conclude(c)
  <2>1. noted' = noted
    <3>1. CASE UNCHANGED vars
      BY <3>1 DEF vars, commandVars
    <3>2. ASSUME NEW c \in Commands,
                 (\E a \in Attempts : Begin(c, a)) \/ Resend(c) \/ CommandStep(c) \/ RemovalLands(c)
          PROVE  noted' = noted
      BY <1>2, <3>2 DEF Begin, Resend, CommandStep, RemovalLands, StopBegins, StopInterrupts,
         StopReconciles, ReturnBegins, InspectionAnswers, ReturnUnlabels, ClaimRead,
         RemovalAnswers, RestartBegins, ClaimedRevalidated, RestartAdmits, RestartForks,
         VisibilityBegins, Finish, commandVars
    <3>3. ASSUME NEW a \in Attempts,
                 AttemptStep(a) \/ OutsideStep(a) \/ Admit(a) \/ RevalidationDisturbed(a)
          PROVE  noted' = noted
      BY <3>3 DEF AttemptStep, OutsideStep, Admit, RevalidationDisturbed, commandVars
    <3>4. CASE RecoveryStep
      BY <3>4 DEF RecoveryStep, Open, RecoverNext, Serve, LookupForgotten, LookupStarts,
         LookupAnswers, commandVars
    <3>5. CASE SetControls \/ EditLabel \/ \E spawned \in SUBSET Attempts : Crash(spawned)
      BY <3>5 DEF SetControls, EditLabel, Crash, commandVars
    <3> QED BY <3>1, <3>2, <3>3, <3>4, <3>5 DEF Next
  <2> QED BY <2>1 DEF ConsequenceOnce
<1> QED BY <1>1, <1>2

LEMMA CommandStepKeeps ==
  ASSUME TypeOK, Sound, NEW c \in Commands, CommandStep(c) \/ RemovalLands(c)
  PROVE  TypeOK' /\ Sound'
<1>1. CASE StopBegins(c) \/ StopInterrupts(c) \/ StopReconciles(c)
  BY <1>1, StopTyped, StopBeginsKeeps, InterruptsKeeps, ReconcilesKeeps
<1>2. CASE \/ ReturnBegins(c) \/ InspectionAnswers(c) \/ ReturnUnlabels(c)
           \/ ClaimRead(c) \/ RemovalAnswers(c)
  BY <1>2, ReturnTyped, ReturnBeginsKeeps, InspectionKeeps, UnlabelsKeeps, LabelKeeps
<1>3. CASE RemovalLands(c)
  <2>1. /\ UNCHANGED <<rows, fiber, provider, group, posts, published,
                       commandVars, run, turn, serviceVars>>
    BY <1>3 DEF RemovalLands
  <2>2. Unmoved
    BY <2>1 DEF Unmoved, commandVars
  <2> QED BY <1>3, <2>1, <2>2, IdleKeeps, ReturnTyped DEF commandVars, serviceVars
<1>4. CASE \/ RestartBegins(c) \/ ClaimedRevalidated(c) \/ RestartAdmits(c)
           \/ RestartForks(c) \/ VisibilityBegins(c)
  BY <1>4, RestartTyped, RestartBeginsKeeps, RevalidatedKeeps, AdmitsKeeps, ForksKeeps,
     VisibilityKeeps
<1>5. CASE Conclude(c)
  <2>1. Target(c) \in Attempts
    BY <1>5, Executing DEF Conclude
  <2> QED BY <1>5, <2>1, ConcludeTyped, ConcludeKeeps
<1>6. CASE Finish(c)
  BY <1>6, FinishKeeps
<1> QED BY <1>1, <1>2, <1>3, <1>4, <1>5, <1>6 DEF CommandStep

LEMMA AttemptStepKeeps ==
  ASSUME TypeOK, Sound, NEW a \in Attempts,
         AttemptStep(a) \/ OutsideStep(a) \/ RevalidationDisturbed(a)
  PROVE  Sound'
<1>1. UNCHANGED <<commandVars, run, turn, service, todo>>
  BY DEF AttemptStep, OutsideStep, RevalidationDisturbed, serviceVars
<1>2. UNCHANGED <<commands, order, sibling, origin, run, turn, service, todo>>
  BY <1>1 DEF commandVars
<1>3. CASE Free /\ (FiberStep(a) \/ RevalidationFails(a))
  <2>1. Moves(a)
    BY <1>2, <1>3, FiberMoves DEF Sound
  <2>2. fiber[a] # "none"
    BY <1>3 DEF FiberStep, RevalidationFails, Revalidated, ClaimRecognised, ClaimConfirmed,
       ClaimNotConfirmed, WorkspaceCreated, WorkspaceFails, ProviderAnswers, Completed,
       VerificationFails, At
  <2> QED BY <1>2, <1>3, <2>1, <2>2, AttemptKeeps
<1>4. CASE Free /\ ProviderStep(a)
  BY <1>2, <1>4, ProviderMoves, AttemptKeeps DEF Sound
<1>5. CASE WorldStep(a)
  <2>1. Moves(a) /\ (group[a] # "none" \/ a \in posts)
    BY <1>2, <1>5, WorldMoves DEF Sound
  <2>2. UNCHANGED <<rows, provider>>
    BY <1>5 DEF WorldStep, ClaimLands, LeaderExits, MembersExit, Publish
  <2> QED BY <1>2, <2>1, <2>2, AttemptKeeps
<1> QED BY <1>3, <1>4, <1>5 DEF AttemptStep, OutsideStep, RevalidationDisturbed

LEMMA Preserved == IInv /\ [Next]_vars => IInv'
<1> SUFFICES ASSUME TypeOK, Sound, ConsequenceOnce, [Next]_vars
             PROVE  TypeOK' /\ Sound'
  BY NotedOnce DEF IInv
<1>1. CASE UNCHANGED vars
  <2>1. TypeOK'
    BY <1>1 DEF vars, attemptVars, commandVars, serviceVars, TypeOK, AttemptTypeOK,
       LifecycleTypeOK
  <2>2. Unmoved /\ UNCHANGED <<commands, order, sibling, run, turn, service, todo>>
    BY <1>1 DEF vars, attemptVars, commandVars, serviceVars, Unmoved
  <2> QED BY <2>1, <2>2, IdleKeeps
<1>2. ASSUME NEW c \in Commands, NEW a \in Attempts, Begin(c, a)
      PROVE  TypeOK' /\ Sound'
  BY <1>2, RequestTyped, BeginKeeps
<1>3. ASSUME NEW c \in Commands, Resend(c)
      PROVE  TypeOK' /\ Sound'
  <2>1. PICK a \in Attempts : TRUE
    BY <1>3, TargetTyped DEF Resend, Sound, CommandInv, CommandSound, Underway
  <2> QED BY <1>3, <2>1, RequestTyped, ResendKeeps
<1>4. ASSUME NEW c \in Commands, CommandStep(c) \/ RemovalLands(c)
      PROVE  TypeOK' /\ Sound'
  BY <1>4, CommandStepKeeps
<1>5. ASSUME NEW a \in Attempts, AttemptStep(a) \/ OutsideStep(a) \/ RevalidationDisturbed(a)
      PROVE  TypeOK' /\ Sound'
  BY <1>5, OtherTyped, AttemptStepKeeps
<1>6. ASSUME NEW a \in Attempts, Admit(a)
      PROVE  TypeOK' /\ Sound'
  BY <1>6, OtherTyped, AdmitKeeps
<1>7. CASE RecoveryStep
  BY <1>7, RecoveryTyped, OpenKeeps, RecoverNextKeeps, ServeKeeps, LookupKeeps DEF RecoveryStep
<1>8. CASE SetControls \/ EditLabel
  <2>1. Unmoved /\ UNCHANGED <<commands, order, sibling, run, turn, service, todo>>
    BY <1>8 DEF SetControls, EditLabel, Unmoved, attemptVars, commandVars
  <2> QED BY <1>8, <2>1, OtherTyped, IdleKeeps
<1>9. ASSUME NEW spawned \in SUBSET Attempts, Crash(spawned)
      PROVE  TypeOK' /\ Sound'
  BY <1>9, CrashTyped, CrashKeeps
<1> QED BY <1>1, <1>2, <1>3, <1>4, <1>5, <1>6, <1>7, <1>8, <1>9 DEF Next

LEMMA Invariance == Spec => []IInv
BY Starts, Preserved, PTL DEF Spec

(* Every variable of the lifecycle keeps its type: a command's target, for *)
(* one, is an attempt as long as its fiber runs, so that every write of    *)
(* finishLifecycleCommand finds its row.                                   *)
THEOREM TypeCorrect == Spec => []TypeOK
<1>1. IInv => TypeOK
  BY DEF IInv
<1> QED BY <1>1, Invariance, PTL

(* Whatever crashes, stops, late writes of an aborted provider and         *)
(* restarts happen, a provider's process that runs belongs to an attempt   *)
(* in an active state, which is what the count of the used slots and the   *)
(* unique index of the active attempts of an issue look at.                *)
THEOREM ProcessCounted == Spec => []ProcessHoldsSlot
<1>1. IInv => ProcessHoldsSlot
  BY DEF IInv, Sound, AttemptInv, AttemptSound, GroupSound, ProcessHoldsSlot
<1> QED BY <1>1, Invariance, PTL

(* finishLifecycleCommand writes "stopped" only when nothing of the        *)
(* attempt's process group is left, and nothing joins it later.            *)
THEOREM StopConfirmed == Spec => []StoppedIsGone
<1>1. IInv => StoppedIsGone
  BY DEF IInv, Sound, AttemptInv, AttemptSound, GroupSound, StoppedIsGone
<1> QED BY <1>1, Invariance, PTL

(* The event of a command is appended once, although a crash may come      *)
(* between it and the command's last phase, and recovery executes again    *)
(* whatever did not reach it.                                              *)
THEOREM NotedAtMostOnce == Spec => []ConsequenceOnce
<1>1. IInv => ConsequenceOnce
  BY DEF IInv
<1> QED BY <1>1, Invariance, PTL

(* The receipt "lifecycle:<id>" makes the reservation of a Restart         *)
(* idempotent: no second attempt ever comes from the same command.         *)
THEOREM SiblingReservedOnce == Spec => []OneSiblingPerRestart
<1>1. IInv => OneSiblingPerRestart
  <2> SUFFICES ASSUME TypeOK, OriginInv, NEW c \in Commands
               PROVE  Cardinality({a \in Attempts : origin[a] = c}) <= 1
    BY DEF IInv, Sound, OneSiblingPerRestart
  <2>1. sibling[c] \subseteq Attempts /\ (sibling[c] = {} \/ \E a \in Attempts : sibling[c] = {a})
    BY SiblingTyped
  <2>2. {a \in Attempts : origin[a] = c} = sibling[c]
    BY <2>1 DEF OriginInv
  <2>3. CASE sibling[c] = {}
    BY <2>2, <2>3, FS_EmptySet
  <2>4. ASSUME NEW a \in Attempts, sibling[c] = {a}
        PROVE  Cardinality({b \in Attempts : origin[b] = c}) <= 1
    BY <2>2, <2>4, FS_Singleton
  <2> QED BY <2>1, <2>3, <2>4
<1> QED BY <1>1, Invariance, PTL

(* A Return that succeeded looked for the attempt's pull request when      *)
(* nothing could open one any more, through all its checkpoints and after  *)
(* any crash between them.  Outside the property are failed attempts where *)
(* group members may outlive their leader, and siblings of a Restart.      *)
THEOREM ReturnLookedLast == Spec => []ReturnedHasNoPullRequest
<1>1. IInv => ReturnedHasNoPullRequest
  BY DEF IInv, Sound, ReturnInv, ReturnSound, CommandInv, CommandSound, Unlabelling,
     ReturnedHasNoPullRequest
<1> QED BY <1>1, Invariance, PTL
=============================================================================
