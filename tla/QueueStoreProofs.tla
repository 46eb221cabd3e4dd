--------------------------- MODULE QueueStoreProofs ---------------------------
(***************************************************************************)
(* Theorems about the state store, for any number of issues, repositories, *)
(* commands, slots, attempts and tenures, and for any caller that keeps to *)
(* StoreNext.                                                              *)
(***************************************************************************)
EXTENDS QueueStore, FiniteSetTheorems, SequenceTheorems, TLAPS

-----------------------------------------------------------------------------
(* Rows *)

\* A function on 1..n is a sequence of length n.
LEMMA FunctionIsSeq ==
  ASSUME NEW S, NEW n \in Nat, NEW f \in [1..n -> S]
  PROVE  f \in Seq(S) /\ Len(f) = n /\ DOMAIN f = 1..n
<1>1. f \in Seq(S)  BY SeqDef
<1> QED  BY <1>1

\* Ending the open tenure of an issue keeps the number of its tenures and
\* closes exactly the open ones.
LEMMA EndedRows ==
  ASSUME NEW rows \in Seq(Tenure), NEW reason \in EndReasons
  PROVE  /\ Ended(rows, reason) \in Seq(Tenure)
         /\ Len(Ended(rows, reason)) = Len(rows)
         /\ \A k \in 1..Len(rows) :
              /\ Ended(rows, reason)[k].ended # "open"
              /\ rows[k].ended # "open" => Ended(rows, reason)[k] = rows[k]
<1>1. DOMAIN rows = 1..Len(rows) /\ Len(rows) \in Nat  OBVIOUS
<1>2. \A k \in 1..Len(rows) : rows[k] \in Tenure  OBVIOUS
<1>3. reason # "open" /\ reason \in EndReasons \cup {"open"}  BY DEF EndReasons
<1>4. Ended(rows, reason) \in [1..Len(rows) -> Tenure]
  BY <1>1, <1>2, <1>3 DEF Ended, Tenure
<1>5. \A k \in 1..Len(rows) :
        /\ Ended(rows, reason)[k].ended # "open"
        /\ rows[k].ended # "open" => Ended(rows, reason)[k] = rows[k]
  BY <1>1, <1>2, <1>3 DEF Ended, Tenure
<1> QED  BY <1>1, <1>4, <1>5, FunctionIsSeq

\* Refreshing the open tenure changes only its commit.
LEMMA RefreshedRows ==
  ASSUME NEW rows \in Seq(Tenure), NEW commit \in Nat
  PROVE  /\ Refreshed(rows, commit) \in Seq(Tenure)
         /\ Len(Refreshed(rows, commit)) = Len(rows)
         /\ \A k \in 1..Len(rows) :
              Refreshed(rows, commit)[k].ended = rows[k].ended
<1>1. DOMAIN rows = 1..Len(rows) /\ Len(rows) \in Nat  OBVIOUS
<1>2. \A k \in 1..Len(rows) : rows[k] \in Tenure  OBVIOUS
<1>3. Refreshed(rows, commit) \in [1..Len(rows) -> Tenure]
  BY <1>1, <1>2 DEF Refreshed, Tenure
<1>4. \A k \in 1..Len(rows) :
        Refreshed(rows, commit)[k].ended = rows[k].ended
  BY <1>1, <1>2 DEF Refreshed, Tenure
<1> QED  BY <1>1, <1>3, <1>4, FunctionIsSeq

\* Observing a loss sets "lost" of the active attempts and nothing else.
LEMMA LossRows ==
  ASSUME NEW rows \in Seq(Attempt)
  PROVE  /\ WithLoss(rows) \in Seq(Attempt)
         /\ Len(WithLoss(rows)) = Len(rows)
         /\ \A j \in 1..Len(rows) :
              WithLoss(rows)[j] =
                [rows[j] EXCEPT !.lost = @ \/ rows[j].active]
<1>1. DOMAIN rows = 1..Len(rows) /\ Len(rows) \in Nat  OBVIOUS
<1>2. \A j \in 1..Len(rows) : rows[j] \in Attempt  OBVIOUS
<1>3. WithLoss(rows) \in [1..Len(rows) -> Attempt]
  BY <1>1, <1>2 DEF WithLoss, Attempt
<1>4. ASSUME NEW j \in 1..Len(rows)
      PROVE  WithLoss(rows)[j] = [rows[j] EXCEPT !.lost = @ \/ rows[j].active]
  BY <1>1, <1>2 DEF WithLoss, Attempt
<1> QED  BY <1>1, <1>3, <1>4, FunctionIsSeq

-----------------------------------------------------------------------------
(* Type correctness, one lemma per group of transactions *)

\* Ending tenures of a set of issues keeps the table of tenures well-formed.
LEMMA EndedType ==
  ASSUME StoreTypeOK, NEW removed, NEW reason \in EndReasons,
         tenures' = [i \in Issues |-> IF i \in removed
                                        THEN Ended(tenures[i], reason)
                                        ELSE tenures[i]]
  PROVE  /\ tenures' \in [Issues -> Seq(Tenure)]
         /\ \A i \in Issues : Len(tenures'[i]) = Len(tenures[i])
<1>1. \A i \in Issues : tenures[i] \in Seq(Tenure)  BY DEF StoreTypeOK
<1> QED  BY <1>1, EndedRows DEF StoreTypeOK

\* So does changing the end of one open tenure.
LEMMA EndOneType ==
  ASSUME StoreTypeOK, NEW i \in Issues, NEW k \in 1..MaxTenures, IsOpen(i, k),
         NEW reason \in EndReasons,
         tenures' = [tenures EXCEPT ![i][k].ended = reason]
  PROVE  /\ tenures' \in [Issues -> Seq(Tenure)]
         /\ \A n \in Issues : Len(tenures'[n]) = Len(tenures[n])
<1>1. tenures[i] \in Seq(Tenure) /\ k \in 1..Len(tenures[i])
  BY DEF StoreTypeOK, IsOpen
<1>2. tenures[i][k] \in Tenure  BY <1>1
<1>3. [tenures[i][k] EXCEPT !.ended = reason] \in Tenure
  BY <1>2 DEF Tenure, EndReasons
<1>4. [tenures[i] EXCEPT ![k] = [tenures[i][k] EXCEPT !.ended = reason]]
        \in [1..Len(tenures[i]) -> Tenure]
  BY <1>1, <1>3
<1>5. /\ tenures'[i] \in Seq(Tenure)
      /\ Len(tenures'[i]) = Len(tenures[i])
  BY <1>1, <1>4, FunctionIsSeq DEF StoreTypeOK
<1> QED  BY <1>5 DEF StoreTypeOK

\* Recording losses keeps the table of attempts well-formed.
LEMMA LossType ==
  ASSUME StoreTypeOK, NEW lost, RecordLosses(lost)
  PROVE  /\ attempts' \in [Issues -> Seq(Attempt)]
         /\ \A i \in Issues : Len(attempts'[i]) = Len(attempts[i])
<1>1. \A i \in Issues : attempts[i] \in Seq(Attempt)  BY DEF StoreTypeOK
<1> QED  BY <1>1, LossRows DEF StoreTypeOK, RecordLosses

\* The queue's transactions.
LEMMA QueueType ==
  ASSUME StoreTypeOK, QueueStoreAssumption
  PROVE  /\ \A repositories : EndTenuresOutside(repositories) => StoreTypeOK'
         /\ \A i \in Issues, k \in 1..MaxTenures :
              /\ MarkIneligible(i, k) => StoreTypeOK'
              /\ \A reason \in EndReasons :
                   EndTenure(i, k, reason) => StoreTypeOK'
         /\ \A p, e \in BOOLEAN : SetControls(p, e) => StoreTypeOK'
<1>1. ASSUME NEW repositories, EndTenuresOutside(repositories)
      PROVE  StoreTypeOK'
  BY <1>1, EndedType, LossType
  DEF EndTenuresOutside, LoseEligibility, StoreTypeOK, EndReasons
<1>2. ASSUME NEW i \in Issues, NEW k \in 1..MaxTenures, MarkIneligible(i, k)
      PROVE  StoreTypeOK'
  <2>1. CASE IsOpen(i, k)
    BY <1>2, <2>1, EndOneType, LossType
    DEF MarkIneligible, LoseEligibility, StoreTypeOK, EndReasons
  <2>2. CASE ~IsOpen(i, k)
    BY <1>2, <2>2 DEF MarkIneligible, StoreTypeOK, storeVars
  <2> QED  BY <2>1, <2>2
<1>3. ASSUME NEW i \in Issues, NEW k \in 1..MaxTenures,
             NEW reason \in EndReasons, EndTenure(i, k, reason)
      PROVE  StoreTypeOK'
  <2>1. CASE IsOpen(i, k)
    BY <1>3, <2>1, EndOneType DEF EndTenure, StoreTypeOK
  <2>2. CASE ~IsOpen(i, k)
    BY <1>3, <2>2 DEF EndTenure, StoreTypeOK, storeVars
  <2> QED  BY <2>1, <2>2
<1>4. ASSUME NEW p \in BOOLEAN, NEW e \in BOOLEAN, SetControls(p, e)
      PROVE  StoreTypeOK'
  BY <1>4 DEF SetControls, StoreTypeOK
<1> QED  BY <1>1, <1>2, <1>3, <1>4

\* The reconciliation of one discovery.
LEMMA ReconcileType ==
  ASSUME StoreTypeOK, QueueStoreAssumption,
         NEW r, NEW found \in SUBSET Issues, NEW commit \in Nat,
         NEW stamp \in Nat, Reconcile(r, found, commit, stamp)
  PROVE  StoreTypeOK'
<1> DEFINE gone  == {i \in Issues : RepositoryOf[i] = r} \ found
           fresh == {i \in found : StartsTenure(i)}
           lost  == {i \in gone : status[i] = "eligible"}
           row   == [since |-> stamp, commit |-> commit, ended |-> "open"]
<1>1. RecordLosses(lost)  BY DEF Reconcile
<1>2. \A i \in Issues : tenures[i] \in Seq(Tenure)
                       /\ Len(tenures[i]) <= MaxTenures
  BY DEF StoreTypeOK
<1>3. row \in Tenure  BY DEF Tenure
<1>4. ASSUME NEW i \in Issues
      PROVE  tenures'[i] \in Seq(Tenure) /\ Len(tenures'[i]) <= MaxTenures
  <2>1. CASE i \in gone
    <3>1. tenures'[i] = Ended(tenures[i], "no_longer_eligible")
      BY <2>1 DEF Reconcile
    <3> QED  BY <1>2, <3>1, EndedRows DEF EndReasons
  <2>2. CASE i \notin gone /\ i \in fresh
    <3>1. tenures'[i] = Append(tenures[i], row) /\ Len(tenures[i]) < MaxTenures
      BY <2>2 DEF Reconcile
    <3> QED  BY <1>2, <1>3, <3>1 DEF QueueStoreAssumption
  <2>3. CASE i \notin gone /\ i \notin fresh /\ i \in found
    <3>1. tenures'[i] = Refreshed(tenures[i], commit)
      BY <2>3 DEF Reconcile
    <3>2. /\ Refreshed(tenures[i], commit) \in Seq(Tenure)
          /\ Len(Refreshed(tenures[i], commit)) = Len(tenures[i])
      BY <1>2, RefreshedRows
    <3> QED  BY <1>2, <3>1, <3>2
  <2>4. CASE i \notin gone /\ i \notin found
    BY <1>2, <2>4 DEF Reconcile
  <2> QED  BY <2>1, <2>2, <2>3, <2>4
<1>5. tenures' \in [Issues -> Seq(Tenure)]  BY <1>4 DEF Reconcile
<1>6. status' \in [Issues -> {"unseen", "eligible", "ineligible"}]
  BY DEF Reconcile, StoreTypeOK
<1>7. UNCHANGED <<receipts, paused, codexEnabled>>  BY DEF Reconcile
<1> QED  BY <1>1, <1>4, <1>5, <1>6, <1>7, LossType DEF StoreTypeOK

-----------------------------------------------------------------------------
(* Admission *)

\* What a started admission has checked when it reserves.
AdmissionChecks(command, kind, i, tenure) ==
  /\ receipts[command] = NoReceipt
  /\ AdmissionOpen
  /\ ~SlotsTaken
  /\ tenure # NoTenure => IsOpen(tenure[1], tenure[2]) /\ tenure[1] = i
  /\ IF kind = "next" THEN attempts[i] = <<>> ELSE ~HasActiveAttempt(i)

\* An admission either refuses or reserves one of the candidates.
LEMMA AdmitCases ==
  ASSUME NEW command, NEW kind, NEW candidates \in SUBSET Issues,
         NEW tenure \in TenureIds \cup {NoTenure},
         tenure = NoTenure \/ candidates = {tenure[1]},
         Admit(command, kind, candidates, tenure)
  PROVE  \/ /\ receipts[command] = NoReceipt
            /\ \E reason \in Refusals : Refuse(command, kind, reason)
         \/ \E i \in candidates : /\ AdmissionChecks(command, kind, i, tenure)
                                 /\ Reserve(command, kind, i, tenure)
<1> DEFINE outcome == AdmitOutcome(kind, candidates, tenure)
<1>1. CASE outcome # "started"
  <2>1. outcome \in Refusals  BY <1>1 DEF AdmitOutcome, Refusals
  <2> QED  BY <1>1, <2>1 DEF Admit
<1>2. CASE outcome = "started"
  <2>1. PICK i \in Unseen(kind, candidates) : Reserve(command, kind, i, tenure)
    BY <1>2 DEF Admit
  <2>2. TenureUsable(tenure, candidates) /\ ~SlotsTaken
    BY <1>2 DEF AdmitOutcome
  <2>3. i \in candidates /\ IF kind = "next" THEN attempts[i] = <<>>
                                             ELSE ~HasActiveAttempt(i)
    BY <2>1 DEF Unseen
  <2>4. AdmissionChecks(command, kind, i, tenure)
    BY <2>2, <2>3 DEF AdmissionChecks, TenureUsable, Admit
  <2> QED  BY <2>1, <2>3, <2>4
<1> QED  BY <1>1, <1>2

LEMMA RefuseType ==
  ASSUME StoreTypeOK, NEW command \in CommandIds, NEW kind,
         NEW reason \in Refusals, Refuse(command, kind, reason)
  PROVE  StoreTypeOK'
<1>1. Refused(reason) \in Receipt  BY DEF Receipt
<1>2. receipts' \in [CommandIds -> Receipt]
  BY <1>1 DEF Refuse, StoreTypeOK
<1> QED  BY <1>2 DEF Refuse, StoreTypeOK

\* The tenure that an admission ends.
LEMMA EndAdmittedType ==
  ASSUME StoreTypeOK, NEW tenure \in TenureIds \cup {NoTenure},
         tenure # NoTenure => IsOpen(tenure[1], tenure[2]),
         EndAdmitted(tenure)
  PROVE  /\ tenures' \in [Issues -> Seq(Tenure)]
         /\ \A n \in Issues : Len(tenures'[n]) = Len(tenures[n])
<1>1. CASE tenure = NoTenure
  BY <1>1 DEF EndAdmitted, StoreTypeOK
<1>2. CASE tenure # NoTenure
  <2>1. /\ tenure[1] \in Issues /\ tenure[2] \in 1..MaxTenures
        /\ IsOpen(tenure[1], tenure[2])
    BY <1>2 DEF TenureIds
  <2>2. tenures' = [tenures EXCEPT ![tenure[1]][tenure[2]].ended = "admitted"]
    BY <1>2 DEF EndAdmitted
  <2>3. "admitted" \in EndReasons  BY DEF EndReasons
  <2> HIDE DEF EndAdmitted
  <2> QED  BY <2>1, <2>2, <2>3, EndOneType
<1> QED  BY <1>1, <1>2

\* The row an admission inserts.
LEMMA NewAttemptType ==
  ASSUME StoreTypeOK, NEW kind \in Kinds, NEW i \in Issues,
         NEW ending \in 0..MaxTenures
  PROVE  NewAttempt(kind, i, ending) \in Attempt
<1>1. tenures[i] \in Seq(Tenure) /\ Len(tenures[i]) <= MaxTenures
  BY DEF StoreTypeOK
<1>2. Len(tenures[i]) \in 0..MaxTenures  BY <1>1
<1> QED  BY <1>2 DEF NewAttempt, Attempt

LEMMA ReserveType ==
  ASSUME StoreTypeOK, QueueStoreAssumption,
         NEW command \in CommandIds, NEW kind \in Kinds, NEW i \in Issues,
         NEW tenure \in TenureIds \cup {NoTenure},
         AdmissionChecks(command, kind, i, tenure),
         Reserve(command, kind, i, tenure)
  PROVE  StoreTypeOK'
<1> DEFINE ending == IF tenure = NoTenure THEN 0 ELSE tenure[2]
<1>1. ending \in 0..MaxTenures
  BY DEF TenureIds, QueueStoreAssumption
<1>2. NewAttempt(kind, i, ending) \in Attempt  BY <1>1, NewAttemptType
<1>3. /\ attempts[i] \in Seq(Attempt) /\ Len(attempts[i]) \in Nat
      /\ Len(attempts[i]) < MaxAttempts
  BY DEF StoreTypeOK, Reserve
<1>4. attempts' = [attempts EXCEPT ![i] =
                     Append(attempts[i], NewAttempt(kind, i, ending))]
  BY DEF Reserve
<1>5. /\ attempts' \in [Issues -> Seq(Attempt)]
      /\ \A n \in Issues : Len(attempts'[n]) <= MaxAttempts
  BY <1>2, <1>3, <1>4 DEF StoreTypeOK, QueueStoreAssumption
<1>6. /\ tenures' \in [Issues -> Seq(Tenure)]
      /\ \A n \in Issues : Len(tenures'[n]) = Len(tenures[n])
  BY EndAdmittedType DEF Reserve, AdmissionChecks
<1>7. Started(i, Len(attempts[i]) + 1) \in Receipt
  BY <1>3 DEF Receipt, QueueStoreAssumption
<1>8. receipts' \in [CommandIds -> Receipt]
  BY <1>7 DEF Reserve, StoreTypeOK
<1>9. status' \in [Issues -> {"unseen", "eligible", "ineligible"}]
  BY DEF Reserve, StoreTypeOK
<1> QED  BY <1>5, <1>6, <1>8, <1>9 DEF Reserve, StoreTypeOK

-----------------------------------------------------------------------------
(* Attempts after their admission *)

LEMMA AttemptType ==
  ASSUME StoreTypeOK, NEW i \in Issues, NEW j \in 1..MaxAttempts,
         Settle(i, j) \/ Revive(i, j) \/ Return(i, j)
  PROVE  StoreTypeOK'
<1>1. attempts[i] \in Seq(Attempt) /\ j \in 1..Len(attempts[i])
  BY DEF StoreTypeOK, Settle, Revive, Return
<1>2. attempts[i][j] \in Attempt  BY <1>1
<1>3. PICK row \in Attempt :
        attempts' = [attempts EXCEPT ![i] = [attempts[i] EXCEPT ![j] = row]]
  <2>1. CASE Settle(i, j)
    <3>1. [attempts[i][j] EXCEPT !.active = FALSE] \in Attempt
      BY <1>2 DEF Attempt
    <3> QED  BY <2>1, <3>1 DEF Settle
  <2>2. CASE Revive(i, j)
    <3>1. [attempts[i][j] EXCEPT !.active = TRUE, !.revived = TRUE] \in Attempt
      BY <1>2 DEF Attempt
    <3>2. attempts' = [attempts EXCEPT ![i] = [attempts[i] EXCEPT ![j] =
                        [attempts[i][j] EXCEPT !.active = TRUE, !.revived = TRUE]]]
      BY <1>1, <1>2, <2>2 DEF Revive, StoreTypeOK, Attempt
    <3> QED  BY <3>1, <3>2
  <2>3. CASE Return(i, j)
    <3>1. [attempts[i][j] EXCEPT !.returned = TRUE] \in Attempt
      BY <1>2 DEF Attempt
    <3> QED  BY <2>3, <3>1 DEF Return
  <2> QED  BY <2>1, <2>2, <2>3
<1>4. [attempts[i] EXCEPT ![j] = row] \in [1..Len(attempts[i]) -> Attempt]
  BY <1>1
<1>5. /\ attempts'[i] \in Seq(Attempt)
      /\ Len(attempts'[i]) = Len(attempts[i])
  BY <1>1, <1>3, <1>4, FunctionIsSeq DEF StoreTypeOK
<1>6. /\ attempts' \in [Issues -> Seq(Attempt)]
      /\ \A n \in Issues : Len(attempts'[n]) <= MaxAttempts
  BY <1>3, <1>5 DEF StoreTypeOK
<1>7. UNCHANGED <<tenures, status, receipts, paused, codexEnabled>>
  BY DEF Settle, Revive, Return
<1> QED  BY <1>6, <1>7 DEF StoreTypeOK

LEMMA RecoverType ==
  ASSUME StoreTypeOK, NEW kept, NEW repositories, Recover(kept, repositories)
  PROVE  StoreTypeOK'
<1> DEFINE removed == {i \in Issues : RepositoryOf[i] \notin repositories}
           lost == {i \in removed : status[i] = "eligible"}
           rows(i) == [j \in DOMAIN attempts[i] |->
                         [attempts[i][j] EXCEPT !.active = @ /\ <<i, j>> \in kept]]
<1>1. ASSUME NEW i \in Issues
      PROVE  rows(i) \in Seq(Attempt) /\ Len(rows(i)) = Len(attempts[i])
  <2>1. attempts[i] \in Seq(Attempt) /\ DOMAIN attempts[i] = 1..Len(attempts[i])
    BY DEF StoreTypeOK
  <2>2. \A j \in 1..Len(attempts[i]) : attempts[i][j] \in Attempt  BY <2>1
  <2>3. rows(i) \in [1..Len(attempts[i]) -> Attempt]  BY <2>1, <2>2 DEF Attempt
  <2> QED  BY <2>1, <2>3, FunctionIsSeq
<1>2. attempts' = [i \in Issues |-> IF i \in lost THEN WithLoss(rows(i)) ELSE rows(i)]
  BY DEF Recover
<1> HIDE DEF rows
<1>3. /\ attempts' \in [Issues -> Seq(Attempt)]
      /\ \A i \in Issues : Len(attempts'[i]) = Len(attempts[i])
  <2>1. \A i \in Issues : /\ WithLoss(rows(i)) \in Seq(Attempt)
                         /\ Len(WithLoss(rows(i))) = Len(attempts[i])
    BY <1>1, LossRows
  <2> QED  BY <1>1, <1>2, <2>1
<1>4. /\ tenures' \in [Issues -> Seq(Tenure)]
      /\ \A i \in Issues : Len(tenures'[i]) = Len(tenures[i])
  BY EndedType DEF Recover, EndReasons
<1>5. status' \in [Issues -> {"unseen", "eligible", "ineligible"}]
  BY DEF Recover, StoreTypeOK
<1> QED  BY <1>3, <1>4, <1>5 DEF Recover, StoreTypeOK

\* The tables stay well-formed whatever sequence of transactions runs.
LEMMA StoreNextType ==
  ASSUME StoreTypeOK, [StoreNext]_storeVars
  PROVE  StoreTypeOK'
<1> USE QueueStoreAssumption
<1>1. CASE UNCHANGED storeVars
  BY <1>1 DEF storeVars, StoreTypeOK
<1>2. CASE \E repositories \in SUBSET Repositories : EndTenuresOutside(repositories)
  BY <1>2, QueueType
<1>3. CASE \E r \in Repositories, found \in SUBSET Issues, commit, stamp \in Nat :
             Reconcile(r, found, commit, stamp)
  BY <1>3, ReconcileType
<1>4. CASE \E i \in Issues, k \in 1..MaxTenures :
             \/ MarkIneligible(i, k)
             \/ \E reason \in EndReasons \ {"admitted"} : EndTenure(i, k, reason)
  BY <1>4, QueueType
<1>5. CASE \E pausedNow, enabledNow \in BOOLEAN : SetControls(pausedNow, enabledNow)
  BY <1>5, QueueType
<1>6. ASSUME NEW command \in CommandIds, NEW kind \in Kinds,
             NEW candidates \in SUBSET Issues,
             NEW tenure \in TenureIds \cup {NoTenure},
             tenure = NoTenure \/ candidates = {tenure[1]},
             Admit(command, kind, candidates, tenure)
      PROVE  StoreTypeOK'
  BY <1>6, AdmitCases, RefuseType, ReserveType
<1>7. CASE \E i \in Issues, j \in 1..MaxAttempts :
             Settle(i, j) \/ Revive(i, j) \/ Return(i, j)
  BY <1>7, AttemptType
<1>8. CASE \E kept \in SUBSET ActiveAttempts, repositories \in SUBSET Repositories :
             Recover(kept, repositories)
  BY <1>8, RecoverType
<1> QED  BY <1>1, <1>2, <1>3, <1>4, <1>5, <1>6, <1>7, <1>8 DEF StoreNext

LEMMA StoreInitType == StoreInit => StoreTypeOK
<1> USE QueueStoreAssumption
<1> SUFFICES ASSUME StoreInit PROVE StoreTypeOK  OBVIOUS
<1>1. NoReceipt \in Receipt  BY DEF Receipt
<1>2. <<>> \in Seq(Attempt) /\ <<>> \in Seq(Tenure) /\ Len(<<>>) = 0  OBVIOUS
<1>3. MaxAttempts \in Nat /\ MaxTenures \in Nat  BY DEF QueueStoreAssumption
<1>4. /\ attempts \in [Issues -> Seq(Attempt)]
      /\ \A i \in Issues : Len(attempts[i]) <= MaxAttempts
  BY <1>2, <1>3 DEF StoreInit
<1>5. /\ tenures \in [Issues -> Seq(Tenure)]
      /\ \A i \in Issues : Len(tenures[i]) <= MaxTenures
  BY <1>2, <1>3 DEF StoreInit
<1>6. receipts \in [CommandIds -> Receipt]  BY <1>1 DEF StoreInit
<1>7. /\ status \in [Issues -> {"unseen", "eligible", "ineligible"}]
      /\ paused \in BOOLEAN /\ codexEnabled \in BOOLEAN
  BY DEF StoreInit
<1> QED  BY <1>4, <1>5, <1>6, <1>7 DEF StoreTypeOK

\* Type correctness of the store, for every caller.
THEOREM StoreTypeCorrect == StoreSpec => []StoreTypeOK
<1> QED  BY StoreInitType, StoreNextType, PTL DEF StoreSpec

-----------------------------------------------------------------------------
(* What a transaction may do to the attempts *)

\* A row whose attempt was not reserved, revived or renamed by the step.
RowKept(a, b) ==
  /\ b.kind = a.kind /\ b.tenure = a.tenure
  /\ b.seen = a.seen /\ b.revived = a.revived
  /\ b.active => a.active
  /\ a.lost => b.lost

AttemptsKept ==
  \A i \in Issues :
    /\ Len(attempts'[i]) = Len(attempts[i])
    /\ \A j \in 1..Len(attempts[i]) : RowKept(attempts[i][j], attempts'[i][j])

LEMMA UnchangedKept ==
  ASSUME StoreTypeOK, UNCHANGED attempts  PROVE AttemptsKept
BY DEF StoreTypeOK, AttemptsKept, RowKept

LEMMA LossKept ==
  ASSUME StoreTypeOK, NEW lost, RecordLosses(lost)  PROVE AttemptsKept
<1>1. ASSUME NEW i \in Issues, NEW j \in 1..Len(attempts[i])
      PROVE  RowKept(attempts[i][j], WithLoss(attempts[i])[j])
  <2>1. attempts[i] \in Seq(Attempt)  BY DEF StoreTypeOK
  <2>2. attempts[i][j] \in Attempt  BY <2>1
  <2>3. WithLoss(attempts[i])[j] =
          [attempts[i][j] EXCEPT !.lost = @ \/ attempts[i][j].active]
    BY <2>1, LossRows
  <2> QED  BY <2>2, <2>3 DEF RowKept, Attempt
<1>2. \A i \in Issues : attempts[i] \in Seq(Attempt)  BY DEF StoreTypeOK
<1>3. \A i \in Issues : Len(WithLoss(attempts[i])) = Len(attempts[i])
  BY <1>2, LossRows
<1>4. \A i \in Issues : \A j \in 1..Len(attempts[i]) :
        RowKept(attempts[i][j], attempts[i][j])
  BY DEF RowKept
<1> QED  BY <1>1, <1>3, <1>4 DEF RecordLosses, AttemptsKept

LEMMA LossAfterKept ==
  ASSUME NEW a, NEW b \in Attempt, RowKept(a, b)
  PROVE  RowKept(a, [b EXCEPT !.lost = @ \/ b.active])
BY DEF RowKept, Attempt

LEMMA RecoverKept ==
  ASSUME StoreTypeOK, NEW kept, NEW repositories, Recover(kept, repositories)
  PROVE  AttemptsKept
<1> DEFINE removed == {i \in Issues : RepositoryOf[i] \notin repositories}
           lost == {i \in removed : status[i] = "eligible"}
           rows(i) == [j \in DOMAIN attempts[i] |->
                         [attempts[i][j] EXCEPT !.active = @ /\ <<i, j>> \in kept]]
<1>1. ASSUME NEW i \in Issues
      PROVE  /\ rows(i) \in Seq(Attempt) /\ Len(rows(i)) = Len(attempts[i])
             /\ \A j \in 1..Len(attempts[i]) : RowKept(attempts[i][j], rows(i)[j])
  <2>1. attempts[i] \in Seq(Attempt) /\ DOMAIN attempts[i] = 1..Len(attempts[i])
    BY DEF StoreTypeOK
  <2>2. \A j \in 1..Len(attempts[i]) : attempts[i][j] \in Attempt  BY <2>1
  <2>3. rows(i) \in [1..Len(attempts[i]) -> Attempt]  BY <2>1, <2>2 DEF Attempt
  <2>4. \A j \in 1..Len(attempts[i]) : RowKept(attempts[i][j], rows(i)[j])
    BY <2>1, <2>2 DEF Attempt, RowKept
  <2> QED  BY <2>1, <2>3, <2>4, FunctionIsSeq
<1>2. attempts' = [i \in Issues |-> IF i \in lost THEN WithLoss(rows(i)) ELSE rows(i)]
  BY DEF Recover
<1> HIDE DEF rows
<1>3. ASSUME NEW i \in Issues
      PROVE  /\ Len(WithLoss(rows(i))) = Len(attempts[i])
             /\ \A j \in 1..Len(attempts[i]) :
                  RowKept(attempts[i][j], WithLoss(rows(i))[j])
  <2>1. /\ rows(i) \in Seq(Attempt) /\ Len(rows(i)) = Len(attempts[i])
        /\ \A j \in 1..Len(attempts[i]) : RowKept(attempts[i][j], rows(i)[j])
    BY <1>1
  <2>2. \A j \in 1..Len(attempts[i]) : rows(i)[j] \in Attempt  BY <2>1
  <2>3. /\ Len(WithLoss(rows(i))) = Len(attempts[i])
        /\ \A j \in 1..Len(attempts[i]) :
             WithLoss(rows(i))[j] = [rows(i)[j] EXCEPT !.lost = @ \/ rows(i)[j].active]
    BY <2>1, LossRows
  <2>4. ASSUME NEW j \in 1..Len(attempts[i])
        PROVE  RowKept(attempts[i][j], WithLoss(rows(i))[j])
    <3>1. rows(i)[j] \in Attempt /\ RowKept(attempts[i][j], rows(i)[j])
      BY <2>1, <2>2
    <3>2. RowKept(attempts[i][j], [rows(i)[j] EXCEPT !.lost = @ \/ rows(i)[j].active])
      BY <3>1, LossAfterKept
    <3> QED  BY <2>3, <3>2
  <2> QED  BY <2>3, <2>4
<1> QED  BY <1>1, <1>2, <1>3 DEF AttemptsKept

LEMMA SettleKept ==
  ASSUME StoreTypeOK, NEW i \in Issues, NEW j \in 1..MaxAttempts,
         Settle(i, j) \/ Return(i, j)
  PROVE  AttemptsKept
<1>1. attempts[i] \in Seq(Attempt) /\ j \in 1..Len(attempts[i])
  BY DEF StoreTypeOK, Settle, Return
<1>2. attempts[i][j] \in Attempt  BY <1>1
<1>3. \A n \in Issues : attempts[n] \in Seq(Attempt)  BY DEF StoreTypeOK
<1>4. \A n \in Issues : \A m \in 1..Len(attempts[n]) :
        RowKept(attempts[n][m], attempts[n][m])
  BY DEF RowKept
<1>5. CASE Settle(i, j)
  <2>1. RowKept(attempts[i][j], [attempts[i][j] EXCEPT !.active = FALSE])
    BY <1>2 DEF RowKept, Attempt
  <2> QED  BY <1>1, <1>3, <1>4, <1>5, <2>1 DEF Settle, AttemptsKept, StoreTypeOK
<1>6. CASE Return(i, j)
  <2>1. RowKept(attempts[i][j], [attempts[i][j] EXCEPT !.returned = TRUE])
    BY <1>2 DEF RowKept, Attempt
  <2> QED  BY <1>1, <1>3, <1>4, <1>6, <2>1 DEF Return, AttemptsKept, StoreTypeOK
<1> QED  BY <1>5, <1>6

\* A revival touches one row, which it marks.
LEMMA ReviveRows ==
  ASSUME StoreTypeOK, NEW i \in Issues, NEW j \in 1..MaxAttempts, Revive(i, j)
  PROVE  /\ j \in 1..Len(attempts[i])
         /\ Len(attempts'[i]) = Len(attempts[i])
         /\ attempts'[i][j].revived
         /\ attempts'[i][j].tenure = attempts[i][j].tenure
         /\ \A m \in 1..Len(attempts[i]) : m # j => attempts'[i][m] = attempts[i][m]
         /\ \A n \in Issues \ {i} : attempts'[n] = attempts[n]
<1>1. attempts[i] \in Seq(Attempt) /\ j \in 1..Len(attempts[i])
  BY DEF StoreTypeOK, Revive
<1>2. attempts[i][j] \in Attempt  BY <1>1
<1> QED  BY <1>1, <1>2 DEF Revive, StoreTypeOK, Attempt

\* A reservation adds one row.
LEMMA ReserveRows ==
  ASSUME StoreTypeOK, NEW command, NEW kind, NEW i \in Issues, NEW tenure,
         Reserve(command, kind, i, tenure)
  PROVE  /\ Len(attempts[i]) \in Nat
         /\ Len(attempts'[i]) = Len(attempts[i]) + 1
         /\ \A m \in 1..Len(attempts[i]) : attempts'[i][m] = attempts[i][m]
         /\ \A n \in Issues \ {i} : attempts'[n] = attempts[n]
<1>1. attempts[i] \in Seq(Attempt) /\ Len(attempts[i]) \in Nat
  BY DEF StoreTypeOK
<1>2. PICK row : attempts' = [attempts EXCEPT ![i] = Append(attempts[i], row)]
  BY DEF Reserve
<1> QED  BY <1>1, <1>2 DEF StoreTypeOK

\* The new row names the tenure.
LEMMA ReserveNames ==
  ASSUME StoreTypeOK, NEW command, NEW kind, NEW i \in Issues, NEW tenure,
         Reserve(command, kind, i, tenure)
  PROVE  attempts'[i][Len(attempts[i]) + 1].tenure =
           (IF tenure = NoTenure THEN 0 ELSE tenure[2])
<1> DEFINE row == NewAttempt(kind, i, IF tenure = NoTenure THEN 0 ELSE tenure[2])
<1>1. attempts[i] \in Seq(Attempt) /\ Len(attempts[i]) \in Nat
  BY DEF StoreTypeOK
<1>2. row.tenure = (IF tenure = NoTenure THEN 0 ELSE tenure[2])
  BY DEF NewAttempt
<1>3. attempts' = [attempts EXCEPT ![i] = Append(attempts[i], row)]
  BY DEF Reserve
<1> HIDE DEF row
<1> QED  BY <1>1, <1>2, <1>3 DEF StoreTypeOK

\* A step reserves an attempt, revives one, or keeps the attempts.
LEMMA AttemptsStep ==
  ASSUME StoreTypeOK, [StoreNext]_storeVars
  PROVE  \/ AttemptsKept
         \/ \E i \in Issues, j \in 1..MaxAttempts : Revive(i, j)
         \/ \E command \in CommandIds, kind \in Kinds, i \in Issues,
               tenure \in TenureIds \cup {NoTenure} :
              /\ AdmissionChecks(command, kind, i, tenure)
              /\ Reserve(command, kind, i, tenure)
<1>1. CASE UNCHANGED storeVars
  BY <1>1, UnchangedKept DEF storeVars
<1>2. CASE \E repositories \in SUBSET Repositories : EndTenuresOutside(repositories)
  BY <1>2, LossKept DEF EndTenuresOutside, LoseEligibility
<1>3. CASE \E r \in Repositories, found \in SUBSET Issues, commit, stamp \in Nat :
             Reconcile(r, found, commit, stamp)
  BY <1>3, LossKept DEF Reconcile
<1>4. CASE \E i \in Issues, k \in 1..MaxTenures :
             \/ MarkIneligible(i, k)
             \/ \E reason \in EndReasons \ {"admitted"} : EndTenure(i, k, reason)
  BY <1>4, LossKept, UnchangedKept
  DEF MarkIneligible, EndTenure, LoseEligibility, storeVars
<1>5. CASE \E pausedNow, enabledNow \in BOOLEAN : SetControls(pausedNow, enabledNow)
  BY <1>5, UnchangedKept DEF SetControls
<1>6. ASSUME NEW command \in CommandIds, NEW kind \in Kinds,
             NEW candidates \in SUBSET Issues,
             NEW tenure \in TenureIds \cup {NoTenure},
             tenure = NoTenure \/ candidates = {tenure[1]},
             Admit(command, kind, candidates, tenure)
      PROVE  \/ AttemptsKept
             \/ \E i \in Issues : /\ AdmissionChecks(command, kind, i, tenure)
                                 /\ Reserve(command, kind, i, tenure)
  <2>1. ASSUME NEW reason, Refuse(command, kind, reason)  PROVE AttemptsKept
    BY <2>1, UnchangedKept DEF Refuse
  <2> QED  BY <1>6, <2>1, AdmitCases
<1>7. CASE \E i \in Issues, j \in 1..MaxAttempts :
             Settle(i, j) \/ Revive(i, j) \/ Return(i, j)
  BY <1>7, SettleKept
<1>8. CASE \E kept \in SUBSET ActiveAttempts, repositories \in SUBSET Repositories :
             Recover(kept, repositories)
  BY <1>8, RecoverKept
<1> QED  BY <1>1, <1>2, <1>3, <1>4, <1>5, <1>6, <1>7, <1>8 DEF StoreNext

-----------------------------------------------------------------------------
(* One active attempt per issue *)

LEMMA OneActiveStep ==
  ASSUME StoreTypeOK, OneActiveAttempt, [StoreNext]_storeVars
  PROVE  OneActiveAttempt'
<1>1. CASE AttemptsKept
  BY <1>1 DEF AttemptsKept, RowKept, OneActiveAttempt
<1>2. ASSUME NEW i \in Issues, NEW j \in 1..MaxAttempts, Revive(i, j)
      PROVE  OneActiveAttempt'
  <2>1. \A m \in 1..Len(attempts[i]) : ~attempts[i][m].active
    BY <1>2 DEF Revive, HasActiveAttempt
  <2>2. /\ Len(attempts'[i]) = Len(attempts[i])
        /\ \A m \in 1..Len(attempts[i]) : attempts'[i][m].active => m = j
        /\ \A n \in Issues \ {i} : attempts'[n] = attempts[n]
    BY <1>2, <2>1, ReviveRows
  <2> QED  BY <2>2 DEF OneActiveAttempt
<1>3. ASSUME NEW command, NEW kind, NEW i \in Issues, NEW tenure,
             AdmissionChecks(command, kind, i, tenure),
             Reserve(command, kind, i, tenure)
      PROVE  OneActiveAttempt'
  <2>1. \A m \in 1..Len(attempts[i]) : ~attempts[i][m].active
    BY <1>3 DEF AdmissionChecks, HasActiveAttempt
  <2>2. /\ Len(attempts[i]) \in Nat
        /\ Len(attempts'[i]) = Len(attempts[i]) + 1
        /\ \A m \in 1..Len(attempts[i]) : attempts'[i][m] = attempts[i][m]
        /\ \A n \in Issues \ {i} : attempts'[n] = attempts[n]
    BY <1>3, ReserveRows
  <2>3. \A m \in 1..Len(attempts'[i]) :
          attempts'[i][m].active => m = Len(attempts[i]) + 1
    BY <2>1, <2>2
  <2> QED  BY <2>2, <2>3 DEF OneActiveAttempt
<1> QED  BY <1>1, <1>2, <1>3, AttemptsStep

\* No sequence of transactions makes two attempts of an issue active: the
\* admission's own checks suffice for reservations, and the unique index is
\* needed only where a late write would revive a settled attempt.
THEOREM StoreOneActiveAttempt == StoreSpec => []OneActiveAttempt
<1>1. StoreInit => OneActiveAttempt  BY DEF StoreInit, OneActiveAttempt
<1> QED  BY <1>1, OneActiveStep, StoreTypeCorrect, PTL DEF StoreSpec

-----------------------------------------------------------------------------
(* Capacity *)

\* The attempts that CapacityRespected counts.
Unrevived == {a \in ActiveAttempts : ~attempts[a[1]][a[2]].revived}

LEMMA ActiveFinite ==
  /\ IsFiniteSet(ActiveAttempts) /\ Cardinality(ActiveAttempts) \in Nat
  /\ IsFiniteSet(Unrevived) /\ Cardinality(Unrevived) \in Nat
  /\ Cardinality(Unrevived) <= Cardinality(ActiveAttempts)
<1>1. IsFiniteSet(Issues) /\ IsFiniteSet(1..MaxAttempts)
  BY QueueStoreAssumption, FS_Interval DEF QueueStoreAssumption
<1>2. IsFiniteSet(Issues \X (1..MaxAttempts))  BY <1>1, FS_Product
<1>3. IsFiniteSet(ActiveAttempts)  BY <1>2, FS_Subset DEF ActiveAttempts
<1>4. Unrevived \subseteq ActiveAttempts  BY DEF Unrevived
<1> QED  BY <1>3, <1>4, FS_Subset, FS_CardinalityType

LEMMA CapacityStep ==
  ASSUME StoreTypeOK, CapacityRespected, [StoreNext]_storeVars
  PROVE  CapacityRespected'
<1>1. Cardinality(Unrevived) <= Slots  BY DEF CapacityRespected, Unrevived
<1>2. SUFFICES Cardinality(Unrevived') <= Slots
  BY DEF CapacityRespected, Unrevived
<1>3. IsFiniteSet(Unrevived) /\ Cardinality(Unrevived) \in Nat /\ Slots \in Nat
  BY ActiveFinite, QueueStoreAssumption DEF QueueStoreAssumption
<1>4. ASSUME Unrevived' \subseteq Unrevived
      PROVE  Cardinality(Unrevived') <= Slots
  <2>1. /\ Cardinality(Unrevived') <= Cardinality(Unrevived)
        /\ IsFiniteSet(Unrevived')
    BY <1>3, <1>4, FS_Subset
  <2>2. Cardinality(Unrevived') \in Nat  BY <2>1, FS_CardinalityType
  <2> QED  BY <1>1, <1>3, <2>1, <2>2
<1>5. CASE AttemptsKept
  <2>1. ASSUME NEW a \in Unrevived'  PROVE a \in Unrevived
    BY <1>5 DEF AttemptsKept, RowKept, Unrevived, ActiveAttempts, StoreTypeOK
  <2> QED  BY <1>4, <2>1
<1>6. ASSUME NEW i \in Issues, NEW j \in 1..MaxAttempts, Revive(i, j)
      PROVE  Cardinality(Unrevived') <= Slots
  <2>1. /\ Len(attempts'[i]) = Len(attempts[i])
        /\ attempts'[i][j].revived
        /\ \A m \in 1..Len(attempts[i]) : m # j => attempts'[i][m] = attempts[i][m]
        /\ \A n \in Issues \ {i} : attempts'[n] = attempts[n]
    BY <1>6, ReviveRows
  <2>2. ASSUME NEW a \in Unrevived'  PROVE a \in Unrevived
    <3>1. /\ a \in Issues \X (1..MaxAttempts)
          /\ a[2] <= Len(attempts'[a[1]])
          /\ attempts'[a[1]][a[2]].active /\ ~attempts'[a[1]][a[2]].revived
      BY DEF Unrevived, ActiveAttempts
    <3>2. /\ a[2] <= Len(attempts[a[1]])
          /\ attempts'[a[1]][a[2]] = attempts[a[1]][a[2]]
      BY <2>1, <3>1
    <3> QED  BY <3>1, <3>2 DEF Unrevived, ActiveAttempts
  <2> QED  BY <1>4, <2>2
<1>7. ASSUME NEW command, NEW kind, NEW i \in Issues, NEW tenure,
             AdmissionChecks(command, kind, i, tenure),
             Reserve(command, kind, i, tenure)
      PROVE  Cardinality(Unrevived') <= Slots
  <2> DEFINE new == <<i, Len(attempts[i]) + 1>>
  <2>3. /\ Len(attempts[i]) \in Nat
        /\ Len(attempts'[i]) = Len(attempts[i]) + 1
        /\ \A m \in 1..Len(attempts[i]) : attempts'[i][m] = attempts[i][m]
        /\ \A n \in Issues \ {i} : attempts'[n] = attempts[n]
    BY <1>7, ReserveRows
  <2>4. ASSUME NEW a \in Unrevived', a # new  PROVE a \in Unrevived
    <3>1. /\ a \in Issues \X (1..MaxAttempts)
          /\ a[2] <= Len(attempts'[a[1]])
          /\ attempts'[a[1]][a[2]].active /\ ~attempts'[a[1]][a[2]].revived
      BY DEF Unrevived, ActiveAttempts
    <3>2. /\ a[2] <= Len(attempts[a[1]])
          /\ attempts'[a[1]][a[2]] = attempts[a[1]][a[2]]
      BY <2>3, <2>4, <3>1
    <3> QED  BY <3>1, <3>2 DEF Unrevived, ActiveAttempts
  <2>5. Unrevived' \subseteq Unrevived \cup {new}  BY <2>4
  <2>6. /\ IsFiniteSet(Unrevived \cup {new})
        /\ Cardinality(Unrevived \cup {new}) <= Cardinality(Unrevived) + 1
    <3>1. /\ IsFiniteSet(Unrevived \cup {new})
          /\ \/ Cardinality(Unrevived \cup {new}) = Cardinality(Unrevived)
             \/ Cardinality(Unrevived \cup {new}) = Cardinality(Unrevived) + 1
      BY <1>3, FS_AddElement, Zenon
    <3> QED  BY <1>3, <3>1
  <2>7. Cardinality(Unrevived) < Slots
    BY <1>3, <1>7, ActiveFinite DEF AdmissionChecks, SlotsTaken
  <2>8. /\ IsFiniteSet(Unrevived')
        /\ Cardinality(Unrevived') <= Cardinality(Unrevived \cup {new})
    BY <2>5, <2>6, FS_Subset
  <2>9. Cardinality(Unrevived') \in Nat /\ Cardinality(Unrevived \cup {new}) \in Nat
    BY <2>6, <2>8, FS_CardinalityType
  <2> QED  BY <1>3, <2>6, <2>7, <2>8, <2>9
<1> QED  BY <1>5, <1>6, <1>7, AttemptsStep

\* Admissions never fill more than the configured slots, whatever attempts
\* other writes bring back.
THEOREM StoreCapacityRespected == StoreSpec => []CapacityRespected
<1>1. StoreInit => CapacityRespected
  <2> SUFFICES ASSUME StoreInit PROVE CapacityRespected  OBVIOUS
  <2>1. Unrevived = {}  BY DEF StoreInit, Unrevived, ActiveAttempts
  <2>2. CapacityRespected <=> Cardinality(Unrevived) <= Slots
    BY DEF CapacityRespected, Unrevived
  <2> QED  BY <2>1, <2>2, FS_EmptySet, QueueStoreAssumption
        DEF QueueStoreAssumption
<1> QED  BY <1>1, CapacityStep, StoreTypeCorrect, PTL DEF StoreSpec

-----------------------------------------------------------------------------
(* Receipts *)

\* A step leaves the receipts alone, refuses, or reserves.
LEMMA ReceiptsStep ==
  ASSUME [StoreNext]_storeVars
  PROVE  \/ receipts' = receipts
         \/ \E command \in CommandIds, reason \in Refusals :
              /\ receipts[command] = NoReceipt
              /\ receipts' = [receipts EXCEPT ![command] = Refused(reason)]
              /\ attempts' = attempts
         \/ \E command \in CommandIds, kind \in Kinds, i \in Issues,
               tenure \in TenureIds \cup {NoTenure} :
              /\ AdmissionChecks(command, kind, i, tenure)
              /\ Reserve(command, kind, i, tenure)
<1>1. ASSUME NEW command \in CommandIds, NEW kind \in Kinds,
             NEW candidates \in SUBSET Issues,
             NEW tenure \in TenureIds \cup {NoTenure},
             tenure = NoTenure \/ candidates = {tenure[1]},
             Admit(command, kind, candidates, tenure)
      PROVE  \/ receipts' = receipts
             \/ \E reason \in Refusals :
                  /\ receipts[command] = NoReceipt
                  /\ receipts' = [receipts EXCEPT ![command] = Refused(reason)]
                  /\ attempts' = attempts
             \/ \E i \in Issues : /\ AdmissionChecks(command, kind, i, tenure)
                                 /\ Reserve(command, kind, i, tenure)
  BY <1>1, AdmitCases DEF Refuse
<1> QED
  BY <1>1 DEF StoreNext, storeVars, EndTenuresOutside, Reconcile, MarkIneligible,
     EndTenure, SetControls, Settle, Revive, Return, Recover

LEMMA ReceiptsKept ==
  ASSUME StoreTypeOK, [StoreNext]_storeVars, NEW c \in CommandIds,
         receipts[c] # NoReceipt
  PROVE  receipts'[c] = receipts[c]
<1>1. receipts \in [CommandIds -> Receipt]  BY DEF StoreTypeOK
<1>2. ASSUME NEW command \in CommandIds, receipts[command] = NoReceipt,
             NEW answer, receipts' = [receipts EXCEPT ![command] = answer]
      PROVE  receipts'[c] = receipts[c]
  BY <1>1, <1>2
<1> QED  BY <1>2, ReceiptsStep DEF AdmissionChecks, Reserve

\* A repeated command always gets the first answer.
THEOREM StoreReceiptsDurable == StoreSpec => ReceiptsDurable
<1>1. StoreTypeOK /\ [StoreNext]_storeVars =>
        [\A c \in CommandIds : receipts[c] # NoReceipt => receipts'[c] = receipts[c]
        ]_storeVars
  BY ReceiptsKept
<1> QED  BY <1>1, StoreTypeCorrect, PTL DEF StoreSpec, ReceiptsDurable

LEMMA StartedOnceStep ==
  ASSUME StoreTypeOK, StartedOnce, [StoreNext]_storeVars
  PROVE  StartedOnce'
<1>1. \A i \in Issues : \A j \in 1..Len(attempts[i]) :
        \E c \in CommandIds : receipts'[c] = Started(i, j)
  <2>1. \A i \in Issues : \A j : Started(i, j) # NoReceipt
    BY DEF Started, NoReceipt
  <2> QED  BY <2>1, ReceiptsKept DEF StartedOnce
<1>2. CASE AttemptsKept
  BY <1>1, <1>2 DEF AttemptsKept, StartedOnce
<1>3. ASSUME NEW i \in Issues, NEW j \in 1..MaxAttempts, Revive(i, j)
      PROVE  StartedOnce'
  <2>1. \A n \in Issues : Len(attempts'[n]) = Len(attempts[n])
    BY <1>3 DEF Revive, StoreTypeOK
  <2> QED  BY <1>1, <2>1 DEF StartedOnce
<1>4. ASSUME NEW command \in CommandIds, NEW kind, NEW i \in Issues, NEW tenure,
             AdmissionChecks(command, kind, i, tenure),
             Reserve(command, kind, i, tenure)
      PROVE  StartedOnce'
  <2>3. /\ Len(attempts[i]) \in Nat
        /\ Len(attempts'[i]) = Len(attempts[i]) + 1
        /\ \A n \in Issues \ {i} : attempts'[n] = attempts[n]
    BY <1>4, ReserveRows
  <2>4. receipts'[command] = Started(i, Len(attempts[i]) + 1)
    BY <1>4 DEF Reserve, StoreTypeOK
  <2>5. ASSUME NEW n \in Issues, NEW m \in 1..Len(attempts'[n])
        PROVE  \E c \in CommandIds : receipts'[c] = Started(n, m)
    <3>1. CASE n = i /\ m = Len(attempts[i]) + 1
      BY <2>4, <3>1
    <3>2. CASE ~(n = i /\ m = Len(attempts[i]) + 1)
      <4>1. m \in 1..Len(attempts[n])  BY <2>3, <3>2
      <4> QED  BY <1>1, <4>1
    <3> QED  BY <3>1, <3>2
  <2> QED  BY <2>5 DEF StartedOnce
<1> QED  BY <1>2, <1>3, <1>4, AttemptsStep

\* Every attempt has the receipt of one command, so a command id that two
\* requests carry at once starts at most one attempt.
THEOREM StoreStartedOnce == StoreSpec => []StartedOnce
<1>1. StoreInit => StartedOnce  BY DEF StoreInit, StartedOnce
<1> QED  BY <1>1, StartedOnceStep, StoreTypeCorrect, PTL DEF StoreSpec

-----------------------------------------------------------------------------
(* Closed dispatch *)

LEMMA ReservedWhenOpen ==
  ASSUME StoreTypeOK, [StoreNext]_storeVars,
         NEW i \in Issues, Len(attempts'[i]) > Len(attempts[i])
  PROVE  AdmissionOpen
<1>1. attempts[i] \in Seq(Attempt) /\ Len(attempts[i]) \in Nat  BY DEF StoreTypeOK
<1>2. ~AttemptsKept  BY <1>1 DEF AttemptsKept
<1>3. ASSUME NEW n \in Issues, NEW j, Revive(n, j)  PROVE FALSE
  BY <1>1, <1>3 DEF Revive, StoreTypeOK
<1> QED  BY <1>2, <1>3, AttemptsStep DEF AdmissionChecks

\* Nothing is reserved while dispatch is paused or Codex is disabled, however
\* long ago the caller read the controls.
THEOREM StoreClosedDispatch == StoreSpec => ClosedDispatchReservesNothing
<1>1. StoreTypeOK /\ [StoreNext]_storeVars =>
        [(\E i \in Issues : Len(attempts'[i]) > Len(attempts[i])) => AdmissionOpen
        ]_storeVars
  BY ReservedWhenOpen
<1> QED  BY <1>1, StoreTypeCorrect, PTL
          DEF StoreSpec, ClosedDispatchReservesNothing

-----------------------------------------------------------------------------
(* The queue *)

\* The tenures of issue i after a step that closes no more than it should:
\* none is open, or the open ones are as before and the issue is eligible.
TenuresClosed(i) ==
  /\ Len(tenures'[i]) = Len(tenures[i])
  /\ \A k \in 1..Len(tenures[i]) : tenures'[i][k].ended # "open"

TenuresKept(i) ==
  /\ Len(tenures'[i]) = Len(tenures[i])
  /\ \A k \in 1..Len(tenures[i]) :
       tenures'[i][k].ended = "open" => tenures[i][k].ended = "open"
  /\ status[i] = "eligible" => status'[i] = "eligible"

TenureAdded(i) ==
  /\ Len(tenures'[i]) = Len(tenures[i]) + 1
  /\ \A k \in 1..Len(tenures[i]) : tenures'[i][k].ended # "open"
  /\ status'[i] = "eligible"

LEMMA ConsistentIf ==
  ASSUME StoreTypeOK, QueueConsistent,
         \A i \in Issues : TenuresClosed(i) \/ TenuresKept(i) \/ TenureAdded(i)
  PROVE  QueueConsistent'
<1>1. SUFFICES ASSUME NEW i \in Issues, NEW k \in 1..Len(tenures'[i]),
                      tenures'[i][k].ended = "open"
               PROVE  k = Len(tenures'[i]) /\ status'[i] = "eligible"
  BY DEF QueueConsistent
<1>2. tenures[i] \in Seq(Tenure) /\ Len(tenures[i]) \in Nat  BY DEF StoreTypeOK
<1>3. CASE TenuresClosed(i)  BY <1>1, <1>3 DEF TenuresClosed
<1>4. CASE TenuresKept(i)    BY <1>1, <1>4 DEF TenuresKept, QueueConsistent
<1>5. CASE TenureAdded(i)    BY <1>1, <1>2, <1>5 DEF TenureAdded
<1> QED  BY <1>3, <1>4, <1>5

\* An issue that a transaction does not name keeps its tenures.
LEMMA SameKept ==
  ASSUME NEW i, tenures'[i] = tenures[i],
         status[i] = "eligible" => status'[i] = "eligible"
  PROVE  TenuresKept(i)
BY DEF TenuresKept

LEMMA EndedClosed ==
  ASSUME StoreTypeOK, NEW i \in Issues, NEW reason \in EndReasons,
         tenures'[i] = Ended(tenures[i], reason)
  PROVE  TenuresClosed(i)
<1>1. tenures[i] \in Seq(Tenure)  BY DEF StoreTypeOK
<1> QED  BY <1>1, EndedRows DEF TenuresClosed

LEMMA EndOneKept ==
  ASSUME StoreTypeOK, NEW i \in Issues, NEW k \in 1..Len(tenures[i]),
         NEW reason \in EndReasons,
         tenures' = [tenures EXCEPT ![i][k].ended = reason]
  PROVE  /\ Len(tenures'[i]) = Len(tenures[i])
         /\ tenures'[i][k].ended = reason
         /\ \A m \in 1..Len(tenures[i]) : m # k => tenures'[i][m] = tenures[i][m]
         /\ \A n \in Issues \ {i} : tenures'[n] = tenures[n]
<1>1. tenures[i] \in Seq(Tenure)  BY DEF StoreTypeOK
<1>2. tenures[i][k] \in Tenure  BY <1>1
<1> QED  BY <1>1, <1>2 DEF StoreTypeOK, Tenure

LEMMA ReconcileQueue ==
  ASSUME StoreTypeOK, QueueConsistent, NEW r, NEW found \in SUBSET Issues,
         NEW commit \in Nat, NEW stamp \in Nat, Reconcile(r, found, commit, stamp)
  PROVE  \A i \in Issues : TenuresClosed(i) \/ TenuresKept(i) \/ TenureAdded(i)
<1> DEFINE gone  == {i \in Issues : RepositoryOf[i] = r} \ found
           fresh == {i \in found : StartsTenure(i)}
           lost  == {i \in gone : status[i] = "eligible"}
           row   == [since |-> stamp, commit |-> commit, ended |-> "open"]
<1>1. SUFFICES ASSUME NEW i \in Issues
               PROVE  TenuresClosed(i) \/ TenuresKept(i) \/ TenureAdded(i)
  OBVIOUS
<1>2. tenures[i] \in Seq(Tenure) /\ Len(tenures[i]) \in Nat  BY DEF StoreTypeOK
<1>3. CASE i \in gone
  <2>1. tenures'[i] = Ended(tenures[i], "no_longer_eligible")
    BY <1>3 DEF Reconcile
  <2> QED  BY <2>1, EndedClosed DEF EndReasons
<1>4. CASE i \notin gone /\ i \in fresh
  <2>1. tenures'[i] = Append(tenures[i], row) /\ status'[i] = "eligible"
    BY <1>4 DEF Reconcile
  <2>2. \A k \in 1..Len(tenures[i]) : tenures[i][k].ended # "open"
    BY <1>4 DEF StartsTenure, HasOpenTenure
  <2>3. /\ Len(tenures'[i]) = Len(tenures[i]) + 1
        /\ \A k \in 1..Len(tenures[i]) : tenures'[i][k] = tenures[i][k]
    BY <1>2, <2>1
  <2> QED  BY <2>1, <2>2, <2>3 DEF TenureAdded
<1>5. CASE i \notin gone /\ i \notin fresh /\ i \in found
  <2>1. tenures'[i] = Refreshed(tenures[i], commit) /\ status'[i] = "eligible"
    BY <1>5 DEF Reconcile
  <2>2. /\ Len(Refreshed(tenures[i], commit)) = Len(tenures[i])
        /\ \A k \in 1..Len(tenures[i]) :
             Refreshed(tenures[i], commit)[k].ended = tenures[i][k].ended
    BY <1>2, RefreshedRows
  <2> QED  BY <2>1, <2>2 DEF TenuresKept
<1>6. CASE i \notin gone /\ i \notin found
  <2>1. tenures'[i] = tenures[i] /\ status'[i] = status[i]
    BY <1>6 DEF Reconcile
  <2> QED  BY <2>1, SameKept
<1> QED  BY <1>3, <1>4, <1>5, <1>6

LEMMA QueueConsistentStep ==
  ASSUME StoreTypeOK, QueueConsistent, [StoreNext]_storeVars
  PROVE  QueueConsistent'
<1>1. CASE UNCHANGED storeVars
  BY <1>1 DEF storeVars, QueueConsistent
<1>2. ASSUME NEW repositories,
             \/ EndTenuresOutside(repositories)
             \/ \E kept : Recover(kept, repositories)
      PROVE  QueueConsistent'
  <2> DEFINE removed == {i \in Issues : RepositoryOf[i] \notin repositories}
  <2>1. ASSUME NEW i \in removed  PROVE TenuresClosed(i)
    <3>1. tenures'[i] = Ended(tenures[i], "repository_removed")
      BY <1>2 DEF EndTenuresOutside, Recover
    <3> QED  BY <3>1, EndedClosed DEF EndReasons
  <2>2. ASSUME NEW i \in Issues \ removed  PROVE TenuresKept(i)
    <3>1. tenures'[i] = tenures[i]  BY <1>2 DEF EndTenuresOutside, Recover
    <3>2. status'[i] = status[i]
      BY <1>2 DEF EndTenuresOutside, Recover, LoseEligibility
    <3> QED  BY <3>1, <3>2, SameKept
  <2> QED  BY <2>1, <2>2, ConsistentIf
<1>3. CASE \E r \in Repositories, found \in SUBSET Issues, commit, stamp \in Nat :
             Reconcile(r, found, commit, stamp)
  BY <1>3, ReconcileQueue, ConsistentIf
<1>4. ASSUME NEW i \in Issues, NEW k \in 1..MaxTenures, MarkIneligible(i, k)
      PROVE  QueueConsistent'
  <2>1. CASE IsOpen(i, k)
    <3>1. tenures[i] \in Seq(Tenure) /\ k \in 1..Len(tenures[i])
      BY <2>1 DEF IsOpen, StoreTypeOK
    <3>2. tenures' = [tenures EXCEPT ![i][k].ended = "issue_ineligible"]
      BY <1>4, <2>1 DEF MarkIneligible
    <3>3. k = Len(tenures[i])  BY <2>1, <3>1 DEF IsOpen, QueueConsistent
    <3>4. TenuresClosed(i)
      <4>1. /\ Len(tenures'[i]) = Len(tenures[i])
            /\ tenures'[i][k].ended = "issue_ineligible"
            /\ \A m \in 1..Len(tenures[i]) : m # k => tenures'[i][m] = tenures[i][m]
        BY <3>1, <3>2, EndOneKept DEF EndReasons
      <4>2. \A m \in 1..Len(tenures[i]) : m # k => tenures[i][m].ended # "open"
        BY <3>3 DEF QueueConsistent
      <4> QED  BY <4>1, <4>2 DEF TenuresClosed
    <3>5. ASSUME NEW n \in Issues \ {i}  PROVE TenuresKept(n)
      <4>1. tenures'[n] = tenures[n]  BY <3>1, <3>2, EndOneKept DEF EndReasons
      <4>2. status'[n] = status[n]
        BY <1>4, <2>1 DEF MarkIneligible, LoseEligibility
      <4> QED  BY <4>1, <4>2, SameKept
    <3> QED  BY <3>4, <3>5, ConsistentIf
  <2>2. CASE ~IsOpen(i, k)
    BY <1>4, <2>2 DEF MarkIneligible, storeVars, QueueConsistent
  <2> QED  BY <2>1, <2>2
<1>5. ASSUME NEW i \in Issues, NEW k \in 1..MaxTenures, NEW reason \in EndReasons,
             EndTenure(i, k, reason)
      PROVE  QueueConsistent'
  <2>1. CASE IsOpen(i, k)
    <3>1. tenures[i] \in Seq(Tenure) /\ k \in 1..Len(tenures[i])
      BY <2>1 DEF IsOpen, StoreTypeOK
    <3>2. tenures' = [tenures EXCEPT ![i][k].ended = reason] /\ status' = status
      BY <1>5, <2>1 DEF EndTenure
    <3>3. \A n \in Issues : TenuresKept(n)
      BY <3>1, <3>2, EndOneKept DEF TenuresKept, EndReasons
    <3> QED  BY <3>3, ConsistentIf
  <2>2. CASE ~IsOpen(i, k)
    BY <1>5, <2>2 DEF EndTenure, storeVars, QueueConsistent
  <2> QED  BY <2>1, <2>2
<1>6. ASSUME NEW command, NEW kind, NEW i \in Issues,
             NEW tenure \in TenureIds \cup {NoTenure},
             AdmissionChecks(command, kind, i, tenure),
             Reserve(command, kind, i, tenure)
      PROVE  QueueConsistent'
  <2>1. \A n \in Issues : status[n] = "eligible" => status'[n] = "eligible"
    BY <1>6 DEF Reserve, StoreTypeOK
  <2>2. CASE tenure = NoTenure
    BY <1>6, <2>1, <2>2, SameKept, ConsistentIf DEF Reserve, EndAdmitted
  <2>3. CASE tenure # NoTenure
    <3>1. /\ IsOpen(i, tenure[2]) /\ tenure[2] \in 1..MaxTenures
          /\ tenures[i] \in Seq(Tenure) /\ tenure[2] \in 1..Len(tenures[i])
      BY <1>6, <2>3 DEF AdmissionChecks, TenureIds, IsOpen, StoreTypeOK
    <3>2. tenures' = [tenures EXCEPT ![i][tenure[2]].ended = "admitted"]
      BY <1>6, <2>3 DEF Reserve, EndAdmitted, AdmissionChecks
    <3>3. \A n \in Issues : TenuresKept(n)
      BY <2>1, <3>1, <3>2, EndOneKept DEF TenuresKept, EndReasons
    <3> QED  BY <3>3, ConsistentIf
  <2> QED  BY <2>2, <2>3
<1>7. ASSUME UNCHANGED <<tenures, status>>  PROVE QueueConsistent'
  BY <1>7 DEF QueueConsistent
<1>8. ASSUME NEW command \in CommandIds, NEW kind \in Kinds,
             NEW candidates \in SUBSET Issues,
             NEW tenure \in TenureIds \cup {NoTenure},
             tenure = NoTenure \/ candidates = {tenure[1]},
             Admit(command, kind, candidates, tenure)
      PROVE  QueueConsistent'
  BY <1>6, <1>7, <1>8, AdmitCases DEF Refuse
<1> QED
  BY <1>1, <1>2, <1>3, <1>4, <1>5, <1>7, <1>8
  DEF StoreNext, SetControls, Settle, Revive, Return

\* Only the last tenure of an issue can be open, and only while the issue is
\* recorded as eligible.
THEOREM StoreQueueConsistent == StoreSpec => []QueueConsistent
<1>1. StoreInit => QueueConsistent
  BY DEF StoreInit, QueueConsistent
<1> QED  BY <1>1, QueueConsistentStep, StoreTypeCorrect, PTL DEF StoreSpec

-----------------------------------------------------------------------------
(* Eligibility losses *)

\* Every active attempt of rows that observed a loss has the observation.
LEMMA LossRowsLost ==
  ASSUME NEW rows \in Seq(Attempt)
  PROVE  \A j \in 1..Len(WithLoss(rows)) :
           WithLoss(rows)[j].active => WithLoss(rows)[j].lost
<1>1. SUFFICES ASSUME NEW j \in 1..Len(rows)
               PROVE  WithLoss(rows)[j].active => WithLoss(rows)[j].lost
  BY LossRows
<1>2. rows[j] \in Attempt  OBVIOUS
<1>3. WithLoss(rows)[j] = [rows[j] EXCEPT !.lost = @ \/ rows[j].active]
  BY LossRows
<1> QED  BY <1>2, <1>3 DEF Attempt

LEMMA LossesRecorded ==
  ASSUME StoreTypeOK, NEW lost, RecordLosses(lost), NEW i \in Issues, i \in lost
  PROVE  \A j \in 1..Len(attempts'[i]) :
           attempts'[i][j].active => attempts'[i][j].lost
<1>1. attempts[i] \in Seq(Attempt)  BY DEF StoreTypeOK
<1>2. attempts'[i] = WithLoss(attempts[i])  BY DEF RecordLosses
<1> QED  BY <1>1, <1>2, LossRowsLost

\* Whenever a step makes an issue ineligible, it records the loss for every
\* attempt of it that is active afterwards.
LEMMA LossStep ==
  ASSUME StoreTypeOK, [StoreNext]_storeVars, NEW i \in Issues,
         status[i] # "ineligible", status'[i] = "ineligible"
  PROVE  \A j \in 1..Len(attempts'[i]) :
           attempts'[i][j].active => attempts'[i][j].lost
<1> DEFINE Recorded == \A j \in 1..Len(attempts'[i]) :
                         attempts'[i][j].active => attempts'[i][j].lost
<1>1. ASSUME NEW lost \in SUBSET Issues, LoseEligibility(lost)  PROVE Recorded
  <2>1. i \in lost  BY <1>1 DEF LoseEligibility
  <2> QED  BY <1>1, <2>1, LossesRecorded DEF LoseEligibility
<1>2. ASSUME NEW repositories, EndTenuresOutside(repositories)  PROVE Recorded
  BY <1>1, <1>2 DEF EndTenuresOutside
<1>3. ASSUME NEW n, NEW k, MarkIneligible(n, k)  PROVE Recorded
  BY <1>1, <1>3 DEF MarkIneligible, storeVars
<1>4. ASSUME NEW r, NEW found, NEW commit, NEW stamp,
             Reconcile(r, found, commit, stamp)
      PROVE  Recorded
  <2> DEFINE gone == {n \in Issues : RepositoryOf[n] = r} \ found
             lost == {n \in gone : status[n] = "eligible"}
  <2>1. i \in lost /\ RecordLosses(lost)  BY <1>4 DEF Reconcile
  <2> QED  BY <2>1, LossesRecorded
<1>5. ASSUME NEW kept, NEW repositories, Recover(kept, repositories)
      PROVE  Recorded
  <2> DEFINE removed == {n \in Issues : RepositoryOf[n] \notin repositories}
             lost == {n \in removed : status[n] = "eligible"}
             rows == [j \in DOMAIN attempts[i] |->
                        [attempts[i][j] EXCEPT !.active = @ /\ <<i, j>> \in kept]]
  <2>1. i \in lost  BY <1>5 DEF Recover
  <2>2. attempts'[i] = WithLoss(rows)  BY <1>5, <2>1 DEF Recover
  <2>3. attempts[i] \in Seq(Attempt) /\ DOMAIN attempts[i] = 1..Len(attempts[i])
    BY DEF StoreTypeOK
  <2>4. \A j \in 1..Len(attempts[i]) : attempts[i][j] \in Attempt  BY <2>3
  <2>5. rows \in [1..Len(attempts[i]) -> Attempt]  BY <2>3, <2>4 DEF Attempt
  <2> HIDE DEF rows
  <2>6. rows \in Seq(Attempt)  BY <2>3, <2>5, FunctionIsSeq
  <2> QED  BY <2>2, <2>6, LossRowsLost
<1>6. ASSUME NEW command, NEW kind, NEW n, NEW tenure, Reserve(command, kind, n, tenure)
      PROVE  FALSE
  BY <1>6 DEF Reserve, StoreTypeOK
<1>7. ASSUME NEW command, NEW kind, NEW candidates, NEW tenure,
             Admit(command, kind, candidates, tenure)
      PROVE  FALSE
  BY <1>6, <1>7 DEF Admit, Refuse
<1> QED
  BY <1>2, <1>3, <1>4, <1>5, <1>7
  DEF StoreNext, storeVars, EndTenure, SetControls, Settle, Revive, Return

LEMMA LossObservedStep ==
  ASSUME StoreTypeOK, LossObserved, [StoreNext]_storeVars
  PROVE  LossObserved'
<1>1. SUFFICES ASSUME NEW i \in Issues, NEW j \in 1..Len(attempts'[i]),
                      attempts'[i][j].active, ~attempts'[i][j].revived,
                      status'[i] = "ineligible"
               PROVE  attempts'[i][j].lost
  BY DEF LossObserved
<1>2. CASE status[i] # "ineligible"  BY <1>1, <1>2, LossStep
<1>3. CASE status[i] = "ineligible"
  <2>1. CASE AttemptsKept
    BY <1>1, <1>3, <2>1 DEF AttemptsKept, RowKept, LossObserved
  <2>2. ASSUME NEW n \in Issues, NEW m \in 1..MaxAttempts, Revive(n, m)
        PROVE  attempts'[i][j].lost
    <3>1. j \in 1..Len(attempts[i]) /\ attempts'[i][j] = attempts[i][j]
      BY <1>1, <2>2, ReviveRows
    <3> QED  BY <1>1, <1>3, <3>1 DEF LossObserved
  <2>3. ASSUME NEW command, NEW kind, NEW n \in Issues, NEW tenure,
               Reserve(command, kind, n, tenure)
        PROVE  attempts'[i][j].lost
    <3>1. n # i  BY <1>1, <2>3 DEF Reserve, StoreTypeOK
    <3>2. attempts'[i] = attempts[i]  BY <2>3, <3>1 DEF Reserve, StoreTypeOK
    <3> QED  BY <1>1, <1>3, <3>2 DEF LossObserved
  <2> QED  BY <2>1, <2>2, <2>3, AttemptsStep
<1> QED  BY <1>2, <1>3

\* An attempt that is active while its issue is recorded as ineligible has an
\* observation that says so.
THEOREM StoreLossObserved == StoreSpec => []LossObserved
<1>1. StoreInit => LossObserved  BY DEF StoreInit, LossObserved
<1> QED  BY <1>1, LossObservedStep, StoreTypeCorrect, PTL DEF StoreSpec

-----------------------------------------------------------------------------
(* A tenure starts one attempt *)

\* The strengthening: an attempt names a tenure that exists, the tenure ended
\* as admitted, no two attempts name the same one, and an admitted tenure is
\* named.
NamesTenure(i, j, k) == j \in 1..Len(attempts[i]) /\ attempts[i][j].tenure = k

TenureInv ==
  /\ \A i \in Issues : \A j \in 1..Len(attempts[i]) :
       attempts[i][j].tenure <= Len(tenures[i])
  /\ \A i \in Issues : \A k \in 1..Len(tenures[i]) :
       tenures[i][k].ended = "admitted" <=> \E j : NamesTenure(i, j, k)
  /\ \A i \in Issues : \A k \in 1..Len(tenures[i]) : \A j, m :
       NamesTenure(i, j, k) /\ NamesTenure(i, m, k) => j = m

LEMMA TenureInvImplies == TenureInv => TenureAdmitsOnce
<1> SUFFICES ASSUME TenureInv, NEW i \in Issues, NEW k \in 1..Len(tenures[i])
             PROVE  LET consumers == {j \in 1..Len(attempts[i]) :
                                        attempts[i][j].tenure = k}
                    IN IF tenures[i][k].ended = "admitted"
                       THEN \E j \in consumers : consumers = {j}
                       ELSE consumers = {}
  BY DEF TenureAdmitsOnce
<1>1. /\ tenures[i][k].ended = "admitted" <=> \E j : NamesTenure(i, j, k)
      /\ \A j, m : NamesTenure(i, j, k) /\ NamesTenure(i, m, k) => j = m
  BY DEF TenureInv
<1> QED  BY <1>1 DEF NamesTenure

\* What a step that reserves nothing does to the tenures of issue i.
AdmittedKept(i) ==
  /\ Len(tenures[i]) \in Nat /\ Len(tenures'[i]) \in Nat
  /\ Len(tenures[i]) <= Len(tenures'[i])
  /\ \A k \in 1..Len(tenures[i]) :
       tenures'[i][k].ended = "admitted" <=> tenures[i][k].ended = "admitted"
  /\ \A k \in 1..Len(tenures'[i]) :
       k > Len(tenures[i]) => tenures'[i][k].ended # "admitted"

\* What such a step does to the attempts of issue i.
NamesKept(i) ==
  /\ Len(attempts'[i]) = Len(attempts[i])
  /\ \A j \in 1..Len(attempts[i]) : attempts'[i][j].tenure = attempts[i][j].tenure

LEMMA TenureInvIf ==
  ASSUME StoreTypeOK, TenureInv, \A i \in Issues : AdmittedKept(i) /\ NamesKept(i)
  PROVE  TenureInv'
<1>1. ASSUME NEW i \in Issues, NEW j, NEW k
      PROVE  NamesTenure(i, j, k)' <=> NamesTenure(i, j, k)
  BY DEF NamesTenure, NamesKept
<1>2. ASSUME NEW i \in Issues, NEW j \in 1..Len(attempts'[i])
      PROVE  attempts'[i][j].tenure <= Len(tenures'[i])
  <2>1. attempts[i] \in Seq(Attempt)  BY DEF StoreTypeOK
  <2>2. /\ j \in 1..Len(attempts[i])
        /\ attempts'[i][j].tenure = attempts[i][j].tenure
    BY DEF NamesKept
  <2>3. attempts[i][j].tenure \in 0..MaxTenures
    <3>1. attempts[i][j] \in Attempt  BY <2>1, <2>2
    <3> QED  BY <3>1 DEF Attempt
  <2>4. attempts[i][j].tenure <= Len(tenures[i])  BY <2>2 DEF TenureInv
  <2> QED  BY <2>2, <2>3, <2>4, QueueStoreAssumption
        DEF AdmittedKept, QueueStoreAssumption
<1>3. ASSUME NEW i \in Issues, NEW k \in 1..Len(tenures'[i]), k > Len(tenures[i]),
             NEW j
      PROVE  ~NamesTenure(i, j, k)
  <2>1. SUFFICES ASSUME j \in 1..Len(attempts[i]), attempts[i][j].tenure = k
                 PROVE  FALSE
    BY DEF NamesTenure
  <2>2. k <= Len(tenures[i])  BY <2>1 DEF TenureInv
  <2> QED  BY <1>3, <2>2 DEF AdmittedKept
<1>4. ASSUME NEW i \in Issues, NEW k \in 1..Len(tenures'[i])
      PROVE  /\ tenures'[i][k].ended = "admitted" <=> \E j : NamesTenure(i, j, k)'
             /\ \A j, m : NamesTenure(i, j, k)' /\ NamesTenure(i, m, k)' => j = m
  <2>1. CASE k \in 1..Len(tenures[i])
    BY <1>1, <2>1 DEF AdmittedKept, TenureInv
  <2>2. CASE k \notin 1..Len(tenures[i])
    <3>1. k > Len(tenures[i])  BY <2>2 DEF AdmittedKept
    <3> QED  BY <1>1, <1>3, <3>1 DEF AdmittedKept
  <2> QED  BY <2>1, <2>2
<1> QED  BY <1>2, <1>4 DEF TenureInv

LEMMA SameAdmitted ==
  ASSUME StoreTypeOK, NEW i \in Issues, tenures'[i] = tenures[i]
  PROVE  AdmittedKept(i)
<1>1. tenures[i] \in Seq(Tenure)  BY DEF StoreTypeOK
<1> QED  BY <1>1 DEF AdmittedKept

LEMMA EndedAdmitted ==
  ASSUME StoreTypeOK, NEW i \in Issues, NEW reason \in EndReasons \ {"admitted"},
         tenures'[i] = Ended(tenures[i], reason)
  PROVE  AdmittedKept(i)
<1>1. tenures[i] \in Seq(Tenure) /\ DOMAIN tenures[i] = 1..Len(tenures[i])
  BY DEF StoreTypeOK
<1>2. \A k \in 1..Len(tenures[i]) : tenures[i][k] \in Tenure  BY <1>1
<1>3. \A k \in 1..Len(tenures[i]) :
        Ended(tenures[i], reason)[k].ended =
          IF tenures[i][k].ended = "open" THEN reason ELSE tenures[i][k].ended
  BY <1>1, <1>2 DEF Ended, Tenure
<1>4. Len(Ended(tenures[i], reason)) = Len(tenures[i])  BY <1>1, EndedRows
<1> QED  BY <1>1, <1>3, <1>4 DEF AdmittedKept

LEMMA EndOneAdmitted ==
  ASSUME StoreTypeOK, NEW i \in Issues, NEW k \in 1..MaxTenures, IsOpen(i, k),
         NEW reason \in EndReasons \ {"admitted"},
         tenures' = [tenures EXCEPT ![i][k].ended = reason]
  PROVE  \A n \in Issues : AdmittedKept(n)
<1>1. tenures[i] \in Seq(Tenure) /\ k \in 1..Len(tenures[i])
  BY DEF IsOpen, StoreTypeOK
<1>2. /\ Len(tenures'[i]) = Len(tenures[i])
      /\ tenures'[i][k].ended = reason
      /\ \A m \in 1..Len(tenures[i]) : m # k => tenures'[i][m] = tenures[i][m]
      /\ \A n \in Issues \ {i} : tenures'[n] = tenures[n]
  BY <1>1, EndOneKept
<1>3. AdmittedKept(i)  BY <1>1, <1>2 DEF AdmittedKept, IsOpen
<1> QED  BY <1>2, <1>3, SameAdmitted

LEMMA ReconcileAdmitted ==
  ASSUME StoreTypeOK, NEW r, NEW found \in SUBSET Issues, NEW commit \in Nat,
         NEW stamp \in Nat, Reconcile(r, found, commit, stamp), NEW i \in Issues
  PROVE  AdmittedKept(i)
<1> DEFINE gone  == {n \in Issues : RepositoryOf[n] = r} \ found
           fresh == {n \in found : StartsTenure(n)}
           row   == [since |-> stamp, commit |-> commit, ended |-> "open"]
<1>1. tenures[i] \in Seq(Tenure) /\ Len(tenures[i]) \in Nat  BY DEF StoreTypeOK
<1>2. CASE i \in gone
  <2>1. tenures'[i] = Ended(tenures[i], "no_longer_eligible")
    BY <1>2 DEF Reconcile
  <2> QED  BY <2>1, EndedAdmitted DEF EndReasons
<1>3. CASE i \notin gone /\ i \in fresh
  <2>1. tenures'[i] = Append(tenures[i], row)  BY <1>3 DEF Reconcile
  <2>2. /\ Len(tenures'[i]) = Len(tenures[i]) + 1
        /\ tenures'[i][Len(tenures[i]) + 1] = row
        /\ \A k \in 1..Len(tenures[i]) : tenures'[i][k] = tenures[i][k]
    BY <1>1, <2>1
  <2> QED  BY <1>1, <2>2 DEF AdmittedKept
<1>4. CASE i \notin gone /\ i \notin fresh /\ i \in found
  <2>1. tenures'[i] = Refreshed(tenures[i], commit)  BY <1>4 DEF Reconcile
  <2>2. /\ Len(Refreshed(tenures[i], commit)) = Len(tenures[i])
        /\ \A k \in 1..Len(tenures[i]) :
             Refreshed(tenures[i], commit)[k].ended = tenures[i][k].ended
    BY <1>1, RefreshedRows
  <2> QED  BY <1>1, <2>1, <2>2 DEF AdmittedKept
<1>5. CASE i \notin gone /\ i \notin found
  BY <1>5, SameAdmitted DEF Reconcile
<1> QED  BY <1>2, <1>3, <1>4, <1>5

\* A reservation names the tenure it ends.
LEMMA ReserveTenure ==
  ASSUME StoreTypeOK, TenureInv, NEW command, NEW kind, NEW i \in Issues,
         NEW tenure \in TenureIds \cup {NoTenure},
         AdmissionChecks(command, kind, i, tenure),
         Reserve(command, kind, i, tenure)
  PROVE  TenureInv'
<1> DEFINE new == Len(attempts[i]) + 1
           ending == IF tenure = NoTenure THEN 0 ELSE tenure[2]
<1>1. /\ Len(attempts[i]) \in Nat /\ Len(attempts'[i]) = new
      /\ attempts'[i][new].tenure = ending
      /\ \A m \in 1..Len(attempts[i]) : attempts'[i][m] = attempts[i][m]
      /\ \A n \in Issues \ {i} : attempts'[n] = attempts[n]
  <2>1. attempts'[i][new].tenure = ending  BY ReserveNames
  <2>2. /\ Len(attempts[i]) \in Nat /\ Len(attempts'[i]) = new
        /\ \A m \in 1..Len(attempts[i]) : attempts'[i][m] = attempts[i][m]
        /\ \A n \in Issues \ {i} : attempts'[n] = attempts[n]
    BY ReserveRows
  <2> QED  BY <2>1, <2>2
<1>2. /\ tenures[i] \in Seq(Tenure) /\ Len(tenures[i]) \in Nat
      /\ \A n \in Issues : Len(tenures[n]) \in Nat
  BY DEF StoreTypeOK
<1>3. /\ ending \in 0..Len(tenures[i])
      /\ ending # 0 => /\ tenures[i][ending].ended = "open"
                       /\ tenures' = [tenures EXCEPT ![i][ending].ended = "admitted"]
      /\ ending = 0 => tenures' = tenures
  <2>1. CASE tenure = NoTenure
    BY <1>2, <2>1 DEF Reserve, EndAdmitted
  <2>2. CASE tenure # NoTenure
    <3>1. tenure[1] = i /\ IsOpen(i, tenure[2]) /\ tenure[2] \in 1..MaxTenures
      BY <2>2 DEF AdmissionChecks, TenureIds
    <3>2. tenures' = [tenures EXCEPT ![i][tenure[2]].ended = "admitted"]
      BY <2>2, <3>1 DEF Reserve, EndAdmitted
    <3> QED  BY <1>2, <2>2, <3>1, <3>2, QueueStoreAssumption
          DEF IsOpen, QueueStoreAssumption
  <2> QED  BY <2>1, <2>2
<1> HIDE DEF ending, new
<1>4. /\ \A n \in Issues : Len(tenures'[n]) = Len(tenures[n])
      /\ \A n \in Issues \ {i} : tenures'[n] = tenures[n]
      /\ \A k \in 1..Len(tenures[i]) :
           tenures'[i][k].ended = "admitted" <=>
             (tenures[i][k].ended = "admitted" \/ k = ending)
  <2>1. CASE ending = 0  BY <1>3, <2>1
  <2>2. CASE ending # 0
    <3>1. ending \in 1..Len(tenures[i])  BY <1>2, <1>3, <2>2
    <3>2. /\ Len(tenures'[i]) = Len(tenures[i])
          /\ tenures'[i][ending].ended = "admitted"
          /\ \A m \in 1..Len(tenures[i]) : m # ending => tenures'[i][m] = tenures[i][m]
          /\ \A n \in Issues \ {i} : tenures'[n] = tenures[n]
      BY <1>3, <2>2, <3>1, EndOneKept DEF EndReasons
    <3> QED  BY <3>2
  <2> QED  BY <2>1, <2>2
<1>5. \A j, k : NamesTenure(i, j, k)' <=>
        (NamesTenure(i, j, k) \/ (j = new /\ k = ending))
  BY <1>1 DEF NamesTenure, new
<1>6. \A j, k : \A n \in Issues \ {i} : NamesTenure(n, j, k)' <=> NamesTenure(n, j, k)
  BY <1>1 DEF NamesTenure
<1>7. ASSUME NEW n \in Issues, NEW j \in 1..Len(attempts'[n])
      PROVE  attempts'[n][j].tenure <= Len(tenures'[n])
  <2>1. CASE n = i /\ j = new
    BY <1>1, <1>2, <1>3, <1>4, <2>1
  <2>2. CASE ~(n = i /\ j = new)
    <3>1. j \in 1..Len(attempts[n]) /\ attempts'[n][j] = attempts[n][j]
      BY <1>1, <2>2 DEF new
    <3> QED  BY <1>4, <3>1 DEF TenureInv
  <2> QED  BY <2>1, <2>2
<1>8. ASSUME NEW n \in Issues, NEW k \in 1..Len(tenures'[n])
      PROVE  /\ tenures'[n][k].ended = "admitted" <=> \E j : NamesTenure(n, j, k)'
             /\ \A j, m : NamesTenure(n, j, k)' /\ NamesTenure(n, m, k)' => j = m
  <2>1. CASE n # i
    BY <1>4, <1>6, <2>1 DEF TenureInv
  <2>2. CASE n = i /\ k # ending
    BY <1>4, <1>5, <2>2 DEF TenureInv
  <2>3. CASE n = i /\ k = ending
    <3>1. tenures[i][k].ended = "open"  BY <1>2, <1>3, <1>4, <2>3
    <3>2. \A j : ~NamesTenure(i, j, k)  BY <1>4, <2>3, <3>1 DEF TenureInv
    <3> QED  BY <1>4, <1>5, <2>3, <3>2
  <2> QED  BY <2>1, <2>2, <2>3
<1> QED  BY <1>7, <1>8 DEF TenureInv

LEMMA TenureInvStep ==
  ASSUME StoreTypeOK, TenureInv, [StoreNext]_storeVars
  PROVE  TenureInv'
<1>1. CASE \E command \in CommandIds, kind \in Kinds, i \in Issues,
              tenure \in TenureIds \cup {NoTenure} :
             /\ AdmissionChecks(command, kind, i, tenure)
             /\ Reserve(command, kind, i, tenure)
  BY <1>1, ReserveTenure
<1>2. CASE \E i \in Issues, j \in 1..MaxAttempts : Revive(i, j)
  <2>1. PICK i \in Issues, j \in 1..MaxAttempts : Revive(i, j)  BY <1>2
  <2>2. \A n \in Issues : NamesKept(n)  BY <2>1, ReviveRows DEF NamesKept
  <2>3. \A n \in Issues : AdmittedKept(n)  BY <2>1, SameAdmitted DEF Revive
  <2> QED  BY <2>2, <2>3, TenureInvIf
<1>3. CASE AttemptsKept
  <2>1. \A i \in Issues : NamesKept(i)  BY <1>3 DEF AttemptsKept, RowKept, NamesKept
  <2>2. CASE UNCHANGED tenures
    BY <2>1, <2>2, SameAdmitted, TenureInvIf
  <2>3. ASSUME NEW repositories,
               \/ EndTenuresOutside(repositories)
               \/ \E kept : Recover(kept, repositories)
        PROVE  \A i \in Issues : AdmittedKept(i)
    <3>1. SUFFICES ASSUME NEW i \in Issues PROVE AdmittedKept(i)  OBVIOUS
    <3>2. \/ tenures'[i] = Ended(tenures[i], "repository_removed")
          \/ tenures'[i] = tenures[i]
      BY <2>3 DEF EndTenuresOutside, Recover
    <3> QED  BY <3>2, EndedAdmitted, SameAdmitted DEF EndReasons
  <2>4. ASSUME NEW i \in Issues, NEW k \in 1..MaxTenures,
               \/ MarkIneligible(i, k)
               \/ \E reason \in EndReasons \ {"admitted"} : EndTenure(i, k, reason)
        PROVE  TenureInv'
    BY <2>1, <2>2, <2>4, EndOneAdmitted, TenureInvIf
    DEF MarkIneligible, EndTenure, storeVars, EndReasons
  <2>5. ASSUME NEW command, NEW kind, NEW i \in Issues, NEW tenure,
               Reserve(command, kind, i, tenure)
        PROVE  FALSE
    <3>1. /\ Len(attempts[i]) \in Nat
          /\ Len(attempts'[i]) = Len(attempts[i]) + 1
      BY <2>5, ReserveRows
    <3> QED  BY <1>3, <3>1 DEF AttemptsKept
  <2>6. ASSUME NEW command, NEW kind, NEW candidates \in SUBSET Issues, NEW tenure,
               Admit(command, kind, candidates, tenure)
        PROVE  UNCHANGED tenures
    <3>1. Unseen(kind, candidates) \subseteq Issues  BY DEF Unseen
    <3> QED  BY <2>5, <2>6, <3>1 DEF Admit, Refuse
  <2>7. CASE \E r \in Repositories, found \in SUBSET Issues, commit, stamp \in Nat :
               Reconcile(r, found, commit, stamp)
    BY <2>1, <2>7, ReconcileAdmitted, TenureInvIf
  <2> QED
    BY <2>1, <2>2, <2>3, <2>4, <2>6, <2>7, TenureInvIf
    DEF StoreNext, storeVars, SetControls, Settle, Revive, Return
<1> QED  BY <1>1, <1>2, <1>3, AttemptsStep

\* A tenure ends as admitted exactly when one attempt consumed it, so no queue
\* entry starts two attempts and none is dropped as admitted without one.
THEOREM StoreTenureAdmitsOnce == StoreSpec => []TenureAdmitsOnce
<1>1. StoreInit => TenureInv
  BY DEF StoreInit, TenureInv, NamesTenure
<1>2. StoreSpec => []TenureInv
  BY <1>1, TenureInvStep, StoreTypeCorrect, PTL DEF StoreSpec
<1> QED  BY <1>2, TenureInvImplies, PTL
=============================================================================
