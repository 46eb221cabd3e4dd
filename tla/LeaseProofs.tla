------------------------------ MODULE LeaseProofs ------------------------------
(***************************************************************************)
(* Proofs about the lease on a database: its types, and what must have     *)
(* happened before two processes have it.  It is not exclusive always      *)
(* (LeaseRace.cfg), so the theorem speaks of the history variable "raced", *)
(* for any number of processes, attempts, stalls and crashes.              *)
(***************************************************************************)
EXTENDS Lease, FiniteSetTheorems, TLAPS

USE LeaseAssumption DEF LeaseAssumption

ProcessStep(s) == Start(s) \/ Acquire(s) \/ ReleaseReads(s) \/ ReleaseUnlinks(s) \/ Crash(s)

Holds(s) == pc[s] \in {"owner", "release"}

-----------------------------------------------------------------------------
LEMMA TypeInit == Init => TypeOK
<1>. SUFFICES ASSUME Init PROVE TypeOK
  OBVIOUS
<1>1. pc \in [Services -> Steps]
  BY DEF Init, Steps
<1>2. attempt \in [Services -> 1..MaxAttempts]
  BY DEF Init
<1>3. crashes \in 0..MaxCrashes
  BY DEF Init
<1>4. written \in BOOLEAN /\ ~written /\ recent \in BOOLEAN
  BY DEF Init
<1>. QED
  BY <1>1, <1>2, <1>3, <1>4 DEF Init, TypeOK, Races

LEMMA TypeProcess ==
  ASSUME TypeOK, NEW s \in Services, ProcessStep(s)
  PROVE  TypeOK'
<1>1. \A step \in Steps : [pc EXCEPT ![s] = step] \in [Services -> Steps]
  BY DEF TypeOK
<1>2. attempt[s] < MaxAttempts =>
        [attempt EXCEPT ![s] = @ + 1] \in [Services -> 1..MaxAttempts]
  BY DEF TypeOK
<1>0. \A f \in Services \cup {NoFile} :
        [judged EXCEPT ![s] = f] \in [Services -> Services \cup {NoFile}]
  BY DEF TypeOK
<1>. USE <1>0, <1>1, <1>2 DEF TypeOK, Goto, Steps, Races, Sees, history
<1>3. CASE Start(s)
  BY <1>3 DEF Start
<1>4. CASE Create(s)
  <2>1. CASE file = NoFile
    <3>1. written' \in BOOLEAN /\ recent' \in BOOLEAN /\ ~written'
      BY <1>4, <2>1 DEF Create
    <3>. QED
      BY <1>4, <2>1, <3>1 DEF Create
  <2>2. CASE file # NoFile
    BY <1>4, <2>2 DEF Create
  <2>. QED
    BY <2>1, <2>2
<1>5. CASE WriteToken(s)
  BY <1>5 DEF WriteToken
<1>6. CASE Read(s)
  BY <1>6 DEF Read
<1>7. CASE UnlinkStale(s)
  <2>1. written' \in BOOLEAN /\ ~written'
    BY <1>7 DEF UnlinkStale, Unlink
  <2>. QED
    BY <1>7, <2>1 DEF UnlinkStale, Unlink, Again
<1>8. CASE Stat(s)
  BY <1>8 DEF Stat
<1>9. CASE UnlinkUnreadable(s)
  <2>1. written' \in BOOLEAN /\ ~written'
    BY <1>9 DEF UnlinkUnreadable, Unlink
  <2>. QED
    BY <1>9, <2>1 DEF UnlinkUnreadable, Unlink, Again
<1>10. CASE ReleaseReads(s)
  BY <1>10 DEF ReleaseReads
<1>11. CASE ReleaseUnlinks(s)
  BY <1>11 DEF ReleaseUnlinks, Unlink
<1>12. CASE Crash(s)
  BY <1>12 DEF Crash
<1>. QED
  BY <1>3, <1>4, <1>5, <1>6, <1>7, <1>8, <1>9, <1>10, <1>11, <1>12 DEF ProcessStep, Acquire

LEMMA TypeNext == TypeOK /\ [Next]_vars => TypeOK'
<1>. SUFFICES ASSUME TypeOK, [Next]_vars PROVE TypeOK'
  OBVIOUS
<1>1. CASE \E s \in Services : ProcessStep(s)
  BY <1>1, TypeProcess
<1>2. CASE Age
  BY <1>2 DEF Age, TypeOK, Races
<1>3. CASE UNCHANGED vars
  BY <1>3 DEF vars, history, TypeOK
<1>. QED
  BY <1>1, <1>2, <1>3 DEF Next, ProcessStep

\* Every variable has its type: an attempt to create the lock file is never
\* one more than the code makes (acquireDatabaseLease).
THEOREM TypeCorrect == Spec => []TypeOK
  BY TypeInit, TypeNext, PTL DEF Spec

-----------------------------------------------------------------------------
\* The lock file of a process that holds the lease is in its place.
Backed == \A s \in Services : Holds(s) => file = s /\ written

\* Then at most one process holds it.
LEMMA BackedIsExclusive ==
  ASSUME TypeOK, Backed
  PROVE  Exclusive
<1>. DEFINE H == {s \in Services : pc[s] \in {"owner", "release"}}
<1>1. \E s : H \subseteq {s}
  BY DEF Backed, Holds
<1>2. PICK s : H \subseteq {s}
  BY <1>1
<1>3. H = {} \/ H = {s}
  BY <1>2
<1>4. Cardinality({}) = 0
  BY FS_EmptySet
<1>5. Cardinality({s}) = 1
  BY FS_Singleton
<1>6. Cardinality(H) <= 1
  BY <1>3, <1>4, <1>5
<1>. QED
  BY <1>6 DEF Exclusive

-----------------------------------------------------------------------------
(***************************************************************************)
(* Any number of processes, any stalls, any crashes.                       *)
(***************************************************************************)

\* A file's creator has gone on from creating it.
Created ==
  file # NoFile => pc[file] \in {"write", "owner", "release", "gone", "dead"}

\* A lock that is still to be written is there, and recent.
WriteSafe == \A s \in Services : pc[s] = "write" => file = s /\ recent

\* A process that found no token meets, when it looks at the lock's age, no
\* file, or a recent one, or one that nobody alive has created.
StatSafe ==
  \A s \in Services : pc[s] = "stat" => file = NoFile \/ recent \/ ~Alive(file)

\* What a process is about to remove had, when it was judged, no living owner.
RemovalSafe ==
  \A s \in Services :
    pc[s] \in {"unlink", "clear"} => judged[s] = NoFile \/ ~Alive(judged[s])

\* The inductive invariant.  Exclusive alone is not inductive: nothing in it
\* keeps a contender from removing the lock of a process that holds the lease.
LeaseInv ==
  /\ TypeOK
  /\ raced = {} => Backed /\ Created /\ WriteSafe /\ StatSafe /\ RemovalSafe

LEMMA RacedGrows ==
  ASSUME NEW s \in Services, ProcessStep(s), raced' = {}
  PROVE  raced = {}
  BY DEF ProcessStep, Start, Acquire, Create, WriteToken, Read, Sees, UnlinkStale,
         Unlink, Stat, UnlinkUnreadable, ReleaseReads, ReleaseUnlinks, Crash, history

\* A process that goes on, and does not start, was alive; the dead stay dead.
LEMMA DeadStayDead ==
  ASSUME TypeOK, NEW s \in Services, ProcessStep(s)
  PROVE  /\ Alive(s)
         /\ \A t \in Services : ~Alive(t) => ~Alive(t)'
<1>1. Alive(s)
  BY DEF ProcessStep, Start, Acquire, Create, WriteToken, Read, UnlinkStale, Stat,
         UnlinkUnreadable, ReleaseReads, ReleaseUnlinks, Crash, Alive
<1>2. \A t \in Services \ {s} : pc'[t] = pc[t]
  BY DEF ProcessStep, Start, Acquire, Create, WriteToken, Read, UnlinkStale, Stat,
         UnlinkUnreadable, ReleaseReads, ReleaseUnlinks, Crash, Goto, Again, TypeOK
<1>. QED
  BY <1>1, <1>2 DEF Alive

LEMMA SafeProcess ==
  ASSUME LeaseInv, NEW s \in Services, ProcessStep(s)
  PROVE  LeaseInv'
<1>1. TypeOK'
  BY TypeProcess DEF LeaseInv
<1>. SUFFICES ASSUME raced' = {}
              PROVE  (Backed /\ Created /\ WriteSafe /\ StatSafe /\ RemovalSafe)'
  BY <1>1 DEF LeaseInv
<1>2. Backed /\ Created /\ WriteSafe /\ StatSafe /\ RemovalSafe /\ TypeOK
  BY RacedGrows DEF LeaseInv
<1>3. Alive(s) /\ \A t \in Services : ~Alive(t) => ~Alive(t)'
  BY <1>2, DeadStayDead
<1>. USE <1>1, <1>2, <1>3 DEF TypeOK, Backed, Holds, Created, WriteSafe, StatSafe,
                              RemovalSafe, Goto, Alive
<1>4. CASE Start(s)
  BY <1>4 DEF Start, history
<1>5. CASE Create(s)
  BY <1>5 DEF Create, history
<1>6. CASE WriteToken(s)
  BY <1>6 DEF WriteToken, history
<1>7. CASE Read(s)
  BY <1>7 DEF Read, Sees
<1>8. CASE UnlinkStale(s)
  BY <1>8 DEF UnlinkStale, Unlink, Again
<1>9. CASE Stat(s)
  BY <1>9 DEF Stat, Sees
<1>10. CASE UnlinkUnreadable(s)
  BY <1>10 DEF UnlinkUnreadable, Unlink, Again
<1>11. CASE ReleaseReads(s)
  BY <1>11 DEF ReleaseReads, Sees
<1>12. CASE ReleaseUnlinks(s)
  BY <1>12 DEF ReleaseUnlinks, Unlink
<1>13. CASE Crash(s)
  BY <1>13 DEF Crash, history
<1>. QED
  BY <1>4, <1>5, <1>6, <1>7, <1>8, <1>9, <1>10, <1>11, <1>12, <1>13
     DEF ProcessStep, Acquire

\* Five seconds pass without a race only if no live process's lock is still to
\* be written, and nobody is about to look at its age.
LEMMA SafeAge ==
  ASSUME LeaseInv, Age
  PROVE  LeaseInv'
<1>1. TypeOK'
  BY DEF Age, LeaseInv, TypeOK, Races
<1>. SUFFICES ASSUME raced' = {}
              PROVE  (Backed /\ Created /\ WriteSafe /\ StatSafe /\ RemovalSafe)'
  BY <1>1 DEF LeaseInv
<1>2. raced = {}
  BY DEF Age
<1>. QED
  BY <1>1, <1>2 DEF Age, LeaseInv, TypeOK, Backed, Holds, Created, WriteSafe, StatSafe,
                    RemovalSafe, Alive

LEMMA SafeNext == LeaseInv /\ [Next]_vars => LeaseInv'
<1>. SUFFICES ASSUME LeaseInv, [Next]_vars PROVE LeaseInv'
  OBVIOUS
<1>1. CASE \E s \in Services : ProcessStep(s)
  BY <1>1, SafeProcess
<1>2. CASE Age
  BY <1>2, SafeAge
<1>3. CASE UNCHANGED vars
  BY <1>3 DEF vars, history, LeaseInv, TypeOK, Backed, Holds, Created, WriteSafe,
              StatSafe, RemovalSafe, Alive
<1>. QED
  BY <1>1, <1>2, <1>3 DEF Next, ProcessStep

\* No two live processes have the lease, however many start, contend, stall,
\* crash and recover (acquireDatabaseLease), as long as no live one's lock was
\* removed in place of the one that was judged and neither of the two waits in
\* Races came to five seconds.
THEOREM ExclusiveButForRaces == Spec => []ExclusiveUnlessRaced
<1>1. Init => LeaseInv
  BY TypeInit DEF Init, LeaseInv, Backed, Holds, Created, WriteSafe, StatSafe, RemovalSafe
<1>2. LeaseInv /\ [Next]_vars => LeaseInv'
  BY SafeNext
<1>3. LeaseInv => ExclusiveUnlessRaced
  BY BackedIsExclusive DEF LeaseInv, ExclusiveUnlessRaced
<1>. QED
  BY <1>1, <1>2, <1>3, PTL DEF Spec
=============================================================================
