--------------------------------- MODULE Lease ---------------------------------
(***************************************************************************)
(* The lifetime lease on a database: acquireDatabaseLease of               *)
(* packages/state-sqlite/src/store.ts, run by operating system processes   *)
(* that interleave at their file system calls.  The lock file's name may   *)
(* be taken by another file between two calls; unlink removes whatever     *)
(* file has the name.                                                      *)
(***************************************************************************)
EXTENDS Naturals, FiniteSets

CONSTANTS
  Services,       \* processes that start once; a restart is another process
  NoFile,         \* not a service: no file has the name
  MaxAttempts,    \* attempts to create the lock file
  MayStall,       \* may a process stop for five seconds between two calls?
  MaxCrashes      \* bound on crashes

ASSUME LeaseAssumption ==
  /\ NoFile \notin Services
  /\ MaxAttempts \in Nat \ {0}
  /\ MayStall \in BOOLEAN
  /\ MaxCrashes \in Nat

VARIABLES
  file,       \* the process that created the lock file, or NoFile
  written,    \* the lock file holds its creator's token
  recent,     \* the lock file was modified less than five seconds ago
  pc,         \* what each process does next
  attempt,    \* the attempt each process is at
  crashes     \* crashes so far

\* History, which no guard reads.
VARIABLES
  judged,     \* the file each process saw when it last read or looked at the lock
  raced       \* what has gone on behind a process's back, see Races

history == <<judged, raced>>

vars == <<file, written, recent, pc, attempt, crashes, judged, raced>>

-----------------------------------------------------------------------------
Steps == {"idle", "create", "write", "read", "unlink", "stat", "clear", "owner",
          "release", "refused", "gone", "dead"}

\* "replaced": a live process's lock was removed by one that had judged another.
\* "late": the lock of a live process came to be five seconds old before its
\* token was written, or while another process that had found no token in a
\* lock was yet to look at its age.
Races == {"replaced", "late"}

TypeOK ==
  /\ file \in Services \cup {NoFile}
  /\ written \in BOOLEAN /\ (file = NoFile => ~written)
  /\ recent \in BOOLEAN
  /\ pc \in [Services -> Steps]
  /\ attempt \in [Services -> 1..MaxAttempts]
  /\ crashes \in 0..MaxCrashes
  /\ judged \in [Services -> Services \cup {NoFile}]
  /\ raced \subseteq Races

Init ==
  /\ file = NoFile
  /\ written = FALSE
  /\ recent = FALSE
  /\ pc = [s \in Services |-> "idle"]
  /\ attempt = [s \in Services |-> 1]
  /\ crashes = 0
  /\ judged = [s \in Services |-> NoFile]
  /\ raced = {}

Alive(s) == pc[s] \notin {"refused", "gone", "dead"}

Goto(s, step) == pc' = [pc EXCEPT ![s] = step] /\ UNCHANGED attempt

\* The loop goes round, or the attempts are used up.
Again(s) ==
  IF attempt[s] < MaxAttempts
    THEN /\ pc' = [pc EXCEPT ![s] = "create"]
         /\ attempt' = [attempt EXCEPT ![s] = @ + 1]
    ELSE Goto(s, "refused")

\* Mutant of Unlink: the token outlives the file.
UnlinkKeeping(s) == file' = NoFile /\ UNCHANGED <<written, recent, history>>

\* unlinkSync(lockPath): whatever file has the name.
Unlink(s) ==
  /\ file' = NoFile /\ written' = FALSE
  /\ raced' = IF file \notin {NoFile, judged[s]} /\ Alive(file)
                THEN raced \cup {"replaced"} ELSE raced
  /\ UNCHANGED <<recent, judged>>

\* The process sees which file has the name.
Sees(s) == judged' = [judged EXCEPT ![s] = file] /\ UNCHANGED raced

-----------------------------------------------------------------------------
Start(s) ==
  /\ pc[s] = "idle"
  /\ Goto(s, "create")
  /\ UNCHANGED <<file, written, recent, crashes, history>>

\* openSync(lockPath, "wx")
Create(s) ==
  /\ pc[s] = "create"
  /\ IF file = NoFile
       THEN /\ file' = s /\ written' = FALSE /\ recent' = TRUE
            /\ Goto(s, "write")
       ELSE UNCHANGED <<file, written, recent>> /\ Goto(s, "read")
  /\ UNCHANGED <<crashes, history>>

\* The token goes to the file that was opened, linked or not.
WriteToken(s) ==
  /\ pc[s] = "write"
  /\ IF file = s THEN written' = TRUE /\ recent' = TRUE
                 ELSE UNCHANGED <<written, recent>>
  /\ Goto(s, "owner")
  /\ UNCHANGED <<file, crashes, history>>

\* Mutant of Read: any readable lock is taken to be in use.
ReadTrusting(s) ==
  /\ pc[s] = "read"
  /\ Sees(s)
  /\ Goto(s, IF written THEN "refused" ELSE "stat")
  /\ UNCHANGED <<file, written, recent, crashes>>

\* The lock names a live process, a dead one, or cannot be read.
Read(s) ==
  /\ pc[s] = "read"
  /\ Sees(s)
  /\ Goto(s, IF ~written THEN "stat" ELSE IF Alive(file) THEN "refused"
                                                         ELSE "unlink")
  /\ UNCHANGED <<file, written, recent, crashes>>

\* The stale lock is removed; if that fails, the lock counts as unreadable.
UnlinkStale(s) ==
  /\ pc[s] = "unlink"
  /\ Unlink(s)
  /\ IF file = NoFile THEN Goto(s, "stat") ELSE Again(s)
  /\ UNCHANGED crashes

\* Mutant of Stat: an unreadable lock is removed at once.
StatHasty(s) ==
  /\ pc[s] = "stat"
  /\ Sees(s)
  /\ Goto(s, "clear")
  /\ UNCHANGED <<file, written, recent, crashes>>

\* An unreadable lock may be a recent one, whose creator has still to write.
Stat(s) ==
  /\ pc[s] = "stat"
  /\ Sees(s)
  /\ Goto(s, IF file # NoFile /\ recent THEN "refused" ELSE "clear")
  /\ UNCHANGED <<file, written, recent, crashes>>

UnlinkUnreadable(s) ==
  /\ pc[s] = "clear"
  /\ Unlink(s)
  /\ Again(s)
  /\ UNCHANGED crashes

\* release: the lock is read, and removed if it is this process's own.
ReleaseReads(s) ==
  /\ pc[s] = "owner"
  /\ Sees(s)
  /\ Goto(s, IF file = s /\ written THEN "release" ELSE "gone")
  /\ UNCHANGED <<file, written, recent, crashes>>

ReleaseUnlinks(s) ==
  /\ pc[s] = "release"
  /\ Unlink(s)
  /\ Goto(s, "gone")
  /\ UNCHANGED crashes

Crash(s) ==
  /\ Alive(s) /\ pc[s] # "idle" /\ crashes < MaxCrashes
  /\ crashes' = crashes + 1
  /\ Goto(s, "dead")
  /\ UNCHANGED <<file, written, recent, history>>

\* Five seconds pass, in the midst of an attempt only if processes may stall.
Age ==
  /\ recent /\ recent' = FALSE
  /\ \/ MayStall
     \/ \A s \in Services :
          pc[s] \notin {"write", "read", "unlink", "stat", "clear"}
  /\ raced' = IF /\ file # NoFile /\ Alive(file)
                 /\ pc[file] = "write" \/ \E s \in Services : pc[s] = "stat"
                THEN raced \cup {"late"} ELSE raced
  /\ UNCHANGED <<file, written, pc, attempt, crashes, judged>>

Acquire(s) ==
  \/ Create(s) \/ WriteToken(s) \/ Read(s) \/ UnlinkStale(s) \/ Stat(s)
  \/ UnlinkUnreadable(s)

Next ==
  \/ \E s \in Services :
       Start(s) \/ Acquire(s) \/ ReleaseReads(s) \/ ReleaseUnlinks(s) \/ Crash(s)
  \/ Age

Spec == Init /\ [][Next]_vars

\* A process that acquires the lease runs on until it has it or is refused.
FairSpec == Spec /\ \A s \in Services : WF_vars(Acquire(s))

-----------------------------------------------------------------------------
\* docs/decisions/operator-product.md: "One Factory service process owns a
\* database."  No two live processes have the lease.
Exclusive ==
  Cardinality({s \in Services : pc[s] \in {"owner", "release"}}) <= 1

\* The same for processes that stall and crash at any call: two of them have
\* the lease only after a live one's lock file was removed that had taken the
\* place of the file its remover judged (readFileSync, statSync and unlinkSync
\* of acquireDatabaseLease name the file, they do not hold it), or after one of
\* the two waits in Races outlasted the five seconds that the code allows.
ExclusiveUnlessRaced == raced = {} => Exclusive

\* A process that starts when every other one is gone gets the lease, whatever
\* lock file a crash has left, unless that file is a recent one.
LeaseRecovered ==
  \A s \in Services :
    /\ pc[s] = "create" /\ ~recent
    /\ \A t \in Services \ {s} : ~Alive(t)
    ~> pc[s] \in {"owner", "release", "gone", "dead"}
=============================================================================
