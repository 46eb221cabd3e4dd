---------------------------- MODULE ProviderContract ----------------------------
(***************************************************************************)
(* What one provider run promises the application, as the caller sees it   *)
(* (ProviderService.run in ports.ts and the way service.ts uses it):       *)
(* the events of the run are told one after the other in a fixed order, a  *)
(* failure is told at most once and after everything else, and the run     *)
(* settles.  It resolves only when every event was told and its process    *)
(* is gone, and after a process was announced it rejects only when that    *)
(* process is gone or the rejection says that its cleanup timed out.       *)
(* Attempt.tla builds on this promise; AppServer.tla is the adapter that   *)
(* has to keep it.                                                         *)
(***************************************************************************)
EXTENDS Naturals, Sequences

VARIABLES
    told,      \* the events the run has stored, oldest first
    outcome,   \* "running", "resolved" or "rejected"
    timedOut,  \* the rejection says that the process may still be running
    gone       \* the process of the run has ended and its output is closed

contractVars == <<told, outcome, timedOut, gone>>

(* The events of a run that succeeds, in the order the adapter emits them. *)
EventOrder == <<"processStarted", "settingsObserved", "threadStarted",
                "turnStarted", "settingsConfirmed">>

ContractInit ==
    /\ told = << >>
    /\ outcome = "running"
    /\ timedOut = FALSE
    /\ gone \in BOOLEAN

(* The next event in order is stored. *)
TellNext ==
    /\ outcome = "running"
    /\ \E n \in 1..Len(EventOrder) :
          /\ told = SubSeq(EventOrder, 1, n - 1)
          /\ told' = SubSeq(EventOrder, 1, n)
    /\ UNCHANGED <<outcome, timedOut, gone>>

Resolve ==
    /\ outcome = "running"
    /\ told = EventOrder
    /\ gone
    /\ outcome' = "resolved"
    /\ UNCHANGED <<told, timedOut, gone>>

(* The run rejects.  The failure event is stored in the same step when a   *)
(* process had been started and the store takes the event.                 *)
Reject ==
    /\ outcome = "running"
    /\ outcome' = "rejected"
    /\ told' \in {told, Append(told, "failed")}
    /\ timedOut' \in BOOLEAN
    /\ (told # << >> /\ ~timedOut') => gone
    /\ UNCHANGED gone

(* The process starts or ends: the contract only reads it. *)
ProcessChanges ==
    /\ gone' \in BOOLEAN
    /\ outcome \in {"resolved", "rejected"} => (gone => gone')
    /\ UNCHANGED <<told, outcome, timedOut>>

ContractNext == TellNext \/ Resolve \/ Reject \/ ProcessChanges

ContractSpec == ContractInit /\ [][ContractNext]_contractVars
                             /\ WF_contractVars(Resolve \/ Reject)
=============================================================================
