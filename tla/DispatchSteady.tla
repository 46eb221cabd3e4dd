---------------------------- MODULE DispatchSteady ----------------------------
(***************************************************************************)
(* Dispatch with a history variable: "steady" holds for an issue that has  *)
(* been eligible on GitHub at every moment since its latest attempt was    *)
(* reserved, in a repository that stayed configured, and whose attempts    *)
(* nobody has returned since.  Nothing happened to such an issue except    *)
(* that Factory ran it, so another automatic attempt is a retry.           *)
(***************************************************************************)
EXTENDS Dispatch

VARIABLE steady

steadyVars == <<vars, steady>>

Reserved(i) == Len(attempts'[i]) > Len(attempts[i])

ReturnedNow(i) == \E j \in 1..Len(attempts[i]) :
                    attempts'[i][j].returned /\ ~attempts[i][j].returned

Track ==
  steady' = [i \in Issues |->
               /\ eligible'[i] /\ RepositoryOf[i] \in configured'
               /\ Reserved(i) \/ steady[i]
               /\ ~ReturnedNow(i)]

SteadySpec ==
  /\ Init /\ steady = [i \in Issues |-> FALSE]
  /\ [][Next /\ Track]_steadyVars

\* docs/operator.md: startup "does not resume or retry attempts
\* automatically"; docs/product-intent.md: "No retries: a failed run is
\* something a human looks at."  No automatic attempt follows another attempt
\* of an issue that stayed eligible in between.
SteadyIssueNotRetried ==
  [][\A i \in Issues : \A k \in 1..MaxTenures :
       /\ receipts[<<i, k>>] = NoReceipt
       /\ receipts'[<<i, k>>].tag = "started"
       => ~steady[i]
    ]_steadyVars
=============================================================================
