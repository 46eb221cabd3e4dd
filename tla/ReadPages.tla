-------------------------------- MODULE ReadPages --------------------------------
(***************************************************************************)
(* The bounded reads of the state store (store.ts): what one page holds,   *)
(* where the next one starts, and what the watermark of a traversal fixes. *)
(* The queue is read from an append-only log of tenure versions; the other *)
(* lists from a snapshot of all rows, stored when the traversal begins.    *)
(***************************************************************************)
EXTENDS Naturals, Sequences, FiniteSets, SequencesExt

(* A page: its rows, the offset it starts at, the offset of the next one   *)
(* (0 when there is none: an offset that follows rows is positive) and the *)
(* watermark.                                                              *)
Page(rows, offset, limit, mark) ==
    LET items == SubSeq(rows, offset + 1, Min({offset + limit, Len(rows)}))
        next == offset + Len(items)
    IN [items |-> items, at |-> offset, mark |-> mark,
        next |-> IF next < Len(rows) THEN next ELSE 0]

------------------------------------------------------------------------------
(* queue_tenure_versions: [tenure, status], the revision is the position.  *)
(* A tenure is open, or ended because it was admitted or for a reason the  *)
(* queue still shows ("left").                                             *)

(* Mutant of Upto: rows are read as they are now. *)
UptoNow(log, revision) == log

(* The versions that a watermark includes. *)
Upto(log, revision) == SubSeq(log, 1, revision)

Revisions(log, tenure) == {n \in DOMAIN log : log[n].tenure = tenure}

(* The latest version of each tenure. *)
LatestVersions(log) == {n \in DOMAIN log : n = Max(Revisions(log, log[n].tenure))}

(* An admitted tenure has left the queue. *)
Rows(log) == {n \in LatestVersions(log) : log[n].status # "admitted"}

Since(log, n) == Min(Revisions(log, log[n].tenure))

(* Open tenures in the order they became eligible, then the ended ones,    *)
(* the last ended first.                                                   *)
Precedes(log, m, n) ==
    \/ log[m].status = "open" /\ log[n].status # "open"
    \/ /\ log[m].status = "open" /\ log[n].status = "open"
       /\ Since(log, m) < Since(log, n)
    \/ log[m].status # "open" /\ log[n].status # "open" /\ m > n

QueueOrder(log) ==
    CHOOSE order \in SetToSeqs(Rows(log)) :
       \A j, k \in DOMAIN order : j < k => Precedes(log, order[j], order[k])

QueueRows(log) == [k \in DOMAIN QueueOrder(log) |-> log[QueueOrder(log)[k]]]

(* A request without watermark (0) reads the latest revision, one with a   *)
(* cursor carries the watermark of the page before.  The watermark of an   *)
(* empty log is never carried: its page has no next.                       *)
FirstPage == [cursor |-> 0, mark |-> 0]
NextOf(page) == [cursor |-> page.next, mark |-> page.mark]

RevisionOf(log, request) == IF request.mark = 0 THEN Len(log) ELSE request.mark

ListQueue(log, request, limit) ==
    Page(QueueRows(Upto(log, RevisionOf(log, request))),
         request.cursor, limit, RevisionOf(log, request))
=============================================================================
