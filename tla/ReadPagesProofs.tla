---------------------------- MODULE ReadPagesProofs ----------------------------
(***************************************************************************)
(* Lemmas about bounded reads, for the proofs about the console's screens: *)
(* induction over the natural numbers, largest and smallest elements, and  *)
(* what a page holds.                                                      *)
(***************************************************************************)
EXTENDS ReadPages, SequenceTheorems, FiniteSetTheorems, WellFoundedInduction, TLAPS

(* A set of natural numbers has a smallest element. *)
LEMMA Smallest ==
  ASSUME NEW T, T \subseteq Nat, T # {}
  PROVE  \E x \in T : \A y \in T : x <= y
<1>. DEFINE Less == {p \in Nat \X Nat : p[1] < p[2]}
<1>1. IsWellFoundedOn(Less, Nat)
  BY NatLessThanWellFounded DEF OpToRel
<1>2. \E x \in T : \A y \in T : ~(<<y, x>> \in Less)
  <2>. HIDE DEF Less
  <2>. QED
    BY <1>1, WFMin
<1>3. PICK x \in T : \A y \in T : ~(<<y, x>> \in Less)
  BY <1>2
<1>4. ASSUME NEW y \in T PROVE x <= y
  <2>1. <<y, x>> \in Nat \X Nat /\ ~(<<y, x>> \in Less)
    BY <1>3
  <2>2. ~(y < x)
    BY <2>1
  <2>. QED
    BY <2>2
<1>. QED
  BY <1>4

(* Induction, for the numbers of a set. *)
LEMMA InductionOn ==
  ASSUME NEW S, 0 \in S, \A n \in Nat : n \in S => n + 1 \in S
  PROVE  Nat \subseteq S
<1>. SUFFICES ASSUME Nat \ S # {} PROVE FALSE
  OBVIOUS
<1>1. PICK x \in Nat \ S : \A y \in Nat \ S : x <= y
  BY Smallest
<1>2. x - 1 \in Nat
  BY <1>1
<1>3. x - 1 \in S
  BY <1>1, <1>2
<1>. QED
  BY <1>1, <1>2, <1>3

(* A set of positions of a sequence has a last one. *)
LEMMA MaxOf ==
  ASSUME NEW n \in Nat, NEW S, S \subseteq 1..n, S # {}
  PROVE  Max(S) \in S /\ \A m \in S : m <= Max(S)
<1>. DEFINE T == {n - m : m \in S}
<1>1. T \subseteq Nat /\ T # {}
  <2>1. \A m \in S : n - m \in Nat
    OBVIOUS
  <2>. QED
    BY <2>1
<1>2. PICK x \in T : \A y \in T : x <= y
  BY <1>1, Smallest
<1>3. PICK m \in S : x = n - m
  OBVIOUS
<1>4. \A k \in S : n - m <= n - k
  BY <1>2, <1>3
<1>5. \A k \in S : m >= k
  BY <1>4
<1>. QED
  BY <1>3, <1>5 DEF Max

LEMMA MinOfTwo ==
  ASSUME NEW a \in Int, NEW b \in Int
  PROVE  Min({a, b}) = IF a <= b THEN a ELSE b
  BY DEF Min

LEMMA MinOf ==
  ASSUME NEW S, S \subseteq Nat, S # {}
  PROVE  Min(S) \in S /\ \A m \in S : Min(S) <= m
<1>1. \E x \in S : \A y \in S : x <= y
  BY Smallest
<1>. QED
  BY <1>1 DEF Min

-----------------------------------------------------------------------------
(* Sorting *)

(* R orders the elements of T, none of which are alike. *)
Orders(R, T) ==
    /\ \A x, y \in T : x # y => <<x, y>> \in R \/ <<y, x>> \in R
    /\ \A x, y, z \in T : <<x, y>> \in R /\ <<y, z>> \in R => <<x, z>> \in R

(* A finite set that is not empty has a last element. *)
LEMMA LastElement ==
  ASSUME NEW T, NEW R, Orders(R, T),
         NEW X \in SUBSET T, IsFiniteSet(X), X # {}
  PROVE  \E m \in X : \A x \in X \ {m} : <<x, m>> \in R
<1>. DEFINE HasLast(Y) == Y # {} => \E m \in Y : \A x \in Y \ {m} : <<x, m>> \in R
            S == {n \in Nat : \A Y \in SUBSET T :
                     IsFiniteSet(Y) /\ Cardinality(Y) = n => HasLast(Y)}
<1>1. 0 \in S
  BY FS_EmptySet
<1>2. ASSUME NEW n \in Nat, n \in S PROVE n + 1 \in S
  <2>1. SUFFICES ASSUME NEW Y \in SUBSET T, IsFiniteSet(Y), Cardinality(Y) = n + 1
                 PROVE  \E m \in Y : \A x \in Y \ {m} : <<x, m>> \in R
    BY DEF HasLast
  <2>2. PICK y \in Y : TRUE
    BY <2>1, FS_EmptySet
  <2>3. IsFiniteSet(Y \ {y}) /\ Cardinality(Y \ {y}) = n
    <3>1. /\ IsFiniteSet(Y \ {y})
          /\ Cardinality(Y \ {y}) = IF y \in Y THEN Cardinality(Y) - 1 ELSE Cardinality(Y)
      BY <2>1, FS_RemoveElement
    <3>. QED
      BY <2>1, <2>2, <3>1
  <2>4. HasLast(Y \ {y})
    BY <1>2, <2>3
  <2>5. CASE Y \ {y} = {}
    BY <2>5
  <2>6. CASE Y \ {y} # {}
    <3>1. PICK m \in Y \ {y} : \A x \in (Y \ {y}) \ {m} : <<x, m>> \in R
      BY <2>4, <2>6
    <3>2. CASE <<y, m>> \in R
      BY <3>1, <3>2
    <3>3. CASE <<m, y>> \in R
      <4>1. ASSUME NEW x \in Y \ {y} PROVE <<x, y>> \in R
        BY <3>1, <3>3 DEF Orders
      <4>. QED
        BY <4>1
    <3>. QED
      BY <3>1, <3>2, <3>3 DEF Orders
  <2>. QED
    BY <2>5, <2>6
<1>. HIDE DEF HasLast, S
<1>3. Nat \subseteq S
  BY <1>1, <1>2, InductionOn
<1>. QED
  BY <1>3, FS_CardinalityType DEF S, HasLast

(* It can be listed in order. *)
LEMMA Sortable ==
  ASSUME NEW T, NEW R, Orders(R, T), NEW X \in SUBSET T, IsFiniteSet(X)
  PROVE  \E q \in [1..Cardinality(X) -> X] :
            /\ \A x \in X : \E i \in 1..Cardinality(X) : q[i] = x
            /\ \A i, j \in 1..Cardinality(X) : i < j => <<q[i], q[j]>> \in R
<1>. DEFINE Lists(q, n, Y) ==
              /\ q \in [1..n -> Y]
              /\ \A x \in Y : \E i \in 1..n : q[i] = x
              /\ \A i, j \in 1..n : i < j => <<q[i], q[j]>> \in R
            S == {n \in Nat : \A Y \in SUBSET T :
                     IsFiniteSet(Y) /\ Cardinality(Y) = n => \E q : Lists(q, n, Y)}
<1>1. 0 \in S
  <2>1. SUFFICES ASSUME NEW Y \in SUBSET T, IsFiniteSet(Y), Cardinality(Y) = 0
                 PROVE  \E q : Lists(q, 0, Y)
    OBVIOUS
  <2>2. Y = {}
    BY <2>1, FS_EmptySet
  <2>3. Lists([i \in 1..0 |-> i], 0, Y)
    BY <2>2
  <2>. QED
    BY <2>3
<1>2. ASSUME NEW n \in Nat, n \in S PROVE n + 1 \in S
  <2>1. SUFFICES ASSUME NEW Y \in SUBSET T, IsFiniteSet(Y), Cardinality(Y) = n + 1
                 PROVE  \E q : Lists(q, n + 1, Y)
    OBVIOUS
  <2>2. PICK m \in Y : \A x \in Y \ {m} : <<x, m>> \in R
    BY <2>1, FS_EmptySet, LastElement
  <2>3. IsFiniteSet(Y \ {m}) /\ Cardinality(Y \ {m}) = n
    <3>1. /\ IsFiniteSet(Y \ {m})
          /\ Cardinality(Y \ {m}) = IF m \in Y THEN Cardinality(Y) - 1 ELSE Cardinality(Y)
      BY <2>1, FS_RemoveElement
    <3>. QED
      BY <2>1, <2>2, <3>1
  <2>4. PICK q : Lists(q, n, Y \ {m})
    BY <1>2, <2>3
  <2>. DEFINE r == [i \in 1..n + 1 |-> IF i <= n THEN q[i] ELSE m]
  <2>5. /\ \A i \in 1..n : i \in 1..n + 1 /\ r[i] = q[i] /\ q[i] \in Y \ {m}
        /\ n + 1 \in 1..n + 1 /\ r[n + 1] = m
        /\ \A i \in 1..n + 1 : i \in 1..n \/ i = n + 1
    BY <2>4
  <2>6. r \in [1..n + 1 -> Y]
    BY <2>5
  <2>. HIDE DEF r
  <2>7. \A x \in Y : \E i \in 1..n + 1 : r[i] = x
    BY <2>4, <2>5
  <2>8. ASSUME NEW i \in 1..n + 1, NEW j \in 1..n + 1, i < j
        PROVE  <<r[i], r[j]>> \in R
    <3>1. i \in 1..n
      BY <2>8
    <3>2. CASE j \in 1..n
      BY <2>4, <2>5, <2>8, <3>1, <3>2
    <3>3. CASE j = n + 1
      BY <2>2, <2>5, <3>1, <3>3
    <3>. QED
      BY <2>5, <3>2, <3>3
  <2>9. Lists(r, n + 1, Y)
    BY <2>6, <2>7, <2>8
  <2>. QED
    BY <2>9
<1>. HIDE DEF Lists, S
<1>3. Nat \subseteq S
  BY <1>1, <1>2, InductionOn
<1>4. PICK q : Lists(q, Cardinality(X), X)
  BY <1>3, FS_CardinalityType DEF S
<1>. QED
  BY <1>4 DEF Lists

-----------------------------------------------------------------------------
(* The queue *)

LEMMA RowsOrdered ==
  ASSUME NEW V, NEW log \in Seq(V)
  PROVE  Orders({p \in Rows(log) \X Rows(log) : Precedes(log, p[1], p[2])}, Rows(log))
<1>. DEFINE T == Rows(log)
            R == {p \in T \X T : Precedes(log, p[1], p[2])}
<1>1. T \subseteq 1..Len(log)
  BY DEF Rows, LatestVersions
<1>2. \A n \in T : n \in Revisions(log, log[n].tenure)
  BY <1>1 DEF Revisions
<1>3. \A n \in T : Since(log, n) \in Revisions(log, log[n].tenure)
  <2>. TAKE n \in T
  <2>1. Revisions(log, log[n].tenure) \subseteq Nat
    BY DEF Revisions
  <2>. QED
    BY <1>2, <2>1, MinOf DEF Since
<1>4. \A n \in T : Since(log, n) \in Nat /\ log[Since(log, n)].tenure = log[n].tenure
  BY <1>3 DEF Revisions
<1>5. \A m, n \in T : m # n => log[m].tenure # log[n].tenure
  BY DEF Rows, LatestVersions
<1>6. \A m, n \in T : m # n => Since(log, m) # Since(log, n)
  BY <1>4, <1>5
<1>7. \A m, n \in T : <<m, n>> \in R <=> Precedes(log, m, n)
  OBVIOUS
<1>. HIDE DEF T, R
<1>8. \A m, n \in T : m # n => Precedes(log, m, n) \/ Precedes(log, n, m)
  BY <1>1, <1>4, <1>6 DEF Precedes
<1>9. \A l, m, n \in T :
         Precedes(log, l, m) /\ Precedes(log, m, n) => Precedes(log, l, n)
  BY <1>1, <1>4 DEF Precedes
<1>10. Orders(R, T)
  BY <1>7, <1>8, <1>9 DEF Orders
<1>. QED
  BY <1>10 DEF T, R

(* The rows of the queue are the latest versions of the tenures it shows,  *)
(* each once, every one before those that it precedes.                     *)
LEMMA QueueOrdered ==
  ASSUME NEW V, NEW log \in Seq(V)
  PROVE  /\ QueueOrder(log) \in SetToSeqs(Rows(log))
         /\ \A j, k \in DOMAIN QueueOrder(log) :
               j < k => Precedes(log, QueueOrder(log)[j], QueueOrder(log)[k])
<1>. DEFINE T == Rows(log)
            R == {p \in T \X T : Precedes(log, p[1], p[2])}
            N == Cardinality(T)
            Sorted(q) == \A j, k \in DOMAIN q : j < k => Precedes(log, q[j], q[k])
<1>1. T \subseteq 1..Len(log) /\ IsFiniteSet(T) /\ N \in Nat
  <2>1. T \subseteq 1..Len(log)
    BY DEF Rows, LatestVersions
  <2>2. IsFiniteSet(1..Len(log))
    BY FS_Interval
  <2>. QED
    BY <2>1, <2>2, FS_Subset, FS_CardinalityType
<1>2. Orders(R, T)
  BY RowsOrdered
<1>3. PICK q \in [1..N -> T] :
            /\ \A x \in T : \E i \in 1..N : q[i] = x
            /\ \A i, j \in 1..N : i < j => <<q[i], q[j]>> \in R
  <2>. HIDE DEF T, R
  <2>. QED
    BY <1>1, <1>2, Sortable
<1>4. Sorted(q)
  BY <1>3
<1>5. \A m \in T : ~Precedes(log, m, m)
  <2>. TAKE m \in T
  <2>1. m \in Nat /\ m \in Revisions(log, log[m].tenure)
    BY <1>1 DEF Revisions
  <2>2. Revisions(log, log[m].tenure) \subseteq Nat
    BY DEF Revisions
  <2>3. Since(log, m) \in Nat
    BY <2>1, <2>2, MinOf DEF Since
  <2>. QED
    BY <2>1, <2>3 DEF Precedes
<1>6. \A i, j \in 1..N : i # j => q[i] # q[j]
  <2>. TAKE i, j \in 1..N
  <2>1. i \in Int /\ j \in Int /\ (i # j => i < j \/ j < i)
    BY <1>1
  <2>. QED
    BY <1>3, <1>5, <2>1
<1>7. q \in SetToSeqs(T)
  BY <1>3, <1>6 DEF SetToSeqs
<1>8. QueueOrder(log) = CHOOSE order \in SetToSeqs(T) : Sorted(order)
  BY DEF QueueOrder
<1>. HIDE DEF Sorted, T
<1>9. QueueOrder(log) \in SetToSeqs(T) /\ Sorted(QueueOrder(log))
  BY <1>4, <1>7, <1>8
<1>. QED
  BY <1>9 DEF Sorted, T

LEMMA QueueTyped ==
  ASSUME NEW V, NEW log \in Seq(V)
  PROVE  /\ QueueRows(log) \in Seq(V)
         /\ Len(QueueRows(log)) <= Len(log)
<1>. DEFINE T == Rows(log)
            N == Cardinality(T)
            order == QueueOrder(log)
<1>1. T \subseteq 1..Len(log) /\ IsFiniteSet(T) /\ N \in Nat /\ N <= Len(log)
  <2>1. T \subseteq 1..Len(log)
    BY DEF Rows, LatestVersions
  <2>2. /\ IsFiniteSet(1..Len(log))
        /\ Cardinality(1..Len(log)) = IF 1 > Len(log) THEN 0 ELSE Len(log) - 1 + 1
    BY FS_Interval
  <2>3. Cardinality(1..Len(log)) = Len(log)
    BY <2>2
  <2>. QED
    BY <2>1, <2>2, <2>3, FS_Subset, FS_CardinalityType
<1>2. order \in [1..N -> T]
  BY QueueOrdered DEF SetToSeqs
<1>3. QueueRows(log) = [k \in 1..N |-> log[order[k]]]
  BY <1>2 DEF QueueRows
<1>. HIDE DEF T, N, order
<1>4. \A k \in 1..N : log[order[k]] \in V
  <2>. TAKE k \in 1..N
  <2>1. order[k] \in T
    BY <1>2
  <2>2. order[k] \in 1..Len(log)
    BY <1>1, <2>1
  <2>. QED
    BY <2>2
<1>. QED
  BY <1>1, <1>3, <1>4

-----------------------------------------------------------------------------
(* A page holds the rows after its offset, at least one if there is one,   *)
(* and says where the next one starts.                                     *)
LEMMA PageHolds ==
  ASSUME NEW R, NEW rows \in Seq(R), NEW offset \in 0..Len(rows),
         NEW limit \in Nat \ {0}, NEW mark
  PROVE  \E end \in offset..Len(rows) :
           /\ offset < Len(rows) => offset < end
           /\ Page(rows, offset, limit, mark) =
                [items |-> SubSeq(rows, offset + 1, end), at |-> offset, mark |-> mark,
                 next |-> IF end < Len(rows) THEN end ELSE 0]
<1>. DEFINE end == IF offset + limit <= Len(rows) THEN offset + limit ELSE Len(rows)
            items == SubSeq(rows, offset + 1, end)
<1>1. end \in offset..Len(rows) /\ end \in Nat /\ (offset < Len(rows) => offset < end)
  OBVIOUS
<1>2. Min({offset + limit, Len(rows)}) = end
  BY MinOfTwo
<1>3. \A i \in offset + 1 .. end : rows[i] \in R
  BY <1>1
<1>4. Len(items) = IF offset + 1 <= end THEN end - (offset + 1) + 1 ELSE 0
  BY <1>1, <1>3, SubSeqProperties
<1>5. offset + Len(items) = end
  BY <1>1, <1>4
<1>. QED
  BY <1>1, <1>2, <1>5 DEF Page

LEMMA PageTyped ==
  ASSUME NEW R, NEW rows \in Seq(R), NEW offset \in Nat, NEW limit \in Nat, NEW mark \in Nat
  PROVE  Page(rows, offset, limit, mark) \in
           [items : Seq(R), at : Nat, mark : Nat, next : Nat]
<1>. DEFINE end == Min({offset + limit, Len(rows)})
            items == SubSeq(rows, offset + 1, end)
<1>1. end \in Nat /\ end <= Len(rows)
  BY MinOfTwo
<1>2. \A i \in offset + 1 .. end : rows[i] \in R
  BY <1>1
<1>. HIDE DEF end
<1>3. /\ SubSeq(rows, offset + 1, end) \in Seq(R)
      /\ Len(SubSeq(rows, offset + 1, end)) =
           IF offset + 1 <= end THEN end - (offset + 1) + 1 ELSE 0
  <2>1. offset + 1 \in Int /\ end \in Int
    BY <1>1
  <2>. QED
    BY <1>2, <2>1, SubSeqProperties
<1>4. items \in Seq(R) /\ offset + Len(items) \in Nat
  BY <1>1, <1>3
<1>5. Page(rows, offset, limit, mark) =
        [items |-> items, at |-> offset, mark |-> mark,
         next |-> IF offset + Len(items) < Len(rows) THEN offset + Len(items) ELSE 0]
  BY DEF Page, end
<1>. HIDE DEF items
<1>. QED
  BY <1>4, <1>5

(* A list that is a beginning of the rows, and the page that follows it,   *)
(* are a longer beginning.                                                 *)
LEMMA PageFollows ==
  ASSUME NEW R, NEW rows \in Seq(R), NEW n \in 0..Len(rows), NEW end \in n..Len(rows)
  PROVE  /\ SubSeq(rows, 1, n) \o SubSeq(rows, n + 1, end) = SubSeq(rows, 1, end)
         /\ SubSeq(rows, 1, end) \in Seq(R)
         /\ Len(SubSeq(rows, 1, end)) = end
<1>1. end \in Nat /\ \A i \in 1..end : rows[i] \in R
  OBVIOUS
<1>2. /\ SubSeq(rows, 1, end) \in Seq(R)
      /\ Len(SubSeq(rows, 1, end)) = IF 1 <= end THEN end - 1 + 1 ELSE 0
  BY <1>1, SubSeqProperties
<1>3. SubSeq(rows, 1, n) \o SubSeq(rows, n + 1, end) = SubSeq(rows, 1, end)
  <2>1. 1 \in 1..Len(rows) + 1 /\ n \in 1 - 1 .. Len(rows) /\ end \in n..Len(rows)
    OBVIOUS
  <2>. QED
    BY <2>1, ConcatAdjacentSubSeq
<1>. QED
  BY <1>1, <1>2, <1>3

(* Pieces that follow each other, put together. *)
LEMMA Flattened ==
  ASSUME NEW R, NEW rows \in Seq(R), NEW n \in Nat \ {0},
         NEW parts, NEW ends \in [0..n -> 0..Len(rows)],
         parts = [i \in 1..n |-> SubSeq(rows, ends[i - 1] + 1, ends[i])],
         \A i \in 1..n : ends[i - 1] <= ends[i]
  PROVE  /\ FlattenSeq(parts) = SubSeq(rows, ends[0] + 1, ends[n])
         /\ ends[0] <= ends[n]
<1>. DEFINE Piece(i) == SubSeq(rows, ends[0] + 1, ends[i])
            S == {i \in Nat : i + 1 \in 1..n => ends[0] <= ends[i + 1]}
<1>1. 0 \in S
  OBVIOUS
<1>2. ASSUME NEW i \in Nat, i \in S PROVE i + 1 \in S
  <2>1. SUFFICES ASSUME i + 2 \in 1..n PROVE ends[0] <= ends[i + 2]
    OBVIOUS
  <2>2. i + 1 \in 1..n /\ (i + 2) - 1 = i + 1
    BY <2>1
  <2>3. ends[0] <= ends[i + 1] /\ ends[i + 1] <= ends[i + 2]
    BY <1>2, <2>1, <2>2
  <2>4. ends[0] \in Nat /\ ends[i + 1] \in Nat /\ ends[i + 2] \in Nat
    BY <2>1, <2>2
  <2>5. \A a, b, c \in Nat : a <= b /\ b <= c => a <= c
    OBVIOUS
  <2>. QED
    BY <2>3, <2>4, <2>5
<1>3. Nat \subseteq S
  <2>. HIDE DEF S
  <2>. QED
    BY <1>1, <1>2, InductionOn
<1>4. \A i \in 1..n : ends[0] <= ends[i]
  <2>. TAKE i \in 1..n
  <2>1. i - 1 \in Nat /\ (i - 1) + 1 = i
    OBVIOUS
  <2>2. i - 1 \in S
    BY <1>3, <2>1
  <2>. QED
    BY <2>1, <2>2
<1>5. \A i \in 1..n :
         Piece(i) = IF i = 1 THEN parts[i] ELSE Piece(i - 1) \o parts[i]
  <2>. TAKE i \in 1..n
  <2>1. CASE i = 1
    BY <2>1
  <2>2. CASE i # 1
    <3>1. i - 1 \in 1..n /\ i - 1 \in 0..n /\ i \in 0..n /\ 0 \in 0..n
      BY <2>2
    <3>2. ends[0] <= ends[i - 1] /\ ends[i - 1] <= ends[i]
      BY <1>4, <3>1
    <3>3. /\ ends[0] + 1 \in 1..Len(rows) + 1
          /\ ends[i - 1] \in (ends[0] + 1) - 1 .. Len(rows)
          /\ ends[i] \in ends[i - 1] .. Len(rows)
      <4>1. /\ ends[0] \in 0..Len(rows) /\ ends[i - 1] \in 0..Len(rows)
            /\ ends[i] \in 0..Len(rows) /\ Len(rows) \in Nat
        BY <3>1
      <4>2. \A a, b, c \in 0..Len(rows) : a <= b /\ b <= c =>
               /\ a + 1 \in 1..Len(rows) + 1
               /\ b \in (a + 1) - 1 .. Len(rows)
               /\ c \in b..Len(rows)
        BY <4>1
      <4>. QED
        BY <3>2, <4>1, <4>2
    <3>4. Piece(i - 1) \o SubSeq(rows, ends[i - 1] + 1, ends[i]) = Piece(i)
      BY <3>3, ConcatAdjacentSubSeq
    <3>. QED
      BY <2>2, <3>4
  <2>. QED
    BY <2>1, <2>2
<1>. DEFINE Flattens(f) ==
              f = [i \in 1..n |-> IF i = 1 THEN parts[i] ELSE f[i - 1] \o parts[i]]
            g == [i \in 1..n |-> Piece(i)]
            h == CHOOSE f : Flattens(f)
<1>6. Len(parts) = n
  OBVIOUS
<1>7. FlattenSeq(parts) = h[n]
  BY <1>6 DEF FlattenSeq
<1>8. Flattens(g)
  <2>1. \A i \in 1..n : i # 1 => i - 1 \in 1..n
    OBVIOUS
  <2>. HIDE DEF Piece
  <2>. QED
    BY <1>5, <2>1
<1>9. Flattens(h)
  <2>. HIDE DEF Flattens, g
  <2>. QED
    BY <1>8
<1>. DEFINE E == {i \in Nat : i + 1 \in 1..n => h[i + 1] = Piece(i + 1)}
<1>. HIDE DEF h, Piece, g
<1>10. 0 \in E
  BY <1>5, <1>9
<1>11. ASSUME NEW i \in Nat, i \in E PROVE i + 1 \in E
  <2>1. SUFFICES ASSUME i + 2 \in 1..n PROVE h[i + 2] = Piece(i + 2)
    OBVIOUS
  <2>2. i + 1 \in 1..n /\ (i + 2) - 1 = i + 1 /\ i + 2 # 1
    BY <2>1
  <2>3. h[i + 2] = h[i + 1] \o parts[i + 2]
    BY <1>9, <2>1, <2>2
  <2>4. Piece(i + 2) = Piece(i + 1) \o parts[i + 2]
    BY <1>5, <2>1, <2>2
  <2>. QED
    BY <1>11, <2>2, <2>3, <2>4
<1>12. Nat \subseteq E
  <2>. HIDE DEF E
  <2>. QED
    BY <1>10, <1>11, InductionOn
<1>13. h[n] = Piece(n)
  <2>1. n - 1 \in Nat /\ (n - 1) + 1 = n /\ n \in 1..n
    OBVIOUS
  <2>2. n - 1 \in E
    BY <1>12, <2>1
  <2>. QED
    BY <2>1, <2>2
<1>. QED
  BY <1>4, <1>7, <1>13 DEF Piece
=============================================================================
