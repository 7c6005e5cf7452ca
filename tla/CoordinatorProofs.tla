------------------------- MODULE CoordinatorProofs -------------------------
(***************************************************************************)
(* Proofs about Coordinator for every set of tasks, queues and workers,    *)
(* every capacity and rate, and any number of tasks in a queue.            *)
(*                                                                         *)
(* ListedExactly counts the heap's entries.  What a step keeps is that no  *)
(* queue has two, and that queues with a task are those that have one; the *)
(* count follows.  It matters to the types too: the head of a queue is     *)
(* only taken because the heap lists no queue that is empty.               *)
(***************************************************************************)
EXTENDS Coordinator, FiniteSetTheorems, SequenceTheorems, WellFoundedInduction, TLAPS

-----------------------------------------------------------------------------
(***************************************************************************)
(* The dispatch heap.                                                      *)
(***************************************************************************)

Entries == [queue : Queues, wait : Nat]

\* Heaps without two entries of a queue, and the queues a heap lists.
Heaps     == {h \in Seq(Entries) :
                \A j, k \in 1..Len(h) : h[j].queue = h[k].queue => j = k}
Listed(h) == {h[k].queue : k \in 1..Len(h)}

LEMMA HeapTyped ==
  ASSUME NEW h \in Heaps
  PROVE  /\ h \in Seq(Entries) /\ Len(h) \in Nat
         /\ \A k \in 1..Len(h) : h[k] \in Entries /\ h[k].queue \in Queues /\ h[k].wait \in Nat
         /\ \A j, k \in 1..Len(h) : h[j].queue = h[k].queue => j = k
<1>1. h \in Seq(Entries) /\ \A j, k \in 1..Len(h) : h[j].queue = h[k].queue => j = k
  BY DEF Heaps
<1>2. Len(h) \in Nat /\ \A k \in 1..Len(h) : h[k] \in Entries
  BY <1>1
<1>3. \A e \in Entries : e.queue \in Queues /\ e.wait \in Nat
  BY DEF Entries
<1> QED
  BY <1>1, <1>2, <1>3

\* A stretch of a heap is a heap.
LEMMA SubHeap ==
  ASSUME NEW h \in Heaps, NEW m \in 1..Len(h) + 1, NEW n \in 0..Len(h)
  PROVE  /\ SubSeq(h, m, n) \in Heaps
         /\ Listed(SubSeq(h, m, n)) = {h[k].queue : k \in m..n}
<1> DEFINE s == SubSeq(h, m, n)
<1>1. \A k \in m..n : h[k] \in Entries
  BY HeapTyped
<1>2. /\ s \in Seq(Entries) /\ Len(s) = IF m <= n THEN n - m + 1 ELSE 0
      /\ \A i \in 1..(n - m + 1) : s[i] = h[m + i - 1]
  BY <1>1, SubSeqProperties
<1> HIDE DEF s
<1>3. /\ \A k \in 1..Len(s) : k \in 1..(n - m + 1) /\ m + k - 1 \in m..n /\ m + k - 1 \in 1..Len(h)
      /\ \A k \in m..n : k - m + 1 \in 1..Len(s) /\ m + (k - m + 1) - 1 = k
  BY <1>2, HeapTyped
<1>4. \A k \in 1..Len(s) : s[k] = h[m + k - 1]
  BY <1>2, <1>3
<1>5. s \in Heaps
  <2> SUFFICES ASSUME NEW j \in 1..Len(s), NEW k \in 1..Len(s), s[j].queue = s[k].queue
               PROVE  j = k
    BY <1>2 DEF Heaps
  <2>1. m + j - 1 \in 1..Len(h) /\ m + k - 1 \in 1..Len(h)
    BY <1>3
  <2>2. h[m + j - 1].queue = h[m + k - 1].queue
    BY <1>4
  <2>3. m + j - 1 = m + k - 1
    BY <2>1, <2>2, HeapTyped
  <2> QED
    BY <2>3
<1>6. Listed(s) = {h[k].queue : k \in m..n}
  <2>1. \A k \in m..n : h[k] = s[k - m + 1]
    BY <1>3, <1>4
  <2>2. ASSUME NEW k \in 1..Len(s)
        PROVE  s[k].queue \in {h[j].queue : j \in m..n}
    <3>1. m + k - 1 \in m..n /\ s[k].queue = h[m + k - 1].queue
      BY <1>3, <1>4
    <3> QED
      BY <3>1
  <2>3. ASSUME NEW k \in m..n
        PROVE  h[k].queue \in Listed(s)
    <3>1. k - m + 1 \in 1..Len(s) /\ h[k].queue = s[k - m + 1].queue
      BY <1>3, <2>1
    <3> QED
      BY <3>1 DEF Listed
  <2> QED
    BY <2>2, <2>3 DEF Listed
<1> QED
  BY <1>5, <1>6 DEF s

LEMMA WithoutLists ==
  ASSUME NEW h \in Heaps, NEW q \in Queues
  PROVE  /\ Without(h, q) \in Heaps
         /\ Listed(Without(h, q)) = Listed(h) \ {q}
<1>1. CASE \E k \in 1..Len(h) : h[k].queue = q
  <2> DEFINE k == CHOOSE k \in 1..Len(h) : h[k].queue = q
             a == SubSeq(h, 1, k - 1)
             z == SubSeq(h, k + 1, Len(h))
             s == a \o z
  <2>1. k \in 1..Len(h) /\ h[k].queue = q
    BY <1>1
  <2>2. Without(h, q) = s
    BY <1>1 DEF Without, RemoveAt
  <2> HIDE DEF k
  <2>3. /\ a \in Seq(Entries) /\ Len(a) = k - 1 /\ \A j \in 1..k - 1 : a[j] = h[j]
    BY <2>1, HeapTyped, SubSeqProperties
  <2>4. /\ z \in Seq(Entries) /\ Len(z) = Len(h) - k
        /\ \A j \in 1..Len(h) - k : z[j] = h[k + j]
    <3>1. \A j \in k + 1..Len(h) : h[j] \in Entries
      BY <2>1, HeapTyped
    <3>2. /\ z \in Seq(Entries)
          /\ Len(z) = IF k + 1 <= Len(h) THEN Len(h) - (k + 1) + 1 ELSE 0
          /\ \A j \in 1..Len(h) - (k + 1) + 1 : z[j] = h[k + 1 + j - 1]
      BY <2>1, <3>1, HeapTyped, SubSeqProperties
    <3> QED
      BY <2>1, <3>2, HeapTyped
  <2> HIDE DEF a, z
  <2>5. /\ s \in Seq(Entries) /\ Len(s) = Len(a) + Len(z)
        /\ \A j \in 1..Len(a) + Len(z) : s[j] = IF j <= Len(a) THEN a[j] ELSE z[j - Len(a)]
    BY <2>3, <2>4, ConcatProperties
  <2> HIDE DEF s
  <2> DEFINE from(j) == IF j < k THEN j ELSE j + 1
  <2>6. Len(s) = Len(h) - 1 /\ Len(h) \in Nat /\ k \in Int
    BY <2>1, <2>3, <2>4, <2>5, HeapTyped
  <2>7. \A j \in 1..Len(s) : from(j) \in 1..Len(h) /\ from(j) # k /\ s[j] = h[from(j)]
    <3> SUFFICES ASSUME NEW j \in 1..Len(s)
                 PROVE  from(j) \in 1..Len(h) /\ from(j) # k /\ s[j] = h[from(j)]
      OBVIOUS
    <3>1. CASE j < k
      BY <2>1, <2>3, <2>5, <2>6, <3>1
    <3>2. CASE ~(j < k)
      <4>1. j - Len(a) \in 1..Len(h) - k /\ k + (j - Len(a)) = j + 1 /\ ~(j <= Len(a))
        BY <2>1, <2>3, <2>6, <3>2
      <4> QED
        BY <2>1, <2>3, <2>4, <2>5, <2>6, <3>2, <4>1
    <3> QED
      BY <3>1, <3>2
  <2>8. \A j \in 1..Len(h) : j # k => \E i \in 1..Len(s) : from(i) = j
    <3> SUFFICES ASSUME NEW j \in 1..Len(h), j # k
                 PROVE  \E i \in 1..Len(s) : from(i) = j
      OBVIOUS
    <3>1. CASE j < k
      BY <2>1, <2>6, <3>1
    <3>2. CASE j > k
      <4>1. j - 1 \in 1..Len(s) /\ from(j - 1) = j
        BY <2>1, <2>6, <3>2
      <4> QED
        BY <4>1
    <3> QED
      BY <2>6, <3>1, <3>2
  <2>9. s \in Heaps
    <3> SUFFICES ASSUME NEW i \in 1..Len(s), NEW j \in 1..Len(s), s[i].queue = s[j].queue
                 PROVE  i = j
      BY <2>5 DEF Heaps
    <3>1. from(i) = from(j)
      BY <2>7, HeapTyped
    <3> QED
      BY <2>6, <3>1
  <2>10. Listed(s) = Listed(h) \ {q}
    <3>1. \A j \in 1..Len(h) : h[j].queue = q <=> j = k
      BY <2>1, HeapTyped
    <3>2. Listed(s) \subseteq Listed(h) \ {q}
      BY <2>7, <3>1 DEF Listed
    <3>3. ASSUME NEW j \in 1..Len(h), h[j].queue # q
          PROVE  h[j].queue \in Listed(s)
      <4>1. PICK i \in 1..Len(s) : from(i) = j
        BY <2>8, <3>1, <3>3
      <4>2. s[i] = h[j]
        BY <2>7, <4>1
      <4> QED
        BY <4>2 DEF Listed
    <3> QED
      BY <3>2, <3>3 DEF Listed
  <2> QED
    BY <2>2, <2>9, <2>10
<1>2. CASE ~\E k \in 1..Len(h) : h[k].queue = q
  BY <1>2 DEF Without, Listed
<1> QED
  BY <1>1, <1>2

\* A push lists the queue, and leaves the others listed.
LEMMA PushLists ==
  ASSUME NEW h \in Heaps, NEW q \in Queues, NEW wait \in Nat
  PROVE  /\ Push(h, q, wait) \in Heaps
         /\ Listed(Push(h, q, wait)) = Listed(h) \cup {q}
<1> DEFINE o == Without(h, q)
           i == Cardinality({k \in 1..Len(o) : o[k].wait <= wait})
           e == [queue |-> q, wait |-> wait]
           a == SubSeq(o, 1, i)
           z == SubSeq(o, i + 1, Len(o))
           b == a \o <<e>>
           s == b \o z
<1>1. o \in Heaps /\ Listed(o) = Listed(h) \ {q} /\ Len(o) \in Nat
  BY WithoutLists, HeapTyped
<1> HIDE DEF o
<1>2. i \in 0..Len(o)
  <2> DEFINE S == {k \in 1..Len(o) : o[k].wait <= wait}
  <2>1. IsFiniteSet(1..Len(o)) /\ Cardinality(1..Len(o)) = Len(o)
    BY SMTT(30), <1>1, FS_Interval
  <2>2. S \in SUBSET (1..Len(o))
    OBVIOUS
  <2>3. IsFiniteSet(S) /\ Cardinality(S) <= Len(o)
    BY <2>1, <2>2, FS_Subset
  <2>4. Cardinality(S) \in Nat
    BY <2>3, FS_CardinalityType
  <2> QED
    BY <1>1, <2>3, <2>4
<1>3. Push(h, q, wait) = InsertAt(o, i + 1, e)
  BY DEF Push, o
<1> HIDE DEF i
<1>3a. InsertAt(o, i + 1, e) = s
  <2>1. (i + 1) - 1 = i
    BY <1>2
  <2> QED
    BY <2>1 DEF InsertAt
<1>4. e \in Entries /\ e.queue = q
  BY DEF Entries
<1>5. /\ a \in Heaps /\ Listed(a) = {o[k].queue : k \in 1..i} /\ Len(a) = i
      /\ \A k \in 1..i : a[k] = o[k]
  <2>1. \A k \in 1..i : o[k] \in Entries
    BY <1>1, <1>2, HeapTyped
  <2>2. a \in Heaps /\ Listed(a) = {o[k].queue : k \in 1..i}
    BY <1>1, <1>2, SubHeap
  <2>3. Len(a) = i /\ \A k \in 1..i : a[k] = o[k]
    BY <1>1, <1>2, <2>1, SubSeqProperties
  <2> QED
    BY <2>2, <2>3
<1>6. /\ z \in Heaps /\ Listed(z) = {o[k].queue : k \in i + 1..Len(o)} /\ Len(z) = Len(o) - i
      /\ \A k \in 1..Len(o) - i : z[k] = o[i + k]
  <2>1. \A k \in i + 1..Len(o) : o[k] \in Entries
    BY <1>1, <1>2, HeapTyped
  <2>2. /\ Len(z) = IF i + 1 <= Len(o) THEN Len(o) - (i + 1) + 1 ELSE 0
        /\ \A k \in 1..Len(o) - (i + 1) + 1 : z[k] = o[i + 1 + k - 1]
    BY <1>1, <1>2, <2>1, SubSeqProperties
  <2>3. z \in Heaps /\ Listed(z) = {o[k].queue : k \in i + 1..Len(o)}
    BY <1>1, <1>2, SubHeap
  <2> QED
    BY <1>1, <1>2, <2>2, <2>3
<1> HIDE DEF a, z, e
<1>7. /\ b \in Seq(Entries) /\ Len(b) = i + 1
      /\ \A k \in 1..i + 1 : b[k] = IF k <= i THEN o[k] ELSE e
  <2>1. <<e>> \in Seq(Entries) /\ Len(<<e>>) = 1 /\ <<e>>[1] = e
    BY <1>4
  <2> QED
    BY <1>2, <1>5, <2>1, HeapTyped, ConcatProperties
<1> HIDE DEF b
<1>8. /\ s \in Seq(Entries) /\ Len(s) = Len(o) + 1
      /\ \A k \in 1..Len(o) + 1 : s[k] = IF k <= i + 1 THEN b[k] ELSE z[k - (i + 1)]
  <2>1. z \in Seq(Entries)
    BY <1>6, HeapTyped
  <2>2. /\ s \in Seq(Entries) /\ Len(s) = Len(b) + Len(z)
        /\ \A k \in 1..Len(b) + Len(z) : s[k] = IF k <= Len(b) THEN b[k] ELSE z[k - Len(b)]
    BY <1>7, <2>1, ConcatProperties
  <2>3. Len(b) = i + 1 /\ Len(b) + Len(z) = Len(o) + 1
    BY <1>1, <1>2, <1>6, <1>7
  <2> QED
    BY <2>2, <2>3
<1> HIDE DEF s
<1> DEFINE from(k) == IF k <= i THEN k ELSE k - 1
<1>9. /\ s[i + 1] = e /\ i + 1 \in 1..Len(s)
      /\ \A k \in 1..Len(s) : k # i + 1 => from(k) \in 1..Len(o) /\ s[k] = o[from(k)]
  <2>1. s[i + 1] = e /\ i + 1 \in 1..Len(s)
    BY <1>1, <1>2, <1>7, <1>8
  <2>2. ASSUME NEW k \in 1..Len(s), k <= i
        PROVE  from(k) \in 1..Len(o) /\ s[k] = o[from(k)]
    BY <1>1, <1>2, <1>7, <1>8, <2>2
  <2>3. ASSUME NEW k \in 1..Len(s), k > i + 1
        PROVE  from(k) \in 1..Len(o) /\ s[k] = o[from(k)]
    <3>1. /\ k - (i + 1) \in 1..Len(o) - i /\ i + (k - (i + 1)) = k - 1
          /\ ~(k <= i + 1) /\ ~(k <= i) /\ k - 1 \in 1..Len(o) /\ k \in 1..Len(o) + 1
      BY <1>1, <1>2, <1>8, <2>3
    <3> QED
      BY <1>6, <1>8, <3>1
  <2> QED
    BY <1>2, <1>8, <2>1, <2>2, <2>3
<1>10. \A k \in 1..Len(o) : o[k].queue # q /\ o[k].queue \in Listed(o)
  BY <1>1 DEF Listed
<1>11. s \in Heaps
  <2> SUFFICES ASSUME NEW j \in 1..Len(s), NEW k \in 1..Len(s), s[j].queue = s[k].queue
               PROVE  j = k
    BY <1>8 DEF Heaps
  <2>1. CASE j = i + 1 \/ k = i + 1
    BY <1>4, <1>9, <1>10, <2>1
  <2>2. CASE j # i + 1 /\ k # i + 1
    <3>1. from(j) = from(k)
      BY <1>1, <1>9, <2>2, HeapTyped
    <3> QED
      BY <1>2, <2>2, <3>1
  <2> QED
    BY <2>1, <2>2
<1>12. Listed(s) = Listed(o) \cup {q}
  <2>1. ASSUME NEW k \in 1..Len(s)
        PROVE  s[k].queue \in Listed(o) \cup {q}
    BY <1>4, <1>9, <1>10
  <2>2. q \in Listed(s)
    BY <1>4, <1>9 DEF Listed
  <2>3. ASSUME NEW k \in 1..Len(o)
        PROVE  o[k].queue \in Listed(s)
    <3> DEFINE j == IF k <= i THEN k ELSE k + 1
    <3>1. j \in 1..Len(s) /\ j # i + 1 /\ from(j) = k
      BY <1>1, <1>2, <1>8
    <3>2. s[j] = o[k]
      BY <1>9, <3>1
    <3> QED
      BY <3>1, <3>2 DEF Listed
  <2> QED
    BY <2>1, <2>2, <2>3 DEF Listed
<1>13. q \in Queues /\ Listed(o) \cup {q} = Listed(h) \cup {q}
  BY <1>1
<1> QED
  BY <1>3, <1>3a, <1>11, <1>12, <1>13

-----------------------------------------------------------------------------
(***************************************************************************)
(* Putting back the entries that were refused.                             *)
(***************************************************************************)

Less == {p \in Nat \X Nat : p[1] < p[2]}

LEMMA LessWellFounded == IsWellFoundedOn(Less, Nat)
<1>1. Less = OpToRel(<, Nat)
  BY DEF Less, OpToRel
<1> QED
  BY <1>1, NatLessThanWellFounded

\* A set of numbers that is not empty has a least one: what holds of 0 and of each
\* number whose predecessor it holds of, holds of all.
LEMMA Least ==
  ASSUME NEW T \in SUBSET Nat, T # {}
  PROVE  \E x \in T : \A y \in T : x <= y
<1>1. PICK x \in T : \A y \in T : <<y, x>> \notin Less
  BY LessWellFounded, WFMin
<1>2. \A y \in Nat : y < x => <<y, x>> \in Less
  <2> SUFFICES ASSUME NEW y \in Nat, y < x
               PROVE  <<y, x>> \in Less
    OBVIOUS
  <2> QED
    BY DEF Less
<1>3. \A y \in T : ~(y < x) /\ y \in Nat /\ x \in Nat
  BY <1>1, <1>2
<1> QED
  BY <1>3

\* The heap after the n-th entry of r is put back on x.
Back(r, n, x) == Push(x, r[n].queue, WaitFor(r[n].queue, Head(fifo[r[n].queue])))

\* c is the succession of heaps as the first n entries of r are put back on h.
Chain(c, h, r, n) ==
  c = [i \in 0..n |-> IF i = 0 THEN h ELSE Back(r, i, c[i-1])]

LEMMA ChainExists ==
  ASSUME NEW h, NEW r, NEW N \in Nat
  PROVE  \E c : Chain(c, h, r, N)
<1> DEFINE T == {n \in Nat : ~\E c : Chain(c, h, r, n)}
<1> SUFFICES ASSUME T # {} PROVE FALSE
  OBVIOUS
<1>1. PICK n \in T : \A m \in T : n <= m
  BY Least
<1>2. n # 0
  <2> SUFFICES \E c : Chain(c, h, r, 0)
    OBVIOUS
  <2> DEFINE c == [i \in 0..0 |-> h]
  <2>1. \A i \in 0..0 : i = 0
    OBVIOUS
  <2>2. c = [i \in 0..0 |-> IF i = 0 THEN h ELSE Back(r, i, c[i-1])]
    BY <2>1
  <2> QED
    BY <2>2 DEF Chain
<1>3. n \in Nat /\ n - 1 \in Nat /\ n - 1 \notin T
  BY <1>1, <1>2
<1>4. PICK c : Chain(c, h, r, n - 1)
  BY <1>3
<1> DEFINE d == [i \in 0..n |-> IF i = n THEN Back(r, n, c[n-1]) ELSE c[i]]
<1>5. /\ c = [i \in 0..n - 1 |-> IF i = 0 THEN h ELSE Back(r, i, c[i-1])]
      /\ d = [i \in 0..n |-> d[i]]
  BY <1>4 DEF Chain
<1>6. \A i \in 0..n : d[i] = IF i = 0 THEN h ELSE Back(r, i, d[i-1])
  <2> SUFFICES ASSUME NEW i \in 0..n
               PROVE  d[i] = IF i = 0 THEN h ELSE Back(r, i, d[i-1])
    OBVIOUS
  <2>1. CASE i = n
    <3>1. n - 1 \in 0..n /\ n - 1 # n
      BY <1>3
    <3>2. d[n - 1] = c[n - 1] /\ d[n] = Back(r, n, c[n-1])
      BY <1>3, <3>1
    <3> QED
      BY <1>2, <2>1, <3>2
  <2>2. CASE i = 0
    <3>1. 0 \in 0..n - 1 /\ 0 \in 0..n
      BY <1>3
    <3>2. d[0] = c[0] /\ c[0] = h
      BY <1>2, <1>5, <3>1
    <3> QED
      BY <2>2, <3>2
  <2>3. CASE i # n /\ i # 0
    <3>1. i \in 0..n - 1 /\ i - 1 \in 0..n /\ i - 1 # n
      BY <1>3, <2>3
    <3>2. d[i] = c[i] /\ d[i - 1] = c[i - 1]
      BY <2>3, <3>1
    <3>3. c[i] = IF i = 0 THEN h ELSE Back(r, i, c[i-1])
      BY <1>5, <3>1
    <3> QED
      BY <2>3, <3>2, <3>3
  <2> QED
    BY <2>1, <2>2, <2>3
<1> HIDE DEF d
<1>7. Chain(d, h, r, n)
  BY <1>5, <1>6 DEF Chain
<1> QED
  BY <1>7

LEMMA ChainLists ==
  ASSUME NEW h \in Heaps, NEW r \in Seq(Entries), NEW c, Chain(c, h, r, Len(r)),
         \A k \in 1..Len(r) : WaitFor(r[k].queue, Head(fifo[r[k].queue])) \in Nat
  PROVE  \A n \in 0..Len(r) : /\ c[n] \in Heaps
                              /\ Listed(c[n]) = Listed(h) \cup {r[k].queue : k \in 1..n}
<1> DEFINE Good(n) == /\ c[n] \in Heaps
                      /\ Listed(c[n]) = Listed(h) \cup {r[k].queue : k \in 1..n}
           T == {n \in 0..Len(r) : ~Good(n)}
<1> SUFFICES ASSUME T # {} PROVE FALSE
  OBVIOUS
<1>0. Len(r) \in Nat /\ \A k \in 1..Len(r) : r[k].queue \in Queues
  <2>1. Len(r) \in Nat /\ \A k \in 1..Len(r) : r[k] \in Entries
    OBVIOUS
  <2> QED
    BY <2>1 DEF Entries
<1>1. PICK n \in T : \A m \in T : n <= m
  <2>1. T \in SUBSET Nat
    BY <1>0
  <2> QED
    BY <2>1, Least
<1>2. \A i \in 0..Len(r) : c[i] = IF i = 0 THEN h ELSE Back(r, i, c[i-1])
  BY DEF Chain
<1>3. n # 0
  <2>1. 0 \in 0..Len(r) /\ 1..0 = {}
    BY <1>0
  <2>2. c[0] = h
    BY <1>2, <2>1
  <2>3. Good(0)
    BY <2>1, <2>2
  <2> QED
    BY <2>3
<1>4. n - 1 \in 0..Len(r) /\ n - 1 \notin T /\ n \in 1..Len(r)
  <2>1. n \in 0..Len(r)
    OBVIOUS
  <2>2. n - 1 \in 0..Len(r) /\ n \in 1..Len(r) /\ ~(n <= n - 1)
    BY <1>0, <1>3, <2>1
  <2> HIDE DEF T
  <2> QED
    BY <1>1, <2>2
<1>5. Good(n - 1)
  BY <1>4
<1>6. c[n] = Push(c[n - 1], r[n].queue, WaitFor(r[n].queue, Head(fifo[r[n].queue])))
  BY <1>2, <1>3, <1>4 DEF Back
<1>7. c[n] \in Heaps /\ Listed(c[n]) = Listed(c[n - 1]) \cup {r[n].queue}
  BY <1>0, <1>4, <1>5, <1>6, PushLists
<1>8. 1..n = (1..n - 1) \cup {n}
  BY <1>0, <1>4
<1>9. {r[k].queue : k \in 1..n} = {r[k].queue : k \in 1..n - 1} \cup {r[n].queue}
  BY <1>8
<1>10. Good(n)
  BY <1>5, <1>7, <1>9
<1> QED
  BY <1>10

LEMMA PutBackLists ==
  ASSUME NEW h \in Heaps, NEW r \in Seq(Entries),
         \A k \in 1..Len(r) : WaitFor(r[k].queue, Head(fifo[r[k].queue])) \in Nat
  PROVE  /\ PutBack(h, r) \in Heaps
         /\ Listed(PutBack(h, r)) = Listed(h) \cup Listed(r)
<1> DEFINE put == CHOOSE c : Chain(c, h, r, Len(r))
<1>0. Len(r) \in Nat
  OBVIOUS
<1>1. Chain(put, h, r, Len(r))
  BY <1>0, ChainExists
<1>2. PutBack(h, r) = put[Len(r)]
  BY DEF PutBack, Chain, Back
<1>3. Len(r) \in 0..Len(r)
  BY <1>0
<1> HIDE DEF put
<1>4. /\ put[Len(r)] \in Heaps
      /\ Listed(put[Len(r)]) = Listed(h) \cup {r[k].queue : k \in 1..Len(r)}
  BY <1>1, <1>3, ChainLists
<1> QED
  BY <1>2, <1>4 DEF Listed

\* A heap has as many entries as it lists queues.
LEMMA HeapCounts ==
  ASSUME NEW h \in Heaps
  PROVE  /\ ToSet([k \in 1..Len(h) |-> h[k].queue]) = Listed(h)
         /\ Len(h) = Cardinality(Listed(h))
<1> DEFINE f == [k \in 1..Len(h) |-> h[k].queue]
<1>1. ToSet(f) = Listed(h)
  <2>1. DOMAIN f = 1..Len(h) /\ \A k \in 1..Len(h) : f[k] = h[k].queue
    OBVIOUS
  <2> HIDE DEF f
  <2> QED
    BY <2>1 DEF ToSet, Listed
<1>2. f \in Surjection(1..Len(h), Listed(h)) /\ f \in Injection(1..Len(h), Listed(h))
  BY HeapTyped DEF Surjection, Injection, IsInjective, Listed
<1>3. IsFiniteSet(1..Len(h)) /\ Cardinality(1..Len(h)) = Len(h)
  BY HeapTyped, FS_Interval
<1> QED
  BY <1>1, <1>2, <1>3, FS_Surjection

-----------------------------------------------------------------------------
(***************************************************************************)
(* Buckets.                                                                *)
(***************************************************************************)

Bucket == [tokens : Int, lag : Nat]

LEMMA Constants ==
  /\ \A q \in Queues : /\ Rpm[q] \in Nat \ {0} /\ Tpm[q] \in Nat \ {0}
                       /\ RpmRate[q] \in Nat \ {0} /\ TpmRate[q] \in Nat \ {0}
  /\ \A t \in Tasks : /\ Estimated[t] \in Nat /\ Used[t] \in SUBSET Nat
                      /\ Candidates[t] \in SUBSET Queues
                      /\ t # None
  /\ MaxLag \in Nat \ {0}
  /\ None \notin Queues /\ None \notin Assignments
BY CoordinatorConstants DEF Assignments

LEMMA RefilledIs ==
  ASSUME NEW b \in Bucket, NEW c \in Nat, NEW r \in Nat \ {0}
  PROVE  /\ Refilled(b, c, r) \in Bucket
         /\ b.lag * r \in Nat
         /\ Refilled(b, c, r).tokens = Lesser(c, b.tokens + b.lag * r)
         /\ Refilled(b, c, r).lag = 0
         /\ Refilled(b, c, r).tokens <= c
         /\ b.tokens >= 0 => Refilled(b, c, r).tokens >= 0
<1>1. b.lag * r \in Nat /\ b.tokens \in Int
  BY DEF Bucket
<1> QED
  BY <1>1 DEF Bucket, Refilled, Lesser

\* Refilling a bucket that was just refilled does nothing.
LEMMA RefilledOnce ==
  ASSUME NEW b \in Bucket, NEW c \in Nat, NEW r \in Nat \ {0}, b.lag = 0, b.tokens <= c
  PROVE  Refilled(b, c, r).tokens = b.tokens
<1>1. 0 * r = 0
  OBVIOUS
<1> QED
  BY <1>1 DEF Bucket, Refilled, Lesser

LEMMA SpentIs ==
  ASSUME NEW b \in Bucket, NEW c \in Nat, NEW r \in Nat \ {0}, NEW amount \in Nat
  PROVE  /\ Spent(b, amount, c, r) \in Bucket
         /\ Spent(b, amount, c, r) = [tokens |-> Refilled(b, c, r).tokens - amount, lag |-> 0]
<1> DEFINE f == Refilled(b, c, r)
<1>1. f \in Bucket /\ f.lag = 0
  BY RefilledIs
<1>2. Spent(b, amount, c, r) = [f EXCEPT !.tokens = @ - amount]
  BY DEF Spent
<1> HIDE DEF f
<1>3. [f EXCEPT !.tokens = @ - amount] = [tokens |-> f.tokens - amount, lag |-> f.lag]
  BY <1>1 DEF Bucket
<1> QED
  BY <1>1, <1>2, <1>3 DEF Bucket, f

LEMMA WaitTyped ==
  ASSUME NEW b \in Bucket, NEW c \in Nat, NEW r \in Nat \ {0}, NEW amount \in Nat
  PROVE  TimeUntilAvailable(b, amount, c, r) \in Nat
<1> DEFINE f == Refilled(b, c, r).tokens
<1>1. f \in Int
  BY RefilledIs DEF Bucket
<1>2. TimeUntilAvailable(b, amount, c, r) = IF f >= amount THEN 0 ELSE (amount - f + r - 1) \div r
  BY DEF TimeUntilAvailable, Has
<1> HIDE DEF f
<1>3. CASE ~(f >= amount)
  <2>1. amount - f + r - 1 \in Nat
    BY <1>1, <1>3
  <2>2. (amount - f + r - 1) \div r \in Nat
    BY <2>1
  <2> QED
    BY <1>2, <1>3, <2>2
<1> QED
  BY <1>2, <1>3

\* What the buckets of a queue can hold.
Requests(q) == {b \in Bucket : b.tokens \in 0..Rpm[q] /\ b.lag \in 0..MaxLag}
Tokens(q)   == {b \in Bucket : b.tokens <= Tpm[q] /\ b.lag \in 0..MaxLag}

BucketsTyped ==
  /\ rpm = [q \in Queues |-> rpm[q]] /\ tpm = [q \in Queues |-> tpm[q]]
  /\ \A q \in Queues : rpm[q] \in Requests(q) /\ tpm[q] \in Tokens(q)

\* A queue that is asked refills its buckets, whatever it answers.
LEMMA AskedBuckets ==
  ASSUME BucketsTyped
  PROVE  \A q \in Queues : RpmRefilled(q) \in Requests(q) /\ TpmRefilled(q) \in Tokens(q)
<1> TAKE q \in Queues
<1>0. /\ rpm[q] \in Bucket /\ tpm[q] \in Bucket /\ rpm[q].tokens >= 0
      /\ Rpm[q] \in Nat /\ Tpm[q] \in Nat
      /\ RpmRate[q] \in Nat \ {0} /\ TpmRate[q] \in Nat \ {0} /\ 0 \in 0..MaxLag
  BY Constants DEF BucketsTyped, Requests, Tokens
<1>1. RpmRefilled(q) \in Requests(q)
  <2>1. /\ RpmRefilled(q) \in Bucket /\ RpmRefilled(q).lag = 0
        /\ RpmRefilled(q).tokens <= Rpm[q] /\ RpmRefilled(q).tokens >= 0
    BY <1>0, RefilledIs DEF RpmRefilled
  <2>2. RpmRefilled(q).tokens \in Int
    BY <2>1 DEF Bucket
  <2> QED
    BY <1>0, <2>1, <2>2 DEF Requests
<1>2. TpmRefilled(q) \in Tokens(q)
  BY ZenonT(30), <1>0, RefilledIs DEF TpmRefilled, Tokens, Bucket
<1> QED
  BY <1>1, <1>2

\* A queue that is asked: what its buckets become, and that it can say when.
LEMMA Asked ==
  ASSUME BucketsTyped, NEW q \in Queues, NEW t \in Tasks
  PROVE  /\ RpmRefilled(q) \in Requests(q)
         /\ TpmRefilled(q) \in Tokens(q)
         /\ HasRequest(q) => Spent(rpm[q], 1, Rpm[q], RpmRate[q]) \in Requests(q)
         /\ Spent(tpm[q], Estimated[t], Tpm[q], TpmRate[q]) \in Tokens(q)
         /\ WaitFor(q, t) \in Nat
         /\ \A u \in Tasks : NextWait(q, t, u) \in Nat
<1>0. /\ rpm[q] \in Bucket /\ tpm[q] \in Bucket /\ rpm[q].tokens >= 0
      /\ Rpm[q] \in Nat /\ Tpm[q] \in Nat /\ Estimated[t] \in Nat /\ 1 \in Nat
      /\ RpmRate[q] \in Nat \ {0} /\ TpmRate[q] \in Nat \ {0} /\ 0 \in 0..MaxLag
  BY Constants DEF BucketsTyped, Requests, Tokens
<1>1. RpmRefilled(q) \in Requests(q) /\ TpmRefilled(q) \in Tokens(q)
  BY AskedBuckets
<1>3. ASSUME HasRequest(q)
      PROVE  Spent(rpm[q], 1, Rpm[q], RpmRate[q]) \in Requests(q)
  <2>1. RpmRefilled(q).tokens >= 1 /\ RpmRefilled(q).tokens \in 0..Rpm[q]
    BY <1>1, <1>3 DEF HasRequest, Has, RpmRefilled, Requests
  <2>2. /\ Spent(rpm[q], 1, Rpm[q], RpmRate[q]) \in Bucket
        /\ Spent(rpm[q], 1, Rpm[q], RpmRate[q])
             = [tokens |-> RpmRefilled(q).tokens - 1, lag |-> 0]
    BY ZenonT(30), <1>0, SpentIs DEF RpmRefilled
  <2>3. RpmRefilled(q).tokens - 1 \in 0..Rpm[q]
    BY <1>0, <2>1
  <2> QED
    BY <1>0, <2>2, <2>3 DEF Requests
<1>4. /\ Spent(rpm[q], 1, Rpm[q], RpmRate[q]) \in Bucket
      /\ Spent(tpm[q], Estimated[t], Tpm[q], TpmRate[q]) \in Bucket
      /\ Spent(tpm[q], Estimated[t], Tpm[q], TpmRate[q])
           = [tokens |-> TpmRefilled(q).tokens - Estimated[t], lag |-> 0]
  BY ZenonT(30), <1>0, SpentIs DEF TpmRefilled
<1>5. Spent(tpm[q], Estimated[t], Tpm[q], TpmRate[q]) \in Tokens(q)
  <2>1. TpmRefilled(q).tokens \in Int /\ TpmRefilled(q).tokens <= Tpm[q]
    BY <1>1 DEF Tokens, Bucket
  <2> QED
    BY <1>0, <1>4, <2>1 DEF Tokens
<1>6. WaitFor(q, t) \in Nat
  <2>1. /\ TimeUntilAvailable(rpm[q], 1, Rpm[q], RpmRate[q]) \in Nat
        /\ TimeUntilAvailable(tpm[q], Estimated[t], Tpm[q], TpmRate[q]) \in Nat
    BY <1>0, WaitTyped
  <2> QED
    BY <2>1 DEF WaitFor
<1>7. ASSUME NEW u \in Tasks
      PROVE  NextWait(q, t, u) \in Nat
  <2>1. Estimated[u] \in Nat
    BY Constants
  <2>2. /\ TimeUntilAvailable(Spent(rpm[q], 1, Rpm[q], RpmRate[q]), 1, Rpm[q], RpmRate[q]) \in Nat
        /\ TimeUntilAvailable(Spent(tpm[q], Estimated[t], Tpm[q], TpmRate[q]), Estimated[u],
                              Tpm[q], TpmRate[q]) \in Nat
    BY <1>0, <1>4, <2>1, WaitTyped
  <2> QED
    BY <2>2 DEF NextWait
<1> QED
  BY <1>1, <1>3, <1>5, <1>6, <1>7

-----------------------------------------------------------------------------
(***************************************************************************)
(* The invariant of the heap.                                              *)
(***************************************************************************)

Typed ==
  /\ BucketsTyped
  /\ fifo \in [Queues -> Seq(Tasks)]
  /\ inFlight \in [Tasks -> Queues \cup {None}]
  /\ held \in [Workers -> Assignments \cup {None}]
  /\ sends \in [Tasks -> 0..MaxSends]

Filled == {q \in Queues : fifo[q] # <<>>}

Lists == Typed /\ heap \in Heaps /\ Listed(heap) = Filled

LEMMA ListsMeans ==
  ASSUME Lists
  PROVE  ListedExactly
<1>1. TypeOK
  <2>1. heap \in Seq(Entries)
    BY HeapTyped DEF Lists
  <2>2. \A q \in Queues : /\ rpm[q].tokens \in 0..Rpm[q] /\ rpm[q].lag \in 0..MaxLag
                          /\ tpm[q].tokens <= Tpm[q] /\ tpm[q].lag \in 0..MaxLag
    BY DEF Lists, Typed, BucketsTyped, Requests, Tokens
  <2> QED
    BY <2>1, <2>2 DEF Lists, Typed, TypeOK, Entries
<1>2. /\ ToSet([k \in 1..Len(heap) |-> heap[k].queue]) = Filled
      /\ Len(heap) = Cardinality(Filled)
  BY HeapCounts DEF Lists
<1> QED
  BY <1>1, <1>2 DEF ListedExactly, Filled

LEMMA InitLists == Init => Lists
<1> SUFFICES ASSUME Init PROVE Lists
  OBVIOUS
<1>1. BucketsTyped
  <2>1. \A q \in Queues : /\ [tokens |-> Rpm[q], lag |-> 0] \in Requests(q)
                          /\ [tokens |-> Tpm[q], lag |-> 0] \in Tokens(q)
    BY Constants DEF Requests, Tokens, Bucket
  <2> QED
    BY <2>1 DEF Init, BucketsTyped, Full
<1>2. heap \in Heaps /\ Listed(heap) = {}
  <2>1. <<>> \in Seq(Entries) /\ Len(<<>>) = 0 /\ 1..0 = {}
    OBVIOUS
  <2> QED
    BY <2>1 DEF Init, Heaps, Listed
<1>3. fifo \in [Queues -> Seq(Tasks)] /\ Filled = {}
  BY DEF Init, Filled
<1>4. sends \in [Tasks -> 0..MaxSends]
  <2>1. MaxSends \in Nat
    BY CoordinatorConstants
  <2> QED
    BY <2>1 DEF Init
<1> QED
  BY <1>1, <1>2, <1>3, <1>4 DEF Init, Lists, Typed

\* A queue with an entry has a task.
LEMMA EntryFilled ==
  ASSUME Lists, NEW k \in 1..Len(heap)
  PROVE  /\ Entry(k) \in Queues /\ Entry(k) \in Filled
         /\ fifo[Entry(k)] \in Seq(Tasks) /\ fifo[Entry(k)] # <<>>
         /\ Head(fifo[Entry(k)]) \in Tasks
<1>1. Entry(k) \in Filled
  BY DEF Lists, Listed, Entry
<1>2. /\ Entry(k) \in Queues /\ fifo[Entry(k)] \in Seq(Tasks)
      /\ fifo[Entry(k)] # <<>>
  BY <1>1 DEF Filled, Lists, Typed
<1> QED
  BY <1>1, <1>2, HeadTailProperties

LEMMA AppendFills ==
  ASSUME fifo \in [Queues -> Seq(Tasks)], NEW q \in Queues, NEW t \in Tasks,
         fifo' = [fifo EXCEPT ![q] = Append(@, t)]
  PROVE  fifo' \in [Queues -> Seq(Tasks)] /\ Filled' = Filled \cup {q}
<1>1. Append(fifo[q], t) \in Seq(Tasks) /\ Append(fifo[q], t) # <<>>
  BY AppendProperties
<1>2. \A r \in Queues : fifo'[r] = IF r = q THEN Append(fifo[q], t) ELSE fifo[r]
  OBVIOUS
<1> QED
  BY <1>1, <1>2 DEF Filled

\* What was refused goes back behind what was not tried.
LEMMA TrialLists ==
  ASSUME Lists, NEW m \in 0..Len(heap), NEW n \in 1..Len(heap) + 1
  PROVE  /\ PutBack(SubSeq(heap, n, Len(heap)), SubSeq(heap, 1, m)) \in Heaps
         /\ Listed(PutBack(SubSeq(heap, n, Len(heap)), SubSeq(heap, 1, m)))
              = {Entry(j) : j \in 1..m} \cup {Entry(j) : j \in n..Len(heap)}
<1> DEFINE h == SubSeq(heap, n, Len(heap))
           r == SubSeq(heap, 1, m)
<1>0. heap \in Heaps /\ Len(heap) \in Nat /\ \A k \in 1..Len(heap) : heap[k] \in Entries
  BY HeapTyped DEF Lists
<1>1. h \in Heaps /\ Listed(h) = {heap[k].queue : k \in n..Len(heap)}
  <2>1. Len(heap) \in 0..Len(heap)
    BY <1>0
  <2> QED
    BY <1>0, <2>1, SubHeap
<1>2. r \in Heaps /\ Listed(r) = {heap[k].queue : k \in 1..m}
  BY <1>0, SubHeap
<1>3. Len(r) = m /\ \A k \in 1..m : r[k] = heap[k] /\ k \in 1..Len(heap)
  BY <1>0, SubSeqProperties
<1> HIDE DEF h, r
<1>4. \A k \in 1..Len(r) : WaitFor(r[k].queue, Head(fifo[r[k].queue])) \in Nat
  <2> SUFFICES ASSUME NEW k \in 1..Len(r)
               PROVE  WaitFor(r[k].queue, Head(fifo[r[k].queue])) \in Nat
    OBVIOUS
  <2>1. k \in 1..Len(heap) /\ r[k].queue = Entry(k)
    BY <1>3 DEF Entry
  <2>2. Entry(k) \in Queues /\ Head(fifo[Entry(k)]) \in Tasks
    BY <2>1, EntryFilled
  <2>3. WaitFor(Entry(k), Head(fifo[Entry(k)])) \in Nat
    BY <2>2, Asked DEF Lists, Typed
  <2> QED
    BY <2>1, <2>3
<1>5. PutBack(h, r) \in Heaps /\ Listed(PutBack(h, r)) = Listed(h) \cup Listed(r)
  <2>1. r \in Seq(Entries)
    BY <1>2, HeapTyped
  <2> QED
    BY <1>1, <1>4, <2>1, PutBackLists
<1> QED
  BY <1>1, <1>2, <1>5 DEF h, r, Entry

LEMMA EnqueueLists ==
  ASSUME Lists, NEW t \in Tasks, NEW q \in Queues, Enqueue(t, q)
  PROVE  Lists'
<1>1. fifo' \in [Queues -> Seq(Tasks)] /\ Filled' = Filled \cup {q}
  BY AppendFills DEF Enqueue, Lists, Typed
<1>2. sends' \in [Tasks -> 0..MaxSends]
  <2>1. sends[t] \in 0..MaxSends /\ sends[t] < MaxSends /\ MaxSends \in Nat
    BY CoordinatorConstants DEF Enqueue, Lists, Typed
  <2>2. sends[t] + 1 \in 0..MaxSends
    BY <2>1
  <2> QED
    BY <2>2 DEF Enqueue, Lists, Typed
<1>3. BucketsTyped
  BY DEF Lists, Typed
<1>4. CASE fifo[q] = <<>>
  <2>1. heap' \in Heaps /\ Listed(heap') = Listed(heap) \cup {q}
    BY <1>3, <1>4, Asked, PushLists DEF Enqueue, Lists
  <2>2. RpmRefilled(q) \in Requests(q) /\ TpmRefilled(q) \in Tokens(q)
    BY <1>3, Asked
  <2>3. BucketsTyped'
    BY <1>3, <1>4, <2>2 DEF Enqueue, BucketsTyped, Requests, Tokens
  <2> QED
    BY <1>1, <1>2, <2>1, <2>3 DEF Enqueue, Lists, Typed
<1>5. CASE fifo[q] # <<>>
  <2>1. Filled' = Filled
    BY <1>1, <1>5 DEF Filled
  <2>2. BucketsTyped'
    BY <1>3, <1>5 DEF Enqueue, BucketsTyped, Requests, Tokens
  <2> QED
    BY <1>1, <1>2, <1>5, <2>1, <2>2 DEF Enqueue, Lists, Typed
<1> QED
  BY <1>4, <1>5

LEMMA RequeueLists ==
  ASSUME Lists, NEW t \in Tasks, Requeue(t)
  PROVE  Lists'
<1> DEFINE q == inFlight[t]
<1>0. q \in Queues
  BY DEF Requeue, Lists, Typed
<1>1. fifo' \in [Queues -> Seq(Tasks)] /\ Filled' = Filled \cup {q}
  BY <1>0, AppendFills DEF Requeue, Lists, Typed
<1>2. inFlight' \in [Tasks -> Queues \cup {None}]
  BY DEF Requeue, Lists, Typed
<1>3. BucketsTyped
  BY DEF Lists, Typed
<1>4. heap' \in Heaps /\ Listed(heap') = Listed(heap) \cup {q}
  BY <1>0, <1>3, Asked, PushLists DEF Requeue, Lists
<1>5. RpmRefilled(q) \in Requests(q) /\ TpmRefilled(q) \in Tokens(q)
  BY <1>0, <1>3, Asked
<1>6. BucketsTyped'
  BY <1>0, <1>3, <1>5 DEF Requeue, BucketsTyped, Requests, Tokens
<1> QED
  BY <1>1, <1>2, <1>4, <1>6 DEF Requeue, Lists, Typed

\* The queues that are due come first, and a worker that is refused has tried them.
LEMMA Tries ==
  ASSUME Lists
  PROVE  /\ Cardinality(Due) \in 0..Len(heap)
         /\ \A k \in Due : k \in 1..Len(heap)
<1>1. Due \in SUBSET (1..Len(heap)) /\ Len(heap) \in Nat
  BY HeapTyped DEF Due, Lists
<1>2. IsFiniteSet(1..Len(heap)) /\ Cardinality(1..Len(heap)) = Len(heap)
  BY <1>1, FS_Interval
<1>3. IsFiniteSet(Due) /\ Cardinality(Due) <= Len(heap)
  BY <1>1, <1>2, FS_Subset
<1>4. Cardinality(Due) \in Nat
  BY <1>3, FS_CardinalityType
<1> QED
  BY <1>1, <1>3, <1>4

LEMMA RefuseLists ==
  ASSUME Lists, NEW w \in Workers, Refuse(w)
  PROVE  Lists'
<1> DEFINE n == Cardinality(Due)
<1>1. n \in 0..Len(heap) /\ n + 1 \in 1..Len(heap) + 1 /\ Len(heap) \in Nat
  BY Tries, HeapTyped DEF Lists
<1>2. heap' = PutBack(SubSeq(heap, n + 1, Len(heap)), SubSeq(heap, 1, n))
  BY DEF Refuse
<1>3. /\ rpm' = [q \in Queues |-> IF q \in Tried(n) THEN RpmRefilled(q) ELSE rpm[q]]
      /\ tpm' = [q \in Queues |-> IF q \in Tried(n) THEN TpmRefilled(q) ELSE tpm[q]]
  BY DEF Refuse
<1> HIDE DEF n
<1>4. heap' \in Heaps /\ Listed(heap') = Filled
  <2>1. /\ heap' \in Heaps
        /\ Listed(heap') = {Entry(j) : j \in 1..n} \cup {Entry(j) : j \in n + 1..Len(heap)}
    BY <1>1, <1>2, TrialLists
  <2>2. 1..Len(heap) = (1..n) \cup (n + 1..Len(heap))
    BY <1>1
  <2>3. Listed(heap) = {Entry(j) : j \in 1..n} \cup {Entry(j) : j \in n + 1..Len(heap)}
    BY <2>2 DEF Listed, Entry
  <2> QED
    BY <2>1, <2>3 DEF Lists
<1>5. BucketsTyped'
  <2>1. \A q \in Queues : RpmRefilled(q) \in Requests(q) /\ TpmRefilled(q) \in Tokens(q)
    BY AskedBuckets DEF Lists, Typed
  <2> QED
    BY <1>3, <2>1 DEF Lists, Typed, BucketsTyped, Requests, Tokens
<1>6. Filled' = Filled
  BY DEF Refuse, Filled
<1> QED
  BY <1>4, <1>5, <1>6 DEF Refuse, Lists, Typed

\* The task at the head of a queue is taken from it.
LEMMA TailLeaves ==
  ASSUME fifo \in [Queues -> Seq(Tasks)], NEW q \in Queues, fifo[q] # <<>>,
         fifo' = [fifo EXCEPT ![q] = Tail(@)]
  PROVE  /\ fifo' \in [Queues -> Seq(Tasks)]
         /\ Filled' = IF Tail(fifo[q]) = <<>> THEN Filled \ {q} ELSE Filled
<1>1. Tail(fifo[q]) \in Seq(Tasks)
  BY HeadTailProperties
<1>2. \A r \in Queues : fifo'[r] = IF r = q THEN Tail(fifo[q]) ELSE fifo[r]
  OBVIOUS
<1> QED
  BY <1>1, <1>2 DEF Filled

LEMMA AssignLists ==
  ASSUME Lists, NEW w \in Workers, NEW k \in 1..Len(heap), Assign(w, k)
  PROVE  Lists'
<1> DEFINE q    == Entry(k)
           t    == Head(fifo[q])
           rest == Tail(fifo[q])
           left == PutBack(SubSeq(heap, k + 1, Len(heap)), SubSeq(heap, 1, k - 1))
<1>0. /\ q \in Queues /\ q \in Filled /\ fifo[q] \in Seq(Tasks) /\ fifo[q] # <<>> /\ t \in Tasks
      /\ fifo \in [Queues -> Seq(Tasks)]
  BY EntryFilled DEF Lists, Typed
<1>1. /\ StartsAt(k)
      /\ fifo' = [fifo EXCEPT ![q] = rest]
      /\ inFlight' = [inFlight EXCEPT ![t] = q]
      /\ held' = [held EXCEPT ![w] = [task |-> t, queue |-> q]]
      /\ sends' = sends
  BY DEF Assign
<1>2. /\ rpm' = [r \in Queues |-> IF r = q THEN Spent(rpm[q], 1, Rpm[q], RpmRate[q])
                                  ELSE IF r \in Tried(k) THEN RpmRefilled(r) ELSE rpm[r]]
      /\ tpm' = [r \in Queues |-> IF r = q THEN Spent(tpm[q], Estimated[t], Tpm[q], TpmRate[q])
                                  ELSE IF r \in Tried(k) THEN TpmRefilled(r) ELSE tpm[r]]
  BY DEF Assign
<1>3. heap' = IF rest = <<>> THEN left ELSE Push(left, q, NextWait(q, t, Head(rest)))
  BY DEF Assign
<1>4. fifo' \in [Queues -> Seq(Tasks)] /\ Filled' = IF rest = <<>> THEN Filled \ {q} ELSE Filled
  BY <1>0, <1>1, TailLeaves
<1>5. left \in Heaps /\ Listed(left) = Filled \ {q}
  <2>1. Len(heap) \in Nat /\ k - 1 \in 0..Len(heap) /\ k + 1 \in 1..Len(heap) + 1
    BY HeapTyped DEF Lists
  <2>2. /\ left \in Heaps
        /\ Listed(left) = {Entry(j) : j \in 1..k - 1} \cup {Entry(j) : j \in k + 1..Len(heap)}
    BY <2>1, TrialLists
  <2>3. 1..Len(heap) = (1..k - 1) \cup {k} \cup (k + 1..Len(heap))
    BY <2>1
  <2>4. Listed(heap) = {Entry(j) : j \in 1..k - 1} \cup {q} \cup {Entry(j) : j \in k + 1..Len(heap)}
    BY <2>3 DEF Listed, Entry
  <2>5. \A j \in 1..Len(heap) : j # k => Entry(j) # q
    BY HeapTyped DEF Lists, Entry
  <2>6. q \notin {Entry(j) : j \in 1..k - 1} \cup {Entry(j) : j \in k + 1..Len(heap)}
    <3>1. \A j \in (1..k - 1) \cup (k + 1..Len(heap)) : j \in 1..Len(heap) /\ j # k
      BY <2>1
    <3> QED
      BY <2>5, <3>1
  <2>7. Listed(heap) = Filled
    BY DEF Lists
  <2> HIDE DEF left, q
  <2> QED
    BY <2>2, <2>4, <2>6, <2>7
<1>6. heap' \in Heaps /\ Listed(heap') = Filled'
  <2>1. CASE rest = <<>>
    BY <1>3, <1>4, <1>5, <2>1
  <2>2. CASE rest # <<>>
    <3>1. rest \in Seq(Tasks) /\ Head(rest) \in Tasks
      BY <1>0, <2>2, HeadTailProperties
    <3>2. NextWait(q, t, Head(rest)) \in Nat
      BY <1>0, <3>1, Asked DEF Lists, Typed
    <3> HIDE DEF left, q, t, rest
    <3>3. /\ Push(left, q, NextWait(q, t, Head(rest))) \in Heaps
          /\ Listed(Push(left, q, NextWait(q, t, Head(rest)))) = Listed(left) \cup {q}
      BY <1>0, <1>5, <3>2, PushLists
    <3> QED
      BY <1>0, <1>3, <1>4, <1>5, <2>2, <3>3
  <2> QED
    BY <2>1, <2>2
<1>7. BucketsTyped'
  <2>1. \A r \in Queues : RpmRefilled(r) \in Requests(r) /\ TpmRefilled(r) \in Tokens(r)
    BY AskedBuckets DEF Lists, Typed
  <2>2. HasRequest(q)
    BY <1>1 DEF StartsAt, MayStart
  <2>3. /\ Spent(rpm[q], 1, Rpm[q], RpmRate[q]) \in Requests(q)
        /\ Spent(tpm[q], Estimated[t], Tpm[q], TpmRate[q]) \in Tokens(q)
    BY <1>0, <2>2, Asked DEF Lists, Typed
  <2>4. \A r \in Queues : rpm[r] \in Requests(r) /\ tpm[r] \in Tokens(r)
    BY DEF Lists, Typed, BucketsTyped
  <2> HIDE DEF q, t
  <2>5. \A r \in Queues : rpm'[r] \in Requests(r) /\ tpm'[r] \in Tokens(r)
    BY <1>2, <2>1, <2>3, <2>4
  <2> QED
    BY <1>2, <2>5 DEF BucketsTyped, Requests, Tokens
<1>8. inFlight' \in [Tasks -> Queues \cup {None}] /\ held' \in [Workers -> Assignments \cup {None}]
  <2>1. [task |-> t, queue |-> q] \in Assignments
    BY <1>0 DEF Assignments
  <2> QED
    BY <1>0, <1>1, <2>1 DEF Lists, Typed
<1> QED
  BY <1>1, <1>4, <1>6, <1>7, <1>8 DEF Lists, Typed

LEMMA CompleteLists ==
  ASSUME Lists, NEW w \in Workers, NEW used, Complete(w, used)
  PROVE  Lists'
<1> DEFINE t == held[w].task
           q == held[w].queue
<1>1. t \in Tasks /\ q \in Queues /\ used \in Nat /\ Estimated[t] \in Nat
  <2>1. held[w] \in Assignments
    BY DEF Complete, Lists, Typed
  <2>2. t \in Tasks /\ q \in Queues
    BY <2>1 DEF Assignments
  <2> QED
    BY <2>2, Constants DEF Complete
<1>2. Reconciled(tpm[q], Estimated[t], used, Tpm[q]) \in Tokens(q)
  <2>1. /\ tpm[q] \in Bucket /\ tpm[q].tokens \in Int /\ tpm[q].lag \in 0..MaxLag
        /\ tpm[q].lag \in Nat /\ Tpm[q] \in Nat
    BY <1>1, Constants DEF Lists, Typed, BucketsTyped, Tokens, Bucket
  <2>2. Reconciled(tpm[q], Estimated[t], used, Tpm[q])
          = [tokens |-> Lesser(Tpm[q], tpm[q].tokens + Estimated[t] - used), lag |-> tpm[q].lag]
    BY <2>1 DEF Reconciled, Bucket
  <2>3. /\ Lesser(Tpm[q], tpm[q].tokens + Estimated[t] - used) \in Int
        /\ Lesser(Tpm[q], tpm[q].tokens + Estimated[t] - used) <= Tpm[q]
    BY <1>1, <2>1 DEF Lesser
  <2> QED
    BY <2>1, <2>2, <2>3 DEF Tokens, Bucket
<1>3. BucketsTyped'
  BY <1>1, <1>2 DEF Complete, Lists, Typed, BucketsTyped, Requests, Tokens
<1>4. inFlight' \in [Tasks -> Queues \cup {None}] /\ held' \in [Workers -> Assignments \cup {None}]
  BY DEF Complete, Lists, Typed
<1>5. Filled' = Filled
  BY DEF Complete, Filled
<1> QED
  BY <1>3, <1>4, <1>5 DEF Complete, Lists, Typed

LEMMA StopPoolLists ==
  ASSUME Lists, StopPool
  PROVE  Lists'
BY DEF StopPool, Lists, Typed, BucketsTyped, Requests, Tokens, Filled

LEMMA TickLists ==
  ASSUME Lists, Tick
  PROVE  Lists'
<1>1. BucketsTyped'
  <2>1. \A q \in Queues : Later(rpm[q]) \in Requests(q) /\ Later(tpm[q]) \in Tokens(q)
    <3> SUFFICES ASSUME NEW q \in Queues
                 PROVE  Later(rpm[q]) \in Requests(q) /\ Later(tpm[q]) \in Tokens(q)
      OBVIOUS
    <3>1. \A b \in Bucket : b.lag \in 0..MaxLag =>
            Later(b) \in Bucket /\ Later(b).tokens = b.tokens /\ Later(b).lag \in 0..MaxLag
      BY Constants DEF Later, Lesser, Bucket
    <3>2. rpm[q] \in Requests(q) /\ tpm[q] \in Tokens(q)
      BY DEF Lists, Typed, BucketsTyped
    <3> QED
      BY <3>1, <3>2 DEF Requests, Tokens
  <2> QED
    BY <2>1 DEF Tick, BucketsTyped, Requests, Tokens
<1> DEFINE h == [k \in 1..Len(heap) |-> [heap[k] EXCEPT !.wait = IF @ = 0 THEN 0 ELSE @ - 1]]
<1>2. heap \in Heaps /\ Len(heap) \in Nat
  BY HeapTyped DEF Lists
<1>3. ASSUME NEW k \in 1..Len(heap)
      PROVE  h[k] \in Entries /\ h[k].queue = heap[k].queue
  <2>1. heap[k] \in Entries
    BY <1>2, HeapTyped
  <2> QED
    BY <2>1 DEF Entries
<1>4. h \in Seq(Entries) /\ Len(h) = Len(heap)
  <2>1. h \in [1..Len(heap) -> Entries]
    BY <1>3
  <2> HIDE DEF h
  <2> QED
    BY <1>2, <2>1
<1> HIDE DEF h
<1>5. h \in Heaps /\ Listed(h) = Listed(heap)
  <2>1. /\ \A k \in 1..Len(h) : h[k].queue = heap[k].queue
        /\ \A j, k \in 1..Len(heap) : heap[j].queue = heap[k].queue => j = k
    BY <1>2, <1>3, <1>4, HeapTyped
  <2>2. h \in Heaps
    BY <1>4, <2>1 DEF Heaps
  <2>3. Listed(h) = Listed(heap)
    BY <1>4, <2>1 DEF Listed
  <2> QED
    BY <2>2, <2>3
<1>6. heap' = h /\ Filled' = Filled
  BY DEF Tick, h, Filled
<1> QED
  BY <1>1, <1>5, <1>6 DEF Tick, Lists, Typed

LEMMA NextLists == Lists /\ [Next]_vars => Lists'
<1> SUFFICES ASSUME Lists, [Next]_vars PROVE Lists'
  OBVIOUS
<1>1. CASE UNCHANGED vars
  BY <1>1 DEF vars, Lists, Typed, BucketsTyped, Requests, Tokens, Filled
<1> QED
  BY <1>1, EnqueueLists, RequeueLists, AssignLists, RefuseLists, CompleteLists, StopPoolLists,
     TickLists DEF Next

\* The variables of the coordinator have their types, and the heap lists each queue once,
\* namely those that have a task, in every state.
THEOREM HeapInvariant == Spec => []Lists
BY InitLists, NextLists, PTL DEF Spec

\* However tasks are enqueued, refused, handed out and requeued, and whether or not
\* a worker at work is taken to be dead, the dispatch heap lists a queue, once,
\* exactly while it has a task.
THEOREM QueuesListedExactly == Spec => []ListedExactly
BY HeapInvariant, ListsMeans, PTL

-----------------------------------------------------------------------------
(***************************************************************************)
(* What a refusal costs.                                                   *)
(***************************************************************************)

\* A bucket may do no less after it was looked at, and as time passes.
LEMMA NoLess ==
  ASSUME NEW b \in Bucket, NEW d \in Bucket, NEW c \in Nat, NEW r \in Nat \ {0},
         \/ d.tokens = b.tokens /\ d.lag >= b.lag
         \/ d = Refilled(b, c, r)
  PROVE  Refilled(d, c, r).tokens >= Refilled(b, c, r).tokens
<1>1. /\ Refilled(b, c, r).tokens = Lesser(c, b.tokens + b.lag * r) /\ b.lag * r \in Nat
      /\ Refilled(d, c, r).tokens = Lesser(c, d.tokens + d.lag * r) /\ d.lag * r \in Nat
      /\ Refilled(b, c, r).tokens <= c /\ Refilled(b, c, r).lag = 0
      /\ Refilled(b, c, r).tokens \in Int /\ b.tokens \in Int
  BY RefilledIs DEF Bucket
<1>2. CASE d.tokens = b.tokens /\ d.lag >= b.lag
  <2>1. b.lag * r <= d.lag * r
    <3>1. b.lag \in Nat /\ d.lag \in Nat
      BY DEF Bucket
    <3> QED
      BY <1>2, <3>1
  <2> QED
    BY <1>1, <1>2, <2>1 DEF Lesser
<1>3. CASE d = Refilled(b, c, r)
  <2>1. d.lag = 0 /\ d.tokens <= c /\ d.tokens = Refilled(b, c, r).tokens
    BY <1>1, <1>3
  <2>2. Refilled(d, c, r).tokens = d.tokens
    BY <2>1, RefilledOnce
  <2> QED
    BY <1>1, <2>1, <2>2
<1> QED
  BY <1>2, <1>3

\* The step's buckets do no less: RefusalFree says it of steps that move no task.
NoBucketLess ==
  \A q \in Queues : /\ RpmRefilled(q)'.tokens >= RpmRefilled(q).tokens
                    /\ TpmRefilled(q)'.tokens >= TpmRefilled(q).tokens

LEMMA BucketsNoLess ==
  ASSUME Lists, Lists',
         \A q \in Queues :
           /\ \/ rpm'[q].tokens = rpm[q].tokens /\ rpm'[q].lag >= rpm[q].lag
              \/ rpm'[q] = RpmRefilled(q)
           /\ \/ tpm'[q].tokens = tpm[q].tokens /\ tpm'[q].lag >= tpm[q].lag
              \/ tpm'[q] = TpmRefilled(q)
  PROVE  NoBucketLess
<1> SUFFICES ASSUME NEW q \in Queues
             PROVE  /\ RpmRefilled(q)'.tokens >= RpmRefilled(q).tokens
                    /\ TpmRefilled(q)'.tokens >= TpmRefilled(q).tokens
  BY DEF NoBucketLess
<1>1. /\ rpm[q] \in Bucket /\ rpm'[q] \in Bucket /\ tpm[q] \in Bucket /\ tpm'[q] \in Bucket
      /\ Rpm[q] \in Nat /\ Tpm[q] \in Nat
      /\ RpmRate[q] \in Nat \ {0} /\ TpmRate[q] \in Nat \ {0}
  BY Constants DEF Lists, Typed, BucketsTyped, Requests, Tokens
<1>2. Refilled(rpm'[q], Rpm[q], RpmRate[q]).tokens >= Refilled(rpm[q], Rpm[q], RpmRate[q]).tokens
  BY <1>1, NoLess DEF RpmRefilled
<1>3. Refilled(tpm'[q], Tpm[q], TpmRate[q]).tokens >= Refilled(tpm[q], Tpm[q], TpmRate[q]).tokens
  BY <1>1, NoLess DEF TpmRefilled
<1> QED
  BY <1>2, <1>3 DEF RpmRefilled, TpmRefilled

\* A task that is enqueued, requeued or handed out is a change of its queue.
LEMMA TasksMove ==
  ASSUME Lists, UNCHANGED fifo, NEW q \in Queues, NEW t \in Tasks
  PROVE  /\ fifo' # [fifo EXCEPT ![q] = Append(@, t)]
         /\ fifo[q] # <<>> => fifo' # [fifo EXCEPT ![q] = Tail(@)]
<1>1. fifo \in [Queues -> Seq(Tasks)] /\ fifo[q] \in Seq(Tasks) /\ Len(fifo[q]) \in Nat
  BY DEF Lists, Typed
<1>2. Append(fifo[q], t) # fifo[q]
  <2>1. Len(Append(fifo[q], t)) = Len(fifo[q]) + 1
    BY <1>1
  <2> QED
    BY <1>1, <2>1
<1>3. ASSUME fifo[q] # <<>>
      PROVE  Tail(fifo[q]) # fifo[q]
  <2>1. Len(Tail(fifo[q])) = Len(fifo[q]) - 1
    BY <1>1, <1>3, HeadTailProperties
  <2>2. \A n \in Nat : n - 1 # n
    OBVIOUS
  <2> QED
    BY <1>1, <2>1, <2>2, Zenon
<1> QED
  BY <1>1, <1>2, <1>3

LEMMA NothingMoves ==
  ASSUME Lists, Lists', [Next]_vars, UNCHANGED <<fifo, inFlight>>
  PROVE  NoBucketLess
<1>0. \A q \in Queues : /\ rpm[q] \in Bucket /\ rpm[q].lag \in 0..MaxLag
                        /\ tpm[q] \in Bucket /\ tpm[q].lag \in 0..MaxLag
  BY DEF Lists, Typed, BucketsTyped, Requests, Tokens
<1>1. ASSUME UNCHANGED <<rpm, tpm>>
      PROVE  NoBucketLess
  <2>1. \A q \in Queues : rpm[q].lag >= rpm[q].lag /\ tpm[q].lag >= tpm[q].lag
    BY <1>0
  <2> QED
    BY <1>1, <2>1, BucketsNoLess
<1>2. CASE UNCHANGED vars
  BY <1>1, <1>2 DEF vars
<1>3. ASSUME NEW t \in Tasks, Requeue(t)
      PROVE  FALSE
  <2>1. inFlight[t] \in Queues
    BY <1>3 DEF Requeue, Lists, Typed
  <2> QED
    BY <1>3, <2>1, TasksMove DEF Requeue
<1>4. ASSUME NEW t \in Tasks, NEW q \in Queues, Enqueue(t, q)
      PROVE  FALSE
  BY <1>4, TasksMove DEF Enqueue
<1>5. ASSUME NEW w \in Workers, NEW k \in 1..Len(heap), Assign(w, k)
      PROVE  FALSE
  <2>1. /\ Entry(k) \in Queues /\ fifo[Entry(k)] # <<>> /\ Head(fifo[Entry(k)]) \in Tasks
        /\ fifo' = [fifo EXCEPT ![Entry(k)] = Tail(@)]
    BY <1>5, EntryFilled DEF Assign
  <2> QED
    BY <2>1, TasksMove
<1>6. ASSUME NEW w \in Workers, Refuse(w)
      PROVE  NoBucketLess
  <2>1. \A q \in Queues : /\ rpm'[q] = RpmRefilled(q) \/ rpm'[q] = rpm[q]
                          /\ tpm'[q] = TpmRefilled(q) \/ tpm'[q] = tpm[q]
    BY <1>6 DEF Refuse
  <2>2. \A q \in Queues : rpm[q].lag >= rpm[q].lag /\ tpm[q].lag >= tpm[q].lag
    BY <1>0
  <2> QED
    BY <2>1, <2>2, BucketsNoLess
<1>7. ASSUME NEW w \in Workers, NEW used, Complete(w, used)
      PROVE  NoBucketLess
  <2>1. held[w].task \in Tasks
    BY <1>7 DEF Complete, Lists, Typed, Assignments
  <2>2. inFlight[held[w].task] = None
    BY <1>7, <2>1 DEF Complete, Lists, Typed
  <2>3. UNCHANGED <<rpm, tpm>>
    BY <1>7, <2>2 DEF Complete
  <2> QED
    BY <1>1, <2>3
<1>8. CASE StopPool
  BY <1>1, <1>8 DEF StopPool
<1>9. CASE Tick
  <2>1. \A b \in Bucket : b.lag \in 0..MaxLag =>
          Later(b).tokens = b.tokens /\ Later(b).lag >= b.lag
    BY Constants DEF Later, Lesser, Bucket
  <2>2. \A q \in Queues : rpm'[q] = Later(rpm[q]) /\ tpm'[q] = Later(tpm[q])
    BY <1>9 DEF Tick
  <2> QED
    BY <1>0, <2>1, <2>2, BucketsNoLess
<1> QED
  BY <1>2, <1>3, <1>4, <1>5, <1>6, <1>7, <1>8, <1>9 DEF Next

\* A worker that is refused, a call that returns too late to be tracked and the time
\* that passes leave every queue able to start at least what it could start before.
THEOREM RefusalsCostNothing == Spec => RefusalFree
<1>1. Lists /\ Lists' /\ [Next]_vars => [UNCHANGED <<fifo, inFlight>> => NoBucketLess]_vars
  BY NothingMoves
<1> QED
  BY <1>1, HeapInvariant, PTL DEF Spec, RefusalFree, NoBucketLess

-----------------------------------------------------------------------------
(***************************************************************************)
(* The pool.  Whose worker is taken to be dead while it is at work may be  *)
(* requeued and handed to another: with false alarms the coordinator is no *)
(* WorkPool, and the lemmas assume there are none where they need it.      *)
(***************************************************************************)

Queued  == {t \in Tasks : \E q \in Queues : Contains(fifo[q], t)}
Hand    == [w \in Workers |-> IF held[w] = None THEN None ELSE held[w].task]
Orphans == {t \in Tasks : inFlight[t] # None /\ ~Held(t)}

\* A task waits at one place of one queue.
QueuedOnce ==
  \A q, r \in Queues : \A j \in 1..Len(fifo[q]), k \in 1..Len(fifo[r]) :
    fifo[q][j] = fifo[r][k] => q = r /\ j = k

\* A task that waits is not tracked, one at work is, and by one worker.
QueuedIdle   == \A t \in Queued : inFlight[t] = None
HeldTracked  == \A w \in Workers : Hand[w] # None => inFlight[Hand[w]] # None
HeldApart    == \A v, w \in Workers : Hand[v] # None /\ Hand[v] = Hand[w] => v = w

Work == Lists /\ QueuedOnce /\ QueuedIdle /\ HeldTracked /\ HeldApart

\* Hand in terms of the assignments.
LEMMA HandIs ==
  ASSUME Lists
  PROVE  /\ Hand \in [Workers -> Tasks \cup {None}]
         /\ \A w \in Workers : /\ Hand[w] = None <=> held[w] = None
                               /\ held[w] # None => Hand[w] = held[w].task /\ Hand[w] \in Tasks
         /\ \A t \in Tasks : Held(t) <=> \E w \in Workers : Hand[w] = t
<1>1. \A w \in Workers : held[w] # None => held[w].task \in Tasks
  BY DEF Lists, Typed, Assignments
<1>2. \A t \in Tasks : t # None
  BY Constants
<1> QED
  BY <1>1, <1>2 DEF Hand, Held

LEMMA HandPrimed ==
  ASSUME Lists'
  PROVE  \A t \in Tasks : Held(t)' <=> \E w \in Workers : Hand'[w] = t
<1>1. \A w \in Workers : held'[w] # None => held'[w].task \in Tasks
  BY DEF Lists, Typed, Assignments
<1>2. \A t \in Tasks : t # None
  BY Constants
<1> QED
  BY <1>1, <1>2 DEF Hand, Held

LEMMA QueuedIs ==
  ASSUME Lists
  PROVE  /\ \A q \in Queues : /\ fifo[q] \in Seq(Tasks) /\ Len(fifo[q]) \in Nat
                              /\ \A k \in 1..Len(fifo[q]) : fifo[q][k] \in Tasks
         /\ \A t \in Tasks : t \in Queued <=> \E q \in Queues : \E k \in 1..Len(fifo[q]) : fifo[q][k] = t
BY DEF Lists, Typed, Queued, Contains

\* A task that waits nowhere is appended to a queue.
LEMMA AppendQueues ==
  ASSUME Lists, Lists', QueuedOnce, NEW q \in Queues, NEW t \in Tasks, t \notin Queued,
         fifo' = [fifo EXCEPT ![q] = Append(@, t)]
  PROVE  QueuedOnce' /\ Queued' = Queued \cup {t}
<1>1. /\ \A r \in Queues : r # q => fifo'[r] = fifo[r]
      /\ fifo'[q] = Append(fifo[q], t)
  BY DEF Lists, Typed
<1>2. /\ Len(fifo'[q]) = Len(fifo[q]) + 1 /\ Len(fifo[q]) \in Nat
      /\ \A k \in 1..Len(fifo[q]) : fifo'[q][k] = fifo[q][k]
      /\ fifo'[q][Len(fifo[q]) + 1] = t
  BY <1>1, QueuedIs, AppendProperties
<1>3. \A r \in Queues : \A k \in 1..Len(fifo[r]) : k \in 1..Len(fifo'[r]) /\ fifo'[r][k] = fifo[r][k]
  BY <1>1, <1>2
<1>4. \A r \in Queues : \A k \in 1..Len(fifo'[r]) :
        \/ k \in 1..Len(fifo[r])
        \/ r = q /\ k = Len(fifo[q]) + 1
  BY <1>1, <1>2
<1>5. \A r \in Queues : \A k \in 1..Len(fifo[r]) : fifo[r][k] # t
  BY QueuedIs
<1>6. QueuedOnce'
  <2> SUFFICES ASSUME NEW r \in Queues, NEW s \in Queues, NEW j \in 1..Len(fifo'[r]),
                      NEW k \in 1..Len(fifo'[s]), fifo'[r][j] = fifo'[s][k]
               PROVE  r = s /\ j = k
    BY DEF QueuedOnce
  <2>1. CASE j \in 1..Len(fifo[r]) /\ k \in 1..Len(fifo[s])
    BY <1>3, <2>1 DEF QueuedOnce
  <2>2. CASE j \in 1..Len(fifo[r]) /\ s = q /\ k = Len(fifo[q]) + 1
    BY <1>2, <1>3, <1>5, <2>2
  <2>3. CASE k \in 1..Len(fifo[s]) /\ r = q /\ j = Len(fifo[q]) + 1
    BY <1>2, <1>3, <1>5, <2>3
  <2> QED
    BY <1>4, <2>1, <2>2, <2>3
<1>7. ASSUME NEW u \in Tasks
      PROVE  u \in Queued' <=> u \in Queued \/ u = t
  <2>1. u \in Queued' <=> \E r \in Queues : \E k \in 1..Len(fifo'[r]) : fifo'[r][k] = u
    BY DEF Queued, Contains
  <2>2. Len(fifo[q]) + 1 \in 1..Len(fifo'[q])
    BY <1>2
  <2>3. u \in Queued \/ u = t => u \in Queued'
    BY <1>2, <1>3, <2>1, <2>2, QueuedIs
  <2>4. u \in Queued' => u \in Queued \/ u = t
    BY <1>2, <1>3, <1>4, <2>1, QueuedIs
  <2> QED
    BY <2>3, <2>4
<1> QED
  BY <1>6, <1>7 DEF Queued

\* The task at the head of a queue waits no longer.
LEMMA TailUnqueues ==
  ASSUME Lists, Lists', QueuedOnce, NEW q \in Queues, fifo[q] # <<>>,
         fifo' = [fifo EXCEPT ![q] = Tail(@)]
  PROVE  QueuedOnce' /\ Queued' = Queued \ {Head(fifo[q])} /\ Head(fifo[q]) \in Queued
<1>1. /\ \A r \in Queues : r # q => fifo'[r] = fifo[r]
      /\ fifo'[q] = Tail(fifo[q])
  BY DEF Lists, Typed
<1>2. /\ Len(fifo'[q]) = Len(fifo[q]) - 1 /\ Len(fifo[q]) \in Nat \ {0}
      /\ \A k \in 1..Len(fifo'[q]) : fifo'[q][k] = fifo[q][k + 1]
      /\ Head(fifo[q]) = fifo[q][1]
  <2>1. fifo[q] \in Seq(Tasks)
    BY QueuedIs
  <2>2. Len(fifo[q]) \in Nat \ {0}
    BY <2>1, EmptySeq
  <2>3. /\ Len(Tail(fifo[q])) = Len(fifo[q]) - 1
        /\ \A k \in 1..Len(Tail(fifo[q])) : Tail(fifo[q])[k] = fifo[q][k + 1]
    BY <2>1, HeadTailProperties
  <2>4. Head(fifo[q]) = fifo[q][1]
    BY <2>1, <2>2
  <2> QED
    BY <1>1, <2>2, <2>3, <2>4
<1> DEFINE from(r, k) == IF r = q THEN k + 1 ELSE k
<1>3. \A r \in Queues : \A k \in 1..Len(fifo'[r]) :
        /\ k \in Int /\ from(r, k) \in 1..Len(fifo[r])
        /\ fifo'[r][k] = fifo[r][from(r, k)]
        /\ r = q => from(r, k) # 1
  BY <1>1, <1>2
<1>4. \A r \in Queues : \A k \in 1..Len(fifo[r]) :
        \/ r = q /\ k = 1
        \/ \E j \in 1..Len(fifo'[r]) : from(r, j) = k
  <2> SUFFICES ASSUME NEW r \in Queues, NEW k \in 1..Len(fifo[r]), ~(r = q /\ k = 1)
               PROVE  \E j \in 1..Len(fifo'[r]) : from(r, j) = k
    OBVIOUS
  <2>1. CASE r = q
    <3>1. k - 1 \in 1..Len(fifo'[r]) /\ from(r, k - 1) = k
      BY <1>2, <2>1
    <3> QED
      BY <3>1
  <2>2. CASE r # q
    BY <1>1, <2>2
  <2> QED
    BY <2>1, <2>2
<1>5. QueuedOnce'
  <2> SUFFICES ASSUME NEW r \in Queues, NEW s \in Queues, NEW j \in 1..Len(fifo'[r]),
                      NEW k \in 1..Len(fifo'[s]), fifo'[r][j] = fifo'[s][k]
               PROVE  r = s /\ j = k
    BY DEF QueuedOnce
  <2>1. r = s /\ from(r, j) = from(s, k) /\ j \in Int /\ k \in Int
    BY <1>3 DEF QueuedOnce
  <2> QED
    BY <2>1
<1>6. 1 \in 1..Len(fifo[q])
  BY <1>2
<1>7. Head(fifo[q]) \in Queued
  BY <1>2, <1>6, QueuedIs
<1>8. ASSUME NEW u \in Tasks
      PROVE  u \in Queued' <=> u \in Queued /\ u # fifo[q][1]
  <2>1. u \in Queued' <=> \E r \in Queues : \E k \in 1..Len(fifo'[r]) : fifo'[r][k] = u
    BY DEF Queued, Contains
  <2>2. ASSUME NEW r \in Queues, NEW k \in 1..Len(fifo'[r]), fifo'[r][k] = u
        PROVE  u \in Queued /\ u # fifo[q][1]
    <3>1. from(r, k) \in 1..Len(fifo[r]) /\ fifo[r][from(r, k)] = u /\ (r = q => from(r, k) # 1)
      BY <1>3, <2>2
    <3>2. u \in Queued
      BY <3>1, QueuedIs
    <3>3. u # fifo[q][1]
      BY <1>6, <3>1 DEF QueuedOnce
    <3> QED
      BY <3>2, <3>3
  <2>3. ASSUME NEW r \in Queues, NEW k \in 1..Len(fifo[r]), fifo[r][k] = u, u # fifo[q][1]
        PROVE  u \in Queued'
    <3>1. PICK j \in 1..Len(fifo'[r]) : from(r, j) = k
      BY <1>4, <2>3
    <3>2. fifo'[r][j] = u
      BY <1>3, <2>3, <3>1
    <3> QED
      BY <2>1, <3>2
  <2> QED
    BY <2>1, <2>2, <2>3, QueuedIs
<1> QED
  BY <1>2, <1>5, <1>7, <1>8 DEF Queued

LEMMA InitWork == Init => Work /\ Pool!Init
<1> SUFFICES ASSUME Init PROVE Work /\ Pool!Init
  OBVIOUS
<1>1. Lists
  BY InitLists
<1>2. \A q \in Queues : fifo[q] = <<>> /\ 1..Len(fifo[q]) = {}
  BY DEF Init
<1>3. Queued = {} /\ QueuedOnce
  BY <1>2 DEF Queued, Contains, QueuedOnce
<1>4. Hand = [w \in Workers |-> None] /\ Orphans = {}
  BY DEF Init, Hand, Orphans
<1>5. QueuedIdle /\ HeldTracked /\ HeldApart
  BY <1>3, <1>4 DEF QueuedIdle, HeldTracked, HeldApart
<1> QED
  BY <1>1, <1>3, <1>4, <1>5 DEF Work, Pool!Init, Queued, Hand, Orphans

LEMMA EnqueuePuts ==
  ASSUME Work, NEW t \in Tasks, NEW q \in Queues, Enqueue(t, q)
  PROVE  Work' /\ Pool!Put(t)
<1>1. Lists /\ Lists'
  BY EnqueueLists DEF Work
<1>2. t \notin Queued /\ inFlight[t] = None
  BY DEF Enqueue, Queued
<1>3. QueuedOnce' /\ Queued' = Queued \cup {t}
  BY <1>1, <1>2, AppendQueues DEF Enqueue, Work
<1>4. Hand' = Hand /\ inFlight' = inFlight /\ Orphans' = Orphans
  BY DEF Enqueue, Hand, Orphans, Held
<1>5. Work'
  BY <1>1, <1>2, <1>3, <1>4 DEF Work, QueuedIdle, HeldTracked, HeldApart
<1>6. t \notin Orphans /\ \A w \in Workers : Hand[w] # t
  <2>1. t # None
    BY Constants
  <2> QED
    BY <1>2, <2>1 DEF Work, HeldTracked, Orphans
<1>7. Pool!Put(t)
  BY <1>2, <1>3, <1>4, <1>6 DEF Pool!Put, Pool!Held, Queued, Hand, Orphans
<1> QED
  BY <1>5, <1>7

LEMMA RequeueReturns ==
  ASSUME FalseAlarms = FALSE, Work, NEW t \in Tasks, Requeue(t)
  PROVE  Work' /\ Pool!Return(t)
<1>1. Lists /\ Lists'
  BY RequeueLists DEF Work
<1>2. inFlight[t] \in Queues /\ inFlight[t] # None /\ ~Held(t)
  BY DEF Requeue, Work, Lists, Typed
<1>3. t \notin Queued /\ t \in Orphans
  BY <1>2 DEF Work, QueuedIdle, Orphans
<1>4. QueuedOnce' /\ Queued' = Queued \cup {t}
  BY <1>1, <1>2, <1>3, AppendQueues DEF Requeue, Work
<1>5. Hand' = Hand /\ \A u \in Tasks : inFlight'[u] = IF u = t THEN None ELSE inFlight[u]
  BY <1>1 DEF Requeue, Hand, Lists, Typed
<1>6. Orphans' = Orphans \ {t}
  <2>1. \A u \in Tasks : Held(u)' <=> Held(u)
    BY DEF Requeue, Held
  <2> QED
    BY <1>5, <2>1 DEF Orphans
<1>7. \A w \in Workers : Hand[w] # t
  BY <1>1, <1>2, HandIs
<1>8. QueuedIdle' /\ HeldTracked' /\ HeldApart'
  <2>1. \A w \in Workers : Hand[w] # None => Hand[w] \in Tasks
    BY <1>1, HandIs
  <2>2. QueuedIdle'
    BY <1>4, <1>5 DEF Work, QueuedIdle, Queued
  <2>3. HeldTracked'
    BY <1>5, <1>7, <2>1 DEF Work, HeldTracked
  <2> QED
    BY <1>5, <2>2, <2>3 DEF Work, HeldApart
<1>9. Pool!Return(t)
  BY <1>3, <1>4, <1>5, <1>6 DEF Pool!Return, Queued, Hand, Orphans
<1> QED
  BY <1>1, <1>4, <1>8, <1>9 DEF Work

LEMMA AssignTakes ==
  ASSUME Work, NEW w \in Workers, NEW k \in 1..Len(heap), Assign(w, k)
  PROVE  Work' /\ \E t \in Tasks : Pool!Take(w, t)
<1>1. Lists /\ Lists'
  BY AssignLists DEF Work
<1>2. PICK q \in Queues : q = Entry(k) /\ fifo[q] # <<>> /\ Head(fifo[q]) \in Tasks
  BY <1>1, EntryFilled
<1>3. PICK t \in Tasks : t = Head(fifo[q])
  BY <1>2
<1>4. q # None /\ t # None
  BY Constants
<1>5. /\ held[w] = None
      /\ fifo' = [fifo EXCEPT ![q] = Tail(@)]
      /\ inFlight' = [inFlight EXCEPT ![t] = q]
      /\ held' = [held EXCEPT ![w] = [task |-> t, queue |-> q]]
  BY <1>2, <1>3 DEF Assign
<1>6. QueuedOnce' /\ Queued' = Queued \ {t} /\ t \in Queued
  BY <1>1, <1>2, <1>3, <1>5, TailUnqueues DEF Work
<1>7. /\ Hand[w] = None /\ Hand' = [Hand EXCEPT ![w] = t]
      /\ \A v \in Workers : Hand'[v] = IF v = w THEN t ELSE Hand[v]
  <2>1. \A v \in Workers : held'[v] = IF v = w THEN [task |-> t, queue |-> q] ELSE held[v]
    BY <1>1, <1>5 DEF Lists, Typed
  <2>2. [task |-> t, queue |-> q] \in Assignments
    BY <1>4 DEF Assignments
  <2>3. [task |-> t, queue |-> q] # None
    BY <2>2, Constants
  <2>4. \A v \in Workers : Hand'[v] = IF v = w THEN t ELSE Hand[v]
    BY <2>1, <2>3 DEF Hand
  <2>5. Hand' = [v \in Workers |-> Hand'[v]] /\ Hand = [v \in Workers |-> Hand[v]]
    BY DEF Hand
  <2>6. Hand' = [Hand EXCEPT ![w] = t]
    BY <2>4, <2>5
  <2> QED
    BY <1>5, <2>4, <2>6 DEF Hand
<1>8. \A u \in Tasks : inFlight'[u] = IF u = t THEN q ELSE inFlight[u]
  BY <1>1, <1>5 DEF Lists, Typed
<1>9. inFlight[t] = None /\ \A v \in Workers : Hand[v] # t
  BY <1>4, <1>6 DEF Work, QueuedIdle, HeldTracked
<1>10. Orphans' = Orphans
  <2>1. \A u \in Tasks : Held(u)' <=> \E v \in Workers : Hand'[v] = u
    BY <1>1, HandPrimed
  <2>2. \A u \in Tasks : Held(u) <=> \E v \in Workers : Hand[v] = u
    BY <1>1, HandIs
  <2>3. Held(t)'
    BY <1>4, <1>7, <2>1
  <2>4. t \notin Orphans /\ t \notin Orphans'
    BY <1>9, <2>3 DEF Orphans
  <2>5. \A u \in Tasks : u # None
    BY Constants
  <2>6. ASSUME NEW u \in Tasks, u # t
        PROVE  u \in Orphans' <=> u \in Orphans
    <3>1. Held(u)' <=> Held(u)
      BY <1>7, <2>1, <2>2, <2>5, <2>6
    <3> QED
      BY <1>8, <2>6, <3>1 DEF Orphans
  <2> QED
    BY <2>4, <2>6 DEF Orphans
<1>11. QueuedIdle' /\ HeldTracked' /\ HeldApart'
  <2>1. \A v \in Workers : Hand[v] # None => Hand[v] \in Tasks
    BY <1>1, HandIs
  <2>2. QueuedIdle'
    BY <1>6, <1>8 DEF Work, QueuedIdle, Queued
  <2>3. HeldTracked'
    BY <1>4, <1>7, <1>8, <2>1 DEF Work, HeldTracked
  <2>4. HeldApart'
    BY <1>7, <1>9 DEF Work, HeldApart
  <2> QED
    BY <2>2, <2>3, <2>4
<1>12. Pool!Take(w, t)
  BY <1>6, <1>7, <1>10 DEF Pool!Take, Queued, Hand, Orphans
<1>13. Work'
  BY <1>1, <1>6, <1>11 DEF Work
<1> QED
  BY <1>4, <1>12, <1>13

LEMMA CompleteFinishes ==
  ASSUME Work, NEW w \in Workers, NEW used, Complete(w, used)
  PROVE  Work' /\ Pool!Finish(w)
<1> DEFINE t == held[w].task
<1>1. Lists /\ Lists'
  BY CompleteLists DEF Work
<1>2. t \in Tasks /\ t # None /\ Hand[w] = t /\ held[w] # None
  BY <1>1, HandIs, Constants DEF Complete
<1>3. fifo' = fifo /\ Queued' = Queued /\ QueuedOnce'
  BY DEF Complete, Queued, QueuedOnce, Work
<1>4. /\ Hand' = [Hand EXCEPT ![w] = None]
      /\ \A v \in Workers : Hand'[v] = IF v = w THEN None ELSE Hand[v]
  <2>1. \A v \in Workers : held'[v] = IF v = w THEN None ELSE held[v]
    BY <1>1 DEF Complete, Lists, Typed
  <2> QED
    BY <2>1 DEF Hand
<1>5. \A u \in Tasks : inFlight'[u] = IF u = t THEN None ELSE inFlight[u]
  BY <1>1 DEF Complete, Lists, Typed
<1> HIDE DEF t
<1>6. Orphans' = Orphans
  <2>1. \A u \in Tasks : Held(u)' <=> \E v \in Workers : Hand'[v] = u
    BY <1>1, HandPrimed
  <2>2. \A u \in Tasks : Held(u) <=> \E v \in Workers : Hand[v] = u
    BY <1>1, HandIs
  <2>3. Held(t)
    BY <1>2, <2>2
  <2>4. \A u \in Tasks : u # t /\ u # None => (Held(u)' <=> Held(u))
    BY <1>2, <1>4, <2>1, <2>2
  <2>5. \A u \in Tasks : u # None
    BY Constants
  <2> QED
    BY <1>5, <2>3, <2>4, <2>5 DEF Orphans
<1>7. QueuedIdle' /\ HeldTracked' /\ HeldApart'
  <2>1. \A v \in Workers : Hand[v] # None => Hand[v] \in Tasks
    BY <1>1, HandIs
  <2>2. \A v \in Workers : v # w => Hand[v] # t
    BY <1>2 DEF Work, HeldApart
  <2>3. QueuedIdle'
    BY <1>3, <1>5 DEF Work, QueuedIdle, Queued
  <2>4. HeldTracked'
    BY <1>4, <1>5, <2>1, <2>2 DEF Work, HeldTracked
  <2>5. HeldApart'
    BY <1>4 DEF Work, HeldApart
  <2> QED
    BY <2>3, <2>4, <2>5
<1>8. Pool!Finish(w)
  BY <1>2, <1>3, <1>4, <1>6 DEF Pool!Finish, Queued, Hand, Orphans
<1> QED
  BY <1>1, <1>3, <1>7, <1>8 DEF Work

LEMMA StopPoolAbandons ==
  ASSUME Work, StopPool
  PROVE  Work' /\ Pool!Abandon
<1>1. Lists /\ Lists'
  BY StopPoolLists DEF Work
<1>2. fifo' = fifo /\ inFlight' = inFlight /\ Queued' = Queued /\ QueuedOnce'
  BY DEF StopPool, Queued, QueuedOnce, Work
<1>3. Hand' = [w \in Workers |-> None]
  BY DEF StopPool, Hand
<1>4. Orphans' = Orphans \cup {t \in Tasks : \E w \in Workers : Hand[w] = t}
  <2>1. \A u \in Tasks : ~Held(u)'
    BY DEF StopPool, Held
  <2>2. \A u \in Tasks : Held(u) <=> \E w \in Workers : Hand[w] = u
    BY <1>1, HandIs
  <2>3. \A u \in Tasks : Held(u) => inFlight[u] # None
    BY <2>2, Constants DEF Work, HeldTracked
  <2> QED
    BY <1>2, <2>1, <2>2, <2>3 DEF Orphans
<1>5. QueuedIdle' /\ HeldTracked' /\ HeldApart'
  BY <1>2, <1>3 DEF Work, QueuedIdle, HeldTracked, HeldApart
<1>6. Pool!Abandon
  BY <1>2, <1>3, <1>4 DEF Pool!Abandon, Pool!Held, Queued, Hand, Orphans
<1> QED
  BY <1>1, <1>2, <1>5, <1>6 DEF Work

\* A refusal, the time that passes and a step of others do nothing in the pool.
LEMMA OthersStutter ==
  ASSUME Work, Lists', UNCHANGED <<fifo, inFlight, held>>
  PROVE  Work' /\ UNCHANGED Pool!vars
<1>1. Queued' = Queued /\ Hand' = Hand /\ Orphans' = Orphans
  BY DEF Queued, Hand, Orphans, Held
<1>2. Work'
  BY <1>1 DEF Work, QueuedOnce, QueuedIdle, HeldTracked, HeldApart
<1>3. UNCHANGED Pool!vars
  BY <1>1 DEF Pool!vars, Queued, Hand, Orphans
<1> QED
  BY <1>2, <1>3

LEMMA NextPool ==
  ASSUME FalseAlarms = FALSE, Work, [Next]_vars
  PROVE  Work' /\ [Pool!Next]_(Pool!vars)
<1>1. CASE UNCHANGED <<fifo, inFlight, held>>
  <2>1. Lists'
    BY NextLists DEF Work
  <2> QED
    BY <1>1, <2>1, OthersStutter
<1>2. CASE UNCHANGED vars
  BY <1>1, <1>2 DEF vars
<1>3. ASSUME NEW t \in Tasks, Requeue(t)
      PROVE  Work' /\ Pool!Next
  BY <1>3, RequeueReturns DEF Pool!Next
<1>4. ASSUME NEW t \in Tasks, NEW q \in Queues, Enqueue(t, q)
      PROVE  Work' /\ Pool!Next
  BY <1>4, EnqueuePuts DEF Pool!Next
<1>5. ASSUME NEW w \in Workers, NEW k \in 1..Len(heap), Assign(w, k)
      PROVE  Work' /\ Pool!Next
  BY <1>5, AssignTakes DEF Pool!Next
<1>6. ASSUME NEW w \in Workers, NEW used, Complete(w, used)
      PROVE  Work' /\ Pool!Next
  BY <1>6, CompleteFinishes DEF Pool!Next
<1>7. CASE StopPool
  BY <1>7, StopPoolAbandons DEF Pool!Next
<1>8. (Tick \/ \E w \in Workers : Refuse(w)) => UNCHANGED <<fifo, inFlight, held>>
  BY DEF Tick, Refuse
<1> QED
  BY <1>1, <1>2, <1>3, <1>4, <1>5, <1>6, <1>7, <1>8 DEF Next

\* As long as no worker at work is taken to be dead, the coordinator is the pool that
\* Runner assumes: a task waits at one place, and one worker has it at a time.
THEOREM CoordinatorIsPool ==
  ASSUME FalseAlarms = FALSE
  PROVE  Spec => PoolKept
<1>1. Init => Work /\ Pool!Init
  BY InitWork
<1>2. Work /\ [Next]_vars => Work' /\ [Pool!Next]_(Pool!vars)
  BY NextPool
<1> QED
  BY <1>1, <1>2, PTL DEF Spec, PoolKept, Pool!Spec
=============================================================================
