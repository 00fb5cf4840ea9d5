------------------------ MODULE PointerRingBufferProofs ------------------------
(***************************************************************************)
(* The ring is a first-in-first-out queue for every capacity 8 * M, every  *)
(* number of puts and every interleaving of put and get.                   *)
(***************************************************************************)
EXTENDS PointerRingBuffer, SequenceTheorems, TLAPS

(* The capacity is a number and at least 8.                                *)
LEMMA CapacityType == M \in Nat /\ M > 0 /\ Capacity \in Nat /\ Capacity = 8 * M /\ Capacity >= 8
BY RingAssumption DEF Capacity

(* Quotient and remainder of a position.                                   *)
LEMMA Division ==
    ASSUME NEW p \in Nat, NEW c \in Nat, c > 0
    PROVE  \E q \in Nat, m \in Nat :
              m < c /\ p = c * q + m /\ q = p \div c /\ m = p % c
<1> DEFINE q == p \div c
           m == p % c
<1>1. q \in Nat /\ m \in Nat /\ m < c /\ p = c * q + m
  OBVIOUS
<1>2. q = p \div c /\ m = p % c
  OBVIOUS
<1> HIDE DEF q, m
<1> QED
  BY <1>1, <1>2

(* The row and the column of a position, and the entry they make.          *)
LEMMA RowColumn ==
    ASSUME NEW p \in Entries
    PROVE  \E q \in 0 .. 7, m \in 0 .. (M - 1) :
              p = M * q + m /\ Spread(p) = m * 8 + q
<1>1. p \in Nat /\ p < 8 * M
  BY CapacityType DEF Entries
<1>2. PICK q \in Nat, m \in Nat : m < M /\ p = M * q + m /\ q = p \div M /\ m = p % M
  BY <1>1, CapacityType, Division
<1>3. q < 8
  <2>1. SUFFICES ASSUME q >= 8 PROVE FALSE
    BY <1>2
  <2>2. M * q >= M * 8
    BY <1>2, <2>1, CapacityType
  <2> QED
    BY <1>1, <1>2, <2>2, CapacityType
<1>4. q \in 0 .. 7 /\ m \in 0 .. (M - 1)
  BY <1>2, <1>3, CapacityType
<1>5. Spread(p) = m * 8 + q
  BY <1>2 DEF Spread
<1> QED
  BY <1>2, <1>4, <1>5

(* Every position has an entry.                                            *)
LEMMA SpreadRange ==
    ASSUME NEW p \in Entries
    PROVE  Spread(p) \in Entries
<1>1. PICK q \in 0 .. 7, m \in 0 .. (M - 1) : Spread(p) = m * 8 + q
  BY RowColumn
<1>2. m * 8 + q \in 0 .. (8 * M - 1)
  BY CapacityType
<1> QED
  BY <1>1, <1>2, CapacityType DEF Entries

(* No two positions share an entry.                                        *)
LEMMA SpreadInjective ==
    ASSUME NEW a \in Entries, NEW b \in Entries, Spread(a) = Spread(b)
    PROVE  a = b
<1>1. PICK qa \in 0 .. 7, ma \in 0 .. (M - 1) :
        a = M * qa + ma /\ Spread(a) = ma * 8 + qa
  BY RowColumn
<1>2. PICK qb \in 0 .. 7, mb \in 0 .. (M - 1) :
        b = M * qb + mb /\ Spread(b) = mb * 8 + qb
  BY RowColumn
<1>3. ma * 8 + qa = mb * 8 + qb
  BY <1>1, <1>2
<1>4. qa = qb /\ ma = mb
  BY <1>3, CapacityType
<1> QED
  BY <1>1, <1>2, <1>4

(* Every put and every get accesses an entry of the ring.                  *)
LEMMA RealPosType ==
    ASSUME NEW p \in Nat
    PROVE  RealPos(p) \in Entries
<1>1. p % Capacity \in Entries
  BY CapacityType DEF Entries
<1> QED
  BY <1>1, SpreadRange DEF RealPos

(* Two indexes that can be in the ring at the same time have entries of    *)
(* their own.                                                              *)
LEMMA RealPosDistinct ==
    ASSUME NEW p \in Nat, NEW q \in Nat, p < q, q - p < Capacity
    PROVE  RealPos(p) # RealPos(q)
<1> SUFFICES ASSUME RealPos(p) = RealPos(q) PROVE FALSE
  OBVIOUS
<1>0. Capacity \in Nat /\ Capacity > 0
  BY CapacityType
<1>1. PICK i \in Nat, x \in Nat :
        x < Capacity /\ p = Capacity * i + x /\ i = p \div Capacity /\ x = p % Capacity
  BY <1>0, Division
<1>2. PICK j \in Nat, y \in Nat :
        y < Capacity /\ q = Capacity * j + y /\ j = q \div Capacity /\ y = q % Capacity
  BY <1>0, Division
<1>3. x \in Entries /\ y \in Entries
  BY <1>1, <1>2, CapacityType DEF Entries
<1>4. x = y
  <2>1. Spread(x) = Spread(y)
    BY <1>1, <1>2 DEF RealPos
  <2> QED
    BY <1>3, <2>1, SpreadInjective
<1> DEFINE k == j - i
<1>5. k \in Int /\ q - p = Capacity * k
  <2> DEFINE a == Capacity * i
             b == Capacity * j
  <2>0. a \in Int /\ b \in Int /\ p = a + x /\ q = b + x
    BY <1>0, <1>1, <1>2, <1>4
  <2> HIDE DEF a, b
  <2>1. q - p = b - a
    BY <2>0
  <2> QED
    BY <1>0, <2>1 DEF a, b
<1> HIDE DEF k
<1>6. CASE k >= 1
  <2>1. Capacity * k >= Capacity
    BY <1>5, <1>6, CapacityType
  <2> QED
    BY <1>5, <2>1, CapacityType
<1>7. CASE k <= 0
  <2>1. Capacity * k <= 0
    BY <1>5, <1>7, CapacityType
  <2> QED
    BY <1>5, <2>1
<1> QED
  BY <1>5, <1>6, <1>7

-----------------------------------------------------------------------------
(* The constructor establishes the invariant.                              *)
LEMMA RingInit == Init => RingInv
<1> SUFFICES ASSUME Init PROVE RingInv
  OBVIOUS
<1>1. TypeOK
  BY DEF Init, TypeOK
<1>2. writePos - readPos \in 0 .. (Capacity - 1)
  BY CapacityType DEF Init
<1> QED
  BY <1>1, <1>2 DEF Init, RingInv

(* Each step of put, and of get, keeps the invariant.                      *)
LEMMA RingPut ==
    ASSUME RingInv, Put
    PROVE  RingInv'
<1> USE DEF RingInv, TypeOK, getVars
<1>0. writePos \in Nat /\ readPos \in Nat /\ Capacity \in Nat
  BY CapacityType
<1>1. CASE PutCalled
  <2>1. Stream[writePos] \in Indexes
    BY <1>1, RingAssumption DEF PutCalled
  <2> QED
    BY <1>1, <2>1 DEF PutCalled, Full
<1>2. CASE PutWaits
  BY <1>2 DEF PutWaits, Full
<1>3. CASE PutStores
  <2>1. RealPos(writePos) \in Entries
    BY <1>0, RealPosType
  <2>2. pointers'[RealPos(writePos)] = data
    BY <1>3, <2>1 DEF PutStores
  <2>3. gpc = "advance" => pointers'[RealPos(readPos)] = pointers[RealPos(readPos)]
    <3>1. SUFFICES ASSUME gpc = "advance"
                   PROVE  pointers'[RealPos(readPos)] = pointers[RealPos(readPos)]
      OBVIOUS
    <3>2. readPos < writePos /\ writePos - readPos < Capacity
      BY <1>0, <3>1
    <3>3. RealPos(readPos) # RealPos(writePos) /\ RealPos(readPos) \in Entries
      BY <1>0, <3>2, RealPosDistinct, RealPosType
    <3> QED
      BY <1>3, <3>3 DEF PutStores
  <2>4. pointers' \in [Entries -> Indexes \cup {Null}]
    BY <1>3, <2>1 DEF PutStores
  <2> QED
    BY <1>3, <2>2, <2>3, <2>4 DEF PutStores, Full
<1>4. CASE PutAdvances
  <2>1. writePos' = writePos + 1 /\ readPos' = readPos /\ writePos # Capacity - 1 + readPos
    BY <1>4 DEF PutAdvances, Full
  <2>2. writePos' \in Nat /\ writePos' - readPos' \in 0 .. (Capacity - 1)
    BY <1>0, <2>1
  <2>3. writePos > readPos => writePos' > readPos'
    BY <1>0, <2>1
  <2> QED
    BY <1>4, <2>2, <2>3 DEF PutAdvances
<1> QED
  BY <1>1, <1>2, <1>3, <1>4 DEF Put

(* The same for get.                                                       *)
LEMMA RingGet ==
    ASSUME RingInv, Get
    PROVE  RingInv'
<1> USE DEF RingInv, TypeOK, putVars
<1>0. writePos \in Nat /\ readPos \in Nat /\ Capacity \in Nat
  BY CapacityType
<1>1. CASE GetFindsNone
  BY <1>1 DEF GetFindsNone, Full
<1>2. CASE GetFindsOne
  BY <1>0, <1>2 DEF GetFindsOne, Full
<1>3. CASE GetReads
  <2>1. RealPos(readPos) \in Entries
    BY <1>0, RealPosType
  <2> QED
    BY <1>3, <2>1 DEF GetReads, Full
<1>4. CASE GetAdvances
  <2>1. writePos' = writePos /\ readPos' = readPos + 1 /\ writePos > readPos
    BY <1>4 DEF GetAdvances
  <2>2. readPos' \in Nat /\ writePos' - readPos' \in 0 .. (Capacity - 1)
    BY <1>0, <2>1
  <2>3. ~Full'
    BY <1>0, <2>1 DEF Full
  <2> QED
    BY <1>4, <2>1, <2>2, <2>3 DEF GetAdvances
<1> QED
  BY <1>1, <1>2, <1>3, <1>4 DEF Get

(* At every moment the ring has room for what it holds and put and get     *)
(* work on different entries.                                              *)
THEOREM RingCorrect == Spec => []RingInv
<1>1. Init => RingInv
  BY RingInit
<1>2. RingInv /\ [Next]_vars => RingInv'
  <2> SUFFICES ASSUME RingInv, [Next]_vars PROVE RingInv'
    OBVIOUS
  <2>1. CASE UNCHANGED vars
    BY <2>1 DEF vars, putVars, getVars, RingInv, TypeOK, Full
  <2>2. CASE Next
    BY <2>2, RingPut, RingGet DEF Next
  <2> QED
    BY <2>1, <2>2
<1> QED
  BY <1>1, <1>2, PTL DEF Spec

-----------------------------------------------------------------------------
(* What the ring holds is a sequence, its length the distance of the two   *)
(* positions.                                                              *)
LEMMA ContentSeq ==
    ASSUME RingInv
    PROVE  /\ Content \in Seq(Indexes \cup {Null})
           /\ Len(Content) = writePos - readPos
           /\ \A i \in 1 .. (writePos - readPos) :
                Content[i] = pointers[RealPos(readPos + i - 1)]
<1> DEFINE n == writePos - readPos
<1>0. writePos \in Nat /\ readPos \in Nat /\ n \in Nat
  BY CapacityType DEF RingInv, TypeOK
<1> HIDE DEF n
<1>1. \A i \in 1 .. n : readPos + i - 1 \in Nat
  BY <1>0
<1>2. \A i \in 1 .. n : pointers[RealPos(readPos + i - 1)] \in Indexes \cup {Null}
  BY <1>1, RealPosType DEF RingInv, TypeOK
<1>3. Content = [i \in 1 .. n |-> pointers[RealPos(readPos + i - 1)]]
  BY DEF Content, n
<1>4. Content \in [1 .. n -> Indexes \cup {Null}]
  BY <1>2, <1>3
<1>5. Content \in Seq(Indexes \cup {Null}) /\ Len(Content) = n
  BY <1>0, <1>4
<1> QED
  BY <1>3, <1>5 DEF n

(* Only putting, and getting, the index at an end changes the content.     *)
LEMMA ContentKept ==
    ASSUME RingInv, RingInv', UNCHANGED <<writePos, readPos>>,
           \A i \in 1 .. (writePos - readPos) :
              pointers'[RealPos(readPos + i - 1)] = pointers[RealPos(readPos + i - 1)]
    PROVE  Content' = Content
BY DEF Content

(* The entry put stores is not part of the content yet.                    *)
LEMMA StoreKeepsContent ==
    ASSUME RingInv, RingInv', PutStores
    PROVE  Content' = Content
<1>0. writePos \in Nat /\ readPos \in Nat /\ writePos - readPos \in 0 .. (Capacity - 1)
      /\ Capacity \in Nat
  BY CapacityType DEF RingInv, TypeOK
<1>1. ASSUME NEW i \in 1 .. (writePos - readPos)
      PROVE  pointers'[RealPos(readPos + i - 1)] = pointers[RealPos(readPos + i - 1)]
  <2>1. readPos + i - 1 \in Nat /\ readPos + i - 1 < writePos
        /\ writePos - (readPos + i - 1) < Capacity
    BY <1>0
  <2>2. RealPos(readPos + i - 1) # RealPos(writePos) /\ RealPos(readPos + i - 1) \in Entries
    BY <1>0, <2>1, RealPosDistinct, RealPosType
  <2> QED
    BY <2>2 DEF PutStores, RingInv, TypeOK
<1> QED
  BY <1>1, ContentKept DEF PutStores

(* Moving writePos appends the index that was put.                         *)
LEMMA AdvanceEnqueues ==
    ASSUME RingInv, RingInv', PutAdvances
    PROVE  /\ Content' = Append(Content, data)
           /\ Len(Content) < Capacity - 1
<1> DEFINE S == Indexes \cup {Null}
           n == writePos - readPos
<1>0. writePos \in Nat /\ readPos \in Nat /\ n \in Nat /\ n <= Capacity - 1
      /\ Capacity \in Nat /\ writePos # Capacity - 1 + readPos
  BY CapacityType DEF RingInv, TypeOK, PutAdvances, Full
<1>1. n < Capacity - 1
  BY <1>0
<1>2. data \in S /\ pointers[RealPos(writePos)] = data
  BY DEF RingInv, PutAdvances
<1>3. /\ writePos' = writePos + 1 /\ UNCHANGED <<pointers, readPos>>
      /\ writePos' - readPos' = n + 1
  BY <1>0 DEF PutAdvances
<1>4. /\ Content' \in Seq(S) /\ Len(Content') = n + 1
      /\ \A i \in 1 .. (n + 1) : Content'[i] = pointers[RealPos(readPos + i - 1)]
  <2>1. /\ Content' \in Seq(S) /\ Len(Content') = writePos' - readPos'
        /\ \A i \in 1 .. (writePos' - readPos') :
             Content'[i] = pointers'[RealPos(readPos' + i - 1)]
    <3>1. Content' = [i \in 1 .. (n + 1) |-> pointers[RealPos(readPos + i - 1)]]
      BY <1>3 DEF Content
    <3>2. \A i \in 1 .. (n + 1) : readPos + i - 1 \in Nat
      BY <1>0
    <3>3. \A i \in 1 .. (n + 1) : pointers[RealPos(readPos + i - 1)] \in S
      BY <3>2, RealPosType DEF RingInv, TypeOK
    <3>4. Content' \in [1 .. (n + 1) -> S]
      BY <3>1, <3>3
    <3>5. Content' \in Seq(S) /\ Len(Content') = n + 1
      BY <1>0, <3>4
    <3> QED
      BY <1>3, <3>1, <3>5
  <2> QED
    BY <1>3, <2>1
<1>5. /\ Content \in Seq(S) /\ Len(Content) = n
      /\ \A i \in 1 .. n : Content[i] = pointers[RealPos(readPos + i - 1)]
  BY ContentSeq
<1> DEFINE A == Append(Content, data)
<1>6. A \in Seq(S) /\ Len(A) = n + 1 /\ \A i \in 1 .. (n + 1) :
          A[i] = IF i <= n THEN Content[i] ELSE data
  BY <1>0, <1>2, <1>5, AppendProperties
<1>7. ASSUME NEW i \in 1 .. (n + 1) PROVE Content'[i] = A[i]
  <2>1. CASE i <= n
    BY <1>0, <1>4, <1>5, <1>6, <2>1
  <2>2. CASE i = n + 1
    <3>1. readPos + i - 1 = writePos
      BY <1>0, <2>2
    <3> QED
      BY <1>0, <1>2, <1>4, <1>6, <2>2, <3>1
  <2>3. i <= n \/ i = n + 1
    <3> HIDE DEF n
    <3> QED
      BY <1>0
  <2> QED
    BY <2>1, <2>2, <2>3
<1>8. Content' = A
  BY <1>4, <1>6, <1>7, SeqEqual
<1> QED
  BY <1>1, <1>5, <1>8

(* Moving readPos removes the oldest index, and get returns it.            *)
LEMMA AdvanceDequeues ==
    ASSUME RingInv, RingInv', GetAdvances
    PROVE  /\ Content # <<>>
           /\ Content' = Tail(Content)
           /\ result' = Head(Content)
<1> DEFINE S == Indexes \cup {Null}
           n == writePos - readPos
<1>0. writePos \in Nat /\ readPos \in Nat /\ n \in Nat /\ n > 0
  BY CapacityType DEF RingInv, TypeOK, GetAdvances
<1>1. /\ readPos' = readPos + 1 /\ UNCHANGED <<pointers, writePos>>
      /\ writePos' - readPos' = n - 1
  BY <1>0 DEF GetAdvances
<1>2. /\ Content \in Seq(S) /\ Len(Content) = n
      /\ \A i \in 1 .. n : Content[i] = pointers[RealPos(readPos + i - 1)]
  BY ContentSeq
<1>3. Content # <<>>
  BY <1>0, <1>2
<1> DEFINE A == Tail(Content)
<1>4. A \in Seq(S) /\ Len(A) = n - 1 /\ \A i \in 1 .. (n - 1) : A[i] = Content[i + 1]
  BY <1>2, <1>3, HeadTailProperties
<1>5. Content' = [i \in 1 .. (n - 1) |-> pointers[RealPos(readPos + 1 + i - 1)]]
  BY <1>1 DEF Content
<1> HIDE DEF n
<1>6. ASSUME NEW i \in 1 .. (n - 1) PROVE A[i] = pointers[RealPos(readPos + 1 + i - 1)]
  <2>1. i + 1 \in 1 .. n /\ readPos + (i + 1) - 1 = readPos + 1 + i - 1
    BY <1>0
  <2> QED
    BY <1>2, <1>4, <2>1
<1>7. A = [i \in 1 .. (n - 1) |-> pointers[RealPos(readPos + 1 + i - 1)]]
  <2>1. A = [i \in 1 .. (n - 1) |-> A[i]]
    BY <1>4, LenProperties
  <2> QED
    BY <1>6, <2>1
<1>8. result' = Head(Content)
  <2>1. result' = pointers[RealPos(readPos)]
    BY DEF GetAdvances, RingInv
  <2>2. 1 \in 1 .. n /\ readPos + 1 - 1 = readPos
    BY <1>0
  <2>3. Content[1] = pointers[RealPos(readPos)]
    BY <1>2, <2>2
  <2>4. Head(Content) = Content[1]
    BY <1>2, <1>3
  <2> QED
    BY <2>1, <2>3, <2>4
<1> QED
  BY <1>3, <1>5, <1>7, <1>8

(* Every step of the ring is a step of the queue or leaves it as it is.    *)
LEMMA RingStep ==
    ASSUME RingInv, RingInv', [Next]_vars
    PROVE  [Queue!Next]_(Queue!vars)
<1> USE DEF Queue!vars
<1>1. CASE UNCHANGED vars
  BY <1>1 DEF vars, getVars, Content
<1>2. CASE PutCalled \/ PutWaits
  BY <1>2 DEF PutCalled, PutWaits, getVars, Content
<1>3. CASE PutStores
  BY <1>3, StoreKeepsContent DEF PutStores, getVars
<1>4. CASE PutAdvances
  <2>1. data \in Indexes /\ UNCHANGED result
    BY <1>4 DEF RingInv, PutAdvances, getVars
  <2>2. Queue!Enqueue(data)
    BY <1>4, <2>1, AdvanceEnqueues DEF Queue!Enqueue
  <2> QED
    BY <2>1, <2>2 DEF Queue!Next
<1>5. CASE GetFindsNone
  <2>1. UNCHANGED <<pointers, writePos, readPos>> /\ result' = Null /\ writePos = readPos
    BY <1>5 DEF GetFindsNone
  <2>2. Content' = Content
    BY <2>1 DEF Content
  <2>3. Content = <<>>
    <3>1. Content \in Seq(Indexes \cup {Null}) /\ Len(Content) = writePos - readPos
      BY ContentSeq
    <3>2. writePos - readPos = 0
      BY <2>1 DEF RingInv, TypeOK
    <3> QED
      BY <3>1, <3>2, EmptySeq
  <2>4. Queue!FindEmpty
    BY <2>1, <2>2, <2>3 DEF Queue!FindEmpty
  <2> QED
    BY <2>4 DEF Queue!Next
<1>6. CASE GetFindsOne \/ GetReads
  BY <1>6 DEF GetFindsOne, GetReads, Content
<1>7. CASE GetAdvances
  <2>1. Queue!Dequeue
    BY <1>7, AdvanceDequeues DEF Queue!Dequeue
  <2> QED
    BY <2>1 DEF Queue!Next
<1> QED
  BY <1>1, <1>2, <1>3, <1>4, <1>5, <1>6, <1>7 DEF Next, Put, Get

(* The ring implements the queue, for every capacity and stream: what the  *)
(* generator gets is what the capture thread put, in the same order.       *)
THEOREM RingImplementsQueue == Spec => IsQueue
<1>1. Init => Queue!Init
  <2> SUFFICES ASSUME Init PROVE Content = <<>> /\ result = Null
    BY DEF Queue!Init
  <2>1. RingInv
    BY RingInit
  <2>2. Content \in Seq(Indexes \cup {Null}) /\ Len(Content) = 0
    BY <2>1, ContentSeq DEF Init
  <2> QED
    BY <2>2, EmptySeq DEF Init
<1>2. RingInv /\ RingInv' /\ [Next]_vars => [Queue!Next]_(Queue!vars)
  BY RingStep
<1> QED
  BY <1>1, <1>2, RingCorrect, PTL DEF Spec, IsQueue, Queue!Spec
=============================================================================
