--------------------------- MODULE IndexStoreProofs ----------------------------
(***************************************************************************)
(* The persister copies every index of a data block and nothing else, into *)
(* exactly the room it reserved, for any number of pools and any sizes     *)
(* that the hypothesis PoolRoom allows.                                    *)
(*                                                                         *)
(* The argument follows the numbers that data blocks, nodes and units      *)
(* would have if nothing ever came round: x is the data block to persist   *)
(* next, and the book of a pool says which nodes it lists, for which data  *)
(* block each of them is and where its units start.                        *)
(***************************************************************************)
EXTENDS IndexStore, ModularArithmetic, WellFoundedInduction, TLAPS

(* A list has more nodes than the index buffer has data blocks.  (Run      *)
(* index_storage has four for two, the program's test 1024 for 64.)        *)
PoolRoom == 4 <= N /\ C < ListLen /\ 2 < ListLen

Buffers == [Units -> DataBlocks \cup {None}]
Places  == 0 .. Capacity
NodeIds == DataBlocks \cup {None}
Offsets == Places \cup {None}

NodeRecords == [data_block_id : NodeIds, start_offset : Offsets, dirty : BOOLEAN]

PoolRecords ==
    [buffer : Buffers, allocate_pos : Places, allocated_list : [Nodes -> NodeRecords],
     list_head : Nodes, list_tail : Nodes]

(* Nodes head .. tail - 1 are listed; node i is for data block block[i] and *)
(* its units begin with unit start[i]; units below end have been given out. *)
Books == [head : Nat, tail : Nat, end : Nat, block : [Nat -> Nat], start : [Nat -> Nat]]

InBook(b) == b.head .. b.tail - 1

EndOf(b, i) == IF i + 1 < b.tail THEN b.start[i + 1] ELSE b.end

(* Place q of the buffer is where unit u comes, before or after the turn.  *)
IsPlace(q, u) == q = u % Capacity \/ (q = Capacity /\ u % Capacity = 0)

(* Nothing has been allocated.                                             *)
Untouched(p) ==
    /\ p.list_head = 0 /\ p.list_tail = 1 /\ p.allocate_pos = 0
    /\ p.allocated_list[0] = [data_block_id |-> None, start_offset |-> None, dirty |-> FALSE]

(* The nodes of the list are those of the book, dirty when their data      *)
(* block has been persisted.                                               *)
NodesMatch(p, b, x) ==
    /\ p.list_head = b.head % ListLen /\ p.list_tail = b.tail % ListLen
    /\ \A i \in InBook(b) :
            /\ p.allocated_list[i % ListLen].data_block_id = b.block[i] % N
            /\ p.allocated_list[i % ListLen].start_offset = b.start[i] % Capacity
            /\ p.allocated_list[i % ListLen].dirty <=> b.block[i] < x

(* Data blocks and units rise from node to node.                           *)
Rising(b) ==
    \A i, j \in InBook(b) :
        i < j => b.block[i] + (j - i) <= b.block[j] /\ b.start[i] < b.start[j]

(* A node that is not the last is for one of the last C data blocks, or    *)
(* the one before the last.                                                *)
Recent(b) ==
    \A i \in InBook(b) :
        \/ i = b.tail - 1
        \/ b.block[b.tail - 1] < b.block[i] + C
        \/ i = b.tail - 2 /\ b.block[b.tail - 1] <= b.block[i] + 2

(* The units of a listed node are in the buffer.                           *)
UnitsThere(p, b) ==
    \A i \in InBook(b) : \A u \in b.start[i] .. EndOf(b, i) - 1 :
        p.buffer[u % Capacity] = b.block[i] % N

PoolMatches(p, b, x) ==
    /\ b.head < b.tail /\ b.tail - b.head < ListLen
    /\ NodesMatch(p, b, x)
    /\ Rising(b)
    /\ b.start[b.tail - 1] <= b.end /\ b.end <= b.start[b.head] + Capacity
    /\ IsPlace(p.allocate_pos, b.end)
    /\ Recent(b)
    /\ UnitsThere(p, b)

PoolIs(p, b, x) ==
    IF b.tail = 0 THEN Untouched(p) /\ b.head = 0 /\ b.end = 0 ELSE PoolMatches(p, b, x)

(* The units that the data blocks from x on were given.                    *)
CountIs(m, b, x) ==
    \A y \in x .. x + N - 1 :
        /\ \A i \in InBook(b) : b.block[i] = y => m[y % N] = EndOf(b, i) - b.start[i]
        /\ (\A i \in InBook(b) : b.block[i] # y) => m[y % N] = 0

Latest(b) == IF b.tail = 0 THEN -1 ELSE b.block[b.tail - 1]

-----------------------------------------------------------------------------
(* The sizes are positive, and the disk has more blocks than the buffer.   *)
LEMMA StoreSizes ==
    /\ N \in Nat /\ 0 < N /\ C \in Nat /\ 0 < C /\ C < N /\ R \in Nat /\ 0 < R
    /\ Y \in Nat /\ 0 < Y /\ DiskSize \in Nat /\ 0 < DiskSize
    /\ Capacity \in Nat /\ 0 < Capacity /\ ListLen \in Nat /\ 1 < ListLen
    /\ None = -1
BY StoreAssumption, PoolAssumption DEF None

(* A set of numbers that is not empty has a least element.                 *)
LEMMA Least ==
    ASSUME NEW Q \in SUBSET Nat, Q # {}
    PROVE  Min(Q) \in Q /\ \A y \in Q : Min(Q) <= y
<1>1. PICK z \in Q : \A y \in Q : ~ (<<y, z>> \in OpToRel(<, Nat))
  BY NatLessThanWellFounded, WFMin, Zenon
<1>2. \A y \in Q : ~ (y < z)
  BY <1>1 DEF OpToRel
<1>3. \A y \in Q : z <= y
  BY <1>2
<1> QED
  BY <1>3 DEF Min

(* A node's place in the list.                                             *)
LEMMA NodePlace ==
    ASSUME NEW i \in Nat
    PROVE  /\ i % ListLen \in Nodes /\ i % ListLen \in Nat /\ i % ListLen < ListLen
           /\ NextNode(i % ListLen) = (i + 1) % ListLen
           /\ (i + 1) % ListLen = IF (i % ListLen) + 1 = ListLen THEN 0 ELSE (i % ListLen) + 1
<1>1. ListLen \in Nat /\ 0 < ListLen
  BY StoreSizes
<1>2. i % ListLen \in Nat /\ i % ListLen < ListLen
  BY <1>1, DivMod
<1>3. (i + 1) % ListLen = ((i % ListLen) + 1) % ListLen
  BY <1>1, ModAdd
<1>4. (i + 1) % ListLen = IF (i % ListLen) + 1 = ListLen THEN 0 ELSE (i % ListLen) + 1
  BY <1>1, ModSucc
<1> QED
  BY <1>1, <1>2, <1>3, <1>4 DEF Nodes, NextNode

(* Two nodes at the same place are a turn apart.                           *)
LEMMA NodesApart ==
    ASSUME NEW i \in Nat, NEW j \in Nat, i % ListLen = j % ListLen,
           i < j + ListLen, j < i + ListLen
    PROVE  i = j
<1>1. ListLen \in Nat /\ 0 < ListLen
  BY StoreSizes
<1>2. i < j => i + ListLen <= j
  BY <1>1, ModApart
<1>3. j < i => j + ListLen <= i
  BY <1>1, ModApart
<1> QED
  BY <1>1, <1>2, <1>3

(* Data blocks less than N apart have different places on the disk.        *)
LEMMA BlocksApart ==
    ASSUME NEW y \in Nat, NEW z \in Nat, y % N = z % N, y < z + N, z < y + N
    PROVE  y = z
<1>1. N \in Nat /\ 0 < N
  BY StoreSizes
<1>2. (y < z => y + N <= z) /\ (z < y => z + N <= y)
  BY <1>1, ModApart
<1> QED
  BY <1>1, <1>2

(* Units less than a buffer apart have different places in it.             *)
LEMMA UnitsApart ==
    ASSUME NEW u \in Nat, NEW v \in Nat, u < v, v < u + Capacity
    PROVE  u % Capacity # v % Capacity
<1>1. Capacity \in Nat /\ 0 < Capacity
  BY StoreSizes
<1>2. u % Capacity = v % Capacity => u + Capacity <= v
  BY <1>1, ModApart
<1> QED
  BY <1>1, <1>2

(* The disk's number of a data block.                                      *)
LEMMA BlockPlace ==
    ASSUME NEW y \in Nat
    PROVE  y % N \in DataBlocks /\ y % N \in Nat /\ (y + 1) % N = ((y % N) + 1) % N
<1>1. N \in Nat /\ 0 < N
  BY StoreSizes
<1>2. y % N \in Nat /\ y % N < N
  BY <1>1, DivMod
<1>3. (y + 1) % N = ((y % N) + 1) % N
  BY <1>1, ModAdd
<1> QED
  BY <1>1, <1>2, <1>3 DEF DataBlocks

(* The place of a unit.                                                    *)
LEMMA UnitPlace ==
    ASSUME NEW u \in Nat
    PROVE  u % Capacity \in Units /\ u % Capacity \in Nat /\ u % Capacity < Capacity
<1>1. Capacity \in Nat /\ 0 < Capacity
  BY StoreSizes
<1>2. u % Capacity \in Nat /\ u % Capacity < Capacity
  BY <1>1, DivMod
<1> QED
  BY <1>1, <1>2 DEF Units

-----------------------------------------------------------------------------
(* What the operations do to a pool                                        *)

(* The loop at the head of the list drops dirty nodes, up to one that is   *)
(* not or the last.                                                        *)
LEMMA DropDirtyIs ==
    ASSUME NEW p \in PoolRecords, NEW b \in Books, NEW x \in Nat, PoolMatches(p, b, x)
    PROVE  \E h \in Nat :
               /\ b.head <= h /\ h < b.tail
               /\ DropDirty(p) = [p EXCEPT !.list_head = h % ListLen]
               /\ \A i \in b.head .. h - 1 : b.block[i] < x
               /\ \A i \in h .. b.tail - 1 : i = b.tail - 1 \/ x <= b.block[i]
<1> DEFINE Nth(k)   == (p.list_head + k) % ListLen
           Stops(k) == \/ ~p.allocated_list[Nth(k)].dirty
                       \/ NextNode(Nth(k)) = p.list_tail
           Q == {k \in Nodes : Stops(k)}
<1>1. /\ b.head \in Nat /\ b.tail \in Nat /\ b.head < b.tail /\ b.tail < b.head + ListLen
      /\ b.block \in [Nat -> Nat] /\ NodesMatch(p, b, x) /\ Rising(b)
      /\ ListLen \in Nat /\ 0 < ListLen
  BY StoreSizes DEF PoolMatches, Books
<1>2. ASSUME NEW k \in Nat PROVE Nth(k) = (b.head + k) % ListLen
  <2>1. (b.head + k) % ListLen = ((b.head % ListLen) + k) % ListLen
    BY <1>1, ModAdd
  <2> QED
    BY <1>1, <2>1 DEF NodesMatch
<1>3. b.tail - 1 - b.head \in Q
  <2> DEFINE k == b.tail - 1 - b.head
  <2>1. k \in Nat /\ k \in Nodes /\ b.head + k = b.tail - 1 /\ b.tail - 1 \in Nat
        /\ (b.tail - 1) + 1 = b.tail
    BY <1>1 DEF Nodes
  <2>2. Nth(k) = (b.tail - 1) % ListLen
    BY <1>2, <2>1
  <2>3. NextNode((b.tail - 1) % ListLen) = ((b.tail - 1) + 1) % ListLen
    BY <2>1, NodePlace
  <2>4. NextNode(Nth(k)) = b.tail % ListLen
    BY <2>1, <2>2, <2>3
  <2>5. Stops(k)
    BY <1>1, <2>4 DEF NodesMatch
  <2> QED
    BY <2>1, <2>5
<1>4. PICK m \in Nodes : /\ m = Min(Q) /\ Stops(m) /\ m <= b.tail - 1 - b.head
                        /\ \A k \in Nodes : Stops(k) => m <= k
  <2>1. Q \in SUBSET Nat /\ Q # {}
    BY <1>3 DEF Nodes
  <2>2. Min(Q) \in Q /\ \A k \in Q : Min(Q) <= k
    BY <2>1, Least
  <2> HIDE DEF Stops
  <2>3. Min(Q) \in Nodes /\ Stops(Min(Q)) /\ \A k \in Nodes : Stops(k) => Min(Q) <= k
    BY <2>2
  <2> QED
    BY <1>3, <2>2, <2>3
<1> HIDE DEF Q
<1>5. m \in Nat /\ m < ListLen /\ Stops(m) /\ m <= b.tail - 1 - b.head
  BY <1>1, <1>4 DEF Nodes
<1>6. \A k \in Nat : k < m => ~Stops(k)
  <2> SUFFICES ASSUME NEW k \in Nat, k < m PROVE ~Stops(k)
    OBVIOUS
  <2>1. k \in Nodes
    BY <1>1, <1>5 DEF Nodes
  <2>2. Stops(k) => m <= k
    BY <1>4, <2>1
  <2> HIDE DEF Stops
  <2> QED
    BY <1>5, <2>2
<1> DEFINE h == b.head + m
<1>7. h \in Nat /\ b.head <= h /\ h < b.tail
  BY <1>1, <1>5
<1>8. DropDirty(p) = [p EXCEPT !.list_head = h % ListLen]
  <2>1. DropDirty(p) = [p EXCEPT !.list_head = Nth(m)]
    BY <1>4, Zenon DEF DropDirty, Q
  <2> QED
    BY <1>2, <1>5, <2>1
<1>9. ASSUME NEW i \in InBook(b) PROVE p.allocated_list[i % ListLen].dirty <=> b.block[i] < x
  BY <1>1 DEF NodesMatch
<1>10. ASSUME NEW i \in b.head .. h - 1 PROVE b.block[i] < x
  <2>1. i - b.head \in Nat /\ i - b.head < m /\ b.head + (i - b.head) = i
    BY <1>1, <1>5, <1>7
  <2>2. ~Stops(i - b.head) /\ Nth(i - b.head) = i % ListLen
    BY <1>2, <1>6, <2>1
  <2>3. i \in InBook(b)
    BY <1>1, <1>7 DEF InBook
  <2> QED
    BY <1>9, <2>2, <2>3
<1>11. h + 1 = b.tail \/ x <= b.block[h]
  <2>1. Nth(m) = h % ListLen
    BY <1>2, <1>5
  <2>2. CASE ~p.allocated_list[Nth(m)].dirty
    <3>1. h \in InBook(b)
      BY <1>1, <1>7 DEF InBook
    <3>2. ~(b.block[h] < x)
      BY <1>9, <2>1, <2>2, <3>1
    <3>3. b.block[h] \in Nat
      BY <1>1, <1>7
    <3> QED
      BY <3>2, <3>3
  <2>3. CASE NextNode(Nth(m)) = p.list_tail
    <3>1. (h + 1) % ListLen = b.tail % ListLen
      BY <1>1, <1>7, <2>1, <2>3, NodePlace DEF NodesMatch
    <3>2. h + 1 \in Nat /\ h + 1 < b.tail + ListLen /\ b.tail < h + 1 + ListLen
      BY <1>1, <1>7
    <3> QED
      BY <1>1, <3>1, <3>2, NodesApart
  <2> QED
    BY <1>5, <2>2, <2>3
<1>12. ASSUME NEW i \in h .. b.tail - 1 PROVE i = b.tail - 1 \/ x <= b.block[i]
  <2>1. CASE h + 1 = b.tail
    BY <1>7, <2>1
  <2>2. CASE x <= b.block[h]
    <3>1. h \in InBook(b) /\ i \in InBook(b) /\ i \in Nat
      BY <1>1, <1>7 DEF InBook
    <3>2. b.block[h] \in Nat /\ b.block[i] \in Nat
      BY <1>1, <1>7, <3>1
    <3>3. h < i => b.block[h] + (i - h) <= b.block[i]
      BY <1>1, <3>1 DEF Rising
    <3> QED
      BY <1>7, <2>2, <3>1, <3>2, <3>3
  <2> QED
    BY <1>11, <2>1, <2>2
<1> HIDE DEF h
<1> QED
  BY <1>7, <1>8, <1>10, <1>12

(* A list that has lost nodes at its head is still the book's.             *)
LEMMA ShorterList ==
    ASSUME NEW p \in PoolRecords, NEW b \in Books, NEW x \in Nat, PoolMatches(p, b, x),
           NEW h \in Nat, b.head <= h, h < b.tail
    PROVE  /\ [b EXCEPT !.head = h] \in Books
           /\ [p EXCEPT !.list_head = h % ListLen] \in PoolRecords
           /\ PoolMatches([p EXCEPT !.list_head = h % ListLen], [b EXCEPT !.head = h], x)
<1> DEFINE c == [b EXCEPT !.head = h]
           q == [p EXCEPT !.list_head = h % ListLen]
<1>1. /\ b.head \in Nat /\ b.tail \in Nat /\ b.end \in Nat
      /\ b.block \in [Nat -> Nat] /\ b.start \in [Nat -> Nat]
      /\ ListLen \in Nat /\ 0 < ListLen /\ Capacity \in Nat
  BY StoreSizes DEF Books
<1>2. /\ c \in Books /\ c.head = h /\ c.tail = b.tail /\ c.end = b.end
      /\ c.block = b.block /\ c.start = b.start
  BY DEF Books
<1>3. /\ q \in PoolRecords /\ q.list_head = h % ListLen /\ q.list_tail = p.list_tail
      /\ q.allocated_list = p.allocated_list /\ q.buffer = p.buffer
      /\ q.allocate_pos = p.allocate_pos
  BY NodePlace DEF PoolRecords
<1>4. InBook(c) \subseteq InBook(b) /\ \A i \in InBook(b) : EndOf(c, i) = EndOf(b, i)
  BY <1>1, <1>2 DEF InBook, EndOf
<1>5. c.head < c.tail /\ c.tail - c.head < ListLen
  BY <1>1, <1>2 DEF PoolMatches
<1>6. NodesMatch(q, c, x)
  BY <1>2, <1>3, <1>4 DEF PoolMatches, NodesMatch
<1>7. Rising(c)
  BY <1>2, <1>4 DEF PoolMatches, Rising
<1>8. Recent(c)
  BY <1>2, <1>4 DEF PoolMatches, Recent
<1>9. UnitsThere(q, c)
  BY <1>2, <1>3, <1>4 DEF PoolMatches, UnitsThere
<1>10. b.start[b.head] <= b.start[h]
  <2>1. b.head \in InBook(b) /\ h \in InBook(b)
    BY <1>1 DEF InBook
  <2>2. b.head < h => b.start[b.head] < b.start[h]
    BY <2>1 DEF PoolMatches, Rising
  <2> QED
    BY <1>1, <2>2
<1>11. b.end <= b.start[h] + Capacity
  <2>1. b.end <= b.start[b.head] + Capacity
    BY DEF PoolMatches
  <2> QED
    BY <1>1, <1>10, <2>1
<1> HIDE DEF c, q
<1> QED
  BY <1>2, <1>3, <1>5, <1>6, <1>7, <1>8, <1>9, <1>11 DEF PoolMatches, c, q

(* An allocation begins: dirty nodes go, the last one stays, and the       *)
(* position turns.                                                         *)
LEMMA EnterLists ==
    ASSUME NEW p \in PoolRecords, NEW b \in Books, NEW x \in Nat, PoolIs(p, b, x)
    PROVE  /\ EnterAllocate(p) \in PoolRecords
           /\ EnterAllocate(p).allocate_pos < Capacity
           /\ \E h \in Nat :
                /\ b.head <= h
                /\ [b EXCEPT !.head = h] \in Books
                /\ PoolIs(EnterAllocate(p), [b EXCEPT !.head = h], x)
                /\ \A i \in b.head .. h - 1 : b.block[i] < x
                /\ \A i \in h .. b.tail - 1 : i = b.tail - 1 \/ x <= b.block[i]
                /\ b.tail > 0 => h < b.tail
<1>1. Capacity \in Nat /\ 0 < Capacity /\ b.head \in Nat /\ b.tail \in Nat /\ b.end \in Nat
  BY StoreSizes DEF Books
<1>2. ASSUME NEW q \in PoolRecords
      PROVE  /\ Turn(q) \in PoolRecords /\ Turn(q).allocate_pos < Capacity
             /\ Turn(q) = [q EXCEPT !.allocate_pos = IF q.allocate_pos = Capacity
                                                     THEN 0 ELSE q.allocate_pos]
  <2>1. q.allocate_pos \in 0 .. Capacity
    BY DEF PoolRecords, Places
  <2>2. Turn(q) = [q EXCEPT !.allocate_pos = IF q.allocate_pos = Capacity
                                             THEN 0 ELSE q.allocate_pos]
    BY <1>1, <2>1 DEF Turn
  <2> QED
    BY <1>1, <2>1, <2>2 DEF PoolRecords, Places
<1>3. CASE b.tail = 0
  <2>1. Untouched(p) /\ b.end = 0
    BY <1>3 DEF PoolIs
  <2>2. DropDirty(p) = p
    <3> DEFINE Nth(k)   == (p.list_head + k) % ListLen
               Stops(k) == \/ ~p.allocated_list[Nth(k)].dirty
                           \/ NextNode(Nth(k)) = p.list_tail
               Q == {k \in Nodes : Stops(k)}
    <3>1. 0 \in Nodes /\ Nth(0) = 0
      <4>1. 0 % ListLen = 0 /\ 0 + 0 = 0
        BY StoreSizes, ModSmall
      <4> QED
        BY <2>1, <4>1, StoreSizes DEF Untouched, Nodes
    <3>2. Stops(0)
      <4>1. ~p.allocated_list[0].dirty
        BY <2>1 DEF Untouched
      <4> QED
        BY <3>1, <4>1
    <3>3. 0 \in Q /\ Q \in SUBSET Nat
      BY <3>1, <3>2 DEF Nodes
    <3>4. Min(Q) \in Q /\ \A k \in Q : Min(Q) <= k
      BY <3>3, Least
    <3> HIDE DEF Q
    <3>5. Min(Q) \in Nat /\ Min(Q) <= 0
      BY <3>3, <3>4
    <3>6. Nth(Min(Q)) = 0
      <4>1. Min(Q) = 0
        BY <3>5
      <4> QED
        BY <3>1, <4>1, Zenon
    <3>7. DropDirty(p) = [p EXCEPT !.list_head = Nth(Min(Q))]
      BY Zenon DEF DropDirty, Q
    <3> HIDE DEF Nth
    <3> QED
      BY <2>1, <3>6, <3>7 DEF Untouched, PoolRecords
  <2>3. EnterAllocate(p) = p
    BY <1>1, <1>2, <2>1, <2>2 DEF EnterAllocate, Untouched, PoolRecords
  <2>4. [b EXCEPT !.head = b.head] = b
    BY DEF Books
  <2>5. EnterAllocate(p).allocate_pos < Capacity
    BY <1>1, <2>1, <2>3 DEF Untouched
  <2>6. /\ \A i \in b.head .. b.head - 1 : b.block[i] < x
        /\ \A i \in b.head .. b.tail - 1 : i = b.tail - 1 \/ x <= b.block[i]
        /\ ~(b.tail > 0)
    BY <1>1, <1>3
  <2> QED
    BY <1>1, <2>3, <2>4, <2>5, <2>6
<1>4. CASE b.tail # 0
  <2>1. PoolMatches(p, b, x)
    BY <1>4 DEF PoolIs
  <2>2. PICK h \in Nat :
               /\ b.head <= h /\ h < b.tail
               /\ DropDirty(p) = [p EXCEPT !.list_head = h % ListLen]
               /\ \A i \in b.head .. h - 1 : b.block[i] < x
               /\ \A i \in h .. b.tail - 1 : i = b.tail - 1 \/ x <= b.block[i]
    BY <2>1, DropDirtyIs
  <2> DEFINE c == [b EXCEPT !.head = h]
             q == DropDirty(p)
             z == EnterAllocate(p)
  <2>3. c \in Books /\ q \in PoolRecords /\ PoolMatches(q, c, x)
    BY <2>1, <2>2, ShorterList
  <2>4. z \in PoolRecords /\ z.allocate_pos < Capacity
        /\ z = [q EXCEPT !.allocate_pos = IF q.allocate_pos = Capacity
                                          THEN 0 ELSE q.allocate_pos]
    BY <1>2, <2>3 DEF EnterAllocate
  <2>5. c.tail # 0
    BY <1>4 DEF Books
  <2> HIDE DEF z, q, c
  <2>6. z.list_head = q.list_head /\ z.list_tail = q.list_tail
        /\ z.allocated_list = q.allocated_list /\ z.buffer = q.buffer
        /\ z.allocate_pos = IF q.allocate_pos = Capacity THEN 0 ELSE q.allocate_pos
    BY <2>3, <2>4 DEF PoolRecords
  <2>7. IsPlace(z.allocate_pos, c.end)
    <3>1. IsPlace(q.allocate_pos, c.end) /\ c.end \in Nat
      BY <2>3 DEF PoolMatches, Books
    <3>2. c.end % Capacity < Capacity
      BY <3>1, UnitPlace
    <3> QED
      BY <1>1, <2>6, <3>1, <3>2 DEF IsPlace
  <2>8. PoolMatches(z, c, x)
    BY <2>3, <2>6, <2>7 DEF PoolMatches, NodesMatch, UnitsThere
  <2>9. PoolIs(z, c, x)
    BY <2>5, <2>8 DEF PoolIs
  <2> QED
    BY <1>1, <2>2, <2>3, <2>4, <2>9 DEF c, z
<1> QED
  BY <1>3, <1>4

(* The nodes that were dropped count for nothing.                          *)
LEMMA CountDropped ==
    ASSUME NEW b \in Books, NEW x \in Nat, NEW h \in Nat, b.head <= h,
           \A i \in b.head .. h - 1 : b.block[i] < x, NEW m, CountIs(m, b, x)
    PROVE  CountIs(m, [b EXCEPT !.head = h], x)
<1> DEFINE c == [b EXCEPT !.head = h]
<1>1. /\ b.head \in Nat /\ b.tail \in Nat /\ b.block \in [Nat -> Nat] /\ N \in Nat
      /\ c.head = h /\ c.tail = b.tail /\ c.end = b.end
      /\ c.block = b.block /\ c.start = b.start
  BY StoreSizes DEF Books
<1> HIDE DEF c
<1>2. InBook(c) \subseteq InBook(b) /\ \A i \in InBook(b) : EndOf(c, i) = EndOf(b, i)
  BY <1>1 DEF InBook, EndOf
<1>3. ASSUME NEW y \in x .. x + N - 1, NEW i \in InBook(b), b.block[i] = y
      PROVE  i \in InBook(c)
  <2>1. ~(b.block[i] < x)
    BY <1>1, <1>3
  <2> QED
    BY <1>1, <2>1 DEF InBook
<1>4. ASSUME NEW y \in x .. x + N - 1
      PROVE  /\ \A i \in InBook(c) : c.block[i] = y => m[y % N] = EndOf(c, i) - c.start[i]
             /\ (\A i \in InBook(c) : c.block[i] # y) => m[y % N] = 0
  BY <1>1, <1>2, <1>3 DEF CountIs
<1> QED
  BY <1>4 DEF CountIs, c

(* A book with one node more at its end.                                   *)
NodeAdded(b, y) ==
    [head |-> b.head, tail |-> b.tail + 1, end |-> b.end,
     block |-> [b.block EXCEPT ![b.tail] = y], start |-> [b.start EXCEPT ![b.tail] = b.end]]

(* The book with one node more.                                            *)
LEMMA NodeAddedIs ==
    ASSUME NEW b \in Books, NEW y \in Nat
    PROVE  /\ NodeAdded(b, y) \in Books
           /\ NodeAdded(b, y).head = b.head /\ NodeAdded(b, y).tail = b.tail + 1
           /\ NodeAdded(b, y).end = b.end
           /\ NodeAdded(b, y).block[b.tail] = y /\ NodeAdded(b, y).start[b.tail] = b.end
           /\ \A i \in Nat : i # b.tail => /\ NodeAdded(b, y).block[i] = b.block[i]
                                           /\ NodeAdded(b, y).start[i] = b.start[i]
           /\ \A i \in Nat : i < b.tail => EndOf(NodeAdded(b, y), i) = EndOf(b, i)
           /\ EndOf(NodeAdded(b, y), b.tail) = b.end
<1> DEFINE c == NodeAdded(b, y)
<1>1. /\ b.head \in Nat /\ b.tail \in Nat /\ b.end \in Nat
      /\ b.block \in [Nat -> Nat] /\ b.start \in [Nat -> Nat]
  BY DEF Books
<1>2. /\ c.head = b.head /\ c.tail = b.tail + 1 /\ c.end = b.end
      /\ c.block = [b.block EXCEPT ![b.tail] = y] /\ c.start = [b.start EXCEPT ![b.tail] = b.end]
  BY DEF NodeAdded, Books
<1>3. c \in Books
  BY <1>1 DEF NodeAdded, Books
<1> HIDE DEF c
<1>4. /\ c.block[b.tail] = y /\ c.start[b.tail] = b.end
      /\ \A i \in Nat : i # b.tail => c.block[i] = b.block[i] /\ c.start[i] = b.start[i]
  BY <1>1, <1>2
<1>5. ASSUME NEW i \in Nat, i < b.tail PROVE EndOf(c, i) = EndOf(b, i)
  <2>1. i + 1 \in Nat /\ EndOf(c, i) = c.start[i + 1]
    BY <1>1, <1>2, <1>5 DEF EndOf
  <2>2. CASE i + 1 = b.tail
    BY <1>1, <1>4, <2>1, <2>2 DEF EndOf
  <2>3. CASE i + 1 < b.tail
    BY <1>1, <1>4, <2>1, <2>3 DEF EndOf
  <2> QED
    BY <1>1, <1>5, <2>1, <2>2, <2>3
<1>6. EndOf(c, b.tail) = b.end
  BY <1>1, <1>2 DEF EndOf
<1> QED
  BY <1>2, <1>3, <1>4, <1>5, <1>6 DEF c

(* A node without units does not change a count.                           *)
LEMMA CountAdded ==
    ASSUME NEW b \in Books, NEW x \in Nat, NEW y \in Nat, x <= y, y < x + N,
           Latest(b) < y, b.tail # 0 => Rising(b), NEW m, CountIs(m, b, x)
    PROVE  CountIs(m, NodeAdded(b, y), x)
<1> DEFINE c == NodeAdded(b, y)
<1>1. /\ b.head \in Nat /\ b.tail \in Nat /\ b.end \in Nat
      /\ b.block \in [Nat -> Nat] /\ b.start \in [Nat -> Nat] /\ N \in Nat
  BY StoreSizes DEF Books
<1>2. /\ c \in Books /\ c.head = b.head /\ c.tail = b.tail + 1 /\ c.end = b.end
      /\ c.block[b.tail] = y /\ c.start[b.tail] = b.end
      /\ \A i \in Nat : i # b.tail => c.block[i] = b.block[i] /\ c.start[i] = b.start[i]
      /\ \A i \in Nat : i < b.tail => EndOf(c, i) = EndOf(b, i)
      /\ EndOf(c, b.tail) = b.end
  BY NodeAddedIs
<1> HIDE DEF c
<1>3. ASSUME NEW i \in InBook(b) PROVE b.block[i] # y /\ i \in InBook(c) /\ i # b.tail /\ i \in Nat
  <2>1. i \in Nat /\ b.tail # 0 /\ b.tail - 1 \in InBook(b) /\ i <= b.tail - 1
    BY <1>1 DEF InBook
  <2>2. b.block[i] <= b.block[b.tail - 1]
    BY <1>1, <2>1 DEF Rising
  <2>3. b.block[b.tail - 1] < y
    BY <2>1 DEF Latest
  <2> QED
    BY <1>1, <1>2, <2>1, <2>2, <2>3 DEF InBook
<1>4. InBook(c) \subseteq InBook(b) \cup {b.tail}
  BY <1>1, <1>2 DEF InBook
<1>5. m[y % N] = 0
  BY <1>1, <1>3 DEF CountIs
<1>6. ASSUME NEW z \in x .. x + N - 1
      PROVE  /\ \A i \in InBook(c) : c.block[i] = z => m[z % N] = EndOf(c, i) - c.start[i]
             /\ (\A i \in InBook(c) : c.block[i] # z) => m[z % N] = 0
  <2>1. ASSUME NEW i \in InBook(c), c.block[i] = z PROVE m[z % N] = EndOf(c, i) - c.start[i]
    <3>1. CASE i = b.tail
      <4>1. z = y /\ EndOf(c, i) = b.end /\ c.start[i] = b.end
        BY <1>2, <2>1, <3>1
      <4> QED
        BY <1>1, <1>5, <4>1
    <3>2. CASE i \in InBook(b)
      <4>1. i \in Nat /\ i < b.tail /\ i # b.tail
        BY <1>1, <3>2 DEF InBook
      <4>2. b.block[i] = z /\ c.start[i] = b.start[i] /\ EndOf(c, i) = EndOf(b, i)
        BY <1>2, <2>1, <4>1
      <4> QED
        BY <3>2, <4>2 DEF CountIs
    <3> QED
      BY <1>4, <3>1, <3>2
  <2>2. ASSUME \A i \in InBook(c) : c.block[i] # z PROVE m[z % N] = 0
    <3>1. \A i \in InBook(b) : b.block[i] # z
      BY <1>2, <1>3, <2>2
    <3> QED
      BY <3>1 DEF CountIs
  <2> QED
    BY <2>1, <2>2
<1> QED
  BY <1>6 DEF CountIs, c

(* What the book is once data block y is listed.                           *)
ListedBook(b, y) ==
    IF b.tail # 0 /\ b.block[b.tail - 1] = y THEN b ELSE NodeAdded(b, y)

(* A node is put at the tail.                                              *)
LEMMA AddNodeIs ==
    ASSUME NEW p \in PoolRecords, NEW id \in DataBlocks, NEW q, q = AddNodeMeta(p, id)
    PROVE  /\ q \in PoolRecords /\ q.list_head = p.list_head
           /\ q.list_tail = NextNode(p.list_tail)
           /\ q.allocate_pos = p.allocate_pos /\ q.buffer = p.buffer
           /\ q.allocated_list[p.list_tail].data_block_id = id
           /\ q.allocated_list[p.list_tail].start_offset = p.allocate_pos
           /\ ~q.allocated_list[p.list_tail].dirty
           /\ \A m \in Nodes : m # p.list_tail => q.allocated_list[m] = p.allocated_list[m]
<1>1. PICK record : record = [data_block_id |-> id, start_offset |-> p.allocate_pos,
                              dirty |-> FALSE]
  OBVIOUS
<1>2. record \in NodeRecords /\ record.data_block_id = id /\ ~record.dirty
      /\ record.start_offset = p.allocate_pos
  <2>1. id \in NodeIds /\ p.allocate_pos \in Offsets
    BY DEF NodeIds, Offsets, PoolRecords
  <2> QED
    BY <1>1, <2>1 DEF NodeRecords
<1>3. PICK tail \in Nodes : tail = NextNode(p.list_tail)
  <2>1. p.list_tail \in Nat
    BY DEF PoolRecords, Nodes
  <2> QED
    BY <2>1, StoreSizes, DivMod DEF NextNode, Nodes
<1>4. PICK n \in Nodes : n = p.list_tail
  BY DEF PoolRecords
<1>5. q = [p EXCEPT !.allocated_list[n] = record, !.list_tail = tail]
  BY <1>1, <1>3, <1>4 DEF AddNodeMeta
<1>6. /\ q \in PoolRecords /\ q.list_head = p.list_head /\ q.list_tail = tail
      /\ q.allocate_pos = p.allocate_pos /\ q.buffer = p.buffer
      /\ q.allocated_list[n] = record
      /\ \A m \in Nodes : m # n => q.allocated_list[m] = p.allocated_list[m]
  BY <1>2, <1>5 DEF PoolRecords
<1> QED
  BY <1>2, <1>3, <1>4, <1>6

(* The first node is filled in.                                            *)
LEMMA FirstNodeIs ==
    ASSUME NEW p \in PoolRecords, Untouched(p), NEW id \in DataBlocks,
           NEW q, q = ListUnit(p, id)
    PROVE  /\ q \in PoolRecords /\ q.list_head = 0 /\ q.list_tail = 1
           /\ q.allocate_pos = 0
           /\ q.allocated_list[0].data_block_id = id
           /\ q.allocated_list[0].start_offset = 0 /\ ~q.allocated_list[0].dirty
<1>1. PICK n \in Nodes : n = 0
  BY StoreSizes DEF Nodes
<1>2. PICK v \in Offsets : v = 0
  BY StoreSizes DEF Offsets, Places
<1>3. /\ p.list_head = 0 /\ p.list_tail = 1 /\ p.allocate_pos = 0 /\ ~p.allocated_list[0].dirty
      /\ p.allocated_list[0].start_offset = None
  BY DEF Untouched
<1>4. FirstAllocation(p)
  BY <1>3 DEF FirstAllocation, HeadNode
<1>5. q = [p EXCEPT !.allocated_list[n].data_block_id = id, !.allocated_list[n].start_offset = v]
  BY <1>1, <1>2, <1>3, <1>4 DEF ListUnit
<1>6. id \in NodeIds
  BY DEF NodeIds
<1>7. /\ q \in PoolRecords /\ q.list_head = p.list_head /\ q.list_tail = p.list_tail
      /\ q.allocate_pos = p.allocate_pos
      /\ q.allocated_list[n].data_block_id = id
      /\ q.allocated_list[n].start_offset = v
      /\ q.allocated_list[n].dirty <=> p.allocated_list[n].dirty
  <2>1. PICK l : l = [p.allocated_list EXCEPT ![n].data_block_id = id, ![n].start_offset = v]
    OBVIOUS
  <2>2. p.allocated_list \in [Nodes -> NodeRecords]
    BY DEF PoolRecords
  <2>3. /\ l \in [Nodes -> NodeRecords] /\ l[n].data_block_id = id /\ l[n].start_offset = v
        /\ l[n].dirty <=> p.allocated_list[n].dirty
    BY <1>6, <2>1, <2>2 DEF NodeRecords
  <2>4. q = [p EXCEPT !.allocated_list = l]
    BY <1>5, <2>1
  <2> QED
    BY <2>3, <2>4 DEF PoolRecords
<1> QED
  BY <1>1, <1>2, <1>3, <1>7

(* A pool's first allocation.                                              *)
LEMMA ListFirst ==
    ASSUME PoolRoom, NEW p \in PoolRecords, NEW b \in Books, NEW x \in Nat, NEW y \in Nat,
           b.tail = 0, PoolIs(p, b, x), x <= y
    PROVE  /\ ListUnit(p, y % N) \in PoolRecords
           /\ PoolIs(ListUnit(p, y % N), NodeAdded(b, y), x)
           /\ ListUnit(p, y % N).allocate_pos = 0
<1> DEFINE c == NodeAdded(b, y)
           q == ListUnit(p, y % N)
<1>1. /\ Untouched(p) /\ b.head = 0 /\ b.end = 0 /\ Capacity \in Nat /\ 0 < Capacity
      /\ ListLen \in Nat /\ 2 < ListLen /\ C \in Nat /\ 0 \in Nodes
  BY StoreSizes DEF PoolIs, PoolRoom, Nodes
<1>2. /\ c \in Books /\ c.head = 0 /\ c.tail = 1 /\ c.end = 0
      /\ c.block[0] = y /\ c.start[0] = 0 /\ EndOf(c, 0) = 0
  <2>1. /\ c \in Books /\ c.head = b.head /\ c.tail = b.tail + 1 /\ c.end = b.end
        /\ c.block[b.tail] = y /\ c.start[b.tail] = b.end /\ EndOf(c, b.tail) = b.end
    BY NodeAddedIs
  <2> HIDE DEF c
  <2> QED
    BY <1>1, <2>1
<1>4. y % N \in DataBlocks
  BY BlockPlace
<1>5. /\ q \in PoolRecords /\ q.list_head = 0 /\ q.list_tail = 1 /\ q.allocate_pos = 0
      /\ q.allocated_list[0].data_block_id = y % N
      /\ q.allocated_list[0].start_offset = 0 /\ ~q.allocated_list[0].dirty
  BY <1>1, <1>4, FirstNodeIs
<1> HIDE DEF c, q
<1>6. InBook(c) = {0}
  BY <1>2 DEF InBook
<1>7. /\ 0 % ListLen = 0 /\ 1 % ListLen = 1 /\ 0 % Capacity = 0
  BY <1>1, ModSmall
<1>8. NodesMatch(q, c, x)
  BY <1>2, <1>5, <1>6, <1>7 DEF NodesMatch
<1>9. Rising(c) /\ Recent(c)
  BY <1>2, <1>6 DEF Rising, Recent
<1>10. UnitsThere(q, c)
  BY <1>2, <1>6 DEF UnitsThere
<1>11. IsPlace(q.allocate_pos, c.end)
  BY <1>2, <1>5, <1>7 DEF IsPlace
<1>12. PoolMatches(q, c, x)
  BY <1>1, <1>2, <1>8, <1>9, <1>10, <1>11 DEF PoolMatches
<1>13. PoolIs(q, c, x)
  BY <1>2, <1>12 DEF PoolIs
<1> QED
  BY <1>5, <1>13 DEF c, q

(* The nodes of a book with one node more.                                 *)
LEMMA OneMoreInBook ==
    ASSUME NEW b \in Books, NEW c \in Books, c.head = b.head, c.tail = b.tail + 1,
           b.head < b.tail
    PROVE  /\ InBook(c) = InBook(b) \cup {b.tail}
           /\ b.tail - 1 \in InBook(b) /\ b.tail - 1 \in Nat
           /\ \A i \in InBook(b) :
                i \in Nat /\ b.head <= i /\ i <= b.tail - 1 /\ i < b.tail /\ i # b.tail
<1>1. b.head \in Nat /\ b.tail \in Nat
  BY DEF Books
<1>2. \A i : i \in InBook(b) <=> i \in Nat /\ b.head <= i /\ i <= b.tail - 1
  BY <1>1 DEF InBook
<1>3. \A i : i \in InBook(c) <=> i \in Nat /\ b.head <= i /\ i <= b.tail
  BY <1>1 DEF InBook
<1>4. InBook(c) = InBook(b) \cup {b.tail}
  BY <1>1, <1>2, <1>3
<1> QED
  BY <1>1, <1>2, <1>4

(* A node for another data block is added to the list.                     *)
LEMMA ListAnother ==
    ASSUME PoolRoom, NEW p \in PoolRecords, NEW b \in Books, NEW x \in Nat, NEW y \in Nat,
           PoolMatches(p, b, x), p.allocate_pos < Capacity, x <= y,
           b.block[b.tail - 1] < y, y <= b.block[b.tail - 1] + 2,
           \A i \in InBook(b) : i = b.tail - 1 \/ y < b.block[i] + C,
           b.start[b.tail - 1] < b.end
    PROVE  /\ AddNodeMeta(p, y % N) \in PoolRecords
           /\ PoolIs(AddNodeMeta(p, y % N), NodeAdded(b, y), x)
           /\ AddNodeMeta(p, y % N).allocate_pos = p.allocate_pos
<1> DEFINE c == NodeAdded(b, y)
           q == AddNodeMeta(p, y % N)
           l == b.tail - 1
<1>1. /\ b.head \in Nat /\ b.tail \in Nat /\ b.end \in Nat /\ b.head < b.tail
      /\ b.block \in [Nat -> Nat] /\ b.start \in [Nat -> Nat]
      /\ ListLen \in Nat /\ 2 < ListLen /\ C \in Nat /\ C < ListLen
      /\ Capacity \in Nat /\ 0 < Capacity
  BY StoreSizes DEF Books, PoolRoom, PoolMatches
<1>2. /\ c \in Books /\ c.head = b.head /\ c.tail = b.tail + 1 /\ c.end = b.end
      /\ c.block[b.tail] = y /\ c.start[b.tail] = b.end
      /\ \A i \in Nat : i # b.tail => c.block[i] = b.block[i] /\ c.start[i] = b.start[i]
      /\ \A i \in Nat : i < b.tail => EndOf(c, i) = EndOf(b, i)
      /\ EndOf(c, b.tail) = b.end
  BY NodeAddedIs
<1>3. /\ InBook(c) = InBook(b) \cup {b.tail} /\ l \in InBook(b) /\ l \in Nat
      /\ \A i \in InBook(b) : i \in Nat /\ b.head <= i /\ i <= l /\ i < b.tail /\ i # b.tail
  BY <1>1, <1>2, OneMoreInBook
<1>4. p.list_tail = b.tail % ListLen /\ p.list_head = b.head % ListLen
  BY DEF PoolMatches, NodesMatch
<1>5. /\ b.tail % ListLen \in Nodes /\ NextNode(b.tail % ListLen) = (b.tail + 1) % ListLen
      /\ (b.tail + 1) % ListLen \in Nodes
  <2>1. b.tail + 1 \in Nat
    BY <1>1
  <2> QED
    BY <1>1, <2>1, NodePlace
<1>6. y % N \in DataBlocks
  BY BlockPlace
<1>8. /\ q \in PoolRecords /\ q.list_head = p.list_head /\ q.list_tail = (b.tail + 1) % ListLen
      /\ q.allocate_pos = p.allocate_pos /\ q.buffer = p.buffer
      /\ q.allocated_list[b.tail % ListLen].data_block_id = y % N
      /\ q.allocated_list[b.tail % ListLen].start_offset = p.allocate_pos
      /\ ~q.allocated_list[b.tail % ListLen].dirty
      /\ \A n \in Nodes : n # b.tail % ListLen => q.allocated_list[n] = p.allocated_list[n]
  BY <1>4, <1>5, <1>6, AddNodeIs
<1> HIDE DEF c, q
<1>9. b.tail + 1 < b.head + ListLen
  <2>1. CASE b.head = l
    BY <1>1, <2>1
  <2>2. CASE b.head < l
    <3>1. b.head \in InBook(b) /\ b.head # l
      BY <1>1, <2>2 DEF InBook
    <3>2. y < b.block[b.head] + C
      BY <3>1
    <3>3. b.block[b.head] + (l - b.head) <= b.block[l]
      BY <1>3, <2>2, <3>1 DEF PoolMatches, Rising
    <3>4. b.block[l] < y /\ b.block[b.head] \in Nat /\ b.block[l] \in Nat
      BY <1>1, <1>3
    <3> QED
      BY <1>1, <3>2, <3>3, <3>4
  <2> QED
    BY <1>1, <1>3, <2>1, <2>2
<1>10. ASSUME NEW i \in InBook(b)
       PROVE  i % ListLen \in Nodes /\ q.allocated_list[i % ListLen] = p.allocated_list[i % ListLen]
  <2>1. i % ListLen \in Nodes
    BY <1>3, NodePlace
  <2>2. i < b.tail + ListLen /\ b.tail < i + ListLen
    BY <1>1, <1>3, <1>9
  <2>3. i % ListLen # b.tail % ListLen
    BY <1>1, <1>3, <2>2, NodesApart
  <2> QED
    BY <1>8, <2>1, <2>3
<1>11. p.allocate_pos = b.end % Capacity /\ IsPlace(q.allocate_pos, c.end)
  BY <1>1, <1>2, <1>8 DEF PoolMatches, IsPlace, PoolRecords
<1>12. NodesMatch(q, c, x)
  <2>1. ASSUME NEW i \in InBook(c)
        PROVE  /\ q.allocated_list[i % ListLen].data_block_id = c.block[i] % N
               /\ q.allocated_list[i % ListLen].start_offset = c.start[i] % Capacity
               /\ q.allocated_list[i % ListLen].dirty <=> c.block[i] < x
    <3>1. CASE i \in InBook(b)
      <4>1. c.block[i] = b.block[i] /\ c.start[i] = b.start[i]
        BY <1>2, <1>3, <3>1
      <4> QED
        BY <1>10, <3>1, <4>1 DEF PoolMatches, NodesMatch
    <3>2. CASE i = b.tail
      BY <1>2, <1>8, <1>11, <3>2
    <3> QED
      BY <1>3, <3>1, <3>2
  <2> QED
    BY <1>2, <1>4, <1>8, <2>1 DEF NodesMatch
<1>13. ASSUME NEW i \in InBook(b)
       PROVE  b.block[i] + (b.tail - i) <= y /\ b.start[i] < b.end
  <2>1. i < l => b.block[i] + (l - i) <= b.block[l] /\ b.start[i] < b.start[l]
    BY <1>3 DEF PoolMatches, Rising
  <2>2. b.block[i] \in Nat /\ b.block[l] \in Nat /\ b.start[i] \in Nat /\ b.start[l] \in Nat
    BY <1>1, <1>3
  <2> QED
    BY <1>1, <1>3, <2>1, <2>2
<1>14. Rising(c)
  <2> SUFFICES ASSUME NEW i \in InBook(c), NEW j \in InBook(c), i < j
               PROVE  c.block[i] + (j - i) <= c.block[j] /\ c.start[i] < c.start[j]
    BY DEF Rising
  <2>1. i \in InBook(b)
    BY <1>1, <1>3
  <2>2. c.block[i] = b.block[i] /\ c.start[i] = b.start[i]
    BY <1>2, <1>3, <2>1
  <2>3. CASE j \in InBook(b)
    <3>1. c.block[j] = b.block[j] /\ c.start[j] = b.start[j]
      BY <1>2, <1>3, <2>3
    <3> QED
      BY <2>1, <2>2, <2>3, <3>1 DEF PoolMatches, Rising
  <2>4. CASE j = b.tail
    BY <1>2, <1>13, <2>1, <2>2, <2>4
  <2> QED
    BY <1>3, <2>3, <2>4
<1>15. Recent(c)
  <2> SUFFICES ASSUME NEW i \in InBook(c), i # b.tail
               PROVE  y < c.block[i] + C \/ (i = b.tail - 1 /\ y <= c.block[i] + 2)
    BY <1>1, <1>2 DEF Recent
  <2>1. i \in InBook(b) /\ c.block[i] = b.block[i]
    BY <1>2, <1>3
  <2> QED
    BY <2>1
<1>16. UnitsThere(q, c)
  <2> SUFFICES ASSUME NEW i \in InBook(c), NEW u \in c.start[i] .. EndOf(c, i) - 1
               PROVE  q.buffer[u % Capacity] = c.block[i] % N
    BY DEF UnitsThere
  <2>1. CASE i = b.tail
    BY <1>1, <1>2, <2>1
  <2>2. CASE i \in InBook(b)
    <3>1. c.start[i] = b.start[i] /\ EndOf(c, i) = EndOf(b, i) /\ c.block[i] = b.block[i]
      BY <1>2, <1>3, <2>2
    <3> QED
      BY <1>8, <2>2, <3>1 DEF PoolMatches, UnitsThere
  <2> QED
    BY <1>3, <2>1, <2>2
<1>17. /\ c.head < c.tail /\ c.tail - c.head < ListLen
       /\ c.start[c.tail - 1] <= c.end /\ c.end <= c.start[c.head] + Capacity
  <2>1. c.tail - 1 = b.tail /\ b.head # b.tail
    BY <1>1, <1>2
  <2>2. b.end <= b.start[b.head] + Capacity
    BY DEF PoolMatches
  <2> QED
    BY <1>1, <1>2, <1>9, <2>1, <2>2
<1>18. PoolMatches(q, c, x) /\ c.tail # 0
  BY <1>1, <1>2, <1>11, <1>12, <1>14, <1>15, <1>16, <1>17 DEF PoolMatches
<1> QED
  BY <1>8, <1>18 DEF PoolIs, c, q

(* The last node.                                                          *)
LEMMA LastNodeIs ==
    ASSUME NEW p \in PoolRecords, NEW t \in Nat, 0 < t, p.list_tail = t % ListLen
    PROVE  LastNode(p) = (t - 1) % ListLen
<1>1. ListLen \in Nat /\ 0 < ListLen /\ 1 < ListLen /\ t - 1 \in Nat /\ (t - 1) + 1 = t
  BY StoreSizes
<1>2. PICK e \in Nat : e = (t - 1) % ListLen /\ e < ListLen
  BY <1>1, DivMod
<1>3. t % ListLen = IF e + 1 = ListLen THEN 0 ELSE e + 1
  <2>1. PICK k \in Nat : k = t - 1
    BY <1>1
  <2>2. (k + 1) % ListLen = IF (k % ListLen) + 1 = ListLen THEN 0 ELSE (k % ListLen) + 1
    BY <1>1, ModSucc
  <2>3. k + 1 = t /\ k % ListLen = e
    BY <1>1, <1>2, <2>1
  <2> QED
    BY <2>2, <2>3
<1>4. CASE e + 1 = ListLen
  <2>1. (t % ListLen) + ListLen - 1 = e
    BY <1>1, <1>3, <1>4
  <2>2. e % ListLen = e
    BY <1>1, <1>2, ModSmall
  <2> QED
    BY <1>2, <2>1, <2>2 DEF LastNode
<1>5. CASE e + 1 # ListLen
  <2>1. (t % ListLen) + ListLen - 1 = e + ListLen
    BY <1>1, <1>3, <1>5
  <2>2. (e + ListLen) % ListLen = e % ListLen /\ e % ListLen = e
    BY <1>1, <1>2, ModSmall, ModShift
  <2> QED
    BY <1>2, <2>1, <2>2 DEF LastNode
<1> QED
  BY <1>4, <1>5

(* Listing a unit: the pool is right again, the last node is the data      *)
(* block's, and the unit is not one of the oldest node.                    *)
LEMMA ListKeeps ==
    ASSUME PoolRoom, NEW p \in PoolRecords, NEW b \in Books, NEW x \in Nat, NEW y \in Nat,
           PoolIs(p, b, x), p.allocate_pos < Capacity, CanList(p, y % N),
           x <= y, y < x + N, Latest(b) <= y, y <= Latest(b) + 2,
           \A i \in InBook(b) : i = b.tail - 1 \/ y < b.block[i] + C,
           b.tail > 0 => b.start[b.tail - 1] < b.end,
           NEW m, CountIs(m, b, x)
    PROVE  /\ ListUnit(p, y % N) \in PoolRecords
           /\ ListUnit(p, y % N).allocate_pos < Capacity
           /\ ListedBook(b, y) \in Books
           /\ PoolIs(ListUnit(p, y % N), ListedBook(b, y), x)
           /\ CountIs(m, ListedBook(b, y), x)
           /\ ListedBook(b, y).tail > 0
           /\ Latest(ListedBook(b, y)) = y
           /\ ListedBook(b, y).end < ListedBook(b, y).start[ListedBook(b, y).head] + Capacity
<1> DEFINE c == ListedBook(b, y)
           q == ListUnit(p, y % N)
<1>1. /\ b.head \in Nat /\ b.tail \in Nat /\ b.end \in Nat
      /\ b.block \in [Nat -> Nat] /\ b.start \in [Nat -> Nat]
      /\ ListLen \in Nat /\ Capacity \in Nat /\ 0 < Capacity
      /\ N \in Nat /\ 4 <= N /\ None = -1
  BY StoreSizes DEF Books, PoolRoom
<1>2. CASE b.tail = 0
  <2>1. c = NodeAdded(b, y) /\ b.end = 0 /\ b.head = 0 /\ Latest(b) < y
    BY <1>1, <1>2 DEF ListedBook, PoolIs, Latest
  <2>2. /\ c \in Books /\ c.head = 0 /\ c.tail = 1 /\ c.end = 0
        /\ c.block[0] = y /\ c.start[0] = 0
    BY <1>2, <2>1, NodeAddedIs
  <2>3. q \in PoolRecords /\ PoolIs(q, c, x) /\ q.allocate_pos = 0
    BY <1>2, <2>1, ListFirst
  <2>4. CountIs(m, c, x)
    BY <1>2, <2>1, CountAdded
  <2> HIDE DEF c, q
  <2>5. Latest(c) = y
    BY <2>2 DEF Latest
  <2>6. c.tail > 0 /\ c.end < c.start[c.head] + Capacity
    BY <1>1, <2>2
  <2> QED
    BY <1>1, <2>2, <2>3, <2>4, <2>5, <2>6 DEF c, q
<1>3. CASE b.tail # 0
  <2> DEFINE l == b.tail - 1
  <2>1. /\ PoolMatches(p, b, x) /\ b.head < b.tail /\ b.head \in InBook(b) /\ l \in InBook(b)
        /\ l \in Nat /\ b.block[l] \in Nat /\ b.block[l] <= y /\ y <= b.block[l] + 2
        /\ Latest(b) = b.block[l] /\ b.start[l] < b.end
    BY <1>1, <1>3 DEF PoolIs, PoolMatches, InBook, Latest
  <2>2. /\ HeadNode(p).start_offset = b.start[b.head] % Capacity
        /\ b.start[b.head] % Capacity \in Nat
    BY <1>1, <2>1, UnitPlace DEF PoolMatches, NodesMatch, HeadNode
  <2>3. ~FirstAllocation(p)
    BY <1>1, <2>2 DEF FirstAllocation
  <2>4. HasRoom(p) /\ p.allocate_pos = b.end % Capacity
    <3>1. p.allocate_pos = b.end % Capacity
      BY <1>1, <2>1 DEF PoolMatches, IsPlace, PoolRecords, Places
    <3> QED
      BY <2>3, <3>1 DEF CanList
  <2>5. b.end < b.start[b.head] + Capacity
    <3>1. b.end # b.start[b.head] + Capacity
      <4>1. (b.start[b.head] + Capacity) % Capacity = b.start[b.head] % Capacity
        BY <1>1, ModShift
      <4> QED
        BY <2>2, <2>4, <4>1 DEF HasRoom
    <3>2. b.end <= b.start[b.head] + Capacity
      BY <2>1 DEF PoolMatches
    <3>3. PICK s \in Nat, e \in Nat : s = b.start[b.head] /\ e = b.end
      BY <1>1
    <3>4. e <= s + Capacity /\ e # s + Capacity
      BY <3>1, <3>2, <3>3
    <3>5. e < s + Capacity
      <4>1. PICK f \in Int : f = s + Capacity
        BY <1>1
      <4>2. e <= f /\ e # f
        BY <3>4, <4>1
      <4>3. e < f
        BY <4>2
      <4> QED
        BY <4>1, <4>3
    <3> QED
      BY <3>3, <3>5
  <2>6. NeedsNode(p, y % N) <=> b.block[l] # y
    <3>1. LastNode(p) = l % ListLen
      BY <1>1, <1>3, <2>1, LastNodeIs DEF PoolMatches, NodesMatch
    <3>2. p.allocated_list[l % ListLen].data_block_id = b.block[l] % N
      BY <2>1 DEF PoolMatches, NodesMatch
    <3>3. b.block[l] % N = y % N => b.block[l] = y
      <4>1. PICK z \in Nat : z = b.block[l]
        BY <2>1
      <4>2. z < y + N /\ y < z + N
        BY <1>1, <2>1, <4>1
      <4> QED
        BY <4>1, <4>2, BlocksApart
    <3> QED
      BY <3>1, <3>2, <3>3 DEF NeedsNode
  <2>7. CASE b.block[l] = y
    <3>1. c = b
      BY <1>3, <2>7 DEF ListedBook
    <3>2. q = p
      BY <2>3, <2>6, <2>7 DEF ListUnit
    <3>3. b.tail > 0
      BY <1>1, <1>3
    <3> QED
      BY <2>1, <2>5, <2>7, <3>1, <3>2, <3>3
  <2>8. CASE b.block[l] # y
    <3>1. c = NodeAdded(b, y) /\ b.block[l] < y
      BY <1>1, <2>1, <2>8 DEF ListedBook
    <3>2. q = AddNodeMeta(p, y % N)
      BY <2>3, <2>6, <2>8 DEF ListUnit
    <3> HIDE DEF c, q
    <3>3. q \in PoolRecords /\ PoolIs(q, c, x) /\ q.allocate_pos = p.allocate_pos
      BY <2>1, <3>1, <3>2, ListAnother
    <3>4. /\ c \in Books /\ c.head = b.head /\ c.tail = b.tail + 1 /\ c.end = b.end
          /\ c.block[b.tail] = y
          /\ \A i \in Nat : i # b.tail => c.block[i] = b.block[i] /\ c.start[i] = b.start[i]
      BY <3>1, NodeAddedIs
    <3>5. CountIs(m, c, x)
      <4>1. Rising(b) /\ Latest(b) < y
        BY <2>1, <3>1 DEF PoolMatches
      <4> QED
        BY <3>1, <4>1, CountAdded, Zenon
    <3>6. c.tail > 0 /\ Latest(c) = y
      BY <1>1, <3>4 DEF Latest
    <3>7. c.end < c.start[c.head] + Capacity
      BY <1>1, <2>1, <2>5, <3>4
    <3> QED
      BY <3>3, <3>4, <3>5, <3>6, <3>7 DEF c, q
  <2> QED
    BY <2>7, <2>8
<1> QED
  BY <1>2, <1>3

(* A book with one unit more given out.                                    *)
UnitAdded(b) ==
    [head |-> b.head, tail |-> b.tail, end |-> b.end + 1, block |-> b.block, start |-> b.start]

(* The book with one unit more.                                            *)
LEMMA UnitAddedIs ==
    ASSUME NEW b \in Books, b.tail > 0
    PROVE  /\ UnitAdded(b) \in Books
           /\ UnitAdded(b).head = b.head /\ UnitAdded(b).tail = b.tail
           /\ UnitAdded(b).end = b.end + 1
           /\ UnitAdded(b).block = b.block /\ UnitAdded(b).start = b.start
           /\ InBook(UnitAdded(b)) = InBook(b)
           /\ \A i \in InBook(b) : /\ i \in Nat /\ i <= b.tail - 1
                                   /\ i # b.tail - 1 => EndOf(UnitAdded(b), i) = EndOf(b, i)
                                                        /\ i + 1 \in InBook(b)
                                                        /\ EndOf(b, i) = b.start[i + 1]
           /\ EndOf(UnitAdded(b), b.tail - 1) = b.end + 1
           /\ EndOf(b, b.tail - 1) = b.end
<1> DEFINE c == UnitAdded(b)
<1>1. /\ b.head \in Nat /\ b.tail \in Nat /\ b.end \in Nat
      /\ b.block \in [Nat -> Nat] /\ b.start \in [Nat -> Nat]
  BY DEF Books
<1>2. /\ c.head = b.head /\ c.tail = b.tail /\ c.end = b.end + 1
      /\ c.block = b.block /\ c.start = b.start /\ c \in Books
  BY <1>1 DEF UnitAdded, Books
<1> HIDE DEF c
<1>3. InBook(c) = InBook(b)
  BY <1>2 DEF InBook
<1>4. ASSUME NEW i \in InBook(b)
      PROVE  /\ i \in Nat /\ i <= b.tail - 1
             /\ i # b.tail - 1 => EndOf(c, i) = EndOf(b, i) /\ i + 1 \in InBook(b)
                                  /\ EndOf(b, i) = b.start[i + 1]
  BY <1>1, <1>2 DEF InBook, EndOf
<1>5. EndOf(c, b.tail - 1) = b.end + 1 /\ EndOf(b, b.tail - 1) = b.end
  BY <1>1, <1>2 DEF EndOf
<1> QED
  BY <1>2, <1>3, <1>4, <1>5 DEF c

(* A unit is taken and filled.                                             *)
LEMMA TakeUnitIs ==
    ASSUME NEW p \in PoolRecords, p.allocate_pos < Capacity, NEW id \in DataBlocks,
           NEW q, q = TakeUnit(p, id)
    PROVE  /\ q \in PoolRecords /\ q.list_head = p.list_head /\ q.list_tail = p.list_tail
           /\ q.allocated_list = p.allocated_list
           /\ q.allocate_pos = p.allocate_pos + 1
           /\ q.buffer[p.allocate_pos] = id
           /\ \A u \in Units : u # p.allocate_pos => q.buffer[u] = p.buffer[u]
<1>1. Capacity \in Nat /\ p.allocate_pos \in Nat
  BY StoreSizes DEF PoolRecords, Places
<1>2. PICK e : e = [p.buffer EXCEPT ![p.allocate_pos] = id]
  OBVIOUS
<1>3. /\ e \in Buffers /\ e[p.allocate_pos] = id
      /\ \A u \in Units : u # p.allocate_pos => e[u] = p.buffer[u]
  <2>1. p.buffer \in [Units -> DataBlocks \cup {None}] /\ p.allocate_pos \in Units
    BY <1>1 DEF PoolRecords, Buffers, Units
  <2> QED
    BY <1>2, <2>1 DEF Buffers
<1>4. PICK a \in Places : a = p.allocate_pos + 1
  BY <1>1 DEF Places
<1>5. q = [p EXCEPT !.buffer = e, !.allocate_pos = a]
  BY <1>2, <1>4 DEF TakeUnit
<1>6. /\ q \in PoolRecords /\ q.list_head = p.list_head /\ q.list_tail = p.list_tail
      /\ q.allocated_list = p.allocated_list /\ q.allocate_pos = a /\ q.buffer = e
  BY <1>3, <1>5 DEF PoolRecords
<1> QED
  BY <1>3, <1>4, <1>6

(* Taking a unit: the pool is right again and the data block has one more. *)
LEMMA TakeKeeps ==
    ASSUME NEW p \in PoolRecords, NEW b \in Books, NEW x \in Nat, NEW y \in Nat,
           PoolIs(p, b, x), p.allocate_pos < Capacity, b.tail > 0, Latest(b) = y,
           b.end < b.start[b.head] + Capacity, x <= y, y < x + N,
           NEW m \in [DataBlocks -> Nat], CountIs(m, b, x)
    PROVE  /\ TakeUnit(p, y % N) \in PoolRecords
           /\ PoolIs(TakeUnit(p, y % N), UnitAdded(b), x)
           /\ CountIs([m EXCEPT ![y % N] = @ + 1], UnitAdded(b), x)
           /\ b.start[b.tail - 1] <= b.end
<1> DEFINE c == UnitAdded(b)
           q == TakeUnit(p, y % N)
           n == [m EXCEPT ![y % N] = @ + 1]
<1>1. /\ b.head \in Nat /\ b.tail \in Nat /\ b.end \in Nat
      /\ b.block \in [Nat -> Nat] /\ b.start \in [Nat -> Nat]
      /\ ListLen \in Nat /\ Capacity \in Nat /\ 0 < Capacity
      /\ N \in Nat /\ 0 < N /\ y % N \in DataBlocks
  BY StoreSizes, BlockPlace DEF Books
<1>0. PICK l \in Nat : l = b.tail - 1
  BY <1>1
<1>2. /\ c \in Books /\ c.head = b.head /\ c.tail = b.tail /\ c.end = b.end + 1
      /\ c.block = b.block /\ c.start = b.start /\ InBook(c) = InBook(b)
      /\ \A i \in InBook(b) : /\ i \in Nat /\ i <= l
                              /\ i # l => EndOf(c, i) = EndOf(b, i) /\ i + 1 \in InBook(b)
                                          /\ EndOf(b, i) = b.start[i + 1]
      /\ EndOf(c, l) = b.end + 1 /\ EndOf(b, l) = b.end
  BY <1>0, UnitAddedIs
<1>3. /\ PoolMatches(p, b, x) /\ b.head < b.tail /\ l \in InBook(b) /\ l \in Nat
      /\ b.head \in InBook(b) /\ b.block[l] = y /\ b.start[l] <= b.end
  BY <1>0, <1>1 DEF PoolIs, PoolMatches, InBook, Latest
<1>4. p.allocate_pos = b.end % Capacity
  BY <1>1, <1>3 DEF PoolMatches, IsPlace, PoolRecords, Places
<1>5. /\ q \in PoolRecords /\ q.list_head = p.list_head /\ q.list_tail = p.list_tail
      /\ q.allocated_list = p.allocated_list
      /\ q.allocate_pos = (b.end % Capacity) + 1
      /\ q.buffer[b.end % Capacity] = y % N
      /\ \A u \in Units : u # b.end % Capacity => q.buffer[u] = p.buffer[u]
  BY <1>1, <1>4, TakeUnitIs
<1> HIDE DEF c, q
<1>6. IsPlace(q.allocate_pos, c.end)
  <2>1. PICK e \in Nat : e = b.end
    BY <1>1
  <2>2. (e + 1) % Capacity = IF (e % Capacity) + 1 = Capacity THEN 0 ELSE (e % Capacity) + 1
    BY <1>1, ModSucc
  <2>3. q.allocate_pos = (e % Capacity) + 1 /\ c.end = e + 1
    BY <1>2, <1>5, <2>1
  <2> QED
    BY <2>2, <2>3 DEF IsPlace
<1>7. ASSUME NEW i \in InBook(b) PROVE b.start[b.head] <= b.start[i] /\ b.start[i] <= b.start[l]
  <2>1. b.head <= i /\ i <= l /\ i \in Nat
    BY <1>0, <1>1, <1>2 DEF InBook
  <2>2. (b.head < i => b.start[b.head] < b.start[i]) /\ (i < l => b.start[i] < b.start[l])
    BY <1>3 DEF PoolMatches, Rising
  <2>3. b.start[b.head] \in Nat /\ b.start[i] \in Nat /\ b.start[l] \in Nat
    BY <1>1, <1>3, <2>1
  <2>4. PICK f \in Nat, g \in Nat, k \in Nat : f = b.start[b.head] /\ g = b.start[i] /\ k = b.start[l]
    BY <2>3
  <2>5. f <= g
    <3>1. CASE b.head = i
      BY <2>4, <3>1
    <3>2. CASE b.head < i
      BY <2>2, <2>4, <3>2
    <3>3. b.head = i \/ b.head < i
      <4>1. PICK a \in Nat : a = b.head
        BY <1>1
      <4> QED
        BY <2>1, <4>1
    <3> QED
      BY <3>1, <3>2, <3>3
  <2>6. g <= k
    <3>1. CASE i = l
      BY <2>4, <3>1
    <3>2. CASE i < l
      BY <2>2, <2>4, <3>2
    <3> QED
      BY <2>1, <3>1, <3>2
  <2> QED
    BY <2>4, <2>5, <2>6
<1>8. UnitsThere(q, c)
  <2> SUFFICES ASSUME NEW i \in InBook(b), NEW u \in b.start[i] .. EndOf(c, i) - 1
               PROVE  q.buffer[u % Capacity] = b.block[i] % N
    BY <1>2 DEF UnitsThere
  <2>1. i \in Nat /\ b.start[i] \in Nat /\ b.start[b.head] \in Nat /\ b.start[l] \in Nat
    BY <1>1, <1>2, <1>3
  <2>2. EndOf(c, i) \in Nat /\ (i # l => EndOf(c, i) = EndOf(b, i) /\ EndOf(c, i) <= b.end)
    <3>1. CASE i = l
      BY <1>1, <1>2, <3>1
    <3>2. CASE i # l
      <4>1. i + 1 \in InBook(b) /\ EndOf(c, i) = b.start[i + 1] /\ EndOf(c, i) = EndOf(b, i)
        BY <1>2, <3>2
      <4>2. b.start[i + 1] <= b.start[l] /\ b.start[i + 1] \in Nat
        <5>1. PICK j \in InBook(b) : j = i + 1
          BY <4>1
        <5>2. b.start[j] <= b.start[l] /\ b.start[j] \in Nat
          BY <1>1, <1>2, <1>7
        <5> QED
          BY <5>1, <5>2
      <4> QED
        BY <1>1, <1>3, <2>1, <3>2, <4>1, <4>2
    <3> QED
      BY <3>1, <3>2
  <2>3. u \in Nat /\ b.start[i] <= u /\ u < EndOf(c, i)
    BY <2>1, <2>2
  <2>4. CASE u < b.end
    <3>1. u \in b.start[i] .. EndOf(b, i) - 1
      <4>1. CASE i = l
        BY <1>1, <1>2, <2>1, <2>3, <2>4, <4>1
      <4>2. CASE i # l
        BY <2>1, <2>2, <2>3, <4>2
      <4> QED
        BY <4>1, <4>2
    <3>2. p.buffer[u % Capacity] = b.block[i] % N
      BY <1>3, <3>1 DEF PoolMatches, UnitsThere
    <3>3. b.end < u + Capacity
      BY <1>1, <1>7, <2>1, <2>3
    <3>4. u % Capacity # b.end % Capacity
      BY <1>1, <2>3, <2>4, <3>3, UnitsApart
    <3>5. u % Capacity \in Units
      BY <2>3, UnitPlace
    <3> QED
      BY <1>5, <3>2, <3>4, <3>5
  <2>5. CASE ~(u < b.end)
    <3>1. i = l
      BY <1>1, <2>2, <2>3, <2>5
    <3>2. u = b.end
      <4>1. EndOf(c, i) = b.end + 1
        BY <1>2, <3>1
      <4>2. PICK e \in Nat : e = b.end
        BY <1>1
      <4>3. u < e + 1 /\ ~(u < e) /\ u \in Nat
        BY <2>3, <2>5, <4>1, <4>2
      <4> QED
        BY <4>2, <4>3
    <3> QED
      BY <1>3, <1>5, <3>1, <3>2
  <2> QED
    BY <2>4, <2>5
<1>9. PoolMatches(q, c, x)
  <2>1. NodesMatch(q, c, x) /\ Rising(c) /\ Recent(c)
    BY <1>2, <1>3, <1>5 DEF PoolMatches, NodesMatch, Rising, Recent
  <2>2. c.start[c.tail - 1] <= c.end
    <3>1. b.start[l] \in Nat
      BY <1>1, <1>3
    <3> QED
      BY <1>0, <1>1, <1>2, <1>3, <3>1
  <2>3. c.end <= c.start[c.head] + Capacity
    <3>1. PICK s \in Nat : s = b.start[b.head]
      BY <1>1
    <3> QED
      BY <1>1, <1>2, <3>1
  <2>4. c.tail - c.head < ListLen
    BY <1>2, <1>3 DEF PoolMatches
  <2> QED
    BY <1>2, <1>3, <1>6, <1>8, <2>1, <2>2, <2>3, <2>4 DEF PoolMatches
<1>10. PoolIs(q, c, x)
  BY <1>1, <1>2, <1>9 DEF PoolIs
<1>11. CountIs(n, c, x)
  <2> SUFFICES ASSUME NEW z \in x .. x + N - 1
               PROVE  /\ \A i \in InBook(b) : b.block[i] = z => n[z % N] = EndOf(c, i) - b.start[i]
                      /\ (\A i \in InBook(b) : b.block[i] # z) => n[z % N] = 0
    BY <1>2 DEF CountIs
  <2>1. z \in Nat /\ z % N \in DataBlocks
    BY BlockPlace
  <2>2. /\ \A i \in InBook(b) : b.block[i] = z => m[z % N] = EndOf(b, i) - b.start[i]
        /\ (\A i \in InBook(b) : b.block[i] # z) => m[z % N] = 0
    BY DEF CountIs
  <2>3. CASE z = y
    <3>1. ASSUME NEW i \in InBook(b), b.block[i] = y PROVE i = l
      <4>1. i \in Nat /\ i <= l
        BY <1>2
      <4>2. i < l => b.block[i] + (l - i) <= b.block[l]
        BY <1>3 DEF PoolMatches, Rising
      <4> QED
        BY <1>3, <3>1, <4>1, <4>2
    <3>2. m[y % N] = b.end - b.start[l] /\ b.start[l] \in Nat
      BY <1>1, <1>2, <1>3, <2>2, <2>3
    <3>3. n[y % N] = m[y % N] + 1
      BY <1>1
    <3> HIDE DEF n
    <3>4. n[y % N] = b.end + 1 - b.start[l]
      BY <1>1, <3>2, <3>3
    <3>5. ASSUME NEW i \in InBook(b), b.block[i] = z PROVE n[z % N] = EndOf(c, i) - b.start[i]
      <4>1. i = l
        BY <2>3, <3>1, <3>5
      <4>2. EndOf(c, i) = b.end + 1
        BY <1>2, <4>1
      <4>3. n[z % N] = b.end + 1 - b.start[i]
        BY <2>3, <3>4, <4>1, Zenon
      <4>4. PICK d \in Nat, s \in Nat : d = b.end /\ s = b.start[i]
        BY <1>1, <1>2
      <4>5. EndOf(c, i) = d + 1 /\ n[z % N] = d + 1 - s
        BY <4>2, <4>3, <4>4
      <4> QED
        BY <4>4, <4>5
    <3>6. ~(\A i \in InBook(b) : b.block[i] # z)
      BY <1>3, <2>3
    <3> QED
      BY <3>5, <3>6
  <2>4. CASE z # y
    <3>1. z % N # y % N
      <4>1. z < y + N /\ y < z + N
        BY <1>1
      <4> QED
        BY <2>1, <2>4, <4>1, BlocksApart
    <3>2. n[z % N] = m[z % N]
      BY <1>1, <2>1, <3>1
    <3>3. \A i \in InBook(b) : b.block[i] = z => EndOf(c, i) = EndOf(b, i)
      BY <1>2, <1>3, <2>4
    <3> HIDE DEF n
    <3> QED
      BY <2>2, <3>2, <3>3
  <2> QED
    BY <2>3, <2>4
<1> QED
  BY <1>0, <1>3, <1>5, <1>10, <1>11 DEF c, q

-----------------------------------------------------------------------------
(* What the persister finds                                                *)

(* How far a node of the book is from the head of the list.                *)
LEMMA BeforeIs ==
    ASSUME NEW p \in PoolRecords, NEW h \in Nat, NEW i \in Nat, h <= i, i < h + ListLen,
           p.list_head = h % ListLen
    PROVE  ListedBefore(p, i % ListLen) = i - h
<1>1. ListLen \in Nat /\ 0 < ListLen
  BY StoreSizes
<1>2. ((i % ListLen) + ListLen - (h % ListLen)) % ListLen = i - h
  BY <1>1, ModDistance
<1> QED
  BY <1>2 DEF ListedBefore

(* The nodes of the list are those of the book.                            *)
LEMMA ListedIs ==
    ASSUME NEW p \in PoolRecords, NEW b \in Books, NEW x \in Nat, PoolMatches(p, b, x),
           NEW n \in Nodes
    PROVE  n \in Listed(p) <=> \E i \in InBook(b) : n = i % ListLen
<1>1. /\ ListLen \in Nat /\ 0 < ListLen /\ b.head \in Nat /\ b.tail \in Nat
      /\ b.head < b.tail /\ b.tail - b.head < ListLen
      /\ p.list_head = b.head % ListLen /\ p.list_tail = b.tail % ListLen
      /\ n \in Nat /\ n < ListLen
  BY StoreSizes DEF Books, PoolMatches, NodesMatch, Nodes
<1>2. PICK h \in Nat, t \in Nat : h = b.head /\ t = b.tail
  BY <1>1
<1>3. h < t /\ t < h + ListLen /\ p.list_head = h % ListLen /\ p.list_tail = t % ListLen
      /\ InBook(b) = h .. t - 1
  BY <1>1, <1>2 DEF InBook
<1>4. p.list_head # p.list_tail
  BY <1>1, <1>3, NodesApart
<1>5. ListedBefore(p, p.list_tail) = t - h
  BY <1>3, BeforeIs
<1>6. n \in Listed(p) <=> ListedBefore(p, n) < t - h
  BY <1>4, <1>5 DEF Listed
<1>7. PICK i \in Nat : h <= i /\ i < h + ListLen /\ i % ListLen = n
  BY <1>1, ModCover
<1>8. ListedBefore(p, n) = i - h
  BY <1>3, <1>7, BeforeIs
<1>9. n \in Listed(p) <=> i < t
  BY <1>6, <1>8
<1>10. ASSUME NEW j \in InBook(b), n = j % ListLen PROVE i < t
  <2>1. j \in Nat /\ h <= j /\ j < t
    BY <1>3
  <2>2. i % ListLen = j % ListLen /\ i < j + ListLen /\ j < i + ListLen
    BY <1>1, <1>3, <1>7, <1>10, <2>1
  <2>3. i = j
    BY <2>1, <2>2, NodesApart
  <2> QED
    BY <2>1, <2>3
<1>11. i < t => i \in InBook(b)
  BY <1>3, <1>7
<1> QED
  BY <1>7, <1>9, <1>10, <1>11

(* The node of data block x, or None, when no node is for a data block so  *)
(* far from x that it has the same place on the disk.                      *)
LEMMA FoundNode ==
    ASSUME NEW p \in PoolRecords, NEW b \in Books, NEW x \in Nat, PoolIs(p, b, x),
           \A i \in InBook(b) : x < b.block[i] + N /\ b.block[i] < x + N
    PROVE  /\ (\A i \in InBook(b) : b.block[i] # x) => FindNode(p, x % N) = None
           /\ \A i \in InBook(b) : b.block[i] = x => FindNode(p, x % N) = i % ListLen
<1> DEFINE id == x % N
<1>1. /\ b.head \in Nat /\ b.tail \in Nat /\ b.block \in [Nat -> Nat]
      /\ ListLen \in Nat /\ 1 < ListLen /\ id \in Nat /\ None = -1
  BY StoreSizes, BlockPlace DEF Books
<1> HIDE DEF id
<1>2. CASE b.tail = 0
  <2>1. Untouched(p) /\ InBook(b) = {}
    BY <1>1, <1>2 DEF PoolIs, InBook
  <2>2. ASSUME NEW n \in NodesOf(p, id) PROVE FALSE
    <3>1. /\ n \in Nodes /\ n \in Nat /\ n < ListLen /\ p.allocated_list[n].data_block_id = id
          /\ ListedBefore(p, n) < ListedBefore(p, 1)
      <4>1. n \in Listed(p) /\ p.allocated_list[n].data_block_id = id
        BY DEF NodesOf
      <4>2. p.list_head = 0 /\ p.list_tail = 1
        BY <2>1 DEF Untouched
      <4>3. n \in Nodes /\ ListedBefore(p, n) < ListedBefore(p, 1)
        BY <4>1, <4>2 DEF Listed
      <4> QED
        BY <1>1, <4>1, <4>3 DEF Nodes
    <3>2. p.list_head = 0 % ListLen /\ 1 % ListLen = 1 /\ n % ListLen = n
      BY <1>1, <2>1, <3>1, ModSmall DEF Untouched
    <3>3. ListedBefore(p, n % ListLen) = n - 0 /\ ListedBefore(p, 1 % ListLen) = 1 - 0
      BY <1>1, <3>1, <3>2, BeforeIs
    <3>4. n = 0
      BY <3>1, <3>2, <3>3
    <3>5. p.allocated_list[0].data_block_id = None
      BY <2>1 DEF Untouched
    <3> QED
      BY <1>1, <3>1, <3>4, <3>5
  <2>3. NodesOf(p, id) = {}
    BY <2>2
  <2> QED
    BY <2>1, <2>3 DEF FindNode, id
<1>3. CASE b.tail # 0
  <2>1. PoolMatches(p, b, x)
    BY <1>3 DEF PoolIs
  <2>2. ASSUME NEW i \in InBook(b)
        PROVE  /\ i \in Nat /\ i % ListLen \in Nodes
               /\ p.allocated_list[i % ListLen].data_block_id = id <=> b.block[i] = x
    <3>1. i \in Nat /\ i % ListLen \in Nodes
      <4>1. i \in Nat
        BY <1>1 DEF InBook
      <4> QED
        BY <4>1, NodePlace
    <3>2. p.allocated_list[i % ListLen].data_block_id = b.block[i] % N
      BY <2>1 DEF PoolMatches, NodesMatch
    <3>3. PICK y \in Nat : y = b.block[i]
      BY <1>1, <3>1
    <3>4. y % N = id => y = x
      <4>1. x < y + N /\ y < x + N
        BY <3>3
      <4> QED
        BY <4>1, BlocksApart DEF id
    <3> QED
      BY <3>1, <3>2, <3>3, <3>4 DEF id
  <2>3. ASSUME NEW n \in NodesOf(p, id)
        PROVE  \E i \in InBook(b) : n = i % ListLen /\ b.block[i] = x
    <3>1. n \in Listed(p) /\ p.allocated_list[n].data_block_id = id /\ n \in Nodes
      BY DEF NodesOf, Listed
    <3>2. PICK i \in InBook(b) : n = i % ListLen
      BY <2>1, <3>1, ListedIs
    <3> QED
      BY <2>2, <3>1, <3>2
  <2>4. ASSUME \A i \in InBook(b) : b.block[i] # x PROVE FindNode(p, id) = None
    <3>1. NodesOf(p, id) = {}
      BY <2>3, <2>4
    <3> QED
      BY <3>1 DEF FindNode
  <2>5. ASSUME NEW i \in InBook(b), b.block[i] = x PROVE FindNode(p, id) = i % ListLen
    <3>1. i % ListLen \in NodesOf(p, id)
      <4>1. i % ListLen \in Listed(p)
        BY <2>1, <2>2, ListedIs
      <4> QED
        BY <2>2, <2>5, <4>1 DEF NodesOf
    <3>2. ASSUME NEW n \in NodesOf(p, id) PROVE n = i % ListLen
      <4>1. PICK j \in InBook(b) : n = j % ListLen /\ b.block[j] = x
        BY <2>3
      <4>2. /\ i < j => b.block[i] + (j - i) <= b.block[j]
            /\ j < i => b.block[j] + (i - j) <= b.block[i]
        BY <2>1 DEF PoolMatches, Rising
      <4>3. i \in Nat /\ j \in Nat
        BY <2>2
      <4>4. i = j
        BY <2>5, <4>1, <4>2, <4>3
      <4> QED
        BY <4>1, <4>4
    <3> DEFINE Is(n) == n \in NodesOf(p, id)
                        /\ \A m \in NodesOf(p, id) : ListedBefore(p, n) <= ListedBefore(p, m)
    <3>3. FindNode(p, id) = CHOOSE n : Is(n)
      BY <3>1, Zenon DEF FindNode
    <3>4. Is(i % ListLen)
      <4>1. ListedBefore(p, i % ListLen) \in Nat
        <5>1. b.head <= i /\ i < b.head + ListLen /\ i \in Nat /\ p.list_head = b.head % ListLen
          BY <1>1, <2>1 DEF PoolMatches, NodesMatch, InBook
        <5>2. ListedBefore(p, i % ListLen) = i - b.head
          BY <1>1, <5>1, BeforeIs
        <5> QED
          BY <1>1, <5>1, <5>2
      <4>2. ASSUME NEW m \in NodesOf(p, id) PROVE ListedBefore(p, i % ListLen) <= ListedBefore(p, m)
        <5>1. m = i % ListLen
          BY <3>2
        <5> QED
          BY <4>1, <5>1
      <4> QED
        BY <3>1, <4>2
    <3>5. Is(CHOOSE n : Is(n))
      BY <3>4, Zenon
    <3> QED
      BY <3>2, <3>3, <3>5, Zenon
  <2> QED
    BY <2>4, <2>5 DEF id
<1> QED
  BY <1>2, <1>3

(* The length of what lies between two places of the buffer.               *)
LEMMA RingLength ==
    ASSUME NEW s \in Nat, NEW e \in Nat, s < e, e <= s + Capacity, NEW q \in Nat, IsPlace(q, e)
    PROVE  (IF q > s % Capacity THEN q - (s % Capacity) ELSE Capacity - (s % Capacity) + q) = e - s
<1>1. Capacity \in Nat /\ 0 < Capacity
  BY StoreSizes
<1>2. PICK a \in Nat : a = s % Capacity /\ a < Capacity
  BY <1>1, DivMod
<1>3. PICK d \in Nat : e = s + d /\ 0 < d /\ d <= Capacity
  <2>1. e - s \in Nat /\ e = s + (e - s) /\ 0 < e - s /\ e - s <= Capacity
    BY <1>1
  <2> QED
    BY <2>1
<1>4. e % Capacity = (a + d) % Capacity
  BY <1>1, <1>2, <1>3, ModAdd
<1>5. PICK f \in Nat : f = a + d
  BY <1>2, <1>3
<1>6. /\ f < Capacity => e % Capacity = f
      /\ Capacity <= f => e % Capacity = f - Capacity
  BY <1>1, <1>2, <1>3, <1>4, <1>5, ModSmall
<1>7. (IF q > a THEN q - a ELSE Capacity - a + q) = d
  <2>1. CASE f < Capacity
    <3>1. q = f
      BY <1>2, <1>3, <1>5, <1>6, <2>1 DEF IsPlace
    <3> QED
      BY <1>2, <1>3, <1>5, <3>1
  <2>2. CASE Capacity <= f
    <3>1. q = f - Capacity \/ (q = Capacity /\ f = Capacity)
      BY <1>1, <1>5, <1>6, <2>2 DEF IsPlace
    <3>2. CASE q = f - Capacity
      BY <1>1, <1>2, <1>3, <1>5, <2>2, <3>2
    <3>3. CASE q = Capacity /\ f = Capacity
      BY <1>1, <1>2, <1>3, <1>5, <3>3
    <3> QED
      BY <3>1, <3>2, <3>3
  <2> QED
    BY <1>1, <2>1, <2>2
<1> QED
  BY <1>2, <1>3, <1>7

(* Where the units of a node end, and that there are some.                 *)
LEMMA NodeEnds ==
    ASSUME NEW p \in PoolRecords, NEW b \in Books, NEW x \in Nat, PoolMatches(p, b, x),
           NEW i \in InBook(b), i = b.tail - 1 => b.start[i] < b.end
    PROVE  /\ i \in Nat /\ b.start[i] \in Nat /\ EndOf(b, i) \in Nat
           /\ b.start[i] < EndOf(b, i) /\ EndOf(b, i) <= b.start[i] + Capacity
           /\ i # b.tail - 1 => i + 1 \in InBook(b) /\ EndOf(b, i) = b.start[i + 1]
           /\ i = b.tail - 1 => EndOf(b, i) = b.end
<1>1. /\ b.head \in Nat /\ b.tail \in Nat /\ b.end \in Nat /\ b.start \in [Nat -> Nat]
      /\ Capacity \in Nat
  BY StoreSizes DEF Books
<1>2. PICK h \in Nat, l \in Nat : h = b.head /\ l = b.tail - 1 /\ i \in h .. l
  BY <1>1 DEF InBook
<1>3. h \in InBook(b) /\ l \in InBook(b)
  BY <1>1, <1>2 DEF InBook
<1>4. PICK f \in Nat, s \in Nat, z \in Nat, e \in Nat :
         f = b.start[h] /\ s = b.start[i] /\ z = b.start[l] /\ e = b.end
  <2>1. i \in Nat
    BY <1>2
  <2> QED
    BY <1>1, <2>1
<1>5. z <= e /\ e <= f + Capacity
  BY <1>2, <1>4 DEF PoolMatches
<1>6. f <= s
  <2>1. h < i => b.start[h] < b.start[i]
    BY <1>3 DEF PoolMatches, Rising
  <2>2. h = i \/ h < i
    BY <1>2
  <2> QED
    BY <1>4, <2>1, <2>2
<1>7. CASE i = l
  <2>1. EndOf(b, i) = e
    BY <1>1, <1>2, <1>4, <1>7 DEF EndOf
  <2>2. s < e
    BY <1>2, <1>4, <1>7
  <2>3. s < e /\ e <= s + Capacity
    BY <1>1, <1>5, <1>6, <2>2
  <2> QED
    BY <1>2, <1>4, <1>7, <2>1, <2>3
<1>8. CASE i # l
  <2>1. PICK j \in Nat : j = i + 1 /\ j \in InBook(b) /\ i < j /\ j <= l
    BY <1>1, <1>2, <1>8 DEF InBook
  <2>2. PICK t \in Nat : t = b.start[j]
    BY <1>1
  <2>3. EndOf(b, i) = t
    BY <1>1, <1>2, <2>1, <2>2 DEF EndOf
  <2>4. b.start[i] < b.start[j] /\ (j < l => b.start[j] < b.start[l])
    BY <1>3, <2>1 DEF PoolMatches, Rising
  <2>5. t <= z
    <3>1. j = l \/ j < l
      BY <2>1
    <3> QED
      BY <1>4, <2>2, <2>4, <3>1
  <2>6. s < t
    BY <1>4, <2>2, <2>4
  <2>7. t <= s + Capacity
    BY <1>1, <1>5, <1>6, <2>5
  <2> QED
    BY <1>2, <1>4, <1>8, <2>1, <2>2, <2>3, <2>6, <2>7
<1> QED
  BY <1>7, <1>8

(* The length that getLenOfDiskID takes from a node, and the units that    *)
(* writeIndex copies.                                                      *)
LEMMA NodeLength ==
    ASSUME NEW p \in PoolRecords, NEW b \in Books, NEW x \in Nat, PoolMatches(p, b, x),
           NEW i \in InBook(b), i = b.tail - 1 => b.start[i] < b.end,
           NEW pp \in Nat, i = b.tail - 1 => IsPlace(pp, b.end),
           ~AtArrayEnd(p, i % ListLen)
    PROVE  /\ LenOfNode(p, i % ListLen, pp) = EndOf(b, i) - b.start[i]
           /\ \A u \in UnitsOf(p, i % ListLen, EndOf(b, i) - b.start[i]) :
                  p.buffer[u] = b.block[i] % N
<1> DEFINE n == i % ListLen
<1>1. /\ b.head \in Nat /\ b.tail \in Nat /\ ListLen \in Nat /\ 0 < ListLen
      /\ b.head < b.tail /\ b.tail - b.head < ListLen /\ Capacity \in Nat /\ 0 < Capacity
      /\ b.start \in [Nat -> Nat]
  BY StoreSizes DEF Books, PoolMatches
<1>2. /\ i \in Nat /\ b.start[i] \in Nat /\ EndOf(b, i) \in Nat
      /\ b.start[i] < EndOf(b, i) /\ EndOf(b, i) <= b.start[i] + Capacity
      /\ i # b.tail - 1 => i + 1 \in InBook(b) /\ EndOf(b, i) = b.start[i + 1]
      /\ i = b.tail - 1 => EndOf(b, i) = b.end
  BY NodeEnds
<1>3. /\ n \in Nat /\ n < ListLen /\ NextNode(n) = (i + 1) % ListLen
      /\ (i + 1) % ListLen = IF n + 1 = ListLen THEN 0 ELSE n + 1
  BY <1>2, NodePlace
<1>4. /\ p.list_tail = b.tail % ListLen
      /\ p.allocated_list[n].start_offset = b.start[i] % Capacity
  BY DEF PoolMatches, NodesMatch
<1> HIDE DEF n
<1>5. PICK s \in Nat, e \in Nat : s = b.start[i] /\ e = EndOf(b, i) /\ s < e /\ e <= s + Capacity
  BY <1>2
<1>6. EndOffset(p, n, pp) \in Nat /\ IsPlace(EndOffset(p, n, pp), e)
  <2>1. CASE i = b.tail - 1
    <3>1. i + 1 = b.tail
      BY <1>1, <1>2, <2>1
    <3>2. p.list_tail = IF n + 1 = ListLen THEN 0 ELSE n + 1
      BY <1>3, <1>4, <3>1
    <3>3. n + 1 = ListLen => AtArrayEnd(p, n)
      BY <1>1, <1>3, <3>2 DEF AtArrayEnd
    <3>4. n + 1 = p.list_tail
      BY <3>2, <3>3 DEF n
    <3> QED
      BY <1>2, <1>5, <2>1, <3>4 DEF EndOffset
  <2>2. CASE i # b.tail - 1
    <3>1. PICK j \in InBook(b) : j = i + 1 /\ j \in Nat /\ EndOf(b, i) = b.start[j]
      BY <1>2, <2>2
    <3>2. PICK t \in Nat : t = b.tail /\ j < t /\ t < j + ListLen
      BY <1>1, <3>1 DEF InBook
    <3>3. t % ListLen # j % ListLen
      <4>1. t % ListLen = j % ListLen => t = j
        <5>1. t < j + ListLen /\ j < t + ListLen
          BY <1>1, <3>1, <3>2
        <5> QED
          BY <3>1, <3>2, <5>1, NodesApart
      <4> QED
        BY <3>1, <3>2, <4>1
    <3>4. p.list_tail \in Nat /\ p.list_tail < ListLen
      BY <1>1, <1>4, NodePlace
    <3>5. n + 1 # p.list_tail
      BY <1>1, <1>3, <1>4, <3>1, <3>2, <3>3, <3>4
    <3>6. EndOffset(p, n, pp) = b.start[j] % Capacity
      <4>1. p.allocated_list[j % ListLen].start_offset = b.start[j] % Capacity
        BY DEF PoolMatches, NodesMatch
      <4> QED
        BY <1>3, <3>1, <3>5, <4>1 DEF EndOffset
    <3>7. b.start[j] = e /\ b.start[j] % Capacity \in Nat
      BY <1>5, <3>1, UnitPlace
    <3> QED
      BY <3>6, <3>7 DEF IsPlace
  <2> QED
    BY <2>1, <2>2
<1>7. LenOfNode(p, n, pp) = e - s
  <2>1. PICK q \in Nat, a \in Nat : q = EndOffset(p, n, pp) /\ a = s % Capacity
    BY <1>1, <1>6, DivMod
  <2>2. (IF q > s % Capacity THEN q - (s % Capacity) ELSE Capacity - (s % Capacity) + q) = e - s
    BY <1>5, <1>6, <2>1, RingLength
  <2>3. (IF q > a THEN q - a ELSE Capacity - a + q) = e - s
    BY <2>1, <2>2
  <2>4. p.allocated_list[n].start_offset = a
    BY <1>4, <1>5, <2>1
  <2> QED
    BY <2>1, <2>3, <2>4 DEF LenOfNode
<1>8. ASSUME NEW u \in UnitsOf(p, n, e - s) PROVE p.buffer[u] = b.block[i] % N
  <2>1. PICK k \in 0 .. e - s - 1 : u = ((s % Capacity) + k) % Capacity
    BY <1>4, <1>5 DEF UnitsOf
  <2>2. k \in Nat /\ s + k \in b.start[i] .. EndOf(b, i) - 1
    BY <1>5
  <2>3. u = (s + k) % Capacity
    BY <1>1, <2>1, <2>2, ModAdd
  <2> QED
    BY <2>2, <2>3 DEF PoolMatches, UnitsThere
<1> QED
  BY <1>5, <1>7, <1>8 DEF n

(* A node becomes dirty.                                                   *)
DirtyNode(p, n) == [p EXCEPT !.allocated_list[n].dirty = TRUE]

(* A node is marked dirty.                                                 *)
LEMMA DirtyNodeIs ==
    ASSUME NEW p \in PoolRecords, NEW n \in Nodes,
           NEW q, q = DirtyNode(p, n)
    PROVE  /\ q \in PoolRecords /\ q.list_head = p.list_head /\ q.list_tail = p.list_tail
           /\ q.allocate_pos = p.allocate_pos /\ q.buffer = p.buffer
           /\ q.allocated_list[n].data_block_id = p.allocated_list[n].data_block_id
           /\ q.allocated_list[n].start_offset = p.allocated_list[n].start_offset
           /\ q.allocated_list[n].dirty
           /\ \A k \in Nodes : k # n => q.allocated_list[k] = p.allocated_list[k]
<1>1. PICK l : l = [p.allocated_list EXCEPT ![n].dirty = TRUE]
  OBVIOUS
<1>2. p.allocated_list \in [Nodes -> NodeRecords]
  BY DEF PoolRecords
<1>3. /\ l \in [Nodes -> NodeRecords]
      /\ l[n].data_block_id = p.allocated_list[n].data_block_id
      /\ l[n].start_offset = p.allocated_list[n].start_offset
      /\ l[n].dirty
      /\ \A k \in Nodes : k # n => l[k] = p.allocated_list[k]
  BY <1>1, <1>2 DEF NodeRecords
<1>4. q = [p EXCEPT !.allocated_list = l]
  BY <1>1 DEF DirtyNode
<1>5. /\ q \in PoolRecords /\ q.list_head = p.list_head /\ q.list_tail = p.list_tail
      /\ q.allocate_pos = p.allocate_pos /\ q.buffer = p.buffer /\ q.allocated_list = l
  BY <1>3, <1>4 DEF PoolRecords
<1> QED
  BY <1>3, <1>5

(* clearMeta: the pool is right for the next data block.                   *)
LEMMA RecycleKeeps ==
    ASSUME NEW p \in PoolRecords, NEW b \in Books, NEW x \in Nat, PoolIs(p, b, x),
           \A i \in InBook(b) : x < b.block[i] + N /\ b.block[i] < x + N,
           NEW m \in [DataBlocks -> Nat], CountIs(m, b, x)
    PROVE  /\ Recycle(p, x % N) \in PoolRecords
           /\ Recycle(p, x % N).allocate_pos = p.allocate_pos
           /\ PoolIs(Recycle(p, x % N), b, x + 1)
           /\ CountIs([m EXCEPT ![x % N] = 0], b, x + 1)
<1> DEFINE q == Recycle(p, x % N)
           w == [m EXCEPT ![x % N] = 0]
<1>1. /\ b.head \in Nat /\ b.tail \in Nat /\ b.block \in [Nat -> Nat]
      /\ N \in Nat /\ 0 < N /\ x % N \in DataBlocks /\ None = -1 /\ ListLen \in Nat
  BY StoreSizes, BlockPlace DEF Books
<1>2. ASSUME NEW i \in InBook(b) PROVE i \in Nat /\ b.block[i] \in Nat /\ i % ListLen \in Nodes
  <2>1. i \in Nat
    BY <1>1 DEF InBook
  <2> QED
    BY <1>1, <2>1, NodePlace
<1>3. CountIs(w, b, x + 1)
  <2> SUFFICES ASSUME NEW z \in x + 1 .. x + 1 + N - 1
               PROVE  /\ \A i \in InBook(b) : b.block[i] = z => w[z % N] = EndOf(b, i) - b.start[i]
                      /\ (\A i \in InBook(b) : b.block[i] # z) => w[z % N] = 0
    BY DEF CountIs
  <2>1. z \in Nat /\ z % N \in DataBlocks
    <3>1. z \in Nat
      BY <1>1
    <3> QED
      BY <3>1, BlockPlace
  <2>2. CASE z = x + N
    <3>1. z % N = x % N
      BY <1>1, <2>2, ModShift
    <3>2. w[z % N] = 0
      BY <1>1, <3>1
    <3>3. \A i \in InBook(b) : b.block[i] # z
      BY <1>2, <2>2
    <3> HIDE DEF w
    <3> QED
      BY <3>2, <3>3
  <2>3. CASE z # x + N
    <3>1. z \in x .. x + N - 1 /\ x < z
      <4>1. x + 1 <= z /\ z <= x + N
        BY <1>1
      <4>2. x < z /\ z <= x + N - 1
        BY <1>1, <2>1, <2>3, <4>1
      <4> QED
        BY <1>1, <2>1, <4>2
    <3>2. z % N # x % N
      <4>1. x < z + N /\ z < x + N
        BY <1>1, <3>1
      <4> QED
        BY <2>1, <3>1, <4>1, BlocksApart
    <3>3. w[z % N] = m[z % N]
      BY <1>1, <2>1, <3>2
    <3> HIDE DEF w
    <3> QED
      BY <3>1, <3>3 DEF CountIs
  <2> QED
    BY <2>2, <2>3
<1>4. CASE \A i \in InBook(b) : b.block[i] # x
  <2>1. FindNode(p, x % N) = None
    BY <1>4, FoundNode
  <2>2. q = p
    BY <2>1 DEF Recycle
  <2>3. \A i \in InBook(b) : b.block[i] < x <=> b.block[i] < x + 1
    BY <1>2, <1>4
  <2>4. PoolMatches(p, b, x) => PoolMatches(p, b, x + 1)
    BY <2>3 DEF PoolMatches, NodesMatch
  <2>5. PoolIs(p, b, x + 1)
    BY <2>4 DEF PoolIs
  <2> QED
    BY <1>3, <2>2, <2>5
<1>5. CASE \E i \in InBook(b) : b.block[i] = x
  <2>1. PICK i \in InBook(b) : b.block[i] = x
    BY <1>5
  <2>2. b.tail # 0 /\ PoolMatches(p, b, x)
    BY <1>1 DEF PoolIs, InBook
  <2>3. FindNode(p, x % N) = i % ListLen
    BY <2>1, FoundNode
  <2>4. i % ListLen \in Nodes /\ i % ListLen # None
    BY <1>1, <1>2 DEF Nodes
  <2>5. q = DirtyNode(p, i % ListLen)
    BY <2>3, <2>4 DEF Recycle, DirtyNode
  <2> HIDE DEF q
  <2>6. /\ q \in PoolRecords /\ q.list_head = p.list_head /\ q.list_tail = p.list_tail
        /\ q.allocate_pos = p.allocate_pos /\ q.buffer = p.buffer
        /\ q.allocated_list[i % ListLen].data_block_id = p.allocated_list[i % ListLen].data_block_id
        /\ q.allocated_list[i % ListLen].start_offset = p.allocated_list[i % ListLen].start_offset
        /\ q.allocated_list[i % ListLen].dirty
        /\ \A k \in Nodes : k # i % ListLen => q.allocated_list[k] = p.allocated_list[k]
    BY <2>4, <2>5, DirtyNodeIs
  <2>7. ASSUME NEW j \in InBook(b)
        PROVE  /\ q.allocated_list[j % ListLen].data_block_id = b.block[j] % N
               /\ q.allocated_list[j % ListLen].start_offset = b.start[j] % Capacity
               /\ q.allocated_list[j % ListLen].dirty <=> b.block[j] < x + 1
    <3>1. /\ p.allocated_list[j % ListLen].data_block_id = b.block[j] % N
          /\ p.allocated_list[j % ListLen].start_offset = b.start[j] % Capacity
          /\ p.allocated_list[j % ListLen].dirty <=> b.block[j] < x
      BY <2>2 DEF PoolMatches, NodesMatch
    <3>2. CASE j = i
      BY <2>1, <2>6, <3>1, <3>2
    <3>3. CASE j # i
      <4>1. j % ListLen # i % ListLen
        <5>1. i < j + ListLen /\ j < i + ListLen
          BY <1>1, <2>2 DEF PoolMatches, InBook
        <5> QED
          BY <1>2, <3>3, <5>1, NodesApart
      <4>2. q.allocated_list[j % ListLen] = p.allocated_list[j % ListLen]
        BY <1>2, <2>6, <4>1
      <4>3. b.block[j] # x
        <5>1. /\ i < j => b.block[i] + (j - i) <= b.block[j]
              /\ j < i => b.block[j] + (i - j) <= b.block[i]
          BY <2>2 DEF PoolMatches, Rising
        <5>2. i \in Nat /\ j \in Nat
          BY <1>2
        <5> QED
          BY <2>1, <3>3, <5>1, <5>2
      <4>4. b.block[j] < x <=> b.block[j] < x + 1
        BY <1>2, <4>3
      <4> QED
        BY <3>1, <4>2, <4>4
    <3> QED
      BY <3>2, <3>3
  <2>8. PoolMatches(q, b, x + 1)
    <3>1. NodesMatch(q, b, x + 1)
      BY <2>2, <2>6, <2>7 DEF PoolMatches, NodesMatch
    <3>2. UnitsThere(q, b)
      BY <2>2, <2>6 DEF PoolMatches, UnitsThere
    <3> QED
      BY <2>2, <2>6, <3>1, <3>2 DEF PoolMatches
  <2>9. PoolIs(q, b, x + 1)
    BY <2>2, <2>8 DEF PoolIs
  <2> QED
    BY <1>3, <2>6, <2>9 DEF q
<1> QED
  BY <1>4, <1>5

-----------------------------------------------------------------------------
(* A pool between the steps of its generator                               *)

(* How pool p, given the counts m, stands to book b.  Its generator makes  *)
(* indexes for data block y; it is inside allocate when stage says so.     *)
(* skip: the data block before may have no index in some pool.             *)
PartIs(p, b, m, y, x, skip, stage) ==
    /\ PoolIs(p, b, x) /\ CountIs(m, b, x)
    /\ Latest(b) <= y /\ y <= Latest(b) + 2 /\ (y = Latest(b) + 2 => skip)
    /\ (b.tail > 0 /\ stage # "take") => b.start[b.tail - 1] < b.end
    /\ stage \in {"list", "take"} => p.allocate_pos < Capacity
    /\ stage = "list" => \A i \in InBook(b) : i = b.tail - 1 \/ y < b.block[i] + C
    /\ stage = "take" =>
            b.tail > 0 /\ Latest(b) = y /\ b.end < b.start[b.head] + Capacity

(* What getLenOfDiskID has found for data block x: node nd, and place q in *)
(* the buffer where its units end if it is the last.                       *)
ScanIs(b, nd, q, x) ==
    IF nd = None THEN \A i \in InBook(b) : b.block[i] # x
    ELSE \E i \in InBook(b) : /\ nd = i % ListLen /\ b.block[i] = x
                              /\ i = b.tail - 1 => IsPlace(q, b.end)

(* The first step of allocate: dirty nodes go.                             *)
LEMMA EnterPart ==
    ASSUME NEW p \in PoolRecords, NEW b \in Books, NEW m, NEW y \in Nat, NEW x \in Nat,
           NEW skip, PartIs(p, b, m, y, x, skip, "enter"), y < x + C
    PROVE  /\ EnterAllocate(p) \in PoolRecords
           /\ \E c \in Books :
                  /\ PartIs(EnterAllocate(p), c, m, y, x, skip, "list")
                  /\ \A nd, q : ScanIs(b, nd, q, x) => ScanIs(c, nd, q, x)
<1>1. /\ b.head \in Nat /\ b.tail \in Nat /\ b.block \in [Nat -> Nat] /\ C \in Nat
      /\ PoolIs(p, b, x) /\ CountIs(m, b, x)
  BY StoreSizes DEF Books, PartIs
<1>2. /\ EnterAllocate(p) \in PoolRecords /\ EnterAllocate(p).allocate_pos < Capacity
  BY <1>1, EnterLists
<1>3. PICK h \in Nat :
        /\ b.head <= h
        /\ [b EXCEPT !.head = h] \in Books
        /\ PoolIs(EnterAllocate(p), [b EXCEPT !.head = h], x)
        /\ \A i \in b.head .. h - 1 : b.block[i] < x
        /\ \A i \in h .. b.tail - 1 : i = b.tail - 1 \/ x <= b.block[i]
        /\ b.tail > 0 => h < b.tail
  BY <1>1, EnterLists
<1> DEFINE c == [b EXCEPT !.head = h]
<1>4. CountIs(m, c, x)
  BY <1>1, <1>3, CountDropped
<1>5. /\ c \in Books /\ c.head = h /\ c.tail = b.tail /\ c.end = b.end
      /\ c.block = b.block /\ c.start = b.start
  BY <1>3 DEF Books
<1> HIDE DEF c
<1>6. Latest(c) = Latest(b)
  BY <1>5 DEF Latest
<1>7. ASSUME NEW i \in InBook(c) PROVE i = c.tail - 1 \/ y < c.block[i] + C
  <2>1. i \in Nat /\ i \in h .. b.tail - 1
    BY <1>1, <1>3, <1>5 DEF InBook
  <2>2. CASE i = b.tail - 1
    BY <1>5, <2>2
  <2>3. CASE x <= b.block[i]
    <3>1. b.block[i] \in Nat
      BY <1>1, <2>1
    <3> QED
      BY <1>1, <1>5, <2>3, <3>1
  <2> QED
    BY <1>3, <2>1, <2>2, <2>3
<1>8. PartIs(EnterAllocate(p), c, m, y, x, skip, "list")
  <2>1. PoolIs(EnterAllocate(p), c, x)
    BY <1>3 DEF c
  <2> QED
    BY <1>2, <1>4, <1>5, <1>6, <1>7, <2>1 DEF PartIs
<1>9. InBook(c) \subseteq InBook(b)
  BY <1>1, <1>3, <1>5 DEF InBook
<1>10. ASSUME NEW nd, NEW q, ScanIs(b, nd, q, x) PROVE ScanIs(c, nd, q, x)
  <2>1. CASE nd = None
    BY <1>5, <1>9, <1>10, <2>1 DEF ScanIs
  <2>2. CASE nd # None
    <3>1. PICK i \in InBook(b) : /\ nd = i % ListLen /\ b.block[i] = x
                                 /\ i = b.tail - 1 => IsPlace(q, b.end)
      BY <1>10, <2>2 DEF ScanIs
    <3>2. i \in InBook(c)
      BY <1>1, <1>3, <1>5, <3>1 DEF InBook
    <3> QED
      BY <1>5, <2>2, <3>1, <3>2 DEF ScanIs
  <2> QED
    BY <2>1, <2>2
<1> QED
  BY <1>2, <1>5, <1>8, <1>10

(* The second: the list has the node of the data block.                    *)
LEMMA ListPart ==
    ASSUME PoolRoom, NEW p \in PoolRecords, NEW b \in Books, NEW m, NEW y \in Nat, NEW x \in Nat,
           NEW skip, PartIs(p, b, m, y, x, skip, "list"), x <= y, y < x + C,
           CanList(p, y % N)
    PROVE  /\ ListUnit(p, y % N) \in PoolRecords
           /\ \E c \in Books :
                  /\ PartIs(ListUnit(p, y % N), c, m, y, x, skip, "take")
                  /\ x < y => \A nd, q : ScanIs(b, nd, q, x) => ScanIs(c, nd, q, x)
<1> DEFINE c == ListedBook(b, y)
           z == ListUnit(p, y % N)
<1>1. /\ b.head \in Nat /\ b.tail \in Nat /\ b.block \in [Nat -> Nat]
      /\ C \in Nat /\ N \in Nat /\ C < N
      /\ PoolIs(p, b, x) /\ CountIs(m, b, x) /\ p.allocate_pos < Capacity
      /\ Latest(b) <= y /\ y <= Latest(b) + 2
      /\ \A i \in InBook(b) : i = b.tail - 1 \/ y < b.block[i] + C
      /\ b.tail > 0 => b.start[b.tail - 1] < b.end
  BY StoreSizes DEF Books, PartIs
<1>2. y < x + N
  BY <1>1
<1>3. /\ z \in PoolRecords /\ z.allocate_pos < Capacity /\ c \in Books
      /\ PoolIs(z, c, x) /\ CountIs(m, c, x) /\ c.tail > 0 /\ Latest(c) = y
      /\ c.end < c.start[c.head] + Capacity
  BY <1>1, <1>2, ListKeeps
<1> HIDE DEF z, c
<1>4. PartIs(z, c, m, y, x, skip, "take")
  BY <1>3 DEF PartIs
<1>5. ASSUME x < y, NEW nd, NEW q, ScanIs(b, nd, q, x) PROVE ScanIs(c, nd, q, x)
  <2>1. CASE c = b
    BY <1>5, <2>1
  <2>2. CASE c = NodeAdded(b, y)
    <3>1. /\ c.head = b.head /\ c.tail = b.tail + 1 /\ c.block[b.tail] = y
          /\ \A i \in Nat : i # b.tail => c.block[i] = b.block[i]
      BY <2>2, NodeAddedIs
    <3>2. InBook(c) \subseteq InBook(b) \cup {b.tail} /\ InBook(b) \subseteq InBook(c)
      BY <1>1, <3>1 DEF InBook
    <3>3. ASSUME NEW i \in InBook(b) PROVE i # b.tail /\ c.block[i] = b.block[i] /\ i # c.tail - 1
      BY <1>1, <3>1 DEF InBook
    <3>4. CASE nd = None
      <4>1. ASSUME NEW i \in InBook(c) PROVE c.block[i] # x
        <5>1. CASE i = b.tail
          BY <1>5, <3>1, <5>1
        <5>2. CASE i \in InBook(b)
          BY <1>5, <3>3, <3>4, <5>2 DEF ScanIs
        <5> QED
          BY <3>2, <5>1, <5>2
      <4> QED
        BY <3>4, <4>1 DEF ScanIs
    <3>5. CASE nd # None
      <4>1. PICK i \in InBook(b) : nd = i % ListLen /\ b.block[i] = x
        BY <1>5, <3>5 DEF ScanIs
      <4>2. i \in InBook(c) /\ c.block[i] = x /\ i # c.tail - 1
        BY <3>2, <3>3, <4>1
      <4> QED
        BY <3>5, <4>1, <4>2 DEF ScanIs
    <3> QED
      BY <3>4, <3>5
  <2> QED
    BY <2>1, <2>2 DEF c, ListedBook
<1> QED
  BY <1>3, <1>4, <1>5 DEF c, z

(* One unit more for a data block.                                         *)
OneMore(m, d) == [m EXCEPT ![d] = @ + 1]

(* The third step of allocate: the index gets its unit.                   *)
LEMMA TakePart ==
    ASSUME NEW p \in PoolRecords, NEW b \in Books, NEW m \in [DataBlocks -> Nat],
           NEW y \in Nat, NEW x \in Nat,
           NEW skip, PartIs(p, b, m, y, x, skip, "take"), x <= y, y < x + C,
           NEW stage \in {"idle", "enter"}
    PROVE  /\ TakeUnit(p, y % N) \in PoolRecords
           /\ \E c \in Books :
                  /\ PartIs(TakeUnit(p, y % N), c, OneMore(m, y % N), y, x, skip, stage)
                  /\ x < y => \A nd, q : ScanIs(b, nd, q, x) => ScanIs(c, nd, q, x)
<1> DEFINE c == UnitAdded(b)
           z == TakeUnit(p, y % N)
           w == OneMore(m, y % N)
<1>1. /\ b.head \in Nat /\ b.tail \in Nat /\ b.end \in Nat /\ b.block \in [Nat -> Nat]
      /\ b.start \in [Nat -> Nat] /\ C \in Nat /\ N \in Nat /\ C < N
      /\ PoolIs(p, b, x) /\ CountIs(m, b, x) /\ p.allocate_pos < Capacity
      /\ b.tail > 0 /\ Latest(b) = y /\ b.end < b.start[b.head] + Capacity
  BY StoreSizes DEF Books, PartIs
<1>2. y < x + N
  BY <1>1
<1>3. /\ z \in PoolRecords /\ PoolIs(z, c, x) /\ CountIs(w, c, x)
      /\ b.start[b.tail - 1] <= b.end
  BY <1>1, <1>2, TakeKeeps DEF OneMore
<1>4. /\ c \in Books /\ c.tail = b.tail /\ c.end = b.end + 1
      /\ c.block = b.block /\ c.start = b.start /\ InBook(c) = InBook(b)
  BY <1>1, UnitAddedIs
<1> HIDE DEF z, c, w
<1>5. Latest(c) = y
  BY <1>1, <1>4 DEF Latest
<1>6. c.start[c.tail - 1] < c.end
  <2>1. PICK l \in Nat, s \in Nat, e \in Nat : l = b.tail - 1 /\ s = b.start[l] /\ e = b.end
    <3>1. b.tail - 1 \in Nat
      BY <1>1
    <3> QED
      BY <1>1, <3>1
  <2>2. s <= e /\ c.tail - 1 = l /\ c.start[l] = s /\ c.end = e + 1
    BY <1>3, <1>4, <2>1
  <2> QED
    BY <2>1, <2>2
<1>7. PartIs(z, c, w, y, x, skip, stage)
  BY <1>3, <1>5, <1>6 DEF PartIs
<1>8. ASSUME x < y, NEW nd, NEW q, ScanIs(b, nd, q, x) PROVE ScanIs(c, nd, q, x)
  <2>1. CASE nd = None
    BY <1>4, <1>8, <2>1 DEF ScanIs
  <2>2. CASE nd # None
    <3>1. PICK i \in InBook(b) : nd = i % ListLen /\ b.block[i] = x
      BY <1>8, <2>2 DEF ScanIs
    <3>2. i # b.tail - 1
      BY <1>1, <1>8, <3>1 DEF Latest
    <3> QED
      BY <1>4, <2>2, <3>1, <3>2 DEF ScanIs
  <2> QED
    BY <2>1, <2>2
<1> QED
  BY <1>3, <1>4, <1>7, <1>8 DEF c, z, w

(* The last node's data block is the latest.                               *)
LEMMA LatestIs ==
    ASSUME NEW p \in PoolRecords, NEW b \in Books, NEW x \in Nat, PoolIs(p, b, x),
           NEW i \in InBook(b)
    PROVE  /\ i \in Nat /\ b.block[i] \in Nat /\ b.tail # 0
           /\ Latest(b) \in Nat /\ b.block[i] <= Latest(b)
           /\ i # b.tail - 1 => b.block[i] < Latest(b)
           /\ b.block[b.tail - 1] = Latest(b)
<1>1. /\ b.head \in Nat /\ b.tail \in Nat /\ b.block \in [Nat -> Nat]
  BY DEF Books
<1>2. i \in Nat /\ b.tail # 0
  BY <1>1 DEF InBook
<1>3. PICK l \in Nat : l = b.tail - 1
  BY <1>1, <1>2
<1>4. l \in InBook(b) /\ i <= l
  BY <1>1, <1>3 DEF InBook
<1>5. Latest(b) = b.block[l]
  BY <1>2, <1>3 DEF Latest
<1>6. i < l => b.block[i] + (l - i) <= b.block[l]
  BY <1>2, <1>4 DEF PoolIs, PoolMatches, Rising
<1>7. PICK f \in Nat, g \in Nat : f = b.block[i] /\ g = b.block[l]
  BY <1>1, <1>2
<1>8. i # l => f < g
  BY <1>2, <1>4, <1>6, <1>7
<1>9. f <= g
  BY <1>7, <1>8
<1> QED
  BY <1>2, <1>3, <1>5, <1>7, <1>8, <1>9

(* The reader goes on: a pool got something for one of two data blocks.    *)
LEMMA NextPart ==
    ASSUME NEW p \in PoolRecords, NEW b \in Books, NEW m, NEW y \in Nat, NEW x \in Nat,
           NEW skip, PartIs(p, b, m, y, x, skip, "idle"), x <= y, y < x + N,
           ~(skip /\ m[y % N] = 0), NEW skip2, m[y % N] = 0 => skip2,
           NEW stage, stage \in {"idle", "enter"}
    PROVE  PartIs(p, b, m, y + 1, x, skip2, stage)
<1>1. /\ PoolIs(p, b, x) /\ CountIs(m, b, x) /\ Latest(b) <= y /\ y <= Latest(b) + 2
      /\ y = Latest(b) + 2 => skip
      /\ b.tail > 0 => b.start[b.tail - 1] < b.end
  BY DEF PartIs
<1>2. Latest(b) \in Int
  BY DEF Latest, Books
<1>3. ASSUME Latest(b) < y PROVE m[y % N] = 0
  <2>1. ASSUME NEW i \in InBook(b) PROVE b.block[i] # y
    <3>1. b.block[i] \in Nat /\ b.block[i] <= Latest(b)
      BY <1>1, LatestIs
    <3> QED
      BY <1>2, <1>3, <3>1
  <2>2. y \in x .. x + N - 1
    BY StoreSizes
  <2> QED
    BY <1>1, <2>1, <2>2 DEF CountIs
<1>4. y # Latest(b) + 2
  <2>1. CASE Latest(b) < y
    BY <1>1, <1>3, <2>1
  <2>2. CASE ~(Latest(b) < y)
    BY <1>2, <2>2
  <2> QED
    BY <2>1, <2>2
<1>5. /\ Latest(b) <= y + 1 /\ y + 1 <= Latest(b) + 2
      /\ y + 1 = Latest(b) + 2 => Latest(b) < y
  BY <1>1, <1>2, <1>4
<1> QED
  BY <1>1, <1>3, <1>5 DEF PartIs

(* While a data block is persisted, no node is for one so far from it that *)
(* it has the same number on the disk.                                     *)
LEMMA NearBlocks ==
    ASSUME PoolRoom, NEW p \in PoolRecords, NEW b \in Books, NEW m, NEW y \in Nat, NEW x \in Nat,
           NEW skip, NEW stage, PartIs(p, b, m, y, x, skip, stage), x < y, y <= x + C,
           NEW i \in InBook(b)
    PROVE  x < b.block[i] + N /\ b.block[i] < x + N
<1>1. /\ C \in Nat /\ N \in Nat /\ C < N /\ 4 <= N
      /\ PoolIs(p, b, x) /\ Latest(b) <= y /\ y <= Latest(b) + 2
  BY StoreSizes DEF PartIs, PoolRoom
<1>2. /\ i \in Nat /\ b.block[i] \in Nat /\ b.tail # 0 /\ Latest(b) \in Nat
      /\ b.block[i] <= Latest(b) /\ b.block[b.tail - 1] = Latest(b)
  BY <1>1, LatestIs
<1>3. PICK f \in Nat, g \in Nat : f = b.block[i] /\ g = Latest(b)
  BY <1>2
<1>4. f = g \/ g < f + C \/ g <= f + 2
  BY <1>1, <1>2, <1>3 DEF PoolIs, PoolMatches, Recent
<1>5. x < f + N /\ f < x + N
  BY <1>1, <1>2, <1>3, <1>4
<1> QED
  BY <1>3, <1>5

(* clearMeta: the node of the data block becomes dirty.                    *)
LEMMA ClearPart ==
    ASSUME PoolRoom, NEW p \in PoolRecords, NEW b \in Books, NEW m \in [DataBlocks -> Nat],
           NEW y \in Nat, NEW x \in Nat, NEW skip, NEW stage,
           PartIs(p, b, m, y, x, skip, stage), x < y, y <= x + C
    PROVE  /\ Recycle(p, x % N) \in PoolRecords
           /\ PartIs(Recycle(p, x % N), b, [m EXCEPT ![x % N] = 0], y, x + 1, skip, stage)
<1>1. \A i \in InBook(b) : x < b.block[i] + N /\ b.block[i] < x + N
  BY NearBlocks
<1>2. PoolIs(p, b, x) /\ CountIs(m, b, x)
  BY DEF PartIs
<1>3. /\ Recycle(p, x % N) \in PoolRecords
      /\ Recycle(p, x % N).allocate_pos = p.allocate_pos
      /\ PoolIs(Recycle(p, x % N), b, x + 1)
      /\ CountIs([m EXCEPT ![x % N] = 0], b, x + 1)
  BY <1>1, <1>2, RecycleKeeps
<1> QED
  BY <1>3 DEF PartIs

(* getLenOfDiskID finds the node of the data block.                        *)
LEMMA FindScan ==
    ASSUME PoolRoom, NEW p \in PoolRecords, NEW b \in Books, NEW m, NEW y \in Nat, NEW x \in Nat,
           NEW skip, NEW stage, PartIs(p, b, m, y, x, skip, stage), x < y, y <= x + C
    PROVE  /\ ScanIs(b, FindNode(p, x % N), p.allocate_pos, x)
           /\ FindNode(p, x % N) \in Nodes \cup {None}
<1>1. \A i \in InBook(b) : x < b.block[i] + N /\ b.block[i] < x + N
  BY NearBlocks
<1>2. PoolIs(p, b, x)
  BY DEF PartIs
<1>3. /\ (\A i \in InBook(b) : b.block[i] # x) => FindNode(p, x % N) = None
      /\ \A i \in InBook(b) : b.block[i] = x => FindNode(p, x % N) = i % ListLen
  BY <1>1, <1>2, FoundNode
<1>4. CASE \A i \in InBook(b) : b.block[i] # x
  BY <1>3, <1>4 DEF ScanIs
<1>5. CASE \E i \in InBook(b) : b.block[i] = x
  <2>1. PICK i \in InBook(b) : b.block[i] = x
    BY <1>5
  <2>2. i \in Nat /\ b.tail # 0
    BY <1>2, LatestIs
  <2>3. i % ListLen \in Nodes /\ i % ListLen # None
    BY <2>2, NodePlace, StoreSizes
  <2>4. IsPlace(p.allocate_pos, b.end)
    BY <1>2, <2>2 DEF PoolIs, PoolMatches
  <2>5. FindNode(p, x % N) = i % ListLen
    BY <1>3, <2>1
  <2> QED
    BY <2>1, <2>3, <2>4, <2>5 DEF ScanIs
<1> QED
  BY <1>4, <1>5

(* The length it returns is the number of units the data block was given,  *)
(* and those units are the data block's.                                   *)
LEMMA ScanLength ==
    ASSUME NEW p \in PoolRecords, NEW b \in Books, NEW m, NEW y \in Nat, NEW x \in Nat,
           NEW skip, NEW stage, PartIs(p, b, m, y, x, skip, stage), x < y,
           NEW nd, NEW q \in Nat, ScanIs(b, nd, q, x), nd # None => ~AtArrayEnd(p, nd)
    PROVE  /\ nd = None => m[x % N] = 0
           /\ nd # None => /\ nd \in Nodes /\ LenOfNode(p, nd, q) = m[x % N]
                           /\ \A u \in UnitsOf(p, nd, m[x % N]) : p.buffer[u] = x % N
                           /\ p.allocated_list[nd].start_offset \in 0 .. Capacity - 1
<1>1. /\ PoolIs(p, b, x) /\ CountIs(m, b, x) /\ N \in Nat /\ 0 < N
      /\ Capacity \in Nat /\ 0 < Capacity
      /\ (b.tail > 0 /\ stage # "take") => b.start[b.tail - 1] < b.end
      /\ stage = "take" => Latest(b) = y
      /\ x \in x .. x + N - 1 /\ b.tail \in Nat /\ b.start \in [Nat -> Nat]
  BY StoreSizes DEF PartIs, Books
<1>2. CASE nd = None
  <2>1. \A i \in InBook(b) : b.block[i] # x
    BY <1>2 DEF ScanIs
  <2>2. m[x % N] = 0
    BY <1>1, <2>1 DEF CountIs
  <2> QED
    BY <1>2, <2>2
<1>3. CASE nd # None
  <2>1. PICK i \in InBook(b) : /\ nd = i % ListLen /\ b.block[i] = x
                               /\ i = b.tail - 1 => IsPlace(q, b.end)
    BY <1>3 DEF ScanIs
  <2>2. i \in Nat /\ b.tail # 0 /\ b.block[b.tail - 1] = Latest(b)
    BY <1>1, LatestIs
  <2>3. PoolMatches(p, b, x)
    BY <1>1, <2>2 DEF PoolIs
  <2>4. i = b.tail - 1 => b.start[i] < b.end
    <3>1. ASSUME i = b.tail - 1 PROVE stage # "take"
      BY <1>1, <2>1, <2>2, <3>1
    <3> QED
      BY <1>1, <2>2, <3>1
  <2>5. ~AtArrayEnd(p, i % ListLen)
    BY <1>3, <2>1
  <2>6. m[x % N] = EndOf(b, i) - b.start[i]
    BY <1>1, <2>1 DEF CountIs
  <2>7. /\ LenOfNode(p, i % ListLen, q) = EndOf(b, i) - b.start[i]
        /\ \A u \in UnitsOf(p, i % ListLen, EndOf(b, i) - b.start[i]) :
               p.buffer[u] = b.block[i] % N
    BY <2>1, <2>3, <2>4, <2>5, NodeLength
  <2>8. i % ListLen \in Nodes
    BY <2>2, NodePlace
  <2>9. p.allocated_list[i % ListLen].start_offset \in 0 .. Capacity - 1
    <3>1. p.allocated_list[i % ListLen].start_offset = b.start[i] % Capacity
      BY <2>3 DEF PoolMatches, NodesMatch
    <3>2. b.start[i] \in Nat
      BY <1>1, <2>2
    <3> QED
      BY <1>1, <3>1, <3>2, UnitPlace
  <2> QED
    BY <1>3, <2>1, <2>6, <2>7, <2>8, <2>9
<1> QED
  BY <1>2, <1>3

-----------------------------------------------------------------------------
(* The whole: what readers, pools and persister make of the numbers        *)

(* The pools of a type: one for each reader.                               *)
LEMMA PartPlace ==
    ASSUME NEW r \in Readers, NEW t \in 0 .. Y - 1
    PROVE  PartOf(r, t) \in Parts /\ PartOf(r, t) % R = r
<1>1. R \in Nat /\ 0 < R /\ Y \in Nat /\ r \in Nat /\ r < R /\ t \in Nat /\ t + 1 <= Y
  BY StoreSizes DEF Readers
<1>2. PICK x \in Nat : x = t * R + r
  BY <1>1
<1>3. x % R = r
  BY <1>1, <1>2, DivModUnique
<1>4. (t + 1) * R <= Y * R
  <2>1. PICK d \in Nat : Y = t + 1 + d
    <3>1. Y - (t + 1) \in Nat /\ Y = t + 1 + (Y - (t + 1))
      BY <1>1
    <3> QED
      BY <3>1
  <2>2. Y * R = (t + 1) * R + d * R /\ d * R \in Nat /\ (t + 1) * R \in Nat
    BY <1>1, <2>1
  <2> QED
    BY <2>2
<1>5. (t + 1) * R = t * R + R /\ t * R \in Nat /\ Y * R = R * Y /\ R * Y \in Nat
  BY <1>1
<1>6. x < R * Y
  BY <1>1, <1>2, <1>4, <1>5
<1> QED
  BY <1>2, <1>3, <1>5, <1>6 DEF PartOf, Parts

(* Every part is a pool of some type and reader.                           *)
LEMMA PartHas ==
    ASSUME NEW k \in Parts
    PROVE  k % R \in Readers /\ \E t \in 0 .. Y - 1 : k = PartOf(k % R, t)
<1>1. R \in Nat /\ 0 < R /\ Y \in Nat /\ R * Y \in Nat /\ k \in Nat /\ k < R * Y
  BY StoreSizes DEF Parts
<1>2. PICK t \in Nat, r \in Nat : t = k \div R /\ r = k % R /\ r < R /\ k = t * R + r
  BY <1>1, DivMod
<1>3. t < Y
  <2> SUFFICES ASSUME Y <= t PROVE FALSE
    BY <1>1, <1>2
  <2>1. PICK d \in Nat : t = Y + d
    <3>1. t - Y \in Nat /\ t = Y + (t - Y)
      BY <1>1, <1>2
    <3> QED
      BY <3>1
  <2>2. t * R = Y * R + d * R /\ d * R \in Nat /\ Y * R = R * Y
    BY <1>1, <2>1
  <2> QED
    BY <1>1, <1>2, <2>2
<1> QED
  BY <1>1, <1>2, <1>3 DEF Readers, PartOf

(* Where the generator of part k is in its allocate.                       *)
Stage(k) == IF PoolOf(k % R) = k THEN gpc[k % R] ELSE "idle"

PersisterPlaces ==
    {"idle", "find", "measure", "reserve", "find again", "measure again", "write",
     "copy", "sort", "clear"}

StoreTypes ==
    /\ pools \in [Parts -> PoolRecords] /\ made \in [Parts -> [DataBlocks -> Nat]]
    /\ cur \in [Readers -> DataBlocks] /\ skipped \in [Readers -> BOOLEAN]
    /\ gpc \in [Readers -> {"idle", "enter", "list", "take"}]
    /\ gtodo \in [Readers -> Seq(0 .. Y - 1)]
    /\ \A r \in Readers : gpc[r] # "idle" => gtodo[r] # <<>>
    /\ next \in DataBlocks /\ ppc \in PersisterPlaces /\ part \in Parts
    /\ node \in Nodes \cup {None} /\ pos \in Places

(* The persister is at data block x, reader r at K[r], the book of part k  *)
(* is Q[k].                                                                *)
Tracked(Q, x, K) ==
    /\ next = x % N
    /\ \A r \in Readers :
          /\ cur[r] = K[r] % N /\ x <= K[r] /\ K[r] <= x + C
          /\ gpc[r] # "idle" => K[r] < x + C
          /\ ppc # "idle" => x < K[r]
    /\ \A k \in Parts : PartIs(pools[k], Q[k], made[k], K[k % R], x, skipped[k % R], Stage(k))
    /\ ppc \in {"measure", "measure again"} => ScanIs(Q[part], node, pos, x)

PoolsTracked ==
    /\ StoreTypes
    /\ \E Q \in [Parts -> Books], x \in Nat, K \in [Readers -> Nat] : Tracked(Q, x, K)

(* Outside allocate a pool is the same before and after its beginning.     *)
LEMMA StageIdle ==
    ASSUME NEW p, NEW b, NEW m, NEW y, NEW x, NEW skip, NEW s, NEW z,
           s \in {"idle", "enter"}, z \in {"idle", "enter"}, PartIs(p, b, m, y, x, skip, s)
    PROVE  PartIs(p, b, m, y, x, skip, z)
BY DEF PartIs

(* In the beginning nothing is in the books.                               *)
LEMMA StoreInit ==
    ASSUME Init PROVE PoolsTracked
<1>1. /\ R \in Nat /\ 0 < R /\ Y \in Nat /\ 0 < Y /\ N \in Nat /\ 0 < N /\ C \in Nat
      /\ ListLen \in Nat /\ 1 < ListLen /\ Capacity \in Nat /\ None = -1
      /\ 0 \in DataBlocks /\ 0 \in Places /\ 0 \in Nodes /\ 1 \in Nodes
  BY StoreSizes DEF DataBlocks, Places, Nodes
<1>2. NewPool \in PoolRecords /\ Untouched(NewPool)
  <2>1. PICK record : record = [data_block_id |-> None, start_offset |-> None, dirty |-> FALSE]
    OBVIOUS
  <2>2. record \in NodeRecords
    BY <2>1 DEF NodeRecords, NodeIds, Offsets
  <2>3. PICK l : l = [n \in Nodes |-> record]
    OBVIOUS
  <2>4. l \in [Nodes -> NodeRecords] /\ l[0] = record
    BY <1>1, <2>2, <2>3
  <2>5. PICK u \in Buffers : u = [v \in Units |-> None]
    BY DEF Buffers
  <2>6. NewPool = [buffer |-> u, allocate_pos |-> 0, allocated_list |-> l,
                   list_head |-> 0, list_tail |-> 1]
    BY <2>1, <2>3, <2>5 DEF NewPool
  <2>7. NewPool \in PoolRecords
    BY <1>1, <2>4, <2>6 DEF PoolRecords
  <2>8. /\ NewPool.list_head = 0 /\ NewPool.list_tail = 1 /\ NewPool.allocate_pos = 0
        /\ NewPool.allocated_list = l
    BY <2>6
  <2> HIDE DEF NewPool
  <2> QED
    BY <2>1, <2>4, <2>7, <2>8 DEF Untouched
<1> DEFINE b == [head |-> 0, tail |-> 0, end |-> 0, block |-> [i \in Nat |-> 0],
                 start |-> [i \in Nat |-> 0]]
<1>3. b \in Books /\ b.head = 0 /\ b.tail = 0 /\ b.end = 0
  BY DEF Books
<1> HIDE DEF b
<1>4. ASSUME NEW m, m = [d \in DataBlocks |-> 0], NEW skip, NEW stage, stage = "idle"
      PROVE  PartIs(NewPool, b, m, 0, 0, skip, stage)
  <2>1. InBook(b) = {}
    BY <1>3 DEF InBook
  <2>2. CountIs(m, b, 0)
    <3>1. \A z \in 0 .. 0 + N - 1 : m[z % N] = 0
      BY <1>1, <1>4, BlockPlace
    <3> QED
      BY <2>1, <3>1 DEF CountIs
  <2>3. Latest(b) = -1
    BY <1>3 DEF Latest
  <2>4. PoolIs(NewPool, b, 0)
    BY <1>2, <1>3 DEF PoolIs
  <2> QED
    BY <1>3, <1>4, <2>2, <2>3, <2>4 DEF PartIs
<1> DEFINE Q == [k \in Parts |-> b]
           K == [r \in Readers |-> 0]
<1>5. Q \in [Parts -> Books] /\ K \in [Readers -> Nat]
  BY <1>3
<1>6. StoreTypes
  <2>1. 0 \in Parts
    <3>1. R * Y \in Nat /\ 0 < R * Y
      BY <1>1
    <3> QED
      BY <3>1 DEF Parts
  <2> QED
    BY <1>1, <1>2, <2>1 DEF StoreTypes, Init, PersisterPlaces
<1>7. Tracked(Q, 0, K)
  <2>1. 0 % N = 0
    BY <1>1, ModSmall
  <2>2. ASSUME NEW k \in Parts
        PROVE  PartIs(pools[k], Q[k], made[k], K[k % R], 0, skipped[k % R], Stage(k))
    <3>1. k % R \in Readers
      BY PartHas
    <3>2. /\ pools[k] = NewPool /\ Q[k] = b /\ made[k] = [d \in DataBlocks |-> 0]
          /\ K[k % R] = 0 /\ Stage(k) = "idle"
      BY <3>1 DEF Init, Stage
    <3> HIDE DEF Q, K
    <3> QED
      BY <1>4, <3>2
  <2>3. ASSUME NEW r \in Readers
        PROVE  /\ cur[r] = K[r] % N /\ 0 <= K[r] /\ K[r] <= 0 + C
               /\ gpc[r] # "idle" => K[r] < 0 + C
    <3>1. cur[r] = 0 /\ K[r] = 0 /\ gpc[r] = "idle"
      BY DEF Init
    <3> HIDE DEF K
    <3> QED
      BY <1>1, <2>1, <3>1
  <2>4. next = 0 % N /\ ppc = "idle"
    BY <2>1 DEF Init
  <2> HIDE DEF Q, K
  <2> QED
    BY <2>2, <2>3, <2>4, Zenon DEF Tracked
<1> HIDE DEF Q, K
<1>8. 0 \in Nat
  OBVIOUS
<1> QED
  BY <1>5, <1>6, <1>7, <1>8, Zenon DEF PoolsTracked

-----------------------------------------------------------------------------
(* The generators                                                          *)

(* A generator's step in pool k0 leaves everything where it was when the   *)
(* pool still fits some book.                                              *)
LEMMA PoolStep ==
    ASSUME NEW Q \in [Parts -> Books], NEW x \in Nat, NEW K \in [Readers -> Nat],
           Tracked(Q, x, K), NEW k0 \in Parts, NEW c \in Books,
           PartIs(pools'[k0], c, made'[k0], K[k0 % R], x, skipped[k0 % R], Stage(k0)'),
           x < K[k0 % R] => \A nd, q : ScanIs(Q[k0], nd, q, x) => ScanIs(c, nd, q, x),
           \A k \in Parts : k # k0 =>
               /\ pools'[k] = pools[k] /\ made'[k] = made[k]
               /\ \/ Stage(k)' = Stage(k)
                  \/ Stage(k) \in {"idle", "enter"} /\ Stage(k)' \in {"idle", "enter"},
           UNCHANGED <<cur, skipped, next, ppc, part, node, pos>>,
           part \in Parts,
           \A s \in Readers : gpc'[s] # "idle" => gpc[s] # "idle"
    PROVE  /\ [Q EXCEPT ![k0] = c] \in [Parts -> Books]
           /\ Tracked([Q EXCEPT ![k0] = c], x, K)'
<1> DEFINE W == [Q EXCEPT ![k0] = c]
<1>1. /\ W \in [Parts -> Books] /\ W[k0] = c /\ \A k \in Parts : k # k0 => W[k] = Q[k]
  OBVIOUS
<1> HIDE DEF W
<1>2. /\ next = x % N
      /\ \A s \in Readers :
            /\ cur[s] = K[s] % N /\ x <= K[s] /\ K[s] <= x + C
            /\ gpc[s] # "idle" => K[s] < x + C
            /\ ppc # "idle" => x < K[s]
      /\ \A k \in Parts :
            PartIs(pools[k], Q[k], made[k], K[k % R], x, skipped[k % R], Stage(k))
      /\ ppc \in {"measure", "measure again"} => ScanIs(Q[part], node, pos, x)
  BY Zenon DEF Tracked
<1>3. /\ cur' = cur /\ skipped' = skipped /\ next' = next /\ ppc' = ppc /\ part' = part
      /\ node' = node /\ pos' = pos
  OBVIOUS
<1>4. ASSUME NEW k \in Parts
      PROVE  PartIs(pools'[k], W[k], made'[k], K[k % R], x, skipped'[k % R], Stage(k)')
  <2>1. CASE k = k0
    BY <1>1, <1>3, <2>1, Zenon
  <2>2. CASE k # k0
    <3>1. PartIs(pools[k], Q[k], made[k], K[k % R], x, skipped[k % R], Stage(k))
      BY <1>2
    <3>2. pools'[k] = pools[k] /\ made'[k] = made[k] /\ W[k] = Q[k] /\ skipped' = skipped
      BY <1>1, <1>3, <2>2
    <3>3. CASE Stage(k)' = Stage(k)
      BY <3>1, <3>2, <3>3, Zenon
    <3>4. CASE Stage(k) \in {"idle", "enter"} /\ Stage(k)' \in {"idle", "enter"}
      <4>1. PartIs(pools[k], Q[k], made[k], K[k % R], x, skipped[k % R], Stage(k)')
        BY <3>1, <3>4, StageIdle, Zenon
      <4> QED
        BY <3>2, <4>1, Zenon
    <3> QED
      BY <2>2, <3>3, <3>4, Zenon
  <2> QED
    BY <2>1, <2>2
<1>5. ASSUME ppc' \in {"measure", "measure again"}
      PROVE  ScanIs(W[part'], node', pos', x)
  <2>1. ppc \in {"measure", "measure again"} /\ ScanIs(Q[part], node, pos, x)
    BY <1>2, <1>3, <1>5, Zenon
  <2>2. CASE part = k0
    <3>1. k0 % R \in Readers /\ ppc # "idle"
      BY <2>1, PartHas
    <3>2. x < K[k0 % R]
      BY <1>2, <3>1
    <3> QED
      BY <1>1, <1>3, <2>1, <2>2, <3>2, Zenon
  <2>3. CASE part # k0
    BY <1>1, <1>3, <2>1, <2>3, Zenon
  <2> QED
    BY <2>2, <2>3, Zenon
<1>6. ASSUME NEW s \in Readers
      PROVE  /\ cur'[s] = K[s] % N /\ x <= K[s] /\ K[s] <= x + C
             /\ gpc'[s] # "idle" => K[s] < x + C
             /\ ppc' # "idle" => x < K[s]
  BY <1>2, <1>3, Zenon
<1>7. next' = x % N
  BY <1>2, <1>3
<1>8. Tracked(W, x, K)'
  BY <1>4, <1>5, <1>6, <1>7, Zenon DEF Tracked
<1> QED
  BY <1>1, <1>8 DEF W

(* A queue without its head.                                               *)
LEMMA HeadTail ==
    ASSUME NEW S1, NEW q \in Seq(S1), q # <<>>
    PROVE  /\ Head(q) \in S1 /\ Tail(q) \in Seq(S1)
           /\ Len(q) > 1 => Tail(q) # <<>>
<1>1. Len(q) \in Nat /\ Len(q) > 0
  OBVIOUS
<1>2. Head(q) = q[1] /\ q[1] \in S1
  BY <1>1
<1>3. Tail(q) \in Seq(S1) /\ Len(Tail(q)) = Len(q) - 1
  BY <1>1
<1>4. Len(q) > 1 => Tail(q) # <<>>
  <2>1. Len(<<>>) = 0
    OBVIOUS
  <2>2. Len(q) > 1 => Len(Tail(q)) # 0
    BY <1>1, <1>3
  <2> QED
    BY <2>1, <2>2, Zenon
<1> QED
  BY <1>2, <1>3, <1>4, Zenon

(* The part a generator is in, and the stages of the others when it moves. *)
LEMMA ThisPart ==
    ASSUME StoreTypes, NEW r \in Readers, gpc[r] # "idle"
    PROVE  /\ gtodo[r] # <<>> /\ gtodo[r] \in Seq(0 .. Y - 1)
           /\ Head(gtodo[r]) \in 0 .. Y - 1
           /\ PoolOf(r) \in Parts /\ PoolOf(r) % R = r /\ Stage(PoolOf(r)) = gpc[r]
           /\ pools[PoolOf(r)] \in PoolRecords
           /\ made[PoolOf(r)] \in [DataBlocks -> Nat]
<1>1. gtodo[r] # <<>> /\ gtodo[r] \in Seq(0 .. Y - 1)
  BY DEF StoreTypes
<1>2. Head(gtodo[r]) \in 0 .. Y - 1
  BY <1>1, HeadTail, Zenon
<1>3. PoolOf(r) \in Parts /\ PoolOf(r) % R = r
  BY <1>2, PartPlace DEF PoolOf
<1>4. Stage(PoolOf(r)) = gpc[r]
  BY <1>3, Zenon DEF Stage
<1> QED
  BY <1>1, <1>2, <1>3, <1>4 DEF StoreTypes

(* The stage of the other parts when a generator moves.                    *)
LEMMA OtherParts ==
    ASSUME StoreTypes, NEW r \in Readers, gpc[r] # "idle", NEW g,
           gpc' = [gpc EXCEPT ![r] = g],
           \A s \in Readers : s # r => gtodo'[s] = gtodo[s],
           gtodo'[r] = gtodo[r] \/ g \in {"idle", "enter"},
           NEW k \in Parts, k # PoolOf(r)
    PROVE  \/ Stage(k)' = Stage(k)
           \/ Stage(k) \in {"idle", "enter"} /\ Stage(k)' \in {"idle", "enter"}
<1>1. gpc'[r] = g /\ \A s \in Readers : s # r => gpc'[s] = gpc[s]
  BY DEF StoreTypes
<1>2. k % R \in Readers
  BY PartHas
<1>3. CASE k % R # r
  <2>1. gpc'[k % R] = gpc[k % R] /\ gtodo'[k % R] = gtodo[k % R]
    BY <1>1, <1>2, <1>3
  <2>2. PoolOf(k % R)' = PoolOf(k % R)
    BY <2>1 DEF PoolOf
  <2> QED
    BY <2>1, <2>2 DEF Stage
<1>4. CASE k % R = r
  <2>1. Stage(k) = "idle"
    BY <1>4 DEF Stage
  <2>2. CASE gtodo'[r] = gtodo[r]
    <3>1. PoolOf(k % R)' = PoolOf(r)
      BY <1>4, <2>2 DEF PoolOf
    <3> QED
      BY <2>1, <3>1 DEF Stage
  <2>3. CASE g \in {"idle", "enter"}
    BY <1>1, <1>4, <2>1, <2>3 DEF Stage
  <2> QED
    BY <2>2, <2>3
<1> QED
  BY <1>3, <1>4

(* The step of a generator in its pool.                                    *)
LEMMA GeneratorStep ==
    ASSUME StoreTypes, NEW Q \in [Parts -> Books], NEW x \in Nat, NEW K \in [Readers -> Nat],
           Tracked(Q, x, K), NEW r \in Readers, gpc[r] # "idle",
           NEW k0, k0 = PoolOf(r), NEW z \in PoolRecords,
           pools' = [pools EXCEPT ![k0] = z],
           NEW m \in [DataBlocks -> Nat], made' = [made EXCEPT ![k0] = m],
           NEW g \in {"idle", "enter", "list", "take"}, gpc' = [gpc EXCEPT ![r] = g],
           gtodo' \in [Readers -> Seq(0 .. Y - 1)],
           \A s \in Readers : s # r => gtodo'[s] = gtodo[s],
           gtodo'[r] = gtodo[r] \/ g \in {"idle", "enter"},
           g # "idle" => gtodo'[r] # <<>>,
           \E c \in Books :
               /\ PartIs(z, c, m, K[r], x, skipped[r], Stage(k0)')
               /\ x < K[r] => \A nd, q : ScanIs(Q[k0], nd, q, x) => ScanIs(c, nd, q, x),
           UNCHANGED <<cur, skipped, next, ppc, part, node, pos>>
    PROVE  StoreTypes' /\ \E W \in [Parts -> Books] : Tracked(W, x, K)'
<1>1. k0 \in Parts /\ k0 % R = r
  BY ThisPart
<1>2. /\ pools'[k0] = z /\ made'[k0] = m
      /\ \A k \in Parts : k # k0 => pools'[k] = pools[k] /\ made'[k] = made[k]
      /\ pools' \in [Parts -> PoolRecords] /\ made' \in [Parts -> [DataBlocks -> Nat]]
      /\ gpc'[r] = g /\ \A s \in Readers : s # r => gpc'[s] = gpc[s]
      /\ gpc' \in [Readers -> {"idle", "enter", "list", "take"}]
  BY <1>1 DEF StoreTypes
<1>3. PICK c \in Books :
        /\ PartIs(z, c, m, K[r], x, skipped[r], Stage(k0)')
        /\ x < K[r] => \A nd, q : ScanIs(Q[k0], nd, q, x) => ScanIs(c, nd, q, x)
  OBVIOUS
<1>4. \A k \in Parts : k # k0 =>
               /\ pools'[k] = pools[k] /\ made'[k] = made[k]
               /\ \/ Stage(k)' = Stage(k)
                  \/ Stage(k) \in {"idle", "enter"} /\ Stage(k)' \in {"idle", "enter"}
  <2> SUFFICES ASSUME NEW k \in Parts, k # k0
               PROVE  \/ Stage(k)' = Stage(k)
                      \/ Stage(k) \in {"idle", "enter"} /\ Stage(k)' \in {"idle", "enter"}
    BY <1>2, Zenon
  <2> QED
    BY OtherParts, Zenon
<1>5. \A s \in Readers : gpc'[s] # "idle" => gpc[s] # "idle"
  BY <1>2, Zenon
<1>6. part \in Parts
  BY DEF StoreTypes
<1>7. PartIs(pools'[k0], c, made'[k0], K[k0 % R], x, skipped[k0 % R], Stage(k0)')
  BY <1>1, <1>2, <1>3, Zenon
<1>8. x < K[k0 % R] => \A nd, q : ScanIs(Q[k0], nd, q, x) => ScanIs(c, nd, q, x)
  BY <1>1, <1>3, Zenon
<1>9. /\ [Q EXCEPT ![k0] = c] \in [Parts -> Books]
      /\ Tracked([Q EXCEPT ![k0] = c], x, K)'
  BY <1>1, <1>4, <1>5, <1>6, <1>7, <1>8, PoolStep
<1>10. StoreTypes'
  <2>1. \A s \in Readers : gpc'[s] # "idle" => gtodo'[s] # <<>>
    BY <1>2 DEF StoreTypes
  <2> QED
    BY <1>2, <2>1 DEF StoreTypes
<1> QED
  BY <1>9, <1>10

(* What the book says of a generator's part.                               *)
LEMMA ThisPartIs ==
    ASSUME StoreTypes, NEW Q \in [Parts -> Books], NEW x \in Nat, NEW K \in [Readers -> Nat],
           Tracked(Q, x, K), NEW r \in Readers, gpc[r] # "idle"
    PROVE  /\ PartIs(pools[PoolOf(r)], Q[PoolOf(r)], made[PoolOf(r)], K[r], x, skipped[r], gpc[r])
           /\ K[r] \in Nat /\ x <= K[r] /\ K[r] < x + C /\ cur[r] = K[r] % N
           /\ Q[PoolOf(r)] \in Books
<1>1. PoolOf(r) \in Parts /\ PoolOf(r) % R = r /\ Stage(PoolOf(r)) = gpc[r]
  BY ThisPart
<1>2. \A k \in Parts : PartIs(pools[k], Q[k], made[k], K[k % R], x, skipped[k % R], Stage(k))
  BY Zenon DEF Tracked
<1>3. PartIs(pools[PoolOf(r)], Q[PoolOf(r)], made[PoolOf(r)], K[r], x, skipped[r], gpc[r])
  BY <1>1, <1>2, Zenon
<1>4. x <= K[r] /\ K[r] < x + C /\ cur[r] = K[r] % N
  BY DEF Tracked
<1> QED
  BY <1>1, <1>3, <1>4

(* While gtodo stays, the stage of a generator's part is its gpc.          *)
LEMMA StageStays ==
    ASSUME StoreTypes, NEW r \in Readers, gpc[r] # "idle", UNCHANGED gtodo, NEW g,
           gpc' = [gpc EXCEPT ![r] = g], NEW k0, k0 = PoolOf(r)
    PROVE  Stage(k0)' = g
<1>1. k0 % R = r
  BY ThisPart
<1>2. gpc'[r] = g
  BY DEF StoreTypes
<1>3. PoolOf(k0 % R)' = k0
  BY <1>1 DEF PoolOf
<1> QED
  BY <1>1, <1>2, <1>3 DEF Stage

(* AllocateEnters keeps the books.                                         *)
LEMMA EnterStep ==
    ASSUME StoreTypes, NEW Q \in [Parts -> Books], NEW x \in Nat, NEW K \in [Readers -> Nat],
           Tracked(Q, x, K), NEW r \in Readers, AllocateEnters(r)
    PROVE  StoreTypes' /\ \E W \in [Parts -> Books] : Tracked(W, x, K)'
<1>1. PICK k0 : k0 = PoolOf(r)
  OBVIOUS
<1>2. PICK p, m : p = pools[k0] /\ m = made[k0]
  OBVIOUS
<1>3. PICK z, g : z = EnterAllocate(p) /\ g = "list"
  OBVIOUS
<1>4. /\ gpc[r] = "enter" /\ pools' = [pools EXCEPT ![k0] = z]
      /\ gpc' = [gpc EXCEPT ![r] = g] /\ gpc[r] # "idle"
      /\ gtodo' = gtodo /\ made' = made
      /\ UNCHANGED <<cur, skipped, next, ppc, part, node, pos>>
  BY <1>1, <1>2, <1>3 DEF AllocateEnters, persistVars, scanVars
<1>5. /\ p \in PoolRecords /\ m \in [DataBlocks -> Nat] /\ k0 \in Parts /\ gtodo[r] # <<>>
  BY <1>1, <1>2, <1>4, ThisPart
<1>6. /\ PartIs(p, Q[k0], m, K[r], x, skipped[r], "enter")
      /\ K[r] \in Nat /\ K[r] < x + C /\ Q[k0] \in Books
  BY <1>1, <1>2, <1>4, ThisPartIs
<1>7. /\ z \in PoolRecords
      /\ \E c \in Books :
             /\ PartIs(z, c, m, K[r], x, skipped[r], "list")
             /\ \A nd, q : ScanIs(Q[k0], nd, q, x) => ScanIs(c, nd, q, x)
  BY <1>3, <1>5, <1>6, EnterPart, Zenon
<1>8. Stage(k0)' = "list"
  BY <1>1, <1>3, <1>4, StageStays
<1>9. made' = [made EXCEPT ![k0] = m] /\ gtodo' \in [Readers -> Seq(0 .. Y - 1)]
  BY <1>2, <1>4, <1>5 DEF StoreTypes
<1>10. /\ g \in {"idle", "enter", "list", "take"}
       /\ \A s \in Readers : s # r => gtodo'[s] = gtodo[s]
       /\ gtodo'[r] = gtodo[r] /\ gtodo'[r] # <<>>
  BY <1>3, <1>4, <1>5
<1>11. \E c \in Books :
           /\ PartIs(z, c, m, K[r], x, skipped[r], Stage(k0)')
           /\ x < K[r] => \A nd, q : ScanIs(Q[k0], nd, q, x) => ScanIs(c, nd, q, x)
  BY <1>7, <1>8, Zenon
<1>12. gtodo'[r] = gtodo[r] \/ g \in {"idle", "enter"}
  BY <1>10
<1>13. g # "idle" => gtodo'[r] # <<>>
  BY <1>10
<1>14. z \in PoolRecords
  BY <1>7
<1> QED
  BY <1>1, <1>4, <1>5, <1>9, <1>10, <1>11, <1>12, <1>13, <1>14, GeneratorStep, Zenon

(* AllocateLists: the book may get a node.                                 *)
LEMMA ListStep ==
    ASSUME PoolRoom, StoreTypes, NEW Q \in [Parts -> Books], NEW x \in Nat,
           NEW K \in [Readers -> Nat], Tracked(Q, x, K), NEW r \in Readers, AllocateLists(r)
    PROVE  StoreTypes' /\ \E W \in [Parts -> Books] : Tracked(W, x, K)'
<1>1. PICK k0 : k0 = PoolOf(r)
  OBVIOUS
<1>2. PICK p, m : p = pools[k0] /\ m = made[k0]
  OBVIOUS
<1>3. PICK z, g : z = ListUnit(p, cur[r]) /\ g = "take"
  OBVIOUS
<1>4. /\ gpc[r] = "list" /\ pools' = [pools EXCEPT ![k0] = z]
      /\ gpc' = [gpc EXCEPT ![r] = g] /\ gpc[r] # "idle"
      /\ gtodo' = gtodo /\ made' = made /\ CanList(p, cur[r])
      /\ UNCHANGED <<cur, skipped, next, ppc, part, node, pos>>
  BY <1>1, <1>2, <1>3 DEF AllocateLists, persistVars, scanVars
<1>5. /\ p \in PoolRecords /\ m \in [DataBlocks -> Nat] /\ k0 \in Parts /\ gtodo[r] # <<>>
  BY <1>1, <1>2, <1>4, ThisPart
<1>6. /\ PartIs(p, Q[k0], m, K[r], x, skipped[r], "list") /\ cur[r] = K[r] % N
      /\ K[r] \in Nat /\ x <= K[r] /\ K[r] < x + C /\ Q[k0] \in Books
  BY <1>1, <1>2, <1>4, ThisPartIs
<1>7. /\ z \in PoolRecords
      /\ \E c \in Books :
             /\ PartIs(z, c, m, K[r], x, skipped[r], "take")
             /\ x < K[r] => \A nd, q : ScanIs(Q[k0], nd, q, x) => ScanIs(c, nd, q, x)
  <2>1. PICK y \in Nat : y = K[r] /\ x <= y /\ y < x + C /\ cur[r] = y % N
    BY <1>6
  <2>2. z = ListUnit(p, y % N) /\ CanList(p, y % N)
    BY <1>3, <1>4, <2>1
  <2>3. PartIs(p, Q[k0], m, y, x, skipped[r], "list")
    BY <1>6, <2>1
  <2>4. /\ ListUnit(p, y % N) \in PoolRecords
        /\ \E c \in Books :
             /\ PartIs(ListUnit(p, y % N), c, m, y, x, skipped[r], "take")
             /\ x < y => \A nd, q : ScanIs(Q[k0], nd, q, x) => ScanIs(c, nd, q, x)
    BY <1>5, <1>6, <2>1, <2>2, <2>3, ListPart, Zenon
  <2> QED
    BY <2>1, <2>2, <2>4, Zenon
<1>8. Stage(k0)' = "take"
  BY <1>1, <1>3, <1>4, StageStays
<1>9. made' = [made EXCEPT ![k0] = m] /\ gtodo' \in [Readers -> Seq(0 .. Y - 1)]
  BY <1>2, <1>4, <1>5 DEF StoreTypes
<1>10. /\ g \in {"idle", "enter", "list", "take"}
       /\ \A s \in Readers : s # r => gtodo'[s] = gtodo[s]
       /\ gtodo'[r] = gtodo[r] /\ gtodo'[r] # <<>>
  BY <1>3, <1>4, <1>5
<1>11. \E c \in Books :
           /\ PartIs(z, c, m, K[r], x, skipped[r], Stage(k0)')
           /\ x < K[r] => \A nd, q : ScanIs(Q[k0], nd, q, x) => ScanIs(c, nd, q, x)
  BY <1>7, <1>8, Zenon
<1>12. gtodo'[r] = gtodo[r] \/ g \in {"idle", "enter"}
  BY <1>10
<1>13. g # "idle" => gtodo'[r] # <<>>
  BY <1>10
<1>14. z \in PoolRecords
  BY <1>7
<1> QED
  BY <1>1, <1>4, <1>5, <1>9, <1>10, <1>11, <1>12, <1>13, <1>14, GeneratorStep, Zenon

(* AllocateTakes: the book gets a unit.                                    *)
LEMMA TakeStep ==
    ASSUME StoreTypes, NEW Q \in [Parts -> Books], NEW x \in Nat,
           NEW K \in [Readers -> Nat], Tracked(Q, x, K), NEW r \in Readers, AllocateTakes(r)
    PROVE  StoreTypes' /\ \E W \in [Parts -> Books] : Tracked(W, x, K)'
<1>1. PICK k0 : k0 = PoolOf(r)
  OBVIOUS
<1>2. PICK p, n, g, d : /\ p = pools[k0] /\ n = made[k0] /\ d = cur[r]
                        /\ g = IF Len(gtodo[r]) > 1 THEN "enter" ELSE "idle"
  OBVIOUS
<1>3. PICK z, m : z = TakeUnit(p, d) /\ m = [n EXCEPT ![d] = @ + 1]
  OBVIOUS
<1>4. /\ gpc[r] = "take" /\ pools' = [pools EXCEPT ![k0] = z]
      /\ gpc' = [gpc EXCEPT ![r] = g] /\ gpc[r] # "idle"
      /\ gtodo' = [gtodo EXCEPT ![r] = Tail(@)] /\ g \in {"idle", "enter"}
      /\ UNCHANGED <<cur, skipped, next, ppc, part, node, pos>>
  BY <1>1, <1>2, <1>3 DEF AllocateTakes, persistVars, scanVars
<1>5. /\ p \in PoolRecords /\ n \in [DataBlocks -> Nat] /\ k0 \in Parts /\ k0 % R = r
      /\ gtodo[r] # <<>> /\ gtodo[r] \in Seq(0 .. Y - 1)
  BY <1>1, <1>2, <1>4, ThisPart
<1>6. /\ PartIs(p, Q[k0], n, K[r], x, skipped[r], "take") /\ cur[r] = K[r] % N
      /\ K[r] \in Nat /\ x <= K[r] /\ K[r] < x + C /\ Q[k0] \in Books
  BY <1>1, <1>2, <1>4, ThisPartIs
<1>7. gpc'[r] = g
  BY <1>4 DEF StoreTypes
<1>8. Stage(k0)' \in {"idle", "enter"}
  BY <1>4, <1>5, <1>7 DEF Stage
<1>9. /\ z \in PoolRecords
      /\ \E c \in Books :
             /\ PartIs(z, c, m, K[r], x, skipped[r], Stage(k0)')
             /\ x < K[r] => \A nd, q : ScanIs(Q[k0], nd, q, x) => ScanIs(c, nd, q, x)
  <2>1. PICK y \in Nat : y = K[r] /\ x <= y /\ y < x + C /\ cur[r] = y % N
    BY <1>6
  <2>2. z = TakeUnit(p, y % N) /\ m = OneMore(n, y % N)
    BY <1>2, <1>3, <2>1 DEF OneMore
  <2>3. PartIs(p, Q[k0], n, y, x, skipped[r], "take")
    BY <1>6, <2>1
  <2>4. PICK t \in {"idle", "enter"} : t = Stage(k0)'
    BY <1>8
  <2>5. /\ TakeUnit(p, y % N) \in PoolRecords
        /\ \E c \in Books :
             /\ PartIs(TakeUnit(p, y % N), c, m, y, x, skipped[r], t)
             /\ x < y => \A nd, q : ScanIs(Q[k0], nd, q, x) => ScanIs(c, nd, q, x)
    <3>1. PICK sk : sk = skipped[r]
      OBVIOUS
    <3>4. PICK b \in Books : b = Q[k0]
      BY <1>6
    <3>2. p \in PoolRecords /\ n \in [DataBlocks -> Nat] /\ PartIs(p, b, n, y, x, sk, "take")
      BY <1>5, <2>3, <3>1, <3>4
    <3>3. /\ TakeUnit(p, y % N) \in PoolRecords
          /\ \E c \in Books :
                /\ PartIs(TakeUnit(p, y % N), c, m, y, x, sk, t)
                /\ x < y => \A nd, q : ScanIs(b, nd, q, x) => ScanIs(c, nd, q, x)
      BY <2>1, <2>2, <3>2, TakePart
    <3> QED
      BY <3>1, <3>3, <3>4
  <2> QED
    BY <2>1, <2>2, <2>4, <2>5, Zenon
<1>10. m \in [DataBlocks -> Nat]
  <2>1. d \in DataBlocks
    BY <1>2 DEF StoreTypes
  <2> QED
    BY <1>3, <1>5, <2>1
<1>11. made' = [made EXCEPT ![k0] = m]
  BY <1>1, <1>2, <1>3, <1>5 DEF AllocateTakes, StoreTypes
<1>12. /\ gtodo' \in [Readers -> Seq(0 .. Y - 1)]
       /\ \A s \in Readers : s # r => gtodo'[s] = gtodo[s]
       /\ g # "idle" => gtodo'[r] # <<>>
  <2>1. Tail(gtodo[r]) \in Seq(0 .. Y - 1) /\ (Len(gtodo[r]) > 1 => Tail(gtodo[r]) # <<>>)
    BY <1>5, HeadTail, Zenon
  <2>2. gtodo'[r] = Tail(gtodo[r])
    BY <1>4 DEF StoreTypes
  <2>3. g # "idle" => Len(gtodo[r]) > 1
    BY <1>2
  <2> QED
    BY <1>4, <2>1, <2>2, <2>3 DEF StoreTypes
<1>13. g \in {"idle", "enter", "list", "take"}
  BY <1>4
<1> QED
  BY <1>1, <1>4, <1>9, <1>10, <1>11, <1>12, <1>13, GeneratorStep

(* A step that leaves the pools and the readers' data blocks alone.        *)
LEMMA SamePools ==
    ASSUME NEW Q \in [Parts -> Books], NEW x \in Nat, NEW K \in [Readers -> Nat],
           Tracked(Q, x, K), UNCHANGED <<pools, made, cur, skipped, next>>,
           \A k \in Parts :
               \/ Stage(k)' = Stage(k)
               \/ Stage(k) \in {"idle", "enter"} /\ Stage(k)' \in {"idle", "enter"},
           \A s \in Readers : gpc'[s] # "idle" => K[s] < x + C,
           ppc' # "idle" => \A s \in Readers : x < K[s],
           ppc' \in {"measure", "measure again"} => ScanIs(Q[part'], node', pos', x)
    PROVE  Tracked(Q, x, K)'
<1>1. /\ pools' = pools /\ made' = made /\ cur' = cur /\ skipped' = skipped /\ next' = next
  OBVIOUS
<1>2. /\ next = x % N
      /\ \A s \in Readers : cur[s] = K[s] % N /\ x <= K[s] /\ K[s] <= x + C
      /\ \A k \in Parts :
            PartIs(pools[k], Q[k], made[k], K[k % R], x, skipped[k % R], Stage(k))
  BY Zenon DEF Tracked
<1>3. ASSUME NEW k \in Parts
      PROVE  PartIs(pools'[k], Q[k], made'[k], K[k % R], x, skipped'[k % R], Stage(k)')
  <2>1. PartIs(pools[k], Q[k], made[k], K[k % R], x, skipped[k % R], Stage(k))
    BY <1>2
  <2>2. PartIs(pools[k], Q[k], made[k], K[k % R], x, skipped[k % R], Stage(k)')
    <3>1. CASE Stage(k)' = Stage(k)
      BY <2>1, <3>1, Zenon
    <3>2. CASE Stage(k) \in {"idle", "enter"} /\ Stage(k)' \in {"idle", "enter"}
      BY <2>1, <3>2, StageIdle, Zenon
    <3> QED
      BY <3>1, <3>2, Zenon
  <2> QED
    BY <1>1, <2>2, Zenon
<1>4. ASSUME NEW s \in Readers
      PROVE  /\ cur'[s] = K[s] % N /\ x <= K[s] /\ K[s] <= x + C
             /\ gpc'[s] # "idle" => K[s] < x + C
             /\ ppc' # "idle" => x < K[s]
  BY <1>1, <1>2, Zenon
<1>5. next' = x % N
  BY <1>1, <1>2
<1> QED
  BY <1>3, <1>4, <1>5, Zenon DEF Tracked

(* The entry of a reader's data block is free when it is less than C       *)
(* blocks ahead.                                                           *)
LEMMA EntryIs ==
    ASSUME NEW Q, NEW x \in Nat, NEW K \in [Readers -> Nat],
           Tracked(Q, x, K), NEW r \in Readers
    PROVE  EntryFree(cur[r]) <=> K[r] < x + C
<1>1. PICK y \in Nat : y = K[r]
  OBVIOUS
<1>2. N \in Nat /\ 0 < N /\ C \in Nat /\ C < N
  BY StoreSizes
<1>3. cur[r] = y % N /\ next = x % N /\ x <= y /\ y <= x + C
  BY <1>1 DEF Tracked
<1>4. y < x + N
  BY <1>2, <1>3
<1>5. ((y % N) + N - (x % N)) % N = y - x
  BY <1>2, <1>3, <1>4, ModDistance
<1>6. EntryFree(cur[r]) <=> y - x < C
  BY <1>3, <1>5 DEF EntryFree
<1> QED
  BY <1>1, <1>2, <1>6

(* StartIndex: the data block of the reader is one of the C from x on.     *)
LEMMA StartStep ==
    ASSUME StoreTypes, NEW Q \in [Parts -> Books], NEW x \in Nat,
           NEW K \in [Readers -> Nat], Tracked(Q, x, K), NEW r \in Readers, StartIndex(r)
    PROVE  StoreTypes' /\ Tracked(Q, x, K)'
<1>1. /\ gpc[r] = "idle" /\ EntryFree(cur[r]) /\ gpc' = [gpc EXCEPT ![r] = "enter"]
      /\ pools' = pools /\ made' = made /\ cur' = cur /\ skipped' = skipped /\ next' = next
      /\ ppc' = ppc /\ part' = part /\ node' = node /\ pos' = pos
  BY DEF StartIndex, persistVars, scanVars
<1>2. PICK kind \in Kinds : gtodo' = [gtodo EXCEPT ![r] = kind]
  BY DEF StartIndex
<1>3. kind \in Seq(0 .. Y - 1) /\ kind # <<>>
  BY StoreAssumption
<1>4. /\ gpc'[r] = "enter" /\ \A s \in Readers : s # r => gpc'[s] = gpc[s] /\ gtodo'[s] = gtodo[s]
      /\ gtodo'[r] = kind /\ gtodo' \in [Readers -> Seq(0 .. Y - 1)]
      /\ gpc' \in [Readers -> {"idle", "enter", "list", "take"}]
  <2>1. gpc \in [Readers -> {"idle", "enter", "list", "take"}] /\ gtodo \in [Readers -> Seq(0 .. Y - 1)]
    BY DEF StoreTypes
  <2> QED
    BY <1>1, <1>2, <1>3, <2>1
<1>5. StoreTypes'
  <2>1. \A s \in Readers : gpc'[s] # "idle" => gtodo'[s] # <<>>
    BY <1>3, <1>4 DEF StoreTypes
  <2> QED
    BY <1>1, <1>4, <2>1 DEF StoreTypes
<1>6. ASSUME NEW k \in Parts
      PROVE  \/ Stage(k)' = Stage(k)
             \/ Stage(k) \in {"idle", "enter"} /\ Stage(k)' \in {"idle", "enter"}
  <2>1. k % R \in Readers
    BY PartHas
  <2>2. CASE k % R # r
    <3>1. gpc'[k % R] = gpc[k % R] /\ gtodo'[k % R] = gtodo[k % R]
      BY <1>4, <2>1, <2>2
    <3>2. PoolOf(k % R)' = PoolOf(k % R)
      BY <3>1 DEF PoolOf
    <3> QED
      BY <3>1, <3>2 DEF Stage
  <2>3. CASE k % R = r
    BY <1>1, <1>4, <2>3 DEF Stage
  <2> QED
    BY <2>2, <2>3
<1>7. K[r] < x + C
  BY <1>1, EntryIs
<1>8. /\ \A s \in Readers : gpc[s] # "idle" => K[s] < x + C
      /\ ppc # "idle" => \A s \in Readers : x < K[s]
      /\ ppc \in {"measure", "measure again"} => ScanIs(Q[part], node, pos, x)
  BY Zenon DEF Tracked
<1>9. \A s \in Readers : gpc'[s] # "idle" => K[s] < x + C
  BY <1>4, <1>7, <1>8, Zenon
<1>10. ppc' \in {"measure", "measure again"} => ScanIs(Q[part'], node', pos', x)
  BY <1>1, <1>8
<1> QED
  BY <1>1, <1>5, <1>6, <1>8, <1>9, <1>10, SamePools

(* Has part k nothing for its reader's data block?                         *)
LEMMA WithoutPart ==
    ASSUME NEW k \in Parts, made[k][cur[k % R]] = 0
    PROVE  PoolWithout(k % R)
<1>1. PICK t \in 0 .. Y - 1 : k = PartOf(k % R, t)
  BY PartHas
<1> QED
  BY <1>1 DEF PoolWithout

(* NextDataBlock: the reader counts one more data block.                   *)
LEMMA NextStep ==
    ASSUME StoreTypes, NEW Q \in [Parts -> Books], NEW x \in Nat,
           NEW K \in [Readers -> Nat], Tracked(Q, x, K), NEW r \in Readers, NextDataBlock(r)
    PROVE  StoreTypes' /\ \E L \in [Readers -> Nat] : Tracked(Q, x, L)'
<1> DEFINE L == [K EXCEPT ![r] = @ + 1]
<1>1. /\ gpc[r] = "idle" /\ EntryFree(cur[r]) /\ ~(skipped[r] /\ PoolWithout(r))
      /\ cur' = [cur EXCEPT ![r] = (@ + 1) % N]
      /\ skipped' = [skipped EXCEPT ![r] = PoolWithout(r)]
      /\ pools' = pools /\ made' = made /\ gpc' = gpc /\ gtodo' = gtodo /\ next' = next
      /\ ppc' = ppc /\ part' = part /\ node' = node /\ pos' = pos
  BY DEF NextDataBlock, persistVars, scanVars
<1>2. /\ next = x % N
      /\ \A s \in Readers :
            /\ cur[s] = K[s] % N /\ x <= K[s] /\ K[s] <= x + C
            /\ gpc[s] # "idle" => K[s] < x + C
            /\ ppc # "idle" => x < K[s]
      /\ \A k \in Parts :
            PartIs(pools[k], Q[k], made[k], K[k % R], x, skipped[k % R], Stage(k))
      /\ ppc \in {"measure", "measure again"} => ScanIs(Q[part], node, pos, x)
  BY Zenon DEF Tracked
<1>3. PICK y \in Nat : y = K[r]
  OBVIOUS
<1>4. N \in Nat /\ 0 < N /\ C \in Nat /\ C < N
  BY StoreSizes
<1>5. y < x + C /\ x <= y /\ cur[r] = y % N /\ (ppc # "idle" => x < y)
  BY <1>1, <1>2, <1>3, EntryIs
<1>6. /\ L \in [Readers -> Nat] /\ L[r] = y + 1 /\ \A s \in Readers : s # r => L[s] = K[s]
  BY <1>3
<1>7. /\ cur \in [Readers -> DataBlocks] /\ skipped \in [Readers -> BOOLEAN]
  BY DEF StoreTypes
<1>8. /\ cur'[r] = (y + 1) % N /\ (y + 1) % N \in DataBlocks
      /\ \A s \in Readers : s # r => cur'[s] = cur[s] /\ skipped'[s] = skipped[s]
      /\ skipped'[r] = PoolWithout(r)
  <2>1. (y + 1) % N = ((y % N) + 1) % N /\ (y + 1) % N \in Nat /\ (y + 1) % N < N
    <3>1. y + 1 \in Nat
      OBVIOUS
    <3>2. (y + 1) % N = ((y % N) + 1) % N
      BY <1>4, ModAdd
    <3>3. (y + 1) % N \in Nat /\ (y + 1) % N < N
      BY <1>4, <3>1, DivMod
    <3> QED
      BY <3>2, <3>3
  <2> QED
    BY <1>1, <1>4, <1>5, <1>7, <2>1 DEF DataBlocks
<1> HIDE DEF L
<1>9. StoreTypes'
  <2>1. PoolWithout(r) \in BOOLEAN
    BY DEF PoolWithout
  <2>2. cur' \in [Readers -> DataBlocks] /\ skipped' \in [Readers -> BOOLEAN]
    BY <1>1, <1>5, <1>7, <1>8, <2>1
  <2> QED
    BY <1>1, <2>2 DEF StoreTypes
<1>10. ASSUME NEW k \in Parts
       PROVE  PartIs(pools'[k], Q[k], made'[k], L[k % R], x, skipped'[k % R], Stage(k)')
  <2>1. k % R \in Readers
    BY PartHas
  <2>2. PartIs(pools[k], Q[k], made[k], K[k % R], x, skipped[k % R], Stage(k))
    BY <1>2
  <2>3. Stage(k)' = Stage(k)
    BY <1>1 DEF Stage, PoolOf
  <2>4. CASE k % R # r
    BY <1>1, <1>6, <1>8, <2>1, <2>2, <2>3, <2>4, Zenon
  <2>5. CASE k % R = r
    <3>1. Stage(k) = "idle"
      BY <1>1, <2>5 DEF Stage
    <3>2. PICK p \in PoolRecords, b \in Books : p = pools[k] /\ b = Q[k]
      BY DEF StoreTypes
    <3>3. PICK m, s1, s2 : m = made[k] /\ s1 = skipped[r] /\ s2 = PoolWithout(r)
      OBVIOUS
    <3>4. PartIs(p, b, m, y, x, s1, "idle")
      BY <1>3, <2>2, <2>5, <3>1, <3>2, <3>3
    <3>5. m[y % N] = 0 => s2
      BY <1>5, <2>5, <3>3, WithoutPart
    <3>6. ~(s1 /\ m[y % N] = 0)
      BY <1>1, <3>3, <3>5
    <3>7. y < x + N
      BY <1>4, <1>5
    <3>8. PartIs(p, b, m, y + 1, x, s2, "idle")
      BY <1>5, <3>4, <3>5, <3>6, <3>7, NextPart
    <3> QED
      BY <1>1, <1>6, <1>8, <2>3, <2>5, <3>1, <3>2, <3>3, <3>8
  <2> QED
    BY <2>4, <2>5
<1>11. ASSUME NEW s \in Readers
       PROVE  /\ cur'[s] = L[s] % N /\ x <= L[s] /\ L[s] <= x + C
              /\ gpc'[s] # "idle" => L[s] < x + C
              /\ ppc' # "idle" => x < L[s]
  <2>1. CASE s = r
    BY <1>1, <1>4, <1>5, <1>6, <1>8, <2>1
  <2>2. CASE s # r
    BY <1>1, <1>2, <1>6, <1>8, <2>2, Zenon
  <2> QED
    BY <2>1, <2>2
<1>12. /\ next' = x % N
       /\ ppc' \in {"measure", "measure again"} => ScanIs(Q[part'], node', pos', x)
  BY <1>1, <1>2
<1>13. Tracked(Q, x, L)'
  BY <1>10, <1>11, <1>12, Zenon DEF Tracked
<1> QED
  BY <1>6, <1>9, <1>13

(* A pool that is not the last of its type has a next one.                 *)
LEMMA NotLast ==
    ASSUME NEW k \in Parts, ~LastOfType(k)
    PROVE  k + 1 \in Parts
<1>1. R \in Nat /\ 0 < R /\ Y \in Nat /\ 0 < Y /\ k \in Nat /\ k < R * Y /\ R * Y \in Nat
  BY StoreSizes DEF Parts
<1>2. PICK t \in 0 .. Y - 1, r \in Readers : r = k % R /\ k = PartOf(r, t)
  BY PartHas
<1>3. r \in Nat /\ r < R /\ r # R - 1 /\ t \in 0 .. Y - 1
  BY <1>1, <1>2 DEF LastOfType, Readers
<1>4. r + 1 \in Readers
  BY <1>1, <1>3 DEF Readers
<1>5. PartOf(r + 1, t) \in Parts
  BY <1>4, PartPlace
<1>6. PartOf(r + 1, t) = k + 1
  <2>1. PICK w \in Int : w = t * R
    BY <1>1, <1>3
  <2>2. k = w + r /\ PartOf(r + 1, t) = w + (r + 1)
    BY <1>2, <2>1 DEF PartOf
  <2> QED
    BY <1>3, <2>1, <2>2
<1> QED
  BY <1>5, <1>6

-----------------------------------------------------------------------------
(* The persister                                                           *)

(* CheckAndGetMeta: every reader is past data block x.                     *)
LEMMA CheckStep ==
    ASSUME StoreTypes, NEW Q \in [Parts -> Books], NEW x \in Nat,
           NEW K \in [Readers -> Nat], Tracked(Q, x, K), CheckAndGetMeta
    PROVE  StoreTypes' /\ Tracked(Q, x, K)'
<1>1. /\ Complete /\ ppc' = "find" /\ part' = 0 /\ pools' = pools /\ made' = made /\ cur' = cur
      /\ skipped' = skipped /\ next' = next /\ gpc' = gpc /\ gtodo' = gtodo
      /\ node' = node /\ pos' = pos
  BY DEF CheckAndGetMeta, generatorVars
<1>2. /\ next = x % N
      /\ \A s \in Readers : /\ cur[s] = K[s] % N /\ x <= K[s]
                            /\ gpc[s] # "idle" => K[s] < x + C
  BY Zenon DEF Tracked
<1>3. ASSUME NEW s \in Readers PROVE x < K[s]
  <2>1. cur[s] # next
    BY <1>1 DEF Complete
  <2>2. K[s] # x
    BY <1>2, <2>1
  <2> QED
    BY <1>2, <2>2
<1>4. StoreTypes'
  <2>1. 0 \in Parts
    <3>1. R * Y \in Nat /\ 0 < R * Y
      BY StoreSizes
    <3> QED
      BY <3>1 DEF Parts
  <2> QED
    BY <1>1, <2>1 DEF StoreTypes, PersisterPlaces
<1>5. \A k \in Parts : Stage(k)' = Stage(k)
  BY <1>1 DEF Stage, PoolOf
<1> QED
  BY <1>1, <1>2, <1>3, <1>4, <1>5, SamePools

(* FindPart: the scan of a pool.                                           *)
LEMMA FindStep ==
    ASSUME PoolRoom, StoreTypes, NEW Q \in [Parts -> Books], NEW x \in Nat,
           NEW K \in [Readers -> Nat], Tracked(Q, x, K), FindPart
    PROVE  StoreTypes' /\ Tracked(Q, x, K)'
<1>1. /\ ppc \in {"find", "find again"} /\ pools' = pools /\ made' = made /\ cur' = cur
      /\ skipped' = skipped /\ next' = next /\ gpc' = gpc /\ gtodo' = gtodo
      /\ part' = part /\ node' = FindNode(pools[part], next) /\ pos' = pools[part].allocate_pos
      /\ ppc' \in {"measure", "measure again"}
  BY DEF FindPart, ThisPool, generatorVars
<1>2. /\ next = x % N
      /\ \A s \in Readers : /\ gpc[s] # "idle" => K[s] < x + C
                            /\ ppc # "idle" => x < K[s]
                            /\ K[s] <= x + C
      /\ \A k \in Parts :
            PartIs(pools[k], Q[k], made[k], K[k % R], x, skipped[k % R], Stage(k))
  BY Zenon DEF Tracked
<1>3. \A s \in Readers : x < K[s]
  BY <1>1, <1>2
<1>4. part \in Parts /\ pools[part] \in PoolRecords /\ part % R \in Readers /\ Q[part] \in Books
  BY PartHas DEF StoreTypes
<1>5. PICK p \in PoolRecords, b \in Books, y \in Nat :
        p = pools[part] /\ b = Q[part] /\ y = K[part % R]
  BY <1>4
<1>6. PICK m, skip, stage : m = made[part] /\ skip = skipped[part % R] /\ stage = Stage(part)
  OBVIOUS
<1>7. PartIs(p, b, m, y, x, skip, stage) /\ x < y /\ y <= x + C
  BY <1>2, <1>3, <1>4, <1>5, <1>6
<1>8. /\ ScanIs(b, FindNode(p, x % N), p.allocate_pos, x)
      /\ FindNode(p, x % N) \in Nodes \cup {None}
  BY <1>7, FindScan
<1>9. p.allocate_pos \in Places
  BY DEF PoolRecords
<1>10. StoreTypes'
  BY <1>1, <1>2, <1>5, <1>8, <1>9 DEF StoreTypes, PersisterPlaces
<1>11. ScanIs(Q[part'], node', pos', x)
  BY <1>1, <1>2, <1>5, <1>8
<1>12. \A k \in Parts : Stage(k)' = Stage(k)
  BY <1>1 DEF Stage, PoolOf
<1> QED
  BY <1>1, <1>2, <1>3, <1>10, <1>11, <1>12, SamePools

(* The other steps of the persister, up to the last.                       *)
LEMMA PersisterStep ==
    ASSUME StoreTypes, NEW Q \in [Parts -> Books], NEW x \in Nat,
           NEW K \in [Readers -> Nat], Tracked(Q, x, K),
           ppc # "idle", ppc' \in PersisterPlaces \ {"measure", "measure again"},
           part' \in Parts, node' \in Nodes \cup {None}, pos' \in Places,
           UNCHANGED <<pools, made, cur, skipped, next, gpc, gtodo>>
    PROVE  StoreTypes' /\ Tracked(Q, x, K)'
<1>1. /\ pools' = pools /\ made' = made /\ cur' = cur
      /\ skipped' = skipped /\ next' = next /\ gpc' = gpc /\ gtodo' = gtodo
  OBVIOUS
<1>2. \A s \in Readers : /\ gpc[s] # "idle" => K[s] < x + C
                         /\ ppc # "idle" => x < K[s]
  BY Zenon DEF Tracked
<1>3. \A k \in Parts : Stage(k)' = Stage(k)
  BY <1>1 DEF Stage, PoolOf
<1>4. StoreTypes'
  BY <1>1 DEF StoreTypes
<1>5. UNCHANGED <<pools, made, cur, skipped, next>>
  BY <1>1
<1> QED
  BY <1>1, <1>2, <1>3, <1>4, <1>5, SamePools

(* The steps that write do not touch the pools.                            *)
LEMMA ScanSteps ==
    ASSUME StoreTypes, NEW Q \in [Parts -> Books], NEW x \in Nat,
           NEW K \in [Readers -> Nat], Tracked(Q, x, K),
           \/ MeasurePart \/ Reserve \/ MeasureAgain \/ WriteRefused \/ WriteAccepted
           \/ WriteCopied \/ PartWritten \/ SortIndex
    PROVE  StoreTypes' /\ Tracked(Q, x, K)'
<1>1. /\ part \in Parts /\ node \in Nodes \cup {None} /\ pos \in Places
      /\ None \in Nodes \cup {None} /\ 0 \in Places
  BY StoreSizes DEF StoreTypes, Places
<1>2. 0 \in Parts
  <2>1. R * Y \in Nat /\ 0 < R * Y
    BY StoreSizes
  <2> QED
    BY <2>1 DEF Parts
<1>3. /\ ppc # "idle"
      /\ UNCHANGED <<pools, made, cur, skipped, next, gpc, gtodo>>
  BY DEF MeasurePart, Reserve, MeasureAgain, WriteRefused, WriteAccepted, WriteCopied, PartWritten,
         SortIndex, generatorVars
<1>4. /\ ppc' \in PersisterPlaces \ {"measure", "measure again"}
      /\ part' \in Parts /\ node' \in Nodes \cup {None} /\ pos' \in Places
  <2>1. CASE MeasurePart
    BY <1>1, <1>2, <2>1 DEF MeasurePart, ScanEnds, GoTo, PersisterPlaces
  <2>2. CASE Reserve
    BY <1>1, <2>2 DEF Reserve, scanVars, PersisterPlaces
  <2>3. CASE MeasureAgain
    BY <1>1, <2>3 DEF MeasureAgain, ScanEnds, PersisterPlaces
  <2>4. CASE WriteRefused
    BY <1>1, <2>4 DEF WriteRefused, PersisterPlaces
  <2>5. CASE WriteAccepted
    BY <1>1, <2>5 DEF WriteAccepted, scanVars, PersisterPlaces
  <2>6. CASE WriteCopied
    BY <1>1, <2>6 DEF WriteCopied, PersisterPlaces
  <2>7. CASE PartWritten
    <3>1. CASE LastOfType(part)
      BY <1>1, <2>7, <3>1 DEF PartWritten, PersisterPlaces
    <3>2. CASE ~LastOfType(part)
      <4>1. part + 1 \in Parts
        BY <1>1, <3>2, NotLast
      <4> QED
        BY <1>1, <2>7, <3>2, <4>1 DEF PartWritten, PersisterPlaces
    <3> QED
      BY <3>1, <3>2
  <2>8. CASE SortIndex
    BY <1>1, <1>2, <2>8 DEF SortIndex, GoTo, PersisterPlaces
  <2> QED
    BY <2>1, <2>2, <2>3, <2>4, <2>5, <2>6, <2>7, <2>8
<1> QED
  BY <1>3, <1>4, PersisterStep

(* ClearMeta: on to data block x + 1.                                      *)
LEMMA ClearStep ==
    ASSUME PoolRoom, StoreTypes, NEW Q \in [Parts -> Books], NEW x \in Nat,
           NEW K \in [Readers -> Nat], Tracked(Q, x, K), ClearMeta
    PROVE  StoreTypes' /\ Tracked(Q, x + 1, K)'
<1>1. /\ ppc = "clear" /\ ppc' = "idle" /\ cur' = cur /\ skipped' = skipped /\ gpc' = gpc
      /\ gtodo' = gtodo /\ part' = part /\ node' = node /\ pos' = pos
      /\ pools' = [k \in Parts |-> Recycle(pools[k], next)]
      /\ made' = [k \in Parts |-> [made[k] EXCEPT ![next] = 0]]
      /\ next' = (next + 1) % N
  BY DEF ClearMeta, generatorVars, scanVars
<1>2. /\ next = x % N
      /\ \A s \in Readers : /\ cur[s] = K[s] % N /\ x < K[s] /\ K[s] <= x + C
                            /\ gpc[s] # "idle" => K[s] < x + C
      /\ \A k \in Parts :
            PartIs(pools[k], Q[k], made[k], K[k % R], x, skipped[k % R], Stage(k))
  BY <1>1, Zenon DEF Tracked
<1>3. N \in Nat /\ 0 < N /\ C \in Nat
  BY StoreSizes
<1>4. next' = (x + 1) % N /\ next' \in DataBlocks
  <2>1. x + 1 \in Nat
    OBVIOUS
  <2>2. (x + 1) % N = ((x % N) + 1) % N
    BY <1>3, ModAdd
  <2>3. (x + 1) % N \in Nat /\ (x + 1) % N < N
    BY <1>3, <2>1, DivMod
  <2> QED
    BY <1>1, <1>2, <1>3, <2>2, <2>3 DEF DataBlocks
<1>5. ASSUME NEW k \in Parts
      PROVE  /\ pools'[k] \in PoolRecords /\ made'[k] \in [DataBlocks -> Nat]
             /\ PartIs(pools'[k], Q[k], made'[k], K[k % R], x + 1, skipped'[k % R], Stage(k)')
  <2>1. k % R \in Readers /\ pools[k] \in PoolRecords /\ made[k] \in [DataBlocks -> Nat]
        /\ Q[k] \in Books
    BY PartHas DEF StoreTypes
  <2>2. PICK p \in PoolRecords, b \in Books, m \in [DataBlocks -> Nat], y \in Nat :
          p = pools[k] /\ b = Q[k] /\ m = made[k] /\ y = K[k % R]
    BY <2>1
  <2>3. PICK skip, stage : skip = skipped[k % R] /\ stage = Stage(k)
    OBVIOUS
  <2>4. PartIs(p, b, m, y, x, skip, stage) /\ x < y /\ y <= x + C
    BY <1>2, <2>1, <2>2, <2>3
  <2>5. /\ Recycle(p, x % N) \in PoolRecords
        /\ PartIs(Recycle(p, x % N), b, [m EXCEPT ![x % N] = 0], y, x + 1, skip, stage)
    BY <2>4, ClearPart
  <2>6. pools'[k] = Recycle(p, x % N) /\ made'[k] = [m EXCEPT ![x % N] = 0]
    BY <1>1, <1>2, <2>2
  <2>7. Stage(k)' = stage /\ skipped'[k % R] = skip
    BY <1>1, <2>3 DEF Stage, PoolOf
  <2>8. made'[k] \in [DataBlocks -> Nat]
    <3>1. [m EXCEPT ![x % N] = 0] \in [DataBlocks -> Nat]
      OBVIOUS
    <3> QED
      BY <2>6, <3>1, Zenon
  <2> QED
    BY <2>2, <2>5, <2>6, <2>7, <2>8
<1>6. StoreTypes'
  <2>1. pools' \in [Parts -> PoolRecords] /\ made' \in [Parts -> [DataBlocks -> Nat]]
    <3>1. pools' = [k \in Parts |-> pools'[k]] /\ made' = [k \in Parts |-> made'[k]]
      BY <1>1
    <3> QED
      BY <1>5, <3>1
  <2> QED
    BY <1>1, <1>4, <2>1 DEF StoreTypes, PersisterPlaces
<1>7. ASSUME NEW s \in Readers
      PROVE  /\ cur'[s] = K[s] % N /\ x + 1 <= K[s] /\ K[s] <= (x + 1) + C
             /\ gpc'[s] # "idle" => K[s] < (x + 1) + C
             /\ ppc' # "idle" => x + 1 < K[s]
  BY <1>1, <1>2, <1>3
<1>8. next' = (x + 1) % N /\ ~(ppc' \in {"measure", "measure again"})
  BY <1>1, <1>4
<1>9. Tracked(Q, x + 1, K)'
  BY <1>5, <1>7, <1>8, Zenon DEF Tracked
<1> QED
  BY <1>6, <1>9

(* The steps of the disk and memory managers and of the controller.        *)
LEMMA OtherSteps ==
    ASSUME StoreTypes, NEW Q \in [Parts -> Books], NEW x \in Nat,
           NEW K \in [Readers -> Nat], Tracked(Q, x, K),
           UNCHANGED <<pools, generatorVars, persistVars, made>>
    PROVE  StoreTypes' /\ Tracked(Q, x, K)'
<1>1. /\ pools' = pools /\ made' = made /\ cur' = cur
      /\ skipped' = skipped /\ next' = next /\ gpc' = gpc /\ gtodo' = gtodo
      /\ ppc' = ppc /\ part' = part /\ node' = node /\ pos' = pos
  BY DEF generatorVars, persistVars, scanVars
<1>2. /\ \A s \in Readers : gpc[s] # "idle" => K[s] < x + C
      /\ ppc # "idle" => \A s \in Readers : x < K[s]
      /\ ppc \in {"measure", "measure again"} => ScanIs(Q[part], node, pos, x)
  BY Zenon DEF Tracked
<1>3. \A k \in Parts : Stage(k)' = Stage(k)
  BY <1>1 DEF Stage, PoolOf
<1>4. StoreTypes'
  BY <1>1 DEF StoreTypes
<1>5. UNCHANGED <<pools, made, cur, skipped, next>>
  BY <1>1
<1> QED
  BY <1>1, <1>2, <1>3, <1>4, <1>5, SamePools

(* Every step keeps the books right.                                       *)
LEMMA StoreNext ==
    ASSUME PoolRoom, PoolsTracked, [Next]_vars
    PROVE  PoolsTracked'
<1>1. PICK Q \in [Parts -> Books], x \in Nat, K \in [Readers -> Nat] : Tracked(Q, x, K)
  BY DEF PoolsTracked
<1>2. StoreTypes
  BY DEF PoolsTracked
<1> SUFFICES StoreTypes' /\ \E W \in [Parts -> Books], y \in Nat, L \in [Readers -> Nat] :
                                Tracked(W, y, L)'
  BY DEF PoolsTracked
<1>3. ASSUME NEW r \in Readers, Generate(r)
      PROVE  StoreTypes' /\ \E W \in [Parts -> Books], y \in Nat, L \in [Readers -> Nat] :
                                Tracked(W, y, L)'
  <2>1. CASE StartIndex(r)
    BY <1>1, <1>2, <2>1, StartStep
  <2>2. CASE AllocateEnters(r)
    BY <1>1, <1>2, <2>2, EnterStep
  <2>3. CASE AllocateLists(r)
    BY <1>1, <1>2, <2>3, ListStep
  <2>4. CASE AllocateTakes(r)
    BY <1>1, <1>2, <2>4, TakeStep
  <2>5. CASE NextDataBlock(r)
    BY <1>1, <1>2, <2>5, NextStep
  <2> QED
    BY <1>3, <2>1, <2>2, <2>3, <2>4, <2>5 DEF Generate
<1>4. CASE Persist
  <2>1. CASE CheckAndGetMeta
    BY <1>1, <1>2, <2>1, CheckStep
  <2>2. CASE FindPart
    BY <1>1, <1>2, <2>2, FindStep
  <2>3. CASE \/ MeasurePart \/ Reserve \/ MeasureAgain \/ WriteRefused \/ WriteAccepted
             \/ WriteCopied \/ PartWritten \/ SortIndex
    BY <1>1, <1>2, <2>3, ScanSteps
  <2>4. CASE ClearMeta
    <3>1. x + 1 \in Nat
      OBVIOUS
    <3> QED
      BY <1>1, <1>2, <2>4, <3>1, ClearStep
  <2> QED
    BY <1>4, <2>1, <2>2, <2>3, <2>4 DEF Persist
<1>5. ASSUME UNCHANGED <<pools, generatorVars, persistVars, made>>
      PROVE  StoreTypes' /\ \E W \in [Parts -> Books], y \in Nat, L \in [Readers -> Nat] :
                                Tracked(W, y, L)'
  BY <1>1, <1>2, <1>5, OtherSteps
<1>6. CASE TakeIndexBlock \/ TakeAndDrop \/ ManagerReturns \/ Stop
  BY <1>5, <1>6 DEF TakeIndexBlock, TakeAndDrop, ManagerReturns, Stop
<1>7. CASE \E s \in Slots : RecycleIndexBlock(s)
  BY <1>5, <1>7 DEF RecycleIndexBlock
<1>8. CASE UNCHANGED vars
  BY <1>5, <1>8 DEF vars
<1> QED
  BY <1>3, <1>4, <1>6, <1>7, <1>8 DEF Next

Measuring == ppc \in {"measure", "measure again"}

(* The length measured, in both passes.                                    *)
LEMMA LengthIs ==
    ASSUME PoolsTracked, Measuring
    PROVE  (node # None => ~AtArrayEnd(ThisPool, node)) =>
               /\ PartLen = made[part][next] /\ PartLen \in Nat
               /\ node = None => PartLen = 0
               /\ node # None =>
                      /\ \A u \in UnitsOf(ThisPool, node, PartLen) : ThisPool.buffer[u] = next
                      /\ ThisPool.allocated_list[node].start_offset \in 0 .. Capacity - 1
<1>1. PICK Q \in [Parts -> Books], x \in Nat, K \in [Readers -> Nat] : Tracked(Q, x, K)
  BY DEF PoolsTracked
<1>2. /\ part \in Parts /\ part % R \in Readers /\ pools[part] \in PoolRecords
      /\ Q[part] \in Books /\ pos \in Nat
  <2>1. /\ part \in Parts /\ pools \in [Parts -> PoolRecords] /\ pos \in 0 .. Capacity
    BY DEF PoolsTracked, StoreTypes, Places
  <2>2. pos \in Nat
    <3>1. Capacity \in Nat
      BY StoreSizes
    <3>2. \A q \in 0 .. Capacity : q \in Nat
      BY <3>1
    <3> QED
      BY <2>1, <3>2, Zenon
  <2>3. part % R \in Readers
    BY <2>1, PartHas
  <2>4. pools[part] \in PoolRecords /\ Q[part] \in Books
    BY <2>1
  <2> QED
    BY <2>1, <2>2, <2>3, <2>4
<1>3. PICK p \in PoolRecords, b \in Books, y \in Nat :
        p = pools[part] /\ b = Q[part] /\ y = K[part % R]
  BY <1>2
<1>4. PICK m, skip, stage, nd, q : /\ m = made[part] /\ skip = skipped[part % R]
                                   /\ stage = Stage(part) /\ nd = node /\ q = pos
  OBVIOUS
<1>5. /\ PartIs(p, b, m, y, x, skip, stage) /\ x < y /\ next = x % N
      /\ ScanIs(b, nd, q, x) /\ q \in Nat
  <2>1. ppc \in {"measure", "measure again"} /\ ppc # "idle"
    BY DEF Measuring
  <2>2. /\ PartIs(pools[part], Q[part], made[part], K[part % R], x, skipped[part % R], Stage(part))
        /\ x < K[part % R] /\ next = x % N /\ ScanIs(Q[part], node, pos, x)
    BY <1>1, <1>2, <2>1, Zenon DEF Tracked
  <2> QED
    BY <1>2, <1>3, <1>4, <2>2, Zenon
<1>6. ASSUME nd # None => ~AtArrayEnd(p, nd)
      PROVE  /\ nd = None => m[x % N] = 0
             /\ nd # None => /\ nd \in Nodes /\ LenOfNode(p, nd, q) = m[x % N]
                             /\ \A u \in UnitsOf(p, nd, m[x % N]) : p.buffer[u] = x % N
                             /\ p.allocated_list[nd].start_offset \in 0 .. Capacity - 1
  BY <1>5, <1>6, ScanLength, Zenon
<1>7. ASSUME nd # None => LenOfNode(p, nd, q) = m[x % N], nd = None => m[x % N] = 0
      PROVE  PartLen = m[x % N]
  BY <1>3, <1>4, <1>7 DEF PartLen, ThisPool
<1>8. ThisPool = p
  BY <1>3 DEF ThisPool
<1>9. m[x % N] \in Nat
  <2>1. next \in DataBlocks /\ made \in [Parts -> [DataBlocks -> Nat]] /\ part \in Parts
    BY DEF PoolsTracked, StoreTypes
  <2> QED
    BY <1>4, <1>5, <2>1
<1> QED
  BY <1>3, <1>4, <1>5, <1>6, <1>7, <1>8, <1>9, Zenon

(* PoolsKeepIndexes follows from the books.                                *)
LEMMA TrackedKeeps ==
    ASSUME PoolsTracked PROVE PoolsKeepIndexes
<1>1. ppc = "measure again" => Measuring
  BY Zenon DEF Measuring
<1> QED
  BY <1>1, LengthIs, Zenon DEF PoolsKeepIndexes

(* The lengths and the units that the persister takes from a pool are      *)
(* those of the data block, whatever the generators do meanwhile.          *)
THEOREM PoolsKept == PoolRoom => (Spec => []PoolsKeepIndexes)
<1> SUFFICES ASSUME PoolRoom PROVE Spec => []PoolsKeepIndexes
  OBVIOUS
<1>1. Init => PoolsTracked
  BY StoreInit
<1>2. PoolsTracked /\ [Next]_vars => PoolsTracked'
  BY StoreNext
<1>3. PoolsTracked => PoolsKeepIndexes
  BY TrackedKeeps
<1> QED
  BY <1>1, <1>2, <1>3, PTL DEF Spec

-----------------------------------------------------------------------------
(* The room on the index disk                                              *)

(* A sum over the pools: P[k] units of data block next in the first k.     *)
Sums(P) == P[0] = 0 /\ \A k \in Parts : P[k + 1] = P[k] + made[k][next]
SumsTo(P, n) == P[0] = 0 /\ \A k \in Parts : k < n => P[k + 1] = P[k] + made[k][next]

(* The calls still to make are for n units.                                *)
CallsFor(c, n) ==
    \/ c = <<>> /\ n = 0
    \/ \E d \in Nat : c = <<d>> /\ n = d
    \/ \E d, e \in Nat : c = <<d, e>> /\ n = d + e

CallsUpTo(c, from, to) == \E n \in Nat : CallsFor(c, n) /\ from + n = to

NatPlaces == total \in Nat /\ base \in Nat /\ off \in Nat /\ writePos \in Nat

(* Where the persister is in the room that begins at b0 and has place for  *)
(* what the pools have of the data block.                                  *)
RoomIs(P, b0) ==
    /\ NatPlaces
    /\ ppc \in {"find", "measure"} => SumsTo(P, part) /\ total = P[part]
    /\ ppc = "reserve" => Sums(P) /\ total = P[R * Y] /\ part = 0
    /\ ppc \in {"find again", "measure again", "write", "copy", "sort", "clear"} =>
            Sums(P) /\ limit = b0 + P[R * Y]
    /\ ppc \in {"find again", "measure again"} => base + off = b0 + P[part]
    /\ ppc \in {"write", "copy"} => CallsUpTo(calls, base + off, b0 + P[part + 1])
    /\ ppc = "copy" => calls # <<>>
    /\ ppc = "sort" => base + off = b0 + P[part + 1]
    /\ ppc = "clear" => base = b0 + P[R * Y]

RoomTracked == misread \/ \E P \in [Nat -> Nat], b0 \in Nat : RoomIs(P, b0)

(* The numbers of the parts.                                               *)
LEMMA PartsAre ==
    /\ R * Y \in Nat /\ 0 \in Parts
    /\ \A k \in Parts : /\ k \in Nat /\ k + 1 \in Nat /\ k < R * Y
                        /\ k + 1 \in Parts \/ k + 1 = R * Y
<1>1. R \in Nat /\ 0 < R /\ Y \in Nat /\ 0 < Y
  BY StoreSizes
<1>2. PICK z \in Nat : z = R * Y /\ 0 < z
  <2>1. R * Y \in Nat /\ 0 < R * Y
    BY <1>1
  <2> QED
    BY <2>1
<1>3. Parts = 0 .. z - 1
  BY <1>2 DEF Parts
<1> QED
  BY <1>2, <1>3

(* One call less.                                                          *)
LEMMA CallMade ==
    ASSUME NEW c, c # <<>>, NEW from \in Nat, NEW to, CallsUpTo(c, from, to)
    PROVE  Head(c) \in Nat /\ CallsUpTo(Tail(c), from + Head(c), to)
<1>1. PICK n \in Nat : CallsFor(c, n) /\ from + n = to
  BY DEF CallsUpTo
<1>2. CASE \E d \in Nat : c = <<d>> /\ n = d
  <2>1. PICK d \in Nat : c = <<d>> /\ n = d
    BY <1>2
  <2>2. Head(c) = d /\ Tail(c) = <<>>
    BY <2>1
  <2>3. CallsFor(Tail(c), 0) /\ (from + d) + 0 = to
    BY <1>1, <2>1, <2>2 DEF CallsFor
  <2> QED
    BY <2>1, <2>2, <2>3 DEF CallsUpTo
<1>3. CASE \E d, e \in Nat : c = <<d, e>> /\ n = d + e
  <2>1. PICK d \in Nat, e \in Nat : c = <<d, e>> /\ n = d + e
    BY <1>3
  <2>2. Head(c) = d /\ Tail(c) = <<e>>
    BY <2>1
  <2>3. CallsFor(Tail(c), e) /\ (from + d) + e = to
    BY <1>1, <2>1, <2>2 DEF CallsFor
  <2> QED
    BY <2>1, <2>2, <2>3 DEF CallsUpTo
<1> QED
  BY <1>1, <1>2, <1>3 DEF CallsFor

(* No calls, no units.                                                     *)
LEMMA CallsDone ==
    ASSUME NEW from \in Nat, NEW to, CallsUpTo(<<>>, from, to)
    PROVE  from = to
<1>1. PICK n \in Nat : CallsFor(<<>>, n) /\ from + n = to
  BY DEF CallsUpTo
<1>2. n = 0
  <2>1. \A d : <<>> # <<d>>
    OBVIOUS
  <2>2. \A d, e : <<>> # <<d, e>>
    OBVIOUS
  <2> QED
    BY <1>1, <2>1, <2>2, Zenon DEF CallsFor
<1> QED
  BY <1>1, <1>2

(* The calls for the units of a node.                                      *)
LEMMA CallsOf ==
    ASSUME NEW p, NEW nd, NEW len \in Nat,
           p.allocated_list[nd].start_offset \in 0 .. Capacity - 1
    PROVE  CallsFor(WriteLens(p, nd, len), len)
<1>1. PICK s \in Nat : s = p.allocated_list[nd].start_offset /\ s < Capacity
  BY StoreSizes
<1>2. Capacity \in Nat
  BY StoreSizes
<1>3. CASE s + len < Capacity
  <2>1. WriteLens(p, nd, len) = <<len>>
    BY <1>1, <1>3 DEF WriteLens
  <2> QED
    BY <2>1 DEF CallsFor
<1>4. CASE ~(s + len < Capacity)
  <2>1. PICK d \in Nat, e \in Nat : d = Capacity - s /\ e = len + s - Capacity
    <3>1. Capacity - s \in Nat /\ len + s - Capacity \in Nat
      BY <1>1, <1>2, <1>4
    <3> QED
      BY <3>1
  <2>2. WriteLens(p, nd, len) = <<d, e>>
    BY <1>1, <1>4, <2>1 DEF WriteLens
  <2>3. len = d + e
    BY <1>1, <1>2, <2>1
  <2> QED
    BY <2>2, <2>3 DEF CallsFor
<1> QED
  BY <1>3, <1>4

(* In the beginning the persister is idle.                                 *)
LEMMA RoomInit ==
    ASSUME Init PROVE RoomTracked
<1>1. NatPlaces /\ ppc = "idle"
  BY DEF Init, NatPlaces
<1>2. [i \in Nat |-> 0] \in [Nat -> Nat] /\ 0 \in Nat
  OBVIOUS
<1>3. RoomIs([i \in Nat |-> 0], 0)
  BY <1>1, Zenon DEF RoomIs
<1> QED
  BY <1>2, <1>3, Zenon DEF RoomTracked

(* A step of anything but the persister.                                   *)
LEMMA RoomStays ==
    ASSUME NEW P, NEW b0, RoomIs(P, b0),
           UNCHANGED <<ppc, part, next, calls, total, base, off, writePos, limit>>,
           ppc # "idle" => \A k \in Parts : made'[k][next] = made[k][next]
    PROVE  RoomIs(P, b0)'
<1>1. /\ ppc' = ppc /\ part' = part /\ next' = next /\ calls' = calls /\ total' = total
      /\ base' = base /\ off' = off /\ writePos' = writePos /\ limit' = limit
  OBVIOUS
<1>2. ASSUME ppc # "idle"
      PROVE  /\ Sums(P) => Sums(P)'
             /\ SumsTo(P, part) => SumsTo(P, part)'
  BY <1>1, <1>2, Zenon DEF Sums, SumsTo
<1>3. NatPlaces'
  BY <1>1, Zenon DEF RoomIs, NatPlaces
<1>4. CASE ppc = "idle"
  BY <1>1, <1>3, <1>4, Zenon DEF RoomIs
<1>5. CASE ppc # "idle"
  BY <1>1, <1>2, <1>3, <1>5, Zenon DEF RoomIs
<1> QED
  BY <1>4, <1>5

(* While a data block is persisted no reader makes indexes for it.         *)
LEMMA NotNext ==
    ASSUME PoolsTracked, ppc # "idle", NEW r \in Readers
    PROVE  cur[r] # next
<1>1. PICK Q \in [Parts -> Books], x \in Nat, K \in [Readers -> Nat] : Tracked(Q, x, K)
  BY DEF PoolsTracked
<1>2. PICK y \in Nat : y = K[r]
  OBVIOUS
<1>3. x < y /\ y <= x + C /\ cur[r] = y % N /\ next = x % N
  BY <1>1, <1>2 DEF Tracked
<1>4. N \in Nat /\ 0 < N /\ C \in Nat /\ C < N
  BY StoreSizes
<1>5. x % N # y % N
  <2> SUFFICES ASSUME x % N = y % N PROVE FALSE
    OBVIOUS
  <2>1. x + N <= y
    BY <1>3, <1>4, ModApart
  <2> QED
    BY <1>3, <1>4, <2>1
<1> QED
  BY <1>3, <1>5

(* So what it has for that data block stays as it is.                      *)
LEMMA MadeStays ==
    ASSUME PoolsTracked, NEW r \in Readers, Generate(r), ppc # "idle"
    PROVE  \A k \in Parts : made'[k][next] = made[k][next]
<1>1. CASE made' = made
  BY <1>1
<1>2. CASE AllocateTakes(r)
  <2>1. made' = [made EXCEPT ![PoolOf(r)][cur[r]] = @ + 1]
    BY <1>2 DEF AllocateTakes
  <2>2. /\ made \in [Parts -> [DataBlocks -> Nat]] /\ next \in DataBlocks /\ cur[r] \in DataBlocks
        /\ PoolOf(r) \in Parts
    <3>1. gpc[r] # "idle"
      BY <1>2 DEF AllocateTakes
    <3> QED
      BY <3>1, ThisPart DEF PoolsTracked, StoreTypes
  <2>3. cur[r] # next
    BY NotNext
  <2> QED
    BY <2>1, <2>2, <2>3
<1> QED
  BY <1>1, <1>2 DEF Generate, StartIndex, AllocateEnters, AllocateLists, NextDataBlock

(* Generators do not touch the room.                                       *)
LEMMA RoomGenerate ==
    ASSUME PoolsTracked, NEW P, NEW b0, RoomIs(P, b0), NEW r \in Readers, Generate(r)
    PROVE  RoomIs(P, b0)'
<1>1. UNCHANGED persistVars
  BY DEF Generate, StartIndex, AllocateEnters, AllocateLists, AllocateTakes, NextDataBlock
<1>2. UNCHANGED <<ppc, part, next, calls, total, base, off, writePos, limit>>
  BY <1>1 DEF persistVars, scanVars, placeVars
<1>3. ppc # "idle" => \A k \in Parts : made'[k][next] = made[k][next]
  BY MadeStays
<1> QED
  BY <1>2, <1>3, RoomStays

(* CheckAndGetMeta: the sum begins.                                        *)
LEMMA RoomCheck ==
    ASSUME NEW P \in [Nat -> Nat], NEW b0 \in Nat, RoomIs(P, b0), CheckAndGetMeta
    PROVE  \E O \in [Nat -> Nat] : RoomIs(O, b0)'
<1> DEFINE O == [i \in Nat |-> 0]
<1>1. /\ ppc' = "find" /\ part' = 0 /\ total' = 0 /\ base' = base /\ off' = off
      /\ writePos' = writePos /\ made' = made /\ next' = next
  BY DEF CheckAndGetMeta
<1>2. O \in [Nat -> Nat] /\ O[0] = 0
  OBVIOUS
<1> HIDE DEF O
<1>3. NatPlaces'
  BY <1>1 DEF RoomIs, NatPlaces
<1>4. SumsTo(O, part)' /\ total' = O[part']
  <2>1. ASSUME NEW k \in Parts PROVE ~(k < 0)
    <3>1. k \in Nat
      BY PartsAre
    <3> QED
      BY <3>1
  <2>2. \A k \in Parts : ~(k < part')
    BY <1>1, <2>1
  <2>3. SumsTo(O, part)'
    BY <1>2, <2>2, Zenon DEF SumsTo
  <2> QED
    BY <1>1, <1>2, <2>3
<1>5. RoomIs(O, b0)'
  BY <1>1, <1>3, <1>4, Zenon DEF RoomIs
<1> QED
  BY <1>2, <1>5

(* FindPart changes no length.                                             *)
LEMMA RoomFind ==
    ASSUME NEW P, NEW b0, RoomIs(P, b0), FindPart
    PROVE  RoomIs(P, b0)'
<1>1. /\ part' = part /\ next' = next /\ calls' = calls /\ total' = total
      /\ base' = base /\ off' = off /\ writePos' = writePos /\ limit' = limit /\ made' = made
      /\ ppc \in {"find", "find again"}
      /\ ppc' = IF ppc = "find" THEN "measure" ELSE "measure again"
  BY Zenon DEF FindPart, placeVars
<1>2. (Sums(P) => Sums(P)') /\ (SumsTo(P, part) => SumsTo(P, part)')
  BY <1>1, Zenon DEF Sums, SumsTo
<1>3. NatPlaces'
  BY <1>1, Zenon DEF RoomIs, NatPlaces
<1>4. CASE ppc = "find"
  BY <1>1, <1>2, <1>3, <1>4, Zenon DEF RoomIs
<1>5. CASE ppc = "find again"
  BY <1>1, <1>2, <1>3, <1>5, Zenon DEF RoomIs
<1> QED
  BY <1>1, <1>4, <1>5, Zenon

(* MeasurePart: the sum is one part longer.                                *)
LEMMA RoomMeasure ==
    ASSUME PoolsTracked, NEW P \in [Nat -> Nat], NEW b0 \in Nat, RoomIs(P, b0), MeasurePart,
           node # None => ~AtArrayEnd(ThisPool, node)
    PROVE  \E O \in [Nat -> Nat] : RoomIs(O, b0)'
<1>1. /\ ppc = "measure" /\ next' = next /\ base' = base /\ off' = off /\ made' = made
      /\ writePos' = writePos /\ total' = total + PartLen
      /\ \/ part + 1 \in Parts /\ ppc' = "find" /\ part' = part + 1
         \/ part + 1 \notin Parts /\ ppc' = "reserve" /\ part' = 0
  BY DEF MeasurePart, GoTo
<1>2. PartLen = made[part][next] /\ PartLen \in Nat
  <2>1. Measuring
    BY <1>1 DEF Measuring
  <2> QED
    BY <2>1, LengthIs, Zenon
<1>3. NatPlaces /\ SumsTo(P, part) /\ total = P[part] /\ part \in Parts /\ part \in Nat
  BY <1>1, PartsAre DEF RoomIs, PoolsTracked, StoreTypes
<1>4. PICK t \in Nat, l \in Nat, j \in Nat : t = total /\ l = PartLen /\ j = part
  BY <1>2, <1>3 DEF NatPlaces
<1>12. PICK O : O = [P EXCEPT ![j + 1] = t + l]
  OBVIOUS
<1>5. O \in [Nat -> Nat] /\ O[j + 1] = t + l /\ \A i \in Nat : i # j + 1 => O[i] = P[i]
  <2>1. j + 1 \in Nat /\ t + l \in Nat
    OBVIOUS
  <2> QED
    BY <1>12, <2>1
<1>6. NatPlaces'
  BY <1>1, <1>2, <1>3 DEF NatPlaces
<1>7. O[0] = 0 /\ \A k \in Parts : k < j + 1 => O[k + 1] = O[k] + made[k][next]
  <2>1. P[0] = 0 /\ \A k \in Parts : k < j => P[k + 1] = P[k] + made[k][next]
    BY <1>3, <1>4 DEF SumsTo
  <2>2. ASSUME NEW k \in Parts, k < j + 1 PROVE O[k + 1] = O[k] + made[k][next]
    <3>1. k \in Nat /\ k + 1 \in Nat
      BY PartsAre
    <3>2. CASE k = j
      <4>1. O[k] = P[j] /\ P[j] = t /\ O[k + 1] = t + l /\ made[k][next] = l
        BY <1>2, <1>3, <1>4, <1>5, <3>1, <3>2
      <4> QED
        BY <4>1
    <3>3. CASE k # j
      <4>1. k < j /\ k + 1 # j + 1 /\ k # j + 1
        BY <2>2, <3>1, <3>3
      <4> QED
        BY <1>5, <2>1, <3>1, <4>1
    <3> QED
      BY <3>2, <3>3
  <2>3. 0 # j + 1
    OBVIOUS
  <2> QED
    BY <1>5, <2>1, <2>2, <2>3
<1>8. total' = O[j + 1]
  BY <1>1, <1>4, <1>5
<1>9. CASE part + 1 \in Parts /\ ppc' = "find" /\ part' = part + 1
  <2>1. SumsTo(O, part)' /\ total' = O[part']
    BY <1>1, <1>4, <1>7, <1>8, <1>9 DEF SumsTo
  <2> QED
    BY <1>5, <1>6, <1>9, <2>1, Zenon DEF RoomIs
<1>10. CASE part + 1 \notin Parts /\ ppc' = "reserve" /\ part' = 0
  <2>1. j + 1 = R * Y
    BY <1>3, <1>4, <1>10, PartsAre
  <2>2. \A k \in Parts : k < j + 1
    BY <2>1, PartsAre
  <2>3. Sums(O)'
    BY <1>1, <1>7, <2>2 DEF Sums
  <2>4. total' = O[R * Y]
    BY <1>8, <2>1
  <2> QED
    BY <1>5, <1>6, <1>10, <2>3, <2>4, Zenon DEF RoomIs
<1> QED
  BY <1>1, <1>9, <1>10

(* Reserve: the room begins at diskWritePos and is as long as the sum.     *)
LEMMA RoomReserve ==
    ASSUME NEW P \in [Nat -> Nat], NEW b0 \in Nat, RoomIs(P, b0), Reserve
    PROVE  \E b1 \in Nat : RoomIs(P, b1)'
<1>1. /\ ppc = "reserve" /\ next' = next /\ part' = part /\ base' = writePos
      /\ limit' = writePos + total /\ off' = 0 /\ total' = 0 /\ made' = made
      /\ writePos' = (writePos + total) % DiskSize /\ ppc' = "find again"
  BY Zenon DEF Reserve, scanVars
<1>2. NatPlaces /\ Sums(P) /\ total = P[R * Y] /\ part = 0
  BY <1>1, Zenon DEF RoomIs
<1>3. NatPlaces'
  <2>1. writePos + total \in Nat /\ DiskSize \in Nat /\ 0 < DiskSize
    BY <1>2, StoreSizes DEF NatPlaces
  <2>2. (writePos + total) % DiskSize \in Nat
    BY <2>1, DivMod
  <2>3. writePos \in Nat /\ 0 \in Nat
    BY <1>2 DEF NatPlaces
  <2> QED
    BY <1>1, <2>2, <2>3, Zenon DEF NatPlaces
<1>4. PICK b1 \in Nat : b1 = writePos
  BY <1>2 DEF NatPlaces
<1>5. Sums(P)'
  BY <1>1, <1>2, Zenon DEF Sums
<1>6. P[0] = 0
  BY <1>2 DEF Sums
<1>7. limit' = b1 + P[R * Y]
  BY <1>1, <1>2, <1>4, Zenon
<1>8. b1 + 0 = b1 + P[0]
  BY <1>6
<1>9. base' + off' = b1 + P[part']
  BY <1>1, <1>2, <1>4, <1>8, Zenon
<1>10. RoomIs(P, b1)'
  BY <1>1, <1>3, <1>5, <1>7, <1>9, Zenon DEF RoomIs
<1> QED
  BY <1>10

(* MeasureAgain: the calls are for what the first pass measured.           *)
LEMMA RoomAgain ==
    ASSUME PoolsTracked, NEW P \in [Nat -> Nat], NEW b0 \in Nat, RoomIs(P, b0), MeasureAgain,
           node # None => ~AtArrayEnd(ThisPool, node)
    PROVE  RoomIs(P, b0)'
<1>1. /\ ppc = "measure again" /\ next' = next /\ part' = part /\ total' = total
      /\ base' = base /\ off' = off /\ writePos' = writePos /\ limit' = limit /\ made' = made
      /\ calls' = IF PartLen = 0 THEN <<>> ELSE WriteLens(ThisPool, node, PartLen)
      /\ ppc' = "write"
  BY Zenon DEF MeasureAgain, placeVars
<1>2. NatPlaces /\ Sums(P) /\ limit = b0 + P[R * Y] /\ base + off = b0 + P[part]
  BY <1>1, Zenon DEF RoomIs
<1>3. /\ PartLen = made[part][next] /\ PartLen \in Nat
      /\ node = None => PartLen = 0
      /\ node # None => ThisPool.allocated_list[node].start_offset \in 0 .. Capacity - 1
  <2>1. Measuring
    BY <1>1, Zenon DEF Measuring
  <2> QED
    BY <2>1, LengthIs, Zenon
<1>4. PICK len \in Nat : len = PartLen
  BY <1>3
<1>5. CallsFor(calls', len)
  <2>1. CASE len = 0
    <3>1. calls' = <<>>
      BY <1>1, <1>4, <2>1, Zenon
    <3> QED
      BY <2>1, <3>1, Zenon DEF CallsFor
  <2>2. CASE len # 0
    <3>1. ThisPool.allocated_list[node].start_offset \in 0 .. Capacity - 1
      BY <1>3, <1>4, <2>2, Zenon
    <3>2. CallsFor(WriteLens(ThisPool, node, len), len)
      BY <3>1, CallsOf
    <3> QED
      BY <1>1, <1>4, <2>2, <3>2, Zenon
  <2> QED
    BY <2>1, <2>2
<1>6. part \in Parts
  BY DEF PoolsTracked, StoreTypes
<1>7. P[part + 1] = P[part] + len
  BY <1>2, <1>3, <1>4, <1>6 DEF Sums
<1>8. PICK f \in Nat, g \in Nat : f = base + off /\ g = P[part]
  <2>1. base + off \in Nat
    BY <1>2 DEF NatPlaces
  <2>2. part \in Nat
    BY <1>6, PartsAre
  <2>3. P[part] \in Nat
    BY <2>2
  <2> QED
    BY <2>1, <2>3
<1>9. f + len = b0 + P[part + 1]
  <2>1. f = b0 + g /\ P[part + 1] = g + len
    BY <1>2, <1>7, <1>8, Zenon
  <2> QED
    BY <2>1
<1>10. CallsUpTo(calls', base + off, b0 + P[part + 1])
  BY <1>5, <1>8, <1>9, Zenon DEF CallsUpTo
<1>11. CallsUpTo(calls, base + off, b0 + P[part + 1])'
  BY <1>1, <1>10, Zenon
<1>12. NatPlaces' /\ Sums(P)'
  BY <1>1, <1>2, Zenon DEF NatPlaces, Sums
<1> QED
  BY <1>1, <1>2, <1>11, <1>12, Zenon DEF RoomIs

(* A call is made, whether the cache takes it or not.                      *)
LEMMA RoomWrite ==
    ASSUME NEW P \in [Nat -> Nat], NEW b0 \in Nat, RoomIs(P, b0),
           WriteRefused \/ WriteCopied
    PROVE  RoomIs(P, b0)'
<1>1. /\ ppc \in {"write", "copy"} /\ ppc' = "write" /\ calls # <<>> /\ next' = next
      /\ part' = part /\ total' = total /\ made' = made
      /\ base' = base /\ off' = off + Head(calls) /\ writePos' = writePos /\ limit' = limit
      /\ calls' = Tail(calls)
  <2>1. CASE WriteRefused
    BY <2>1 DEF WriteRefused
  <2>2. CASE WriteCopied
    <3>1. calls # <<>>
      BY <2>2 DEF WriteCopied, RoomIs
    <3> QED
      BY <2>2, <3>1 DEF WriteCopied
  <2> QED
    BY <2>1, <2>2
<1>2. /\ NatPlaces /\ Sums(P) /\ limit = b0 + P[R * Y]
      /\ CallsUpTo(calls, base + off, b0 + P[part + 1])
  BY <1>1, Zenon DEF RoomIs
<1>3. base + off \in Nat /\ base \in Nat /\ off \in Nat
  BY <1>2 DEF NatPlaces
<1>4. Head(calls) \in Nat /\ CallsUpTo(Tail(calls), (base + off) + Head(calls), b0 + P[part + 1])
  BY <1>1, <1>2, <1>3, CallMade, Zenon
<1>5. (base + off) + Head(calls) = base + (off + Head(calls)) /\ off + Head(calls) \in Nat
  BY <1>3, <1>4
<1>6. CallsUpTo(calls', base' + off', b0 + P[part' + 1])
  BY <1>1, <1>4, <1>5, Zenon
<1>7. NatPlaces' /\ Sums(P)'
  BY <1>1, <1>2, <1>5, Zenon DEF NatPlaces, Sums
<1> QED
  BY <1>1, <1>2, <1>6, <1>7, Zenon DEF RoomIs

(* WriteAccepted: nothing is written yet.                                  *)
LEMMA RoomAccepted ==
    ASSUME NEW P \in [Nat -> Nat], NEW b0 \in Nat, RoomIs(P, b0), WriteAccepted
    PROVE  RoomIs(P, b0)'
<1>1. /\ ppc = "write" /\ ppc' = "copy" /\ calls # <<>> /\ next' = next
      /\ part' = part /\ total' = total /\ made' = made /\ calls' = calls
      /\ base' = base /\ off' = off /\ writePos' = writePos /\ limit' = limit
  BY Zenon DEF WriteAccepted, scanVars, placeVars
<1>2. NatPlaces' /\ (Sums(P) => Sums(P)')
  BY <1>1, Zenon DEF NatPlaces, Sums, RoomIs
<1> QED
  BY <1>1, <1>2, Zenon DEF RoomIs

(* PartWritten: no calls are left.                                         *)
LEMMA RoomWritten ==
    ASSUME NEW P \in [Nat -> Nat], NEW b0 \in Nat, RoomIs(P, b0), PartWritten
    PROVE  RoomIs(P, b0)'
<1>1. /\ ppc = "write" /\ calls = <<>> /\ next' = next
      /\ total' = total /\ made' = made
      /\ base' = base /\ off' = off /\ writePos' = writePos /\ limit' = limit
      /\ \/ ppc' = "sort" /\ part' = part
         \/ ppc' = "find again" /\ part' = part + 1
  BY DEF PartWritten, placeVars
<1>2. /\ NatPlaces /\ Sums(P) /\ limit = b0 + P[R * Y]
      /\ CallsUpTo(<<>>, base + off, b0 + P[part + 1])
  BY <1>1, Zenon DEF RoomIs
<1>3. base + off \in Nat
  BY <1>2 DEF NatPlaces
<1>4. base + off = b0 + P[part + 1]
  BY <1>2, <1>3, CallsDone, Zenon
<1>5. NatPlaces' /\ Sums(P)'
  BY <1>1, <1>2, Zenon DEF NatPlaces, Sums
<1>6. CASE ppc' = "sort" /\ part' = part
  BY <1>1, <1>2, <1>4, <1>5, <1>6, Zenon DEF RoomIs
<1>7. CASE ppc' = "find again" /\ part' = part + 1
  BY <1>1, <1>2, <1>4, <1>5, <1>7, Zenon DEF RoomIs
<1> QED
  BY <1>1, <1>6, <1>7

(* SortIndex: on to the next type, or done.                                *)
LEMMA RoomSort ==
    ASSUME PoolsTracked, NEW P \in [Nat -> Nat], NEW b0 \in Nat, RoomIs(P, b0), SortIndex
    PROVE  RoomIs(P, b0)'
<1>1. /\ ppc = "sort" /\ next' = next /\ total' = total /\ made' = made
      /\ base' = base + off /\ off' = 0 /\ writePos' = writePos /\ limit' = limit
      /\ \/ part + 1 \in Parts /\ ppc' = "find again" /\ part' = part + 1
         \/ part + 1 \notin Parts /\ ppc' = "clear" /\ part' = 0
  BY DEF SortIndex, GoTo
<1>2. /\ NatPlaces /\ Sums(P) /\ limit = b0 + P[R * Y] /\ base + off = b0 + P[part + 1]
  BY <1>1, Zenon DEF RoomIs
<1>3. base + off \in Nat /\ (base + off) + 0 = base + off /\ 0 \in Nat
  BY <1>2 DEF NatPlaces
<1>4. NatPlaces' /\ Sums(P)'
  BY <1>1, <1>2, <1>3, Zenon DEF NatPlaces, Sums
<1>5. CASE part + 1 \in Parts /\ ppc' = "find again" /\ part' = part + 1
  BY <1>1, <1>2, <1>3, <1>4, <1>5, Zenon DEF RoomIs
<1>6. CASE part + 1 \notin Parts /\ ppc' = "clear" /\ part' = 0
  <2>1. part + 1 = R * Y
    BY <1>6, PartsAre DEF PoolsTracked, StoreTypes
  <2> QED
    BY <1>1, <1>2, <1>4, <1>6, <2>1, Zenon DEF RoomIs
<1> QED
  BY <1>1, <1>5, <1>6

(* ClearMeta: the room is given up.                                        *)
LEMMA RoomClear ==
    ASSUME NEW P \in [Nat -> Nat], NEW b0 \in Nat, RoomIs(P, b0), ClearMeta
    PROVE  RoomIs(P, b0)'
<1>1. /\ ppc' = "idle" /\ base' = 0 /\ total' = total /\ off' = off /\ writePos' = writePos
  BY Zenon DEF ClearMeta
<1>2. NatPlaces'
  BY <1>1 DEF RoomIs, NatPlaces
<1> QED
  BY <1>1, <1>2, Zenon DEF RoomIs

(* Every step keeps the account of the room, until a length is misread.    *)
LEMMA RoomNext ==
    ASSUME PoolsTracked, RoomTracked, [Next]_vars
    PROVE  RoomTracked'
<1> DEFINE Measures == MeasurePart \/ MeasureAgain
<1>1. ASSUME misread PROVE RoomTracked'
  <2>1. misread'
    BY <1>1, Zenon DEF Next, Generate, Persist, StartIndex, AllocateEnters, AllocateLists, AllocateTakes,
       NextDataBlock, CheckAndGetMeta, FindPart, MeasurePart, Reserve, MeasureAgain, WriteRefused,
       WriteAccepted, WriteCopied, PartWritten, SortIndex, ClearMeta, TakeIndexBlock,
       TakeAndDrop, ManagerReturns, RecycleIndexBlock, Stop, Misreads, vars
  <2> QED
    BY <2>1, Zenon DEF RoomTracked
<1>2. ASSUME NEW P \in [Nat -> Nat], NEW b0 \in Nat, RoomIs(P, b0)
      PROVE  RoomTracked'
  <2>1. ASSUME NEW O \in [Nat -> Nat], NEW b1 \in Nat, RoomIs(O, b1)' PROVE RoomTracked'
    BY <2>1, Zenon DEF RoomTracked
  <2>2. ASSUME Measures PROVE RoomTracked'
    <3>1. misread' = (misread \/ (node # None /\ AtArrayEnd(ThisPool, node)))
      BY <2>2, Zenon DEF MeasurePart, MeasureAgain, Misreads
    <3>2. ASSUME node # None, AtArrayEnd(ThisPool, node) PROVE RoomTracked'
      BY <3>1, <3>2, Zenon DEF RoomTracked
    <3>3. ASSUME node # None => ~AtArrayEnd(ThisPool, node) PROVE RoomTracked'
      <4>1. CASE MeasurePart
        BY <1>2, <2>1, <3>3, <4>1, RoomMeasure, Zenon
      <4>2. CASE MeasureAgain
        BY <1>2, <2>1, <3>3, <4>2, RoomAgain, Zenon
      <4> QED
        BY <2>2, <4>1, <4>2
    <3> QED
      BY <3>2, <3>3, Zenon
  <2>3. CASE \E r \in Readers : Generate(r)
    BY <1>2, <2>1, <2>3, RoomGenerate, Zenon
  <2>4. CASE CheckAndGetMeta
    BY <1>2, <2>1, <2>4, RoomCheck, Zenon
  <2>5. CASE FindPart
    BY <1>2, <2>1, <2>5, RoomFind, Zenon
  <2>6. CASE Reserve
    BY <1>2, <2>1, <2>6, RoomReserve, Zenon
  <2>7. CASE WriteRefused \/ WriteCopied
    BY <1>2, <2>1, <2>7, RoomWrite, Zenon
  <2>8. CASE WriteAccepted
    BY <1>2, <2>1, <2>8, RoomAccepted, Zenon
  <2>9. CASE PartWritten
    BY <1>2, <2>1, <2>9, RoomWritten, Zenon
  <2>10. CASE SortIndex
    BY <1>2, <2>1, <2>10, RoomSort, Zenon
  <2>11. CASE ClearMeta
    BY <1>2, <2>1, <2>11, RoomClear, Zenon
  <2>12. ASSUME UNCHANGED <<persistVars, made>> PROVE RoomTracked'
    <3>1. /\ UNCHANGED <<ppc, part, next, calls, total, base, off, writePos, limit>>
          /\ made' = made
      BY <2>12 DEF persistVars, scanVars, placeVars
    <3>2. RoomIs(P, b0)'
      BY <1>2, <3>1, RoomStays, Zenon
    <3> QED
      BY <2>1, <3>2, Zenon
  <2>13. CASE TakeIndexBlock \/ TakeAndDrop \/ ManagerReturns \/ Stop
    BY <2>12, <2>13, Zenon DEF TakeIndexBlock, TakeAndDrop, ManagerReturns, Stop
  <2>14. CASE \E s \in Slots : RecycleIndexBlock(s)
    BY <2>12, <2>14, Zenon DEF RecycleIndexBlock
  <2>15. CASE UNCHANGED vars
    BY <2>12, <2>15, Zenon DEF vars
  <2>16. CASE Persist
    BY <2>2, <2>4, <2>5, <2>6, <2>7, <2>8, <2>9, <2>10, <2>11, <2>16, Zenon DEF Persist
  <2> QED
    BY <2>3, <2>13, <2>14, <2>15, <2>16, Zenon DEF Next
<1> QED
  BY <1>1, <1>2, Zenon DEF RoomTracked

(* The second pass over the pools fills the room that was reserved after   *)
(* the first, to the last unit.                                            *)
THEOREM RoomExact == PoolRoom => (Spec => []ReservedExactly)
<1> SUFFICES ASSUME PoolRoom PROVE Spec => []ReservedExactly
  OBVIOUS
<1>1. Init => PoolsTracked /\ RoomTracked
  BY StoreInit, RoomInit
<1>2. PoolsTracked /\ RoomTracked /\ [Next]_vars => (PoolsTracked /\ RoomTracked)'
  BY StoreNext, RoomNext
<1>3. RoomTracked => ReservedExactly
  BY Zenon DEF RoomTracked, RoomIs, ReservedExactly
<1> QED
  BY <1>1, <1>2, <1>3, PTL DEF Spec
=============================================================================
