--------------------------- MODULE IndexStorePlaces ----------------------------
(***************************************************************************)
(* Why what the persister copies reaches the index disk (IndexStore), for  *)
(* every size of disk, cache and pools that PoolRoom allows.               *)
(*                                                                         *)
(* The argument follows the positions the threads would have if the index  *)
(* disk never came round: the next units go to position A, in block        *)
(* w = A \div S; slot s holds block a[s]; the disk manager comes to block  *)
(* c next, which is w at most as long as the persister may write.          *)
(***************************************************************************)
EXTENDS IndexStoreProofs

-----------------------------------------------------------------------------
(* Positions on the index disk                                             *)

(* The sizes of the index disk and of its cache.                           *)
LEMMA DiskSizes ==
    /\ M \in Nat /\ 0 < M /\ B \in Nat /\ 0 < B /\ 4 * B < M /\ S \in Nat /\ 0 < S
    /\ MaxPer \in Nat /\ MaxPer <= S /\ DiskSize \in Nat /\ 0 < DiskSize
    /\ \E k \in Nat : M = k * B
    /\ \E j \in Nat : DiskSize = (j * M) * S
<1>1. /\ M \in Nat /\ 0 < M /\ B \in Nat /\ 0 < B /\ 4 * B < M /\ S \in Nat /\ 0 < S
      /\ M % B = 0
  BY IndexBufferAssumption
<1>2. /\ MaxPer \in Nat /\ MaxPer <= S /\ DiskSize \in Nat /\ 0 < DiskSize
      /\ DiskSize % (M * S) = 0
  BY StoreAssumption
<1>3. \E k \in Nat : M = k * B
  <2>1. M = (M \div B) * B + (M % B) /\ M \div B \in Nat
    BY <1>1, DivMod
  <2>2. PICK k \in Nat : k = M \div B
    BY <2>1
  <2> QED
    BY <1>1, <2>1, <2>2
<1>4. \E j \in Nat : DiskSize = (j * M) * S
  <2>1. PICK t \in Nat : t = M * S /\ 0 < t
    <3>1. M * S \in Nat /\ 0 < M * S
      BY <1>1
    <3> QED
      BY <3>1
  <2>2. DiskSize = (DiskSize \div t) * t + (DiskSize % t) /\ DiskSize \div t \in Nat
    BY <1>2, <2>1, DivMod
  <2>3. PICK j \in Nat : j = DiskSize \div t
    BY <2>2
  <2>4. DiskSize = j * t
    BY <1>2, <2>1, <2>2, <2>3
  <2>5. j * (M * S) = (j * M) * S
    BY <1>1
  <2> QED
    BY <2>1, <2>4, <2>5
<1> QED
  BY <1>1, <1>2, <1>3, <1>4

(* Whole turns do not change a remainder.                                  *)
LEMMA ModTurns ==
    ASSUME NEW m \in Nat, 0 < m, NEW x \in Nat, NEW n \in Nat
    PROVE  (x + n * m) % m = x % m
<1>1. PICK q \in Nat, e \in Nat : x = q * m + e /\ e < m /\ e = x % m
  BY DivMod
<1>2. x + n * m = (q + n) * m + e /\ n * m \in Nat
  BY <1>1
<1>3. PICK y \in Nat, k \in Nat : y = x + n * m /\ k = q + n
  BY <1>2
<1>4. y = k * m + e
  BY <1>2, <1>3
<1>5. y % m = e
  BY <1>1, <1>4, DivModUnique
<1> QED
  BY <1>1, <1>3, <1>5

(* The slot of a block, from its number on the disk.                       *)
LEMMA BlockSlot == \A y \in Nat : (y % M) % B = y % B
<1>1. PICK k \in Nat : M = k * B
  BY DiskSizes
<1>2. M \in Nat /\ 0 < M /\ B \in Nat /\ 0 < B
  BY DiskSizes
<1> QED
  BY <1>1, <1>2, ModMod

(* A position some turns of the disk further is at the same place.         *)
LEMMA PlaceTurns ==
    ASSUME NEW e \in Nat, NEW k \in Nat
    PROVE  /\ ((e + k * DiskSize) \div S) % M = (e \div S) % M
           /\ (e + k * DiskSize) % S = e % S
<1>1. M \in Nat /\ 0 < M /\ S \in Nat /\ 0 < S
  BY DiskSizes
<1>2. PICK j \in Nat : DiskSize = (j * M) * S
  BY DiskSizes
<1>3. PICK q \in Nat, f \in Nat :
        e = q * S + f /\ f < S /\ q = e \div S /\ f = e % S
  BY <1>1, DivMod
<1>4. PICK t \in Nat : t = k * j
  <2>1. k * j \in Nat
    OBVIOUS
  <2> QED
    BY <2>1
<1>5. PICK g \in Nat : g = t * M
  <2>1. t * M \in Nat
    BY <1>1
  <2> QED
    BY <2>1
<1>6. k * DiskSize = g * S
  <2>1. \A u, v, z, l \in Nat : l * ((u * v) * z) = ((l * u) * v) * z
    OBVIOUS
  <2>2. k * ((j * M) * S) = ((k * j) * M) * S
    BY <1>1, <2>1
  <2>3. ((k * j) * M) * S = g * S
    BY <1>4, <1>5
  <2> QED
    BY <1>2, <2>2, <2>3, Zenon
<1>7. PICK h \in Nat : h = q + g
  OBVIOUS
<1>8. PICK y \in Nat : y = e + k * DiskSize /\ y = h * S + f
  <2>1. \A u, v, z \in Nat : (u + v) * z = u * z + v * z /\ u * z \in Nat
    OBVIOUS
  <2>2. (q + g) * S = q * S + g * S /\ q * S \in Nat /\ g * S \in Nat
    BY <1>1, <2>1
  <2>3. PICK d \in Nat, i \in Nat : d = g * S /\ i = q * S
    BY <2>2
  <2>4. h * S = i + d
    BY <1>7, <2>2, <2>3, Zenon
  <2>5. e = i + f
    BY <1>3, <2>3, Zenon
  <2>6. e + d = (i + d) + f /\ e + d \in Nat
    BY <2>5
  <2>7. e + k * DiskSize = e + d
    BY <1>6, <2>3, Zenon
  <2> QED
    BY <2>4, <2>6, <2>7, Zenon
<1>9. y \div S = h /\ y % S = f
  <2>1. h \in Int
    OBVIOUS
  <2> QED
    BY <1>1, <1>3, <1>8, <2>1, DivModUnique, Zenon
<1>10. h % M = q % M
  BY <1>1, <1>5, <1>7, ModTurns
<1> QED
  BY <1>3, <1>8, <1>9, <1>10

(* Positions with the same remainder are in the same place of the same     *)
(* block, and of the same slot.                                            *)
LEMMA SamePlace ==
    ASSUME NEW p \in Nat, NEW A \in Nat, p % DiskSize = A % DiskSize
    PROVE  /\ DiskIdOf(p) = (A \div S) % M /\ p % S = A % S
           /\ SlotOfPos(p) = (A \div S) % B
           /\ A \div S \in Nat /\ p \div S \in Nat
<1>1. /\ M \in Nat /\ 0 < M /\ S \in Nat /\ 0 < S /\ B \in Nat /\ 0 < B
      /\ DiskSize \in Nat /\ 0 < DiskSize
  BY DiskSizes
<1>2. ASSUME NEW y \in Nat
      PROVE  /\ (y \div S) % M = ((y % DiskSize) \div S) % M
             /\ y % S = (y % DiskSize) % S
  <2>1. PICK k \in Nat, e \in Nat : y = k * DiskSize + e /\ e = y % DiskSize
    BY <1>1, DivMod
  <2>2. PICK t \in Nat : t = k * DiskSize
    <3>1. k * DiskSize \in Nat
      BY <1>1
    <3> QED
      BY <3>1
  <2>5. t + e = e + t
    OBVIOUS
  <2>3. y = e + k * DiskSize
    BY <2>1, <2>2, <2>5, Zenon
  <2>4. ((e + k * DiskSize) \div S) % M = (e \div S) % M /\ (e + k * DiskSize) % S = e % S
    BY PlaceTurns
  <2> QED
    BY <2>1, <2>3, <2>4, Zenon
<1>3. p \div S \in Nat /\ A \div S \in Nat
  BY <1>1, DivMod
<1>4. (p \div S) % M = (A \div S) % M /\ p % S = A % S
  BY <1>2
<1>6. \A y \in Nat : (y % M) % B = y % B
  BY BlockSlot, Zenon
<1>7. (p \div S) % B = (A \div S) % B
  <2>1. ((p \div S) % M) % B = (p \div S) % B /\ ((A \div S) % M) % B = (A \div S) % B
    BY <1>3, <1>6
  <2> QED
    BY <1>4, <2>1
<1>8. DiskIdOf(p) = (p \div S) % M /\ SlotOfPos(p) = (p \div S) % B
  BY Zenon DEF DiskIdOf, SlotOfPos
<1> QED
  BY <1>3, <1>4, <1>7, <1>8, Zenon

(* Moving on by the same length keeps them together.                       *)
LEMMA PlaceMoves ==
    ASSUME NEW p \in Nat, NEW A \in Nat, p % DiskSize = A % DiskSize, NEW d \in Nat
    PROVE  (p + d) % DiskSize = (A + d) % DiskSize
<1>1. DiskSize \in Nat /\ 0 < DiskSize
  BY DiskSizes
<1>2. /\ (p + d) % DiskSize = ((p % DiskSize) + d) % DiskSize
      /\ (A + d) % DiskSize = ((A % DiskSize) + d) % DiskSize
  BY <1>1, ModAdd
<1> QED
  BY <1>2

(* A position that has moved on by less than a block and more.             *)
LEMMA BlockAfter ==
    ASSUME NEW A \in Nat, NEW d \in Nat, d <= S
    PROVE  (A + d) \div S = IF (A % S) + d >= S THEN (A \div S) + 1 ELSE A \div S
<1>1. S \in Nat /\ 0 < S
  BY DiskSizes
<1>2. PICK q \in Nat, f \in Nat :
        A = q * S + f /\ f < S /\ q = A \div S /\ f = A % S
  BY <1>1, DivMod
<1>3. PICK y \in Nat : y = A + d
  OBVIOUS
<1>4. PICK g \in Nat : g = q * S
  <2>1. q * S \in Nat
    BY <1>1
  <2> QED
    BY <2>1
<1>5. CASE f + d >= S
  <2>1. PICK h \in Nat : h = q + 1
    OBVIOUS
  <2>2. PICK e \in Nat : e = f + d - S /\ e < S
    <3>1. f + d - S \in Nat /\ f + d - S < S
      BY <1>1, <1>2, <1>5
    <3> QED
      BY <3>1
  <2>3. h * S = g + S
    <3>1. \A u, v \in Nat : (u + 1) * v = u * v + v
      OBVIOUS
    <3>2. (q + 1) * S = q * S + S
      BY <1>1, <3>1
    <3> QED
      BY <1>4, <2>1, <3>2, Zenon
  <2>4. y = h * S + e
    BY <1>1, <1>2, <1>3, <1>4, <2>2, <2>3
  <2>5. y \div S = h
    BY <1>1, <2>2, <2>4, DivModUnique
  <2> QED
    BY <1>2, <1>3, <1>5, <2>1, <2>5
<1>6. CASE ~(f + d >= S)
  <2>1. PICK e \in Nat : e = f + d /\ e < S
    BY <1>1, <1>6
  <2>2. y = q * S + e
    <3>1. y = (g + f) + d
      BY <1>2, <1>3, <1>4, Zenon
    <3>2. y = g + e
      BY <2>1, <3>1
    <3> QED
      BY <1>4, <3>2, Zenon
  <2>3. y \div S = q
    BY <1>1, <2>1, <2>2, DivModUnique
  <2> QED
    BY <1>2, <1>3, <1>6, <2>3
<1> QED
  BY <1>5, <1>6

-----------------------------------------------------------------------------
(* The cache                                                               *)

(* Slot s holds block a[s] of those the persister would write if the disk  *)
(* had no end; it has come to block w, and the disk manager to slot c of   *)
(* all it would examine.                                                   *)
SlotIs(s, id, fly, tak, dir, w, a, c) ==
    /\ a[s] % B = s /\ id[s] = a[s] % M /\ w < a[s] + B
    /\ tak[s] => fly[s] = 1 /\ a[s] < c /\ c <= a[s] + B
    /\ ~tak[s] => fly[s] = 0 /\ c <= a[s] /\ a[s] < c + B
    /\ dir[s] => c <= a[s] /\ a[s] <= w

(* The manager is one block beyond the persister at most.                  *)
CacheIs(id, fly, tak, dir, w, a, c) ==
    /\ c <= w + 1
    /\ \A s \in Slots : SlotIs(s, id, fly, tak, dir, w, a, c)

(* The types of the cache, of the writes in flight and of the histories.   *)
CacheTypes(id, fly, tak, dir) ==
    /\ id \in [Slots -> Nat] /\ fly \in [Slots -> Nat]
    /\ tak \in [Slots -> BOOLEAN] /\ dir \in [Slots -> BOOLEAN]

(* Every number has its slot.                                              *)
LEMMA SlotsAre ==
    /\ \A y \in Nat : y % B \in Slots /\ (y + B) % B = y % B
    /\ \A y, z \in Nat : y % B = z % B /\ y < z => y + B <= z
<1>1. B \in Nat /\ 0 < B
  BY DiskSizes
<1>2. ASSUME NEW y \in Nat PROVE y % B \in Slots /\ (y + B) % B = y % B
  <2>1. y % B \in Nat /\ y % B < B
    BY <1>1, DivMod
  <2>2. (y + B) % B = y % B
    BY <1>1, ModShift
  <2> QED
    BY <1>1, <2>1, <2>2 DEF Slots
<1>3. \A y, z \in Nat : y % B = z % B /\ y < z => y + B <= z
  BY <1>1, ModApart
<1> QED
  BY <1>2, <1>3

(* The slot the manager examines holds block c unless it has been taken,   *)
(* which cannot be while c has not passed the persister.                   *)
LEMMA CheckedSlot ==
    ASSUME NEW id, NEW fly, NEW tak, NEW dir, NEW w \in Nat, NEW a \in [Slots -> Nat],
           NEW c \in Nat, CacheIs(id, fly, tak, dir, w, a, c)
    PROVE  /\ c % B \in Slots
           /\ ~tak[c % B] => a[c % B] = c
           /\ c <= w => ~tak[c % B]
           /\ \A s \in Slots : s # c % B => a[s] # c /\ a[s] + B # c
<1>1. B \in Nat /\ 0 < B
  BY DiskSizes
<1>2. c % B \in Slots
  BY SlotsAre
<1>3. PICK e \in Nat : e = a[c % B]
  BY <1>2
<1>4. SlotIs(c % B, id, fly, tak, dir, w, a, c)
  BY <1>2, Zenon DEF CacheIs
<1>5. e % B = c % B
  BY <1>3, <1>4 DEF SlotIs
<1>6. ~(e < c /\ c < e + B) /\ ~(c < e /\ e < c + B)
  <2>1. e < c => e + B <= c
    BY <1>5, SlotsAre
  <2>2. c < e => c + B <= e
    BY <1>5, SlotsAre
  <2> QED
    BY <1>1, <2>1, <2>2
<1>7. ~tak[c % B] => e = c
  BY <1>1, <1>3, <1>4, <1>6 DEF SlotIs
<1>8. c <= w => ~tak[c % B]
  BY <1>1, <1>3, <1>4, <1>6 DEF SlotIs
<1>9. ASSUME NEW s \in Slots, s # c % B PROVE a[s] # c /\ a[s] + B # c
  <2>1. PICK f \in Nat : f = a[s]
    OBVIOUS
  <2>2. f % B = s
    BY <2>1, Zenon DEF CacheIs, SlotIs
  <2>3. (f + B) % B = f % B
    BY SlotsAre
  <2> QED
    BY <1>9, <2>1, <2>2, <2>3, Zenon
<1> QED
  BY <1>2, <1>3, <1>7, <1>8, <1>9, Zenon

(* A slot's block is less than a turn of the cache from the persister's.   *)
LEMMA SlotNear ==
    ASSUME NEW id, NEW fly, NEW tak, NEW dir, NEW w \in Nat, NEW a \in [Slots -> Nat],
           NEW c \in Nat, CacheIs(id, fly, tak, dir, w, a, c), NEW s \in Slots
    PROVE  w < a[s] + B /\ a[s] <= w + B
<1>1. B \in Nat /\ 0 < B
  BY DiskSizes
<1>2. SlotIs(s, id, fly, tak, dir, w, a, c) /\ c <= w + 1
  BY Zenon DEF CacheIs
<1>3. PICK e \in Nat : e = a[s]
  OBVIOUS
<1>4. CASE tak[s]
  BY <1>1, <1>2, <1>3, <1>4 DEF SlotIs
<1>5. CASE ~tak[s]
  BY <1>1, <1>2, <1>3, <1>5 DEF SlotIs
<1> QED
  BY <1>4, <1>5

(* The manager takes a block.                                              *)
LEMMA TakeKeepsCache ==
    ASSUME NEW id, NEW fly, NEW tak, NEW dir, CacheTypes(id, fly, tak, dir),
           NEW w \in Nat, NEW a \in [Slots -> Nat],
           NEW c \in Nat, CacheIs(id, fly, tak, dir, w, a, c), c <= w,
           NEW h, h = c % B
    PROVE  CacheIs(id, [fly EXCEPT ![h] = @ + 1], [tak EXCEPT ![h] = TRUE],
                   [dir EXCEPT ![h] = FALSE], w, a, c + 1)
<1> DEFINE fly2 == [fly EXCEPT ![h] = @ + 1]
           tak2 == [tak EXCEPT ![h] = TRUE]
           dir2 == [dir EXCEPT ![h] = FALSE]
<1>1. B \in Nat /\ 0 < B
  BY DiskSizes
<1>2. /\ h \in Slots /\ ~tak[h] /\ a[h] = c
      /\ \A s \in Slots : s # h => a[s] # c /\ a[s] + B # c
  <2>1. /\ c % B \in Slots /\ ~tak[c % B] /\ a[c % B] = c
        /\ \A s \in Slots : s # c % B => a[s] # c /\ a[s] + B # c
    BY CheckedSlot
  <2> QED
    BY <2>1
<1>3. /\ fly2[h] = fly[h] + 1 /\ tak2[h] = TRUE /\ dir2[h] = FALSE
      /\ \A s \in Slots : s # h => fly2[s] = fly[s] /\ tak2[s] = tak[s] /\ dir2[s] = dir[s]
  BY <1>2 DEF CacheTypes
<1> HIDE DEF fly2, tak2, dir2
<1>4. ASSUME NEW s \in Slots PROVE SlotIs(s, id, fly2, tak2, dir2, w, a, c + 1)
  <2>1. SlotIs(s, id, fly, tak, dir, w, a, c)
    BY Zenon DEF CacheIs
  <2>2. PICK e \in Nat : e = a[s]
    OBVIOUS
  <2>3. CASE s = h
    BY <1>1, <1>2, <1>3, <2>1, <2>2, <2>3 DEF SlotIs
  <2>4. CASE s # h
    <3>1. /\ fly2[s] = fly[s] /\ (tak2[s] <=> tak[s]) /\ (dir2[s] <=> dir[s])
          /\ e # c /\ e + B # c
      BY <1>2, <1>3, <2>2, <2>4
    <3>2. /\ e % B = s /\ id[s] = e % M /\ w < e + B
          /\ tak[s] => fly[s] = 1 /\ e < c /\ c <= e + B
          /\ ~tak[s] => fly[s] = 0 /\ c <= e /\ e < c + B
          /\ dir[s] => c <= e /\ e <= w
      BY <2>1, <2>2, Zenon DEF SlotIs
    <3>3. /\ e < c /\ c <= e + B => e < c + 1 /\ c + 1 <= e + B
          /\ c <= e /\ e < c + B => c + 1 <= e /\ e < c + 1 + B
          /\ c <= e => c + 1 <= e
      BY <1>1, <3>1
    <3> QED
      BY <2>2, <3>1, <3>2, <3>3, Zenon DEF SlotIs
  <2> QED
    BY <2>3, <2>4
<1>5. c + 1 <= w + 1
  OBVIOUS
<1>6. CacheIs(id, fly2, tak2, dir2, w, a, c + 1)
  BY <1>4, <1>5, Zenon DEF CacheIs
<1> QED
  BY <1>6 DEF fly2, tak2, dir2

(* The number of the block that follows in a slot.                         *)
LEMMA NextInSlot ==
    ASSUME NEW e \in Nat
    PROVE  /\ (e + B) % B = e % B /\ e + B \in Nat
           /\ ((e % M) + B) % M = (e + B) % M
<1>1. B \in Nat /\ 0 < B /\ M \in Nat /\ 0 < M
  BY DiskSizes
<1>2. ((e % M) + B) % M = (e + B) % M
  BY <1>1, ModAdd
<1>3. e + B \in Nat
  BY <1>1
<1> QED
  BY <1>2, <1>3, SlotsAre

(* The manager drops a block.                                              *)
LEMMA DropKeepsCache ==
    ASSUME NEW id, NEW fly, NEW tak, NEW dir, CacheTypes(id, fly, tak, dir),
           NEW w \in Nat, NEW a \in [Slots -> Nat],
           NEW c \in Nat, CacheIs(id, fly, tak, dir, w, a, c), c <= w,
           NEW h, h = c % B
    PROVE  CacheIs([id EXCEPT ![h] = (@ + B) % M], fly, [tak EXCEPT ![h] = FALSE],
                   [dir EXCEPT ![h] = FALSE], w, [a EXCEPT ![h] = @ + B], c + 1)
<1> DEFINE id2 == [id EXCEPT ![h] = (@ + B) % M]
           tak2 == [tak EXCEPT ![h] = FALSE]
           dir2 == [dir EXCEPT ![h] = FALSE]
           a2 == [a EXCEPT ![h] = @ + B]
<1>1. B \in Nat /\ 0 < B /\ M \in Nat /\ 0 < M
  BY DiskSizes
<1>2. /\ h \in Slots /\ ~tak[h] /\ a[h] = c
      /\ \A s \in Slots : s # h => a[s] # c /\ a[s] + B # c
  <2>1. /\ c % B \in Slots /\ ~tak[c % B] /\ a[c % B] = c
        /\ \A s \in Slots : s # c % B => a[s] # c /\ a[s] + B # c
    BY CheckedSlot
  <2> QED
    BY <2>1
<1>3. /\ id2[h] = (id[h] + B) % M /\ tak2[h] = FALSE /\ dir2[h] = FALSE /\ a2[h] = c + B
      /\ \A s \in Slots : s # h => /\ id2[s] = id[s] /\ tak2[s] = tak[s] /\ dir2[s] = dir[s]
                                   /\ a2[s] = a[s]
  BY <1>2 DEF CacheTypes
<1> HIDE DEF id2, tak2, dir2, a2
<1>4. ASSUME NEW s \in Slots PROVE SlotIs(s, id2, fly, tak2, dir2, w, a2, c + 1)
  <2>1. SlotIs(s, id, fly, tak, dir, w, a, c)
    BY Zenon DEF CacheIs
  <2>2. PICK e \in Nat : e = a[s]
    OBVIOUS
  <2>5. /\ e % B = s /\ id[s] = e % M /\ w < e + B
        /\ tak[s] => fly[s] = 1 /\ e < c /\ c <= e + B
        /\ ~tak[s] => fly[s] = 0 /\ c <= e /\ e < c + B
        /\ dir[s] => c <= e /\ e <= w
    BY <2>1, <2>2, Zenon DEF SlotIs
  <2>3. CASE s = h
    <3>1. e = c /\ fly[s] = 0
      BY <1>2, <2>2, <2>3, <2>5
    <3>2. a2[s] % B = s /\ id2[s] = a2[s] % M
      BY <1>3, <2>3, <2>5, <3>1, NextInSlot
    <3>3. w < a2[s] + B /\ c + 1 <= a2[s] /\ a2[s] < (c + 1) + B
      BY <1>1, <1>3, <2>3, <2>5, <3>1
    <3> QED
      BY <1>3, <2>3, <3>1, <3>2, <3>3, Zenon DEF SlotIs
  <2>4. CASE s # h
    <3>1. /\ id2[s] = id[s] /\ (tak2[s] <=> tak[s]) /\ (dir2[s] <=> dir[s]) /\ a2[s] = e
          /\ e # c /\ e + B # c
      BY <1>2, <1>3, <2>2, <2>4
    <3>3. /\ e < c /\ c <= e + B => e < c + 1 /\ c + 1 <= e + B
          /\ c <= e /\ e < c + B => c + 1 <= e /\ e < c + 1 + B
          /\ c <= e => c + 1 <= e
      BY <1>1, <3>1
    <3> QED
      BY <2>5, <3>1, <3>3, Zenon DEF SlotIs
  <2> QED
    BY <2>3, <2>4
<1>5. c + 1 <= w + 1
  OBVIOUS
<1>6. CacheIs(id2, fly, tak2, dir2, w, a2, c + 1)
  BY <1>4, <1>5, Zenon DEF CacheIs
<1> QED
  BY <1>6 DEF id2, tak2, dir2, a2

(* The memory manager recycles a block that was written.                   *)
LEMMA RecycleKeepsCache ==
    ASSUME NEW id, NEW fly, NEW tak, NEW dir, CacheTypes(id, fly, tak, dir),
           NEW w \in Nat, NEW a \in [Slots -> Nat],
           NEW c \in Nat, CacheIs(id, fly, tak, dir, w, a, c),
           NEW h \in Slots, fly[h] > 0
    PROVE  CacheIs([id EXCEPT ![h] = (@ + B) % M], [fly EXCEPT ![h] = @ - 1],
                   [tak EXCEPT ![h] = FALSE], dir, w, [a EXCEPT ![h] = @ + B], c)
<1> DEFINE id2 == [id EXCEPT ![h] = (@ + B) % M]
           fly2 == [fly EXCEPT ![h] = @ - 1]
           tak2 == [tak EXCEPT ![h] = FALSE]
           a2 == [a EXCEPT ![h] = @ + B]
<1>1. B \in Nat /\ 0 < B /\ M \in Nat /\ 0 < M
  BY DiskSizes
<1>3. /\ id2[h] = (id[h] + B) % M /\ fly2[h] = fly[h] - 1 /\ tak2[h] = FALSE
      /\ a2[h] = a[h] + B
      /\ \A s \in Slots : s # h => /\ id2[s] = id[s] /\ fly2[s] = fly[s] /\ tak2[s] = tak[s]
                                   /\ a2[s] = a[s]
  BY DEF CacheTypes
<1> HIDE DEF id2, fly2, tak2, a2
<1>4. ASSUME NEW s \in Slots PROVE SlotIs(s, id2, fly2, tak2, dir, w, a2, c)
  <2>1. SlotIs(s, id, fly, tak, dir, w, a, c)
    BY Zenon DEF CacheIs
  <2>2. PICK e \in Nat : e = a[s]
    OBVIOUS
  <2>5. /\ e % B = s /\ id[s] = e % M /\ w < e + B
        /\ tak[s] => fly[s] = 1 /\ e < c /\ c <= e + B
        /\ ~tak[s] => fly[s] = 0 /\ c <= e /\ e < c + B
        /\ dir[s] => c <= e /\ e <= w
    BY <2>1, <2>2, Zenon DEF SlotIs
  <2>3. CASE s = h
    <3>1. fly[s] = 1 /\ e < c /\ c <= e + B
      BY <2>3, <2>5
    <3>2. a2[s] % B = s /\ id2[s] = a2[s] % M
      BY <1>3, <2>2, <2>3, <2>5, NextInSlot
    <3>3. w < a2[s] + B /\ c <= a2[s] /\ a2[s] < c + B /\ fly2[s] = 0 /\ ~dir[s]
      BY <1>1, <1>3, <2>2, <2>3, <2>5, <3>1
    <3> QED
      BY <1>3, <2>3, <3>2, <3>3, Zenon DEF SlotIs
  <2>4. CASE s # h
    <3>1. /\ id2[s] = id[s] /\ fly2[s] = fly[s] /\ (tak2[s] <=> tak[s]) /\ a2[s] = e
      BY <1>3, <2>2, <2>4
    <3> QED
      BY <2>5, <3>1, Zenon DEF SlotIs
  <2> QED
    BY <2>3, <2>4
<1>6. CacheIs(id2, fly2, tak2, dir, w, a2, c)
  BY <1>4, Zenon DEF CacheIs
<1> QED
  BY <1>6 DEF id2, fly2, tak2, a2

(* The persister copies into its block, and into the next one when it goes *)
(* on to that.                                                             *)
LEMMA CopyKeepsCache ==
    ASSUME NEW id, NEW fly, NEW tak, NEW dir, CacheTypes(id, fly, tak, dir),
           NEW w \in Nat, NEW a \in [Slots -> Nat],
           NEW c \in Nat, CacheIs(id, fly, tak, dir, w, a, c), c <= w,
           NEW v \in Nat, a[w % B] = w, v = w \/ (v = w + 1 /\ a[v % B] = v),
           NEW dir2 \in [Slots -> BOOLEAN],
           \A s \in Slots : dir2[s] => dir[s] \/ s = w % B \/ s = v % B
    PROVE  CacheIs(id, fly, tak, dir2, v, a, c)
<1>1. B \in Nat /\ 0 < B
  BY DiskSizes
<1>2. ASSUME NEW s \in Slots PROVE SlotIs(s, id, fly, tak, dir2, v, a, c)
  <2>1. SlotIs(s, id, fly, tak, dir, w, a, c)
    BY Zenon DEF CacheIs
  <2>2. PICK e \in Nat : e = a[s]
    OBVIOUS
  <2>3. /\ e % B = s /\ id[s] = e % M /\ w < e + B
        /\ tak[s] => fly[s] = 1 /\ e < c /\ c <= e + B
        /\ ~tak[s] => fly[s] = 0 /\ c <= e /\ e < c + B
        /\ dir[s] => c <= e /\ e <= w
    BY <2>1, <2>2, Zenon DEF SlotIs
  <2>4. v < e + B
    <3> SUFFICES ASSUME ~(v < e + B) PROVE FALSE
      OBVIOUS
    <3>1. v = w + 1 /\ v = e + B /\ a[v % B] = v
      BY <1>1, <2>3
    <3>2. v % B = s
      BY <2>3, <3>1, SlotsAre
    <3> QED
      BY <1>1, <2>2, <3>1, <3>2
  <2>5. dir2[s] => c <= e /\ e <= v
    <3>1. CASE dir[s]
      BY <2>3, <3>1
    <3>2. CASE s = w % B
      BY <2>2, <3>2
    <3>3. CASE s = v % B
      BY <2>2, <3>3
    <3> QED
      BY <3>1, <3>2, <3>3
  <2> QED
    BY <2>2, <2>3, <2>4, <2>5, Zenon DEF SlotIs
<1>3. c <= v + 1
  OBVIOUS
<1> QED
  BY <1>2, <1>3, Zenon DEF CacheIs

(* Less than half the disk apart, two numbers are those of the same block  *)
(* only if they are the same.                                              *)
LEMMA SameBlock ==
    ASSUME NEW v \in Nat, NEW e \in Nat, e <= v + B, v <= e + B
    PROVE  e % M = v % M <=> e = v
<1>1. M \in Nat /\ 0 < M /\ B \in Nat /\ 4 * B < M
  BY DiskSizes
<1>2. e % M = v % M /\ e < v => e + M <= v
  BY <1>1, ModApart
<1>3. e % M = v % M /\ v < e => v + M <= e
  BY <1>1, ModApart
<1> QED
  BY <1>1, <1>2, <1>3

(* Numbers less than a turn apart, on the disk.                            *)
LEMMA OnDisk ==
    ASSUME NEW x \in Nat, NEW y \in Nat, x <= y, y <= x + B, NEW p, NEW q, p = x % M, q = y % M
    PROVE  /\ p \in Nat /\ q \in Nat /\ p < M /\ q < M
           /\ q = p + (y - x) \/ q = p + (y - x) - M
<1>1. M \in Nat /\ 0 < M /\ B \in Nat /\ 4 * B < M
  BY DiskSizes
<1>2. p \in Nat /\ p < M /\ q \in Nat /\ q < M
  BY <1>1, DivMod
<1>3. PICK d \in Nat : d = y - x
  OBVIOUS
<1>4. (x + d) % M = ((x % M) + d) % M
  BY <1>1, ModAdd
<1>5. PICK z \in Nat : z = p + d
  BY <1>2
<1>6. y = x + d
  BY <1>3
<1>7. q = z % M
  BY <1>4, <1>5, <1>6
<1>8. z < 2 * M
  BY <1>1, <1>2, <1>3, <1>5
<1>9. (z < M => z % M = z) /\ (M <= z /\ z < 2 * M => z % M = z - M)
  BY <1>1, ModSmall
<1> QED
  BY <1>1, <1>2, <1>3, <1>5, <1>7, <1>8, <1>9

(* CheckThread finds the persister beyond a block when it is.              *)
LEMMA BeyondIs ==
    ASSUME NEW w \in Nat, NEW e \in Nat, w < e + B, e <= w + B, disk_write_id = w % M
    PROVE  Beyond(e % M) <=> e < w
<1>1. M \in Nat /\ 0 < M /\ B \in Nat /\ 0 < B /\ 4 * B < M
  BY DiskSizes
<1>2. PICK p, v : p = e % M /\ v = w % M
  OBVIOUS
<1>3. /\ p \in Nat /\ v \in Nat /\ p < M /\ v < M
      /\ \/ e <= w /\ (v = p + (w - e) \/ v = p + (w - e) - M)
         \/ w <= e /\ (p = v + (e - w) \/ p = v + (e - w) - M)
  <2>1. CASE e <= w
    BY <1>1, <1>2, <2>1, OnDisk
  <2>2. CASE w <= e
    BY <1>1, <1>2, <2>2, OnDisk
  <2> QED
    BY <2>1, <2>2
<1>4. PICK l \in Nat : l = (p + M - 2 * B) % M /\ l = IF 2 * B <= p THEN p - 2 * B ELSE p + M - 2 * B
  <2>1. PICK z \in Nat : z = p + M - 2 * B /\ z < 2 * M
    <3>1. p + M - 2 * B \in Nat /\ p + M - 2 * B < 2 * M
      BY <1>1, <1>3
    <3> QED
      BY <3>1
  <2>2. (z < M => z % M = z) /\ (M <= z /\ z < 2 * M => z % M = z - M)
    BY <1>1, ModSmall
  <2> QED
    BY <1>1, <1>3, <2>1, <2>2
<1>5. Beyond(p) <=> \/ l < p /\ (v > p \/ v < l)
                    \/ l > p /\ v > p /\ v < l
  BY <1>2, <1>4 DEF Beyond
<1>6. (\/ l < p /\ (v > p \/ v < l)
       \/ l > p /\ v > p /\ v < l) <=> e < w
  <2>1. CASE 2 * B <= p
    BY <1>1, <1>3, <1>4, <2>1
  <2>2. CASE ~(2 * B <= p)
    BY <1>1, <1>3, <1>4, <2>2
  <2> QED
    BY <2>1, <2>2
<1> QED
  BY <1>2, <1>5, <1>6

-----------------------------------------------------------------------------
(* How much one reader makes for one data block                            *)

(* The reader of part k has still to allocate in it.                       *)
Waits(k) == \E i \in DOMAIN gtodo[k % R] : PartOf(k % R, gtodo[k % R][i]) = k

(* No type twice.                                                          *)
Once(q) == \A i, j \in DOMAIN q : q[i] = q[j] => i = j

(* A pool has no more units of a data block than its reader has made       *)
(* indexes for it, which is MaxPer at most.                                *)
MadeTracked ==
    /\ fresh \in [Readers -> Nat]
    /\ \A r \in Readers : /\ fresh[r] <= MaxPer /\ Once(gtodo[r])
                          /\ gpc[r] = "idle" => gtodo[r] = <<>>
    /\ \A k \in Parts : /\ made[k][cur[k % R]] <= fresh[k % R]
                        /\ Waits(k) => made[k][cur[k % R]] < fresh[k % R]
    /\ \A k \in Parts : \A b \in DataBlocks : made[k][b] <= MaxPer

(* What remains of a sequence without its head.                            *)
LEMMA TailOnce ==
    ASSUME NEW S1, NEW q \in Seq(S1), q # <<>>, Once(q)
    PROVE  /\ Once(Tail(q))
           /\ \A i \in DOMAIN Tail(q) :
                 /\ \E j \in DOMAIN q : q[j] = Tail(q)[i]
                 /\ Tail(q)[i] # Head(q) /\ Tail(q)[i] \in S1
           /\ ~(Len(q) > 1) => Tail(q) = <<>>
<1>1. /\ Len(q) \in Nat /\ 0 < Len(q) /\ DOMAIN q = 1 .. Len(q) /\ Head(q) = q[1]
      /\ Tail(q) \in Seq(S1) /\ Len(Tail(q)) = Len(q) - 1
      /\ DOMAIN Tail(q) = 1 .. Len(q) - 1
      /\ \A i \in 1 .. Len(q) - 1 : Tail(q)[i] = q[i + 1]
  OBVIOUS
<1>2. \A i \in 1 .. Len(q) - 1 : i + 1 \in DOMAIN q /\ 1 \in DOMAIN q /\ i + 1 # 1
  BY <1>1
<1>3. Once(Tail(q))
  BY <1>1, <1>2 DEF Once
<1>4. ASSUME NEW i \in DOMAIN Tail(q)
      PROVE  /\ \E j \in DOMAIN q : q[j] = Tail(q)[i]
             /\ Tail(q)[i] # Head(q) /\ Tail(q)[i] \in S1
  <2>1. Tail(q)[i] \in S1
    BY <1>1
  <2> QED
    BY <1>1, <1>2, <2>1 DEF Once
<1>5. ~(Len(q) > 1) => Tail(q) = <<>>
  BY <1>1
<1> QED
  BY <1>3, <1>4, <1>5

(* The parts of one reader's types.                                        *)
LEMMA PartsApart ==
    ASSUME NEW r \in Readers, NEW t \in 0 .. Y - 1, NEW u \in 0 .. Y - 1,
           PartOf(r, t) = PartOf(r, u)
    PROVE  t = u
<1>1. R \in Nat /\ 0 < R /\ Y \in Nat /\ r \in Nat /\ r < R /\ t \in Nat /\ u \in Nat
  BY StoreSizes DEF Readers
<1>2. PICK x \in Nat : x = t * R + r
  BY <1>1
<1>3. x = u * R + r
  BY <1>2 DEF PartOf
<1>4. x \div R = t
  BY <1>1, <1>2, DivModUnique
<1>5. x \div R = u
  BY <1>1, <1>3, DivModUnique
<1> QED
  BY <1>4, <1>5

(* In the beginning nothing is made.                                       *)
LEMMA MadeInit ==
    ASSUME Init PROVE MadeTracked
<1>1. MaxPer \in Nat /\ R \in Nat /\ N \in Nat /\ 0 \in DataBlocks
  BY StoreAssumption, StoreSizes DEF DataBlocks
<1>2. /\ fresh = [r \in Readers |-> 0] /\ cur = [r \in Readers |-> 0]
      /\ gtodo = [r \in Readers |-> <<>>]
      /\ made = [k \in Parts |-> [b \in DataBlocks |-> 0]]
  BY DEF Init
<1>3. Once(<<>>)
  <2>1. DOMAIN <<>> = {}
    OBVIOUS
  <2> QED
    BY <2>1 DEF Once
<1>4. ASSUME NEW k \in Parts
      PROVE  /\ made[k][cur[k % R]] = 0 /\ fresh[k % R] = 0 /\ ~Waits(k)
             /\ \A b \in DataBlocks : made[k][b] = 0
  <2>1. k % R \in Readers
    BY PartHas
  <2>2. gtodo[k % R] = <<>>
    BY <1>2, <2>1
  <2>3. DOMAIN <<>> = {}
    OBVIOUS
  <2>4. ~Waits(k)
    BY <2>2, <2>3 DEF Waits
  <2> QED
    BY <1>1, <1>2, <2>1, <2>4
<1>5. \A r \in Readers : fresh[r] = 0 /\ gtodo[r] = <<>>
  BY <1>2
<1>6. fresh \in [Readers -> Nat]
  BY <1>2
<1> QED
  BY <1>1, <1>3, <1>4, <1>5, <1>6 DEF MadeTracked

(* Steps that change neither readers nor what they have made.              *)
LEMMA MadeSame ==
    ASSUME MadeTracked, UNCHANGED <<cur, fresh, gpc, gtodo, made>>
    PROVE  MadeTracked'
<1>1. /\ cur' = cur /\ fresh' = fresh /\ gpc' = gpc /\ gtodo' = gtodo /\ made' = made
  OBVIOUS
<1> QED
  BY <1>1 DEF MadeTracked, Waits

(* Another step of allocate.                                               *)
LEMMA MadeAllocates ==
    ASSUME MadeTracked, StoreTypes, NEW r \in Readers, AllocateEnters(r) \/ AllocateLists(r)
    PROVE  MadeTracked'
<1>1. PICK g : g # "idle" /\ gpc[r] # "idle" /\ gpc' = [gpc EXCEPT ![r] = g]
  BY DEF AllocateEnters, AllocateLists
<1>2. cur' = cur /\ fresh' = fresh /\ gtodo' = gtodo /\ made' = made
  BY DEF AllocateEnters, AllocateLists
<1>3. \A s \in Readers : gpc'[s] = "idle" => gpc[s] = "idle"
  BY <1>1 DEF StoreTypes
<1>4. \A k \in Parts : Waits(k)' <=> Waits(k)
  BY <1>2 DEF Waits
<1> QED
  BY <1>2, <1>3, <1>4, Zenon DEF MadeTracked

(* StartIndex: one index more, in each pool at most.                       *)
LEMMA MadeStart ==
    ASSUME MadeTracked, StoreTypes, NEW r \in Readers, StartIndex(r)
    PROVE  MadeTracked'
<1>1. /\ gpc[r] = "idle" /\ fresh[r] < MaxPer /\ gpc' = [gpc EXCEPT ![r] = "enter"]
      /\ fresh' = [fresh EXCEPT ![r] = @ + 1] /\ cur' = cur /\ made' = made
  BY DEF StartIndex
<1>2. PICK kind \in Kinds : gtodo' = [gtodo EXCEPT ![r] = kind]
  BY DEF StartIndex
<1>3. Once(kind)
  BY KindsAssumption DEF Once
<1>4. /\ fresh \in [Readers -> Nat] /\ gtodo \in [Readers -> Seq(0 .. Y - 1)]
      /\ gpc \in [Readers -> {"idle", "enter", "list", "take"}]
      /\ MaxPer \in Nat
  BY StoreAssumption DEF MadeTracked, StoreTypes
<1>5. /\ fresh'[r] = fresh[r] + 1 /\ gtodo'[r] = kind /\ gpc'[r] = "enter"
      /\ \A s \in Readers : s # r => /\ fresh'[s] = fresh[s] /\ gtodo'[s] = gtodo[s]
                                     /\ gpc'[s] = gpc[s]
      /\ fresh' \in [Readers -> Nat]
  BY <1>1, <1>2, <1>4
<1>6. ASSUME NEW s \in Readers
      PROVE  fresh'[s] <= MaxPer /\ Once(gtodo'[s]) /\ (gpc'[s] = "idle" => gtodo'[s] = <<>>)
  <2>1. CASE s = r
    BY <1>1, <1>3, <1>4, <1>5, <2>1
  <2>2. CASE s # r
    BY <1>5, <2>2, Zenon DEF MadeTracked
  <2> QED
    BY <2>1, <2>2
<1>7. ASSUME NEW k \in Parts
      PROVE  /\ made'[k][cur'[k % R]] <= fresh'[k % R]
             /\ Waits(k)' => made'[k][cur'[k % R]] < fresh'[k % R]
  <2>1. k % R \in Readers
    BY PartHas
  <2>2. made[k][cur[k % R]] <= fresh[k % R] /\ (Waits(k) => made[k][cur[k % R]] < fresh[k % R])
    BY Zenon DEF MadeTracked
  <2>3. PICK m \in Nat, f \in Nat : m = made[k][cur[k % R]] /\ f = fresh[k % R]
    BY <1>4, <2>1 DEF StoreTypes
  <2>4. CASE k % R = r
    BY <1>1, <1>5, <2>2, <2>3, <2>4
  <2>5. CASE k % R # r
    <3>1. gtodo'[k % R] = gtodo[k % R] /\ fresh'[k % R] = fresh[k % R]
      BY <1>5, <2>1, <2>5
    <3>2. Waits(k)' <=> Waits(k)
      BY <3>1 DEF Waits
    <3> QED
      BY <1>1, <2>2, <3>1, <3>2
  <2> QED
    BY <2>4, <2>5
<1>8. \A k \in Parts : \A b \in DataBlocks : made'[k][b] <= MaxPer
  BY <1>1 DEF MadeTracked
<1> QED
  BY <1>5, <1>6, <1>7, <1>8, Zenon DEF MadeTracked

(* AllocateTakes: one index of those the reader has counted.               *)
LEMMA MadeTakes ==
    ASSUME MadeTracked, StoreTypes, NEW r \in Readers, AllocateTakes(r)
    PROVE  MadeTracked'
<1>1. /\ gpc[r] = "take" /\ gpc[r] # "idle" /\ fresh' = fresh /\ cur' = cur
      /\ gtodo' = [gtodo EXCEPT ![r] = Tail(@)]
      /\ gpc' = [gpc EXCEPT ![r] = IF Len(gtodo[r]) > 1 THEN "enter" ELSE "idle"]
      /\ made' = [made EXCEPT ![PoolOf(r)][cur[r]] = @ + 1]
  BY DEF AllocateTakes
<1>2. PICK k0, d, q : k0 = PoolOf(r) /\ d = cur[r] /\ q = gtodo[r]
  OBVIOUS
<1>3. /\ q # <<>> /\ q \in Seq(0 .. Y - 1) /\ Head(q) \in 0 .. Y - 1
      /\ k0 \in Parts /\ k0 % R = r /\ d \in DataBlocks
      /\ k0 = PartOf(r, Head(q)) /\ Once(q)
  BY <1>1, <1>2, ThisPart DEF StoreTypes, PoolOf, MadeTracked
<1>4. /\ gtodo'[r] = Tail(q) /\ gpc'[r] = IF Len(q) > 1 THEN "enter" ELSE "idle"
      /\ \A s \in Readers : s # r => gtodo'[s] = gtodo[s] /\ gpc'[s] = gpc[s]
  BY <1>1, <1>2 DEF StoreTypes
<1>5. /\ made \in [Parts -> [DataBlocks -> Nat]] /\ cur \in [Readers -> DataBlocks]
      /\ fresh \in [Readers -> Nat] /\ MaxPer \in Nat
  BY StoreAssumption DEF StoreTypes, MadeTracked
<1>6. /\ made'[k0][d] = made[k0][d] + 1
      /\ \A b \in DataBlocks : b # d => made'[k0][b] = made[k0][b]
      /\ \A k \in Parts : k # k0 => made'[k] = made[k]
  BY <1>1, <1>2, <1>3, <1>5
<1>7. /\ Once(Tail(q)) /\ (~(Len(q) > 1) => Tail(q) = <<>>)
      /\ \A i \in DOMAIN Tail(q) :
            /\ \E j \in DOMAIN q : q[j] = Tail(q)[i]
            /\ Tail(q)[i] # Head(q) /\ Tail(q)[i] \in 0 .. Y - 1
  <2>1. PICK T : T = 0 .. Y - 1
    OBVIOUS
  <2>2. q \in Seq(T)
    BY <1>3, <2>1
  <2> QED
    BY <1>3, <2>2, TailOnce
<1>8. ASSUME NEW s \in Readers
      PROVE  fresh'[s] <= MaxPer /\ Once(gtodo'[s]) /\ (gpc'[s] = "idle" => gtodo'[s] = <<>>)
  <2>1. CASE s = r
    <3>1. fresh[s] <= MaxPer
      BY Zenon DEF MadeTracked
    <3>2. gpc'[s] = "idle" => gtodo'[s] = <<>>
      BY <1>4, <1>7, <2>1, Zenon
    <3>3. Once(gtodo'[s]) /\ fresh'[s] = fresh[s]
      BY <1>1, <1>4, <1>7, <2>1, Zenon
    <3> QED
      BY <3>1, <3>2, <3>3, Zenon
  <2>2. CASE s # r
    BY <1>1, <1>4, <2>2, Zenon DEF MadeTracked
  <2> QED
    BY <2>1, <2>2
<1>9. Waits(k0)
  <2>1. 1 \in DOMAIN q /\ q[1] = Head(q)
    <3>1. Len(q) > 0 /\ Len(q) \in Nat /\ DOMAIN q = 1 .. Len(q)
      BY <1>3
    <3> QED
      BY <3>1
  <2> QED
    BY <1>2, <1>3, <2>1 DEF Waits
<1>10. ~Waits(k0)'
  <2> SUFFICES ASSUME NEW i \in DOMAIN Tail(q), PartOf(r, Tail(q)[i]) = k0 PROVE FALSE
    BY <1>3, <1>4 DEF Waits
  <2>1. Tail(q)[i] \in 0 .. Y - 1 /\ Tail(q)[i] # Head(q)
    BY <1>7, Zenon
  <2> QED
    BY <1>3, <2>1, PartsApart
<1>11. ASSUME NEW k \in Parts
       PROVE  /\ made'[k][cur'[k % R]] <= fresh'[k % R]
              /\ Waits(k)' => made'[k][cur'[k % R]] < fresh'[k % R]
  <2>1. k % R \in Readers
    BY PartHas
  <2>2. made[k][cur[k % R]] <= fresh[k % R] /\ (Waits(k) => made[k][cur[k % R]] < fresh[k % R])
    BY Zenon DEF MadeTracked
  <2>3. PICK m \in Nat, f \in Nat : m = made[k][cur[k % R]] /\ f = fresh[k % R]
    BY <1>5, <2>1
  <2>4. CASE k = k0
    <3>1. made'[k][cur'[k % R]] = m + 1
      BY <1>1, <1>2, <1>3, <1>6, <2>3, <2>4
    <3>2. m < f
      BY <1>9, <2>2, <2>3, <2>4
    <3>3. ~Waits(k)'
      BY <1>10, <2>4
    <3> QED
      BY <1>1, <2>3, <3>1, <3>2, <3>3
  <2>5. CASE k # k0
    <3>1. made'[k] = made[k]
      BY <1>6, <2>5
    <3>2. Waits(k)' => Waits(k)
      <4>1. CASE k % R # r
        <5>1. gtodo'[k % R] = gtodo[k % R]
          BY <1>4, <2>1, <4>1
        <5> QED
          BY <5>1 DEF Waits
      <4>2. CASE k % R = r
        <5>1. ASSUME NEW i \in DOMAIN Tail(q), PartOf(r, Tail(q)[i]) = k
              PROVE  \E j \in DOMAIN q : PartOf(r, q[j]) = k
          <6>1. PICK j \in DOMAIN q : q[j] = Tail(q)[i]
            BY <1>7, Zenon
          <6> QED
            BY <5>1, <6>1, Zenon
        <5> QED
          BY <1>2, <1>4, <4>2, <5>1, Zenon DEF Waits
      <4> QED
        BY <4>1, <4>2
    <3> QED
      BY <1>1, <2>2, <3>1, <3>2
  <2> QED
    BY <2>4, <2>5
<1>12. ASSUME NEW k \in Parts, NEW b \in DataBlocks PROVE made'[k][b] <= MaxPer
  <2>1. made[k][b] <= MaxPer /\ made[k][b] \in Nat
    BY <1>5 DEF MadeTracked
  <2>2. CASE k = k0 /\ b = d
    <3>1. PICK f \in Nat : f = fresh[r] /\ f <= MaxPer
      BY <1>5 DEF MadeTracked
    <3>2. made'[k][b] <= f
      BY <1>1, <1>2, <1>3, <1>11, <2>2, <3>1
    <3>3. made'[k][b] \in Nat
      BY <1>6, <2>1, <2>2
    <3> QED
      BY <1>5, <3>1, <3>2, <3>3
  <2>3. CASE ~(k = k0 /\ b = d)
    BY <1>6, <2>1, <2>3
  <2> QED
    BY <2>2, <2>3
<1>13. fresh' \in [Readers -> Nat]
  BY <1>1, <1>5
<1> QED
  BY <1>8, <1>11, <1>12, <1>13, Zenon DEF MadeTracked

(* A reader has nothing for the data block it goes on to.                  *)
LEMMA NothingAhead ==
    ASSUME StoreTypes, NEW Q \in [Parts -> Books], NEW x \in Nat, NEW K \in [Readers -> Nat],
           Tracked(Q, x, K), NEW k \in Parts, K[k % R] < x + C
    PROVE  made[k][(cur[k % R] + 1) % N] = 0
<1>1. k % R \in Readers
  BY PartHas
<1>2. PICK y \in Nat : y = K[k % R]
  BY <1>1
<1>3. /\ cur[k % R] = y % N /\ x <= y
      /\ PartIs(pools[k], Q[k], made[k], y, x, skipped[k % R], Stage(k))
  BY <1>1, <1>2, Zenon DEF Tracked
<1>4. N \in Nat /\ 0 < N /\ C \in Nat /\ C < N
  BY StoreSizes
<1>5. PICK p \in PoolRecords, b \in Books : p = pools[k] /\ b = Q[k]
  BY DEF StoreTypes
<1>6. PoolIs(p, b, x) /\ CountIs(made[k], b, x) /\ Latest(b) <= y
  BY <1>3, <1>5 DEF PartIs
<1>7. ASSUME NEW i \in InBook(b) PROVE b.block[i] # y + 1
  <2>1. b.block[i] \in Nat /\ Latest(b) \in Nat /\ b.block[i] <= Latest(b)
    BY <1>6, LatestIs
  <2> QED
    BY <1>6, <2>1
<1>8. y + 1 \in x .. x + N - 1
  BY <1>2, <1>3, <1>4
<1>9. made[k][(y + 1) % N] = 0
  BY <1>6, <1>7, <1>8 DEF CountIs
<1>10. ((y % N) + 1) % N = (y + 1) % N
  BY <1>4, ModAdd
<1> QED
  BY <1>3, <1>9, <1>10

(* NextDataBlock: the count begins anew.                                   *)
LEMMA MadeNextBlock ==
    ASSUME MadeTracked, PoolsTracked, NEW r \in Readers, NextDataBlock(r)
    PROVE  MadeTracked'
<1>1. /\ gpc[r] = "idle" /\ EntryFree(cur[r]) /\ cur' = [cur EXCEPT ![r] = (@ + 1) % N]
      /\ fresh' = [fresh EXCEPT ![r] = 0] /\ gpc' = gpc /\ gtodo' = gtodo /\ made' = made
  BY DEF NextDataBlock
<1>2. StoreTypes
  BY DEF PoolsTracked
<1>3. PICK Q \in [Parts -> Books], x \in Nat, K \in [Readers -> Nat] : Tracked(Q, x, K)
  BY DEF PoolsTracked
<1>4. K[r] < x + C
  BY <1>1, <1>3, EntryIs
<1>5. /\ cur \in [Readers -> DataBlocks] /\ fresh \in [Readers -> Nat] /\ MaxPer \in Nat
  BY <1>2, StoreAssumption DEF StoreTypes, MadeTracked
<1>6. /\ cur'[r] = (cur[r] + 1) % N /\ fresh'[r] = 0
      /\ \A s \in Readers : s # r => cur'[s] = cur[s] /\ fresh'[s] = fresh[s]
      /\ fresh' \in [Readers -> Nat]
  BY <1>1, <1>5
<1>7. gtodo[r] = <<>>
  BY <1>1, Zenon DEF MadeTracked
<1>8. ASSUME NEW s \in Readers
      PROVE  fresh'[s] <= MaxPer /\ Once(gtodo'[s]) /\ (gpc'[s] = "idle" => gtodo'[s] = <<>>)
  <2>1. fresh[s] <= MaxPer /\ Once(gtodo[s]) /\ (gpc[s] = "idle" => gtodo[s] = <<>>)
    BY Zenon DEF MadeTracked
  <2> QED
    BY <1>1, <1>5, <1>6, <2>1
<1>9. ASSUME NEW k \in Parts
      PROVE  /\ made'[k][cur'[k % R]] <= fresh'[k % R]
             /\ Waits(k)' => made'[k][cur'[k % R]] < fresh'[k % R]
  <2>1. k % R \in Readers
    BY PartHas
  <2>2. made[k][cur[k % R]] <= fresh[k % R] /\ (Waits(k) => made[k][cur[k % R]] < fresh[k % R])
    BY Zenon DEF MadeTracked
  <2>3. Waits(k)' <=> Waits(k)
    BY <1>1 DEF Waits
  <2>4. CASE k % R = r
    <3>1. ~Waits(k)
      <4>1. DOMAIN <<>> = {}
        OBVIOUS
      <4> QED
        BY <1>7, <2>4, <4>1 DEF Waits
    <3>2. made[k][(cur[r] + 1) % N] = 0
      BY <1>2, <1>3, <1>4, <2>4, NothingAhead
    <3> QED
      BY <1>1, <1>6, <2>3, <2>4, <3>1, <3>2
  <2>5. CASE k % R # r
    BY <1>1, <1>6, <2>1, <2>2, <2>3, <2>5, Zenon
  <2> QED
    BY <2>4, <2>5
<1>10. \A k \in Parts : \A b \in DataBlocks : made'[k][b] <= MaxPer
  BY <1>1, Zenon DEF MadeTracked
<1> QED
  BY <1>6, <1>8, <1>9, <1>10, Zenon DEF MadeTracked

(* ClearMeta: what was persisted is forgotten.                             *)
LEMMA MadeClears ==
    ASSUME MadeTracked, StoreTypes, ClearMeta
    PROVE  MadeTracked'
<1>1. /\ made' = [k \in Parts |-> [made[k] EXCEPT ![next] = 0]]
      /\ cur' = cur /\ fresh' = fresh /\ gpc' = gpc /\ gtodo' = gtodo
  BY DEF ClearMeta, generatorVars
<1>2. /\ made \in [Parts -> [DataBlocks -> Nat]] /\ cur \in [Readers -> DataBlocks]
      /\ fresh \in [Readers -> Nat] /\ MaxPer \in Nat
  BY StoreAssumption DEF StoreTypes, MadeTracked
<1>3. ASSUME NEW k \in Parts, NEW b \in DataBlocks
      PROVE  made'[k][b] \in Nat /\ made'[k][b] <= made[k][b]
  BY <1>1, <1>2
<1>4. \A k \in Parts : Waits(k)' <=> Waits(k)
  BY <1>1 DEF Waits
<1>5. ASSUME NEW k \in Parts
      PROVE  /\ made'[k][cur'[k % R]] <= fresh'[k % R]
             /\ Waits(k)' => made'[k][cur'[k % R]] < fresh'[k % R]
  <2>1. k % R \in Readers
    BY PartHas
  <2>2. made[k][cur[k % R]] <= fresh[k % R] /\ (Waits(k) => made[k][cur[k % R]] < fresh[k % R])
    BY Zenon DEF MadeTracked
  <2>3. PICK m \in Nat, f \in Nat, n \in Nat :
          m = made[k][cur[k % R]] /\ f = fresh[k % R] /\ n = made'[k][cur[k % R]] /\ n <= m
    BY <1>2, <1>3, <2>1
  <2> QED
    BY <1>1, <1>4, <2>2, <2>3
<1>6. ASSUME NEW k \in Parts, NEW b \in DataBlocks PROVE made'[k][b] <= MaxPer
  <2>1. made[k][b] <= MaxPer /\ made[k][b] \in Nat
    BY <1>2 DEF MadeTracked
  <2> QED
    BY <1>2, <1>3, <2>1
<1>7. \A r \in Readers : /\ fresh'[r] <= MaxPer /\ Once(gtodo'[r])
                         /\ gpc'[r] = "idle" => gtodo'[r] = <<>>
  BY <1>1, Zenon DEF MadeTracked
<1>8. fresh' \in [Readers -> Nat]
  BY <1>1, <1>2
<1> QED
  BY <1>5, <1>6, <1>7, <1>8, Zenon DEF MadeTracked

(* No step makes more of a data block than the bound.                      *)
LEMMA MadeNext ==
    ASSUME MadeTracked, PoolsTracked, [Next]_vars
    PROVE  MadeTracked'
<1>1. StoreTypes
  BY DEF PoolsTracked
<1>2. ASSUME NEW r \in Readers, Generate(r) PROVE MadeTracked'
  BY <1>1, <1>2, MadeStart, MadeAllocates, MadeTakes, MadeNextBlock DEF Generate
<1>3. CASE ClearMeta
  BY <1>1, <1>3, MadeClears
<1>4. ASSUME UNCHANGED <<generatorVars, made>> PROVE MadeTracked'
  BY <1>4, MadeSame DEF generatorVars
<1>5. CASE Persist
  BY <1>3, <1>4, <1>5, Zenon DEF Persist, CheckAndGetMeta, FindPart, MeasurePart, Reserve,
     MeasureAgain, WriteRefused, WriteAccepted, WriteCopied, PartWritten, SortIndex
<1>6. CASE TakeIndexBlock \/ TakeAndDrop \/ ManagerReturns \/ Stop
  BY <1>4, <1>6, Zenon DEF TakeIndexBlock, TakeAndDrop, ManagerReturns, Stop
<1>7. CASE \E s \in Slots : RecycleIndexBlock(s)
  BY <1>4, <1>7, Zenon DEF RecycleIndexBlock
<1>8. CASE UNCHANGED vars
  BY <1>4, <1>8, Zenon DEF vars
<1> QED
  BY <1>2, <1>5, <1>6, <1>7, <1>8, Zenon DEF Next

-----------------------------------------------------------------------------
(* The persister's place on the disk                                       *)

(* Where the persister is: from the second pass to the end,                *)
SecondPass ==
    ppc \in {"find again", "measure again", "write", "copy", "sort", "clear"}

(* in the second pass,                                                     *)
Moving == ppc \in {"find again", "measure again", "write", "copy", "sort"}

(* or among the calls of a part.                                           *)
Writing == ppc \in {"write", "copy"}

(* Where the next units go.                                                *)
Here == IF SecondPass THEN base + off ELSE writePos

(* It is position A of a disk without end.                                 *)
HereIs(A) ==
    /\ Here % DiskSize = A % DiskSize
    /\ SecondPass => writePos = limit % DiskSize
    /\ ~Moving => off = 0

(* The calls still to make are for one block at most.                      *)
CallsFit == Writing => \E n \in Nat : n <= S /\ CallsFor(calls, n)

(* The blocks that a write of len units at A needs are in the cache.       *)
BlocksThere(A, len, a) ==
    /\ a[(A \div S) % B] = A \div S
    /\ (A % S) + len >= S => a[((A \div S) + 1) % B] = (A \div S) + 1

(* A call that copies has found its blocks.                                *)
CopyIs(A, a) == ppc = "copy" => calls # <<>> /\ BlocksThere(A, Head(calls), a)

(* While the persister may run, the manager stays behind it.               *)
PhaseIs(w, c) ==
    /\ managing = TRUE
    /\ \/ phase \in {"run", "persist"} /\ c <= w
       \/ phase = "drain" /\ ppc = "idle"

(* The variables are these numbers, reduced.                               *)
Counted(A, c, a) ==
    /\ HereIs(A) /\ CallsFit
    /\ CacheTypes(block_disk_id, inflight, taken, dirty)
    /\ disk_write_id = (A \div S) % M /\ block_check_id = c % B
    /\ CacheIs(block_disk_id, inflight, taken, dirty, A \div S, a, c)
    /\ CopyIs(A, a)
    /\ PhaseIs(A \div S, c)

(* The manager has seen the block the persister was in: nothing is left.   *)
Drained ==
    /\ phase \in {"drain", "done"} /\ ppc = "idle" /\ off = 0
    /\ dirty \in [Slots -> BOOLEAN] /\ \A s \in Slots : ~dirty[s]

(* As long as nothing was refused or misread.                              *)
BlocksTracked ==
    \/ refused \/ misread \/ Drained
    \/ \E A \in Nat, c \in Nat, a \in [Slots -> Nat] : Counted(A, c, a)

(* A call for no more than a block, and those that follow.                 *)
LEMMA CallFits ==
    ASSUME NEW q, q # <<>>, NEW n \in Nat, CallsFor(q, n)
    PROVE  /\ Head(q) \in Nat /\ Head(q) <= n
           /\ \E m \in Nat : m <= n /\ CallsFor(Tail(q), m)
<1>1. CASE \E d \in Nat : q = <<d>> /\ n = d
  <2>1. PICK d \in Nat : q = <<d>> /\ n = d
    BY <1>1
  <2>2. Head(q) = d /\ Tail(q) = <<>>
    BY <2>1
  <2>3. CallsFor(Tail(q), 0)
    BY <2>2, Zenon DEF CallsFor
  <2> QED
    BY <2>1, <2>2, <2>3
<1>2. CASE \E d, e \in Nat : q = <<d, e>> /\ n = d + e
  <2>1. PICK d \in Nat, e \in Nat : q = <<d, e>> /\ n = d + e
    BY <1>2
  <2>2. Head(q) = d /\ Tail(q) = <<e>>
    BY <2>1
  <2>3. CallsFor(Tail(q), e)
    BY <2>2, Zenon DEF CallsFor
  <2> QED
    BY <2>1, <2>2, <2>3
<1> QED
  BY <1>1, <1>2, Zenon DEF CallsFor

(* A block near the persister is held when its slot has its number.        *)
LEMMA HoldsIs ==
    ASSUME NEW w \in Nat, NEW a \in [Slots -> Nat],
           \A s \in Slots : block_disk_id[s] = a[s] % M /\ w < a[s] + B /\ a[s] <= w + B
    PROVE  /\ HoldsBlock(w % M) <=> a[w % B] = w
           /\ HoldsBlock((w + 1) % M) <=> a[(w + 1) % B] = w + 1
<1>1. ASSUME NEW v \in Nat, w <= v, v <= w + 1
      PROVE  HoldsBlock(v % M) <=> a[v % B] = v
  <2>1. (v % M) % B = v % B /\ v % B \in Slots
    BY BlockSlot, SlotsAre
  <2>2. PICK e \in Nat : e = a[v % B]
    BY <2>1
  <2>3. block_disk_id[v % B] = e % M /\ w < e + B /\ e <= w + B
    BY <2>1, <2>2, Zenon
  <2>4. e <= v + B /\ v <= e + B
    <3>1. B \in Nat
      BY DiskSizes
    <3> QED
      BY <1>1, <2>3, <3>1
  <2>5. e % M = v % M <=> e = v
    BY <2>4, SameBlock
  <2>6. HoldsBlock(v % M) <=> block_disk_id[(v % M) % B] = v % M
    BY Zenon DEF HoldsBlock
  <2> QED
    BY <2>1, <2>2, <2>3, <2>5, <2>6, Zenon
<1>2. w <= w /\ w <= w + 1 /\ w + 1 \in Nat /\ w + 1 <= w + 1
  OBVIOUS
<1> QED
  BY <1>1, <1>2, Zenon

(* The last block a write asks for.                                        *)
LEMMA LastIs ==
    ASSUME NEW p \in Nat, NEW A \in Nat, p % DiskSize = A % DiskSize, NEW len \in Nat
    PROVE  LastBlock(p, len) =
               IF (A % S) + len >= S THEN ((A \div S) + 1) % M ELSE (A \div S) % M
<1>1. DiskIdOf(p) = (A \div S) % M /\ p % S = A % S /\ A \div S \in Nat
  BY SamePlace, Zenon
<1>2. PICK w \in Nat : w = A \div S
  BY <1>1
<1>3. M \in Nat /\ 0 < M
  BY DiskSizes
<1>4. ((w % M) + 1) % M = (w + 1) % M
  BY <1>3, ModAdd
<1>5. Crosses(p, len) <=> (A % S) + len >= S
  BY <1>1 DEF Crosses
<1> QED
  BY <1>1, <1>2, <1>4, <1>5, Zenon DEF LastBlock

(* What writeBlock asks for.                                               *)
LEMMA FitsIs ==
    ASSUME NEW fly, NEW tak, NEW dir, NEW A \in Nat, NEW a \in [Slots -> Nat],
           NEW c \in Nat, CacheIs(block_disk_id, fly, tak, dir, A \div S, a, c),
           NEW p \in Nat, p % DiskSize = A % DiskSize, NEW len \in Nat
    PROVE  Fits(p, len) <=> BlocksThere(A, len, a)
<1>1. DiskIdOf(p) = (A \div S) % M /\ A \div S \in Nat
  BY SamePlace, Zenon
<1>2. PICK w \in Nat : w = A \div S
  BY <1>1
<1>3. CacheIs(block_disk_id, fly, tak, dir, w, a, c)
  BY <1>2, Zenon
<1>4. \A s \in Slots : block_disk_id[s] = a[s] % M
  BY <1>3, Zenon DEF CacheIs, SlotIs
<1>5. \A s \in Slots : w < a[s] + B /\ a[s] <= w + B
  BY <1>3, SlotNear
<1>6. /\ HoldsBlock(w % M) <=> a[w % B] = w
      /\ HoldsBlock((w + 1) % M) <=> a[(w + 1) % B] = w + 1
  BY <1>4, <1>5, HoldsIs
<1>7. LastBlock(p, len) = IF (A % S) + len >= S THEN (w + 1) % M ELSE w % M
  BY <1>2, LastIs
<1>8. Fits(p, len) <=> HoldsBlock(w % M) /\ HoldsBlock(LastBlock(p, len))
  BY <1>1, <1>2, Zenon DEF Fits
<1>9. BlocksThere(A, len, a) <=>
        a[w % B] = w /\ ((A % S) + len >= S => a[(w + 1) % B] = w + 1)
  BY <1>2, Zenon DEF BlocksThere
<1> QED
  BY <1>6, <1>7, <1>8, <1>9, Zenon

(* What an accepted write publishes, and the slots it copies into.         *)
LEMMA WriteIs ==
    ASSUME NEW A \in Nat, NEW p \in Nat, p % DiskSize = A % DiskSize,
           NEW len \in Nat, len <= S, Fits(p, len), NEW w, w = A \div S,
           NEW v, v = (A + len) \div S
    PROVE  /\ w \in Nat /\ v \in Nat
           /\ v = IF (A % S) + len >= S THEN w + 1 ELSE w
           /\ PublishedBlock(p, len) = v % M
           /\ \A s \in CopiedSlots(p, len) : s = w % B \/ s = v % B
<1>1. S \in Nat /\ 0 < S
  BY DiskSizes
<1>2. w \in Nat /\ A % S \in Nat
  BY <1>1, DivMod
<1>3. v = IF (A % S) + len >= S THEN w + 1 ELSE w
  BY BlockAfter
<1>4. v \in Nat
  BY <1>2, <1>3
<1>5. PublishedBlock(p, len) = LastBlock(p, len)
  BY Zenon DEF PublishedBlock, Fits
<1>6. LastBlock(p, len) = v % M
  <2>1. LastBlock(p, len) = IF (A % S) + len >= S THEN (w + 1) % M ELSE w % M
    BY LastIs
  <2>2. CASE (A % S) + len >= S
    BY <1>3, <2>1, <2>2, Zenon
  <2>3. CASE ~((A % S) + len >= S)
    BY <1>3, <2>1, <2>3, Zenon
  <2> QED
    BY <2>2, <2>3, Zenon
<1>7. ASSUME NEW s \in CopiedSlots(p, len) PROVE s = w % B \/ s = v % B
  <2>1. PICK i \in 0 .. len - 1 : s = SlotOfPos(p + i)
    BY Zenon DEF CopiedSlots
  <2>2. i \in Nat /\ i < len /\ i <= S
    BY <1>1, <2>1
  <2>3. PICK q \in Nat, C1 \in Nat : q = p + i /\ C1 = A + i
    BY <2>2
  <2>4. q % DiskSize = C1 % DiskSize
    BY <2>2, <2>3, PlaceMoves
  <2>5. SlotOfPos(q) = (C1 \div S) % B
    BY <2>4, SamePlace, Zenon
  <2>6. C1 \div S = IF (A % S) + i >= S THEN w + 1 ELSE w
    BY <2>2, <2>3, BlockAfter
  <2>7. C1 \div S = w \/ C1 \div S = v
    BY <1>1, <1>2, <1>3, <2>2, <2>6
  <2> QED
    BY <2>1, <2>3, <2>5, <2>7, Zenon
<1> QED
  BY <1>2, <1>3, <1>4, <1>5, <1>6, <1>7

(* The place stays while base, offset and pass do.                         *)
LEMMA HereStays ==
    ASSUME NEW A, HereIs(A), UNCHANGED <<base, off, writePos, limit>>,
           SecondPass' <=> SecondPass, Moving' <=> Moving
    PROVE  HereIs(A)'
<1>1. base' = base /\ off' = off /\ writePos' = writePos /\ limit' = limit
  OBVIOUS
<1>2. Here' = Here
  <2>1. CASE SecondPass
    <3>1. Here = base + off /\ Here' = base' + off'
      BY <2>1, Zenon DEF Here
    <3> QED
      BY <1>1, <3>1
  <2>2. CASE ~SecondPass
    <3>1. Here = writePos /\ Here' = writePos'
      BY <2>2, Zenon DEF Here
    <3> QED
      BY <1>1, <3>1
  <2> QED
    BY <2>1, <2>2
<1>3. Here' % DiskSize = A % DiskSize
  BY <1>2 DEF HereIs
<1>4. SecondPass' => writePos' = limit' % DiskSize
  BY <1>1, Zenon DEF HereIs
<1>5. ~Moving' => off' = 0
  BY <1>1, Zenon DEF HereIs
<1> QED
  BY <1>3, <1>4, <1>5, Zenon DEF HereIs

(* Steps of the persister between two reservations or two writes.          *)
LEMMA HerePasses ==
    ASSUME NEW A, HereIs(A),
           \/ CheckAndGetMeta \/ FindPart \/ MeasurePart \/ MeasureAgain \/ WriteAccepted
           \/ PartWritten
    PROVE  HereIs(A)'
<1>1. UNCHANGED <<base, off, writePos, limit>>
  BY DEF CheckAndGetMeta, FindPart, MeasurePart, MeasureAgain, WriteAccepted, PartWritten,
     placeVars
<1>2. CASE CheckAndGetMeta
  <2>1. ppc = "idle" /\ ppc' = "find"
    BY <1>2, Zenon DEF CheckAndGetMeta
  <2>2. ~SecondPass /\ ~SecondPass' /\ ~Moving /\ ~Moving'
    BY <2>1, Zenon DEF SecondPass, Moving
  <2> QED
    BY <1>1, <2>2, HereStays
<1>3. CASE FindPart
  <2>1. \/ ppc = "find" /\ ppc' = "measure"
        \/ ppc = "find again" /\ ppc' = "measure again"
    BY <1>3, Zenon DEF FindPart
  <2>2. (SecondPass' <=> SecondPass) /\ (Moving' <=> Moving)
    BY <2>1, Zenon DEF SecondPass, Moving
  <2> QED
    BY <1>1, <2>2, HereStays
<1>4. CASE MeasurePart
  <2>1. ppc = "measure" /\ (ppc' = "find" \/ ppc' = "reserve")
    BY <1>4, Zenon DEF MeasurePart, GoTo
  <2>2. ~SecondPass /\ ~SecondPass' /\ ~Moving /\ ~Moving'
    BY <2>1, Zenon DEF SecondPass, Moving
  <2> QED
    BY <1>1, <2>2, HereStays
<1>5. CASE MeasureAgain
  <2>1. ppc = "measure again" /\ ppc' = "write"
    BY <1>5, Zenon DEF MeasureAgain
  <2>2. SecondPass /\ SecondPass' /\ Moving /\ Moving'
    BY <2>1, Zenon DEF SecondPass, Moving
  <2> QED
    BY <1>1, <2>2, HereStays
<1>6. CASE WriteAccepted
  <2>1. ppc = "write" /\ ppc' = "copy"
    BY <1>6, Zenon DEF WriteAccepted
  <2>2. SecondPass /\ SecondPass' /\ Moving /\ Moving'
    BY <2>1, Zenon DEF SecondPass, Moving
  <2> QED
    BY <1>1, <2>2, HereStays
<1>7. CASE PartWritten
  <2>1. ppc = "write" /\ (ppc' = "sort" \/ ppc' = "find again")
    BY <1>7, Zenon DEF PartWritten
  <2>2. SecondPass /\ SecondPass' /\ Moving /\ Moving'
    BY <2>1, Zenon DEF SecondPass, Moving
  <2> QED
    BY <1>1, <2>2, HereStays
<1> QED
  BY <1>2, <1>3, <1>4, <1>5, <1>6, <1>7

(* The second pass begins where the first ended.                           *)
LEMMA HereReserve ==
    ASSUME NEW A, HereIs(A), NatPlaces, Reserve
    PROVE  HereIs(A)'
<1>1. /\ ppc = "reserve" /\ ppc' = "find again" /\ base' = writePos /\ off' = 0
      /\ writePos' = (writePos + total) % DiskSize /\ limit' = writePos + total
  BY Zenon DEF Reserve
<1>2. ~SecondPass /\ SecondPass' /\ Moving'
  BY <1>1, Zenon DEF SecondPass, Moving
<1>3. Here = writePos /\ Here' = base' + off'
  BY <1>2, Zenon DEF Here
<1>4. Here' = Here
  <2>1. Here' = writePos + 0
    BY <1>1, <1>3, Zenon
  <2>2. writePos + 0 = writePos
    BY DEF NatPlaces
  <2> QED
    BY <1>3, <2>1, <2>2, Zenon
<1>5. Here' % DiskSize = A % DiskSize
  BY <1>4 DEF HereIs
<1>6. writePos' = limit' % DiskSize
  BY <1>1
<1> QED
  BY <1>2, <1>5, <1>6, Zenon DEF HereIs

(* The next type begins where this one ends.                               *)
LEMMA HereSort ==
    ASSUME NEW A, HereIs(A), NatPlaces, SortIndex
    PROVE  HereIs(A)'
<1>1. /\ ppc = "sort" /\ (ppc' = "find again" \/ ppc' = "clear")
      /\ base' = base + off /\ off' = 0 /\ writePos' = writePos /\ limit' = limit
  BY Zenon DEF SortIndex, GoTo
<1>2. SecondPass /\ SecondPass'
  BY <1>1, Zenon DEF SecondPass
<1>3. Here = base + off /\ Here' = base' + off'
  BY <1>2, Zenon DEF Here
<1>4. Here' = Here
  <2>1. Here' = (base + off) + 0
    BY <1>1, <1>3, Zenon
  <2>2. (base + off) + 0 = base + off
    BY DEF NatPlaces
  <2> QED
    BY <1>3, <2>1, <2>2, Zenon
<1>5. Here' % DiskSize = A % DiskSize
  BY <1>4 DEF HereIs
<1>6. writePos' = limit' % DiskSize
  BY <1>1, <1>2, Zenon DEF HereIs
<1> QED
  BY <1>1, <1>5, <1>6, Zenon DEF HereIs

(* When the block is done, the persister is at the end of its room.        *)
LEMMA HereClear ==
    ASSUME NEW A, HereIs(A), NatPlaces, ClearMeta, base = limit
    PROVE  HereIs(A)'
<1>1. ppc = "clear" /\ ppc' = "idle" /\ off' = off /\ writePos' = writePos
  BY Zenon DEF ClearMeta
<1>2. SecondPass /\ ~SecondPass' /\ ~Moving /\ ~Moving'
  BY <1>1, Zenon DEF SecondPass, Moving
<1>3. Here = base + off /\ Here' = writePos'
  BY <1>2, Zenon DEF Here
<1>4. off = 0 /\ writePos = limit % DiskSize /\ Here % DiskSize = A % DiskSize
  BY <1>2, Zenon DEF HereIs
<1>5. base \in Nat /\ base + off = base
  BY <1>4 DEF NatPlaces
<1>6. PICK d : d = base % DiskSize
  OBVIOUS
<1>7. d \in Nat /\ d < DiskSize /\ d % DiskSize = d
  <2>1. DiskSize \in Nat /\ 0 < DiskSize
    BY DiskSizes
  <2>2. d \in Nat /\ d < DiskSize
    BY <1>5, <1>6, <2>1, DivMod
  <2> QED
    BY <2>1, <2>2, ModSmall
<1>8. Here' = d /\ A % DiskSize = d
  BY <1>1, <1>3, <1>4, <1>5, <1>6, Zenon
<1>9. Here' % DiskSize = A % DiskSize
  BY <1>7, <1>8, Zenon
<1>10. off' = 0
  BY <1>1, <1>4
<1> QED
  BY <1>2, <1>9, <1>10, Zenon DEF HereIs

(* A write moves it on.                                                    *)
LEMMA HereWrites ==
    ASSUME NEW A \in Nat, HereIs(A), NatPlaces, WriteCopied, NEW len \in Nat, len = Head(calls)
    PROVE  HereIs(A + len)'
<1>1. /\ ppc = "copy" /\ ppc' = "write" /\ off' = off + Head(calls)
      /\ base' = base /\ writePos' = writePos /\ limit' = limit
  BY Zenon DEF WriteCopied
<1>2. SecondPass /\ SecondPass' /\ Moving /\ Moving'
  BY <1>1, Zenon DEF SecondPass, Moving
<1>3. Here = base + off /\ Here' = base' + off'
  BY <1>2, Zenon DEF Here
<1>4. base \in Nat /\ off \in Nat
  BY DEF NatPlaces
<1>5. PICK p \in Nat : p = Here
  BY <1>3, <1>4
<1>6. Here' = p + len
  BY <1>1, <1>3, <1>4, <1>5
<1>7. p % DiskSize = A % DiskSize
  BY <1>5 DEF HereIs
<1>8. (p + len) % DiskSize = (A + len) % DiskSize
  BY <1>7, PlaceMoves
<1>9. writePos' = limit' % DiskSize
  BY <1>1, <1>2, Zenon DEF HereIs
<1>10. Here' % DiskSize = (A + len) % DiskSize
  BY <1>6, <1>8
<1> QED
  BY <1>2, <1>9, <1>10, Zenon DEF HereIs

-----------------------------------------------------------------------------
(* The steps                                                               *)

(* In the beginning slot s holds block s, and all are at block 0.          *)
LEMMA BlocksInit ==
    ASSUME Init PROVE BlocksTracked
<1> DEFINE a == [s \in Slots |-> s]
<1>1. B \in Nat /\ 0 < B /\ M \in Nat /\ 0 < M /\ 4 * B < M /\ S \in Nat /\ 0 < S
  BY DiskSizes
<1>2. /\ ppc = "idle" /\ base = 0 /\ off = 0 /\ writePos = 0
      /\ block_disk_id = [s \in Slots |-> s] /\ disk_write_id = 0 /\ block_check_id = 0
      /\ inflight = [s \in Slots |-> 0] /\ managing = TRUE /\ phase = "run"
      /\ taken = [s \in Slots |-> FALSE] /\ dirty = [s \in Slots |-> FALSE]
  BY DEF Init, IndexBufferInit
<1>3. \A s \in Slots : s \in Nat /\ s < B
  BY <1>1 DEF Slots
<1>4. a \in [Slots -> Nat] /\ \A s \in Slots : a[s] = s
  BY <1>3
<1> HIDE DEF a
<1>5. PICK w \in Nat : w = 0 \div S /\ w = 0
  <2>1. 0 = 0 * S + 0 /\ 0 \in Nat /\ 0 \in Int
    BY <1>1
  <2>2. 0 \div S = 0
    BY <1>1, <2>1, DivModUnique
  <2> QED
    BY <2>2
<1>6. 0 % M = 0 /\ 0 % B = 0
  BY <1>1, ModSmall
<1>7. HereIs(0)
  <2>1. ~SecondPass
    BY <1>2, Zenon DEF SecondPass
  <2>2. Here = 0
    BY <1>2, <2>1, Zenon DEF Here
  <2> QED
    BY <1>2, <2>1, <2>2, Zenon DEF HereIs
<1>8. CallsFit /\ CopyIs(0, a) /\ PhaseIs(w, 0)
  <2>1. ~Writing /\ ppc # "copy"
    BY <1>2, Zenon DEF Writing
  <2>2. 0 <= w
    BY <1>5
  <2> QED
    BY <1>2, <2>1, <2>2, Zenon DEF CallsFit, CopyIs, PhaseIs
<1>9. CacheTypes(block_disk_id, inflight, taken, dirty)
  BY <1>2, <1>3 DEF CacheTypes
<1>10. CacheIs(block_disk_id, inflight, taken, dirty, w, a, 0)
  <2>1. ASSUME NEW s \in Slots
        PROVE  SlotIs(s, block_disk_id, inflight, taken, dirty, w, a, 0)
    <3>1. s \in Nat /\ s < B /\ s < M /\ a[s] = s
      BY <1>1, <1>3, <1>4
    <3>2. s % B = s /\ s % M = s
      BY <1>1, <3>1, ModSmall
    <3>3. block_disk_id[s] = s /\ inflight[s] = 0 /\ taken[s] = FALSE /\ dirty[s] = FALSE
      BY <1>2
    <3> QED
      BY <1>1, <1>5, <3>1, <3>2, <3>3 DEF SlotIs
  <2> QED
    BY <1>5, <2>1 DEF CacheIs
<1>11. Counted(0, 0, a)
  BY <1>2, <1>5, <1>6, <1>7, <1>8, <1>9, <1>10, Zenon DEF Counted
<1>12. 0 \in Nat
  OBVIOUS
<1> QED
  BY <1>4, <1>11, <1>12, Zenon DEF BlocksTracked

(* What the disk manager's check says, while it is not past the persister. *)
LEMMA CheckIs ==
    ASSUME NEW w \in Nat, NEW a \in [Slots -> Nat], NEW c \in Nat,
           CacheIs(block_disk_id, inflight, taken, dirty, w, a, c), c <= w,
           disk_write_id = w % M, block_check_id = c % B
    PROVE  (CheckBlock <=> c < w) /\ DirectCheckBlock
<1>1. c % B \in Slots /\ a[c % B] = c
  <2>1. /\ c % B \in Slots /\ (~taken[c % B] => a[c % B] = c) /\ (c <= w => ~taken[c % B])
    BY CheckedSlot
  <2> QED
    BY <2>1
<1>2. block_disk_id[c % B] = c % M
  <2>1. SlotIs(c % B, block_disk_id, inflight, taken, dirty, w, a, c)
    BY <1>1, Zenon DEF CacheIs
  <2> QED
    BY <1>1, <2>1, Zenon DEF SlotIs
<1>3. w < c + B /\ c <= w + B
  BY <1>1, SlotNear
<1>4. Beyond(c % M) <=> c < w
  BY <1>3, BeyondIs
<1>5. block_disk_id[block_check_id] = c % M
  BY <1>2
<1>6. CheckBlock <=> c < w
  BY <1>4, <1>5, Zenon DEF CheckBlock, CheckThread
<1>7. DirectCheckBlock
  <2>1. CASE c < w
    BY <1>4, <1>5, <2>1, Zenon DEF DirectCheckBlock, DirectCheckThread
  <2>2. CASE c = w
    <3>1. c % M = disk_write_id
      BY <2>2
    <3> QED
      BY <1>5, <3>1, Zenon DEF DirectCheckBlock, DirectCheckThread
  <2> QED
    BY <2>1, <2>2
<1> QED
  BY <1>6, <1>7

(* When the manager has passed the persister, nothing is left.             *)
LEMMA CountedEnds ==
    ASSUME NEW A \in Nat, NEW a \in [Slots -> Nat], NEW c \in Nat, Counted(A, c, a),
           phase = "drain", ~(c <= A \div S)
    PROVE  Drained
<1>1. A \div S \in Nat
  BY DiskSizes, DivMod
<1>2. /\ dirty \in [Slots -> BOOLEAN] /\ HereIs(A) /\ PhaseIs(A \div S, c)
      /\ CacheIs(block_disk_id, inflight, taken, dirty, A \div S, a, c)
  BY Zenon DEF Counted, CacheTypes
<1>3. ASSUME NEW s \in Slots PROVE ~dirty[s]
  <2>1. SlotIs(s, block_disk_id, inflight, taken, dirty, A \div S, a, c)
    BY <1>2, Zenon DEF CacheIs
  <2>2. dirty[s] => c <= a[s] /\ a[s] <= A \div S
    BY <2>1, Zenon DEF SlotIs
  <2>3. a[s] \in Nat
    OBVIOUS
  <2> QED
    BY <1>1, <2>2, <2>3
<1>4. ppc = "idle"
  BY <1>2, Zenon DEF PhaseIs
<1>5. off = 0
  <2>1. ~Moving
    BY <1>4, Zenon DEF Moving
  <2> QED
    BY <1>2, <2>1, Zenon DEF HereIs
<1> QED
  BY <1>2, <1>3, <1>4, <1>5, Zenon DEF Drained

(* Nothing comes back.                                                     *)
LEMMA DrainedKeeps ==
    ASSUME Drained, [Next]_vars
    PROVE  Drained'
<1>1. /\ phase # "run" /\ phase # "persist" /\ ppc = "idle" /\ off = 0
      /\ dirty \in [Slots -> BOOLEAN] /\ \A s \in Slots : ~dirty[s]
  BY Zenon DEF Drained
<1>2. ASSUME UNCHANGED <<persistVars, slotVars, phase>> PROVE Drained'
  <2>1. phase' = phase /\ ppc' = ppc /\ off' = off /\ dirty' = dirty
    BY <1>2 DEF persistVars, placeVars, slotVars
  <2> QED
    BY <2>1, Zenon DEF Drained
<1>3. ASSUME NEW r \in Readers, Generate(r) PROVE Drained'
  BY <1>2, <1>3, Zenon DEF Generate, StartIndex, AllocateEnters, AllocateLists, AllocateTakes,
     NextDataBlock
<1>4. ~Persist
  BY <1>1, Zenon DEF Persist, CheckAndGetMeta, FindPart, MeasurePart, Reserve,
     MeasureAgain, WriteRefused, WriteAccepted, WriteCopied, PartWritten, SortIndex, ClearMeta
<1>5. ASSUME NEW h, dirty' = [dirty EXCEPT ![h] = FALSE],
             UNCHANGED <<persistVars, phase>>
      PROVE  Drained'
  <2>1. phase' = phase /\ ppc' = ppc /\ off' = off
    BY <1>5 DEF persistVars, placeVars
  <2>2. dirty' \in [Slots -> BOOLEAN] /\ \A s \in Slots : ~dirty'[s]
    BY <1>1, <1>5
  <2> QED
    BY <1>1, <2>1, <2>2, Zenon DEF Drained
<1>6. CASE TakeIndexBlock \/ TakeAndDrop
  BY <1>5, <1>6, Zenon DEF TakeIndexBlock, TakeAndDrop
<1>7. CASE ManagerReturns
  BY <1>2, <1>7, Zenon DEF ManagerReturns
<1>8. CASE \E s \in Slots : RecycleIndexBlock(s)
  <2>1. UNCHANGED <<persistVars, dirty, phase>>
    BY <1>8, Zenon DEF RecycleIndexBlock
  <2>2. phase' = phase /\ ppc' = ppc /\ off' = off /\ dirty' = dirty
    BY <2>1 DEF persistVars, placeVars
  <2> QED
    BY <2>2, Zenon DEF Drained
<1>9. CASE Stop
  <2>1. /\ phase' = "done" /\ UNCHANGED <<persistVars, slotVars>>
    BY <1>1, <1>9, Zenon DEF Stop
  <2>2. ppc' = ppc /\ off' = off /\ dirty' = dirty
    BY <2>1 DEF persistVars, placeVars, slotVars
  <2> QED
    BY <2>1, <2>2, Zenon DEF Drained
<1>10. CASE UNCHANGED vars
  BY <1>2, <1>10, Zenon DEF vars
<1> QED
  BY <1>3, <1>4, <1>6, <1>7, <1>8, <1>9, <1>10, Zenon DEF Next

(* Steps that leave the cache and the manager alone.                       *)
LEMMA CountedStays ==
    ASSUME NEW A, NEW a, NEW c, Counted(A, c, a),
           UNCHANGED <<indexBufferVars, slotVars, managerVars, phase>>,
           HereIs(A)', CallsFit', CopyIs(A, a)',
           ppc' = "idle" \/ phase \in {"run", "persist"}
    PROVE  Counted(A, c, a)'
<1>1. /\ block_disk_id' = block_disk_id /\ disk_write_id' = disk_write_id
      /\ block_check_id' = block_check_id /\ taken' = taken /\ dirty' = dirty
      /\ inflight' = inflight /\ managing' = managing /\ phase' = phase
  BY DEF indexBufferVars, slotVars, managerVars
<1>2. CacheTypes(block_disk_id, inflight, taken, dirty)'
  BY <1>1, Zenon DEF Counted
<1>3. CacheIs(block_disk_id, inflight, taken, dirty, A \div S, a, c)'
  BY <1>1, Zenon DEF Counted, CacheIs, SlotIs
<1>4. disk_write_id' = (A \div S) % M /\ block_check_id' = c % B
  BY <1>1, Zenon DEF Counted
<1>5. PhaseIs(A \div S, c)'
  <2>1. PhaseIs(A \div S, c)
    BY Zenon DEF Counted
  <2>2. CASE phase \in {"run", "persist"}
    <3>1. phase # "drain"
      BY <2>2, Zenon
    <3> QED
      BY <1>1, <2>1, <2>2, <3>1, Zenon DEF PhaseIs
  <2>3. CASE phase \notin {"run", "persist"}
    BY <1>1, <2>1, <2>3, Zenon DEF PhaseIs
  <2> QED
    BY <2>2, <2>3
<1> QED
  BY <1>2, <1>3, <1>4, <1>5, Zenon DEF Counted

(* Steps of the generators.                                                *)
LEMMA CountedGenerate ==
    ASSUME NEW A, NEW a, NEW c, Counted(A, c, a),
           UNCHANGED <<persistVars, indexBufferVars, slotVars, managerVars, phase>>
    PROVE  Counted(A, c, a)'
<1>1. /\ ppc' = ppc /\ calls' = calls /\ UNCHANGED <<base, off, writePos, limit>>
  BY DEF persistVars, scanVars, placeVars
<1>2. HereIs(A)'
  <2>1. (SecondPass' <=> SecondPass) /\ (Moving' <=> Moving)
    BY <1>1, Zenon DEF SecondPass, Moving
  <2>2. HereIs(A)
    BY Zenon DEF Counted
  <2> QED
    BY <1>1, <2>1, <2>2, HereStays
<1>3. CallsFit' /\ CopyIs(A, a)'
  <2>1. CallsFit /\ CopyIs(A, a)
    BY Zenon DEF Counted
  <2> QED
    BY <1>1, <2>1, Zenon DEF CallsFit, Writing, CopyIs, BlocksThere
<1>4. ppc' = "idle" \/ phase \in {"run", "persist"}
  BY <1>1, Zenon DEF Counted, PhaseIs
<1> QED
  BY <1>2, <1>3, <1>4, CountedStays

(* MeasureAgain: a pool has no more than fits in one block.                *)
LEMMA AgainFits ==
    ASSUME PoolsTracked, MadeTracked, MeasureAgain,
           node # None => ~AtArrayEnd(ThisPool, node)
    PROVE  \E n \in Nat : n <= S /\ CallsFor(calls', n)
<1>1. /\ ppc = "measure again"
      /\ calls' = IF PartLen = 0 THEN <<>> ELSE WriteLens(ThisPool, node, PartLen)
  BY Zenon DEF MeasureAgain
<1>3. /\ PartLen = made[part][next] /\ PartLen \in Nat
      /\ node = None => PartLen = 0
      /\ node # None => ThisPool.allocated_list[node].start_offset \in 0 .. Capacity - 1
  <2>1. Measuring
    BY <1>1, Zenon DEF Measuring
  <2> QED
    BY <2>1, LengthIs, Zenon
<1>4. PICK len \in Nat : len = PartLen
  BY <1>3
<1>5. CallsFor(calls', len)
  <2>1. CASE len = 0
    <3>1. calls' = <<>>
      BY <1>1, <1>4, <2>1, Zenon
    <3> QED
      BY <2>1, <3>1, Zenon DEF CallsFor
  <2>2. CASE len # 0
    <3>1. ThisPool.allocated_list[node].start_offset \in 0 .. Capacity - 1
      BY <1>3, <1>4, <2>2, Zenon
    <3>2. CallsFor(WriteLens(ThisPool, node, len), len)
      BY <3>1, CallsOf
    <3> QED
      BY <1>1, <1>4, <2>2, <3>2, Zenon
  <2> QED
    BY <2>1, <2>2
<1>6. len <= S
  <2>1. part \in Parts /\ next \in DataBlocks
    BY DEF PoolsTracked, StoreTypes
  <2>2. made[part][next] <= MaxPer
    BY <2>1, Zenon DEF MadeTracked
  <2>3. len <= MaxPer
    BY <1>3, <1>4, <2>2, Zenon
  <2> QED
    BY <2>3, DiskSizes
<1> QED
  BY <1>5, <1>6

(* The persister works only before the drain.                              *)
LEMMA PersistsBefore ==
    ASSUME NEW A, NEW a, NEW c, Counted(A, c, a), Persist
    PROVE  phase \in {"run", "persist"}
<1>1. ppc # "idle" \/ phase = "run"
  BY Zenon DEF Persist, CheckAndGetMeta, FindPart, MeasurePart, Reserve,
     MeasureAgain, WriteRefused, WriteAccepted, WriteCopied, PartWritten, SortIndex, ClearMeta
<1> QED
  BY <1>1, Zenon DEF Counted, PhaseIs

(* Steps of the persister that write nothing.                              *)
LEMMA CountedPersist ==
    ASSUME PoolsTracked, MadeTracked, NEW P, NEW b0, RoomIs(P, b0),
           NEW A \in Nat, NEW a \in [Slots -> Nat], NEW c \in Nat, Counted(A, c, a),
           Persist, ~WriteRefused, ~WriteCopied, ~misread'
    PROVE  Counted(A, c, a)'
<1>1. HereIs(A) /\ CallsFit /\ CopyIs(A, a) /\ NatPlaces
  BY Zenon DEF Counted, RoomIs
<1>2. UNCHANGED <<indexBufferVars, slotVars, managerVars, phase>>
  BY Zenon DEF Persist, CheckAndGetMeta, FindPart, MeasurePart, Reserve,
     MeasureAgain, WriteAccepted, PartWritten, SortIndex, ClearMeta
<1>3. phase \in {"run", "persist"}
  BY PersistsBefore
<1>4. HereIs(A)'
  <2>1. CASE ClearMeta
    <3>1. ppc = "clear"
      BY <2>1, Zenon DEF ClearMeta
    <3>2. base = limit
      BY <3>1, Zenon DEF RoomIs
    <3> QED
      BY <1>1, <2>1, <3>2, HereClear
  <2>2. CASE Reserve
    BY <1>1, <2>2, HereReserve
  <2>3. CASE SortIndex
    BY <1>1, <2>3, HereSort
  <2> QED
    BY <1>1, <2>1, <2>2, <2>3, HerePasses DEF Persist
<1>5. CallsFit'
  <2>1. CASE MeasureAgain
    <3>1. node # None => ~AtArrayEnd(ThisPool, node)
      BY <2>1, Zenon DEF MeasureAgain, Misreads
    <3> QED
      BY <2>1, <3>1, AgainFits, Zenon DEF CallsFit
  <2>2. CASE WriteAccepted
    <3>1. ppc = "write" /\ calls' = calls
      BY <2>2, Zenon DEF WriteAccepted, scanVars
    <3>2. Writing
      BY <3>1, Zenon DEF Writing
    <3> QED
      BY <1>1, <3>1, <3>2, Zenon DEF CallsFit
  <2>3. CASE ~MeasureAgain /\ ~WriteAccepted
    <3>1. ppc' # "write" /\ ppc' # "copy"
      BY <2>3, Zenon DEF Persist, CheckAndGetMeta, FindPart, MeasurePart, Reserve,
         PartWritten, SortIndex, ClearMeta, GoTo
    <3> QED
      BY <3>1, Zenon DEF CallsFit, Writing
  <2> QED
    BY <2>1, <2>2, <2>3
<1>6. CopyIs(A, a)'
  <2>1. CASE WriteAccepted
    <3>1. ppc = "write" /\ calls # <<>> /\ Fits(At, Head(calls)) /\ calls' = calls
      BY <2>1, Zenon DEF WriteAccepted, scanVars
    <3>2. Writing /\ SecondPass
      BY <3>1, Zenon DEF Writing, SecondPass
    <3>3. PICK n \in Nat : n <= S /\ CallsFor(calls, n)
      BY <1>1, <3>2, Zenon DEF CallsFit
    <3>4. Head(calls) \in Nat
      BY <3>1, <3>3, CallFits
    <3>5. PICK p \in Nat : p = At
      BY <1>1 DEF At, NatPlaces
    <3>6. p = Here
      BY <3>2, <3>5, Zenon DEF Here, At
    <3>7. p % DiskSize = A % DiskSize
      BY <1>1, <3>6, Zenon DEF HereIs
    <3>8. CacheIs(block_disk_id, inflight, taken, dirty, A \div S, a, c)
      BY Zenon DEF Counted
    <3>9. PICK len \in Nat : len = Head(calls)
      BY <3>4
    <3>10. Fits(p, len) <=> BlocksThere(A, len, a)
      BY <3>7, <3>8, FitsIs
    <3>11. BlocksThere(A, Head(calls), a)
      BY <3>1, <3>5, <3>9, <3>10, Zenon
    <3> QED
      BY <3>1, <3>11, Zenon DEF CopyIs, BlocksThere
  <2>2. CASE ~WriteAccepted
    <3>1. ppc' # "copy"
      BY <2>2, Zenon DEF Persist, CheckAndGetMeta, FindPart, MeasurePart, Reserve,
         MeasureAgain, PartWritten, SortIndex, ClearMeta, GoTo
    <3> QED
      BY <3>1, Zenon DEF CopyIs
  <2> QED
    BY <2>1, <2>2
<1> QED
  BY <1>2, <1>3, <1>4, <1>5, <1>6, CountedStays

(* What holds while a call copies.                                         *)
LEMMA Copying ==
    ASSUME NatPlaces, NEW A \in Nat, NEW a \in [Slots -> Nat], NEW c \in Nat, Counted(A, c, a),
           ppc = "copy", NEW len, len = Head(calls),
           NEW w, w = A \div S, NEW v, v = (A + len) \div S
    PROVE  /\ len \in Nat /\ w \in Nat /\ v \in Nat /\ Fits(At, len)
           /\ a[w % B] = w /\ (v = w \/ (v = w + 1 /\ a[v % B] = v)) /\ c <= w
           /\ PublishedBlock(At, len) = v % M
           /\ \A s \in CopiedSlots(At, len) : s = w % B \/ s = v % B
           /\ \E m \in Nat : m <= S /\ CallsFor(Tail(calls), m)
<1>1. /\ HereIs(A) /\ CallsFit /\ CopyIs(A, a) /\ PhaseIs(w, c)
      /\ CacheIs(block_disk_id, inflight, taken, dirty, w, a, c)
  BY Zenon DEF Counted
<1>2. Writing /\ SecondPass
  BY Zenon DEF Writing, SecondPass
<1>3. calls # <<>> /\ BlocksThere(A, len, a)
  BY <1>1, Zenon DEF CopyIs
<1>4. PICK n \in Nat : n <= S /\ CallsFor(calls, n)
  BY <1>1, <1>2, Zenon DEF CallsFit
<1>5. /\ len \in Nat /\ len <= n
      /\ \E m \in Nat : m <= n /\ CallsFor(Tail(calls), m)
  BY <1>3, <1>4, CallFits
<1>6. len <= S /\ \E m \in Nat : m <= S /\ CallsFor(Tail(calls), m)
  <2>1. S \in Nat
    BY DiskSizes
  <2> QED
    BY <1>4, <1>5, <2>1
<1>7. PICK p \in Nat : p = At
  BY DEF At, NatPlaces
<1>8. p % DiskSize = A % DiskSize
  <2>1. p = Here
    BY <1>2, <1>7, Zenon DEF Here, At
  <2> QED
    BY <1>1, <2>1, Zenon DEF HereIs
<1>9. Fits(p, len) <=> BlocksThere(A, len, a)
  <2>1. CacheIs(block_disk_id, inflight, taken, dirty, A \div S, a, c)
    BY <1>1
  <2> QED
    BY <1>5, <1>8, <2>1, FitsIs
<1>10. /\ w \in Nat /\ v \in Nat
       /\ v = IF (A % S) + len >= S THEN w + 1 ELSE w
       /\ PublishedBlock(p, len) = v % M
       /\ \A s \in CopiedSlots(p, len) : s = w % B \/ s = v % B
  <2>1. Fits(p, len) /\ len \in Nat /\ len <= S
    BY <1>3, <1>5, <1>6, <1>9, Zenon
  <2>2. w = A \div S /\ v = (A + len) \div S
    OBVIOUS
  <2> QED
    BY <1>8, <2>1, <2>2, WriteIs
<1>11. a[w % B] = w /\ ((A % S) + len >= S => a[(w + 1) % B] = w + 1)
  BY <1>3, Zenon DEF BlocksThere
<1>12. v = w \/ (v = w + 1 /\ a[v % B] = v)
  BY <1>10, <1>11, Zenon
<1>13. c <= w
  BY <1>1, Zenon DEF PhaseIs
<1> QED
  BY <1>3, <1>5, <1>6, <1>7, <1>9, <1>10, <1>11, <1>12, <1>13, Zenon

(* WriteCopied: the persister moves on.                                    *)
LEMMA CountedCopied ==
    ASSUME NatPlaces, NEW A \in Nat, NEW a \in [Slots -> Nat], NEW c \in Nat, Counted(A, c, a),
           WriteCopied
    PROVE  \E D \in Nat : Counted(D, c, a)'
<1>1. /\ ppc = "copy" /\ ppc' = "write" /\ calls' = Tail(calls)
      /\ dirty' = [s \in Slots |-> dirty[s] \/ s \in CopiedSlots(At, Head(calls))]
      /\ disk_write_id' = PublishedBlock(At, Head(calls))
      /\ block_disk_id' = block_disk_id /\ block_check_id' = block_check_id
      /\ inflight' = inflight /\ managing' = managing /\ phase' = phase /\ taken' = taken
  BY DEF WriteCopied, Publish, managerVars
<1>2. PICK len, w, v : len = Head(calls) /\ w = A \div S /\ v = (A + len) \div S
  OBVIOUS
<1>3. /\ len \in Nat /\ w \in Nat /\ v \in Nat
      /\ a[w % B] = w /\ (v = w \/ (v = w + 1 /\ a[v % B] = v)) /\ c <= w
      /\ PublishedBlock(At, len) = v % M
      /\ \A s \in CopiedSlots(At, len) : s = w % B \/ s = v % B
      /\ \E m \in Nat : m <= S /\ CallsFor(Tail(calls), m)
  BY <1>1, <1>2, Copying
<1>4. PICK D \in Nat : D = A + len
  BY <1>3
<1>5. HereIs(D)'
  <2>1. HereIs(A)
    BY Zenon DEF Counted
  <2> QED
    BY <1>2, <1>3, <1>4, <2>1, HereWrites
<1>6. CallsFit' /\ CopyIs(D, a)'
  <2>1. \E m \in Nat : m <= S /\ CallsFor(calls', m)
    BY <1>1, <1>3, Zenon
  <2>2. ppc' # "copy"
    BY <1>1
  <2> QED
    BY <2>1, <2>2, Zenon DEF CallsFit, CopyIs
<1>7. CacheTypes(block_disk_id, inflight, taken, dirty)
  BY Zenon DEF Counted
<1>8. dirty' \in [Slots -> BOOLEAN] /\ \A s \in Slots : dirty'[s] => dirty[s] \/ s = w % B \/ s = v % B
  <2>1. PICK X : X = CopiedSlots(At, Head(calls))
    OBVIOUS
  <2>2. dirty' = [s \in Slots |-> dirty[s] \/ s \in X]
    BY <1>1, <2>1
  <2>3. \A s \in X : s = w % B \/ s = v % B
    BY <1>2, <1>3, <2>1
  <2>4. dirty \in [Slots -> BOOLEAN]
    BY <1>7 DEF CacheTypes
  <2> QED
    BY <2>2, <2>3, <2>4
<1>9. CacheIs(block_disk_id, inflight, taken, dirty', v, a, c)
  <2>1. CacheIs(block_disk_id, inflight, taken, dirty, w, a, c)
    BY <1>2, Zenon DEF Counted
  <2>2. PICK id, fly, tak, dir, dir2 : /\ id = block_disk_id /\ fly = inflight /\ tak = taken
                                       /\ dir = dirty /\ dir2 = dirty'
    OBVIOUS
  <2>3. CacheIs(id, fly, tak, dir, w, a, c) /\ CacheTypes(id, fly, tak, dir)
    BY <1>7, <2>1, <2>2, Zenon
  <2>4. /\ dir2 \in [Slots -> BOOLEAN]
        /\ \A s \in Slots : dir2[s] => dir[s] \/ s = w % B \/ s = v % B
    BY <1>8, <2>2, Zenon
  <2>5. CacheIs(id, fly, tak, dir2, v, a, c)
    BY <1>3, <2>3, <2>4, CopyKeepsCache
  <2> QED
    BY <2>2, <2>5, Zenon
<1>10. v = D \div S
  BY <1>2, <1>4
<1>11. CacheTypes(block_disk_id, inflight, taken, dirty)'
  BY <1>1, <1>7, <1>8, Zenon DEF CacheTypes
<1>12. CacheIs(block_disk_id', inflight', taken', dirty', D \div S, a, c)
  BY <1>1, <1>9, <1>10, Zenon
<1>13. disk_write_id' = (D \div S) % M /\ block_check_id' = c % B
  BY <1>1, <1>2, <1>3, <1>10, Zenon DEF Counted
<1>14. PhaseIs(D \div S, c)'
  <2>1. PhaseIs(w, c)
    BY <1>2, Zenon DEF Counted
  <2>2. phase \in {"run", "persist"} /\ managing = TRUE
    BY <1>1, <2>1, Zenon DEF PhaseIs
  <2>3. c <= v
    BY <1>3
  <2> QED
    BY <1>1, <1>10, <2>2, <2>3, Zenon DEF PhaseIs
<1>15. Counted(D, c, a)'
  BY <1>5, <1>6, <1>11, <1>12, <1>13, <1>14, Zenon DEF Counted
<1> QED
  BY <1>15

(* The disk manager: a block is taken or dropped.                          *)
LEMMA ManagerFinds ==
    ASSUME NEW A \in Nat, NEW a \in [Slots -> Nat], NEW c \in Nat, Counted(A, c, a),
           c <= A \div S, Found, NEW w, w = A \div S
    PROVE  /\ w \in Nat /\ CacheIs(block_disk_id, inflight, taken, dirty, w, a, c)
           /\ (c + 1) % B = (block_check_id + 1) % B
           /\ phase \in {"run", "persist"} => c + 1 <= w
<1>1. w \in Nat
  BY DiskSizes, DivMod
<1>2. /\ CacheIs(block_disk_id, inflight, taken, dirty, w, a, c)
      /\ disk_write_id = w % M /\ block_check_id = c % B
  BY Zenon DEF Counted
<1>3. (c + 1) % B = (block_check_id + 1) % B
  <2>1. B \in Nat /\ 0 < B
    BY DiskSizes
  <2>2. (c + 1) % B = ((c % B) + 1) % B
    BY <2>1, ModAdd
  <2> QED
    BY <1>2, <2>2
<1>4. phase \in {"run", "persist"} => c + 1 <= w
  <2>1. CheckBlock => c < w
    BY <1>1, <1>2, CheckIs
  <2>2. phase \in {"run", "persist"} => CheckBlock
    BY Zenon DEF Found
  <2>3. c < w => c + 1 <= w
    BY <1>1
  <2> QED
    BY <2>1, <2>2, <2>3, Zenon
<1> QED
  BY <1>1, <1>2, <1>3, <1>4

(* What the other threads leave of the persister's place.                  *)
LEMMA PlaceSame ==
    ASSUME NEW A, NEW a, NEW c, Counted(A, c, a), UNCHANGED persistVars, NEW e
    PROVE  HereIs(A)' /\ CallsFit' /\ ppc' = ppc /\ (ppc # "copy" => CopyIs(A, e)')
<1>1. ppc' = ppc /\ calls' = calls /\ UNCHANGED <<base, off, writePos, limit>>
  BY DEF persistVars, scanVars, placeVars
<1>2. HereIs(A)'
  <2>1. (SecondPass' <=> SecondPass) /\ (Moving' <=> Moving)
    BY <1>1, Zenon DEF SecondPass, Moving
  <2>2. HereIs(A)
    BY Zenon DEF Counted
  <2> QED
    BY <1>1, <2>1, <2>2, HereStays
<1>3. CallsFit'
  <2>1. CallsFit
    BY Zenon DEF Counted
  <2> QED
    BY <1>1, <2>1, Zenon DEF CallsFit, Writing
<1>4. ppc # "copy" => CopyIs(A, e)'
  BY <1>1, Zenon DEF CopyIs
<1> QED
  BY <1>1, <1>2, <1>3, <1>4

(* Slots that hold older blocks do not matter to a write.                  *)
LEMMA CopySame ==
    ASSUME NEW A \in Nat, NEW a \in [Slots -> Nat], NEW e, CopyIs(A, a),
           ppc' = ppc, calls' = calls, NEW h \in Slots, a[h] < A \div S,
           \A s \in Slots : s # h => e[s] = a[s]
    PROVE  CopyIs(A, e)'
<1>1. PICK w \in Nat : w = A \div S
  BY DiskSizes, DivMod
<1>2. w % B \in Slots /\ (w + 1) % B \in Slots
  <2>1. w + 1 \in Nat
    OBVIOUS
  <2> QED
    BY <2>1, SlotsAre
<1>3. a[h] # w /\ a[h] # w + 1
  BY <1>1
<1>4. ASSUME NEW len, BlocksThere(A, len, a) PROVE BlocksThere(A, len, e)
  <2>1. a[w % B] = w /\ ((A % S) + len >= S => a[(w + 1) % B] = w + 1)
    BY <1>1, <1>4, Zenon DEF BlocksThere
  <2>2. e[w % B] = w
    BY <1>2, <1>3, <2>1, Zenon
  <2>3. (A % S) + len >= S => e[(w + 1) % B] = w + 1
    BY <1>2, <1>3, <2>1, Zenon
  <2> QED
    BY <1>1, <2>2, <2>3, Zenon DEF BlocksThere
<1>5. BlocksThere(A, Head(calls), a) => BlocksThere(A, Head(calls), e)
  BY <1>4
<1>6. (ppc = "copy" => calls # <<>> /\ BlocksThere(A, Head(calls), e))'
  BY <1>5, Zenon DEF CopyIs, BlocksThere
<1> QED
  BY <1>6, Zenon DEF CopyIs, BlocksThere

(* TakeIndexBlock.                                                         *)
LEMMA CountedTake ==
    ASSUME NEW A \in Nat, NEW a \in [Slots -> Nat], NEW c \in Nat, Counted(A, c, a),
           c <= A \div S, TakeIndexBlock
    PROVE  Counted(A, c + 1, a)'
<1>1. /\ Found /\ UNCHANGED persistVars /\ managing' = managing /\ phase' = phase
      /\ inflight' = [inflight EXCEPT ![block_check_id] = @ + 1]
      /\ taken' = [taken EXCEPT ![block_check_id] = TRUE]
      /\ dirty' = [dirty EXCEPT ![block_check_id] = FALSE]
      /\ block_check_id' = (block_check_id + 1) % B
      /\ block_disk_id' = block_disk_id /\ disk_write_id' = disk_write_id
  BY DEF TakeIndexBlock, GetBlock
<1>2. PICK w, h : w = A \div S /\ h = block_check_id
  OBVIOUS
<1>3. /\ w \in Nat /\ CacheIs(block_disk_id, inflight, taken, dirty, w, a, c)
      /\ (c + 1) % B = (block_check_id + 1) % B
      /\ phase \in {"run", "persist"} => c + 1 <= w
  BY <1>1, <1>2, ManagerFinds
<1>4. /\ HereIs(A)' /\ CallsFit' /\ ppc' = ppc /\ calls' = calls
  BY <1>1, PlaceSame DEF persistVars, scanVars
<1>5. CopyIs(A, a)'
  <2>1. CopyIs(A, a)
    BY Zenon DEF Counted
  <2> QED
    BY <1>4, <2>1, Zenon DEF CopyIs, BlocksThere
<1>6. /\ CacheTypes(block_disk_id, inflight, taken, dirty) /\ h = c % B
      /\ disk_write_id = w % M
  BY <1>2, Zenon DEF Counted
<1>7. h \in Slots
  BY <1>6, SlotsAre
<1>8. CacheTypes(block_disk_id, inflight, taken, dirty)'
  BY <1>1, <1>2, <1>6, <1>7 DEF CacheTypes
<1>9. CacheIs(block_disk_id', inflight', taken', dirty', w, a, c + 1)
  <2>1. PICK id, fly, tak, dir : /\ id = block_disk_id /\ fly = inflight /\ tak = taken
                                 /\ dir = dirty
    OBVIOUS
  <2>2. CacheIs(id, fly, tak, dir, w, a, c) /\ CacheTypes(id, fly, tak, dir) /\ c <= w
    BY <1>2, <1>3, <1>6, <2>1, Zenon
  <2>3. CacheIs(id, [fly EXCEPT ![h] = @ + 1], [tak EXCEPT ![h] = TRUE],
                [dir EXCEPT ![h] = FALSE], w, a, c + 1)
    BY <1>3, <1>6, <2>2, TakeKeepsCache
  <2> QED
    BY <1>1, <1>2, <2>1, <2>3, Zenon
<1>10. PhaseIs(w, c + 1)'
  BY <1>1, <1>2, <1>3, <1>4, Zenon DEF Counted, PhaseIs
<1>11. disk_write_id' = w % M /\ block_check_id' = (c + 1) % B
  BY <1>1, <1>3, <1>6, Zenon
<1> QED
  BY <1>2, <1>4, <1>5, <1>8, <1>9, <1>10, <1>11, Zenon DEF Counted

(* TakeAndDrop.                                                            *)
LEMMA CountedDrop ==
    ASSUME NEW A \in Nat, NEW a \in [Slots -> Nat], NEW c \in Nat, Counted(A, c, a),
           c <= A \div S, TakeAndDrop
    PROVE  \E e \in [Slots -> Nat] : Counted(A, c + 1, e)'
<1>1. /\ Found /\ UNCHANGED persistVars /\ managing' = managing /\ phase' = phase
      /\ inflight' = inflight
      /\ taken' = [taken EXCEPT ![block_check_id] = FALSE]
      /\ dirty' = [dirty EXCEPT ![block_check_id] = FALSE]
      /\ block_check_id' = (block_check_id + 1) % B
      /\ block_disk_id' = [block_disk_id EXCEPT ![block_check_id] =
                              (block_disk_id[block_check_id] + B) % M]
      /\ disk_write_id' = disk_write_id
  BY DEF TakeAndDrop, managerVars, RecycledId
<1>2. PICK w, h : w = A \div S /\ h = block_check_id
  OBVIOUS
<1>3. /\ w \in Nat /\ CacheIs(block_disk_id, inflight, taken, dirty, w, a, c)
      /\ (c + 1) % B = (block_check_id + 1) % B
      /\ phase \in {"run", "persist"} => c + 1 <= w
  BY <1>1, <1>2, ManagerFinds
<1>4. /\ HereIs(A)' /\ CallsFit' /\ ppc' = ppc /\ calls' = calls
  BY <1>1, PlaceSame DEF persistVars, scanVars
<1>6. /\ CacheTypes(block_disk_id, inflight, taken, dirty) /\ h = c % B
      /\ disk_write_id = w % M
  BY <1>2, Zenon DEF Counted
<1>7. h \in Slots
  BY <1>6, SlotsAre
<1>12. PICK e : e = [a EXCEPT ![h] = @ + B]
  OBVIOUS
<1>13. /\ e \in [Slots -> Nat] /\ \A s \in Slots : s # h => e[s] = a[s]
  <2>1. B \in Nat
    BY DiskSizes
  <2> QED
    BY <1>7, <1>12, <2>1
<1>5. CopyIs(A, e)'
  <2>1. CopyIs(A, a)
    BY Zenon DEF Counted
  <2>2. CASE ppc # "copy"
    BY <1>4, <2>2, Zenon DEF CopyIs
  <2>3. CASE ppc = "copy"
    <3>1. phase \in {"run", "persist"}
      BY <2>3, Zenon DEF Counted, PhaseIs
    <3>2. c + 1 <= w
      BY <1>3, <3>1, Zenon
    <3>3. ~taken[c % B] => a[c % B] = c
      BY <1>3, CheckedSlot
    <3>4. c <= w => ~taken[c % B]
      BY <1>3, CheckedSlot
    <3>5. a[h] < A \div S
      BY <1>2, <1>3, <1>6, <3>2, <3>3, <3>4
    <3> QED
      BY <1>4, <1>7, <1>13, <2>1, <3>5, CopySame
  <2> QED
    BY <2>2, <2>3
<1>8. CacheTypes(block_disk_id, inflight, taken, dirty)'
  <2>1. M \in Nat /\ 0 < M /\ B \in Nat
    BY DiskSizes
  <2>2. block_disk_id[h] \in Nat
    BY <1>6, <1>7 DEF CacheTypes
  <2>3. (block_disk_id[h] + B) % M \in Nat
    <3>1. block_disk_id[h] + B \in Nat
      BY <2>1, <2>2
    <3> QED
      BY <2>1, <3>1, DivMod
  <2> QED
    BY <1>1, <1>2, <1>6, <1>7, <2>3 DEF CacheTypes
<1>9. CacheIs(block_disk_id', inflight', taken', dirty', w, e, c + 1)
  <2>1. PICK id, fly, tak, dir : /\ id = block_disk_id /\ fly = inflight /\ tak = taken
                                 /\ dir = dirty
    OBVIOUS
  <2>2. CacheIs(id, fly, tak, dir, w, a, c) /\ CacheTypes(id, fly, tak, dir) /\ c <= w
    BY <1>2, <1>3, <1>6, <2>1, Zenon
  <2>3. CacheIs([id EXCEPT ![h] = (@ + B) % M], fly, [tak EXCEPT ![h] = FALSE],
                [dir EXCEPT ![h] = FALSE], w, [a EXCEPT ![h] = @ + B], c + 1)
    BY <1>3, <1>6, <2>2, DropKeepsCache
  <2> QED
    BY <1>1, <1>2, <1>12, <2>1, <2>3, Zenon
<1>10. PhaseIs(w, c + 1)'
  BY <1>1, <1>2, <1>3, <1>4, Zenon DEF Counted, PhaseIs
<1>11. disk_write_id' = w % M /\ block_check_id' = (c + 1) % B
  BY <1>1, <1>3, <1>6, Zenon
<1>14. Counted(A, c + 1, e)'
  BY <1>2, <1>4, <1>5, <1>8, <1>9, <1>10, <1>11, Zenon DEF Counted
<1> QED
  BY <1>13, <1>14

(* RecycleIndexBlock.                                                      *)
LEMMA CountedRecycle ==
    ASSUME NEW A \in Nat, NEW a \in [Slots -> Nat], NEW c \in Nat, Counted(A, c, a),
           NEW h \in Slots, RecycleIndexBlock(h)
    PROVE  \E e \in [Slots -> Nat] : Counted(A, c, e)'
<1>1. /\ inflight[h] > 0 /\ UNCHANGED persistVars /\ managing' = managing /\ phase' = phase
      /\ inflight' = [inflight EXCEPT ![h] = @ - 1]
      /\ taken' = [taken EXCEPT ![h] = FALSE] /\ dirty' = dirty
      /\ block_check_id' = block_check_id
      /\ block_disk_id' = [block_disk_id EXCEPT ![h] = (block_disk_id[h] + B) % M]
      /\ disk_write_id' = disk_write_id
  BY DEF RecycleIndexBlock, RecycleBlock, RecycledId
<1>2. PICK w \in Nat : w = A \div S
  BY DiskSizes, DivMod
<1>3. /\ CacheTypes(block_disk_id, inflight, taken, dirty)
      /\ CacheIs(block_disk_id, inflight, taken, dirty, w, a, c)
      /\ disk_write_id = w % M /\ block_check_id = c % B
  BY <1>2, Zenon DEF Counted
<1>4. /\ HereIs(A)' /\ CallsFit' /\ ppc' = ppc /\ calls' = calls
  BY <1>1, PlaceSame DEF persistVars, scanVars
<1>12. PICK e : e = [a EXCEPT ![h] = @ + B]
  OBVIOUS
<1>13. /\ e \in [Slots -> Nat] /\ \A s \in Slots : s # h => e[s] = a[s]
  <2>1. B \in Nat
    BY DiskSizes
  <2> QED
    BY <1>12, <2>1
<1>5. CopyIs(A, e)'
  <2>1. CopyIs(A, a)
    BY Zenon DEF Counted
  <2>2. CASE ppc # "copy"
    BY <1>4, <2>2, Zenon DEF CopyIs
  <2>3. CASE ppc = "copy"
    <3>1. c <= w
      BY <1>2, <2>3, Zenon DEF Counted, PhaseIs
    <3>2. SlotIs(h, block_disk_id, inflight, taken, dirty, w, a, c)
      BY <1>3, Zenon DEF CacheIs
    <3>3. inflight[h] # 0
      BY <1>1, <1>3 DEF CacheTypes
    <3>4. a[h] < c
      BY <3>2, <3>3, Zenon DEF SlotIs
    <3>5. a[h] < A \div S
      BY <1>2, <3>1, <3>4
    <3> QED
      BY <1>4, <1>13, <2>1, <3>5, CopySame
  <2> QED
    BY <2>2, <2>3
<1>8. CacheTypes(block_disk_id, inflight, taken, dirty)'
  <2>1. M \in Nat /\ 0 < M /\ B \in Nat
    BY DiskSizes
  <2>2. block_disk_id[h] \in Nat /\ inflight[h] - 1 \in Nat
    BY <1>1, <1>3 DEF CacheTypes
  <2>3. (block_disk_id[h] + B) % M \in Nat
    <3>1. block_disk_id[h] + B \in Nat
      BY <2>1, <2>2
    <3> QED
      BY <2>1, <3>1, DivMod
  <2> QED
    BY <1>1, <1>3, <2>2, <2>3 DEF CacheTypes
<1>9. CacheIs(block_disk_id', inflight', taken', dirty', w, e, c)
  <2>1. PICK id, fly, tak, dir : /\ id = block_disk_id /\ fly = inflight /\ tak = taken
                                 /\ dir = dirty
    OBVIOUS
  <2>2. CacheIs(id, fly, tak, dir, w, a, c) /\ CacheTypes(id, fly, tak, dir) /\ fly[h] > 0
    BY <1>1, <1>3, <2>1, Zenon
  <2>3. CacheIs([id EXCEPT ![h] = (@ + B) % M], [fly EXCEPT ![h] = @ - 1],
                [tak EXCEPT ![h] = FALSE], dir, w, [a EXCEPT ![h] = @ + B], c)
    BY <2>2, RecycleKeepsCache
  <2> QED
    BY <1>1, <1>12, <2>1, <2>3, Zenon
<1>10. PhaseIs(w, c)'
  BY <1>1, <1>2, <1>4, Zenon DEF Counted, PhaseIs
<1>14. Counted(A, c, e)'
  BY <1>1, <1>2, <1>3, <1>4, <1>5, <1>8, <1>9, <1>10, Zenon DEF Counted
<1> QED
  BY <1>13, <1>14

(* Once the manager has passed the persister, all has been drained.        *)
LEMMA CountedPast ==
    ASSUME NEW A \in Nat, NEW a \in [Slots -> Nat], NEW c \in Nat, Counted(A, c, a),
           ~(c <= A \div S)
    PROVE  Drained
<1>1. phase = "drain"
  BY Zenon DEF Counted, PhaseIs
<1> QED
  BY <1>1, CountedEnds

(* ManagerReturns.                                                         *)
LEMMA CountedReturns ==
    ASSUME NEW A \in Nat, NEW a \in [Slots -> Nat], NEW c \in Nat, Counted(A, c, a),
           ManagerReturns
    PROVE  Drained
<1>1. ~DirectCheckBlock
  BY Zenon DEF ManagerReturns
<1>2. A \div S \in Nat
  BY DiskSizes, DivMod
<1>3. CASE c <= A \div S
  <2>1. /\ CacheIs(block_disk_id, inflight, taken, dirty, A \div S, a, c)
        /\ disk_write_id = (A \div S) % M /\ block_check_id = c % B
    BY Zenon DEF Counted
  <2>2. DirectCheckBlock
    BY <1>2, <1>3, <2>1, CheckIs
  <2> QED
    BY <1>1, <2>2
<1>4. CASE ~(c <= A \div S)
  BY <1>4, CountedPast
<1> QED
  BY <1>3, <1>4

(* Stop: the persister has returned before the manager drains.             *)
LEMMA CountedStop ==
    ASSUME NEW A \in Nat, NEW a \in [Slots -> Nat], NEW c \in Nat, Counted(A, c, a), Stop
    PROVE  Counted(A, c, a)'
<1>1. UNCHANGED <<persistVars, indexBufferVars, slotVars, managerVars>>
  BY Zenon DEF Stop
<1>2. /\ block_disk_id' = block_disk_id /\ disk_write_id' = disk_write_id
      /\ block_check_id' = block_check_id /\ taken' = taken /\ dirty' = dirty
      /\ inflight' = inflight /\ managing' = managing
  BY <1>1 DEF indexBufferVars, slotVars, managerVars
<1>3. HereIs(A)' /\ CallsFit' /\ ppc' = ppc /\ calls' = calls
  BY <1>1, PlaceSame DEF persistVars, scanVars
<1>4. CopyIs(A, a)'
  <2>1. CopyIs(A, a)
    BY Zenon DEF Counted
  <2> QED
    BY <1>3, <2>1, Zenon DEF CopyIs, BlocksThere
<1>5. CacheTypes(block_disk_id, inflight, taken, dirty)'
  BY <1>2, Zenon DEF Counted
<1>6. CacheIs(block_disk_id, inflight, taken, dirty, A \div S, a, c)'
  BY <1>2, Zenon DEF Counted, CacheIs, SlotIs
<1>7. disk_write_id' = (A \div S) % M /\ block_check_id' = c % B
  BY <1>2, Zenon DEF Counted
<1>8. PhaseIs(A \div S, c)'
  <2>1. PhaseIs(A \div S, c)
    BY Zenon DEF Counted
  <2>2. CASE phase = "run" /\ phase' = "persist"
    BY <1>2, <2>1, <2>2, Zenon DEF PhaseIs
  <2>3. CASE phase = "persist" /\ ppc = "idle" /\ phase' = "drain"
    BY <1>2, <1>3, <2>1, <2>3, Zenon DEF PhaseIs
  <2>4. ~(phase = "drain" /\ ~managing /\ phase' = "done")
    BY <2>1, Zenon DEF PhaseIs
  <2> QED
    BY <2>2, <2>3, <2>4, Zenon DEF Stop
<1> QED
  BY <1>3, <1>4, <1>5, <1>6, <1>7, <1>8, Zenon DEF Counted

(* A step of the persister that is neither refused nor misread.            *)
LEMMA CountedPersists ==
    ASSUME PoolsTracked, MadeTracked, RoomTracked, ~misread, ~misread', ~refused',
           NEW A \in Nat, NEW a \in [Slots -> Nat], NEW c \in Nat, Counted(A, c, a), Persist
    PROVE  \E D \in Nat : Counted(D, c, a)'
<1>1. PICK P \in [Nat -> Nat], b0 \in Nat : RoomIs(P, b0)
  BY Zenon DEF RoomTracked
<1>2. NatPlaces
  BY <1>1, Zenon DEF RoomIs
<1>3. ~WriteRefused
  BY Zenon DEF WriteRefused
<1>4. CASE WriteCopied
  BY <1>2, <1>4, CountedCopied
<1>5. CASE ~WriteCopied
  <2>1. Counted(A, c, a)'
    BY <1>1, <1>3, <1>5, CountedPersist
  <2> QED
    BY <2>1, Zenon
<1> QED
  BY <1>4, <1>5

(* Every step, while nothing is refused or misread.                        *)
LEMMA CountedNext ==
    ASSUME PoolsTracked, MadeTracked, RoomTracked, ~misread, ~misread', ~refused',
           NEW A \in Nat, NEW a \in [Slots -> Nat], NEW c \in Nat, Counted(A, c, a),
           [Next]_vars
    PROVE  BlocksTracked'
<1>1. ASSUME NEW D \in Nat, NEW d \in Nat, NEW e \in [Slots -> Nat], Counted(D, d, e)'
      PROVE  BlocksTracked'
  BY <1>1, Zenon DEF BlocksTracked
<1>2. ASSUME Drained PROVE BlocksTracked'
  <2>1. Drained'
    BY <1>2, DrainedKeeps
  <2> QED
    BY <2>1, Zenon DEF BlocksTracked
<1>3. CASE UNCHANGED <<persistVars, indexBufferVars, slotVars, managerVars, phase>>
  <2>1. Counted(A, c, a)'
    BY <1>3, CountedGenerate
  <2> QED
    BY <1>1, <2>1, Zenon
<1>4. CASE \E r \in Readers : Generate(r)
  <2>1. UNCHANGED <<persistVars, indexBufferVars, slotVars, managerVars, phase>>
    BY <1>4, Zenon DEF Generate, StartIndex, AllocateEnters, AllocateLists, AllocateTakes,
       NextDataBlock
  <2> QED
    BY <1>3, <2>1
<1>5. CASE Persist
  <2>1. \E D \in Nat : Counted(D, c, a)'
    BY <1>5, CountedPersists
  <2> QED
    BY <1>1, <2>1, Zenon
<1>6. CASE ~(c <= A \div S)
  BY <1>2, <1>6, CountedPast
<1>7. CASE c <= A \div S /\ TakeIndexBlock
  <2>1. Counted(A, c + 1, a)'
    BY <1>7, CountedTake
  <2>2. c + 1 \in Nat
    OBVIOUS
  <2> QED
    BY <1>1, <2>1, <2>2, Zenon
<1>8. CASE c <= A \div S /\ TakeAndDrop
  <2>1. \E e \in [Slots -> Nat] : Counted(A, c + 1, e)'
    BY <1>8, CountedDrop
  <2>2. c + 1 \in Nat
    OBVIOUS
  <2> QED
    BY <1>1, <2>1, <2>2, Zenon
<1>9. CASE ManagerReturns
  BY <1>2, <1>9, CountedReturns
<1>10. CASE \E s \in Slots : RecycleIndexBlock(s)
  <2>1. \E e \in [Slots -> Nat] : Counted(A, c, e)'
    BY <1>10, CountedRecycle
  <2> QED
    BY <1>1, <2>1, Zenon
<1>11. CASE Stop
  <2>1. Counted(A, c, a)'
    BY <1>11, CountedStop
  <2> QED
    BY <1>1, <2>1, Zenon
<1>12. CASE UNCHANGED vars
  <2>1. UNCHANGED <<persistVars, indexBufferVars, slotVars, managerVars, phase>>
    BY <1>12, Zenon DEF vars
  <2> QED
    BY <1>3, <2>1
<1> QED
  BY <1>4, <1>5, <1>6, <1>7, <1>8, <1>9, <1>10, <1>11, <1>12, Zenon DEF Next

(* What was refused or misread stays so.                                   *)
LEMMA FaultsStay ==
    ASSUME [Next]_vars PROVE (misread => misread') /\ (refused => refused')
<1>1. ASSUME UNCHANGED misread PROVE misread => misread'
  BY <1>1
<1>2. misread => misread'
  BY <1>1, Zenon DEF Next, vars, Generate, StartIndex, AllocateEnters, AllocateLists,
     AllocateTakes, NextDataBlock, Persist, CheckAndGetMeta, FindPart, MeasurePart, Reserve,
     MeasureAgain, WriteRefused, WriteAccepted, WriteCopied, PartWritten, SortIndex,
     ClearMeta, Misreads, TakeIndexBlock, TakeAndDrop, ManagerReturns, RecycleIndexBlock, Stop
<1>3. refused => refused'
  BY Zenon DEF Next, vars, Generate, StartIndex, AllocateEnters, AllocateLists,
     AllocateTakes, NextDataBlock, Persist, CheckAndGetMeta, FindPart, MeasurePart, Reserve,
     MeasureAgain, WriteRefused, WriteAccepted, WriteCopied, PartWritten, SortIndex,
     ClearMeta, TakeIndexBlock, TakeAndDrop, ManagerReturns, RecycleIndexBlock, Stop
<1> QED
  BY <1>2, <1>3

(* The positions are kept by every step.                                   *)
LEMMA BlocksNext ==
    ASSUME PoolsTracked, MadeTracked, RoomTracked, BlocksTracked, [Next]_vars
    PROVE  BlocksTracked'
<1>1. CASE misread' \/ refused'
  BY <1>1, Zenon DEF BlocksTracked
<1>2. CASE ~misread' /\ ~refused'
  <2>1. ~misread /\ ~refused
    BY <1>2, FaultsStay, Zenon
  <2>2. CASE Drained
    <3>1. Drained'
      BY <2>2, DrainedKeeps
    <3> QED
      BY <3>1, Zenon DEF BlocksTracked
  <2>3. CASE \E A \in Nat, c \in Nat, a \in [Slots -> Nat] : Counted(A, c, a)
    BY <1>2, <2>1, <2>3, CountedNext
  <2> QED
    BY <2>1, <2>2, <2>3, Zenon DEF BlocksTracked
<1> QED
  BY <1>1, <1>2, Zenon

-----------------------------------------------------------------------------
(* The properties                                                          *)

(* A slot that has been taken holds neither the block the persister is in  *)
(* nor one that it is about to enter.                                      *)
LEMMA TakenIsBehind ==
    ASSUME NEW id, NEW fly, NEW tak, NEW dir, NEW w \in Nat, NEW a \in [Slots -> Nat],
           NEW c \in Nat, CacheIs(id, fly, tak, dir, w, a, c), c <= w,
           NEW s \in Slots, tak[s]
    PROVE  a[s] < w /\ s # w % B
<1>1. PICK e \in Nat : e = a[s]
  OBVIOUS
<1>2. B \in Nat /\ 0 < B
  BY DiskSizes
<1>3. e % B = s /\ w < e + B /\ e < c
  BY <1>1, Zenon DEF CacheIs, SlotIs
<1>4. e < w
  BY <1>3
<1>5. s # w % B
  <2>1. SUFFICES ASSUME s = w % B PROVE FALSE
    OBVIOUS
  <2>2. e + B <= w
    BY <1>3, <1>4, <2>1, SlotsAre
  <2> QED
    BY <1>2, <1>3, <2>2
<1> QED
  BY <1>1, <1>4, <1>5

(* Both blocks of a copy are there, and the manager has come to neither.   *)
LEMMA ReachesFromCounted ==
    ASSUME NatPlaces, NEW A \in Nat, NEW a \in [Slots -> Nat], NEW c \in Nat, Counted(A, c, a),
           ppc = "copy"
    PROVE  /\ Fits(At, Head(calls))
           /\ \A s \in CopiedSlots(At, Head(calls)) : ~taken[s]
<1>1. PICK len, w, v : len = Head(calls) /\ w = A \div S /\ v = (A + len) \div S
  OBVIOUS
<1>2. /\ w \in Nat /\ v \in Nat /\ Fits(At, len)
      /\ a[w % B] = w /\ (v = w \/ (v = w + 1 /\ a[v % B] = v)) /\ c <= w
      /\ \A s \in CopiedSlots(At, len) : s = w % B \/ s = v % B
  BY <1>1, Copying
<1>3. CacheIs(block_disk_id, inflight, taken, dirty, w, a, c)
  BY <1>1, Zenon DEF Counted
<1>4. w % B \in Slots /\ v % B \in Slots
  BY <1>2, SlotsAre
<1>5. ASSUME NEW s \in CopiedSlots(At, len) PROVE ~taken[s]
  <2>1. s \in Slots /\ ~(a[s] < w)
    <3>1. CASE s = w % B
      BY <1>2, <1>4, <3>1
    <3>2. CASE s = v % B
      BY <1>2, <1>4, <3>2
    <3> QED
      BY <1>2, <1>5, <3>1, <3>2
  <2> QED
    BY <1>2, <1>3, <2>1, TakenIsBehind
<1> QED
  BY <1>1, <1>2, <1>5

(* A copy finds its blocks in the cache, not taken.                        *)
LEMMA ReachesFromTracked ==
    ASSUME RoomTracked, BlocksTracked PROVE IndexReachesDisk
<1> SUFFICES ASSUME ppc = "copy", ~refused, ~misread
             PROVE  /\ Fits(At, Head(calls))
                    /\ \A s \in CopiedSlots(At, Head(calls)) : ~taken[s]
  BY Zenon DEF IndexReachesDisk
<1>1. NatPlaces
  BY Zenon DEF RoomTracked, RoomIs
<1>2. ~Drained
  BY Zenon DEF Drained
<1>3. PICK A \in Nat, c \in Nat, a \in [Slots -> Nat] : Counted(A, c, a)
  BY <1>2, Zenon DEF BlocksTracked
<1> QED
  BY <1>1, <1>3, ReachesFromCounted

(* The units not yet sorted are in the persister's block when they have    *)
(* not left the one they begin in.                                         *)
LEMMA SortedFromTracked ==
    ASSUME RoomTracked, BlocksTracked PROVE SortedWhenTaken
<1> SUFFICES ASSUME off > 0, (base % S) + off < S, ~refused, ~misread
             PROVE  ~taken[SlotOfPos(base)]
  BY Zenon DEF SortedWhenTaken
<1>1. base \in Nat /\ off \in Nat
  BY Zenon DEF RoomTracked, RoomIs, NatPlaces
<1>2. ~Drained
  BY DEF Drained
<1>3. PICK A \in Nat, c \in Nat, a \in [Slots -> Nat] : Counted(A, c, a)
  BY <1>2, Zenon DEF BlocksTracked
<1>4. PICK w \in Nat : w = A \div S
  BY DiskSizes, DivMod
<1>5. /\ CacheIs(block_disk_id, inflight, taken, dirty, w, a, c)
      /\ HereIs(A) /\ PhaseIs(w, c)
  BY <1>3, <1>4, Zenon DEF Counted
<1>6. Moving
  <2>1. off # 0
    OBVIOUS
  <2> QED
    BY <1>5, <2>1, Zenon DEF HereIs
<1>7. SecondPass /\ ppc # "idle"
  BY <1>6, Zenon DEF Moving, SecondPass
<1>8. PICK p \in Nat : p = base + off
  BY <1>1
<1>9. p % DiskSize = A % DiskSize
  BY <1>5, <1>7, <1>8, Zenon DEF HereIs, Here
<1>10. SlotOfPos(p) = w % B
  BY <1>4, <1>9, SamePlace
<1>11. SlotOfPos(base) = SlotOfPos(p)
  <2>1. S \in Nat /\ base % S \in Nat
    BY <1>1, DiskSizes, DivMod
  <2>2. off <= S /\ ~((base % S) + off >= S)
    BY <1>1, <2>1
  <2>3. (base + off) \div S = base \div S
    BY <1>1, <2>2, BlockAfter
  <2> QED
    BY <1>8, <2>3, Zenon DEF SlotOfPos
<1>12. c <= w
  BY <1>5, <1>7, Zenon DEF PhaseIs
<1>13. w % B \in Slots
  BY SlotsAre
<1>14. ~taken[w % B]
  BY <1>5, <1>12, <1>13, TakenIsBehind
<1> QED
  BY <1>10, <1>11, <1>14

(* Only a drained cache lets the manager return.                           *)
LEMMA DrainFromTracked ==
    ASSUME BlocksTracked PROVE DrainTakesAll
<1>1. ASSUME NEW A, NEW a, NEW c, Counted(A, c, a) PROVE managing
  BY <1>1, Zenon DEF Counted, PhaseIs
<1>2. Drained => \A s \in Slots : ~dirty[s]
  BY Zenon DEF Drained
<1> QED
  BY <1>1, <1>2, Zenon DEF BlocksTracked, DrainTakesAll

(* The pools, the reserved room, and the places on the index disk.         *)
StoreInv == PoolsTracked /\ RoomTracked /\ MadeTracked /\ BlocksTracked

(* The invariant holds in every state.                                     *)
LEMMA StoreInvariant ==
    ASSUME PoolRoom PROVE Spec => []StoreInv
<1>1. Init => StoreInv
  BY StoreInit, RoomInit, MadeInit, BlocksInit, Zenon DEF StoreInv
<1>2. StoreInv /\ [Next]_vars => StoreInv'
  BY StoreNext, RoomNext, MadeNext, BlocksNext, Zenon DEF StoreInv
<1> QED
  BY <1>1, <1>2, PTL DEF Spec

(* The copy loop of IndexBlockBuffer::writeBlock, which runs without any   *)
(* lock beside the disk manager's getBlock and the memory manager's        *)
(* recycleBlock, writes only into slots that hold the index block of the   *)
(* position and that the manager has not taken.                            *)
THEOREM IndexesReachDisk == PoolRoom => (Spec => []IndexReachesDisk)
<1> SUFFICES ASSUME PoolRoom PROVE Spec => []IndexReachesDisk
  OBVIOUS
<1>1. StoreInv => IndexReachesDisk
  BY ReachesFromTracked, Zenon DEF StoreInv
<1> QED
  BY <1>1, StoreInvariant, PTL

(* A type's indexes are sorted in place in the cache after the last pool   *)
(* has been copied (IndexPersister::persistMeta); as long as they have not *)
(* left the block they begin in, CheckThread keeps the disk manager from   *)
(* that block.                                                             *)
THEOREM SortedBeforeTaken == PoolRoom => (Spec => []SortedWhenTaken)
<1> SUFFICES ASSUME PoolRoom PROVE Spec => []SortedWhenTaken
  OBVIOUS
<1>1. StoreInv => SortedWhenTaken
  BY SortedFromTracked, Zenon DEF StoreInv
<1> QED
  BY <1>1, StoreInvariant, PTL

(* At shutdown the disk manager takes blocks with directCheckBlock until   *)
(* it finds none, and returns only after the block that the persister was  *)
(* in: nothing copied is left in the cache.                                *)
THEOREM DrainComplete == PoolRoom => (Spec => []DrainTakesAll)
<1> SUFFICES ASSUME PoolRoom PROVE Spec => []DrainTakesAll
  OBVIOUS
<1>1. StoreInv => DrainTakesAll
  BY DrainFromTracked, Zenon DEF StoreInv
<1> QED
  BY <1>1, StoreInvariant, PTL
=============================================================================
