---------------------------- MODULE IndexFlowProofs ----------------------------
(***************************************************************************)
(* The safety properties of IndexFlow for every size of disk, cache, index *)
(* buffer, ring and bitmap and every number of threads.                    *)
(***************************************************************************)
EXTENDS IndexFlow, ModularArithmetic, FiniteSetTheorems

-----------------------------------------------------------------------------
(* Types                                                                   *)

(* The sizes are positive and the disk is a number of index buffers long.  *)
LEMMA FlowSizes ==
    /\ N \in Nat /\ B \in Nat /\ C \in Nat /\ K \in Nat /\ D \in Nat
    /\ R \in Nat /\ G \in Nat /\ P \in Nat
    /\ 0 < N /\ 0 < B /\ 0 < C /\ 0 < K /\ 0 < R /\ 0 < G /\ 0 < P
    /\ B * 2 < N /\ P <= C /\ N % C = 0
    /\ MaxCells \in Nat /\ MaxInside \in Nat
BY FlowAssumption

(* N is a positive multiple of C.                                          *)
LEMMA DiskMultiple == \E k \in Nat : N = k * C
<1> DEFINE k == N \div C
           m == N % C
<1>1. k \in Nat /\ N = k * C + m /\ m \in Nat
  BY FlowSizes, DivMod
<1>2. m = 0
  BY FlowSizes
<1> HIDE DEF k, m
<1>3. k * C \in Nat
  BY <1>1, FlowSizes
<1> QED
  BY <1>1, <1>2, <1>3

(* The persister's next entry.                                             *)
LEMMA EntryMod ==
    ASSUME NEW e \in Entries
    PROVE  (e + P) % C \in Entries
<1>1. e \in Nat
  BY FlowSizes DEF Entries
<1>2. e + P \in Nat
  BY <1>1, FlowSizes
<1> DEFINE x == e + P
<1> HIDE DEF x
<1>3. x % C \in Nat /\ x % C < C
  BY <1>2, FlowSizes, DivMod DEF x
<1> QED
  BY <1>3, FlowSizes DEF Entries, x

(* The entries and blocks of the index buffer.                             *)
LEMMA EntryFacts ==
    ASSUME NEW b \in Blocks
    PROVE  /\ EntryOf(b) \in Entries /\ (b + C) % N \in Blocks
           /\ EntryOf((b + C) % N) = EntryOf(b)
<1>1. b \in Nat /\ b + C \in Nat
  BY FlowSizes DEF Blocks
<1>2. PICK k \in Nat : N = k * C
  BY DiskMultiple
<1>3. b % C \in Nat /\ b % C < C
  BY <1>1, DivMod, FlowSizes
<1>4. (b + C) % N \in Nat /\ (b + C) % N < N
  BY <1>1, DivMod, FlowSizes
<1>5. ((b + C) % N) % C = (b + C) % C
  <2>1. N \in Nat /\ 0 < N /\ C \in Nat /\ 0 < C
    BY FlowSizes
  <2>2. \A x \in Nat : (x % N) % C = x % C
    BY <1>2, <2>1, ModMod
  <2> QED
    BY <1>1, <2>2
<1>6. (b + C) % C = b % C
  BY <1>1, FlowSizes, ModShift
<1> QED
  BY <1>3, <1>4, <1>5, <1>6, FlowSizes DEF EntryOf, Entries, Blocks

(* The first C blocks are the entries' own numbers.                        *)
LEMMA FirstEntries ==
    ASSUME NEW e \in Entries
    PROVE  e \in Blocks /\ EntryOf(e) = e /\ e \in Columns
<1>1. e \in Nat /\ e < C
  BY FlowSizes DEF Entries
<1>2. C <= N
  <2>1. PICK k \in Nat : N = k * C
    BY DiskMultiple
  <2>2. k # 0
    BY <2>1, FlowSizes
  <2>3. k >= 1 => k * C >= C
    BY <2>1, FlowSizes
  <2> QED
    BY <2>1, <2>2, <2>3
<1> QED
  BY <1>1, <1>2, FlowSizes, ModSmall DEF EntryOf, Blocks, Columns

(* Cell numbers.                                                           *)
LEMMA CellsType == N * R \in Nat /\ R <= N * R - 1 /\ 0 < N * R
<1>1. N >= 2
  BY FlowSizes
<1>2. N * R >= 2 * R
  BY <1>1, FlowSizes
<1> QED
  BY <1>2, FlowSizes

(* The next cell, and the block of a cell.                                 *)
LEMMA CellFacts ==
    ASSUME NEW c \in 0 .. N * R - 1
    PROVE  BlockOf(c) \in Blocks /\ (c + 1) % (N * R) \in 0 .. N * R - 1
<1> DEFINE m == N * R
           q == c \div R
           e == c % R
<1>1. m \in Nat /\ 0 < m /\ c \in Nat /\ c < m
  BY CellsType
<1>2. (c + 1) % m \in Nat /\ (c + 1) % m < m
  BY <1>1, DivMod
<1>3. q \in Nat /\ e \in Nat /\ c = q * R + e
  BY <1>1, FlowSizes, DivMod
<1> HIDE DEF q, e
<1>4. q < N
  <2>1. SUFFICES ASSUME q >= N PROVE FALSE
    BY <1>3, FlowSizes
  <2>2. q * R >= N * R
    BY <1>3, <2>1, FlowSizes
  <2> QED
    BY <1>1, <1>3, <2>2, FlowSizes
<1>5. BlockOf(c) = q
  BY DEF BlockOf, q
<1> QED
  BY <1>1, <1>2, <1>3, <1>4, <1>5, FlowSizes DEF Blocks

(* The initial state has the types.                                        *)
LEMMA FlowTypeInit == Init => FlowTypeOK
<1> SUFFICES ASSUME Init PROVE FlowTypeOK
  OBVIOUS
<1>1. diskWriteCell \in 0 .. N * R - 1 /\ writeCell \in [Readers -> 0 .. N * R - 1]
  BY CellsType, FlowSizes DEF Init, Readers
<1>2. 0 \in Blocks /\ Persisters \subseteq Entries /\ Generators \subseteq Nat
  BY FlowSizes DEF Blocks, Persisters, Entries, Generators
<1>3. rings \in [Readers -> Seq(Blocks)]
  <2>1. <<>> \in Seq(Blocks)
    OBVIOUS
  <2> QED
    BY <2>1 DEF Init
<1>4. \A e \in Entries : e \in Blocks /\ EntryOf(e) = e /\ e \in Columns
  BY FirstEntries
<1>5. /\ disk_block_id \in [Entries -> Blocks] /\ writing_col \in [Entries -> Columns]
      /\ \A e \in Entries : EntryOf(disk_block_id[e]) = e
  BY <1>4 DEF Init
<1>6. /\ index_check_ids \in [Persisters -> Entries] /\ turn \in [Generators -> Nat]
      /\ ppc \in [Persisters -> PersisterPlaces]
      /\ \A g \in Generators : gpc[g] = "poll"
  BY <1>2 DEF Init, PersisterPlaces
<1> QED
  BY <1>1, <1>2, <1>3, <1>5, <1>6 DEF Init, FlowTypeOK

(* Each action of a capture thread, a disk manager or threadsStop keeps    *)
(* the types.                                                              *)
LEMMA FlowTypeReader ==
    ASSUME FlowTypeOK, \/ \E r \in Readers : Reader(r)
                       \/ DumpBlock \/ ThreadsStop
    PROVE  FlowTypeOK'
<1> USE DEF FlowTypeOK
<1>1. ASSUME NEW r \in Readers, ReadPacket(r) PROVE FlowTypeOK'
  <2>1. PICK shape \in Shapes, new_index \in BOOLEAN :
         LET old     == BlockOf(writeCell[r])
             cell    == IF shape = "inside" THEN writeCell[r] ELSE diskWriteCell
             counted == IF shape = "exact" THEN BlockOf(cell) ELSE old
         IN  /\ writeCell' = [writeCell EXCEPT ![r] = cell]
             /\ diskWriteCell' = IF shape = "inside" THEN diskWriteCell
                                 ELSE (diskWriteCell + 1) % (N * R)
             /\ IF new_index
                THEN /\ packet_counts' = [packet_counts EXCEPT ![counted] = @ + 1]
                     /\ putting' = [putting EXCEPT ![r] = old]
                     /\ made' = [made EXCEPT ![old] = @ + 1]
                ELSE UNCHANGED <<packet_counts, putting, made>>
    BY <1>1 DEF ReadPacket
  <2>2. BlockOf(writeCell[r]) \in Blocks /\ BlockOf(diskWriteCell) \in Blocks
    BY CellFacts
  <2>3. (diskWriteCell + 1) % (N * R) \in 0 .. N * R - 1
    BY CellFacts
  <2>4. /\ writeCell' \in [Readers -> 0 .. N * R - 1] /\ diskWriteCell' \in 0 .. N * R - 1
    BY <2>1, <2>3
  <2>5. /\ packet_counts' \in [Blocks -> Nat] /\ putting' \in [Readers -> Blocks \cup {None}]
        /\ made' \in [Blocks -> Int]
    <3>1. CASE new_index
      <4> DEFINE cell == IF shape = "inside" THEN writeCell[r] ELSE diskWriteCell
                 old  == BlockOf(writeCell[r])
                 counted == IF shape = "exact" THEN BlockOf(cell) ELSE old
      <4>1. counted \in Blocks /\ old \in Blocks
        BY <2>2
      <4>2. /\ packet_counts' = [packet_counts EXCEPT ![counted] = @ + 1]
            /\ putting' = [putting EXCEPT ![r] = old]
            /\ made' = [made EXCEPT ![old] = @ + 1]
        BY <2>1, <3>1
      <4> HIDE DEF counted, old
      <4>3. /\ packet_counts \in [Blocks -> Nat] /\ made \in [Blocks -> Int]
            /\ putting \in [Readers -> Blocks \cup {None}]
        OBVIOUS
      <4> HIDE DEF FlowTypeOK
      <4> QED
        BY <4>1, <4>2, <4>3
    <3>2. CASE ~new_index
      BY <2>1, <3>2
    <3> QED
      BY <3>1, <3>2
  <2> QED
    BY <1>1, <2>4, <2>5 DEF ReadPacket, diskVars, generatorVars, entryVars, storeVars, persisterVars
<1>2. ASSUME NEW r \in Readers, PutIndex(r) PROVE FlowTypeOK'
  <2>1. putting[r] \in Blocks
    BY <1>2 DEF PutIndex
  <2>2. Append(rings[r], putting[r]) \in Seq(Blocks)
    BY <2>1
  <2>3. rings' \in [Readers -> Seq(Blocks)] /\ putting' \in [Readers -> Blocks \cup {None}]
    BY <1>2, <2>2 DEF PutIndex
  <2> QED
    BY <1>2, <2>3 DEF PutIndex, diskVars, generatorVars, entryVars, storeVars, persisterVars
<1>3. ASSUME NEW r \in Readers, ReaderReturns(r) PROVE FlowTypeOK'
  BY <1>3 DEF ReaderReturns, diskVars, generatorVars, entryVars, storeVars, persisterVars
<1>4. ASSUME DumpBlock PROVE FlowTypeOK'
  <2>1. (dumpPos + 1) % N \in Blocks
    BY FlowSizes, DivMod DEF Blocks
  <2>2. /\ dumpPos' \in Blocks /\ packet_counts' \in [Blocks -> Nat]
        /\ packet_count' \in [Blocks -> Nat]
    BY <1>4, <2>1 DEF DumpBlock, SetPacketCount
  <2> QED
    BY <1>4, <2>2 DEF DumpBlock, readerVars, generatorVars, entryVars, storeVars, persisterVars
<1>5. ASSUME ThreadsStop PROVE FlowTypeOK'
  <2>1. phase' \in {"run", "readers", "generators", "managers", "persisters", "query"}
    BY <1>5 DEF ThreadsStop, Joined
  <2> QED
    BY <1>5, <2>1 DEF ThreadsStop, readerVars, diskVars, generatorVars, entryVars,
                      storeVars, persisterVars
<1> QED
  BY <1>1, <1>2, <1>3, <1>4, <1>5 DEF Reader

(* Each action of a generator keeps the types.                             *)
LEMMA FlowTypeGenerator ==
    ASSUME FlowTypeOK, NEW g \in Generators, Generator(g)
    PROVE  FlowTypeOK'
<1> USE DEF FlowTypeOK
<1>1. CASE PollRing(g)
  <2>1. turn[g] \in Readers
    BY <1>1, FlowSizes DEF PollRing, Readers
  <2>2. NextRing(g, turn[g]) \in Nat /\ turn' \in [Generators -> Nat]
    BY <1>1, FlowSizes DEF PollRing, NextRing, Generators
  <2>3. CASE rings[turn[g]] = <<>>
    BY <1>1, <2>2, <2>3 DEF PollRing, readerVars, diskVars, entryVars, storeVars, persisterVars
  <2>4. CASE rings[turn[g]] # <<>>
    <3>1. Head(rings[turn[g]]) \in Blocks /\ Tail(rings[turn[g]]) \in Seq(Blocks)
      BY <2>1, <2>4
    <3>2. /\ held' \in [Generators -> Blocks \cup {None}]
          /\ rings' \in [Readers -> Seq(Blocks)]
          /\ gpc' \in [Generators -> {"poll", "check", "store", "count", "returned"}]
          /\ \A h \in Generators : gpc'[h] \in {"check", "store", "count"} => held'[h] \in Blocks
      BY <1>1, <2>1, <2>4, <3>1 DEF PollRing
    <3> QED
      BY <1>1, <2>2, <3>2 DEF PollRing, readerVars, diskVars, entryVars, storeVars, persisterVars
  <2> QED
    BY <2>3, <2>4
<1>2. CASE InsertChecks(g)
  BY <1>2 DEF InsertChecks, readerVars, diskVars, entryVars, storeVars, persisterVars
<1>3. CASE InsertStores(g)
  <2>1. held[g] \in Blocks /\ EntryOf(held[g]) \in Entries
    BY <1>3, EntryFacts DEF InsertStores
  <2>2. bitmap' \in [Columns -> SUBSET Blocks] /\ pooled' \in [Blocks -> Nat]
    BY SMTT(30), <1>3, <2>1 DEF InsertStores
  <2> QED
    BY <1>3, <2>2 DEF InsertStores, readerVars, diskVars, entryVars, persisterVars
<1>4. CASE InsertCounts(g)
  <2>1. held[g] \in Blocks /\ EntryOf(held[g]) \in Entries
    BY <1>4, EntryFacts DEF InsertCounts
  <2>2. index_count' \in [Entries -> Nat]
    BY <1>4, <2>1 DEF InsertCounts
  <2> QED
    BY <1>4, <2>2 DEF InsertCounts, readerVars, diskVars, storeVars, persisterVars
<1>5. CASE GeneratorReturns(g)
  BY <1>5 DEF GeneratorReturns, readerVars, diskVars, entryVars, storeVars, persisterVars
<1> QED
  BY <1>1, <1>2, <1>3, <1>4, <1>5 DEF Generator

(* Each action of a persister keeps the types.                             *)
LEMMA FlowTypePersister ==
    ASSUME FlowTypeOK, NEW p \in Persisters, Persister(p)
    PROVE  FlowTypeOK'
<1> USE DEF FlowTypeOK
<1>0. CheckedEntry(p) \in Entries /\ CheckedBlock(p) \in Blocks
  BY DEF CheckedEntry, CheckedBlock
<1>1. CASE TestStop(p)
  BY <1>1 DEF TestStop, Step, PersisterPlaces, readerVars, diskVars, generatorVars, entryVars,
              storeVars
<1>2. CASE ReadPacketCount(p)
  BY <1>0, <1>2 DEF ReadPacketCount, Step, PersisterPlaces, readerVars, diskVars, generatorVars,
                    entryVars, storeVars
<1>3. CASE CountReached(p)
  BY <1>3 DEF CountReached, Step, PersisterPlaces, readerVars, diskVars, generatorVars, entryVars,
              storeVars
<1>4. CASE PersistMeta(p)
  <2>1. reading_col' \in [Blocks -> Columns \cup {None}] /\ made' \in [Blocks -> Int]
    <3> DEFINE b == CheckedBlock(p)
               n == pooled[b]
    <3>1. /\ reading_col' = SetReadingCol(b, writing_col[CheckedEntry(p)])
          /\ made' = [made EXCEPT ![b] = @ - n]
      BY <1>4 DEF PersistMeta
    <3>2. b \in Blocks /\ n \in Nat /\ writing_col[CheckedEntry(p)] \in Columns
      BY <1>0
    <3>3. made \in [Blocks -> Int] /\ reading_col \in [Blocks -> Columns \cup {None}]
      OBVIOUS
    <3> HIDE DEF b, n, FlowTypeOK
    <3>4. made' \in [Blocks -> Int]
      BY <3>1, <3>2, <3>3
    <3>5. reading_col' \in [Blocks -> Columns \cup {None}]
      BY <3>1, <3>2, <3>3 DEF SetReadingCol
    <3> QED
      BY <3>4, <3>5
  <2> QED
    BY <1>4, <2>1 DEF PersistMeta, Step, PersisterPlaces, readerVars, generatorVars, entryVars,
                      storeVars
<1>5. CASE ClearMeta(p)
  <2>1. packet_count' \in [Blocks -> Nat] /\ bitmap' \in [Columns -> SUBSET Blocks]
    BY <1>0, <1>5 DEF ClearMeta, ClearPacketCount, SetPacketCount, ClearCol
  <2> QED
    BY <1>5, <2>1 DEF ClearMeta, Step, PersisterPlaces, readerVars, generatorVars, entryVars
<1>6. CASE EmptyEntry(p)
  <2>1. /\ writing_col' \in [Entries -> Columns] /\ pooled' \in [Blocks -> Nat]
        /\ index_count' \in [Entries -> Nat]
    BY <1>0, <1>6 DEF EmptyEntry, SetWritingCol, CheckedBlock
  <2> QED
    BY <1>6, <2>1 DEF EmptyEntry, Step, PersisterPlaces, readerVars, diskVars, generatorVars
<1>7. CASE MoveEntry(p)
  <2>1. (CheckedBlock(p) + C) % N \in Blocks /\ EntryOf((CheckedBlock(p) + C) % N) = CheckedEntry(p)
    BY <1>0, EntryFacts DEF CheckedBlock
  <2>2. /\ disk_block_id' \in [Entries -> Blocks]
        /\ \A e \in Entries : EntryOf(disk_block_id'[e]) = e
    BY <1>0, <1>7, <2>1 DEF MoveEntry, CheckedBlock
  <2>3. (index_check_ids[p] + P) % C \in Entries
    BY <1>0, EntryMod DEF CheckedEntry
  <2>4. index_check_ids' \in [Persisters -> Entries]
    BY <1>7, <2>3 DEF MoveEntry
  <2> QED
    BY <1>7, <2>2, <2>4 DEF MoveEntry, Step, PersisterPlaces, readerVars, diskVars, generatorVars,
                            storeVars
<1> QED
  BY <1>1, <1>2, <1>3, <1>4, <1>5, <1>6, <1>7 DEF Persister

(* Numbers stay in their ranges, and every entry of the index buffer stays *)
(* with the blocks of its residue, which insert relies on to find the      *)
(* entry of a block (updateIndexBufferMeta adds C modulo N).               *)
THEOREM FlowTypes == Spec => []FlowTypeOK
<1>1. FlowTypeOK /\ [Next]_vars => FlowTypeOK'
  <2> SUFFICES ASSUME FlowTypeOK, [Next]_vars PROVE FlowTypeOK'
    OBVIOUS
  <2>1. CASE UNCHANGED vars
    BY <2>1 DEF vars, readerVars, diskVars, generatorVars, entryVars, storeVars, persisterVars,
                FlowTypeOK
  <2> QED
    BY <2>1, FlowTypeReader, FlowTypeGenerator, FlowTypePersister DEF Next
<1> QED
  BY <1>1, FlowTypeInit, PTL DEF Spec

-----------------------------------------------------------------------------
(* No index is lost on its way                                             *)

(* The indexes of reader r in the order it made them: the ring, then the   *)
(* one it is putting there.  o[r] of them have been taken from the ring.   *)
At(o, r, k) ==
    LET i == k - o[r]
    IN  IF i \in 1 .. Len(rings[r]) THEN rings[r][i]
        ELSE IF i = Len(rings[r]) + 1 THEN putting[r] ELSE None

(* Indexes for block b with the readers, and with the generators.          *)
Queued(o, b) == {x \in Readers \X Nat : At(o, x[1], x[2]) = b}
Inserting(b) == {g \in Generators : gpc[g] \in {"check", "store", "count"} /\ held[g] = b}
Counting(b)  == {g \in Generators : gpc[g] = "count" /\ held[g] = b}
Pending(o, b) == Cardinality(Queued(o, b)) + Cardinality(Inserting(b))

(* The entry of b is for b; a persister has written b down and is about to *)
(* give the entry away.                                                    *)
Current(b)  == disk_block_id[EntryOf(b)] = b
Emptying(b) == \E p \in Persisters :
                 CheckedBlock(p) = b /\ ppc[p] \in {"clear", "update", "move"}
Inserted(b) == IF Current(b) THEN index_count[EntryOf(b)] ELSE 0

(* Every index that is not persisted is counted in the entry or pending.   *)
Conserved(o) ==
    \A b \in Blocks :
        /\ IsFiniteSet(Queued(o, b))
        /\ made[b] = (IF Emptying(b) THEN 0 ELSE Inserted(b)) + Pending(o, b)

(* The pools hold the indexes that were counted or are about to be.        *)
PoolsAgree ==
    \A b \in Blocks : ~Emptying(b) => pooled[b] = Inserted(b) + Cardinality(Counting(b))

(* What was counted for a block is what was made for it, in the cache and, *)
(* until its indexes are persisted, on the disk.                           *)
CountsAgree ==
    \A b \in Blocks :
        IF InCache(b) THEN packet_counts[b] = made[b]
        ELSE /\ packet_counts[b] = 0
             /\ \/ packet_count[b] = made[b]
                \/ \E p \in Persisters : CheckedBlock(p) = b /\ ppc[p] = "clear"

(* What a persister knows of its block.                                    *)
AtWork ==
    \A p \in Persisters :
        /\ ppc[p] \in {"count", "persist"} =>
             packet_count[CheckedBlock(p)] = expected[p] /\ expected[p] > 0
        /\ ppc[p] = "persist" => index_count[CheckedEntry(p)] >= expected[p]
        /\ ppc[p] \in {"clear", "update", "move"} => made[CheckedBlock(p)] = 0
        /\ ppc[p] = "move" => index_count[CheckedEntry(p)] = 0 /\ pooled[CheckedBlock(p)] = 0

(* Persisters never look at the same entry.                                *)
Apart == \A p \in Persisters : index_check_ids[p] % P = p

(* The invariant.                                                          *)
Sound(o) ==
    /\ o \in [Readers -> Nat]
    /\ Conserved(o) /\ PoolsAgree /\ InsertStaysValid /\ CountsAgree /\ AtWork /\ Apart

(* No packet has exactly the pointer to the next cell before it, and the   *)
(* persisters share the entries evenly.                                    *)
Regular == "exact" \notin Shapes /\ C % P = 0

(* Sets of generators are finite.                                          *)
LEMMA GeneratorSets ==
    ASSUME NEW S, S \subseteq Generators
    PROVE  /\ IsFiniteSet(S) /\ Cardinality(S) \in Nat
           /\ Cardinality(S) = 0 <=> S = {}
<1>1. IsFiniteSet(Generators)
  BY FlowSizes, FS_Interval DEF Generators
<1>2. IsFiniteSet(S)
  BY <1>1, FS_Subset
<1> QED
  BY <1>2, FS_CardinalityType, FS_EmptySet

(* How many indexes are pending, being inserted and being counted.         *)
LEMMA PendingFacts ==
    ASSUME NEW o, NEW b, IsFiniteSet(Queued(o, b))
    PROVE  /\ Cardinality(Queued(o, b)) \in Nat /\ Cardinality(Inserting(b)) \in Nat
           /\ Cardinality(Counting(b)) \in Nat /\ Pending(o, b) \in Nat
           /\ Pending(o, b) = 0 => /\ Queued(o, b) = {} /\ Inserting(b) = {}
                                   /\ Cardinality(Counting(b)) = 0
<1>1. Inserting(b) \subseteq Generators /\ Counting(b) \subseteq Inserting(b)
  BY DEF Inserting, Counting
<1>2. /\ Cardinality(Inserting(b)) \in Nat /\ Cardinality(Counting(b)) \in Nat
      /\ Cardinality(Inserting(b)) = 0 <=> Inserting(b) = {}
      /\ Cardinality(Counting(b)) = 0 <=> Counting(b) = {}
  BY <1>1, GeneratorSets
<1>3. Cardinality(Queued(o, b)) \in Nat /\ (Cardinality(Queued(o, b)) = 0 <=> Queued(o, b) = {})
  BY FS_CardinalityType, FS_EmptySet
<1> QED
  BY <1>1, <1>2, <1>3 DEF Pending

(* Two persisters are at different blocks.                                 *)
LEMMA OnePersister ==
    ASSUME FlowTypeOK, Apart, NEW p \in Persisters, NEW q \in Persisters,
           CheckedBlock(p) = CheckedBlock(q) \/ CheckedEntry(p) = CheckedEntry(q)
    PROVE  p = q
<1>1. CheckedEntry(p) \in Entries /\ CheckedEntry(q) \in Entries
  BY DEF FlowTypeOK, CheckedEntry
<1>2. CheckedEntry(p) = CheckedEntry(q)
  BY <1>1 DEF FlowTypeOK, CheckedBlock
<1> QED
  BY <1>2 DEF Apart, CheckedEntry

(* The block a persister is at is the current one of its entry.            *)
LEMMA CheckedFacts ==
    ASSUME FlowTypeOK, NEW p \in Persisters
    PROVE  /\ CheckedEntry(p) \in Entries /\ CheckedBlock(p) \in Blocks
           /\ EntryOf(CheckedBlock(p)) = CheckedEntry(p) /\ Current(CheckedBlock(p))
BY DEF FlowTypeOK, CheckedEntry, CheckedBlock, Current

(* How far a block is ahead of the dump.                                   *)
LEMMA AheadIs ==
    ASSUME NEW b \in Blocks, dumpPos \in Blocks
    PROVE  Ahead(b) = IF b >= dumpPos THEN b - dumpPos ELSE b + N - dumpPos
<1>1. b \in Nat /\ b < N /\ dumpPos \in Nat /\ dumpPos < N
  BY FlowSizes DEF Blocks
<1> DEFINE x == b + N - dumpPos
<1>2. x \in Nat /\ x < 2 * N /\ (x < N <=> b < dumpPos)
  BY <1>1, FlowSizes
<1> HIDE DEF x
<1>3. x % N = IF x < N THEN x ELSE x - N
  BY <1>2, FlowSizes, ModSmall
<1> QED
  BY <1>1, <1>2, <1>3, FlowSizes DEF Ahead, x

(* The dump takes the first block out of the cache and no other.           *)
LEMMA CacheStep ==
    ASSUME FlowTypeOK, FlowTypeOK', dumpPos' = (dumpPos + 1) % N
    PROVE  /\ InCache(dumpPos)
           /\ \A b \in Blocks : IF b = dumpPos THEN ~InCache(b)' ELSE InCache(b) => InCache(b)'
<1>1. dumpPos \in Blocks /\ dumpPos' \in Blocks
  BY DEF FlowTypeOK
<1>2. dumpPos \in Nat /\ dumpPos < N
  BY <1>1, FlowSizes DEF Blocks
<1>3. dumpPos' = IF dumpPos = N - 1 THEN 0 ELSE dumpPos + 1
  <2> DEFINE x == dumpPos + 1
  <2>1. x \in Nat /\ x < 2 * N
    BY <1>2, FlowSizes
  <2> HIDE DEF x
  <2>2. x % N = IF x < N THEN x ELSE x - N
    BY <2>1, FlowSizes, ModSmall
  <2> QED
    BY <1>2, <2>2, FlowSizes DEF x
<1>4. \A b \in Blocks :
        Ahead(b) = IF b >= dumpPos THEN b - dumpPos ELSE b + N - dumpPos
  BY <1>1, AheadIs
<1>5. \A b \in Blocks :
        Ahead(b)' = IF b >= dumpPos' THEN b - dumpPos' ELSE b + N - dumpPos'
  <2> SUFFICES ASSUME NEW b \in Blocks
               PROVE  Ahead(b)' = IF b >= dumpPos' THEN b - dumpPos' ELSE b + N - dumpPos'
    OBVIOUS
  <2>1. PICK d : d = dumpPos'
    OBVIOUS
  <2>2. b \in Nat /\ b < N /\ d \in Nat /\ d < N
    BY <1>1, <2>1, FlowSizes DEF Blocks
  <2>3. PICK x : x = b + N - d
    OBVIOUS
  <2>4. x \in Nat /\ x < 2 * N /\ (x < N <=> b < d)
    BY <2>2, <2>3, FlowSizes
  <2>5. x % N = IF x < N THEN x ELSE x - N
    BY <2>4, FlowSizes, ModSmall
  <2>6. Ahead(b)' = x % N
    BY <2>1, <2>3 DEF Ahead
  <2> QED
    BY <2>1, <2>2, <2>3, <2>4, <2>5, <2>6, FlowSizes
<1>6. \A b \in Blocks : b \in Nat /\ b < N
  BY FlowSizes DEF Blocks
<1>7. Ahead(dumpPos) = 0
  BY <1>1, <1>2, <1>4
<1>8. \A b \in Blocks : b # dumpPos => Ahead(b)' = Ahead(b) - 1 /\ Ahead(b) \in Int
  BY <1>2, <1>3, <1>4, <1>5, <1>6, FlowSizes
<1>9. \A b \in Blocks : b = dumpPos => Ahead(b)' = N - 1
  BY <1>2, <1>3, <1>5, FlowSizes
<1>10. InCache(dumpPos)
  BY <1>7, FlowSizes DEF InCache
<1>11. ASSUME NEW b \in Blocks, b # dumpPos, InCache(b) PROVE InCache(b)'
  BY <1>8, <1>11, FlowSizes DEF InCache
<1>12. ASSUME NEW b \in Blocks, b = dumpPos PROVE ~InCache(b)'
  BY <1>9, <1>12, FlowSizes DEF InCache
<1> QED
  BY <1>10, <1>11, <1>12

-----------------------------------------------------------------------------
(* Readers make an index, put it on the ring, and generators take it.      *)

(* A new index for block d is one more in the queue of its reader.         *)
LEMMA QueuedByRead ==
    ASSUME FlowTypeOK, NEW o \in [Readers -> Nat], NEW r \in Readers, NEW d \in Blocks,
           putting[r] = None, putting' = [putting EXCEPT ![r] = d], UNCHANGED rings
    PROVE  /\ \E x : x \notin Queued(o, d) /\ Queued(o, d)' = Queued(o, d) \cup {x}
           /\ \A b \in Blocks : b # d => Queued(o, b)' = Queued(o, b)
<1>0. rings \in [Readers -> Seq(Blocks)] /\ putting \in [Readers -> Blocks \cup {None}]
  BY DEF FlowTypeOK
<1>1. PICK l : l = Len(rings[r])
  OBVIOUS
<1>2. l \in Nat /\ o[r] \in Nat
  BY <1>0, <1>1
<1>3. PICK m : m = o[r] + l + 1
  OBVIOUS
<1>4. m \in Nat /\ m - o[r] = l + 1
  BY <1>2, <1>3
<1>5. At(o, r, m) = None /\ At(o, r, m)' = d
  BY <1>0, <1>1, <1>2, <1>4 DEF At
<1>6. ASSUME NEW q \in Readers, NEW k \in Nat, <<q, k>> # <<r, m>>
      PROVE  At(o, q, k)' = At(o, q, k)
  <2>1. CASE q # r
    BY <1>0, <2>1 DEF At
  <2>2. CASE q = r
    <3>1. k # m
      BY <1>6, <2>2
    <3>2. k - o[r] # l + 1
      BY <1>2, <1>3, <3>1
    <3> QED
      BY <1>0, <1>1, <2>2, <3>2 DEF At
  <2> QED
    BY <2>1, <2>2
<1>7. None \notin Blocks
  BY FlowSizes DEF None, Blocks
<1>8. PICK x : x = <<r, m>>
  OBVIOUS
<1>9. x \in Readers \X Nat /\ x[1] = r /\ x[2] = m
  BY <1>4, <1>8
<1>10. \A y \in Readers \X Nat : y = <<y[1], y[2]>> /\ y[1] \in Readers /\ y[2] \in Nat
  OBVIOUS
<1>11. \A y \in Readers \X Nat : y # x => At(o, y[1], y[2])' = At(o, y[1], y[2])
  BY <1>6, <1>8, <1>10
<1>12. x \notin Queued(o, d) /\ Queued(o, d)' = Queued(o, d) \cup {x}
  BY <1>5, <1>7, <1>9, <1>11 DEF Queued
<1>13. \A b \in Blocks : b # d => Queued(o, b)' = Queued(o, b)
  BY <1>5, <1>7, <1>9, <1>11 DEF Queued
<1> QED
  BY <1>12, <1>13

(* Putting an index on the ring does not change its place in the queue.    *)
LEMMA QueuedByPut ==
    ASSUME FlowTypeOK, NEW o \in [Readers -> Nat], NEW r \in Readers, PutIndex(r)
    PROVE  \A b : Queued(o, b)' = Queued(o, b)
<1>0. rings \in [Readers -> Seq(Blocks)] /\ putting \in [Readers -> Blocks \cup {None}]
  BY DEF FlowTypeOK
<1>1. PICK n : n = Len(rings[r])
  OBVIOUS
<1>2. n \in Nat
  BY <1>0, <1>1
<1>3. putting[r] \in Blocks
  BY <1>0 DEF PutIndex
<1>4. /\ Len(rings'[r]) = n + 1 /\ rings'[r][n + 1] = putting[r]
      /\ \A i \in 1 .. n : rings'[r][i] = rings[r][i]
  BY <1>0, <1>1, <1>3 DEF PutIndex
<1>5. putting'[r] = None
  BY <1>0 DEF PutIndex
<1>6. ASSUME NEW q \in Readers, NEW k \in Nat
      PROVE  At(o, q, k)' = At(o, q, k)
  <2>1. CASE q # r
    BY <1>0, <2>1 DEF At, PutIndex
  <2>2. CASE q = r
    <3>1. PICK i : i = k - o[r]
      OBVIOUS
    <3>2. i \in Int
      BY <3>1
    <3>3. At(o, q, k) = IF i \in 1 .. n THEN rings[r][i]
                        ELSE IF i = n + 1 THEN putting[r] ELSE None
      BY <1>1, <2>2, <3>1 DEF At
    <3>4. At(o, q, k)' = IF i \in 1 .. n + 1 THEN rings'[r][i] ELSE None
      BY <1>2, <1>4, <1>5, <2>2, <3>1 DEF At
    <3> QED
      BY <1>2, <1>4, <3>2, <3>3, <3>4
  <2> QED
    BY <2>1, <2>2
<1>7. \A y \in Readers \X Nat : y[1] \in Readers /\ y[2] \in Nat
  OBVIOUS
<1> QED
  BY <1>6, <1>7 DEF Queued

(* Taking the first index d of a ring removes it from the queue.           *)
LEMMA QueuedByPoll ==
    ASSUME FlowTypeOK, NEW o \in [Readers -> Nat], NEW g \in Generators, PollRing(g),
           NEW r \in Readers, r = turn[g], rings[r] # <<>>
    PROVE  \E u \in [Readers -> Nat], d \in Blocks :
              /\ held' = [held EXCEPT ![g] = d]
              /\ \E x : x \in Queued(o, d) /\ Queued(u, d)' = Queued(o, d) \ {x}
              /\ \A b \in Blocks : b # d => Queued(u, b)' = Queued(o, b)
<1>0. rings \in [Readers -> Seq(Blocks)] /\ putting \in [Readers -> Blocks \cup {None}]
  BY DEF FlowTypeOK
<1>1. PICK d : d = rings[r][1]
  OBVIOUS
<1>2. PICK u : u = [o EXCEPT ![r] = @ + 1]
  OBVIOUS
<1>3. PICK n : n = Len(rings[r])
  OBVIOUS
<1>4. n \in Nat /\ 0 < n /\ d \in Blocks /\ d = Head(rings[r])
  BY <1>0, <1>3, <1>1
<1>5. /\ held' = [held EXCEPT ![g] = d] /\ rings' = [rings EXCEPT ![r] = Tail(@)]
      /\ UNCHANGED putting
  BY <1>4 DEF PollRing, readerVars
<1>6. rings'[r] = Tail(rings[r]) /\ \A q \in Readers : q # r => rings'[q] = rings[q]
  BY <1>0, <1>5
<1>7. /\ Len(rings'[r]) = n - 1
      /\ \A i \in 1 .. n - 1 : rings'[r][i] = rings[r][i + 1]
  BY <1>0, <1>3, <1>4, <1>6
<1>8. u \in [Readers -> Nat] /\ u[r] = o[r] + 1 /\ \A q \in Readers : q # r => u[q] = o[q]
  BY <1>2
<1>9. PICK m : m = o[r] + 1
  OBVIOUS
<1>10. At(o, r, m) = d /\ At(u, r, m)' = None
  <2>1. o[r] \in Nat /\ u[r] = o[r] + 1
    BY <1>8
  <2>2. m - o[r] = 1 /\ m - u[r] = 0
    BY <1>9, <2>1
  <2>3. At(o, r, m) = d
    BY <1>3, <1>4, <1>1, <2>2 DEF At
  <2>4. At(u, r, m)' = None
    BY <1>4, <1>7, <2>2 DEF At
  <2> QED
    BY <2>3, <2>4
<1>11. ASSUME NEW q \in Readers, NEW k \in Nat, <<q, k>> # <<r, m>>
      PROVE  At(u, q, k)' = At(o, q, k)
  <2>1. CASE q # r
    BY <1>0, <1>5, <1>6, <1>8, <2>1 DEF At
  <2>2. CASE q = r
    <3>1. PICK i : i = k - o[r]
      OBVIOUS
    <3>2. i \in Int /\ i # 1 /\ k - u[r] = i - 1
      <4>1. k # m
        BY <1>11, <2>2
      <4>2. o[r] \in Nat /\ u[r] = o[r] + 1
        BY <1>8
      <4> QED
        BY <1>9, <3>1, <4>1, <4>2
    <3>3. At(o, q, k) = IF i \in 1 .. n THEN rings[r][i]
                        ELSE IF i = n + 1 THEN putting[r] ELSE None
      BY <1>3, <2>2, <3>1 DEF At
    <3>4. At(u, q, k)' = IF i - 1 \in 1 .. n - 1 THEN rings'[r][i - 1]
                         ELSE IF i - 1 = n THEN putting[r] ELSE None
      <4>1. Len(rings'[r]) = n - 1 /\ (n - 1) + 1 = n /\ putting'[r] = putting[r]
        BY <1>4, <1>7, <1>5
      <4>2. PICK l : l = n - 1
        OBVIOUS
      <4>3. At(u, q, k)' = IF i - 1 \in 1 .. l THEN rings'[r][i - 1]
                           ELSE IF i - 1 = l + 1 THEN putting'[r] ELSE None
        BY <2>2, <3>2, <4>1, <4>2 DEF At
      <4> QED
        BY <4>1, <4>2, <4>3
    <3>5. i - 1 \in 1 .. n - 1 => rings'[r][i - 1] = rings[r][i]
      <4>1. SUFFICES ASSUME i - 1 \in 1 .. n - 1 PROVE rings'[r][i - 1] = rings[r][i]
        OBVIOUS
      <4>2. PICK j : j = i - 1
        OBVIOUS
      <4>3. j \in 1 .. n - 1 /\ j + 1 = i
        BY <3>2, <4>1, <4>2
      <4> QED
        BY <1>7, <4>2, <4>3
    <3>6. CASE i \in 2 .. n
      <4>1. i \in 1 .. n /\ i - 1 \in 1 .. n - 1
        BY <1>4, <3>2, <3>6
      <4> QED
        BY <3>3, <3>4, <3>5, <4>1
    <3>7. CASE i \notin 2 .. n
      <4>1. i \notin 1 .. n /\ i - 1 \notin 1 .. n - 1 /\ (i = n + 1 <=> i - 1 = n)
        BY <1>4, <3>2, <3>7
      <4> QED
        BY <3>3, <3>4, <4>1
    <3> QED
      BY <3>6, <3>7
  <2> QED
    BY <2>1, <2>2
<1>12. \A y \in Readers \X Nat : y = <<y[1], y[2]>> /\ y[1] \in Readers /\ y[2] \in Nat
  OBVIOUS
<1>13. PICK x : x = <<r, m>>
  OBVIOUS
<1>14. x \in Readers \X Nat /\ x[1] = r /\ x[2] = m
  BY <1>9, <1>13
<1>15. \A y \in Readers \X Nat : y # x => At(u, y[1], y[2])' = At(o, y[1], y[2])
  BY <1>11, <1>12, <1>13
<1>16. None \notin Blocks
  BY FlowSizes DEF None, Blocks
<1>17. x \in Queued(o, d) /\ Queued(u, d)' = Queued(o, d) \ {x}
  BY <1>4, <1>10, <1>14, <1>15, <1>16 DEF Queued
<1>18. \A b \in Blocks : b # d => Queued(u, b)' = Queued(o, b)
  BY <1>10, <1>14, <1>15, <1>16 DEF Queued
<1> QED
  BY <1>4, <1>8, <1>17, <1>18, <1>5

(* Where the persisters are and which blocks are current depends on the    *)
(* entries and on the persisters only.                                     *)
LEMMA Unmoved ==
    ASSUME UNCHANGED <<ppc, index_check_ids, disk_block_id>>
    PROVE  /\ \A b : (Emptying(b)' <=> Emptying(b)) /\ (Current(b)' <=> Current(b))
           /\ \A p : CheckedBlock(p)' = CheckedBlock(p) /\ CheckedEntry(p)' = CheckedEntry(p)
           /\ Apart => Apart'
BY DEF Emptying, Current, CheckedBlock, CheckedEntry, Apart

(* Nobody empties the entry of a block in the cache.                       *)
LEMMA CachedIdle ==
    ASSUME KeepsUp, NEW b \in Blocks, InCache(b)
    PROVE  /\ packet_count[b] = 0 /\ ~Emptying(b)
           /\ \A p \in Persisters : CheckedBlock(p) = b =>
                ppc[p] \notin {"count", "persist", "clear", "update", "move"}
BY DEF KeepsUp, Emptying

(* A reader reads a packet.                                                *)
LEMMA SoundByRead ==
    ASSUME Regular, FlowTypeOK, KeepsUp, NEW o, Sound(o), NEW r \in Readers, ReadPacket(r)
    PROVE  Sound(o)'
<1>0. /\ UNCHANGED <<reading, rings, dumpPos, packet_count, reading_col, gpc, held, turn>>
      /\ UNCHANGED <<disk_block_id, index_count, writing_col, bitmap, pooled, ppc, expected,
                     index_check_ids, phase>>
  BY DEF ReadPacket, diskVars, generatorVars, entryVars, storeVars, persisterVars
<1>1. PICK d : d = BlockOf(writeCell[r])
  OBVIOUS
<1>2. d \in Blocks /\ InCache(d) /\ putting[r] = None
  BY <1>1, CellFacts DEF ReadPacket, FlowTypeOK
<1>3. \/ UNCHANGED <<packet_counts, putting, made>>
      \/ /\ packet_counts' = [packet_counts EXCEPT ![d] = @ + 1]
         /\ putting' = [putting EXCEPT ![r] = d]
         /\ made' = [made EXCEPT ![d] = @ + 1]
  BY <1>1 DEF ReadPacket, Regular
<1>4. /\ \A b : (Emptying(b)' <=> Emptying(b)) /\ (Current(b)' <=> Current(b))
      /\ \A p : CheckedBlock(p)' = CheckedBlock(p) /\ CheckedEntry(p)' = CheckedEntry(p)
      /\ Apart => Apart'
  BY <1>0, Unmoved
<1>5. \A b : /\ Inserted(b)' = Inserted(b) /\ Inserting(b)' = Inserting(b)
             /\ Counting(b)' = Counting(b) /\ (InCache(b)' <=> InCache(b))
  BY <1>0 DEF Inserted, Current, Inserting, Counting, InCache, Ahead
<1>6. ~Emptying(d) /\ \A p \in Persisters :
        CheckedBlock(p) = d => ppc[p] \notin {"count", "persist", "clear", "update", "move"}
  BY <1>2, CachedIdle
<1>7. PoolsAgree' /\ InsertStaysValid' /\ Apart' /\ o \in [Readers -> Nat]
  <2>1. PoolsAgree'
    BY <1>0, <1>4, <1>5 DEF Sound, PoolsAgree
  <2> QED
    BY <1>0, <1>4, <2>1 DEF Sound, InsertStaysValid
<1>8. CASE UNCHANGED <<packet_counts, putting, made>>
  <2>1. \A b : Queued(o, b)' = Queued(o, b)
    BY <1>0, <1>8 DEF Queued, At
  <2>2. Conserved(o)'
    BY <1>4, <1>5, <1>8, <2>1 DEF Sound, Conserved, Pending
  <2>3. CountsAgree'
    BY <1>0, <1>4, <1>5, <1>8 DEF Sound, CountsAgree
  <2>4. AtWork'
    BY <1>0, <1>4, <1>8 DEF Sound, AtWork
  <2> QED
    BY <1>7, <2>2, <2>3, <2>4 DEF Sound
<1>9. CASE /\ packet_counts' = [packet_counts EXCEPT ![d] = @ + 1]
           /\ putting' = [putting EXCEPT ![r] = d]
           /\ made' = [made EXCEPT ![d] = @ + 1]
  <2>0. made \in [Blocks -> Int] /\ packet_counts \in [Blocks -> Nat]
    BY DEF FlowTypeOK
  <2>1. /\ \E x : x \notin Queued(o, d) /\ Queued(o, d)' = Queued(o, d) \cup {x}
        /\ \A b \in Blocks : b # d => Queued(o, b)' = Queued(o, b)
    BY <1>0, <1>2, <1>7, <1>9, QueuedByRead
  <2>2. PICK x : x \notin Queued(o, d) /\ Queued(o, d)' = Queued(o, d) \cup {x}
    BY <2>1
  <2>3. IsFiniteSet(Queued(o, d))
    BY <1>2 DEF Sound, Conserved
  <2>4. IsFiniteSet(Queued(o, d)') /\ Cardinality(Queued(o, d)') = Cardinality(Queued(o, d)) + 1
    BY <2>2, <2>3, FS_AddElement
  <2>5. Pending(o, d)' = Pending(o, d) + 1
    <3>1. Cardinality(Queued(o, d)) \in Nat /\ Cardinality(Inserting(d)) \in Nat
      BY <2>3, PendingFacts
    <3>2. Pending(o, d)' = Cardinality(Queued(o, d)') + Cardinality(Inserting(d)')
      BY DEF Pending
    <3>3. Inserting(d)' = Inserting(d)
      BY <1>5
    <3> QED
      BY <2>4, <3>1, <3>2, <3>3 DEF Pending
  <2>6. Conserved(o)'
    <3> SUFFICES ASSUME NEW b \in Blocks
                 PROVE  /\ IsFiniteSet(Queued(o, b)')
                        /\ made'[b] = (IF Emptying(b)' THEN 0 ELSE Inserted(b)') + Pending(o, b)'
      BY DEF Conserved
    <3>1. /\ IsFiniteSet(Queued(o, b))
          /\ made[b] = (IF Emptying(b) THEN 0 ELSE Inserted(b)) + Pending(o, b)
      BY DEF Sound, Conserved
    <3>2. CASE b = d
      <4>1. Inserted(d) \in Nat
        BY <1>2, EntryFacts DEF Inserted, FlowTypeOK
      <4>2. Pending(o, d) \in Nat
        BY <2>3, PendingFacts
      <4>3. made[d] = Inserted(d) + Pending(o, d) /\ made'[d] = made[d] + 1
        BY <1>2, <1>6, <1>9, <2>0, <3>1, <3>2
      <4>4. ~Emptying(d)' /\ Inserted(d)' = Inserted(d)
        BY <1>4, <1>5, <1>6
      <4> QED
        BY <2>4, <2>5, <3>2, <4>1, <4>2, <4>3, <4>4
    <3>3. CASE b # d
      <4>1. made'[b] = made[b]
        BY <1>9, <2>0, <3>3
      <4>2. Queued(o, b)' = Queued(o, b) /\ Inserting(b)' = Inserting(b)
        BY <1>5, <2>1, <3>3
      <4>3. Pending(o, b)' = Pending(o, b)
        BY <4>2 DEF Pending
      <4> QED
        BY <1>4, <1>5, <3>1, <4>1, <4>2, <4>3
    <3> QED
      BY <3>2, <3>3
  <2>7. CountsAgree'
    <3> SUFFICES ASSUME NEW b \in Blocks
        PROVE IF InCache(b)' THEN packet_counts'[b] = made'[b]
              ELSE /\ packet_counts'[b] = 0
                   /\ \/ packet_count'[b] = made'[b]
                      \/ \E p \in Persisters : CheckedBlock(p)' = b /\ ppc'[p] = "clear"
      BY DEF CountsAgree
    <3>1. IF InCache(b) THEN packet_counts[b] = made[b]
              ELSE /\ packet_counts[b] = 0
                   /\ \/ packet_count[b] = made[b]
                      \/ \E p \in Persisters : CheckedBlock(p) = b /\ ppc[p] = "clear"
      BY DEF Sound, CountsAgree
    <3>2. CASE b = d
      BY <1>2, <1>5, <1>9, <2>0, <3>1, <3>2
    <3>3. CASE b # d
      <4>1. made'[b] = made[b] /\ packet_counts'[b] = packet_counts[b]
        BY <1>9, <2>0, <3>3
      <4> QED
        BY <1>0, <1>4, <1>5, <3>1, <4>1
    <3> QED
      BY <3>2, <3>3
  <2>8. AtWork'
    <3>1. \A b \in Blocks : b # d => made'[b] = made[b]
      BY <1>9, <2>0
    <3>2. \A p \in Persisters : CheckedBlock(p) \in Blocks
      BY CheckedFacts
    <3> QED
      BY <1>0, <1>4, <1>6, <3>1, <3>2 DEF Sound, AtWork
  <2> QED
    BY <1>7, <2>6, <2>7, <2>8 DEF Sound
<1> QED
  BY <1>3, <1>8, <1>9

(* Steps that move no index out of its place.                              *)
LEMMA SoundStill ==
    ASSUME NEW o, Sound(o),
           UNCHANGED <<made, packet_counts, packet_count, dumpPos, disk_block_id, index_count,
                       pooled, ppc, expected, index_check_ids>>,
           \A b : Queued(o, b)' = Queued(o, b) /\ Inserting(b)' = Inserting(b)
                                               /\ Counting(b)' = Counting(b),
           InsertStaysValid'
    PROVE  Sound(o)'
<1>1. /\ \A b : (Emptying(b)' <=> Emptying(b)) /\ (Current(b)' <=> Current(b))
      /\ \A p : CheckedBlock(p)' = CheckedBlock(p) /\ CheckedEntry(p)' = CheckedEntry(p)
      /\ Apart => Apart'
  BY Unmoved
<1>2. \A b : Inserted(b)' = Inserted(b) /\ (InCache(b)' <=> InCache(b))
  BY DEF Inserted, Current, InCache, Ahead
<1>3. Conserved(o)'
  BY <1>1, <1>2 DEF Sound, Conserved, Pending
<1>4. PoolsAgree'
  BY <1>1, <1>2 DEF Sound, PoolsAgree
<1>5. CountsAgree'
  BY <1>1, <1>2 DEF Sound, CountsAgree
<1>6. AtWork'
  BY <1>1 DEF Sound, AtWork
<1> QED
  BY <1>1, <1>3, <1>4, <1>5, <1>6 DEF Sound

(* Such are putting an index on a ring, finding a ring empty, finding the  *)
(* entry of a block, returning, and the progress of threadsStop.           *)
LEMMA SoundByOthers ==
    ASSUME FlowTypeOK, NEW o, Sound(o),
           \/ UNCHANGED vars \/ ThreadsStop
           \/ \E r \in Readers : PutIndex(r) \/ ReaderReturns(r)
           \/ \E g \in Generators : InsertChecks(g) \/ GeneratorReturns(g)
    PROVE  Sound(o)'
<1>1. o \in [Readers -> Nat] /\ InsertStaysValid
  BY DEF Sound
<1>2. /\ UNCHANGED <<made, packet_counts, packet_count, dumpPos, disk_block_id>>
      /\ UNCHANGED <<index_count, pooled, ppc, expected, index_check_ids>>
  BY DEF vars, ThreadsStop, PutIndex, ReaderReturns, InsertChecks, GeneratorReturns, readerVars,
         diskVars, entryVars, storeVars, persisterVars
<1>3. CASE UNCHANGED vars \/ ThreadsStop \/ \E r \in Readers : PutIndex(r) \/ ReaderReturns(r)
  <2>1. UNCHANGED <<gpc, held>>
    BY <1>3 DEF vars, ThreadsStop, PutIndex, ReaderReturns, generatorVars
  <2>2. \A b : Inserting(b)' = Inserting(b) /\ Counting(b)' = Counting(b)
    BY <2>1 DEF Inserting, Counting
  <2>3. InsertStaysValid'
    BY <1>1, <1>2, <2>1 DEF InsertStaysValid
  <2>4. \A b : Queued(o, b)' = Queued(o, b)
    <3>1. CASE \E r \in Readers : PutIndex(r)
      BY <1>1, <3>1, QueuedByPut
    <3>2. CASE UNCHANGED vars \/ ThreadsStop \/ \E r \in Readers : ReaderReturns(r)
      <4>1. UNCHANGED <<rings, putting>>
        BY <3>2 DEF vars, ThreadsStop, ReaderReturns, readerVars
      <4> QED
        BY <4>1 DEF Queued, At
    <3> QED
      BY <1>3, <3>1, <3>2
  <2> QED
    BY <1>2, <2>2, <2>3, <2>4, SoundStill
<1>4. ASSUME NEW g \in Generators, InsertChecks(g) \/ GeneratorReturns(g) PROVE Sound(o)'
  <2>1. UNCHANGED <<rings, putting, held>>
    BY <1>4 DEF InsertChecks, GeneratorReturns, readerVars
  <2>2. \A b : Queued(o, b)' = Queued(o, b)
    BY <2>1 DEF Queued, At
  <2>3. gpc \in [Generators -> {"poll", "check", "store", "count", "returned"}]
    BY DEF FlowTypeOK
  <2>4. \A h \in Generators : h # g => gpc'[h] = gpc[h]
    BY <1>4, <2>3 DEF InsertChecks, GeneratorReturns
  <2>5. \/ gpc[g] = "poll" /\ gpc'[g] = "returned"
        \/ gpc[g] = "check" /\ gpc'[g] = "store" /\ disk_block_id[EntryOf(held[g])] = held[g]
    BY <1>4, <2>3 DEF InsertChecks, GeneratorReturns
  <2>6. \A b : Inserting(b)' = Inserting(b) /\ Counting(b)' = Counting(b)
    BY <2>1, <2>4, <2>5 DEF Inserting, Counting
  <2>7. InsertStaysValid'
    BY <1>1, <1>2, <2>1, <2>4, <2>5 DEF InsertStaysValid
  <2> QED
    BY <1>2, <2>2, <2>6, <2>7, SoundStill
<1> QED
  BY <1>3, <1>4

-----------------------------------------------------------------------------
(* Generators                                                              *)

(* A generator takes an index from a ring, or finds it empty.              *)
LEMMA SoundByPoll ==
    ASSUME FlowTypeOK, NEW o, Sound(o), NEW g \in Generators, PollRing(g)
    PROVE  \E u : Sound(u)'
<1>0. /\ o \in [Readers -> Nat] /\ InsertStaysValid
      /\ UNCHANGED <<made, packet_counts, packet_count, dumpPos, disk_block_id>>
      /\ UNCHANGED <<index_count, pooled, ppc, expected, index_check_ids, putting>>
  BY DEF Sound, PollRing, readerVars, diskVars, entryVars, storeVars, persisterVars
<1>1. PICK r : r = turn[g]
  OBVIOUS
<1>2. r \in Readers
  BY <1>1, FlowSizes DEF PollRing, FlowTypeOK, Readers
<1>3. CASE rings[r] = <<>>
  <2>1. UNCHANGED <<rings, gpc, held>>
    BY <1>1, <1>3 DEF PollRing
  <2>2. \A b : Queued(o, b)' = Queued(o, b) /\ Inserting(b)' = Inserting(b)
                                            /\ Counting(b)' = Counting(b)
    BY <1>0, <2>1 DEF Queued, At, Inserting, Counting
  <2>3. InsertStaysValid'
    BY <1>0, <2>1 DEF InsertStaysValid
  <2>4. Sound(o)'
    BY <1>0, <2>2, <2>3, SoundStill
  <2> QED
    BY <2>4
<1>4. CASE rings[r] # <<>>
  <2>5. PICK u \in [Readers -> Nat], d \in Blocks :
              /\ held' = [held EXCEPT ![g] = d]
              /\ \E x : x \in Queued(o, d) /\ Queued(u, d)' = Queued(o, d) \ {x}
              /\ \A b \in Blocks : b # d => Queued(u, b)' = Queued(o, b)
    BY <1>0, <1>1, <1>2, <1>4, QueuedByPoll
  <2>3. gpc[g] = "poll" /\ gpc' = [gpc EXCEPT ![g] = "check"]
    BY <1>1, <1>4 DEF PollRing
  <2>6. /\ gpc \in [Generators -> {"poll", "check", "store", "count", "returned"}]
        /\ held \in [Generators -> Blocks \cup {None}]
    BY DEF FlowTypeOK
  <2>7. /\ g \notin Inserting(d) /\ Inserting(d)' = Inserting(d) \cup {g}
        /\ \A b \in Blocks : b # d => Inserting(b)' = Inserting(b)
        /\ \A b : Counting(b)' = Counting(b)
    BY <2>3, <2>5, <2>6 DEF Inserting, Counting
  <2>8. InsertStaysValid'
    BY <1>0, <2>3, <2>5, <2>6 DEF InsertStaysValid
  <2>9. ASSUME NEW b \in Blocks
        PROVE  IsFiniteSet(Queued(u, b)') /\ Pending(u, b)' = Pending(o, b)
    <3>1. IsFiniteSet(Queued(o, b))
      BY DEF Sound, Conserved
    <3>2. CASE b # d
      BY <2>5, <2>7, <3>1, <3>2 DEF Pending
    <3>3. CASE b = d
      <4>1. PICK x : x \in Queued(o, b) /\ Queued(u, b)' = Queued(o, b) \ {x}
        BY <2>5, <3>3
      <4>2. /\ IsFiniteSet(Queued(u, b)')
            /\ Cardinality(Queued(u, b)') = Cardinality(Queued(o, b)) - 1
        BY <3>1, <4>1, FS_RemoveElement
      <4>3. IsFiniteSet(Inserting(b))
        BY GeneratorSets DEF Inserting
      <4>4. Cardinality(Inserting(b)') = Cardinality(Inserting(b)) + 1
        BY <2>7, <3>3, <4>3, FS_AddElement
      <4>5. Cardinality(Queued(o, b)) \in Nat /\ Cardinality(Inserting(b)) \in Nat
        BY <3>1, PendingFacts
      <4>6. Pending(u, b)' = Cardinality(Queued(u, b)') + Cardinality(Inserting(b)')
        BY DEF Pending
      <4> QED
        BY <4>2, <4>4, <4>5, <4>6 DEF Pending
    <3> QED
      BY <3>2, <3>3
  <2>10. /\ \A b : (Emptying(b)' <=> Emptying(b)) /\ (Current(b)' <=> Current(b))
         /\ \A p : CheckedBlock(p)' = CheckedBlock(p) /\ CheckedEntry(p)' = CheckedEntry(p)
         /\ Apart => Apart'
    BY <1>0, Unmoved
  <2>11. \A b : Inserted(b)' = Inserted(b) /\ (InCache(b)' <=> InCache(b))
    BY <1>0 DEF Inserted, Current, InCache, Ahead
  <2>12. Conserved(u)'
    BY <1>0, <2>9, <2>10, <2>11 DEF Sound, Conserved
  <2>13. PoolsAgree'
    BY <1>0, <2>7, <2>10, <2>11 DEF Sound, PoolsAgree
  <2>14. CountsAgree'
    BY <1>0, <2>10, <2>11 DEF Sound, CountsAgree
  <2>15. AtWork'
    BY <1>0, <2>10 DEF Sound, AtWork
  <2>16. Sound(u)'
    BY <2>5, <2>8, <2>10, <2>12, <2>13, <2>14, <2>15 DEF Sound
  <2> QED
    BY <2>16
<1> QED
  BY <1>3, <1>4

(* A generator that inserts for a block finds it current, and nobody       *)
(* empties its entry.                                                      *)
LEMMA InsertingFacts ==
    ASSUME FlowTypeOK, NEW o, Sound(o), NEW g \in Generators,
           gpc[g] \in {"check", "store", "count"}
    PROVE  /\ held[g] \in Blocks /\ g \in Inserting(held[g]) /\ made[held[g]] > 0
           /\ ~Emptying(held[g]) /\ EntryOf(held[g]) \in Entries
           /\ \A p \in Persisters : CheckedBlock(p) = held[g] =>
                ppc[p] \notin {"clear", "update", "move"}
<1>1. PICK d : d = held[g]
  OBVIOUS
<1>2. d \in Blocks /\ g \in Inserting(d)
  BY <1>1 DEF FlowTypeOK, Inserting
<1>3. IsFiniteSet(Queued(o, d))
  BY <1>2 DEF Sound, Conserved
<1>4. Pending(o, d) \in Nat /\ Pending(o, d) # 0
  BY <1>2, <1>3, PendingFacts
<1>5. Inserted(d) \in Nat
  BY <1>2, EntryFacts DEF Inserted, FlowTypeOK
<1>6. made[d] = (IF Emptying(d) THEN 0 ELSE Inserted(d)) + Pending(o, d)
  BY <1>2 DEF Sound, Conserved
<1>7. made[d] > 0
  BY <1>4, <1>5, <1>6
<1>8. \A p \in Persisters : CheckedBlock(p) = d => ppc[p] \notin {"clear", "update", "move"}
  BY <1>7 DEF Sound, AtWork
<1>9. ~Emptying(d)
  BY <1>8 DEF Emptying
<1> QED
  BY <1>1, <1>2, <1>7, <1>8, <1>9, EntryFacts

(* A generator stores an index in the pools.                               *)
LEMMA SoundByStore ==
    ASSUME FlowTypeOK, NEW o, Sound(o), NEW g \in Generators, InsertStores(g)
    PROVE  Sound(o)'
<1>0. /\ UNCHANGED <<made, packet_counts, packet_count, dumpPos, disk_block_id, rings, putting>>
      /\ UNCHANGED <<index_count, ppc, expected, index_check_ids, held>>
  BY DEF InsertStores, readerVars, diskVars, entryVars, persisterVars
<1>1. PICK d : d = held[g]
  OBVIOUS
<1>2. /\ gpc[g] = "store" /\ gpc' = [gpc EXCEPT ![g] = "count"]
      /\ pooled' = [pooled EXCEPT ![d] = @ + 1]
  BY <1>1 DEF InsertStores
<1>3. /\ d \in Blocks
      /\ \A p \in Persisters : CheckedBlock(p) = d => ppc[p] \notin {"clear", "update", "move"}
  BY <1>1, <1>2, InsertingFacts
<1>4. /\ gpc \in [Generators -> {"poll", "check", "store", "count", "returned"}]
      /\ pooled \in [Blocks -> Nat]
  BY DEF FlowTypeOK
<1>5. /\ \A b : (Emptying(b)' <=> Emptying(b)) /\ (Current(b)' <=> Current(b))
      /\ \A p : CheckedBlock(p)' = CheckedBlock(p) /\ CheckedEntry(p)' = CheckedEntry(p)
      /\ Apart => Apart'
  BY <1>0, Unmoved
<1>6. \A b : Inserted(b)' = Inserted(b) /\ (InCache(b)' <=> InCache(b))
  BY <1>0 DEF Inserted, Current, InCache, Ahead
<1>7. \A b : Queued(o, b)' = Queued(o, b) /\ Inserting(b)' = Inserting(b)
  <2>1. \A b : Inserting(b)' = Inserting(b)
    BY <1>0, <1>2, <1>4 DEF Inserting
  <2> QED
    BY <1>0, <2>1 DEF Queued, At
<1>8. /\ g \notin Counting(d) /\ Counting(d)' = Counting(d) \cup {g}
      /\ \A b : b # d => Counting(b)' = Counting(b)
  BY <1>0, <1>1, <1>2, <1>4 DEF Counting
<1>9. Conserved(o)'
  BY <1>0, <1>5, <1>6, <1>7 DEF Sound, Conserved, Pending
<1>10. PoolsAgree'
  <2> SUFFICES ASSUME NEW b \in Blocks, ~Emptying(b)
               PROVE  pooled'[b] = Inserted(b) + Cardinality(Counting(b)')
    BY <1>5, <1>6 DEF PoolsAgree
  <2>1. pooled[b] = Inserted(b) + Cardinality(Counting(b))
    BY DEF Sound, PoolsAgree
  <2>2. CASE b = d
    <3>1. IsFiniteSet(Counting(d)) /\ Cardinality(Counting(d)) \in Nat
      BY GeneratorSets DEF Counting
    <3>2. Cardinality(Counting(d)') = Cardinality(Counting(d)) + 1
      BY <1>8, <3>1, FS_AddElement
    <3>3. Inserted(b) \in Nat
      BY EntryFacts DEF Inserted, FlowTypeOK
    <3>4. pooled'[d] = pooled[d] + 1
      BY <1>2, <1>3, <1>4
    <3> QED
      BY <2>1, <2>2, <3>1, <3>2, <3>3, <3>4
  <2>3. CASE b # d
    BY <1>2, <1>4, <1>8, <2>1, <2>3
  <2> QED
    BY <2>2, <2>3
<1>11. InsertStaysValid'
  BY <1>0, <1>2, <1>4 DEF Sound, InsertStaysValid
<1>12. CountsAgree'
  BY <1>0, <1>5, <1>6 DEF Sound, CountsAgree
<1>13. AtWork'
  <2>1. \A p \in Persisters : ppc[p] = "move" => pooled'[CheckedBlock(p)] = pooled[CheckedBlock(p)]
    BY <1>2, <1>3, <1>4, CheckedFacts
  <2> QED
    BY <1>0, <1>5, <2>1 DEF Sound, AtWork
<1> QED
  BY <1>5, <1>9, <1>10, <1>11, <1>12, <1>13 DEF Sound

(* A generator counts the index it stored.                                 *)
LEMMA SoundByCount ==
    ASSUME FlowTypeOK, FlowTypeOK', NEW o, Sound(o), NEW g \in Generators, InsertCounts(g)
    PROVE  Sound(o)'
<1>0. /\ UNCHANGED <<made, packet_counts, packet_count, dumpPos, disk_block_id, rings, putting>>
      /\ UNCHANGED <<pooled, ppc, expected, index_check_ids>>
  BY DEF InsertCounts, readerVars, diskVars, storeVars, persisterVars
<1>1. PICK d, e : d = held[g] /\ e = EntryOf(held[g])
  OBVIOUS
<1>2. /\ gpc[g] = "count" /\ gpc' = [gpc EXCEPT ![g] = "poll"]
      /\ held' = [held EXCEPT ![g] = None]
      /\ index_count' = [index_count EXCEPT ![e] = @ + 1]
  BY <1>1 DEF InsertCounts
<1>3. /\ d \in Blocks /\ e \in Entries /\ e = EntryOf(d) /\ ~Emptying(d)
      /\ \A p \in Persisters : CheckedBlock(p) = d => ppc[p] \notin {"clear", "update", "move"}
  BY <1>1, <1>2, InsertingFacts
<1>4. /\ gpc \in [Generators -> {"poll", "check", "store", "count", "returned"}]
      /\ index_count \in [Entries -> Nat] /\ held \in [Generators -> Blocks \cup {None}]
  BY DEF FlowTypeOK
<1>5. /\ \A b : (Emptying(b)' <=> Emptying(b)) /\ (Current(b)' <=> Current(b))
      /\ \A p : CheckedBlock(p)' = CheckedBlock(p) /\ CheckedEntry(p)' = CheckedEntry(p)
      /\ Apart => Apart'
  BY <1>0, Unmoved
<1>6. disk_block_id[e] = d
  BY <1>1, <1>2 DEF Sound, InsertStaysValid
<1>7. \A b : (InCache(b)' <=> InCache(b)) /\ Queued(o, b)' = Queued(o, b)
  BY <1>0 DEF InCache, Ahead, Queued, At
<1>8. /\ Inserted(d) \in Nat /\ Inserted(d)' = Inserted(d) + 1
      /\ \A b \in Blocks : b # d => Inserted(b)' = Inserted(b)
  <2>1. Inserted(d) = index_count[e] /\ Inserted(d)' = index_count'[e]
    BY <1>0, <1>3, <1>6 DEF Inserted, Current
  <2>2. ASSUME NEW b \in Blocks, b # d PROVE Inserted(b)' = Inserted(b)
    <3>1. Current(b) => EntryOf(b) # e
      BY <1>6, <2>2 DEF Current
    <3>2. EntryOf(b) # e => index_count'[EntryOf(b)] = index_count[EntryOf(b)]
      BY <1>2, <1>4, <2>2, EntryFacts
    <3> QED
      BY <1>5, <3>1, <3>2 DEF Inserted
  <2> QED
    BY <1>2, <1>3, <1>4, <2>1, <2>2
<1>9. d # None
  BY <1>3, FlowSizes DEF Blocks, None
<1>10. /\ g \in Counting(d) /\ Counting(d)' = Counting(d) \ {g}
       /\ g \in Inserting(d) /\ Inserting(d)' = Inserting(d) \ {g}
       /\ \A b \in Blocks : b # d => Counting(b)' = Counting(b) /\ Inserting(b)' = Inserting(b)
  BY <1>1, <1>2, <1>4 DEF Counting, Inserting
<1>11. /\ Cardinality(Counting(d)') = Cardinality(Counting(d)) - 1
       /\ Cardinality(Inserting(d)') = Cardinality(Inserting(d)) - 1
       /\ Cardinality(Counting(d)) \in Nat /\ Cardinality(Inserting(d)) \in Nat
  <2>1. /\ IsFiniteSet(Counting(d)) /\ IsFiniteSet(Inserting(d))
        /\ Cardinality(Counting(d)) \in Nat /\ Cardinality(Inserting(d)) \in Nat
    BY GeneratorSets DEF Counting, Inserting
  <2> QED
    BY <1>10, <2>1, FS_RemoveElement
<1>12. Conserved(o)'
  <2> SUFFICES ASSUME NEW b \in Blocks
               PROVE  /\ IsFiniteSet(Queued(o, b)')
                      /\ made'[b] = (IF Emptying(b)' THEN 0 ELSE Inserted(b)') + Pending(o, b)'
    BY DEF Conserved
  <2>1. /\ IsFiniteSet(Queued(o, b)) /\ IsFiniteSet(Queued(o, b)')
        /\ made[b] = (IF Emptying(b) THEN 0 ELSE Inserted(b)) + Pending(o, b)
    BY <1>7 DEF Sound, Conserved
  <2>2. CASE b = d
    <3>1. Cardinality(Queued(o, d)) \in Nat
      BY <2>1, <2>2, PendingFacts
    <3>2. Pending(o, d)' = Cardinality(Queued(o, d)') + Cardinality(Inserting(d)')
      BY DEF Pending
    <3>3. Pending(o, d) = Cardinality(Queued(o, d)) + Cardinality(Inserting(d))
      BY DEF Pending
    <3>4. Pending(o, d)' = Pending(o, d) - 1 /\ Pending(o, d) \in Int
      BY <1>7, <1>11, <3>1, <3>2, <3>3
    <3>5. ~Emptying(d)' /\ made'[d] = made[d] /\ made[d] = Inserted(d) + Pending(o, d)
      BY <1>0, <1>3, <1>5, <2>1, <2>2
    <3> QED
      BY <1>8, <2>1, <2>2, <3>4, <3>5
  <2>3. CASE b # d
    <3>1. Pending(o, b)' = Pending(o, b)
      BY <1>7, <1>10, <2>3 DEF Pending
    <3> QED
      BY <1>0, <1>5, <1>8, <2>1, <2>3, <3>1
  <2> QED
    BY <2>2, <2>3
<1>13. PoolsAgree'
  <2> SUFFICES ASSUME NEW b \in Blocks, ~Emptying(b)
               PROVE  pooled[b] = Inserted(b)' + Cardinality(Counting(b)')
    BY <1>0, <1>5 DEF PoolsAgree
  <2>1. pooled[b] = Inserted(b) + Cardinality(Counting(b))
    BY DEF Sound, PoolsAgree
  <2>2. CASE b = d
    BY <1>8, <1>11, <2>1, <2>2
  <2>3. CASE b # d
    BY <1>8, <1>10, <2>1, <2>3
  <2> QED
    BY <2>2, <2>3
<1>14. InsertStaysValid'
  BY <1>0, <1>2, <1>4 DEF Sound, InsertStaysValid
<1>15. CountsAgree'
  BY <1>0, <1>5, <1>7 DEF Sound, CountsAgree
<1>16. AtWork'
  <2>1. ASSUME NEW p \in Persisters
        PROVE  /\ index_count[CheckedEntry(p)] \in Nat
               /\ index_count'[CheckedEntry(p)] >= index_count[CheckedEntry(p)]
               /\ ppc[p] = "move" => index_count'[CheckedEntry(p)] = index_count[CheckedEntry(p)]
    <3>1. /\ CheckedEntry(p) \in Entries
          /\ CheckedEntry(p) = e => CheckedBlock(p) = d
      BY <1>6, CheckedFacts DEF CheckedBlock
    <3>2. index_count'[CheckedEntry(p)] = IF CheckedEntry(p) = e THEN index_count[e] + 1
                                          ELSE index_count[CheckedEntry(p)]
      BY <1>2, <1>4, <3>1
    <3> QED
      BY <1>3, <1>4, <3>1, <3>2
  <2>2. \A p \in Persisters : expected[p] \in Nat
    BY DEF FlowTypeOK
  <2>3. ASSUME NEW p \in Persisters, ppc[p] = "persist"
        PROVE  index_count'[CheckedEntry(p)] >= expected[p]
    <3>1. index_count[CheckedEntry(p)] >= expected[p]
      BY <2>3 DEF Sound, AtWork
    <3>2. PICK m, n, x : /\ m = index_count'[CheckedEntry(p)] /\ n = index_count[CheckedEntry(p)]
                         /\ x = expected[p]
      OBVIOUS
    <3>3. m \in Nat
      BY <3>2, CheckedFacts DEF FlowTypeOK
    <3> QED
      BY <2>1, <2>2, <3>1, <3>2, <3>3
  <2> QED
    BY <1>0, <1>5, <2>1, <2>3 DEF Sound, AtWork
<1> QED
  BY <1>5, <1>12, <1>13, <1>14, <1>15, <1>16 DEF Sound

-----------------------------------------------------------------------------
(* The disk manager writes down the count of a block and takes it out of   *)
(* the cache.                                                              *)
LEMMA SoundByDump ==
    ASSUME FlowTypeOK, FlowTypeOK', KeepsUp, KeepsUp', NEW o, Sound(o), DumpBlock
    PROVE  Sound(o)'
<1>0. /\ UNCHANGED <<made, disk_block_id, rings, putting, gpc, held>>
      /\ UNCHANGED <<index_count, pooled, ppc, expected, index_check_ids>>
  BY DEF DumpBlock, readerVars, generatorVars, entryVars, storeVars, persisterVars
<1>1. PICK d : d = dumpPos
  OBVIOUS
<1>2. /\ packet_count' = [packet_count EXCEPT ![d] = packet_counts[d]]
      /\ packet_counts' = [packet_counts EXCEPT ![d] = 0]
      /\ dumpPos' = (dumpPos + 1) % N
  BY <1>1 DEF DumpBlock, SetPacketCount
<1>3. /\ packet_count \in [Blocks -> Nat] /\ packet_counts \in [Blocks -> Nat] /\ d \in Blocks
  BY <1>1 DEF FlowTypeOK
<1>4. /\ InCache(d) /\ \A b \in Blocks : IF b = d THEN ~InCache(b)' ELSE InCache(b) => InCache(b)'
  BY <1>1, <1>2, CacheStep
<1>5. /\ \A b : (Emptying(b)' <=> Emptying(b)) /\ (Current(b)' <=> Current(b))
      /\ \A p : CheckedBlock(p)' = CheckedBlock(p) /\ CheckedEntry(p)' = CheckedEntry(p)
      /\ Apart => Apart'
  BY <1>0, Unmoved
<1>6. \A b : /\ Inserted(b)' = Inserted(b) /\ Queued(o, b)' = Queued(o, b)
             /\ Inserting(b)' = Inserting(b) /\ Counting(b)' = Counting(b)
  BY <1>0 DEF Inserted, Current, Queued, At, Inserting, Counting
<1>7. Conserved(o)'
  BY <1>0, <1>5, <1>6 DEF Sound, Conserved, Pending
<1>8. PoolsAgree'
  BY <1>0, <1>5, <1>6 DEF Sound, PoolsAgree
<1>9. InsertStaysValid'
  BY <1>0 DEF Sound, InsertStaysValid
<1>10. CountsAgree'
  <2> SUFFICES ASSUME NEW b \in Blocks
      PROVE IF InCache(b)' THEN packet_counts'[b] = made[b]
            ELSE /\ packet_counts'[b] = 0
                 /\ \/ packet_count'[b] = made[b]
                    \/ \E p \in Persisters : CheckedBlock(p) = b /\ ppc[p] = "clear"
    BY <1>0, <1>5 DEF CountsAgree
  <2>1. IF InCache(b) THEN packet_counts[b] = made[b]
            ELSE /\ packet_counts[b] = 0
                 /\ \/ packet_count[b] = made[b]
                    \/ \E p \in Persisters : CheckedBlock(p) = b /\ ppc[p] = "clear"
    BY DEF Sound, CountsAgree
  <2>2. CASE b = d
    BY <1>2, <1>3, <1>4, <2>1, <2>2
  <2>3. CASE b # d
    <3>1. packet_counts'[b] = packet_counts[b] /\ packet_count'[b] = packet_count[b]
      BY <1>2, <1>3, <2>3
    <3>2. CASE InCache(b) \/ ~InCache(b)'
      BY <1>4, <2>1, <2>3, <3>1, <3>2
    <3>3. CASE ~InCache(b) /\ InCache(b)'
      <4>1. packet_count'[b] = 0
        BY <3>3 DEF KeepsUp
      <4>2. \A p \in Persisters : CheckedBlock(p)' = b => ppc'[p] # "clear"
        BY <3>3 DEF KeepsUp
      <4>3. \A p \in Persisters : CheckedBlock(p) = b => ppc[p] # "clear"
        BY <1>0, <1>5, <4>2
      <4> QED
        BY <2>1, <3>1, <3>3, <4>1, <4>3
    <3> QED
      BY <3>2, <3>3
  <2> QED
    BY <2>2, <2>3
<1>11. AtWork'
  <2>1. \A p \in Persisters : ppc[p] \in {"count", "persist"} => CheckedBlock(p) # d
    BY <1>3, <1>4, CachedIdle
  <2>2. \A p \in Persisters : ppc[p] \in {"count", "persist"} =>
          packet_count'[CheckedBlock(p)] = packet_count[CheckedBlock(p)]
    BY <1>2, <1>3, <2>1, CheckedFacts
  <2> QED
    BY <1>0, <1>5, <2>2 DEF Sound, AtWork
<1> QED
  BY <1>5, <1>7, <1>8, <1>9, <1>10, <1>11 DEF Sound

-----------------------------------------------------------------------------
(* Persisters                                                              *)

(* When the count is reached nothing is pending: the pools hold every      *)
(* index of the block.                                                     *)
LEMMA ReadyFacts ==
    ASSUME FlowTypeOK, KeepsUp, NEW o, Sound(o), NEW p \in Persisters, ppc[p] = "persist",
           NEW b, b = CheckedBlock(p)
    PROVE  /\ Pending(o, b) = 0 /\ made[b] = pooled[b] /\ pooled[b] > 0
           /\ ~InCache(b) /\ ~Emptying(b)
<1>1. /\ b \in Blocks /\ EntryOf(b) = CheckedEntry(p) /\ Current(b)
      /\ CheckedEntry(p) \in Entries
  BY CheckedFacts
<1>2. \A q \in Persisters : CheckedBlock(q) = b => q = p
  BY OnePersister DEF Sound
<1>3. ~Emptying(b) /\ \A q \in Persisters : CheckedBlock(q) = b => ppc[q] # "clear"
  BY <1>2 DEF Emptying
<1>4. ~InCache(b)
  BY <1>1, CachedIdle
<1>5. packet_count[b] = made[b]
  BY <1>1, <1>3, <1>4 DEF Sound, CountsAgree
<1>6. packet_count[b] = expected[p] /\ expected[p] > 0 /\ index_count[EntryOf(b)] >= expected[p]
  BY <1>1 DEF Sound, AtWork
<1>7. Inserted(b) = index_count[EntryOf(b)] /\ index_count[EntryOf(b)] \in Nat
  BY <1>1 DEF Inserted, FlowTypeOK
<1>8. IsFiniteSet(Queued(o, b)) /\ made[b] = Inserted(b) + Pending(o, b)
  BY <1>1, <1>3 DEF Sound, Conserved
<1>9. Pending(o, b) \in Nat /\ (Pending(o, b) = 0 => Cardinality(Counting(b)) = 0)
  BY <1>8, PendingFacts
<1>10. expected[p] \in Nat
  BY DEF FlowTypeOK
<1>11. PICK x, i, q : x = expected[p] /\ i = Inserted(b) /\ q = Pending(o, b)
  OBVIOUS
<1>12. /\ x \in Nat /\ i \in Nat /\ q \in Nat /\ x > 0 /\ i >= x /\ x = i + q
       /\ made[b] = x
  BY <1>5, <1>6, <1>7, <1>8, <1>9, <1>10, <1>11
<1>13. q = 0 /\ x = i
  BY <1>12
<1>14. pooled[b] = i + Cardinality(Counting(b)) /\ Cardinality(Counting(b)) = 0
  BY <1>1, <1>3, <1>9, <1>11, <1>13 DEF Sound, PoolsAgree
<1>15. pooled[b] = x /\ Pending(o, b) = 0
  BY <1>11, <1>12, <1>13, <1>14
<1> QED
  BY <1>3, <1>4, <1>12, <1>15

(* A persister looks at stop, reads a count or finds it reached.           *)
LEMMA SoundByWait ==
    ASSUME FlowTypeOK, NEW o, Sound(o), NEW p \in Persisters,
           TestStop(p) \/ ReadPacketCount(p) \/ CountReached(p)
    PROVE  Sound(o)'
<1>0. /\ UNCHANGED <<made, packet_counts, packet_count, dumpPos, disk_block_id, rings, putting>>
      /\ UNCHANGED <<gpc, held, index_count, pooled, index_check_ids>>
  BY DEF TestStop, ReadPacketCount, CountReached, readerVars, diskVars, generatorVars, entryVars,
         storeVars
<1>1. ppc \in [Persisters -> PersisterPlaces] /\ expected \in [Persisters -> Nat]
  BY DEF FlowTypeOK
<1>2. \A q \in Persisters : q # p => ppc'[q] = ppc[q] /\ expected'[q] = expected[q]
  BY <1>1 DEF TestStop, ReadPacketCount, CountReached, Step
<1>3. ppc[p] \in {"test", "wait", "count"} /\ ppc'[p] \in {"test", "wait", "count", "persist", "returned"}
  BY <1>1 DEF TestStop, ReadPacketCount, CountReached, Step
<1>4. \A q : CheckedBlock(q)' = CheckedBlock(q) /\ CheckedEntry(q)' = CheckedEntry(q)
  BY <1>0 DEF CheckedBlock, CheckedEntry
<1>5. \A b : (Emptying(b)' <=> Emptying(b)) /\ (Current(b)' <=> Current(b))
  BY <1>0, <1>2, <1>3, <1>4 DEF Emptying, Current
<1>6. \A b : /\ Inserted(b)' = Inserted(b) /\ Queued(o, b)' = Queued(o, b)
             /\ Inserting(b)' = Inserting(b) /\ Counting(b)' = Counting(b)
             /\ (InCache(b)' <=> InCache(b))
  BY <1>0 DEF Inserted, Current, Queued, At, Inserting, Counting, InCache, Ahead
<1>7. Conserved(o)'
  BY <1>0, <1>5, <1>6 DEF Sound, Conserved, Pending
<1>8. PoolsAgree'
  BY <1>0, <1>5, <1>6 DEF Sound, PoolsAgree
<1>9. InsertStaysValid' /\ Apart'
  BY <1>0 DEF Sound, InsertStaysValid, Apart
<1>10. CountsAgree'
  <2>1. \A q \in Persisters : ppc'[q] = "clear" <=> ppc[q] = "clear"
    BY <1>2, <1>3
  <2> QED
    BY <1>0, <1>4, <1>6, <2>1 DEF Sound, CountsAgree
<1>11. AtWork'
  <2>1. /\ ppc'[p] \in {"count", "persist"} =>
             packet_count[CheckedBlock(p)] = expected'[p] /\ expected'[p] > 0
        /\ ppc'[p] = "persist" => index_count[CheckedEntry(p)] >= expected'[p]
    <3>1. CASE TestStop(p)
      <4>1. ppc'[p] \in {"wait", "returned"}
        BY <1>1, <3>1 DEF TestStop, Step
      <4> QED
        BY <4>1
    <3>2. CASE ReadPacketCount(p)
      <4>1. /\ expected'[p] = packet_count[CheckedBlock(p)]
            /\ ppc'[p] = IF packet_count[CheckedBlock(p)] = 0 THEN "test" ELSE "count"
        BY <1>1, <3>2 DEF ReadPacketCount, Step
      <4>2. packet_count[CheckedBlock(p)] \in Nat
        BY CheckedFacts DEF FlowTypeOK
      <4> QED
        BY <4>1, <4>2
    <3>3. CASE CountReached(p)
      BY <1>1, <3>3 DEF CountReached, Step, Sound, AtWork
    <3> QED
      BY <3>1, <3>2, <3>3
  <2> QED
    BY <1>0, <1>2, <1>3, <1>4, <2>1 DEF Sound, AtWork
<1> QED
  BY <1>7, <1>8, <1>9, <1>10, <1>11 DEF Sound

(* A persister writes its block to the index disk.                         *)
LEMMA SoundByPersist ==
    ASSUME FlowTypeOK, KeepsUp, NEW o, Sound(o), NEW p \in Persisters, PersistMeta(p)
    PROVE  Sound(o)'
<1>0. /\ UNCHANGED <<packet_counts, packet_count, dumpPos, disk_block_id, rings, putting>>
      /\ UNCHANGED <<gpc, held, index_count, pooled, expected, index_check_ids>>
  BY DEF PersistMeta, readerVars, generatorVars, entryVars, storeVars
<1>1. PICK d : d = CheckedBlock(p)
  OBVIOUS
<1>2. /\ ppc[p] = "persist" /\ ppc' = [ppc EXCEPT ![p] = "clear"]
      /\ made' = [made EXCEPT ![d] = @ - pooled[d]]
  BY <1>1 DEF PersistMeta, Step
<1>3. ppc \in [Persisters -> PersisterPlaces] /\ made \in [Blocks -> Int] /\ pooled \in [Blocks -> Nat]
  BY DEF FlowTypeOK
<1>4. d \in Blocks
  BY <1>1, CheckedFacts
<1>5. Pending(o, d) = 0 /\ made[d] = pooled[d] /\ ~InCache(d) /\ ~Emptying(d)
  BY <1>1, <1>2, ReadyFacts
<1>6. made'[d] = 0 /\ \A b \in Blocks : b # d => made'[b] = made[b]
  BY <1>2, <1>3, <1>4, <1>5
<1>7. \A q : CheckedBlock(q)' = CheckedBlock(q) /\ CheckedEntry(q)' = CheckedEntry(q)
  BY <1>0 DEF CheckedBlock, CheckedEntry
<1>8. ppc'[p] = "clear" /\ \A q \in Persisters : q # p => ppc'[q] = ppc[q]
  BY <1>2, <1>3
<1>9. \A q \in Persisters : CheckedBlock(q) = d <=> q = p
  BY <1>1, OnePersister DEF Sound
<1>10. Emptying(d)' /\ \A b : b # d => (Emptying(b)' <=> Emptying(b))
  BY <1>1, <1>2, <1>7, <1>8, <1>9 DEF Emptying
<1>11. \A b : /\ Inserted(b)' = Inserted(b) /\ Queued(o, b)' = Queued(o, b)
              /\ Inserting(b)' = Inserting(b) /\ Counting(b)' = Counting(b)
              /\ (InCache(b)' <=> InCache(b))
  BY <1>0 DEF Inserted, Current, Queued, At, Inserting, Counting, InCache, Ahead
<1>12. \A b : Pending(o, b)' = Pending(o, b)
  BY <1>11 DEF Pending
<1>13. Conserved(o)'
  BY <1>5, <1>6, <1>10, <1>11, <1>12 DEF Sound, Conserved
<1>14. PoolsAgree'
  BY <1>0, <1>10, <1>11 DEF Sound, PoolsAgree
<1>15. InsertStaysValid' /\ Apart'
  BY <1>0 DEF Sound, InsertStaysValid, Apart
<1>16. CountsAgree'
  <2> SUFFICES ASSUME NEW b \in Blocks
      PROVE IF InCache(b) THEN packet_counts[b] = made'[b]
            ELSE /\ packet_counts[b] = 0
                 /\ \/ packet_count[b] = made'[b]
                    \/ \E q \in Persisters : CheckedBlock(q) = b /\ ppc'[q] = "clear"
    BY <1>0, <1>7, <1>11 DEF CountsAgree
  <2>1. IF InCache(b) THEN packet_counts[b] = made[b]
            ELSE /\ packet_counts[b] = 0
                 /\ \/ packet_count[b] = made[b]
                    \/ \E q \in Persisters : CheckedBlock(q) = b /\ ppc[q] = "clear"
    BY DEF Sound, CountsAgree
  <2>2. CASE b = d
    BY <1>1, <1>5, <1>8, <2>1, <2>2
  <2>3. CASE b # d
    BY <1>2, <1>6, <1>8, <2>1, <2>3
  <2> QED
    BY <2>2, <2>3
<1>17. AtWork'
  <2>1. \A q \in Persisters : q # p => made'[CheckedBlock(q)] = made[CheckedBlock(q)]
    BY <1>6, <1>9, CheckedFacts
  <2> QED
    BY <1>0, <1>1, <1>6, <1>7, <1>8, <2>1 DEF Sound, AtWork
<1> QED
  BY <1>13, <1>14, <1>15, <1>16, <1>17 DEF Sound

(* A persister clears the count of its block, then the entry.              *)
LEMMA SoundByClear ==
    ASSUME FlowTypeOK, KeepsUp, NEW o, Sound(o), NEW p \in Persisters,
           ClearMeta(p) \/ EmptyEntry(p)
    PROVE  Sound(o)'
<1>0. /\ UNCHANGED <<made, packet_counts, dumpPos, disk_block_id, rings, putting>>
      /\ UNCHANGED <<gpc, held, expected, index_check_ids>>
  BY DEF ClearMeta, EmptyEntry, readerVars, generatorVars, entryVars
<1>1. PICK d, e : d = CheckedBlock(p) /\ e = CheckedEntry(p)
  OBVIOUS
<1>2. d \in Blocks /\ e \in Entries /\ EntryOf(d) = e /\ disk_block_id[e] = d
  BY <1>1, CheckedFacts DEF CheckedBlock
<1>3. \/ /\ ppc[p] = "clear" /\ ppc' = [ppc EXCEPT ![p] = "update"]
         /\ packet_count' = [packet_count EXCEPT ![d] = 0] /\ UNCHANGED <<pooled, index_count>>
      \/ /\ ppc[p] = "update" /\ ppc' = [ppc EXCEPT ![p] = "move"]
         /\ pooled' = [pooled EXCEPT ![d] = 0] /\ index_count' = [index_count EXCEPT ![e] = 0]
         /\ UNCHANGED packet_count
  BY <1>1, <1>2 DEF ClearMeta, EmptyEntry, Step, ClearPacketCount, SetPacketCount, entryVars, diskVars
<1>4. /\ ppc \in [Persisters -> PersisterPlaces] /\ packet_count \in [Blocks -> Nat]
      /\ pooled \in [Blocks -> Nat] /\ index_count \in [Entries -> Nat]
  BY DEF FlowTypeOK
<1>5. /\ ppc[p] \in {"clear", "update"} /\ ppc'[p] \in {"update", "move"}
      /\ \A q \in Persisters : q # p => ppc'[q] = ppc[q]
  BY <1>3, <1>4
<1>6. /\ \A b \in Blocks : b # d => packet_count'[b] = packet_count[b] /\ pooled'[b] = pooled[b]
      /\ \A f \in Entries : f # e => index_count'[f] = index_count[f]
  BY <1>3, <1>4
<1>7. \A q : CheckedBlock(q)' = CheckedBlock(q) /\ CheckedEntry(q)' = CheckedEntry(q)
  BY <1>0 DEF CheckedBlock, CheckedEntry
<1>8. \A q \in Persisters : /\ CheckedBlock(q) = d <=> q = p
                            /\ CheckedEntry(q) = e <=> q = p
  BY <1>1, OnePersister DEF Sound
<1>9. Emptying(d) /\ Emptying(d)' /\ \A b : b # d => (Emptying(b)' <=> Emptying(b))
  BY <1>1, <1>5, <1>7, <1>8 DEF Emptying
<1>10. \A b : /\ Queued(o, b)' = Queued(o, b) /\ (Current(b)' <=> Current(b))
              /\ Inserting(b)' = Inserting(b) /\ Counting(b)' = Counting(b)
              /\ (InCache(b)' <=> InCache(b))
  BY <1>0 DEF Current, Queued, At, Inserting, Counting, InCache, Ahead
<1>11. \A b : Pending(o, b)' = Pending(o, b)
  BY <1>10 DEF Pending
<1>12. ASSUME NEW b \in Blocks, b # d PROVE Inserted(b)' = Inserted(b)
  <2>1. Current(b) => EntryOf(b) # e
    BY <1>2, <1>12 DEF Current
  <2>2. EntryOf(b) # e => index_count'[EntryOf(b)] = index_count[EntryOf(b)]
    BY <1>6, <1>12, EntryFacts
  <2> QED
    BY <1>10, <2>1, <2>2 DEF Inserted
<1>13. Conserved(o)'
  BY <1>0, <1>9, <1>10, <1>11, <1>12 DEF Sound, Conserved
<1>14. PoolsAgree'
  BY <1>6, <1>9, <1>10, <1>12 DEF Sound, PoolsAgree
<1>15. InsertStaysValid' /\ Apart'
  BY <1>0 DEF Sound, InsertStaysValid, Apart
<1>16. made[d] = 0 /\ ~InCache(d)
  <2>1. made[d] = 0
    BY <1>1, <1>5 DEF Sound, AtWork
  <2> QED
    BY <1>1, <1>2, <1>5, <2>1, CachedIdle
<1>17. CountsAgree'
  <2> SUFFICES ASSUME NEW b \in Blocks
      PROVE IF InCache(b) THEN packet_counts[b] = made[b]
            ELSE /\ packet_counts[b] = 0
                 /\ \/ packet_count'[b] = made[b]
                    \/ \E q \in Persisters : CheckedBlock(q) = b /\ ppc'[q] = "clear"
    BY <1>0, <1>7, <1>10 DEF CountsAgree
  <2>1. IF InCache(b) THEN packet_counts[b] = made[b]
            ELSE /\ packet_counts[b] = 0
                 /\ \/ packet_count[b] = made[b]
                    \/ \E q \in Persisters : CheckedBlock(q) = b /\ ppc[q] = "clear"
    BY DEF Sound, CountsAgree
  <2>2. CASE b = d
    <3>1. CASE ppc[p] = "clear"
      <4>1. packet_count'[d] = 0
        BY <1>2, <1>3, <1>4, <3>1
      <4> QED
        BY <1>16, <2>1, <2>2, <4>1
    <3>2. CASE ppc[p] = "update"
      <4>1. packet_count' = packet_count
        BY <1>3, <3>2
      <4> QED
        BY <1>8, <1>16, <2>1, <2>2, <3>2, <4>1
    <3> QED
      BY <1>5, <3>1, <3>2
  <2>3. CASE b # d
    <3>1. \A q \in Persisters : CheckedBlock(q) = b => ppc'[q] = ppc[q]
      BY <1>5, <1>8, <2>3
    <3> QED
      BY <1>6, <2>1, <2>3, <3>1
  <2> QED
    BY <2>2, <2>3
<1>18. AtWork'
  <2>1. ppc'[p] = "move" => index_count'[e] = 0 /\ pooled'[d] = 0
    BY <1>2, <1>3, <1>4
  <2>2. \A q \in Persisters : q # p =>
          /\ CheckedBlock(q) \in Blocks /\ CheckedBlock(q) # d
          /\ CheckedEntry(q) \in Entries /\ CheckedEntry(q) # e
    BY <1>8, CheckedFacts
  <2>3. \A q \in Persisters : q # p =>
          /\ packet_count'[CheckedBlock(q)] = packet_count[CheckedBlock(q)]
          /\ pooled'[CheckedBlock(q)] = pooled[CheckedBlock(q)]
          /\ index_count'[CheckedEntry(q)] = index_count[CheckedEntry(q)]
    BY <1>6, <2>2
  <2> QED
    BY <1>0, <1>1, <1>5, <1>7, <1>16, <2>1, <2>3 DEF Sound, AtWork
<1> QED
  BY <1>13, <1>14, <1>15, <1>17, <1>18 DEF Sound

(* The next entry of a persister has its residue too.                      *)
LEMMA ApartStep ==
    ASSUME C % P = 0, NEW e \in Entries
    PROVE  ((e + P) % C) % P = e % P
<1>1. e \in Nat /\ e + P \in Nat
  BY FlowSizes DEF Entries
<1>2. PICK k \in Nat : C = k * P
  <2> DEFINE k == C \div P
             m == C % P
  <2>1. k \in Nat /\ C = k * P + m /\ m \in Nat
    BY FlowSizes, DivMod
  <2>2. m = 0
    OBVIOUS
  <2> HIDE DEF k, m
  <2>3. k * P \in Nat
    BY <2>1, FlowSizes
  <2> QED
    BY <2>1, <2>2, <2>3
<1>3. C \in Nat /\ 0 < C /\ P \in Nat /\ 0 < P
  BY FlowSizes
<1>4. \A x \in Nat : (x % C) % P = x % P
  BY <1>2, <1>3, ModMod
<1>5. (e + P) % P = e % P
  BY <1>1, <1>3, ModShift
<1> QED
  BY <1>1, <1>4, <1>5

(* A persister gives the entry to its next block and goes on.              *)
LEMMA SoundByMove ==
    ASSUME Regular, FlowTypeOK, KeepsUp, NEW o, Sound(o), NEW p \in Persisters, MoveEntry(p)
    PROVE  Sound(o)'
<1>0. /\ UNCHANGED <<made, packet_counts, packet_count, dumpPos, rings, putting>>
      /\ UNCHANGED <<gpc, held, expected, index_count, pooled>>
  BY DEF MoveEntry, readerVars, diskVars, generatorVars, storeVars
<1>1. PICK d, e : d = CheckedBlock(p) /\ e = CheckedEntry(p)
  OBVIOUS
<1>2. d \in Blocks /\ e \in Entries /\ EntryOf(d) = e /\ disk_block_id[e] = d
  BY <1>1, CheckedFacts DEF CheckedBlock
<1>3. PICK n : n = (d + C) % N
  OBVIOUS
<1>4. /\ ppc[p] = "move" /\ ppc' = [ppc EXCEPT ![p] = "test"]
      /\ disk_block_id' = [disk_block_id EXCEPT ![e] = n]
      /\ index_check_ids' = [index_check_ids EXCEPT ![p] = (e + P) % C]
  BY <1>1, <1>2, <1>3 DEF MoveEntry, Step, CheckedEntry
<1>5. /\ ppc \in [Persisters -> PersisterPlaces] /\ disk_block_id \in [Entries -> Blocks]
      /\ index_check_ids \in [Persisters -> Entries] /\ index_count \in [Entries -> Nat]
  BY DEF FlowTypeOK
<1>6. n \in Blocks /\ EntryOf(n) = e /\ (e + P) % C \in Entries
  BY <1>2, <1>3, EntryFacts, EntryMod
<1>7. Apart'
  <2>1. ((e + P) % C) % P = e % P
    BY <1>2, ApartStep DEF Regular
  <2>2. e = index_check_ids[p] /\ e % P = p
    BY <1>1 DEF CheckedEntry, Sound, Apart
  <2> QED
    BY <1>4, <1>5, <2>1, <2>2 DEF Sound, Apart
<1>8. \A q \in Persisters : CheckedBlock(q) = d \/ CheckedEntry(q) = e => q = p
  BY <1>1, OnePersister DEF Sound
<1>9. /\ ppc'[p] = "test"
      /\ \A q \in Persisters : q # p => /\ ppc'[q] = ppc[q] /\ CheckedEntry(q)' = CheckedEntry(q)
                                        /\ CheckedBlock(q)' = CheckedBlock(q)
  <2>1. \A q \in Persisters : q # p => ppc'[q] = ppc[q] /\ index_check_ids'[q] = index_check_ids[q]
    BY <1>4, <1>5
  <2>2. \A q \in Persisters : q # p => index_check_ids[q] \in Entries /\ index_check_ids[q] # e
    BY <1>5, <1>8 DEF CheckedEntry
  <2> QED
    BY <1>4, <1>5, <2>1, <2>2 DEF CheckedEntry, CheckedBlock
<1>10. /\ made[d] = 0 /\ index_count[e] = 0 /\ pooled[d] = 0
  BY <1>1, <1>4 DEF Sound, AtWork
<1>11. Emptying(d) /\ ~Emptying(d)' /\ \A b : b # d => (Emptying(b)' <=> Emptying(b))
  <2>1. Emptying(d)
    BY <1>1, <1>4 DEF Emptying
  <2>2. ~Emptying(d)'
    BY <1>8, <1>9 DEF Emptying
  <2>3. ASSUME NEW b, b # d PROVE Emptying(b)' <=> Emptying(b)
    BY <1>1, <1>9, <2>3 DEF Emptying
  <2> QED
    BY <2>1, <2>2, <2>3
<1>12. \A b : /\ Queued(o, b)' = Queued(o, b)
              /\ Inserting(b)' = Inserting(b) /\ Counting(b)' = Counting(b)
              /\ (InCache(b)' <=> InCache(b))
  BY <1>0 DEF Queued, At, Inserting, Counting, InCache, Ahead
<1>13. \A b : Pending(o, b)' = Pending(o, b)
  BY <1>12 DEF Pending
<1>14. Inserted(d)' = 0 /\ \A b \in Blocks : b # d => Inserted(b)' = Inserted(b)
  <2>1. Inserted(d)' = 0
    BY <1>0, <1>2, <1>10 DEF Inserted
  <2>2. ASSUME NEW b \in Blocks, b # d PROVE Inserted(b)' = Inserted(b)
    <3>1. CASE EntryOf(b) = e
      BY <1>0, <1>2, <1>10, <2>2, <3>1 DEF Inserted, Current
    <3>2. CASE EntryOf(b) # e
      BY <1>0, <1>4, <1>5, <2>2, <3>2, EntryFacts DEF Inserted, Current
    <3> QED
      BY <3>1, <3>2
  <2> QED
    BY <2>1, <2>2
<1>15. /\ IsFiniteSet(Queued(o, d)) /\ Pending(o, d) = 0 /\ Inserting(d) = {}
       /\ Cardinality(Counting(d)) = 0
  <2>1. IsFiniteSet(Queued(o, d)) /\ made[d] = 0 + Pending(o, d)
    BY <1>2, <1>11 DEF Sound, Conserved
  <2>2. Pending(o, d) \in Nat
    BY <2>1, PendingFacts
  <2>3. Pending(o, d) = 0
    BY <1>10, <2>1, <2>2
  <2> QED
    BY <2>1, <2>3, PendingFacts
<1>16. Conserved(o)'
  <2>1. made[d] = 0 + 0
    BY <1>10
  <2> QED
    BY <1>0, <1>11, <1>12, <1>13, <1>14, <1>15, <2>1 DEF Sound, Conserved
<1>17. PoolsAgree'
  <2>1. pooled[d] = 0 + 0
    BY <1>10
  <2> QED
    BY <1>0, <1>11, <1>12, <1>14, <1>15, <2>1 DEF Sound, PoolsAgree
<1>18. InsertStaysValid'
  <2> SUFFICES ASSUME NEW g \in Generators, gpc[g] \in {"store", "count"}
               PROVE  disk_block_id'[EntryOf(held[g])] = held[g]
    BY <1>0 DEF InsertStaysValid
  <2>1. held[g] \in Blocks /\ disk_block_id[EntryOf(held[g])] = held[g]
    BY DEF FlowTypeOK, Sound, InsertStaysValid
  <2>2. held[g] # d
    BY <1>15 DEF Inserting
  <2>3. EntryOf(held[g]) # e /\ EntryOf(held[g]) \in Entries
    BY <1>2, <2>1, <2>2, EntryFacts
  <2> QED
    BY <1>4, <1>5, <2>1, <2>3
<1>19. CountsAgree'
  <2> SUFFICES ASSUME NEW b \in Blocks
      PROVE IF InCache(b) THEN packet_counts[b] = made[b]
            ELSE /\ packet_counts[b] = 0
                 /\ \/ packet_count[b] = made[b]
                    \/ \E q \in Persisters : CheckedBlock(q)' = b /\ ppc'[q] = "clear"
    BY <1>0, <1>12 DEF CountsAgree
  <2>1. IF InCache(b) THEN packet_counts[b] = made[b]
            ELSE /\ packet_counts[b] = 0
                 /\ \/ packet_count[b] = made[b]
                    \/ \E q \in Persisters : CheckedBlock(q) = b /\ ppc[q] = "clear"
    BY DEF Sound, CountsAgree
  <2>2. \A q \in Persisters : ppc[q] = "clear" => q # p
    BY <1>4
  <2> QED
    BY <1>9, <2>1, <2>2
<1>20. AtWork'
  BY <1>0, <1>9 DEF Sound, AtWork
<1> QED
  BY <1>7, <1>16, <1>17, <1>18, <1>19, <1>20 DEF Sound

(* At the start nothing is made, counted or inserted.                      *)
LEMMA SoundInit == Init => \E o : Sound(o)
<1> SUFFICES ASSUME Init PROVE \E o : Sound(o)
  OBVIOUS
<1>1. PICK o : o = [r \in Readers |-> 0]
  OBVIOUS
<1>2. o \in [Readers -> Nat]
  BY <1>1
<1>3. /\ made = [b \in Blocks |-> 0] /\ pooled = [b \in Blocks |-> 0]
      /\ packet_count = [b \in Blocks |-> 0] /\ packet_counts = [b \in Blocks |-> 0]
      /\ gpc = [g \in Generators |-> "poll"] /\ ppc = [p \in Persisters |-> "test"]
      /\ index_count = [e \in Entries |-> 0] /\ index_check_ids = [p \in Persisters |-> p]
      /\ putting = [r \in Readers |-> None] /\ rings = [r \in Readers |-> <<>>]
  BY DEF Init
<1>4. \A r \in Readers, k \in Nat : At(o, r, k) = None
  <2> SUFFICES ASSUME NEW r \in Readers, NEW k \in Nat PROVE At(o, r, k) = None
    OBVIOUS
  <2>1. rings[r] = <<>> /\ putting[r] = None /\ 1 .. Len(rings[r]) = {}
    BY <1>3
  <2> QED
    BY <2>1 DEF At
<1>5. None \notin Blocks
  BY FlowSizes DEF None, Blocks
<1>6. \A b \in Blocks : Queued(o, b) = {}
  BY <1>4, <1>5 DEF Queued
<1>7. \A b : Inserting(b) = {} /\ Counting(b) = {}
  BY <1>3 DEF Inserting, Counting
<1>8. \A b : ~Emptying(b)
  BY <1>3 DEF Emptying
<1>9. Cardinality({}) = 0 /\ IsFiniteSet({})
  BY FS_EmptySet
<1>10. \A b \in Blocks : Inserted(b) = 0
  BY <1>3, EntryFacts DEF Inserted
<1>11. Conserved(o)
  <2>1. \A b \in Blocks : Pending(o, b) = 0
    BY <1>6, <1>7, <1>9 DEF Pending
  <2>2. \A b \in Blocks : made[b] = 0 /\ 0 + Pending(o, b) = 0
    BY <1>3, <2>1
  <2>3. \A b \in Blocks : made[b] = Inserted(b) + Pending(o, b)
    BY <1>10, <2>2
  <2> QED
    BY <1>6, <1>8, <1>9, <2>3 DEF Conserved
<1>12. PoolsAgree
  <2>1. \A b : Cardinality(Counting(b)) = 0
    BY <1>7, <1>9
  <2>2. \A b \in Blocks : pooled[b] = 0
    BY <1>3
  <2>3. \A b \in Blocks : pooled[b] = Inserted(b) + Cardinality(Counting(b))
    BY <1>10, <2>1, <2>2
  <2> QED
    BY <2>3 DEF PoolsAgree
<1>13. CountsAgree /\ AtWork /\ InsertStaysValid
  BY <1>3 DEF CountsAgree, AtWork, InsertStaysValid
<1>14. Apart
  <2> SUFFICES ASSUME NEW p \in Persisters PROVE p % P = p
    BY <1>3 DEF Apart
  <2>1. p \in Nat /\ p < P
    BY FlowSizes DEF Persisters
  <2> QED
    BY <2>1, FlowSizes, ModSmall
<1> QED
  BY <1>2, <1>11, <1>12, <1>13, <1>14 DEF Sound

(* Every step keeps the indexes, while the persisters keep up.             *)
LEMMA SoundStep ==
    ASSUME Regular, FlowTypeOK, FlowTypeOK', KeepsUp, KeepsUp', \E o : Sound(o), [Next]_vars
    PROVE  \E o : Sound(o)'
<1>1. PICK o : Sound(o)
  OBVIOUS
<1>2. CASE UNCHANGED vars \/ ThreadsStop
  BY <1>1, <1>2, SoundByOthers
<1>3. CASE DumpBlock
  BY <1>1, <1>3, SoundByDump
<1>4. ASSUME NEW r \in Readers, Reader(r) PROVE \E u : Sound(u)'
  <2>1. CASE ReadPacket(r)
    BY <1>1, <2>1, SoundByRead
  <2>2. CASE PutIndex(r) \/ ReaderReturns(r)
    BY <1>1, <2>2, SoundByOthers
  <2> QED
    BY <1>4, <2>1, <2>2 DEF Reader
<1>5. ASSUME NEW g \in Generators, Generator(g) PROVE \E u : Sound(u)'
  <2>1. CASE PollRing(g)
    BY <1>1, <2>1, SoundByPoll
  <2>2. CASE InsertChecks(g) \/ GeneratorReturns(g)
    BY <1>1, <2>2, SoundByOthers
  <2>3. CASE InsertStores(g)
    BY <1>1, <2>3, SoundByStore
  <2>4. CASE InsertCounts(g)
    BY <1>1, <2>4, SoundByCount
  <2> QED
    BY <1>5, <2>1, <2>2, <2>3, <2>4 DEF Generator
<1>6. ASSUME NEW p \in Persisters, Persister(p) PROVE \E u : Sound(u)'
  <2>1. CASE TestStop(p) \/ ReadPacketCount(p) \/ CountReached(p)
    BY <1>1, <2>1, SoundByWait
  <2>2. CASE PersistMeta(p)
    BY <1>1, <2>2, SoundByPersist
  <2>3. CASE ClearMeta(p) \/ EmptyEntry(p)
    BY <1>1, <2>3, SoundByClear
  <2>4. CASE MoveEntry(p)
    BY <1>1, <2>4, SoundByMove
  <2> QED
    BY <1>6, <2>1, <2>2, <2>3, <2>4 DEF Persister
<1> QED
  BY <1>2, <1>3, <1>4, <1>5, <1>6 DEF Next

(* The invariant without the number of indexes taken so far.               *)
Kept == \E o : Sound(o)

(* Every index that was made is on its way, in the pools or persisted.     *)
LEMMA AlwaysKept ==
    ASSUME Regular
    PROVE  Spec /\ []KeepsUp => []Kept
<1>1. Init => Kept
  BY SoundInit DEF Kept
<1>2. FlowTypeOK /\ FlowTypeOK' /\ KeepsUp /\ KeepsUp' /\ Kept /\ [Next]_vars => Kept'
  BY SoundStep DEF Kept
<1> QED
  BY <1>1, <1>2, FlowTypes, PTL DEF Spec

(* When a persister writes a block, the pools hold every index that was    *)
(* made for it, if the capture does not lap the persisters: waiting for as *)
(* many indexes as the disk manager wrote down is enough, whatever the     *)
(* order in which generators insert.                                       *)
THEOREM PersistedWhole ==
    ASSUME Regular
    PROVE  Spec /\ []KeepsUp => []PersistedComplete
<1>1. FlowTypeOK /\ KeepsUp /\ Kept => PersistedComplete
  <2> SUFFICES ASSUME FlowTypeOK, KeepsUp, Kept, NEW p \in Persisters, ppc[p] = "persist"
               PROVE  pooled[CheckedBlock(p)] = made[CheckedBlock(p)]
    BY DEF PersistedComplete
  <2>1. PICK o : Sound(o)
    BY DEF Kept
  <2> QED
    BY <2>1, ReadyFacts
<1> QED
  BY <1>1, FlowTypes, AlwaysKept, PTL

(* No persister moves an entry to another block between the unlocked test  *)
(* of disk_block_id in insert and the store and count that follow it.      *)
THEOREM InsertsValid ==
    ASSUME Regular
    PROVE  Spec /\ []KeepsUp => []InsertStaysValid
<1>1. Kept => InsertStaysValid
  BY DEF Kept, Sound
<1> QED
  BY <1>1, AlwaysKept, PTL

-----------------------------------------------------------------------------
(* The first lap of the disk                                               *)

(* The last cell of the lap; the block b is not dumped yet and no          *)
(* persister has anything to do with it.                                   *)
LapCells == (N - B) * R
Untouched(b) ==
    /\ packet_count[b] = 0
    /\ \A p \in Persisters : CheckedBlock(p) = b => ppc[p] \in {"test", "wait", "returned"}

(* Readers and the dump stay before the last B blocks of the disk, so the  *)
(* cache never holds a block that was dumped before.                       *)
FirstLap ==
    /\ diskWriteCell <= LapCells /\ \A r \in Readers : writeCell[r] < LapCells
    /\ dumpPos <= N - B
    /\ Apart
    /\ \A b \in Blocks : b >= dumpPos => Untouched(b)

(* The lap ends before the disk does.                                      *)
LEMMA LapFacts ==
    /\ LapCells \in Nat /\ LapCells < N * R /\ R <= LapCells
    /\ \A c \in Nat : c < LapCells => BlockOf(c) \in Nat /\ BlockOf(c) < N - B
<1> DEFINE m == N - B
<1>1. m \in Nat /\ 1 <= m /\ m <= N - 1 /\ R \in Nat /\ 0 < R /\ N \in Nat
  BY FlowSizes
<1>2. LapCells = m * R
  BY DEF LapCells
<1> HIDE DEF m
<1>3. m * R \in Nat /\ R <= m * R
  BY <1>1
<1>4. m * R <= (N - 1) * R /\ (N - 1) * R = N * R - R /\ N * R \in Nat
  BY <1>1
<1>5. ASSUME NEW c \in Nat, c < LapCells PROVE BlockOf(c) \in Nat /\ BlockOf(c) < N - B
  <2> DEFINE q == c \div R
             e == c % R
  <2>1. q \in Nat /\ e \in Nat /\ c = q * R + e
    BY <1>1, DivMod
  <2> HIDE DEF q, e
  <2>2. q < m
    <3>1. SUFFICES ASSUME q >= m PROVE FALSE
      BY <1>1, <2>1
    <3>2. q * R >= m * R
      BY <1>1, <2>1, <3>1
    <3>3. q * R \in Nat
      BY <1>1, <2>1
    <3> QED
      BY <1>2, <1>3, <1>5, <2>1, <3>2, <3>3
  <2> QED
    BY <2>1, <2>2 DEF BlockOf, q, m
<1> QED
  BY <1>1, <1>2, <1>3, <1>4, <1>5

(* During the first lap the cache holds blocks from dumpPos on.            *)
LEMMA CacheIsAhead ==
    ASSUME dumpPos \in Blocks, dumpPos <= N - B, NEW b \in Blocks, InCache(b)
    PROVE  b >= dumpPos
<1>1. Ahead(b) = IF b >= dumpPos THEN b - dumpPos ELSE b + N - dumpPos
  BY AheadIs
<1>2. b \in Nat /\ dumpPos \in Nat
  BY FlowSizes DEF Blocks
<1> QED
  BY <1>1, <1>2, FlowSizes DEF InCache

(* The first lap begins.                                                   *)
LEMMA LapInit == Init => FirstLap
<1> SUFFICES ASSUME Init PROVE FirstLap
  OBVIOUS
<1>1. /\ diskWriteCell = R /\ dumpPos = 0 /\ packet_count = [b \in Blocks |-> 0]
      /\ ppc = [p \in Persisters |-> "test"] /\ writeCell = [r \in Readers |-> r]
  BY DEF Init
<1>2. \A r \in Readers : r \in Nat /\ r < R
  BY FlowSizes DEF Readers
<1>3. Apart
  BY SoundInit DEF Sound
<1>4. 0 <= N - B
  BY FlowSizes
<1>5. \A r \in Readers : writeCell[r] < LapCells
  BY <1>1, <1>2, LapFacts, FlowSizes
<1>6. \A b \in Blocks : Untouched(b)
  BY <1>1 DEF Untouched
<1> QED
  BY <1>1, <1>3, <1>4, <1>5, <1>6, LapFacts DEF FirstLap

(* Readers stay in the lap.                                                *)
LEMMA LapByRead ==
    ASSUME MaxCells <= LapCells, FlowTypeOK, FirstLap, NEW r \in Readers, ReadPacket(r)
    PROVE  FirstLap'
<1>0. UNCHANGED <<dumpPos, packet_count, ppc, index_check_ids, disk_block_id>>
  BY DEF ReadPacket, diskVars, entryVars, persisterVars
<1>1. PICK shape \in Shapes :
        /\ shape # "inside" => diskWriteCell < MaxCells
        /\ writeCell' = [writeCell EXCEPT ![r] = IF shape = "inside" THEN writeCell[r]
                                                 ELSE diskWriteCell]
        /\ diskWriteCell' = IF shape = "inside" THEN diskWriteCell
                            ELSE (diskWriteCell + 1) % (N * R)
  BY DEF ReadPacket
<1>2. /\ diskWriteCell \in Nat /\ diskWriteCell < N * R /\ N * R \in Nat /\ 0 < N * R
      /\ writeCell \in [Readers -> 0 .. N * R - 1]
  BY CellsType DEF FlowTypeOK
<1>3. /\ diskWriteCell <= LapCells /\ LapCells \in Nat /\ LapCells < N * R /\ MaxCells \in Nat
      /\ \A q \in Readers : writeCell[q] < LapCells
  BY LapFacts, FlowSizes DEF FirstLap
<1>4. diskWriteCell' <= LapCells
  <2>1. CASE shape = "inside"
    BY <1>1, <1>3, <2>1
  <2>2. CASE shape # "inside"
    <3>1. PICK x : x = diskWriteCell + 1
      OBVIOUS
    <3>2. PICK m : m = N * R
      OBVIOUS
    <3>3. x \in Nat /\ x < m /\ x <= LapCells /\ m \in Nat /\ 0 < m
      BY <1>1, <1>2, <1>3, <2>2, <3>1, <3>2
    <3>4. x % m = x
      BY <3>3, ModSmall
    <3> QED
      BY <1>1, <2>2, <3>1, <3>2, <3>3, <3>4
  <2> QED
    BY <2>1, <2>2
<1>5. \A q \in Readers : writeCell'[q] < LapCells
  BY <1>1, <1>2, <1>3
<1>6. Apart' /\ \A b : Untouched(b)' <=> Untouched(b)
  BY <1>0 DEF FirstLap, Apart, Untouched, CheckedBlock, CheckedEntry
<1> QED
  BY <1>0, <1>4, <1>5, <1>6 DEF FirstLap, LapCells

(* The dump stays in the lap.                                              *)
LEMMA LapByDump ==
    ASSUME FlowTypeOK, FirstLap, DumpBlock
    PROVE  FirstLap'
<1>0. /\ UNCHANGED <<diskWriteCell, writeCell, ppc, index_check_ids, disk_block_id>>
      /\ packet_count' = [packet_count EXCEPT ![dumpPos] = packet_counts[dumpPos]]
      /\ dumpPos' = (dumpPos + 1) % N /\ Undumped
  BY DEF DumpBlock, readerVars, entryVars, persisterVars, SetPacketCount
<1>1. /\ dumpPos \in Blocks /\ dumpPos \in Nat /\ packet_count \in [Blocks -> Nat]
      /\ writeCell \in [Readers -> 0 .. N * R - 1]
  BY FlowSizes DEF FlowTypeOK, Blocks
<1>2. PICK r \in Readers : InCache(BlockOf(writeCell[r]))
  BY <1>0 DEF Undumped
<1>3. PICK c : c = writeCell[r]
  OBVIOUS
<1>4. c \in 0 .. N * R - 1 /\ c < LapCells
  BY <1>1, <1>3 DEF FirstLap
<1>5. c \in Nat
  BY <1>4, CellsType
<1>6. BlockOf(c) \in Blocks /\ BlockOf(c) \in Nat /\ BlockOf(c) < N - B
  BY <1>4, <1>5, CellFacts, LapFacts
<1>7. BlockOf(c) >= dumpPos
  BY <1>1, <1>2, <1>3, <1>6, CacheIsAhead DEF FirstLap
<1>8. dumpPos' = dumpPos + 1 /\ dumpPos + 1 <= N - B
  <2>1. PICK x : x = dumpPos + 1
    OBVIOUS
  <2>2. x \in Nat /\ x < N /\ x <= N - B
    BY <1>1, <1>6, <1>7, <2>1, FlowSizes
  <2>3. x % N = x
    BY <2>2, FlowSizes, ModSmall
  <2> QED
    BY <1>0, <2>1, <2>2, <2>3
<1>9. ASSUME NEW b \in Blocks, b >= dumpPos' PROVE Untouched(b)'
  <2>1. b # dumpPos /\ b >= dumpPos
    <3>1. b \in Nat
      BY FlowSizes DEF Blocks
    <3> QED
      BY <1>1, <1>8, <1>9, <3>1
  <2>2. Untouched(b)
    BY <2>1 DEF FirstLap
  <2>3. packet_count'[b] = packet_count[b]
    BY <1>0, <1>1, <2>1
  <2> QED
    BY <1>0, <2>2, <2>3 DEF Untouched, CheckedBlock, CheckedEntry
<1> QED
  BY <1>0, <1>8, <1>9 DEF FirstLap, LapCells, Apart

(* A persister does nothing to a block that is not dumped.                 *)
LEMMA LapByPersister ==
    ASSUME C % P = 0, FlowTypeOK, FirstLap, NEW p \in Persisters, Persister(p)
    PROVE  FirstLap'
<1>0. UNCHANGED <<diskWriteCell, writeCell, dumpPos>>
  BY DEF Persister, TestStop, ReadPacketCount, CountReached, PersistMeta, ClearMeta, EmptyEntry,
         MoveEntry, readerVars
<1>1. /\ ppc \in [Persisters -> PersisterPlaces] /\ index_check_ids \in [Persisters -> Entries]
      /\ disk_block_id \in [Entries -> Blocks] /\ packet_count \in [Blocks -> Nat]
  BY DEF FlowTypeOK
<1>2. PICK d, e : d = CheckedBlock(p) /\ e = CheckedEntry(p)
  OBVIOUS
<1>3. d \in Blocks /\ e \in Entries
  BY <1>2, CheckedFacts
<1>4. ASSUME d >= dumpPos PROVE ppc[p] \in {"test", "wait", "returned"} /\ packet_count[d] = 0
  BY <1>2, <1>3, <1>4 DEF FirstLap, Untouched
<1>5. \A q \in Persisters : q # p => ppc'[q] = ppc[q]
  BY <1>1 DEF Persister, TestStop, ReadPacketCount, CountReached, PersistMeta, ClearMeta, EmptyEntry,
         MoveEntry, Step
<1>6. \A b \in Blocks : packet_count[b] = 0 => packet_count'[b] = 0
  BY <1>1, <1>3 DEF Persister, TestStop, ReadPacketCount, CountReached, PersistMeta, ClearMeta,
         EmptyEntry, MoveEntry, diskVars, ClearPacketCount, SetPacketCount
<1>7. CASE MoveEntry(p)
  <2>0. /\ index_check_ids' = [index_check_ids EXCEPT ![p] = (@ + P) % C]
        /\ disk_block_id' = [disk_block_id EXCEPT ![e] = (@ + C) % N]
        /\ ppc'[p] = "test"
    BY <1>1, <1>2, <1>7 DEF MoveEntry, Step
  <2>1. Apart'
    <3>1. \A x \in Entries : ((x + P) % C) % P = x % P
      BY ApartStep
    <3>2. \A q \in Persisters : index_check_ids[q] % P = q
      BY DEF FirstLap, Apart
    <3> QED
      BY <1>1, <2>0, <3>1, <3>2 DEF Apart
  <2>2. ASSUME NEW q \in Persisters, q # p PROVE CheckedBlock(q)' = CheckedBlock(q)
    <3>1. index_check_ids'[q] = index_check_ids[q] /\ index_check_ids[q] \in Entries
      BY <1>1, <2>0, <2>2
    <3>2. CheckedEntry(q) # CheckedEntry(p)
      BY <2>2, OnePersister DEF FirstLap
    <3>3. index_check_ids[q] # e
      BY <1>2, <3>2 DEF CheckedEntry
    <3>4. disk_block_id'[index_check_ids[q]] = disk_block_id[index_check_ids[q]]
      BY <1>1, <2>0, <3>1, <3>3
    <3> QED
      BY <3>1, <3>4 DEF CheckedBlock, CheckedEntry
  <2>3. ASSUME NEW b \in Blocks, b >= dumpPos' PROVE Untouched(b)'
    <3>1. Untouched(b)
      BY <1>0, <2>3 DEF FirstLap
    <3>2. packet_count'[b] = 0
      BY <1>6, <3>1 DEF Untouched
    <3>3. ASSUME NEW q \in Persisters, CheckedBlock(q)' = b
          PROVE  ppc'[q] \in {"test", "wait", "returned"}
      <4>1. CASE q = p
        BY <2>0, <4>1
      <4>2. CASE q # p
        BY <1>5, <2>2, <3>1, <3>3, <4>2 DEF Untouched
      <4> QED
        BY <4>1, <4>2
    <3> QED
      BY <3>2, <3>3 DEF Untouched
  <2> QED
    BY <1>0, <2>1, <2>3 DEF FirstLap, LapCells
<1>8. CASE ~MoveEntry(p)
  <2>0. UNCHANGED <<index_check_ids, disk_block_id>>
    BY <1>8 DEF Persister, TestStop, ReadPacketCount, CountReached, PersistMeta, ClearMeta,
         EmptyEntry, entryVars, persisterVars
  <2>1. ASSUME d >= dumpPos PROVE ppc'[p] \in {"test", "wait", "returned"}
    <3>1. CASE ppc[p] = "test" \/ ppc[p] = "returned"
      BY <1>1, <1>8, <3>1 DEF Persister, TestStop, ReadPacketCount, CountReached, PersistMeta,
         ClearMeta, EmptyEntry, Step
    <3>2. CASE ppc[p] = "wait"
      <4>1. ReadPacketCount(p)
        BY <1>8, <3>2 DEF Persister, TestStop, CountReached, PersistMeta, ClearMeta, EmptyEntry
      <4> QED
        BY <1>1, <1>2, <1>4, <2>1, <4>1 DEF ReadPacketCount, Step
    <3> QED
      BY <1>4, <2>1, <3>1, <3>2
  <2>2. Apart' /\ \A q \in Persisters : CheckedBlock(q)' = CheckedBlock(q)
    BY <2>0 DEF FirstLap, Apart, CheckedBlock, CheckedEntry
  <2>3. ASSUME NEW b \in Blocks, b >= dumpPos' PROVE Untouched(b)'
    <3>1. Untouched(b) /\ b >= dumpPos
      BY <1>0, <2>3 DEF FirstLap
    <3>2. packet_count'[b] = 0
      BY <1>6, <3>1 DEF Untouched
    <3>3. ASSUME NEW q \in Persisters, CheckedBlock(q)' = b
          PROVE  ppc'[q] \in {"test", "wait", "returned"}
      <4>1. CASE q = p
        BY <1>2, <2>1, <2>2, <3>1, <3>3, <4>1
      <4>2. CASE q # p
        BY <1>5, <2>2, <3>1, <3>3, <4>2 DEF Untouched
      <4> QED
        BY <4>1, <4>2
    <3> QED
      BY <3>2, <3>3 DEF Untouched
  <2> QED
    BY <1>0, <2>2, <2>3 DEF FirstLap, LapCells
<1> QED
  BY <1>7, <1>8

(* Every step stays in the first lap.                                      *)
LEMMA LapStep ==
    ASSUME C % P = 0, MaxCells <= LapCells, FlowTypeOK, FirstLap, [Next]_vars
    PROVE  FirstLap'
<1>1. CASE UNCHANGED <<diskWriteCell, writeCell, dumpPos, packet_count, ppc, index_check_ids,
                       disk_block_id>>
  BY <1>1 DEF FirstLap, LapCells, Apart, Untouched, CheckedBlock, CheckedEntry
<1>2. CASE UNCHANGED vars
  BY <1>1, <1>2 DEF vars, readerVars, diskVars, entryVars, persisterVars
<1>3. ASSUME NEW r \in Readers, PutIndex(r) \/ ReaderReturns(r) PROVE FirstLap'
  BY <1>1, <1>3 DEF PutIndex, ReaderReturns, diskVars, entryVars, persisterVars
<1>4. ASSUME NEW r \in Readers, Reader(r) PROVE FirstLap'
  BY <1>3, <1>4, LapByRead DEF Reader
<1>5. ASSUME NEW g \in Generators, Generator(g) PROVE FirstLap'
  BY <1>1, <1>5 DEF Generator, PollRing, InsertChecks, InsertStores, InsertCounts,
                    GeneratorReturns, readerVars, diskVars, entryVars, persisterVars
<1>6. CASE ThreadsStop
  BY <1>1, <1>6 DEF ThreadsStop, readerVars, diskVars, entryVars, persisterVars
<1> QED
  BY <1>2, <1>4, <1>5, <1>6, LapByDump, LapByPersister DEF Next

(* Until the capture has come to the last B blocks of the disk, no block   *)
(* in the data cache has indexes of an earlier lap: the disk managers dump *)
(* only what a reader has reached, so the persisters never see the count   *)
(* of a block that still is in the cache.                                  *)
THEOREM FirstLapKeepsUp ==
    ASSUME C % P = 0, MaxCells <= LapCells
    PROVE  Spec => []KeepsUp
<1>1. FlowTypeOK /\ FirstLap /\ [Next]_vars => FirstLap'
  BY LapStep
<1>2. FlowTypeOK /\ FirstLap => KeepsUp
  <2> SUFFICES ASSUME FlowTypeOK, FirstLap, NEW b \in Blocks, InCache(b) PROVE Untouched(b)
    BY DEF KeepsUp, Untouched
  <2>1. dumpPos \in Blocks
    BY DEF FlowTypeOK
  <2>2. b >= dumpPos
    BY <2>1, CacheIsAhead DEF FirstLap
  <2> QED
    BY <2>2 DEF FirstLap
<1> QED
  BY <1>1, <1>2, LapInit, FlowTypes, PTL DEF Spec

(* On the first lap every block is persisted whole.                        *)
THEOREM FirstLapWhole ==
    ASSUME Regular, MaxCells <= LapCells
    PROVE  Spec => [](PersistedComplete /\ InsertStaysValid)
<1>1. Spec => []KeepsUp
  BY FirstLapKeepsUp DEF Regular
<1> QED
  BY <1>1, PersistedWhole, InsertsValid, PTL

-----------------------------------------------------------------------------
(* The filter                                                              *)

(* Entry e uses the columns e, e + K, e + 2K and so on.                    *)
OwnCol(e, col) == col % K = e

(* The column of an entry holds the keys of the indexes in the pools, and  *)
(* the column of a persisted block still holds the block's.                *)
ColumnsKept ==
    /\ \A e \in Entries : OwnCol(e, writing_col[e])
    /\ \A b \in Blocks : pooled[b] > 0 => b \in bitmap[writing_col[EntryOf(b)]]
    /\ \A b \in Blocks : reading_col[b] # None =>
         /\ OwnCol(EntryOf(b), reading_col[b])
         /\ reading_col[b] <= writing_col[EntryOf(b)]
         /\ b \in bitmap[reading_col[b]]

(* Columns and the column after one.                                       *)
LEMMA ColumnFacts ==
    ASSUME FlowTypeOK, NEW e \in Entries
    PROVE  /\ e \in Nat /\ e < C /\ writing_col[e] \in Nat /\ writing_col[e] \in Columns
           /\ NewCol(e) \in Nat /\ NewCol(e) = writing_col[e] + K
           /\ NewCol(e) % K = writing_col[e] % K /\ None \notin Columns
<1>1. e \in Nat /\ e < C
  BY FlowSizes DEF Entries
<1>2. writing_col[e] \in Columns
  BY DEF FlowTypeOK
<1>3. writing_col[e] \in Nat /\ None \notin Columns
  BY <1>2, FlowSizes DEF Columns, None
<1>4. (writing_col[e] + K) % K = writing_col[e] % K
  BY <1>3, FlowSizes, ModShift
<1> QED
  BY <1>1, <1>2, <1>3, <1>4, FlowSizes DEF NewCol

(* At the start the columns are numbered as the entries.                   *)
LEMMA ColumnsInit ==
    ASSUME C <= K, Init
    PROVE  ColumnsKept
<1>1. /\ writing_col = [e \in Entries |-> e] /\ pooled = [b \in Blocks |-> 0]
      /\ reading_col = [b \in Blocks |-> None]
  BY DEF Init
<1>2. ASSUME NEW e \in Entries PROVE e % K = e
  <2>1. e \in Nat /\ e < K
    BY FlowSizes DEF Entries
  <2> QED
    BY <2>1, FlowSizes, ModSmall
<1> QED
  BY <1>1, <1>2 DEF ColumnsKept, OwnCol

(* Only a current block has indexes in the pools.                          *)
LEMMA PooledCurrent ==
    ASSUME FlowTypeOK, Kept, NEW b \in Blocks, pooled[b] > 0
    PROVE  Current(b)
<1>1. PICK o : Sound(o)
  BY DEF Kept
<1>2. CASE Emptying(b)
  BY <1>2, CheckedFacts DEF Emptying
<1>3. CASE ~Emptying(b)
  <2>1. SUFFICES ASSUME ~Current(b) PROVE FALSE
    OBVIOUS
  <2>2. Counting(b) = {}
    BY <1>1, <2>1 DEF Counting, Sound, InsertStaysValid, Current
  <2>3. Cardinality(Counting(b)) = 0
    BY <2>2, FS_EmptySet
  <2>4. pooled[b] = 0 + Cardinality(Counting(b))
    BY <1>1, <1>3, <2>1 DEF Sound, PoolsAgree, Inserted
  <2> QED
    BY <2>3, <2>4
<1> QED
  BY <1>2, <1>3

(* A generator stores the key of an index.                                 *)
LEMMA ColumnsByStore ==
    ASSUME FlowTypeOK, ColumnsKept, NEW g \in Generators, InsertStores(g)
    PROVE  ColumnsKept'
<1>1. PICK d, col : d = held[g] /\ col = writing_col[EntryOf(held[g])]
  OBVIOUS
<1>2. /\ bitmap' = [bitmap EXCEPT ![col] = @ \cup {d}] /\ pooled' = [pooled EXCEPT ![d] = @ + 1]
      /\ UNCHANGED <<writing_col, reading_col>> /\ gpc[g] = "store"
  BY <1>1 DEF InsertStores, entryVars, diskVars
<1>3. d \in Blocks /\ EntryOf(d) \in Entries /\ col \in Columns
  BY <1>1, <1>2, EntryFacts DEF FlowTypeOK
<1>4. /\ bitmap \in [Columns -> SUBSET Blocks] /\ pooled \in [Blocks -> Nat]
      /\ \A b \in Blocks : EntryOf(b) \in Entries
      /\ writing_col \in [Entries -> Columns] /\ reading_col \in [Blocks -> Columns \cup {None}]
  BY EntryFacts DEF FlowTypeOK
<1>5. \A c \in Columns : bitmap[c] \subseteq bitmap'[c]
  BY <1>2, <1>4
<1>6. d \in bitmap'[col]
  BY <1>2, <1>3, <1>4
<1>7. ASSUME NEW b \in Blocks, pooled'[b] > 0 PROVE b \in bitmap'[writing_col[EntryOf(b)]]
  <2>1. CASE b = d
    BY <1>1, <1>6, <2>1
  <2>2. CASE b # d
    <3>1. pooled[b] > 0
      BY <1>2, <1>4, <1>7, <2>2
    <3> QED
      BY <1>4, <1>5, <3>1 DEF ColumnsKept
  <2> QED
    BY <2>1, <2>2
<1>8. \A b \in Blocks : reading_col[b] # None =>
         OwnCol(EntryOf(b), reading_col[b]) /\ reading_col[b] <= writing_col[EntryOf(b)]
         /\ b \in bitmap'[reading_col[b]]
  BY <1>4, <1>5 DEF ColumnsKept
<1>9. \A e \in Entries : OwnCol(e, writing_col[e])
  BY DEF ColumnsKept
<1> QED
  BY <1>2, <1>7, <1>8, <1>9 DEF ColumnsKept, OwnCol

(* A persister writes a block down: its keys are in the entry's column.    *)
LEMMA ColumnsByPersist ==
    ASSUME FlowTypeOK, KeepsUp, Kept, ColumnsKept, NEW p \in Persisters, PersistMeta(p)
    PROVE  ColumnsKept'
<1>1. PICK d, e : d = CheckedBlock(p) /\ e = CheckedEntry(p)
  OBVIOUS
<1>2. /\ reading_col' = SetReadingCol(d, writing_col[e]) /\ ppc[p] = "persist"
      /\ UNCHANGED <<writing_col, bitmap, pooled>>
  BY <1>1 DEF PersistMeta, entryVars, storeVars
<1>3. d \in Blocks /\ e \in Entries /\ EntryOf(d) = e
  BY <1>1, CheckedFacts
<1>4. reading_col \in [Blocks -> Columns \cup {None}] /\ writing_col[e] \in Columns
  BY <1>3 DEF FlowTypeOK
<1>5. reading_col' = [reading_col EXCEPT ![d] = writing_col[e]]
  BY <1>2, <1>4 DEF SetReadingCol
<1>6. PICK o : Sound(o)
  BY DEF Kept
<1>7. d \in bitmap[writing_col[e]]
  BY <1>1, <1>2, <1>3, <1>6, ReadyFacts DEF ColumnsKept
<1>8. writing_col[e] \in Nat /\ OwnCol(e, writing_col[e])
  BY <1>3, ColumnFacts DEF ColumnsKept
<1>9. ASSUME NEW b \in Blocks, reading_col'[b] # None
      PROVE  /\ OwnCol(EntryOf(b), reading_col'[b])
             /\ reading_col'[b] <= writing_col[EntryOf(b)]
             /\ b \in bitmap[reading_col'[b]]
  <2>1. CASE b = d
    BY <1>3, <1>4, <1>5, <1>7, <1>8, <2>1
  <2>2. CASE b # d
    BY <1>4, <1>5, <1>9, <2>2 DEF ColumnsKept
  <2> QED
    BY <2>1, <2>2
<1> QED
  BY <1>2, <1>9 DEF ColumnsKept, OwnCol

(* A persister clears the column after the entry's: nobody uses it.        *)
LEMMA ColumnsByClear ==
    ASSUME FlowTypeOK, ColumnsKept, NEW p \in Persisters, ClearMeta(p)
    PROVE  ColumnsKept'
<1>1. PICK e, col : e = CheckedEntry(p) /\ col = NewCol(CheckedEntry(p))
  OBVIOUS
<1>2. bitmap' = ClearCol(col) /\ UNCHANGED <<writing_col, reading_col, pooled>>
  BY <1>1 DEF ClearMeta, entryVars
<1>3. e \in Entries
  BY <1>1, CheckedFacts
<1>4. /\ col \in Nat /\ col = writing_col[e] + K /\ OwnCol(e, col) /\ writing_col[e] \in Nat
  BY <1>1, <1>3, ColumnFacts DEF ColumnsKept, OwnCol
<1>5. \A c \in Columns : c # col => bitmap'[c] = bitmap[c]
  BY <1>2 DEF ClearCol
<1>6. ASSUME NEW f \in Entries, NEW c \in Columns, OwnCol(f, c), c <= writing_col[f]
      PROVE  bitmap'[c] = bitmap[c]
  <2>1. SUFFICES ASSUME c = col PROVE FALSE
    BY <1>5
  <2>2. f = e
    BY <1>4, <1>6, <2>1 DEF OwnCol
  <2> QED
    BY <1>4, <1>6, <2>1, <2>2, FlowSizes
<1>7. /\ \A b \in Blocks : EntryOf(b) \in Entries
      /\ writing_col \in [Entries -> Columns] /\ reading_col \in [Blocks -> Columns \cup {None}]
      /\ \A f \in Entries : OwnCol(f, writing_col[f]) /\ writing_col[f] \in Nat
  BY EntryFacts, ColumnFacts DEF FlowTypeOK, ColumnsKept
<1>8. \A f \in Entries : bitmap'[writing_col[f]] = bitmap[writing_col[f]]
  BY <1>6, <1>7
<1>9. \A b \in Blocks : reading_col[b] # None => bitmap'[reading_col[b]] = bitmap[reading_col[b]]
  BY <1>6, <1>7 DEF ColumnsKept
<1> QED
  BY <1>2, <1>7, <1>8, <1>9 DEF ColumnsKept, OwnCol

(* A persister gives the emptied entry its next column, if there is one.   *)
LEMMA ColumnsByEmpty ==
    ASSUME FlowTypeOK, Kept, ColumnsKept, NEW p \in Persisters, EmptyEntry(p)
    PROVE  ColumnsKept'
<1>1. PICK d, e : d = CheckedBlock(p) /\ e = CheckedEntry(p)
  OBVIOUS
<1>2. /\ writing_col' = SetWritingCol(e, NewCol(e)) /\ pooled' = [pooled EXCEPT ![d] = 0]
      /\ UNCHANGED <<bitmap, reading_col>>
  BY <1>1 DEF EmptyEntry, CheckedBlock, diskVars
<1>3. d \in Blocks /\ e \in Entries /\ EntryOf(d) = e /\ Current(d)
  BY <1>1, CheckedFacts
<1>4. /\ writing_col \in [Entries -> Columns] /\ pooled \in [Blocks -> Nat]
      /\ reading_col \in [Blocks -> Columns \cup {None}] /\ \A b \in Blocks : EntryOf(b) \in Entries
  BY EntryFacts DEF FlowTypeOK
<1>5. /\ NewCol(e) \in Nat /\ NewCol(e) >= writing_col[e] /\ writing_col[e] \in Nat
      /\ OwnCol(e, NewCol(e)) /\ None \notin Columns
  BY <1>3, ColumnFacts, FlowSizes DEF ColumnsKept, OwnCol
<1>6. /\ writing_col'[e] >= writing_col[e] /\ OwnCol(e, writing_col'[e]) /\ writing_col'[e] \in Nat
      /\ \A f \in Entries : f # e => writing_col'[f] = writing_col[f]
  <2>1. \A f \in Entries : f # e => writing_col'[f] = writing_col[f]
    BY <1>2, <1>4 DEF SetWritingCol
  <2>2. writing_col'[e] = NewCol(e) \/ writing_col'[e] = writing_col[e]
    BY <1>2, <1>3, <1>4 DEF SetWritingCol
  <2>3. OwnCol(e, writing_col[e])
    BY <1>3 DEF ColumnsKept
  <2> QED
    BY <1>5, <2>1, <2>2, <2>3
<1>7. ASSUME NEW b \in Blocks, pooled'[b] > 0
      PROVE  b \in bitmap[writing_col'[EntryOf(b)]]
  <2>1. b # d /\ pooled[b] > 0
    BY <1>2, <1>3, <1>4, <1>7
  <2>2. EntryOf(b) # e
    BY <1>3, <2>1, PooledCurrent DEF Current
  <2> QED
    BY <1>4, <1>6, <2>1, <2>2 DEF ColumnsKept
<1>8. ASSUME NEW b \in Blocks, reading_col[b] # None
      PROVE  reading_col[b] <= writing_col'[EntryOf(b)]
  <2>1. reading_col[b] <= writing_col[EntryOf(b)] /\ reading_col[b] \in Nat
    BY <1>4, <1>8, FlowSizes DEF ColumnsKept, Columns
  <2>2. CASE EntryOf(b) = e
    BY <1>5, <1>6, <2>1, <2>2
  <2>3. CASE EntryOf(b) # e
    BY <1>4, <1>6, <2>1, <2>3
  <2> QED
    BY <2>2, <2>3
<1>9. \A f \in Entries : OwnCol(f, writing_col'[f])
  BY <1>6 DEF ColumnsKept
<1> QED
  BY <1>2, <1>7, <1>8, <1>9 DEF ColumnsKept, OwnCol

(* Every step keeps the columns.                                           *)
LEMMA ColumnsStep ==
    ASSUME FlowTypeOK, KeepsUp, Kept, ColumnsKept, [Next]_vars
    PROVE  ColumnsKept'
<1>1. CASE UNCHANGED <<writing_col, reading_col, bitmap, pooled>>
  BY <1>1 DEF ColumnsKept, OwnCol
<1>2. CASE UNCHANGED vars \/ ThreadsStop \/ DumpBlock
  BY <1>1, <1>2 DEF vars, ThreadsStop, DumpBlock, diskVars, entryVars, storeVars
<1>3. ASSUME NEW r \in Readers, Reader(r) PROVE ColumnsKept'
  BY <1>1, <1>3 DEF Reader, ReadPacket, PutIndex, ReaderReturns, diskVars, entryVars, storeVars
<1>4. ASSUME NEW g \in Generators, Generator(g) PROVE ColumnsKept'
  <2>1. CASE InsertStores(g)
    BY <2>1, ColumnsByStore
  <2>2. CASE ~InsertStores(g)
    BY <1>1, <1>4, <2>2 DEF Generator, PollRing, InsertChecks, InsertCounts, GeneratorReturns,
         diskVars, entryVars, storeVars
  <2> QED
    BY <2>1, <2>2
<1>5. ASSUME NEW p \in Persisters, Persister(p) PROVE ColumnsKept'
  <2>1. CASE PersistMeta(p) \/ ClearMeta(p) \/ EmptyEntry(p)
    BY <2>1, ColumnsByPersist, ColumnsByClear, ColumnsByEmpty
  <2>2. CASE TestStop(p) \/ ReadPacketCount(p) \/ CountReached(p) \/ MoveEntry(p)
    BY <1>1, <2>2 DEF TestStop, ReadPacketCount, CountReached, MoveEntry, diskVars, entryVars,
         storeVars
  <2> QED
    BY <1>5, <2>1, <2>2 DEF Persister
<1> QED
  BY <1>2, <1>3, <1>4, <1>5 DEF Next

(* No false negatives: with a spare column for every entry, a persisted    *)
(* block's column keeps its keys, whatever clearCol does for later blocks. *)
THEOREM FilterKept ==
    ASSUME Regular, C <= K
    PROVE  Spec /\ []KeepsUp => []FilterKeepsKeys
<1>1. Init => ColumnsKept
  BY ColumnsInit
<1>2. FlowTypeOK /\ KeepsUp /\ Kept /\ ColumnsKept /\ [Next]_vars => ColumnsKept'
  BY ColumnsStep
<1>3. ColumnsKept => FilterKeepsKeys
  BY DEF ColumnsKept, FilterKeepsKeys
<1> QED
  BY <1>1, <1>2, <1>3, FlowTypes, AlwaysKept, PTL DEF Spec

-----------------------------------------------------------------------------
(* The bytes of the filter                                                 *)

(* One persister gives the entries their next columns in turn: those       *)
(* before q are one round ahead.  q is the persister's entry until the     *)
(* columns run out.                                                        *)
ColAt(e, m, q) == e + K * (IF e < q THEN m + 1 ELSE m)
OutOfColumns == \A e \in Entries : NewCol(e) \notin Columns
Turn == index_check_ids[0] + (IF ppc[0] = "move" THEN 1 ELSE 0)
InRound(m, q) ==
    /\ \A e \in Entries : writing_col[e] = ColAt(e, m, q)
    /\ OutOfColumns \/ q = Turn
RoundRobin == \E m \in Nat, q \in 0 .. C : InRound(m, q)

(* ColAt without a product.                                                *)
LEMMA ColAtIs ==
    ASSUME NEW m \in Nat
    PROVE  \E x \in Nat : /\ x = K * m /\ K * (m + 1) = x + K
                          /\ \A e \in Nat, q \in Nat :
                               ColAt(e, m, q) = IF e < q THEN e + x + K ELSE e + x
<1>1. PICK x : x = K * m
  OBVIOUS
<1>2. x \in Nat /\ K * (m + 1) = x + K
  BY <1>1, FlowSizes
<1>3. \A e \in Nat, q \in Nat : ColAt(e, m, q) = IF e < q THEN e + x + K ELSE e + x
  BY <1>1, <1>2, FlowSizes DEF ColAt
<1> QED
  BY <1>1, <1>2, <1>3

(* The only persister.                                                     *)
LEMMA Single ==
    ASSUME P = 1, FlowTypeOK
    PROVE  /\ Persisters = {0} /\ index_check_ids[0] \in Nat /\ index_check_ids[0] < C
           /\ index_check_ids[0] \in Entries /\ CheckedEntry(0) = index_check_ids[0]
           /\ ppc \in [Persisters -> PersisterPlaces]
<1>1. Persisters = {0}
  BY DEF Persisters
<1>2. index_check_ids[0] \in Entries
  BY <1>1 DEF FlowTypeOK
<1> QED
  BY <1>1, <1>2, FlowSizes DEF Entries, FlowTypeOK, CheckedEntry

(* The first round.                                                        *)
LEMMA RoundInit ==
    ASSUME P = 1, Init
    PROVE  RoundRobin
<1>1. /\ writing_col = [e \in Entries |-> e] /\ index_check_ids[0] = 0 /\ ppc[0] = "test"
  <2>1. 0 \in Persisters
    BY DEF Persisters
  <2> QED
    BY <2>1 DEF Init
<1>2. ASSUME NEW e \in Entries PROVE writing_col[e] = ColAt(e, 0, 0)
  <2>1. e \in Nat
    BY FlowSizes DEF Entries
  <2>2. K * 0 = 0 /\ e + 0 = e
    BY <2>1, FlowSizes
  <2> QED
    BY <1>1, <2>1, <2>2 DEF ColAt
<1>3. Turn = 0
  BY <1>1 DEF Turn
<1>4. InRound(0, 0)
  BY <1>2, <1>3 DEF InRound
<1> QED
  BY <1>4, FlowSizes DEF RoundRobin

(* The entry gets its next column.                                         *)
LEMMA RoundByEmpty ==
    ASSUME P = 1, C <= K, FlowTypeOK, NEW m \in Nat, NEW q \in 0 .. C, InRound(m, q), EmptyEntry(0)
    PROVE  RoundRobin'
<1>1. PICK e : e = index_check_ids[0]
  OBVIOUS
<1>2. e \in Entries /\ e \in Nat /\ e < C /\ CheckedEntry(0) = e
  BY <1>1, Single
<1>3. /\ writing_col' = SetWritingCol(e, NewCol(e)) /\ UNCHANGED index_check_ids
      /\ ppc[0] = "update" /\ ppc'[0] = "move"
  <2>1. ppc \in [Persisters -> PersisterPlaces] /\ 0 \in Persisters
    BY Single
  <2> QED
    BY <1>2, <2>1 DEF EmptyEntry, Step
<1>4. PICK x \in Nat : \A f \in Nat, i \in Nat :
                         ColAt(f, m, i) = IF f < i THEN f + x + K ELSE f + x
  BY ColAtIs
<1>5. q \in Nat /\ q <= C
  BY FlowSizes
<1>6. \A f \in Entries : f \in Nat /\ f < K /\ f < C
  BY FlowSizes DEF Entries
<1>7. \A f \in Entries : /\ writing_col[f] = IF f < q THEN f + x + K ELSE f + x
                         /\ NewCol(f) = IF f < q THEN f + x + K + K ELSE f + x + K
  <2>1. \A f \in Entries : writing_col[f] = IF f < q THEN f + x + K ELSE f + x
    BY <1>4, <1>5, <1>6 DEF InRound
  <2> QED
    BY <1>6, <2>1, FlowSizes DEF NewCol
<1>8. CASE NewCol(e) \notin Columns
  <2>1. UNCHANGED writing_col
    BY <1>3, <1>8 DEF SetWritingCol, FlowTypeOK
  <2>2. OutOfColumns
    <3>1. CASE OutOfColumns
      BY <3>1
    <3>2. CASE q = Turn
      <4>1. q = e
        BY <1>1, <1>2, <1>3, <3>2 DEF Turn
      <4>2. NewCol(e) > N + K - 1 /\ NewCol(e) = e + x + K
        BY <1>2, <1>7, <1>8, <4>1, FlowSizes DEF Columns
      <4>3. \A f \in Entries : NewCol(f) >= NewCol(e) /\ NewCol(f) \in Nat
        BY <1>2, <1>6, <1>7, <4>1, <4>2, FlowSizes
      <4>4. PICK n : n = NewCol(e)
        OBVIOUS
      <4>5. \A f \in Entries : NewCol(f) > N + K - 1
        BY <1>2, <4>2, <4>3, <4>4, FlowSizes
      <4>6. \A c \in Columns : ~(c > N + K - 1)
        BY FlowSizes DEF Columns
      <4> QED
        BY <4>5, <4>6 DEF OutOfColumns
    <3> QED
      BY <3>1, <3>2 DEF InRound
  <2>3. InRound(m, q)'
    BY <2>1, <2>2 DEF InRound, OutOfColumns, NewCol
  <2> QED
    BY <2>3 DEF RoundRobin
<1>9. CASE NewCol(e) \in Columns
  <2>1. q = e
    BY <1>1, <1>2, <1>3, <1>9 DEF InRound, OutOfColumns, Turn
  <2>2. writing_col' = [writing_col EXCEPT ![e] = NewCol(e)]
    BY <1>3, <1>9 DEF SetWritingCol
  <2>3. Turn' = e + 1
    BY <1>1, <1>3 DEF Turn
  <2>4. ASSUME NEW f \in Entries PROVE writing_col'[f] = ColAt(f, m, e + 1)
    <3>1. f < e + 1 <=> (f < q \/ f = e)
      BY <1>2, <1>6, <2>1
    <3>2. writing_col'[f] = IF f = e THEN NewCol(e) ELSE writing_col[f]
      BY <2>2 DEF FlowTypeOK
    <3>3. ColAt(f, m, e + 1) = IF f < e + 1 THEN f + x + K ELSE f + x
      BY <1>2, <1>4, <1>6
    <3> QED
      BY <1>2, <1>6, <1>7, <2>1, <3>1, <3>2, <3>3
  <2>5. e + 1 \in 0 .. C
    BY <1>2, FlowSizes
  <2>6. PICK i \in 0 .. C : i = e + 1
    BY <2>5
  <2>7. InRound(m, i)'
    BY <2>3, <2>4, <2>6 DEF InRound
  <2> QED
    BY <2>7 DEF RoundRobin
<1> QED
  BY <1>8, <1>9

(* The persister goes to the next entry.                                   *)
LEMMA RoundByMove ==
    ASSUME P = 1, C <= K, FlowTypeOK, NEW m \in Nat, NEW q \in 0 .. C, InRound(m, q), MoveEntry(0)
    PROVE  RoundRobin'
<1>1. PICK e : e = index_check_ids[0]
  OBVIOUS
<1>2. e \in Entries /\ e \in Nat /\ e < C
  BY <1>1, Single
<1>3. /\ index_check_ids'[0] = (e + 1) % C /\ UNCHANGED writing_col
      /\ ppc[0] = "move" /\ ppc'[0] = "test"
  <2>1. /\ ppc \in [Persisters -> PersisterPlaces] /\ 0 \in Persisters
        /\ index_check_ids \in [Persisters -> Entries]
    BY Single DEF FlowTypeOK
  <2> QED
    BY <1>1, <2>1 DEF MoveEntry, Step
<1>4. UNCHANGED OutOfColumns
  BY <1>3 DEF OutOfColumns, NewCol
<1>5. CASE OutOfColumns
  <2>1. InRound(m, q)'
    BY <1>3, <1>4, <1>5 DEF InRound
  <2> QED
    BY <2>1 DEF RoundRobin
<1>6. CASE q = Turn
  <2>1. q = e + 1
    BY <1>1, <1>3, <1>6 DEF Turn
  <2>2. CASE q < C
    <3>1. Turn' = q
      <4>1. q % C = q
        BY <1>2, <2>1, <2>2, FlowSizes, ModSmall
      <4>2. Turn' = q + 0
        BY <1>3, <2>1, <4>1 DEF Turn
      <4> QED
        BY <1>2, <2>1, <4>2
    <3>2. InRound(m, q)'
      BY <1>3, <3>1 DEF InRound
    <3> QED
      BY <3>2 DEF RoundRobin
  <2>3. CASE q = C
    <3>1. Turn' = 0
      <4>1. q % C = 0
        BY <1>2, <2>1, <2>3, FlowSizes, ModSmall
      <4>2. Turn' = 0 + 0
        BY <1>3, <2>1, <4>1 DEF Turn
      <4> QED
        BY <4>2
    <3>2. ASSUME NEW f \in Entries PROVE ColAt(f, m, q) = ColAt(f, m + 1, 0)
      <4>1. f \in Nat /\ f < q
        BY <2>3, FlowSizes DEF Entries
      <4> QED
        BY <4>1 DEF ColAt
    <3>3. \A f \in Entries : writing_col'[f] = ColAt(f, m + 1, 0)
      BY <1>3, <3>2 DEF InRound
    <3>4. PICK k \in Nat : k = m + 1
      OBVIOUS
    <3>5. InRound(k, 0)'
      BY <3>1, <3>3, <3>4 DEF InRound
    <3>6. 0 \in 0 .. C
      BY FlowSizes
    <3> QED
      BY <3>5, <3>6 DEF RoundRobin
  <2> QED
    BY <1>2, <2>1, <2>2, <2>3, FlowSizes
<1> QED
  BY <1>5, <1>6 DEF InRound

(* Every step keeps the turns.                                             *)
LEMMA RoundStep ==
    ASSUME P = 1, C <= K, FlowTypeOK, RoundRobin, [Next]_vars
    PROVE  RoundRobin'
<1>1. PICK m \in Nat, q \in 0 .. C : InRound(m, q)
  BY DEF RoundRobin
<1>2. CASE /\ UNCHANGED <<writing_col, index_check_ids>>
           /\ ppc'[0] = "move" <=> ppc[0] = "move"
  <2>1. InRound(m, q)'
    BY <1>1, <1>2 DEF InRound, OutOfColumns, NewCol, Turn
  <2> QED
    BY <2>1 DEF RoundRobin
<1>3. CASE UNCHANGED vars \/ ThreadsStop \/ DumpBlock
  BY <1>2, <1>3 DEF vars, ThreadsStop, DumpBlock, entryVars, persisterVars
<1>4. ASSUME NEW r \in Readers, Reader(r) PROVE RoundRobin'
  BY <1>2, <1>4 DEF Reader, ReadPacket, PutIndex, ReaderReturns, entryVars, persisterVars
<1>5. ASSUME NEW g \in Generators, Generator(g) PROVE RoundRobin'
  BY <1>2, <1>5 DEF Generator, PollRing, InsertChecks, InsertStores, InsertCounts,
                    GeneratorReturns, entryVars, persisterVars
<1>6. ASSUME NEW p \in Persisters, Persister(p) PROVE RoundRobin'
  <2>1. p = 0 /\ ppc \in [Persisters -> PersisterPlaces] /\ 0 \in Persisters
    BY Single
  <2>2. CASE EmptyEntry(p)
    BY <1>1, <2>1, <2>2, RoundByEmpty
  <2>3. CASE MoveEntry(p)
    BY <1>1, <2>1, <2>3, RoundByMove
  <2>4. CASE TestStop(p) \/ ReadPacketCount(p) \/ CountReached(p) \/ PersistMeta(p) \/ ClearMeta(p)
    <3>1. UNCHANGED <<writing_col, index_check_ids>>
      BY <2>4 DEF TestStop, ReadPacketCount, CountReached, PersistMeta, ClearMeta, entryVars
    <3>2. ppc[0] # "move" /\ ppc'[0] # "move"
      BY <2>1, <2>4 DEF TestStop, ReadPacketCount, CountReached, PersistMeta, ClearMeta, Step
    <3> QED
      BY <1>2, <3>1, <3>2
  <2> QED
    BY <1>6, <2>2, <2>3, <2>4 DEF Persister
<1> QED
  BY <1>3, <1>4, <1>5, <1>6 DEF Next

(* Columns less than K apart are in different bytes.                       *)
LEMMA BytesApart ==
    ASSUME NEW x \in Nat, NEW y \in Nat, x # y, x < y + K, y < x + K
    PROVE  ByteCol(x) # ByteCol(y)
<1> DEFINE w == (N + K) \div 8
           e == (N + K) % 8
<1>1. N + K \in Nat /\ 8 \in Nat /\ 0 < 8
  BY FlowSizes
<1>2. w \in Nat /\ N + K = w * 8 + e
  BY <1>1, DivMod
<1>3. e = 0 /\ K * 8 <= N + K
  BY FlowAssumption
<1> HIDE DEF w, e
<1>4. K <= w /\ 0 < w
  BY <1>2, <1>3, FlowSizes
<1>5. ByteCol(x) = x % w /\ ByteCol(y) = y % w
  BY DEF ByteCol, w
<1>6. \A i, j \in Nat : i < j /\ j < i + K => i % w # j % w
  <2> SUFFICES ASSUME NEW i \in Nat, NEW j \in Nat, i < j, j < i + K, i % w = j % w
               PROVE  FALSE
    OBVIOUS
  <2>1. i + w <= j
    BY <1>2, <1>4, ModApart
  <2> QED
    BY <1>2, <1>4, <2>1, FlowSizes
<1>7. x < y \/ y < x
  OBVIOUS
<1>8. x % w # y % w
  BY <1>6, <1>7
<1> QED
  BY <1>5, <1>8

(* In a round the columns of two entries are less than K apart, and so are *)
(* the next column of the persister's entry and those of the others.       *)
LEMMA RoundApart ==
    ASSUME P = 1, C <= K, FlowTypeOK, RoundRobin, NEW e \in Entries, NEW f \in Entries, e # f
    PROVE  /\ ByteCol(writing_col[e]) # ByteCol(writing_col[f])
           /\ ppc[0] = "clear" /\ e = CheckedEntry(0) /\ NewCol(e) \in Columns =>
                ByteCol(NewCol(e)) # ByteCol(writing_col[f])
<1>1. PICK m \in Nat, q \in 0 .. C : InRound(m, q)
  BY DEF RoundRobin
<1>2. PICK x \in Nat : \A d \in Nat, i \in Nat :
                         ColAt(d, m, i) = IF d < i THEN d + x + K ELSE d + x
  BY ColAtIs
<1>3. /\ q \in Nat /\ e \in Nat /\ e < K /\ f \in Nat /\ f < K
  BY FlowSizes DEF Entries
<1>4. /\ writing_col[e] = IF e < q THEN e + x + K ELSE e + x
      /\ writing_col[f] = IF f < q THEN f + x + K ELSE f + x
  BY <1>1, <1>2, <1>3 DEF InRound
<1>5. PICK y, z : y = writing_col[e] /\ z = writing_col[f]
  OBVIOUS
<1>6. y \in Nat /\ z \in Nat /\ y # z /\ y < z + K /\ z < y + K
  BY <1>3, <1>4, <1>5, FlowSizes
<1>7. ASSUME ppc[0] = "clear", e = CheckedEntry(0), NewCol(e) \in Columns
      PROVE  ByteCol(NewCol(e)) # ByteCol(z)
  <2>1. Turn = e
    <3>1. Turn = e + 0
      BY <1>7, Single DEF Turn
    <3> QED
      BY <1>3, <3>1
  <2>2. q = e
    BY <1>1, <1>7, <2>1 DEF InRound, OutOfColumns
  <2>3. PICK u : u = NewCol(e)
    OBVIOUS
  <2>4. u = e + x + K
    BY <1>3, <1>4, <2>2, <2>3, FlowSizes DEF NewCol
  <2>5. u \in Nat /\ u # z /\ u < z + K /\ z < u + K
    BY <1>3, <1>4, <1>5, <2>2, <2>4, FlowSizes
  <2> QED
    BY <1>6, <2>3, <2>5, BytesApart
<1>8. ByteCol(y) # ByteCol(z)
  BY <1>6, BytesApart
<1> QED
  BY <1>5, <1>7, <1>8

(* With one persister, set and clearCol never change the same byte of the  *)
(* filter for different columns at the same time: entries get their next   *)
(* columns in turn, and a row of the filter has at least K bytes between   *)
(* the columns of a byte.                                                  *)
THEOREM FilterApart ==
    ASSUME Regular, P = 1, C <= K
    PROVE  Spec /\ []KeepsUp => []FilterBytesApart
<1>1. Init => RoundRobin
  BY RoundInit
<1>2. FlowTypeOK /\ RoundRobin /\ [Next]_vars => RoundRobin'
  BY RoundStep
<1>3. FlowTypeOK /\ Kept /\ RoundRobin => FilterBytesApart
  <2> SUFFICES ASSUME FlowTypeOK, Kept, RoundRobin, NEW g \in Generators, gpc[g] = "store"
               PROVE  LET col == writing_col[EntryOf(held[g])] IN
                      /\ \A h \in Generators : gpc[h] = "store" =>
                           LET other == writing_col[EntryOf(held[h])]
                           IN  other = col \/ ByteCol(other) # ByteCol(col)
                      /\ \A p \in Persisters :
                           ppc[p] = "clear" /\ NewCol(CheckedEntry(p)) \in Columns =>
                             ByteCol(NewCol(CheckedEntry(p))) # ByteCol(col)
    BY DEF FilterBytesApart
  <2>1. PICK o : Sound(o)
    BY DEF Kept
  <2>2. \A h \in Generators : gpc[h] = "store" =>
          held[h] \in Blocks /\ EntryOf(held[h]) \in Entries
    BY <2>1, InsertingFacts
  <2>3. ASSUME NEW h \in Generators, gpc[h] = "store",
               writing_col[EntryOf(held[h])] # writing_col[EntryOf(held[g])]
        PROVE  ByteCol(writing_col[EntryOf(held[h])]) # ByteCol(writing_col[EntryOf(held[g])])
    BY <2>2, <2>3, RoundApart
  <2>4. ASSUME NEW p \in Persisters, ppc[p] = "clear", NewCol(CheckedEntry(p)) \in Columns
        PROVE  ByteCol(NewCol(CheckedEntry(p))) # ByteCol(writing_col[EntryOf(held[g])])
    <3>1. p = 0
      BY Single
    <3>2. CheckedEntry(p) \in Entries
      BY CheckedFacts
    <3>3. CheckedEntry(p) # EntryOf(held[g])
      <4>1. CheckedBlock(p) # held[g]
        BY <2>1, <2>4, InsertingFacts
      <4>2. disk_block_id[EntryOf(held[g])] = held[g]
        BY <2>1 DEF Sound, InsertStaysValid
      <4> QED
        BY <4>1, <4>2 DEF CheckedBlock
    <3> QED
      BY <2>2, <2>4, <3>1, <3>2, <3>3, RoundApart
  <2> QED
    BY <2>3, <2>4
<1> QED
  BY <1>1, <1>2, <1>3, FlowTypes, AlwaysKept, PTL DEF Spec

(* On the first lap the filter is sound, too.                              *)
THEOREM FirstLapFilter ==
    ASSUME Regular, MaxCells <= LapCells, P = 1, C <= K
    PROVE  Spec => [](FilterKeepsKeys /\ FilterBytesApart)
<1>1. Spec => []KeepsUp
  BY FirstLapKeepsUp DEF Regular
<1> QED
  BY <1>1, FilterKept, FilterApart, PTL
=============================================================================
