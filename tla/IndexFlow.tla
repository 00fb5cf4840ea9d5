------------------------------ MODULE IndexFlow ------------------------------
(***************************************************************************)
(* The way of an index: a capture thread makes it for a packet of a new    *)
(* flow, counts it for a data block and puts it on its ring; an index      *)
(* generator inserts it into the index buffer (bloom filter column, memory *)
(* pool, counter); a disk manager that dumps the data block writes down    *)
(* how many indexes were counted; an index persister waits until as many   *)
(* were inserted, writes them to the index disk and gives the entry of the *)
(* index buffer to a later block.                                          *)
(*                                                                         *)
(* A ring is a bounded queue (PointerRingBuffer implements IndexQueue) and *)
(* a data block is dumped, in order, when every reader has left it         *)
(* (DataPath); an index is told from others only by its data block.        *)
(***************************************************************************)
EXTENDS Integers, Sequences

CONSTANTS
    N,          \* blocks of the data disk
    B,          \* slots of the data block cache
    C,          \* entries of the index buffer (index_buffer_cache_num)
    K,          \* bitmap_backup_col_num
    D,          \* delay_threshold
    R, G, P,    \* capture threads, index generators, index persisters
    Shapes,     \* how a packet can lie in its cell
    Quiet,      \* whether a cell may be filled without any new flow
    RingSize,   \* entries an index ring holds
    MaxInside,  \* bound: a packet inside a cell makes an index only while
                \*   its block has fewer
    MaxCells    \* bound: cells given out; N * R for no bound

(* IndexBuffer and BitMap refuse other sizes.  B <= C is not checked by    *)
(* the code: see StopReachesQuery.                                         *)
ASSUME FlowAssumption ==
    /\ {N, B, C, K, R, G, P, RingSize} \subseteq Nat \ {0} /\ D \in Nat
    /\ N % C = 0 /\ P <= C /\ (N + K) % 8 = 0 /\ K * 8 <= N + K
    /\ B * 2 < N
    /\ Shapes \subseteq {"inside", "split", "exact"}
    /\ Quiet \in BOOLEAN /\ MaxInside \in Nat /\ MaxCells \in Nat

Blocks     == 0 .. N - 1
Entries    == 0 .. C - 1
Columns    == 0 .. N + K - 1
Readers    == 0 .. R - 1
Generators == 0 .. G - 1
Persisters == 0 .. P - 1
None       == -1

VARIABLES
    diskWriteCell,  \* the next cell to give out
    writeCell,      \* reader -> the cell it fills
    putting,        \* reader -> block of the index it puts on its ring, or None
    reading,        \* reader -> run() has not returned
    rings,          \* reader -> its index ring
    dumpPos,        \* the data block dumped next
    packet_counts,  \* block in the data cache -> indexes counted for it
    packet_count,   \* DiskMeta: what the disk manager wrote down, 0 once persisted
    reading_col,    \* DiskMeta: the filter column of the block, or None
    gpc, held,      \* generator -> where it is, block of the index it inserts
    turn,           \* generator -> the ring it looks at next
    disk_block_id,  \* IndexBufferMeta: the block the entry is for
    index_count,    \* IndexBufferMeta: indexes inserted
    writing_col,    \* IndexBufferMeta: the filter column of the entry
    bitmap,         \* column -> the blocks whose keys it holds
    pooled,         \* block -> its indexes in the memory pools
    ppc, expected,  \* persister -> where it is, count it waits for
    index_check_ids,\* persister -> its entry
    phase,          \* how far Controller::threadsStop is
    made            \* history: block -> indexes made and not persisted

readerVars    == <<diskWriteCell, writeCell, putting, reading>>
diskVars      == <<packet_count, reading_col>>
generatorVars == <<gpc, held, turn>>
entryVars     == <<disk_block_id, index_count, writing_col>>
storeVars     == <<bitmap, pooled>>
persisterVars == <<ppc, expected, index_check_ids>>
vars == <<readerVars, rings, dumpPos, packet_counts, diskVars, generatorVars,
          entryVars, storeVars, persisterVars, phase, made>>

BlockOf(c) == c \div R
EntryOf(b) == b % C
CheckedEntry(p) == index_check_ids[p]
CheckedBlock(p) == disk_block_id[CheckedEntry(p)]

Init ==
    /\ diskWriteCell = R
    /\ writeCell = [r \in Readers |-> r]
    /\ putting = [r \in Readers |-> None]
    /\ reading = [r \in Readers |-> TRUE]
    /\ rings = [r \in Readers |-> <<>>]
    /\ dumpPos = 0
    /\ packet_counts = [b \in Blocks |-> 0]
    /\ packet_count = [b \in Blocks |-> 0]
    /\ reading_col = [b \in Blocks |-> None]
    /\ gpc = [g \in Generators |-> "poll"]
    /\ held = [g \in Generators |-> None]
    /\ turn = [g \in Generators |-> g]
    /\ disk_block_id = [e \in Entries |-> e]
    /\ index_count = [e \in Entries |-> 0]
    /\ writing_col = [e \in Entries |-> e]
    /\ bitmap = [c \in Columns |-> {}]
    /\ pooled = [b \in Blocks |-> 0]
    /\ ppc = [p \in Persisters |-> "test"]
    /\ expected = [p \in Persisters |-> 0]
    /\ index_check_ids = [p \in Persisters |-> p]
    /\ phase = "run"
    /\ made = [b \in Blocks |-> 0]

-----------------------------------------------------------------------------
(* Capture threads and disk managers                                       *)

(* How many blocks after the one dumped next; the cache holds B of them.   *)
Ahead(b) == (b + N - dumpPos) % N
InCache(b) == Ahead(b) < B

(* A packet that lies inside its cell, is split by the end of the cell, or *)
(* has exactly the pointer to the next cell before it.  The index names    *)
(* the block of the packet's offset; it is counted for the block in which  *)
(* the header is written, in the last case the next cell's.  A packet of a *)
(* known flow makes no index.                                              *)
ReadPacket(r) ==
    /\ reading[r] /\ putting[r] = None
    /\ \E shape \in Shapes, new_index \in BOOLEAN :
         LET old     == BlockOf(writeCell[r])
             cell    == IF shape = "inside" THEN writeCell[r] ELSE diskWriteCell
             counted == IF shape = "exact" THEN BlockOf(cell) ELSE old
         IN  /\ InCache(old) /\ InCache(BlockOf(cell))
             /\ shape = "inside" => new_index /\ packet_counts[old] < MaxInside
             /\ shape # "inside" => (new_index \/ Quiet) /\ diskWriteCell < MaxCells
             /\ writeCell' = [writeCell EXCEPT ![r] = cell]
             /\ diskWriteCell' = IF shape = "inside" THEN diskWriteCell
                                 ELSE (diskWriteCell + 1) % (N * R)
             /\ IF new_index
                THEN /\ packet_counts' = [packet_counts EXCEPT ![counted] = @ + 1]
                     /\ putting' = [putting EXCEPT ![r] = old]
                     /\ made' = [made EXCEPT ![old] = @ + 1]
                ELSE UNCHANGED <<packet_counts, putting, made>>
    /\ UNCHANGED <<reading, rings, dumpPos, diskVars, generatorVars, entryVars,
                   storeVars, persisterVars, phase>>

(* writeIndexToRing: put waits while the ring is full.                     *)
PutIndex(r) ==
    /\ putting[r] # None /\ Len(rings[r]) < RingSize
    /\ rings' = [rings EXCEPT ![r] = Append(@, putting[r])]
    /\ putting' = [putting EXCEPT ![r] = None]
    /\ UNCHANGED <<diskWriteCell, writeCell, reading, dumpPos, packet_counts,
                   diskVars, generatorVars, entryVars, storeVars, persisterVars,
                   phase, made>>

ReaderReturns(r) ==
    /\ phase = "readers" /\ reading[r] /\ putting[r] = None
    /\ reading' = [reading EXCEPT ![r] = FALSE]
    /\ UNCHANGED <<diskWriteCell, writeCell, putting, rings, dumpPos,
                   packet_counts, diskVars, generatorVars, entryVars, storeVars,
                   persisterVars, phase, made>>

(* checkBlock: every reader is more than delay_threshold blocks beyond.    *)
AllLeft == \A r \in Readers : Ahead(BlockOf(writeCell[r])) > D

(* While stopping, every block a reader has reached is dumped.             *)
Undumped == \E r \in Readers : InCache(BlockOf(writeCell[r]))

(* The setters of DiskBuffer, of the filter's columns and of the bitmap    *)
(* ignore a number out of range.                                           *)
SetPacketCount(b, n) == [packet_count EXCEPT ![b] = n]

ClearPacketCount(b) == SetPacketCount(b, 0)

SetReadingCol(b, col) == [reading_col EXCEPT ![b] = IF col \in Columns THEN col ELSE @]

SetWritingCol(e, col) == [writing_col EXCEPT ![e] = IF col \in Columns THEN col ELSE @]

ClearCol(col) == [c \in Columns |-> IF c = col THEN {} ELSE bitmap[c]]

(* runData: getBlock takes the counts and sets them to 0, setPacketCount.  *)
DumpBlock ==
    /\ \/ phase \in {"run", "readers", "generators", "managers"} /\ AllLeft
       \/ phase = "managers"
    /\ Undumped
    /\ packet_count' = SetPacketCount(dumpPos, packet_counts[dumpPos])
    /\ packet_counts' = [packet_counts EXCEPT ![dumpPos] = 0]
    /\ dumpPos' = (dumpPos + 1) % N
    /\ UNCHANGED <<readerVars, rings, reading_col, generatorVars, entryVars,
                   storeVars, persisterVars, phase, made>>

-----------------------------------------------------------------------------
(* Index generators: generator g serves the rings r with r % G = g         *)

NextRing(g, r) == IF r + G < R THEN r + G ELSE g

(* run() looks at its rings in turn and takes one index from a ring that   *)
(* is not empty.                                                           *)
PollRing(g) ==
    /\ gpc[g] = "poll" /\ turn[g] < R
    /\ turn' = [turn EXCEPT ![g] = NextRing(g, @)]
    /\ IF rings[turn[g]] = <<>>
       THEN UNCHANGED <<rings, gpc, held>>
       ELSE /\ held' = [held EXCEPT ![g] = Head(rings[turn[g]])]
            /\ rings' = [rings EXCEPT ![turn[g]] = Tail(@)]
            /\ gpc' = [gpc EXCEPT ![g] = "check"]
    /\ UNCHANGED <<readerVars, dumpPos, packet_counts, diskVars, entryVars,
                   storeVars, persisterVars, phase, made>>

(* IndexBuffer::insert in three steps; putIndexToCache repeats the first   *)
(* one until the entry is for the block.                                   *)
InsertChecks(g) ==
    /\ gpc[g] = "check" /\ disk_block_id[EntryOf(held[g])] = held[g]
    /\ gpc' = [gpc EXCEPT ![g] = "store"]
    /\ UNCHANGED <<readerVars, rings, dumpPos, packet_counts, diskVars, held, turn,
                   entryVars, storeVars, persisterVars, phase, made>>

InsertStores(g) ==
    /\ gpc[g] = "store"
    /\ bitmap' = [bitmap EXCEPT ![writing_col[EntryOf(held[g])]] = @ \cup {held[g]}]
    /\ pooled' = [pooled EXCEPT ![held[g]] = @ + 1]
    /\ gpc' = [gpc EXCEPT ![g] = "count"]
    /\ UNCHANGED <<readerVars, rings, dumpPos, packet_counts, diskVars, held, turn,
                   entryVars, persisterVars, phase, made>>

InsertCounts(g) ==
    /\ gpc[g] = "count"
    /\ index_count' = [index_count EXCEPT ![EntryOf(held[g])] = @ + 1]
    /\ gpc' = [gpc EXCEPT ![g] = "poll"]
    /\ held' = [held EXCEPT ![g] = None]
    /\ UNCHANGED <<readerVars, rings, turn, dumpPos, packet_counts, diskVars,
                   disk_block_id, writing_col, storeVars, persisterVars, phase, made>>

(* Mutant of GeneratorReturns: a generator told to stop leaves its rings.  *)
GeneratorReturnsAtOnce(g) ==
    /\ phase = "generators" /\ gpc[g] = "poll"
    /\ \A h \in 0 .. g - 1 : gpc[h] = "returned"
    /\ gpc' = [gpc EXCEPT ![g] = "returned"]
    /\ UNCHANGED <<readerVars, rings, dumpPos, packet_counts, diskVars, held, turn,
                   entryVars, storeVars, persisterVars, phase, made>>

(* Told to stop, a generator empties its rings and returns; generators are *)
(* told and joined one after the other.                                    *)
GeneratorReturns(g) ==
    /\ phase = "generators" /\ gpc[g] = "poll"
    /\ \A h \in 0 .. g - 1 : gpc[h] = "returned"
    /\ \A r \in Readers : r % G = g => rings[r] = <<>>
    /\ gpc' = [gpc EXCEPT ![g] = "returned"]
    /\ UNCHANGED <<readerVars, rings, dumpPos, packet_counts, diskVars, held, turn,
                   entryVars, storeVars, persisterVars, phase, made>>

-----------------------------------------------------------------------------
(* Index persisters                                                        *)

Step(p, pc) == ppc' = [ppc EXCEPT ![p] = pc]

(* Mutant of TestStop: the first loop does not look at stop either.        *)
TestStopIgnored(p) ==
    /\ ppc[p] = "test"
    /\ Step(p, "wait")
    /\ UNCHANGED <<readerVars, rings, dumpPos, packet_counts, diskVars,
                   generatorVars, entryVars, storeVars, expected, index_check_ids,
                   phase, made>>

(* checkAndGetMeta looks at stop, then at packet_count, and goes round.    *)
TestStop(p) ==
    /\ ppc[p] = "test"
    /\ Step(p, IF phase = "persisters" /\ \A q \in 0 .. p - 1 : ppc[q] = "returned"
               THEN "returned" ELSE "wait")
    /\ UNCHANGED <<readerVars, rings, dumpPos, packet_counts, diskVars,
                   generatorVars, entryVars, storeVars, expected, index_check_ids,
                   phase, made>>

(* Mutant of ReadPacketCount: a block that is not dumped yet has count 0.  *)
ReadPacketCountOnce(p) ==
    /\ ppc[p] = "wait"
    /\ Step(p, "count")
    /\ expected' = [expected EXCEPT ![p] = packet_count[CheckedBlock(p)]]
    /\ UNCHANGED <<readerVars, rings, dumpPos, packet_counts, diskVars,
                   generatorVars, entryVars, storeVars, index_check_ids, phase, made>>

(* The first loop goes on while the block has no count.                    *)
ReadPacketCount(p) ==
    /\ ppc[p] = "wait"
    /\ LET count == packet_count[CheckedBlock(p)] IN
         /\ Step(p, IF count = 0 THEN "test" ELSE "count")
         /\ expected' = [expected EXCEPT ![p] = count]
    /\ UNCHANGED <<readerVars, rings, dumpPos, packet_counts, diskVars,
                   generatorVars, entryVars, storeVars, index_check_ids, phase, made>>

(* Mutant of CountReached: one index too few is enough.                    *)
CountReachedEarly(p) ==
    /\ ppc[p] = "count" /\ index_count[CheckedEntry(p)] + 1 >= expected[p]
    /\ Step(p, "persist")
    /\ UNCHANGED <<readerVars, rings, dumpPos, packet_counts, diskVars,
                   generatorVars, entryVars, storeVars, expected, index_check_ids,
                   phase, made>>

(* The second loop of checkAndGetMeta does not look at stop.               *)
CountReached(p) ==
    /\ ppc[p] = "count" /\ index_count[CheckedEntry(p)] >= expected[p]
    /\ Step(p, "persist")
    /\ UNCHANGED <<readerVars, rings, dumpPos, packet_counts, diskVars,
                   generatorVars, entryVars, storeVars, expected, index_check_ids,
                   phase, made>>

(* What the pools hold for the block goes to the index disk.               *)
PersistMeta(p) ==
    /\ ppc[p] = "persist"
    /\ LET b == CheckedBlock(p) IN
         /\ reading_col' = SetReadingCol(b, writing_col[CheckedEntry(p)])
         /\ made' = [made EXCEPT ![b] = @ - pooled[b]]
    /\ Step(p, "clear")
    /\ UNCHANGED <<readerVars, rings, dumpPos, packet_counts, packet_count,
                   generatorVars, entryVars, storeVars, expected, index_check_ids,
                   phase>>

(* Mutant of ByteCol: eight neighbouring columns share a byte.             *)
ByteColUsual(col) == col \div 8

(* Which byte of a row of the bitmap a column is in (getByteIndex).        *)
ByteCol(col) == col % ((N + K) \div 8)

(* Mutant of NewCol: the next column, instead of the one K columns on.     *)
NextCol(e) == writing_col[e] + 1

(* The column the entry's next block gets.                                 *)
NewCol(e) == writing_col[e] + K

(* clearMeta: the new column is cleared, the entry still has the old one.  *)
ClearMeta(p) ==
    /\ ppc[p] = "clear"
    /\ packet_count' = ClearPacketCount(CheckedBlock(p))
    /\ bitmap' = ClearCol(NewCol(CheckedEntry(p)))
    /\ Step(p, "update")
    /\ UNCHANGED <<readerVars, rings, dumpPos, packet_counts, reading_col,
                   generatorVars, entryVars, pooled, expected, index_check_ids,
                   phase, made>>

(* Mutant of EmptyEntry: index_count is not reset.                         *)
EmptyEntryKeepsCount(p) ==
    /\ ppc[p] = "update"
    /\ LET e == CheckedEntry(p) IN
         /\ writing_col' = SetWritingCol(e, NewCol(e))
         /\ pooled' = [pooled EXCEPT ![disk_block_id[e]] = 0]
    /\ Step(p, "move")
    /\ UNCHANGED <<readerVars, rings, dumpPos, packet_counts, diskVars,
                   generatorVars, disk_block_id, index_count, bitmap, expected,
                   index_check_ids, phase, made>>

(* updateIndexBufferMeta: setWritingCol ignores a column out of range too. *)
EmptyEntry(p) ==
    /\ ppc[p] = "update"
    /\ LET e == CheckedEntry(p) IN
         /\ writing_col' = SetWritingCol(e, NewCol(e))
         /\ pooled' = [pooled EXCEPT ![disk_block_id[e]] = 0]
         /\ index_count' = [index_count EXCEPT ![e] = 0]
    /\ Step(p, "move")
    /\ UNCHANGED <<readerVars, rings, dumpPos, packet_counts, diskVars,
                   generatorVars, disk_block_id, bitmap, expected, index_check_ids,
                   phase, made>>

(* Mutant of MoveEntry: the entry goes to the next block, not to the next  *)
(* block of its residue.                                                   *)
MoveEntryByOne(p) ==
    /\ ppc[p] = "move"
    /\ disk_block_id' = [disk_block_id EXCEPT ![CheckedEntry(p)] = (@ + 1) % N]
    /\ index_check_ids' = [index_check_ids EXCEPT ![p] = (@ + P) % C]
    /\ Step(p, "test")
    /\ UNCHANGED <<readerVars, rings, dumpPos, packet_counts, diskVars,
                   generatorVars, index_count, writing_col, storeVars, expected,
                   phase, made>>

(* The entry is given to its next block and the persister goes to its next *)
(* entry.                                                                  *)
MoveEntry(p) ==
    /\ ppc[p] = "move"
    /\ disk_block_id' = [disk_block_id EXCEPT ![CheckedEntry(p)] = (@ + C) % N]
    /\ index_check_ids' = [index_check_ids EXCEPT ![p] = (@ + P) % C]
    /\ Step(p, "test")
    /\ UNCHANGED <<readerVars, rings, dumpPos, packet_counts, diskVars,
                   generatorVars, index_count, writing_col, storeVars, expected,
                   phase, made>>

-----------------------------------------------------------------------------
(* threadsStop: capture threads, generators, disk managers and persisters  *)
(* are told to stop and joined in this order; then queries are answered.   *)
Joined == CASE phase = "run"        -> TRUE
            [] phase = "readers"    -> \A r \in Readers : ~reading[r]
            [] phase = "generators" -> \A g \in Generators : gpc[g] = "returned"
            [] phase = "managers"   -> ~Undumped
            [] phase = "persisters" -> \A p \in Persisters : ppc[p] = "returned"
            [] OTHER                -> FALSE

ThreadsStop ==
    /\ Joined
    /\ phase' = CASE phase = "run"        -> "readers"
                  [] phase = "readers"    -> "generators"
                  [] phase = "generators" -> "managers"
                  [] phase = "managers"   -> "persisters"
                  [] phase = "persisters" -> "query"
    /\ UNCHANGED <<readerVars, rings, dumpPos, packet_counts, diskVars,
                   generatorVars, entryVars, storeVars, persisterVars, made>>

Reader(r) == ReadPacket(r) \/ PutIndex(r) \/ ReaderReturns(r)
Generator(g) == \/ PollRing(g)
                \/ InsertChecks(g) \/ InsertStores(g) \/ InsertCounts(g)
                \/ GeneratorReturns(g)
Persister(p) == \/ TestStop(p) \/ ReadPacketCount(p) \/ CountReached(p)
                \/ PersistMeta(p) \/ ClearMeta(p) \/ EmptyEntry(p) \/ MoveEntry(p)

Next == \/ \E r \in Readers : Reader(r)
        \/ \E g \in Generators : Generator(g)
        \/ \E p \in Persisters : Persister(p)
        \/ DumpBlock
        \/ ThreadsStop

Spec == Init /\ [][Next]_vars

(* Threads keep running; a reader ends every burst and then looks at stop. *)
(* Packets need not come.                                                  *)
Fairness ==
    /\ \A r \in Readers : WF_vars(PutIndex(r)) /\ SF_vars(ReaderReturns(r))
    /\ \A g \in Generators :
         /\ WF_vars(PollRing(g) \/ InsertChecks(g) \/ InsertStores(g) \/ InsertCounts(g))
         /\ WF_vars(GeneratorReturns(g))
    /\ \A p \in Persisters : WF_vars(Persister(p))
    /\ WF_vars(DumpBlock)
    /\ WF_vars(phase # "run" /\ ThreadsStop)

FairSpec == Spec /\ Fairness

-----------------------------------------------------------------------------
(* Properties                                                              *)

PersisterPlaces == {"test", "wait", "count", "persist", "clear", "update", "move", "returned"}

(* Types, with the facts that every index buffer entry stays with the      *)
(* blocks of its residue (updateIndexBufferMeta adds C modulo N) and that  *)
(* every column number can be used with the bitmap.                        *)
FlowTypeOK ==
    /\ diskWriteCell \in 0 .. N * R - 1
    /\ writeCell \in [Readers -> 0 .. N * R - 1]
    /\ putting \in [Readers -> Blocks \cup {None}]
    /\ reading \in [Readers -> BOOLEAN]
    /\ rings \in [Readers -> Seq(Blocks)]
    /\ dumpPos \in Blocks
    /\ packet_counts \in [Blocks -> Nat] /\ packet_count \in [Blocks -> Nat]
    /\ reading_col \in [Blocks -> Columns \cup {None}]
    /\ gpc \in [Generators -> {"poll", "check", "store", "count", "returned"}]
    /\ held \in [Generators -> Blocks \cup {None}]
    /\ \A g \in Generators : gpc[g] \in {"check", "store", "count"} => held[g] \in Blocks
    /\ turn \in [Generators -> Nat]
    /\ disk_block_id \in [Entries -> Blocks]
    /\ \A e \in Entries : EntryOf(disk_block_id[e]) = e
    /\ index_count \in [Entries -> Nat]
    /\ writing_col \in [Entries -> Columns]
    /\ bitmap \in [Columns -> SUBSET Blocks]
    /\ pooled \in [Blocks -> Nat]
    /\ ppc \in [Persisters -> PersisterPlaces]
    /\ expected \in [Persisters -> Nat]
    /\ index_check_ids \in [Persisters -> Entries]
    /\ phase \in {"run", "readers", "generators", "managers", "persisters", "query"}
    /\ made \in [Blocks -> Int]

(* When a persister writes a block, the pools hold every index that was    *)
(* made for it: the count a disk manager wrote down and the count the      *)
(* generators keep agree on what complete means.                           *)
PersistedComplete ==
    \A p \in Persisters :
        ppc[p] = "persist" => pooled[CheckedBlock(p)] = made[CheckedBlock(p)]

(* insert tests disk_block_id without a lock and then stores and counts:   *)
(* no persister moves the entry to another block meanwhile.                *)
InsertStaysValid ==
    \A g \in Generators :
        gpc[g] \in {"store", "count"} => disk_block_id[EntryOf(held[g])] = held[g]

(* No false negatives: once a block's indexes are persisted, the filter    *)
(* column a query reads for it keeps the block's keys (clearCol prepares   *)
(* columns for later blocks while generators and queries use others).      *)
FilterKeepsKeys ==
    \A b \in Blocks : reading_col[b] # None => b \in bitmap[reading_col[b]]

(* set and clearCol read a byte of the bitmap, change a bit and write it   *)
(* back without a lock: what two threads do to different columns at the    *)
(* same time never is in the same byte, where one would be lost.           *)
FilterBytesApart ==
    \A g \in Generators : gpc[g] = "store" =>
        LET col == writing_col[EntryOf(held[g])] IN
        /\ \A h \in Generators : gpc[h] = "store" =>
             LET other == writing_col[EntryOf(held[h])]
             IN  other = col \/ ByteCol(other) # ByteCol(col)
        /\ \A p \in Persisters : ppc[p] = "clear" /\ NewCol(CheckedEntry(p)) \in Columns =>
             ByteCol(NewCol(CheckedEntry(p))) # ByteCol(col)

(* The capture does not come round to a block of the disk before the       *)
(* indexes of its last lap are persisted.  Nothing in the code compares    *)
(* the two: a full index ring holds the capture back.                      *)
KeepsUp ==
    \A b \in Blocks : InCache(b) =>
        /\ packet_count[b] = 0
        /\ \A p \in Persisters :
             CheckedBlock(p) = b => ppc[p] \in {"test", "wait", "returned"}

(* A persister that has found the count of a dumped block gets on: as many *)
(* indexes are inserted, whatever the generators wait for meanwhile.  The  *)
(* second loop of checkAndGetMeta has no other way out.                    *)
CountIsReached == \A p \in Persisters : ppc[p] = "count" ~> ppc[p] = "persist"

(* Once the readers are told to stop, threadsStop comes to its end: no     *)
(* reader waits for ever to put an index while its generator waits for an  *)
(* entry of the index buffer, generators are joined while only the         *)
(* persisters can make room for them, and the disk managers drain only     *)
(* afterwards.                                                             *)
StopReachesQuery == phase = "readers" ~> phase = "query"

(* Queries start when the capture has stopped and find every index.        *)
QueryFindsAll == phase = "query" => \A b \in Blocks : made[b] = 0
=============================================================================
