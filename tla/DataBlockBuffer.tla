--------------------------- MODULE DataBlockBuffer ---------------------------
(***************************************************************************)
(* The cache of data blocks that capture threads write and disk managers   *)
(* dump (dpdk_lib/dataBlockbuffer.hpp, class DataBlockBuffer).             *)
(*                                                                         *)
(* The disk is a circle of N blocks; slot s of the cache holds, one after  *)
(* the other, the disk blocks s, s+B, s+2B, ... (mod N).  No lock protects *)
(* a slot: a capture thread may write it because block_disk_id names the   *)
(* block it wants, and a disk manager may dump it because every capture    *)
(* thread has published a position beyond it in disk_write_ids.            *)
(*                                                                         *)
(* A block is R cells; a position is abstracted to the cell it lies in and *)
(* to whether the written bytes reach the end of that cell.  A timestamp   *)
(* is abstracted to the disk block that was being filled when it was       *)
(* taken: timestamps only grow, so min(old, ts) keeps the first one.       *)
(***************************************************************************)
EXTENDS Integers, FiniteSets

CONSTANTS
    N,   \* disk_block_num: blocks on the data disk
    B,   \* total_block_num: blocks in the cache
    D,   \* delayed_block_num: how far behind the writers a dump stays
    R,   \* rss_num: capture threads, and cells of a block
    T    \* disk manager threads registered with addCheckThread

(* The constructor refuses B * 4 >= N; B and N divide because the buffer   *)
(* size and the number of cells must both be powers of two.                *)
ASSUME BufferAssumption ==
    /\ N \in Nat \ {0} /\ B \in Nat \ {0} /\ D \in Nat
    /\ R \in Nat \ {0} /\ T \in Nat \ {0}
    /\ R <= B /\ T <= B
    /\ 4 * B < N
    /\ \E k \in 1 .. N : N = k * B

VARIABLES
    block_disk_id,    \* slot -> the disk block it holds
    start_times,      \* slot -> block being filled when start_time was taken
    end_times,        \* slot -> block being filled when end_time was taken
    packet_counts,    \* slot -> reader -> packets with a new index
    disk_write_ids,   \* reader -> disk block it published as its position
    block_check_ids   \* disk manager -> slot it examines next

bufferVars == <<block_disk_id, start_times, end_times, packet_counts,
                disk_write_ids, block_check_ids>>

Readers  == 0 .. (R - 1)
Managers == 0 .. (T - 1)
Slots    == 0 .. (B - 1)
DiskIds  == 0 .. (N - 1)
Cells    == 0 .. (N * R - 1)

NoTime == -1    \* numeric_limits::max() in start_times, 0 in end_times

BlockOf(c) == c \div R
SlotOf(d)  == d % B
LastOfBlock(c) == c % R = R - 1

BufferTypeOK ==
    /\ block_disk_id \in [Slots -> DiskIds]
    /\ start_times \in [Slots -> DiskIds \cup {NoTime}]
    /\ end_times \in [Slots -> DiskIds \cup {NoTime}]
    /\ packet_counts \in [Slots -> [Readers -> Nat]]
    /\ disk_write_ids \in [Readers -> DiskIds]
    /\ block_check_ids \in [Managers -> Slots]

BufferInit ==
    /\ block_disk_id = [s \in Slots |-> s]
    /\ start_times = [s \in Slots |-> NoTime]
    /\ end_times = [s \in Slots |-> NoTime]
    /\ packet_counts = [s \in Slots |-> [r \in Readers |-> 0]]
    /\ disk_write_ids = [r \in Readers |-> r]      \* addWriteThread
    /\ block_check_ids = [t \in Managers |-> t]    \* addCheckThread

-----------------------------------------------------------------------------
(* Does w lie outside the 2B blocks that end with block right?             *)
OutsideBarriers(w, right) ==
    LET left == (right + N - 2 * B) % N
    IN  \/ left < right /\ (w > right \/ w < left)
        \/ left > right /\ w > right /\ w < left

(* Mutant of CheckRSS: the dump does not stay behind the writers.          *)
CheckRSSNoDelay(s, r) == OutsideBarriers(disk_write_ids[r], block_disk_id[s])

(* Has reader r left the block of slot s and the D blocks after it?        *)
CheckRSS(s, r) == OutsideBarriers(disk_write_ids[r], (block_disk_id[s] + D) % N)

(* Mutant of DirectCheckRSS: the block a reader is in does not count.      *)
DirectCheckRSSStrict(s, r) == OutsideBarriers(disk_write_ids[r], block_disk_id[s])

(* After stop there is no delay and the block the reader is in counts too. *)
DirectCheckRSS(s, r) == \/ disk_write_ids[r] = block_disk_id[s]
                        \/ OutsideBarriers(disk_write_ids[r], block_disk_id[s])

(* Mutant of CheckBlock: one reader beyond the block is enough.            *)
CheckBlockSome(t) == \E r \in Readers : CheckRSS(block_check_ids[t], r)

CheckBlock(t) == \A r \in Readers : CheckRSS(block_check_ids[t], r)

DirectGetBlockID(t) == \E r \in Readers : DirectCheckRSS(block_check_ids[t], r)

-----------------------------------------------------------------------------
(* writeBlock(cell c, reaching the cell's end or not, new_data, ...).      *)

(* The block the position lies in, then the one it spills over to when the *)
(* bytes reach the end of the block: both must be in the cache.            *)
Spills(c, end) == end /\ LastOfBlock(c)

FinalBlock(c, end) == IF Spills(c, end) THEN (BlockOf(c) + 1) % N ELSE BlockOf(c)

Resident(d) == block_disk_id[SlotOf(d)] = d

WriteFits(c, end) == Resident(BlockOf(c)) /\ Resident(FinalBlock(c, end))

(* The block a refused writeBlock publishes.                               *)
RefusedBlock(c, end) ==
    IF Resident(BlockOf(c)) THEN FinalBlock(c, end) ELSE BlockOf(c)

First(old, new) == IF old = NoTime THEN new ELSE old

(* Mutant of EndTimes: only the block that is left gets an end time.       *)
EndTimesOfLeft(c, end, fits) ==
    IF Spills(c, end) /\ ~fits
    THEN [end_times EXCEPT ![SlotOf(BlockOf(c))] = BlockOf(c)] ELSE end_times

(* end_times after a call that gets beyond the first residency test: the   *)
(* block left when the bytes reach its end, then the one that holds the    *)
(* cell's end, after block_id has moved on.                                *)
EndTimes(c, end, fits) ==
    LET b == BlockOf(c)
        left == IF Spills(c, end)
                THEN [end_times EXCEPT ![SlotOf(b)] = b] ELSE end_times
    IN  IF end /\ fits
        THEN [left EXCEPT ![SlotOf(FinalBlock(c, end))] = b] ELSE left

StartTimes(c, end) ==
    LET b == BlockOf(c)
        f == SlotOf(FinalBlock(c, end))
        n == (f + 1) % B
        entered == IF Spills(c, end)
                   THEN [start_times EXCEPT ![f] = First(@, b)] ELSE start_times
    IN  IF end THEN [entered EXCEPT ![n] = First(@, b)] ELSE entered

(* Mutant of RefuseWrite: a refused call does not publish where it waits.  *)
RefuseSilently(r, c, end) ==
    /\ ~WriteFits(c, end)
    /\ end_times' = IF Resident(BlockOf(c)) THEN EndTimes(c, end, FALSE) ELSE end_times
    /\ UNCHANGED <<block_disk_id, start_times, packet_counts, disk_write_ids, block_check_ids>>

(* A refused call with new data: it returns false and the caller retries.  *)
RefuseWrite(r, c, end) ==
    /\ ~WriteFits(c, end)
    /\ disk_write_ids' = [disk_write_ids EXCEPT ![r] = RefusedBlock(c, end)]
    /\ end_times' = IF Resident(BlockOf(c)) THEN EndTimes(c, end, FALSE) ELSE end_times
    /\ UNCHANGED <<block_disk_id, start_times, packet_counts, block_check_ids>>

(* The part of an accepted call up to memcpy.                              *)
AcceptWrite(r, c, end) ==
    /\ WriteFits(c, end)
    /\ end_times' = EndTimes(c, end, TRUE)
    /\ start_times' = StartTimes(c, end)
    /\ UNCHANGED <<block_disk_id, packet_counts, disk_write_ids, block_check_ids>>

(* The part from memcpy on: the position is published, a packet that got   *)
(* a new index is counted for the block its first byte lies in.            *)
PublishWrite(r, c, end, index) ==
    /\ disk_write_ids' = [disk_write_ids EXCEPT ![r] = FinalBlock(c, end)]
    /\ packet_counts' = IF index
           THEN [packet_counts EXCEPT ![SlotOf(BlockOf(c))][r] = @ + 1]
           ELSE packet_counts
    /\ UNCHANGED <<block_disk_id, start_times, end_times, block_check_ids>>

-----------------------------------------------------------------------------
(* getBlock: the slot's state is copied, its counts start again, and the   *)
(* manager moves on to its next slot.                                      *)
BlockTaken(t) ==
    LET s == block_check_ids[t] IN
    [slot |-> s, write_pos |-> block_disk_id[s],
     start_time |-> start_times[s], end_time |-> end_times[s],
     counts |-> packet_counts[s]]

(* Mutant of GetBlock: block_check_ids is not moved on.                    *)
GetBlockAgain(t) ==
    /\ packet_counts' = [packet_counts EXCEPT
                            ![block_check_ids[t]] = [r \in Readers |-> 0]]
    /\ UNCHANGED <<block_disk_id, start_times, end_times, disk_write_ids, block_check_ids>>

GetBlock(t) ==
    /\ packet_counts' = [packet_counts EXCEPT
                            ![block_check_ids[t]] = [r \in Readers |-> 0]]
    /\ block_check_ids' = [block_check_ids EXCEPT ![t] = (@ + T) % B]
    /\ UNCHANGED <<block_disk_id, start_times, end_times, disk_write_ids>>

GiveSlot(s, d) ==
    /\ block_disk_id' = [block_disk_id EXCEPT ![s] = d]
    /\ UNCHANGED <<start_times, end_times, packet_counts, disk_write_ids, block_check_ids>>

(* Mutants of RecycleBlock: the disk's end is not wrapped, the slot gets   *)
(* the next block instead of the next one that belongs to it, or one of    *)
(* its blocks is left out.                                                 *)
RecycleUnwrapped(s) == GiveSlot(s, block_disk_id[s] + B)
RecycleToNext(s) == GiveSlot(s, (block_disk_id[s] + 1) % N)
RecycleTwice(s) == GiveSlot(s, (block_disk_id[s] + 2 * B) % N)

RecycleBlock(s) == GiveSlot(s, (block_disk_id[s] + B) % N)
=============================================================================
