-------------------------- MODULE IndexBlockBuffer ---------------------------
(***************************************************************************)
(* The cache of index blocks between index persister and index disk        *)
(* manager (dpdk_lib/indexBlockBuffer.hpp).  As in DataBlockBuffer, slot s *)
(* holds the disk blocks s, s+B, s+2B, ... and ownership follows from      *)
(* numbers; there is no delay, and a position is a number of units.        *)
(*                                                                         *)
(* One persister writes and one manager checks, as configured by default   *)
(* and in the first example of the Readme.                                 *)
(***************************************************************************)
EXTENDS Integers

CONSTANTS
    M,   \* disk_block_num: blocks on the index disk
    B,   \* total_block_num: blocks in the cache
    S    \* block_size, in units

(* The constructor refuses 4 * B >= M; all sizes are powers of two.        *)
ASSUME IndexBufferAssumption ==
    /\ {M, B, S} \subseteq Nat \ {0} /\ 4 * B < M
    /\ M % B = 0

VARIABLES
    block_disk_id,    \* slot -> the index block it holds
    disk_write_id,    \* the index block the persister published last
    block_check_id    \* the slot the disk manager examines next

indexBufferVars == <<block_disk_id, disk_write_id, block_check_id>>

Slots    == 0 .. B - 1
IndexIds == 0 .. M - 1

IndexBufferInit ==
    /\ block_disk_id = [s \in Slots |-> s]
    /\ disk_write_id = 0        \* addWriteThread: the number of the thread
    /\ block_check_id = 0       \* addCheckThread

DiskIdOf(pos) == (pos \div S) % M
SlotOfPos(pos) == (pos \div S) % B

-----------------------------------------------------------------------------
(* Does the published position lie outside the 2B blocks that end with     *)
(* block right?                                                            *)
Beyond(right) ==
    LET left == (right + M - 2 * B) % M
    IN  \/ left < right /\ (disk_write_id > right \/ disk_write_id < left)
        \/ left > right /\ disk_write_id > right /\ disk_write_id < left

(* Mutant of CheckThread: the block the persister is in may be dumped.     *)
CheckThreadEarly(s) == disk_write_id = block_disk_id[s] \/ Beyond(block_disk_id[s])

CheckThread(s) == Beyond(block_disk_id[s])

(* Mutant of DirectCheckThread: the block the persister is in is left out. *)
DirectCheckThreadStrict(s) == Beyond(block_disk_id[s])

DirectCheckThread(s) == disk_write_id = block_disk_id[s] \/ Beyond(block_disk_id[s])

CheckBlock == CheckThread(block_check_id)
DirectCheckBlock == DirectCheckThread(block_check_id)

-----------------------------------------------------------------------------
(* writeBlock(pos, len).  Bytes that reach the end of the block make it    *)
(* ask for the next block too; more than two are never asked for.          *)

Crosses(pos, len) == (pos % S) + len >= S

LastBlock(pos, len) ==
    IF Crosses(pos, len) THEN (DiskIdOf(pos) + 1) % M ELSE DiskIdOf(pos)

HoldsBlock(d) == block_disk_id[d % B] = d

Fits(pos, len) == HoldsBlock(DiskIdOf(pos)) /\ HoldsBlock(LastBlock(pos, len))

(* A call publishes the last block it asked for, also when it is refused.  *)
PublishedBlock(pos, len) ==
    IF HoldsBlock(DiskIdOf(pos)) THEN LastBlock(pos, len) ELSE DiskIdOf(pos)

(* Mutant of Publish: the block after the last one is published.          *)
PublishNext(pos, len) ==
    /\ disk_write_id' = (PublishedBlock(pos, len) + 1) % M
    /\ UNCHANGED <<block_disk_id, block_check_id>>

Publish(pos, len) ==
    /\ disk_write_id' = PublishedBlock(pos, len)
    /\ UNCHANGED <<block_disk_id, block_check_id>>

(* The slots into which a call copies.                                     *)
CopiedSlots(pos, len) == {SlotOfPos(pos + i) : i \in 0 .. len - 1}

(* getBlock: the manager goes on to the next slot.                         *)
GetBlock ==
    /\ block_check_id' = (block_check_id + 1) % B
    /\ UNCHANGED <<block_disk_id, disk_write_id>>

RecycledId(s) == (block_disk_id[s] + B) % M

RecycleBlock(s) ==
    /\ block_disk_id' = [block_disk_id EXCEPT ![s] = RecycledId(s)]
    /\ UNCHANGED <<disk_write_id, block_check_id>>
=============================================================================
