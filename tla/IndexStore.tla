----------------------------- MODULE IndexStore ------------------------------
(***************************************************************************)
(* From the memory pools to the index disk: generators allocate units in   *)
(* the pools, the persister measures the units of a data block in every    *)
(* pool, reserves room on the index disk, copies the units into the cache  *)
(* of index blocks and sorts them; a disk manager dumps index blocks and a *)
(* memory manager recycles them.                                           *)
(*                                                                         *)
(* IndexFlow shows that a block is persisted only when all its indexes are *)
(* in the pools; here that is the guard of CheckAndGetMeta.                *)
(***************************************************************************)
EXTENDS MemoryPool, IndexBlockBuffer, Sequences

CONSTANTS
    N,          \* blocks of the data disk
    C,          \* entries of the index buffer: data blocks with live indexes
    R,          \* capture threads, each with a ring, a generator and pools
    Y,          \* index types
    DiskSize,   \* modulus of positions: the controller passes data_disk_size
    Depth,      \* agent_ring_depth
    Kinds,      \* kinds of indexes: sequences of the types insert fills (an
                \*   IPv4 index has no IPv6 address)
    MaxPer      \* bound: indexes of one reader for one data block

(* DiskSize is a power of two.  MaxPer <= S: writeBlock asks for two       *)
(* blocks at most.  The index disk is no larger than DiskSize.             *)
ASSUME StoreAssumption ==
    /\ {N, C, R, Y, DiskSize, Depth, MaxPer} \subseteq Nat \ {0}
    /\ C < N /\ DiskSize % (M * S) = 0 /\ MaxPer <= S
    /\ Kinds \subseteq Seq(0 .. Y - 1) \ {<<>>}

(* insert allocates once in the pool of a type.                            *)
ASSUME KindsAssumption ==
    \A kind \in Kinds : \A i, j \in DOMAIN kind : kind[i] = kind[j] => i = j

DataBlocks == 0 .. N - 1
Readers    == 0 .. R - 1
Parts      == 0 .. R * Y - 1     \* types one after the other, each with all pools
LastOfType(k) == k % R = R - 1
PartOf(r, y) == y * R + r

VARIABLES
    pools,      \* part -> MemoryPool
    cur,        \* reader -> the data block its indexes belong to
    fresh,      \* reader -> indexes it has made for that block
    skipped,    \* reader -> some type had no index in the block before
    gpc, gtodo, \* reader's generator -> where it is in insert, types to fill
    next,       \* the data block to persist next
    ppc,        \* where the persister is
    part,       \* the part persistMeta works on
    node, pos,  \* node of the part and allocate_pos, read by getLenOfDiskID
    total,      \* total_node_len
    base, off,  \* current_offset, index_offset
    calls,      \* lengths of the writeBlock calls still to make
    writePos,   \* diskWritePos
    inflight,   \* slot -> submitted writes of it
    managing,   \* the disk manager has not returned
    phase,      \* how far Controller::threadsStop is
    made,       \* history: part -> data block -> units it was given
    limit,      \* history: the end of what was reserved
    taken,      \* history: slot -> taken since it was recycled
    dirty,      \* history: slot -> copied to since it was taken
    refused,    \* history: a writeBlock was refused
    misread     \* history: a length was taken from a node out of use

generatorVars == <<cur, fresh, skipped, gpc, gtodo>>
placeVars     == <<total, base, off, writePos, limit>>
scanVars      == <<part, node, pos, calls>>
persistVars   == <<next, ppc, scanVars, placeVars>>
slotVars      == <<taken, dirty>>
managerVars   == <<inflight, managing>>
vars == <<pools, generatorVars, persistVars, indexBufferVars, slotVars,
          managerVars, phase, made, refused, misread>>

Init ==
    /\ pools = [k \in Parts |-> NewPool]
    /\ cur = [r \in Readers |-> 0] /\ fresh = [r \in Readers |-> 0]
    /\ skipped = [r \in Readers |-> FALSE]
    /\ gpc = [r \in Readers |-> "idle"] /\ gtodo = [r \in Readers |-> <<>>]
    /\ next = 0 /\ ppc = "idle"
    /\ part = 0 /\ node = None /\ pos = 0 /\ calls = <<>>
    /\ total = 0 /\ base = 0 /\ off = 0 /\ writePos = 0 /\ limit = 0
    /\ IndexBufferInit
    /\ inflight = [s \in Slots |-> 0] /\ managing = TRUE
    /\ phase = "run"
    /\ made = [k \in Parts |-> [b \in DataBlocks |-> 0]]
    /\ taken = [s \in Slots |-> FALSE] /\ dirty = [s \in Slots |-> FALSE]
    /\ refused = FALSE /\ misread = FALSE

-----------------------------------------------------------------------------
(* Generators: IndexMemoryPool::insert, type after type.                   *)

PoolOf(r) == PartOf(r, Head(gtodo[r]))

(* IndexBuffer::insert fails, and is repeated, while the entry of the      *)
(* block still belongs to an earlier one.                                  *)
EntryFree(b) == (b + N - next) % N < C

StartIndex(r) ==
    /\ phase = "run" /\ gpc[r] = "idle"
    /\ fresh[r] < MaxPer /\ EntryFree(cur[r])
    /\ fresh' = [fresh EXCEPT ![r] = @ + 1]
    /\ \E kind \in Kinds : gtodo' = [gtodo EXCEPT ![r] = kind]
    /\ gpc' = [gpc EXCEPT ![r] = "enter"]
    /\ UNCHANGED <<pools, cur, skipped, persistVars, indexBufferVars,
                   slotVars, managerVars, phase, made, refused, misread>>

AllocateEnters(r) ==
    /\ gpc[r] = "enter"
    /\ pools' = [pools EXCEPT ![PoolOf(r)] = EnterAllocate(@)]
    /\ gpc' = [gpc EXCEPT ![r] = "list"]
    /\ UNCHANGED <<cur, fresh, skipped, gtodo, persistVars, indexBufferVars,
                   slotVars, managerVars, phase, made, refused, misread>>

AllocateLists(r) ==
    /\ gpc[r] = "list" /\ CanList(pools[PoolOf(r)], cur[r])
    /\ pools' = [pools EXCEPT ![PoolOf(r)] = ListUnit(@, cur[r])]
    /\ gpc' = [gpc EXCEPT ![r] = "take"]
    /\ UNCHANGED <<cur, fresh, skipped, gtodo, persistVars, indexBufferVars,
                   slotVars, managerVars, phase, made, refused, misread>>

(* The unit is filled.                                                     *)
AllocateTakes(r) ==
    /\ gpc[r] = "take"
    /\ pools' = [pools EXCEPT ![PoolOf(r)] = TakeUnit(@, cur[r])]
    /\ made' = [made EXCEPT ![PoolOf(r)][cur[r]] = @ + 1]
    /\ gtodo' = [gtodo EXCEPT ![r] = Tail(@)]
    /\ gpc' = [gpc EXCEPT ![r] = IF Len(gtodo[r]) > 1 THEN "enter" ELSE "idle"]
    /\ UNCHANGED <<cur, fresh, skipped, persistVars, indexBufferVars,
                   slotVars, managerVars, phase, refused, misread>>

(* Has some pool of the reader got nothing for the block?                  *)
PoolWithout(r) == \E y \in 0 .. Y - 1 : made[PartOf(r, y)][cur[r]] = 0

(* The reader goes on to the next data block (external to this module).    *)
(* Bound: a pool is without indexes for one block at a time only.          *)
NextDataBlock(r) ==
    /\ phase = "run" /\ gpc[r] = "idle" /\ EntryFree(cur[r])
    /\ fresh[r] > 0 /\ ~(skipped[r] /\ PoolWithout(r))
    /\ cur' = [cur EXCEPT ![r] = (@ + 1) % N]
    /\ skipped' = [skipped EXCEPT ![r] = PoolWithout(r)]
    /\ fresh' = [fresh EXCEPT ![r] = 0]
    /\ UNCHANGED <<pools, gpc, gtodo, persistVars, indexBufferVars, slotVars,
                   managerVars, phase, made, refused, misread>>

-----------------------------------------------------------------------------
(* The persister                                                           *)

ThisPool == pools[part]
Complete == \A r \in Readers : cur[r] # next

CheckAndGetMeta ==
    /\ ppc = "idle" /\ phase = "run" /\ Complete
    /\ ppc' = "find" /\ part' = 0 /\ total' = 0
    /\ UNCHANGED <<next, node, pos, calls, base, off, writePos, limit>>
    /\ UNCHANGED <<pools, generatorVars, indexBufferVars, slotVars, managerVars,
                   phase, made, refused, misread>>

(* After the last part of a pass.                                          *)
GoTo(here, afterLast) ==
    IF part + 1 \in Parts THEN ppc' = here /\ part' = part + 1
    ELSE ppc' = afterLast /\ part' = 0

(* getLenOfDiskID up to its read of allocate_pos, in both passes; a pool   *)
(* without the block has length 0.                                         *)
FindPart ==
    /\ ppc \in {"find", "find again"}
    /\ node' = FindNode(ThisPool, next) /\ pos' = ThisPool.allocate_pos
    /\ ppc' = IF ppc = "find" THEN "measure" ELSE "measure again"
    /\ UNCHANGED <<next, part, calls, placeVars>>
    /\ UNCHANGED <<pools, generatorVars, indexBufferVars, slotVars, managerVars,
                   phase, made, refused, misread>>

PartLen == IF node = None THEN 0 ELSE LenOfNode(ThisPool, node, pos)

Misreads == misread' = (misread \/ (node # None /\ AtArrayEnd(ThisPool, node)))

ScanEnds == node' = None /\ pos' = 0

(* Mutant of MeasurePart: the last pool is left out of the sum.            *)
MeasureAllButLast ==
    /\ ppc = "measure"
    /\ total' = total + (IF part + 1 \in Parts THEN PartLen ELSE 0)
    /\ Misreads /\ ScanEnds
    /\ GoTo("find", "reserve")
    /\ UNCHANGED <<next, calls, base, off, writePos, limit>>
    /\ UNCHANGED <<pools, generatorVars, indexBufferVars, slotVars, managerVars,
                   phase, made, refused>>

(* First pass: how much room the block needs.                              *)
MeasurePart ==
    /\ ppc = "measure"
    /\ total' = total + PartLen
    /\ Misreads /\ ScanEnds
    /\ GoTo("find", "reserve")
    /\ UNCHANGED <<next, calls, base, off, writePos, limit>>
    /\ UNCHANGED <<pools, generatorVars, indexBufferVars, slotVars, managerVars,
                   phase, made, refused>>

Reserve ==
    /\ ppc = "reserve"
    /\ writePos' = (writePos + total) % DiskSize
    /\ base' = writePos /\ limit' = writePos + total /\ off' = 0
    /\ total' = 0
    /\ ppc' = "find again"
    /\ UNCHANGED <<next, scanVars>>
    /\ UNCHANGED <<pools, generatorVars, indexBufferVars, slotVars, managerVars,
                   phase, made, refused, misread>>

(* Second pass: the calls that copy the part, none if it is empty.         *)
MeasureAgain ==
    /\ ppc = "measure again"
    /\ Misreads /\ ScanEnds
    /\ calls' = IF PartLen = 0 THEN <<>> ELSE WriteLens(ThisPool, node, PartLen)
    /\ ppc' = "write"
    /\ UNCHANGED <<next, part, placeVars>>
    /\ UNCHANGED <<pools, generatorVars, indexBufferVars, slotVars, managerVars,
                   phase, made, refused>>

At == base + off

(* The result of writeBlock is ignored.                                    *)
WriteRefused ==
    /\ ppc = "write" /\ calls # <<>> /\ ~Fits(At, Head(calls))
    /\ Publish(At, Head(calls))
    /\ calls' = Tail(calls) /\ off' = off + Head(calls)
    /\ refused' = TRUE
    /\ UNCHANGED <<next, ppc, part, node, pos, total, base, writePos, limit>>
    /\ UNCHANGED <<pools, generatorVars, slotVars, managerVars, phase, made, misread>>

WriteAccepted ==
    /\ ppc = "write" /\ calls # <<>> /\ Fits(At, Head(calls))
    /\ ppc' = "copy"
    /\ UNCHANGED <<next, scanVars, placeVars>>
    /\ UNCHANGED <<pools, generatorVars, indexBufferVars, slotVars, managerVars,
                   phase, made, refused, misread>>

WriteCopied ==
    /\ ppc = "copy"
    /\ Publish(At, Head(calls))
    /\ dirty' = [s \in Slots |-> dirty[s] \/ s \in CopiedSlots(At, Head(calls))]
    /\ calls' = Tail(calls) /\ off' = off + Head(calls)
    /\ ppc' = "write"
    /\ UNCHANGED <<next, part, node, pos, total, base, writePos, limit>>
    /\ UNCHANGED <<pools, generatorVars, taken, managerVars, phase, made,
                   refused, misread>>

(* The part is done: on to the next pool of the type, or to the sort.      *)
PartWritten ==
    /\ ppc = "write" /\ calls = <<>>
    /\ IF LastOfType(part) THEN ppc' = "sort" /\ UNCHANGED part
       ELSE ppc' = "find again" /\ part' = part + 1
    /\ UNCHANGED <<next, node, pos, calls, placeVars>>
    /\ UNCHANGED <<pools, generatorVars, indexBufferVars, slotVars, managerVars,
                   phase, made, refused, misread>>

(* sortIndex, in place, and setIndexID.                                    *)
SortIndex ==
    /\ ppc = "sort"
    /\ base' = base + off /\ off' = 0
    /\ GoTo("find again", "clear")
    /\ UNCHANGED <<next, node, pos, calls, total, writePos, limit>>
    /\ UNCHANGED <<pools, generatorVars, indexBufferVars, slotVars, managerVars,
                   phase, made, refused, misread>>

(* clearMeta: the nodes of the block become dirty, the entry moves on.     *)
ClearMeta ==
    /\ ppc = "clear"
    /\ pools' = [k \in Parts |-> Recycle(pools[k], next)]
    /\ made' = [k \in Parts |-> [made[k] EXCEPT ![next] = 0]]
    /\ next' = (next + 1) % N
    /\ ppc' = "idle" /\ base' = 0 /\ limit' = 0
    /\ UNCHANGED <<scanVars, total, off, writePos>>
    /\ UNCHANGED <<generatorVars, indexBufferVars, slotVars, managerVars, phase,
                   refused, misread>>

-----------------------------------------------------------------------------
(* Index disk manager, memory manager and controller                       *)

Found == IF phase = "drain" THEN DirectCheckBlock ELSE CheckBlock

RingFull == MapThenSumSet(LAMBDA s : inflight[s], Slots) >= Depth

(* runIndex: getBlock, then addBlock.  asyncWrite fails when the           *)
(* submission queue is full; the block is then recycled unwritten.         *)
TakeIndexBlock ==
    /\ managing /\ Found /\ ~RingFull
    /\ inflight' = [inflight EXCEPT ![block_check_id] = @ + 1]
    /\ taken' = [taken EXCEPT ![block_check_id] = TRUE]
    /\ dirty' = [dirty EXCEPT ![block_check_id] = FALSE]
    /\ GetBlock
    /\ UNCHANGED <<pools, generatorVars, persistVars, managing, phase, made,
                   refused, misread>>

TakeAndDrop ==
    /\ managing /\ Found /\ RingFull
    /\ taken' = [taken EXCEPT ![block_check_id] = FALSE]
    /\ dirty' = [dirty EXCEPT ![block_check_id] = FALSE]
    /\ block_check_id' = (block_check_id + 1) % B
    /\ block_disk_id' = [block_disk_id EXCEPT ![block_check_id] = RecycledId(block_check_id)]
    /\ UNCHANGED <<pools, generatorVars, persistVars, disk_write_id, managerVars,
                   phase, made, refused, misread>>

(* MemoryManager::run, until it is told to stop.                           *)
RecycleIndexBlock(s) ==
    /\ phase # "done" /\ inflight[s] > 0
    /\ inflight' = [inflight EXCEPT ![s] = @ - 1]
    /\ taken' = [taken EXCEPT ![s] = FALSE]
    /\ RecycleBlock(s)
    /\ UNCHANGED <<pools, generatorVars, persistVars, dirty, managing, phase,
                   made, refused, misread>>

ManagerReturns ==
    /\ managing /\ phase = "drain" /\ ~DirectCheckBlock
    /\ managing' = FALSE
    /\ UNCHANGED <<pools, generatorVars, persistVars, indexBufferVars, slotVars,
                   inflight, phase, made, refused, misread>>

(* threadsStop: generators joined, then the persister, the disk manager,   *)
(* the memory manager.                                                     *)
Stop ==
    /\ \/ phase = "run" /\ (\A r \in Readers : gpc[r] = "idle") /\ phase' = "persist"
       \/ phase = "persist" /\ ppc = "idle" /\ phase' = "drain"
       \/ phase = "drain" /\ ~managing /\ phase' = "done"
    /\ UNCHANGED <<pools, generatorVars, persistVars, indexBufferVars, slotVars,
                   managerVars, made, refused, misread>>

Generate(r) == \/ StartIndex(r) \/ AllocateEnters(r) \/ AllocateLists(r)
               \/ AllocateTakes(r) \/ NextDataBlock(r)

Persist == \/ CheckAndGetMeta \/ FindPart \/ MeasurePart \/ Reserve
           \/ MeasureAgain \/ WriteRefused \/ WriteAccepted \/ WriteCopied
           \/ PartWritten \/ SortIndex \/ ClearMeta

Next == \/ \E r \in Readers : Generate(r)
        \/ Persist
        \/ TakeIndexBlock \/ TakeAndDrop \/ ManagerReturns
        \/ \E s \in Slots : RecycleIndexBlock(s)
        \/ Stop

Spec == Init /\ [][Next]_vars

-----------------------------------------------------------------------------
(* What the persister is about to copy is the data block's indexes of this *)
(* pool, all of them and nothing else: no allocation has reused a unit of  *)
(* a block not yet persisted, and the length is right although the         *)
(* generator goes on allocating.  (Except for the node at the array's end, *)
(* memoryPool.hpp:139.)                                                    *)
PoolsKeepIndexes ==
    (ppc = "measure again" /\ ~misread /\ (node # None => ~AtArrayEnd(ThisPool, node))) =>
        /\ PartLen = made[part][next]
        /\ node # None =>
            \A u \in UnitsOf(ThisPool, node, PartLen) : ThisPool.buffer[u] = next

(* The two passes of persistMeta agree: the block fills exactly the room   *)
(* that fetch_add reserved for it, although the pools are in use.          *)
ReservedExactly == (ppc = "clear" /\ ~misread) => base = limit

(* As long as no writeBlock was refused, an index is copied only into a    *)
(* slot that holds its index block and has not been dumped.                *)
IndexReachesDisk ==
    (ppc = "copy" /\ ~refused /\ ~misread) =>
        /\ Fits(At, Head(calls))
        /\ \A s \in CopiedSlots(At, Head(calls)) : ~taken[s]

(* As long as no writeBlock was refused, a type's indexes that end inside  *)
(* the block they begin in are not dumped before they are sorted.          *)
SortedWhenTaken ==
    (off > 0 /\ (base % S) + off < S /\ ~refused /\ ~misread) => ~taken[SlotOfPos(base)]

(* When the index disk manager has returned, nothing is left in the cache. *)
DrainTakesAll == (~managing /\ ~refused /\ ~misread) => \A s \in Slots : ~dirty[s]
=============================================================================
