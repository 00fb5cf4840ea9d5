----------------------------- MODULE MemoryPool ------------------------------
(***************************************************************************)
(* A memory pool for the indexes of one type that come over one ring       *)
(* (dpdk_lib/memoryPool.hpp).  One generator allocates units round and     *)
(* round a buffer; a list of nodes, one for each data block, says where    *)
(* the units of the block begin.  A persister finds the units of a block   *)
(* through the list and marks its node dirty; the generator drops dirty    *)
(* nodes at its next allocation.                                           *)
(*                                                                         *)
(* A unit is told from others by the data block it belongs to.  Lengths    *)
(* and offsets count units: the constructor demands that the capacity is   *)
(* a multiple of the unit length.                                          *)
(***************************************************************************)
EXTENDS Integers, FiniteSetsExt

CONSTANTS
    Capacity,   \* units in the buffer
    ListLen     \* list_len: nodes in the list

ASSUME PoolAssumption == Capacity \in Nat \ {0} /\ ListLen \in Nat \ {0, 1}

None  == -1                       \* numeric_limits<uint64_t>::max()
Units == 0 .. Capacity - 1
Nodes == 0 .. ListLen - 1

NewPool ==
    [buffer         |-> [u \in Units |-> None],
     allocate_pos   |-> 0,
     allocated_list |-> [n \in Nodes |-> [data_block_id |-> None,
                                          start_offset  |-> None,
                                          dirty         |-> FALSE]],
     list_head      |-> 0,
     list_tail      |-> 1]

NextNode(n) == (n + 1) % ListLen
LastNode(p) == (p.list_tail + ListLen - 1) % ListLen
HeadNode(p) == p.allocated_list[p.list_head]

-----------------------------------------------------------------------------
(* allocate(1, block): the calls a generator makes for one unit.           *)

(* The loop at the head of the list: dirty nodes go, the last one stays.   *)
DropDirty(p) ==
    LET At(k)    == (p.list_head + k) % ListLen
        Stops(k) == \/ ~p.allocated_list[At(k)].dirty
                    \/ NextNode(At(k)) = p.list_tail
    IN  [p EXCEPT !.list_head = At(Min({k \in Nodes : Stops(k)}))]

(* A new turn when the unit does not fit before the end of the buffer.     *)
Turn(p) == [p EXCEPT !.allocate_pos = IF @ + 1 > Capacity THEN 0 ELSE @]

EnterAllocate(p) == Turn(DropDirty(p))

FirstAllocation(p) == HeadNode(p).start_offset = None

(* Mutant of HasRoom: compared with where the allocation ends.             *)
HasRoomAfter(p) == HeadNode(p).start_offset # p.allocate_pos + 1

(* The unit is not the first one of the oldest node: otherwise allocate    *)
(* waits for a value that only its own thread changes.                     *)
HasRoom(p) == HeadNode(p).start_offset # p.allocate_pos

NeedsNode(p, block) == p.allocated_list[LastNode(p)].data_block_id # block

(* addNodeMeta waits while head and tail meet.                             *)
NodeFree(p) == p.list_head # p.list_tail

AddNodeMeta(p, block) ==
    [p EXCEPT !.allocated_list[p.list_tail] =
                    [data_block_id |-> block, start_offset |-> p.allocate_pos,
                     dirty |-> FALSE],
              !.list_tail = NextNode(@)]

CanList(p, block) ==
    FirstAllocation(p) \/ (HasRoom(p) /\ (NeedsNode(p, block) => NodeFree(p)))

(* What the list is when the unit has been found.                          *)
ListUnit(p, block) ==
    IF FirstAllocation(p)
    THEN [p EXCEPT !.allocated_list[p.list_head].data_block_id = block,
                   !.allocated_list[p.list_head].start_offset = p.allocate_pos]
    ELSE IF NeedsNode(p, block) THEN AddNodeMeta(p, block) ELSE p

(* allocate_pos moves on and the caller copies key and position.           *)
TakeUnit(p, block) ==
    [p EXCEPT !.buffer[p.allocate_pos] = block, !.allocate_pos = @ + 1]

-----------------------------------------------------------------------------
(* The persister's side: a scan of the list from head to tail.             *)

ListedBefore(p, n) == (n + ListLen - p.list_head) % ListLen
Listed(p) == IF p.list_head = p.list_tail THEN {}
             ELSE {n \in Nodes : ListedBefore(p, n) < ListedBefore(p, p.list_tail)}

NodesOf(p, block) == {n \in Listed(p) : p.allocated_list[n].data_block_id = block}

(* The first node of the block, or None.                                   *)
FindNode(p, block) ==
    IF NodesOf(p, block) = {} THEN None
    ELSE CHOOSE n \in NodesOf(p, block) :
            \A m \in NodesOf(p, block) : ListedBefore(p, n) <= ListedBefore(p, m)

(* Where the units of node n end, pos having been read from allocate_pos   *)
(* before the tail is looked at.  The node number is not wrapped before it *)
(* is compared with the tail.                                              *)
EndOffset(p, n, pos) ==
    IF n + 1 # p.list_tail THEN p.allocated_list[NextNode(n)].start_offset ELSE pos

(* Is n the last node of the list and of the array?  Then EndOffset takes  *)
(* the start of node 0, which is not in use.                               *)
AtArrayEnd(p, n) == n = ListLen - 1 /\ p.list_tail = 0

LenOfNode(p, n, pos) ==
    LET start == p.allocated_list[n].start_offset
        end   == EndOffset(p, n, pos)
    IN  IF end > start THEN end - start ELSE Capacity - start + end

(* The lengths of the calls of writeBlock for len units of node n: two     *)
(* when the units reach the end of the buffer, the second possibly empty.  *)
WriteLens(p, n, len) ==
    LET start == p.allocated_list[n].start_offset
    IN  IF start + len < Capacity THEN <<len>>
        ELSE <<Capacity - start, len + start - Capacity>>

(* The units those calls copy.                                             *)
UnitsOf(p, n, len) == {(p.allocated_list[n].start_offset + i) % Capacity : i \in 0 .. len - 1}

Recycle(p, block) ==
    LET n == FindNode(p, block)
    IN  IF n = None THEN p ELSE [p EXCEPT !.allocated_list[n].dirty = TRUE]
=============================================================================
