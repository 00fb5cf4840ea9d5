------------------------------- MODULE DataPath -------------------------------
(***************************************************************************)
(* The way of a captured packet to the data disk: capture threads          *)
(* (dpdkReader.cpp) write cells of the block cache, disk managers          *)
(* (diskManager.cpp) hand complete blocks to an io_uring (diskAgent.hpp),  *)
(* memory managers (memoryManager.cpp) recycle the slots whose write has   *)
(* completed, and the controller (controller.cpp) stops them in order.     *)
(* Disk manager t and memory manager t share agent t.                      *)
(***************************************************************************)
EXTENDS DataBlockBuffer, Sequences, FiniteSets

CONSTANTS
    Busy,        \* the readers whose RX queue receives packets
    Shapes,      \* how a packet can lie in its cell, a subset of AllShapes
    Links,       \* how far back a flow's last packet can lie, of AllLinks
    Depth,       \* bound: writes an io_uring holds (agent_ring_depth)
    MaxCount,    \* bound: new indexes counted per slot and reader
    Failures,    \* the I/O errors that can happen, a subset of AllFailures
    MaxErrors    \* bound: errors stop when as many kinds have happened

AllShapes == {"inside", "split", "exact"}
AllLinks  == {"same", "last"}
AllFailures == {"no_sqe", "submit", "disk"}

ASSUME PathAssumption ==
    /\ Busy \subseteq Readers
    /\ Shapes \subseteq AllShapes /\ Links \subseteq AllLinks
    /\ Failures \subseteq AllFailures
    /\ Depth \in Nat /\ MaxCount \in Nat /\ MaxErrors \in Nat

VARIABLES
    diskWriteCell,  \* the next cell to give out (mod the number of cells)
    writeCell,      \* reader -> the cell it fills
    lastCell,       \* reader -> the cell it filled before
    calls,          \* reader -> the writeBlock calls its packet still needs
    copying,        \* reader -> its first call has passed the checks
    running,        \* reader -> "new", "running" or "returned"
    mpc,            \* manager -> where runData is
    taken,          \* manager -> the DataBlock it works on
    ring,           \* agent -> writes submitted and not completed
    completed,      \* agent -> completion queue
    recycling,      \* memory manager -> run() has not returned
    phase,          \* how far Controller::threadsStop is
    errors,         \* history: the kinds of I/O errors so far
    dirty,          \* history: slots with new data no manager has taken
    doubled         \* history: a slot was taken while handed over already

readerVars  == <<diskWriteCell, writeCell, lastCell, calls, copying, running>>
managerVars == <<mpc, taken>>
agentVars   == <<ring, completed, recycling>>
historyVars == <<dirty, doubled>>
vars == <<bufferVars, readerVars, managerVars, agentVars, phase, errors, historyVars>>

(* A writeBlock call: link is the call writeBefore makes (new_data false). *)
Call(c, end, index) == [cell |-> c, end |-> end, index |-> index, link |-> FALSE]
LinkCall(c) == [cell |-> c, end |-> FALSE, index |-> FALSE, link |-> TRUE]
CallSet == [cell : Cells, end : BOOLEAN, index : BOOLEAN, link : BOOLEAN]

Nothing == [slot |-> 0, write_pos |-> 0, start_time |-> NoTime,
            end_time |-> NoTime, counts |-> [r \in Readers |-> 0]]

BlockSet == [slot : Slots, write_pos : DiskIds, start_time : DiskIds \cup {NoTime},
             end_time : DiskIds \cup {NoTime}, counts : [Readers -> Nat]]

(* threadsStop: the readers, then every disk manager and then every memory *)
(* manager, each told to stop and joined before the next is told.          *)
Phases == [part : {"run", "readers", "managers", "recyclers", "query"}, id : 0 .. B]
Phase(p, i) == [part |-> p, id |-> i]

Init ==
    /\ BufferInit
    /\ diskWriteCell = 0
    /\ writeCell = [r \in Readers |-> 0]
    /\ lastCell = [r \in Readers |-> 0]
    /\ calls = [r \in Readers |-> <<>>]
    /\ copying = [r \in Readers |-> FALSE]
    /\ running = [r \in Readers |-> "new"]
    /\ mpc = [t \in Managers |-> "check"]
    /\ taken = [t \in Managers |-> Nothing]
    /\ ring = [t \in Managers |-> <<>>]
    /\ completed = [t \in Managers |-> <<>>]
    /\ recycling = [t \in Managers |-> TRUE]
    /\ phase = Phase("run", 0)
    /\ errors = {}
    /\ dirty = {}
    /\ doubled = FALSE

-----------------------------------------------------------------------------
(* Capture threads                                                         *)

(* run() takes the thread's first cell.                                    *)
ReaderStarts(r) ==
    /\ running[r] = "new"
    /\ running' = [running EXCEPT ![r] = "running"]
    /\ writeCell' = [writeCell EXCEPT ![r] = diskWriteCell]
    /\ lastCell' = [lastCell EXCEPT ![r] = diskWriteCell]
    /\ diskWriteCell' = (diskWriteCell + 1) % (N * R)
    /\ UNCHANGED <<bufferVars, calls, copying, managerVars, agentVars,
                   phase, errors, historyVars>>

CellDistance(from, to) == (to + N * R - from) % (N * R)

(* The packets of a flow are chained while the new one starts at most      *)
(* delay_threshold blocks after the last one (PacketAggregator::addPacket, *)
(* whose threshold is delay_threshold * block_size).                       *)
Chained(from, to) == CellDistance(from, to) <= D * R

(* The cells in which the last packet of the flow may have started.        *)
FlowCells(r) == (IF "same" \in Links THEN {writeCell[r]} ELSE {})
                    \cup (IF "last" \in Links THEN {lastCell[r]} ELSE {})

(* The writeBlock calls a packet leads to: inside its cell; split by the   *)
(* end of the cell, with the pointer to the next cell in the last bytes;   *)
(* or with nothing but the pointer left in the cell.  Only a pointer       *)
(* reaches the end of its cell.  The calls for header and data that follow *)
(* one another in a cell are one call here.                                *)
PacketCalls(shape, old, new, index) ==
    CASE shape = "inside" -> <<Call(old, FALSE, index)>>
      [] shape = "split"  -> <<Call(old, FALSE, index), Call(old, TRUE, FALSE),
                               Call(new, FALSE, FALSE)>>
      [] shape = "exact"  -> <<Call(old, TRUE, FALSE), Call(new, FALSE, index)>>

(* One packet of a burst: getOffset, addPacket and the start of            *)
(* writePacketToPacketBuffer, which takes the next cell when the packet    *)
(* does not fit.  A packet of a new flow is indexed, another one is linked *)
(* to the last packet of its flow, here one in this or the last cell.      *)
ReadPacket(r) ==
    /\ r \in Busy /\ running[r] = "running" /\ calls[r] = <<>>
    /\ \E shape \in Shapes, link \in {<<>>} \cup {<<LinkCall(c)>> : c \in FlowCells(r)} :
         LET old   == writeCell[r]
             new   == IF shape = "inside" THEN old ELSE diskWriteCell
             index == link = <<>>
             cell  == IF shape = "exact" THEN new ELSE old
         IN  /\ index => packet_counts[SlotOf(BlockOf(cell))][r] < MaxCount
             /\ ~index => Chained(link[1].cell, old)
             /\ calls' = [calls EXCEPT ![r] = PacketCalls(shape, old, new, index) \o link]
             /\ writeCell' = [writeCell EXCEPT ![r] = new]
             /\ IF shape = "inside"
                THEN UNCHANGED <<diskWriteCell, lastCell>>
                ELSE /\ diskWriteCell' = (diskWriteCell + 1) % (N * R)
                     /\ lastCell' = [lastCell EXCEPT ![r] = IF "last" \in Links THEN old ELSE @]
    /\ UNCHANGED <<bufferVars, copying, running, managerVars, agentVars,
                   phase, errors, historyVars>>

(* writeBlock returned false: the reader calls it again at once.           *)
WriteRefused(r) ==
    /\ calls[r] # <<>> /\ ~copying[r] /\ ~Head(calls[r]).link
    /\ RefuseWrite(r, Head(calls[r]).cell, Head(calls[r]).end)
    /\ UNCHANGED <<readerVars, managerVars, agentVars, phase, errors, historyVars>>

WriteAccepted(r) ==
    /\ calls[r] # <<>> /\ ~copying[r] /\ ~Head(calls[r]).link
    /\ AcceptWrite(r, Head(calls[r]).cell, Head(calls[r]).end)
    /\ copying' = [copying EXCEPT ![r] = TRUE]
    /\ UNCHANGED <<diskWriteCell, writeCell, lastCell, calls, running,
                   managerVars, agentVars, phase, errors, historyVars>>

WriteCopied(r) ==
    /\ calls[r] # <<>> /\ copying[r] /\ ~Head(calls[r]).link
    /\ LET c == Head(calls[r]) IN
         /\ PublishWrite(r, c.cell, c.end, c.index)
         /\ dirty' = dirty \cup {SlotOf(BlockOf(c.cell))}
    /\ calls' = [calls EXCEPT ![r] = Tail(@)]
    /\ copying' = [copying EXCEPT ![r] = FALSE]
    /\ UNCHANGED <<diskWriteCell, writeCell, lastCell, running,
                   managerVars, agentVars, phase, errors, doubled>>

(* writeBefore: one attempt, nothing published, the result ignored.        *)
LinkBefore(r) ==
    /\ calls[r] # <<>> /\ Head(calls[r]).link
    /\ IF copying[r] \/ ~WriteFits(Head(calls[r]).cell, FALSE)
       THEN /\ calls' = [calls EXCEPT ![r] = Tail(@)]
            /\ copying' = [copying EXCEPT ![r] = FALSE]
       ELSE /\ copying' = [copying EXCEPT ![r] = TRUE]
            /\ UNCHANGED calls
    /\ UNCHANGED <<bufferVars, diskWriteCell, writeCell, lastCell, running,
                   managerVars, agentVars, phase, errors, historyVars>>

(* stop is looked at between bursts only, not in the retry loops.          *)
ReaderReturns(r) ==
    /\ phase.part = "readers" /\ running[r] = "running" /\ calls[r] = <<>>
    /\ running' = [running EXCEPT ![r] = "returned"]
    /\ UNCHANGED <<bufferVars, diskWriteCell, writeCell, lastCell, calls, copying,
                   managerVars, agentVars, phase, errors, historyVars>>

-----------------------------------------------------------------------------
(* Disk managers                                                           *)

Stopped(part, t) == phase.part = part /\ phase.id = t

(* A write of slot s is submitted and s not yet recycled.                  *)
Submitted(s) ==
    \E t \in Managers : \/ \E i \in DOMAIN ring[t] : ring[t][i] = s
                        \/ \E i \in DOMAIN completed[t] : completed[t][i].slot = s

(* Slot s was taken by getBlock and has not been recycled.                 *)
HandedOver(s) ==
    \/ Submitted(s)
    \/ \E t \in Managers : mpc[t] = "submit" /\ taken[t].slot = s

(* runData finds a block that every reader has left; after stop, one that  *)
(* some reader has reached, or returns when there is none.                 *)
FindBlock(t) ==
    /\ mpc[t] = "check"
    /\ IF Stopped("managers", t)
       THEN mpc' = [mpc EXCEPT ![t] = IF DirectGetBlockID(t) THEN "get" ELSE "returned"]
       ELSE CheckBlock(t) /\ mpc' = [mpc EXCEPT ![t] = "get"]
    /\ UNCHANGED <<bufferVars, readerVars, taken, agentVars,
                   phase, errors, historyVars>>

TakeBlock(t) ==
    /\ mpc[t] = "get"
    /\ taken' = [taken EXCEPT ![t] = BlockTaken(t)]
    /\ dirty' = dirty \ {block_check_ids[t]}
    /\ doubled' = (doubled \/ HandedOver(block_check_ids[t]))
    /\ GetBlock(t)
    /\ mpc' = [mpc EXCEPT ![t] = "submit"]
    /\ UNCHANGED <<readerVars, agentVars, phase, errors>>

Fails(kind) ==
    /\ kind \in Failures /\ Cardinality(errors) < MaxErrors
    /\ errors' = errors \cup {kind}

(* addBlock: asyncWrite, or the slot given back unwritten when there is no *)
(* free submission entry or the submission fails.  In the latter case the  *)
(* entry is in the submission queue already, which a kernel thread polls   *)
(* (IORING_SETUP_SQPOLL), and is written all the same.                     *)
AddBlock(t) ==
    /\ mpc[t] = "submit"
    /\ mpc' = [mpc EXCEPT ![t] = "check"]
    /\ taken' = [taken EXCEPT ![t] = Nothing]
    /\ LET s == taken[t].slot
           enters == /\ Len(ring[t]) + Len(completed[t]) < Depth
                     /\ ring' = [ring EXCEPT ![t] = Append(@, s)]
       IN  \/ enters /\ UNCHANGED <<bufferVars, errors>>
           \/ Fails("no_sqe") /\ UNCHANGED ring /\ RecycleBlock(s)
           \/ Fails("submit") /\ enters /\ RecycleBlock(s)
    /\ UNCHANGED <<readerVars, completed, recycling, phase, historyVars>>

-----------------------------------------------------------------------------
(* The kernel and the memory managers                                      *)

Without(seq, i) == SubSeq(seq, 1, i - 1) \o SubSeq(seq, i + 1, Len(seq))

(* The kernel finishes any of the submitted writes.                        *)
KernelCompletes(t) ==
    /\ \E i \in DOMAIN ring[t], ok \in BOOLEAN :
         /\ IF ok THEN UNCHANGED errors ELSE Fails("disk")
         /\ ring' = [ring EXCEPT ![t] = Without(@, i)]
         /\ completed' = [completed EXCEPT ![t] = Append(@, [slot |-> ring[t][i], ok |-> ok])]
    /\ UNCHANGED <<bufferVars, readerVars, managerVars, recycling, phase, historyVars>>

(* What processCompletions returns a slot for: a failed write is reported  *)
(* but never marked as seen, so it stays at the head of the queue.         *)
CompletionReady(t) == completed[t] # <<>> /\ Head(completed[t]).ok

(* jobFinished; whether the kernel thread has picked up the submitted      *)
(* entries is not modelled.                                                *)
JobFinished(t) == completed[t] = <<>>

Recycle(t) ==
    /\ recycling[t] /\ ~Stopped("recyclers", t)
    /\ CompletionReady(t)
    /\ RecycleBlock(Head(completed[t]).slot)
    /\ completed' = [completed EXCEPT ![t] = Tail(@)]
    /\ UNCHANGED <<readerVars, managerVars, ring, recycling, phase, errors, historyVars>>

(* After stop the completions are taken without recycling; run() returns   *)
(* when none is left, also while the kernel still works on a write.        *)
Discard(t) ==
    /\ recycling[t] /\ Stopped("recyclers", t)
    /\ CompletionReady(t)
    /\ completed' = [completed EXCEPT ![t] = Tail(@)]
    /\ UNCHANGED <<bufferVars, readerVars, managerVars, ring, recycling, phase, errors, historyVars>>

RecyclerReturns(t) ==
    /\ recycling[t] /\ Stopped("recyclers", t) /\ JobFinished(t)
    /\ recycling' = [recycling EXCEPT ![t] = FALSE]
    /\ UNCHANGED <<bufferVars, readerVars, managerVars, ring, completed, phase, errors, historyVars>>

-----------------------------------------------------------------------------
(* Controller::run reads a key, then threadsStop.                          *)
Stop ==
    /\ \/ /\ phase.part = "run" /\ \A r \in Readers : running[r] = "running"
          /\ phase' = Phase("readers", 0)
       \/ /\ phase.part = "readers" /\ \A r \in Readers : running[r] = "returned"
          /\ phase' = Phase("managers", 0)
       \/ /\ phase.part = "managers" /\ mpc[phase.id] = "returned"
          /\ phase' = IF phase.id + 1 < T THEN Phase("managers", phase.id + 1)
                                          ELSE Phase("recyclers", 0)
       \/ /\ phase.part = "recyclers" /\ ~recycling[phase.id]
          /\ phase' = IF phase.id + 1 < T THEN Phase("recyclers", phase.id + 1)
                                          ELSE Phase("query", 0)
    /\ UNCHANGED <<bufferVars, readerVars, managerVars, agentVars, errors, historyVars>>

Reader(r) == \/ ReaderStarts(r) \/ ReadPacket(r) \/ WriteRefused(r) \/ WriteAccepted(r)
             \/ WriteCopied(r) \/ LinkBefore(r) \/ ReaderReturns(r)
Manager(t) == FindBlock(t) \/ TakeBlock(t) \/ AddBlock(t)
MemoryManager(t) == Recycle(t) \/ Discard(t) \/ RecyclerReturns(t)

Next ==
    \/ \E r \in Readers : Reader(r)
    \/ \E t \in Managers : Manager(t) \/ KernelCompletes(t) \/ MemoryManager(t)
    \/ Stop

Spec == Init /\ [][Next]_vars

(* Every thread keeps running and the kernel completes every write.        *)
Fairness ==
    /\ \A r \in Readers : WF_vars(Reader(r))
    /\ \A t \in Managers : /\ WF_vars(Manager(t))
                           /\ WF_vars(KernelCompletes(t))
                           /\ WF_vars(MemoryManager(t))
    /\ WF_vars(Stop /\ phase.part # "run")

FairSpec == Spec /\ Fairness

-----------------------------------------------------------------------------
TypeOK ==
    /\ BufferTypeOK
    /\ diskWriteCell \in Cells
    /\ writeCell \in [Readers -> Cells]
    /\ lastCell \in [Readers -> Cells]
    /\ calls \in [Readers -> Seq(CallSet)]
    /\ copying \in [Readers -> BOOLEAN]
    /\ running \in [Readers -> {"new", "running", "returned"}]
    /\ mpc \in [Managers -> {"check", "get", "submit", "returned"}]
    /\ taken \in [Managers -> BlockSet]
    /\ ring \in [Managers -> Seq(Slots)]
    /\ completed \in [Managers -> Seq([slot : Slots, ok : BOOLEAN])]
    /\ recycling \in [Managers -> BOOLEAN]
    /\ phase \in Phases
    /\ errors \subseteq AllFailures
    /\ dirty \subseteq Slots
    /\ doubled \in BOOLEAN

(* A slot only ever holds the disk blocks that writeBlock and recycleBlock *)
(* agree to put there: those congruent to it.                              *)
SlotsKeepResidue == \A s \in Slots : block_disk_id[s] % B = s

(* After a failed submission the block is written and its slot recycled    *)
(* twice (see AddBlock): only the two invariants above survive that.  The  *)
(* properties below are about runs without one.                            *)
NoLostSubmit == "submit" \notin errors

(* While a reader copies new data, the slot holds the block the data is    *)
(* for and no disk manager has taken it (writeBlock against getBlock and   *)
(* recycleBlock, with no lock between them).                               *)
NewDataReachesDisk ==
    NoLostSubmit => \A r \in Readers : copying[r] /\ ~Head(calls[r]).link =>
        LET d == BlockOf(Head(calls[r]).cell)
        IN  Resident(d) /\ ~HandedOver(SlotOf(d))

Capturing == phase.part \in {"run", "readers"}

(* While packets are captured, a block is dumped only when all its cells   *)
(* have been given out and no reader has anything left to write in it.     *)
OnlyFinishedBlocksTaken ==
    NoLostSubmit /\ Capturing => \A t \in Managers : mpc[t] = "submit" =>
        LET d == taken[t].write_pos IN
        /\ (BlockOf(diskWriteCell) + N - d) % N \in 1 .. 2 * B
        /\ \A r \in Readers :
             /\ BlockOf(writeCell[r]) # d
             /\ \A i \in DOMAIN calls[r] :
                  ~calls[r][i].link => BlockOf(calls[r][i].cell) # d

(* While packets are captured, a block is dumped once: its slot is not     *)
(* taken again before the memory manager has recycled it.                  *)
TakenOnce == NoLostSubmit /\ Capturing => ~doubled

(* While packets are captured, the end time stored with a block was taken  *)
(* while this block or the one before it was filled, not a lap earlier.    *)
EndTimeFresh ==
    NoLostSubmit /\ Capturing => \A t \in Managers : mpc[t] = "submit" =>
        LET b == taken[t] IN b.end_time \in {b.write_pos, (b.write_pos + N - 1) % N}

(* When the disk managers have returned, every block with captured data    *)
(* has been handed to the disk: stopping loses no packet.                  *)
DrainLeavesNothing ==
    NoLostSubmit /\ (\A t \in Managers : mpc[t] = "returned") => dirty = {}

(* A block a reader has packets for has not been passed over: its slot     *)
(* holds this block or comes to it later.                                  *)
NoBlockSkipped ==
    NoLostSubmit => \A r \in Readers : \A i \in DOMAIN calls[r] :
        LET d == BlockOf(calls[r][i].cell) IN
        ~calls[r][i].link => (d + N - block_disk_id[SlotOf(d)]) % N <= 2 * B

(* No step gives a slot to its next disk block while it holds data that    *)
(* no disk manager has taken.                                              *)
NoUnsavedRecycled ==
    [][NoLostSubmit =>
        \A s \in Slots : block_disk_id'[s] # block_disk_id[s] => s \notin dirty]_vars

(* While the capture goes on and every queue receives packets, no reader   *)
(* retries writeBlock forever.                                             *)
WritersProgress ==
    \A r \in Readers : calls[r] # <<>> ~> (calls[r] = <<>> \/ phase.part # "run")

(* A key press ends the capture: threadsStop returns and queries begin.    *)
StopTerminates == phase.part = "readers" ~> phase.part = "query"
=============================================================================
