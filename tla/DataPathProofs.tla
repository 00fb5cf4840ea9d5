---------------------------- MODULE DataPathProofs ----------------------------
(***************************************************************************)
(* What holds of the data path for every size of disk and cache, number of *)
(* capture threads and disk managers, and delay: first the types and what  *)
(* holds for any delay, then why no captured packet is overwritten, dumped *)
(* too early or dumped twice when the hypothesis Delayed holds, and why    *)
(* stopping leaves none behind when besides the slots are SlotsOwned.      *)
(*                                                                         *)
(* The second argument follows the positions the threads would have if the *)
(* disk never came round: W is the next cell to give out; reader r fills   *)
(* cell w[r] after it has made its n[r] remaining calls in cell o[r], and  *)
(* has published block p[r]; slot s holds block a[s]; disk manager t comes *)
(* to block c[t] next.                                                     *)
(***************************************************************************)
EXTENDS DataPath, ModularArithmetic, SequenceTheorems, FiniteSetTheorems, TLAPS

(* The linear part of the assumption, and what it says of slot 0.          *)
LEMMA Sizes ==
    /\ N \in Nat /\ B \in Nat /\ R \in Nat /\ T \in Nat /\ D \in Nat
    /\ 0 < N /\ 0 < B /\ 0 < R /\ 0 < T /\ R <= B /\ T <= B /\ 4 * B < N
    /\ 0 \in Slots /\ 0 \in DiskIds /\ Slots \subseteq DiskIds
BY BufferAssumption DEF Slots, DiskIds

(* Positions are never computed outside the disk: the remainders of        *)
(* writeBlock, getBlock and recycleBlock are block and slot numbers.       *)
LEMMA ModRange ==
    ASSUME NEW x \in Nat
    PROVE  x % N \in DiskIds /\ x % B \in Slots
BY BufferAssumption DEF DiskIds, Slots

(* The disk has a positive number of cells.                                *)
LEMMA CellCount == N * R \in Nat \ {0}
BY BufferAssumption

(* A cell number reduced modulo the number of cells is a cell.             *)
LEMMA CellMod ==
    ASSUME NEW x \in Nat
    PROVE  x % (N * R) \in Cells
<1> DEFINE m == N * R
<1>1. m \in Nat \ {0}
  BY CellCount
<1> HIDE DEF m
<1>2. x % m \in 0 .. (m - 1)
  BY <1>1
<1> QED
  BY <1>2 DEF m, Cells

(* The cell counter stays a cell when it is moved on.                      *)
LEMMA NextCell ==
    ASSUME NEW c \in Cells
    PROVE  (c + 1) % (N * R) \in Cells
<1>1. c + 1 \in Nat
  BY CellCount DEF Cells
<1> QED
  BY <1>1, CellMod

(* A cell number divided by the cells of a block is a block of the disk.   *)
LEMMA BlockOfCell ==
    ASSUME NEW c \in Cells
    PROVE  BlockOf(c) \in DiskIds
<1> DEFINE q == c \div R
<1>1. c \in Nat /\ c < N * R
  BY CellCount DEF Cells
<1>2. q \in Nat /\ R * q <= c
  BY <1>1, BufferAssumption
<1>3. q < N
  <2>1. SUFFICES ASSUME q >= N PROVE FALSE
    BY <1>2, BufferAssumption
  <2>2. R * q >= R * N
    BY <1>2, <2>1, BufferAssumption
  <2> QED
    BY <1>1, <1>2, <2>2, BufferAssumption
<1> QED
  BY <1>2, <1>3, BufferAssumption DEF BlockOf, DiskIds

(* The block a writeBlock call ends in is a block of the disk.             *)
LEMMA FinalBlockType ==
    ASSUME NEW c \in Cells, NEW e \in BOOLEAN
    PROVE  FinalBlock(c, e) \in DiskIds
<1>1. BlockOf(c) \in DiskIds /\ BlockOf(c) + 1 \in Nat
  BY BlockOfCell, BufferAssumption DEF DiskIds
<1>2. (BlockOf(c) + 1) % N \in DiskIds
  BY <1>1, ModRange
<1> QED
  BY <1>1, <1>2 DEF FinalBlock

(* Every disk block has a slot of the cache.                               *)
LEMMA SlotOfType ==
    ASSUME NEW d \in DiskIds
    PROVE  SlotOf(d) \in Slots
<1>1. d \in Nat
  BY BufferAssumption DEF DiskIds
<1> QED
  BY <1>1, ModRange DEF SlotOf

-----------------------------------------------------------------------------
USE DEF Managers, Readers

(* The times an accepted or refused writeBlock stores are well typed.      *)
LEMMA WriteTypes ==
    ASSUME BufferTypeOK, NEW r \in Readers, NEW c \in Cells, NEW e \in BOOLEAN
    PROVE  /\ RefusedBlock(c, e) \in DiskIds
           /\ EndTimes(c, e, TRUE) \in [Slots -> DiskIds \cup {NoTime}]
           /\ EndTimes(c, e, FALSE) \in [Slots -> DiskIds \cup {NoTime}]
           /\ StartTimes(c, e) \in [Slots -> DiskIds \cup {NoTime}]
<1> DEFINE b == BlockOf(c)
<1>1. b \in DiskIds /\ FinalBlock(c, e) \in DiskIds
  BY BlockOfCell, FinalBlockType
<1>2. SlotOf(b) \in Slots /\ SlotOf(FinalBlock(c, e)) \in Slots
  BY <1>1, SlotOfType
<1>3. (SlotOf(FinalBlock(c, e)) + 1) % B \in Slots
  <2>1. SlotOf(FinalBlock(c, e)) + 1 \in Nat
    BY <1>2, BufferAssumption DEF Slots
  <2> QED
    BY <2>1, ModRange
<1> HIDE DEF b
<1>4. RefusedBlock(c, e) \in DiskIds
  BY <1>1 DEF RefusedBlock, b
<1>5. \A fits \in BOOLEAN : EndTimes(c, e, fits) \in [Slots -> DiskIds \cup {NoTime}]
  BY <1>1, <1>2 DEF EndTimes, BufferTypeOK, b
<1>6. StartTimes(c, e) \in [Slots -> DiskIds \cup {NoTime}]
  <2> DEFINE TS == DiskIds \cup {NoTime}
             g == SlotOf(FinalBlock(c, e))
             entered == IF Spills(c, e)
                        THEN [start_times EXCEPT ![g] = First(start_times[g], b)] ELSE start_times
             n == (g + 1) % B
  <2>1. start_times \in [Slots -> TS] /\ \A x \in TS : First(x, b) \in TS
    BY <1>1 DEF First, BufferTypeOK, b
  <2>2. g \in Slots /\ n \in Slots
    BY <1>2, <1>3
  <2>3. StartTimes(c, e) = IF e THEN [entered EXCEPT ![n] = First(entered[n], b)] ELSE entered
    BY DEF StartTimes, b
  <2> HIDE DEF TS, g, n
  <2>4. entered \in [Slots -> TS]
    BY <2>1, <2>2
  <2> HIDE DEF entered
  <2>5. [entered EXCEPT ![n] = First(entered[n], b)] \in [Slots -> TS]
    BY <2>1, <2>2, <2>4
  <2> QED
    BY <2>3, <2>4, <2>5 DEF TS
<1> QED
  BY <1>4, <1>5, <1>6

(* The sequences of at most three calls that a packet leads to.            *)
LEMMA ShortSeqs ==
    ASSUME NEW S, NEW a \in S, NEW b \in S, NEW c \in S
    PROVE  /\ <<a>> \in Seq(S) /\ <<a, b>> \in Seq(S) /\ <<a, b, c>> \in Seq(S)
           /\ <<>> \in Seq(S)
OBVIOUS

(* The calls a packet leads to are calls on cells of the disk.             *)
LEMMA PacketCallsType ==
    ASSUME NEW old \in Cells, NEW new \in Cells, NEW index \in BOOLEAN,
           NEW shape \in AllShapes
    PROVE  PacketCalls(shape, old, new, index) \in Seq(CallSet)
<1>1. \A c \in Cells, e, i \in BOOLEAN : Call(c, e, i) \in CallSet
  BY DEF Call, CallSet
<1> HIDE DEF CallSet
<1>2. CASE shape = "inside"
  <2>1. PacketCalls(shape, old, new, index) = <<Call(old, FALSE, index)>>
    BY <1>2 DEF PacketCalls
  <2> QED
    BY <1>1, <2>1, ShortSeqs
<1>3. CASE shape = "split"
  <2>1. PacketCalls(shape, old, new, index) =
          <<Call(old, FALSE, index), Call(old, TRUE, FALSE), Call(new, FALSE, FALSE)>>
    BY <1>3 DEF PacketCalls
  <2>2. /\ Call(old, FALSE, index) \in CallSet /\ Call(old, TRUE, FALSE) \in CallSet
        /\ Call(new, FALSE, FALSE) \in CallSet
    BY <1>1
  <2> QED
    BY <2>1, <2>2, ShortSeqs
<1>4. CASE shape = "exact"
  <2>1. PacketCalls(shape, old, new, index) =
          <<Call(old, TRUE, FALSE), Call(new, FALSE, index)>>
    BY <1>4 DEF PacketCalls
  <2> QED
    BY <1>1, <2>1, ShortSeqs
<1> QED
  BY <1>2, <1>3, <1>4 DEF AllShapes

(* The constructors leave a well typed state.                              *)
LEMMA TypeInit == Init => TypeOK
<1> SUFFICES ASSUME Init PROVE TypeOK
  OBVIOUS
<1>1. BufferTypeOK
  <2>1. Slots \subseteq DiskIds /\ Readers \subseteq DiskIds /\ Managers \subseteq Slots
    BY BufferAssumption DEF Slots, DiskIds
  <2> QED
    BY <2>1 DEF Init, BufferInit, BufferTypeOK
<1>2. 0 \in Cells /\ 0 \in Slots /\ 0 \in DiskIds
  BY CellCount, BufferAssumption DEF Cells, Slots, DiskIds
<1>3. Nothing \in BlockSet
  BY <1>2 DEF Nothing, BlockSet
<1>4. phase \in Phases
  BY BufferAssumption DEF Init, Phases, Phase
<1>5. /\ ring \in [Managers -> Seq(Slots)]
      /\ completed \in [Managers -> Seq([slot : Slots, ok : BOOLEAN])]
      /\ calls \in [Readers -> Seq(CallSet)]
  BY DEF Init
<1> QED
  BY <1>1, <1>2, <1>3, <1>4, <1>5 DEF Init, TypeOK

(* Every step of a capture thread keeps the types.                         *)
LEMMA ReaderTypes ==
    ASSUME TypeOK, NEW r \in Readers, Reader(r)
    PROVE  TypeOK'
<1> USE DEF TypeOK
<1>1. CASE ReaderStarts(r)
  <2>1. (diskWriteCell + 1) % (N * R) \in Cells
    BY NextCell
  <2> QED
    BY <1>1, <2>1 DEF ReaderStarts, bufferVars, managerVars, agentVars, historyVars,
                      BufferTypeOK
<1>2. CASE ReadPacket(r)
  <2>1. (diskWriteCell + 1) % (N * R) \in Cells
    BY NextCell
  <2>2. PICK shape \in Shapes,
             link \in {<<>>} \cup {<<LinkCall(c)>> : c \in FlowCells(r)} :
          LET old == writeCell[r]
              new == IF shape = "inside" THEN old ELSE diskWriteCell
          IN  /\ calls' = [calls EXCEPT ![r] =
                              PacketCalls(shape, old, new, link = <<>>) \o link]
              /\ writeCell' = [writeCell EXCEPT ![r] = new]
              /\ IF shape = "inside"
                 THEN UNCHANGED <<diskWriteCell, lastCell>>
                 ELSE /\ diskWriteCell' = (diskWriteCell + 1) % (N * R)
                      /\ lastCell' = [lastCell EXCEPT ![r] =
                                         IF "last" \in Links THEN old ELSE @]
    BY <1>2 DEF ReadPacket
  <2>3. link \in Seq(CallSet)
    <3>1. FlowCells(r) \subseteq Cells
      BY DEF FlowCells
    <3>2. \A x \in Cells : LinkCall(x) \in CallSet
      BY DEF LinkCall, CallSet
    <3>3. CASE link = <<>>
      BY <3>3
    <3>4. CASE link \in {<<LinkCall(x)>> : x \in FlowCells(r)}
      <4>1. PICK x \in FlowCells(r) : link = <<LinkCall(x)>>
        BY <3>4
      <4>2. LinkCall(x) \in CallSet
        BY <3>1, <3>2
      <4> QED
        BY <4>1, <4>2, ShortSeqs
    <3> QED
      BY <3>3, <3>4
  <2>4. shape \in AllShapes /\ writeCell[r] \in Cells /\ diskWriteCell \in Cells
    BY PathAssumption
  <2>5. calls' \in [Readers -> Seq(CallSet)]
    <3> DEFINE new == IF shape = "inside" THEN writeCell[r] ELSE diskWriteCell
               p   == PacketCalls(shape, writeCell[r], new, link = <<>>)
    <3>1. p \in Seq(CallSet)
      BY <2>4, PacketCallsType
    <3>2. p \o link \in Seq(CallSet)
      BY <3>1, <2>3, ConcatProperties
    <3>3. calls' = [calls EXCEPT ![r] = p \o link]
      BY <2>2
    <3> QED
      BY <3>2, <3>3
  <2>6. /\ diskWriteCell' \in Cells
        /\ writeCell' \in [Readers -> Cells] /\ lastCell' \in [Readers -> Cells]
    BY <2>1, <2>2, <2>4
  <2> QED
    BY <1>2, <2>5, <2>6 DEF ReadPacket, bufferVars, managerVars, agentVars, historyVars,
                            BufferTypeOK
<1> DEFINE c == Head(calls[r])
<1>0. ASSUME calls[r] # <<>>
      PROVE  /\ c \in CallSet /\ c.cell \in Cells /\ c.end \in BOOLEAN
             /\ Tail(calls[r]) \in Seq(CallSet)
  <2>1. calls[r] \in Seq(CallSet)
    OBVIOUS
  <2>2. c \in CallSet /\ Tail(calls[r]) \in Seq(CallSet)
    BY <1>0, <2>1, HeadTailProperties
  <2> QED
    BY <2>2 DEF CallSet
<1>3. CASE WriteRefused(r)
  <2>1. RefusedBlock(c.cell, c.end) \in DiskIds
        /\ EndTimes(c.cell, c.end, FALSE) \in [Slots -> DiskIds \cup {NoTime}]
    BY <1>3, <1>0, WriteTypes DEF WriteRefused
  <2>2. BufferTypeOK'
    BY <1>3, <2>1 DEF WriteRefused, RefuseWrite, BufferTypeOK
  <2> QED
    BY <1>3, <2>2 DEF WriteRefused, readerVars, managerVars, agentVars, historyVars
<1>4. CASE WriteAccepted(r)
  <2>1. /\ EndTimes(c.cell, c.end, TRUE) \in [Slots -> DiskIds \cup {NoTime}]
        /\ StartTimes(c.cell, c.end) \in [Slots -> DiskIds \cup {NoTime}]
    BY <1>4, <1>0, WriteTypes DEF WriteAccepted
  <2>2. BufferTypeOK'
    BY <1>4, <2>1 DEF WriteAccepted, AcceptWrite, BufferTypeOK
  <2> QED
    BY <1>4, <2>2 DEF WriteAccepted, managerVars, agentVars, historyVars
<1>5. CASE WriteCopied(r)
  <2>0. calls[r] # <<>>
    BY <1>5 DEF WriteCopied
  <2>1. /\ FinalBlock(c.cell, c.end) \in DiskIds
        /\ SlotOf(BlockOf(c.cell)) \in Slots
    <3>1. c.cell \in Cells /\ c.end \in BOOLEAN
      BY <2>0, <1>0
    <3> QED
      BY <3>1, FinalBlockType, BlockOfCell, SlotOfType
  <2>2. BufferTypeOK'
    <3> DEFINE s == SlotOf(BlockOf(c.cell))
    <3>1. disk_write_ids' \in [Readers -> DiskIds]
      BY <1>5, <2>1 DEF WriteCopied, PublishWrite, BufferTypeOK
    <3>2. packet_counts[s] \in [Readers -> Nat] /\ packet_counts[s][r] + 1 \in Nat
      <4>1. packet_counts \in [Slots -> [Readers -> Nat]] /\ s \in Slots
        BY <2>1 DEF BufferTypeOK
      <4> HIDE DEF s, Readers
      <4>2. packet_counts[s] \in [Readers -> Nat]
        BY <4>1
      <4>3. packet_counts[s][r] \in Nat
        BY <4>2
      <4> QED
        BY <4>2, <4>3
    <3>3. packet_counts' \in [Slots -> [Readers -> Nat]]
      <4> DEFINE f == [packet_counts[s] EXCEPT ![r] = packet_counts[s][r] + 1]
      <4>1. f \in [Readers -> Nat]
        BY <3>2
      <4>2. packet_counts' = packet_counts \/ packet_counts' = [packet_counts EXCEPT ![s] = f]
        BY <1>5 DEF WriteCopied, PublishWrite
      <4> HIDE DEF f
      <4> QED
        BY <2>1, <4>1, <4>2 DEF BufferTypeOK
    <3> QED
      BY <1>5, <3>1, <3>3 DEF WriteCopied, PublishWrite, BufferTypeOK
  <2>3. calls' \in [Readers -> Seq(CallSet)]
    BY <1>5, <2>0, <1>0 DEF WriteCopied
  <2> QED
    BY <1>5, <2>1, <2>2, <2>3 DEF WriteCopied, managerVars, agentVars
<1>6. CASE LinkBefore(r)
  <2>1. calls' \in [Readers -> Seq(CallSet)]
    BY <1>6, <1>0 DEF LinkBefore
  <2> QED
    BY <1>6, <2>1 DEF LinkBefore, bufferVars, managerVars, agentVars, historyVars,
                      BufferTypeOK
<1>7. CASE ReaderReturns(r)
  BY <1>7 DEF ReaderReturns, bufferVars, managerVars, agentVars, historyVars,
              BufferTypeOK
<1> QED
  BY <1>1, <1>2, <1>3, <1>4, <1>5, <1>6, <1>7 DEF Reader

(* recycleBlock gives a slot a block of the disk.                          *)
LEMMA RecycleTypes ==
    ASSUME BufferTypeOK, NEW s \in Slots, RecycleBlock(s)
    PROVE  BufferTypeOK'
<1>1. block_disk_id[s] + B \in Nat
  BY SMTT(30), BufferAssumption DEF BufferTypeOK, DiskIds
<1>2. (block_disk_id[s] + B) % N \in DiskIds
  BY <1>1, ModRange
<1> QED
  BY <1>2 DEF RecycleBlock, GiveSlot, BufferTypeOK

(* Taking one write out of the ring leaves a ring of writes.               *)
LEMMA WithoutType ==
    ASSUME NEW S, NEW q \in Seq(S), NEW i \in DOMAIN q
    PROVE  Without(q, i) \in Seq(S)
<1>1. i \in 1 .. Len(q)
  OBVIOUS
<1>2. SubSeq(q, 1, i - 1) \in Seq(S) /\ SubSeq(q, i + 1, Len(q)) \in Seq(S)
  BY <1>1, SubSeqProperties
<1> QED
  BY <1>2, ConcatProperties DEF Without

(* Every step of a disk manager keeps the types.                           *)
LEMMA ManagerTypes ==
    ASSUME TypeOK, NEW t \in Managers, Manager(t)
    PROVE  TypeOK'
<1> USE DEF TypeOK
<1>1. CASE FindBlock(t)
  BY <1>1 DEF FindBlock, bufferVars, readerVars, agentVars, historyVars, BufferTypeOK
<1>2. CASE TakeBlock(t)
  <2>1. block_check_ids[t] \in Slots /\ block_check_ids[t] + T \in Nat
    <3>1. block_check_ids[t] \in Slots
      BY DEF BufferTypeOK
    <3> QED
      BY SMTT(30), <3>1, Sizes DEF Slots
  <2>2. (block_check_ids[t] + T) % B \in Slots
    BY <2>1, ModRange
  <2>3. BufferTypeOK'
    BY <1>2, <2>1, <2>2 DEF TakeBlock, GetBlock, BufferTypeOK
  <2>4. BlockTaken(t) \in BlockSet
    BY <2>1 DEF BlockTaken, BlockSet, BufferTypeOK
  <2>5. doubled' \in BOOLEAN /\ dirty' \subseteq Slots
    BY <1>2 DEF TakeBlock, HandedOver, Submitted
  <2> QED
    BY <1>2, <2>3, <2>4, <2>5 DEF TakeBlock, readerVars, agentVars
<1>3. CASE AddBlock(t)
  <2> DEFINE s == taken[t].slot
  <2>1. s \in Slots
    BY DEF BlockSet
  <2>2. 0 \in Slots /\ 0 \in DiskIds
    BY Sizes
  <2>3. taken' \in [Managers -> BlockSet]
    BY <1>3, <2>2 DEF AddBlock, Nothing, BlockSet
  <2>4. Append(ring[t], s) \in Seq(Slots)
    BY <2>1, AppendProperties
  <2>5. ring' \in [Managers -> Seq(Slots)]
    BY <1>3, <2>4 DEF AddBlock
  <2>6. BufferTypeOK'
    <3>1. CASE UNCHANGED bufferVars
      BY <3>1 DEF bufferVars, BufferTypeOK
    <3>2. CASE RecycleBlock(s)
      BY <2>1, <3>2, RecycleTypes
    <3> QED
      BY <1>3, <3>1, <3>2 DEF AddBlock
  <2>7. errors' \subseteq AllFailures
    BY <1>3, PathAssumption DEF AddBlock, Fails
  <2> QED
    BY <1>3, <2>3, <2>5, <2>6, <2>7 DEF AddBlock, readerVars, historyVars
<1> QED
  BY <1>1, <1>2, <1>3 DEF Manager

(* Every step of the kernel, of a memory manager and of the controller.    *)
LEMMA OtherTypes ==
    ASSUME TypeOK,
           \/ \E t \in Managers : KernelCompletes(t) \/ MemoryManager(t)
           \/ Stop
    PROVE  TypeOK'
<1> USE DEF TypeOK
<1> DEFINE Done == [slot : Slots, ok : BOOLEAN]
<1>1. ASSUME NEW t \in Managers, KernelCompletes(t) PROVE TypeOK'
  <2>1. PICK i \in DOMAIN ring[t], ok \in BOOLEAN :
          /\ IF ok THEN UNCHANGED errors ELSE Fails("disk")
          /\ ring' = [ring EXCEPT ![t] = Without(@, i)]
          /\ completed' = [completed EXCEPT ![t] = Append(@, [slot |-> ring[t][i], ok |-> ok])]
    BY <1>1 DEF KernelCompletes
  <2>2. ring[t] \in Seq(Slots) /\ ring[t][i] \in Slots
    OBVIOUS
  <2>3. Without(ring[t], i) \in Seq(Slots)
    BY <2>2, WithoutType
  <2>4. Append(completed[t], [slot |-> ring[t][i], ok |-> ok]) \in Seq(Done)
    BY <2>2, AppendProperties
  <2>5. errors' \subseteq AllFailures
    BY <2>1, PathAssumption DEF Fails
  <2> QED
    BY <1>1, <2>1, <2>3, <2>4, <2>5 DEF KernelCompletes, bufferVars, readerVars, managerVars,
                                        historyVars, BufferTypeOK
<1>2. ASSUME NEW t \in Managers, completed[t] # <<>>
      PROVE  Tail(completed[t]) \in Seq(Done) /\ Head(completed[t]).slot \in Slots
  <2>1. completed[t] \in Seq(Done)
    OBVIOUS
  <2>2. Head(completed[t]) \in Done /\ Tail(completed[t]) \in Seq(Done)
    BY <1>2, <2>1, HeadTailProperties
  <2> QED
    BY <2>2
<1>3. ASSUME NEW t \in Managers, Recycle(t) PROVE TypeOK'
  <2>1. BufferTypeOK'
    BY <1>2, <1>3, RecycleTypes DEF Recycle, CompletionReady
  <2>2. completed' \in [Managers -> Seq(Done)]
    BY <1>2, <1>3 DEF Recycle, CompletionReady
  <2> QED
    BY <1>3, <2>1, <2>2 DEF Recycle, readerVars, managerVars, historyVars
<1>4. ASSUME NEW t \in Managers, Discard(t) PROVE TypeOK'
  <2>1. completed' \in [Managers -> Seq(Done)]
    BY <1>2, <1>4 DEF Discard, CompletionReady
  <2> QED
    BY <1>4, <2>1 DEF Discard, bufferVars, readerVars, managerVars, historyVars, BufferTypeOK
<1>5. ASSUME NEW t \in Managers, RecyclerReturns(t) PROVE TypeOK'
  BY <1>5 DEF RecyclerReturns, bufferVars, readerVars, managerVars, historyVars, BufferTypeOK
<1>6. CASE Stop
  <2>1. phase' \in Phases
    <3>1. phase.id \in Nat
      BY Sizes DEF Phases
    <3>2. 0 \in 0 .. B /\ (phase.id + 1 < T => phase.id + 1 \in 0 .. B)
      <4> DEFINE i == phase.id
      <4>1. i \in Nat
        BY <3>1
      <4> HIDE DEF i
      <4>2. 0 \in 0 .. B /\ (i + 1 < T => i + 1 \in 0 .. B)
        BY <4>1, Sizes
      <4> QED
        BY <4>2 DEF i
    <3> DEFINE Parts == {"run", "readers", "managers", "recyclers", "query"}
    <3>3. \A p \in Parts, i \in 0 .. B : Phase(p, i) \in Phases
      BY DEF Phases, Phase
    <3>4. /\ Phase("readers", 0) \in Phases /\ Phase("managers", 0) \in Phases
          /\ Phase("recyclers", 0) \in Phases /\ Phase("query", 0) \in Phases
      BY <3>2, <3>3
    <3>5. phase.id + 1 < T => /\ Phase("managers", phase.id + 1) \in Phases
                             /\ Phase("recyclers", phase.id + 1) \in Phases
      BY <3>2, <3>3
    <3> QED
      BY <1>6, <3>4, <3>5 DEF Stop
  <2> QED
    BY <1>6, <2>1 DEF Stop, bufferVars, readerVars, managerVars, agentVars, historyVars,
                      BufferTypeOK
<1> QED
  BY <1>1, <1>3, <1>4, <1>5, <1>6 DEF MemoryManager

(* The state is always well typed: no position, slot or cell number the    *)
(* threads compute ever leaves the disk or the cache.                      *)
THEOREM TypeCorrect == Spec => []TypeOK
<1>1. Init => TypeOK
  BY TypeInit
<1>2. TypeOK /\ [Next]_vars => TypeOK'
  <2> SUFFICES ASSUME TypeOK, [Next]_vars PROVE TypeOK'
    OBVIOUS
  <2>1. CASE UNCHANGED vars
    BY <2>1 DEF vars, bufferVars, readerVars, managerVars, agentVars, historyVars,
                TypeOK, BufferTypeOK
  <2>2. CASE Next
    BY <2>2, ReaderTypes, ManagerTypes, OtherTypes DEF Next
  <2> QED
    BY <2>1, <2>2
<1> QED
  BY <1>1, <1>2, PTL DEF Spec

-----------------------------------------------------------------------------
(* Multiples of the cache size: a number is its remainder plus a multiple, *)
(* and the remainder of a sum is not changed by a multiple.                *)
LEMMA Remainder ==
    ASSUME NEW d \in Nat
    PROVE  \E j \in Nat : d = (d % B) + j * B
<1> DEFINE q == d \div B
           m == d % B
<1>1. q \in Nat /\ m \in Nat /\ d = B * q + m
  BY Sizes
<1> HIDE DEF q, m
<1>2. d = m + q * B
  BY <1>1, Sizes
<1> QED
  BY <1>1, <1>2 DEF m

(* The remainder is determined by any such decomposition.                  *)
LEMMA RemainderUnique ==
    ASSUME NEW s \in Slots, NEW j \in Int, NEW x \in Nat, x = s + j * B
    PROVE  x % B = s
<1> DEFINE m == x % B
<1>1. s \in Nat /\ s < B
  BY Sizes DEF Slots
<1>2. PICK q \in Nat : x = m + q * B
  BY Remainder
<1>3. m \in Nat /\ m < B
  BY Sizes
<1> HIDE DEF m
<1>4. (j - q) * B = m - s
  BY <1>1, <1>2, <1>3, Sizes
<1>5. j - q = 0
  <2> DEFINE i == j - q
  <2>1. i \in Int
    OBVIOUS
  <2> HIDE DEF i
  <2>2. i * B < B /\ i * B > - B
    BY <1>1, <1>3, <1>4, Sizes DEF i
  <2>3. ~(i >= 1)
    <3>1. i >= 1 => i * B >= B
      BY <2>1, Sizes
    <3> QED
      BY <2>1, <2>2, <3>1, Sizes
  <2>4. ~(i <= -1)
    <3>1. i <= -1 => i * B <= - B
      BY <2>1, Sizes
    <3> QED
      BY <2>1, <2>2, <3>1, Sizes
  <2> QED
    BY <2>1, <2>3, <2>4 DEF i
<1> QED
  BY <1>1, <1>3, <1>4, <1>5, Sizes DEF m

(* recycleBlock keeps the residue, over the end of the disk too.           *)
LEMMA NextResidue ==
    ASSUME NEW s \in Slots, NEW d \in DiskIds, d % B = s
    PROVE  ((d + B) % N) % B = s
<1>1. d \in Nat /\ d < N
  BY Sizes DEF DiskIds
<1>2. PICK j \in Nat : d = s + j * B
  BY <1>1, Remainder
<1>3. PICK k \in 1 .. N : N = k * B
  BY BufferAssumption
<1>4. CASE d + B < N
  <2>1. (d + B) % N = d + B
    BY <1>1, <1>4, Sizes
  <2>2. d + B = s + (j + 1) * B /\ d + B \in Nat /\ j + 1 \in Int
    BY <1>1, <1>2, Sizes DEF Slots
  <2> QED
    BY <2>1, <2>2, RemainderUnique
<1>5. CASE d + B >= N
  <2>1. (d + B) % N = d + B - N /\ d + B - N \in Nat
    BY <1>1, <1>5, Sizes
  <2>2. d + B - N = s + (j + 1 - k) * B /\ j + 1 - k \in Int
    BY <1>2, <1>3, Sizes DEF Slots
  <2> QED
    BY <2>1, <2>2, RemainderUnique
<1> QED
  BY <1>1, <1>4, <1>5, Sizes

(* A step changes at most one slot's block, and by recycleBlock.           *)
LEMMA BlockStep ==
    ASSUME TypeOK, [Next]_vars
    PROVE  \/ UNCHANGED block_disk_id
           \/ \E s \in Slots : block_disk_id' = [block_disk_id EXCEPT ![s] = (block_disk_id[s] + B) % N]
<1>1. CASE UNCHANGED vars
  BY <1>1 DEF vars, bufferVars
<1>2. ASSUME NEW r \in Readers, Reader(r) PROVE UNCHANGED block_disk_id
  BY <1>2 DEF Reader, ReaderStarts, ReadPacket, WriteRefused, RefuseWrite, WriteAccepted,
              AcceptWrite, WriteCopied, PublishWrite, LinkBefore, ReaderReturns, bufferVars
<1>3. ASSUME NEW t \in Managers, FindBlock(t) \/ TakeBlock(t) PROVE UNCHANGED block_disk_id
  BY <1>3 DEF FindBlock, TakeBlock, GetBlock, bufferVars
<1>4. ASSUME NEW t \in Managers, AddBlock(t)
      PROVE  \/ UNCHANGED block_disk_id
             \/ \E s \in Slots : block_disk_id' = [block_disk_id EXCEPT ![s] = (block_disk_id[s] + B) % N]
  <2>1. taken[t].slot \in Slots
    BY DEF TypeOK, BlockSet
  <2>2. UNCHANGED block_disk_id \/ RecycleBlock(taken[t].slot)
    BY <1>4 DEF AddBlock, bufferVars
  <2> QED
    BY <2>1, <2>2 DEF RecycleBlock, GiveSlot
<1>5. ASSUME NEW t \in Managers, Recycle(t)
      PROVE  \E s \in Slots : block_disk_id' = [block_disk_id EXCEPT ![s] = (block_disk_id[s] + B) % N]
  <2> DEFINE Done == [slot : Slots, ok : BOOLEAN]
  <2>1. completed[t] \in Seq(Done) /\ completed[t] # <<>>
    BY <1>5 DEF TypeOK, Recycle, CompletionReady
  <2>2. Head(completed[t]) \in Done
    BY <2>1, HeadTailProperties
  <2> QED
    BY <1>5, <2>2 DEF Recycle, RecycleBlock, GiveSlot
<1>6. ASSUME NEW t \in Managers, KernelCompletes(t) \/ Discard(t) \/ RecyclerReturns(t)
      PROVE  UNCHANGED block_disk_id
  BY <1>6 DEF KernelCompletes, Discard, RecyclerReturns, bufferVars
<1>7. CASE Stop
  BY <1>7 DEF Stop, bufferVars
<1> QED
  BY <1>1, <1>2, <1>3, <1>4, <1>5, <1>6, <1>7 DEF Next, Manager, MemoryManager

(* Whatever the threads do, and however often the disk is written around,  *)
(* writeBlock and recycleBlock agree which slot a disk block belongs to.   *)
THEOREM ResidueCorrect == Spec => []SlotsKeepResidue
<1>1. Init => SlotsKeepResidue
  <2> SUFFICES ASSUME Init, NEW s \in Slots PROVE block_disk_id[s] % B = s
    BY DEF SlotsKeepResidue
  <2>1. block_disk_id[s] = s
    BY DEF Init, BufferInit
  <2> QED
    BY <2>1, Sizes DEF Slots
<1>2. TypeOK /\ SlotsKeepResidue /\ [Next]_vars => SlotsKeepResidue'
  <2> SUFFICES ASSUME TypeOK, SlotsKeepResidue, [Next]_vars, NEW s \in Slots
               PROVE  block_disk_id'[s] % B = s
    BY DEF SlotsKeepResidue
  <2>1. block_disk_id[s] \in DiskIds /\ block_disk_id[s] % B = s
    BY DEF TypeOK, BufferTypeOK, SlotsKeepResidue
  <2>2. CASE UNCHANGED block_disk_id
    BY <2>1, <2>2
  <2>3. ASSUME NEW x \in Slots,
               block_disk_id' = [block_disk_id EXCEPT ![x] = (block_disk_id[x] + B) % N]
        PROVE  block_disk_id'[s] % B = s
    <3>1. block_disk_id'[s] = IF s = x THEN (block_disk_id[s] + B) % N ELSE block_disk_id[s]
      BY <2>3 DEF TypeOK, BufferTypeOK
    <3> QED
      BY <2>1, <3>1, NextResidue
  <2> QED
    BY <2>2, <2>3, BlockStep
<1> QED
  BY <1>1, <1>2, TypeCorrect, PTL DEF Spec

-----------------------------------------------------------------------------
(* Positions that are not reduced modulo the disk.  The code keeps every   *)
(* cell, block and slot number modulo something; the proofs follow the     *)
(* same numbers as they would be if the disk never came round, and these   *)
(* lemmas lead from the one to the other.                                  *)
CellAt(x) == x % (N * R)    \* where cell x of the capture lies on the disk
DiskAt(y) == y % N          \* where block y of the capture lies on the disk
TurnOf(y) == y % T          \* the disk manager that dumps block y

-----------------------------------------------------------------------------
(* The cell counter and the block numbers count on over the disk's end.    *)
LEMMA CellNext ==
    ASSUME NEW x \in Nat
    PROVE  CellAt(x) \in Cells /\ CellAt(x + 1) = (CellAt(x) + 1) % (N * R)
<1> DEFINE m == N * R
<1>1. m \in Nat /\ 0 < m
  BY CellCount
<1> HIDE DEF m
<1>2. (x + 1) % m = ((x % m) + 1) % m
  BY <1>1, ModAdd
<1> QED
  BY <1>2, CellMod DEF CellAt, m

(* So do the blocks on the disk.                                           *)
LEMMA DiskAdd ==
    ASSUME NEW y \in Nat, NEW d \in Nat
    PROVE  DiskAt(y) \in DiskIds /\ DiskAt(y + d) = (DiskAt(y) + d) % N
BY Sizes, ModRange, ModAdd DEF DiskAt

(* Slots: those of a block on the disk, of the one a lap of the cache      *)
(* later, and of the next one of the same disk manager.                    *)
LEMMA SlotFacts ==
    ASSUME NEW y \in Nat
    PROVE  /\ SlotOf(y) \in Slots /\ SlotOf(DiskAt(y)) = SlotOf(y)
           /\ SlotOf(y + B) = SlotOf(y) /\ SlotOf(y + T) = (SlotOf(y) + T) % B
<1>1. PICK k \in 1 .. N : N = k * B
  BY BufferAssumption
<1>2. k \in Nat /\ B \in Nat /\ 0 < B /\ N \in Nat /\ 0 < N
  BY Sizes
<1>3. (y % N) % B = y % B
  <2>1. \A x \in Nat : (x % N) % B = x % B
    BY <1>1, <1>2, ModMod
  <2> QED
    BY <2>1
<1>4. (y + B) % B = y % B /\ (y + T) % B = ((y % B) + T) % B
  BY Sizes, ModShift, ModAdd
<1> QED
  BY <1>3, <1>4, ModRange DEF SlotOf, DiskAt

(* Two blocks of one slot are a lap of the cache apart.                    *)
LEMMA SlotApart ==
    ASSUME NEW x \in Nat, NEW y \in Nat, SlotOf(x) = SlotOf(y), x < y
    PROVE  x + B <= y
BY Sizes, ModApart DEF SlotOf

(* The disk managers take turns.                                           *)
LEMMA TurnFacts ==
    ASSUME NEW y \in Nat
    PROVE  TurnOf(y) \in Managers /\ TurnOf(y + T) = TurnOf(y)
<1>1. y % T \in Nat /\ y % T < T
  BY Sizes, DivMod
<1>2. (y + T) % T = y % T
  BY Sizes, ModShift
<1> QED
  BY <1>1, <1>2, Sizes DEF TurnOf, Managers

(* Two blocks of one disk manager are a round of the managers apart.       *)
LEMMA TurnApart ==
    ASSUME NEW x \in Nat, NEW y \in Nat, TurnOf(x) = TurnOf(y), x < y
    PROVE  x + T <= y
BY Sizes, ModApart DEF TurnOf

(* A cell lies in the same block whether it is reduced or not.             *)
LEMMA BlockFacts ==
    ASSUME NEW x \in Nat
    PROVE  /\ BlockOf(x) \in Nat /\ BlockOf(CellAt(x)) = DiskAt(BlockOf(x))
           /\ LastOfBlock(CellAt(x)) <=> LastOfBlock(x)
<1> DEFINE m == N * R
           e == x % m
           k == x \div m
           f == e % R
           i == e \div R
           b == x \div R
<1>1. m \in Nat /\ 0 < m
  BY CellCount
<1>2. b \in Nat
  BY Sizes, DivMod
<1> HIDE DEF m, b
<1>3. e \in Nat /\ k \in Nat /\ e < m /\ x = k * m + e
  BY <1>1, DivMod
<1>4. i \in DiskIds
  <2>1. e \in Cells
    BY CellMod DEF m
  <2> QED
    BY <2>1, BlockOfCell DEF BlockOf
<1> HIDE DEF e, k
<1>5. f \in Nat /\ f < R /\ e = i * R + f
  BY <1>3, Sizes, DivMod
<1>6. i \in Nat /\ i < N
  BY <1>4, Sizes DEF DiskIds
<1> HIDE DEF f, i
<1> DEFINE h == k * N
<1>7. h \in Nat
  BY <1>3, Sizes
<1>8. k * m = h * R
  BY <1>3, Sizes DEF m
<1> HIDE DEF h
<1>9. x = (h + i) * R + f /\ h + i \in Int /\ h + i \in Nat
  BY <1>3, <1>5, <1>6, <1>7, <1>8, Sizes
<1>10. b = h + i /\ x % R = f
  BY <1>5, <1>9, Sizes, DivModUnique DEF b
<1>11. b % N = i
  BY <1>2, <1>3, <1>6, <1>10, Sizes, DivModUnique DEF h
<1>12. BlockOf(x) = b /\ BlockOf(CellAt(x)) = i /\ CellAt(x) % R = f
  BY DEF BlockOf, CellAt, b, i, f, e, m
<1> QED
  BY <1>2, <1>10, <1>11, <1>12 DEF DiskAt, LastOfBlock

(* Blocks are in the order of their cells.                                 *)
LEMMA BlockOrder ==
    ASSUME NEW x \in Nat, NEW y \in Nat
    PROVE  /\ x <= y => BlockOf(x) <= BlockOf(y)
           /\ x < y /\ LastOfBlock(x) => BlockOf(x) + 1 <= BlockOf(y)
<1> DEFINE i == x \div R
           j == y \div R
           e == x % R
           f == y % R
           d == j - i
<1>1. /\ i \in Nat /\ e \in Nat /\ e < R /\ x = i * R + e
      /\ j \in Nat /\ f \in Nat /\ f < R /\ y = j * R + f
  BY Sizes, DivMod
<1> HIDE DEF i, j, e, f
<1>2. d \in Int /\ d * R = (y - f) - (x - e)
  BY <1>1, Sizes
<1> HIDE DEF d
<1>3. (d <= -1 => d * R <= - R) /\ (d <= 0 => d * R <= 0)
  BY <1>2, Sizes
<1>4. x <= y => d >= 0
  BY <1>1, <1>2, <1>3, Sizes
<1>5. x < y /\ e = R - 1 => d >= 1
  BY <1>1, <1>2, <1>3, Sizes
<1>6. (x <= y => i <= j) /\ (x < y /\ e = R - 1 => i + 1 <= j)
  BY <1>1, <1>4, <1>5 DEF d
<1> QED
  BY <1>6 DEF BlockOf, LastOfBlock, i, j, e

(* The cells of a block.                                                   *)
LEMMA CellsOfBlock ==
    ASSUME NEW y \in Nat, NEW e \in 0 .. R - 1
    PROVE  /\ R * y + e \in Nat /\ BlockOf(R * y + e) = y
           /\ LastOfBlock(R * y + e) <=> e = R - 1
<1>1. R * y \in Nat /\ R * y = y * R
  BY Sizes
<1>2. e \in Nat /\ e < R
  BY Sizes
<1>3. R * y + e \in Nat /\ R * y + e = y * R + e
  BY <1>1, <1>2
<1>4. (R * y + e) \div R = y /\ (R * y + e) % R = e
  BY <1>2, <1>3, Sizes, DivModUnique
<1> QED
  BY <1>3, <1>4 DEF BlockOf, LastOfBlock

(* The distance of two blocks less than a lap apart, read off the disk.    *)
LEMMA DiskDistance ==
    ASSUME NEW y \in Nat, NEW z \in Nat, z <= y, y < z + N
    PROVE  (DiskAt(y) + N - DiskAt(z)) % N = y - z
<1> DEFINE e == DiskAt(z)
           d == y - z
<1>0. e \in DiskIds
  BY DiskAdd, Sizes
<1> HIDE DEF e
<1>1. e \in Nat /\ e < N /\ d \in Nat /\ d < N
  BY <1>0, Sizes DEF DiskIds
<1>2. DiskAt(y) = (e + d) % N
  BY <1>1, DiskAdd DEF e
<1> HIDE DEF e, d
<1>3. CASE e + d < N
  <2>1. (e + d) % N = e + d /\ e + d + N - e = d + N
    BY <1>1, <1>3, Sizes, ModSmall
  <2>2. (d + N) % N = d
    BY <1>1, Sizes, ModShift, ModSmall
  <2>3. (DiskAt(y) + N - e) % N = d
    BY <1>2, <2>1, <2>2
  <2> QED
    BY <2>3 DEF d, e
<1>4. CASE N <= e + d
  <2>1. (e + d) % N = e + d - N
    BY <1>1, <1>4, Sizes, ModSmall
  <2>2. e + d - N + N - e = d
    BY <1>1, Sizes
  <2>3. d % N = d
    BY <1>1, Sizes, ModSmall
  <2>4. (DiskAt(y) + N - e) % N = d
    BY <1>2, <2>1, <2>2, <2>3
  <2> QED
    BY <2>4 DEF d, e
<1> QED
  BY <1>1, <1>3, <1>4, Sizes

(* Blocks less than a lap apart are told apart on the disk.                *)
LEMMA DiskApart ==
    ASSUME NEW x \in Nat, NEW y \in Nat, DiskAt(x) = DiskAt(y), x < y
    PROVE  x + N <= y
BY Sizes, ModApart DEF DiskAt

(* What checkRSS concludes from two reduced numbers is right as long as    *)
(* the published block is neither more than 2B behind nor N - 2B ahead.    *)
LEMMA BarrierSound ==
    ASSUME NEW y \in Nat, NEW z \in Nat, z <= y + 2 * B, y + 2 * B < z + N,
           OutsideBarriers(DiskAt(y), DiskAt(z))
    PROVE  z < y
<1> SUFFICES ASSUME y <= z PROVE FALSE
  OBVIOUS
<1> DEFINE u == DiskAt(y)
           d == z - y
           right == DiskAt(z)
           left == (right + N - 2 * B) % N
<1>1. u \in Nat /\ u < N /\ d \in Nat /\ d <= 2 * B
  BY DiskAdd, Sizes DEF DiskIds
<1>2. right = (u + d) % N /\ right \in Nat /\ right < N
  <2>1. right \in DiskIds /\ right = (u + d) % N
    BY <1>1, DiskAdd
  <2> HIDE DEF right
  <2> QED
    BY <2>1, Sizes DEF DiskIds
<1>3. \/ left < right /\ (u > right \/ u < left)
      \/ left > right /\ u > right /\ u < left
  BY DEF OutsideBarriers
<1> HIDE DEF u, d, right
<1>4. (u + d < N => right = u + d) /\ (N <= u + d => right = u + d - N)
  BY <1>1, <1>2, Sizes, ModSmall
<1>5. /\ right < 2 * B => left = right + N - 2 * B
      /\ 2 * B <= right => left = right - 2 * B
  <2> DEFINE l == right + N - 2 * B
  <2>1. l \in Nat /\ l < 2 * N
    BY <1>2, Sizes
  <2>2. right < 2 * B => l < N
    BY <1>2, Sizes
  <2>3. 2 * B <= right => N <= l
    BY <1>2, Sizes
  <2>4. (l < N => l % N = l) /\ (N <= l => l % N = l - N)
    BY <2>1, Sizes, ModSmall
  <2> QED
    BY <1>2, <2>2, <2>3, <2>4, Sizes
<1> HIDE DEF left
<1> QED
  BY <1>1, <1>2, <1>3, <1>4, <1>5, Sizes

-----------------------------------------------------------------------------
(* Capture with a delay                                                    *)

(* The dump stays behind the writers by a block for every disk manager and *)
(* for every capture thread but one, and by no more than the cache.        *)
Delayed == T <= D /\ R <= D + 1 /\ D <= B

(* All of them are natural numbers.                                        *)
Counted(W, w, o, n, p, a, c) ==
    /\ W \in Nat /\ w \in [Readers -> Nat] /\ o \in [Readers -> Nat]
    /\ n \in [Readers -> Nat] /\ p \in [Readers -> Nat]
    /\ a \in [Slots -> Nat] /\ c \in [Managers -> Nat]

(* The variables are these positions, reduced.                             *)
Linked(W, w, p, a, c) ==
    /\ diskWriteCell = CellAt(W)
    /\ \A r \in Readers : writeCell[r] = CellAt(w[r]) /\ disk_write_ids[r] = DiskAt(p[r])
    /\ \A s \in Slots : SlotOf(a[s]) = s /\ block_disk_id[s] = DiskAt(a[s])
    /\ \A t \in Managers : SlotOf(c[t]) = block_check_ids[t] /\ TurnOf(c[t]) = t

(* The cell of the call reader r makes next.                               *)
Cur(w, o, n, r) == IF n[r] > 0 THEN o[r] ELSE w[r]

(* The block a call on cell x ends in.                                     *)
Final(x, end) == IF Spills(x, end) THEN BlockOf(x) + 1 ELSE BlockOf(x)

(* A packet's calls are n[r] on the old cell, of which the last and no     *)
(* other reaches the cell's end, then one on the new cell, then links.     *)
CallsPlaced(W, w, o, n) ==
    \A r \in Readers :
        /\ running[r] # "new" => w[r] < W
        /\ running[r] # "running" => calls[r] = <<>>
        /\ copying[r] => calls[r] # <<>>
        /\ n[r] > 0 => o[r] < w[r] /\ n[r] < Len(calls[r]) /\ ~calls[r][n[r] + 1].link
        /\ \A i \in DOMAIN calls[r] :
             /\ i <= n[r] => ~calls[r][i].link
             /\ ~calls[r][i].link =>
                  /\ calls[r][i].cell = CellAt(IF i <= n[r] THEN o[r] ELSE w[r])
                  /\ i <= n[r] + 1
                  /\ calls[r][i].end <=> i = n[r]

(* The slot of block y holds it or has held it.                            *)
Reached(a, y) == a[SlotOf(y)] >= y

(* Reader r is still to write in cell x.                                   *)
Holds(w, o, n, r, x) == running[r] # "new" /\ (x = w[r] \/ (n[r] > 0 /\ x = o[r]))

(* Cell x is still to be given out, or to be finished by a reader.         *)
Open(W, w, o, n, x) == W <= x \/ \E r \in Readers : Holds(w, o, n, r, x)

(* A cell whose block the cache has not come to is still held by the       *)
(* reader it was given to, and some reader holds no such old cell.         *)
CellsHeld(W, w, o, n, a) ==
    /\ \A x \in 0 .. W - 1 :
        Reached(a, BlockOf(x)) \/ \E r \in Readers : Holds(w, o, n, r, x)
    /\ W > 0 => \E r \in Readers :
         /\ running[r] # "new"
         /\ Reached(a, BlockOf(w[r])) \/ (calls[r] # <<>> /\ ~calls[r][n[r] + 1].link)
         /\ n[r] > 0 => Reached(a, BlockOf(o[r]))

(* Reader r has published the block after the one it writes: a call that   *)
(* reaches the block's end was refused for the next block.                 *)
Waiting(w, o, n, p, a, r) ==
    /\ calls[r] # <<>> /\ ~Head(calls[r]).link /\ Head(calls[r]).end
    /\ LastOfBlock(Cur(w, o, n, r))
    /\ LET b == BlockOf(Cur(w, o, n, r)) IN p[r] = b + 1 /\ a[SlotOf(b)] = b

(* A reader has published no more than the block it writes, but for that   *)
(* case and for the position it starts with.                               *)
Published(w, o, n, p, a) ==
    \A r \in Readers :
        \/ p[r] <= D
        \/ running[r] # "new" /\ p[r] <= BlockOf(Cur(w, o, n, r))
        \/ running[r] # "new" /\ Waiting(w, o, n, p, a, r)

(* A call that is copying writes into the slot of its block.               *)
CopyInPlace(w, o, n, a) ==
    \A r \in Readers : copying[r] /\ ~Head(calls[r]).link =>
        LET b == BlockOf(Cur(w, o, n, r)) IN a[SlotOf(b)] = b

(* checkBlock's view: every reader is beyond block y and the D after it.   *)
Left(p, y) == \A r \in Readers : p[r] > y + D

(* A disk manager has come only to blocks that every reader has left.      *)
Managed(p, a, c) ==
    \A t \in Managers :
        /\ mpc[t] \in {"check", "get", "submit"}
        /\ c[t] >= T => Left(p, c[t] - T)
        /\ mpc[t] = "get" => Left(p, c[t]) /\ a[SlotOf(c[t])] = c[t]
        /\ mpc[t] = "submit" => taken[t].write_pos = block_disk_id[taken[t].slot]

(* The disk manager whose turn it is has come past block y.                *)
Taken(c, y) == y < c[TurnOf(y)]

(* What was handed over, and whatever a slot held before, was taken.       *)
SlotsTaken(a, c) ==
    \A s \in Slots :
        /\ HandedOver(s) => Taken(c, a[s])
        /\ \A y \in Nat : y < a[s] /\ SlotOf(y) = s => Taken(c, y)

(* A slot is handed over at one place.                                     *)
Once ==
    /\ ~doubled
    /\ \A t, u \in Managers :
        /\ \A i \in DOMAIN ring[t] :
             /\ \A j \in DOMAIN ring[u] : ring[t][i] = ring[u][j] => t = u /\ i = j
             /\ \A j \in DOMAIN completed[u] : ring[t][i] # completed[u][j].slot
             /\ mpc[u] = "submit" => taken[u].slot # ring[t][i]
        /\ \A i \in DOMAIN completed[t] :
             /\ \A j \in DOMAIN completed[u] :
                    completed[t][i].slot = completed[u][j].slot => t = u /\ i = j
             /\ mpc[u] = "submit" => taken[u].slot # completed[t][i].slot
        /\ mpc[t] = "submit" /\ mpc[u] = "submit" /\ taken[t].slot = taken[u].slot => t = u

(* A time taken while disk block d or the one before it was filled.        *)
Fresh(time, d) == time \in {d, (d + N - 1) % N}

(* A slot has the end time of its block once the block's last cell is      *)
(* finished; so has the block a call with the cell's end is copied to, and *)
(* what a disk manager took.                                               *)
EndsFresh(W, w, o, n, a) ==
    /\ \A s \in Slots :
         Fresh(end_times[s], DiskAt(a[s])) \/ Open(W, w, o, n, R * a[s] + (R - 1))
    /\ \A r \in Readers : copying[r] /\ ~Head(calls[r]).link /\ Head(calls[r]).end =>
         LET b == BlockOf(Cur(w, o, n, r)) IN Fresh(end_times[SlotOf(b)], DiskAt(b))
    /\ \A t \in Managers :
         mpc[t] = "submit" => Fresh(taken[t].end_time, taken[t].write_pos)

(* The invariant of the capture.                                           *)
Absolute(W, w, o, n, p, a, c) ==
    /\ Counted(W, w, o, n, p, a, c)
    /\ Linked(W, w, p, a, c) /\ CallsPlaced(W, w, o, n) /\ CellsHeld(W, w, o, n, a)
    /\ Published(w, o, n, p, a) /\ CopyInPlace(w, o, n, a)
    /\ Managed(p, a, c) /\ SlotsTaken(a, c) /\ Once

-----------------------------------------------------------------------------
HIDE DEF Managers, Readers

(* The sizes under the hypothesis.                                         *)
LEMMA DelaySizes ==
    ASSUME Delayed
    PROVE  T <= D /\ R <= D + 1 /\ D <= B /\ 1 <= D
BY Sizes DEF Delayed

(* The types of the positions, point by point.                             *)
LEMMA Points ==
    ASSUME NEW W, NEW w, NEW o, NEW n, NEW p, NEW a, NEW c,
           Counted(W, w, o, n, p, a, c)
    PROVE  /\ W \in Nat
           /\ \A r \in Readers : /\ w[r] \in Nat /\ o[r] \in Nat /\ n[r] \in Nat /\ p[r] \in Nat
                                 /\ Cur(w, o, n, r) \in Nat
                                 /\ BlockOf(w[r]) \in Nat /\ BlockOf(o[r]) \in Nat
                                 /\ BlockOf(Cur(w, o, n, r)) \in Nat
           /\ \A s \in Slots : a[s] \in Nat
           /\ \A t \in Managers : c[t] \in Nat
<1>1. \A r \in Readers : w[r] \in Nat /\ o[r] \in Nat /\ n[r] \in Nat /\ p[r] \in Nat
  BY DEF Counted
<1>2. \A r \in Readers : Cur(w, o, n, r) \in Nat
  BY <1>1 DEF Cur
<1>3. \A x \in Nat : BlockOf(x) \in Nat
  BY BlockFacts
<1>4. W \in Nat /\ (\A s \in Slots : a[s] \in Nat) /\ (\A t \in Managers : c[t] \in Nat)
  BY DEF Counted
<1> QED
  BY <1>1, <1>2, <1>3, <1>4

(* A block whose manager has gone beyond it was left by every reader.      *)
LEMMA TakenLeft ==
    ASSUME NEW W, NEW w, NEW o, NEW n, NEW p, NEW a, NEW c, Delayed,
           Absolute(W, w, o, n, p, a, c), NEW y \in Nat, Taken(c, y)
    PROVE  Left(p, y)
<1> DEFINE t == TurnOf(y)
<1>1. t \in Managers /\ y < c[t]
  BY TurnFacts DEF Taken
<1>2. c[t] \in Nat /\ TurnOf(c[t]) = t /\ (c[t] >= T => Left(p, c[t] - T))
  BY <1>1, Points DEF Absolute, Linked, Managed
<1>3. y + T <= c[t]
  BY <1>1, <1>2, TurnApart
<1>4. Left(p, c[t] - T)
  BY <1>2, <1>3, Sizes
<1> HIDE DEF t
<1>5. ASSUME NEW r \in Readers PROVE p[r] > y + D
  <2>1. p[r] > c[t] - T + D /\ p[r] \in Nat
    BY <1>4, Points DEF Left, Absolute
  <2> QED
    BY <1>2, <1>3, <2>1, Sizes
<1> QED
  BY <1>5 DEF Left

(* A reader that has left a block and the D after it writes beyond it.     *)
LEMMA LeftPassed ==
    ASSUME NEW W, NEW w, NEW o, NEW n, NEW p, NEW a, NEW c, Delayed,
           Absolute(W, w, o, n, p, a, c), NEW y \in Nat, Left(p, y),
           NEW r \in Readers
    PROVE  running[r] # "new" /\ y < BlockOf(Cur(w, o, n, r))
<1>1. p[r] \in Nat /\ BlockOf(Cur(w, o, n, r)) \in Nat
  BY Points DEF Absolute
<1>2. p[r] > y + D
  BY DEF Left
<1>3. running[r] # "new" /\ p[r] <= BlockOf(Cur(w, o, n, r)) + 1
  BY <1>1, <1>2, Sizes DEF Absolute, Published, Waiting
<1> QED
  BY <1>1, <1>2, <1>3, Sizes, DelaySizes

(* The cell a reader fills is not before the one it writes.                *)
LEMMA CurFirst ==
    ASSUME NEW W, NEW w, NEW o, NEW n, NEW p, NEW a, NEW c,
           Absolute(W, w, o, n, p, a, c), NEW r \in Readers
    PROVE  /\ Cur(w, o, n, r) <= w[r]
           /\ BlockOf(Cur(w, o, n, r)) <= BlockOf(w[r])
           /\ running[r] # "new" => w[r] < W /\ BlockOf(w[r]) <= BlockOf(W)
<1>1. w[r] \in Nat /\ o[r] \in Nat /\ n[r] \in Nat /\ W \in Nat /\ Cur(w, o, n, r) \in Nat
  BY Points DEF Absolute
<1>2. Cur(w, o, n, r) <= w[r]
  BY <1>1 DEF Absolute, CallsPlaced, Cur
<1>3. running[r] # "new" => w[r] < W
  BY DEF Absolute, CallsPlaced
<1> QED
  BY <1>1, <1>2, <1>3, BlockOrder

(* The block a slot comes to next has not been left by some reader: its    *)
(* first cell is not given out, or is held by a reader.                    *)
LEMMA Behind ==
    ASSUME NEW W, NEW w, NEW o, NEW n, NEW p, NEW a, NEW c, Delayed,
           Absolute(W, w, o, n, p, a, c), NEW s \in Slots
    PROVE  \E r \in Readers : p[r] <= a[s] + B
<1> DEFINE y == a[s] + B
           x == R * y + 0
<1>1. a[s] \in Nat /\ SlotOf(a[s]) = s
  BY Points DEF Absolute, Linked
<1>2. y \in Nat /\ SlotOf(y) = s /\ a[s] < y /\ D <= y
  BY <1>1, SlotFacts, Sizes, DelaySizes
<1> HIDE DEF y
<1>3. x \in Nat /\ BlockOf(x) = y
  BY <1>2, CellsOfBlock, Sizes
<1> HIDE DEF x
<1>4. W \in Nat
  BY Points DEF Absolute
<1>5. ASSUME NEW r \in Readers, Cur(w, o, n, r) <= x PROVE p[r] <= y
  <2> DEFINE b == BlockOf(Cur(w, o, n, r))
  <2>1. Cur(w, o, n, r) \in Nat /\ b \in Nat /\ p[r] \in Nat
    BY Points DEF Absolute
  <2>2. b <= y
    BY <1>3, <1>5, <2>1, BlockOrder
  <2>3. CASE p[r] <= D
    BY <1>2, <2>1, <2>3, Sizes
  <2>4. CASE p[r] <= b
    BY <1>2, <2>1, <2>2, <2>4
  <2>5. CASE Waiting(w, o, n, p, a, r)
    <3>1. p[r] = b + 1 /\ a[SlotOf(b)] = b
      BY <2>5 DEF Waiting
    <3>2. b # y
      BY <1>1, <1>2, <3>1
    <3> QED
      BY <1>2, <2>1, <2>2, <3>1, <3>2
  <2> QED
    BY <2>3, <2>4, <2>5 DEF Absolute, Published
<1>6. CASE W <= x
  <2>1. PICK r \in Readers : TRUE
    BY Sizes DEF Readers
  <2>2. w[r] \in Nat /\ p[r] \in Nat /\ Cur(w, o, n, r) \in Nat
    BY Points DEF Absolute
  <2>3. CASE running[r] = "new"
    <3>1. p[r] <= D
      BY <2>3 DEF Absolute, Published
    <3> QED
      BY <1>2, <2>2, <3>1, Sizes DEF y
  <2>4. CASE running[r] # "new"
    <3>1. Cur(w, o, n, r) <= x
      BY <1>3, <1>4, <1>6, <2>2, <2>4, CurFirst
    <3> QED
      BY <1>5, <3>1 DEF y
  <2> QED
    BY <2>3, <2>4
<1>7. CASE x < W
  <2>1. x \in 0 .. W - 1
    BY <1>3, <1>4, <1>7
  <2>2. ~Reached(a, BlockOf(x))
    BY <1>1, <1>2, <1>3 DEF Reached
  <2>3. PICK r \in Readers : Holds(w, o, n, r, x)
    BY <2>1, <2>2 DEF Absolute, CellsHeld
  <2>4. Cur(w, o, n, r) <= x
    <3>1. w[r] \in Nat /\ o[r] \in Nat /\ n[r] \in Nat /\ Cur(w, o, n, r) \in Nat
      BY Points DEF Absolute
    <3> QED
      BY <1>3, <2>3, <3>1, CurFirst DEF Holds, Cur
  <2> QED
    BY <1>5, <2>4 DEF y
<1> QED
  BY <1>3, <1>4, <1>6, <1>7

(* What a slot held before its block was left by every reader.             *)
LEMMA PreviousLeft ==
    ASSUME NEW W, NEW w, NEW o, NEW n, NEW p, NEW a, NEW c, Delayed,
           Absolute(W, w, o, n, p, a, c), NEW s \in Slots, B <= a[s]
    PROVE  a[s] - B \in Nat /\ Taken(c, a[s] - B) /\ Left(p, a[s] - B)
<1> DEFINE y == a[s] - B
<1>1. a[s] \in Nat /\ SlotOf(a[s]) = s
  BY Points DEF Absolute, Linked
<1>2. y \in Nat /\ y < a[s] /\ y + B = a[s]
  BY <1>1, Sizes
<1>3. SlotOf(y) = s
  BY <1>1, <1>2, SlotFacts
<1>4. Taken(c, y)
  BY <1>2, <1>3 DEF Absolute, SlotsTaken
<1> QED
  BY <1>2, <1>4, TakenLeft

(* The slots are less than two laps of the cache apart.                    *)
LEMMA Spread ==
    ASSUME NEW W, NEW w, NEW o, NEW n, NEW p, NEW a, NEW c, Delayed,
           Absolute(W, w, o, n, p, a, c), NEW s \in Slots, NEW u \in Slots
    PROVE  a[u] + D < a[s] + 2 * B
<1>1. a[s] \in Nat /\ a[u] \in Nat
  BY Points DEF Absolute
<1>2. CASE a[u] < B
  BY <1>1, <1>2, Sizes, DelaySizes
<1>3. CASE B <= a[u]
  <2>1. PICK r \in Readers : p[r] <= a[s] + B
    BY Behind
  <2>2. p[r] > (a[u] - B) + D
    BY <1>3, PreviousLeft DEF Left
  <2>3. p[r] \in Nat
    BY Points DEF Absolute
  <2> QED
    BY <1>1, <2>1, <2>2, <2>3, Sizes
<1> QED
  BY <1>1, <1>2, <1>3, Sizes

(* The cells given out beyond the cache are held by the readers, at most   *)
(* two by each and by one of them only one.                                *)
LEMMA CellsBound ==
    ASSUME NEW W, NEW w, NEW o, NEW n, NEW p, NEW a, NEW c, Delayed,
           Absolute(W, w, o, n, p, a, c), NEW s \in Slots
    PROVE  W <= R * (a[s] + 2 * B - D) + 2 * R - 1
<1> DEFINE y == a[s] + 2 * B - D
           X == R * y + 0
<1>1. a[s] \in Nat /\ W \in Nat
  BY Points DEF Absolute
<1>2. y \in Nat /\ 0 < y
  BY <1>1, Sizes, DelaySizes
<1>3. X \in Nat /\ BlockOf(X) = y
  <2> HIDE DEF y
  <2> QED
    BY <1>2, CellsOfBlock, Sizes
<1>4. ASSUME NEW u \in Slots PROVE a[u] < y
  <2>1. a[u] \in Nat /\ a[u] + D < a[s] + 2 * B
    BY Points, Spread DEF Absolute
  <2> QED
    BY <1>1, <2>1, Sizes
<1>9. R * y + 2 * R - 1 = X + 2 * R - 1
  BY <1>2, Sizes
<1> HIDE DEF y, X
<1> SUFFICES ASSUME X + 2 * R <= W PROVE FALSE
  BY <1>1, <1>3, <1>9, Sizes DEF y
<1>5. ASSUME NEW x \in Nat, X <= x PROVE ~Reached(a, BlockOf(x))
  <2>1. BlockOf(x) \in Nat /\ y <= BlockOf(x)
    BY <1>3, <1>5, BlockOrder, BlockFacts
  <2>2. SlotOf(BlockOf(x)) \in Slots
    BY <2>1, SlotFacts
  <2>3. a[SlotOf(BlockOf(x))] < y /\ a[SlotOf(BlockOf(x))] \in Nat
    BY <1>4, <2>2, Points DEF Absolute
  <2> QED
    BY <1>2, <2>1, <2>3 DEF Reached
<1>6. PICK m \in Readers : n[m] > 0 => Reached(a, BlockOf(o[m]))
  BY <1>1, <1>3, Sizes DEF Absolute, CellsHeld
<1> DEFINE S == X .. X + 2 * R - 1
           K == (0 .. 2 * R - 1) \ {R + m}
           By(k, x) == \/ k < R /\ x = w[k]
                       \/ R <= k /\ n[k - R] > 0 /\ x = o[k - R]
           f == [x \in S |-> CHOOSE k \in K : By(k, x)]
<1>7. ASSUME NEW x \in S PROVE \E k \in K : By(k, x)
  <2>1. x \in Nat /\ X <= x /\ x \in 0 .. W - 1
    BY <1>1, <1>3, Sizes
  <2>2. ~Reached(a, BlockOf(x))
    BY <1>5, <2>1
  <2>3. PICK r \in Readers : x = w[r] \/ (n[r] > 0 /\ x = o[r])
    BY <2>1, <2>2 DEF Absolute, CellsHeld, Holds
  <2>4. r \in Nat /\ r < R /\ m \in Nat /\ m < R
    BY Sizes DEF Readers
  <2>5. CASE x = w[r]
    <3>1. r \in K /\ By(r, x)
      BY <2>4, <2>5, Sizes
    <3> QED
      BY <3>1
  <2>6. CASE n[r] > 0 /\ x = o[r]
    <3>1. r # m
      BY <1>6, <2>2, <2>6
    <3>2. R + r \in K /\ R <= R + r /\ (R + r) - R = r
      BY <2>4, <3>1, Sizes
    <3>3. By(R + r, x)
      BY <2>6, <3>2
    <3> QED
      BY <3>2, <3>3
  <2> QED
    BY <2>3, <2>5, <2>6
<1>8. \A x \in S : f[x] \in K /\ By(f[x], x)
  BY <1>7
<1>10. f \in [S -> K]
  BY <1>8
<1>11. IsFiniteSet(S) /\ Cardinality(S) = 2 * R
  <2>1. X \in Int /\ X + 2 * R - 1 \in Int /\ ~(X > X + 2 * R - 1)
        /\ (X + 2 * R - 1) - X + 1 = 2 * R
    BY <1>3, Sizes
  <2> QED
    BY <2>1, FS_Interval
<1>12. IsFiniteSet(K) /\ Cardinality(K) = 2 * R - 1
  <2>1. 0 \in Int /\ 2 * R - 1 \in Int /\ ~(0 > 2 * R - 1) /\ (2 * R - 1) - 0 + 1 = 2 * R
    BY Sizes
  <2>2. IsFiniteSet(0 .. 2 * R - 1) /\ Cardinality(0 .. 2 * R - 1) = 2 * R
    BY <2>1, FS_Interval
  <2>3. R + m \in 0 .. 2 * R - 1
    BY Sizes DEF Readers
  <2> QED
    BY <2>2, <2>3, FS_RemoveElement
<1>13. Cardinality(K) < Cardinality(S)
  BY <1>11, <1>12, Sizes
<1> HIDE DEF S, K, f
<1>14. PICK x, z \in S : x # z /\ f[x] = f[z]
  BY <1>10, <1>11, <1>12, <1>13, FS_PigeonHole
<1>15. f[x] \in Nat
  BY <1>8, Sizes DEF K
<1>16. By(f[x], x) /\ By(f[x], z)
  BY <1>8, <1>14
<1> QED
  BY <1>14, <1>15, <1>16, Sizes

(* How far the readers can be beyond a slot.                               *)
LEMMA Ahead ==
    ASSUME NEW W, NEW w, NEW o, NEW n, NEW p, NEW a, NEW c, Delayed,
           Absolute(W, w, o, n, p, a, c), NEW s \in Slots
    PROVE  /\ BlockOf(W) + D <= a[s] + 2 * B + 1
           /\ \A r \in Readers : p[r] <= D \/ p[r] + D <= a[s] + 2 * B + 1
<1> DEFINE y == a[s] + 2 * B - D
           z == y + 1
           X == R * z + (R - 1)
<1>1. a[s] \in Nat /\ W \in Nat /\ BlockOf(W) \in Nat
  BY Points, BlockFacts DEF Absolute
<1>2. y \in Nat /\ z \in Nat
  BY <1>1, Sizes, DelaySizes
<1>3. W <= R * y + 2 * R - 1
  BY CellsBound
<1> HIDE DEF y
<1>4. R * z + (R - 1) = R * y + 2 * R - 1
  BY <1>2, Sizes
<1> HIDE DEF z
<1>5. X \in Nat /\ BlockOf(X) = z /\ LastOfBlock(X)
  <2>1. R - 1 \in 0 .. R - 1
    BY Sizes
  <2> QED
    BY <1>2, <2>1, CellsOfBlock
<1>6. W <= X
  BY <1>3, <1>4
<1> HIDE DEF X
<1>7. BlockOf(W) <= z
  BY <1>1, <1>5, <1>6, BlockOrder
<1>8. ASSUME NEW r \in Readers, ~(p[r] <= D) PROVE p[r] <= z
  <2> DEFINE q == Cur(w, o, n, r)
  <2>1. p[r] \in Nat /\ q \in Nat /\ BlockOf(q) \in Nat /\ w[r] \in Nat /\ BlockOf(w[r]) \in Nat
    BY Points DEF Absolute
  <2>2. running[r] # "new"
    BY <1>8 DEF Absolute, Published
  <2>3. q <= w[r] /\ w[r] < W /\ BlockOf(q) <= BlockOf(w[r]) /\ BlockOf(w[r]) <= BlockOf(W)
    BY <2>2, CurFirst
  <2>4. CASE p[r] <= BlockOf(q)
    BY <1>1, <1>2, <1>7, <2>1, <2>3, <2>4
  <2>5. CASE Waiting(w, o, n, p, a, r)
    <3>1. p[r] = BlockOf(q) + 1 /\ LastOfBlock(q)
      BY <2>5 DEF Waiting
    <3>2. q < W
      BY <1>1, <2>1, <2>3
    <3>3. BlockOf(q) + 1 <= BlockOf(W)
      BY <1>1, <2>1, <3>1, <3>2, BlockOrder
    <3> QED
      BY <1>1, <1>2, <1>7, <2>1, <3>1, <3>3
  <2> QED
    BY <1>8, <2>4, <2>5 DEF Absolute, Published
<1>9. z + D = a[s] + 2 * B + 1
  BY <1>1, Sizes DEF z, y
<1>10. BlockOf(W) + D <= a[s] + 2 * B + 1
  BY <1>1, <1>2, <1>7, <1>9, Sizes
<1>11. \A r \in Readers : p[r] \in Nat
  BY Points DEF Absolute
<1>12. \A r \in Readers : p[r] <= D \/ p[r] + D <= a[s] + 2 * B + 1
  BY <1>2, <1>8, <1>9, <1>11, Sizes
<1> QED
  BY <1>10, <1>12

(* The block a reader writes in, or will, has not been passed over by its  *)
(* slot, and comes within two laps of the cache.                           *)
LEMMA NotSkipped ==
    ASSUME NEW W, NEW w, NEW o, NEW n, NEW p, NEW a, NEW c, Delayed,
           Absolute(W, w, o, n, p, a, c), NEW r \in Readers, running[r] # "new",
           NEW y \in Nat, BlockOf(Cur(w, o, n, r)) <= y, y <= BlockOf(w[r])
    PROVE  a[SlotOf(y)] \in Nat /\ a[SlotOf(y)] <= y /\ y <= a[SlotOf(y)] + 2 * B
<1> DEFINE s == SlotOf(y)
           b == BlockOf(Cur(w, o, n, r))
<1>1. s \in Slots
  BY SlotFacts
<1> HIDE DEF s
<1>2. a[s] \in Nat /\ SlotOf(a[s]) = s /\ BlockOf(w[r]) \in Nat /\ BlockOf(W) \in Nat /\ b \in Nat
  BY <1>1, Points, BlockFacts DEF Absolute, Linked
<1>3. a[s] < y + B
  <2>1. CASE a[s] < B
    BY <1>2, <2>1, Sizes
  <2>2. CASE B <= a[s]
    <3>1. a[s] - B < b
      BY <1>1, <2>2, PreviousLeft, LeftPassed
    <3> QED
      BY <1>2, <3>1, Sizes
  <2> QED
    BY <1>2, <2>1, <2>2, Sizes
<1>4. a[s] <= y
  <2>1. SUFFICES ASSUME y < a[s] PROVE FALSE
    BY <1>2
  <2>2. y + B <= a[s]
    BY <1>2, <2>1, SlotApart DEF s
  <2> QED
    BY <1>2, <1>3, <2>2, Sizes
<1>5. y <= a[s] + 2 * B
  <2>1. BlockOf(w[r]) <= BlockOf(W)
    BY CurFirst
  <2>2. BlockOf(W) + D <= a[s] + 2 * B + 1
    BY <1>1, Ahead
  <2> QED
    BY <1>2, <2>1, <2>2, Sizes, DelaySizes
<1> QED
  BY <1>2, <1>4, <1>5 DEF s

(* Such a block is in the cache, as writeBlock sees it, exactly when its   *)
(* slot holds it: the disk's size keeps the two apart.                     *)
LEMMA ResidentIff ==
    ASSUME NEW W, NEW w, NEW o, NEW n, NEW p, NEW a, NEW c, Delayed,
           Absolute(W, w, o, n, p, a, c), NEW r \in Readers, running[r] # "new",
           NEW y \in Nat, BlockOf(Cur(w, o, n, r)) <= y, y <= BlockOf(w[r])
    PROVE  Resident(DiskAt(y)) <=> a[SlotOf(y)] = y
<1>1. a[SlotOf(y)] \in Nat /\ a[SlotOf(y)] <= y /\ y <= a[SlotOf(y)] + 2 * B
  BY NotSkipped
<1>2. SlotOf(y) \in Slots /\ SlotOf(DiskAt(y)) = SlotOf(y)
  BY SlotFacts
<1>3. block_disk_id[SlotOf(y)] = DiskAt(a[SlotOf(y)])
  BY <1>2 DEF Absolute, Linked
<1>4. Resident(DiskAt(y)) <=> DiskAt(a[SlotOf(y)]) = DiskAt(y)
  BY <1>2, <1>3 DEF Resident
<1>5. ASSUME DiskAt(a[SlotOf(y)]) = DiskAt(y) PROVE a[SlotOf(y)] = y
  <2>1. SUFFICES ASSUME a[SlotOf(y)] < y PROVE FALSE
    BY <1>1
  <2>2. a[SlotOf(y)] + N <= y
    BY <1>1, <1>5, <2>1, DiskApart
  <2> QED
    BY <1>1, <2>2, Sizes
<1> QED
  BY <1>4, <1>5

-----------------------------------------------------------------------------
(* The call a reader makes next, in absolute positions.                    *)
LEMMA HeadCall ==
    ASSUME NEW W, NEW w, NEW o, NEW n, NEW p, NEW a, NEW c, Delayed, TypeOK,
           Absolute(W, w, o, n, p, a, c), NEW r \in Readers,
           calls[r] # <<>>, ~Head(calls[r]).link
    PROVE  LET q == Cur(w, o, n, r)
               e == Head(calls[r]).end
           IN  /\ running[r] = "running" /\ e \in BOOLEAN
               /\ Head(calls[r]).cell = CellAt(q) /\ Head(calls[r]) = calls[r][1]
               /\ e => n[r] = 1 /\ q = o[r] /\ o[r] < w[r]
               /\ Final(q, e) \in Nat
               /\ BlockOf(q) <= Final(q, e) /\ Final(q, e) <= BlockOf(w[r])
<1> DEFINE q == Cur(w, o, n, r)
           e == Head(calls[r]).end
<1>1. calls[r] \in Seq(CallSet) /\ running[r] \in {"new", "running", "returned"}
  BY DEF TypeOK
<1>2. Head(calls[r]) = calls[r][1] /\ Head(calls[r]) \in CallSet /\ 1 \in DOMAIN calls[r]
  BY <1>1
<1>3. e \in BOOLEAN
  BY <1>2 DEF CallSet
<1>4. running[r] = "running"
  BY DEF Absolute, CallsPlaced
<1>5. /\ w[r] \in Nat /\ o[r] \in Nat /\ n[r] \in Nat /\ q \in Nat
      /\ BlockOf(q) \in Nat /\ BlockOf(w[r]) \in Nat
  BY Points DEF Absolute
<1>6. /\ calls[r][1].cell = CellAt(IF 1 <= n[r] THEN o[r] ELSE w[r])
      /\ calls[r][1].end <=> 1 = n[r]
      /\ n[r] > 0 => o[r] < w[r]
  BY <1>2 DEF Absolute, CallsPlaced
<1>7. q = IF 1 <= n[r] THEN o[r] ELSE w[r]
  BY <1>5 DEF Cur
<1>8. e => n[r] = 1 /\ q = o[r] /\ o[r] < w[r]
  BY <1>2, <1>5, <1>6, <1>7
<1>9. BlockOf(q) <= BlockOf(w[r])
  BY CurFirst
<1> HIDE DEF q, e
<1>10. Spills(q, e) => BlockOf(q) + 1 <= BlockOf(w[r])
  BY <1>5, <1>8, BlockOrder DEF Spills
<1>11. /\ Final(q, e) \in Nat
       /\ BlockOf(q) <= Final(q, e) /\ Final(q, e) <= BlockOf(w[r])
  BY <1>5, <1>9, <1>10 DEF Final
<1>12. Head(calls[r]).cell = CellAt(q)
  BY <1>2, <1>6, <1>7
<1> QED
  BY <1>2, <1>3, <1>4, <1>8, <1>11, <1>12 DEF q, e

(* What writeBlock computes for it.                                        *)
LEMMA HeadBlocks ==
    ASSUME NEW W, NEW w, NEW o, NEW n, NEW p, NEW a, NEW c, Delayed, TypeOK,
           Absolute(W, w, o, n, p, a, c), NEW r \in Readers,
           calls[r] # <<>>, ~Head(calls[r]).link
    PROVE  LET q == Cur(w, o, n, r)
               e == Head(calls[r]).end
               l == Head(calls[r]).cell
               b == BlockOf(q)
           IN  /\ BlockOf(l) = DiskAt(b) /\ FinalBlock(l, e) = DiskAt(Final(q, e))
               /\ Resident(BlockOf(l)) <=> a[SlotOf(b)] = b
               /\ WriteFits(l, e) => a[SlotOf(b)] = b
               /\ RefusedBlock(l, e) = DiskAt(IF a[SlotOf(b)] = b THEN Final(q, e) ELSE b)
<1> DEFINE q == Cur(w, o, n, r)
           e == Head(calls[r]).end
           l == Head(calls[r]).cell
           b == BlockOf(q)
<1>1. /\ running[r] = "running" /\ e \in BOOLEAN /\ l = CellAt(q)
      /\ b <= Final(q, e) /\ Final(q, e) <= BlockOf(w[r]) /\ Final(q, e) \in Nat
  BY HeadCall
<1>2. q \in Nat /\ b \in Nat /\ BlockOf(w[r]) \in Nat
  BY Points DEF Absolute
<1>3. b <= BlockOf(w[r])
  BY <1>1, <1>2
<1>4. Resident(DiskAt(b)) <=> a[SlotOf(b)] = b
  BY <1>1, <1>2, <1>3, ResidentIff
<1> HIDE DEF q, e, l
<1>5. BlockOf(l) = DiskAt(b) /\ (LastOfBlock(l) <=> LastOfBlock(q))
  BY <1>1, <1>2, BlockFacts
<1>6. Spills(l, e) <=> Spills(q, e)
  BY <1>5 DEF Spills
<1>7. DiskAt(b + 1) = (DiskAt(b) + 1) % N
  BY <1>2, DiskAdd
<1>8. FinalBlock(l, e) = DiskAt(Final(q, e))
  BY <1>5, <1>6, <1>7 DEF FinalBlock, Final
<1>9. WriteFits(l, e) => a[SlotOf(b)] = b
  BY <1>4, <1>5 DEF WriteFits
<1>10. RefusedBlock(l, e) = DiskAt(IF a[SlotOf(b)] = b THEN Final(q, e) ELSE b)
  BY <1>4, <1>5, <1>8 DEF RefusedBlock
<1> QED
  BY <1>4, <1>5, <1>8, <1>9, <1>10 DEF q, e, l

(* A block that was left stays left when no reader's published block goes  *)
(* back.                                                                   *)
LEMMA LeftGrows ==
    ASSUME NEW p \in [Readers -> Nat], NEW p2 \in [Readers -> Nat],
           \A r \in Readers : p[r] <= D \/ p[r] <= p2[r],
           NEW y \in Nat, Left(p, y)
    PROVE  Left(p2, y)
<1> SUFFICES ASSUME NEW r \in Readers PROVE p2[r] > y + D
  BY DEF Left
<1>1. p[r] > y + D /\ p[r] \in Nat /\ p2[r] \in Nat
  BY DEF Left
<1> QED
  BY <1>1, Sizes

(* The part of the invariant about managers, agents and slots is kept by   *)
(* every step of a reader.                                                 *)
LEMMA ManagersKept ==
    ASSUME NEW p \in [Readers -> Nat], NEW p2 \in [Readers -> Nat],
           NEW a, NEW c \in [Managers -> Nat],
           \A r \in Readers : p[r] <= D \/ p[r] <= p2[r],
           Managed(p, a, c), SlotsTaken(a, c), Once,
           UNCHANGED <<mpc, taken, ring, completed, doubled, block_disk_id>>
    PROVE  Managed(p2, a, c)' /\ SlotsTaken(a, c)' /\ Once'
<1>1. \A s \in Slots : HandedOver(s)' <=> HandedOver(s)
  BY DEF HandedOver, Submitted
<1>2. SlotsTaken(a, c)'
  BY <1>1 DEF SlotsTaken
<1>3. Once'
  BY DEF Once
<1>4. Managed(p2, a, c)'
  <2> SUFFICES ASSUME NEW t \in Managers
               PROVE  /\ mpc[t] \in {"check", "get", "submit"}
                      /\ c[t] >= T => Left(p2, c[t] - T)
                      /\ mpc[t] = "get" => Left(p2, c[t]) /\ a[SlotOf(c[t])] = c[t]
                      /\ mpc[t] = "submit" => taken[t].write_pos = block_disk_id[taken[t].slot]
    BY DEF Managed
  <2>1. c[t] \in Nat /\ (c[t] >= T => c[t] - T \in Nat)
    BY Sizes
  <2>2. /\ mpc[t] \in {"check", "get", "submit"}
        /\ c[t] >= T => Left(p, c[t] - T)
        /\ mpc[t] = "get" => Left(p, c[t]) /\ a[SlotOf(c[t])] = c[t]
        /\ mpc[t] = "submit" => taken[t].write_pos = block_disk_id[taken[t].slot]
    BY DEF Managed
  <2> QED
    BY <2>1, <2>2, LeftGrows
<1> QED
  BY <1>2, <1>3, <1>4

(* run() takes a cell for a new reader.                                    *)
LEMMA KeptByStart ==
    ASSUME NEW W, NEW w, NEW o, NEW n, NEW p, NEW a, NEW c, Delayed, TypeOK,
           Absolute(W, w, o, n, p, a, c), NEW r \in Readers, ReaderStarts(r)
    PROVE  Absolute(W + 1, [w EXCEPT ![r] = W], o, n, p, a, c)'
<1> DEFINE v == [w EXCEPT ![r] = W]
<1>1. /\ W \in Nat /\ w \in [Readers -> Nat] /\ o \in [Readers -> Nat]
      /\ n \in [Readers -> Nat] /\ p \in [Readers -> Nat]
      /\ a \in [Slots -> Nat] /\ c \in [Managers -> Nat]
  BY DEF Absolute, Counted
<1>2. v \in [Readers -> Nat] /\ v[r] = W /\ \A m \in Readers \ {r} : v[m] = w[m]
  BY <1>1
<1>3. /\ running[r] = "new" /\ running' = [running EXCEPT ![r] = "running"]
      /\ writeCell' = [writeCell EXCEPT ![r] = diskWriteCell]
      /\ diskWriteCell' = (diskWriteCell + 1) % (N * R)
      /\ UNCHANGED <<block_disk_id, disk_write_ids, block_check_ids, calls, copying,
                     mpc, taken, ring, completed, doubled>>
  BY DEF ReaderStarts, bufferVars, managerVars, agentVars, historyVars
<1>4. running \in [Readers -> {"new", "running", "returned"}] /\ writeCell \in [Readers -> Cells]
  BY DEF TypeOK
<1>5. calls[r] = <<>> /\ ~copying[r] /\ n[r] = 0
  <2>1. calls[r] = <<>> /\ ~copying[r] /\ (n[r] > 0 => n[r] < Len(calls[r]))
    BY <1>3 DEF Absolute, CallsPlaced
  <2>2. Len(<<>>) = 0
    OBVIOUS
  <2> QED
    BY <1>1, <2>1, <2>2
<1>6. \A m \in Readers \ {r} : running'[m] = running[m] /\ Cur(v, o, n, m) = Cur(w, o, n, m)
  BY <1>2, <1>3, <1>4 DEF Cur
<1>7. running'[r] = "running"
  BY <1>3, <1>4
<1> HIDE DEF v
<1>8. Counted(W + 1, v, o, n, p, a, c)'
  BY <1>1, <1>2 DEF Counted
<1>9. Linked(W + 1, v, p, a, c)'
  <2>1. diskWriteCell' = CellAt(W + 1)
    BY <1>1, <1>3, CellNext DEF Absolute, Linked
  <2>2. \A m \in Readers : writeCell'[m] = CellAt(v[m]) /\ disk_write_ids'[m] = DiskAt(p[m])
    BY <1>2, <1>3, <1>4 DEF Absolute, Linked
  <2> QED
    BY <1>3, <2>1, <2>2 DEF Absolute, Linked
<1>10. CallsPlaced(W + 1, v, o, n)'
  <2> SUFFICES ASSUME NEW m \in Readers
               PROVE  /\ running'[m] # "new" => v[m] < W + 1
                      /\ running'[m] # "running" => calls[m] = <<>>
                      /\ copying[m] => calls[m] # <<>>
                      /\ n[m] > 0 => o[m] < v[m] /\ n[m] < Len(calls[m]) /\ ~calls[m][n[m] + 1].link
                      /\ \A i \in DOMAIN calls[m] :
                           /\ i <= n[m] => ~calls[m][i].link
                           /\ ~calls[m][i].link =>
                                /\ calls[m][i].cell = CellAt(IF i <= n[m] THEN o[m] ELSE v[m])
                                /\ i <= n[m] + 1
                                /\ calls[m][i].end <=> i = n[m]
    BY <1>3 DEF CallsPlaced
  <2>1. CASE m = r
    BY <1>1, <1>2, <1>5, <1>7, <2>1
  <2>2. CASE m # r
    <3>1. v[m] = w[m] /\ running'[m] = running[m] /\ w[m] \in Nat
      BY <1>1, <1>2, <1>6, <2>2
    <3>2. running[m] # "new" => w[m] < W
      BY DEF Absolute, CallsPlaced
    <3>3. running'[m] # "new" => v[m] < W + 1
      BY <1>1, <3>1, <3>2
    <3> QED
      BY <3>1, <3>3 DEF Absolute, CallsPlaced
  <2> QED
    BY <2>1, <2>2
<1>11. CellsHeld(W + 1, v, o, n, a)'
  <2>1. ASSUME NEW x \in 0 .. (W + 1) - 1
        PROVE  Reached(a, BlockOf(x)) \/ \E m \in Readers : Holds(v, o, n, m, x)'
    <3>1. CASE x = W
      BY <1>2, <1>7, <3>1 DEF Holds
    <3>2. CASE x # W
      <4>1. x \in 0 .. W - 1
        BY <1>1, <3>2
      <4>2. CASE Reached(a, BlockOf(x))
        BY <4>2
      <4>3. CASE ~Reached(a, BlockOf(x))
        <5>1. PICK m \in Readers : Holds(w, o, n, m, x)
          BY <4>1, <4>3 DEF Absolute, CellsHeld
        <5>2. m # r
          BY <1>3, <5>1 DEF Holds
        <5>3. Holds(v, o, n, m, x)'
          BY <1>2, <1>6, <5>1, <5>2 DEF Holds
        <5> QED
          BY <5>3
      <4> QED
        BY <4>2, <4>3
    <3> QED
      BY <3>1, <3>2
  <2>2. CASE W = 0
    <3>1. SlotOf(0) \in Slots /\ BlockOf(0) = 0
      <4>1. R * 0 + 0 = 0 /\ 0 \in 0 .. R - 1
        BY Sizes
      <4>2. BlockOf(R * 0 + 0) = 0
        BY <4>1, CellsOfBlock
      <4> QED
        BY <4>1, <4>2, SlotFacts
    <3>2. Reached(a, BlockOf(v[r]))
      BY <1>1, <1>2, <2>2, <3>1 DEF Reached
    <3> QED
      BY <1>5, <1>7, <2>1, <3>2 DEF CellsHeld
  <2>3. CASE W > 0
    <3>1. PICK m \in Readers :
            /\ running[m] # "new"
            /\ Reached(a, BlockOf(w[m])) \/ (calls[m] # <<>> /\ ~calls[m][n[m] + 1].link)
            /\ n[m] > 0 => Reached(a, BlockOf(o[m]))
      BY <2>3 DEF Absolute, CellsHeld
    <3>2. m # r
      BY <1>3, <3>1
    <3>3. /\ running'[m] # "new"
          /\ Reached(a, BlockOf(v[m])) \/ (calls'[m] # <<>> /\ ~calls'[m][n[m] + 1].link)
          /\ n[m] > 0 => Reached(a, BlockOf(o[m]))
      BY <1>2, <1>3, <1>6, <3>1, <3>2
    <3> QED
      BY <2>1, <3>3 DEF CellsHeld
  <2> QED
    BY <1>1, <2>2, <2>3
<1>12. Published(v, o, n, p, a)'
  <2> SUFFICES ASSUME NEW m \in Readers
               PROVE  \/ p[m] <= D
                      \/ running'[m] # "new" /\ p[m] <= BlockOf(Cur(v, o, n, m))
                      \/ running'[m] # "new" /\ Waiting(v, o, n, p, a, m)'
    BY DEF Published
  <2>1. CASE m = r
    BY <1>3, <2>1 DEF Absolute, Published
  <2>2. CASE m # r
    BY <1>3, <1>6, <2>2 DEF Absolute, Published, Waiting
  <2> QED
    BY <2>1, <2>2
<1>13. CopyInPlace(v, o, n, a)'
  BY <1>3, <1>5, <1>6 DEF Absolute, CopyInPlace
<1>14. Managed(p, a, c)' /\ SlotsTaken(a, c)' /\ Once'
  <2>1. \A m \in Readers : p[m] <= D \/ p[m] <= p[m]
    BY <1>1
  <2> QED
    BY <1>1, <1>3, <2>1, ManagersKept DEF Absolute
<1> QED
  BY <1>8, <1>9, <1>10, <1>11, <1>12, <1>13, <1>14 DEF Absolute, v

(* The calls of a packet: k on the old cell, one on the new cell, links.   *)
LEMMA PacketShape ==
    ASSUME NEW old \in Cells, NEW new \in Cells, NEW index \in BOOLEAN,
           NEW shape \in AllShapes, shape = "inside" => new = old,
           NEW link, link = <<>> \/ \E x \in Cells : link = <<LinkCall(x)>>
    PROVE  LET k == IF shape = "inside" THEN 0 ELSE IF shape = "split" THEN 2 ELSE 1
               q == PacketCalls(shape, old, new, index) \o link
           IN  /\ k < Len(q) /\ DOMAIN q = 1 .. Len(q) /\ Len(q) \in Nat
               /\ \A i \in 1 .. Len(q) : i <= k + 1 =>
                    /\ ~q[i].link /\ (q[i].end <=> i = k)
                    /\ q[i].cell = IF i <= k THEN old ELSE new
               /\ \A i \in 1 .. Len(q) : ~(i <= k + 1) => q[i].link
<1> DEFINE h == PacketCalls(shape, old, new, index)
           k == IF shape = "inside" THEN 0 ELSE IF shape = "split" THEN 2 ELSE 1
           q == h \o link
<1>1. /\ k \in Nat /\ Len(h) = k + 1
      /\ \A i \in 1 .. k + 1 :
            ~h[i].link /\ (h[i].end <=> i = k) /\ h[i].cell = IF i <= k THEN old ELSE new
  <2>1. CASE shape = "inside"
    <3>1. h = <<Call(old, FALSE, index)>> /\ k = 0
      BY <2>1 DEF PacketCalls
    <3> QED
      BY <2>1, <3>1 DEF Call
  <2>2. CASE shape = "split"
    <3>1. /\ h = <<Call(old, FALSE, index), Call(old, TRUE, FALSE), Call(new, FALSE, FALSE)>>
          /\ k = 2
      BY <2>2 DEF PacketCalls
    <3> QED
      BY <3>1 DEF Call
  <2>3. CASE shape = "exact"
    <3>1. h = <<Call(old, TRUE, FALSE), Call(new, FALSE, index)>> /\ k = 1
      BY <2>3 DEF PacketCalls
    <3> QED
      BY <3>1 DEF Call
  <2> QED
    BY <2>1, <2>2, <2>3 DEF AllShapes
<1>2. h \in Seq(CallSet)
  BY PacketCallsType
<1>3. link \in Seq(CallSet) /\ \A i \in 1 .. Len(link) : link[i].link
  <2>1. CASE link = <<>>
    BY <2>1
  <2>2. ASSUME NEW x \in Cells, link = <<LinkCall(x)>>
        PROVE  link \in Seq(CallSet) /\ \A i \in 1 .. Len(link) : link[i].link
    <3>1. LinkCall(x) \in CallSet /\ LinkCall(x).link
      BY DEF LinkCall, CallSet
    <3>2. Len(link) = 1 /\ link[1] = LinkCall(x)
      BY <2>2
    <3>3. link \in Seq(CallSet)
      BY <2>2, <3>1, ShortSeqs
    <3> QED
      BY <3>1, <3>2, <3>3
  <2> QED
    BY <2>1, <2>2
<1> HIDE DEF h, k
<1>4. /\ q \in Seq(CallSet) /\ Len(q) = Len(h) + Len(link)
      /\ \A i \in 1 .. Len(h) + Len(link) : q[i] = IF i <= Len(h) THEN h[i] ELSE link[i - Len(h)]
  BY <1>2, <1>3, ConcatProperties
<1>5. Len(link) \in Nat /\ Len(q) \in Nat /\ DOMAIN q = 1 .. Len(q)
  BY <1>3, <1>4, LenProperties
<1> HIDE DEF q
<1>6. \A i \in 1 .. Len(q) : i <= k + 1 => q[i] = h[i]
  BY <1>1, <1>4, <1>5
<1>7. \A i \in 1 .. Len(q) : ~(i <= k + 1) => q[i].link
  BY <1>1, <1>3, <1>4, <1>5
<1>8. k < Len(q)
  BY <1>1, <1>4, <1>5
<1>9. ASSUME NEW i \in 1 .. Len(q), i <= k + 1
      PROVE  ~q[i].link /\ (q[i].end <=> i = k) /\ q[i].cell = IF i <= k THEN old ELSE new
  <2>1. q[i] = h[i] /\ i \in 1 .. k + 1
    BY <1>1, <1>5, <1>6, <1>9
  <2> QED
    BY <1>1, <2>1
<1> QED
  BY <1>5, <1>7, <1>8, <1>9 DEF q, h, k

(* A packet leads to calls, and takes a cell unless it fits in its own.    *)
LEMMA KeptByPacket ==
    ASSUME NEW W, NEW w, NEW o, NEW n, NEW p, NEW a, NEW c, Delayed, TypeOK,
           Absolute(W, w, o, n, p, a, c), NEW r \in Readers, ReadPacket(r)
    PROVE  \E W2, w2, o2, n2 :
             /\ Absolute(W2, w2, o2, n2, p, a, c)'
             /\ \A x \in Nat : Open(W, w, o, n, x) => Open(W2, w2, o2, n2, x)'
             /\ \A m \in Readers : Cur(w2, o2, n2, m) = Cur(w, o, n, m)
<1>1. /\ W \in Nat /\ w \in [Readers -> Nat] /\ o \in [Readers -> Nat]
      /\ n \in [Readers -> Nat] /\ p \in [Readers -> Nat]
      /\ a \in [Slots -> Nat] /\ c \in [Managers -> Nat]
  BY DEF Absolute, Counted
<1>2. PICK shape \in Shapes,
           link \in {<<>>} \cup {<<LinkCall(x)>> : x \in FlowCells(r)} :
        LET old == writeCell[r]
            new == IF shape = "inside" THEN old ELSE diskWriteCell
        IN  /\ calls' = [calls EXCEPT ![r] =
                            PacketCalls(shape, old, new, link = <<>>) \o link]
            /\ writeCell' = [writeCell EXCEPT ![r] = new]
            /\ IF shape = "inside"
               THEN UNCHANGED diskWriteCell
               ELSE diskWriteCell' = (diskWriteCell + 1) % (N * R)
  BY DEF ReadPacket
<1> DEFINE k  == IF shape = "inside" THEN 0 ELSE IF shape = "split" THEN 2 ELSE 1
           q  == calls'[r]
           W2 == IF shape = "inside" THEN W ELSE W + 1
           v  == IF shape = "inside" THEN w ELSE [w EXCEPT ![r] = W]
           u  == IF shape = "inside" THEN o ELSE [o EXCEPT ![r] = w[r]]
           l  == [n EXCEPT ![r] = k]
           new == IF shape = "inside" THEN writeCell[r] ELSE diskWriteCell
<1>3. /\ running[r] = "running" /\ calls[r] = <<>>
      /\ UNCHANGED <<block_disk_id, disk_write_ids, block_check_ids, copying, running,
                     mpc, taken, ring, completed, doubled>>
  BY DEF ReadPacket, bufferVars, managerVars, agentVars, historyVars
<1>4. /\ calls \in [Readers -> Seq(CallSet)] /\ writeCell \in [Readers -> Cells]
      /\ lastCell \in [Readers -> Cells] /\ diskWriteCell \in Cells
  BY DEF TypeOK
<1>5. n[r] = 0 /\ ~copying[r]
  <2>1. (n[r] > 0 => n[r] < Len(calls[r])) /\ ~copying[r]
    BY <1>3 DEF Absolute, CallsPlaced
  <2>2. Len(<<>>) = 0
    OBVIOUS
  <2> QED
    BY <1>1, <1>3, <2>1, <2>2
<1>6. /\ k \in Nat /\ W2 \in Nat /\ v \in [Readers -> Nat] /\ u \in [Readers -> Nat]
      /\ l \in [Readers -> Nat] /\ l[r] = k
      /\ v[r] = (IF shape = "inside" THEN w[r] ELSE W)
      /\ (k = 0 <=> shape = "inside") /\ (k > 0 => u[r] = w[r]) /\ W <= W2
      /\ \A m \in Readers \ {r} : v[m] = w[m] /\ u[m] = o[m] /\ l[m] = n[m]
  BY <1>1
<1>7. \A m \in Readers \ {r} : calls'[m] = calls[m]
  BY <1>2, <1>4
<1>8. /\ k < Len(q) /\ DOMAIN q = 1 .. Len(q) /\ Len(q) \in Nat /\ q # <<>>
      /\ \A i \in 1 .. Len(q) : i <= k + 1 =>
           /\ ~q[i].link /\ (q[i].end <=> i = k)
           /\ q[i].cell = IF i <= k THEN writeCell[r] ELSE new
      /\ \A i \in 1 .. Len(q) : ~(i <= k + 1) => q[i].link
  <2> DEFINE index == link = <<>>
  <2>1. q = PacketCalls(shape, writeCell[r], new, index) \o link
    BY <1>2, <1>4
  <2>2. shape \in AllShapes /\ writeCell[r] \in Cells /\ new \in Cells
    BY <1>4, PathAssumption
  <2>3. link = <<>> \/ \E x \in Cells : link = <<LinkCall(x)>>
    BY <1>4 DEF FlowCells
  <2>4. index \in BOOLEAN /\ (shape = "inside" => new = writeCell[r])
    OBVIOUS
  <2> HIDE DEF q, new, index
  <2>5. /\ k < Len(q) /\ DOMAIN q = 1 .. Len(q) /\ Len(q) \in Nat
        /\ \A i \in 1 .. Len(q) : i <= k + 1 =>
             /\ ~q[i].link /\ (q[i].end <=> i = k)
             /\ q[i].cell = IF i <= k THEN writeCell[r] ELSE new
        /\ \A i \in 1 .. Len(q) : ~(i <= k + 1) => q[i].link
    BY <2>1, <2>2, <2>3, <2>4, PacketShape
  <2>6. q # <<>>
    <3>1. Len(<<>>) = 0
      OBVIOUS
    <3> QED
      BY <1>6, <2>5, <3>1
  <2> QED
    BY <2>5, <2>6
<1>9. /\ writeCell'[r] = CellAt(v[r]) /\ new = CellAt(v[r])
      /\ \A m \in Readers \ {r} : writeCell'[m] = CellAt(v[m])
      /\ writeCell[r] = CellAt(w[r]) /\ diskWriteCell' = CellAt(W2)
  <2>1. writeCell[r] = CellAt(w[r]) /\ diskWriteCell = CellAt(W)
    BY DEF Absolute, Linked
  <2>2. writeCell'[r] = new /\ \A m \in Readers \ {r} : writeCell'[m] = writeCell[m]
    BY <1>2, <1>4
  <2>3. diskWriteCell' = CellAt(W2)
    BY <1>1, <1>2, <2>1, CellNext
  <2> QED
    BY <1>6, <2>1, <2>2, <2>3 DEF Absolute, Linked
<1>10. w[r] < W
  BY <1>3 DEF Absolute, CallsPlaced
<1>11. Cur(v, u, l, r) = w[r] /\ Cur(w, o, n, r) = w[r]
       /\ \A m \in Readers \ {r} : Cur(v, u, l, m) = Cur(w, o, n, m)
  BY <1>5, <1>6 DEF Cur
<1> HIDE DEF k, q, v, u, l, new, W2
<1>12. Counted(W2, v, u, l, p, a, c)'
  BY <1>1, <1>6 DEF Counted
<1>13. Linked(W2, v, p, a, c)'
  BY <1>3, <1>9 DEF Absolute, Linked
<1>14. CallsPlaced(W2, v, u, l)'
  <2> SUFFICES ASSUME NEW m \in Readers
               PROVE  /\ running[m] # "new" => v[m] < W2
                      /\ running[m] # "running" => calls'[m] = <<>>
                      /\ copying[m] => calls'[m] # <<>>
                      /\ l[m] > 0 => u[m] < v[m] /\ l[m] < Len(calls'[m]) /\ ~calls'[m][l[m] + 1].link
                      /\ \A i \in DOMAIN calls'[m] :
                           /\ i <= l[m] => ~calls'[m][i].link
                           /\ ~calls'[m][i].link =>
                                /\ calls'[m][i].cell = CellAt(IF i <= l[m] THEN u[m] ELSE v[m])
                                /\ i <= l[m] + 1
                                /\ calls'[m][i].end <=> i = l[m]
    BY <1>3 DEF CallsPlaced
  <2>1. CASE m = r
    <3>1. v[r] < W2
      BY <1>1, <1>6, <1>10 DEF W2
    <3>2. k > 0 => u[r] < v[r]
      BY <1>1, <1>6, <1>10
    <3>3. k + 1 \in 1 .. Len(q) /\ ~q[k + 1].link
      BY <1>6, <1>8
    <3>4. ASSUME NEW i \in 1 .. Len(q)
          PROVE  /\ i <= k => ~q[i].link
                 /\ ~q[i].link => /\ q[i].cell = CellAt(IF i <= k THEN u[r] ELSE v[r])
                                  /\ i <= k + 1 /\ (q[i].end <=> i = k)
      <4>1. i <= k => i <= k + 1 /\ k > 0
        BY <1>6
      <4>2. i <= k + 1 => q[i].cell = CellAt(IF i <= k THEN u[r] ELSE v[r])
        BY <1>6, <1>8, <1>9, <4>1
      <4> QED
        BY <1>8, <4>1, <4>2
    <3> QED
      BY <1>3, <1>5, <1>6, <1>8, <2>1, <3>1, <3>2, <3>3, <3>4 DEF q
  <2>2. CASE m # r
    <3>1. running[m] # "new" => v[m] < W2
      <4>1. running[m] # "new" => w[m] < W
        BY DEF Absolute, CallsPlaced
      <4> QED
        BY <1>1, <1>6, <2>2, <4>1
    <3>2. v[m] = w[m] /\ u[m] = o[m] /\ l[m] = n[m] /\ calls'[m] = calls[m]
      BY <1>6, <1>7, <2>2
    <3>3. /\ running[m] # "running" => calls[m] = <<>>
          /\ copying[m] => calls[m] # <<>>
          /\ n[m] > 0 => o[m] < w[m] /\ n[m] < Len(calls[m]) /\ ~calls[m][n[m] + 1].link
      BY DEF Absolute, CallsPlaced
    <3>4. \A i \in DOMAIN calls[m] :
            /\ i <= n[m] => ~calls[m][i].link
            /\ ~calls[m][i].link =>
                 /\ calls[m][i].cell = CellAt(IF i <= n[m] THEN o[m] ELSE w[m])
                 /\ i <= n[m] + 1
                 /\ calls[m][i].end <=> i = n[m]
      BY DEF Absolute, CallsPlaced
    <3> QED
      BY <3>1, <3>2, <3>3, <3>4
  <2> QED
    BY <2>1, <2>2
<1>15. CellsHeld(W2, v, u, l, a)'
  <2>1. ASSUME NEW x \in 0 .. W2 - 1
        PROVE  Reached(a, BlockOf(x)) \/ \E m \in Readers : Holds(v, u, l, m, x)'
    <3>1. CASE x = W
      <4>1. shape # "inside"
        BY <1>1, <3>1 DEF W2
      <4>2. Holds(v, u, l, r, x)'
        BY <1>3, <1>6, <3>1, <4>1 DEF Holds
      <4> QED
        BY <4>2
    <3>2. CASE x # W
      <4>1. x \in 0 .. W - 1
        BY <1>1, <3>2 DEF W2
      <4>2. ASSUME NEW m \in Readers, Holds(w, o, n, m, x) PROVE Holds(v, u, l, m, x)'
        <5>1. CASE m = r
          BY <1>3, <1>5, <1>6, <4>2, <5>1 DEF Holds
        <5>2. CASE m # r
          BY <1>3, <1>6, <4>2, <5>2 DEF Holds
        <5> QED
          BY <5>1, <5>2
      <4> QED
        BY <4>1, <4>2 DEF Absolute, CellsHeld
    <3> QED
      BY <3>1, <3>2
  <2>2. PICK m \in Readers :
          /\ running[m] # "new"
          /\ Reached(a, BlockOf(w[m])) \/ (calls[m] # <<>> /\ ~calls[m][n[m] + 1].link)
          /\ n[m] > 0 => Reached(a, BlockOf(o[m]))
    BY <1>1, <1>10 DEF Absolute, CellsHeld
  <2>3. /\ running'[m] # "new"
        /\ Reached(a, BlockOf(v[m])) \/ (calls'[m] # <<>> /\ ~calls'[m][l[m] + 1].link)
        /\ l[m] > 0 => Reached(a, BlockOf(u[m]))
    <3>1. CASE m = r
      <4>1. Reached(a, BlockOf(w[r]))
        BY <1>3, <2>2, <3>1
      <4>2. k + 1 \in 1 .. Len(q) /\ ~q[k + 1].link
        BY <1>6, <1>8
      <4> QED
        BY <1>3, <1>6, <1>8, <3>1, <4>1, <4>2 DEF q
    <3>2. CASE m # r
      BY <1>3, <1>6, <1>7, <2>2, <3>2
    <3> QED
      BY <3>1, <3>2
  <2> QED
    BY <2>1, <2>3 DEF CellsHeld
<1>16. Published(v, u, l, p, a)'
  <2> SUFFICES ASSUME NEW m \in Readers
               PROVE  \/ p[m] <= D
                      \/ running[m] # "new" /\ p[m] <= BlockOf(Cur(v, u, l, m))
                      \/ running[m] # "new" /\ Waiting(v, u, l, p, a, m)'
    BY <1>3 DEF Published
  <2>1. CASE m = r
    BY <1>3, <1>11, <2>1 DEF Absolute, Published, Waiting
  <2>2. CASE m # r
    BY <1>7, <1>11, <2>2 DEF Absolute, Published, Waiting
  <2> QED
    BY <2>1, <2>2
<1>17. CopyInPlace(v, u, l, a)'
  BY <1>3, <1>5, <1>7, <1>11 DEF Absolute, CopyInPlace
<1>18. Managed(p, a, c)' /\ SlotsTaken(a, c)' /\ Once'
  <2>1. \A m \in Readers : p[m] <= D \/ p[m] <= p[m]
    BY <1>1
  <2> QED
    BY <1>1, <1>3, <2>1, ManagersKept DEF Absolute
<1>19. Absolute(W2, v, u, l, p, a, c)'
  BY <1>12, <1>13, <1>14, <1>15, <1>16, <1>17, <1>18 DEF Absolute
<1>20. ASSUME NEW x \in Nat, Open(W, w, o, n, x) PROVE Open(W2, v, u, l, x)'
  <2>1. CASE W <= x
    <3>1. W2 <= x \/ (shape # "inside" /\ x = W)
      BY <1>1, <2>1 DEF W2
    <3>2. shape # "inside" /\ x = W => Holds(v, u, l, r, x)'
      BY <1>3, <1>6 DEF Holds
    <3> QED
      BY <3>1, <3>2 DEF Open
  <2>2. ASSUME NEW m \in Readers, Holds(w, o, n, m, x) PROVE Holds(v, u, l, m, x)'
    <3>1. CASE m = r
      BY <1>3, <1>5, <1>6, <2>2, <3>1 DEF Holds
    <3>2. CASE m # r
      BY <1>3, <1>6, <2>2, <3>2 DEF Holds
    <3> QED
      BY <3>1, <3>2
  <2> QED
    BY <1>20, <2>1, <2>2 DEF Open
<1> QED
  BY <1>11, <1>19, <1>20

(* A refused call moves the published block on, or to where it was.        *)
LEMMA KeptByRefused ==
    ASSUME NEW W, NEW w, NEW o, NEW n, NEW p, NEW a, NEW c, Delayed, TypeOK,
           Absolute(W, w, o, n, p, a, c), NEW r \in Readers, WriteRefused(r)
    PROVE  \E p2 : /\ Absolute(W, w, o, n, p2, a, c)'
                   /\ \A m \in Readers : p2[m] = p[m] \/ BlockOf(Cur(w, o, n, m)) <= p2[m]
<1>0. PICK e : e = Head(calls[r]).end
  OBVIOUS
<1> DEFINE q == Cur(w, o, n, r)
           b == BlockOf(q)
           y == IF a[SlotOf(b)] = b THEN Final(q, e) ELSE b
           p2 == [p EXCEPT ![r] = y]
<1>1. /\ w \in [Readers -> Nat] /\ o \in [Readers -> Nat]
      /\ n \in [Readers -> Nat] /\ p \in [Readers -> Nat]
      /\ a \in [Slots -> Nat] /\ c \in [Managers -> Nat]
  BY DEF Absolute, Counted
<1>2. /\ calls[r] # <<>> /\ ~Head(calls[r]).link
      /\ disk_write_ids' = [disk_write_ids EXCEPT ![r] = RefusedBlock(Head(calls[r]).cell, e)]
      /\ UNCHANGED <<block_disk_id, block_check_ids, diskWriteCell, writeCell, calls, copying,
                     running, mpc, taken, ring, completed, doubled>>
  BY <1>0 DEF WriteRefused, RefuseWrite, readerVars, managerVars, agentVars, historyVars
<1>3. /\ running[r] = "running" /\ e \in BOOLEAN /\ Final(q, e) \in Nat /\ b <= Final(q, e)
  BY <1>0, <1>2, HeadCall
<1>4. b \in Nat /\ p[r] \in Nat
  BY Points DEF Absolute
<1>5. RefusedBlock(Head(calls[r]).cell, e) = DiskAt(y)
  BY <1>0, <1>2, HeadBlocks
<1>6. y \in Nat /\ b <= y
  BY <1>3, <1>4
<1>7. p2 \in [Readers -> Nat] /\ p2[r] = y /\ \A m \in Readers \ {r} : p2[m] = p[m]
  BY <1>1, <1>6
<1>8. disk_write_ids'[r] = DiskAt(p2[r])
      /\ \A m \in Readers \ {r} : disk_write_ids'[m] = disk_write_ids[m]
  <2>1. disk_write_ids \in [Readers -> DiskIds]
    BY DEF TypeOK, BufferTypeOK
  <2> QED
    BY <1>2, <1>5, <1>7, <2>1
<1>9. y = b \/ (y = b + 1 /\ Spills(q, e) /\ a[SlotOf(b)] = b)
  BY DEF Final
<1>10. p[r] <= D \/ p[r] <= y
  <2>1. CASE p[r] <= b
    BY <1>4, <1>6, <2>1
  <2>2. CASE Waiting(w, o, n, p, a, r)
    <3>1. e /\ LastOfBlock(q) /\ p[r] = b + 1 /\ a[SlotOf(b)] = b
      BY <1>0, <2>2 DEF Waiting
    <3>2. y = b + 1
      BY <3>1 DEF Final, Spills
    <3> HIDE DEF y
    <3> QED
      BY <1>4, <3>1, <3>2
  <2> QED
    BY <2>1, <2>2 DEF Absolute, Published
<1> HIDE DEF y, p2
<1>11. Counted(W, w, o, n, p2, a, c)'
  BY <1>1, <1>7 DEF Absolute, Counted
<1>12. Linked(W, w, p2, a, c)'
  BY <1>2, <1>7, <1>8 DEF Absolute, Linked
<1>13. CallsPlaced(W, w, o, n)' /\ CellsHeld(W, w, o, n, a)' /\ CopyInPlace(w, o, n, a)'
  BY <1>2 DEF Absolute, CallsPlaced, CellsHeld, Holds, CopyInPlace
<1>14. Published(w, o, n, p2, a)'
  <2> SUFFICES ASSUME NEW m \in Readers
               PROVE  \/ p2[m] <= D
                      \/ running[m] # "new" /\ p2[m] <= BlockOf(Cur(w, o, n, m))
                      \/ running[m] # "new" /\ Waiting(w, o, n, p2, a, m)'
    BY <1>2 DEF Published
  <2>1. CASE m = r
    <3>1. CASE y = b
      BY <1>3, <1>4, <1>7, <2>1, <3>1
    <3>2. CASE y = b + 1 /\ Spills(q, e) /\ a[SlotOf(b)] = b
      <4>1. Waiting(w, o, n, p2, a, r)'
        BY <1>0, <1>2, <1>7, <3>2 DEF Waiting, Spills
      <4> QED
        BY <1>3, <2>1, <4>1
    <3> QED
      BY <1>9, <3>1, <3>2
  <2>2. CASE m # r
    BY <1>2, <1>7, <2>2 DEF Absolute, Published, Waiting
  <2> QED
    BY <2>1, <2>2
<1>15. Managed(p2, a, c)' /\ SlotsTaken(a, c)' /\ Once'
  <2>1. \A m \in Readers : p[m] <= D \/ p[m] <= p2[m]
    BY <1>1, <1>7, <1>10
  <2> QED
    BY <1>1, <1>2, <1>7, <2>1, ManagersKept DEF Absolute
<1>16. Absolute(W, w, o, n, p2, a, c)'
  BY <1>11, <1>12, <1>13, <1>14, <1>15 DEF Absolute
<1>17. \A m \in Readers : p2[m] = p[m] \/ BlockOf(Cur(w, o, n, m)) <= p2[m]
  BY <1>6, <1>7
<1> QED
  BY <1>16, <1>17

(* A call is accepted when its block is in the cache.                      *)
LEMMA KeptByAccepted ==
    ASSUME NEW W, NEW w, NEW o, NEW n, NEW p, NEW a, NEW c, Delayed, TypeOK,
           Absolute(W, w, o, n, p, a, c), NEW r \in Readers, WriteAccepted(r)
    PROVE  Absolute(W, w, o, n, p, a, c)'
<1> DEFINE b == BlockOf(Cur(w, o, n, r))
<1>1. p \in [Readers -> Nat] /\ c \in [Managers -> Nat]
  BY DEF Absolute, Counted
<1>2. /\ calls[r] # <<>> /\ ~Head(calls[r]).link
      /\ WriteFits(Head(calls[r]).cell, Head(calls[r]).end)
      /\ copying' = [copying EXCEPT ![r] = TRUE]
      /\ UNCHANGED <<block_disk_id, disk_write_ids, block_check_ids, diskWriteCell, writeCell,
                     calls, running, mpc, taken, ring, completed, doubled>>
  BY DEF WriteAccepted, AcceptWrite, managerVars, agentVars, historyVars
<1>3. a[SlotOf(b)] = b
  BY <1>2, HeadBlocks
<1>4. copying \in [Readers -> BOOLEAN]
  BY DEF TypeOK
<1>5. \A m \in Readers \ {r} : copying'[m] = copying[m]
  BY <1>2, <1>4
<1>6. CallsPlaced(W, w, o, n)'
  BY <1>2, <1>5 DEF Absolute, CallsPlaced
<1>7. CopyInPlace(w, o, n, a)'
  BY <1>2, <1>3, <1>5 DEF Absolute, CopyInPlace
<1>8. /\ Linked(W, w, p, a, c)' /\ CellsHeld(W, w, o, n, a)' /\ Published(w, o, n, p, a)'
      /\ Counted(W, w, o, n, p, a, c)'
  BY <1>2 DEF Absolute, Linked, CellsHeld, Holds, Published, Waiting, Counted
<1>9. Managed(p, a, c)' /\ SlotsTaken(a, c)' /\ Once'
  <2>1. \A m \in Readers : p[m] <= D \/ p[m] <= p[m]
    BY <1>1
  <2> QED
    BY <1>1, <1>2, <2>1, ManagersKept DEF Absolute
<1> QED
  BY <1>6, <1>7, <1>8, <1>9 DEF Absolute

(* A call is over: its position is published.                              *)
LEMMA KeptByCopied ==
    ASSUME NEW W, NEW w, NEW o, NEW n, NEW p, NEW a, NEW c, Delayed, TypeOK,
           Absolute(W, w, o, n, p, a, c), NEW r \in Readers, WriteCopied(r)
    PROVE  \E n2, p2 : /\ Absolute(W, w, o, n2, p2, a, c)'
                       /\ n2 = [n EXCEPT ![r] = IF n[r] = 0 THEN 0 ELSE n[r] - 1]
                       /\ BlockOf(Cur(w, o, n, r)) <= p2[r]
                       /\ \A m \in Readers :
                            /\ p2[m] = p[m] \/ BlockOf(Cur(w, o, n, m)) <= p2[m]
                            /\ BlockOf(Cur(w, o, n, m)) <= BlockOf(Cur(w, o, n2, m))
<1>0. PICK e : e = Head(calls[r]).end
  OBVIOUS
<1> DEFINE q == Cur(w, o, n, r)
           b == BlockOf(q)
           y == Final(q, e)
           k == IF n[r] = 0 THEN 0 ELSE n[r] - 1
           p2 == [p EXCEPT ![r] = y]
           l == [n EXCEPT ![r] = k]
           h == calls[r]
           g == Tail(calls[r])
<1>1. /\ W \in Nat /\ w \in [Readers -> Nat] /\ o \in [Readers -> Nat]
      /\ n \in [Readers -> Nat] /\ p \in [Readers -> Nat]
      /\ a \in [Slots -> Nat] /\ c \in [Managers -> Nat]
  BY DEF Absolute, Counted
<1>2. /\ calls[r] # <<>> /\ ~Head(calls[r]).link /\ copying[r]
      /\ disk_write_ids' = [disk_write_ids EXCEPT ![r] = FinalBlock(Head(calls[r]).cell, e)]
      /\ calls' = [calls EXCEPT ![r] = Tail(calls[r])]
      /\ copying' = [copying EXCEPT ![r] = FALSE]
      /\ UNCHANGED <<block_disk_id, block_check_ids, diskWriteCell, writeCell,
                     running, mpc, taken, ring, completed, doubled>>
  BY <1>0 DEF WriteCopied, PublishWrite, managerVars, agentVars
<1>3. /\ running[r] = "running" /\ y \in Nat /\ b <= y
      /\ e => n[r] = 1 /\ q = o[r] /\ o[r] < w[r]
  BY <1>0, <1>2, HeadCall
<1>4. b \in Nat /\ q \in Nat /\ p[r] \in Nat /\ n[r] \in Nat /\ w[r] \in Nat /\ o[r] \in Nat
  BY Points DEF Absolute
<1>5. FinalBlock(Head(calls[r]).cell, e) = DiskAt(y)
  BY <1>0, <1>2, HeadBlocks
<1>6. a[SlotOf(b)] = b /\ Reached(a, b)
  <2>1. a[SlotOf(b)] = b
    BY <1>2 DEF Absolute, CopyInPlace
  <2> QED
    BY <1>4, <2>1 DEF Reached
<1>7. /\ p2 \in [Readers -> Nat] /\ p2[r] = y /\ (\A m \in Readers \ {r} : p2[m] = p[m])
      /\ k \in Nat /\ l \in [Readers -> Nat] /\ l[r] = k
      /\ \A m \in Readers \ {r} : l[m] = n[m]
  BY <1>1, <1>3, <1>4
<1>8. /\ disk_write_ids'[r] = DiskAt(p2[r]) /\ calls'[r] = g /\ copying'[r] = FALSE
      /\ \A m \in Readers \ {r} : /\ disk_write_ids'[m] = disk_write_ids[m]
                                  /\ calls'[m] = calls[m] /\ copying'[m] = copying[m]
  <2>1. /\ disk_write_ids \in [Readers -> DiskIds] /\ copying \in [Readers -> BOOLEAN]
        /\ calls \in [Readers -> Seq(CallSet)]
    BY DEF TypeOK, BufferTypeOK
  <2> QED
    BY <1>2, <1>5, <1>7, <2>1
<1>9. /\ Len(h) \in Nat /\ Len(h) > 0 /\ DOMAIN h = 1 .. Len(h)
      /\ DOMAIN g = 1 .. Len(h) - 1 /\ Len(g) = Len(h) - 1
      /\ \A i \in 1 .. Len(h) - 1 : g[i] = h[i + 1]
  <2>1. h \in Seq(CallSet) /\ h # <<>>
    BY <1>2 DEF TypeOK
  <2> QED
    BY <2>1, HeadTailProperties, LenProperties, EmptySeq
<1>10. p[r] <= D \/ p[r] <= y
  <2>1. CASE p[r] <= b
    BY <1>3, <1>4, <2>1
  <2>2. CASE Waiting(w, o, n, p, a, r)
    <3>1. e /\ LastOfBlock(q) /\ p[r] = b + 1
      BY <1>0, <2>2 DEF Waiting
    <3>2. y = b + 1
      BY <3>1 DEF Final, Spills
    <3> HIDE DEF y
    <3> QED
      BY <1>4, <3>1, <3>2
  <2> QED
    BY <2>1, <2>2 DEF Absolute, Published
<1>11. \A m \in Readers \ {r} : Cur(w, o, l, m) = Cur(w, o, n, m)
  BY <1>7 DEF Cur
<1>12. y <= BlockOf(Cur(w, o, l, r))
  <2>1. Cur(w, o, l, r) = IF n[r] > 1 THEN o[r] ELSE w[r]
    BY <1>4, <1>7 DEF Cur
  <2>2. q = IF n[r] > 0 THEN o[r] ELSE w[r]
    BY DEF Cur
  <2>3. CASE Spills(q, e)
    <3>1. e /\ LastOfBlock(q) /\ y = b + 1
      BY <2>3 DEF Spills, Final
    <3>2. Cur(w, o, l, r) = w[r] /\ q = o[r] /\ o[r] < w[r]
      BY <1>3, <2>1, <3>1
    <3> HIDE DEF q
    <3>3. BlockOf(q) + 1 <= BlockOf(w[r])
      BY <1>4, <3>1, <3>2, BlockOrder
    <3> QED
      BY <3>1, <3>2, <3>3
  <2>4. CASE ~Spills(q, e)
    <3>1. y = b
      BY <2>4 DEF Final
    <3>2. q <= w[r] /\ BlockOf(q) <= BlockOf(w[r])
      BY CurFirst
    <3>3. CASE n[r] > 1
      <4>1. Cur(w, o, l, r) = q
        BY <1>4, <2>1, <2>2, <3>3
      <4> QED
        BY <1>4, <3>1, <4>1
    <3>4. CASE ~(n[r] > 1)
      BY <2>1, <3>1, <3>2, <3>4
    <3> QED
      BY <3>3, <3>4
  <2> QED
    BY <2>3, <2>4
<1> HIDE DEF y, p2, k, l, g
<1>13. Counted(W, w, o, l, p2, a, c)'
  BY <1>1, <1>7 DEF Counted
<1>14. Linked(W, w, p2, a, c)'
  BY <1>2, <1>7, <1>8 DEF Absolute, Linked
<1>15. CallsPlaced(W, w, o, l)'
  <2> SUFFICES ASSUME NEW m \in Readers
               PROVE  /\ running[m] # "new" => w[m] < W
                      /\ running[m] # "running" => calls'[m] = <<>>
                      /\ copying'[m] => calls'[m] # <<>>
                      /\ l[m] > 0 => o[m] < w[m] /\ l[m] < Len(calls'[m]) /\ ~calls'[m][l[m] + 1].link
                      /\ \A i \in DOMAIN calls'[m] :
                           /\ i <= l[m] => ~calls'[m][i].link
                           /\ ~calls'[m][i].link =>
                                /\ calls'[m][i].cell = CellAt(IF i <= l[m] THEN o[m] ELSE w[m])
                                /\ i <= l[m] + 1
                                /\ calls'[m][i].end <=> i = l[m]
    BY <1>2 DEF CallsPlaced
  <2>1. CASE m = r
    <3>1. /\ w[r] < W
          /\ n[r] > 0 => o[r] < w[r] /\ n[r] < Len(h) /\ ~h[n[r] + 1].link
          /\ \A i \in 1 .. Len(h) :
               /\ i <= n[r] => ~h[i].link
               /\ ~h[i].link =>
                    /\ h[i].cell = CellAt(IF i <= n[r] THEN o[r] ELSE w[r])
                    /\ i <= n[r] + 1
                    /\ h[i].end <=> i = n[r]
      BY <1>3, <1>9 DEF Absolute, CallsPlaced
    <3>2. k > 0 => o[r] < w[r] /\ k < Len(g) /\ ~g[k + 1].link
      <4>1. SUFFICES ASSUME k > 0 PROVE o[r] < w[r] /\ k < Len(g) /\ ~g[k + 1].link
        OBVIOUS
      <4>2. n[r] > 0 /\ k = n[r] - 1
        BY <1>4, <4>1 DEF k
      <4>3. k + 1 \in 1 .. Len(h) - 1 /\ (k + 1) + 1 = n[r] + 1
        BY <1>4, <1>9, <3>1, <4>1, <4>2
      <4>4. o[r] < w[r] /\ ~h[n[r] + 1].link
        BY <3>1, <4>2
      <4>5. g[k + 1] = h[n[r] + 1]
        BY <1>9, <4>3
      <4>6. k < Len(g)
        <5>1. Len(g) = Len(h) - 1 /\ Len(h) \in Nat /\ k \in Nat
          BY <1>7, <1>9
        <5> HIDE DEF g, h, k
        <5> QED
          BY <4>3, <5>1
      <4> QED
        BY <4>4, <4>5, <4>6
    <3>3. ASSUME NEW i \in 1 .. Len(h) - 1
          PROVE  /\ i <= k => ~g[i].link
                 /\ ~g[i].link => /\ g[i].cell = CellAt(IF i <= k THEN o[r] ELSE w[r])
                                  /\ i <= k + 1 /\ (g[i].end <=> i = k)
      <4>1. i + 1 \in 1 .. Len(h) /\ g[i] = h[i + 1]
        BY <1>9
      <4>2. (i <= k <=> i + 1 <= n[r]) /\ (i + 1 <= n[r] + 1 => i <= k + 1)
            /\ (i + 1 = n[r] <=> i = k)
        BY <1>4, <1>9 DEF k
      <4> QED
        BY <3>1, <4>1, <4>2
    <3> QED
      BY <1>3, <1>7, <1>8, <1>9, <2>1, <3>1, <3>2, <3>3
  <2>2. CASE m # r
    BY <1>7, <1>8, <2>2 DEF Absolute, CallsPlaced
  <2> QED
    BY <2>1, <2>2
<1>16. CellsHeld(W, w, o, l, a)'
  <2>1. ASSUME NEW x \in 0 .. W - 1
        PROVE  Reached(a, BlockOf(x)) \/ \E m \in Readers : Holds(w, o, l, m, x)'
    <3>1. ASSUME NEW m \in Readers, Holds(w, o, n, m, x)
          PROVE  Reached(a, BlockOf(x)) \/ Holds(w, o, l, m, x)'
      <4>1. CASE m # r
        BY <1>2, <1>7, <3>1, <4>1 DEF Holds
      <4>2. CASE m = r /\ x = w[r]
        BY <1>2, <3>1, <4>2 DEF Holds
      <4>3. CASE m = r /\ n[r] > 0 /\ x = o[r]
        <5>1. x = q
          BY <4>3 DEF Cur
        <5> QED
          BY <1>6, <5>1
      <4> QED
        BY <3>1, <4>1, <4>2, <4>3 DEF Holds
    <3> QED
      BY <3>1 DEF Absolute, CellsHeld
  <2>2. ASSUME W > 0
        PROVE  \E m \in Readers :
                 /\ running'[m] # "new"
                 /\ Reached(a, BlockOf(w[m])) \/ (calls'[m] # <<>> /\ ~calls'[m][l[m] + 1].link)
                 /\ l[m] > 0 => Reached(a, BlockOf(o[m]))
    <3>1. PICK m \in Readers :
            /\ running[m] # "new"
            /\ Reached(a, BlockOf(w[m])) \/ (calls[m] # <<>> /\ ~calls[m][n[m] + 1].link)
            /\ n[m] > 0 => Reached(a, BlockOf(o[m]))
      BY <2>2 DEF Absolute, CellsHeld
    <3>2. CASE m # r
      BY <1>2, <1>7, <1>8, <3>1, <3>2
    <3>3. CASE m = r /\ n[r] = 0
      <4>1. q = w[r] /\ k = 0
        BY <3>3 DEF Cur, k
      <4> QED
        BY <1>2, <1>6, <1>7, <3>1, <3>3, <4>1
    <3>4. CASE m = r /\ n[r] > 0
      <4>1. n[r] < Len(h) /\ ~h[n[r] + 1].link
        BY <3>4 DEF Absolute, CallsPlaced
      <4>2. k = n[r] - 1
        BY <1>4, <3>4 DEF k
      <4>3. k + 1 \in 1 .. Len(h) - 1 /\ g[k + 1] = h[n[r] + 1]
        BY <1>4, <1>9, <3>4, <4>1, <4>2
      <4>4. calls'[r] # <<>>
        <5>1. Len(<<>>) = 0
          OBVIOUS
        <5> QED
          BY <1>8, <1>9, <4>3, <5>1
      <4> QED
        BY <1>2, <1>7, <1>8, <3>1, <3>4, <4>1, <4>3, <4>4
    <3> QED
      BY <1>4, <3>2, <3>3, <3>4
  <2> QED
    BY <2>1, <2>2 DEF CellsHeld
<1>17. Published(w, o, l, p2, a)'
  <2> SUFFICES ASSUME NEW m \in Readers
               PROVE  \/ p2[m] <= D
                      \/ running[m] # "new" /\ p2[m] <= BlockOf(Cur(w, o, l, m))
                      \/ running[m] # "new" /\ Waiting(w, o, l, p2, a, m)'
    BY <1>2 DEF Published
  <2>1. CASE m = r
    BY <1>3, <1>7, <1>12, <2>1
  <2>2. CASE m # r
    BY <1>7, <1>8, <1>11, <2>2 DEF Absolute, Published, Waiting
  <2> QED
    BY <2>1, <2>2
<1>18. CopyInPlace(w, o, l, a)'
  BY <1>8, <1>11 DEF Absolute, CopyInPlace
<1>19. Managed(p2, a, c)' /\ SlotsTaken(a, c)' /\ Once'
  <2>1. \A m \in Readers : p[m] <= D \/ p[m] <= p2[m]
    BY <1>1, <1>7, <1>10
  <2> QED
    BY <1>1, <1>2, <1>7, <2>1, ManagersKept DEF Absolute
<1>20. Absolute(W, w, o, l, p2, a, c)'
  BY <1>13, <1>14, <1>15, <1>16, <1>17, <1>18, <1>19 DEF Absolute
<1>21. /\ b <= p2[r]
       /\ \A m \in Readers : p2[m] = p[m] \/ BlockOf(Cur(w, o, n, m)) <= p2[m]
  BY <1>3, <1>7
<1>22. ASSUME NEW m \in Readers
       PROVE  BlockOf(Cur(w, o, n, m)) <= BlockOf(Cur(w, o, l, m))
  <2>1. CASE m = r
    <3>1. BlockOf(Cur(w, o, l, r)) \in Nat
      BY <1>20, Points DEF Absolute
    <3> QED
      BY <1>3, <1>4, <1>12, <2>1, <3>1
  <2>2. CASE m # r
    <3>1. BlockOf(Cur(w, o, n, m)) \in Nat
      BY Points DEF Absolute
    <3> QED
      BY <1>11, <2>2, <3>1
  <2> QED
    BY <2>1, <2>2
<1>23. l = [n EXCEPT ![r] = IF n[r] = 0 THEN 0 ELSE n[r] - 1]
  BY DEF l, k
<1> QED
  BY <1>20, <1>21, <1>22, <1>23

(* writeBefore changes nothing but the reader's own progress: a link comes *)
(* after the calls with new data.                                          *)
LEMMA KeptByLink ==
    ASSUME NEW W, NEW w, NEW o, NEW n, NEW p, NEW a, NEW c, Delayed, TypeOK,
           Absolute(W, w, o, n, p, a, c), NEW r \in Readers, LinkBefore(r)
    PROVE  Absolute(W, w, o, n, p, a, c)'
<1> DEFINE h == calls[r]
           g == Tail(calls[r])
<1>1. /\ W \in Nat /\ w \in [Readers -> Nat] /\ o \in [Readers -> Nat]
      /\ n \in [Readers -> Nat] /\ p \in [Readers -> Nat] /\ c \in [Managers -> Nat]
  BY DEF Absolute, Counted
<1>2. /\ calls[r] # <<>> /\ Head(calls[r]).link
      /\ \/ calls' = [calls EXCEPT ![r] = g] /\ copying' = [copying EXCEPT ![r] = FALSE]
         \/ calls' = calls /\ copying' = [copying EXCEPT ![r] = TRUE]
      /\ UNCHANGED <<block_disk_id, disk_write_ids, block_check_ids, diskWriteCell, writeCell,
                     running, mpc, taken, ring, completed, doubled>>
  BY DEF LinkBefore, bufferVars, managerVars, agentVars, historyVars
<1>3. calls \in [Readers -> Seq(CallSet)] /\ copying \in [Readers -> BOOLEAN]
  BY DEF TypeOK
<1>4. /\ Len(h) \in Nat /\ Len(h) > 0 /\ DOMAIN h = 1 .. Len(h) /\ Head(h) = h[1]
      /\ DOMAIN g = 1 .. Len(h) - 1 /\ Len(g) = Len(h) - 1
      /\ \A i \in 1 .. Len(h) - 1 : g[i] = h[i + 1]
  <2>1. h \in Seq(CallSet) /\ h # <<>>
    BY <1>2, <1>3
  <2> QED
    BY <2>1, HeadTailProperties, LenProperties, EmptySeq
<1>5. n[r] = 0 /\ \A i \in 1 .. Len(h) : h[i].link
  <2>1. /\ n[r] \in Nat
        /\ \A i \in 1 .. Len(h) : /\ i <= n[r] => ~h[i].link
                                  /\ ~h[i].link => i <= n[r] + 1
    BY <1>1, <1>4 DEF Absolute, CallsPlaced
  <2>2. 1 \in 1 .. Len(h) /\ h[1].link
    BY <1>2, <1>4
  <2>3. n[r] = 0
    BY <2>1, <2>2
  <2>4. ASSUME NEW i \in 1 .. Len(h), ~h[i].link PROVE FALSE
    <3>1. i = 1
      BY <2>1, <2>3, <2>4
    <3> QED
      BY <2>2, <2>4, <3>1
  <2> QED
    BY <2>3, <2>4
<1>6. \A m \in Readers \ {r} : calls'[m] = calls[m] /\ copying'[m] = copying[m]
  BY <1>2, <1>3
<1>7. calls'[r] = h \/ (calls'[r] = g /\ copying'[r] = FALSE)
  BY <1>2, <1>3
<1>8. /\ Len(calls'[r]) \in Nat /\ DOMAIN calls'[r] = 1 .. Len(calls'[r])
      /\ \A i \in 1 .. Len(calls'[r]) : calls'[r][i].link
  <2>1. CASE calls'[r] = h
    BY <1>4, <1>5, <2>1
  <2>2. CASE calls'[r] = g
    BY <1>4, <1>5, <2>2
  <2> QED
    BY <1>7, <2>1, <2>2
<1>9. copying'[r] => calls'[r] # <<>> /\ Head(calls'[r]).link
  BY <1>2, <1>7
<1> HIDE DEF h, g
<1>10. CallsPlaced(W, w, o, n)'
  <2> SUFFICES ASSUME NEW m \in Readers
               PROVE  /\ running[m] # "new" => w[m] < W
                      /\ running[m] # "running" => calls'[m] = <<>>
                      /\ copying'[m] => calls'[m] # <<>>
                      /\ n[m] > 0 => o[m] < w[m] /\ n[m] < Len(calls'[m]) /\ ~calls'[m][n[m] + 1].link
                      /\ \A i \in DOMAIN calls'[m] :
                           /\ i <= n[m] => ~calls'[m][i].link
                           /\ ~calls'[m][i].link =>
                                /\ calls'[m][i].cell = CellAt(IF i <= n[m] THEN o[m] ELSE w[m])
                                /\ i <= n[m] + 1
                                /\ calls'[m][i].end <=> i = n[m]
    BY <1>2 DEF CallsPlaced
  <2>1. CASE m = r
    <3>1. running[r] = "running" /\ w[r] < W
      BY <1>2 DEF Absolute, CallsPlaced
    <3>2. \A i \in DOMAIN calls'[r] : ~(i <= n[r])
      BY <1>5, <1>8
    <3> QED
      BY <1>5, <1>8, <1>9, <2>1, <3>1, <3>2
  <2>2. CASE m # r
    BY <1>6, <2>2 DEF Absolute, CallsPlaced
  <2> QED
    BY <2>1, <2>2
<1>11. CellsHeld(W, w, o, n, a)'
  <2>1. \A x \in 0 .. W - 1 :
          Reached(a, BlockOf(x)) \/ \E m \in Readers : Holds(w, o, n, m, x)'
    BY <1>2 DEF Absolute, CellsHeld, Holds
  <2>2. ASSUME W > 0
        PROVE  \E m \in Readers :
                 /\ running'[m] # "new"
                 /\ Reached(a, BlockOf(w[m])) \/ (calls'[m] # <<>> /\ ~calls'[m][n[m] + 1].link)
                 /\ n[m] > 0 => Reached(a, BlockOf(o[m]))
    <3>1. PICK m \in Readers :
            /\ running[m] # "new"
            /\ Reached(a, BlockOf(w[m])) \/ (calls[m] # <<>> /\ ~calls[m][n[m] + 1].link)
            /\ n[m] > 0 => Reached(a, BlockOf(o[m]))
      BY <2>2 DEF Absolute, CellsHeld
    <3>2. CASE m # r
      BY <1>2, <1>6, <3>1, <3>2
    <3>3. CASE m = r
      <4>1. calls[r][n[r] + 1].link
        <5>1. n[r] + 1 = 1 /\ 1 \in 1 .. Len(h)
          BY <1>4, <1>5
        <5> QED
          BY <1>5, <5>1 DEF h
      <4> QED
        BY <1>2, <3>1, <3>3, <4>1
    <3> QED
      BY <3>2, <3>3
  <2> QED
    BY <2>1, <2>2 DEF CellsHeld
<1>12. Published(w, o, n, p, a)'
  <2> SUFFICES ASSUME NEW m \in Readers
               PROVE  \/ p[m] <= D
                      \/ running[m] # "new" /\ p[m] <= BlockOf(Cur(w, o, n, m))
                      \/ running[m] # "new" /\ Waiting(w, o, n, p, a, m)'
    BY <1>2 DEF Published
  <2>1. CASE m = r
    BY <1>2, <2>1 DEF Absolute, Published, Waiting
  <2>2. CASE m # r
    BY <1>6, <2>2 DEF Absolute, Published, Waiting
  <2> QED
    BY <2>1, <2>2
<1>13. CopyInPlace(w, o, n, a)'
  BY <1>6, <1>9 DEF Absolute, CopyInPlace
<1>14. Linked(W, w, p, a, c)' /\ Counted(W, w, o, n, p, a, c)'
  BY <1>2 DEF Absolute, Linked, Counted
<1>15. Managed(p, a, c)' /\ SlotsTaken(a, c)' /\ Once'
  <2>1. \A m \in Readers : p[m] <= D \/ p[m] <= p[m]
    BY <1>1
  <2> QED
    BY <1>1, <1>2, <2>1, ManagersKept DEF Absolute
<1> QED
  BY <1>10, <1>11, <1>12, <1>13, <1>14, <1>15 DEF Absolute

(* A reader that returns keeps its last cell.                              *)
LEMMA KeptByReturn ==
    ASSUME NEW W, NEW w, NEW o, NEW n, NEW p, NEW a, NEW c, Delayed, TypeOK,
           Absolute(W, w, o, n, p, a, c), NEW r \in Readers, ReaderReturns(r)
    PROVE  Absolute(W, w, o, n, p, a, c)'
<1>1. p \in [Readers -> Nat] /\ c \in [Managers -> Nat]
  BY DEF Absolute, Counted
<1>2. /\ running[r] = "running" /\ calls[r] = <<>>
      /\ running' = [running EXCEPT ![r] = "returned"]
      /\ UNCHANGED <<block_disk_id, disk_write_ids, block_check_ids, diskWriteCell, writeCell,
                     calls, copying, mpc, taken, ring, completed, doubled>>
  BY DEF ReaderReturns, bufferVars, managerVars, agentVars, historyVars
<1>3. running \in [Readers -> {"new", "running", "returned"}]
  BY DEF TypeOK
<1>4. \A m \in Readers : /\ running'[m] = "new" <=> running[m] = "new"
                         /\ running'[m] # "running" => running[m] # "running" \/ m = r
  BY <1>2, <1>3
<1>5. CallsPlaced(W, w, o, n)'
  BY <1>2, <1>4 DEF Absolute, CallsPlaced
<1>6. /\ Linked(W, w, p, a, c)' /\ Counted(W, w, o, n, p, a, c)' /\ CopyInPlace(w, o, n, a)'
  BY <1>2 DEF Absolute, Linked, CopyInPlace, Counted
<1>7. CellsHeld(W, w, o, n, a)'
  BY <1>2, <1>4 DEF Absolute, CellsHeld, Holds
<1>8. Published(w, o, n, p, a)'
  BY <1>2, <1>4 DEF Absolute, Published, Waiting
<1>9. Managed(p, a, c)' /\ SlotsTaken(a, c)' /\ Once'
  <2>1. \A m \in Readers : p[m] <= D \/ p[m] <= p[m]
    BY <1>1
  <2> QED
    BY <1>1, <1>2, <2>1, ManagersKept DEF Absolute
<1> QED
  BY <1>5, <1>6, <1>7, <1>8, <1>9 DEF Absolute

-----------------------------------------------------------------------------
(* What checkBlock tells a manager is true: every reader has left the      *)
(* block, and the slot does hold the block the manager comes to.           *)
LEMMA CheckedBlockLeft ==
    ASSUME NEW W, NEW w, NEW o, NEW n, NEW p, NEW a, NEW c, Delayed, TypeOK,
           Absolute(W, w, o, n, p, a, c), NEW t \in Managers, CheckBlock(t)
    PROVE  Left(p, c[t]) /\ a[SlotOf(c[t])] = c[t]
<1> DEFINE s == SlotOf(c[t])
<1>1. c[t] \in Nat /\ s \in Slots /\ block_check_ids[t] = s /\ TurnOf(c[t]) = t
  <2>1. c[t] \in Nat
    BY Points DEF Absolute
  <2> QED
    BY <2>1, SlotFacts DEF Absolute, Linked
<1> HIDE DEF s
<1>2. a[s] \in Nat /\ SlotOf(a[s]) = s /\ block_disk_id[s] = DiskAt(a[s])
  BY <1>1, Points DEF Absolute, Linked
<1>3. ASSUME NEW r \in Readers PROVE p[r] > a[s] + D
  <2>1. p[r] \in Nat /\ disk_write_ids[r] = DiskAt(p[r])
    BY Points DEF Absolute, Linked
  <2>2. OutsideBarriers(DiskAt(p[r]), (DiskAt(a[s]) + D) % N)
    BY <1>1, <1>2, <2>1 DEF CheckBlock, CheckRSS
  <2>3. (DiskAt(a[s]) + D) % N = DiskAt(a[s] + D)
    BY <1>2, DiskAdd, Sizes
  <2> DEFINE z == a[s] + D
  <2>4. z \in Nat
    BY <1>2, Sizes
  <2>5. z <= p[r] + 2 * B
    <3>1. CASE a[s] < B
      BY <1>2, <2>1, <3>1, Sizes, DelaySizes
    <3>2. CASE B <= a[s]
      <4>1. p[r] > (a[s] - B) + D
        BY <1>1, <3>2, PreviousLeft DEF Left
      <4> QED
        BY <1>2, <2>1, <4>1, Sizes
    <3> QED
      BY <1>2, <3>1, <3>2, Sizes
  <2>6. p[r] + 2 * B < z + N
    <3>1. p[r] <= D \/ p[r] + D <= a[s] + 2 * B + 1
      BY <1>1, Ahead
    <3> QED
      BY <1>2, <2>1, <3>1, Sizes, DelaySizes
  <2>7. OutsideBarriers(DiskAt(p[r]), DiskAt(z))
    BY <2>2, <2>3
  <2> HIDE DEF z
  <2>8. z < p[r]
    BY <2>1, <2>4, <2>5, <2>6, <2>7, BarrierSound
  <2> QED
    BY <2>1, <2>4, <2>8 DEF z
<1>4. ~(c[t] < a[s])
  <2> SUFFICES ASSUME c[t] < a[s] PROVE FALSE
    OBVIOUS
  <2>1. Taken(c, c[t])
    BY <1>1 DEF Absolute, SlotsTaken, s
  <2> QED
    BY <1>1, <2>1 DEF Taken
<1>5. ~(a[s] < c[t])
  <2> SUFFICES ASSUME a[s] < c[t] PROVE FALSE
    OBVIOUS
  <2>1. a[s] + B <= c[t]
    BY <1>1, <1>2, SlotApart DEF s
  <2>2. PICK r \in Readers : p[r] <= a[s] + B
    BY <1>1, Behind
  <2>3. c[t] >= T
    BY <1>1, <1>2, <2>1, Sizes
  <2>4. p[r] > (c[t] - T) + D /\ p[r] \in Nat
    BY <2>3, Points DEF Absolute, Managed, Left
  <2> QED
    BY <1>1, <1>2, <2>1, <2>2, <2>4, Sizes, DelaySizes
<1>6. a[s] = c[t]
  BY <1>1, <1>2, <1>4, <1>5
<1> QED
  BY <1>3, <1>6 DEF Left, s

(* The reader's side of the invariant is kept by the steps of the others   *)
(* that leave the slots alone.                                             *)
LEMMA ReadersKept ==
    ASSUME NEW W, NEW w, NEW o, NEW n, NEW p, NEW a, NEW c,
           Absolute(W, w, o, n, p, a, c),
           UNCHANGED <<running, calls, copying>>
    PROVE  /\ CallsPlaced(W, w, o, n)' /\ CellsHeld(W, w, o, n, a)'
           /\ Published(w, o, n, p, a)' /\ CopyInPlace(w, o, n, a)'
BY DEF Absolute, CallsPlaced, CellsHeld, Holds, Published, Waiting, CopyInPlace

(* runData finds a block to dump.                                          *)
LEMMA KeptByFind ==
    ASSUME NEW W, NEW w, NEW o, NEW n, NEW p, NEW a, NEW c, Delayed, TypeOK, Capturing,
           Absolute(W, w, o, n, p, a, c), NEW t \in Managers, FindBlock(t)
    PROVE  Absolute(W, w, o, n, p, a, c)'
<1>1. /\ mpc[t] = "check" /\ CheckBlock(t) /\ mpc' = [mpc EXCEPT ![t] = "get"]
      /\ UNCHANGED <<block_disk_id, disk_write_ids, block_check_ids, diskWriteCell, writeCell,
                     calls, copying, running, taken, ring, completed, doubled>>
  BY DEF FindBlock, Stopped, Capturing, bufferVars, readerVars, agentVars, historyVars
<1>2. Left(p, c[t]) /\ a[SlotOf(c[t])] = c[t]
  BY <1>1, CheckedBlockLeft
<1>3. mpc \in [Managers -> {"check", "get", "submit", "returned"}]
  BY DEF TypeOK
<1>4. mpc'[t] = "get" /\ \A u \in Managers \ {t} : mpc'[u] = mpc[u]
  BY <1>1, <1>3
<1>5. \A u \in Managers : mpc'[u] = "submit" <=> mpc[u] = "submit"
  BY <1>1, <1>4
<1>6. Managed(p, a, c)'
  BY <1>1, <1>2, <1>4 DEF Absolute, Managed
<1>7. SlotsTaken(a, c)'
  BY <1>1, <1>5 DEF Absolute, SlotsTaken, HandedOver, Submitted
<1>8. Once'
  BY <1>1, <1>5 DEF Absolute, Once
<1>9. Linked(W, w, p, a, c)' /\ Counted(W, w, o, n, p, a, c)'
  BY <1>1 DEF Absolute, Linked, Counted
<1> QED
  BY <1>1, <1>6, <1>7, <1>8, <1>9, ReadersKept DEF Absolute

(* getBlock: the manager takes the block and moves on to its next one.     *)
LEMMA KeptByTake ==
    ASSUME NEW W, NEW w, NEW o, NEW n, NEW p, NEW a, NEW c, Delayed, TypeOK,
           Absolute(W, w, o, n, p, a, c), NEW t \in Managers, TakeBlock(t)
    PROVE  Absolute(W, w, o, n, p, a, [c EXCEPT ![t] = c[t] + T])'
<1> DEFINE c2 == [c EXCEPT ![t] = c[t] + T]
           s == SlotOf(c[t])
<1>1. /\ p \in [Readers -> Nat] /\ a \in [Slots -> Nat] /\ c \in [Managers -> Nat]
      /\ c[t] \in Nat /\ s \in Slots /\ block_check_ids[t] = s /\ TurnOf(c[t]) = t
  <2>1. p \in [Readers -> Nat] /\ a \in [Slots -> Nat] /\ c \in [Managers -> Nat] /\ c[t] \in Nat
    BY DEF Absolute, Counted
  <2> QED
    BY <2>1, SlotFacts DEF Absolute, Linked
<1>2. /\ mpc[t] = "get" /\ mpc' = [mpc EXCEPT ![t] = "submit"]
      /\ taken' = [taken EXCEPT ![t] = BlockTaken(t)]
      /\ doubled' = (doubled \/ HandedOver(block_check_ids[t]))
      /\ block_check_ids' = [block_check_ids EXCEPT ![t] = (block_check_ids[t] + T) % B]
      /\ UNCHANGED <<block_disk_id, disk_write_ids, diskWriteCell, writeCell,
                     calls, copying, running, ring, completed>>
  BY DEF TakeBlock, GetBlock, readerVars, agentVars
<1>3. Left(p, c[t]) /\ a[s] = c[t]
  BY <1>2 DEF Absolute, Managed
<1>4. ~HandedOver(s)
  <2> SUFFICES ASSUME HandedOver(s) PROVE FALSE
    OBVIOUS
  <2>1. Taken(c, a[s])
    BY <1>1 DEF Absolute, SlotsTaken
  <2> QED
    BY <1>1, <1>3, <2>1 DEF Taken
<1>5. /\ mpc \in [Managers -> {"check", "get", "submit", "returned"}]
      /\ taken \in [Managers -> BlockSet] /\ block_check_ids \in [Managers -> Slots]
  BY DEF TypeOK, BufferTypeOK
<1>6. /\ mpc'[t] = "submit" /\ taken'[t] = BlockTaken(t)
      /\ block_check_ids'[t] = (s + T) % B
      /\ \A u \in Managers \ {t} : /\ mpc'[u] = mpc[u] /\ taken'[u] = taken[u]
                                   /\ block_check_ids'[u] = block_check_ids[u]
  BY <1>1, <1>2, <1>5
<1>7. taken'[t].slot = s /\ taken'[t].write_pos = block_disk_id[s]
  BY <1>1, <1>6 DEF BlockTaken
<1>8. /\ c2 \in [Managers -> Nat] /\ c2[t] = c[t] + T
      /\ \A u \in Managers \ {t} : c2[u] = c[u]
  BY <1>1, Sizes
<1>9. SlotOf(c2[t]) = block_check_ids'[t] /\ TurnOf(c2[t]) = t
  BY <1>1, <1>6, <1>8, SlotFacts, TurnFacts
<1> HIDE DEF c2, s
<1>10. Linked(W, w, p, a, c2)' /\ Counted(W, w, o, n, p, a, c2)'
  <2>1. Counted(W, w, o, n, p, a, c2)'
    BY <1>8 DEF Absolute, Counted
  <2> QED
    BY <1>2, <1>6, <1>8, <1>9, <2>1 DEF Absolute, Linked
<1>11. Managed(p, a, c2)'
  <2>1. c2[t] - T = c[t]
    BY <1>1, <1>8, Sizes
  <2>2. mpc'[t] \in {"check", "get", "submit"} /\ mpc'[t] # "get" /\ Left(p, c2[t] - T)
        /\ taken'[t].write_pos = block_disk_id'[taken'[t].slot]
    BY <1>2, <1>3, <1>6, <1>7, <2>1
  <2>3. ASSUME NEW u \in Managers \ {t}
        PROVE  /\ mpc'[u] \in {"check", "get", "submit"}
               /\ c2[u] >= T => Left(p, c2[u] - T)
               /\ mpc'[u] = "get" => Left(p, c2[u]) /\ a[SlotOf(c2[u])] = c2[u]
               /\ mpc'[u] = "submit" => taken'[u].write_pos = block_disk_id'[taken'[u].slot]
    BY <1>2, <1>6, <1>8, <2>3 DEF Absolute, Managed
  <2> QED
    BY <2>2, <2>3 DEF Managed
<1>12. \A y \in Nat : Taken(c, y) => Taken(c2, y)
  <2> SUFFICES ASSUME NEW y \in Nat, Taken(c, y) PROVE Taken(c2, y)
    OBVIOUS
  <2>1. TurnOf(y) \in Managers /\ y < c[TurnOf(y)]
    BY TurnFacts DEF Taken
  <2> QED
    BY <1>1, <1>8, <2>1, Sizes DEF Taken
<1>13. SlotsTaken(a, c2)'
  <2> SUFFICES ASSUME NEW u \in Slots
               PROVE  /\ HandedOver(u)' => Taken(c2, a[u])
                      /\ \A y \in Nat : y < a[u] /\ SlotOf(y) = u => Taken(c2, y)
    BY DEF SlotsTaken
  <2>1. a[u] \in Nat /\ (HandedOver(u) => Taken(c, a[u]))
        /\ \A y \in Nat : y < a[u] /\ SlotOf(y) = u => Taken(c, y)
    BY <1>1 DEF Absolute, SlotsTaken
  <2>2. HandedOver(u)' => HandedOver(u) \/ u = s
    BY <1>2, <1>6, <1>7 DEF HandedOver, Submitted
  <2>3. Taken(c2, a[s])
    BY <1>1, <1>3, <1>8, Sizes DEF Taken
  <2> QED
    BY <1>12, <2>1, <2>2, <2>3
<1>14. Once'
  <2>1. ~doubled'
    BY <1>1, <1>2, <1>4 DEF Absolute, Once, s
  <2>2. \A u \in Managers : /\ \A i \in DOMAIN ring[u] : ring[u][i] # s
                            /\ \A i \in DOMAIN completed[u] : completed[u][i].slot # s
                            /\ mpc[u] = "submit" => taken[u].slot # s
    BY <1>4 DEF HandedOver, Submitted
  <2> QED
    BY <1>2, <1>6, <1>7, <2>1, <2>2 DEF Absolute, Once
<1> QED
  BY <1>2, <1>10, <1>11, <1>13, <1>14, ReadersKept DEF Absolute, c2

(* recycleBlock on a slot that was handed over: no reader writes there and *)
(* no manager comes to it, so only the slot's own position moves.          *)
LEMMA SlotRecycled ==
    ASSUME NEW W, NEW w, NEW o, NEW n, NEW p, NEW a, NEW c, Delayed, TypeOK,
           Absolute(W, w, o, n, p, a, c), NEW s \in Slots, HandedOver(s), RecycleBlock(s),
           UNCHANGED <<diskWriteCell, writeCell, running, calls, copying>>,
           ~HandedOver(s)', \A u \in Slots : HandedOver(u)' => HandedOver(u),
           \A t \in Managers : /\ mpc'[t] \in {"check", "get", "submit"}
                               /\ mpc'[t] = "get" => mpc[t] = "get"
                               /\ mpc'[t] = "submit" => mpc[t] = "submit" /\ taken'[t] = taken[t],
           Once'
    PROVE  Absolute(W, w, o, n, p, [a EXCEPT ![s] = a[s] + B], c)'
<1> DEFINE a2 == [a EXCEPT ![s] = a[s] + B]
<1>1. a \in [Slots -> Nat] /\ a[s] \in Nat /\ SlotOf(a[s]) = s /\ block_disk_id[s] = DiskAt(a[s])
  BY DEF Absolute, Counted, Linked
<1>2. /\ a2 \in [Slots -> Nat] /\ a2[s] = a[s] + B
      /\ \A u \in Slots \ {s} : a2[u] = a[u]
  BY <1>1, Sizes
<1> HIDE DEF a2
<1>3. /\ block_disk_id' = [block_disk_id EXCEPT ![s] = (block_disk_id[s] + B) % N]
      /\ UNCHANGED <<disk_write_ids, block_check_ids>>
  BY DEF RecycleBlock, GiveSlot
<1>4. /\ block_disk_id'[s] = DiskAt(a2[s]) /\ SlotOf(a2[s]) = s
      /\ \A u \in Slots \ {s} : block_disk_id'[u] = block_disk_id[u]
  <2>1. block_disk_id \in [Slots -> DiskIds]
    BY DEF TypeOK, BufferTypeOK
  <2>2. DiskAt(a[s] + B) = (DiskAt(a[s]) + B) % N /\ SlotOf(a[s] + B) = s
    BY <1>1, DiskAdd, SlotFacts, Sizes
  <2> QED
    BY <1>1, <1>2, <1>3, <2>1, <2>2
<1>5. Taken(c, a[s]) /\ Left(p, a[s])
  <2>1. Taken(c, a[s])
    BY DEF Absolute, SlotsTaken
  <2> QED
    BY <1>1, <2>1, TakenLeft
<1>6. \A r \in Readers : a[s] < BlockOf(Cur(w, o, n, r)) /\ BlockOf(Cur(w, o, n, r)) \in Nat
  BY <1>1, <1>5, LeftPassed, Points DEF Absolute
<1>7. ASSUME NEW y \in Nat PROVE Reached(a, y) => Reached(a2, y)
  <2>1. SlotOf(y) \in Slots
    BY SlotFacts
  <2>2. a[SlotOf(y)] \in Nat /\ a2[SlotOf(y)] \in Nat /\ a[SlotOf(y)] <= a2[SlotOf(y)]
    BY <1>1, <1>2, <2>1, Sizes
  <2> QED
    BY <2>2 DEF Reached
<1>8. ASSUME NEW r \in Readers, LET b == BlockOf(Cur(w, o, n, r)) IN a[SlotOf(b)] = b
      PROVE  LET b == BlockOf(Cur(w, o, n, r)) IN a2[SlotOf(b)] = b
  <2> DEFINE b == BlockOf(Cur(w, o, n, r))
  <2>1. b \in Nat /\ a[s] < b
    BY <1>6
  <2> HIDE DEF b
  <2>2. SlotOf(b) \in Slots
    BY <2>1, SlotFacts
  <2>3. a[SlotOf(b)] = b
    BY <1>8 DEF b
  <2>4. SlotOf(b) # s
    BY <1>1, <2>1, <2>3
  <2>5. a2[SlotOf(b)] = b
    BY <1>2, <2>2, <2>3, <2>4
  <2> QED
    BY <2>5 DEF b
<1>9. Counted(W, w, o, n, p, a2, c)'
  BY <1>2 DEF Absolute, Counted
<1>10. Linked(W, w, p, a2, c)'
  BY <1>2, <1>3, <1>4 DEF Absolute, Linked
<1>11. CallsPlaced(W, w, o, n)'
  BY DEF Absolute, CallsPlaced
<1>12. CellsHeld(W, w, o, n, a2)'
  <2>1. \A r \in Readers : BlockOf(w[r]) \in Nat /\ BlockOf(o[r]) \in Nat
    BY Points DEF Absolute
  <2>2. \A x \in 0 .. W - 1 : BlockOf(x) \in Nat
    <3>1. W \in Nat
      BY DEF Absolute, Counted
    <3> QED
      BY <3>1, BlockFacts
  <2>3. \A x \in 0 .. W - 1 :
          Reached(a2, BlockOf(x)) \/ \E r \in Readers : Holds(w, o, n, r, x)'
    BY <1>7, <2>2 DEF Absolute, CellsHeld, Holds
  <2>4. W > 0 => \E r \in Readers :
          /\ running'[r] # "new"
          /\ Reached(a2, BlockOf(w[r])) \/ (calls'[r] # <<>> /\ ~calls'[r][n[r] + 1].link)
          /\ n[r] > 0 => Reached(a2, BlockOf(o[r]))
    BY <1>7, <2>1 DEF Absolute, CellsHeld
  <2> QED
    BY <2>3, <2>4 DEF CellsHeld
<1>13. Published(w, o, n, p, a2)'
  <2>1. \A r \in Readers : Waiting(w, o, n, p, a, r) => Waiting(w, o, n, p, a2, r)'
    BY <1>8 DEF Waiting
  <2> QED
    BY <2>1 DEF Absolute, Published
<1>14. CopyInPlace(w, o, n, a2)'
  BY <1>8 DEF Absolute, CopyInPlace
<1>15. Managed(p, a2, c)'
  <2> SUFFICES ASSUME NEW t \in Managers
               PROVE  /\ mpc'[t] \in {"check", "get", "submit"}
                      /\ c[t] >= T => Left(p, c[t] - T)
                      /\ mpc'[t] = "get" => Left(p, c[t]) /\ a2[SlotOf(c[t])] = c[t]
                      /\ mpc'[t] = "submit" => taken'[t].write_pos = block_disk_id'[taken'[t].slot]
    BY DEF Managed
  <2>1. ASSUME mpc'[t] = "get" PROVE Left(p, c[t]) /\ a2[SlotOf(c[t])] = c[t]
    <3>1. Left(p, c[t]) /\ a[SlotOf(c[t])] = c[t]
      BY <2>1 DEF Absolute, Managed
    <3>2. c[t] \in Nat /\ TurnOf(c[t]) = t /\ SlotOf(c[t]) \in Slots
      <4>1. c[t] \in Nat
        BY Points DEF Absolute
      <4> QED
        BY <4>1, SlotFacts DEF Absolute, Linked
    <3>3. SlotOf(c[t]) # s
      BY <1>5, <3>1, <3>2 DEF Taken
    <3> QED
      BY <1>2, <3>1, <3>2, <3>3
  <2>2. ASSUME mpc'[t] = "submit" PROVE taken'[t].write_pos = block_disk_id'[taken'[t].slot]
    <3>1. taken[t].write_pos = block_disk_id[taken[t].slot] /\ taken'[t] = taken[t]
      BY <2>2 DEF Absolute, Managed
    <3>2. taken'[t].slot # s
      BY <2>2 DEF HandedOver
    <3>3. taken[t].slot \in Slots
      BY DEF TypeOK, BlockSet
    <3> QED
      BY <1>4, <3>1, <3>2, <3>3
  <2> QED
    BY <2>1, <2>2 DEF Absolute, Managed
<1>16. SlotsTaken(a2, c)'
  <2> SUFFICES ASSUME NEW u \in Slots
               PROVE  /\ HandedOver(u)' => Taken(c, a2[u])
                      /\ \A y \in Nat : y < a2[u] /\ SlotOf(y) = u => Taken(c, y)
    BY DEF SlotsTaken
  <2>1. /\ HandedOver(u) => Taken(c, a[u])
        /\ \A y \in Nat : y < a[u] /\ SlotOf(y) = u => Taken(c, y)
    BY DEF Absolute, SlotsTaken
  <2>2. CASE u # s
    BY <1>2, <2>1, <2>2
  <2>3. CASE u = s
    <3>1. ASSUME NEW y \in Nat, y < a2[s], SlotOf(y) = s PROVE Taken(c, y)
      <4>1. CASE y < a[s]
        BY <2>1, <2>3, <3>1, <4>1
      <4>2. CASE y = a[s]
        BY <1>5, <4>2
      <4>3. CASE a[s] < y
        <5>1. a[s] + B <= y
          BY <1>1, <3>1, <4>3, SlotApart
        <5> QED
          BY <1>1, <1>2, <3>1, <5>1, Sizes
      <4> QED
        BY <1>1, <4>1, <4>2, <4>3
    <3> QED
      BY <2>3, <3>1
  <2> QED
    BY <2>2, <2>3
<1> QED
  BY <1>9, <1>10, <1>11, <1>12, <1>13, <1>14, <1>15, <1>16 DEF Absolute, a2

(* Append and Tail, element by element.                                    *)
LEMMA AppendElements ==
    ASSUME NEW S, NEW q \in Seq(S), NEW x \in S
    PROVE  /\ Len(q) \in Nat /\ DOMAIN q = 1 .. Len(q)
           /\ DOMAIN Append(q, x) = 1 .. Len(q) + 1 /\ Append(q, x)[Len(q) + 1] = x
           /\ \A i \in 1 .. Len(q) : Append(q, x)[i] = q[i]
<1>1. /\ Append(q, x) \in Seq(S) /\ Len(Append(q, x)) = Len(q) + 1
      /\ Append(q, x)[Len(q) + 1] = x /\ \A i \in 1 .. Len(q) : Append(q, x)[i] = q[i]
  BY AppendProperties
<1> QED
  BY <1>1, LenProperties

(* What a queue holds when its first element is taken.                     *)
LEMMA TailElements ==
    ASSUME NEW S, NEW q \in Seq(S), q # <<>>
    PROVE  /\ Len(q) \in Nat /\ 0 < Len(q) /\ DOMAIN q = 1 .. Len(q) /\ Head(q) = q[1]
           /\ DOMAIN Tail(q) = 1 .. Len(q) - 1
           /\ \A i \in 1 .. Len(q) - 1 : Tail(q)[i] = q[i + 1]
<1>1. /\ Tail(q) \in Seq(S) /\ Len(Tail(q)) = Len(q) - 1
      /\ \A i \in 1 .. Len(Tail(q)) : Tail(q)[i] = q[i + 1]
  BY HeadTailProperties
<1>2. Len(q) \in Nat \ {0} /\ Head(q) = q[1]
  BY EmptySeq
<1> QED
  BY <1>1, <1>2, LenProperties

(* Taking out the write at index i moves the later ones up by one.         *)
LEMMA WithoutElements ==
    ASSUME NEW S, NEW q \in Seq(S), NEW i \in DOMAIN q
    PROVE  /\ Len(q) \in Nat /\ DOMAIN q = 1 .. Len(q) /\ i \in 1 .. Len(q)
           /\ DOMAIN Without(q, i) = 1 .. Len(q) - 1
           /\ \A j \in 1 .. Len(q) - 1 : Without(q, i)[j] = q[IF j < i THEN j ELSE j + 1]
<1> DEFINE f == SubSeq(q, 1, i - 1)
           g == SubSeq(q, i + 1, Len(q))
<1>1. Len(q) \in Nat /\ DOMAIN q = 1 .. Len(q) /\ i \in 1 .. Len(q) /\ \A j \in 1 .. Len(q) : q[j] \in S
  BY LenProperties
<1>2. /\ f \in Seq(S) /\ Len(f) = i - 1 /\ \A j \in 1 .. i - 1 : f[j] = q[j]
  <2>1. 1 \in Int /\ i - 1 \in Int /\ (\A j \in 1 .. i - 1 : q[j] \in S)
    BY <1>1
  <2>2. /\ f \in Seq(S) /\ Len(f) = (IF 1 <= i - 1 THEN (i - 1) - 1 + 1 ELSE 0)
        /\ \A j \in 1 .. (i - 1) - 1 + 1 : f[j] = q[1 + j - 1]
    BY <2>1, SubSeqProperties
  <2> HIDE DEF f
  <2> QED
    BY <1>1, <2>2
<1>3. /\ g \in Seq(S) /\ Len(g) = Len(q) - i /\ \A j \in 1 .. Len(q) - i : g[j] = q[i + j]
  <2>1. i + 1 \in Int /\ Len(q) \in Int /\ (\A j \in i + 1 .. Len(q) : q[j] \in S)
    BY <1>1
  <2>2. /\ g \in Seq(S) /\ Len(g) = (IF i + 1 <= Len(q) THEN Len(q) - (i + 1) + 1 ELSE 0)
        /\ \A j \in 1 .. Len(q) - (i + 1) + 1 : g[j] = q[(i + 1) + j - 1]
    BY <2>1, SubSeqProperties
  <2> HIDE DEF g
  <2>3. Len(g) = Len(q) - i
    BY <1>1, <2>2
  <2>4. ASSUME NEW j \in 1 .. Len(q) - i PROVE g[j] = q[i + j]
    <3>1. j \in 1 .. Len(q) - (i + 1) + 1 /\ (i + 1) + j - 1 = i + j
      BY <1>1
    <3> QED
      BY <2>2, <3>1
  <2> QED
    BY <2>2, <2>3, <2>4
<1> HIDE DEF f, g
<1>4. /\ f \o g \in Seq(S) /\ Len(f \o g) = Len(f) + Len(g)
      /\ \A j \in 1 .. Len(f) + Len(g) : (f \o g)[j] = IF j <= Len(f) THEN f[j] ELSE g[j - Len(f)]
  BY <1>2, <1>3, ConcatProperties
<1>5. Without(q, i) = f \o g
  BY DEF Without, f, g
<1>6. DOMAIN Without(q, i) = 1 .. Len(q) - 1
  <2>1. Len(f) + Len(g) = Len(q) - 1
    BY <1>1, <1>2, <1>3
  <2> QED
    BY <1>4, <1>5, <2>1, LenProperties
<1>7. ASSUME NEW j \in 1 .. Len(q) - 1 PROVE Without(q, i)[j] = q[IF j < i THEN j ELSE j + 1]
  <2>1. (f \o g)[j] = IF j <= i - 1 THEN f[j] ELSE g[j - (i - 1)]
    <3>1. Len(f) = i - 1 /\ j \in 1 .. Len(f) + Len(g)
      BY <1>1, <1>2, <1>3
    <3>2. (f \o g)[j] = IF j <= Len(f) THEN f[j] ELSE g[j - Len(f)]
      BY <1>4, <3>1
    <3> QED
      BY <3>1, <3>2
  <2>2. CASE j < i
    BY <1>1, <1>2, <1>5, <2>1, <2>2
  <2>3. CASE ~(j < i)
    <3>1. j - (i - 1) \in 1 .. Len(q) - i /\ i + (j - (i - 1)) = j + 1
      BY <1>1, <2>3
    <3>2. (f \o g)[j] = g[j - (i - 1)]
      BY <1>1, <2>1, <2>3
    <3> QED
      BY <1>3, <1>5, <2>3, <3>1, <3>2
  <2> QED
    BY <2>2, <2>3
<1> QED
  BY <1>1, <1>6, <1>7

(* Only getBlock hands a slot over: the other steps of managers, agents    *)
(* and memory managers pass it on or give it up.                           *)
LEMMA HandedByAdd ==
    ASSUME TypeOK, NEW t \in Managers, AddBlock(t), NEW s \in Slots, HandedOver(s)'
    PROVE  HandedOver(s)
<1> DEFINE q == ring[t]
           x == taken[t].slot
           z == ring'[t]
<1>1. /\ mpc[t] = "submit" /\ mpc' = [mpc EXCEPT ![t] = "check"]
      /\ taken' = [taken EXCEPT ![t] = Nothing] /\ UNCHANGED completed
      /\ UNCHANGED ring \/ ring' = [ring EXCEPT ![t] = Append(q, x)]
  BY DEF AddBlock
<1>2. /\ mpc \in [Managers -> {"check", "get", "submit", "returned"}]
      /\ taken \in [Managers -> BlockSet] /\ ring \in [Managers -> Seq(Slots)] /\ x \in Slots
  BY DEF TypeOK, BlockSet
<1>3. /\ mpc'[t] = "check" /\ (z = q \/ z = Append(q, x))
      /\ \A u \in Managers \ {t} : mpc'[u] = mpc[u] /\ taken'[u] = taken[u] /\ ring'[u] = ring[u]
  BY <1>1, <1>2
<1>4. \A i \in DOMAIN z : (i \in DOMAIN q /\ z[i] = q[i]) \/ z[i] = x
  <2>1. q \in Seq(Slots)
    BY <1>2
  <2> HIDE DEF q, x, z
  <2>2. CASE z = q
    BY <2>2
  <2>3. CASE z = Append(q, x)
    <3>1. /\ Len(q) \in Nat /\ DOMAIN q = 1 .. Len(q) /\ DOMAIN z = 1 .. Len(q) + 1
          /\ z[Len(q) + 1] = x /\ \A i \in 1 .. Len(q) : z[i] = q[i]
      BY <1>2, <2>1, <2>3, AppendElements
    <3> QED
      BY <3>1
  <2> QED
    BY <1>3, <2>2, <2>3
<1>5. HandedOver(x)
  BY <1>1 DEF HandedOver
<1>6. CASE \E m \in Managers : mpc'[m] = "submit" /\ taken'[m].slot = s
  BY <1>3, <1>6 DEF HandedOver
<1>7. ASSUME NEW m \in Managers, NEW i \in DOMAIN ring'[m], ring'[m][i] = s
      PROVE  HandedOver(s)
  <2>1. CASE m # t
    BY <1>3, <1>7, <2>1 DEF HandedOver, Submitted
  <2>2. CASE m = t
    BY <1>4, <1>5, <1>7, <2>2 DEF HandedOver, Submitted
  <2> QED
    BY <2>1, <2>2
<1>8. CASE \E m \in Managers : \E i \in DOMAIN completed'[m] : completed'[m][i].slot = s
  BY <1>1, <1>8 DEF HandedOver, Submitted
<1> QED
  BY <1>6, <1>7, <1>8 DEF HandedOver, Submitted

(* A completion moves a slot on and hands over no other.                   *)
LEMMA HandedByKernel ==
    ASSUME TypeOK, NEW t \in Managers, KernelCompletes(t), NEW s \in Slots, HandedOver(s)'
    PROVE  HandedOver(s)
<1>1. PICK i \in DOMAIN ring[t], ok \in BOOLEAN :
        /\ ring' = [ring EXCEPT ![t] = Without(ring[t], i)]
        /\ completed' = [completed EXCEPT ![t] = Append(completed[t], [slot |-> ring[t][i], ok |-> ok])]
  BY DEF KernelCompletes
<1> DEFINE Done == [slot : Slots, ok : BOOLEAN]
           q == ring[t]
           f == completed[t]
           x == [slot |-> ring[t][i], ok |-> ok]
<1>2. ring \in [Managers -> Seq(Slots)] /\ completed \in [Managers -> Seq(Done)]
      /\ UNCHANGED <<mpc, taken>>
  BY DEF TypeOK, KernelCompletes, managerVars
<1>3. /\ ring'[t] = Without(q, i) /\ completed'[t] = Append(f, x)
      /\ \A u \in Managers \ {t} : ring'[u] = ring[u] /\ completed'[u] = completed[u]
  BY <1>1, <1>2
<1>4. q \in Seq(Slots) /\ f \in Seq(Done) /\ q[i] \in Slots /\ x \in Done /\ x.slot = q[i]
  <2>1. q \in Seq(Slots) /\ f \in Seq(Done)
    <3> HIDE DEF Done
    <3> QED
      BY <1>2
  <2>2. q[i] \in Slots
    <3>1. i \in DOMAIN q
      OBVIOUS
    <3> HIDE DEF q
    <3> QED
      BY <2>1, <3>1
  <2> QED
    BY <2>1, <2>2
<1>5. i \in DOMAIN q
  OBVIOUS
<1> HIDE DEF q, f, x, Done
<1>6. \A j \in DOMAIN Without(q, i) : \E h \in DOMAIN q : Without(q, i)[j] = q[h]
  <2>1. /\ Len(q) \in Nat /\ DOMAIN q = 1 .. Len(q) /\ i \in 1 .. Len(q)
        /\ DOMAIN Without(q, i) = 1 .. Len(q) - 1
        /\ \A j \in 1 .. Len(q) - 1 : Without(q, i)[j] = q[IF j < i THEN j ELSE j + 1]
    BY <1>4, <1>5, WithoutElements
  <2> QED
    BY SMTT(30), <2>1
<1>7. \A j \in DOMAIN Append(f, x) :
        (j \in DOMAIN f /\ Append(f, x)[j] = f[j]) \/ Append(f, x)[j].slot = q[i]
  BY <1>4, AppendElements
<1>8. CASE \E m \in Managers : mpc'[m] = "submit" /\ taken'[m].slot = s
  BY <1>2, <1>8 DEF HandedOver
<1>9. ASSUME NEW m \in Managers, NEW j \in DOMAIN ring'[m], ring'[m][j] = s
      PROVE  HandedOver(s)
  <2>1. CASE m # t
    BY <1>3, <1>9, <2>1 DEF HandedOver, Submitted
  <2>2. CASE m = t
    BY <1>3, <1>6, <1>9, <2>2 DEF HandedOver, Submitted, q
  <2> QED
    BY <2>1, <2>2
<1>10. ASSUME NEW m \in Managers, NEW j \in DOMAIN completed'[m], completed'[m][j].slot = s
       PROVE  HandedOver(s)
  <2>1. CASE m # t
    BY <1>3, <1>10, <2>1 DEF HandedOver, Submitted
  <2>2. CASE m = t
    BY <1>3, <1>5, <1>7, <1>10, <2>2 DEF HandedOver, Submitted, f, q
  <2> QED
    BY <2>1, <2>2
<1> QED
  BY <1>8, <1>9, <1>10 DEF HandedOver, Submitted

(* The memory manager hands over no slot.                                  *)
LEMMA HandedByTail ==
    ASSUME TypeOK, NEW t \in Managers, Recycle(t) \/ Discard(t), NEW s \in Slots, HandedOver(s)'
    PROVE  HandedOver(s)
<1> DEFINE Done == [slot : Slots, ok : BOOLEAN]
           f == completed[t]
<1>1. /\ f # <<>> /\ completed' = [completed EXCEPT ![t] = Tail(f)]
      /\ UNCHANGED <<mpc, taken, ring>>
  BY DEF Recycle, Discard, CompletionReady, managerVars
<1>2. completed \in [Managers -> Seq(Done)]
  BY DEF TypeOK
<1>3. /\ completed'[t] = Tail(f) /\ f \in Seq(Done)
      /\ \A u \in Managers \ {t} : completed'[u] = completed[u]
  BY <1>1, <1>2
<1>4. \A j \in DOMAIN Tail(f) : \E h \in DOMAIN f : Tail(f)[j] = f[h]
  <2> HIDE DEF f, Done
  <2>1. /\ Len(f) \in Nat /\ DOMAIN f = 1 .. Len(f) /\ DOMAIN Tail(f) = 1 .. Len(f) - 1
        /\ \A i \in 1 .. Len(f) - 1 : Tail(f)[i] = f[i + 1]
    BY <1>1, <1>3, TailElements
  <2> QED
    BY <2>1
<1> HIDE DEF f
<1>5. CASE \E m \in Managers : mpc'[m] = "submit" /\ taken'[m].slot = s
  BY <1>1, <1>5 DEF HandedOver
<1>6. CASE \E m \in Managers : \E i \in DOMAIN ring'[m] : ring'[m][i] = s
  BY <1>1, <1>6 DEF HandedOver, Submitted
<1>7. ASSUME NEW m \in Managers, NEW j \in DOMAIN completed'[m], completed'[m][j].slot = s
      PROVE  HandedOver(s)
  <2>1. CASE m # t
    BY <1>3, <1>7, <2>1 DEF HandedOver, Submitted
  <2>2. CASE m = t
    <3>1. j \in DOMAIN Tail(f) /\ Tail(f)[j].slot = s
      BY <1>3, <1>7, <2>2
    <3>2. PICK h \in DOMAIN f : f[h].slot = s
      BY <1>4, <3>1
    <3> QED
      BY <3>2 DEF HandedOver, Submitted, f
  <2> QED
    BY <2>1, <2>2
<1> QED
  BY <1>5, <1>6, <1>7 DEF HandedOver, Submitted

(* Slot s is handed over at one place at most.                             *)
OnceAt(s) ==
    \A t, u \in Managers :
        /\ \A i \in DOMAIN ring[t] : ring[t][i] = s =>
             /\ \A j \in DOMAIN ring[u] : ring[u][j] = s => t = u /\ i = j
             /\ \A j \in DOMAIN completed[u] : completed[u][j].slot # s
             /\ mpc[u] = "submit" => taken[u].slot # s
        /\ \A i \in DOMAIN completed[t] : completed[t][i].slot = s =>
             /\ \A j \in DOMAIN completed[u] : completed[u][j].slot = s => t = u /\ i = j
             /\ mpc[u] = "submit" => taken[u].slot # s
        /\ mpc[t] = "submit" /\ taken[t].slot = s /\ mpc[u] = "submit" /\ taken[u].slot = s
             => t = u

(* As it is with every slot during the capture.                            *)
LEMMA OnceParts ==
    /\ Once <=> (~doubled /\ \A s : OnceAt(s))
    /\ (Once <=> (~doubled /\ \A s : OnceAt(s)))'
<1>1. Once => ~doubled /\ \A s : OnceAt(s)
  BY DEF Once, OnceAt
<1>2. ASSUME ~doubled, \A s : OnceAt(s) PROVE Once
  <2>1. ASSUME NEW t \in Managers, NEW u \in Managers, NEW i \in DOMAIN ring[t]
        PROVE  /\ \A j \in DOMAIN ring[u] : ring[t][i] = ring[u][j] => t = u /\ i = j
               /\ \A j \in DOMAIN completed[u] : ring[t][i] # completed[u][j].slot
               /\ mpc[u] = "submit" => taken[u].slot # ring[t][i]
    <3>1. OnceAt(ring[t][i])
      BY <1>2
    <3> QED
      BY <3>1 DEF OnceAt
  <2>2. ASSUME NEW t \in Managers, NEW u \in Managers, NEW i \in DOMAIN completed[t]
        PROVE  /\ \A j \in DOMAIN completed[u] :
                    completed[t][i].slot = completed[u][j].slot => t = u /\ i = j
               /\ mpc[u] = "submit" => taken[u].slot # completed[t][i].slot
    <3>1. OnceAt(completed[t][i].slot)
      BY <1>2
    <3> QED
      BY <3>1 DEF OnceAt
  <2>3. ASSUME NEW t \in Managers, NEW u \in Managers,
               mpc[t] = "submit", mpc[u] = "submit", taken[t].slot = taken[u].slot
        PROVE  t = u
    <3>1. OnceAt(taken[t].slot)
      BY <1>2
    <3> QED
      BY <2>3, <3>1 DEF OnceAt
  <2> QED
    BY <1>2, <2>1, <2>2, <2>3 DEF Once
<1>3. Once <=> (~doubled /\ \A s : OnceAt(s))
  BY <1>1, <1>2
<1> QED
  BY <1>3, PTL

(* recycleBlock gives the slot to another block of the disk.               *)
LEMMA BlockMoved ==
    ASSUME TypeOK, NEW s \in Slots, RecycleBlock(s)
    PROVE  ~UNCHANGED block_disk_id
<1>1. block_disk_id[s] \in 0 .. N - 1 /\ block_disk_id'[s] = (block_disk_id[s] + B) % N
  BY DEF TypeOK, BufferTypeOK, RecycleBlock, GiveSlot, DiskIds
<1>2. PICK d \in Nat : d = block_disk_id[s] /\ d < N
  BY <1>1, Sizes
<1>3. CASE d + B < N
  <2>1. (d + B) % N = d + B
    BY <1>2, <1>3, Sizes, ModSmall
  <2> QED
    BY <1>1, <1>2, <2>1, Sizes
<1>4. CASE N <= d + B
  <2>1. (d + B) % N = d + B - N
    BY <1>2, <1>4, Sizes, ModSmall
  <2> QED
    BY <1>1, <1>2, <2>1, Sizes
<1> QED
  BY <1>2, <1>3, <1>4, Sizes

(* addBlock passes the one slot it has on to the ring, or gives it up.     *)
LEMMA OnceByAdd ==
    ASSUME TypeOK, NEW t \in Managers, AddBlock(t), NoLostSubmit', NEW s, OnceAt(s)
    PROVE  /\ OnceAt(s)'
           /\ s = taken[t].slot /\ ~UNCHANGED block_disk_id => ~HandedOver(s)'
<1> DEFINE q == ring[t]
           z == ring'[t]
           k == Len(q) + 1
           x == taken[t].slot
<1>1. /\ mpc[t] = "submit" /\ mpc' = [mpc EXCEPT ![t] = "check"]
      /\ taken' = [taken EXCEPT ![t] = Nothing] /\ UNCHANGED completed
      /\ \/ UNCHANGED block_disk_id /\ ring' = [ring EXCEPT ![t] = Append(q, x)]
         \/ UNCHANGED ring
  BY DEF AddBlock, bufferVars, Fails, NoLostSubmit
<1>2. /\ mpc \in [Managers -> {"check", "get", "submit", "returned"}]
      /\ taken \in [Managers -> BlockSet] /\ ring \in [Managers -> Seq(Slots)] /\ x \in Slots
  BY DEF TypeOK, BlockSet
<1>3. /\ mpc'[t] = "check" /\ (z = q \/ z = Append(q, x))
      /\ \A u \in Managers \ {t} : mpc'[u] = mpc[u] /\ taken'[u] = taken[u] /\ ring'[u] = ring[u]
  BY <1>1, <1>2
<1>4. \A i \in DOMAIN z : (i \in DOMAIN q /\ z[i] = q[i]) \/ (i = k /\ z[i] = x)
  <2>1. q \in Seq(Slots)
    BY <1>2
  <2> HIDE DEF q, x, z
  <2>2. CASE z = q
    BY <2>2
  <2>3. CASE z = Append(q, x)
    <3>1. /\ Len(q) \in Nat /\ DOMAIN q = 1 .. Len(q) /\ DOMAIN z = 1 .. Len(q) + 1
          /\ z[Len(q) + 1] = x /\ \A i \in 1 .. Len(q) : z[i] = q[i]
      BY <1>2, <2>1, <2>3, AppendElements
    <3> QED
      BY <3>1
  <2> QED
    BY <1>3, <2>2, <2>3
<1>5. s = x => /\ \A u \in Managers : /\ \A i \in DOMAIN ring[u] : ring[u][i] # s
                                      /\ \A i \in DOMAIN completed[u] : completed[u][i].slot # s
               /\ \A u \in Managers \ {t} : ~(mpc[u] = "submit" /\ taken[u].slot = s)
  BY <1>1 DEF OnceAt
<1> HIDE DEF q, z, k, x
<1>6. ASSUME NEW u \in Managers, NEW v \in Managers,
             NEW i \in DOMAIN ring'[u], NEW j \in DOMAIN ring'[v],
             ring'[u][i] = s, ring'[v][j] = s
      PROVE  u = v /\ i = j
  <2>1. CASE u # t /\ v # t
    BY <1>3, <1>6, <2>1 DEF OnceAt
  <2>2. CASE u = t /\ v # t
    BY <1>3, <1>4, <1>5, <1>6, <2>2 DEF OnceAt, q, z
  <2>3. CASE u # t /\ v = t
    BY <1>3, <1>4, <1>5, <1>6, <2>3 DEF OnceAt, q, z
  <2>4. CASE u = t /\ v = t
    BY <1>4, <1>5, <1>6, <2>4 DEF OnceAt, q, z
  <2> QED
    BY <2>1, <2>2, <2>3, <2>4
<1>7. ASSUME NEW u \in Managers, NEW v \in Managers, NEW i \in DOMAIN ring'[u], ring'[u][i] = s
      PROVE  /\ \A j \in DOMAIN completed'[v] : completed'[v][j].slot # s
             /\ mpc'[v] = "submit" => taken'[v].slot # s
  <2>1. CASE u # t
    BY <1>1, <1>3, <1>7, <2>1 DEF OnceAt
  <2>2. CASE u = t
    BY <1>1, <1>3, <1>4, <1>5, <1>7, <2>2 DEF OnceAt, q, z
  <2> QED
    BY <2>1, <2>2
<1>8. \A u, v \in Managers :
        /\ \A i \in DOMAIN completed'[u] : completed'[u][i].slot = s =>
             /\ \A j \in DOMAIN completed'[v] : completed'[v][j].slot = s => u = v /\ i = j
             /\ mpc'[v] = "submit" => taken'[v].slot # s
        /\ mpc'[u] = "submit" /\ taken'[u].slot = s /\ mpc'[v] = "submit" /\ taken'[v].slot = s
             => u = v
  BY <1>1, <1>3 DEF OnceAt
<1>9. OnceAt(s)'
  BY <1>6, <1>7, <1>8 DEF OnceAt
<1>10. ASSUME s = taken[t].slot, ~UNCHANGED block_disk_id PROVE ~HandedOver(s)'
  <2>1. UNCHANGED ring /\ s = x
    BY <1>1, <1>10 DEF x
  <2> QED
    BY <1>1, <1>3, <1>5, <2>1 DEF HandedOver, Submitted
<1> QED
  BY <1>9, <1>10

(* The kernel moves a slot from the ring to the completion queue.          *)
LEMMA OnceByKernel ==
    ASSUME TypeOK, NEW t \in Managers, KernelCompletes(t), NEW s, OnceAt(s)
    PROVE  OnceAt(s)'
<1>1. PICK i \in DOMAIN ring[t], ok \in BOOLEAN :
        /\ ring' = [ring EXCEPT ![t] = Without(ring[t], i)]
        /\ completed' = [completed EXCEPT ![t] = Append(completed[t], [slot |-> ring[t][i], ok |-> ok])]
  BY DEF KernelCompletes
<1>2. UNCHANGED <<mpc, taken>>
  BY DEF KernelCompletes, managerVars
<1> DEFINE Done == [slot : Slots, ok : BOOLEAN]
           q == ring[t]
           z == ring'[t]
           f == completed[t]
           g == completed'[t]
           x == [slot |-> ring[t][i], ok |-> ok]
           k == Len(f) + 1
<1>3. ring \in [Managers -> Seq(Slots)] /\ completed \in [Managers -> Seq(Done)]
  BY DEF TypeOK
<1>4. /\ z = Without(q, i) /\ g = Append(f, x)
      /\ \A u \in Managers \ {t} : ring'[u] = ring[u] /\ completed'[u] = completed[u]
  BY <1>1, <1>3
<1>5. q \in Seq(Slots) /\ f \in Seq(Done) /\ q[i] \in Slots /\ x \in Done /\ x.slot = q[i]
  <2>1. q \in Seq(Slots) /\ f \in Seq(Done)
    <3> HIDE DEF Done
    <3> QED
      BY <1>3
  <2>2. q[i] \in Slots
    <3>1. i \in DOMAIN q
      OBVIOUS
    <3> HIDE DEF q
    <3> QED
      BY <2>1, <3>1
  <2>3. x \in Done /\ x.slot = q[i]
    BY <2>2
  <2> QED
    BY <2>1, <2>2, <2>3
<1> HIDE DEF q, z, f, g, x, Done, k
<1>6. /\ i \in DOMAIN q
      /\ \A j \in DOMAIN z : \E h \in DOMAIN q : h = (IF j < i THEN j ELSE j + 1) /\ h # i /\ z[j] = q[h]
      /\ \A j, m \in DOMAIN z :
           (IF j < i THEN j ELSE j + 1) = (IF m < i THEN m ELSE m + 1) => j = m
  <2>1. i \in DOMAIN q
    BY DEF q
  <2>2. /\ Len(q) \in Nat /\ DOMAIN q = 1 .. Len(q) /\ i \in 1 .. Len(q)
        /\ DOMAIN z = 1 .. Len(q) - 1
        /\ \A j \in 1 .. Len(q) - 1 : z[j] = q[IF j < i THEN j ELSE j + 1]
    BY <1>4, <1>5, <2>1, WithoutElements
  <2>3. ASSUME NEW j \in DOMAIN z
        PROVE  \E h \in DOMAIN q : h = (IF j < i THEN j ELSE j + 1) /\ h # i /\ z[j] = q[h]
    <3> DEFINE h == IF j < i THEN j ELSE j + 1
    <3>1. h \in DOMAIN q /\ h # i
      BY <2>2, <2>3
    <3>2. z[j] = q[h]
      BY <2>2, <2>3
    <3> QED
      BY <3>1, <3>2
  <2>4. \A j, m \in DOMAIN z :
          (IF j < i THEN j ELSE j + 1) = (IF m < i THEN m ELSE m + 1) => j = m
    BY <2>2
  <2> QED
    BY <2>1, <2>3, <2>4
<1>7. /\ \A j \in DOMAIN g : (j \in DOMAIN f /\ g[j] = f[j]) \/ (j = k /\ g[j].slot = q[i])
      /\ k \notin DOMAIN f
  <2>1. /\ Len(f) \in Nat /\ DOMAIN f = 1 .. Len(f) /\ DOMAIN g = 1 .. Len(f) + 1
        /\ g[Len(f) + 1] = x /\ \A j \in 1 .. Len(f) : g[j] = f[j]
    BY <1>4, <1>5, AppendElements
  <2> QED
    BY <1>5, <2>1 DEF k
<1>8. ASSUME NEW u \in Managers, NEW v \in Managers,
             NEW j \in DOMAIN ring'[u], NEW m \in DOMAIN ring'[v], ring'[u][j] = s, ring'[v][m] = s
      PROVE  u = v /\ j = m
  <2>1. CASE u # t /\ v # t
    BY <1>4, <1>8, <2>1 DEF OnceAt
  <2>2. CASE u = t /\ v # t
    BY <1>4, <1>6, <1>8, <2>2 DEF OnceAt, q, z
  <2>3. CASE u # t /\ v = t
    BY <1>4, <1>6, <1>8, <2>3 DEF OnceAt, q, z
  <2>4. CASE u = t /\ v = t
    BY <1>6, <1>8, <2>4 DEF OnceAt, q, z
  <2> QED
    BY <2>1, <2>2, <2>3, <2>4
<1>9. ASSUME NEW u \in Managers, NEW v \in Managers,
             NEW j \in DOMAIN ring'[u], NEW m \in DOMAIN completed'[v], ring'[u][j] = s
      PROVE  completed'[v][m].slot # s
  <2>1. PICK h \in DOMAIN ring[u] : ring'[u][j] = ring[u][h] /\ (u = t => h # i)
    BY <1>4, <1>6 DEF q, z
  <2>2. CASE v # t
    BY <1>4, <1>9, <2>1, <2>2 DEF OnceAt
  <2>3. CASE v = t /\ m \in DOMAIN f /\ g[m] = f[m]
    BY <1>9, <2>1, <2>3 DEF OnceAt, f, g
  <2>4. CASE v = t /\ g[m].slot = q[i]
    BY <1>6, <1>9, <2>1, <2>4 DEF OnceAt, q, g
  <2> QED
    BY <1>7, <2>2, <2>3, <2>4 DEF g
<1>10. ASSUME NEW u \in Managers, NEW v \in Managers, NEW j \in DOMAIN ring'[u],
              ring'[u][j] = s, mpc'[v] = "submit"
       PROVE  taken'[v].slot # s
  <2>1. PICK h \in DOMAIN ring[u] : ring'[u][j] = ring[u][h]
    BY <1>4, <1>6 DEF q, z
  <2> QED
    BY <1>2, <1>10, <2>1 DEF OnceAt
<1>11. ASSUME NEW u \in Managers, NEW v \in Managers,
              NEW j \in DOMAIN completed'[u], NEW m \in DOMAIN completed'[v],
              completed'[u][j].slot = s, completed'[v][m].slot = s
       PROVE  u = v /\ j = m
  <2>1. CASE u # t /\ v # t
    BY <1>4, <1>11, <2>1 DEF OnceAt
  <2>2. CASE u = t /\ v # t
    BY SMTT(30), <1>4, <1>6, <1>7, <1>11, <2>2 DEF OnceAt, q, f, g
  <2>3. CASE u # t /\ v = t
    BY SMTT(30), <1>4, <1>6, <1>7, <1>11, <2>3 DEF OnceAt, q, f, g
  <2>4. CASE u = t /\ v = t
    BY <1>6, <1>7, <1>11, <2>4 DEF OnceAt, q, f, g
  <2> QED
    BY <2>1, <2>2, <2>3, <2>4
<1>12. ASSUME NEW u \in Managers, NEW v \in Managers, NEW j \in DOMAIN completed'[u],
              completed'[u][j].slot = s, mpc'[v] = "submit"
       PROVE  taken'[v].slot # s
  <2>1. CASE u # t
    BY <1>2, <1>4, <1>12, <2>1 DEF OnceAt
  <2>2. CASE u = t
    BY <1>2, <1>6, <1>7, <1>12, <2>2 DEF OnceAt, q, f, g
  <2> QED
    BY <2>1, <2>2
<1>13. \A u, v \in Managers :
         mpc'[u] = "submit" /\ taken'[u].slot = s /\ mpc'[v] = "submit" /\ taken'[v].slot = s
           => u = v
  BY <1>2 DEF OnceAt
<1> QED
  BY <1>8, <1>9, <1>10, <1>11, <1>12, <1>13 DEF OnceAt

(* The slot at the head of a completion queue is handed over.              *)
LEMMA HeadHanded ==
    ASSUME TypeOK, NEW t \in Managers, completed[t] # <<>>
    PROVE  Head(completed[t]).slot \in Slots /\ HandedOver(Head(completed[t]).slot)
<1> DEFINE Done == [slot : Slots, ok : BOOLEAN]
           f == completed[t]
<1>1. f \in Seq(Done)
  BY DEF TypeOK
<1> HIDE DEF f, Done
<1>2. 1 \in DOMAIN f /\ Head(f) = f[1] /\ Head(f) \in Done
  BY <1>1, TailElements, HeadTailProperties DEF f
<1>3. f[1].slot \in Slots
  BY <1>2 DEF Done
<1> QED
  BY <1>2, <1>3 DEF HandedOver, Submitted, f

(* The slot at the head of the completion queue is given up.               *)
LEMMA OnceByRecycle ==
    ASSUME TypeOK, NEW t \in Managers, Recycle(t), NEW s, OnceAt(s)
    PROVE  /\ completed[t] # <<>>
           /\ OnceAt(s)'
           /\ s = Head(completed[t]).slot => ~HandedOver(s)'
<1> DEFINE Done == [slot : Slots, ok : BOOLEAN]
           f == completed[t]
           g == completed'[t]
<1>1. /\ f # <<>> /\ completed' = [completed EXCEPT ![t] = Tail(f)]
      /\ UNCHANGED <<mpc, taken, ring>>
  BY DEF Recycle, CompletionReady, managerVars
<1>2. completed \in [Managers -> Seq(Done)]
  BY DEF TypeOK
<1>3. g = Tail(f) /\ (\A u \in Managers \ {t} : completed'[u] = completed[u]) /\ f \in Seq(Done)
  BY <1>1, <1>2
<1>4. /\ Len(f) \in Nat /\ 0 < Len(f) /\ DOMAIN f = 1 .. Len(f) /\ Head(f) = f[1]
      /\ DOMAIN Tail(f) = 1 .. Len(f) - 1
      /\ \A i \in 1 .. Len(f) - 1 : Tail(f)[i] = f[i + 1]
  <2> HIDE DEF f
  <2> QED
    BY <1>1, <1>3, TailElements
<1> HIDE DEF f, g, Done
<1>5. 1 \in DOMAIN f /\ \A j \in DOMAIN g : j + 1 \in DOMAIN f /\ j + 1 # 1 /\ g[j] = f[j + 1] /\ j \in Int
  BY <1>3, <1>4
<1>6. \A u \in Managers : \A j \in DOMAIN completed'[u] :
         \E h \in DOMAIN completed[u] : completed'[u][j] = completed[u][h] /\ h = (IF u = t THEN j + 1 ELSE j)
  BY <1>3, <1>5 DEF f, g
<1>7. \A u, v \in Managers : \A i \in DOMAIN ring'[u] : ring'[u][i] = s =>
        /\ \A j \in DOMAIN ring'[v] : ring'[v][j] = s => u = v /\ i = j
        /\ mpc'[v] = "submit" => taken'[v].slot # s
  BY <1>1 DEF OnceAt
<1>8. ASSUME NEW u \in Managers, NEW v \in Managers,
             NEW i \in DOMAIN ring'[u], NEW j \in DOMAIN completed'[v], ring'[u][i] = s
      PROVE  completed'[v][j].slot # s
  BY <1>1, <1>6, <1>8 DEF OnceAt
<1>9. ASSUME NEW u \in Managers, NEW v \in Managers,
             NEW i \in DOMAIN completed'[u], NEW j \in DOMAIN completed'[v],
             completed'[u][i].slot = s, completed'[v][j].slot = s
      PROVE  u = v /\ i = j
  <2>1. u = v /\ (IF u = t THEN i + 1 ELSE i) = (IF v = t THEN j + 1 ELSE j)
    BY <1>6, <1>9 DEF OnceAt
  <2>2. u = t => i \in Int /\ j \in Int
    BY <1>5, <2>1 DEF g
  <2> QED
    BY <2>1, <2>2
<1>10. ASSUME NEW u \in Managers, NEW v \in Managers, NEW i \in DOMAIN completed'[u],
              completed'[u][i].slot = s, mpc'[v] = "submit"
       PROVE  taken'[v].slot # s
  BY <1>1, <1>6, <1>10 DEF OnceAt
<1>11. \A u, v \in Managers :
         mpc'[u] = "submit" /\ taken'[u].slot = s /\ mpc'[v] = "submit" /\ taken'[v].slot = s
           => u = v
  BY <1>1 DEF OnceAt
<1>12. OnceAt(s)'
  BY <1>7, <1>8, <1>9, <1>10, <1>11 DEF OnceAt
<1>13. ASSUME s = Head(f).slot PROVE ~HandedOver(s)'
  <2>0. f[1].slot = s /\ 1 \in DOMAIN completed[t] /\ completed[t][1].slot = s
    BY <1>4, <1>5, <1>13 DEF f
  <2>1. ~\E m \in Managers : mpc'[m] = "submit" /\ taken'[m].slot = s
    BY <1>1, <2>0 DEF OnceAt
  <2>2. ~\E m \in Managers : \E i \in DOMAIN ring'[m] : ring'[m][i] = s
    BY <1>1, <2>0 DEF OnceAt
  <2>3. ASSUME NEW m \in Managers, NEW j \in DOMAIN completed'[m], completed'[m][j].slot = s
        PROVE  FALSE
    BY <1>5, <1>6, <2>0, <2>3 DEF OnceAt, g
  <2> QED
    BY <2>1, <2>2, <2>3 DEF HandedOver, Submitted
<1> QED
  BY <1>1, <1>12, <1>13 DEF f

(* addBlock submits the write, or recycles the slot unwritten.             *)
LEMMA KeptByAdd ==
    ASSUME NEW W, NEW w, NEW o, NEW n, NEW p, NEW a, NEW c, Delayed, TypeOK,
           Absolute(W, w, o, n, p, a, c), NEW t \in Managers, AddBlock(t),
           NoLostSubmit'
    PROVE  \E a2 : /\ Absolute(W, w, o, n, p, a2, c)'
                   /\ a2 = a \/ \E s \in Slots : a2 = [a EXCEPT ![s] = a[s] + B]
<1>0. PICK s \in Slots : s = taken[t].slot
  BY DEF TypeOK, BlockSet
<1>1. /\ mpc[t] = "submit" /\ mpc' = [mpc EXCEPT ![t] = "check"]
      /\ taken' = [taken EXCEPT ![t] = Nothing]
      /\ UNCHANGED <<diskWriteCell, writeCell, calls, copying, running, doubled>>
  BY DEF AddBlock, readerVars, historyVars
<1>2. mpc \in [Managers -> {"check", "get", "submit", "returned"}] /\ taken \in [Managers -> BlockSet]
  BY DEF TypeOK
<1>3. /\ mpc'[t] = "check"
      /\ \A u \in Managers \ {t} : mpc'[u] = mpc[u] /\ taken'[u] = taken[u]
  BY <1>1, <1>2
<1>4. HandedOver(s)
  BY <1>0, <1>1 DEF HandedOver
<1>5. Once' /\ (~UNCHANGED block_disk_id => ~HandedOver(s)')
  <2>1. ~doubled /\ \A u : OnceAt(u)
    BY OnceParts DEF Absolute
  <2>2. \A u : OnceAt(u)'
    BY <2>1, OnceByAdd
  <2>3. ~UNCHANGED block_disk_id => ~HandedOver(s)'
    BY <1>0, <2>1, OnceByAdd
  <2> QED
    BY <1>1, <2>1, <2>2, <2>3, OnceParts
<1>6. \A u \in Slots : HandedOver(u)' => HandedOver(u)
  BY HandedByAdd
<1>7. CASE UNCHANGED bufferVars
  <2>1. UNCHANGED <<block_disk_id, disk_write_ids, block_check_ids>>
    BY <1>7 DEF bufferVars
  <2>2. SlotsTaken(a, c)'
    BY <1>6 DEF Absolute, SlotsTaken
  <2>3. Managed(p, a, c)'
    BY <1>3, <2>1 DEF Absolute, Managed
  <2>4. Linked(W, w, p, a, c)' /\ Counted(W, w, o, n, p, a, c)'
    BY <1>1, <2>1 DEF Absolute, Linked, Counted
  <2>5. Absolute(W, w, o, n, p, a, c)'
    BY <1>1, <1>5, <2>2, <2>3, <2>4, ReadersKept DEF Absolute
  <2> QED
    BY <2>5
<1>8. CASE RecycleBlock(s)
  <2>1. ~UNCHANGED block_disk_id
    BY <1>8, BlockMoved
  <2>2. \A u \in Managers : /\ mpc'[u] \in {"check", "get", "submit"}
                            /\ mpc'[u] = "get" => mpc[u] = "get"
                            /\ mpc'[u] = "submit" => mpc[u] = "submit" /\ taken'[u] = taken[u]
    BY <1>3 DEF Absolute, Managed
  <2>3. Absolute(W, w, o, n, p, [a EXCEPT ![s] = a[s] + B], c)'
    BY <1>1, <1>4, <1>5, <1>6, <1>8, <2>1, <2>2, SlotRecycled
  <2> QED
    BY <2>3
<1> QED
  BY <1>0, <1>7, <1>8 DEF AddBlock

(* The kernel moves a write from the submitted to the completed ones.      *)
LEMMA KeptByKernel ==
    ASSUME NEW W, NEW w, NEW o, NEW n, NEW p, NEW a, NEW c, TypeOK,
           Absolute(W, w, o, n, p, a, c), NEW t \in Managers, KernelCompletes(t)
    PROVE  Absolute(W, w, o, n, p, a, c)'
<1>1. UNCHANGED <<block_disk_id, disk_write_ids, block_check_ids, diskWriteCell, writeCell,
                  calls, copying, running, mpc, taken, doubled>>
  BY DEF KernelCompletes, bufferVars, readerVars, managerVars, historyVars
<1>2. \A u \in Slots : HandedOver(u)' => HandedOver(u)
  BY HandedByKernel
<1>3. Once'
  <2>1. ~doubled /\ \A u : OnceAt(u)
    BY OnceParts DEF Absolute
  <2>2. \A u : OnceAt(u)'
    BY <2>1, OnceByKernel
  <2> QED
    BY <1>1, <2>1, <2>2, OnceParts
<1>4. SlotsTaken(a, c)'
  BY <1>2 DEF Absolute, SlotsTaken
<1>5. Managed(p, a, c)'
  BY <1>1 DEF Absolute, Managed
<1>6. Linked(W, w, p, a, c)' /\ Counted(W, w, o, n, p, a, c)'
  BY <1>1 DEF Absolute, Linked, Counted
<1> QED
  BY <1>1, <1>3, <1>4, <1>5, <1>6, ReadersKept DEF Absolute

(* A memory manager recycles the slot of a completed write.                *)
LEMMA KeptByRecycle ==
    ASSUME NEW W, NEW w, NEW o, NEW n, NEW p, NEW a, NEW c, Delayed, TypeOK,
           Absolute(W, w, o, n, p, a, c), NEW t \in Managers, Recycle(t)
    PROVE  \E a2 : /\ Absolute(W, w, o, n, p, a2, c)'
                   /\ \E s \in Slots : a2 = [a EXCEPT ![s] = a[s] + B]
<1>1. /\ completed[t] # <<>> /\ RecycleBlock(Head(completed[t]).slot)
      /\ UNCHANGED <<diskWriteCell, writeCell, calls, copying, running, mpc, taken, doubled>>
  BY DEF Recycle, CompletionReady, readerVars, managerVars, historyVars
<1>2. PICK s \in Slots : s = Head(completed[t]).slot /\ HandedOver(s)
  BY <1>1, HeadHanded
<1>3. \A u \in Slots : HandedOver(u)' => HandedOver(u)
  BY HandedByTail
<1>4. Once' /\ ~HandedOver(s)'
  <2>1. ~doubled /\ \A u : OnceAt(u)
    BY OnceParts DEF Absolute
  <2>2. (\A u : OnceAt(u)') /\ ~HandedOver(s)'
    BY <1>2, <2>1, OnceByRecycle
  <2> QED
    BY <1>1, <2>1, <2>2, OnceParts
<1>5. \A u \in Managers : /\ mpc'[u] \in {"check", "get", "submit"}
                          /\ mpc'[u] = "get" => mpc[u] = "get"
                          /\ mpc'[u] = "submit" => mpc[u] = "submit" /\ taken'[u] = taken[u]
  BY <1>1 DEF Absolute, Managed
<1>6. Absolute(W, w, o, n, p, [a EXCEPT ![s] = a[s] + B], c)'
  BY <1>1, <1>2, <1>3, <1>4, <1>5, SlotRecycled
<1> QED
  BY <1>6

-----------------------------------------------------------------------------
(* The end times                                                           *)

(* The block being filled gives a fresh time to itself and to the next.    *)
LEMMA FreshTimes ==
    ASSUME NEW b \in Nat
    PROVE  Fresh(DiskAt(b), DiskAt(b)) /\ Fresh(DiskAt(b), DiskAt(b + 1))
<1>1. DiskAt((b + 1) + (N - 1)) = (DiskAt(b + 1) + (N - 1)) % N
  BY Sizes, DiskAdd
<1>2. (b + 1) + (N - 1) = b + N
  BY Sizes
<1>3. (b + N) % N = b % N
  BY Sizes, ModShift
<1>4. DiskAt(b + 1) \in Nat
  <2>1. DiskAt(b + 1) \in DiskIds
    BY DiskAdd, Sizes
  <2> QED
    BY <2>1, Sizes DEF DiskIds
<1>5. DiskAt(b + 1) + (N - 1) = DiskAt(b + 1) + N - 1
  BY <1>4, Sizes
<1>6. DiskAt(b) = (DiskAt(b + 1) + N - 1) % N
  BY <1>1, <1>2, <1>3, <1>5 DEF DiskAt
<1> QED
  BY <1>6 DEF Fresh

(* What a writeBlock call does to the end times.                           *)
LEMMA EndTimesStep ==
    ASSUME NEW W, NEW w, NEW o, NEW n, NEW p, NEW a, NEW c, Delayed, TypeOK,
           Absolute(W, w, o, n, p, a, c), NEW r \in Readers,
           calls[r] # <<>>, ~Head(calls[r]).link, NEW fits \in BOOLEAN,
           Resident(BlockOf(Head(calls[r]).cell)),
           fits => WriteFits(Head(calls[r]).cell, Head(calls[r]).end)
    PROVE  LET e  == Head(calls[r]).end
               b  == BlockOf(Cur(w, o, n, r))
               et == EndTimes(Head(calls[r]).cell, e, fits)
           IN  /\ \A s \in Slots : et[s] = end_times[s] \/ Fresh(et[s], DiskAt(a[s]))
               /\ e /\ fits => Fresh(et[SlotOf(b)], DiskAt(b))
<1> DEFINE q  == Cur(w, o, n, r)
           e  == Head(calls[r]).end
           l  == Head(calls[r]).cell
           b  == BlockOf(q)
           f  == Final(q, e)
           et == EndTimes(l, e, fits)
<1>1. /\ running[r] # "new" /\ e \in BOOLEAN /\ l = CellAt(q)
      /\ b <= f /\ f <= BlockOf(w[r]) /\ f \in Nat
  BY HeadCall
<1>2. q \in Nat /\ b \in Nat
  BY Points DEF Absolute
<1>3. BlockOf(l) = DiskAt(b) /\ FinalBlock(l, e) = DiskAt(f) /\ a[SlotOf(b)] = b
  BY HeadBlocks
<1>4. fits => a[SlotOf(f)] = f
  <2>1. Resident(DiskAt(f)) <=> a[SlotOf(f)] = f
    BY <1>1, ResidentIff
  <2>2. fits => Resident(FinalBlock(l, e))
    BY DEF WriteFits
  <2> QED
    BY <1>3, <2>1, <2>2
<1>5. Spills(l, e) <=> Spills(q, e)
  BY <1>1, <1>2, BlockFacts DEF Spills
<1>6. f = IF Spills(q, e) THEN b + 1 ELSE b
  BY DEF Final
<1>7. /\ SlotOf(DiskAt(b)) = SlotOf(b) /\ SlotOf(b) \in Slots
      /\ SlotOf(DiskAt(f)) = SlotOf(f) /\ SlotOf(f) \in Slots
  BY <1>1, <1>2, SlotFacts
<1> HIDE DEF q, e, l, b, f
<1>8. Fresh(DiskAt(b), DiskAt(b)) /\ Fresh(DiskAt(b), DiskAt(f))
  BY <1>2, <1>6, FreshTimes
<1>9. end_times \in [Slots -> DiskIds \cup {NoTime}]
  BY DEF TypeOK, BufferTypeOK
<1> DEFINE left == IF Spills(q, e) THEN [end_times EXCEPT ![SlotOf(b)] = DiskAt(b)] ELSE end_times
<1>10. et = IF e /\ fits THEN [left EXCEPT ![SlotOf(f)] = DiskAt(b)] ELSE left
  BY <1>3, <1>5, <1>7 DEF EndTimes
<1>11. DOMAIN left = Slots
       /\ \A s \in Slots : left[s] = IF Spills(q, e) /\ s = SlotOf(b) THEN DiskAt(b) ELSE end_times[s]
  BY <1>7, <1>9
<1> HIDE DEF left, et
<1>12. \A s \in Slots : et[s] = IF e /\ fits /\ s = SlotOf(f) THEN DiskAt(b) ELSE left[s]
  BY <1>7, <1>10, <1>11
<1>13. \A s \in Slots : et[s] = end_times[s] \/ Fresh(et[s], DiskAt(a[s]))
  BY <1>3, <1>4, <1>8, <1>11, <1>12
<1>14. ASSUME e, fits PROVE Fresh(et[SlotOf(b)], DiskAt(b))
  <2>1. CASE SlotOf(b) = SlotOf(f)
    BY <1>7, <1>8, <1>12, <1>14, <2>1
  <2>2. CASE SlotOf(b) # SlotOf(f)
    <3>1. Spills(q, e)
      BY <1>6, <2>2
    <3> QED
      BY <1>7, <1>8, <1>11, <1>12, <2>2, <3>1
  <2> QED
    BY <2>1, <2>2
<1> QED
  BY <1>13, <1>14 DEF et, e, l, b, q

(* Steps that leave the end times alone and finish no cell.                *)
LEMMA EndsKept ==
    ASSUME NEW W, NEW w, NEW o, NEW n, NEW a \in [Slots -> Nat],
           NEW W2, NEW w2, NEW o2, NEW n2,
           EndsFresh(W, w, o, n, a), UNCHANGED end_times,
           \A x \in Nat : Open(W, w, o, n, x) => Open(W2, w2, o2, n2, x)',
           \A m \in Readers : copying'[m] /\ ~Head(calls'[m]).link /\ Head(calls'[m]).end =>
               /\ copying[m] /\ ~Head(calls[m]).link /\ Head(calls[m]).end
               /\ Cur(w2, o2, n2, m) = Cur(w, o, n, m),
           \A t \in Managers : mpc'[t] = "submit" => mpc[t] = "submit" /\ taken'[t] = taken[t]
    PROVE  EndsFresh(W2, w2, o2, n2, a)'
<1>1. ASSUME NEW s \in Slots
      PROVE  Fresh(end_times'[s], DiskAt(a[s])) \/ Open(W2, w2, o2, n2, R * a[s] + (R - 1))'
  <2>1. R * a[s] + (R - 1) \in Nat
    <3>1. a[s] \in Nat /\ R - 1 \in 0 .. R - 1
      BY Sizes
    <3> QED
      BY <3>1, CellsOfBlock
  <2> QED
    BY <2>1 DEF EndsFresh
<1>2. ASSUME NEW m \in Readers, copying'[m], ~Head(calls'[m]).link, Head(calls'[m]).end
      PROVE  Fresh(end_times'[SlotOf(BlockOf(Cur(w2, o2, n2, m)))], DiskAt(BlockOf(Cur(w2, o2, n2, m))))
  BY <1>2 DEF EndsFresh
<1>3. ASSUME NEW t \in Managers, mpc'[t] = "submit"
      PROVE  Fresh(taken'[t].end_time, taken'[t].write_pos)
  BY <1>3 DEF EndsFresh
<1> QED
  BY <1>1, <1>2, <1>3 DEF EndsFresh

(* Steps in which a call of reader r gives end times, and may be accepted. *)
LEMMA EndsGiven ==
    ASSUME NEW W, NEW w, NEW o, NEW n, NEW p, NEW a, NEW c,
           Absolute(W, w, o, n, p, a, c), EndsFresh(W, w, o, n, a), NEW r \in Readers,
           UNCHANGED <<calls, running, mpc, taken>>,
           \A s \in Slots : end_times'[s] = end_times[s] \/ Fresh(end_times'[s], DiskAt(a[s])),
           \A m \in Readers : copying'[m] => copying[m] \/ m = r,
           copying'[r] /\ Head(calls[r]).end /\ ~copying[r] =>
               Fresh(end_times'[SlotOf(BlockOf(Cur(w, o, n, r)))], DiskAt(BlockOf(Cur(w, o, n, r))))
    PROVE  EndsFresh(W, w, o, n, a)'
<1>1. ASSUME NEW s \in Slots
      PROVE  Fresh(end_times'[s], DiskAt(a[s])) \/ Open(W, w, o, n, R * a[s] + (R - 1))'
  BY DEF EndsFresh, Open, Holds
<1>2. ASSUME NEW m \in Readers, copying'[m], ~Head(calls[m]).link, Head(calls[m]).end
      PROVE  Fresh(end_times'[SlotOf(BlockOf(Cur(w, o, n, m)))], DiskAt(BlockOf(Cur(w, o, n, m))))
  <2> DEFINE b == BlockOf(Cur(w, o, n, m))
  <2>1. CASE copying[m]
    <3>1. a[SlotOf(b)] = b
      BY <1>2, <2>1 DEF Absolute, CopyInPlace
    <3>2. Fresh(end_times[SlotOf(b)], DiskAt(b))
      BY <1>2, <2>1 DEF EndsFresh
    <3>3. SlotOf(b) \in Slots
      BY Points, SlotFacts DEF Absolute
    <3> QED
      BY <3>1, <3>2, <3>3
  <2>2. CASE ~copying[m]
    BY <1>2, <2>2
  <2> QED
    BY <2>1, <2>2
<1> QED
  BY <1>1, <1>2 DEF EndsFresh

(* The steps of a reader.                                                  *)
LEMMA EndsByReader ==
    ASSUME NEW W, NEW w, NEW o, NEW n, NEW p, NEW a, NEW c, Delayed, TypeOK,
           Absolute(W, w, o, n, p, a, c), EndsFresh(W, w, o, n, a), NEW r \in Readers
    PROVE  /\ ReaderStarts(r) => EndsFresh(W + 1, [w EXCEPT ![r] = W], o, n, a)'
           /\ LinkBefore(r) \/ ReaderReturns(r) => EndsFresh(W, w, o, n, a)'
           /\ WriteRefused(r) \/ WriteAccepted(r) => EndsFresh(W, w, o, n, a)'
<1>1. W \in Nat /\ w \in [Readers -> Nat] /\ a \in [Slots -> Nat]
  BY DEF Absolute, Counted
<1>2. ASSUME ReaderStarts(r) PROVE EndsFresh(W + 1, [w EXCEPT ![r] = W], o, n, a)'
  <2> DEFINE v == [w EXCEPT ![r] = W]
  <2>1. /\ running[r] = "new" /\ running' = [running EXCEPT ![r] = "running"]
        /\ UNCHANGED <<end_times, calls, copying, mpc, taken>>
    BY <1>2 DEF ReaderStarts, bufferVars, managerVars
  <2>2. running'[r] = "running" /\ \A m \in Readers \ {r} : running'[m] = running[m]
    BY <2>1 DEF TypeOK
  <2>3. v[r] = W /\ \A m \in Readers \ {r} : v[m] = w[m]
    BY <1>1
  <2>4. ~copying[r]
    BY <2>1 DEF Absolute, CallsPlaced
  <2> HIDE DEF v
  <2>5. ASSUME NEW x \in Nat, Open(W, w, o, n, x) PROVE Open(W + 1, v, o, n, x)'
    <3>1. CASE W <= x
      <4>1. W + 1 <= x \/ x = W
        BY <1>1, <3>1
      <4>2. x = W => Holds(v, o, n, r, x)'
        BY <2>2, <2>3 DEF Holds
      <4> QED
        BY <4>1, <4>2 DEF Open
    <3>2. ASSUME NEW m \in Readers, Holds(w, o, n, m, x) PROVE Holds(v, o, n, m, x)'
      <4>1. m # r
        BY <2>1, <3>2 DEF Holds
      <4> QED
        BY <2>2, <2>3, <3>2, <4>1 DEF Holds
    <3> QED
      BY <2>5, <3>1, <3>2 DEF Open
  <2>6. \A m \in Readers : copying'[m] => copying[m] /\ Cur(v, o, n, m) = Cur(w, o, n, m)
    BY <2>1, <2>3, <2>4 DEF Cur
  <2>7. \A m \in Readers : copying'[m] /\ ~Head(calls'[m]).link /\ Head(calls'[m]).end =>
            /\ copying[m] /\ ~Head(calls[m]).link /\ Head(calls[m]).end
            /\ Cur(v, o, n, m) = Cur(w, o, n, m)
    BY <2>1, <2>6
  <2>8. EndsFresh(W + 1, v, o, n, a)'
    BY <1>1, <2>1, <2>5, <2>7, EndsKept
  <2> QED
    BY <2>8 DEF v
<1>3. ASSUME LinkBefore(r) \/ ReaderReturns(r) PROVE EndsFresh(W, w, o, n, a)'
  <2>1. /\ UNCHANGED <<end_times, mpc, taken>>
        /\ running' = running \/ running' = [running EXCEPT ![r] = "returned"]
    BY <1>3 DEF LinkBefore, ReaderReturns, bufferVars, managerVars
  <2>2. \A m \in Readers : running[m] # "new" => running'[m] # "new"
    BY <2>1 DEF TypeOK
  <2>3. \A x \in Nat : Open(W, w, o, n, x) => Open(W, w, o, n, x)'
    BY <2>2 DEF Open, Holds
  <2>4. \A m \in Readers : copying'[m] /\ ~Head(calls'[m]).link =>
            copying[m] /\ calls'[m] = calls[m]
    <3>1. copying \in [Readers -> BOOLEAN] /\ calls \in [Readers -> Seq(CallSet)]
      BY DEF TypeOK
    <3>2. CASE ReaderReturns(r)
      BY <3>2 DEF ReaderReturns
    <3>3. CASE LinkBefore(r)
      <4>1. /\ Head(calls[r]).link
            /\ \/ calls' = [calls EXCEPT ![r] = Tail(calls[r])] /\ copying' = [copying EXCEPT ![r] = FALSE]
               \/ calls' = calls /\ copying' = [copying EXCEPT ![r] = TRUE]
        BY <3>3 DEF LinkBefore
      <4> QED
        BY <3>1, <4>1
    <3> QED
      BY <1>3, <3>2, <3>3
  <2>5. \A m \in Readers : copying'[m] /\ ~Head(calls'[m]).link /\ Head(calls'[m]).end =>
            /\ copying[m] /\ ~Head(calls[m]).link /\ Head(calls[m]).end
            /\ Cur(w, o, n, m) = Cur(w, o, n, m)
    BY <2>4
  <2> QED
    BY <1>1, <2>1, <2>3, <2>5, EndsKept
<1>4. ASSUME WriteRefused(r) \/ WriteAccepted(r) PROVE EndsFresh(W, w, o, n, a)'
  <2> DEFINE l == Head(calls[r]).cell
             e == Head(calls[r]).end
             b == BlockOf(Cur(w, o, n, r))
  <2>1. /\ calls[r] # <<>> /\ ~Head(calls[r]).link /\ UNCHANGED <<calls, running, mpc, taken>>
        /\ copying' = copying \/ copying' = [copying EXCEPT ![r] = TRUE]
    BY <1>4 DEF WriteRefused, WriteAccepted, readerVars, managerVars
  <2>2. \A m \in Readers : copying'[m] => copying[m] \/ m = r
    BY <2>1 DEF TypeOK
  <2>3. CASE WriteRefused(r)
    <3>1. /\ UNCHANGED copying
          /\ end_times' = end_times \/ (Resident(BlockOf(l)) /\ end_times' = EndTimes(l, e, FALSE))
      BY <2>3 DEF WriteRefused, RefuseWrite, readerVars
    <3>2. \A s \in Slots : end_times'[s] = end_times[s] \/ Fresh(end_times'[s], DiskAt(a[s]))
      <4>1. ASSUME Resident(BlockOf(l)), end_times' = EndTimes(l, e, FALSE), NEW s \in Slots
            PROVE  end_times'[s] = end_times[s] \/ Fresh(end_times'[s], DiskAt(a[s]))
        <5>1. EndTimes(l, e, FALSE)[s] = end_times[s] \/ Fresh(EndTimes(l, e, FALSE)[s], DiskAt(a[s]))
          BY <2>1, <4>1, EndTimesStep
        <5> QED
          BY <4>1, <5>1
      <4> QED
        BY <3>1, <4>1
    <3> QED
      BY <2>1, <2>2, <3>1, <3>2, EndsGiven
  <2>4. CASE WriteAccepted(r)
    <3>1. WriteFits(l, e) /\ end_times' = EndTimes(l, e, TRUE)
      BY <2>4 DEF WriteAccepted, AcceptWrite
    <3>2. Resident(BlockOf(l))
      BY <3>1 DEF WriteFits
    <3> DEFINE et == EndTimes(l, e, TRUE)
    <3>3. /\ \A s \in Slots : et[s] = end_times[s] \/ Fresh(et[s], DiskAt(a[s]))
          /\ e => Fresh(et[SlotOf(b)], DiskAt(b))
      BY <2>1, <3>1, <3>2, EndTimesStep
    <3> HIDE DEF et
    <3>4. end_times' = et
      BY <3>1 DEF et
    <3>5. \A s \in Slots : end_times'[s] = end_times[s] \/ Fresh(end_times'[s], DiskAt(a[s]))
      BY <3>3, <3>4
    <3>6. e => Fresh(end_times'[SlotOf(b)], DiskAt(b))
      BY <3>3, <3>4
    <3> QED
      BY <2>1, <2>2, <3>5, <3>6, EndsGiven
  <2> QED
    BY <1>4, <2>3, <2>4
<1> QED
  BY <1>2, <1>3, <1>4

(* A packet's first call is not yet made.                                  *)
LEMMA EndsByPacket ==
    ASSUME NEW W, NEW w, NEW o, NEW n, NEW p, NEW a, NEW c, TypeOK,
           Absolute(W, w, o, n, p, a, c), EndsFresh(W, w, o, n, a), NEW r \in Readers,
           ReadPacket(r), NEW W2, NEW w2, NEW o2, NEW n2,
           \A x \in Nat : Open(W, w, o, n, x) => Open(W2, w2, o2, n2, x)',
           \A m \in Readers \ {r} : Cur(w2, o2, n2, m) = Cur(w, o, n, m)
    PROVE  EndsFresh(W2, w2, o2, n2, a)'
<1>1. a \in [Slots -> Nat]
  BY DEF Absolute, Counted
<1>2. calls[r] = <<>> /\ UNCHANGED <<end_times, copying, mpc, taken>>
  BY DEF ReadPacket, bufferVars, managerVars
<1>3. ~copying[r]
  BY <1>2 DEF Absolute, CallsPlaced
<1>4. \A m \in Readers \ {r} : calls'[m] = calls[m]
  <2>1. PICK q : calls' = [calls EXCEPT ![r] = q]
    BY DEF ReadPacket
  <2> QED
    BY <2>1 DEF TypeOK
<1>5. \A m \in Readers : copying'[m] /\ ~Head(calls'[m]).link /\ Head(calls'[m]).end =>
            /\ copying[m] /\ ~Head(calls[m]).link /\ Head(calls[m]).end
            /\ Cur(w2, o2, n2, m) = Cur(w, o, n, m)
  BY <1>2, <1>3, <1>4
<1> QED
  BY <1>1, <1>2, <1>5, EndsKept

(* A finished cell has given its block an end time.                        *)
LEMMA EndsByCopied ==
    ASSUME NEW W, NEW w, NEW o, NEW n, NEW p, NEW a, NEW c, Delayed, TypeOK,
           Absolute(W, w, o, n, p, a, c), EndsFresh(W, w, o, n, a), NEW r \in Readers,
           WriteCopied(r)
    PROVE  EndsFresh(W, w, o, [n EXCEPT ![r] = IF n[r] = 0 THEN 0 ELSE n[r] - 1], a)'
<1> DEFINE l == [n EXCEPT ![r] = IF n[r] = 0 THEN 0 ELSE n[r] - 1]
<1>1. /\ n \in [Readers -> Nat] /\ a \in [Slots -> Nat] /\ n[r] \in Nat
  BY DEF Absolute, Counted
<1>2. /\ l[r] = (IF n[r] = 0 THEN 0 ELSE n[r] - 1)
      /\ \A m \in Readers \ {r} : l[m] = n[m]
  BY <1>1
<1> HIDE DEF l
<1>3. /\ calls[r] # <<>> /\ copying[r] /\ ~Head(calls[r]).link
      /\ calls' = [calls EXCEPT ![r] = Tail(calls[r])]
      /\ copying' = [copying EXCEPT ![r] = FALSE]
      /\ UNCHANGED <<end_times, running, mpc, taken>>
  BY DEF WriteCopied, PublishWrite, managerVars
<1>4. /\ copying'[r] = FALSE
      /\ \A m \in Readers \ {r} : calls'[m] = calls[m] /\ copying'[m] = copying[m]
  BY <1>3 DEF TypeOK
<1>5. \A m \in Readers \ {r} : Cur(w, o, l, m) = Cur(w, o, n, m)
  BY <1>2 DEF Cur
<1>6. ASSUME NEW s \in Slots
      PROVE  Fresh(end_times'[s], DiskAt(a[s])) \/ Open(W, w, o, l, R * a[s] + (R - 1))'
  <2>0. PICK x \in Nat : x = R * a[s] + (R - 1) /\ BlockOf(x) = a[s]
    <3>1. a[s] \in Nat /\ R - 1 \in 0 .. R - 1
      BY <1>1, Sizes
    <3> QED
      BY <3>1, CellsOfBlock
  <2>1. CASE Fresh(end_times[s], DiskAt(a[s]))
    BY <1>3, <2>1
  <2>2. CASE W <= x
    BY <2>0, <2>2 DEF Open
  <2>3. ASSUME NEW m \in Readers, Holds(w, o, n, m, x), ~Holds(w, o, l, m, x)'
        PROVE  Fresh(end_times'[s], DiskAt(a[s]))
    <3>1. m = r
      BY <1>2, <1>3, <2>3 DEF Holds
    <3>2. n[r] > 0 /\ x = o[r] /\ ~(l[r] > 0)
      BY <1>3, <2>3, <3>1 DEF Holds
    <3>3. n[r] = 1
      BY <1>1, <1>2, <3>2
    <3>4. Cur(w, o, n, r) = x
      BY <3>2 DEF Cur
    <3>5. Head(calls[r]).end
      <4>1. 1 \in DOMAIN calls[r] /\ Head(calls[r]) = calls[r][1]
        <5>1. calls[r] \in Seq(CallSet)
          BY DEF TypeOK
        <5> QED
          BY <1>3, <5>1, TailElements
      <4> QED
        BY <1>3, <3>3, <4>1 DEF Absolute, CallsPlaced
    <3>6. a[s] \in Nat /\ SlotOf(a[s]) = s
      BY Points DEF Absolute, Linked
    <3> QED
      BY <1>3, <2>0, <3>4, <3>5, <3>6 DEF EndsFresh
  <2>4. Fresh(end_times[s], DiskAt(a[s])) \/ Open(W, w, o, n, x)
    BY <2>0 DEF EndsFresh
  <2> QED
    BY <2>0, <2>1, <2>2, <2>3, <2>4 DEF Open
<1>7. ASSUME NEW m \in Readers, copying'[m], ~Head(calls'[m]).link, Head(calls'[m]).end
      PROVE  Fresh(end_times'[SlotOf(BlockOf(Cur(w, o, l, m)))], DiskAt(BlockOf(Cur(w, o, l, m))))
  BY <1>3, <1>4, <1>5, <1>7 DEF EndsFresh
<1>8. EndsFresh(W, w, o, l, a)'
  BY <1>3, <1>6, <1>7 DEF EndsFresh
<1> QED
  BY <1>8 DEF l

(* The steps of managers and kernel that leave the slots alone.            *)
LEMMA EndsByOthers ==
    ASSUME NEW W, NEW w, NEW o, NEW n, NEW a \in [Slots -> Nat], EndsFresh(W, w, o, n, a),
           UNCHANGED <<end_times, running, calls, copying>>,
           \A t \in Managers : mpc'[t] = "submit" => mpc[t] = "submit" /\ taken'[t] = taken[t]
    PROVE  EndsFresh(W, w, o, n, a)'
<1>1. \A x \in Nat : Open(W, w, o, n, x) => Open(W, w, o, n, x)'
  BY DEF Open, Holds
<1>2. \A m \in Readers : copying'[m] /\ ~Head(calls'[m]).link /\ Head(calls'[m]).end =>
            /\ copying[m] /\ ~Head(calls[m]).link /\ Head(calls[m]).end
            /\ Cur(w, o, n, m) = Cur(w, o, n, m)
  OBVIOUS
<1> QED
  BY <1>1, <1>2, EndsKept

(* A block that is taken was left, so its last cell is finished.           *)
LEMMA EndsByTake ==
    ASSUME NEW W, NEW w, NEW o, NEW n, NEW p, NEW a, NEW c, Delayed, TypeOK,
           Absolute(W, w, o, n, p, a, c), EndsFresh(W, w, o, n, a), NEW t \in Managers,
           TakeBlock(t)
    PROVE  EndsFresh(W, w, o, n, a)'
<1> DEFINE s == block_check_ids[t]
<1>1. /\ mpc[t] = "get" /\ mpc' = [mpc EXCEPT ![t] = "submit"]
      /\ taken' = [taken EXCEPT ![t] = BlockTaken(t)]
      /\ UNCHANGED <<end_times, running, calls, copying>>
  BY DEF TakeBlock, GetBlock, readerVars
<1>2. s \in Slots /\ SlotOf(c[t]) = s
  BY DEF TypeOK, BufferTypeOK, Absolute, Linked
<1>3. PICK y \in Nat : y = c[t] /\ Left(p, y) /\ a[s] = y
  BY <1>1, <1>2, Points DEF Absolute, Managed
<1>4. block_disk_id[s] = DiskAt(y)
  BY <1>2, <1>3 DEF Absolute, Linked
<1>5. PICK x \in Nat : x = R * a[s] + (R - 1) /\ BlockOf(x) = y
  <2>1. R - 1 \in 0 .. R - 1
    BY Sizes
  <2> QED
    BY <1>3, <2>1, CellsOfBlock
<1>6. ~Open(W, w, o, n, x)
  <2>1. ASSUME NEW m \in Readers
        PROVE  /\ Cur(w, o, n, m) \in Nat /\ w[m] \in Nat /\ o[m] \in Nat /\ n[m] \in Nat
               /\ x < Cur(w, o, n, m) /\ Cur(w, o, n, m) <= w[m] /\ w[m] < W
    <3>1. Cur(w, o, n, m) \in Nat /\ w[m] \in Nat /\ o[m] \in Nat /\ n[m] \in Nat
      BY Points DEF Absolute
    <3>2. y < BlockOf(Cur(w, o, n, m)) /\ running[m] # "new"
      BY <1>3, LeftPassed
    <3>3. x < Cur(w, o, n, m)
      <4>1. SUFFICES ASSUME Cur(w, o, n, m) <= x PROVE FALSE
        BY <3>1
      <4>2. BlockOf(Cur(w, o, n, m)) <= y /\ BlockOf(Cur(w, o, n, m)) \in Nat
        BY <1>5, <3>1, <4>1, BlockOrder, BlockFacts
      <4> QED
        BY <3>2, <4>2
    <3> QED
      BY <3>1, <3>2, <3>3, CurFirst
  <2>2. W \in Nat
    BY Points DEF Absolute
  <2>3. ~(W <= x)
    <3>1. PICK m \in Readers : TRUE
      BY Sizes DEF Readers
    <3> QED
      BY <2>1, <2>2, <3>1
  <2>4. ASSUME NEW m \in Readers, Holds(w, o, n, m, x) PROVE FALSE
    BY <2>1, <2>4 DEF Holds, Cur
  <2> QED
    BY <2>3, <2>4 DEF Open
<1>7. Fresh(end_times[s], DiskAt(y))
  BY <1>2, <1>3, <1>5, <1>6 DEF EndsFresh
<1>8. BlockTaken(t).end_time = end_times[s] /\ BlockTaken(t).write_pos = block_disk_id[s]
  BY DEF BlockTaken
<1>9. ASSUME NEW u \in Managers, mpc'[u] = "submit"
      PROVE  Fresh(taken'[u].end_time, taken'[u].write_pos)
  <2>1. CASE u = t
    <3>1. taken'[t] = BlockTaken(t)
      BY <1>1 DEF TypeOK
    <3> QED
      BY <1>4, <1>7, <1>8, <2>1, <3>1
  <2>2. CASE u # t
    <3>1. taken'[u] = taken[u] /\ mpc'[u] = mpc[u]
      BY <1>1, <2>2 DEF TypeOK
    <3> QED
      BY <1>9, <3>1 DEF EndsFresh
  <2> QED
    BY <2>1, <2>2
<1>10. \A u \in Slots :
         Fresh(end_times'[u], DiskAt(a[u])) \/ Open(W, w, o, n, R * a[u] + (R - 1))'
  BY <1>1 DEF EndsFresh, Open, Holds
<1>11. \A m \in Readers : copying'[m] /\ ~Head(calls'[m]).link /\ Head(calls'[m]).end =>
         LET b == BlockOf(Cur(w, o, n, m)) IN Fresh(end_times'[SlotOf(b)], DiskAt(b))
  BY <1>1 DEF EndsFresh
<1> QED
  BY <1>9, <1>10, <1>11 DEF EndsFresh

(* The last cell of a slot's next block is still open: the cache had not   *)
(* come to it.                                                             *)
LEMMA EndsByRecycle ==
    ASSUME NEW W, NEW w, NEW o, NEW n, NEW p, NEW a, NEW c, Delayed, TypeOK,
           Absolute(W, w, o, n, p, a, c), EndsFresh(W, w, o, n, a), NEW s \in Slots,
           UNCHANGED <<end_times, running, calls, copying>>,
           \A t \in Managers : mpc'[t] = "submit" => mpc[t] = "submit" /\ taken'[t] = taken[t]
    PROVE  EndsFresh(W, w, o, n, [a EXCEPT ![s] = a[s] + B])'
<1> DEFINE a2 == [a EXCEPT ![s] = a[s] + B]
<1>1. a \in [Slots -> Nat] /\ a[s] \in Nat /\ SlotOf(a[s]) = s /\ W \in Nat
  BY DEF Absolute, Counted, Linked
<1>2. a2 \in [Slots -> Nat] /\ a2[s] = a[s] + B /\ \A u \in Slots \ {s} : a2[u] = a[u]
  BY <1>1, Sizes
<1> HIDE DEF a2
<1>4. ASSUME NEW u \in Slots
      PROVE  Fresh(end_times'[u], DiskAt(a2[u])) \/ Open(W, w, o, n, R * a2[u] + (R - 1))'
  <2>1. CASE u # s
    BY <1>2, <2>1 DEF EndsFresh, Open, Holds
  <2>2. CASE u = s
    <3>1. PICK y \in Nat : y = a2[s] /\ a[s] < y /\ SlotOf(y) = s
      BY <1>1, <1>2, SlotFacts, Sizes
    <3>2. PICK x \in Nat : x = R * y + (R - 1) /\ BlockOf(x) = y
      <4>1. R - 1 \in 0 .. R - 1
        BY Sizes
      <4> QED
        BY <4>1, CellsOfBlock
    <3>3. CASE W <= x
      BY <2>2, <3>1, <3>2, <3>3 DEF Open
    <3>4. CASE x < W
      <4>1. x \in 0 .. W - 1 /\ ~Reached(a, BlockOf(x))
        BY <1>1, <3>1, <3>2, <3>4 DEF Reached
      <4>2. PICK m \in Readers : Holds(w, o, n, m, x)
        BY <4>1 DEF Absolute, CellsHeld
      <4>3. Holds(w, o, n, m, x)'
        BY <4>2 DEF Holds
      <4> QED
        BY <2>2, <3>1, <3>2, <4>3 DEF Open
    <3> QED
      BY <1>1, <3>3, <3>4
  <2> QED
    BY <2>1, <2>2
<1>5. \A m \in Readers : copying'[m] /\ ~Head(calls'[m]).link /\ Head(calls'[m]).end =>
         LET b == BlockOf(Cur(w, o, n, m)) IN Fresh(end_times'[SlotOf(b)], DiskAt(b))
  BY DEF EndsFresh
<1>6. \A t \in Managers : mpc'[t] = "submit" => Fresh(taken'[t].end_time, taken'[t].write_pos)
  BY DEF EndsFresh
<1>7. EndsFresh(W, w, o, n, a2)'
  BY <1>4, <1>5, <1>6 DEF EndsFresh
<1> QED
  BY <1>7 DEF a2

-----------------------------------------------------------------------------
(* The threads as constructed are at the start of the disk.                *)
LEMMA AbsoluteInit ==
    ASSUME Init, Delayed
    PROVE  \E W, w, o, n, p, a, c : Absolute(W, w, o, n, p, a, c) /\ EndsFresh(W, w, o, n, a)
<1> DEFINE w == [r \in Readers |-> 0]
           p == [r \in Readers |-> r]
           a == [s \in Slots |-> s]
           c == [t \in Managers |-> t]
<1>1. /\ \A r \in Readers : r \in Nat /\ r < R
      /\ \A s \in Slots : s \in Nat /\ s < B
      /\ \A t \in Managers : t \in Nat /\ t < T
  BY Sizes DEF Readers, Slots, Managers
<1>2. Counted(0, w, w, w, p, a, c)
  BY <1>1 DEF Counted
<1>3. /\ diskWriteCell = 0 /\ writeCell = w /\ disk_write_ids = p
      /\ block_disk_id = a /\ block_check_ids = c
      /\ calls = [r \in Readers |-> <<>>] /\ copying = [r \in Readers |-> FALSE]
      /\ running = [r \in Readers |-> "new"] /\ mpc = [t \in Managers |-> "check"]
      /\ ring = [t \in Managers |-> <<>>] /\ completed = [t \in Managers |-> <<>>]
      /\ doubled = FALSE
  BY DEF Init, BufferInit
<1>4. Linked(0, w, p, a, c)
  <2>1. CellAt(0) = 0
    <3>1. \A m \in Nat : 0 < m => 0 % m = 0
      BY ModSmall
    <3> QED
      BY <3>1, CellCount DEF CellAt
  <2>2. \A r \in Readers : DiskAt(r) = r
    BY <1>1, Sizes, ModSmall DEF DiskAt
  <2>3. \A s \in Slots : SlotOf(s) = s /\ DiskAt(s) = s
    BY <1>1, Sizes, ModSmall DEF DiskAt, SlotOf
  <2>4. \A t \in Managers : SlotOf(t) = t /\ TurnOf(t) = t
    BY <1>1, Sizes, ModSmall DEF TurnOf, SlotOf
  <2> QED
    BY <1>3, <2>1, <2>2, <2>3, <2>4 DEF Linked
<1>5. \A r \in Readers : p[r] <= D
  BY <1>1, Sizes, DelaySizes
<1>6. CallsPlaced(0, w, w, w)
  BY <1>3 DEF CallsPlaced
<1>7. CellsHeld(0, w, w, w, a)
  BY DEF CellsHeld
<1>8. Published(w, w, w, p, a) /\ CopyInPlace(w, w, w, a)
  BY <1>3, <1>5 DEF Published, CopyInPlace
<1>9. \A s \in Slots : ~HandedOver(s)
  BY <1>3 DEF HandedOver, Submitted
<1>10. Managed(p, a, c)
  <2>1. \A t \in Managers : ~(c[t] >= T)
    BY <1>1, Sizes
  <2> QED
    BY <1>3, <2>1 DEF Managed
<1>11. SlotsTaken(a, c)
  <2>1. ASSUME NEW s \in Slots, NEW y \in Nat, y < s, SlotOf(y) = s PROVE FALSE
    <3>1. y < B /\ SlotOf(y) = y
      BY <1>1, <2>1, Sizes, ModSmall DEF SlotOf
    <3> QED
      BY <1>1, <2>1, <3>1
  <2> QED
    BY <1>9, <2>1 DEF SlotsTaken
<1>12. Once
  BY <1>3 DEF Once
<1>13. Absolute(0, w, w, w, p, a, c)
  BY <1>2, <1>4, <1>6, <1>7, <1>8, <1>10, <1>11, <1>12 DEF Absolute
<1>14. EndsFresh(0, w, w, w, a)
  <2>1. ASSUME NEW s \in Slots PROVE Open(0, w, w, w, R * a[s] + (R - 1))
    <3>1. a[s] \in Nat /\ R - 1 \in 0 .. R - 1
      BY <1>1, Sizes
    <3> HIDE DEF a
    <3>2. R * a[s] + (R - 1) \in Nat
      BY <3>1, CellsOfBlock
    <3> QED
      BY <3>2 DEF Open
  <2> QED
    BY <1>3, <2>1 DEF EndsFresh
<1> QED
  BY <1>13, <1>14

-----------------------------------------------------------------------------
(* What is not yet saved                                                   *)

(* The block of slot s is still to be taken, and a reader that started has *)
(* come as far.                                                            *)
Waits(w, o, n, p, a, c, s) ==
    /\ ~Taken(c, a[s])
    /\ \E r \in Readers : /\ running[r] # "new" /\ a[s] <= p[r]
                          /\ a[s] <= BlockOf(Cur(w, o, n, r))

(* So it is with every slot that has data no disk manager has taken.       *)
Unsaved(w, o, n, p, a, c) == \A s \in dirty : Waits(w, o, n, p, a, c, s)

(* A slot's block changes only when the slot was handed over.              *)
LEMMA RecycledWereHanded ==
    ASSUME TypeOK, [Next]_vars, NEW s \in Slots, block_disk_id'[s] # block_disk_id[s]
    PROVE  HandedOver(s)
<1>1. ~UNCHANGED block_disk_id
  OBVIOUS
<1>2. PICK t \in Managers : AddBlock(t) \/ Recycle(t)
  <2>1. ASSUME NEW r \in Readers, Reader(r) PROVE UNCHANGED block_disk_id
    BY <2>1 DEF Reader, ReaderStarts, ReadPacket, WriteRefused, RefuseWrite, WriteAccepted,
                AcceptWrite, WriteCopied, PublishWrite, LinkBefore, ReaderReturns, bufferVars
  <2>2. ASSUME NEW t \in Managers,
               FindBlock(t) \/ TakeBlock(t) \/ KernelCompletes(t) \/ Discard(t) \/ RecyclerReturns(t)
        PROVE  UNCHANGED block_disk_id
    BY <2>2 DEF FindBlock, TakeBlock, GetBlock, KernelCompletes, Discard, RecyclerReturns, bufferVars
  <2>3. Stop \/ UNCHANGED vars => UNCHANGED block_disk_id
    BY DEF Stop, vars, bufferVars
  <2> QED
    BY <1>1, <2>1, <2>2, <2>3 DEF Next, Manager, MemoryManager
<1>3. block_disk_id \in [Slots -> DiskIds]
  BY DEF TypeOK, BufferTypeOK
<1>4. CASE AddBlock(t)
  <2>1. mpc[t] = "submit" /\ (UNCHANGED block_disk_id \/ RecycleBlock(taken[t].slot))
    BY <1>4 DEF AddBlock, bufferVars
  <2>2. taken[t].slot = s
    BY <1>1, <1>3, <2>1 DEF RecycleBlock, GiveSlot
  <2> QED
    BY <2>1, <2>2 DEF HandedOver
<1>5. CASE Recycle(t)
  <2>1. completed[t] # <<>> /\ RecycleBlock(Head(completed[t]).slot)
    BY <1>5 DEF Recycle, CompletionReady
  <2>2. Head(completed[t]).slot = s
    BY <1>3, <2>1 DEF RecycleBlock, GiveSlot
  <2>3. 1 \in DOMAIN completed[t] /\ Head(completed[t]) = completed[t][1]
    <3> DEFINE Done == [slot : Slots, ok : BOOLEAN]
    <3>1. completed[t] \in Seq(Done)
      BY DEF TypeOK
    <3> HIDE DEF Done
    <3> QED
      BY <2>1, <3>1, TailElements
  <2> QED
    BY <2>2, <2>3 DEF HandedOver, Submitted
<1> QED
  BY <1>2, <1>4, <1>5

(* Readers only move on: a slot that waits goes on waiting.                *)
LEMMA WaitsOn ==
    ASSUME NEW W, NEW w, NEW o, NEW n, NEW p, NEW a, NEW c,
           NEW W2, NEW w2, NEW o2, NEW n2, NEW p2,
           Counted(W, w, o, n, p, a, c), Counted(W2, w2, o2, n2, p2, a, c),
           NEW s \in Slots, Waits(w, o, n, p, a, c, s),
           \A r \in Readers : running[r] # "new" =>
             /\ running'[r] # "new"
             /\ p2[r] = p[r] \/ BlockOf(Cur(w, o, n, r)) <= p2[r]
             /\ BlockOf(Cur(w, o, n, r)) <= BlockOf(Cur(w2, o2, n2, r))
    PROVE  Waits(w2, o2, n2, p2, a, c, s)'
<1>1. PICK r \in Readers : /\ running[r] # "new" /\ a[s] <= p[r]
                           /\ a[s] <= BlockOf(Cur(w, o, n, r))
  BY DEF Waits
<1>2. a[s] \in Nat /\ p[r] \in Nat /\ BlockOf(Cur(w, o, n, r)) \in Nat
  BY Points
<1>3. p2[r] \in Nat /\ BlockOf(Cur(w2, o2, n2, r)) \in Nat
  BY Points
<1>4. a[s] <= p2[r] /\ a[s] <= BlockOf(Cur(w2, o2, n2, r)) /\ running'[r] # "new"
  BY <1>1, <1>2, <1>3
<1>5. ~Taken(c, a[s])
  BY DEF Waits
<1> QED
  BY <1>4, <1>5 DEF Waits

(* Nothing is forgotten by steps that change nothing of what waits.        *)
LEMMA UnsavedOn ==
    ASSUME NEW W, NEW w, NEW o, NEW n, NEW p, NEW a, NEW c,
           NEW W2, NEW w2, NEW o2, NEW n2, NEW p2, TypeOK,
           Counted(W, w, o, n, p, a, c), Counted(W2, w2, o2, n2, p2, a, c),
           Unsaved(w, o, n, p, a, c), UNCHANGED dirty,
           \A r \in Readers : running[r] # "new" =>
             /\ running'[r] # "new"
             /\ p2[r] = p[r] \/ BlockOf(Cur(w, o, n, r)) <= p2[r]
             /\ BlockOf(Cur(w, o, n, r)) <= BlockOf(Cur(w2, o2, n2, r))
    PROVE  Unsaved(w2, o2, n2, p2, a, c)'
<1> SUFFICES ASSUME NEW s \in dirty PROVE Waits(w2, o2, n2, p2, a, c, s)'
  BY DEF Unsaved
<1>1. s \in Slots /\ Waits(w, o, n, p, a, c, s)
  BY DEF TypeOK, Unsaved
<1> QED
  BY <1>1, WaitsOn

(* The slot a call is copied to waits.                                     *)
LEMMA WaitsByCopied ==
    ASSUME NEW W, NEW w, NEW o, NEW n, NEW p, NEW a, NEW c, Delayed, TypeOK,
           Absolute(W, w, o, n, p, a, c), NEW r \in Readers, WriteCopied(r),
           NEW n2, NEW p2, Counted(W, w, o, n2, p2, a, c),
           BlockOf(Cur(w, o, n, r)) <= p2[r],
           BlockOf(Cur(w, o, n, r)) <= BlockOf(Cur(w, o, n2, r))
    PROVE  \E s \in Slots : dirty' = dirty \cup {s} /\ Waits(w, o, n2, p2, a, c, s)'
<1> DEFINE b == BlockOf(Cur(w, o, n, r))
<1>0. PICK s : s = SlotOf(BlockOf(Head(calls[r]).cell))
  OBVIOUS
<1>1. /\ calls[r] # <<>> /\ copying[r] /\ ~Head(calls[r]).link
      /\ dirty' = dirty \cup {s} /\ running' = running
  BY <1>0 DEF WriteCopied
<1>2. b \in Nat
  BY Points DEF Absolute
<1>3. a[SlotOf(b)] = b
  BY <1>1 DEF Absolute, CopyInPlace
<1>4. s = SlotOf(b) /\ s \in Slots
  <2>1. BlockOf(Head(calls[r]).cell) = DiskAt(b)
    BY <1>1, HeadBlocks
  <2> HIDE DEF b
  <2> QED
    BY <1>0, <1>2, <2>1, SlotFacts
<1>5. running[r] # "new"
  BY <1>1 DEF Absolute, CallsPlaced
<1>6. ~Taken(c, b)
  <2> SUFFICES ASSUME Taken(c, b) PROVE FALSE
    OBVIOUS
  <2>1. Left(p, b)
    BY <1>2, TakenLeft
  <2>2. b < b
    BY <1>2, <2>1, LeftPassed
  <2> QED
    BY <1>2, <2>2
<1> HIDE DEF b
<1>7. Waits(w, o, n2, p2, a, c, s)'
  BY <1>1, <1>3, <1>4, <1>5, <1>6 DEF Waits, b
<1> QED
  BY <1>1, <1>4, <1>7

(* getBlock takes the one slot whose block its manager has come to.        *)
LEMMA UnsavedByTake ==
    ASSUME NEW W, NEW w, NEW o, NEW n, NEW p, NEW a, NEW c, TypeOK,
           Absolute(W, w, o, n, p, a, c), Unsaved(w, o, n, p, a, c),
           NEW t \in Managers, TakeBlock(t)
    PROVE  Unsaved(w, o, n, p, a, [c EXCEPT ![t] = c[t] + T])'
<1> DEFINE c2 == [c EXCEPT ![t] = c[t] + T]
<1>1. /\ dirty' = dirty \ {block_check_ids[t]} /\ mpc[t] = "get"
      /\ UNCHANGED running
  BY DEF TakeBlock, readerVars
<1>2. a[SlotOf(c[t])] = c[t] /\ SlotOf(c[t]) = block_check_ids[t] /\ TurnOf(c[t]) = t
  BY <1>1 DEF Absolute, Managed, Linked
<1>3. c \in [Managers -> Nat]
  BY DEF Absolute, Counted
<1>4. c2[t] = c[t] + T /\ (\A u \in Managers \ {t} : c2[u] = c[u]) /\ c[t] \in Nat
  BY <1>3
<1> HIDE DEF c2
<1>5. ASSUME NEW s \in dirty' PROVE Waits(w, o, n, p, a, c2, s)'
  <2>1. s \in dirty /\ s # block_check_ids[t] /\ s \in Slots
    BY <1>1, <1>5 DEF TypeOK
  <2>2. Waits(w, o, n, p, a, c, s)
    BY <2>1 DEF Unsaved
  <2>3. a[s] \in Nat /\ SlotOf(a[s]) = s /\ TurnOf(a[s]) \in Managers
    BY <2>1, Points, TurnFacts DEF Absolute, Linked
  <2>4. a[s] >= c[TurnOf(a[s])] /\ c[TurnOf(a[s])] \in Nat
    BY <1>3, <2>2, <2>3 DEF Waits, Taken
  <2>5. a[s] >= c2[TurnOf(a[s])]
    <3>1. CASE TurnOf(a[s]) = t
      <4>1. a[s] # c[t]
        BY <1>2, <2>1, <2>3
      <4>2. c[t] + T <= a[s]
        BY <1>2, <1>4, <2>3, <2>4, <3>1, <4>1, TurnApart
      <4> QED
        BY <1>4, <3>1, <4>2
    <3>2. CASE TurnOf(a[s]) # t
      BY <1>4, <2>3, <2>4, <3>2
    <3> QED
      BY <3>1, <3>2
  <2>6. c2[TurnOf(a[s])] \in Nat
    BY <1>4, <2>3, <2>4, Sizes
  <2>7. ~Taken(c2, a[s])
    BY <2>3, <2>5, <2>6 DEF Taken
  <2> QED
    BY <1>1, <2>2, <2>7 DEF Waits
<1> QED
  BY <1>5 DEF Unsaved, c2

(* A slot that is recycled has nothing to save.                            *)
LEMMA UnsavedByRecycle ==
    ASSUME NEW W, NEW w, NEW o, NEW n, NEW p, NEW a, NEW c, TypeOK, [Next]_vars,
           Absolute(W, w, o, n, p, a, c), Unsaved(w, o, n, p, a, c),
           NEW u \in Slots, Linked(W, w, p, [a EXCEPT ![u] = a[u] + B], c)',
           UNCHANGED <<dirty, running>>
    PROVE  Unsaved(w, o, n, p, [a EXCEPT ![u] = a[u] + B], c)'
<1> DEFINE a2 == [a EXCEPT ![u] = a[u] + B]
<1>1. a \in [Slots -> Nat] /\ a[u] \in Nat /\ a2[u] = a[u] + B
      /\ \A s \in Slots \ {u} : a2[s] = a[s]
  BY DEF Absolute, Counted
<1>2. block_disk_id[u] = DiskAt(a[u]) /\ block_disk_id'[u] = DiskAt(a2[u])
  BY DEF Absolute, Linked
<1> HIDE DEF a2
<1>3. DiskAt(a2[u]) # DiskAt(a[u])
  BY <1>1, DiskApart, Sizes
<1>4. HandedOver(u)
  BY <1>2, <1>3, RecycledWereHanded
<1>5. u \notin dirty
  BY <1>4 DEF Absolute, SlotsTaken, Unsaved, Waits
<1>6. ASSUME NEW s \in dirty' PROVE Waits(w, o, n, p, a2, c, s)'
  <2>1. s \in dirty /\ s \in Slots /\ s # u
    BY <1>5, <1>6 DEF TypeOK
  <2>2. a2[s] = a[s] /\ Waits(w, o, n, p, a, c, s)
    BY <1>1, <2>1 DEF Unsaved
  <2> QED
    BY <2>2 DEF Waits
<1> QED
  BY <1>6 DEF Unsaved, a2

-----------------------------------------------------------------------------
(* The readers have returned and made all their calls.                     *)
Idle == \A r \in Readers : running[r] = "returned" /\ calls[r] = <<>> /\ ~copying[r]

(* The invariant of the capture, with what it says of end times and of the *)
(* data to be saved.                                                       *)
Placed(W, w, o, n, p, a, c) ==
    /\ Absolute(W, w, o, n, p, a, c)
    /\ EndsFresh(W, w, o, n, a)
    /\ Unsaved(w, o, n, p, a, c)

(* As long as no submission has failed: the positions exist while packets  *)
(* are captured, and nobody writes afterwards.                             *)
CaptureInv ==
    NoLostSubmit => IF Capturing THEN \E W, w, o, n, p, a, c : Placed(W, w, o, n, p, a, c)
                                 ELSE Idle

(* No step undoes an error or a phase of threadsStop.                      *)
LEMMA Onwards ==
    ASSUME [Next]_vars
    PROVE  (NoLostSubmit' => NoLostSubmit) /\ (Capturing' => Capturing)
<1>1. errors \subseteq errors' /\ (UNCHANGED phase \/ Stop)
  <2>1. CASE UNCHANGED vars
    BY <2>1 DEF vars
  <2>2. ASSUME NEW r \in Readers, Reader(r) PROVE errors \subseteq errors' /\ UNCHANGED phase
    BY <2>2 DEF Reader, ReaderStarts, ReadPacket, WriteRefused, WriteAccepted, WriteCopied,
                LinkBefore, ReaderReturns
  <2>3. ASSUME NEW t \in Managers, Manager(t) \/ KernelCompletes(t) \/ MemoryManager(t)
        PROVE  errors \subseteq errors' /\ UNCHANGED phase
    BY <2>3 DEF Manager, FindBlock, TakeBlock, AddBlock, KernelCompletes, MemoryManager,
                Recycle, Discard, RecyclerReturns, Fails
  <2>4. CASE Stop
    BY <2>4 DEF Stop
  <2> QED
    BY <2>1, <2>2, <2>3, <2>4 DEF Next
<1>2. Stop => (Capturing' => Capturing)
  BY DEF Stop, Capturing, Phase
<1> QED
  BY <1>1, <1>2 DEF NoLostSubmit, Capturing

(* The step that begins the drain is the join of the last reader.          *)
LEMMA CaptureEnds ==
    ASSUME TypeOK, [Next]_vars, Capturing, ~Capturing'
    PROVE  Stop
<1>1. phase' # phase
  BY DEF Capturing
<1> QED
  BY <1>1 DEF Next, vars, Reader, ReaderStarts, ReadPacket, WriteRefused, WriteAccepted,
              WriteCopied, LinkBefore, ReaderReturns, Manager, FindBlock, TakeBlock,
              AddBlock, KernelCompletes, MemoryManager, Recycle, Discard, RecyclerReturns

(* The capture's invariant is kept by every step.                          *)
LEMMA CaptureStep ==
    ASSUME Delayed, TypeOK, CaptureInv, [Next]_vars
    PROVE  CaptureInv'
<1> SUFFICES ASSUME NoLostSubmit'
             PROVE  IF Capturing' THEN (\E W, w, o, n, p, a, c : Placed(W, w, o, n, p, a, c)')
                                  ELSE Idle'
  BY DEF CaptureInv
<1>1. NoLostSubmit /\ (Capturing' => Capturing)
  BY Onwards
<1>2. CASE Capturing'
  <2>1. Capturing
    BY <1>1, <1>2
  <2>2. PICK W, w, o, n, p, a, c : Placed(W, w, o, n, p, a, c)
    BY <1>1, <2>1 DEF CaptureInv
  <2>3. /\ Absolute(W, w, o, n, p, a, c) /\ EndsFresh(W, w, o, n, a)
        /\ Unsaved(w, o, n, p, a, c) /\ a \in [Slots -> Nat]
    BY <2>2 DEF Placed, Absolute, Counted
  <2>4. /\ Counted(W, w, o, n, p, a, c)
        /\ \A m \in Readers : BlockOf(Cur(w, o, n, m)) \in Nat
    BY <2>3, Points DEF Absolute
  <2> SUFFICES \E W2, w2, o2, n2, p2, a2, c2 : Placed(W2, w2, o2, n2, p2, a2, c2)'
    BY <1>2
  <2>5. ASSUME UNCHANGED vars \/ Stop PROVE Placed(W, w, o, n, p, a, c)'
    <3>1. UNCHANGED <<bufferVars, readerVars, managerVars, agentVars, historyVars>>
      BY <2>5 DEF vars, Stop
    <3>2. UNCHANGED <<block_disk_id, disk_write_ids, block_check_ids, end_times, diskWriteCell,
                      writeCell, calls, copying, running, mpc, taken, ring, completed, doubled>>
      BY <3>1 DEF bufferVars, readerVars, managerVars, agentVars, historyVars
    <3>3. p \in [Readers -> Nat] /\ c \in [Managers -> Nat]
      BY <2>3 DEF Absolute, Counted
    <3>4. \A r \in Readers : p[r] <= D \/ p[r] <= p[r]
      BY <3>3
    <3>5. Managed(p, a, c)' /\ SlotsTaken(a, c)' /\ Once'
      BY <2>3, <3>2, <3>3, <3>4, ManagersKept DEF Absolute
    <3>6. Linked(W, w, p, a, c)' /\ Counted(W, w, o, n, p, a, c)'
      BY <2>3, <3>2 DEF Absolute, Linked, Counted
    <3>7. EndsFresh(W, w, o, n, a)'
      BY <2>3, <3>2, EndsByOthers
    <3>8. Absolute(W, w, o, n, p, a, c)'
      BY <2>3, <3>2, <3>5, <3>6, ReadersKept DEF Absolute
    <3>9. Unsaved(w, o, n, p, a, c)'
      BY <2>3, <3>1 DEF Unsaved, Waits, readerVars, historyVars
    <3> QED
      BY <3>7, <3>8, <3>9 DEF Placed
  <2>6. ASSUME NEW r \in Readers, Reader(r)
        PROVE  \E W2, w2, o2, n2, p2, a2, c2 : Placed(W2, w2, o2, n2, p2, a2, c2)'
    <3>1. CASE ReaderStarts(r)
      <4>1. Absolute(W + 1, [w EXCEPT ![r] = W], o, n, p, a, c)'
        BY <2>3, <3>1, KeptByStart
      <4>2. EndsFresh(W + 1, [w EXCEPT ![r] = W], o, n, a)'
        BY <2>3, <3>1, EndsByReader
      <4> DEFINE v == [w EXCEPT ![r] = W]
      <4>3. /\ UNCHANGED dirty /\ running[r] = "new"
            /\ running' = [running EXCEPT ![r] = "running"]
        BY <3>1 DEF ReaderStarts, historyVars
      <4>4. Counted(W + 1, v, o, n, p, a, c)
        BY <4>1 DEF Absolute, Counted
      <4>5. ASSUME NEW m \in Readers, running[m] # "new"
            PROVE  running'[m] # "new" /\ Cur(v, o, n, m) = Cur(w, o, n, m)
        BY <2>4, <4>3, <4>5 DEF TypeOK, Counted, Cur
      <4> HIDE DEF v
      <4>6. Unsaved(v, o, n, p, a, c)'
        BY <2>3, <2>4, <4>3, <4>4, <4>5, UnsavedOn
      <4>7. Placed(W + 1, [w EXCEPT ![r] = W], o, n, p, a, c)'
        BY <4>1, <4>2, <4>6 DEF Placed, v
      <4> QED
        BY <4>7
    <3>2. CASE ReadPacket(r)
      <4>1. PICK W2, w2, o2, n2 :
              /\ Absolute(W2, w2, o2, n2, p, a, c)'
              /\ \A x \in Nat : Open(W, w, o, n, x) => Open(W2, w2, o2, n2, x)'
              /\ \A m \in Readers : Cur(w2, o2, n2, m) = Cur(w, o, n, m)
        BY <2>3, <3>2, KeptByPacket
      <4>2. EndsFresh(W2, w2, o2, n2, a)'
        BY <2>3, <3>2, <4>1, EndsByPacket
      <4>3. UNCHANGED <<dirty, running>> /\ Counted(W2, w2, o2, n2, p, a, c)
        BY <3>2, <4>1 DEF ReadPacket, historyVars, Absolute, Counted
      <4>4. Unsaved(w2, o2, n2, p, a, c)'
        BY <2>3, <2>4, <4>1, <4>3, UnsavedOn
      <4>5. Placed(W2, w2, o2, n2, p, a, c)'
        BY <4>1, <4>2, <4>4 DEF Placed
      <4> QED
        BY <4>5
    <3>3. CASE WriteRefused(r)
      <4>1. PICK p2 :
              /\ Absolute(W, w, o, n, p2, a, c)'
              /\ \A m \in Readers : p2[m] = p[m] \/ BlockOf(Cur(w, o, n, m)) <= p2[m]
        BY <2>3, <3>3, KeptByRefused
      <4>2. EndsFresh(W, w, o, n, a)'
        BY <2>3, <3>3, EndsByReader
      <4>3. UNCHANGED <<dirty, running>> /\ Counted(W, w, o, n, p2, a, c)
        BY <3>3, <4>1 DEF WriteRefused, readerVars, historyVars, Absolute, Counted
      <4>4. Unsaved(w, o, n, p2, a, c)'
        BY <2>3, <2>4, <4>1, <4>3, UnsavedOn
      <4>5. Placed(W, w, o, n, p2, a, c)'
        BY <4>1, <4>2, <4>4 DEF Placed
      <4> QED
        BY <4>5
    <3>4. CASE WriteAccepted(r) \/ LinkBefore(r) \/ ReaderReturns(r)
      <4>1. Absolute(W, w, o, n, p, a, c)'
        BY <2>3, <3>4, KeptByAccepted, KeptByLink, KeptByReturn
      <4>2. EndsFresh(W, w, o, n, a)'
        BY <2>3, <3>4, EndsByReader
      <4>3. UNCHANGED dirty /\ \A m \in Readers : running[m] # "new" => running'[m] # "new"
        BY <3>4 DEF WriteAccepted, LinkBefore, ReaderReturns, historyVars, TypeOK
      <4>4. Unsaved(w, o, n, p, a, c)'
        BY <2>3, <2>4, <4>3, UnsavedOn
      <4>5. Placed(W, w, o, n, p, a, c)'
        BY <4>1, <4>2, <4>4 DEF Placed
      <4> QED
        BY <4>5
    <3>5. CASE WriteCopied(r)
      <4>1. PICK n2, p2 : /\ Absolute(W, w, o, n2, p2, a, c)'
                          /\ n2 = [n EXCEPT ![r] = IF n[r] = 0 THEN 0 ELSE n[r] - 1]
                          /\ BlockOf(Cur(w, o, n, r)) <= p2[r]
                          /\ \A m \in Readers :
                               /\ p2[m] = p[m] \/ BlockOf(Cur(w, o, n, m)) <= p2[m]
                               /\ BlockOf(Cur(w, o, n, m)) <= BlockOf(Cur(w, o, n2, m))
        BY <2>3, <3>5, KeptByCopied
      <4>2. EndsFresh(W, w, o, n2, a)'
        BY <2>3, <3>5, <4>1, EndsByCopied
      <4>3. Counted(W, w, o, n2, p2, a, c) /\ UNCHANGED running
        BY <3>5, <4>1 DEF WriteCopied, Absolute, Counted
      <4>4. PICK s \in Slots : dirty' = dirty \cup {s} /\ Waits(w, o, n2, p2, a, c, s)'
        BY <2>3, <3>5, <4>1, <4>3, WaitsByCopied
      <4>5. ASSUME NEW z \in dirty' PROVE Waits(w, o, n2, p2, a, c, z)'
        <5>1. CASE z \in dirty
          <6>1. z \in Slots /\ Waits(w, o, n, p, a, c, z)
            BY <2>3, <5>1 DEF TypeOK, Unsaved
          <6> QED
            BY <2>4, <4>1, <4>3, <6>1, WaitsOn
        <5>2. CASE z = s
          BY <4>4, <5>2
        <5> QED
          BY <4>4, <5>1, <5>2
      <4>6. Placed(W, w, o, n2, p2, a, c)'
        BY <4>1, <4>2, <4>5 DEF Placed, Unsaved
      <4> QED
        BY <4>6
    <3> QED
      BY <2>6, <3>1, <3>2, <3>3, <3>4, <3>5 DEF Reader
  <2>7. ASSUME NEW t \in Managers, Manager(t) \/ KernelCompletes(t) \/ MemoryManager(t)
        PROVE  \E W2, w2, o2, n2, p2, a2, c2 : Placed(W2, w2, o2, n2, p2, a2, c2)'
    <3>1. CASE FindBlock(t) \/ KernelCompletes(t)
      <4>1. /\ UNCHANGED <<end_times, running, calls, copying, taken>>
            /\ mpc' = mpc \/ mpc' = [mpc EXCEPT ![t] = "get"]
        BY <2>1, <3>1 DEF FindBlock, KernelCompletes, bufferVars, readerVars, managerVars,
                          Stopped, Capturing
      <4>2. \A u \in Managers : mpc'[u] = "submit" => mpc[u] = "submit" /\ taken'[u] = taken[u]
        BY <4>1 DEF TypeOK
      <4>3. Absolute(W, w, o, n, p, a, c)'
        BY <2>1, <2>3, <3>1, KeptByFind, KeptByKernel
      <4>4. EndsFresh(W, w, o, n, a)'
        BY <2>3, <4>1, <4>2, EndsByOthers
      <4>5. UNCHANGED dirty
        BY <3>1 DEF FindBlock, KernelCompletes, historyVars
      <4>6. Unsaved(w, o, n, p, a, c)'
        BY <2>3, <4>1, <4>5 DEF Unsaved, Waits
      <4>7. Placed(W, w, o, n, p, a, c)'
        BY <4>3, <4>4, <4>6 DEF Placed
      <4> QED
        BY <4>7
    <3>2. CASE TakeBlock(t)
      <4>1. Absolute(W, w, o, n, p, a, [c EXCEPT ![t] = c[t] + T])'
        BY <2>3, <3>2, KeptByTake
      <4>2. EndsFresh(W, w, o, n, a)'
        BY <2>3, <3>2, EndsByTake
      <4>3. Unsaved(w, o, n, p, a, [c EXCEPT ![t] = c[t] + T])'
        BY <2>3, <3>2, UnsavedByTake
      <4>4. Placed(W, w, o, n, p, a, [c EXCEPT ![t] = c[t] + T])'
        BY <4>1, <4>2, <4>3 DEF Placed
      <4> QED
        BY <4>4
    <3>3. CASE AddBlock(t) \/ Recycle(t)
      <4>1. UNCHANGED <<end_times, running, calls, copying, dirty>>
        BY <3>3 DEF AddBlock, Recycle, RecycleBlock, GiveSlot, bufferVars, readerVars, historyVars
      <4>2. \A u \in Managers : mpc'[u] = "submit" => mpc[u] = "submit" /\ taken'[u] = taken[u]
        BY <3>3 DEF AddBlock, Recycle, managerVars, TypeOK
      <4>3. PICK a2 : /\ Absolute(W, w, o, n, p, a2, c)'
                      /\ a2 = a \/ \E s \in Slots : a2 = [a EXCEPT ![s] = a[s] + B]
        BY <2>3, <3>3, KeptByAdd, KeptByRecycle
      <4>4. CASE a2 = a
        <5>1. EndsFresh(W, w, o, n, a)'
          BY <2>3, <4>1, <4>2, EndsByOthers
        <5>2. Unsaved(w, o, n, p, a, c)'
          BY <2>3, <4>1 DEF Unsaved, Waits
        <5>3. Placed(W, w, o, n, p, a2, c)'
          BY <4>3, <4>4, <5>1, <5>2 DEF Placed
        <5> QED
          BY <5>3
      <4>5. ASSUME NEW s \in Slots, a2 = [a EXCEPT ![s] = a[s] + B]
            PROVE  Placed(W, w, o, n, p, a2, c)'
        <5>1. EndsFresh(W, w, o, n, a2)'
          BY <2>3, <4>1, <4>2, <4>5, EndsByRecycle
        <5>2. Linked(W, w, p, [a EXCEPT ![s] = a[s] + B], c)'
          BY <4>3, <4>5 DEF Absolute
        <5>3. Unsaved(w, o, n, p, a2, c)'
          BY <2>3, <4>1, <4>5, <5>2, UnsavedByRecycle
        <5> QED
          BY <4>3, <5>1, <5>3 DEF Placed
      <4> QED
        BY <4>3, <4>4, <4>5
    <3>4. ~Discard(t) /\ ~RecyclerReturns(t)
      BY <2>1 DEF Discard, RecyclerReturns, Stopped, Capturing
    <3> QED
      BY <2>7, <3>1, <3>2, <3>3, <3>4 DEF Manager, MemoryManager
  <2> QED
    BY <2>5, <2>6, <2>7 DEF Next
<1>3. CASE ~Capturing'
  <2>1. CASE Capturing
    <3>1. PICK W, w, o, n, p, a, c : Absolute(W, w, o, n, p, a, c)
      BY <1>1, <2>1 DEF CaptureInv, Placed
    <3>2. Stop
      BY <1>3, <2>1, CaptureEnds
    <3>3. \A r \in Readers : running[r] = "returned"
      BY <1>3, <2>1, <3>2 DEF Stop, Capturing, Phase
    <3>4. UNCHANGED <<running, calls, copying>>
      BY <3>2 DEF Stop, readerVars
    <3>5. \A r \in Readers : calls[r] = <<>> /\ ~copying[r]
      BY <3>1, <3>3 DEF Absolute, CallsPlaced
    <3> QED
      BY <1>3, <3>3, <3>4, <3>5 DEF Idle
  <2>2. CASE ~Capturing
    <3>1. Idle
      BY <1>1, <2>2 DEF CaptureInv
    <3>2. \A r \in Readers : ~Reader(r)
      BY <3>1 DEF Idle, Reader, ReaderStarts, ReadPacket, WriteRefused, WriteAccepted,
                  WriteCopied, LinkBefore, ReaderReturns
    <3>3. UNCHANGED <<running, calls, copying>>
      BY <3>2 DEF Next, vars, Manager, FindBlock, TakeBlock, AddBlock, KernelCompletes,
                  MemoryManager, Recycle, Discard, RecyclerReturns, Stop, readerVars
    <3> QED
      BY <1>3, <3>1, <3>3 DEF Idle
  <2> QED
    BY <2>1, <2>2
<1> QED
  BY <1>2, <1>3

-----------------------------------------------------------------------------
(* The safety properties of the data path that run data_path checks on one *)
(* instance, for every instance with Delayed: what follows from the        *)
(* invariant of the capture.                                               *)

(* The invariant of the capture holds from the construction of the threads *)
(* to the end of the capture.                                              *)
LEMMA CaptureHolds == ASSUME Delayed PROVE Spec => []CaptureInv
<1>1. Init => CaptureInv
  <2>1. Init => Capturing
    BY DEF Init, Capturing, Phase
  <2>2. ASSUME NEW w, NEW o, NEW n, NEW p, NEW a, NEW c PROVE Init => Unsaved(w, o, n, p, a, c)
    BY DEF Init, Unsaved
  <2> QED
    BY <2>1, <2>2, AbsoluteInit DEF CaptureInv, Placed
<1>2. TypeOK /\ CaptureInv /\ [Next]_vars => CaptureInv'
  BY CaptureStep
<1> QED
  BY <1>1, <1>2, TypeCorrect, PTL DEF Spec

(* getBlock never takes a slot again before recycleBlock has given it to   *)
(* its next block, while packets are captured.                             *)
THEOREM BlocksTakenOnce == ASSUME Delayed PROVE Spec => []TakenOnce
<1>1. CaptureInv => TakenOnce
  BY DEF CaptureInv, Placed, Absolute, Once, TakenOnce
<1> QED
  BY <1>1, CaptureHolds, PTL

-----------------------------------------------------------------------------
(* What a reader copies lies in the block its slot holds, which no disk    *)
(* manager has taken: a block that was taken was left by every reader.     *)
LEMMA CopyingSafe ==
    ASSUME NEW W, NEW w, NEW o, NEW n, NEW p, NEW a, NEW c, Delayed, TypeOK,
           Absolute(W, w, o, n, p, a, c), NEW r \in Readers,
           copying[r], ~Head(calls[r]).link
    PROVE  LET d == BlockOf(Head(calls[r]).cell) IN Resident(d) /\ ~HandedOver(SlotOf(d))
<1> DEFINE d == BlockOf(Head(calls[r]).cell)
           y == BlockOf(Cur(w, o, n, r))
<1>1. calls[r] # <<>>
  BY DEF Absolute, CallsPlaced
<1>2. d = DiskAt(y) /\ (Resident(d) <=> a[SlotOf(y)] = y)
  BY <1>1, HeadBlocks
<1>3. a[SlotOf(y)] = y
  BY DEF Absolute, CopyInPlace
<1>4. y \in Nat
  BY Points DEF Absolute
<1>5. SlotOf(d) = SlotOf(y) /\ SlotOf(y) \in Slots
  BY <1>2, <1>4, SlotFacts
<1>6. ~HandedOver(SlotOf(y))
  <2>1. SUFFICES ASSUME HandedOver(SlotOf(y)) PROVE FALSE
    OBVIOUS
  <2>2. Taken(c, y)
    BY <1>3, <1>5, <2>1 DEF Absolute, SlotsTaken
  <2>3. y < y
    BY <1>4, <2>2, TakenLeft, LeftPassed
  <2> QED
    BY <1>4, <2>3
<1> QED
  BY <1>2, <1>3, <1>5, <1>6

(* The block of every call for new data, in absolute positions.            *)
LEMMA CallBlock ==
    ASSUME NEW W, NEW w, NEW o, NEW n, NEW p, NEW a, NEW c, Delayed, TypeOK,
           Absolute(W, w, o, n, p, a, c), NEW r \in Readers,
           NEW i \in DOMAIN calls[r], ~calls[r][i].link
    PROVE  /\ running[r] # "new"
           /\ \E y \in Nat : /\ BlockOf(calls[r][i].cell) = DiskAt(y)
                             /\ BlockOf(Cur(w, o, n, r)) <= y /\ y <= BlockOf(w[r])
<1> DEFINE x == IF i <= n[r] THEN o[r] ELSE w[r]
<1>1. calls[r] \in Seq(CallSet) /\ i \in 1 .. Len(calls[r]) /\ i \in Nat /\ i >= 1
  BY DEF TypeOK
<1>2. running[r] = "running"
  <2>1. calls[r] # <<>>
    BY <1>1
  <2> QED
    BY <2>1 DEF Absolute, CallsPlaced
<1>3. /\ w[r] \in Nat /\ o[r] \in Nat /\ n[r] \in Nat /\ BlockOf(w[r]) \in Nat
      /\ Cur(w, o, n, r) \in Nat
  BY Points DEF Absolute
<1>4. calls[r][i].cell = CellAt(x) /\ (n[r] > 0 => o[r] < w[r])
  BY DEF Absolute, CallsPlaced
<1>5. x \in Nat /\ Cur(w, o, n, r) <= x /\ x <= w[r]
  BY <1>1, <1>3, <1>4 DEF Cur
<1> HIDE DEF x
<1>6. BlockOf(x) \in Nat /\ BlockOf(CellAt(x)) = DiskAt(BlockOf(x))
  BY <1>5, BlockFacts
<1>7. BlockOf(Cur(w, o, n, r)) <= BlockOf(x) /\ BlockOf(x) <= BlockOf(w[r])
  BY <1>3, <1>5, BlockOrder
<1>8. BlockOf(calls[r][i].cell) = DiskAt(BlockOf(x))
  BY <1>4, <1>6
<1> QED
  BY <1>2, <1>6, <1>7, <1>8

(* What the packet being written needs is still to come or just there.     *)
LEMMA CallAhead ==
    ASSUME NEW W, NEW w, NEW o, NEW n, NEW p, NEW a, NEW c, Delayed, TypeOK,
           Absolute(W, w, o, n, p, a, c), NEW r \in Readers,
           NEW i \in DOMAIN calls[r], ~calls[r][i].link
    PROVE  LET d == BlockOf(calls[r][i].cell)
           IN  (d + N - block_disk_id[SlotOf(d)]) % N <= 2 * B
<1> DEFINE d == BlockOf(calls[r][i].cell)
<1>1. running[r] # "new"
  BY CallBlock
<1>2. PICK y \in Nat : d = DiskAt(y) /\ BlockOf(Cur(w, o, n, r)) <= y /\ y <= BlockOf(w[r])
  BY CallBlock
<1> HIDE DEF d
<1>3. PICK z \in Nat : z = a[SlotOf(y)] /\ z <= y /\ y <= z + 2 * B
  BY <1>1, <1>2, NotSkipped
<1>4. SlotOf(d) = SlotOf(y) /\ SlotOf(y) \in Slots
  BY <1>2, SlotFacts
<1>5. block_disk_id[SlotOf(d)] = DiskAt(z)
  BY <1>3, <1>4 DEF Absolute, Linked
<1>6. y < z + N
  BY <1>3, Sizes
<1>7. (d + N - block_disk_id[SlotOf(d)]) % N = y - z
  BY <1>2, <1>3, <1>5, <1>6, DiskDistance
<1>8. y - z <= 2 * B
  BY <1>3, Sizes
<1> QED
  BY <1>7, <1>8 DEF d

(* A block being submitted has been left by everybody, and the writers are *)
(* less than a lap of the disk beyond it.                                  *)
LEMMA TakenFinished ==
    ASSUME NEW W, NEW w, NEW o, NEW n, NEW p, NEW a, NEW c, Delayed, TypeOK,
           Absolute(W, w, o, n, p, a, c), NEW t \in Managers, mpc[t] = "submit"
    PROVE  LET d == taken[t].write_pos IN
           /\ (BlockOf(diskWriteCell) + N - d) % N \in 1 .. 2 * B
           /\ \A r \in Readers :
                /\ BlockOf(writeCell[r]) # d
                /\ \A i \in DOMAIN calls[r] :
                     ~calls[r][i].link => BlockOf(calls[r][i].cell) # d
<1> DEFINE d == taken[t].write_pos
           s == taken[t].slot
<1>1. s \in Slots /\ HandedOver(s)
  BY DEF TypeOK, BlockSet, HandedOver
<1> HIDE DEF s
<1>2. PICK z \in Nat : z = a[s]
  BY <1>1, Points DEF Absolute
<1>3. d = DiskAt(z)
  BY <1>1, <1>2 DEF Absolute, Managed, Linked, s
<1> HIDE DEF d
<1>4. Left(p, z)
  <2>1. Taken(c, z)
    BY <1>1, <1>2 DEF Absolute, SlotsTaken
  <2> QED
    BY <2>1, TakenLeft
<1>5. BlockOf(W) \in Nat /\ BlockOf(W) + D <= z + 2 * B + 1
  BY <1>1, <1>2, Ahead, Points, BlockFacts DEF Absolute
<1>6. BlockOf(W) <= z + 2 * B
  BY <1>5, Sizes, DelaySizes
<1>7. ASSUME NEW r \in Readers
      PROVE  /\ z < BlockOf(Cur(w, o, n, r)) /\ BlockOf(Cur(w, o, n, r)) <= BlockOf(w[r])
             /\ BlockOf(w[r]) <= BlockOf(W)
  BY <1>4, LeftPassed, CurFirst
<1>8. (BlockOf(diskWriteCell) + N - d) % N \in 1 .. 2 * B
  <2>1. PICK r \in Readers : TRUE
    BY Sizes DEF Readers
  <2>2. BlockOf(Cur(w, o, n, r)) \in Nat /\ BlockOf(w[r]) \in Nat
    BY Points DEF Absolute
  <2>3. z < BlockOf(W)
    BY <1>5, <1>7, <2>2
  <2>4. BlockOf(diskWriteCell) = DiskAt(BlockOf(W))
    BY BlockFacts DEF Absolute, Counted, Linked
  <2>5. BlockOf(W) < z + N /\ z <= BlockOf(W)
    BY <1>5, <1>6, <2>3, Sizes
  <2>6. (DiskAt(BlockOf(W)) + N - DiskAt(z)) % N = BlockOf(W) - z
    BY <1>5, <2>5, DiskDistance
  <2>7. BlockOf(W) - z \in 1 .. 2 * B
    BY <1>5, <1>6, <2>3, Sizes
  <2> QED
    BY <1>3, <2>4, <2>6, <2>7
<1>9. ASSUME NEW r \in Readers, NEW y \in Nat,
             BlockOf(Cur(w, o, n, r)) <= y, y <= BlockOf(w[r])
      PROVE  DiskAt(y) # d
  <2>1. BlockOf(Cur(w, o, n, r)) \in Nat /\ BlockOf(w[r]) \in Nat
    BY Points DEF Absolute
  <2>2. z < y /\ y <= z + 2 * B
    BY <1>5, <1>6, <1>7, <1>9, <2>1, Sizes
  <2>3. SUFFICES ASSUME DiskAt(z) = DiskAt(y) PROVE FALSE
    BY <1>3
  <2>4. z + N <= y
    BY <2>2, <2>3, DiskApart
  <2> QED
    BY <2>2, <2>4, Sizes
<1>10. ASSUME NEW r \in Readers PROVE BlockOf(writeCell[r]) # d
  <2>1. BlockOf(writeCell[r]) = DiskAt(BlockOf(w[r])) /\ BlockOf(w[r]) \in Nat
    BY BlockFacts, Points DEF Absolute, Linked
  <2>2. BlockOf(Cur(w, o, n, r)) <= BlockOf(w[r])
    BY CurFirst
  <2> QED
    BY <1>9, <2>1, <2>2
<1>11. ASSUME NEW r \in Readers, NEW i \in DOMAIN calls[r], ~calls[r][i].link
       PROVE  BlockOf(calls[r][i].cell) # d
  <2>1. PICK y \in Nat : /\ BlockOf(calls[r][i].cell) = DiskAt(y)
                         /\ BlockOf(Cur(w, o, n, r)) <= y /\ y <= BlockOf(w[r])
    BY <1>11, CallBlock
  <2> QED
    BY <1>9, <2>1
<1> QED
  BY <1>8, <1>10, <1>11 DEF d

-----------------------------------------------------------------------------
(* What the invariant says of NewDataReachesDisk, NoBlockSkipped and       *)
(* OnlyFinishedBlocksTaken, state by state.                                *)
LEMMA CaptureImplies ==
    ASSUME Delayed, TypeOK, CaptureInv
    PROVE  NewDataReachesDisk /\ NoBlockSkipped /\ OnlyFinishedBlocksTaken
<1> SUFFICES ASSUME NoLostSubmit
             PROVE  NewDataReachesDisk /\ NoBlockSkipped /\ OnlyFinishedBlocksTaken
  BY DEF NewDataReachesDisk, NoBlockSkipped, OnlyFinishedBlocksTaken
<1>1. CASE Capturing
  <2>1. PICK W, w, o, n, p, a, c : Absolute(W, w, o, n, p, a, c)
    BY <1>1 DEF CaptureInv, Placed
  <2>2. NewDataReachesDisk
    BY <2>1, CopyingSafe DEF NewDataReachesDisk
  <2>3. NoBlockSkipped
    BY <2>1, CallAhead DEF NoBlockSkipped
  <2>4. OnlyFinishedBlocksTaken
    BY <2>1, TakenFinished DEF OnlyFinishedBlocksTaken
  <2> QED
    BY <2>2, <2>3, <2>4
<1>2. CASE ~Capturing
  <2>1. \A r \in Readers : calls[r] = <<>> /\ ~copying[r]
    BY <1>2 DEF CaptureInv, Idle
  <2>2. \A r \in Readers : DOMAIN calls[r] = {}
    BY <2>1
  <2> QED
    BY <1>2, <2>1, <2>2 DEF NewDataReachesDisk, NoBlockSkipped, OnlyFinishedBlocksTaken
<1> QED
  BY <1>1, <1>2

(* No captured packet is written into a slot that holds another block, or  *)
(* whose content a disk manager has taken already (writeBlock against      *)
(* getBlock and recycleBlock, with no lock between them).                  *)
THEOREM NewDataSafe == ASSUME Delayed PROVE Spec => []NewDataReachesDisk
<1>1. TypeOK /\ CaptureInv => NewDataReachesDisk
  BY CaptureImplies
<1> QED
  BY <1>1, CaptureHolds, TypeCorrect, PTL

(* recycleBlock never moves a slot beyond a block some packet still needs, *)
(* so writeBlock's retry loop waits for a block that comes.                *)
THEOREM BlocksNotSkipped == ASSUME Delayed PROVE Spec => []NoBlockSkipped
<1>1. TypeOK /\ CaptureInv => NoBlockSkipped
  BY CaptureImplies
<1> QED
  BY <1>1, CaptureHolds, TypeCorrect, PTL

(* checkBlock lets a block go only when all its cells have been given out  *)
(* and written: nothing is dumped half full while packets are captured.    *)
THEOREM FinishedBlocksTaken == ASSUME Delayed PROVE Spec => []OnlyFinishedBlocksTaken
<1>1. TypeOK /\ CaptureInv => OnlyFinishedBlocksTaken
  BY CaptureImplies
<1> QED
  BY <1>1, CaptureHolds, TypeCorrect, PTL

(* The end time getBlock copies was taken while the block or the one       *)
(* before it was filled: a query by time finds the block.                  *)
THEOREM EndTimesFresh == ASSUME Delayed PROVE Spec => []EndTimeFresh
<1>1. CaptureInv => EndTimeFresh
  BY DEF CaptureInv, Placed, EndsFresh, Fresh, EndTimeFresh
<1> QED
  BY <1>1, CaptureHolds, PTL

-----------------------------------------------------------------------------
(* Data no disk manager has taken is not on its way to the disk, and so    *)
(* not on its way to be recycled.                                          *)
UnsavedKept == NoLostSubmit => \A s \in dirty : ~HandedOver(s)

(* Which step hands a slot over.                                           *)
LEMMA HandedByTake ==
    ASSUME TypeOK, [Next]_vars, NEW s \in Slots, HandedOver(s)'
    PROVE  HandedOver(s) \/ \E t \in Managers : TakeBlock(t) /\ s = block_check_ids[t]
<1>1. ASSUME UNCHANGED <<mpc, taken, ring, completed>> PROVE HandedOver(s)
  BY <1>1 DEF HandedOver, Submitted
<1>2. ASSUME NEW r \in Readers, Reader(r) PROVE UNCHANGED <<mpc, taken, ring, completed>>
  BY <1>2 DEF Reader, ReaderStarts, ReadPacket, WriteRefused, WriteAccepted, WriteCopied,
              LinkBefore, ReaderReturns, managerVars, agentVars
<1>3. Stop \/ UNCHANGED vars => UNCHANGED <<mpc, taken, ring, completed>>
  BY DEF Stop, vars, managerVars, agentVars
<1>4. ASSUME NEW t \in Managers, RecyclerReturns(t) PROVE UNCHANGED <<mpc, taken, ring, completed>>
  BY <1>4 DEF RecyclerReturns, managerVars
<1>5. ASSUME NEW t \in Managers, FindBlock(t) PROVE HandedOver(s)
  <2>1. /\ mpc[t] = "check" /\ UNCHANGED <<taken, ring, completed>>
        /\ \E x \in {"get", "returned"} : mpc' = [mpc EXCEPT ![t] = x]
    BY <1>5 DEF FindBlock, agentVars
  <2>2. \A u \in Managers : mpc'[u] = "submit" => mpc[u] = "submit"
    BY <2>1 DEF TypeOK
  <2> QED
    BY <2>1, <2>2 DEF HandedOver, Submitted
<1>6. ASSUME NEW t \in Managers, TakeBlock(t)
      PROVE  HandedOver(s) \/ s = block_check_ids[t]
  <2>1. /\ mpc' = [mpc EXCEPT ![t] = "submit"] /\ UNCHANGED <<ring, completed>>
        /\ taken' = [taken EXCEPT ![t] = BlockTaken(t)]
    BY <1>6 DEF TakeBlock, agentVars
  <2>2. BlockTaken(t).slot = block_check_ids[t]
    BY DEF BlockTaken
  <2>3. \A u \in Managers : mpc'[u] = "submit" /\ taken'[u].slot = s =>
           (mpc[u] = "submit" /\ taken[u].slot = s) \/ s = block_check_ids[t]
    BY <2>1, <2>2 DEF TypeOK
  <2> QED
    BY <2>1, <2>3 DEF HandedOver, Submitted
<1>7. ASSUME NEW t \in Managers, AddBlock(t) PROVE HandedOver(s)
  BY <1>7, HandedByAdd
<1>8. ASSUME NEW t \in Managers, KernelCompletes(t) PROVE HandedOver(s)
  BY <1>8, HandedByKernel
<1>9. ASSUME NEW t \in Managers, Recycle(t) \/ Discard(t) PROVE HandedOver(s)
  BY <1>9, HandedByTail
<1> QED
  BY <1>1, <1>2, <1>3, <1>4, <1>5, <1>6, <1>7, <1>8, <1>9 DEF Next, Manager, MemoryManager

(* Which steps change what is dirty.                                       *)
LEMMA DirtySteps ==
    ASSUME [Next]_vars
    PROVE  \/ UNCHANGED dirty
           \/ \E r \in Readers : /\ calls[r] # <<>> /\ copying[r] /\ ~Head(calls[r]).link
                                 /\ UNCHANGED <<mpc, taken, ring, completed>>
                                 /\ dirty' = dirty \cup {SlotOf(BlockOf(Head(calls[r]).cell))}
           \/ \E t \in Managers : TakeBlock(t) /\ dirty' = dirty \ {block_check_ids[t]}
<1>1. ASSUME NEW r \in Readers, Reader(r)
      PROVE  \/ UNCHANGED dirty
             \/ /\ calls[r] # <<>> /\ copying[r] /\ ~Head(calls[r]).link
                /\ UNCHANGED <<mpc, taken, ring, completed>>
                /\ dirty' = dirty \cup {SlotOf(BlockOf(Head(calls[r]).cell))}
  BY <1>1 DEF Reader, ReaderStarts, ReadPacket, WriteRefused, WriteAccepted, WriteCopied,
              LinkBefore, ReaderReturns, managerVars, agentVars, historyVars
<1>2. ASSUME NEW t \in Managers, Manager(t) \/ KernelCompletes(t) \/ MemoryManager(t)
      PROVE  UNCHANGED dirty \/ (TakeBlock(t) /\ dirty' = dirty \ {block_check_ids[t]})
  BY <1>2 DEF Manager, FindBlock, TakeBlock, AddBlock, KernelCompletes, MemoryManager,
              Recycle, Discard, RecyclerReturns, historyVars
<1>3. Stop \/ UNCHANGED vars => UNCHANGED dirty
  BY DEF Stop, vars, historyVars
<1> QED
  BY <1>1, <1>2, <1>3 DEF Next

(* Unsaved data stays out of the hands of the managers.                    *)
LEMMA UnsavedStep ==
    ASSUME TypeOK, NewDataReachesDisk, UnsavedKept, [Next]_vars
    PROVE  UnsavedKept'
<1> SUFFICES ASSUME NoLostSubmit', NEW s \in dirty', HandedOver(s)' PROVE FALSE
  BY DEF UnsavedKept
<1>1. NoLostSubmit
  BY Onwards
<1>2. dirty \subseteq Slots
  BY DEF TypeOK
<1>3. \A t \in Managers : block_check_ids[t] \in Slots
  BY DEF TypeOK, BufferTypeOK
<1>4. CASE UNCHANGED dirty
  <2>1. s \in dirty /\ s \in Slots /\ ~HandedOver(s)
    BY <1>1, <1>2, <1>4 DEF UnsavedKept
  <2>2. PICK t \in Managers : TakeBlock(t) /\ s = block_check_ids[t]
    BY <2>1, HandedByTake
  <2> QED
    BY <1>4, <2>1, <2>2 DEF TakeBlock
<1>5. ASSUME NEW r \in Readers, calls[r] # <<>>, copying[r], ~Head(calls[r]).link,
             UNCHANGED <<mpc, taken, ring, completed>>,
             dirty' = dirty \cup {SlotOf(BlockOf(Head(calls[r]).cell))}
      PROVE  FALSE
  <2>1. HandedOver(s)
    BY <1>5 DEF HandedOver, Submitted
  <2>2. ~HandedOver(SlotOf(BlockOf(Head(calls[r]).cell)))
    BY <1>1, <1>5 DEF NewDataReachesDisk
  <2> QED
    BY <1>1, <1>5, <2>1, <2>2 DEF UnsavedKept
<1>6. ASSUME NEW t \in Managers, TakeBlock(t), dirty' = dirty \ {block_check_ids[t]}
      PROVE  FALSE
  <2>1. s \in dirty /\ s # block_check_ids[t] /\ s \in Slots /\ ~HandedOver(s)
    BY <1>1, <1>2, <1>6 DEF UnsavedKept
  <2>2. PICK u \in Managers : TakeBlock(u) /\ s = block_check_ids[u]
    BY <2>1, HandedByTake
  <2>3. s \notin dirty'
    BY <2>2 DEF TakeBlock
  <2> QED
    BY <2>3
<1> QED
  BY <1>4, <1>5, <1>6, DirtySteps

(* No step gives a slot to its next disk block while the slot holds data   *)
(* that no disk manager has taken, during the capture and while it stops.  *)
THEOREM UnsavedNotRecycled == ASSUME Delayed PROVE Spec => NoUnsavedRecycled
<1>1. Init => UnsavedKept
  BY DEF Init, UnsavedKept
<1>2. TypeOK /\ NewDataReachesDisk /\ UnsavedKept /\ [Next]_vars => UnsavedKept'
  BY UnsavedStep
<1>3. TypeOK /\ UnsavedKept /\ [Next]_vars =>
        [NoLostSubmit =>
           \A s \in Slots : block_disk_id'[s] # block_disk_id[s] => s \notin dirty]_vars
  BY RecycledWereHanded DEF UnsavedKept
<1> QED
  BY <1>1, <1>2, <1>3, NewDataSafe, TypeCorrect, PTL DEF Spec, NoUnsavedRecycled

-----------------------------------------------------------------------------
(* The drain: the readers have returned, and each disk manager in turn     *)
(* goes round its slots until no reader has come to the next one.          *)

(* A slot is always dumped by the same disk manager.                       *)
SlotsOwned == B % T = 0

(* The manager of a slot is that of every block the slot holds.            *)
LEMMA SlotTurn ==
    ASSUME SlotsOwned, NEW y \in Nat
    PROVE  TurnOf(SlotOf(y)) = TurnOf(y) /\ TurnOf(y + B) = TurnOf(y)
<1>1. \A x \in Nat : (x % B) % T = x % T
  BY Sizes, ModDivides DEF SlotsOwned
<1>2. (y + B) % B = y % B
  BY Sizes, ModShift
<1>3. y + B \in Nat
  BY Sizes
<1>4. (y + B) % T = ((y + B) % B) % T
  BY <1>1, <1>3
<1> QED
  BY <1>1, <1>2, <1>4 DEF TurnOf, SlotOf

(* directCheckRSS finds a reader in block z or at most a lap of the disk   *)
(* but the cache's window before it comes round.                           *)
LEMMA BarrierReached ==
    ASSUME NEW y \in Nat, NEW z \in Nat, z <= y, y + 2 * B < z + N
    PROVE  DiskAt(y) = DiskAt(z) \/ OutsideBarriers(DiskAt(y), DiskAt(z))
<1> SUFFICES ASSUME z < y PROVE OutsideBarriers(DiskAt(y), DiskAt(z))
  BY DEF DiskAt
<1> DEFINE u == DiskAt(y)
           d == y - z
           right == DiskAt(z)
           left == (right + N - 2 * B) % N
<1>1. right \in Nat /\ right < N /\ d \in Nat /\ 0 < d /\ d + 2 * B < N
  <2>1. right \in DiskIds
    BY DiskAdd, Sizes
  <2>2. d \in Nat /\ 0 < d /\ d + 2 * B < N
    BY Sizes
  <2> HIDE DEF right, d
  <2> QED
    BY <2>1, <2>2, Sizes DEF DiskIds
<1>2. u = (right + d) % N
  <2>1. z + d = y
    BY <1>1
  <2> HIDE DEF d
  <2> QED
    BY <1>1, <2>1, DiskAdd
<1> HIDE DEF u, d, right
<1>3. (right + d < N => u = right + d) /\ (N <= right + d => u = right + d - N)
  BY <1>1, <1>2, Sizes, ModSmall
<1>4. /\ right < 2 * B => left = right + N - 2 * B
      /\ 2 * B <= right => left = right - 2 * B
  <2> DEFINE l == right + N - 2 * B
  <2>1. l \in Nat /\ l < 2 * N
    BY <1>1, Sizes
  <2>2. right < 2 * B => l < N
    BY <1>1, Sizes
  <2>3. 2 * B <= right => N <= l
    BY <1>1, Sizes
  <2>4. (l < N => l % N = l) /\ (N <= l => l % N = l - N)
    BY <2>1, Sizes, ModSmall
  <2> QED
    BY <1>1, <2>2, <2>3, <2>4, Sizes
<1> HIDE DEF left
<1>5. \/ left < right /\ (u > right \/ u < left)
      \/ left > right /\ u > right /\ u < left
  BY <1>1, <1>3, <1>4, Sizes
<1> QED
  BY <1>5 DEF OutsideBarriers, u, left, right

(* Block y is one its manager has still to visit in the round that ends    *)
(* with block z of each manager.                                           *)
Due(c, z, y) == c[TurnOf(y)] <= y /\ y < z[TurnOf(y)]

(* The slot of a block that is due has not gone beyond it and can be taken *)
(* when its manager comes there.                                           *)
Visitable(a, y) ==
    LET s == SlotOf(y) IN a[s] <= y /\ (a[s] = y => ~HandedOver(s)) /\ OnceAt(s)

(* The round of the disk managers: whatever is to be saved is due.         *)
Draining(p, a, c, z) ==
    /\ p \in [Readers -> Nat] /\ a \in [Slots -> Nat]
    /\ c \in [Managers -> Nat] /\ z \in [Managers -> Nat]
    /\ \A r \in Readers : disk_write_ids[r] = DiskAt(p[r])
    /\ \A s \in Slots : SlotOf(a[s]) = s /\ block_disk_id[s] = DiskAt(a[s])
    /\ \A t \in Managers : /\ SlotOf(c[t]) = block_check_ids[t] /\ TurnOf(c[t]) = t
                           /\ z[t] <= c[t] + B
    /\ \A r \in Readers, s \in Slots : p[r] + 2 * B < a[s] + N
    /\ \A y \in Nat : Due(c, z, y) => Visitable(a, y)
    /\ \A s \in dirty : Due(c, z, a[s]) /\ \E r \in Readers : a[s] <= p[r]

(* It begins where the capture has come to.                                *)
LEMMA DrainStart ==
    ASSUME NEW W, NEW w, NEW o, NEW n, NEW p, NEW a, NEW c, Delayed, SlotsOwned, TypeOK,
           Placed(W, w, o, n, p, a, c)
    PROVE  Draining(p, a, c, [t \in Managers |-> c[t] + B])
<1> DEFINE z == [t \in Managers |-> c[t] + B]
<1>1. Absolute(W, w, o, n, p, a, c) /\ Unsaved(w, o, n, p, a, c)
  BY DEF Placed
<1>2. /\ p \in [Readers -> Nat] /\ a \in [Slots -> Nat] /\ c \in [Managers -> Nat]
      /\ z \in [Managers -> Nat] /\ \A t \in Managers : z[t] = c[t] + B
  BY <1>1, Sizes DEF Absolute, Counted
<1> HIDE DEF z
<1>3. ASSUME NEW r \in Readers, NEW s \in Slots PROVE p[r] + 2 * B < a[s] + N
  <2>1. p[r] <= D \/ p[r] + D <= a[s] + 2 * B + 1
    BY <1>1, Ahead
  <2>2. p[r] \in Nat /\ a[s] \in Nat
    BY <1>2
  <2> QED
    BY <2>1, <2>2, Sizes, DelaySizes
<1>4. ASSUME NEW y \in Nat, Due(c, z, y) PROVE Visitable(a, y)
  <2>1. SlotOf(y) \in Slots /\ TurnOf(y) \in Managers
    BY SlotFacts, TurnFacts
  <2>2. ~Taken(c, y)
    <3>1. c[TurnOf(y)] \in Nat /\ c[TurnOf(y)] <= y
      BY <1>2, <1>4, <2>1 DEF Due
    <3> QED
      BY <3>1 DEF Taken
  <2>3. a[SlotOf(y)] <= y
    <3>1. a[SlotOf(y)] \in Nat
      BY <1>2, <2>1
    <3>2. ~(y < a[SlotOf(y)])
      BY <1>1, <2>1, <2>2 DEF Absolute, SlotsTaken
    <3> QED
      BY <3>1, <3>2
  <2>4. a[SlotOf(y)] = y => ~HandedOver(SlotOf(y))
    BY <1>1, <2>1, <2>2 DEF Absolute, SlotsTaken
  <2>5. OnceAt(SlotOf(y))
    BY <1>1, OnceParts DEF Absolute
  <2> QED
    BY <2>3, <2>4, <2>5 DEF Visitable
<1>5. ASSUME NEW s \in dirty PROVE Due(c, z, a[s]) /\ \E r \in Readers : a[s] <= p[r]
  <2>1. s \in Slots /\ Waits(w, o, n, p, a, c, s)
    BY <1>1 DEF TypeOK, Unsaved
  <2> DEFINE y == a[s]
             t == TurnOf(a[s])
  <2>2. y \in Nat /\ SlotOf(y) = s /\ t \in Managers
    BY <1>1, <1>2, <2>1, TurnFacts DEF Absolute, Linked
  <2>3. c[t] \in Nat /\ z[t] = c[t] + B
    BY <1>2, <2>2
  <2>4. c[t] <= y
    BY <2>1, <2>2, <2>3 DEF Waits, Taken
  <2>5. y < c[t] + B
    <3>1. CASE y < B
      BY <2>2, <2>3, <3>1, Sizes
    <3>2. CASE B <= y
      <4>1. PICK x \in Nat : y = x + B /\ x < y
        BY <2>2, <3>2, Sizes
      <4>2. SlotOf(x) = s /\ TurnOf(x) = t
        <5>1. SlotOf(x + B) = SlotOf(x) /\ TurnOf(x + B) = TurnOf(x)
          BY SlotFacts, SlotTurn
        <5> QED
          BY <2>2, <4>1, <5>1
      <4>3. Taken(c, x)
        BY <1>1, <2>1, <4>1, <4>2 DEF Absolute, SlotsTaken
      <4> HIDE DEF y, t
      <4> QED
        BY <2>3, <4>1, <4>2, <4>3, Sizes DEF Taken
    <3> QED
      BY <2>2, <3>1, <3>2, Sizes
  <2> QED
    BY <2>1, <2>3, <2>4, <2>5 DEF Due, Waits
<1>6. \A t \in Managers : z[t] <= c[t] + B
  BY <1>2, Sizes
<1>7. Draining(p, a, c, z)
  BY <1>1, <1>2, <1>3, <1>4, <1>5, <1>6 DEF Draining, Absolute, Linked
<1> QED
  BY <1>7 DEF z

(* Steps that take nothing and recycle nothing.                            *)
LEMMA DrainOn ==
    ASSUME NEW p, NEW a, NEW c, NEW z, Draining(p, a, c, z),
           UNCHANGED <<block_disk_id, disk_write_ids, block_check_ids, dirty>>,
           \A s \in Slots : HandedOver(s)' => HandedOver(s),
           \A s \in Slots : OnceAt(s) => OnceAt(s)'
    PROVE  Draining(p, a, c, z)'
<1>1. ASSUME NEW y \in Nat, Due(c, z, y) PROVE Visitable(a, y)'
  <2>1. SlotOf(y) \in Slots /\ Visitable(a, y)
    BY <1>1, SlotFacts DEF Draining
  <2> QED
    BY <2>1 DEF Visitable
<1> QED
  BY <1>1 DEF Draining

(* A slot that is recycled was behind the block that is due in it.         *)
LEMMA DrainByRecycle ==
    ASSUME NEW p, NEW a, NEW c, NEW z, TypeOK, Draining(p, a, c, z),
           NEW s \in Slots, HandedOver(s), RecycleBlock(s), UNCHANGED dirty,
           \A u \in Slots : HandedOver(u)' => HandedOver(u),
           \A u \in Slots : OnceAt(u) => OnceAt(u)',
           OnceAt(s) => ~HandedOver(s)'
    PROVE  Draining(p, [a EXCEPT ![s] = a[s] + B], c, z)'
<1> DEFINE a2 == [a EXCEPT ![s] = a[s] + B]
<1>1. a \in [Slots -> Nat] /\ a[s] \in Nat
  BY DEF Draining
<1>2. /\ a2 \in [Slots -> Nat] /\ a2[s] = a[s] + B
      /\ \A u \in Slots \ {s} : a2[u] = a[u]
  BY <1>1, Sizes
<1> HIDE DEF a2
<1>3. /\ block_disk_id' = [block_disk_id EXCEPT ![s] = (block_disk_id[s] + B) % N]
      /\ UNCHANGED <<disk_write_ids, block_check_ids>>
  BY DEF RecycleBlock, GiveSlot
<1>4. \A u \in Slots : SlotOf(a2[u]) = u /\ block_disk_id'[u] = DiskAt(a2[u])
  <2>1. SlotOf(a[s]) = s /\ block_disk_id[s] = DiskAt(a[s])
    BY DEF Draining
  <2>2. SlotOf(a2[s]) = s /\ DiskAt(a2[s]) = (DiskAt(a[s]) + B) % N
    BY <1>1, <1>2, <2>1, SlotFacts, DiskAdd, Sizes
  <2>3. block_disk_id \in [Slots -> DiskIds]
    BY DEF TypeOK, BufferTypeOK
  <2>4. \A u \in Slots : block_disk_id'[u] = IF u = s THEN (block_disk_id[s] + B) % N ELSE block_disk_id[u]
    BY <1>3, <2>3
  <2> QED
    BY <1>2, <2>1, <2>2, <2>4 DEF Draining
<1>5. ASSUME NEW r \in Readers, NEW u \in Slots PROVE p[r] + 2 * B < a2[u] + N
  <2>1. p[r] + 2 * B < a[u] + N /\ p[r] \in Nat /\ a[u] \in Nat
    BY DEF Draining
  <2>2. a2[u] = a[u] \/ a2[u] = a[u] + B
    BY <1>2
  <2> QED
    BY <2>1, <2>2, Sizes
<1>6. ASSUME NEW y \in Nat, Due(c, z, y) PROVE Visitable(a2, y)'
  <2>1. SlotOf(y) \in Slots /\ Visitable(a, y)
    BY <1>6, SlotFacts DEF Draining
  <2>2. CASE SlotOf(y) = s
    <3>1. a[s] < y /\ OnceAt(s)
      BY <1>1, <2>1, <2>2 DEF Visitable
    <3>2. SlotOf(a[s]) = SlotOf(y)
      BY <2>2 DEF Draining
    <3>3. a[s] + B <= y
      BY <1>1, <3>1, <3>2, SlotApart
    <3> QED
      BY <1>2, <2>2, <3>1, <3>3 DEF Visitable
  <2>3. CASE SlotOf(y) # s
    BY <1>2, <2>1, <2>3 DEF Visitable
  <2> QED
    BY <2>2, <2>3
<1>7. s \notin dirty
  <2> SUFFICES ASSUME s \in dirty PROVE FALSE
    OBVIOUS
  <2>1. Due(c, z, a[s]) /\ SlotOf(a[s]) = s
    BY DEF Draining
  <2>2. Visitable(a, a[s])
    BY <1>1, <2>1 DEF Draining
  <2> QED
    BY <2>1, <2>2 DEF Visitable
<1>8. \A u \in dirty : Due(c, z, a2[u]) /\ \E r \in Readers : a2[u] <= p[r]
  BY <1>2, <1>7 DEF Draining, TypeOK
<1>9. Draining(p, a2, c, z)'
  BY <1>2, <1>3, <1>4, <1>5, <1>6, <1>8 DEF Draining
<1> QED
  BY <1>9 DEF a2

(* getBlock takes the slot of the block its manager has come to, which is  *)
(* the only one due in that slot.                                          *)
LEMMA DrainByTake ==
    ASSUME NEW p, NEW a, NEW c, NEW z, SlotsOwned, TypeOK, Draining(p, a, c, z),
           NEW t \in Managers, TakeBlock(t)
    PROVE  Draining(p, a, [c EXCEPT ![t] = c[t] + T], z)'
<1> DEFINE c2 == [c EXCEPT ![t] = c[t] + T]
           x == c[t]
           s == SlotOf(c[t])
<1>1. /\ mpc[t] = "get" /\ mpc' = [mpc EXCEPT ![t] = "submit"]
      /\ taken' = [taken EXCEPT ![t] = BlockTaken(t)]
      /\ dirty' = dirty \ {block_check_ids[t]}
      /\ block_check_ids' = [block_check_ids EXCEPT ![t] = (block_check_ids[t] + T) % B]
      /\ UNCHANGED <<block_disk_id, disk_write_ids, ring, completed>>
  BY DEF TakeBlock, GetBlock, agentVars
<1>2. /\ mpc \in [Managers -> {"check", "get", "submit", "returned"}]
      /\ taken \in [Managers -> BlockSet] /\ block_check_ids \in [Managers -> Slots]
      /\ dirty \subseteq Slots
  BY DEF TypeOK, BufferTypeOK
<1>3. /\ c \in [Managers -> Nat] /\ x \in Nat /\ SlotOf(x) = block_check_ids[t] /\ TurnOf(x) = t
      /\ s = block_check_ids[t] /\ z \in [Managers -> Nat] /\ z[t] <= x + B /\ z[t] \in Nat
  BY DEF Draining
<1>4. /\ mpc'[t] = "submit" /\ taken'[t] = BlockTaken(t) /\ block_check_ids'[t] = (s + T) % B
      /\ \A u \in Managers \ {t} : /\ mpc'[u] = mpc[u] /\ taken'[u] = taken[u]
                                   /\ block_check_ids'[u] = block_check_ids[u]
  BY <1>1, <1>2, <1>3
<1>5. BlockTaken(t).slot = s
  BY <1>3 DEF BlockTaken
<1>6. c2 \in [Managers -> Nat] /\ c2[t] = x + T /\ \A u \in Managers \ {t} : c2[u] = c[u]
  BY <1>3, Sizes
<1> HIDE DEF c2, x, s
<1>7. \A u \in Slots \ {s} : (HandedOver(u)' => HandedOver(u)) /\ (OnceAt(u) => OnceAt(u)')
  <2> SUFFICES ASSUME NEW u \in Slots, u # s
               PROVE  (HandedOver(u)' => HandedOver(u)) /\ (OnceAt(u) => OnceAt(u)')
    OBVIOUS
  <2>1. \A m \in Managers :
          mpc'[m] = "submit" /\ taken'[m].slot = u => mpc[m] = "submit" /\ taken[m].slot = u
    BY <1>4, <1>5
  <2>2. HandedOver(u)' => HandedOver(u)
    BY <1>1, <2>1 DEF HandedOver, Submitted
  <2>3. OnceAt(u) => OnceAt(u)'
    BY <1>1, <2>1 DEF OnceAt
  <2> QED
    BY <2>2, <2>3
<1>8. ASSUME NEW y \in Nat, Due(c2, z, y)
      PROVE  Due(c, z, y) /\ SlotOf(y) # s
  <2>1. TurnOf(y) \in Managers /\ c2[TurnOf(y)] <= y /\ y < z[TurnOf(y)]
    BY <1>8, TurnFacts DEF Due
  <2>2. CASE TurnOf(y) = t
    <3>1. x + T <= y /\ y < z[t]
      BY <1>6, <2>1, <2>2
    <3>2. x <= y /\ x < y /\ y < x + B
      BY <1>3, <3>1, Sizes
    <3>3. SlotOf(y) # SlotOf(x)
      BY <1>3, <3>2, SlotApart, Sizes
    <3> QED
      BY <2>1, <2>2, <3>2, <3>3 DEF Due, x, s
  <2>3. CASE TurnOf(y) # t
    <3>1. TurnOf(SlotOf(y)) # TurnOf(SlotOf(x))
      BY <1>3, <2>3, SlotTurn
    <3> QED
      BY <1>6, <2>1, <2>3, <3>1 DEF Due, x, s
  <2> QED
    BY <2>2, <2>3
<1>9. ASSUME NEW y \in Nat, Due(c2, z, y) PROVE Visitable(a, y)'
  <2>1. SlotOf(y) \in Slots /\ SlotOf(y) # s /\ Visitable(a, y)
    BY <1>8, <1>9, SlotFacts DEF Draining
  <2> QED
    BY <1>7, <2>1 DEF Visitable
<1>10. ASSUME NEW u \in dirty'
       PROVE  Due(c2, z, a[u]) /\ \E r \in Readers : a[u] <= p[r]
  <2>1. u \in dirty /\ u \in Slots /\ u # s
    BY <1>1, <1>2, <1>3, <1>10
  <2>2. /\ a[u] \in Nat /\ SlotOf(a[u]) = u /\ Due(c, z, a[u])
        /\ \E r \in Readers : a[u] <= p[r]
    BY <2>1 DEF Draining
  <2>3. TurnOf(a[u]) \in Managers /\ c[TurnOf(a[u])] <= a[u] /\ a[u] < z[TurnOf(a[u])]
    BY <2>2, TurnFacts DEF Due
  <2>4. CASE TurnOf(a[u]) = t
    <3>1. x <= a[u] /\ a[u] # x
      BY <2>1, <2>2, <2>3, <2>4 DEF s, x
    <3>2. x + T <= a[u]
      BY <1>3, <2>2, <2>4, <3>1, TurnApart
    <3> QED
      BY <1>6, <2>2, <2>3, <2>4, <3>2 DEF Due
  <2>5. CASE TurnOf(a[u]) # t
    BY <1>6, <2>2, <2>3, <2>5 DEF Due
  <2> QED
    BY <2>4, <2>5
<1>11. \A u \in Managers : /\ SlotOf(c2[u]) = block_check_ids'[u] /\ TurnOf(c2[u]) = u
                           /\ z[u] <= c2[u] + B
  <2>1. SlotOf(x + T) = (SlotOf(x) + T) % B /\ TurnOf(x + T) = t
    BY <1>3, SlotFacts, TurnFacts
  <2>2. z[t] <= (x + T) + B
    BY <1>3, Sizes
  <2> QED
    BY <1>3, <1>4, <1>6, <2>1, <2>2 DEF Draining
<1>12. Draining(p, a, c2, z)'
  BY <1>1, <1>6, <1>9, <1>10, <1>11 DEF Draining
<1> QED
  BY <1>12 DEF c2, x

(* A disk manager returns only after its round.                            *)
LEMMA RoundOver ==
    ASSUME NEW p, NEW a, NEW c, NEW z, SlotsOwned, TypeOK, Draining(p, a, c, z),
           NEW t \in Managers, FindBlock(t), mpc'[t] = "returned", NEW s \in dirty
    PROVE  TurnOf(s) # t
<1> SUFFICES ASSUME TurnOf(s) = t PROVE FALSE
  OBVIOUS
<1> DEFINE y == a[s]
           x == c[t]
           u == SlotOf(c[t])
<1>1. y \in Nat /\ SlotOf(y) = s /\ x \in Nat /\ TurnOf(x) = t /\ u = block_check_ids[t]
  BY DEF TypeOK, Draining
<1>2. TurnOf(y) = t
  <2>1. TurnOf(SlotOf(y)) = TurnOf(y)
    BY <1>1, SlotTurn
  <2> QED
    BY <1>1, <2>1
<1>3. x <= y /\ y < z[t] /\ z[t] \in Nat
  BY <1>2 DEF Draining, Due
<1>4. PICK r \in Readers : y <= p[r]
  BY DEF Draining
<1>5. u \in Slots /\ a[u] \in Nat /\ p[r] \in Nat
  <2>1. u \in Slots
    BY <1>1, SlotFacts
  <2> QED
    BY <2>1 DEF Draining
<1>6. a[u] <= x
  <2>1. Due(c, z, x)
    BY <1>1, <1>3 DEF Due
  <2> QED
    BY <1>1, <2>1 DEF Draining, Visitable
<1>7. a[u] <= p[r] /\ p[r] + 2 * B < a[u] + N
  <2>1. p[r] + 2 * B < a[u] + N
    BY <1>5 DEF Draining
  <2> HIDE DEF x, y, u
  <2> QED
    BY <1>1, <1>3, <1>4, <1>5, <1>6, <2>1
<1>8. DiskAt(p[r]) = disk_write_ids[r] /\ DiskAt(a[u]) = block_disk_id[u]
  BY <1>5 DEF Draining
<1> HIDE DEF x, y, u
<1>9. DirectCheckRSS(u, r)
  <2>1. DiskAt(p[r]) = DiskAt(a[u]) \/ OutsideBarriers(DiskAt(p[r]), DiskAt(a[u]))
    BY <1>5, <1>7, BarrierReached
  <2> QED
    BY <1>8, <2>1 DEF DirectCheckRSS
<1>10. DirectGetBlockID(t)
  BY <1>1, <1>9 DEF DirectGetBlockID
<1>11. mpc \in [Managers -> {"check", "get", "submit", "returned"}]
  BY DEF TypeOK
<1> QED
  BY <1>10, <1>11 DEF FindBlock

(* The invariant of the drain: the round goes on while the disk managers   *)
(* are told to stop, and one that has returned left nothing in its slots.  *)
DrainInv ==
    NoLostSubmit /\ ~Capturing =>
        /\ phase.part = "managers" => \E p, a, c, z : Draining(p, a, c, z)
        /\ \A t \in Managers, s \in dirty : mpc[t] = "returned" => TurnOf(s) # t

(* The round goes on with every step of the managers and the kernel.       *)
LEMMA DrainGoesOn ==
    ASSUME NEW p, NEW a, NEW c, NEW z, SlotsOwned, TypeOK, NoLostSubmit', Idle,
           Draining(p, a, c, z), phase.part = "managers", [Next]_vars
    PROVE  \E a2, c2 : Draining(p, a2, c2, z)'
<1>1. ASSUME UNCHANGED vars \/ Stop PROVE Draining(p, a, c, z)'
  <2>1. UNCHANGED <<bufferVars, managerVars, agentVars, historyVars>>
    BY <1>1 DEF vars, Stop
  <2>2. UNCHANGED <<block_disk_id, disk_write_ids, block_check_ids, dirty, mpc, taken, ring, completed>>
    BY <2>1 DEF bufferVars, managerVars, agentVars, historyVars
  <2>3. \A s \in Slots : (HandedOver(s)' => HandedOver(s)) /\ (OnceAt(s) => OnceAt(s)')
    BY <2>2 DEF HandedOver, Submitted, OnceAt
  <2> QED
    BY <2>2, <2>3, DrainOn
<1>2. \A r \in Readers : ~Reader(r)
  BY DEF Idle, Reader, ReaderStarts, ReadPacket, WriteRefused, WriteAccepted, WriteCopied,
         LinkBefore, ReaderReturns
<1>3. ASSUME NEW t \in Managers, FindBlock(t) PROVE Draining(p, a, c, z)'
  <2>1. /\ mpc[t] = "check" /\ UNCHANGED <<bufferVars, taken, agentVars, historyVars>>
        /\ \E x \in {"get", "returned"} : mpc' = [mpc EXCEPT ![t] = x]
    BY <1>3 DEF FindBlock
  <2>2. UNCHANGED <<block_disk_id, disk_write_ids, block_check_ids, dirty, taken, ring, completed>>
    BY <2>1 DEF bufferVars, agentVars, historyVars
  <2>3. \A u \in Managers : mpc'[u] = "submit" => mpc[u] = "submit"
    BY <2>1 DEF TypeOK
  <2>4. \A s \in Slots : HandedOver(s)' => HandedOver(s)
    BY <2>2, <2>3 DEF HandedOver, Submitted
  <2>5. \A s \in Slots : OnceAt(s) => OnceAt(s)'
    BY <2>2, <2>3 DEF OnceAt
  <2> QED
    BY <2>2, <2>4, <2>5, DrainOn
<1>4. ASSUME NEW t \in Managers, KernelCompletes(t) PROVE Draining(p, a, c, z)'
  <2>1. UNCHANGED <<block_disk_id, disk_write_ids, block_check_ids, dirty>>
    BY <1>4 DEF KernelCompletes, bufferVars, historyVars
  <2>2. \A s \in Slots : HandedOver(s)' => HandedOver(s)
    BY <1>4, HandedByKernel
  <2>3. \A s \in Slots : OnceAt(s) => OnceAt(s)'
    BY <1>4, OnceByKernel
  <2> QED
    BY <2>1, <2>2, <2>3, DrainOn
<1>5. ASSUME NEW t \in Managers, TakeBlock(t)
      PROVE  Draining(p, a, [c EXCEPT ![t] = c[t] + T], z)'
  BY <1>5, DrainByTake
<1>6. ASSUME NEW t \in Managers, AddBlock(t)
      PROVE  \E a2 : Draining(p, a2, c, z)'
  <2>1. PICK s \in Slots : s = taken[t].slot
    BY DEF TypeOK, BlockSet
  <2>2. /\ mpc[t] = "submit" /\ UNCHANGED dirty
        /\ UNCHANGED bufferVars \/ RecycleBlock(s)
    BY <1>6, <2>1 DEF AddBlock, historyVars
  <2>3. \A u \in Slots : HandedOver(u)' => HandedOver(u)
    BY <1>6, HandedByAdd
  <2>4. \A u \in Slots : OnceAt(u) => OnceAt(u)'
    BY <1>6, OnceByAdd
  <2>5. CASE UNCHANGED bufferVars
    <3>1. UNCHANGED <<block_disk_id, disk_write_ids, block_check_ids>>
      BY <2>5 DEF bufferVars
    <3>2. Draining(p, a, c, z)'
      BY <2>2, <2>3, <2>4, <3>1, DrainOn
    <3> QED
      BY <3>2
  <2>6. CASE RecycleBlock(s)
    <3>1. HandedOver(s)
      BY <2>1, <2>2 DEF HandedOver
    <3>2. OnceAt(s) => ~HandedOver(s)'
      BY <1>6, <2>1, <2>6, BlockMoved, OnceByAdd
    <3>3. Draining(p, [a EXCEPT ![s] = a[s] + B], c, z)'
      BY <2>2, <2>3, <2>4, <2>6, <3>1, <3>2, DrainByRecycle
    <3> QED
      BY <3>3
  <2> QED
    BY <2>2, <2>5, <2>6
<1>7. ASSUME NEW t \in Managers, Recycle(t)
      PROVE  \E a2 : Draining(p, a2, c, z)'
  <2>1. completed[t] # <<>> /\ RecycleBlock(Head(completed[t]).slot) /\ UNCHANGED dirty
    BY <1>7 DEF Recycle, CompletionReady, historyVars
  <2>2. PICK s \in Slots : s = Head(completed[t]).slot /\ HandedOver(s)
    BY <2>1, HeadHanded
  <2>3. \A u \in Slots : HandedOver(u)' => HandedOver(u)
    BY <1>7, HandedByTail
  <2>4. \A u \in Slots : OnceAt(u) => OnceAt(u)'
    BY <1>7, OnceByRecycle
  <2>5. OnceAt(s) => ~HandedOver(s)'
    BY <1>7, <2>2, OnceByRecycle
  <2>6. Draining(p, [a EXCEPT ![s] = a[s] + B], c, z)'
    BY <2>1, <2>2, <2>3, <2>4, <2>5, DrainByRecycle
  <2> QED
    BY <2>6
<1>8. \A t \in Managers : ~Discard(t) /\ ~RecyclerReturns(t)
  BY DEF Discard, RecyclerReturns, Stopped
<1>9. ASSUME NEW t \in Managers, Manager(t) \/ KernelCompletes(t) \/ MemoryManager(t)
      PROVE  \E a2, c2 : Draining(p, a2, c2, z)'
  BY <1>3, <1>4, <1>5, <1>6, <1>7, <1>8, <1>9 DEF Manager, MemoryManager
<1> QED
  BY <1>1, <1>2, <1>9 DEF Next

(* A disk manager returns in runData, once it was told to stop.            *)
LEMMA ManagerReturned ==
    ASSUME TypeOK, [Next]_vars, NEW t \in Managers, mpc[t] # "returned", mpc'[t] = "returned"
    PROVE  FindBlock(t) /\ phase.part = "managers"
<1>1. mpc \in [Managers -> {"check", "get", "submit", "returned"}] /\ mpc' # mpc
  BY DEF TypeOK
<1>2. PICK u \in Managers : Manager(u)
  BY <1>1 DEF Next, vars, Reader, ReaderStarts, ReadPacket, WriteRefused, WriteAccepted,
              WriteCopied, LinkBefore, ReaderReturns, KernelCompletes, MemoryManager,
              Recycle, Discard, RecyclerReturns, Stop, managerVars
<1>3. CASE TakeBlock(u) \/ AddBlock(u)
  BY <1>1, <1>3 DEF TakeBlock, AddBlock
<1>4. CASE FindBlock(u)
  BY <1>1, <1>4 DEF FindBlock, Stopped
<1> QED
  BY <1>2, <1>3, <1>4 DEF Manager

(* Every step keeps it.                                                    *)
LEMMA DrainStep ==
    ASSUME Delayed, SlotsOwned, TypeOK, CaptureInv, DrainInv, [Next]_vars
    PROVE  DrainInv'
<1> SUFFICES ASSUME NoLostSubmit', ~Capturing'
             PROVE  /\ phase'.part = "managers" => \E p, a, c, z : Draining(p, a, c, z)'
                    /\ \A t \in Managers, s \in dirty' : mpc'[t] = "returned" => TurnOf(s) # t
  BY DEF DrainInv
<1>1. NoLostSubmit
  BY Onwards
<1>2. CASE Capturing
  <2>1. Stop
    BY <1>2, CaptureEnds
  <2>2. PICK W, w, o, n, p, a, c : Placed(W, w, o, n, p, a, c)
    BY <1>1, <1>2 DEF CaptureInv
  <2>3. PICK z : Draining(p, a, c, z)
    BY <2>2, DrainStart
  <2>4. UNCHANGED <<bufferVars, managerVars, agentVars, historyVars>>
    BY <2>1 DEF Stop
  <2>5. UNCHANGED <<block_disk_id, disk_write_ids, block_check_ids, dirty, mpc, taken, ring, completed>>
    BY <2>4 DEF bufferVars, managerVars, agentVars, historyVars
  <2>6. \A s \in Slots : (HandedOver(s)' => HandedOver(s)) /\ (OnceAt(s) => OnceAt(s)')
    BY <2>5 DEF HandedOver, Submitted, OnceAt
  <2>7. Draining(p, a, c, z)'
    BY <2>3, <2>5, <2>6, DrainOn
  <2>8. \A t \in Managers : mpc'[t] # "returned"
    BY <2>2, <2>5 DEF Placed, Absolute, Managed
  <2> QED
    BY <2>7, <2>8
<1>3. CASE ~Capturing
  <2>1. /\ phase.part = "managers" => \E p, a, c, z : Draining(p, a, c, z)
        /\ \A t \in Managers, s \in dirty : mpc[t] = "returned" => TurnOf(s) # t
    BY <1>1, <1>3 DEF DrainInv
  <2>2. Idle
    BY <1>1, <1>3 DEF CaptureInv
  <2>3. phase'.part = "managers" => phase.part = "managers"
    <3>1. CASE Stop
      BY <1>3, <3>1 DEF Stop, Capturing, Phase
    <3>2. CASE ~Stop
      BY <3>2 DEF Next, vars, Reader, ReaderStarts, ReadPacket, WriteRefused, WriteAccepted,
                  WriteCopied, LinkBefore, ReaderReturns, Manager, FindBlock, TakeBlock,
                  AddBlock, KernelCompletes, MemoryManager, Recycle, Discard, RecyclerReturns
    <3> QED
      BY <3>1, <3>2
  <2>4. ASSUME phase'.part = "managers" PROVE \E p, a, c, z : Draining(p, a, c, z)'
    <3>1. PICK p, a, c, z : Draining(p, a, c, z)
      BY <2>1, <2>3, <2>4
    <3>2. PICK a2, c2 : Draining(p, a2, c2, z)'
      BY <2>2, <2>3, <2>4, <3>1, DrainGoesOn
    <3> QED
      BY <3>2
  <2>5. dirty' \subseteq dirty
    BY <2>2, DirtySteps DEF Idle
  <2>6. ASSUME NEW t \in Managers, NEW s \in dirty', mpc'[t] = "returned"
        PROVE  TurnOf(s) # t
    <3>1. CASE mpc[t] = "returned"
      BY <2>1, <2>5, <2>6, <3>1
    <3>2. CASE mpc[t] # "returned"
      <4>1. FindBlock(t) /\ phase.part = "managers"
        BY <2>6, <3>2, ManagerReturned
      <4>2. PICK p, a, c, z : Draining(p, a, c, z)
        BY <2>1, <4>1
      <4>3. s \in dirty
        BY <2>5, <2>6
      <4> QED
        BY <2>6, <4>1, <4>2, <4>3, RoundOver
    <3> QED
      BY <3>1, <3>2
  <2> QED
    BY <2>4, <2>6
<1> QED
  BY <1>2, <1>3

(* Stopping loses nothing: when threadsStop has joined the disk managers,  *)
(* every block with captured data has been handed to the disk.             *)
THEOREM StopLosesNothing ==
    ASSUME Delayed, SlotsOwned PROVE Spec => []DrainLeavesNothing
<1>1. Init => DrainInv
  BY DEF Init, DrainInv, Capturing, Phase
<1>2. TypeOK /\ CaptureInv /\ DrainInv /\ [Next]_vars => DrainInv'
  BY DrainStep
<1>3. TypeOK /\ CaptureInv /\ DrainInv => DrainLeavesNothing
  <2> SUFFICES ASSUME TypeOK, CaptureInv, DrainInv, NoLostSubmit,
                      \A t \in Managers : mpc[t] = "returned", NEW s \in dirty
               PROVE  FALSE
    BY DEF DrainLeavesNothing
  <2>1. s \in Nat /\ TurnOf(s) \in Managers
    <3>1. s \in Slots
      BY DEF TypeOK
    <3>2. s \in Nat
      BY <3>1 DEF Slots
    <3> QED
      BY <3>2, TurnFacts
  <2>2. CASE Capturing
    <3>1. PICK W, w, o, n, p, a, c : Placed(W, w, o, n, p, a, c)
      BY <2>2 DEF CaptureInv
    <3> QED
      BY <2>1, <3>1 DEF Placed, Absolute, Managed
  <2>3. CASE ~Capturing
    BY <2>1, <2>3 DEF DrainInv
  <2> QED
    BY <2>2, <2>3
<1> QED
  BY <1>1, <1>2, <1>3, CaptureHolds, TypeCorrect, PTL DEF Spec
=============================================================================
