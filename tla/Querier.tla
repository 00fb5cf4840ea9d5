------------------------------- MODULE Querier -------------------------------
(***************************************************************************)
(* From packets to the answer of a query: capture threads write packets    *)
(* into the cells of the data disk and index the first packet of every     *)
(* flow (dpdkReader.cpp); the indexes of a data block are sorted and kept  *)
(* on the index disk, its keys in the filter; a query is read, checked and *)
(* searched (querier.cpp), after the capture has stopped.                  *)
(*                                                                         *)
(* A packet is captured in one step here: DataPath has the interleavings   *)
(* of the block cache, IndexFlow and IndexStore the way of an index.  The  *)
(* model ends before a cell of the disk is used again.                     *)
(***************************************************************************)
EXTENDS PacketCells, PrefixBloomFilter, QueryExpression, FiniteSets

CONSTANTS
    Readers,     \* capture threads
    Flows,       \* the flows: [v |-> 4 or 6, ip |-> number, port |-> number]
    Lens,        \* lengths of packets
    Threshold,   \* PacketAggregator: offsetThreshold
    ReadSize,    \* entries of a block of the index disk (readBlockSize)
    Words,       \* the tokens a line may have
    Failures,    \* which reads may fail, a subset of {"index", "data"}
    MaxPackets,  \* bound: packets captured
    MaxTokens    \* bound: tokens of a line, two less for every packet

ASSUME QuerierAssumption ==
    /\ Lens \subseteq 1 .. MaxLen /\ Threshold \in Nat
    /\ ReadSize \in Nat \ {0} /\ MaxPackets \in Nat /\ MaxTokens \in Nat
    /\ MaxPackets + Cardinality(Readers) <= CellNum
    /\ Failures \subseteq {"index", "data"}

None == -1

VARIABLES
    diskWriteCell,  \* the next cell to give out
    writeCell,      \* reader -> its cell
    writeOffset,    \* reader -> where it is in its cell
    aggMap,         \* reader -> flow -> lastOffset, or None
    disk,           \* the data disk
    packets,        \* what was captured: flow, len, offset, first, linked
    bitmap,         \* the filter: column b for block b
    indexDisk,      \* the parts of block 0, one after the other
    indexMeta,      \* type -> where its part begins and ends (disk_index_meta)
    qpc,            \* where the querier is
    line,           \* the tokens of the line
    last, brackets, status,     \* the two checks of the grammar
    pos, ops, before_lists, left_list, op_now, wait_for_value, cachePos,
                    \* searchExpression
    offset_list, now_id,        \* readPackets
    key,            \* the key looked up
    shown,          \* history: the packets printed for the key
    failed          \* history: a read failed during the lookup

captureVars == <<diskWriteCell, writeCell, writeOffset, aggMap, disk, packets>>
indexVars   == <<bitmap, indexDisk, indexMeta>>
verifyVars  == <<last, brackets, status>>
searchVars  == <<pos, ops, before_lists, left_list, op_now, wait_for_value, cachePos>>
lookupVars  == <<offset_list, now_id, key, shown, failed>>
vars == <<captureVars, indexVars, qpc, line, verifyVars, searchVars, lookupVars>>

Blocks == 0 .. CellNum \div BlockCells - 1
Types  == PortTypes \cup IPv4Types \cup IPv6Types

Init ==
    /\ diskWriteCell = Cardinality(Readers)
    /\ writeCell \in {f \in [Readers -> 0 .. diskWriteCell - 1] :
                        \A r, s \in Readers : r # s => f[r] # f[s]}
    /\ writeOffset = [r \in Readers |-> 0]
    /\ aggMap = [r \in Readers |-> [f \in Flows |-> None]]
    /\ disk = [u \in 0 .. DiskSize - 1 |-> Blank]
    /\ packets = <<>>
    /\ bitmap = {} /\ indexDisk = <<>>
    /\ indexMeta = [t \in Types |-> <<0, 0>>]
    /\ qpc = "capture" /\ line = <<>>
    /\ last = "EMPTY" /\ brackets = <<>> /\ status = 0
    /\ pos = 1 /\ ops = <<>> /\ before_lists = <<>> /\ left_list = <<>>
    /\ op_now = "||" /\ wait_for_value = 0 /\ cachePos = "srcip"
    /\ offset_list = <<>> /\ now_id = 1
    /\ key = [type |-> "srcip", num |-> 0] /\ shown = <<>> /\ failed = FALSE

-----------------------------------------------------------------------------
(* The capture                                                             *)

(* getOffset: the packet's place, and where the next one would begin; the  *)
(* pointer is skipped as soon as the packet reaches it.                    *)
OffsetOf(r) == (writeOffset[r] + writeCell[r] * CellSize) % DiskSize

Advance(r, len) ==
    LET w == writeOffset[r] + HeaderLen + len
    IN  IF w + PtrLen > CellSize THEN w + PtrLen ELSE w

(* addPacket: the last packet of the flow, unless it lies too far back or  *)
(* too much time has passed since (late).                                  *)
ChainedTo(r, flow, offset, late) ==
    LET prev    == aggMap[r][flow]
        ordered == IF offset <= prev THEN offset + DiskSize ELSE offset
    IN  IF prev = None \/ ordered - prev > Threshold \/ late THEN None ELSE prev

CalDiff(offset, prev) == (offset + DiskSize - prev) % DiskSize

(* A packet: getOffset, addPacket, writePacketToPacketBuffer and, for a    *)
(* packet that continues a flow, writeBefore; another one is indexed.      *)
CapturePacket(r, flow, len, late) ==
    /\ qpc = "capture" /\ Len(packets) < MaxPackets
    /\ LET id     == Len(packets) + 1
           offset == OffsetOf(r)
           w      == Advance(r, len)
           prev   == ChainedTo(r, flow, offset, late)
           header == Header(id, len)
           data   == Payload(id, len)
           stored == IF w > CellSize
                     THEN WriteSplit(disk, offset, diskWriteCell, header, data)
                     ELSE WriteInside(disk, offset, header, data)
       IN  /\ IF w > CellSize
              THEN /\ writeCell' = [writeCell EXCEPT ![r] = diskWriteCell]
                   /\ diskWriteCell' = (diskWriteCell + 1) % CellNum
                   /\ writeOffset' = [writeOffset EXCEPT ![r] = w % CellSize]
              ELSE /\ writeOffset' = [writeOffset EXCEPT ![r] = w]
                   /\ UNCHANGED <<writeCell, diskWriteCell>>
           /\ aggMap' = [aggMap EXCEPT ![r][flow] = offset]
           /\ disk' = IF prev = None THEN stored
                      ELSE WriteBefore(stored, prev, CalDiff(offset, prev))
           /\ packets' = Append([i \in DOMAIN packets |->
                                   [packets[i] EXCEPT !.linked = @ \/ packets[i].offset = prev]],
                                [flow |-> flow, len |-> len, offset |-> offset,
                                 first |-> prev = None, linked |-> FALSE])
    /\ UNCHANGED <<indexVars, qpc, line, verifyVars, searchVars, lookupVars>>

(* A packet that is not IP: its place is taken, but nothing is written and *)
(* no new cell is taken, even if it reached beyond the end of the cell.    *)
OtherPacket(r, len) ==
    /\ qpc = "capture"
    /\ writeOffset' = [writeOffset EXCEPT ![r] = Advance(r, len)]
    /\ UNCHANGED <<diskWriteCell, writeCell, aggMap, disk, packets, indexVars,
                   qpc, line, verifyVars, searchVars, lookupVars>>

-----------------------------------------------------------------------------
(* The indexes                                                             *)

(* The bytes of an address, and the key of a flow for a type of index: the *)
(* destination stands for the source.                                      *)
Bytes(n, len) == [i \in 1 .. len |-> (n \div Slice ^ (len - i)) % Slice]

KeyOf(type, n) == IF type \in PortTypes THEN n
                  ELSE Bytes(n, IF type \in IPv4Types THEN 4 ELSE SixLen)

NumberOf(type, flow) == IF type \in PortTypes THEN flow.port ELSE flow.ip

TypesOf(flow) == PortTypes \cup (IF flow.v = 4 THEN IPv4Types ELSE IPv6Types)

Indexed(b) == {i \in DOMAIN packets : packets[i].first /\ packets[i].offset \div BlockSize = b}

(* The keys of block b: an index has one per type.                         *)
Keys(b) == UNION {{<<t, KeyOf(t, NumberOf(t, packets[i].flow))>> : t \in TypesOf(packets[i].flow)} :
                     i \in Indexed(b)}

(* The part of a type: its entries in the order of their keys.             *)
Part(type) ==
    LET entries == {<<NumberOf(type, packets[i].flow), packets[i].offset>> :
                        i \in {j \in Indexed(0) : type \in TypesOf(packets[j].flow)}}
    IN  SetToSortSeq(entries, LAMBDA a, b : a[1] < b[1] \/ (a[1] = b[1] /\ a[2] < b[2]))

PartOrder == <<"srcip", "dstip", "srcport", "dstport", "srcipv6", "dstipv6">>

PartsBefore(i) == FlattenSeq([j \in 1 .. i - 1 |-> Part(PartOrder[j])])

(* The capture has stopped: every index is in the filter and, if it is of  *)
(* block 0, on the index disk (IndexGenerator, IndexPersister).            *)
PersistIndexes ==
    /\ qpc = "capture"
    /\ bitmap' = UNION {UNION {Insert({}, k[1], k[2], b) : k \in Keys(b)} : b \in Blocks}
    /\ indexDisk' = PartsBefore(Len(PartOrder) + 1)
    /\ indexMeta' = [t \in Types |->
                        LET i == CHOOSE j \in DOMAIN PartOrder : PartOrder[j] = t
                        IN  <<Len(PartsBefore(i)), Len(PartsBefore(i + 1))>>]
    /\ qpc' = "verify"
    /\ UNCHANGED <<captureVars, line, verifyVars, searchVars, lookupVars>>

-----------------------------------------------------------------------------
(* Reading a line: grammarVerify and grammarVerifySimply go over the same  *)
(* tokens, so they go over the line as it is made.                         *)

VerifyToken(t) ==
    /\ qpc = "verify" /\ Len(line) + 2 * Len(packets) < MaxTokens
    /\ ~Undefined(t.kind, brackets)
    /\ Accepts(t.kind, last, brackets) /\ SimplyAccepts(t, status)
    /\ line' = Append(line, t)
    /\ last' = NewLastType(t.kind, last)
    /\ brackets' = NewBrackets(t.kind, brackets)
    /\ status' = NewStatus(t, status)
    /\ UNCHANGED <<captureVars, indexVars, qpc, searchVars, lookupVars>>

(* The line is refused: at a token, for an open bracket at its end, or     *)
(* because it is empty.  A closing bracket without an open one makes       *)
(* grammarVerify look at the top of an empty stack, and anything may       *)
(* happen.                                                                 *)
RejectLine ==
    /\ qpc = "verify"
    /\ \/ /\ \E t \in Words : /\ ~Undefined(t.kind, brackets)
                              /\ ~(Accepts(t.kind, last, brackets) /\ SimplyAccepts(t, status))
          /\ qpc' = "rejected"
       \/ /\ line = <<>> \/ ~VerifiedToEnd(brackets)
          /\ qpc' = "rejected"
       \/ /\ \E t \in Words : Undefined(t.kind, brackets)
          /\ qpc' = "undefined"
    /\ UNCHANGED <<captureVars, indexVars, line, verifyVars, searchVars, lookupVars>>

AcceptLine ==
    /\ qpc = "verify" /\ line # <<>> /\ VerifiedToEnd(brackets)
    /\ qpc' = "search"
    /\ UNCHANGED <<captureVars, indexVars, line, verifyVars, searchVars, lookupVars>>

-----------------------------------------------------------------------------
(* searchExpression, token by token                                        *)

Word == line[pos]

OpenBracket ==
    /\ Word.kind = "("
    /\ ops' = Append(ops, op_now) /\ op_now' = "||"
    /\ before_lists' = Append(before_lists, left_list) /\ left_list' = <<>>
    /\ UNCHANGED <<wait_for_value, cachePos>>

Column ==
    /\ Word.text \in IPv4Types \cup PortTypes
    /\ cachePos' = Word.text
    /\ wait_for_value' = IF Word.text \in PortTypes THEN 2 ELSE 1
    /\ UNCHANGED <<ops, before_lists, left_list, op_now>>

Connector ==
    /\ Word.kind \in {"op", "con"}
    /\ op_now' = IF Word.kind = "con" THEN Word.text ELSE op_now
    /\ UNCHANGED <<ops, before_lists, left_list, wait_for_value, cachePos>>

CloseBracket ==
    /\ Word.kind = ")" /\ ops # <<>> /\ before_lists # <<>>
    /\ op_now' = Last(ops) /\ ops' = Front(ops)
    /\ left_list' = Combine(Last(ops), Last(before_lists), left_list)
    /\ before_lists' = Front(before_lists)
    /\ UNCHANGED <<wait_for_value, cachePos>>

(* A word that is no column is taken for a value if a column came before.  *)
IsLookup == /\ Word.kind \in {"var", "value"}
            /\ Word.text \notin IPv4Types \cup PortTypes

(* An address with a mask, or a word that no column went before: nothing   *)
(* is found.  A column before stays in force for the whole line.           *)
NoLookup ==
    /\ IsLookup
    /\ wait_for_value = 0 \/ (wait_for_value = 1 /\ Word.text = "masked")
    /\ UNCHANGED <<ops, before_lists, left_list, op_now, wait_for_value, cachePos>>

SearchToken ==
    /\ qpc = "search" /\ pos <= Len(line)
    /\ OpenBracket \/ Column \/ Connector \/ CloseBracket \/ NoLookup
    /\ pos' = pos + 1
    /\ UNCHANGED <<captureVars, indexVars, qpc, line, verifyVars, lookupVars>>

-----------------------------------------------------------------------------
(* A lookup: getPointerByFlowMetaIndex                                     *)

(* getIndexRange looks at block 0 only.                                    *)
GetIndexRange(k) ==
    IF CheckKey(bitmap, k.type, KeyOf(k.type, k.num), 0) THEN indexMeta[k.type] ELSE <<>>

(* getOffsetList: the blocks of the index disk that hold the part are read *)
(* one after the other into the buffer.                                    *)
IndexBuffer(range) ==
    LET first == range[1] \div ReadSize
        stop  == range[2] \div ReadSize
    IN  [i \in 0 .. (stop - first + 1) * ReadSize - 1 |->
            IF first * ReadSize + i < Len(indexDisk) THEN indexDisk[first * ReadSize + i + 1]
            ELSE <<None, None>>]

(* Mutant of LowerBound: the search goes on behind an entry that is equal. *)
LowerBoundAfter(index, count, k) ==
    LET step[l \in 0 .. count, r \in 0 .. count] ==
            IF l >= r THEN l
            ELSE LET mid == l + (r - l) \div 2
                 IN  IF index[mid][1] <= k THEN step[mid + 1, r] ELSE step[l, mid]
    IN  step[0, count]

(* binarySearch: the halving loop.                                         *)
LowerBound(index, count, k) ==
    LET step[l \in 0 .. count, r \in 0 .. count] ==
            IF l >= r THEN l
            ELSE LET mid == l + (r - l) \div 2
                 IN  IF index[mid][1] < k THEN step[mid + 1, r] ELSE step[l, mid]
    IN  step[0, count]

(* ... and the entries from there on, as long as their key is the same.    *)
BinarySearch(index, count, k) ==
    LET left == LowerBound(index, count, k)
        right == CHOOSE e \in left .. count :
                    /\ \A i \in left .. e - 1 : index[i][1] = k
                    /\ e = count \/ index[e][1] # k
    IN  [i \in 1 .. right - left |-> index[left + i - 1][2]]

OffsetsOf(k) ==
    LET range == GetIndexRange(k)
    IN  IF range = <<>> THEN <<>>
        ELSE LET buffer == IndexBuffer(range)
                 begin  == range[1] % ReadSize
                 count  == range[2] - range[1]
             IN  BinarySearch([i \in 0 .. count - 1 |-> buffer[begin + i]], count, k.num)

(* The numbers a value may be converted to.  What is no number makes stoul *)
(* throw, and leaves the variable inet_aton should set without a value.    *)
Converted ==
    IF Word.num >= 0 THEN {Word.num}
    ELSE IF wait_for_value = 2 THEN {} ELSE {f.ip : f \in Flows} \cup {0}

AtValue == /\ qpc = "search" /\ pos <= Len(line) /\ IsLookup
           /\ wait_for_value = 2 \/ (wait_for_value = 1 /\ Word.text # "masked")

(* Nobody catches what stoul throws: the program ends.                     *)
Throws ==
    /\ AtValue /\ Converted = {}
    /\ qpc' = "aborted"
    /\ UNCHANGED <<captureVars, indexVars, line, verifyVars, searchVars, lookupVars>>

Lookup ==
    /\ AtValue
    /\ \E n \in Converted : LET k == [type |-> cachePos, num |-> n] IN
         /\ key' = k
         /\ \/ offset_list' = SortList(OffsetsOf(k)) /\ failed' = FALSE
            \/ /\ "index" \in Failures /\ GetIndexRange(k) # <<>>
               /\ offset_list' = <<>> /\ failed' = TRUE
    /\ now_id' = 1 /\ shown' = <<>>
    /\ qpc' = "read"
    /\ UNCHANGED <<captureVars, indexVars, line, verifyVars, searchVars>>

(* readPackets goes on with the smaller one of this offset and the next.   *)
Swapped(list, i) ==
    IF i < Len(list) /\ list[i + 1] < list[i]
    THEN [list EXCEPT ![i] = list[i + 1], ![i + 1] = list[i]] ELSE list

(* One round: the packet is read and printed, and its place in the list is *)
(* taken by the next packet of its flow.                                   *)
PrintNext ==
    /\ qpc = "read" /\ now_id <= Len(offset_list)
    /\ LET list   == Swapped(offset_list, now_id)
           packet == ReadPacket(disk, list[now_id])
       IN  /\ packet.ok
           /\ shown' = Append(shown, [offset |-> list[now_id], data |-> packet.data])
           /\ IF packet.next \in {0, NoNext}
              THEN offset_list' = list /\ now_id' = now_id + 1
              ELSE /\ offset_list' = [list EXCEPT ![now_id] = @ + packet.next]
                   /\ UNCHANGED now_id
    /\ UNCHANGED <<captureVars, indexVars, qpc, line, verifyVars, searchVars, key, failed>>

(* A read fails, or asks for a cell that does not exist: readPackets ends. *)
ReadFails ==
    /\ qpc = "read" /\ now_id <= Len(offset_list)
    /\ \/ "data" \in Failures
       \/ ~ReadPacket(disk, Swapped(offset_list, now_id)[now_id]).ok
    /\ failed' = TRUE
    /\ qpc' = "printed"
    /\ UNCHANGED <<captureVars, indexVars, line, verifyVars, searchVars,
                   offset_list, now_id, key, shown>>

ReadDone ==
    /\ qpc = "read" /\ now_id > Len(offset_list)
    /\ qpc' = "printed"
    /\ UNCHANGED <<captureVars, indexVars, line, verifyVars, searchVars, lookupVars>>

(* The lookup returns no pointers; they are joined or intersected.         *)
LookupReturns ==
    /\ qpc = "printed"
    /\ left_list' = Combine(op_now, left_list, <<>>)
    /\ pos' = pos + 1 /\ qpc' = "search"
    /\ UNCHANGED <<captureVars, indexVars, line, verifyVars, ops, before_lists,
                   op_now, wait_for_value, cachePos, lookupVars>>

SearchDone ==
    /\ qpc = "search" /\ pos > Len(line)
    /\ qpc' = "answered"
    /\ UNCHANGED <<captureVars, indexVars, line, verifyVars, searchVars, lookupVars>>

Capture == \E r \in Readers, len \in Lens :
               \/ OtherPacket(r, len)
               \/ \E flow \in Flows, late \in BOOLEAN : CapturePacket(r, flow, len, late)

Next ==
    \/ Capture \/ PersistIndexes
    \/ (\E t \in Words : VerifyToken(t)) \/ RejectLine \/ AcceptLine
    \/ SearchToken \/ Lookup \/ Throws \/ PrintNext \/ ReadFails \/ ReadDone
    \/ LookupReturns \/ SearchDone

Spec == Init /\ [][Next]_vars

-----------------------------------------------------------------------------
(* Properties                                                              *)

(* No packet that is not IP has taken a reader beyond the end of its cell. *)
(* The next packet would be laid out in a cell of somebody else.           *)
InCell == \A r \in Readers : writeOffset[r] <= CellSize

(* The capture has just stopped; nothing that is stored changes later.     *)
PersistedNow == qpc = "verify" /\ line = <<>>

(* A packet is read back with its length, and at least the first half of   *)
(* its data is what was captured, wherever the end of a cell split it: the *)
(* writer repeats the beginning of the data in the new cell, and the       *)
(* reader copies that over the beginning.  Left out are packets of which   *)
(* only the pointer fitted into the cell when a link was written over it.  *)
PacketsReadBack ==
    PersistedNow => \A i \in DOMAIN packets :
        LET p == packets[i]
            q == ReadPacket(disk, p.offset)
        IN  \/ p.linked /\ Space(p.offset) = 0
            \/ /\ q.ok /\ q.len = p.len
               /\ \A u \in 1 .. p.len : 2 * u <= p.len + 1 => q.data[u] = Data(i, u)

(* The filter has no false negatives, neither for a key of an indexed      *)
(* packet nor for a prefix of its address, and a column holds nothing but  *)
(* the keys of its own block although eight columns share every byte.      *)
FilterExact ==
    PersistedNow => \A b \in Blocks :
        /\ \A k \in Keys(b) : CheckKey(bitmap, k[1], k[2], b)
        /\ \A k \in Keys(b) : k[1] \notin PortTypes =>
             \A n \in 0 .. Len(k[2]) : CheckPrefix(bitmap, k[1], k[2], n, b)
        /\ \A row \in 0 .. RowCount - 1 :
             GetBit(bitmap, row, b) => \E k \in Keys(b) : row \in Rows(k[1], k[2])

(* A query finds exactly the indexed packets of block 0 that have the key, *)
(* through filter, positions of the part, blocks of the index disk, binary *)
(* search and readPackets, and prints each of them once.                   *)
LookupExact ==
    qpc = "printed" /\ ~failed =>
        LET wanted == {packets[i].offset : i \in {j \in Indexed(0) :
                          /\ key.type \in TypesOf(packets[j].flow)
                          /\ NumberOf(key.type, packets[j].flow) = key.num}}
        IN  /\ {shown[i].offset : i \in DOMAIN shown} = wanted
            /\ Len(shown) = Cardinality(wanted)

(* What the two checks of the grammar accept can be searched: no bracket   *)
(* is closed that was not opened, and at the end no list is left on the    *)
(* stack.                                                                  *)
SearchDefined ==
    /\ qpc = "search" /\ pos <= Len(line) /\ Word.kind = ")" => ops # <<>> /\ before_lists # <<>>
    /\ qpc = "answered" => ops = <<>> /\ before_lists = <<>>
=============================================================================
