----------------------------- MODULE PacketCells -----------------------------
(***************************************************************************)
(* How packets lie on the data disk, and how they are read back: the cells *)
(* that DPDKReader::writePacketToPacketBuffer fills and                    *)
(* Querier::readPackets decodes.  The unit of length is the 8 bytes of the *)
(* pointer at the end of a cell; a header has 16 bytes.                    *)
(***************************************************************************)
EXTENDS Integers, Sequences

CONSTANTS
    CellSize,    \* units of a cell
    CellNum,     \* cells of the disk
    BlockCells,  \* cells of a data block
    MaxLen       \* bound: the longest packet

HeaderLen == 2
PtrLen    == 1
BlockSize == BlockCells * CellSize
DiskSize  == CellNum * CellSize

(* A packet and the pointer fit into an empty cell.                        *)
ASSUME CellAssumption ==
    /\ {CellSize, CellNum, BlockCells, MaxLen} \subseteq Nat \ {0}
    /\ CellNum % BlockCells = 0
    /\ HeaderLen + MaxLen + PtrLen <= CellSize

(* flow_next_diff of a packet without a later one: UINT32_MAX.             *)
NoNext == -1

(* What a unit of the disk holds.                                          *)
Blank         == [is |-> "blank"]
Time(p)       == [is |-> "time", of |-> p]
Sizes(l, n)   == [is |-> "sizes", len |-> l, next |-> n]
Data(p, i)    == [is |-> "data", of |-> p, unit |-> i]
NextCell(c)   == [is |-> "cell", cell |-> c]

(* The header readPacket makes, and the data of packet p.                  *)
Header(p, len) == <<Time(p), Sizes(len, NoNext)>>
Payload(p, len) == [i \in 1 .. len |-> Data(p, i)]

Write(disk, offset, units) ==
    [u \in DOMAIN disk |-> IF u >= offset /\ u < offset + Len(units)
                           THEN units[u - offset + 1] ELSE disk[u]]

(* How many units there are between the offset and the pointer.            *)
Space(offset) == CellSize - (offset % CellSize) - PtrLen

(* The packet lies inside its cell.                                        *)
WriteInside(disk, offset, header, data) ==
    Write(disk, offset, header \o data)

(* Mutant of WriteSplit: what is left is written behind the header's       *)
(* length in the new cell.                                                 *)
WriteSplitBehind(disk, offset, new, header, data) ==
    LET tmp   == Space(offset)
        begin == new * CellSize
        old   == Write(Write(disk, offset, SubSeq(header \o data, 1, tmp)),
                       offset + tmp, <<NextCell(new)>>)
    IN  IF HeaderLen > tmp
        THEN Write(Write(old, begin, SubSeq(header, tmp + 1, HeaderLen)),
                   begin + HeaderLen, data)
        ELSE Write(old, begin, SubSeq(data, 1, Len(data) + HeaderLen - tmp))

(* It does not fit: the last unit of the cell points to the new one.  What *)
(* is left of the header and then the data go to the new cell.  When some  *)
(* of the data fits as well, the new cell gets as many units as are left,  *)
(* but from the beginning of the data again.                               *)
WriteSplit(disk, offset, new, header, data) ==
    LET tmp   == Space(offset)
        begin == new * CellSize
        old   == Write(Write(disk, offset, SubSeq(header \o data, 1, tmp)),
                       offset + tmp, <<NextCell(new)>>)
    IN  IF HeaderLen > tmp
        THEN Write(Write(old, begin, SubSeq(header, tmp + 1, HeaderLen)),
                   begin + HeaderLen - tmp, data)
        ELSE Write(old, begin, SubSeq(data, 1, Len(data) + HeaderLen - tmp))

(* writeBefore: the difference to the flow's next packet is written where  *)
(* the last one begins, over half of its first unit: the time, or the      *)
(* pointer when nothing else was left in the cell.                         *)
WriteBefore(disk, last, diff) ==
    [disk EXCEPT ![last] = IF @.is = "cell" THEN NextCell(diff) ELSE Time(NoNext)]

-----------------------------------------------------------------------------
(* Reading                                                                 *)

(* A read of a cell that does not exist fails.                             *)
Failed == [ok |-> FALSE, len |-> 0, next |-> 0, data |-> <<>>]

(* What a header tells: units that are not a header stand for any values,  *)
(* here for an empty packet at the end of its flow.                        *)
Decoded(sizes) == IF sizes.is = "sizes" THEN sizes ELSE Sizes(0, NoNext)

Units(disk, from, len) == [i \in 1 .. len |-> disk[(from + i - 1) % DiskSize]]

(* The header is split by the end of the cell.                             *)
ReadSplitHeader(disk, offset) ==
    LET cell  == offset \div CellSize
        tmp   == Space(offset)
        tail  == disk[cell * CellSize + CellSize - PtrLen].cell
        begin == tail * CellSize
        sizes == Decoded(disk[begin + HeaderLen - tmp - 1])
    IN  IF tail >= CellNum THEN Failed
        ELSE [ok |-> TRUE, len |-> sizes.len, next |-> sizes.next,
              data |-> Units(disk, begin + HeaderLen - tmp, sizes.len)]

(* The data is split: both parts are copied to the start of the new buffer *)
(* and the end of it is left as it is.                                     *)
ReadSplitData(disk, offset, sizes) ==
    LET cell == offset \div CellSize
        tmp  == Space(offset) - HeaderLen
        tail == disk[cell * CellSize + CellSize - PtrLen].cell
        rest == sizes.len - tmp
    IN  IF tail >= CellNum THEN Failed
        ELSE [ok |-> TRUE, len |-> sizes.len, next |-> sizes.next,
              data |-> [i \in 1 .. sizes.len |->
                          IF i <= rest THEN disk[tail * CellSize + i - 1]
                          ELSE IF i <= tmp THEN disk[offset + HeaderLen + i - 1]
                          ELSE Blank]]

(* The part of readPackets that decodes the packet at an offset.           *)
ReadPacket(disk, offset) ==
    LET cell_pos == offset % CellSize
        sizes    == Decoded(disk[offset + 1])
    IN  IF cell_pos + HeaderLen + PtrLen > CellSize THEN ReadSplitHeader(disk, offset)
        ELSE IF cell_pos + HeaderLen + PtrLen + sizes.len > CellSize
        THEN ReadSplitData(disk, offset, sizes)
        ELSE [ok |-> TRUE, len |-> sizes.len, next |-> sizes.next,
              data |-> Units(disk, offset + HeaderLen, sizes.len)]
=============================================================================
