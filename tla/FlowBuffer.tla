----------------------------- MODULE FlowBuffer ------------------------------
(***************************************************************************)
(* The flow buffers of the Flosis baseline (flosis/lib/aggBuffer.hpp and   *)
(* flowbuffer.hpp): the packets of a connection, column by column, each    *)
(* column a list of chunks that come from a pool.                          *)
(*                                                                         *)
(* A byte is told from others by the packet it belongs to; lengths count   *)
(* units of a few bytes.  A timestamp and a length take one unit each.     *)
(***************************************************************************)
EXTENDS Integers, Sequences, SequencesExt, FiniteSetsExt

CONSTANTS
    ChunkLen,       \* block_size of the pool: units in a chunk
    CountLen,       \* sizeof(packet_count), in units
    FinPackets,     \* packets from the FIN on that finish a flow (4)
    LenThreshold,   \* flow_buffer_len_threshold
    TimeThreshold   \* flow_buffer_time_threshold

ASSUME FlowBufferAssumption ==
    /\ ChunkLen \in Nat \ {0, 1}
    /\ CountLen \in Nat /\ FinPackets \in Nat \ {0}
    /\ LenThreshold \in Nat /\ TimeThreshold \in Nat \ {0}

\* timestamp, length, header, upstream data, downstream data
Columns == 1 .. 5

(* A flow buffer in the hands of the constructor: the chunks of the        *)
(* columns are still to come.  finished is not initialised.                *)
NewFlowBuffer(garbage) ==
    [data |-> [i \in Columns |-> <<>>], chunks |-> [i \in Columns |-> <<>>],
     last |-> 0, fin |-> FALSE, rst |-> FALSE, count |-> 0,
     finished |-> garbage]

TotalLen(b, i) == Len(b.data[i])

(* What append_packet writes to each column: the data of every packet goes *)
(* downstream, that of upstream packets upstream too.                      *)
Written(p) ==
    <<1, 1, p.header_length, IF p.is_upstream THEN p.data_length ELSE 0, p.data_length>>

(* AggBuffer::write copies to the last chunk, takes a new one when the     *)
(* last is full to the brim or too small, and copies the rest there.       *)
NeedsChunk(b, i, p) == (TotalLen(b, i) % ChunkLen) + Written(p)[i] >= ChunkLen

(* The columns that ask the pool for a chunk: all of a new buffer, then    *)
(* those that the packet makes grow.                                       *)
ChunksFor(b, p, fresh) ==
    (IF fresh THEN [i \in Columns |-> i] ELSE <<>>)
        \o SelectSeq([i \in Columns |-> i], LAMBDA i : NeedsChunk(b, i, p))

AddChunk(b, i, block) == [b EXCEPT !.chunks[i] = Append(@, block)]

(* append_packet, the chunks being there.                                  *)
AppendPacket(b, p) ==
    LET fin == b.fin \/ p.is_fin
    IN  [b EXCEPT !.data  = [i \in Columns |->
                                @[i] \o [k \in 1 .. Written(p)[i] |-> p.id]],
                  !.last  = p.timestamp,
                  !.fin   = fin,
                  !.rst   = @ \/ p.is_rst,
                  !.count = IF fin THEN @ + 1 ELSE @]

IsFinished(b) == (b.fin /\ b.count >= FinPackets) \/ b.rst \/ b.finished

ThresholdFinished(b, ts) == ts >= TimeThreshold + b.last

GetTotolLength(b) ==
    FoldSeq(LAMBDA i, n : n + TotalLen(b, i), CountLen, [i \in Columns |-> i])

SetFlags(b, from) == [b EXCEPT !.fin = from.fin, !.rst = from.rst, !.count = from.count]

(* The packet is appended to the buffer that the flow has.                 *)
Fits(b, p) ==
    /\ GetTotolLength(b) + p.data_length + p.header_length < LenThreshold
    /\ ~IsFinished(b)
    /\ ~ThresholdFinished(b, p.timestamp)

(* The chunks as the destructors give them back: the last column first,    *)
(* each from its head.                                                     *)
ChunksOf(b) == FlattenSeq([i \in Columns |-> b.chunks[6 - i]])

(* The data of the chunks, in the order in which they are copied out:      *)
(* block_len units of each, what remains of the last.                      *)
Pieces(b) ==
    LET Piece(i, k) == SubSeq(b.data[i], k * ChunkLen + 1,
                              Min({(k + 1) * ChunkLen, TotalLen(b, i)}))
        Full(i)     == (TotalLen(b, i) + ChunkLen - 1) \div ChunkLen
    IN  FlattenSeq([i \in Columns |-> [k \in 1 .. Full(i) |-> Piece(i, k - 1)]])

(* The packets a buffer holds, in the order in which they were appended.   *)
PacketsOf(b) == b.data[1]
=============================================================================
