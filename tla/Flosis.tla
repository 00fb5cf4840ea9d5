------------------------------- MODULE Flosis --------------------------------
(***************************************************************************)
(* The Flosis baseline (baseline/flosis): one flow engine per receive      *)
(* queue collects the packets of a connection in a flow buffer and copies  *)
(* a buffer that is full, finished or too old to its write buffer; one     *)
(* dumper per write buffer writes the blocks to the disk.  The chunks of   *)
(* all flow buffers come from one pool that the engines share without a    *)
(* lock (lib/pointerRingPool.hpp).                                         *)
(*                                                                         *)
(* The threads interleave at the accesses to what they share: the pool's   *)
(* positions and signals, the blocks' signals and the stop flags.  The     *)
(* flow checkers are constructed but their threads are never started, so   *)
(* the ring from a checker to an engine stays empty; the index rings are   *)
(* not used.                                                               *)
(***************************************************************************)
EXTENDS FlowBuffer, WBuffer

CONSTANTS
    Engines,        \* 1 .. nb_rx
    PoolBlocks,     \* block_count of the pool, a power of two
    DiskBlocks,     \* data_disk_size in blocks
    Loads,          \* bound: the frames that may come to each queue, in order
    Starts          \* slots of the pool that is taken from and given to first

ASSUME FlosisAssumption ==
    /\ PoolBlocks \in Nat \ {0} /\ DiskBlocks \in Nat \ {0}
    /\ Starts \subseteq 0 .. PoolBlocks - 1
    /\ \A load \in Loads : \A e \in Engines : \A i \in DOMAIN load[e] :
           \A f \in load[e][i] : f.len <= ChunkLen

VARIABLES
    queue,      \* the frames that are still to come to each queue
    pool,       \* the pool's positions, slots and signals
    engine,     \* the state of each flow engine, its flow_map included
    wbuffer,    \* the write buffer of each engine
    dumper,     \* the state of each dumper
    ctrl,       \* where threadsStop is
    arrived,    \* history: the connection of each frame, {} if not taken
    sent,       \* history: the packets copied to the write buffer
    dumped,     \* history: what each dumper wrote, and where
    lost        \* history: blocks whose free was refused

vars == <<queue, pool, engine, wbuffer, dumper, ctrl, arrived, sent, dumped, lost>>

Slots == 0 .. PoolBlocks - 1

(* Earlier packets may have moved the positions.                           *)
NewPool(start) ==
    [allo |-> start, free |-> start, blocks |-> [s \in Slots |-> s],
     signal |-> [s \in Slots |-> TRUE]]

NoPacket ==
    [id |-> 0, is_fin |-> FALSE, is_rst |-> FALSE, header_length |-> 0,
     data_length |-> 0, timestamp |-> 0, is_upstream |-> TRUE]

\* map: flow_map; packet: the ParsedPacket of run(); key: its entry of the
\* map; fresh: a new FlowBuffer, cur, is being made; need: columns that wait
\* for a chunk; pos: the slot an allocate or free is at; stream: what is left
\* to copy; frees: chunks to give back; left: flows to write after the stop
NewEngine ==
    [pc |-> "start", stop |-> TRUE, map |-> <<>>, packet |-> NoPacket, key |-> <<>>,
     fresh |-> FALSE, cur |-> NewFlowBuffer(FALSE), need |-> <<>>, pos |-> 0,
     stream |-> <<>>, frees |-> <<>>, left |-> {}, quits |-> FALSE]

NewDumper == [pc |-> "start", stop |-> TRUE, got |-> 0, place |-> 0]

Init ==
    /\ queue \in Loads
    /\ \E start \in Starts : pool = NewPool(start)
    /\ engine = [e \in Engines |-> NewEngine]
    /\ wbuffer = [e \in Engines |-> NewWBuffer]
    /\ dumper = [e \in Engines |-> NewDumper]
    /\ ctrl = [pc |-> "init", at |-> 1]
    /\ arrived = [e \in Engines |-> <<>>]
    /\ sent = [e \in Engines |-> <<>>]
    /\ dumped = [e \in Engines |-> <<>>]
    /\ lost = {}

-----------------------------------------------------------------------------
(* FlowEngine::run                                                         *)

IsFlow(f) == f.l3 \in {"v4", "v6"} /\ f.l4 \in {"tcp", "udp"}

(* readPacket fills in the ParsedPacket that run() uses for every frame:   *)
(* only TCP sets the flags, so that other packets have those of the        *)
(* packet before.                                                          *)
ReadPacket(old, f, ts, id) ==
    [old EXCEPT !.id = id, !.timestamp = ts,
                !.is_fin = IF f.l4 = "tcp" THEN f.fin ELSE @,
                !.is_rst = IF f.l4 = "tcp" THEN f.rst ELSE @,
                !.header_length = Min({f.header, f.len}),
                !.data_length = f.len - Min({f.header, f.len})]

Opposite(key) == <<key[2], key[1]>>

(* Mutant of FlowOf: the other direction is not looked for.                *)
FlowOfOneWay(map, key) == key

(* writePacketToMap finds the flow, in either direction.                   *)
FlowOf(map, key) ==
    IF key \notin DOMAIN map /\ Opposite(key) \in DOMAIN map THEN Opposite(key) ELSE key

(* A frame of the burst, up to the first chunk that is needed: the packet  *)
(* goes to a new buffer when the flow has none or its buffer is done.      *)
Receive(e) ==
    queue[e] # <<>> /\ \E f \in Head(queue[e]) :
        LET g     == engine[e]
            read  == ReadPacket(g.packet, f, g.packet.timestamp + f.gap, Len(arrived[e]) + 1)
            key   == FlowOf(g.map, f.key)
            known == key \in DOMAIN g.map
            fresh == IF known THEN ~Fits(g.map[key], read) ELSE TRUE
            p     == [read EXCEPT !.is_upstream = fresh \/ key = f.key]
            new   == IF known /\ ~IsFinished(g.map[key])
                     THEN SetFlags(NewFlowBuffer(f.garbage), g.map[key])
                     ELSE NewFlowBuffer(f.garbage)
            Skip  == [g EXCEPT !.packet.timestamp = read.timestamp]
            Enter == [g EXCEPT !.pc = "fetch", !.packet = p, !.key = key, !.fresh = fresh]
            ToOld == [Enter EXCEPT !.need = ChunksFor(g.map[key], p, FALSE)]
            ToNew == [Enter EXCEPT !.cur = new, !.need = ChunksFor(new, p, TRUE)]
        IN  /\ g.pc = "loop"
            /\ queue' = [queue EXCEPT ![e] = Tail(@)]
            /\ arrived' = [arrived EXCEPT ![e] =
                    Append(@, IF IsFlow(f) THEN {f.key[1], f.key[2]} ELSE {})]
            /\ engine' = [engine EXCEPT ![e] =
                    IF ~IsFlow(f) THEN Skip ELSE IF fresh THEN ToNew ELSE ToOld]
            /\ UNCHANGED <<pool, wbuffer, dumper, ctrl, sent, dumped, lost>>

-----------------------------------------------------------------------------
(* PointerRingPool::allocate, called again until it gives a block.         *)

(* Mutant of NextAllo: two engines get the same position.                  *)
NextAlloOnce(p) == p

NextAllo(p) == [p EXCEPT !.allo = (@ + 1) % PoolBlocks]

AllocateFetch(e) ==
    /\ engine[e].pc = "fetch" /\ engine[e].need # <<>>
    /\ engine' = [engine EXCEPT ![e].pc = "check", ![e].pos = pool.allo]
    /\ pool' = NextAllo(pool)
    /\ UNCHANGED <<queue, wbuffer, dumper, ctrl, arrived, sent, dumped, lost>>

AllocateCheck(e) ==
    /\ engine[e].pc = "check"
    /\ engine' = [engine EXCEPT ![e].pc =
                    IF pool.signal[engine[e].pos] THEN "take" ELSE "fetch"]
    /\ UNCHANGED <<queue, pool, wbuffer, dumper, ctrl, arrived, sent, dumped, lost>>

AllocateTake(e) ==
    LET g     == engine[e]
        block == pool.blocks[g.pos]
    IN  /\ g.pc = "take"
        /\ pool' = [pool EXCEPT !.signal[g.pos] = FALSE]
        /\ engine' = [engine EXCEPT ![e] =
                IF g.fresh
                THEN [@ EXCEPT !.pc = "fetch", !.need = Tail(@),
                               !.cur = AddChunk(@, Head(g.need), block)]
                ELSE [@ EXCEPT !.pc = "fetch", !.need = Tail(@),
                               !.map[g.key] = AddChunk(@, Head(g.need), block)]]
        /\ UNCHANGED <<queue, wbuffer, dumper, ctrl, arrived, sent, dumped, lost>>

-----------------------------------------------------------------------------
(* writePacketToMap once the chunks are there: append_packet, the entry of *)
(* the map, and the buffer that is handed to writeFlowtoWBuffer.           *)

WriteOut(g, b, w) ==
    [g EXCEPT !.pc = "put", !.stream = Stream(w, Pieces(b)), !.frees = ChunksOf(b)]

With(map, key, b) == [k \in DOMAIN map \cup {key} |-> IF k = key THEN b ELSE map[k]]

Without(map, key) == [k \in DOMAIN map \ {key} |-> map[k]]

AppendToNew(g, w) ==
    LET h == [g EXCEPT !.map = With(@, g.key, AppendPacket(g.cur, g.packet)),
                       !.fresh = FALSE, !.cur = NewFlowBuffer(FALSE)]
    IN  IF g.key \in DOMAIN g.map THEN WriteOut(h, g.map[g.key], w) ELSE [h EXCEPT !.pc = "loop"]

AppendToOld(g, w) ==
    LET b == AppendPacket(g.map[g.key], g.packet)
    IN  IF IsFinished(b)
        THEN WriteOut([g EXCEPT !.map = Without(@, g.key)], b, w)
        ELSE [g EXCEPT !.map[g.key] = b, !.pc = "loop"]

WritePacketToMap(e) ==
    /\ engine[e].pc = "fetch" /\ engine[e].need = <<>>
    /\ engine' = [engine EXCEPT ![e] = IF @.fresh THEN AppendToNew(@, wbuffer[e])
                                       ELSE AppendToOld(@, wbuffer[e])]
    /\ sent' = [sent EXCEPT ![e] =
                    IF engine'[e].pc # "put" THEN @
                    ELSE @ \o IF engine[e].fresh
                              THEN PacketsOf(engine[e].map[engine[e].key])
                              ELSE Append(PacketsOf(engine[e].map[engine[e].key]),
                                          engine[e].packet.id)]
    /\ UNCHANGED <<queue, pool, wbuffer, dumper, ctrl, arrived, dumped, lost>>

(* The loop ends; the flows that are left are written, in the order of the *)
(* map, and stay in it.                                                    *)
EngineLeave(e) ==
    /\ engine[e].pc = "loop" /\ engine[e].stop
    /\ engine' = [engine EXCEPT ![e].pc = "drain", ![e].quits = TRUE,
                                ![e].left = DOMAIN engine[e].map]
    /\ UNCHANGED <<queue, pool, wbuffer, dumper, ctrl, arrived, sent, dumped, lost>>

EngineDrain(e) ==
    /\ engine[e].pc = "drain"
    /\ \E k \in engine[e].left :
          /\ engine' = [engine EXCEPT ![e] = WriteOut([@ EXCEPT !.left = @ \ {k}], @.map[k], wbuffer[e])]
          /\ sent' = [sent EXCEPT ![e] = @ \o PacketsOf(engine[e].map[k])]
    /\ UNCHANGED <<queue, pool, wbuffer, dumper, ctrl, arrived, dumped, lost>>

EngineEnd(e) ==
    /\ engine[e].pc = "drain" /\ engine[e].left = {}
    /\ engine' = [engine EXCEPT ![e].pc = "end"]
    /\ UNCHANGED <<queue, pool, wbuffer, dumper, ctrl, arrived, sent, dumped, lost>>

-----------------------------------------------------------------------------
(* writeFlowtoWBuffer: WBuffer::put for every column, then the buffer and  *)
(* its chunks are deleted.                                                 *)

PutFill(e) ==
    LET g    == engine[e]
        room == Room(wbuffer[e])
    IN  /\ g.pc = "put" /\ Len(g.stream) >= room
        /\ wbuffer' = [wbuffer EXCEPT ![e] = Copy(@, SubSeq(g.stream, 1, room))]
        /\ engine' = [engine EXCEPT ![e].pc = "full",
                                    ![e].stream = SubSeq(@, room + 1, Len(@))]
        /\ UNCHANGED <<queue, pool, dumper, ctrl, arrived, sent, dumped, lost>>

PutSignal(e) ==
    /\ engine[e].pc = "full" /\ NextIsFree(wbuffer[e])
    /\ wbuffer' = [wbuffer EXCEPT ![e] = Signalled(@)]
    /\ engine' = [engine EXCEPT ![e].pc = "put"]
    /\ UNCHANGED <<queue, pool, dumper, ctrl, arrived, sent, dumped, lost>>

PutRest(e) ==
    /\ engine[e].pc = "put" /\ Len(engine[e].stream) < Room(wbuffer[e])
    /\ wbuffer' = [wbuffer EXCEPT ![e] = CopyRest(@, engine[e].stream)]
    /\ engine' = [engine EXCEPT ![e].pc = "free", ![e].stream = <<>>]
    /\ UNCHANGED <<queue, pool, dumper, ctrl, arrived, sent, dumped, lost>>

FreeFetch(e) ==
    /\ engine[e].pc = "free" /\ engine[e].frees # <<>>
    /\ engine' = [engine EXCEPT ![e].pc = "store", ![e].pos = pool.free]
    /\ pool' = [pool EXCEPT !.free = (@ + 1) % PoolBlocks]
    /\ UNCHANGED <<queue, wbuffer, dumper, ctrl, arrived, sent, dumped, lost>>

(* A block for which the slot is not empty is lost.                        *)
FreeStore(e) ==
    LET g     == engine[e]
        block == Head(g.frees)
        rest  == Tail(g.frees)
        full  == pool.signal[g.pos]
    IN  /\ g.pc = "store"
        /\ pool' = IF full THEN pool
                   ELSE [pool EXCEPT !.blocks[g.pos] = block, !.signal[g.pos] = TRUE]
        /\ lost' = IF full THEN lost \cup {block} ELSE lost
        /\ engine' = [engine EXCEPT ![e].frees = rest,
                        ![e].pc = IF rest # <<>> THEN "free"
                                  ELSE IF g.quits THEN "drain" ELSE "loop"]
        /\ UNCHANGED <<queue, wbuffer, dumper, ctrl, arrived, sent, dumped>>

EngineStep(e) ==
    \/ Receive(e) \/ WritePacketToMap(e) \/ EngineLeave(e)
    \/ EngineDrain(e) \/ EngineEnd(e)
    \/ AllocateFetch(e) \/ AllocateCheck(e) \/ AllocateTake(e)
    \/ PutFill(e) \/ PutSignal(e) \/ PutRest(e) \/ FreeFetch(e) \/ FreeStore(e)

-----------------------------------------------------------------------------
(* Dumper::run                                                             *)

DumperGet(e) ==
    /\ dumper[e].pc = "get" /\ MayGet(wbuffer[e])
    /\ wbuffer' = [wbuffer EXCEPT ![e] = Taken(@)]
    /\ dumper' = [dumper EXCEPT ![e].pc = "dump", ![e].got = wbuffer[e].reading]
    /\ UNCHANGED <<queue, pool, engine, ctrl, arrived, sent, dumped, lost>>

(* The write, and the test of stop at the head of the loop.               *)
Dump(e) ==
    LET d == dumper[e]
    IN  /\ d.pc = "dump"
        /\ dumped' = [dumped EXCEPT ![e] =
                Append(@, [place |-> d.place, units |-> wbuffer[e].buffer[d.got]])]
        /\ dumper' = [dumper EXCEPT ![e].pc = IF d.stop THEN "end" ELSE "get",
                                    ![e].place = (@ + 1) % DiskBlocks]
        /\ UNCHANGED <<queue, pool, engine, wbuffer, ctrl, arrived, sent, lost>>

DumperStep(e) == DumperGet(e) \/ Dump(e)

-----------------------------------------------------------------------------
(* Controller::run: threadsRun, then threadsStop, one flag after the other. *)

GoTo(pc, at) == ctrl' = [pc |-> pc, at |-> at]
NbRx == Max(Engines)

(* Each run() begins with stop = false.  The operator's stop comes after   *)
(* the threads have begun.                                                 *)
ThreadsRun ==
    /\ ctrl.pc = "init"
    /\ engine' = [e \in Engines |-> [engine[e] EXCEPT !.pc = "loop", !.stop = FALSE]]
    /\ dumper' = [e \in Engines |-> [dumper[e] EXCEPT !.pc = "get", !.stop = FALSE]]
    /\ GoTo("run", 1)
    /\ UNCHANGED <<queue, pool, wbuffer, arrived, sent, dumped, lost>>

StopEngine ==
    /\ ctrl.pc = "run"
    /\ engine' = [engine EXCEPT ![ctrl.at].stop = TRUE]
    /\ IF ctrl.at < NbRx THEN GoTo("run", ctrl.at + 1) ELSE GoTo("wait", 1)
    /\ UNCHANGED <<queue, pool, wbuffer, dumper, arrived, sent, dumped, lost>>

EnginesDone == \A e \in Engines : engine[e].pc = "end"

WaitEngines ==
    /\ ctrl.pc = "wait" /\ EnginesDone
    /\ GoTo("dumper", 1)
    /\ UNCHANGED <<queue, pool, engine, wbuffer, dumper, arrived, sent, dumped, lost>>

StopDumper ==
    /\ ctrl.pc = "dumper"
    /\ dumper' = [dumper EXCEPT ![ctrl.at].stop = TRUE]
    /\ GoTo("wbuffer", ctrl.at)
    /\ UNCHANGED <<queue, pool, engine, wbuffer, arrived, sent, dumped, lost>>

StopWBuffer ==
    /\ ctrl.pc = "wbuffer"
    /\ wbuffer' = [wbuffer EXCEPT ![ctrl.at].stop = TRUE]
    /\ IF ctrl.at < NbRx THEN GoTo("dumper", ctrl.at + 1) ELSE GoTo("join", 1)
    /\ UNCHANGED <<queue, pool, engine, dumper, arrived, sent, dumped, lost>>

Join ==
    /\ ctrl.pc = "join" /\ dumper[ctrl.at].pc = "end"
    /\ IF ctrl.at < NbRx THEN GoTo("join", ctrl.at + 1) ELSE GoTo("end", 1)
    /\ UNCHANGED <<queue, pool, engine, wbuffer, dumper, arrived, sent, dumped, lost>>

ControllerStep == ThreadsRun \/ StopEngine \/ WaitEngines \/ StopDumper \/ StopWBuffer \/ Join

Next == ControllerStep \/ \E e \in Engines : EngineStep(e) \/ DumperStep(e)

Spec == Init /\ [][Next]_vars

-----------------------------------------------------------------------------
(* The chunks an engine has: those of the flows in its map, of the buffer  *)
(* it is making and of the one it is giving back.                          *)
LiveFlows(e) == IF engine[e].quits THEN engine[e].left ELSE DOMAIN engine[e].map

Held(e) ==
    FoldSet(LAMBDA k, s : s \o ChunksOf(engine[e].map[k]), <<>>, LiveFlows(e))
        \o ChunksOf(engine[e].cur) \o engine[e].frees

(* Every block of the pool is in one place and one only: in a slot that    *)
(* signals it, in one chunk of one flow buffer of one engine, or lost in a *)
(* refused free.  Engines allocate and free at the same time, without a    *)
(* lock (pointerRingPool.hpp, allocate and free).                          *)
BlocksOwnedOnce ==
    LET free   == {s \in Slots : pool.signal[s]}
        places == FoldSet(LAMBDA e, q : q \o Held(e),
                          FoldSet(LAMBDA s, q : Append(q, pool.blocks[s]), <<>>, free),
                          Engines)
    IN  /\ Len(places) + Cardinality(lost) = PoolBlocks
        /\ ToSet(places) \cup lost = Slots

(* The packets of a connection leave the engine in the order in which they *)
(* came, none missing and none twice, whichever direction they have and    *)
(* however often the flow buffer was replaced, finished or drained; what   *)
(* has not left is in one flow buffer (engine.cpp, writePacketToMap and    *)
(* run).                                                                   *)
FlowsInOrder ==
    \A e \in Engines : engine[e].pc \in {"loop", "drain", "end"} =>
        \A c \in ToSet(arrived[e]) \ {{}} :
            LET Mine(i) == arrived[e][i] = c
                flows == {k \in LiveFlows(e) : {k[1], k[2]} = c}
                live  == FoldSet(LAMBDA k, s : s \o PacketsOf(engine[e].map[k]), <<>>, flows)
            IN  /\ Cardinality(flows) <= 1
                /\ SelectSeq(sent[e], Mine) \o live
                        = SelectSeq([i \in DOMAIN arrived[e] |-> i], Mine)

(* What a dumper wrote is what the block holds in the end: no block is     *)
(* dumped before it is full or after it was filled anew, and the last,     *)
(* partial one only when its engine has returned (wbuffer.hpp, put and     *)
(* get; controller.cpp, threadsStop).  The dumper, which counts blocks     *)
(* without end, does not come past the last one.                           *)
DumpedAsFilled ==
    \A e \in Engines :
        /\ wbuffer[e].reading <= BlockCount
        /\ \A i \in DOMAIN dumped[e] : dumped[e][i].units = wbuffer[e].buffer[i - 1]
=============================================================================
