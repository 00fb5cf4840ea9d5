-------------------------------- MODULE Wiring --------------------------------
(***************************************************************************)
(* What Controller::init makes of its InitData (controller.cpp): the       *)
(* configurations it refuses, the parts of the disks the agents write and  *)
(* read, which agents a manager and which rings a generator gets, and the  *)
(* order in which Controller::run starts and stops the threads.            *)
(***************************************************************************)
EXTENDS Integers, Sequences, FiniteSets

Kinds == {"data", "index"}

(* c[k] for a kind: disk, offset, size, block, managers (disk manager      *)
(* threads), recyclers (memory manager threads), each (agents per          *)
(* manager), cores (length of the kernel core list).  c.index_disk_offset  *)
(* is overwritten when both kinds are on one disk, so an index range below *)
(* the data range is always refused.                                       *)
RangesChecked(c) ==
    c.index.disk = c.data.disk =>
        LET index_disk_offset == c.data.offset
        IN  /\ c.index.offset < c.data.offset =>
                  index_disk_offset + c.index.size <= c.data.offset
            /\ c.index.offset > c.data.offset =>
                  c.data.offset + c.data.size <= c.index.offset
            /\ c.index.offset # c.data.offset

(* Controller::init throws when a disk does not open or a size does not    *)
(* fit, DiskAgent when its own size does not.                              *)
SizeChecked(c, k)      == c[k].size % c[k].block = 0
AgentAccepts(c, k, block) == c[k].size % block = 0

CellSize(c) == c.data.block \div c.nb_rx

QuerierBlock(c, k) == IF k = "data" THEN CellSize(c) ELSE c.disk_read_size

Accepted(c, opens) ==
    /\ {c.data.disk, c.index.disk} \subseteq opens
    /\ RangesChecked(c)
    /\ \A k \in Kinds : /\ SizeChecked(c, k)
                        /\ AgentAccepts(c, k, c[k].block)
                        /\ AgentAccepts(c, k, QuerierBlock(c, k))

(* The bytes of the disk an agent accesses at position pos of its blocks.  *)
(* (asyncWrite lets the position one past the last through as well; the    *)
(* callers take their positions modulo the number of blocks.)              *)
Extent(c, k, block, pos) ==
    {[disk |-> c[k].disk, at |-> c[k].offset + pos * block + i] : i \in 0 .. block - 1}

Positions(c, k, block) == 0 .. c[k].size \div block - 1

-------------------------------------------------------------------------------
Agents(c, k) == 0 .. c[k].each * c[k].managers - 1

(* addAgent: the i-th manager gets c.each agents in a row.  Beyond Agents  *)
(* the code reads past the end of the vector.                              *)
AgentsOf(c, k, i) == {i * c[k].each + j : j \in 0 .. c[k].each - 1}

(* kernel_run gives every agent a core of its kind's list.                 *)
CoresSuffice(c, k) == Cardinality(Agents(c, k)) <= c[k].cores

RingsOf(c, i) == {j \in 0 .. c.nb_rx - 1 : j >= i /\ (j - i) % c.generators = 0}

-------------------------------------------------------------------------------
(* threadsRun and, backwards from the packets to the disks, threadsStop:   *)
(* each kind of thread is told to stop and joined before the next.         *)
ThreadsRun ==
    << "data_memory", "index_memory", "data_disk", "index_disk",
       "persister", "generator", "reader" >>

ThreadsStop ==
    << "reader", "generator", "data_disk", "persister", "index_disk",
       "data_memory", "index_memory" >>

(* Controller::run: nothing is queried before every thread has stopped.    *)
QueryThreadRun == << "query" >>

Run == ThreadsRun \o ThreadsStop \o QueryThreadRun

(* Who hands work to whom: rings and counts, data blocks, index blocks,    *)
(* completed writes.                                                       *)
Feeds ==
    { <<"reader", "generator">>, <<"reader", "data_disk">>,
      <<"generator", "persister">>, <<"data_disk", "persister">>,
      <<"data_disk", "data_memory">>, <<"persister", "index_disk">>,
      <<"index_disk", "index_memory">> }

-------------------------------------------------------------------------------
(* Two ranges of the disks that init accepts never share a byte, and the   *)
(* cells and index pieces the querier reads are all of what was written.   *)
DisksApart(c) ==
    LET Bytes(k, block) == UNION {Extent(c, k, block, p) : p \in Positions(c, k, block)}
    IN  /\ Bytes("data", c.data.block) \cap Bytes("index", c.index.block) = {}
        /\ \A k \in Kinds : Bytes(k, QuerierBlock(c, k)) = Bytes(k, c[k].block)

(* With as many memory managers as disk managers every agent's writes are  *)
(* made by one thread and reaped by one thread.                            *)
AgentsShared(c, k) ==
    /\ \A a \in Agents(c, k) :
            Cardinality({i \in 0 .. c[k].managers - 1 : a \in AgentsOf(c, k, i)}) = 1
    /\ c[k].recyclers = c[k].managers <=>
            \A a \in Agents(c, k) \cup UNION {AgentsOf(c, k, i) : i \in 0 .. c[k].recyclers - 1} :
                /\ a \in Agents(c, k)
                /\ \E i \in 0 .. c[k].recyclers - 1 : a \in AgentsOf(c, k, i)

(* Every index ring has exactly one reader and one generator: it is a      *)
(* single-producer single-consumer ring (PointerRingBuffer).               *)
RingsSingle(c) ==
    \A j \in 0 .. c.nb_rx - 1 :
        Cardinality({i \in 0 .. c.generators - 1 : j \in RingsOf(c, i)}) = 1

(* No packet is captured before every other thread runs, and whoever is fed *)
(* stops after its feeder has returned.                                    *)
At(seq, x) == CHOOSE i \in DOMAIN seq : seq[i] = x
ConsumersOutlive ==
    /\ \A i \in DOMAIN ThreadsStop : At(ThreadsRun, ThreadsStop[i]) <= At(ThreadsRun, "reader")
    /\ \A f \in Feeds : At(ThreadsStop, f[2]) > At(ThreadsStop, f[1])
=============================================================================
