--------------------------- MODULE PointerRingBuffer ---------------------------
(***************************************************************************)
(* The ring that carries indexes from one capture thread to one index      *)
(* generator (dpdk_lib/singleRingBuffer.hpp, class PointerRingBuffer).     *)
(* There is no lock: put and get are modelled by the accesses to the       *)
(* shared fields they make, in the order of the program, which the         *)
(* compiler keeps for get because readPos is atomic and, on x86, for the   *)
(* plain stores of put as well.                                            *)
(***************************************************************************)
EXTENDS Integers, Sequences

CONSTANTS
    M,          \* capacity_ >> 3
    Indexes,    \* the Index objects the capture thread allocates
    Null,       \* nullptr
    MaxPuts,    \* bound: how many indexes are put
    Stream      \* the indexes in the order they are put, from number 0

(* capacity_ is a power of two; the ring divides by capacity_ >> 3, so it  *)
(* works from 8 entries up.                                                *)
ASSUME RingAssumption ==
    /\ M \in Nat \ {0} /\ MaxPuts \in Nat /\ Null \notin Indexes
    /\ Stream \in [0 .. (MaxPuts - 1) -> Indexes]

VARIABLES
    pointers,   \* the entries
    writePos, readPos,   \* how many indexes were put and got
    ppc,        \* where put is: "out", "wait", "store" or "advance"
    data,       \* put's argument
    gpc,        \* where get is: "out", "read" or "advance"
    fetched,    \* get's local data
    result      \* what get returned last

putVars == <<ppc, data>>
getVars == <<gpc, fetched, result>>
vars == <<pointers, writePos, readPos, putVars, getVars>>

Capacity == 8 * M
Entries  == 0 .. (Capacity - 1)

(* Mutant of Spread: the column is taken from the low bits as well.        *)
SpreadLow(pos) == (pos % M) * 8 + (pos % 8)

(* Neighbouring positions lie a cache line apart: the entries are read     *)
(* column by column of a table with 8 columns.                             *)
Spread(pos) == (pos % M) * 8 + pos \div M

RealPos(p) == Spread(p % Capacity)

Init ==
    /\ pointers = [e \in Entries |-> Null]
    /\ writePos = 0 /\ readPos = 0
    /\ ppc = "out" /\ data = Null
    /\ gpc = "out" /\ fetched = Null /\ result = Null

-----------------------------------------------------------------------------
(* put(data)                                                               *)

PutCalled ==
    /\ ppc = "out" /\ writePos < MaxPuts
    /\ ppc' = "wait"
    /\ data' = Stream[writePos]
    /\ UNCHANGED <<pointers, writePos, readPos, getVars>>

(* Mutant of Full: no entry is left free.                                  *)
FullAtCapacity == writePos = Capacity + readPos

(* One entry is always left free: writePos = readPos means empty.          *)
Full == writePos = Capacity - 1 + readPos

PutWaits ==
    /\ ppc = "wait" /\ ~Full
    /\ ppc' = "store"
    /\ UNCHANGED <<pointers, writePos, readPos, data, getVars>>

PutStores ==
    /\ ppc = "store"
    /\ pointers' = [pointers EXCEPT ![RealPos(writePos)] = data]
    /\ ppc' = "advance"
    /\ UNCHANGED <<writePos, readPos, data, getVars>>

PutAdvances ==
    /\ ppc = "advance"
    /\ writePos' = writePos + 1
    /\ ppc' = "out"
    /\ UNCHANGED <<pointers, readPos, data, getVars>>

-----------------------------------------------------------------------------
(* get()                                                                   *)

GetFindsNone ==
    /\ gpc = "out" /\ writePos = readPos
    /\ result' = Null
    /\ UNCHANGED <<pointers, writePos, readPos, putVars, gpc, fetched>>

GetFindsOne ==
    /\ gpc = "out" /\ writePos # readPos
    /\ gpc' = "read"
    /\ UNCHANGED <<pointers, writePos, readPos, putVars, fetched, result>>

GetReads ==
    /\ gpc = "read"
    /\ fetched' = pointers[RealPos(readPos)]
    /\ gpc' = "advance"
    /\ UNCHANGED <<pointers, writePos, readPos, putVars, result>>

(* Mutant of GetAdvances: the index is returned and not given up.          *)
GetPeeks ==
    /\ gpc = "advance"
    /\ result' = fetched
    /\ gpc' = "out"
    /\ UNCHANGED <<pointers, writePos, readPos, putVars, fetched>>

GetAdvances ==
    /\ gpc = "advance"
    /\ readPos' = readPos + 1
    /\ result' = fetched
    /\ gpc' = "out"
    /\ UNCHANGED <<pointers, writePos, putVars, fetched>>

-----------------------------------------------------------------------------
Put == PutCalled \/ PutWaits \/ PutStores \/ PutAdvances
Get == GetFindsNone \/ GetFindsOne \/ GetReads \/ GetAdvances

Next == Put \/ Get

Spec == Init /\ [][Next]_vars

(* Both threads keep running; IndexGenerator::run calls get for ever.      *)
FairSpec == Spec /\ WF_vars(Put) /\ WF_vars(Get)

-----------------------------------------------------------------------------
TypeOK ==
    /\ pointers \in [Entries -> Indexes \cup {Null}]
    /\ writePos \in Nat /\ readPos \in Nat
    /\ ppc \in {"out", "wait", "store", "advance"}
    /\ data \in Indexes \cup {Null}
    /\ gpc \in {"out", "read", "advance"}
    /\ fetched \in Indexes \cup {Null}
    /\ result \in Indexes \cup {Null}

(* The indexes in the ring, oldest first.                                  *)
Content == [i \in 1 .. (writePos - readPos) |-> pointers[RealPos(readPos + i - 1)]]

(* What the interleavings of put and get preserve: the ring never holds    *)
(* more than it has entries for, a put that has stopped waiting still has  *)
(* room, the entry it stored is not overwritten before it is published,    *)
(* and get holds the oldest index while it is not given up.                *)
RingInv ==
    /\ TypeOK
    /\ writePos - readPos \in 0 .. (Capacity - 1)
    /\ ppc \in {"store", "advance"} => ~Full
    /\ ppc # "out" => data \in Indexes
    /\ ppc = "advance" => pointers[RealPos(writePos)] = data
    /\ gpc # "out" => writePos > readPos
    /\ gpc = "advance" => fetched = pointers[RealPos(readPos)]

Queue == INSTANCE IndexQueue WITH queue <- Content, Limit <- Capacity - 1

(* The ring implements the queue: put takes effect when writePos moves,    *)
(* get when readPos moves; no index is lost, duplicated or reordered.      *)
IsQueue == Queue!Spec

(* Every put returns while the generator keeps getting.                    *)
PutReturns == ppc = "wait" ~> ppc = "out"
=============================================================================
