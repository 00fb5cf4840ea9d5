------------------------------- MODULE WBuffer -------------------------------
(***************************************************************************)
(* The write buffer between a flow engine and its dumper in the Flosis     *)
(* baseline (flosis/lib/wbuffer.hpp): blocks that the engine fills one     *)
(* after the other and hands over by a signal.                             *)
(***************************************************************************)
EXTENDS Integers, Sequences, SequencesExt

CONSTANTS
    BlockSize,      \* units in a block
    BlockCount      \* blocks

ASSUME WBufferAssumption == BlockSize \in Nat \ {0} /\ BlockCount \in Nat \ {0, 1}

Blocks == 0 .. BlockCount - 1

NewWBuffer ==
    [buffer  |-> [b \in Blocks |-> [u \in 0 .. BlockSize - 1 |-> 0]],
     signal  |-> [b \in Blocks |-> FALSE],
     writing |-> 0, writePos |-> 0, reading |-> 0, stop |-> FALSE]

(* What put writes from writePos on, chunk after chunk: when a block is    *)
(* full, what is left of the chunk goes to the next block, and is copied   *)
(* from the chunk's start again.                                           *)
Stream(w, pieces) ==
    LET Start(k) == w.writePos
                        + FoldSeq(LAMBDA p, n : n + Len(p), 0, SubSeq(pieces, 1, k - 1))
        Source(k, j) == IF (Start(k) + j) \div BlockSize > Start(k) \div BlockSize
                        THEN (Start(k) + j) % BlockSize ELSE j
    IN  FlattenSeq([k \in DOMAIN pieces |->
                        [j \in DOMAIN pieces[k] |-> pieces[k][Source(k, j - 1) + 1]]])

Room(w) == BlockSize - w.writePos

(* The copy to the block that is being written; the dumper does not look   *)
(* at it before it is signalled.                                           *)
Copy(w, units) ==
    [w EXCEPT !.buffer[w.writing] =
        [u \in 0 .. BlockSize - 1 |->
            IF u \in w.writePos .. w.writePos + Len(units) - 1
            THEN units[u - w.writePos + 1] ELSE @[u]]]

(* Mutant of NextIsFree: the writer does not wait for the dumper.          *)
NextIsTaken(w) == TRUE

(* A full block is signalled once the next one is not signalled.           *)
NextIsFree(w) == ~w.signal[(w.writing + 1) % BlockCount]

Signalled(w) ==
    [w EXCEPT !.signal[w.writing] = TRUE,
              !.writing = (@ + 1) % BlockCount,
              !.writePos = 0]

CopyRest(w, units) == [Copy(w, units) EXCEPT !.writePos = @ + Len(units)]

(* get returns the block, signalled or, after the stop, as it is.  The     *)
(* block that is read next is counted on past the last one.                *)
MayGet(w)  == w.signal[w.reading] \/ w.stop
Taken(w)   == [w EXCEPT !.reading = @ + 1]
=============================================================================
