------------------------------ MODULE IndexQueue ------------------------------
(***************************************************************************)
(* What a PointerRingBuffer promises the capture thread that puts indexes  *)
(* in it and the index generator that gets them: a bounded queue, first in *)
(* first out, in which put waits when it is full and get returns a null    *)
(* pointer only when it is empty.                                          *)
(***************************************************************************)
EXTENDS Naturals, Sequences

CONSTANTS
    Indexes,    \* the Index objects that are put
    Null,       \* what get returns for an empty ring
    Limit       \* how many indexes the queue holds

VARIABLES
    queue,      \* the indexes put and not yet got
    result      \* what the last get returned

vars == <<queue, result>>

Init == queue = <<>> /\ result = Null

Enqueue(x) ==
    /\ Len(queue) < Limit
    /\ queue' = Append(queue, x)
    /\ UNCHANGED result

Dequeue ==
    /\ queue # <<>>
    /\ result' = Head(queue)
    /\ queue' = Tail(queue)

FindEmpty ==
    /\ queue = <<>>
    /\ result' = Null
    /\ UNCHANGED queue

Next == (\E x \in Indexes : Enqueue(x)) \/ Dequeue \/ FindEmpty

Spec == Init /\ [][Next]_vars
=============================================================================
