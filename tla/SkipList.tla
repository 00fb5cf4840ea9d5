------------------------------- MODULE SkipList -------------------------------
(***************************************************************************)
(* The skip list of one type of index (skipList.hpp): threads insert nodes *)
(* with a lock on one node at a time, others search without any lock, and  *)
(* when all is inserted a persister writes the nodes out and empties the   *)
(* list.  Node 0 is the head.  Keys are compared as numbers whatever their *)
(* length; a node's number is its value.                                   *)
(***************************************************************************)
EXTENDS Integers, Sequences, FiniteSets

CONSTANTS
    Inserters, Finders,  \* threads
    Keys,                \* the keys, numbers above 0
    maxLevel,            \* levels of the list
    MaxNodes             \* bound: nodes inserted, over all rounds

ASSUME SkipListAssumption ==
    /\ Keys \subseteq Nat \ {0} /\ maxLevel \in Nat \ {0} /\ MaxNodes \in Nat
    /\ Inserters \cap Finders = {}

Threads == Inserters \cup Finders
Levels  == 0 .. maxLevel - 1
NodeIds == 0 .. MaxNodes
Head0   == 0
Null    == -1

VARIABLES
    nodes,      \* the nodes made: [key, level]
    nexts,      \* node -> level -> the node after it (next)
    locked,     \* the nodes whose lock is held
    now_level, nodeNum,
    thread,     \* thread -> where it is, and its local variables
    inserted    \* history: the nodes whose insert has returned

vars == <<nodes, nexts, locked, now_level, nodeNum, thread, inserted>>

(* begin and end: the range looked for, the key inserted; since, history:  *)
(* what was inserted when a search began.                                  *)
Idle == [pc |-> "idle", begin |-> 0, end |-> 0, newNode |-> Null, curr |-> Head0, i |-> 0,
         update |-> [l \in Levels |-> Null], curLevel |-> 0, res |-> <<>>, since |-> {}]

Init ==
    /\ nodes = <<>>
    /\ nexts = [n \in NodeIds |-> [l \in Levels |-> Null]]
    /\ locked = {} /\ now_level = 0 /\ nodeNum = 0
    /\ thread = [t \in Threads |-> Idle]
    /\ inserted = {}

At(t, pc) == thread[t].pc = pc
Goto(t, pc) == thread' = [thread EXCEPT ![t].pc = pc]

GetNext(n, l) == nexts[n][l]
PutNext(n, l, m) == [nexts EXCEPT ![n][l] = m]
GetKey(n) == nodes[n].key
GetValue(n) == n

(* The test of the loops: the node exists and its key is smaller.          *)
CompareNodeKey(n, k) == n # Null /\ GetKey(n) < k

-----------------------------------------------------------------------------
(* insert                                                                  *)

NewNode(k, l) == [key |-> k, level |-> l]

(* Any level is possible.                                                  *)
RandomLevel == 1 .. maxLevel

(* The node is counted and made, with a random level, and the search       *)
(* starts at the higher one of its level and the list's.                   *)
StartInsert(t, k, l) ==
    /\ At(t, "idle") /\ Len(nodes) < MaxNodes
    /\ nodeNum' = nodeNum + 1
    /\ nodes' = Append(nodes, NewNode(k, l))
    /\ thread' = [thread EXCEPT ![t] =
                    [Idle EXCEPT !.pc = "search", !.begin = k, !.newNode = Len(nodes) + 1,
                                 !.i = (IF now_level > l THEN now_level ELSE l) - 1]]
    /\ UNCHANGED <<nexts, locked, now_level, inserted>>

(* A round of the loops that go down the levels, for both kinds of         *)
(* threads; the pointer is read again when curr moves on.                  *)
Search(t) ==
    /\ At(t, "search") /\ thread[t].i >= 0
    /\ LET me == thread[t] IN
         IF CompareNodeKey(GetNext(me.curr, me.i), me.begin) THEN Goto(t, "advance")
         ELSE thread' = [thread EXCEPT ![t].update[me.i] = me.curr, ![t].i = @ - 1]
    /\ UNCHANGED <<nodes, nexts, locked, now_level, nodeNum, inserted>>

Advance(t) ==
    /\ At(t, "advance")
    /\ thread' = [thread EXCEPT ![t].pc = "search", ![t].curr = GetNext(@, thread[t].i)]
    /\ UNCHANGED <<nodes, nexts, locked, now_level, nodeNum, inserted>>

(* Where inserter t is to put its node: behind this one.                   *)
Before(t) == thread[t].update[thread[t].i]
After(t)  == GetNext(Before(t), thread[t].i)

Searched(t) == At(t, "search") /\ thread[t].i < 0

(* SpinLock: one node is locked at a time, from the lowest level on.       *)
LockNode(t) ==
    /\ \/ Searched(t) /\ thread[t].update[0] \notin locked
          /\ thread' = [thread EXCEPT ![t].pc = "check", ![t].i = 0]
          /\ locked' = locked \cup {thread[t].update[0]}
       \/ /\ At(t, "lock") /\ Before(t) \notin locked
          /\ Goto(t, "check")
          /\ locked' = locked \cup {Before(t)}
    /\ UNCHANGED <<nodes, nexts, now_level, nodeNum, inserted>>

UnlockNode(n) == locked \ {n}

(* Mutant of CheckNext: nobody else can have inserted a node meanwhile.    *)
CheckNextNever(t) ==
    /\ At(t, "check")
    /\ Goto(t, "link")
    /\ nexts' = PutNext(thread[t].newNode, thread[t].i, After(t))
    /\ UNCHANGED <<nodes, locked, now_level, nodeNum, inserted>>

(* With the lock: a smaller node was inserted meanwhile, and the search    *)
(* goes on behind it; else the new node points to what comes next.         *)
CheckNext(t) ==
    /\ At(t, "check")
    /\ IF CompareNodeKey(After(t), thread[t].begin)
       THEN Goto(t, "follow") /\ locked' = UnlockNode(Before(t)) /\ UNCHANGED nexts
       ELSE /\ Goto(t, "link") /\ UNCHANGED locked
            /\ nexts' = PutNext(thread[t].newNode, thread[t].i, After(t))
    /\ UNCHANGED <<nodes, now_level, nodeNum, inserted>>

(* The next node is read after the lock is released.                       *)
Follow(t) ==
    /\ At(t, "follow")
    /\ thread' = [thread EXCEPT ![t].pc = "lock", ![t].update[thread[t].i] = After(t)]
    /\ UNCHANGED <<nodes, nexts, locked, now_level, nodeNum, inserted>>

LevelOf(t) == nodes[thread[t].newNode].level

LinkNode(t) ==
    /\ At(t, "link")
    /\ nexts' = PutNext(Before(t), thread[t].i, thread[t].newNode)
    /\ locked' = UnlockNode(Before(t))
    /\ thread' = IF thread[t].i + 1 < LevelOf(t)
                 THEN [thread EXCEPT ![t].pc = "lock", ![t].i = @ + 1]
                 ELSE [thread EXCEPT ![t].pc = "level"]
    /\ UNCHANGED <<nodes, now_level, nodeNum, inserted>>

InsertReturns(t) ==
    /\ thread' = [thread EXCEPT ![t] = Idle]
    /\ inserted' = inserted \cup {thread[t].newNode}

(* The level of the list is raised with compare and exchange.              *)
LoadLevel(t) ==
    /\ At(t, "level")
    /\ IF now_level < LevelOf(t)
       THEN /\ thread' = [thread EXCEPT ![t].pc = "raise", ![t].curLevel = now_level]
            /\ UNCHANGED inserted
       ELSE InsertReturns(t)
    /\ UNCHANGED <<nodes, nexts, locked, now_level, nodeNum>>

(* Mutant of RaiseLevel: the level is stored whatever it is meanwhile.     *)
RaiseLevelAlways(t) ==
    /\ At(t, "raise")
    /\ now_level' = LevelOf(t) /\ InsertReturns(t)
    /\ UNCHANGED <<nodes, nexts, locked, nodeNum>>

RaiseLevel(t) ==
    /\ At(t, "raise")
    /\ IF now_level = thread[t].curLevel
       THEN now_level' = LevelOf(t) /\ InsertReturns(t)
       ELSE Goto(t, "level") /\ UNCHANGED <<now_level, inserted>>
    /\ UNCHANGED <<nodes, nexts, locked, nodeNum>>

-----------------------------------------------------------------------------
(* findByRange finds the keys from begin up to, not including, end;        *)
(* findByKey is the range of one key.                                      *)
StartFind(t, begin, end) ==
    /\ At(t, "idle")
    /\ thread' = [thread EXCEPT ![t] =
                    [Idle EXCEPT !.pc = "search", !.begin = begin, !.end = end,
                                 !.i = now_level - 1, !.since = inserted]]
    /\ UNCHANGED <<nodes, nexts, locked, now_level, nodeNum, inserted>>

(* Mutant of Scan: a smaller node ends the scan.                           *)
ScanStrictly(t) ==
    /\ Searched(t)
    /\ LET me == thread[t]
           n  == GetNext(me.curr, 0)
       IN  IF n = Null \/ GetKey(n) >= me.end \/ GetKey(n) < me.begin THEN Goto(t, "found")
           ELSE thread' = [thread EXCEPT ![t].curr = n, ![t].res = Append(@, GetValue(n))]
    /\ UNCHANGED <<nodes, nexts, locked, now_level, nodeNum, inserted>>

(* Along the lowest level: nodes that are smaller were inserted meanwhile  *)
(* and are passed over.                                                    *)
Scan(t) ==
    /\ Searched(t)
    /\ LET me == thread[t]
           n  == GetNext(me.curr, 0)
       IN  IF n = Null \/ (GetKey(n) >= me.begin /\ GetKey(n) >= me.end) THEN Goto(t, "found")
           ELSE thread' = [thread EXCEPT ![t].curr = n,
                                         ![t].res = IF GetKey(n) < me.begin THEN @
                                                    ELSE Append(@, GetValue(n))]
    /\ UNCHANGED <<nodes, nexts, locked, now_level, nodeNum, inserted>>

FindReturns(t) ==
    /\ At(t, "found")
    /\ thread' = [thread EXCEPT ![t] = Idle]
    /\ UNCHANGED <<nodes, nexts, locked, now_level, nodeNum, inserted>>

-----------------------------------------------------------------------------
(* The nodes of a level in their order: after each the one its pointer     *)
(* names, from the head on.                                                *)
Last(s) == IF s = <<>> THEN Head0 ELSE s[Len(s)]
Follower(s, l) ==
    IF GetNext(Last(s), l) = Null THEN s ELSE Append(s, GetNext(Last(s), l))

Chain(l) ==
    LET first[j \in NodeIds] == IF j = 0 THEN <<>> ELSE Follower(first[j - 1], l)
    IN  first[MaxNodes]

(* Mutant of WriteNode: the last node is not written.                      *)
WriteNodeButLast == SubSeq(Chain(0), 1, Len(Chain(0)) - 1)

(* What writeNode writes to the index block buffer.                        *)
WriteNode == [j \in DOMAIN Chain(0) |-> GetValue(Chain(0)[j])]

ClearHead == [nexts EXCEPT ![Head0] = [l \in Levels |-> Null]]

(* A block's list is written out (WriteNode, which deletes the nodes) and  *)
(* clear empties the head, while no other thread is in the list; now_level *)
(* stays as it is.                                                         *)
WriteAndClear ==
    /\ \A t \in Threads : At(t, "idle")
    /\ nodeNum > 0
    /\ nexts' = ClearHead
    /\ nodeNum' = 0
    /\ inserted' = {}
    /\ UNCHANGED <<nodes, locked, now_level, thread>>

Inserter(t) ==
    \/ \E k \in Keys, l \in RandomLevel : StartInsert(t, k, l)
    \/ Search(t) \/ Advance(t) \/ LockNode(t) \/ CheckNext(t) \/ Follow(t)
    \/ LinkNode(t) \/ LoadLevel(t) \/ RaiseLevel(t)

Finder(t) ==
    \/ \E begin \in Keys, end \in {k + 1 : k \in Keys} : begin < end /\ StartFind(t, begin, end)
    \/ Search(t) \/ Advance(t) \/ Scan(t) \/ FindReturns(t)

Next == \/ \E t \in Inserters : Inserter(t)
        \/ \E t \in Finders : Finder(t)
        \/ WriteAndClear

Spec == Init /\ [][Next]_vars

-----------------------------------------------------------------------------
(* Properties                                                              *)

Elements(s) == {s[j] : j \in DOMAIN s}
InOrder(s) == \A a, b \in DOMAIN s : a < b => GetKey(s[a]) <= GetKey(s[b])

(* Whatever inserts are under way, and at every moment a finder may look:  *)
(* each level is in order and ends, and a node is on the level below       *)
(* before it is on a level.                                                *)
LevelsInOrder ==
    \A l \in Levels :
        /\ InOrder(Chain(l)) /\ Cardinality(Elements(Chain(l))) = Len(Chain(l))
        /\ l > 0 => Elements(Chain(l)) \subseteq Elements(Chain(l - 1))

(* No insert is lost: a node whose insert has returned is on all its       *)
(* levels, the list has its level, and nodeNum counts the nodes when no    *)
(* insert is under way.                                                    *)
InsertsKept ==
    /\ \A n \in inserted :
         /\ \A l \in 0 .. nodes[n].level - 1 : n \in Elements(Chain(l))
         /\ now_level >= nodes[n].level
    /\ (\A t \in Inserters : At(t, "idle")) => nodeNum = Cardinality(inserted)

(* A search finds, in order and once, what is in its range: everything     *)
(* inserted before it began, and nothing that was never inserted, whatever *)
(* is inserted meanwhile.                                                  *)
FindComplete ==
    \A t \in Finders : At(t, "found") =>
        LET me == thread[t]
            found == Elements(me.res)
            InRange(n) == me.begin <= GetKey(n) /\ GetKey(n) < me.end
        IN  /\ InOrder(me.res) /\ Cardinality(found) = Len(me.res)
            /\ {n \in me.since : InRange(n)} \subseteq found
            /\ \A n \in found : InRange(n)

(* writeNode writes every inserted node, in order, and once.               *)
AllWritten ==
    [][WriteAndClear => Elements(WriteNode) = inserted /\ InOrder(WriteNode)]_vars
=============================================================================
