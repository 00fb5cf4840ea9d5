------------------------------ MODULE MCSkipList ------------------------------
(***************************************************************************)
(* The skip list for TLC, and the z-order tree, a pure algorithm, against  *)
(* its promise over all short sorted lists of these points, duplicates     *)
(* included.  One digit a word: a value has three digits, one per word, so *)
(* the comparisons cross every word boundary.                              *)
(***************************************************************************)
EXTENDS SkipList

Z == INSTANCE ZOrderTree WITH W <- 1

Point(sip, dip, sport, dport) ==
    [srcip |-> sip, dstip |-> dip, srcport |-> sport, dstport |-> dport]

TreePoints == {Point(0, 0, 0, 0), Point(0, 0, 3, 1), Point(0, 0, 3, 2),
               Point(1, 4, 3, 1), Point(9, 4, 0, 2), Point(15, 15, 3, 3)}

PointLists == {ps \in UNION {[1 .. n -> TreePoints] : n \in 0 .. 3} : Z!SortedPoints(ps)}

Board(x1, x2, y1, y2) == [xmin |-> x1, xmax |-> x2, ymin |-> y1, ymax |-> y2]

OpenBoards == UNION {{Board(Z!X(p), Z!X(p), Z!Y(q), Z!Y(q)), Board(Z!X(p), Z!X(p), 0, Z!Top),
                      Board(0, Z!Top, Z!Y(q), Z!Y(q)), Board(0, Z!Top, 0, Z!Top)}
                        : p, q \in TreePoints}

RangeBoards == {Board(Z!X(p), Z!X(q), Z!Y(p), Z!Y(q)) : p, q \in TreePoints}

ASSUME TreeSearchSound ==
    \A ps \in PointLists, b \in OpenBoards \cup RangeBoards : Z!SearchSound(ps, b)

ASSUME TreeSearchComplete ==
    \A ps \in PointLists, b \in OpenBoards : Z!SearchComplete(ps, b)
=============================================================================
