------------------------------ MODULE ZOrderTree ------------------------------
(***************************************************************************)
(* zOrderTree.hpp: an index over the four-tuples of flows.  The source and *)
(* the destination of a flow are the two coordinates of a point; their     *)
(* bits are interleaved into a z-order value kept in three words (low for  *)
(* the ports, mid and high for the addresses), and a tree with one level   *)
(* per digit of the value is built bottom-up over the sorted values.       *)
(***************************************************************************)
EXTENDS Integers, Sequences, FiniteSetsExt, SequencesExt

CONSTANT W      \* digits of a word: 8 (32 bits, 4 bits a digit) in the code

Base    == 16               \* BIT_COUNT: PREFIX_LEN = 2 bits per coordinate
Digits  == 0 .. Base - 1
Levels  == 3 * W            \* sizeof(ZOrderIPv4) * 8 / PREFIX_TOTAL_LEN
Word    == Base ^ W

Bit(x, i) == (x \div 2 ^ i) % 2

InterleaveBits(x, bits) == MapThenSumSet(LAMBDA i : Bit(x, i) * 4 ^ i, 0 .. bits - 1)

ComputeZOrder(x, y, bits) == 2 * InterleaveBits(x, bits) + InterleaveBits(y, bits)

(* A port has 2 * W bits and an address 4 * W.                             *)
ZOrder(index) ==
    LET tmp == ComputeZOrder(index.srcip, index.dstip, 4 * W)
    IN  << ComputeZOrder(index.srcport, index.dstport, 2 * W),
           tmp % Word, tmp \div Word >>

GetSuffix(z, id) ==
    IF id >= Levels THEN 0
    ELSE (z[id \div W + 1] \div Base ^ (id % W)) % Base

(* The words above are the same and the xor is less than the digit's mask. *)
PrefixCompare(z, other, id) ==
    id < Levels =>
        LET w == id \div W + 1
        IN  /\ \A v \in w + 1 .. 3 : z[v] = other[v]
            /\ z[w] \div Base ^ (id % W) = other[w] \div Base ^ (id % W)

(* operator< *)
Before(z, other) ==
    \/ z[3] < other[3]
    \/ z[3] = other[3] /\ z[2] < other[2]
    \/ z[3] = other[3] /\ z[2] = other[2] /\ z[1] < other[1]

(* Offsets are one more than a position: 0 says there is no child.         *)
NewNode(prefix, child) ==
    [prefix |-> prefix,
     offsets |-> [d \in Digits |-> IF d = child.digit THEN child.offset ELSE 0]]

(* A child goes to the last node of the level while it has the prefix of   *)
(* the value that node was made for (left), and to a new node otherwise.   *)
AddChild(data, level, s, child) ==
    IF s.left # <<>> /\ PrefixCompare(data[child.at], data[Last(s.left)], level)
    THEN [s EXCEPT !.nodes[Len(s.nodes)].offsets[child.digit] = child.offset]
    ELSE [nodes |-> Append(s.nodes, NewNode(GetSuffix(data[child.at], level), child)),
          left  |-> Append(s.left, child.at)]

BuildLevel(data, level, children) ==
    FoldLeft(LAMBDA s, child : AddChild(data, level, s, child),
             [nodes |-> <<>>, left |-> <<>>], children)

RECURSIVE BuildTreeLevel(_, _, _, _, _)
BuildTreeLevel(data, buffer, left, begin, level) ==
    IF level > Levels \/ left = <<>>
    THEN [buffer |-> buffer, max_level |-> level - 1]
    ELSE LET s == BuildLevel(data, level,
                    [i \in DOMAIN left |->
                        [at |-> left[i], digit |-> buffer[begin + i].prefix,
                         offset |-> begin + i]])
         IN  BuildTreeLevel(data, buffer \o s.nodes, s.left, Len(buffer), level + 1)

BuildTree(data) ==
    LET s == BuildLevel(data, 1,
               [i \in DOMAIN data |->
                   [at |-> i, digit |-> GetSuffix(data[i], 0), offset |-> i]])
    IN  BuildTreeLevel(data, s.nodes, s.left, 0, 2)

GetPrefix(level, value) == (value \div 4 ^ level) % 4

DecodeX(digit) == Bit(digit, 1) + 2 * Bit(digit, 3)
DecodeY(digit) == Bit(digit, 0) + 2 * Bit(digit, 2)

(* Of each coordinate, the level's two bits lie between those of the board. *)
IsInRectangle(digit, level, board) ==
    /\ DecodeX(digit) \in GetPrefix(level, board.xmin) .. GetPrefix(level, board.xmax)
    /\ DecodeY(digit) \in GetPrefix(level, board.ymin) .. GetPrefix(level, board.ymax)

RECURSIVE SearchNode(_, _, _, _)
SearchNode(buffer, node, level, board) ==
    LET hits == {node.offsets[d] : d \in {d \in Digits :
                    node.offsets[d] # 0 /\ IsInRectangle(d, level, board)}}
    IN  IF level = 0 THEN hits
        ELSE UNION {SearchNode(buffer, buffer[o], level - 1, board) : o \in hits}

(* The positions found, counted from 1.                                    *)
Search(tree, board) ==
    IF tree.buffer = <<>> THEN {}
    ELSE SearchNode(tree.buffer, Last(tree.buffer), tree.max_level - 1, board)

-------------------------------------------------------------------------------
(* The promise of the tree, on the points themselves.                      *)
X(index) == index.srcip * 4 ^ W + index.srcport
Y(index) == index.dstip * 4 ^ W + index.dstport
Top == 4 ^ Levels - 1

Within(index, board) ==
    /\ X(index) \in board.xmin .. board.xmax
    /\ Y(index) \in board.ymin .. board.ymax

(* Of equal points a leaf keeps the last: the offsets are overwritten.     *)
LastOfEqual(points, i) == \A j \in i + 1 .. Len(points) : points[j] # points[i]

SortedPoints(points) ==
    \A i \in 1 .. Len(points) - 1 : ~Before(ZOrder(points[i + 1]), ZOrder(points[i]))

Found(points, board) ==
    Search(BuildTree([i \in DOMAIN points |-> ZOrder(points[i])]), board)

(* Whatever the board, only positions of points on it are found, each the  *)
(* last of its equals.                                                     *)
SearchSound(points, board) ==
    \A i \in Found(points, board) : Within(points[i], board) /\ LastOfEqual(points, i)

(* A board that fixes a coordinate or leaves it open is searched in full.  *)
(* (Other ranges are not: the bits of each level are compared on their     *)
(* own, so nothing between 1 and 4, 01 and 10 in base 4, is found.)        *)
SearchComplete(points, board) ==
    {i \in DOMAIN points : Within(points[i], board) /\ LastOfEqual(points, i)}
        \subseteq Found(points, board)
=============================================================================
