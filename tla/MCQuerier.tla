------------------------------ MODULE MCQuerier ------------------------------
EXTENDS Querier

MCHash(prefix, i) == (3 * prefix[Len(prefix)] + prefix[1] + i) % BloomLen

MCFlows == {[v |-> 4, ip |-> 5, port |-> 1], [v |-> 4, ip |-> 6, port |-> 1],
            [v |-> 6, ip |-> 5, port |-> 2]}

MCWords == {Token("(", "("), Token(")", ")"), Token("con", "&&"), Token("con", "||"),
            Token("op", "=="), Token("op", ">"), Token("var", "srcip"), Token("var", "dstport"),
            Token("var", "name"), Value(5), Value(1), Masked(1)}

(* Lists over a few pointers, on which join and intersect are compared     *)
(* with the union and the intersection of sets; neither makes a pointer    *)
(* more frequent.                                                          *)
Lists == UNION {[1 .. n -> 0 .. 2] : n \in 0 .. 3}
Elements(list) == {list[i] : i \in DOMAIN list}
ASSUME MergesAreSetOperations ==
    \A la, lb \in Lists :
        /\ Elements(Intersect(la, lb)) = Elements(la) \cap Elements(lb)
        /\ Elements(Join(la, lb)) = Elements(la) \cup Elements(lb)
        /\ Len(Intersect(la, lb)) <= Len(la)
=============================================================================
