--------------------------- MODULE QueryExpression ---------------------------
(***************************************************************************)
(* The expressions of a query (querier.cpp): the two checks of its grammar *)
(* and the lists that its search combines.  An expression is a sequence of *)
(* tokens, as splitExpression makes it of a line; a token has the kind     *)
(* that grammarVerify finds by its tests, a text, and the number stoul     *)
(* and inet_aton make of it, -1 if they refuse it.                         *)
(***************************************************************************)
EXTENDS Integers, Sequences, SequencesExt

Token(kind, text) == [kind |-> kind, text |-> text, num |-> -1]
Value(n)          == [kind |-> "value", text |-> "number", num |-> n]
Masked(n)         == [kind |-> "value", text |-> "masked", num |-> n]

(* Of the texts only the ones of columns, "==", "&&", "||" and of an       *)
(* address with a mask make a difference later.                            *)
AllKinds == {"!", "(", "{", "[", ")", "}", "]", "op", "con", "in", ",", "slice", "var", "value"}

-----------------------------------------------------------------------------
(* grammarVerify                                                           *)

LastTypes == {"EMPTY", "VAR", "OP", "CON", "EXP", "BRACKET", "SQUARE_BRACKET",
              "SLICE", "IN", "BRACE", "VALUE", "COMMA"}

(* The kinds of tokens that must come after one of some types.             *)
MayFollow(kind) ==
    CASE kind \in {"!", "(", "var"}  -> {"EMPTY", "CON", "BRACKET"}
      [] kind = "{"                  -> {"IN"}
      [] kind \in {"[", "op", "in"}  -> {"VAR"}
      [] kind = "con"                -> {"VAR", "EXP"}
      [] kind = ","                  -> {"VALUE"}
      [] kind = "slice"              -> {"SQUARE_BRACKET"}
      [] kind = "value"              -> {"OP", "BRACE", "COMMA"}
      [] kind = ")"                  -> {"EXP", "BRACKET"}
      [] kind = "}"                  -> {"VALUE"}
      [] kind = "]"                  -> {"SLICE"}

NewLastType(kind, last) ==
    CASE kind \in {"!", "con"} -> "CON"
      [] kind = "("            -> "BRACKET"
      [] kind = "{"            -> "BRACE"
      [] kind = "["            -> "SQUARE_BRACKET"
      [] kind \in {")", "}"}   -> "EXP"
      [] kind \in {"]", "var"} -> "VAR"
      [] kind = "op"           -> "OP"
      [] kind = "in"           -> "IN"
      [] kind = ","            -> "COMMA"
      [] kind = "slice"        -> "SLICE"
      [] kind = "value"        -> IF last = "OP" THEN "EXP" ELSE "VALUE"

Closing == {")", "}", "]"}

(* A closing token is accepted after one of its types or when the last     *)
(* open bracket is a round one; top() of an empty stack is undefined.      *)
Undefined(kind, brackets) == kind \in Closing /\ brackets = <<>>

Accepts(kind, last, brackets) ==
    \/ last \in MayFollow(kind)
    \/ kind \in Closing /\ brackets # <<>> /\ Last(brackets) = "("

NewBrackets(kind, brackets) ==
    IF kind \in {"(", "{", "["} THEN Append(brackets, kind)
    ELSE IF kind \in Closing THEN Front(brackets) ELSE brackets

(* Mutant of VerifiedToEnd: brackets may stay open.                        *)
VerifiedAnyway(brackets) == TRUE

VerifiedToEnd(brackets) == brackets = <<>>

-----------------------------------------------------------------------------
(* grammarVerifySimply: a variable, ==, a value; and ( ) && || between.    *)
(* A word that grammarVerify takes for an operator may be a variable here. *)
SimpleKind(t) ==
    IF t.kind \in {"var", "in"} \/ t.text = "contains" THEN "var"
    ELSE IF t.text = "==" THEN "equals"
    ELSE IF t.kind = "value" THEN "value"
    ELSE IF t.kind \in {"(", ")"} \/ t.text \in {"&&", "||"} THEN "between"
    ELSE "other"

SimplyAccepts(t, status) ==
    \/ SimpleKind(t) \in {"var", "between"} /\ status = 0
    \/ SimpleKind(t) = "equals" /\ status = 1
    \/ SimpleKind(t) = "value" /\ status = 2

NewStatus(t, status) ==
    IF SimpleKind(t) = "between" THEN status ELSE (status + 1) % 3

-----------------------------------------------------------------------------
(* The lists of pointers that join and intersect work on, both in place of *)
(* la; they are sorted first.                                              *)
SortList(list) == SortSeq(list, <)

(* The merging loops, over lists that are sorted.                          *)
RECURSIVE IntersectSorted(_, _)
IntersectSorted(la, lb) ==
    IF la = <<>> \/ lb = <<>> THEN <<>>
    ELSE IF Head(la) < Head(lb) THEN IntersectSorted(Tail(la), lb)
    ELSE IF Head(la) > Head(lb) THEN IntersectSorted(la, Tail(lb))
    ELSE <<Head(la)>> \o IntersectSorted(Tail(la), Tail(lb))

RECURSIVE JoinSorted(_, _)
JoinSorted(la, lb) ==
    IF la = <<>> THEN lb
    ELSE IF lb = <<>> THEN la
    ELSE IF Head(la) < Head(lb) THEN <<Head(la)>> \o JoinSorted(Tail(la), lb)
    ELSE IF Head(la) > Head(lb) THEN <<Head(lb)>> \o JoinSorted(la, Tail(lb))
    ELSE <<Head(la)>> \o JoinSorted(Tail(la), Tail(lb))

Intersect(la, lb) == IntersectSorted(SortList(la), SortList(lb))
Join(la, lb)      == JoinSorted(SortList(la), SortList(lb))

(* Lists of answers, one per block and in the same order.  An empty list   *)
(* stands for "no answer yet", also in an intersection.                    *)
Combine(op, la, lb) ==
    IF la = <<>> THEN lb
    ELSE IF lb = <<>> THEN la
    ELSE [i \in DOMAIN la |->
            IF i \notin DOMAIN lb \/ \E j \in 1 .. i : la[j].block # lb[j].block THEN la[i]
            ELSE [la[i] EXCEPT !.pointers = IF op = "||" THEN Join(@, lb[i].pointers)
                                                         ELSE Intersect(@, lb[i].pointers)]]
=============================================================================
