---------------------------- MODULE MCIndexStore -----------------------------
(* Type 0 is an address, type 1 a port; every index has both.              *)
EXTENDS IndexStore

MCKinds == {<<0, 1>>}

(* Nothing is claimed after a refused call or a misread length: behaviours *)
(* are followed up to there.                                               *)
Healthy == ~refused /\ ~misread
=============================================================================
