------------------------------ MODULE MCDataPath ------------------------------
(***************************************************************************)
(* The data path for TLC.  The sizes are in the .cfg files, all powers of  *)
(* two as the constructors of DataBlockBuffer and DPDKReader demand.  The  *)
(* wiring of the threads is checked over small configurations.             *)
(***************************************************************************)
EXTENDS DataPath

Wire == INSTANCE Wiring

Part(disk, offset, size, block) ==
    [disk |-> disk, offset |-> offset, size |-> size, block |-> block,
     managers |-> 1, recyclers |-> 1, each |-> 1, cores |-> 1]

Layouts ==
    {[data |-> Part("d", do, ds, db), index |-> Part(disk, io, is, ib),
      disk_read_size |-> rs, nb_rx |-> n, generators |-> 1] :
        do \in 0 .. 3, ds \in {2, 3, 4}, db \in {2, 4}, disk \in {"d", "i"},
        io \in 0 .. 5, is \in {1, 2}, ib \in {1, 2}, rs \in {1, 2}, n \in {1, 2}}

ASSUME LayoutsApart ==
    \A c \in {l \in Layouts : Wire!Accepted(l, {"d", "i"})} : Wire!DisksApart(c)

Crews ==
    {[data |-> [managers |-> m, recyclers |-> r, each |-> e, cores |-> 4],
      nb_rx |-> n, generators |-> g] :
        m \in 1 .. 3, r \in 1 .. 3, e \in 1 .. 2, n \in 1 .. 4, g \in 1 .. 3}

ASSUME CrewsWired ==
    /\ \A c \in Crews : Wire!AgentsShared(c, "data") /\ Wire!RingsSingle(c)
    /\ Wire!ConsumersOutlive
=============================================================================
