--------------------------- MODULE MCFileRecords ---------------------------
(***************************************************************************)
(* Bounded instances of FileRecords: three stores and two other            *)
(* operations.                                                             *)
(***************************************************************************)
EXTENDS FileRecords, TLC

CONSTANTS d1, d2, d3, u1, u2

MCIds == {d1, d2, d3}
MCUsers == {u1, u2}
\* Two of the records are as young as each other.
MCCreated == d1 :> 1 @@ d2 :> 2 @@ d3 :> 2
MCCutoff == [t \in MCIds \cup MCUsers |-> 2]

Setup(m1, m2, m3, j1, j2) ==
    [mode |-> d1 :> m1 @@ d2 :> m2 @@ d3 :> m3, job |-> u1 :> j1 @@ u2 :> j2]
\* Prunes among each other, then each operation among the stores it can meet.
MCSetups == {
    Setup("dev", "dev", "dev", "none", "none"),
    Setup("on_failure", "on_failure", "dev", "sweep", "none"),
    Setup("dev", "always", "dev", "sweep", "none"),
    Setup("always", "on_failure", "always", "sweep", "sweep"),
    Setup("dev", "dev", "always", "list", "none"),
    Setup("dev", "dev", "always", "load", "delete")}

=============================================================================
