----------------------------- MODULE MCRecords -----------------------------
(***************************************************************************)
(* Bounded instances of Records: a root with a child, and a second run.    *)
(***************************************************************************)
EXTENDS Records, TLC

CONSTANTS r1, k1, r2

MCNodes == {r1, k1, r2}
MCCallers == {k1}
MCRootOf == r1 :> r1 @@ k1 :> r1 @@ r2 :> r2

Silent == [record |-> NoMode, backend |-> TRUE, own |-> NoMode, overflow |-> "flag",
           chops |-> TRUE]
Everywhere(record) == [n \in MCNodes |-> [Silent EXCEPT !.record = record]]
\* One choice for each way a mode is settled and an output is capped.
MCPolicies == {
    [n \in MCNodes |-> [Silent EXCEPT !.record = "dev", !.overflow = "truncate"]],
    [n \in MCNodes |-> [Silent EXCEPT !.record = "on_failure", !.overflow = "partial"]],
    [n \in MCNodes |-> [Silent EXCEPT !.own = "off", !.overflow = "truncate"]],
    [n \in MCNodes |-> [Silent EXCEPT !.record = "off", !.overflow = "truncate"]],
    [n \in MCNodes |-> [Silent EXCEPT !.backend = FALSE, !.overflow = "reject"]],
    [n \in MCNodes |-> [Silent EXCEPT !.own = IF n = k1 THEN "dev" ELSE NoMode,
                                      !.overflow = "truncate", !.chops = n # k1]]}
OnePolicy == {[n \in MCNodes |-> Silent]}

=============================================================================
