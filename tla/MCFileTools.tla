---------------------------- MODULE MCFileTools ----------------------------
(***************************************************************************)
(* Bounded instances of FileTools: every pair of operations on two names,  *)
(* on one loop and on two, from five layouts of the directory.              *)
(***************************************************************************)
EXTENDS FileTools, TLC

CONSTANTS t, u, p, q, inner, here, there

MCTasks == {t, u}
MCLoops == {here, there}
MCPaths == {p, q, inner}
MCInside == p :> inner @@ q :> inner @@ inner :> inner

JobOn(op, src, loop) ==
    [op |-> op, src |-> src, dst |-> IF src = p THEN q ELSE p, loop |-> loop]
MCJobs == {t :> JobOn(o1, p, here) @@ u :> JobOn(o2, src, loop) :
              o1 \in Ops, o2 \in Ops, src \in {p, q}, loop \in {here, there}}

Layout(at_p, at_q) == p :> at_p @@ q :> at_q @@ inner :> "absent"
MCLayouts == {Layout("absent", "absent"), Layout(p, "absent"), Layout(p, q), Layout(p, p),
              Layout(p, "dir")}

=============================================================================
