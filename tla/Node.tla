-------------------------------- MODULE Node --------------------------------
(***************************************************************************)
(* A node of a run by whose _run it has: the default loop, Synthesize or   *)
(* the morning briefing.  dispatch treats them alike: they keep the same   *)
(* ledger, meet the same signal and end in one of the same ways.           *)
(***************************************************************************)
EXTENDS Synthesize, Briefing

VARIABLE author     \* whose _run the node has

nodevars == <<briefvars, author>>

NodeInit == LoopInit /\ BriefInit /\ author \in {"loop", "synthesize", "briefing"}
NodeNext ==
    /\ \/ author = "loop" /\ LoopNext /\ UNCHANGED section
       \/ author = "synthesize" /\ SynthNext /\ UNCHANGED section
       \/ author = "briefing" /\ BriefNext
    /\ UNCHANGED author
NodeSpec == NodeInit /\ [][NodeNext]_nodevars

\* A grant is passed by what one turn or one child may overshoot, never by a multiple
\* of it, and by a briefing's sections once each, for they run at once: whoever wrote
\* the _run, what is handed to a child is no more than what is left (the allocation in
\* run_llm_loop, the pre-turn gate, the checks between passes, the shares).  Where
\* a child's model is free on input, whatever the node's own is, the children of one
\* reply overshoot once each too.
NodeGrantHolds == IF author = "briefing" THEN SharesHold ELSE GrantHolds

=============================================================================
