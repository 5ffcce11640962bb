------------------------------ MODULE RunMeter ------------------------------
(***************************************************************************)
(* What run_commission promises of a run's provider calls, without the     *)
(* room, the queue, the log or the clock: at most Concurrency calls are    *)
(* open, at most MaxLlmCalls are ever admitted, none is admitted once      *)
(* spending has passed SpendLimit or the run has halted, an open call      *)
(* still settles and counts, and a halt is for good.                       *)
(***************************************************************************)
EXTENDS Integers, FiniteSets

CONSTANTS Calls, MaxLlmCalls, SpendLimit, Concurrency, NoLimit

VARIABLES
    open,       \* the calls in flight
    admitted,   \* how many were ever admitted
    spent,      \* what the settled ones cost
    halted      \* no more are admitted

meter == <<open, admitted, spent, halted>>

Exceeded(amount) == SpendLimit # NoLimit /\ amount > SpendLimit

Init == open = {} /\ admitted = 0 /\ spent = 0 /\ halted = FALSE

Admit(c) ==
    /\ ~halted
    /\ c \notin open
    /\ Cardinality(open) < Concurrency
    /\ MaxLlmCalls # NoLimit => admitted < MaxLlmCalls
    /\ ~Exceeded(spent)
    /\ open' = open \cup {c}
    /\ admitted' = admitted + 1
    /\ UNCHANGED <<spent, halted>>

\* A call settles, before or after a halt; passing the limit halts the run.
Settle(c) ==
    /\ c \in open
    /\ open' = open \ {c}
    /\ spent' \in Nat /\ spent' >= spent
    /\ halted' = (halted \/ Exceeded(spent'))
    /\ UNCHANGED admitted

\* A fuse trips.
Halt ==
    /\ halted' = TRUE
    /\ UNCHANGED <<open, admitted, spent>>

Next == Halt \/ \E c \in Calls : Admit(c) \/ Settle(c)

Spec == Init /\ [][Next]_meter

=============================================================================
