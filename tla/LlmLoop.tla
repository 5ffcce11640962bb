------------------------------ MODULE LlmLoop ------------------------------
(***************************************************************************)
(* One node on the default path: Commission._run and run_llm_loop.  The    *)
(* loop asks the provider, answers every tool call of the reply (it        *)
(* concludes, dispatches a child, or feeds an error back) and asks again,  *)
(* within its grant, its iterations and the run's stop signal.             *)
(*                                                                         *)
(* The environment is the provider, the door, the children and the two     *)
(* sources of the stop signal.  A transcript keeps each message's role and *)
(* the tool calls it makes or answers.                                     *)
(***************************************************************************)
EXTENDS Pricing, FiniteSets, SequencesExt

CONSTANTS
    Toolbox,            \* the tools the node was built with
    Permitted,          \* what the branch grant and the run's ceiling allow
    Setups,             \* the node's catalog entry, grant and run, one per behaviour
    Usages,             \* what a turn may use
    Floor,              \* tokens every request holds at least, as estimated
    ChildOvershoot,     \* what a child may spend past its own grant
    ChildMost,          \* what a child without a grant may spend
    MaxIterations, MaxToolCalls,
    MaxTurnCost,        \* bound on the cost of one turn (in properties only)
    NoGrant

Setup == [known : BOOLEAN,      \* the model's name is in the catalog
          fits : BOOLEAN,       \* the input passes the size gate
          opening : BOOLEAN,    \* the opening message can be sent
          fused : BOOLEAN,      \* the run's spend fuse is armed
          child_floor : Nat,    \* what any turn below the node is at least estimated at
          in_price : Price, out_price : Price, grant : Nat \cup {NoGrant}]

ASSUME LoopAssumption ==
    /\ Setups \subseteq Setup /\ Usages \subseteq Usage
    /\ IsFiniteSet(Toolbox) /\ NoGrant \notin Nat
    /\ Floor \in Nat /\ ChildOvershoot \in Nat /\ ChildMost \in Nat
    /\ MaxIterations \in Nat \ {0} /\ MaxToolCalls \in Nat \ {0} /\ MaxTurnCost \in Nat
    /\ \A s \in Setups : \A u \in Usages : cost_usd(s, u) <= MaxTurnCost

VARIABLES
    setup,
    pc,             \* where the loop is
    iterations,     \* the turns left
    messages,       \* the transcript
    pending,        \* the tool calls of the reply not yet answered
    nudged,         \* nudged_for_missing_tool_call
    in_tokens, out_tokens, children_cost,
    settled,        \* what the door charged this node's calls
    caller, breaker,    \* who has set the stop signal
    outcome         \* how it ended; "halted" is a cancellation with the breaker's stamp

ledger == <<in_tokens, out_tokens, children_cost, settled>>
signal == <<caller, breaker>>
loopvars == <<setup, pc, iterations, messages, pending, nudged, ledger,
              signal, outcome>>

-----------------------------------------------------------------------------
(* The ledger *)

own_cost == cost_usd(setup, [in |-> in_tokens, out |-> out_tokens])
cost_so_far == own_cost + children_cost
Granted == setup.grant # NoGrant
Accounted == Granted \/ setup.fused
OverGrant(spent) == Granted /\ spent > setup.grant

\* Bug: a child is handed the whole grant.
WholeGrant == setup.grant
\* What is left of the grant, never negative.
ChildGrant ==
    IF ~Granted THEN NoGrant
    ELSE IF cost_so_far > setup.grant THEN 0 ELSE setup.grant - cost_so_far

\* A child keeps the same rules as its parent, on a model of its own: it declines a
\* turn that its grant cannot even feed, and stops once past its grant.
ChildCosts(grant) ==
    IF grant = NoGrant THEN 0..ChildMost
    ELSE IF setup.child_floor > grant THEN {0}
    ELSE 0..(grant + ChildOvershoot)

-----------------------------------------------------------------------------
(* The transcript *)

\* The effective menu.
Menu == Toolbox \cap Permitted

\* What a reply's tool call asks for.
Asks == {"conclude", "bad_conclude", "bad_input"} \cup Toolbox
Says(role) == [role |-> role, calls |-> <<>>]

-----------------------------------------------------------------------------
(* Actions *)

LoopInit ==
    /\ setup \in Setups
    /\ pc = "start" /\ iterations = MaxIterations
    /\ messages = <<>> /\ pending = <<>> /\ nudged = FALSE
    /\ in_tokens = 0 /\ out_tokens = 0 /\ children_cost = 0 /\ settled = 0
    /\ caller = FALSE /\ breaker = FALSE
    /\ outcome = "none"

\* Bug: an exit that forgets to say how.
EndSilently(how) == pc' = "done" /\ UNCHANGED outcome
End(how) == pc' = "done" /\ outcome' = how

\* The caller's token is set, or a fuse trips elsewhere in the run.
Signal ==
    /\ pc # "done"
    /\ \/ ~caller /\ caller' = TRUE /\ UNCHANGED breaker
       \/ pc # "start" /\ ~breaker /\ breaker' = TRUE /\ UNCHANGED caller
    /\ UNCHANGED <<setup, pc, iterations, messages, pending, nudged, ledger,
                   outcome>>

\* What _run and the loop refuse before anything is sent: an unknown model, a stop
\* by the caller (a halted run refused the dispatch), a grant that cannot be
\* enforced, an input past the size gate, an opening message with no translation.
Refusal ==
    IF setup.known /\ caller THEN "cancelled"
    ELSE IF \/ ~setup.known
            \/ Granted /\ ~is_priced(setup)
            \/ ~setup.fits
            \/ ~setup.opening
         THEN "validation" ELSE "none"

\* From dispatch to the first turn, without an await.
Begin ==
    /\ pc = "start"
    /\ IF Refusal # "none" THEN End(Refusal) /\ UNCHANGED messages
       ELSE messages' = <<Says("user")>> /\ pc' = "top" /\ UNCHANGED outcome
    /\ UNCHANGED <<setup, iterations, pending, nudged, ledger, signal>>

\* The iteration cap.
Exhaust ==
    /\ pc = "top" /\ iterations = 0
    /\ End("internal")
    /\ UNCHANGED <<setup, iterations, messages, pending, nudged, ledger, signal>>

\* The checkpoint: stamped only when the breaker alone is set.
StopAtCheckpoint ==
    /\ pc = "top" /\ iterations > 0
    /\ caller \/ breaker
    /\ End(IF caller THEN "cancelled" ELSE "halted")
    /\ UNCHANGED <<setup, iterations, messages, pending, nudged, ledger, signal>>

\* The pre-turn gate: the next turn's input alone would break the grant.
Gate == OverGrant(cost_so_far + Floor * Rate(setup.in_price))

DeclineTurn ==
    /\ pc = "top" /\ iterations > 0 /\ ~(caller \/ breaker)
    /\ Gate
    /\ End("budget_exceeded")
    /\ UNCHANGED <<setup, iterations, messages, pending, nudged, ledger, signal>>

AskProvider ==
    /\ pc = "top" /\ iterations > 0 /\ ~(caller \/ breaker)
    /\ ~Gate
    /\ pc' = "provider" /\ iterations' = iterations - 1
    /\ UNCHANGED <<setup, messages, pending, nudged, ledger, signal, outcome>>

\* The door refuses the call, or the call fails unpaid.
ProviderFails ==
    /\ pc = "provider"
    /\ \/ breaker /\ End("halted")
       \/ \E kind \in {"validation", "rate_limit", "internal"} : End(kind)
    /\ UNCHANGED <<setup, iterations, messages, pending, nudged, ledger, signal>>

\* The door charges what it can price of the call and raises.
TurnUnmeterable(u) ==
    /\ pc = "provider"
    /\ Unmeterable(setup, u, Accounted)
    /\ settled' = settled + cost_usd(setup, u)
    /\ End("internal")
    /\ UNCHANGED <<setup, iterations, messages, pending, nudged, in_tokens, out_tokens,
                   children_cost, signal>>

\* Bug: a turn's tokens replace the ones before.
CountLast(u) ==
    /\ in_tokens' = IF u = NoUsage THEN in_tokens ELSE u.in
    /\ out_tokens' = IF u = NoUsage THEN out_tokens ELSE u.out
Count(u) ==
    /\ in_tokens' = in_tokens + IF u = NoUsage THEN 0 ELSE u.in
    /\ out_tokens' = out_tokens + IF u = NoUsage THEN 0 ELSE u.out

\* The turn is paid and counted; then the grant is checked.
Paid(u) ==
    /\ pc = "provider"
    /\ ~Unmeterable(setup, u, Accounted)
    /\ settled' = settled + cost_usd(setup, u)
    /\ Count(u)
    /\ UNCHANGED <<setup, children_cost>>

\* The turn broke the grant, or came back without a choice.
TurnFails(u) ==
    /\ Paid(u)
    /\ IF OverGrant(cost_so_far') THEN End("budget_exceeded") ELSE End("internal")
    /\ UNCHANGED <<iterations, messages, pending, nudged, signal>>

\* A reply without a tool call is nudged once.
ReplyInProse(u) ==
    /\ Paid(u)
    /\ ~OverGrant(cost_so_far')
    /\ IF nudged THEN End("internal") /\ UNCHANGED <<messages, nudged>>
       ELSE /\ nudged' = TRUE
            /\ messages' = messages \o <<Says("assistant"), Says("user")>>
            /\ pc' = "top" /\ UNCHANGED outcome
    /\ UNCHANGED <<iterations, pending, signal>>

ReplyWithCalls(u, reply) ==
    /\ Paid(u)
    /\ ~OverGrant(cost_so_far')
    /\ reply # <<>>
    /\ messages' = Append(messages, [role |-> "assistant", calls |-> reply])
    /\ pending' = reply
    /\ pc' = "reply"
    /\ UNCHANGED <<iterations, nudged, signal, outcome>>

\* The loop is over: its typed output is there.
Conclude ==
    /\ pc = "reply" /\ pending # <<>>
    /\ Head(pending) = "conclude"
    /\ End("success")
    /\ UNCHANGED <<setup, iterations, messages, pending, nudged, ledger, signal>>

AnswerHead(log) == Append(log, [role |-> "tool", calls |-> <<Head(pending)>>])

\* Bug: a call for a tool that is not on the menu is passed over.
SkipUnknown ==
    /\ pc = "reply" /\ pending # <<>>
    /\ Head(pending) \notin Menu \cup {"conclude"}
    /\ messages' = IF Head(pending) \in Toolbox THEN messages ELSE AnswerHead(messages)
    /\ pending' = Tail(pending)
    /\ UNCHANGED <<setup, pc, iterations, nudged, ledger, signal, outcome>>
\* An unknown or forbidden tool, bad input or a bad conclusion is an answer too.
FeedBack ==
    /\ pc = "reply" /\ pending # <<>>
    /\ Head(pending) \notin Menu \cup {"conclude"}
    /\ messages' = AnswerHead(messages)
    /\ pending' = Tail(pending)
    /\ UNCHANGED <<setup, pc, iterations, nudged, ledger, signal, outcome>>

\* dispatch(tool, ...) and its answer; a halted run refuses the child.
DispatchTool ==
    /\ pc = "reply" /\ pending # <<>>
    /\ Head(pending) \in Menu
    /\ \E cost \in IF breaker THEN {0} ELSE ChildCosts(ChildGrant) :
          children_cost' = children_cost + cost
    /\ messages' = AnswerHead(messages)
    /\ pending' = Tail(pending)
    /\ UNCHANGED <<setup, pc, iterations, nudged, in_tokens, out_tokens, settled, signal,
                   outcome>>

\* All calls are answered; under a grant the ledger is shown to the model.
EndTurn ==
    /\ pc = "reply" /\ pending = <<>>
    /\ messages' = IF Granted THEN Append(messages, Says("user")) ELSE messages
    /\ pc' = "top"
    /\ UNCHANGED <<setup, iterations, pending, nudged, ledger, signal, outcome>>

Replies == UNION {[1..k -> Asks] : k \in 1..MaxToolCalls}

LoopNext ==
    \/ Signal
    \/ Begin
    \/ Exhaust
    \/ StopAtCheckpoint
    \/ DeclineTurn
    \/ AskProvider
    \/ ProviderFails
    \/ \E u \in Usages \cup {NoUsage} :
          \/ TurnUnmeterable(u)
          \/ TurnFails(u)
          \/ ReplyInProse(u)
          \/ \E reply \in Replies : ReplyWithCalls(u, reply)
    \/ Conclude
    \/ FeedBack
    \/ DispatchTool
    \/ EndTurn

LoopSpec == LoopInit /\ [][LoopNext]_loopvars

-----------------------------------------------------------------------------
(* Properties *)

Points == {"start", "top", "provider", "reply", "done"}
Outcomes == {"none", "success", "cancelled", "halted", "budget_exceeded", "validation",
             "rate_limit", "internal"}

\* Type correctness; an ended loop says how it ended.
LoopTypeOK ==
    /\ setup \in Setups /\ pc \in Points /\ iterations \in 0..MaxIterations
    /\ messages \in Seq([role : {"user", "assistant", "tool"}, calls : Seq(Asks)])
    /\ pending \in Seq(Asks) /\ nudged \in BOOLEAN
    /\ in_tokens \in Nat /\ out_tokens \in Nat /\ children_cost \in Nat /\ settled \in Nat
    /\ caller \in BOOLEAN /\ breaker \in BOOLEAN
    /\ outcome \in Outcomes /\ (pc = "done" <=> outcome # "none")

\* A request holds, after each assistant message, one tool message for each of
\* its tool calls, in their order, whatever those calls were (a provider rejects
\* any other transcript).
TranscriptAnswered ==
    pc = "provider" =>
        \A i \in DOMAIN messages : messages[i].role = "assistant" =>
            \A k \in DOMAIN messages[i].calls :
                /\ i + k \in DOMAIN messages
                /\ messages[i + k] = [role |-> "tool", calls |-> <<messages[i].calls[k]>>]

\* A spent grant starves the next child, unless some model below is free on input,
\* whatever the node's own is, for then the estimate that declines a turn is 0.
Starves == setup.child_floor > 0
\* How many children of one reply may overshoot.
AtOnce == IF Starves THEN 1 ELSE MaxToolCalls
Overshoot ==
    IF MaxTurnCost > AtOnce * ChildOvershoot THEN MaxTurnCost ELSE AtOnce * ChildOvershoot

\* A grant is passed by what one turn or one child may overshoot, never by a multiple
\* of it: the children of one reply share what is left, and a spent grant starves the
\* next (the allocation in run_llm_loop, the pre-turn gate of the child).  Where a
\* child's input is free it is passed by one child for each call of the last reply.
GrantHolds == Granted => cost_so_far <= setup.grant + Overshoot

\* The envelope's own cost is what the door charged the node's calls, so that the
\* costs of a tree add up to the run's spend (the cost rollup in Commission._run), but
\* for the one call that may end a node: charged for the side that has a price, and
\* then refused because the other side has none.
EnvelopeMatchesDoor ==
    \/ own_cost = settled
    \/ /\ outcome = "internal" /\ ~is_priced(setup)
       /\ own_cost < settled /\ settled <= own_cost + MaxTurnCost

=============================================================================
