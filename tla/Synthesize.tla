----------------------------- MODULE Synthesize -----------------------------
(***************************************************************************)
(* A commission with a _run of its own (examples/synthesize.py): two calls *)
(* at the door, one in prose and one for its structure, with the grant and *)
(* the stop signal looked at in between.  It keeps the books of LlmLoop    *)
(* without its loop; the transcript joins both passes, as its trace does.  *)
(***************************************************************************)
EXTENDS LlmLoop

FirstPass == messages = <<Says("user")>>
Reply == Append(messages, Says("assistant"))

\* In this order: an unknown model, no sources, a stop, a grant that cannot be
\* enforced, an input past the size gate, and one that the grant cannot feed.
SynthRefusal ==
    IF ~setup.known \/ ~setup.opening THEN "validation"
    ELSE IF caller THEN "cancelled"
    ELSE IF (Granted /\ ~is_priced(setup)) \/ ~setup.fits THEN "validation"
    ELSE IF OverGrant(Floor * Rate(setup.in_price)) THEN "budget_exceeded" ELSE "none"

\* From dispatch to the first call, without an await.
SynthBegin ==
    /\ pc = "start"
    /\ IF SynthRefusal # "none" THEN End(SynthRefusal) /\ UNCHANGED messages
       ELSE messages' = <<Says("user")>> /\ pc' = "provider" /\ UNCHANGED outcome
    /\ UNCHANGED <<setup, iterations, pending, nudged, ledger, signal>>

\* A reply without a choice: counted, and not held against the grant.
NoChoice(u) ==
    /\ Paid(u)
    /\ End("internal")
    /\ UNCHANGED <<iterations, messages, pending, nudged, signal>>

Prose(u) ==
    /\ FirstPass
    /\ Paid(u)
    /\ messages' = Reply /\ pc' = "top"
    /\ UNCHANGED <<iterations, pending, nudged, signal, outcome>>

\* Past its grant between the passes.
SkipStructured ==
    /\ pc = "top" /\ ~(caller \/ breaker)
    /\ OverGrant(cost_so_far)
    /\ End("budget_exceeded")
    /\ UNCHANGED <<setup, iterations, messages, pending, nudged, ledger, signal>>

\* Bug: the second pass is asked for whatever the first one cost.
AskStructuredAnyway ==
    /\ pc = "top" /\ ~(caller \/ breaker)
    /\ messages' = Append(messages, Says("user")) /\ pc' = "provider"
    /\ UNCHANGED <<setup, iterations, pending, nudged, ledger, signal, outcome>>
AskStructured ==
    /\ pc = "top" /\ ~(caller \/ breaker)
    /\ ~OverGrant(cost_so_far)
    /\ messages' = Append(messages, Says("user")) /\ pc' = "provider"
    /\ UNCHANGED <<setup, iterations, pending, nudged, ledger, signal, outcome>>

\* The structured reply: the grant first, then whether it parses and every claim
\* cites sources that were given.
Structured(u) ==
    /\ ~FirstPass
    /\ Paid(u)
    /\ messages' = Reply
    /\ IF OverGrant(cost_so_far') THEN End("budget_exceeded")
       ELSE \E how \in {"success", "internal"} : End(how)
    /\ UNCHANGED <<iterations, pending, nudged, signal>>

SynthNext ==
    \/ Signal
    \/ SynthBegin
    \/ ProviderFails
    \/ \E u \in Usages \cup {NoUsage} :
          TurnUnmeterable(u) \/ NoChoice(u) \/ Prose(u) \/ Structured(u)
    \/ StopAtCheckpoint
    \/ SkipStructured
    \/ AskStructured

=============================================================================
