------------------------------ MODULE Briefing ------------------------------
(***************************************************************************)
(* A coordinator with a _run of its own (examples/morning_briefing): its   *)
(* sections are dispatched at once, each with an equal share of the grant, *)
(* and when all have answered a summary is dispatched with what they left. *)
(* It calls no provider itself: its ledger is that of its children.        *)
(***************************************************************************)
EXTENDS LlmLoop

CONSTANT Sections

ASSUME BriefingAssumption == IsFiniteSet(Sections) /\ Sections # {}

VARIABLE section    \* how each section's dispatch stands

briefvars == <<loopvars, section>>

Shares == Cardinality(Sections) + 1
\* Bug: every section is handed the whole grant.
WholeShare == setup.grant
\* One share for each section and one kept for the summary.
Share == IF Granted THEN setup.grant \div Shares ELSE NoGrant

Open == {s \in Sections : section[s] = "running"}

BriefInit == section = [s \in Sections |-> "none"]

\* The token is looked at once before the sections are dispatched, in one gather.
BriefBegin ==
    /\ pc = "start"
    /\ IF caller THEN End("cancelled") /\ UNCHANGED section
       ELSE /\ section' = [s \in Sections |-> "running"]
            /\ pc' = "reply" /\ UNCHANGED outcome
    /\ UNCHANGED <<setup, iterations, messages, pending, nudged, ledger, signal>>

\* A section answers, with an output or without one, and costs either way.
SectionEnds(s) ==
    /\ section[s] = "running"
    /\ \E how \in {"reported", "failed"} : section' = [section EXCEPT ![s] = how]
    /\ \E cost \in ChildCosts(Share) : children_cost' = children_cost + cost
    /\ UNCHANGED <<setup, pc, iterations, messages, pending, nudged, in_tokens, out_tokens,
                   settled, signal, outcome>>

\* All have answered.  Nothing to brief is a failure, then the token is looked at: a
\* stop of the breaker is told as a plain cancellation too.  Else the summary begins.
Gathered ==
    /\ pc = "reply" /\ Open = {}
    /\ IF \A s \in Sections : section[s] = "failed" THEN End("internal")
       ELSE IF caller \/ breaker THEN End("cancelled")
       ELSE pc' = "top" /\ UNCHANGED outcome
    /\ UNCHANGED <<setup, iterations, messages, pending, nudged, ledger, signal, section>>

\* The summary answers.  It failing degrades the briefing, and so does a section; a
\* stop, or a file that cannot be written, ends it.
Summarized ==
    /\ pc = "top"
    /\ \E cost \in ChildCosts(ChildGrant) : children_cost' = children_cost + cost
    /\ IF caller \/ breaker THEN End("cancelled")
       ELSE \E how \in {"success", "internal"} : End(how)
    /\ UNCHANGED <<setup, iterations, messages, pending, nudged, in_tokens, out_tokens,
                   settled, signal, section>>

BriefNext ==
    \/ Signal /\ UNCHANGED section
    \/ BriefBegin
    \/ \E s \in Sections : SectionEnds(s)
    \/ Gathered
    \/ Summarized

\* What sections that run at once may overshoot, once each; what they leave goes to
\* the summary, which a spent grant starves, unless its model is free on input.
SharesHold ==
    Granted =>
        children_cost <= setup.grant
            + (IF Starves THEN Cardinality(Sections) ELSE Shares)
                * ChildOvershoot

=============================================================================
