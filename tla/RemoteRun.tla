----------------------------- MODULE RemoteRun -----------------------------
(***************************************************************************)
(* Bound tools whose server is this library's own: ControlledCall on the   *)
(* client's side, and on the server's (mcp/server.py) one run for each     *)
(* request, in the scope that the SDK cancels when the request is          *)
(* cancelled or its session ends.  A run may have a part in a task of its  *)
(* own, which is outside that scope and knows of it by the token alone.    *)
(***************************************************************************)
EXTENDS ControlledCall

CONSTANTS Served    \* the invocations that such a server answers

ASSUME ServedAssumption == Served \subseteq Invocations

VARIABLES
    request,    \* the server's handler of each invocation's request
    reply,      \* what it answered
    scope,      \* the SDK cancelled the request's scope
    cancelled,  \* the token's own flag
    part        \* a part of its run goes on in a task of its own

servervars == <<request, reply, scope, cancelled, part>>
remotevars == <<callvars, servervars>>

\* What the token says inside the scope and outside of it.
is_cancelled(i, inside) == cancelled[i] \/ (inside /\ scope[i])

RemoteInit ==
    /\ CallInit
    /\ request = [i \in Served |-> "none"] /\ reply = [i \in Served |-> "none"]
    /\ scope = [i \in Served |-> FALSE] /\ cancelled = [i \in Served |-> FALSE]
    /\ part = [i \in Served |-> FALSE]

\* A request arrives: an unknown tool, unfit or too large arguments are answered at
\* once, and nothing runs; or the run begins.
Receive(i) ==
    /\ request[i] = "none" /\ call[i] = "sent"
    /\ \/ request' = [request EXCEPT ![i] = "refused"]
          /\ reply' = [reply EXCEPT ![i] = "unusable"]
       \/ request' = [request EXCEPT ![i] = "running"] /\ UNCHANGED reply
    /\ UNCHANGED <<callvars, scope, cancelled, part>>

StartPart(i) ==
    /\ request[i] = "running" /\ ~part[i]
    /\ part' = [part EXCEPT ![i] = TRUE]
    /\ UNCHANGED <<callvars, request, reply, scope, cancelled>>

\* The client or its session cancels the request, or the session ends.
CancelRequest(i) ==
    /\ request[i] = "running" /\ ~scope[i]
    /\ scope' = [scope EXCEPT ![i] = TRUE]
    /\ UNCHANGED <<callvars, request, reply, cancelled, part>>

\* The run comes to an end of its own: by finishing, by an exception, or at a stop it
\* saw.  Its envelope is the answer if it is a sound success that fits, an error tells
\* of any other; a cancelled request was answered by the SDK, and this one is dropped.
RunEnds(i) ==
    /\ request[i] = "running"
    /\ IF scope[i] THEN request' = [request EXCEPT ![i] = "dropped"] /\ UNCHANGED reply
       ELSE /\ request' = [request EXCEPT ![i] = "replied"]
            /\ \E r \in Replies : reply' = [reply EXCEPT ![i] = r]
    /\ UNCHANGED <<callvars, scope, cancelled, part>>

\* Bug: the scope alone says that the request was cancelled.
RunTornUnretained(i) ==
    /\ request[i] = "running" /\ scope[i]
    /\ request' = [request EXCEPT ![i] = "torn"]
    /\ \E p \in {part[i], FALSE} : part' = [part EXCEPT ![i] = p]
    /\ UNCHANGED <<callvars, reply, scope, cancelled>>
\* The cancellation passes through the run, which cancels the part it awaits, and
\* through the handler, which retains it for the part that goes on.
RunTorn(i) ==
    /\ request[i] = "running" /\ scope[i]
    /\ request' = [request EXCEPT ![i] = "torn"]
    /\ cancelled' = [cancelled EXCEPT ![i] = TRUE]
    /\ \E p \in {part[i], FALSE} : part' = [part EXCEPT ![i] = p]
    /\ UNCHANGED <<callvars, reply, scope>>

\* The part looks at its token before its next call or dispatch, and ends.
PartLooks(i) ==
    /\ part[i] /\ is_cancelled(i, FALSE)
    /\ part' = [part EXCEPT ![i] = FALSE]
    /\ UNCHANGED <<callvars, request, reply, scope, cancelled>>

PartEnds(i) ==
    /\ part[i]
    /\ part' = [part EXCEPT ![i] = FALSE]
    /\ UNCHANGED <<callvars, request, reply, scope, cancelled>>

\* A served call ends with its server's answer or without one: the client may find an
\* answer unusable, the session may raise first.
Delivered ==
    \A i \in Served : call[i] = "sent" /\ call'[i] \in Replies \cup {"unsupported"} =>
        /\ reply[i] # "none" /\ call'[i] # "unsupported"
        /\ call'[i] = "good" => reply[i] = "good"

ClientStep == CallNext /\ Delivered /\ UNCHANGED servervars

RemoteNext ==
    \/ ClientStep
    \/ \E i \in Served :
          \/ Receive(i) \/ StartPart(i) \/ CancelRequest(i)
          \/ RunEnds(i) \/ RunTorn(i) \/ PartLooks(i) \/ PartEnds(i)

RemoteSpec == RemoteInit /\ [][RemoteNext]_remotevars

\* A part that goes on comes to its next look at the token: what it awaits in
\* between, a provider or a tool, ends or times out.
FairRemoteSpec ==
    RemoteSpec /\ CallFairness /\ \A i \in Served : WF_remotevars(PartLooks(i))

-----------------------------------------------------------------------------
(* Properties *)

\* What the server does for a request at each stage: a run that answered was not
\* cancelled, and the token is set by cancellation alone.
ServerTypeOK ==
    /\ request \in [Served -> {"none", "refused", "running", "replied", "dropped", "torn"}]
    /\ reply \in [Served -> Replies \cup {"none"}]
    /\ scope \in [Served -> BOOLEAN] /\ cancelled \in [Served -> BOOLEAN]
    /\ part \in [Served -> BOOLEAN]
    /\ \A i \in Served :
          /\ reply[i] = "none" <=> request[i] \in {"none", "running", "dropped", "torn"}
          /\ request[i] \in {"none", "refused"} => reply[i] # "good" /\ ~part[i]
          /\ cancelled[i] => scope[i] /\ request[i] = "torn"
          /\ scope[i] => request[i] \in {"running", "dropped", "torn"}

\* What a client takes for a success is the envelope of a run that ran to its end on
\* the server and that nobody had cancelled, whatever raced on both sides.
SuccessIsARun ==
    \A i \in Served : verdict[i] = "good" =>
        request[i] = "replied" /\ reply[i] = "good" /\ ~scope[i]

\* A cancellation that passed through the handler of its request ends the part of the
\* run that the scope does not reach: the handler retains it in the token (the except
\* clause of call_tool).  A run that saw the stop and came to an end of its own leaves
\* by no such clause, and nothing is said of its parts.
TornRunEnds ==
    \A i \in Served : request[i] = "torn" ~> ~part[i]

=============================================================================
