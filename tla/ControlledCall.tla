--------------------------- MODULE ControlledCall ---------------------------
(***************************************************************************)
(* Bound MCP tools on one connection (mcp/client.py): each invocation runs *)
(* the remote call and a poller of the run's cancel token as two tasks,    *)
(* waits for the first of them or a timeout, and then stops both.  The     *)
(* caller can itself be cancelled at every await.                          *)
(***************************************************************************)
EXTENDS Integers

CONSTANTS Invocations

VARIABLES
    at,         \* where each invocation is
    call,       \* its call task: how it stands or how it ended
    poll,       \* its _wait_for_cancel task
    timer,      \* the timeout of its wait has passed
    struck,     \* its caller was cancelled while it stops its tasks
    verdict,    \* what it is about to report or reported
    token,      \* ctx.cancel, shared by the run
    active      \* the connection is open

callvars == <<at, call, poll, timer, struck, verdict, token, active>>

\* What a reply comes to (an error, no JSON, too large and unfit replies are all
\* unusable), and how a call may raise: unsupported content is a reply too.
Replies == {"good", "unusable"}
Raised == {"closed", "unsupported", "timeout", "transport"}
Settled == Replies \cup Raised
Running == {"created", "sent", "cancelling"}
Verdicts == Settled \cup {"none", "cancelled_before", "refused", "cancelled", "torn"}

\* Bug: unsupported content is an exception like any other.
RetryableOnAnyException(v) == v \in {"timeout", "transport", "unsupported"}
\* The verdicts a caller is advised to retry after.
Retryable(v) == v \in {"timeout", "transport"}

CallInit ==
    /\ at = [i \in Invocations |-> "new"]
    /\ call = [i \in Invocations |-> "none"]
    /\ poll = [i \in Invocations |-> "none"]
    /\ timer = [i \in Invocations |-> FALSE]
    /\ struck = [i \in Invocations |-> FALSE]
    /\ verdict = [i \in Invocations |-> "none"]
    /\ token = FALSE /\ active = TRUE

\* _run up to its first await: report a run already cancelled, or arguments that
\* cannot be encoded or are too large; else create both tasks and wait.
Begin(i) ==
    /\ at[i] = "new"
    /\ \/ /\ verdict' = [verdict EXCEPT ![i] = IF token THEN "cancelled_before" ELSE "refused"]
          /\ at' = [at EXCEPT ![i] = "ended"]
          /\ UNCHANGED <<call, poll>>
       \/ /\ ~token
          /\ at' = [at EXCEPT ![i] = "waiting"]
          /\ call' = [call EXCEPT ![i] = "created"]
          /\ poll' = [poll EXCEPT ![i] = "running"]
          /\ UNCHANGED verdict
    /\ UNCHANGED <<timer, struck, token, active>>

-----------------------------------------------------------------------------
(* The tasks *)

\* call_tool's first step.
SendRequest(i) ==
    /\ call[i] = "created"
    /\ call' = [call EXCEPT ![i] = IF active THEN "sent" ELSE "closed"]
    /\ UNCHANGED <<at, poll, timer, struck, verdict, token, active>>

\* The server answers, or the session raises.
Settle(i) ==
    /\ call[i] = "sent"
    /\ \E how \in Settled \ {"closed"} : call' = [call EXCEPT ![i] = how]
    /\ UNCHANGED <<at, poll, timer, struck, verdict, token, active>>

\* A call that was asked to stop is done, whatever became of it.
CallStops(i) ==
    /\ call[i] = "cancelling"
    /\ call' = [call EXCEPT ![i] = "stopped"]
    /\ UNCHANGED <<at, poll, timer, struck, verdict, token, active>>

PollStops(i) ==
    /\ \/ poll[i] = "running" /\ token /\ poll' = [poll EXCEPT ![i] = "saw"]
       \/ poll[i] = "cancelling" /\ poll' = [poll EXCEPT ![i] = "stopped"]
    /\ UNCHANGED <<at, call, timer, struck, verdict, token, active>>

TimerFires(i) ==
    /\ at[i] = "waiting" /\ ~timer[i]
    /\ timer' = [timer EXCEPT ![i] = TRUE]
    /\ UNCHANGED <<at, call, poll, struck, verdict, token, active>>

-----------------------------------------------------------------------------
(* _call_with_controls *)

\* Leave the wait, and its timer with it, with this verdict, and ask the call task to
\* stop if it runs.
Leave(i, v) ==
    /\ verdict' = [verdict EXCEPT ![i] = v]
    /\ at' = [at EXCEPT ![i] = "stopping_call"]
    /\ call' = [call EXCEPT ![i] = IF @ \in Running THEN "cancelling" ELSE @]
    /\ timer' = [timer EXCEPT ![i] = FALSE]
    /\ UNCHANGED <<poll, struck, token, active>>

\* Bug: a timeout or a cancellation is reported whether or not the call is done.
DecideLate(i) ==
    /\ at[i] = "waiting"
    /\ \/ poll[i] = "saw" /\ Leave(i, "cancelled")
       \/ timer[i] /\ poll[i] # "saw" /\ Leave(i, "timeout")
       \/ call[i] \in Settled /\ poll[i] # "saw" /\ ~timer[i] /\ Leave(i, call[i])
\* Bug: the poller is not in the wait.
DecideUnpolled(i) ==
    /\ at[i] = "waiting"
    /\ \/ call[i] \in Settled /\ Leave(i, call[i])
       \/ timer[i] /\ call[i] \notin Settled /\ Leave(i, "timeout")
\* The wait is over: a finished call wins, then the token, then the timeout.
Decide(i) ==
    /\ at[i] = "waiting"
    /\ \/ call[i] \in Settled /\ Leave(i, call[i])
       \/ poll[i] = "saw" /\ call[i] \notin Settled /\ Leave(i, "cancelled")
       \/ timer[i] /\ poll[i] # "saw" /\ call[i] \notin Settled /\ Leave(i, "timeout")

\* The caller is cancelled: in the wait it leaves through the same finally; while
\* a task is being stopped, the error is delivered once that task is done.
CancelCaller(i) ==
    \/ at[i] = "waiting" /\ Leave(i, "torn")
    \/ /\ at[i] \in {"stopping_call", "stopping_poll"} /\ ~struck[i]
       /\ struck' = [struck EXCEPT ![i] = TRUE]
       /\ UNCHANGED <<at, call, poll, timer, verdict, token, active>>

\* Bug: the call task is asked to stop and not awaited.
CallStoppedUnawaited(i) ==
    /\ at[i] = "stopping_call"
    /\ IF struck[i]
       THEN /\ at' = [at EXCEPT ![i] = "ended"]
            /\ verdict' = [verdict EXCEPT ![i] = "torn"]
            /\ UNCHANGED poll
       ELSE /\ at' = [at EXCEPT ![i] = "stopping_poll"]
            /\ poll' = [poll EXCEPT ![i] = IF @ = "running" THEN "cancelling" ELSE @]
            /\ UNCHANGED verdict
    /\ UNCHANGED <<call, timer, struck, token, active>>
\* Bug: only the call task is stopped.
CallStoppedOnly(i) ==
    /\ at[i] = "stopping_call" /\ call[i] \notin Running
    /\ at' = [at EXCEPT ![i] = "ended"]
    /\ verdict' = [verdict EXCEPT ![i] = IF struck[i] THEN "torn" ELSE @]
    /\ UNCHANGED <<call, poll, timer, struck, token, active>>
\* The first _stop_task returns and the poller is next, or it raises its caller's
\* cancellation and the second is never reached.
CallStopped(i) ==
    /\ at[i] = "stopping_call" /\ call[i] \notin Running
    /\ IF struck[i]
       THEN /\ at' = [at EXCEPT ![i] = "ended"]
            /\ verdict' = [verdict EXCEPT ![i] = "torn"]
            /\ UNCHANGED poll
       ELSE /\ at' = [at EXCEPT ![i] = "stopping_poll"]
            /\ poll' = [poll EXCEPT ![i] = IF @ = "running" THEN "cancelling" ELSE @]
            /\ UNCHANGED verdict
    /\ UNCHANGED <<call, timer, struck, token, active>>

PollStopped(i) ==
    /\ at[i] = "stopping_poll" /\ poll[i] # "cancelling"
    /\ at' = [at EXCEPT ![i] = "ended"]
    /\ verdict' = [verdict EXCEPT ![i] = IF struck[i] THEN "torn" ELSE @]
    /\ UNCHANGED <<call, poll, timer, struck, token, active>>

-----------------------------------------------------------------------------
(* The run and the connection *)

CancelRun ==
    /\ ~token /\ token' = TRUE
    /\ UNCHANGED <<at, call, poll, timer, struck, verdict, active>>

\* open_mcp_http exits; calls in flight are left to the session.
Close ==
    /\ active /\ active' = FALSE
    /\ UNCHANGED <<at, call, poll, timer, struck, verdict, token>>

CallNext ==
    \/ \E i \in Invocations :
          \/ Begin(i) \/ SendRequest(i) \/ Settle(i) \/ CallStops(i) \/ PollStops(i)
          \/ TimerFires(i) \/ Decide(i) \/ CancelCaller(i) \/ CallStopped(i) \/ PollStopped(i)
    \/ CancelRun
    \/ Close

CallSpec == CallInit /\ [][CallNext]_callvars

\* The event loop runs what is ready, and a cancelled call of the session ends.
\* Neither the server, the timer, the token nor the caller owes anything.
CallFairness ==
    \A i \in Invocations :
        /\ WF_callvars(SendRequest(i)) /\ WF_callvars(CallStops(i)) /\ WF_callvars(PollStops(i))
        /\ WF_callvars(Decide(i)) /\ WF_callvars(CallStopped(i)) /\ WF_callvars(PollStopped(i))

FairCallSpec == CallSpec /\ CallFairness

-----------------------------------------------------------------------------
(* Properties *)

\* Type correctness, with what each stage implies of the tasks and the verdict: a
\* task is stopped only once the wait is over, the poller only after the call.
CallTypeOK ==
    /\ at \in [Invocations -> {"new", "waiting", "stopping_call", "stopping_poll", "ended"}]
    /\ call \in [Invocations -> Settled \cup Running \cup {"none", "stopped"}]
    /\ poll \in [Invocations -> {"none", "running", "saw", "cancelling", "stopped"}]
    /\ timer \in [Invocations -> BOOLEAN] /\ struck \in [Invocations -> BOOLEAN]
    /\ verdict \in [Invocations -> Verdicts]
    /\ token \in BOOLEAN /\ active \in BOOLEAN
    /\ \A i \in Invocations :
          /\ at[i] = "new" => call[i] = "none" /\ poll[i] = "none" /\ ~struck[i]
          /\ timer[i] => at[i] = "waiting"
          /\ at[i] = "waiting" => /\ call[i] \in Settled \cup {"created", "sent"}
                                  /\ poll[i] \in {"running", "saw"} /\ ~struck[i]
          /\ at[i] = "stopping_call" => /\ call[i] \notin {"none", "created", "sent"}
                                        /\ poll[i] \in {"running", "saw"}
          /\ at[i] = "stopping_poll" => /\ call[i] \in Settled \cup {"stopped"}
                                        /\ poll[i] \in {"saw", "cancelling", "stopped"}
          /\ at[i] = "ended" => call[i] \in Settled \cup {"none", "stopped"}

\* An answer that is in hand when the wait ends is what the caller is told, however
\* close the timeout or the token came, and no retry is ever advised of an operation
\* the server has answered (the order of the tests in _call_with_controls and of the
\* except clauses in _run).
AnswerWins ==
    \A i \in Invocations : at[i] \in {"stopping_call", "stopping_poll", "ended"} =>
        /\ call[i] \in Settled => verdict[i] \in {call[i], "torn"}
        /\ call[i] \in Replies \cup {"unsupported"} => ~Retryable(verdict[i])

\* An invocation that ended leaves no task behind it: its request is settled or
\* stopped, and so is its poller, except that of a caller who was cancelled while
\* the call task was being stopped (the finally of _call_with_controls).
NothingLeftRunning ==
    \A i \in Invocations : at[i] = "ended" =>
        /\ call[i] \notin Running
        /\ poll[i] \in {"running", "cancelling"} => struck[i] /\ verdict[i] = "torn"

\* A cancelled run ends its invocations without help from the server or the timer,
\* and ends every poller, also those their callers left (_wait_for_cancel).
CancelReachesAll ==
    token ~> \A i \in Invocations :
                /\ at[i] \in {"new", "ended"}
                /\ poll[i] \notin {"running", "cancelling"}

=============================================================================
