-------------------------- MODULE RemoteRun_proofs --------------------------
(***************************************************************************)
(* Theorems about bound tools, for any number of invocations: first about  *)
(* ControlledCall, whatever the server is, then about RemoteRun, with      *)
(* servers of the library's own.                                           *)
(***************************************************************************)
EXTENDS RemoteRun, TLAPS

-----------------------------------------------------------------------------
(* The client *)

\* What an invocation's tasks and verdict are at each stage, at every moment.
THEOREM CallTypes == CallSpec => []CallTypeOK
<1>1. CallInit => CallTypeOK
  <2> SUFFICES ASSUME CallInit PROVE CallTypeOK
    OBVIOUS
  <2>1. /\ timer \in [Invocations -> BOOLEAN] /\ struck \in [Invocations -> BOOLEAN]
        /\ \A i \in Invocations : at[i] = "new" /\ ~struck[i]
    BY DEF CallInit
  <2> QED
    BY <2>1 DEF CallInit, CallTypeOK, Settled, Replies, Raised, Running, Verdicts
<1>2. CallTypeOK /\ [CallNext]_callvars => CallTypeOK'
  <2> SUFFICES ASSUME CallTypeOK, [CallNext]_callvars
               PROVE  CallTypeOK'
    OBVIOUS
  <2> USE DEF CallTypeOK, Settled, Replies, Raised, Running, Verdicts
  <2>1. ASSUME NEW i \in Invocations, Begin(i) PROVE CallTypeOK'
    BY <2>1 DEF Begin
  <2>2. ASSUME NEW i \in Invocations, SendRequest(i) PROVE CallTypeOK'
    BY <2>2 DEF SendRequest
  <2>3. ASSUME NEW i \in Invocations, Settle(i) PROVE CallTypeOK'
    BY <2>3 DEF Settle
  <2>4. ASSUME NEW i \in Invocations, CallStops(i) PROVE CallTypeOK'
    BY <2>4 DEF CallStops
  <2>5. ASSUME NEW i \in Invocations, PollStops(i) PROVE CallTypeOK'
    BY <2>5 DEF PollStops
  <2>6. ASSUME NEW i \in Invocations, TimerFires(i) PROVE CallTypeOK'
    BY <2>6 DEF TimerFires
  <2>7. ASSUME NEW i \in Invocations, NEW v \in Verdicts, at[i] = "waiting", Leave(i, v)
        PROVE  CallTypeOK'
    BY <2>7 DEF Leave
  <2>8. ASSUME NEW i \in Invocations, Decide(i) PROVE CallTypeOK'
    BY <2>7, <2>8 DEF Decide
  <2>9. ASSUME NEW i \in Invocations, CancelCaller(i) PROVE CallTypeOK'
    BY <2>7, <2>9 DEF CancelCaller
  <2>10. ASSUME NEW i \in Invocations, CallStopped(i) PROVE CallTypeOK'
    BY <2>10 DEF CallStopped
  <2>11. ASSUME NEW i \in Invocations, PollStopped(i) PROVE CallTypeOK'
    BY <2>11 DEF PollStopped
  <2>12. CASE CancelRun
    BY <2>12 DEF CancelRun
  <2>13. CASE Close
    BY <2>13 DEF Close
  <2>14. CASE UNCHANGED callvars
    BY <2>14 DEF callvars
  <2> QED
    BY <2>1, <2>2, <2>3, <2>4, <2>5, <2>6, <2>8, <2>9, <2>10, <2>11, <2>12, <2>13, <2>14
    DEF CallNext
<1> QED
  BY <1>1, <1>2, PTL DEF CallSpec

\* An answer in hand when the wait ends is reported, and no retry is advised of it.
THEOREM AnswersAreReported == CallSpec => []AnswerWins
<1>1. CallInit => AnswerWins
  BY DEF CallInit, AnswerWins
<1>2. CallTypeOK /\ AnswerWins /\ [CallNext]_callvars => AnswerWins'
  <2> SUFFICES ASSUME CallTypeOK, AnswerWins, [CallNext]_callvars
               PROVE  AnswerWins'
    OBVIOUS
  <2> USE DEF CallTypeOK, AnswerWins, Retryable, Settled, Replies, Raised, Running
  <2>1. ASSUME NEW i \in Invocations, Begin(i) PROVE AnswerWins'
    BY <2>1 DEF Begin
  <2>2. ASSUME NEW i \in Invocations, SendRequest(i) PROVE AnswerWins'
    BY <2>2 DEF SendRequest
  <2>3. ASSUME NEW i \in Invocations, Settle(i) PROVE AnswerWins'
    BY <2>3 DEF Settle
  <2>4. ASSUME NEW i \in Invocations, CallStops(i) PROVE AnswerWins'
    BY <2>4 DEF CallStops
  <2>5. ASSUME NEW i \in Invocations, PollStops(i) PROVE AnswerWins'
    BY <2>5 DEF PollStops
  <2>6. ASSUME NEW i \in Invocations, TimerFires(i) PROVE AnswerWins'
    BY <2>6 DEF TimerFires
  <2>7. ASSUME NEW i \in Invocations, Decide(i) PROVE AnswerWins'
    BY <2>7 DEF Decide, Leave
  <2>8. ASSUME NEW i \in Invocations, CancelCaller(i) PROVE AnswerWins'
    BY <2>8 DEF CancelCaller, Leave
  <2>9. ASSUME NEW i \in Invocations, CallStopped(i) PROVE AnswerWins'
    BY <2>9 DEF CallStopped
  <2>10. ASSUME NEW i \in Invocations, PollStopped(i) PROVE AnswerWins'
    BY <2>10 DEF PollStopped
  <2>11. CASE CancelRun
    BY <2>11 DEF CancelRun
  <2>12. CASE Close
    BY <2>12 DEF Close
  <2>13. CASE UNCHANGED callvars
    BY <2>13 DEF callvars
  <2> QED
    BY <2>1, <2>2, <2>3, <2>4, <2>5, <2>6, <2>7, <2>8, <2>9, <2>10, <2>11, <2>12, <2>13
    DEF CallNext
<1> QED
  BY <1>1, <1>2, CallTypes, PTL DEF CallSpec

\* An invocation that ended left no task running, but for the poller of a caller
\* that was cancelled while its call was being stopped.
THEOREM TasksAreStopped == CallSpec => []NothingLeftRunning
<1>1. CallInit => NothingLeftRunning
  BY DEF CallInit, NothingLeftRunning
<1>2. CallTypeOK /\ NothingLeftRunning /\ [CallNext]_callvars => NothingLeftRunning'
  <2> SUFFICES ASSUME CallTypeOK, NothingLeftRunning, [CallNext]_callvars
               PROVE  NothingLeftRunning'
    OBVIOUS
  <2> USE DEF CallTypeOK, NothingLeftRunning, Settled, Replies, Raised, Running
  <2>1. ASSUME NEW i \in Invocations, Begin(i) PROVE NothingLeftRunning'
    BY <2>1 DEF Begin
  <2>2. ASSUME NEW i \in Invocations, SendRequest(i) \/ Settle(i) \/ CallStops(i)
        PROVE  NothingLeftRunning'
    BY <2>2 DEF SendRequest, Settle, CallStops
  <2>3. ASSUME NEW i \in Invocations, PollStops(i) \/ TimerFires(i) PROVE NothingLeftRunning'
    BY <2>3 DEF PollStops, TimerFires
  <2>4. ASSUME NEW i \in Invocations, Decide(i) \/ CancelCaller(i) PROVE NothingLeftRunning'
    BY <2>4 DEF Decide, CancelCaller, Leave
  <2>5. ASSUME NEW i \in Invocations, CallStopped(i) PROVE NothingLeftRunning'
    BY <2>5 DEF CallStopped
  <2>6. ASSUME NEW i \in Invocations, PollStopped(i) PROVE NothingLeftRunning'
    BY <2>6 DEF PollStopped
  <2>7. CASE CancelRun \/ Close \/ UNCHANGED callvars
    BY <2>7 DEF CancelRun, Close, callvars
  <2> QED
    BY <2>1, <2>2, <2>3, <2>4, <2>5, <2>6, <2>7 DEF CallNext
<1> QED
  BY <1>1, <1>2, CallTypes, PTL DEF CallSpec

-----------------------------------------------------------------------------
(* The client and its servers *)

\* A client does what ControlledCall says, whatever its servers do.
THEOREM RemoteIsControlled == RemoteSpec => CallSpec
<1>1. RemoteInit => CallInit
  BY DEF RemoteInit
<1>2. [RemoteNext]_remotevars => [CallNext]_callvars
  BY DEF RemoteNext, ClientStep, remotevars, Receive, StartPart, CancelRequest, RunEnds,
         RunTorn, PartLooks, PartEnds
<1> QED
  BY <1>1, <1>2, PTL DEF RemoteSpec, CallSpec

\* Hence what holds of bound tools holds of them with these servers.
THEOREM RemoteCallsAreSound == RemoteSpec => [](CallTypeOK /\ AnswerWins /\ NothingLeftRunning)
<1> QED
  BY RemoteIsControlled, CallTypes, AnswersAreReported, TasksAreStopped, PTL

\* What the server has done for a request, and what its token says, at every moment.
THEOREM ServerTypes == RemoteSpec => []ServerTypeOK
<1>1. RemoteInit => ServerTypeOK
  BY DEF RemoteInit, ServerTypeOK
<1>2. ServerTypeOK /\ [RemoteNext]_remotevars => ServerTypeOK'
  <2> SUFFICES ASSUME ServerTypeOK, [RemoteNext]_remotevars
               PROVE  ServerTypeOK'
    OBVIOUS
  <2> USE DEF ServerTypeOK, Replies
  <2>1. CASE ClientStep \/ UNCHANGED remotevars
    BY <2>1 DEF ClientStep, remotevars, servervars
  <2>2. ASSUME NEW i \in Served, Receive(i) PROVE ServerTypeOK'
    BY <2>2 DEF Receive
  <2>3. ASSUME NEW i \in Served, StartPart(i) \/ PartLooks(i) \/ PartEnds(i)
        PROVE  ServerTypeOK'
    BY <2>3 DEF StartPart, PartLooks, PartEnds
  <2>4. ASSUME NEW i \in Served, CancelRequest(i) PROVE ServerTypeOK'
    BY <2>4 DEF CancelRequest
  <2>5. ASSUME NEW i \in Served, RunEnds(i) PROVE ServerTypeOK'
    BY <2>5 DEF RunEnds
  <2>6. ASSUME NEW i \in Served, RunTorn(i) PROVE ServerTypeOK'
    <3>1. PICK p \in {part[i], FALSE} : part' = [part EXCEPT ![i] = p]
      BY <2>6 DEF RunTorn
    <3>2. part' \in [Served -> BOOLEAN] /\ \A j \in Served : j # i => part'[j] = part[j]
      BY <3>1
    <3> QED
      BY <2>6, <3>2 DEF RunTorn
  <2> QED
    BY <2>1, <2>2, <2>3, <2>4, <2>5, <2>6 DEF RemoteNext
<1> QED
  BY <1>1, <1>2, PTL DEF RemoteSpec

\* The answer in hand, and then the verdict, is good of a run that ended well.
GoodReplies ==
    \A i \in Served : call[i] = "good" \/ verdict[i] = "good" =>
        request[i] = "replied" /\ reply[i] = "good" /\ ~scope[i]

\* A client's success is the envelope of a run that ended well and was not cancelled.
THEOREM SuccessesAreRuns == RemoteSpec => []SuccessIsARun
<1>1. RemoteInit => GoodReplies
  BY ServedAssumption DEF RemoteInit, CallInit, GoodReplies
<1>2. /\ CallTypeOK /\ ServerTypeOK /\ GoodReplies /\ [RemoteNext]_remotevars
      => GoodReplies'
  <2> SUFFICES ASSUME CallTypeOK, ServerTypeOK, GoodReplies, [RemoteNext]_remotevars,
                      NEW j \in Served, call'[j] = "good" \/ verdict'[j] = "good"
               PROVE  request'[j] = "replied" /\ reply'[j] = "good" /\ ~scope'[j]
    BY DEF GoodReplies
  <2> USE ServedAssumption DEF Replies
  <2>1. CASE ClientStep
    <3>1. UNCHANGED <<request, reply, scope>>
      BY <2>1 DEF ClientStep, servervars
    <3>2. reply[j] = "good" => request[j] = "replied" /\ ~scope[j]
      BY DEF ServerTypeOK
    <3>3. call'[j] = "good" => call[j] = "good" \/ call[j] = "sent"
      BY <2>1 DEF ClientStep, CallNext, CallTypeOK, Begin, SendRequest, Settle, CallStops,
             PollStops, TimerFires, Decide, CancelCaller, Leave, CallStopped, PollStopped,
             CancelRun, Close, Running, Settled, Raised
    <3>4. verdict'[j] = "good" => verdict[j] = "good" \/ call[j] = "good"
      BY <2>1 DEF ClientStep, CallNext, CallTypeOK, Begin, SendRequest, Settle, CallStops,
             PollStops, TimerFires, Decide, CancelCaller, Leave, CallStopped, PollStopped,
             CancelRun, Close, Running, Settled, Raised
    <3>5. call[j] = "sent" /\ call'[j] = "good" => reply[j] = "good"
      BY <2>1 DEF ClientStep, Delivered
    <3> QED
      BY <3>1, <3>2, <3>3, <3>4, <3>5 DEF GoodReplies
  <2>2. CASE ~ClientStep
    <3>1. UNCHANGED callvars
      BY <2>2 DEF RemoteNext, remotevars, Receive, StartPart, CancelRequest, RunEnds,
             RunTorn, PartLooks, PartEnds
    <3>2. request[j] = "replied" /\ reply[j] = "good" /\ ~scope[j]
      BY <3>1 DEF callvars, GoodReplies
    <3> QED
      BY <2>2, <3>2 DEF RemoteNext, remotevars, servervars, ServerTypeOK, Receive, StartPart,
             CancelRequest, RunEnds, RunTorn, PartLooks, PartEnds
  <2> QED
    BY <2>1, <2>2
<1>3. GoodReplies => SuccessIsARun
  BY DEF GoodReplies, SuccessIsARun
<1> QED
  BY <1>1, <1>2, <1>3, ServerTypes, RemoteCallsAreSound, PTL DEF RemoteSpec

=============================================================================
