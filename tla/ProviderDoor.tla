---------------------------- MODULE ProviderDoor ----------------------------
(***************************************************************************)
(* The provider door of one run (Gatekeeper.provider_call): every governed *)
(* LLM call of the tree passes it.  A call is refused when a fuse has      *)
(* tripped or is due, waits for a chair of the run-wide room, re-checks    *)
(* the fuses, is admitted, and settles when its block exits.               *)
(*                                                                         *)
(* asyncio runs one task at a time, so an action is what a task does from  *)
(* one await to the next.  Calls is the set of provider_call invocations   *)
(* of a run; they arrive in any order and number, which covers every shape *)
(* of tree above the door.  Money is in integer units.                     *)
(***************************************************************************)
EXTENDS Pricing, FiniteSets, SequencesExt

CONSTANTS
    Calls,          \* the provider_call invocations of the run
    RequestOf,      \* what each call brings: its catalog entry and its grant
    Usages,         \* the token usages a provider may report
    MaxLlmCalls,    \* call-count fuse, or NoLimit
    SpendLimit,     \* spend fuse, or NoLimit
    TimeLimited,    \* whether a time limit was set
    Concurrency,    \* chairs in the room
    MaxCost,        \* bound on the cost of one call (in properties only)
    NoLimit

Request == [in_price : Price, out_price : Price,
            keyed : BOOLEAN,        \* the endpoint's API key is present
            granted : BOOLEAN]      \* the node carries a dollar grant

NoTrip == "none"
Fuses == {"llm_calls", "time", "spend"}

ASSUME CallsAssumption == IsFiniteSet(Calls)
ASSUME RequestAssumption == RequestOf \in [Calls -> Request]
ASSUME UsageAssumption == Usages \subseteq Usage /\ NoUsage \notin Usages
ASSUME LimitAssumption ==
    /\ MaxLlmCalls \in (Nat \ {0}) \cup {NoLimit}
    /\ SpendLimit \in Nat \cup {NoLimit}
    /\ Concurrency \in Nat \ {0}
    /\ TimeLimited \in BOOLEAN
    /\ NoLimit \notin Nat

VARIABLES
    pc,                 \* where each call is
    frame,              \* calls_before and spend_before, taken at admission
    value,              \* the room's free chairs (Semaphore._value)
    waiters,            \* the room's queue (Semaphore._waiters)
    calls_admitted,
    observed_spend,
    tripped,            \* the fuse that tripped first, or NoTrip
    spend_at_trip,
    settled_after_trip,
    deadline_passed,    \* time.monotonic() has reached the deadline
    calls               \* the provider-call log, one row per settled or refused call

room == <<value, waiters>>
breaker == <<tripped, spend_at_trip, settled_after_trip>>
vars == <<pc, frame, value, waiters, calls_admitted, observed_spend, tripped,
          spend_at_trip, settled_after_trip, deadline_passed, calls>>

Stages == {"new",
           "waiting",       \* its future is pending in the queue
           "woken",         \* its future is done: it owns a chair, not yet run
           "withdrawn",     \* its task was cancelled while waiting
           "revoked",       \* its task was cancelled after being woken
           "inflight",      \* admitted: the provider works on it
           "done"}
Frame == [calls_before : Nat, spend_before : Nat]
Row == [call : Calls, status : {"completed", "failed", "refused"},
        cost : Nat, calls_before : Nat, spend_before : Nat]

In(stage) == {c \in Calls : pc[c] = stage}
\* The calls that own a chair: it is theirs from the moment they are woken.
Seated == {c \in Calls : pc[c] \in {"woken", "revoked", "inflight"}}

-----------------------------------------------------------------------------
(* Money *)

ASSUME CostAssumption ==
    /\ MaxCost \in Nat
    /\ \A c \in Calls : \A u \in Usages \cup {NoUsage} : cost_usd(RequestOf[c], u) <= MaxCost

\* Dollars are counted for the node, or for the run.
Accounted(r) == r.granted \/ SpendLimit # NoLimit

-----------------------------------------------------------------------------
(* Fuses *)

\* Strictly past: spending exactly the budget is within budget.
SpendDue(spend) == SpendLimit # NoLimit /\ spend > SpendLimit

\* Bug: the count fuse fires one call late.
DueFuseOffByOne ==
    IF tripped # NoTrip THEN tripped
    ELSE IF MaxLlmCalls # NoLimit /\ calls_admitted > MaxLlmCalls THEN "llm_calls"
    ELSE IF deadline_passed THEN "time"
    ELSE IF SpendDue(observed_spend) THEN "spend" ELSE NoTrip
\* The fuse that refuses the next call: the tripped one, else the first due.
DueFuse ==
    IF tripped # NoTrip THEN tripped
    ELSE IF MaxLlmCalls # NoLimit /\ calls_admitted >= MaxLlmCalls THEN "llm_calls"
    ELSE IF deadline_passed THEN "time"
    ELSE IF SpendDue(observed_spend) THEN "spend" ELSE NoTrip

\* Bug: a later trip takes the story over.
TripLastWins(fuse, spend) ==
    /\ tripped' = fuse /\ spend_at_trip' = spend /\ settled_after_trip' = 0
\* First trip wins.
Trip(fuse, spend) ==
    IF tripped # NoTrip THEN UNCHANGED breaker
    ELSE /\ tripped' = fuse
         /\ spend_at_trip' = spend
         /\ settled_after_trip' = 0

\* The refused call: the fuse trips and the refusal is logged.
Refuse(c) ==
    /\ DueFuse # NoTrip
    /\ Trip(DueFuse, observed_spend)
    /\ calls' = Append(calls, [call |-> c, status |-> "refused", cost |-> 0,
                               calls_before |-> calls_admitted,
                               spend_before |-> observed_spend])
    /\ UNCHANGED <<frame, calls_admitted, observed_spend, deadline_passed>>

\* Admission: snapshot, count, take the ticket.
Admit(c) ==
    /\ DueFuse = NoTrip
    /\ frame' = [frame EXCEPT ![c] = [calls_before |-> calls_admitted,
                                      spend_before |-> observed_spend]]
    /\ calls_admitted' = calls_admitted + 1
    /\ UNCHANGED <<observed_spend, breaker, deadline_passed, calls>>

-----------------------------------------------------------------------------
(* The room: asyncio.Semaphore *)

\* Bug: only the queue holds newcomers back.
LockedByQueueAlone == In("waiting") \cup In("woken") \cup In("revoked") # {}
\* A woken or cancelled waiter leaves the queue only when its task runs; one
\* that was cancelled while pending no longer holds newcomers back.
Locked == value = 0 \/ In("waiting") \cup In("woken") \cup In("revoked") # {}

Ahead(c, d) == \E i, j \in DOMAIN waiters : i < j /\ waiters[i] = c /\ waiters[j] = d

\* Bug: the newest waiter first.
WokenNewestFirst(most, W) ==
    /\ W \subseteq In("waiting")
    /\ Cardinality(W) <= most
    /\ Cardinality(W) = most \/ W = In("waiting")
    /\ \A c \in W : \A d \in In("waiting") \ W : Ahead(d, c)
\* The waiters woken, oldest first, when most of them may be.
Woken(most, W) ==
    /\ W \subseteq In("waiting")
    /\ Cardinality(W) <= most
    /\ Cardinality(W) = most \/ W = In("waiting")
    /\ \A c \in W : \A d \in In("waiting") \ W : Ahead(c, d)

\* Bug: a chair is returned and nobody is told.
HandOverSilently(free, most, W) == W = {} /\ value' = free
\* free chairs are at hand; up to most of them go straight to waiters.
HandOver(free, most, W) == Woken(most, W) /\ value' = free - Cardinality(W)

\* c runs and moves on to stage; the waiters W become woken.
Move(c, stage, W) ==
    pc' = [d \in Calls |-> IF d = c THEN stage ELSE IF d \in W THEN "woken" ELSE pc[d]]

LeaveQueue(c) ==
    \E i \in DOMAIN waiters :
        /\ waiters[i] = c
        /\ waiters' = SubSeq(waiters, 1, i - 1) \o SubSeq(waiters, i + 1, Len(waiters))

-----------------------------------------------------------------------------
(* Actions *)

Init ==
    /\ pc = [c \in Calls |-> "new"]
    /\ frame = [c \in Calls |-> [calls_before |-> 0, spend_before |-> 0]]
    /\ value = Concurrency
    /\ waiters = <<>>
    /\ calls_admitted = 0
    /\ observed_spend = 0
    /\ tripped = NoTrip
    /\ spend_at_trip = 0
    /\ settled_after_trip = 0
    /\ deadline_passed = FALSE
    /\ calls = <<>>

\* The clock reaches the deadline.
DeadlinePasses ==
    /\ TimeLimited /\ ~deadline_passed
    /\ deadline_passed' = TRUE
    /\ UNCHANGED <<pc, frame, room, calls_admitted, observed_spend, breaker, calls>>

\* Dispatch's seam: the time fuse fires between LLM calls too.
CheckTime ==
    /\ tripped = NoTrip /\ deadline_passed
    /\ Trip("time", observed_spend)
    /\ UNCHANGED <<pc, frame, room, calls_admitted, observed_spend, deadline_passed, calls>>

\* A call comes to the door and is refused at once.
RefuseOnArrival(c) ==
    /\ pc[c] = "new"
    /\ Refuse(c)
    /\ Move(c, "done", {})
    /\ UNCHANGED room

\* No API key: the call fails before it takes a chair, and logs no row.
FailWithoutKey(c) ==
    /\ pc[c] = "new"
    /\ DueFuse = NoTrip
    /\ ~RequestOf[c].keyed
    /\ Move(c, "done", {})
    /\ UNCHANGED <<frame, room, calls_admitted, observed_spend, breaker, deadline_passed, calls>>

\* A chair is free and nobody waits: no await between arrival and admission.
AdmitOnArrival(c) ==
    /\ pc[c] = "new"
    /\ RequestOf[c].keyed
    /\ ~Locked
    /\ Admit(c)
    /\ value' = value - 1
    /\ Move(c, "inflight", {})
    /\ UNCHANGED waiters

\* The call queues for a chair.
Wait(c) ==
    /\ pc[c] = "new"
    /\ DueFuse = NoTrip
    /\ RequestOf[c].keyed
    /\ Locked
    /\ waiters' = Append(waiters, c)
    /\ Move(c, "waiting", {})
    /\ UNCHANGED <<frame, value, calls_admitted, observed_spend, breaker, deadline_passed, calls>>

\* Bug: the call is admitted on the check it made before it queued.
AdmitAfterWaitUnchecked(c, W) ==
    /\ pc[c] = "woken"
    /\ LeaveQueue(c)
    /\ HandOver(value, value, W)
    /\ frame' = [frame EXCEPT ![c] = [calls_before |-> calls_admitted,
                                      spend_before |-> observed_spend]]
    /\ calls_admitted' = calls_admitted + 1
    /\ Move(c, "inflight", W)
    /\ UNCHANGED <<observed_spend, breaker, deadline_passed, calls>>
\* A woken call re-checks the fuses and is admitted.
AdmitAfterWait(c, W) ==
    /\ pc[c] = "woken"
    /\ LeaveQueue(c)
    /\ HandOver(value, value, W)
    /\ Admit(c)
    /\ Move(c, "inflight", W)

\* A woken call finds that a fuse tripped while it waited: it is refused and
\* gives its chair back.
RefuseAfterWait(c, W) ==
    /\ pc[c] = "woken"
    /\ LeaveQueue(c)
    /\ Refuse(c)
    /\ HandOver(value + 1, value + 1, W)
    /\ Move(c, "done", W)

\* The task of a queued call is cancelled: the future is, unless already done.
CancelQueued(c) ==
    /\ pc[c] \in {"waiting", "woken"}
    /\ Move(c, IF pc[c] = "waiting" THEN "withdrawn" ELSE "revoked", {})
    /\ UNCHANGED <<frame, room, calls_admitted, observed_spend, breaker, deadline_passed, calls>>

\* Bug: the chair handed to a task that is then cancelled is lost.
LeaveCancelledKeepingChair(c, W) ==
    /\ pc[c] \in {"withdrawn", "revoked"}
    /\ LeaveQueue(c)
    /\ HandOver(value, value, W)
    /\ Move(c, "done", W)
    /\ UNCHANGED <<frame, calls_admitted, observed_spend, breaker, deadline_passed, calls>>
\* The cancelled task runs: it leaves the queue, and a chair it had been handed
\* goes to the next waiter.
LeaveCancelled(c, W) ==
    /\ pc[c] \in {"withdrawn", "revoked"}
    /\ LeaveQueue(c)
    /\ LET free == IF pc[c] = "revoked" THEN value + 1 ELSE value
       IN  HandOver(free, free, W)
    /\ Move(c, "done", W)
    /\ UNCHANGED <<frame, calls_admitted, observed_spend, breaker, deadline_passed, calls>>

\* Bug: only completed calls get a row.
LogCompletedOnly(c, cost, failed) ==
    calls' = IF failed THEN calls
             ELSE Append(calls, [call |-> c, status |-> "completed", cost |-> cost,
                                 calls_before |-> frame[c].calls_before,
                                 spend_before |-> frame[c].spend_before])
LogSettled(c, cost, failed) ==
    calls' = Append(calls, [call |-> c,
                            status |-> IF failed THEN "failed" ELSE "completed",
                            cost |-> cost,
                            calls_before |-> frame[c].calls_before,
                            spend_before |-> frame[c].spend_before])

\* Bug: the spend fuse is only read at the next admission.
BreakerWithoutTrip(spend) ==
    /\ settled_after_trip' = settled_after_trip + (IF tripped # NoTrip THEN 1 ELSE 0)
    /\ UNCHANGED <<tripped, spend_at_trip>>
\* Bug: the call that trips the fuse counts as one that was in flight at the trip.
BreakerCountsTripper(spend) ==
    /\ tripped' = IF tripped = NoTrip /\ SpendDue(spend) THEN "spend" ELSE tripped
    /\ spend_at_trip' = IF tripped = NoTrip /\ SpendDue(spend) THEN spend ELSE spend_at_trip
    /\ settled_after_trip' = settled_after_trip + (IF tripped' # NoTrip THEN 1 ELSE 0)
\* A call that settles after the trip is counted; otherwise the spend fuse is read.
BreakerAtSettle(spend) ==
    IF tripped # NoTrip
    THEN /\ settled_after_trip' = settled_after_trip + 1
         /\ UNCHANGED <<tripped, spend_at_trip>>
    ELSE IF SpendDue(spend) THEN Trip("spend", spend) ELSE UNCHANGED breaker

\* The books of one settled call: total, row, and the spend fuse.
Book(c, u, failed) ==
    LET cost == cost_usd(RequestOf[c], u)
    IN  /\ observed_spend' = observed_spend + cost
        /\ LogSettled(c, cost, failed)
        /\ BreakerAtSettle(observed_spend + cost)
        /\ UNCHANGED <<frame, calls_admitted, deadline_passed>>

\* The block around an admitted call exits, by its own end, by an exception or
\* by cancellation (raised): the chair is released and the call settles, all
\* before any waiter runs.
Settle(c, u, raised, W) ==
    /\ pc[c] = "inflight"
    /\ HandOver(value + 1, 1, W)
    /\ Book(c, u, raised \/ Unmeterable(RequestOf[c], u, Accounted(RequestOf[c])))
    /\ Move(c, "done", W)
    /\ UNCHANGED waiters

Next ==
    \/ DeadlinePasses
    \/ CheckTime
    \/ \E c \in Calls :
          \/ RefuseOnArrival(c)
          \/ FailWithoutKey(c)
          \/ AdmitOnArrival(c)
          \/ Wait(c)
          \/ CancelQueued(c)
          \/ \E W \in SUBSET In("waiting") :
                \/ AdmitAfterWait(c, W)
                \/ RefuseAfterWait(c, W)
                \/ LeaveCancelled(c, W)
                \/ \E u \in Usages \cup {NoUsage}, raised \in BOOLEAN :
                      Settle(c, u, raised, W)

Spec == Init /\ [][Next]_vars

-----------------------------------------------------------------------------
(* Properties *)

\* Type correctness; value \in Nat says that no chair is taken twice.
TypeOK ==
    /\ pc \in [Calls -> Stages]
    /\ frame \in [Calls -> Frame]
    /\ value \in Nat
    /\ waiters \in Seq(Calls)
    /\ calls_admitted \in Nat
    /\ observed_spend \in Nat
    /\ tripped \in Fuses \cup {NoTrip}
    /\ spend_at_trip \in Nat
    /\ settled_after_trip \in Nat
    /\ deadline_passed \in BOOLEAN
    /\ calls \in Seq(Row)

\* Chairs are neither lost nor minted, whatever is refused, raised or cancelled
\* while it waits, is handed a chair or holds one: provider calls in flight stay
\* within the room (provider_call's async with, Semaphore's hand-over).
ChairsConserved == value + Cardinality(Seated) = Concurrency

\* A chair is idle beside a waiting call only while a woken task is about to run,
\* and that task passes the chair on (no lost wakeup in the room).
NoIdleChair ==
    value > 0 /\ In("waiting") # {} => In("woken") \cup In("revoked") # {}

\* The room of provider_call: no chair is lost, minted or left idle.
RoomSound == ChairsConserved /\ NoIdleChair

\* The call-count fuse admits max_llm_calls calls and no more, also when more
\* than that passed the first check and queued for a chair, and it speaks only
\* when they all were admitted (_refuse_if_due, re-checked after the wait).
CallLimitHolds ==
    /\ MaxLlmCalls # NoLimit => calls_admitted <= MaxLlmCalls
    /\ tripped = "llm_calls" => calls_admitted = MaxLlmCalls

\* The log is an account of the fuses: each settled row carries the counters it
\* was admitted on, no two the same count, all within the limits.
AdmittedWithinFuses ==
    \A i \in DOMAIN calls : calls[i].status # "refused" =>
        /\ MaxLlmCalls # NoLimit => calls[i].calls_before < MaxLlmCalls
        /\ ~SpendDue(calls[i].spend_before)
        /\ \A j \in DOMAIN calls : j # i /\ calls[j].status # "refused" =>
              calls[j].calls_before # calls[i].calls_before

\* What the given rows of the log cost together.
CostOf(rows) == SumFunctionOnSet([i \in DOMAIN calls |-> calls[i].cost], rows)

Settled == {i \in DOMAIN calls : calls[i].status # "refused"}

\* Every dollar is reported: the run's total is the sum of the rows, and a call
\* that was admitted is in flight or has exactly one row (the settle in finally).
EveryDollarLogged ==
    /\ observed_spend = CostOf(DOMAIN calls)
    /\ calls_admitted = Cardinality(Settled) + Cardinality(In("inflight"))
    /\ \A i \in DOMAIN calls : pc[calls[i].call] = "done"
    /\ \A i, j \in DOMAIN calls : calls[i].call = calls[j].call => i = j

\* What a halted run reports adds up: the calls that completed after the trip, the
\* latest settled_after_trip of the log, account for what the total grew by since
\* (final_error's numbers).
HaltStoryAddsUp ==
    tripped # NoTrip =>
        \E k \in 0..Len(calls) :
            LET late == {i \in Settled : i > k}
            IN  /\ Cardinality(late) = settled_after_trip
                /\ observed_spend - spend_at_trip = CostOf(late)

\* The run's books: the log against the fuses, the total and the story of the halt.
BooksAddUp == AdmittedWithinFuses /\ EveryDollarLogged /\ HaltStoryAddsUp

\* After a trip at most one room of calls settles, so spending, with what the
\* calls in flight may still cost, passes the limit by one room of calls at most
\* (overshoot is bounded in calls, not dollars).
OvershootBounded ==
    /\ tripped = NoTrip => settled_after_trip = 0 /\ ~SpendDue(observed_spend)
    /\ tripped # NoTrip =>
          settled_after_trip + Cardinality(In("inflight")) <= Concurrency
    /\ SpendLimit # NoLimit =>
          observed_spend + MaxCost * Cardinality(In("inflight"))
             <= SpendLimit + MaxCost * Concurrency

\* A trip is final: the first fuse keeps the story and nothing is admitted.
HaltIsFinal ==
    [][tripped # NoTrip =>
         /\ tripped' = tripped
         /\ spend_at_trip' = spend_at_trip
         /\ calls_admitted' = calls_admitted]_vars

\* The room is fair: a call that is admitted passes no call that waits longer.
NoOvertaking ==
    [][\A c, d \in Calls :
         /\ pc[c] # "inflight" /\ pc'[c] = "inflight"
         /\ pc[d] = "waiting" /\ c # d
         => Ahead(c, d)]_vars

-----------------------------------------------------------------------------
(* What the door promises: the metered run. *)

Meter == INSTANCE RunMeter WITH
    open <- In("inflight"), admitted <- calls_admitted,
    spent <- observed_spend, halted <- tripped # NoTrip

\* The door implements the metered run.
MeterSpec == Meter!Spec

=============================================================================
