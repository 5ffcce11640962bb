------------------------------ MODULE Dispatch ------------------------------
(***************************************************************************)
(* A run's tree of dispatches above the provider door (dispatch() and      *)
(* run_commission): a node starts or is refused, makes its provider calls, *)
(* awaits its children, returns or raises, is registered and recorded; the *)
(* root also writes the run's logs and may rewrite its failure into the    *)
(* run's halt.                                                             *)
(*                                                                         *)
(* What a node's own code decides is left open.  An LLM node does one thing *)
(* at a time, a provider call or one child, and stops at a refused call; a *)
(* custom node may gather, may raise, and may go on after a refusal.       *)
(***************************************************************************)
EXTENDS ProviderDoor

CONSTANTS
    Nodes, Root,
    Parent,         \* of every node but Root
    NodeOf,         \* the node that makes each call
    Custom,         \* nodes with a _run of their author's
    Structured,     \* authors await every child before they return or raise
    HasBackend,     \* the backend offers store_calls
    Tokens,         \* nodes that may be handed a token of their own, or the caller's
    Abandoned,      \* nodes a custom parent may cancel
    Receipts        \* what a custom author who does not sum up may report

ASSUME TreeAssumption ==
    /\ IsFiniteSet(Nodes) /\ Root \in Nodes
    /\ Parent \in [Nodes \ {Root} -> Nodes]
    /\ NodeOf \in [Calls -> Nodes]
    /\ Custom \subseteq Nodes /\ Tokens \subseteq Nodes
    /\ Abandoned \subseteq {n \in Nodes \ {Root} : Parent[n] \in Custom}
    /\ Structured \in BOOLEAN /\ HasBackend \in BOOLEAN
    /\ Receipts \subseteq Nat

VARIABLES
    phase,              \* where each dispatch is
    result,             \* the envelope of each dispatch, once it has one
    asked,              \* nodes whose caller token is set
    cancelled,          \* nodes whose task was cancelled
    dispatches,         \* the register, one row per dispatch
    log_persistence,    \* what became of the call log
    persisted           \* how many of its rows were written

tree == <<phase, result, asked, cancelled, dispatches, log_persistence, persisted>>
allvars == <<vars, tree>>

Phases == {"new", "running",
           "logging",       \* the root: awaits store_calls
           "registering",   \* the root: awaits store_dispatches
           "recording",     \* awaits the record's store
           "done",
           "torn"}          \* unwound by the cancellation of its task

\* How a cost came about: summed from the turns counted and the envelopes received,
\* a backstop's floor, or whatever a custom author thought fit.
AccountKinds == {"summed", "floor", "freely"}
Envelope == [status : {"success", "failure"},
             kind : {"none", "cancelled", "internal", "budget_exceeded", "run_halted"},
             breaker_born : BOOLEAN, cost : Nat, account : AccountKinds]
NoResult == [status |-> "success", kind |-> "none", breaker_born |-> FALSE,
             cost |-> 0, account |-> "floor"]

Children(n) == {m \in Nodes \ {Root} : Parent[m] = n}
Subtree == [n \in Nodes |-> {m \in Nodes :
    \A S \in SUBSET Nodes :
        n \in S /\ (\A k \in S : Children(k) \subseteq S) => m \in S}]

Busy == {n \in Nodes : phase[n] \notin {"new", "done", "torn"}}
AtDoor(n) == {c \in Calls : NodeOf[c] = n /\ pc[c] \notin {"new", "done"}}
\* Everything n started has come back.
Awaited(n) == AtDoor(n) = {} /\ Children(n) \cap Busy = {}

-----------------------------------------------------------------------------
(* What the run knows *)

\* The rows of the log that the calls of the given nodes left.
Rows(nodes) == {i \in DOMAIN calls : NodeOf[calls[i].call] \in nodes}
\* A node's own settled calls, as the door charged them.
settled_spend_usd(n) == CostOf(Rows({n}))
\* As the node counts them: by their replies' tokens.  A call that the door charged
\* and then refused, or that failed once its usage was known, gave it no reply.
Counted(nodes) == {i \in Rows(nodes) : calls[i].status = "completed"}
counted_usd(n) == CostOf(Counted({n}))

Registered == {dispatches[i].node : i \in DOMAIN dispatches}
\* n and what its register rows lead to.
Edges(n) == {m \in Subtree[n] :
    \A k \in Subtree[n] \ {n} : m \in Subtree[k] => k \in Registered}
subtree_spend_usd(n) == CostOf(Rows(Edges(n)))

\* A call of n was turned away by the stop signal.
Halted(n) == \E i \in DOMAIN calls :
    calls[i].status = "refused" /\ NodeOf[calls[i].call] = n

\* n's own code has the word, and may start something new.
Acting(n) ==
    /\ phase[n] = "running" /\ n \notin cancelled
    /\ n \in Custom \/ (Awaited(n) /\ ~Halted(n))

\* Bug: a node reports its own calls alone.
RollupCallsOnly(n) == counted_usd(n)
\* The calls that n counted and the envelopes it was handed.
Rollup(n) ==
    counted_usd(n)
        + SumFunctionOnSet([m \in Nodes |-> result[m].cost],
                           {m \in Children(n) : phase[m] = "done"})

Success(n) == [status |-> "success", kind |-> "none", breaker_born |-> FALSE,
               cost |-> Rollup(n), account |-> "summed"]
Failure(n, kind, born) == [status |-> "failure", kind |-> kind, breaker_born |-> born,
                           cost |-> Rollup(n), account |-> "summed"]
\* The envelope of a _run that raised: a floor, without the children's spend.
Backstop(n, kind, born) ==
    [Failure(n, kind, born) EXCEPT !.cost = settled_spend_usd(n), !.account = "floor"]
Refusal == [NoResult EXCEPT !.status = "failure", !.kind = "cancelled",
                            !.breaker_born = TRUE]

\* Bug: the stamp goes on every exit at a checkpoint.
CheckpointAlwaysBorn(n) == Failure(n, "cancelled", TRUE)
\* A cancellation checkpoint: the breaker's doing only when the caller's token is not set.
Checkpoint(n) == Failure(n, "cancelled", n \notin asked)

\* "internal" stands for every failure of the node's own making.
OwnEnd(n) == {Success(n), Failure(n, "internal", FALSE)}
Stopped(n) == tripped # NoTrip \/ n \in asked
\* Only the framework stamps, so a custom node's own stop carries none; it may pass a
\* child's failure on, stamp and all.
CustomEnd(n) ==
    OwnEnd(n)
    \cup (IF Stopped(n) THEN {Failure(n, "cancelled", FALSE)} ELSE {})
    \cup {Failure(n, result[m].kind, result[m].breaker_born) :
             m \in {k \in Children(n) : phase[k] = "done" /\ result[k].status = "failure"}}
\* An LLM node, whose loop knows which signal stopped it.
LlmEnd(n) ==
    IF Halted(n) THEN {Failure(n, "cancelled", TRUE)}
    ELSE OwnEnd(n) \cup {Failure(n, "budget_exceeded", FALSE)}
         \cup (IF Stopped(n) THEN {Checkpoint(n)} ELSE {})
Freely(envelope, usd) == [envelope EXCEPT !.cost = usd, !.account = "freely"]
\* A custom author is to sum up, and nothing makes it.
FreelyEnd(n) ==
    {Freely(envelope, usd) : envelope \in CustomEnd(n), usd \in Receipts}
\* What n's code may return.
Returns(n) == IF n \in Custom THEN CustomEnd(n) \cup FreelyEnd(n) ELSE LlmEnd(n)
\* What the backstops make of an exception: of the door's refusal, of any other.
Raises(n) ==
    {Backstop(n, "internal", FALSE)}
    \cup (IF Halted(n) THEN {Backstop(n, "cancelled", TRUE)} ELSE {})

-----------------------------------------------------------------------------
(* Steps of a dispatch *)

TreeInit ==
    /\ Init
    /\ phase = [n \in Nodes |-> "new"]
    /\ result = [n \in Nodes |-> NoResult]
    /\ asked = {} /\ cancelled = {}
    /\ dispatches = <<>>
    /\ log_persistence = "unavailable" /\ persisted = 0

\* Bug: a fuse that tripped before is overwritten.
CheckTimeAnew ==
    /\ tripped' = IF deadline_passed THEN "time" ELSE tripped
    /\ UNCHANGED <<spend_at_trip, settled_after_trip, pc, frame, room, calls_admitted,
                   observed_spend, deadline_passed, calls>>
\* The time fuse's second seam.
check_time ==
    /\ IF deadline_passed THEN Trip("time", observed_spend) ELSE UNCHANGED breaker
    /\ UNCHANGED <<pc, frame, room, calls_admitted, observed_spend, deadline_passed, calls>>

\* dispatch(n) is called: by run_commission, or by its parent's code.
Invoked(n) == phase[n] = "new" /\ (n # Root => Acting(Parent[n]))

\* Bug: the row speaks the kind of the error.
RegisterKind(n, envelope, refused) ==
    dispatches' = Append(dispatches,
        [node |-> n, status |-> IF refused THEN "refused" ELSE envelope.kind])
\* Bug: a refused dispatch gets no row.
RegisterRunsOnly(n, envelope, refused) ==
    dispatches' = IF refused THEN dispatches
                  ELSE Append(dispatches, [node |-> n, status |-> envelope.status])
Register(n, envelope, refused) ==
    dispatches' = Append(dispatches,
        [node |-> n, status |-> IF refused THEN "refused" ELSE envelope.status])

\* The envelope is stamped and registered; the root goes on to write the logs.
SettleDispatch(n, envelope, refused) ==
    /\ result' = [result EXCEPT ![n] = envelope]
    /\ Register(n, envelope, refused)
    /\ phase' = [phase EXCEPT ![n] = IF n = Root THEN "logging" ELSE "recording"]
    /\ UNCHANGED <<asked, cancelled, log_persistence, persisted>>

\* Bug: a dispatch starts whatever the fuses say.
StartUnchecked(n) ==
    /\ Invoked(n)
    /\ check_time
    /\ phase' = [phase EXCEPT ![n] = "running"]
    /\ UNCHANGED <<result, asked, cancelled, dispatches, log_persistence, persisted>>
Start(n) ==
    /\ Invoked(n)
    /\ check_time
    /\ tripped' = NoTrip
    /\ phase' = [phase EXCEPT ![n] = "running"]
    /\ UNCHANGED <<result, asked, cancelled, dispatches, log_persistence, persisted>>

\* Refuse-after-halt: nothing new starts.
RefuseDispatch(n) ==
    /\ Invoked(n)
    /\ check_time
    /\ tripped' # NoTrip
    /\ SettleDispatch(n, Refusal, TRUE)

\* n's _run returns.
Return(n) ==
    /\ phase[n] = "running" /\ n \notin cancelled /\ Awaited(n)
    /\ \E envelope \in Returns(n) : SettleDispatch(n, envelope, FALSE)
    /\ UNCHANGED vars

\* n's _run raises; gathered children may still run when their author let go of them.
Raise(n) ==
    /\ n \in Custom /\ Acting(n)
    /\ Structured => Awaited(n)
    /\ \E envelope \in Raises(n) : SettleDispatch(n, envelope, FALSE)
    /\ UNCHANGED vars

\* The root writes the provider-call log, or fails to.
PersistCallLog ==
    /\ phase[Root] = "logging"
    /\ \/ /\ calls = <<>>
          /\ log_persistence' = "no_calls" /\ UNCHANGED persisted
       \/ /\ calls # <<>> /\ ~HasBackend
          /\ log_persistence' = "unavailable" /\ UNCHANGED persisted
       \/ /\ calls # <<>> /\ HasBackend
          /\ log_persistence' = "failed" /\ UNCHANGED persisted
       \/ /\ calls # <<>> /\ HasBackend
          /\ log_persistence' = "persisted" /\ persisted' = Len(calls)
    /\ phase' = [phase EXCEPT ![Root] = "registering"]
    /\ UNCHANGED <<vars, result, asked, cancelled, dispatches>>

\* Did this root failure descend from the fuse trip?
trip_descended(envelope) ==
    \/ envelope.breaker_born
    \/ envelope.kind = "budget_exceeded" /\ tripped = "spend"

\* Bug: the halted root keeps the cost it was handed.
RewriteKeepingCost(envelope) ==
    IF tripped # NoTrip /\ envelope.status = "failure" /\ trip_descended(envelope)
    THEN [envelope EXCEPT !.kind = "run_halted"]
    ELSE envelope
\* The root alone speaks run_halted, with the true total.
Rewrite(envelope) ==
    IF tripped # NoTrip /\ envelope.status = "failure" /\ trip_descended(envelope)
    THEN [envelope EXCEPT !.kind = "run_halted", !.cost = observed_spend]
    ELSE envelope

\* The register is written and the root's story is settled.
PersistDispatchLog ==
    /\ phase[Root] = "registering"
    /\ result' = [result EXCEPT ![Root] = Rewrite(result[Root])]
    /\ phase' = [phase EXCEPT ![Root] = "recording"]
    /\ UNCHANGED <<vars, asked, cancelled, dispatches, log_persistence, persisted>>

\* The record is stored, or not, and the envelope goes to the caller.
HandBack(n) ==
    /\ phase[n] = "recording" /\ n \notin cancelled
    /\ phase' = [phase EXCEPT ![n] = "done"]
    /\ UNCHANGED <<vars, result, asked, cancelled, dispatches, log_persistence, persisted>>

\* The caller, or a coordinator for one branch, sets its token (at most one does).
AskStop(n) ==
    /\ n \in Tokens /\ asked = {} /\ phase[Root] = "running"
    /\ asked' = Subtree[n]
    /\ UNCHANGED <<vars, phase, result, cancelled, dispatches, log_persistence, persisted>>

\* A custom parent gives up on n, and everything n awaits is cancelled with it.
CancelTask(n) ==
    /\ n \in (Abandoned \cap Busy) \ cancelled
    /\ phase[Parent[n]] = "running" /\ Parent[n] \notin cancelled
    /\ cancelled' = cancelled \cup (Subtree[n] \cap Busy)
    /\ UNCHANGED <<vars, phase, result, asked, dispatches, log_persistence, persisted>>

\* CancelledError is no Exception: it passes the backstop, no row, no record.
Tear(n) ==
    /\ n \in cancelled /\ n \in Busy /\ Awaited(n)
    /\ phase' = [phase EXCEPT ![n] = "torn"]
    /\ UNCHANGED <<vars, result, asked, cancelled, dispatches, log_persistence, persisted>>

\* A call at the door.
Call(c) ==
    LET n == NodeOf[c]
    IN  /\ \/ pc[c] = "new" /\ Acting(n)
                /\ (RefuseOnArrival(c) \/ FailWithoutKey(c) \/ AdmitOnArrival(c) \/ Wait(c))
           \/ n \in cancelled /\ CancelQueued(c)
           \/ \E W \in SUBSET In("waiting") :
                 \/ n \notin cancelled /\ (AdmitAfterWait(c, W) \/ RefuseAfterWait(c, W))
                 \/ LeaveCancelled(c, W)
                 \/ \E u \in Usages \cup {NoUsage}, raised \in BOOLEAN :
                       /\ n \in cancelled => raised
                       /\ Settle(c, u, raised, W)
        /\ UNCHANGED tree

TreeNext ==
    \/ DeadlinePasses /\ UNCHANGED tree
    \/ \E c \in Calls : Call(c)
    \/ PersistCallLog
    \/ PersistDispatchLog
    \/ \E n \in Nodes :
          \/ Start(n)
          \/ RefuseDispatch(n)
          \/ Return(n)
          \/ Raise(n)
          \/ HandBack(n)
          \/ AskStop(n)
          \/ CancelTask(n)
          \/ Tear(n)

TreeSpec == TreeInit /\ [][TreeNext]_allvars

\* The event loop runs every ready task, providers and backends answer, and the
\* code of a node, its loop bounded by its caps, returns once what it awaits has.
TreeFairSpec ==
    /\ TreeSpec
    /\ \A c \in Calls : WF_allvars(pc[c] # "new" /\ Call(c))
    /\ \A n \in Nodes : /\ WF_allvars(Return(n) \/ Raise(n))
                       /\ WF_allvars(HandBack(n))
                       /\ WF_allvars(Tear(n))
    /\ WF_allvars(PersistCallLog) /\ WF_allvars(PersistDispatchLog)

-----------------------------------------------------------------------------
(* Properties *)

\* Type correctness.
TreeTypeOK ==
    /\ phase \in [Nodes -> Phases]
    /\ result \in [Nodes -> Envelope]
    /\ asked \subseteq Nodes /\ cancelled \subseteq Nodes
    /\ dispatches \in Seq([node : Nodes, status : {"success", "failure", "refused"}])
    /\ log_persistence \in {"unavailable", "no_calls", "failed", "persisted"}
    /\ persisted \in Nat

\* When the run returns, no provider call is in flight any more (run_commission
\* closes the clients then).
EveryCallSettledAtReturn == phase[Root] = "done" => In("inflight") = {}

\* A halted run reports its true total spend, also when parts of the tree were
\* torn down mid-flight, and a call log it points at holds every row (dispatch's
\* root rewrite after the logs were written).
EveryDollarReported ==
    phase[Root] = "done" =>
        /\ result[Root].kind = "run_halted" => result[Root].cost = CostOf(DOMAIN calls)
        /\ log_persistence = "persisted" => persisted = Len(calls)

\* Envelopes that m held, or was to give, are gone: it was torn down, or its backstop
\* built its envelope without them.
Lost(m) ==
    \/ phase[m] = "torn"
    \/ /\ phase[m] = "done" /\ result[m].account = "floor"
       /\ \E k \in Children(m) : phase[k] = "done"
\* The author of m reported less than the run had witnessed at or below it, and
\* dispatch has logged that.
Underreported(m) ==
    /\ phase[m] = "done" /\ result[m].account = "freely"
    /\ result[m].cost < subtree_spend_usd(m)

\* Costs add up the tree.  An envelope reports the calls that were counted below it:
\* less only where envelopes were lost or an author under-reported and was found out
\* (the honesty check in dispatch), more only by a backstop's floor or an author's own
\* account, and more than was spent only by the latter.  What the door charged and
\* the envelopes omit are then the calls it charged and refused.  The witness reads
\* the register's edges (subtree_spend_usd), and nothing escapes it but what is torn.
EnvelopesAddUp ==
    \A n \in Nodes : phase[n] = "done" /\ result[n].kind # "run_halted" =>
        LET cost == result[n].cost
            spent == CostOf(Rows(Subtree[n]))
            counted == CostOf(Counted(Subtree[n]))
            Told(account) == \E m \in Subtree[n] :
                phase[m] = "done" /\ result[m].account = account
        IN  /\ cost < counted => \E m \in Subtree[n] : Lost(m) \/ Underreported(m)
            /\ cost > counted => Told("floor") \/ Told("freely")
            /\ cost > spent => Told("freely")
            /\ (\A m \in Subtree[n] : phase[m] # "torn") => subtree_spend_usd(n) = spent

\* The accounts of a tree, from its envelopes to what the root reports.
DollarsAddUp == EveryDollarReported /\ EnvelopesAddUp

\* The register is the tree: one row for each dispatch that ended, a child's
\* before its parent's, so the edges a parent's witness needs are there.
RegisterIsTheTree ==
    /\ \A i, j \in DOMAIN dispatches : i < j =>
          dispatches[j].node \notin Subtree[dispatches[i].node]
    /\ \A n \in Nodes :
          /\ phase[n] \in {"new", "running"} => n \notin Registered
          /\ phase[n] \notin {"new", "running", "torn"} => n \in Registered

\* Once a fuse has tripped nothing starts: no dispatch runs, no call is admitted,
\* and the register calls refused what never ran, and nothing else.
NothingStartsAfterTrip ==
    [][ /\ tripped' # NoTrip =>
              /\ \A n \in Nodes : phase'[n] = "running" => phase[n] = "running"
              /\ In("inflight")' \subseteq In("inflight")
        /\ Len(dispatches') > Len(dispatches) =>
              LET row == dispatches'[Len(dispatches')]
              IN  row.status = "refused" <=> phase[row.node] = "new" ]_allvars

\* The run's stop signal turned away n, a call of n, or something below n.
RefusedBelow(n) ==
    \/ \E i \in DOMAIN calls : calls[i].status = "refused" /\ NodeOf[calls[i].call] \in Subtree[n]
    \/ \E i \in DOMAIN dispatches :
          dispatches[i].status = "refused" /\ dispatches[i].node \in Subtree[n]

\* A stop the caller asked for before any fuse tripped is not relabelled: from
\* then on a failure is the breaker's only where the breaker refused something,
\* and the root says run_halted only for such a failure, or for its spent budget
\* (RunCancel.caller_cancelled, trip_descended).
CallerStopNotRelabelled ==
    [](asked = Nodes /\ tripped = NoTrip =>
        [](/\ \A n \in Nodes : result[n].breaker_born => RefusedBelow(n)
           /\ result[Root].kind = "run_halted" =>
                 \/ tripped = "spend"
                 \/ RefusedBelow(Root) /\ result[Root].breaker_born))

\* Every dispatch ends, with one chair and a tree deeper than that, whichever calls
\* are refused, fail or are cancelled on their way (provider_call's way in and out).
EveryDispatchEnds == \A n \in Nodes :
    phase[n] = "running" ~> phase[n] \in {"done", "torn"}

\* Every call that came to the door leaves it, whatever is cancelled while it waits
\* or was just handed a chair, and every dispatch ends: the two waits of a run.
EveryCallLeaves == \A c \in Calls : pc[c] # "new" ~> pc[c] = "done"
NobodyWaitsForever == EveryCallLeaves /\ EveryDispatchEnds

\* The tree is one environment of the door: what holds of the door holds of it.
TreeUsesDoor == Spec

=============================================================================
