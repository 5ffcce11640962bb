------------------------------ MODULE Records ------------------------------
(***************************************************************************)
(* What the runs that share one SqliteBackend leave in its file, from the  *)
(* end of a node's work in dispatch (overflow policy, recording mode) to   *)
(* retention: records, and the call and dispatch logs of whole runs.       *)
(*                                                                         *)
(* A backend operation is one transaction in a worker thread, so it is one *)
(* action; delete_older_than reads before its transaction and is two.      *)
(* The process may die between any two of them.  Time is coarse: what      *)
(* happens in one tick has one timestamp.                                  *)
(***************************************************************************)
EXTENDS Integers, FiniteSets, FiniteSetsExt

CONSTANTS
    Nodes,
    RootOf,         \* the root of each node's run
    Callers,        \* the nodes that make a provider call
    PolicyChoices,  \* what an application and its commissions may be set to
    RingSize,       \* dev_ring_buffer_size
    Retention,      \* on_failure_retention_days
    SweepLiveRuns,  \* applications delete what is younger than a run in progress
    NoMode,
    MaxClock, MaxSweeps

Modes == {"off", "dev", "on_failure", "always"}
Policy == [record : Modes \cup {NoMode},    \* of the application, for the whole run
           backend : BOOLEAN,               \* likewise
           own : Modes \cup {NoMode},       \* the node's persistence_mode
           overflow : {"reject", "partial", "flag", "truncate"},
           chops : BOOLEAN]                 \* truncate_output fits its cap

ASSUME RecordsAssumption ==
    /\ IsFiniteSet(Nodes) /\ RootOf \in [Nodes -> Nodes] /\ Callers \subseteq Nodes
    /\ \A n \in Nodes : RootOf[RootOf[n]] = RootOf[n]
    /\ PolicyChoices \subseteq [Nodes -> Policy]
    /\ RingSize \in Nat /\ Retention \in Nat
    /\ SweepLiveRuns \in BOOLEAN /\ NoMode \notin Modes
    /\ MaxClock \in Nat /\ MaxSweeps \in Nat

VARIABLES
    policy, clock,
    phase,              \* where each node is
    envelope,           \* what each node hands back
    draft,              \* the record each node is storing
    made, registered,   \* the runs' rows in memory
    log_persistence,    \* what became of each root's call log
    records, calls, dispatches,     \* the tables
    stored,             \* nodes whose record was ever committed
    sweeps,             \* delete_older_than between its read and its transaction
    crashed             \* the process has died, once at most

memory == <<envelope, draft, made, registered, log_persistence>>
tables == <<records, calls, dispatches, stored>>
recvars == <<policy, clock, phase, memory, tables, sweeps, crashed>>

Nothing == [status |-> "failure", output |-> "none"]
Root(n) == RootOf[n] = n
Live(n) == phase[n] \notin {"new", "done", "lost"}
\* The root waits for its children.
Family(n) == {m \in Nodes \ {n} : RootOf[m] = n}

Clock == 0..MaxClock
LogRow == [root : Nodes, node : Nodes, ended : Clock]
Result == [status : {"success", "partial", "failure"},
           output : {"none", "full", "chopped"}]
Record == [node : Nodes, mode : Modes, created : Clock, result : Result]

-----------------------------------------------------------------------------
(* What is recorded *)

App(n) == policy[RootOf[n]].record
Backend(n) == policy[RootOf[n]].backend

\* The overflow policy on an output past its cap.
Overflow(n, result) ==
    LET cap == policy[n]
    IN  CASE cap.overflow = "reject" -> [status |-> "failure", output |-> "none"]
          [] cap.overflow = "flag" -> result
          [] cap.overflow = "truncate" /\ App(n) # "off" /\ Backend(n) /\ cap.chops
                -> [status |-> "partial", output |-> "chopped"]
          [] OTHER -> [status |-> "partial", output |-> "full"]

\* Bug: a reference does not force its record.
ModeUnforced(n, referenced) ==
    IF App(n) # NoMode THEN App(n)
    ELSE IF policy[n].own # NoMode THEN policy[n].own
    ELSE IF Backend(n) THEN "always" ELSE "off"
\* The application's word governs; a reference forces its record otherwise.
Mode(n, referenced) ==
    IF App(n) # NoMode THEN App(n)
    ELSE IF referenced THEN "always"
    ELSE IF policy[n].own # NoMode THEN policy[n].own
    ELSE IF Backend(n) THEN "always" ELSE "off"

should_persist(mode, status) ==
    \/ mode \in {"dev", "always"}
    \/ mode = "on_failure" /\ status \in {"failure", "partial"}

-----------------------------------------------------------------------------
(* The tables *)

Dev(S) == {r \in S : r.mode = "dev"}
\* Bug: the ring keeps the oldest.
OldestOf(S, keep) ==
    {T \in kSubset(IF Cardinality(S) < keep THEN Cardinality(S) ELSE keep, S) :
        \A r \in T, s \in S \ T : r.created <= s.created}
\* Bug: the ring is pruned before the record is in it.
NewestBefore(S, keep) ==
    {T \in kSubset(IF Cardinality(S) < keep + 1 THEN Cardinality(S) ELSE keep + 1, S) :
        \A r \in T, s \in S \ T : r.created >= s.created}
\* The keep newest of S; of equals any.
NewestOf(S, keep) ==
    {T \in kSubset(IF Cardinality(S) < keep THEN Cardinality(S) ELSE keep, S) :
        \A r \in T, s \in S \ T : r.created >= s.created}

\* Bug: the register is forgotten.
DeleteCallRowsOnly(gone) ==
    /\ calls' = {r \in calls : r.root \notin gone}
    /\ UNCHANGED dispatches
\* Call and dispatch rows die only with their run's root.
DeleteRunData(gone) ==
    /\ calls' = {r \in calls : r.root \notin gone}
    /\ dispatches' = {r \in dispatches : r.root \notin gone}

NodesOf(S) == {r.node : r \in S}

-----------------------------------------------------------------------------
(* Actions *)

RecInit ==
    /\ policy \in PolicyChoices /\ clock = 0
    /\ phase = [n \in Nodes |-> "new"]
    /\ envelope = [n \in Nodes |-> Nothing]
    /\ draft = {} /\ made = {} /\ registered = {}
    /\ log_persistence = [n \in Nodes |-> "unavailable"]
    /\ records = {} /\ calls = {} /\ dispatches = {} /\ stored = {}
    /\ sweeps = {} /\ crashed = FALSE

Tick ==
    /\ clock < MaxClock /\ clock' = clock + 1
    /\ UNCHANGED <<policy, phase, memory, tables, sweeps, crashed>>

Begin(n) ==
    /\ phase[n] = "new" /\ (~Root(n) => phase[RootOf[n]] = "running")
    /\ phase' = [phase EXCEPT ![n] = "running"]
    /\ UNCHANGED <<policy, clock, memory, tables, sweeps, crashed>>

\* A provider call of n settles: a row of the run's log (one for each caller).
SettleCall(n) ==
    /\ phase[n] = "running" /\ n \in Callers /\ \A r \in made : r.node # n
    /\ made' = made \cup {[root |-> RootOf[n], node |-> n, ended |-> clock]}
    /\ UNCHANGED <<policy, clock, phase, envelope, draft, registered, log_persistence,
                   tables, sweeps, crashed>>

\* The last of dispatch, without an await: cap the output, settle the mode, build
\* the record.  What a reference stands for is recorded in full.
Conclude(n, result, large) ==
    LET handed == IF large /\ result.output = "full" THEN Overflow(n, result) ELSE result
        referenced == handed.output = "chopped"
        mode == Mode(n, referenced)
    IN  /\ envelope' = [envelope EXCEPT ![n] = handed]
        /\ IF Backend(n) /\ should_persist(mode, handed.status)
           THEN /\ draft' = draft \cup {[node |-> n, mode |-> mode, created |-> clock,
                                         result |-> IF referenced THEN result ELSE handed]}
                /\ phase' = [phase EXCEPT ![n] = "recording"]
           ELSE phase' = [phase EXCEPT ![n] = "done"] /\ UNCHANGED draft

\* n's work is over and registered; a root turns to the logs first.
Finish(n) ==
    /\ phase[n] = "running" /\ \A m \in Family(n) : ~Live(m)
    /\ registered' = registered \cup {[root |-> RootOf[n], node |-> n, ended |-> clock]}
    /\ \E result \in {Nothing, [status |-> "success", output |-> "full"]}, large \in BOOLEAN :
          IF Root(n)
          THEN /\ ~large
               /\ envelope' = [envelope EXCEPT ![n] = result]
               /\ phase' = [phase EXCEPT ![n] = "logging"]
               /\ UNCHANGED draft
          ELSE Conclude(n, result, large)
    /\ UNCHANGED <<policy, clock, made, log_persistence, tables, sweeps, crashed>>

\* store_calls: all rows of the run in one transaction, or none.
StoreCalls(n) ==
    /\ phase[n] = "logging"
    /\ LET rows == {r \in made : r.root = n}
       IN  \/ /\ rows # {} /\ Backend(n)
              /\ calls' = calls \cup rows
              /\ log_persistence' = [log_persistence EXCEPT ![n] = "persisted"]
           \/ /\ log_persistence' = [log_persistence EXCEPT ![n] =
                    IF rows = {} THEN "no_calls" ELSE IF Backend(n) THEN "failed" ELSE "unavailable"]
              /\ UNCHANGED calls
    /\ phase' = [phase EXCEPT ![n] = "registering"]
    /\ UNCHANGED <<policy, clock, envelope, draft, made, registered, records, dispatches,
                   stored, sweeps, crashed>>

\* store_dispatches, best effort; then the root concludes.
StoreDispatches(n) ==
    /\ phase[n] = "registering"
    /\ \/ Backend(n) /\ dispatches' = dispatches \cup {r \in registered : r.root = n}
       \/ UNCHANGED dispatches
    /\ \E large \in BOOLEAN : Conclude(n, envelope[n], large)
    /\ UNCHANGED <<policy, clock, made, registered, log_persistence, records, calls, stored,
                   sweeps, crashed>>

\* store: the record and the pruning its mode asks for, in one transaction.
StoreRecord(n) ==
    /\ phase[n] = "recording"
    /\ \E r \in draft :
          /\ r.node = n
          /\ draft' = draft \ {r}
          /\ LET with == records \cup {r}
                 expired == {s \in with : s.mode = "on_failure" /\ s.created < clock - Retention}
             IN  \E kept \in CASE r.mode = "dev" ->
                                  {(with \ Dev(with)) \cup T : T \in NewestOf(Dev(with), RingSize)}
                               [] r.mode = "on_failure" -> {with \ expired}
                               [] OTHER -> {with} :
                    /\ records' = kept
                    /\ DeleteRunData(NodesOf(with \ kept))
    /\ stored' = stored \cup {n}
    /\ phase' = [phase EXCEPT ![n] = "done"]
    /\ UNCHANGED <<policy, clock, envelope, made, registered, log_persistence, sweeps, crashed>>

\* Bug: the record of a failed store is kept for later.
StoreFailsKeepingDraft(n) ==
    /\ phase[n] = "recording"
    /\ phase' = [phase EXCEPT ![n] = "done"]
    /\ UNCHANGED <<policy, clock, memory, tables, sweeps, crashed>>
\* The store failed: the result survives, and a chopped output is whole again.
StoreFails(n) ==
    /\ phase[n] = "recording"
    /\ \E r \in draft :
          /\ r.node = n
          /\ draft' = draft \ {r}
          /\ envelope' = [envelope EXCEPT ![n] =
                IF @.output = "chopped" THEN [status |-> "partial", output |-> "full"] ELSE @]
    /\ phase' = [phase EXCEPT ![n] = "done"]
    /\ UNCHANGED <<policy, clock, made, registered, log_persistence, tables, sweeps, crashed>>

\* An application deletes a record it knows.
Delete(n) ==
    /\ phase[n] = "done" /\ n \in NodesOf(records)
    /\ records' = {r \in records : r.node # n}
    /\ DeleteRunData({n})
    /\ UNCHANGED <<policy, clock, phase, memory, stored, sweeps, crashed>>

\* delete_older_than reads which records are old.
SweepReads(cutoff) ==
    /\ Cardinality(sweeps) < MaxSweeps /\ cutoff <= clock
    /\ ~SweepLiveRuns => \A r \in made : Live(r.root) => cutoff <= r.ended
    /\ sweeps' = sweeps \cup {[cutoff |-> cutoff,
                               found |-> {r.node : r \in {s \in records : s.created < cutoff}}]}
    /\ UNCHANGED <<policy, clock, phase, memory, tables, crashed>>

\* Bug: rows die by their own age, whoever their root is.
SweepKeepsYoung(rows, cutoff, roots) == {r \in rows : r.ended >= cutoff}
\* The orphan sweep: old rows go, unless their root's record is retained.
SweepKeeps(rows, cutoff, roots) == {r \in rows : r.ended >= cutoff \/ r.root \in roots}

\* Its transaction: those records and their logs, then the orphaned rows.
SweepDeletes(s) ==
    /\ LET left == {r \in records : r.node \notin s.found}
           Rest(rows) == SweepKeeps({r \in rows : r.root \notin s.found}, s.cutoff, NodesOf(left))
       IN  records' = left /\ calls' = Rest(calls) /\ dispatches' = Rest(dispatches)
    /\ sweeps' = sweeps \ {s}
    /\ UNCHANGED <<policy, clock, phase, memory, stored, crashed>>

\* The process dies; other runs may follow.
Crash ==
    /\ ~crashed /\ crashed' = TRUE
    /\ phase' = [n \in Nodes |-> IF Live(n) THEN "lost" ELSE phase[n]]
    /\ draft' = {} /\ sweeps' = {}
    /\ UNCHANGED <<policy, clock, envelope, made, registered, log_persistence, tables>>

RecNext ==
    \/ Tick
    \/ \E n \in Nodes :
          \/ Begin(n)
          \/ SettleCall(n)
          \/ Finish(n)
          \/ StoreCalls(n)
          \/ StoreDispatches(n)
          \/ StoreRecord(n)
          \/ StoreFails(n)
          \/ Delete(n)
    \/ \E cutoff \in Clock : SweepReads(cutoff)
    \/ \E s \in sweeps : SweepDeletes(s)
    \/ Crash

RecSpec == RecInit /\ [][RecNext]_recvars

-----------------------------------------------------------------------------
(* Properties *)

\* Type correctness; a record is drafted exactly while its node records it.
RecTypeOK ==
    /\ policy \in PolicyChoices /\ clock \in Clock
    /\ phase \in [Nodes -> {"new", "running", "logging", "registering", "recording", "done",
                            "lost"}]
    /\ envelope \in [Nodes -> Result]
    /\ draft \subseteq Record /\ {n \in Nodes : phase[n] = "recording"} = NodesOf(draft)
    /\ made \subseteq LogRow /\ registered \subseteq LogRow
    /\ log_persistence \in [Nodes -> {"unavailable", "no_calls", "failed", "persisted"}]
    /\ records \subseteq Record /\ calls \subseteq made /\ dispatches \subseteq registered
    /\ NodesOf(records) \subseteq stored /\ stored \subseteq Nodes
    /\ \A r, s \in records : r.node = s.node => r = s
    /\ sweeps \subseteq [cutoff : Clock, found : SUBSET Nodes] /\ crashed \in BOOLEAN

\* A root record that is kept has its run's whole call log beside it, when that was
\* persisted: no pruning of a child, no deletion and no sweep punches a hole in it
\* (the orphan sweep and its exemption; _delete_run_data_sync).
RecordedLogIsWhole ==
    \A n \in NodesOf(records) : log_persistence[n] = "persisted" =>
        {r \in made : r.root = n} \subseteq calls

\* Logs go with their root: once its record was pruned, deleted or swept, no call
\* or dispatch row of the run is left, and none comes back (_delete_run_data_sync).
LogsDieWithTheirRoot ==
    \A n \in stored \ NodesOf(records) : \A r \in calls \cup dispatches : r.root # n

\* The logs of a run live as long as its root record.
LogsFollowTheirRoot == RecordedLogIsWhole /\ LogsDieWithTheirRoot

\* An envelope that was handed back chopped refers to a record that was committed
\* in full, whatever the modes say and whatever failed; where it is still kept it
\* is the full output, and every other record is what the caller was handed
\* (truncate_with_reference, the forced mode, the fallback when store fails).
ReferencesLoad ==
    \A n \in Nodes : phase[n] = "done" =>
        /\ envelope[n].output = "chopped" => n \in stored
        /\ \A r \in records : r.node = n =>
              IF envelope[n].output = "chopped" THEN r.result.output = "full"
              ELSE r.result = envelope[n]

\* The ring is never past its size, at no moment of a store, with runs of one
\* process storing out of order.
RingHolds == Cardinality(Dev(records)) <= RingSize

\* A store makes room by age: the ring holds after it, a dev record goes before a
\* younger one, other modes stay, and only what a mode's rule names goes at all.
RingKeepsNewest ==
    [][RingHolds' /\ \A n \in Nodes : phase[n] = "recording" /\ phase'[n] = "done" =>
          \A r \in records \ records' :
             \/ r.mode = "dev" /\ \A k \in Dev(records') : r.created <= k.created
             \/ r.mode = "on_failure" /\ clock - r.created > Retention]_recvars

=============================================================================
