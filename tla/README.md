# Vibrantine, specified

Vibrantine runs *Commissions*: typed units of work that ask an LLM, call tools, and
dispatch other Commissions, as one tree inside one asyncio process, under limits on
calls, time and money that hold for the whole tree. This directory holds TLA+ modules
translated from that code, the TLC instances that check them, and TLAPS proofs. Source
paths are relative to `src/vibrantine/` of the repository.

How to run: `tlc -config door_safety.cfg MCProviderDoor.tla` and likewise for the other
configurations (the table in section 4 names the module of each), and
`tlapm ProviderDoor_proofs.tla` and likewise for the other modules named `*_proofs`.

## 1. Inventory

| Component | State it keeps | Operations | What makes it hard | What makes it correct |
|---|---|---|---|---|
| **Provider door** `_gatekeeper.py` `Gatekeeper.provider_call` | admitted count, spend total, tripped fuse and its story, the semaphore, the call log | arrive, refuse, queue, be admitted, settle, trip | every await is a window: counters move while a call waits for a chair; a task can be cancelled just after it was handed one | limits hold after the wait too; chairs are conserved; no lost wakeup; each dollar in one row; the overshoot is bounded |
| **Dispatch and the run** `dispatch.py`, `orchestrator.py` | each node's phase and envelope, the register of dispatches, the stop signal with its two sources | start, refuse, return, raise, be cancelled, register, persist logs, rewrite the root's failure | trees of tasks, gathers that let go of siblings, a caller's stop racing a fuse, exceptions that lose envelopes, authors who do not sum up | nothing starts after a trip; envelopes add up to the calls counted below them, or the reason is known; the register is the tree; `run_halted` only where the breaker caused it |
| **LLM loop** `llm_tools.py`, `contract.py` `_run` | transcript, tokens, children's cost, iterations, the nudge | turn, pre-turn gate, tool call, dispatch of a child, conclusion | many exits, replies that mix good and bad calls, a grant that several children share | every tool call is answered; the grant is shared, not multiplied; the envelope is what the door charged |
| **Recording and SqliteBackend** `dispatch.py` (tail), `persistence.py` | records, call rows, dispatch rows in one file | cap an output, choose a mode, store, prune, delete, sweep | three transactions per run, several runs, a crash between them, a sweep that reads first and deletes later | logs live and die with their root; references load; the ring holds |
| **FilesystemBackend** `persistence.py` | one file per record | the same protocol through rename, glob, unlink | no transactions: other runs act between any two steps | no reader sees half a record; the ring keeps the newest and holds at rest; a store fails only without a record |
| **MCP client** `mcp/client.py` | per invocation a call task, a poller and a timeout; one connection | call with timeout and stop signal, stop the losers | answer, timeout, stop and the caller's own cancellation race | the answer in hand wins, no task left behind, a cancelled run ends its invocations |
| **MCP server** `mcp/server.py` | per request a run, the scope in which the SDK cancels it, a token | refuse, run, answer, be cancelled | the SDK's cancellation reaches the request's own task and no other task of the run | a cancellation that passes through a run stops all of it (one that the run answers by ending itself does not: section 6); a success on the client is a run that ended well |
| **Shell tool** `tools/shell.py` | a process, its pipes, two drains with their spools, a timer | launch, wait, time out, kill, drain, gather | processes that outlive the shell and hold its pipes; a drain that fails; a caller that is cancelled | a success holds the whole output; nothing is left behind by the exits that promise it; the tool ends |
| **File tools** `tools/*.py` | the file system | read, sample, list, glob, grep, write, edit, move, delete | other processes between check and use (one run's tools never interleave: their bodies do not await) | no silent overwrite where none was asked for; one loop's tools are atomic to each other |
| **Authors' own `_run`** `examples/synthesize.py`, `examples/morning_briefing` | two passes; parallel sections and a summary | call, check the grant and the signal, dispatch in a gather | shares taken before anyone spends; a stop between the passes | the grant holds as it does for the loop |
| Fetch tool `tools/fetch.py` | none | one HTTP request with a size cap | pure I/O | the cap holds |
| Contract and factory `contract.py`, `factory.py` | class attributes | class checks, population of results | none: pure functions | a wrong class is refused when defined |
| Configuration and catalog `orchestrator.py`, `models.py` | limits, prices | `_config_error`, `build_catalog`, `cost_usd` | zero, missing and half-known prices | what passes the check satisfies the modules' assumptions |
| Other examples, testing seam | -- | -- | -- | -- |

How they interact: a caller enters through `run_commission`, which makes one `Gatekeeper`
for the run and dispatches the root. `dispatch` calls a node's `_run`; the default one is
`run_llm_loop`, which makes provider calls through the door and dispatches children. All
nodes of a run share the door's counters, room and stop signal, on one event loop and
without locks, so a step is what a task does from one await to the next. As a dispatch
ends, it hands its envelope to its parent, registers a row at the Gatekeeper and writes to
the backend from worker threads, where transactions of several runs interleave. A tool that is
bound to an MCP server leaves the process; when that server is this library's own, a second
run begins there, and the two sides know of each other only by the request, its answer and
its cancellation. Shell and file tools are the run's other ways out: what they share with
the rest of the machine, processes, pipes and files, is not theirs alone.

## 2. Modules

| Module | Models | Lines of thought |
|---|---|---|
| `Pricing` | `models.Model`, the unmeterable check | money in integer units per token; an unpriced side rates as zero |
| `RunMeter` | what a run is promised | abstract: open calls, how many were admitted, what was spent, halted |
| `ProviderDoor` | `provider_call` and `asyncio.Semaphore` | one action for each stretch between awaits; refines `RunMeter` |
| `Dispatch` | `dispatch`, `run_commission`, `RunCancel` | EXTENDS `ProviderDoor`: a tree of nodes drives the door's own actions |
| `LlmLoop` | `Commission._run`, `run_llm_loop` | one node, with the door and the children as its environment |
| `Synthesize`, `Briefing` | the `_run` of two examples | EXTEND `LlmLoop`: its ledger, signal and exits, without its loop |
| `Node` | a node with any of the three | EXTENDS both; `dispatch` cannot tell them apart, so they are held to the same promises |
| `Records` | the tail of `dispatch`, `SqliteBackend` | several runs on one file; one action per transaction |
| `FileRecords` | `FilesystemBackend` | one action per file operation of a worker thread |
| `ControlledCall` | `mcp/client.py`: `_run`, `_call_with_controls` | an invocation, its two tasks and its caller as four actors |
| `RemoteRun` | `mcp/server.py` | EXTENDS `ControlledCall`: the server behind some of its invocations |
| `ShellTool` | `tools/shell.py` | the command's processes, the pipes, the drains and the tool as actors |
| `AtomicFiles` | what file tools are to each other | abstract: one step per tool |
| `FileTools` | the nine file tools | one action per file system call; implements `AtomicFiles` on one event loop |
| `ProviderDoor_proofs`, `Dispatch_proofs`, `Node_proofs` (with `LlmLoop`), `RemoteRun_proofs` (with `ControlledCall`), `ShellTool_proofs`, `Records_proofs`, `FileRecords_proofs`, `FileTools_proofs` | -- | theorems for all values of the constants |
| `MCProviderDoor`, `MCDispatch`, `MCLlmLoop`, `MCRecords`, `MCFileRecords`, `MCControlledCall`, `MCShellTool`, `MCFileTools` | -- | values for TLC |

Definitions that begin with the comment "Bug:" are not part of any specification. Each is
a wrong variant of the definition that follows it; put in its place, it makes one of the
properties fail, which shows that the property says something about that code.

### ProviderDoor

`pc[c]` is where one `provider_call` invocation is. The semaphore is modelled as CPython
implements it (3.12): `value` is `_value`, `waiters` is `_waiters`, a *woken* call owns a
chair though its task has not run, `Locked` is `Semaphore.locked()`, and release and
cancellation hand chairs on (`HandOver`). `RefuseOnArrival`, `FailWithoutKey`,
`AdmitOnArrival` and `Wait` are the four ways through the code before the `async with`
blocks; `AdmitAfterWait` and `RefuseAfterWait` are the re-check after it; `CancelQueued` is
the cancellation of the task and `LeaveCancelled` the moment it unwinds; `Settle` is the
`finally` block with the release of the chair, the books, the row and the spend fuse.
`DeadlinePasses` is the clock, `CheckTime` the dispatch seam's reading of it. Calls arrive in any
order and number, so the module covers whatever tree is above it. `on_llm_call` is an
observer and is left out.

### Dispatch

`phase[n]` follows one dispatch; `result[n]` is its envelope; `dispatches` is the register;
`asked` and `cancelled` are the two ways a node is stopped from outside (a token, or the
cancellation of its task). What a node's own code decides is left open within what the
code allows: an LLM node does one thing at a time and stops at a refused call, a custom
node may gather, may raise, may pass a child's failure on. `Start` and `RefuseDispatch` are
the seam with the time check; `Return` and `Raise` are `_run`'s two ends with the backstop;
`SettleDispatch` is what follows without an await (stamp and register); `PersistCallLog`,
`PersistDispatchLog` and `HandBack` are the awaits at the end, of which the first two belong
to the root, with the rewrite to `run_halted` after them. `Tear` is a `CancelledError`
passing the backstop. `Call` is a call at the door, with the door's own actions.
`Structured` says that authors await every child before they return or raise.

Two accounts of a call are kept apart, as in the code. The door charges it (`settled_spend_usd`);
the node counts it by the tokens of its reply (`counted_usd`), and a call that the door charged and then
refused, or that failed once its usage was known, gave no reply. `Rollup` is what a node reports: its
counted calls and the envelopes it was handed. A backstop reports a floor, and a custom author may also
return what he likes (`Freely`, values from `Receipts`), as `dispatch.py:225-247` allows;
`account` in an envelope says which of the three it is. In the code that is a local of `dispatch`
(`author_reported`) or nothing at all; here only the properties read it.

### LlmLoop

`pc` is where the loop is, `messages` the transcript as roles and tool calls, `pending` what
the last reply still waits for. `Begin` stands for what `_run` and the loop refuse before
anything is sent, `DeclineTurn` for the pre-turn gate, `StopAtCheckpoint` for the checkpoint,
`Paid` for what follows every paid turn, and the actions on `pending` for the handling of
tool calls one by one. A child is the cost it reports: it keeps the rules of its parent
(`ChildCosts`), that is, it spends nothing when its grant cannot feed a turn and stops
within `ChildOvershoot` past it. It does so on a model of its own: `child_floor` is the least
that any turn below the node is estimated at, independent of the node's own prices, and 0 when
some model below is free on input. Only a breaker refuses a child; under the caller's stop it starts and
stops by itself. The node's own input floor is the constant `Floor`; the code counts
characters.

### Synthesize, Briefing, Node

`SynthBegin` is the chain of refusals before the first call, `Prose` and `Structured` are the two
replies, `AskStructured` and `SkipStructured` the grant's check between them; the checkpoint,
the failing call and the unmeterable call are the loop's own actions. `BriefBegin` hands each
section its share, `SectionEnds` is a child that answers while others run, `Gathered` the
moment after the gather, `Summarized` the summary with what is left. `Node` chooses one `_run`
for the whole behaviour.

### Records

One action per transaction, since each backend method runs one transaction in a worker
thread; `delete_older_than` reads its list first, so it is `SweepReads` and `SweepDeletes`. `Conclude` is
the tail of `dispatch` (overflow policy, recording mode, record). Time is coarse: equal
stamps stand for runs that ended in the same moment, and ties are broken either way.
`Crash` takes the process away between any two steps.

### FileRecords

A store is `Write` (the temporary file, which no listing matches), `Rename`, and the pruning its
mode asks for; every other operation is a *user*. `List` is a snapshot of names, as `glob`
takes it; then each `Read` looks at one file as it is by now, in any order, and each
unlink (`Prune`, `Unlink`) happens when it happens. `file[i]` remembers how a file went, by
pruning or by an application, so the properties need no history. `CancelStore` is the
cancellation of the storing task: its worker thread finishes the write and nothing prunes.
`Crash` stops the stores' process; users in other processes go on. Ages are constants,
and the cutoff of a prune or a sweep is any that the instance gives it.

### ControlledCall

`call[i]` and `poll[i]` are the two tasks of an invocation, `at[i]` its own coroutine. `Decide`
is the end of `asyncio.wait` with the order of the two tests; `Leave` is the way into
`finally`; `CallStopped` and `PollStopped` are the two `_stop_task`s. A caller that is cancelled
while a task is being stopped (`struck`) has its error delivered once that task is
done, as `asyncio.gather` does it. What the server and the session do is open: the session
may answer, raise, or be silent, and it ends a call that is cancelled.

### RemoteRun

`request[i]` is the server's handler of an invocation's request: `Receive` refuses it or begins
a run, `RunEnds` answers, `RunTorn` is the cancellation that passes through the run and through
the handler's `except`, which retains it in the token. `scope[i]` is the SDK's cancel scope,
`cancelled[i]` the token's own flag, `part[i]` a task of the run outside the scope. `Delivered`
ties the two sides: what the client's call comes back with is the server's answer, or an
error of the session, or an answer the client finds unusable.

### ShellTool

`life` and `holds` say which processes there are and which pipes they have open; they fork,
redirect, write and exit as they like. `drain[k]` is a drain task, `taken` against `written`
what it read. `Begin`, `Launch`, `Waited`, `Expire`, `Reaped`, `Flushed` and `Gathered` follow
the tool from await to await. `lateWait` is a property of the Python build: in some versions
`proc.wait()` returns with the process, in others it also waits for the pipes to close.

### FileTools and AtomicFiles

`entry` says what is at each name, `data` whose marks are in each file, so that a file that two
tools wrote, or a torn one, is told from a whole one. Every stage of a tool is a file system
call with the errors the code catches and those it lets pass (`raised`). Tools of other loops
step in between; tools of one loop do not (`Free`), for no tool body awaits. A move that may
overwrite is `shutil.move`: it looks where to go (`Aim`), renames (`Rename`), and where that fails
copies, pastes and clears. `AtomicFiles` says
what each tool then is to the others: a single step, a success with its whole effect, a
failure with none, but for the few that break off in the middle of a write or a move.

## 3. Hazards and the properties for them

`PROJECT.json` lists each hazard at its line with the properties aimed at it. Some properties
are conjunctions of parts that a reader may want one by one; the parts are named in the
modules. In short:

* *Stale checks at the door.* A call passes the fuses and then waits. `CallLimitHolds`,
  `OvershootBounded`, `HaltIsFinal` and the part `AdmittedWithinFuses` of `BooksAddUp` hold because the
  code checks again after the wait and books a settled call before any waiter runs.
* *The room.* `RoomSound` (chairs are conserved, none is idle beside a waiter), `NoOvertaking`
  and the part `EveryCallLeaves` of `NobodyWaitsForever` cover the hand-over of chairs, also to
  tasks that were just cancelled.
* *The accounts.* `BooksAddUp` (each dollar in one row, the story of the halt), `DollarsAddUp`
  (what the root reports, what the envelopes of a subtree add up to and why they may differ) and
  `EnvelopeMatchesDoor` relate the total, the rows, the envelopes and the report, across
  exceptions, cancelled branches, charged and refused turns, and authors who do not sum up.
* *Who stopped the run.* `CallerStopNotRelabelled` follows the stamps up the tree.
* *The tree.* `NothingStartsAfterTrip`, `RegisterIsTheTree`, and `EveryDispatchEnds` in
  `NobodyWaitsForever`.
* *The transcript and the grant.* `TranscriptAnswered`, `NodeGrantHolds`, for the loop and for
  authors' own `_run`s.
* *The database.* `LogsFollowTheirRoot`, `RecordedLogIsWhole`, `ReferencesLoad`, `RingKeepsNewest`.
* *The directory.* `ReadersSeeWhole`, `RingSound`, `FailedStoresKeepNothing`, `CountedOnce`,
  without any lock between listings, reads and unlinks.
* *The remote call.* `AnswerWins`, `NothingLeftRunning`, `CancelReachesAll` on the client,
  `TornRunEnds` across both sides.
* *The shell.* `OutputIsWhole`, `NothingLeftBehind`, `ToolEnds`.
* *The files.* `NeverReplaces` with another process at every step; `OneLoopIsAtomic`, which is what
  the absence of an `await` in the tools' bodies is worth: put those bodies on worker threads
  and it fails.

One hazard is listed without a property; section 6 (*the directory*) tells what happens there.

## 4. Runs

| Run (`.cfg`) | Module | Distinct states | Shows |
|---|---|---|---|
| `door_safety` | `MCProviderDoor` | 553,418 | the door's eight properties, the refinement of `RunMeter` among them: five calls, two chairs, all three fuses |
| `dispatch` | `MCDispatch` | 1.2 million | register, halt and stamps of a tree of four nodes with a caller's token, all three fuses and a branch its parent may abandon; the tree behaves as an environment of the door |
| `dispatch_liveness` | `MCDispatch` | 508,220 | every call leaves the door and every dispatch ends, with a single chair below a tree three levels deep; the accounts of that tree, with a call that is charged and refused and authors who report what they like |
| `loop` | `MCLlmLoop` | 114,977 | four properties of a node, for thirteen setups (priced, free, unpriced, half priced with and without a grant, free on input under a grant, children free on input under a node that is and one that is not, no grant, each early refusal) and three ways to run |
| `records` | `MCRecords` | 4.2 million | four properties of the file under two runs, deletion, a sweep, failing stores and a crash |
| `file_records` | `MCFileRecords` | 276,993 | five properties of three stores on one directory, with two sweeps, a listing, a load or a deletion among them |
| `controlled_call` | `MCControlledCall` | 1.0 million | two invocations, one answered by a server of this library: three invariants, two liveness properties |
| `shell` | `MCShellTool` | 115 thousand | a shell, a process it leaves behind, two pipes: two invariants and that the tool ends |
| `file_tools` | `MCFileTools` | 299 thousand | every pair of file tools on two names from five layouts, on one loop and on two |
| `dispatch_orphan` | `MCDispatch` | -- | *violated*: finding 1 |
| `shell_timeout` | `MCShellTool` | -- | *violated*: finding 2 |
| `records_sweep` | `MCRecords` | -- | *violated*: finding 3 |

Every configuration sets `CHECK_DEADLOCK FALSE`: a run, a command, a tool ends, and with it the
behaviour. That none ends too early is what the liveness properties say.

**Bounds.** *Door:* with two chairs, five calls are two in flight, two in the queue and one
newcomer, the least that shows every order of hand-over and overtaking; one call of each
kind of pricing; limits small enough that each fuse can come first. *Dispatch:* a custom root
over a custom node with an LLM child, and an LLM sibling, is the least tree with a grandchild and a
branch that goes on without it; one chair lets a call of either branch wait behind the other. In
`dispatch` each of the three fuses can come first: a limit of one call for two that are wanted, a
spend limit below the cost of one call, and the clock. `dispatch_liveness` has the spend fuse alone, so
that one call may be charged and refused, another counted or turned away, in one tree; an author's own
report is 1, which is less than some subtrees spend and more than others. *Node:*
two turns and replies of two calls, so that a turn after a reply and a child after a child exist;
two sections, the least that overshoot together. *Records:* a ring of one is contended by two
records, two moments are enough for old and young, and one sweep overlaps everything the two
runs do. `records` sets `SweepLiveRuns` to FALSE: applications delete only what is older than
any run in progress; `records_sweep` lifts that (finding 3). *FileRecords:* a ring of one for three
dev records gives every prune a victim and lets three prunes overlap; two records are equally
old; six setups pair the stores with each other operation. *ControlledCall:* invocations share
only the token and the connection, so two show all that one does to another; one of them is
served. *Shell:* a pipe that holds two chunks of three can fill and block its writer; the stream
reader's own buffer (`Buffered`) is smaller, so a pipe can be full while the reader is paused; one
process beyond the shell is enough to outlive it. *Files:* two names and a place inside a directory that
is at one of them; layouts with nothing, one file, two files, one file under two names, and a
directory in the way; two tools, because each property speaks of one tool and what happens
between two of its steps.

**Fairness.** `TreeFairSpec` assumes that the event loop runs every ready task, that an admitted
call ends (the provider's client has a timeout and then raises), that a node's code returns once
what it awaits is back, which iteration and tool-call caps give the LLM loop and which is the author's duty on
a custom path, and that the backend's writes end. Nothing makes a call arrive, be refused or be
cancelled. `FairCallSpec` assumes that the event loop runs ready tasks and that the session ends a
cancelled call; the server, the timer, the token and the caller owe nothing. `FairRemoteSpec` adds
that what goes on of a cancelled run comes to its next look at the token, for what it awaits in
between (a provider, a tool) ends or times out. `FairShellSpec` assumes that the event loop runs
ready tasks and timers and that a killed shell dies; nothing makes a command write, exit or let
go of a pipe, which is why `ToolEnds` has a premise and `TimeoutHonored` fails. There is no
fairness on starting children, on the clock of a run, or on any stop.

**What TLC alone shows.** Liveness, which needs `ENABLED` and fairness and is out of the prover's
reach, and the three properties of the violation runs. Every other property of a run is stated by a
theorem.

## 5. Proofs

All theorems hold for every value of the constants that satisfies the named assumptions of
the modules: any number of calls, chairs, nodes, runs, stores and tools, any prices, limits, ages and
sizes. Four results have a hypothesis besides, `Structured` or `~SweepLiveRuns`; each names the
condition that a finding of section 6 shows to be needed.

**The door** (`ProviderDoor_proofs`). The assumptions are the types of requests, usages
and limits, that the set of calls is finite and that `MaxCost` bounds the cost of a call.
`TypeOK` is inductive because it says that `value` is a natural number. `ChairsConserved` is
not inductive without it, nor `NoIdleChair` without both: the three are proved together,
with one lemma (`ChairBalance`) that counts the seated calls after any step and one
(`HandOverLeavesNoIdleChair`) for the wakeups. For the fuses, `StepKinds` brings every door
step into one of five kinds (nothing for the books, a trip by the clock, a refusal, an
admission, a settlement), so that each later proof is a proof of five cases. On these rest

* `DoorTypes` and `DoorChairs`: types, the conservation of chairs, so that at most
  `Concurrency` calls are ever at the provider, and no chair idle beside a waiter;
* `DoorCallLimit`: the count fuse is exact;
* `DoorHaltIsFinal`: an action property, from the first trip on;
* `DoorOvershoot`: after a trip, at most one room of calls settles, and the spend passes its
  limit by at most `Concurrency * MaxCost`. The invariant adds what the calls in flight may
  still cost;
* `DoorBooks`: the log is a complete account of the run's money and fuses. A sum over the log is a
  fold over its positions. No prover here does induction over an operator, so the module begins with
  induction over *sets* (`SetInduction`, `SubsetInduction`): from the fold's recursion it derives that a
  sum splits at any element and is monotone in its set. The invariant adds `CountsAreFresh`: the
  `calls_before` of a call in flight is its own, below the count and within the limits;
* `DoorIsFair`: an admitted call passes nobody that waits longer. `QueueInv` says that the queue
  holds the queued calls, each once, and that chairs are handed out from its front;
* `DoorIsMetered`: under the mapping *open = calls in flight, halted = a fuse tripped*, each
  step of the door is a step of `RunMeter` or a stutter.

**The tree** (`Dispatch_proofs`). `TreeIsDoor`: each step of any tree of dispatches is a step of
the door or leaves it alone, whatever its authors do, so the door's theorems hold of every
run (`RunIsGoverned`). The dispatches themselves: `Grown` says that what has started hangs from
the root, `Nested` that a node runs as long as anything it started has not come back. `Grown` holds of every
tree; `Nested` needs `Structured`, that authors await their children, since finding 1 is a tree
without it. On them rest

* `TreeTypes`, `TripIsFinal`, `StopKeepsItsName`, of every tree: types; nothing starts after a
  trip, and a refused node never ran; a caller's stop is not relabelled. The last needs two
  invariants on where a stamp can come from, `NoBreakerYet` before any trip and `StopIsCallers`
  after the caller asked: whoever bears the breaker's stamp has a refusal below;
* `QuietReturn`, `RegisterTree`, `TreeDollars`, of structured trees: no call is in flight when the run
  returns; the register is the tree, children first; the dollars add up. `Accounts` compares an
  envelope with the calls counted at or below its node and with those charged there, and says of
  each difference what it comes from: less than counted only where an envelope was lost or the
  honesty check of `dispatch` found an author out, more than counted only by a floor or an author's own
  account, more than charged only by the latter. It is kept node by node (`EndingAdds`): the
  envelopes handed over are added up by the sums of the door's proofs, now over subtrees. The
  invariant blames every author who said less than was counted below him; `AccountsHold` then shows that
  the register's edges led the honesty check to him, or that something there was torn. `HaltPaid`
  speaks of the root's report.

**The loop** (`Node_proofs`, first half). `LoopTypes` gives the types. `TranscriptIsAnswered` rests
on `CallsInOrder`: the calls of an assistant message that have their place in the transcript are
answered there, and the others are exactly what is pending; it is needed because the property speaks
only of the moment of a request. `GrantIsHeld` rests on `GrantBounds`, which says how far past the
grant each point of the loop may be: not at all while asking, by `Slack` children while replying,
and by one turn or `AtOnce` children at the end. The step that matters is `ChildKeepsGrant`: a spent
grant starves the next child, so `Slack` stays 1; where input is free nothing starves it, and
`Slack` counts the calls of the reply already answered, which ties the bound to `Len(pending)`.
Which of the two holds is decided by the models below the node (`Starves`), not by its own.
`EnvelopeIsTrue` is inductive with *while the node runs, the two agree*: a turn on a half-priced
model in a run with a budget is charged to the run and refused (`_gatekeeper.py:668`), and the loop
returns with the tokens it counted before that turn (`llm_tools.py:323`), so that the difference is
one call's and final.

**Authors' own `_run`s** (`Node_proofs`, second half). `NodeTypes`, `NodeTranscripts`, `NodeGrants` and
`NodeEnvelopes` carry the four results to a node with any of the three ways to run. What the loop's actions
keep is cited from the first half; new are the passes of Synthesize, which make no tool calls
and whose second pass is asked for within the grant only (`PassBounds`), and the sections of the
briefing. For these, `SectionBounds` counts: until the gather, the children have cost at most
*ended sections × (share + one overshoot)*. The theorem's bound is that sum over all sections, where
the shares are within the grant because it was divided by one more than there are
(`SharesAreWithin`); the summary then gets what is left, or starves, or adds one overshoot of its
own where a model below is free on input (`WithSummary`).

**The remote call** (`RemoteRun_proofs`, first half). `CallTypes` is inductive because the type
invariant says for each stage where the two tasks can be: a task is asked to stop only after
the wait, and the poller only after the call is done. `AnswersAreReported` and
`TasksAreStopped` are inductive beside it.

**Both sides of it** (`RemoteRun_proofs`, second half). `RemoteIsControlled`: every step of the composition is a
step of the client or leaves it alone, so the three theorems above hold whatever the servers do
(`RemoteCallsAreSound`). `SuccessesAreRuns`: what the client takes for a success is the envelope of a
run that ended well on the server and that nobody had cancelled; it needs `ServerTypeOK`, which says
for each stage of a request what its answer and its token can be.

**The shell** (`ShellTool_proofs`). `PipeInv` says that a drain that is done has read all there will
ever be: its pipe has no writer, and no step of any process gives it one back (`ReadStaysRead`),
since a fork inherits only what its parent has open. `ExitInv` says of each way out what the
shell and the drains are, and of the stages before a success or a timeout that the shell is gone.
From these follow `SuccessIsWhole` and `ToolsCleanUp`, for any number of processes and pipes.

**The database** (`Records_proofs`). `RecInv` adds to the types that what was stored is done and
that drafts tell what is handed back (`RunsInOrder`, `OneDraft`, `DraftsMatch`); from it follow
`RecTypes`, `ReferencesHold` (a chopped envelope's record was committed in full, for every policy, mode
and failing store) and `RingNewest`. For the logs: `LogsDie` holds whatever applications delete, `LogsFollow`
when they delete only what is older than any run in progress (`~SweepLiveRuns`), since finding 3 is
the counterexample otherwise. The invariant is `PersistedLate` (a root logs when its work is over),
`SweepsStopShort` (what a sweep has read and not yet deleted is older than every live run) and `LogsWhole`
(a persisted log keeps its rows until its record goes).

**The directory** (`FileRecords_proofs`). `FileInv` adds to the properties that no file is ever
torn; `RemoveStep` says what any unlink does. On these rest `FileTypes`, `ReadsAreWhole`,
`SweepsCountOnce` and `FailuresKeepNothing`. `RingIsSound` is harder, because a prune works from a listing
that others have outdated. Its first half counts: a victim of a dev prune is older than a ring of records that
were written (`FoundKnown`), whoever removes them later. Its second half, that the ring holds once all
have pruned, speaks of listings that the model no longer keeps after a read, so its invariant
`RingCovered` says that snapshots *exist* of which what is left is nested, each covered by its own
store's victims; the last store to list then has everything in its listing.

**The files** (`FileTools_proofs`). `ToolInv` says where each tool can be and what it has in hand
there; `ToolTypes` follows. `CreateIsExclusive` holds of any tools on any loops: `Spares` is what
each step of an exclusive tool leaves alone, and it needs that a tool that fills a file it created
holds its own. `ToolsAreAtomic` is the refinement: on one event loop every step is a step of
`AtomicFiles` or a stutter, with the files mapped to what they were when the tool at work began. The
invariant `AtomInv` says for every stage how far the tool has got from there: `KeptDisk` what it has
changed, `KeptSight` what it has seen (for a walk, of the names it has visited). `Fresh`, that no
name holds a file a tool has yet to create, is what keeps a copy onto another file system from
emptying its own source. A failing tool maps to the abstract failure, and the few that stop in the
middle to the torn write, the torn copy and the two names of a move.

## 6. Findings

1. `dispatch_orphan`: the clients are closed when the root's dispatch returned, on the ground
   that no call is in flight then (`orchestrator.py:162`). After an author's
   `asyncio.gather` raised, a sibling's call may be.
2. `shell_timeout`: the tool promises that exceeding the timeout terminates the process and
   reports it (`tools/shell.py:11`). It kills the shell and then waits for both drains, which end
   when every process that inherited the pipes has let go of them: a command that leaves one
   behind keeps the tool for as long as that process lives.
3. `records_sweep`: a sweep that reaches into a run in progress deletes call rows whose root
   record is stored a moment later (`persistence.py:360-363`).

Worth knowing, although no run is given to them:

* *Grants.* Where the model of a child is free on input its input floor is 0, whatever the node's
  own model costs, so a spent grant does not stop the next child of the same reply: each runs a
  turn, and the documented bound of one turn per level (`contract.py:868`, `llm_tools.py:146`) is
  passed. `NodeGrantHolds` states the larger bound for that case, one child for each call of a reply
  (`AtOnce`), and the documented one else. Sections that run at once may each overshoot, so a
  briefing's bound is one turn for each of them. Grants are measured on reported costs: what a child
  spends and does not report (a refused turn, a raise that loses its children's envelopes, an author
  who does not sum up) is not counted against its parent's grant, and is bounded by the run's fuses
  alone.
* *The refused turn.* A turn on a half-priced model in a run with a spend fuse and no grant is
  charged to the run, refused, and missing in the envelope of its node and in those above it.
  `EnvelopeMatchesDoor` allows for that one call, which ends its node; in `DollarsAddUp` it is why
  envelopes are compared with the calls counted and the root's report with those charged. A
  custom author above such a node may be warned of under-reporting although he summed every envelope
  (`dispatch.py:237`).
* *Stops.* `MorningBriefing` reports a stop of the breaker as a plain cancellation, without the
  stamp that makes the root report `run_halted` (`docs/authoring.md:459`). The token of a served
  request is to reflect the cancellation inside the SDK's scope and "retain it afterward"
  (`mcp/server.py:37`). Only the `except` clause of the handler retains it (`server.py:115-117`), which
  a run that saw the stop and ended by itself never reaches: `RunEnds` under a set scope leaves
  `cancelled` unset, and a part of the run in another task goes on. `TornRunEnds` speaks of the other
  way out, the cancellation passing through, which does end the parts.
* *The client.* A caller that is cancelled while `_call_with_controls` stops the call task leaves
  the poller behind (`client.py:347-348`); it ends only when the run's token is set.
  `NothingLeftRunning` states that exception, and `CancelReachesAll` that the token does end it.
* *The shell.* Its signal is looked at once, before the launch. A cancelled caller, and a spool
  that cannot be created after the launch, leave the shell running; a kill that comes when the
  process has just gone may raise out of the tool. `NothingLeftBehind` names these exits.
* *The files.* Tools of two processes lose each other's edits. `Path.is_dir` and `Path.exists` raise
  where a directory on the way cannot be searched, so an exception instead of a result leaves most
  tools there; inside a walk it ends the whole listing or search. A rollback, and the removal of a
  source, remove what is at the name by then. A `create_only` write that fails leaves a torn file at
  the name it claimed.
* *The ring.* With equal `created_at`, prunes that run at the same time may each keep another
  record and together empty the ring. `RingSound` counts equals as younger for that reason.
* *The directory.* `load`, `list_references` and `delete` of the `FilesystemBackend` raise when a
  file is pruned between their look and their use; only pruning skips what is gone.
* *The report.* An author who summed every envelope may be warned of under-reporting
  (`dispatch.py:237`), because a child that raised reports a floor; `DollarsAddUp` says which
  envelopes are floors.

## 7. Not modelled, and the plan

Left out for good: the wording of prompts, results and reports; progress events, traces and
observers; schema generation, class checks and result validators of `contract.py`, the class builder
of `factory.py` (pure functions without state); the fetch tool (one request, one cap, one timeout of
its client); `Ask` and `Summarize`, which run the default loop; the demo, ladder and e-mail
examples, which are scripts around `run_commission`; the testing seam. Two refusals of a context
that belongs to no run are left out of `Dispatch`, and that a node awaits a child while it holds a
chair cannot be said there: chairs belong to calls, as in the code, where no dispatch is inside the
`async with`. In `Records` the logs' properties rest on `Finish`, where a root ends after its
children. Of `FileRecords`' unlinks, errors other than a missing file are left out. Of the file
tools, caps on results, positions in a file, patterns, symlinks and trees of more than one directory
are left out: no property tells them apart. Of the shell, decoding and the caps on characters.

What is left to do:

1. An abstract record store that both backends are meant to implement, as a refinement of
   `FileRecords` and `Records`, for what the two have in common.
2. `Catalog`: `_config_error` and `build_catalog`, to show that what they accept satisfies the
   assumptions of `Pricing` and `ProviderDoor`.
3. Proofs: the refinement of that abstract store, and that what a `Node` does to its envelope and to its
   children is among what `Dispatch` lets a node do, which would compose the two.
4. Runs: twelve are kept, each with a question of its own and all quick enough to run on every
   change; a further component should join the run of the component it acts on, as the server
   joined the client and the authors' `_run`s joined the loop.
