------------------------------ MODULE ShellTool ------------------------------
(***************************************************************************)
(* One shell command (tools/shell.py): the tool's coroutine, the shell and *)
(* the processes it leaves behind, the two pipes, the two tasks that drain *)
(* them to spool files, the timer, and the cancellation of the caller.     *)
(* Output is counted in chunks.                                            *)
(***************************************************************************)
EXTENDS Integers

CONSTANTS
    Shell, Kids,    \* the shell process, and the processes started below it
    Pipes,          \* stdout and stderr
    MaxChunks,      \* bound: what is written to one pipe
    Capacity,       \* chunks a pipe and its StreamReader hold together
    Buffered        \* chunks the StreamReader takes before it stops reading

ASSUME ShellAssumption ==
    /\ Shell \notin Kids
    /\ MaxChunks \in Nat /\ Capacity \in Nat /\ Buffered \in Nat

VARIABLES
    at,         \* where the tool's coroutine is
    outcome,    \* how it ended
    life,       \* of each process
    holds,      \* the pipes each process has open for writing
    written,    \* chunks written to each pipe
    taken,      \* chunks read from it by its drain
    drain,      \* how each drain task stands
    timer,      \* timeout_seconds have passed
    killed,     \* the shell was sent a kill
    lateWait    \* the build's proc.wait() also waits for the pipes to close

world == <<life, holds, written>>
tool == <<at, outcome, timer, killed>>
shellvars == <<world, tool, taken, drain, lateWait>>

Processes == {Shell} \cup Kids
Writers(k) == {p \in Processes : k \in holds[p]}
Pending(k) == written[k] - taken[k]
Closed(k) == Writers(k) = {} /\ Pending(k) <= Buffered
ShellGone == life[Shell] = "dead"
Drained == \A k \in Pipes : drain[k] # "reading"

ShellInit ==
    /\ at = "new" /\ outcome = "none"
    /\ life = [p \in Processes |-> "unborn"]
    /\ holds = [p \in Processes |-> {}]
    /\ written = [k \in Pipes |-> 0] /\ taken = [k \in Pipes |-> 0]
    /\ drain = [k \in Pipes |-> "none"]
    /\ timer = FALSE /\ killed = FALSE
    /\ lateWait \in BOOLEAN

-----------------------------------------------------------------------------
(* The command *)

Write(p, k) ==
    /\ life[p] = "alive" /\ k \in holds[p]
    /\ Pending(k) < Capacity /\ written[k] < MaxChunks
    /\ written' = [written EXCEPT ![k] = @ + 1]
    /\ UNCHANGED <<tool, life, holds, taken, drain, lateWait>>

\* A process starts another, which inherits its pipes.
Fork(p, q) ==
    /\ life[p] = "alive" /\ life[q] = "unborn"
    /\ life' = [life EXCEPT ![q] = "alive"]
    /\ holds' = [holds EXCEPT ![q] = holds[p]]
    /\ UNCHANGED <<tool, written, taken, drain, lateWait>>

Redirect(p, k) ==
    /\ life[p] = "alive" /\ k \in holds[p]
    /\ holds' = [holds EXCEPT ![p] = @ \ {k}]
    /\ UNCHANGED <<tool, life, written, taken, drain, lateWait>>

Exit(p) ==
    /\ life[p] = "alive"
    /\ life' = [life EXCEPT ![p] = "dead"]
    /\ holds' = [holds EXCEPT ![p] = {}]
    /\ UNCHANGED <<tool, written, taken, drain, lateWait>>

-----------------------------------------------------------------------------
(* The drain tasks *)

\* One chunk goes to the spool, which is closed once the tool has ended.
Drain(k) ==
    /\ drain[k] = "reading" /\ Pending(k) > 0 /\ at # "ended"
    /\ taken' = [taken EXCEPT ![k] = @ + 1]
    /\ UNCHANGED <<world, tool, drain, lateWait>>

\* The spool cannot be written: no room on its disk, or it is closed.
DrainFails(k) ==
    /\ drain[k] = "reading" /\ Pending(k) > 0
    /\ taken' = [taken EXCEPT ![k] = @ + 1]
    /\ drain' = [drain EXCEPT ![k] = "failed"]
    /\ UNCHANGED <<world, tool, lateWait>>

\* Bug: the drain stops when the shell is gone.
DrainEndsWithShell(k) ==
    /\ drain[k] = "reading" /\ Pending(k) = 0 /\ (ShellGone \/ Writers(k) = {})
    /\ drain' = [drain EXCEPT ![k] = "done"]
    /\ UNCHANGED <<world, tool, taken, lateWait>>
DrainEnds(k) ==
    /\ drain[k] = "reading" /\ Pending(k) = 0 /\ Writers(k) = {}
    /\ drain' = [drain EXCEPT ![k] = "done"]
    /\ UNCHANGED <<world, tool, taken, lateWait>>

-----------------------------------------------------------------------------
(* The tool *)

\* Bug: an exit that reports nothing.
EndSilently(how) == at' = "ended" /\ outcome' = "none"
End(how) == at' = "ended" /\ outcome' = how

\* What is refused before a process exists: the run was stopped (the only look at
\* its signal), or cwd is relative or no directory.
Begin ==
    /\ at = "new"
    /\ \/ \E why \in {"cancelled", "validation"} : End(why)
       \/ at' = "launching" /\ UNCHANGED outcome
    /\ UNCHANGED <<world, taken, drain, timer, killed, lateWait>>

LaunchFails ==
    /\ at = "launching"
    /\ End("not_launched")
    /\ UNCHANGED <<world, taken, drain, timer, killed, lateWait>>

\* The process is there; then the spools are created, which may fail.
Launch ==
    /\ at = "launching"
    /\ life' = [life EXCEPT ![Shell] = "alive"]
    /\ holds' = [holds EXCEPT ![Shell] = Pipes]
    /\ \/ /\ at' = "waiting" /\ UNCHANGED outcome
          /\ drain' = [k \in Pipes |-> "reading"]
       \/ End("raised") /\ UNCHANGED drain
    /\ UNCHANGED <<written, taken, timer, killed, lateWait>>

TimerFires ==
    /\ at = "waiting" /\ ~timer
    /\ timer' = TRUE
    /\ UNCHANGED <<world, at, outcome, killed, taken, drain, lateWait>>

WaitOver == ShellGone /\ (lateWait => \A k \in Pipes : Closed(k))

\* wait_for returns in time.
Waited ==
    /\ at = "waiting" /\ ~timer /\ WaitOver
    /\ at' = "gathering"
    /\ UNCHANGED <<world, outcome, timer, killed, taken, drain, lateWait>>

\* Bug: a command that ran out of time is left to itself.
ExpireWithoutKill ==
    /\ at = "waiting" /\ timer
    /\ at' = "flushing" /\ UNCHANGED outcome
    /\ UNCHANGED <<world, timer, killed, taken, drain, lateWait>>
\* wait_for timed out: kill.  Where the process is gone and its transport already
\* closed, kill raises ProcessLookupError.  A known return code ends the wait at once.
Expire ==
    /\ at = "waiting" /\ timer
    /\ \/ /\ ShellGone /\ \A k \in Pipes : Closed(k)
          /\ End("raised") /\ UNCHANGED killed
       \/ /\ killed' = TRUE
          /\ at' = IF ShellGone THEN "flushing" ELSE "reaping"
          /\ UNCHANGED outcome
    /\ UNCHANGED <<world, timer, taken, drain, lateWait>>

Reaped ==
    /\ at = "reaping" /\ WaitOver
    /\ at' = "flushing"
    /\ UNCHANGED <<world, outcome, timer, killed, taken, drain, lateWait>>

\* Bug: the timeout is reported while the drains run.
FlushedAtOnce ==
    /\ at = "flushing"
    /\ End("timeout")
    /\ UNCHANGED <<world, timer, killed, taken, drain, lateWait>>
\* The timeout is reported once both drains are over, however they ended.
Flushed ==
    /\ at = "flushing" /\ Drained
    /\ End("timeout")
    /\ UNCHANGED <<world, timer, killed, taken, drain, lateWait>>

\* Bug: one drain that is done is enough.
GatheredOne ==
    /\ at = "gathering"
    /\ \/ (\E k \in Pipes : drain[k] = "done") /\ End("success")
       \/ (\E k \in Pipes : drain[k] = "failed") /\ End("capture_failed")
    /\ UNCHANGED <<world, timer, killed, taken, drain, lateWait>>
\* The first drain that failed ends the gather; else the spools are decoded, and
\* reading them may fail as well.
Gathered ==
    /\ at = "gathering"
    /\ \/ /\ \A k \in Pipes : drain[k] = "done"
          /\ End("success") \/ End("capture_failed")
       \/ (\E k \in Pipes : drain[k] = "failed") /\ End("capture_failed")
    /\ UNCHANGED <<world, timer, killed, taken, drain, lateWait>>

\* The caller is cancelled at an await.  A gather takes its drains with it; no
\* handler stops the command.
CancelCaller ==
    /\ at \in {"launching", "waiting", "reaping", "flushing", "gathering"}
    /\ End("torn")
    /\ drain' = [k \in Pipes |-> IF at \in {"flushing", "gathering"} /\ drain[k] = "reading"
                                 THEN "cancelled" ELSE drain[k]]
    /\ UNCHANGED <<world, timer, killed, taken, lateWait>>

-----------------------------------------------------------------------------
(* Specification *)

Command ==
    \/ \E p \in Processes, k \in Pipes : Write(p, k) \/ Redirect(p, k)
    \/ \E p \in Processes, q \in Kids : Fork(p, q)
    \/ \E p \in Processes : Exit(p)
Resume == Waited \/ Expire \/ Reaped \/ Flushed \/ Gathered
DrainStep(k) == Drain(k) \/ DrainFails(k) \/ DrainEnds(k)

ShellNext ==
    \/ Command \/ Resume \/ Begin \/ LaunchFails \/ Launch \/ TimerFires \/ CancelCaller
    \/ \E k \in Pipes : DrainStep(k)

ShellSpec == ShellInit /\ [][ShellNext]_shellvars

\* The event loop runs ready tasks and timers, and a killed shell dies.  Nobody
\* ends the command otherwise, nor what it left behind.
FairShellSpec ==
    /\ ShellSpec
    /\ WF_shellvars(Resume) /\ WF_shellvars(TimerFires)
    /\ \A k \in Pipes : WF_shellvars(DrainStep(k))
    /\ WF_shellvars(killed /\ Exit(Shell))

-----------------------------------------------------------------------------
(* Properties *)

\* Type correctness.
ShellTypeOK ==
    /\ at \in {"new", "launching", "waiting", "reaping", "flushing", "gathering", "ended"}
    /\ outcome \in {"none", "cancelled", "validation", "not_launched", "raised", "timeout",
                    "success", "capture_failed", "torn"}
    /\ outcome = "none" <=> at # "ended"
    /\ life \in [Processes -> {"unborn", "alive", "dead"}]
    /\ holds \in [Processes -> SUBSET Pipes]
    /\ \A p \in Processes : life[p] # "alive" => holds[p] = {}
    /\ written \in [Pipes -> 0 .. MaxChunks] /\ taken \in [Pipes -> 0 .. MaxChunks]
    /\ \A k \in Pipes : taken[k] <= written[k]
    /\ drain \in [Pipes -> {"none", "reading", "done", "failed", "cancelled"}]
    /\ timer \in BOOLEAN /\ killed \in BOOLEAN /\ lateWait \in BOOLEAN

\* A success holds all the command wrote: the shell is gone, nobody is left who
\* could write to a pipe, and every chunk that was written has been read.
OutputIsWhole ==
    outcome = "success" =>
        /\ ShellGone
        /\ \A k \in Pipes : Writers(k) = {} /\ drain[k] = "done" /\ Pending(k) = 0

\* What a tool that ended can leave: a running shell only when its caller was
\* cancelled or no spool could be made, a running drain only then, or when kill
\* raised or the other drain failed; after a success or a timeout neither.
NothingLeftBehind ==
    at = "ended" =>
        /\ life[Shell] = "alive" => outcome \in {"torn", "raised"}
        /\ ~Drained => outcome \in {"torn", "raised", "capture_failed"}
        /\ outcome = "raised" /\ life[Shell] = "alive" => drain = [k \in Pipes |-> "none"]

\* A command ends by itself or by its timeout, provided that the processes it left
\* behind let go of the pipes in the end and, where proc.wait() waits for the pipes
\* too, that the spools could be written (a pipe nobody drains never closes).
ToolEnds ==
    /\ <>[](\A k \in Pipes : Writers(k) \subseteq {Shell})
    /\ [](lateWait => \A k \in Pipes : drain[k] # "failed")
    => (at = "waiting" ~> at = "ended")

\* The documented promise: a command that exceeds its timeout is terminated and
\* reported (shell.py's module docstring).
TimeoutHonored == timer ~> at = "ended"

=============================================================================
