--------------------------- MODULE ShellTool_proofs ---------------------------
(***************************************************************************)
(* Proofs about ShellTool, for any number of processes, pipes and chunks.  *)
(***************************************************************************)
EXTENDS ShellTool, TLAPS

-----------------------------------------------------------------------------
(* Types *)

LEMMA ShellTypesFirst == ShellInit => ShellTypeOK
<1>1. 0 \in 0 .. MaxChunks
    BY ShellAssumption
<1>2. SUFFICES ASSUME ShellInit PROVE ShellTypeOK
    OBVIOUS
<1>3. \A k \in Pipes : written[k] = 0 /\ taken[k] = 0
    BY <1>2 DEF ShellInit
<1>4. written \in [Pipes -> 0 .. MaxChunks] /\ taken \in [Pipes -> 0 .. MaxChunks]
    BY <1>1, <1>2 DEF ShellInit
<1>5. life \in [Processes -> {"unborn", "alive", "dead"}] /\ holds \in [Processes -> SUBSET Pipes]
    BY <1>2 DEF ShellInit
<1>6. drain \in [Pipes -> {"none", "reading", "done", "failed", "cancelled"}]
    BY <1>2 DEF ShellInit
<1>7. (\A p \in Processes : holds[p] = {}) /\ (\A k \in Pipes : taken[k] <= written[k])
    BY <1>2, <1>3 DEF ShellInit
<1>8. timer \in BOOLEAN /\ killed \in BOOLEAN /\ lateWait \in BOOLEAN
    BY <1>2 DEF ShellInit
<1>9. at = "new" /\ outcome = "none"
    BY <1>2 DEF ShellInit
<1>10. QED
    BY <1>4, <1>5, <1>6, <1>7, <1>8, <1>9 DEF ShellTypeOK

\* What the command does by itself keeps the types: a chunk needs room in its pipe,
\* and a process that is gone holds none.
LEMMA CommandKeepsTypes == ShellTypeOK /\ Command => ShellTypeOK'
<1> SUFFICES ASSUME ShellTypeOK, Command PROVE ShellTypeOK'
    OBVIOUS
<1>1. ASSUME NEW p \in Processes, NEW k \in Pipes, Write(p, k) PROVE ShellTypeOK'
  <2>1. written' \in [Pipes -> 0 .. MaxChunks] /\ \A j \in Pipes : taken'[j] <= written'[j]
    BY <1>1, ShellAssumption DEF Write, ShellTypeOK
  <2>2. QED
    BY <1>1, <2>1 DEF Write, ShellTypeOK, tool
<1>2. ASSUME NEW p \in Processes, NEW k \in Pipes, Redirect(p, k) PROVE ShellTypeOK'
    BY <1>2 DEF Redirect, ShellTypeOK, tool
<1>3. ASSUME NEW p \in Processes, NEW q \in Kids, Fork(p, q) PROVE ShellTypeOK'
    BY <1>3 DEF Fork, ShellTypeOK, tool, Processes
<1>4. ASSUME NEW p \in Processes, Exit(p) PROVE ShellTypeOK'
    BY <1>4 DEF Exit, ShellTypeOK, tool
<1>5. QED
    BY <1>1, <1>2, <1>3, <1>4 DEF Command

LEMMA DrainsKeepTypes ==
    ASSUME ShellTypeOK, NEW k \in Pipes, DrainStep(k)
    PROVE  ShellTypeOK'
<1>1. CASE Drain(k) \/ DrainFails(k)
  <2>1. taken[k] < written[k]
    BY <1>1 DEF Drain, DrainFails, Pending, ShellTypeOK
  <2>2. taken' \in [Pipes -> 0 .. MaxChunks] /\ \A j \in Pipes : taken'[j] <= written[j]
    BY <1>1, <2>1, ShellAssumption DEF Drain, DrainFails, ShellTypeOK
  <2>3. drain' \in [Pipes -> {"none", "reading", "done", "failed", "cancelled"}]
    BY <1>1 DEF Drain, DrainFails, ShellTypeOK
  <2>4. QED
    BY <1>1, <2>2, <2>3 DEF Drain, DrainFails, ShellTypeOK, world, tool
<1>2. CASE DrainEnds(k)
    BY <1>2 DEF DrainEnds, ShellTypeOK, world, tool
<1>3. QED
    BY <1>1, <1>2 DEF DrainStep

ToolStep == Resume \/ Begin \/ LaunchFails \/ Launch \/ TimerFires \/ CancelCaller

LEMMA ToolKeepsTypes == ShellTypeOK /\ ToolStep => ShellTypeOK'
<1> SUFFICES ASSUME ShellTypeOK, ToolStep PROVE ShellTypeOK'
    OBVIOUS
<1>1. CASE Resume
    BY <1>1
    DEF Resume, Waited, Expire, Reaped, Flushed, Gathered, End, ShellTypeOK, world
<1>2. CASE Begin \/ LaunchFails \/ TimerFires
    BY <1>2 DEF Begin, LaunchFails, TimerFires, End, ShellTypeOK, world
<1>3. CASE Launch
    BY <1>3 DEF Launch, End, ShellTypeOK, Processes
<1>4. CASE CancelCaller
  <2>1. drain' \in [Pipes -> {"none", "reading", "done", "failed", "cancelled"}]
    BY <1>4 DEF CancelCaller, ShellTypeOK
  <2>2. QED
    BY <1>4, <2>1 DEF CancelCaller, End, ShellTypeOK, world
<1>5. QED
    BY <1>1, <1>2, <1>3, <1>4 DEF ToolStep

LEMMA StepsOfShell ==
    ASSUME [ShellNext]_shellvars
    PROVE  Command \/ ToolStep \/ (\E k \in Pipes : DrainStep(k)) \/ UNCHANGED shellvars
BY DEF ShellNext, ToolStep

\* Every value keeps its type; the tool ends with an outcome and with one only.
THEOREM ShellTypes == ShellSpec => []ShellTypeOK
<1>1. ShellTypeOK /\ [ShellNext]_shellvars => ShellTypeOK'
  <2>1. ASSUME ShellTypeOK, UNCHANGED shellvars PROVE ShellTypeOK'
    BY <2>1 DEF ShellTypeOK, shellvars, world, tool
  <2>2. QED
    BY <2>1, StepsOfShell, CommandKeepsTypes, DrainsKeepTypes, ToolKeepsTypes
<1>2. QED
    BY <1>1, ShellTypesFirst, PTL DEF ShellSpec

-----------------------------------------------------------------------------
(* The pipes: a drain that is done has read what was written, for good *)

\* Before the launch there is neither a process nor a drain.
NothingYet ==
    at \in {"new", "launching"} =>
        (\A p \in Processes : life[p] = "unborn") /\ (\A k \in Pipes : drain[k] = "none")

Read(k) == Writers(k) = {} /\ Pending(k) = 0
DoneIsRead == \A k \in Pipes : drain[k] = "done" => Read(k)

PipeInv == NothingYet /\ DoneIsRead

\* No step of the command gives a writer back to a pipe that has none, and nothing is
\* written to such a pipe.
LEMMA ReadStaysRead ==
    ASSUME ShellTypeOK, NEW k \in Pipes, Read(k), Command
    PROVE  Read(k)'
<1>1. \A p \in Processes : k \notin holds[p]
    BY DEF Read, Writers
<1>2. ASSUME \A p \in Processes : k \notin holds'[p], written'[k] = written[k], taken' = taken
      PROVE  Read(k)'
    BY <1>2 DEF Read, Writers, Pending
<1>3. ASSUME NEW p \in Processes, NEW j \in Pipes, Write(p, j) PROVE Read(k)'
  <2>1. j # k
    BY <1>1, <1>3 DEF Write
  <2>2. written'[k] = written[k]
    BY <1>3, <2>1 DEF Write, ShellTypeOK
  <2>3. QED
    BY <1>1, <1>2, <1>3, <2>2 DEF Write
<1>4. ASSUME NEW p \in Processes, NEW j \in Pipes, Redirect(p, j) PROVE Read(k)'
    BY <1>1, <1>2, <1>4 DEF Redirect, ShellTypeOK
<1>5. ASSUME NEW p \in Processes, NEW q \in Kids, Fork(p, q) PROVE Read(k)'
    BY <1>1, <1>2, <1>5 DEF Fork, ShellTypeOK
<1>6. ASSUME NEW p \in Processes, Exit(p) PROVE Read(k)'
    BY <1>1, <1>2, <1>6 DEF Exit, ShellTypeOK
<1>7. QED
    BY <1>3, <1>4, <1>5, <1>6 DEF Command

LEMMA PipesKept == ShellTypeOK /\ PipeInv /\ [ShellNext]_shellvars => PipeInv'
<1> SUFFICES ASSUME ShellTypeOK, PipeInv, [ShellNext]_shellvars PROVE PipeInv'
    OBVIOUS
<1>1. CASE Command
  <2>1. UNCHANGED <<at, drain, taken>>
    BY <1>1 DEF Command, Write, Redirect, Fork, Exit, tool
  <2>2. at \notin {"new", "launching"}
    BY <1>1 DEF Command, Write, Redirect, Fork, Exit, PipeInv, NothingYet
  <2>3. QED
    BY <1>1, <2>1, <2>2, ReadStaysRead DEF PipeInv, NothingYet, DoneIsRead
<1>2. ASSUME NEW k \in Pipes, DrainStep(k) PROVE PipeInv'
  <2>1. drain[k] = "reading" /\ UNCHANGED <<at, life, holds, written>>
    BY <1>2 DEF DrainStep, Drain, DrainFails, DrainEnds, world, tool
  <2>2. /\ drain' \in [Pipes -> {"none", "reading", "done", "failed", "cancelled"}]
        /\ taken' \in [Pipes -> 0 .. MaxChunks]
    BY <1>2, DrainsKeepTypes DEF ShellTypeOK
  <2>3. \A j \in Pipes \ {k} : drain'[j] = drain[j] /\ taken'[j] = taken[j]
    BY <1>2 DEF DrainStep, Drain, DrainFails, DrainEnds, ShellTypeOK
  <2>4. drain'[k] = "done" => Read(k) /\ taken' = taken
    BY <1>2, <2>1 DEF DrainStep, Drain, DrainFails, DrainEnds, Read, ShellTypeOK
  <2>5. \A j \in Pipes : drain'[j] = "done" => Read(j) /\ taken'[j] = taken[j]
    BY <2>3, <2>4 DEF PipeInv, DoneIsRead
  <2>6. DoneIsRead'
    BY <2>1, <2>5 DEF DoneIsRead, Read, Writers, Pending
  <2>7. at \notin {"new", "launching"}
    BY <2>1 DEF PipeInv, NothingYet
  <2>8. QED
    BY <2>1, <2>6, <2>7 DEF PipeInv, NothingYet
<1>3. CASE Launch
  <2>1. \A k \in Pipes : drain[k] = "none"
    BY <1>3 DEF Launch, PipeInv, NothingYet
  <2>2. \A k \in Pipes : drain'[k] # "done"
    BY <1>3, <2>1 DEF Launch
  <2>3. at' \notin {"new", "launching"}
    BY <1>3 DEF Launch, End
  <2>4. QED
    BY <2>2, <2>3 DEF PipeInv, NothingYet, DoneIsRead
<1>4. CASE Resume \/ Begin \/ LaunchFails \/ TimerFires \/ UNCHANGED shellvars
  <2>1. UNCHANGED <<life, holds, written, taken, drain>>
    BY <1>4 DEF Resume, Waited, Expire, Reaped, Flushed, Gathered, Begin, LaunchFails,
                TimerFires, world, shellvars
  <2>2. at' \in {"new", "launching"} => at \in {"new", "launching"}
    BY <1>4 DEF Resume, Waited, Expire, Reaped, Flushed, Gathered, Begin, LaunchFails,
                TimerFires, End, shellvars, tool
  <2>3. QED
    BY <2>1, <2>2 DEF PipeInv, NothingYet, DoneIsRead, Read, Writers, Pending
<1>5. CASE CancelCaller
  <2>1. UNCHANGED <<life, holds, written, taken>> /\ at' = "ended"
    BY <1>5 DEF CancelCaller, End, world
  <2>2. \A k \in Pipes : drain'[k] = "done" => drain[k] = "done"
    BY <1>5 DEF CancelCaller
  <2>3. QED
    BY <2>1, <2>2 DEF PipeInv, NothingYet, DoneIsRead, Read, Writers, Pending
<1>6. QED
    BY <1>1, <1>2, <1>3, <1>4, <1>5, StepsOfShell DEF ToolStep

LEMMA PipesHold == ShellSpec => []PipeInv
<1>1. ShellInit => PipeInv
    BY DEF ShellInit, PipeInv, NothingYet, DoneIsRead
<1>2. QED
    BY <1>1, PipesKept, ShellTypes, PTL DEF ShellSpec

-----------------------------------------------------------------------------
(* How the tool can end *)

Unstarted == life[Shell] = "unborn" /\ \A k \in Pipes : drain[k] = "none"

\* What each way out, and each stage before it, says of the shell and its drains.
ExitInv ==
    /\ at \in {"flushing", "gathering"} => ShellGone
    /\ outcome \in {"cancelled", "validation", "not_launched"} => Unstarted
    /\ outcome = "success" => ShellGone /\ \A k \in Pipes : drain[k] = "done"
    /\ outcome = "timeout" => ShellGone /\ Drained
    /\ outcome = "capture_failed" => ShellGone
    /\ outcome = "raised" => ShellGone \/ \A k \in Pipes : drain[k] = "none"

\* A shell that is gone, or that never was, stays so; drains only end.
LEMMA WorldMovesOn ==
    ASSUME ShellTypeOK, Command \/ (\E k \in Pipes : DrainStep(k)) \/ TimerFires
    PROVE  /\ at' = at /\ outcome' = outcome
           /\ ShellGone => ShellGone'
           /\ life[Shell] = "unborn" => life'[Shell] = "unborn"
           /\ \A k \in Pipes : drain[k] # "reading" => drain'[k] = drain[k]
<1>1. CASE Command
  <2>1. UNCHANGED <<at, outcome, drain>>
    BY <1>1 DEF Command, Write, Redirect, Fork, Exit, tool
  <2>2. /\ ShellGone => ShellGone'
        /\ life[Shell] = "unborn" => life'[Shell] = "unborn"
    <3>1. Shell \in Processes /\ \A q \in Kids : q # Shell
      BY ShellAssumption DEF Processes
    <3>2. QED
      BY <1>1, <3>1 DEF Command, Write, Redirect, Fork, Exit, ShellGone, ShellTypeOK
  <2>3. QED
    BY <2>1, <2>2
<1>2. ASSUME NEW k \in Pipes, DrainStep(k)
      PROVE  /\ UNCHANGED <<at, outcome, life>> /\ drain[k] = "reading"
             /\ \A j \in Pipes \ {k} : drain'[j] = drain[j]
    BY <1>2 DEF DrainStep, Drain, DrainFails, DrainEnds, tool, world, ShellTypeOK
<1>3. CASE TimerFires
    BY <1>3 DEF TimerFires, world, ShellGone
<1>4. QED
    BY <1>1, <1>2, <1>3 DEF ShellGone

LEMMA ExitsKept == ShellTypeOK /\ PipeInv /\ ExitInv /\ [ShellNext]_shellvars => ExitInv'
<1> SUFFICES ASSUME ShellTypeOK, PipeInv, ExitInv, [ShellNext]_shellvars PROVE ExitInv'
    OBVIOUS
<1>1. CASE Command \/ (\E k \in Pipes : DrainStep(k)) \/ TimerFires
    BY <1>1, WorldMovesOn DEF ExitInv, Unstarted, Drained
<1>2. CASE Begin \/ LaunchFails
  <2>1. Unstarted /\ UNCHANGED <<life, drain>>
    BY <1>2 DEF Begin, LaunchFails, PipeInv, NothingYet, Unstarted, Processes, world
  <2>2. outcome' \in {"none", "cancelled", "validation", "not_launched"}
    BY <1>2 DEF Begin, LaunchFails, End, ShellTypeOK
  <2>3. at' \in {"launching", "ended"}
    BY <1>2 DEF Begin, LaunchFails, End
  <2>4. QED
    BY <2>1, <2>2, <2>3 DEF ExitInv, Unstarted
<1>3. CASE Launch
  <2>1. \A k \in Pipes : drain[k] = "none"
    BY <1>3 DEF Launch, PipeInv, NothingYet
  <2>2. \/ at' = "waiting" /\ outcome' = "none"
        \/ at' = "ended" /\ outcome' = "raised" /\ drain' = drain
    BY <1>3 DEF Launch, End, ShellTypeOK
  <2>3. QED
    BY <2>1, <2>2 DEF ExitInv
<1>4. CASE Waited \/ Expire \/ Reaped \/ Flushed \/ Gathered
  <2>1. UNCHANGED <<life, drain>> /\ outcome = "none"
    BY <1>4 DEF Waited, Expire, Reaped, Flushed, Gathered, world, ShellTypeOK
  <2>2. CASE Waited \/ Reaped
    BY <2>1, <2>2 DEF Waited, Reaped, WaitOver, ExitInv, ShellGone
  <2>3. CASE Expire
    BY <2>1, <2>3 DEF Expire, End, ExitInv, ShellGone
  <2>4. CASE Flushed
    BY <2>1, <2>4 DEF Flushed, End, ExitInv, ShellGone, Drained
  <2>5. CASE Gathered
    BY <2>1, <2>5 DEF Gathered, End, ExitInv, ShellGone
  <2>6. QED
    BY <1>4, <2>2, <2>3, <2>4, <2>5
<1>5. CASE CancelCaller
    BY <1>5 DEF CancelCaller, End, ExitInv
<1>6. CASE UNCHANGED shellvars
    BY <1>6 DEF shellvars, world, tool, ExitInv, Unstarted, Drained, ShellGone
<1>7. QED
    BY <1>1, <1>2, <1>3, <1>4, <1>5, <1>6, StepsOfShell DEF ToolStep, Resume

LEMMA ExitsHold == ShellSpec => []ExitInv
<1>1. ShellInit => ExitInv
    BY DEF ShellInit, ExitInv
<1>2. QED
    BY <1>1, ExitsKept, ShellTypes, PipesHold, PTL DEF ShellSpec

\* A success holds all that was written to any number of pipes by any number of
\* processes, none of which can still write.
THEOREM SuccessIsWhole == ShellSpec => []OutputIsWhole
<1>1. PipeInv /\ ExitInv => OutputIsWhole
    BY DEF PipeInv, DoneIsRead, Read, ExitInv, OutputIsWhole
<1>2. QED
    BY <1>1, PipesHold, ExitsHold, PTL

\* A tool that ended leaves a running shell or drain only by the exits that
\* NothingLeftBehind names.
THEOREM ToolsCleanUp == ShellSpec => []NothingLeftBehind
<1>1. ShellTypeOK /\ ExitInv => NothingLeftBehind
  <2>1. SUFFICES ASSUME ShellTypeOK, ExitInv, at = "ended" PROVE NothingLeftBehind
    BY DEF NothingLeftBehind
  <2>2. /\ outcome \in {"cancelled", "validation", "not_launched", "raised", "timeout",
                        "success", "capture_failed", "torn"}
        /\ drain \in [Pipes -> {"none", "reading", "done", "failed", "cancelled"}]
    BY <2>1 DEF ShellTypeOK
  <2>3. life[Shell] = "alive" => outcome \in {"torn", "raised"}
    BY <2>1, <2>2 DEF ExitInv, Unstarted, ShellGone
  <2>4. ~Drained => outcome \in {"torn", "raised", "capture_failed"}
    BY <2>1, <2>2 DEF ExitInv, Unstarted, Drained
  <2>5. outcome = "raised" /\ life[Shell] = "alive" => drain = [k \in Pipes |-> "none"]
    BY <2>1, <2>2 DEF ExitInv, ShellGone
  <2>6. QED
    BY <2>1, <2>3, <2>4, <2>5 DEF NothingLeftBehind
<1>2. QED
    BY <1>1, ShellTypes, ExitsHold, PTL

=============================================================================
