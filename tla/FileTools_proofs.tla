--------------------------- MODULE FileTools_proofs ---------------------------
(***************************************************************************)
(* Proofs about FileTools, for any tools, loops, names and directories.    *)
(***************************************************************************)
EXTENDS FileTools, TLAPS

\* What a file may hold, and what a tool may have seen.
Marks == Files \cup Torn
Seen == Paths \X SUBSET (Marks \cup {"file", "dir", "other"})

-----------------------------------------------------------------------------
(* The inductive invariant *)

\* Where each tool can be.
Goes(t) ==
    /\ Op(t) \in {"read", "sample"} =>
          at[t] \in {"new", "looking", "stating", "opening", "reading", "rereading", "ended"}
    /\ Op(t) = "edit" =>
          at[t] \in {"new", "looking", "opening", "reading", "truncating", "filling", "ended"}
    /\ Op(t) = "write" => at[t] \in {"new", "looking", "placing", "truncating", "filling", "ended"}
    /\ Op(t) = "create" => at[t] \in {"new", "looking", "placing", "claiming", "filling", "ended"}
    /\ Op(t) = "delete" => at[t] \in {"new", "looking", "unlinking", "ended"}
    /\ Op(t) = "move" => at[t] \in {"new", "looking", "linking", "dropping", "undoing", "ended"}
    /\ Op(t) = "replace" =>
          at[t] \in {"new", "looking", "aiming", "renaming", "copying", "pasting", "clearing",
                    "ended"}
    /\ Op(t) \in Walking => at[t] \in {"new", "looking", "scanning", "visiting", "ended"}

\* What it has in hand there: an open file, a directory that was made, the file that it
\* created itself, the content that it edits.
Progress(t) ==
    /\ Goes(t)
    /\ at[t] \in {"reading", "rereading", "filling", "pasting"} => fd[t] \in Files
    /\ at[t] \in {"reading", "claiming", "truncating"} => parent = "dir"
    /\ Op(t) = "create" /\ at[t] = "filling" => fd[t] = t
    /\ Op(t) = "edit" => got[t] \subseteq Paths \X SUBSET Marks

ToolInv ==
    /\ ToolTypeOK /\ got \in [Tasks -> SUBSET Seen]
    /\ \A t \in Tasks : Progress(t)

\* Constants and jobs.
LEMMA Typed ==
    ASSUME ToolTypeOK
    PROVE  /\ \A t \in Tasks : Op(t) \in Ops /\ Src(t) \in Paths /\ Dst(t) \in Paths
           /\ \A p \in Paths : entry[p] \in Entries /\ Landing(p) \in Paths /\ p \in Files
           /\ \A p \in Paths : Is(p) => entry[p] \in Files /\ parent = "dir"
           /\ \A f \in Files : data[f] \subseteq Marks
           /\ Tasks \subseteq Files
BY ToolAssumption DEF ToolTypeOK, Job, Op, Src, Dst, Entries, Landing, Is, Files, Marks

\* A step keeps the invariant when it does for the tool that takes it.
LEMMA Advances ==
    ASSUME ToolInv, NEW t \in Tasks, job' = job, ToolTypeOK',
           got' \in [Tasks -> SUBSET Seen], Progress(t)', parent = "dir" => parent' = "dir",
           \A u \in Tasks \ {t} : at'[u] = at[u] /\ fd'[u] = fd[u] /\ got'[u] = got[u]
    PROVE  ToolInv'
<1>1. ASSUME NEW u \in Tasks, u # t
      PROVE  Progress(u)'
    BY <1>1 DEF ToolInv, Progress, Goes, Op
<1>2. QED
    BY <1>1 DEF ToolInv

\* A tool fails, at any stage of it.
LEMMA FailsStep ==
    ASSUME ToolInv, NEW t \in Tasks, job' = job, at[t] # "ended",
           NEW how \in {"cancelled", "validation", "internal", "raised"}, Fails(t, how)
    PROVE  ToolInv'
<1>1. /\ at' = [at EXCEPT ![t] = "ended"] /\ outcome' = [outcome EXCEPT ![t] = how]
      /\ todo' = [todo EXCEPT ![t] = {}] /\ got' = [got EXCEPT ![t] = {}]
      /\ UNCHANGED <<entry, data, parent, fd, to>>
    BY DEF Fails, End, disk
<1>2. ToolTypeOK'
    BY <1>1 DEF ToolInv, ToolTypeOK, Stages
<1>3. Progress(t)' /\ got' \in [Tasks -> SUBSET Seen]
    BY <1>1, Typed DEF ToolInv, ToolTypeOK, Progress, Goes, Op, Ops, Named, Taking, Walking
<1>4. QED
    BY <1>1, <1>2, <1>3, Advances DEF ToolInv, ToolTypeOK

\* A tool goes on to a stage of it.
LEMMA GoStep ==
    ASSUME ToolInv, NEW t \in Tasks, job' = job, at[t] \notin {"ended", "visiting"},
           NEW stage \in Stages \ {"ended"}, Go(t, stage),
           entry' \in [Paths -> Entries], data' \in [Files -> SUBSET Marks],
           parent' \in {"dir", "missing", "file"}, parent = "dir" => parent' = "dir",
           parent' # "dir" => \A p \in Paths : entry'[p] = "absent",
           NEW f \in Files \cup {NoFile}, fd' = [fd EXCEPT ![t] = f],
           NEW p \in Paths, to' = [to EXCEPT ![t] = p],
           NEW seen \in SUBSET Seen, got' = [got EXCEPT ![t] = seen],
           Progress(t)'
    PROVE  ToolInv'
<1>1. at' = [at EXCEPT ![t] = stage] /\ UNCHANGED <<outcome, todo>>
    BY DEF Go
<1>2. ToolTypeOK'
    BY <1>1 DEF ToolInv, ToolTypeOK, Marks
<1>3. QED
    BY <1>1, <1>2, Advances DEF ToolInv, ToolTypeOK

\* A tool ends well, or fails after it did something.
LEMMA EndStep ==
    ASSUME ToolInv, NEW t \in Tasks, job' = job, at[t] # "ended",
           NEW how \in {"success", "internal"}, End(t, how),
           entry' \in [Paths -> Entries], data' \in [Files -> SUBSET Marks],
           parent' = parent, parent # "dir" => entry' = entry,
           fd' = fd, to' = to, NEW seen \in SUBSET Seen, got' = [got EXCEPT ![t] = seen],
           Op(t) = "edit" => seen = {}
    PROVE  ToolInv'
<1>1. /\ at' = [at EXCEPT ![t] = "ended"] /\ outcome' = [outcome EXCEPT ![t] = how]
      /\ todo' = [todo EXCEPT ![t] = {}]
    BY DEF End
<1>2. ToolTypeOK'
    BY <1>1 DEF ToolInv, ToolTypeOK, Stages, Marks
<1>3. Progress(t)' /\ got' \in [Tasks -> SUBSET Seen]
    BY <1>1, Typed DEF ToolInv, ToolTypeOK, Progress, Goes, Op, Ops, Named, Taking, Walking
<1>4. QED
    BY <1>1, <1>2, <1>3, Advances DEF ToolInv, ToolTypeOK

\* A tool goes on, and touches nothing.
LEMMA PassStep ==
    ASSUME ToolInv, NEW t \in Tasks, job' = job, at[t] \notin {"ended", "visiting"},
           NEW stage \in Stages \ {"ended"}, Go(t, stage), UNCHANGED <<disk, fd, to, got>>,
           Progress(t)'
    PROVE  ToolInv'
<1>1. /\ fd' = [fd EXCEPT ![t] = fd[t]] /\ to' = [to EXCEPT ![t] = to[t]]
      /\ got' = [got EXCEPT ![t] = got[t]]
      /\ fd[t] \in Files \cup {NoFile} /\ to[t] \in Paths /\ got[t] \in SUBSET Seen
    BY DEF ToolInv, ToolTypeOK
<1>2. /\ entry' \in [Paths -> Entries] /\ data' \in [Files -> SUBSET Marks]
      /\ parent' \in {"dir", "missing", "file"} /\ parent' = parent
      /\ parent' # "dir" => \A p \in Paths : entry'[p] = "absent"
    BY DEF ToolInv, ToolTypeOK, disk, Marks
<1> HIDE DEF ToolInv
<1>3. QED
    BY <1>1, <1>2, GoStep

-----------------------------------------------------------------------------
(* The steps of the tools *)

LEMMA Moved ==
    ASSUME ToolInv, NEW t \in Tasks, NEW stage, Go(t, stage)
    PROVE  at'[t] = stage /\ at[t] \in Stages
BY DEF Go, ToolInv, ToolTypeOK

LEMMA BeginStep ==
    ASSUME ToolInv, NEW t \in Tasks, job' = job, Begin(t)
    PROVE  ToolInv'
<1>1. CASE \E why \in {"cancelled", "validation"} : Fails(t, why)
    BY <1>1, FailsStep DEF Begin
<1>2. CASE Go(t, "looking") /\ UNCHANGED <<disk, fd, to, got>>
  <2>1. Progress(t)'
      BY <1>2, Moved, Typed DEF ToolInv, Progress, Goes, Op
  <2>2. QED
      BY <1>2, <2>1, PassStep DEF Begin, Stages
<1>3. QED
    BY <1>1, <1>2 DEF Begin

\* Where the first looks lead.
LEMMA FirstStages ==
    ASSUME NEW op \in Ops
    PROVE  /\ op \in {"read", "edit"} => First[op] = "opening"
           /\ op = "sample" => First[op] = "stating"
           /\ op \in {"write", "create"} => First[op] = "placing"
           /\ op = "delete" => First[op] = "unlinking"
           /\ op = "move" => First[op] = "linking"
           /\ op = "replace" => First[op] = "aiming"
           /\ op \in Walking => First[op] = "scanning"
BY DEF First, Ops, Named, Taking, Walking

LEMMA LookStep ==
    ASSUME ToolInv, NEW t \in Tasks, job' = job, Look(t)
    PROVE  ToolInv'
<1>1. CASE \E how \in {"validation", "raised"} : Fails(t, how)
    BY <1>1, FailsStep DEF Look
<1>2. CASE Go(t, First[Op(t)]) /\ UNCHANGED <<disk, fd, to, got>>
  <2>1. Op(t) \in Ops
      BY Typed DEF ToolInv
  <2>2. /\ Op(t) \in {"read", "edit"} => First[Op(t)] = "opening"
        /\ Op(t) = "sample" => First[Op(t)] = "stating"
        /\ Op(t) \in {"write", "create"} => First[Op(t)] = "placing"
        /\ Op(t) = "delete" => First[Op(t)] = "unlinking"
        /\ Op(t) = "move" => First[Op(t)] = "linking"
        /\ Op(t) = "replace" => First[Op(t)] = "aiming"
        /\ Op(t) \in Walking => First[Op(t)] = "scanning"
      BY <2>1, FirstStages
  <2> DEFINE stage == First[Op(t)]
  <2>3. stage \in {"opening", "stating", "placing", "unlinking", "linking", "aiming", "scanning"}
      BY <2>1, <2>2 DEF Ops, Named, Taking, Walking
  <2>4. Go(t, stage)
      BY <1>2
  <2> HIDE DEF stage
  <2>5. at'[t] = stage
      BY <2>4, Moved
  <2>6. Goes(t)'
      BY <2>1, <2>2, <2>5 DEF Goes, Op, Walking, stage
  <2>7. Progress(t)'
      BY <1>2, <2>3, <2>5, <2>6 DEF ToolInv, Progress, Op
  <2>8. QED
      BY <1>2, <2>3, <2>4, <2>7, PassStep DEF Look, Stages
<1>3. QED
    BY <1>1, <1>2 DEF Look

\* A tool has seen what is in a file.
LEMMA SeesContent ==
    ASSUME ToolInv, NEW t \in Tasks, NEW p \in Paths, NEW what \in SUBSET Marks, Sees(t, p, what)
    PROVE  /\ got[t] \cup {<<p, what>>} \in SUBSET Seen
           /\ got' = [got EXCEPT ![t] = got[t] \cup {<<p, what>>}]
           /\ got'[t] = got[t] \cup {<<p, what>>}
           /\ Op(t) = "edit" => got'[t] \subseteq Paths \X SUBSET Marks
BY DEF Sees, ToolInv, Seen, Progress

LEMMA StatStep ==
    ASSUME ToolInv, NEW t \in Tasks, job' = job, Stat(t)
    PROVE  ToolInv'
<1>1. CASE \E how \in {"validation", "internal", "raised"} : Fails(t, how)
    BY <1>1, FailsStep DEF Stat
<1>2. CASE /\ Is(Src(t)) /\ Sees(t, Src(t), data[entry[Src(t)]])
           /\ Go(t, "opening") /\ UNCHANGED <<disk, fd, to>>
  <2>1. Src(t) \in Paths /\ data[entry[Src(t)]] \in SUBSET Marks
      BY <1>2, Typed DEF ToolInv
  <2>2. /\ got[t] \cup {<<Src(t), data[entry[Src(t)]]>>} \in SUBSET Seen
        /\ got' = [got EXCEPT ![t] = got[t] \cup {<<Src(t), data[entry[Src(t)]]>>}]
        /\ Op(t) = "edit" => got'[t] \subseteq Paths \X SUBSET Marks
      BY <1>2, <2>1, SeesContent
  <2>3. at[t] = "stating" /\ at'[t] = "opening"
      BY <1>2, Moved DEF Stat
  <2>4. Progress(t)'
      BY <2>2, <2>3, Typed DEF ToolInv, Progress, Goes, Op, Walking
  <2>5. /\ fd' = [fd EXCEPT ![t] = fd[t]] /\ to' = [to EXCEPT ![t] = to[t]]
        /\ fd[t] \in Files \cup {NoFile} /\ to[t] \in Paths
      BY <1>2 DEF ToolInv, ToolTypeOK
  <2>6. /\ entry' \in [Paths -> Entries] /\ data' \in [Files -> SUBSET Marks]
        /\ parent' \in {"dir", "missing", "file"} /\ parent' = parent
        /\ parent' # "dir" => \A p \in Paths : entry'[p] = "absent"
      BY <1>2 DEF ToolInv, ToolTypeOK, disk, Marks
  <2>7. QED
      BY <1>2, <2>2, <2>3, <2>4, <2>5, <2>6, GoStep DEF Stages
<1>3. CASE Go(t, "opening") /\ UNCHANGED <<disk, fd, to, got>>
  <2>1. at[t] = "stating" /\ at'[t] = "opening"
      BY <1>3, Moved DEF Stat
  <2>2. Progress(t)'
      BY <1>3, <2>1 DEF ToolInv, Progress, Goes, Op
  <2>3. QED
      BY <1>3, <2>1, <2>2, PassStep DEF Stages
<1>4. QED
    BY <1>1, <1>2, <1>3 DEF Stat

LEMMA OpenStep ==
    ASSUME ToolInv, NEW t \in Tasks, job' = job, Open(t)
    PROVE  ToolInv'
<1>1. CASE \E how \in {"validation", "internal"} : Fails(t, how)
    BY <1>1, FailsStep DEF Open
<1>2. CASE /\ Is(Src(t)) /\ Opens(t, entry[Src(t)])
           /\ Go(t, "reading") /\ UNCHANGED <<disk, to, got>>
  <2>1. Src(t) \in Paths /\ entry[Src(t)] \in Files /\ parent = "dir"
      BY <1>2, Typed DEF ToolInv
  <2>2. at[t] = "opening" /\ at'[t] = "reading"
      BY <1>2, Moved DEF Open
  <2>3. /\ fd' = [fd EXCEPT ![t] = entry[Src(t)]] /\ fd'[t] \in Files
        /\ to' = [to EXCEPT ![t] = to[t]] /\ got' = [got EXCEPT ![t] = got[t]]
        /\ to[t] \in Paths /\ got[t] \in SUBSET Seen
      BY <1>2, <2>1 DEF Opens, ToolInv, ToolTypeOK
  <2>4. /\ entry' \in [Paths -> Entries] /\ data' \in [Files -> SUBSET Marks]
        /\ parent' = "dir" /\ got' = got
      BY <1>2, <2>1 DEF ToolInv, ToolTypeOK, disk, Marks
  <2>5. Progress(t)'
      BY <2>2, <2>3, <2>4 DEF ToolInv, Progress, Goes, Op
  <2>6. QED
      BY <1>2, <2>1, <2>2, <2>3, <2>4, <2>5, GoStep DEF Stages
<1>3. QED
    BY <1>1, <1>2 DEF Open

LEMMA FirstReadStep ==
    ASSUME ToolInv, NEW t \in Tasks, job' = job, FirstRead(t)
    PROVE  ToolInv'
<1>1. CASE \E how \in {"validation", "internal"} : Fails(t, how)
    BY <1>1, FailsStep DEF FirstRead
<1>2. CASE /\ Sees(t, Src(t), data[fd[t]])
           /\ Go(t, IF Op(t) = "edit" THEN "truncating" ELSE "rereading")
           /\ UNCHANGED <<disk, fd, to>>
  <2> DEFINE stage == IF Op(t) = "edit" THEN "truncating" ELSE "rereading"
  <2>1. at[t] = "reading" /\ at'[t] = stage /\ stage \in Stages \ {"ended"}
      BY <1>2, Moved DEF FirstRead, Stages
  <2>2. fd[t] \in Files /\ parent = "dir" /\ Src(t) \in Paths
      BY <2>1, Typed DEF ToolInv, Progress
  <2>3. data[fd[t]] \in SUBSET Marks
      BY <2>2, Typed DEF ToolInv
  <2>4. /\ got[t] \cup {<<Src(t), data[fd[t]]>>} \in SUBSET Seen
        /\ got' = [got EXCEPT ![t] = got[t] \cup {<<Src(t), data[fd[t]]>>}]
        /\ Op(t) = "edit" => got'[t] \subseteq Paths \X SUBSET Marks
      BY <1>2, <2>2, <2>3, SeesContent
  <2>5. /\ fd' = [fd EXCEPT ![t] = fd[t]] /\ to' = [to EXCEPT ![t] = to[t]]
        /\ fd'[t] = fd[t] /\ to[t] \in Paths
      BY <1>2 DEF ToolInv, ToolTypeOK
  <2>6. /\ entry' \in [Paths -> Entries] /\ data' \in [Files -> SUBSET Marks]
        /\ parent' = "dir"
      BY <1>2, <2>2 DEF ToolInv, ToolTypeOK, disk, Marks
  <2>7. Goes(t)'
      BY <2>1, Typed DEF ToolInv, Progress, Goes, Op, Ops, Named, Taking, Walking
  <2>8. Progress(t)'
      BY <2>1, <2>2, <2>4, <2>5, <2>6, <2>7 DEF ToolInv, Progress, Op
  <2> HIDE DEF stage
  <2>9. Go(t, stage)
      BY <1>2 DEF stage
  <2>10. QED
      BY <2>1, <2>2, <2>4, <2>5, <2>6, <2>8, <2>9, GoStep
<1>3. QED
    BY <1>1, <1>2 DEF FirstRead

LEMMA DiskStill ==
    ASSUME ToolInv, UNCHANGED disk
    PROVE  /\ entry' \in [Paths -> Entries] /\ data' \in [Files -> SUBSET Marks]
           /\ parent' = parent /\ entry' = entry /\ parent' \in {"dir", "missing", "file"}
           /\ parent' # "dir" => \A p \in Paths : entry'[p] = "absent"
BY DEF ToolInv, ToolTypeOK, disk, Marks

LEMMA NextReadStep ==
    ASSUME ToolInv, NEW t \in Tasks, job' = job, NextRead(t)
    PROVE  ToolInv'
<1>1. CASE \E how \in {"validation", "internal"} : Fails(t, how)
    BY <1>1, FailsStep DEF NextRead
<1>2. CASE Sees(t, Src(t), data[fd[t]]) /\ End(t, "success") /\ UNCHANGED <<disk, fd, to>>
  <2>1. at[t] = "rereading" /\ fd[t] \in Files /\ Src(t) \in Paths /\ Op(t) # "edit"
      BY Typed DEF NextRead, ToolInv, Progress, Goes
  <2>2. data[fd[t]] \in SUBSET Marks
      BY <2>1, Typed DEF ToolInv
  <2>3. /\ got[t] \cup {<<Src(t), data[fd[t]]>>} \in SUBSET Seen
        /\ got' = [got EXCEPT ![t] = got[t] \cup {<<Src(t), data[fd[t]]>>}]
      BY <1>2, <2>1, <2>2, SeesContent
  <2>4. QED
      BY <1>2, <2>1, <2>3, DiskStill, EndStep
<1>3. QED
    BY <1>1, <1>2 DEF NextRead

LEMMA ScanStep ==
    ASSUME ToolInv, NEW t \in Tasks, job' = job, Scan(t)
    PROVE  ToolInv'
<1>1. CASE \E how \in {"cancelled", "validation", "internal"} : Fails(t, how)
    BY <1>1, FailsStep DEF Scan
<1>2. CASE /\ at' = [at EXCEPT ![t] = "visiting"]
           /\ \E names \in {Names} \cup (IF Op(t) = "list" THEN {} ELSE {{}}) :
                 todo' = [todo EXCEPT ![t] = names]
           /\ UNCHANGED <<disk, fd, to, got, outcome>>
  <2>1. \E names \in SUBSET Paths : todo' = [todo EXCEPT ![t] = names]
    <3>1. Names \in SUBSET Paths
        BY DEF Names
    <3>2. QED
        BY <1>2, <3>1
  <2>2. at[t] = "scanning" /\ at'[t] = "visiting"
      BY <1>2 DEF Scan, ToolInv, ToolTypeOK
  <2>3. ToolTypeOK'
      BY <1>2, <2>1, <2>2, DiskStill DEF ToolInv, ToolTypeOK, Stages, Marks
  <2>4. Progress(t)'
      BY <1>2, <2>2 DEF ToolInv, Progress, Goes, Op
  <2>5. QED
      BY <1>2, <2>3, <2>4, Advances, DiskStill DEF ToolInv, ToolTypeOK
<1>3. QED
    BY <1>1, <1>2 DEF Scan

LEMMA VisitStep ==
    ASSUME ToolInv, NEW t \in Tasks, job' = job, NEW p \in Paths, Visit(t, p)
    PROVE  ToolInv'
<1>1. CASE \E how \in {"cancelled", "validation", "internal", "raised"} : Fails(t, how)
    BY <1>1, FailsStep DEF Visit
<1>2. CASE /\ todo' = [todo EXCEPT ![t] = @ \ {p}]
           /\ \/ Op(t) = "list" /\ Sees(t, p, Kind(p))
              \/ Op(t) = "glob" /\ (IF Is(p) THEN Sees(t, p, {"file"}) ELSE UNCHANGED got)
              \/ Op(t) = "grep" /\ Is(p) /\ Sees(t, p, data[entry[p]])
              \/ Op(t) = "grep" /\ UNCHANGED got
           /\ UNCHANGED <<disk, at, fd, to, outcome>>
  <2>1. at[t] = "visiting"
      BY DEF Visit
  <2>2. \E seen \in SUBSET Seen : got' = [got EXCEPT ![t] = seen]
    <3>1. got[t] \in SUBSET Seen
        BY DEF ToolInv
    <3>2. ASSUME NEW what \in SUBSET (Marks \cup {"file", "dir", "other"}), Sees(t, p, what)
          PROVE  \E seen \in SUBSET Seen : got' = [got EXCEPT ![t] = seen]
      <4>1. got[t] \cup {<<p, what>>} \in SUBSET Seen
          BY <3>1 DEF Seen
      <4>2. QED
          BY <3>2, <4>1 DEF Sees
    <3>3. Kind(p) \in SUBSET (Marks \cup {"file", "dir", "other"})
        BY DEF Kind
    <3>4. Is(p) => data[entry[p]] \in SUBSET (Marks \cup {"file", "dir", "other"})
        BY Typed DEF ToolInv
    <3>5. UNCHANGED got => got' = [got EXCEPT ![t] = got[t]]
        BY DEF ToolInv
    <3>6. QED
        BY <1>2, <3>1, <3>2, <3>3, <3>4, <3>5
  <2>3. ToolTypeOK'
      BY <1>2, <2>1, DiskStill DEF ToolInv, ToolTypeOK, Marks
  <2>4. Op(t) # "edit"
      BY <2>1 DEF ToolInv, Progress, Goes
  <2>5. Progress(t)' /\ got' \in [Tasks -> SUBSET Seen]
      BY <1>2, <2>1, <2>2, <2>4 DEF ToolInv, Progress, Goes, Op
  <2>6. QED
      BY <1>2, <2>2, <2>3, <2>5, Advances, DiskStill DEF ToolInv, ToolTypeOK
<1>3. QED
    BY <1>1, <1>2 DEF Visit

LEMMA VisitedStep ==
    ASSUME ToolInv, NEW t \in Tasks, job' = job, Visited(t)
    PROVE  ToolInv'
<1>1. at[t] = "visiting" /\ End(t, "success") /\ UNCHANGED <<disk, fd, to, got>>
    BY DEF Visited
<1>2. Op(t) # "edit" /\ got[t] \in SUBSET Seen /\ got' = [got EXCEPT ![t] = got[t]]
    BY <1>1 DEF ToolInv, Progress, Goes
<1>3. QED
    BY <1>1, <1>2, DiskStill, EndStep

LEMMA PlaceStep ==
    ASSUME ToolInv, NEW t \in Tasks, job' = job, Place(t)
    PROVE  ToolInv'
<1>1. CASE \E how \in {"validation", "internal"} : Fails(t, how)
    BY <1>1, FailsStep DEF Place
<1>2. CASE /\ parent # "file" /\ parent' = "dir"
           /\ Go(t, IF Op(t) = "create" THEN "claiming" ELSE "truncating")
           /\ UNCHANGED <<entry, data, fd, to, got>>
  <2> DEFINE stage == IF Op(t) = "create" THEN "claiming" ELSE "truncating"
  <2>1. at[t] = "placing" /\ at'[t] = stage /\ stage \in Stages \ {"ended"}
      BY <1>2, Moved DEF Place, Stages
  <2>2. /\ fd' = [fd EXCEPT ![t] = fd[t]] /\ to' = [to EXCEPT ![t] = to[t]]
        /\ got' = [got EXCEPT ![t] = got[t]] /\ got[t] \in SUBSET Seen
        /\ fd[t] \in Files \cup {NoFile} /\ to[t] \in Paths
        /\ entry' \in [Paths -> Entries] /\ data' \in [Files -> SUBSET Marks]
      BY <1>2 DEF ToolInv, ToolTypeOK, Marks
  <2>3. Goes(t)'
      BY <2>1, Typed DEF ToolInv, Progress, Goes, Op, Ops, Named, Taking, Walking
  <2>4. Progress(t)'
      BY <1>2, <2>1, <2>3 DEF ToolInv, Progress, Op
  <2> HIDE DEF stage
  <2>5. Go(t, stage)
      BY <1>2 DEF stage
  <2>6. QED
      BY <1>2, <2>1, <2>2, <2>4, <2>5, GoStep
<1>3. QED
    BY <1>1, <1>2 DEF Place

\* A file that is opened to be written is named and torn.
LEMMA TearStep ==
    ASSUME ToolInv, NEW t \in Tasks, job' = job, parent = "dir", at[t] \notin {"ended", "visiting"},
           NEW stage \in {"filling", "pasting"}, Go(t, stage), Goes(t)',
           NEW p \in Paths, NEW f \in Files, Links(p, f), Holds(f, Torn), Opens(t, f),
           Op(t) = "create" => f = t, parent' = parent,
           NEW q \in Paths, to' = [to EXCEPT ![t] = q], got' = got
    PROVE  ToolInv'
<1>1. /\ entry' \in [Paths -> Entries] /\ data' \in [Files -> SUBSET Marks]
      /\ fd' = [fd EXCEPT ![t] = f] /\ fd'[t] = f
    BY DEF ToolInv, ToolTypeOK, Links, Holds, Opens, Marks, Entries
<1>2. got' = [got EXCEPT ![t] = got[t]] /\ got[t] \in SUBSET Seen
    BY DEF ToolInv
<1>3. at'[t] = stage
    BY Moved
<1>4. Progress(t)'
    BY <1>1, <1>3 DEF ToolInv, Progress, Op
<1>5. QED
    BY <1>1, <1>2, <1>4, GoStep DEF Stages

LEMMA ClaimStep ==
    ASSUME ToolInv, NEW t \in Tasks, job' = job, Claim(t)
    PROVE  ToolInv'
<1>1. CASE \E how \in {"validation", "internal"} : Fails(t, how)
    BY <1>1, FailsStep DEF Claim
<1>2. CASE /\ Links(Src(t), t) /\ Holds(t, Torn) /\ Opens(t, t)
           /\ Go(t, "filling") /\ UNCHANGED <<parent, to, got>>
  <2>1. at[t] = "claiming" /\ at'[t] = "filling" /\ parent = "dir"
      BY <1>2, Moved DEF Claim, ToolInv, Progress
  <2>2. Goes(t)'
      BY <2>1, Typed DEF ToolInv, Progress, Goes, Op, Walking
  <2>3. Src(t) \in Paths /\ t \in Files /\ to' = [to EXCEPT ![t] = to[t]] /\ to[t] \in Paths
      BY <1>2, Typed DEF ToolInv, ToolTypeOK
  <2>4. QED
      BY <1>2, <2>1, <2>2, <2>3, TearStep
<1>3. QED
    BY <1>1, <1>2 DEF Claim

LEMMA EmptyFacts ==
    ASSUME ToolInv, NEW t \in Tasks, NEW p \in Paths, Empty(t, p)
    PROVE  \E f \in Files : Links(p, f) /\ Holds(f, Torn) /\ Opens(t, f)
BY Typed DEF Empty, Is, ToolInv

LEMMA TruncateStep ==
    ASSUME ToolInv, NEW t \in Tasks, job' = job, Truncate(t)
    PROVE  ToolInv'
<1>1. CASE Fails(t, "internal")
    BY <1>1, FailsStep DEF Truncate
<1>2. CASE Empty(t, Src(t)) /\ Go(t, "filling")
  <2>1. at[t] = "truncating" /\ at'[t] = "filling" /\ parent = "dir"
      BY <1>2, Moved DEF Truncate, ToolInv, Progress
  <2>2. Goes(t)' /\ Op(t) # "create"
      BY <2>1, Typed DEF ToolInv, Progress, Goes, Op, Walking
  <2>3. /\ Src(t) \in Paths /\ to' = [to EXCEPT ![t] = to[t]] /\ to[t] \in Paths
        /\ UNCHANGED <<parent, got>>
      BY <1>2, Typed DEF Empty, ToolInv, ToolTypeOK
  <2>4. PICK f \in Files : Links(Src(t), f) /\ Holds(f, Torn) /\ Opens(t, f)
      BY <1>2, <2>3, EmptyFacts
  <2>5. QED
      BY <1>2, <2>1, <2>2, <2>3, <2>4, TearStep
<1>3. QED
    BY <1>1, <1>2 DEF Truncate

LEMMA FillStep ==
    ASSUME ToolInv, NEW t \in Tasks, job' = job, Fill(t)
    PROVE  ToolInv'
<1>1. CASE Fails(t, "internal")
    BY <1>1, FailsStep DEF Fill
<1>2. CASE /\ Holds(fd[t], Content(t)) /\ End(t, "success")
           /\ got' = [got EXCEPT ![t] = {}] /\ UNCHANGED <<entry, parent, fd, to>>
  <2>1. at[t] = "filling" /\ fd[t] \in Files
      BY DEF Fill, ToolInv, Progress
  <2>2. Content(t) \in SUBSET Marks
    <3>1. t \in Marks
        BY DEF Marks, Files
    <3>2. Op(t) = "edit" => UNION {seen[2] : seen \in got[t]} \subseteq Marks
        BY DEF ToolInv, Progress
    <3>3. QED
        BY <3>1, <3>2 DEF Content
  <2>3. data' \in [Files -> SUBSET Marks] /\ entry' \in [Paths -> Entries]
      BY <1>2, <2>1, <2>2 DEF Holds, ToolInv, ToolTypeOK, Marks
  <2>4. QED
      BY <1>2, <2>1, <2>3, EndStep
<1>3. QED
    BY <1>1, <1>2 DEF Fill

\* A tool ends with names changed that were there.
LEMMA NamesStep ==
    ASSUME ToolInv, NEW t \in Tasks, job' = job, at[t] \notin {"ended"}, Op(t) # "edit",
           NEW how \in {"success", "internal"}, End(t, how),
           entry' \in [Paths -> Entries], parent = "dir", UNCHANGED <<data, parent, fd, to, got>>
    PROVE  ToolInv'
<1>1. got' = [got EXCEPT ![t] = got[t]] /\ got[t] \in SUBSET Seen
      /\ data' \in [Files -> SUBSET Marks]
    BY DEF ToolInv, ToolTypeOK, Marks
<1>2. QED
    BY <1>1, EndStep

LEMMA DropFacts ==
    ASSUME ToolInv, NEW p \in Paths, Is(p), Drop(p)
    PROVE  entry' \in [Paths -> Entries] /\ parent = "dir" /\ UNCHANGED <<data, parent>>
BY Typed DEF Drop, Links, ToolInv, ToolTypeOK, Entries

LEMMA UnlinkStep ==
    ASSUME ToolInv, NEW t \in Tasks, job' = job, Unlink(t)
    PROVE  ToolInv'
<1>1. CASE Fails(t, "internal")
    BY <1>1, FailsStep DEF Unlink
<1>2. CASE Is(Src(t)) /\ Drop(Src(t)) /\ End(t, "success") /\ UNCHANGED <<fd, to, got>>
  <2>1. at[t] = "unlinking" /\ Op(t) # "edit" /\ Src(t) \in Paths
      BY Typed DEF Unlink, ToolInv, Progress, Goes
  <2>2. QED
      BY <1>2, <2>1, DropFacts, NamesStep
<1>3. QED
    BY <1>1, <1>2 DEF Unlink

LEMMA LinkStep ==
    ASSUME ToolInv, NEW t \in Tasks, job' = job, Link(t)
    PROVE  ToolInv'
<1>1. CASE \E how \in {"validation", "internal"} : Fails(t, how)
    BY <1>1, FailsStep DEF Link
<1>2. CASE /\ Is(Src(t)) /\ Links(Dst(t), entry[Src(t)]) /\ Opens(t, entry[Src(t)])
           /\ Go(t, "dropping") /\ UNCHANGED <<data, parent, to, got>>
  <2>1. at[t] = "linking" /\ at'[t] = "dropping"
      BY <1>2, Moved DEF Link
  <2>2. Src(t) \in Paths /\ Dst(t) \in Paths /\ entry[Src(t)] \in Files /\ parent = "dir"
      BY <1>2, Typed DEF ToolInv
  <2>3. /\ fd' = [fd EXCEPT ![t] = entry[Src(t)]] /\ to' = [to EXCEPT ![t] = to[t]]
        /\ got' = [got EXCEPT ![t] = got[t]] /\ got[t] \in SUBSET Seen /\ to[t] \in Paths
        /\ entry' \in [Paths -> Entries] /\ data' \in [Files -> SUBSET Marks]
      BY <1>2, <2>2 DEF Opens, Links, ToolInv, ToolTypeOK, Marks, Entries
  <2>4. Progress(t)'
      BY <1>2, <2>1 DEF ToolInv, Progress, Goes, Op, Walking
  <2>5. QED
      BY <1>2, <2>1, <2>2, <2>3, <2>4, GoStep DEF Stages
<1>3. QED
    BY <1>1, <1>2 DEF Link

LEMMA DropSourceStep ==
    ASSUME ToolInv, NEW t \in Tasks, job' = job, DropSource(t)
    PROVE  ToolInv'
<1>1. at[t] = "dropping" /\ Op(t) # "edit" /\ Src(t) \in Paths
    BY Typed DEF DropSource, ToolInv, Progress, Goes
<1>2. CASE Go(t, "undoing") /\ UNCHANGED <<disk, fd, to, got>>
  <2>1. Progress(t)'
      BY <1>1, <1>2, Moved DEF ToolInv, Progress, Goes, Op, Walking
  <2>2. QED
      BY <1>1, <1>2, <2>1, PassStep DEF Stages
<1>3. CASE Is(Src(t)) /\ Drop(Src(t)) /\ End(t, "success") /\ UNCHANGED <<fd, to, got>>
    BY <1>1, <1>3, DropFacts, NamesStep
<1>4. QED
    BY <1>2, <1>3 DEF DropSource

LEMMA UndoStep ==
    ASSUME ToolInv, NEW t \in Tasks, job' = job, Undo(t)
    PROVE  ToolInv'
<1>1. at[t] = "undoing" /\ Op(t) # "edit" /\ Dst(t) \in Paths
    BY Typed DEF Undo, ToolInv, Progress, Goes
<1>2. CASE Fails(t, "internal")
    BY <1>1, <1>2, FailsStep
<1>3. CASE Is(Dst(t)) /\ Drop(Dst(t)) /\ End(t, "internal") /\ UNCHANGED <<fd, to, got>>
    BY <1>1, <1>3, DropFacts, NamesStep
<1>4. QED
    BY <1>2, <1>3 DEF Undo

LEMMA AimStep ==
    ASSUME ToolInv, NEW t \in Tasks, job' = job, Aim(t)
    PROVE  ToolInv'
<1> DEFINE d == Landing(Dst(t))
<1>1. at[t] = "aiming" /\ Op(t) # "edit" /\ d \in Paths
    BY Typed DEF Aim, ToolInv, Progress, Goes
<1>2. CASE Fails(t, "internal")
    BY <1>1, <1>2, FailsStep
<1>3. CASE /\ to' = [to EXCEPT ![t] = d]
           /\ Go(t, "renaming") /\ UNCHANGED <<disk, fd, got>>
  <2>1. at'[t] = "renaming"
      BY <1>3, Moved
  <2>2. Progress(t)'
      BY <1>1, <1>3, <2>1 DEF ToolInv, Progress, Goes, Op, Walking
  <2>3. /\ fd' = [fd EXCEPT ![t] = fd[t]] /\ got' = [got EXCEPT ![t] = got[t]]
        /\ fd[t] \in Files \cup {NoFile} /\ got[t] \in SUBSET Seen
      BY <1>3 DEF ToolInv, ToolTypeOK
  <2> HIDE DEF d
  <2>4. QED
      BY <1>1, <1>3, <2>2, <2>3, DiskStill, GoStep DEF Stages
<1>4. QED
    BY <1>2, <1>3 DEF Aim

LEMMA RenameStep ==
    ASSUME ToolInv, NEW t \in Tasks, job' = job, Rename(t)
    PROVE  ToolInv'
<1> DEFINE d == to[t]
<1>1. at[t] = "renaming" /\ Op(t) # "edit" /\ Src(t) \in Paths /\ d \in Paths
    BY Typed DEF Rename, ToolInv, ToolTypeOK, Progress, Goes
<1>2. CASE Fails(t, "internal")
    BY <1>1, <1>2, FailsStep
<1>3. CASE /\ Is(Src(t)) /\ entry' = IF entry[d] = entry[Src(t)] THEN entry
                    ELSE [entry EXCEPT ![d] = entry[Src(t)], ![Src(t)] = "absent"]
           /\ End(t, "success") /\ UNCHANGED <<data, parent, fd, to, got>>
  <2>1. entry' \in [Paths -> Entries] /\ parent = "dir"
      BY <1>1, <1>3, Typed DEF ToolInv, ToolTypeOK, Entries
  <2>2. QED
      BY <1>1, <1>3, <2>1, NamesStep
<1>4. CASE Go(t, "copying") /\ UNCHANGED <<disk, fd, to, got>>
  <2>1. at'[t] = "copying"
      BY <1>4, Moved
  <2>2. Progress(t)'
      BY <1>1, <1>4, <2>1 DEF ToolInv, Progress, Goes, Op, Walking
  <2> HIDE DEF d
  <2>3. QED
      BY <1>1, <1>4, <2>2, PassStep DEF Stages
<1>5. QED
    BY <1>2, <1>3, <1>4 DEF Rename

LEMMA CopyStep ==
    ASSUME ToolInv, NEW t \in Tasks, job' = job, Copy(t)
    PROVE  ToolInv'
<1>1. CASE Fails(t, "internal")
    BY <1>1, FailsStep DEF Copy
<1>2. CASE Is(Src(t)) /\ Empty(t, to[t]) /\ Go(t, "pasting")
  <2>1. at[t] = "copying" /\ at'[t] = "pasting"
      BY <1>2, Moved DEF Copy
  <2>2. parent = "dir" /\ Op(t) # "create" /\ to[t] \in Paths
      BY <1>2, <2>1, Typed DEF ToolInv, ToolTypeOK, Progress, Goes
  <2>3. Goes(t)'
      BY <2>1 DEF ToolInv, Progress, Goes, Op, Walking
  <2>4. to' = [to EXCEPT ![t] = to[t]] /\ UNCHANGED <<parent, got>>
      BY <1>2 DEF Empty, ToolInv, ToolTypeOK
  <2>5. PICK f \in Files : Links(to[t], f) /\ Holds(f, Torn) /\ Opens(t, f)
      BY <1>2, <2>2, EmptyFacts
  <2>6. QED
      BY <1>2, <2>1, <2>2, <2>3, <2>4, <2>5, TearStep
<1>3. QED
    BY <1>1, <1>2 DEF Copy

LEMMA PasteStep ==
    ASSUME ToolInv, NEW t \in Tasks, job' = job, Paste(t)
    PROVE  ToolInv'
<1>1. CASE Fails(t, "internal")
    BY <1>1, FailsStep DEF Paste
<1>2. CASE /\ Is(Src(t)) /\ Holds(fd[t], data[entry[Src(t)]])
           /\ Go(t, "clearing") /\ UNCHANGED <<entry, parent, fd, to, got>>
  <2>1. at[t] = "pasting" /\ at'[t] = "clearing" /\ fd[t] \in Files
      BY <1>2, Moved DEF Paste, ToolInv, Progress
  <2>2. data[entry[Src(t)]] \in SUBSET Marks
      BY <1>2, Typed DEF ToolInv
  <2>3. /\ data' \in [Files -> SUBSET Marks] /\ entry' \in [Paths -> Entries]
        /\ fd' = [fd EXCEPT ![t] = fd[t]] /\ to' = [to EXCEPT ![t] = to[t]]
        /\ got' = [got EXCEPT ![t] = got[t]] /\ got[t] \in SUBSET Seen /\ to[t] \in Paths
      BY <1>2, <2>1, <2>2 DEF Holds, ToolInv, ToolTypeOK, Marks
  <2>4. /\ parent' \in {"dir", "missing", "file"}
        /\ parent' # "dir" => \A p \in Paths : entry'[p] = "absent"
      BY <1>2 DEF ToolInv, ToolTypeOK
  <2>5. Progress(t)'
      BY <1>2, <2>1 DEF ToolInv, Progress, Goes, Op, Walking
  <2>6. QED
      BY <1>2, <2>1, <2>3, <2>4, <2>5, GoStep DEF Stages
<1>3. QED
    BY <1>1, <1>2 DEF Paste

LEMMA ClearStep ==
    ASSUME ToolInv, NEW t \in Tasks, job' = job, Clear(t)
    PROVE  ToolInv'
<1>1. at[t] = "clearing" /\ Op(t) # "edit" /\ Src(t) \in Paths
    BY Typed DEF Clear, ToolInv, Progress, Goes
<1>2. CASE Fails(t, "internal")
    BY <1>1, <1>2, FailsStep
<1>3. CASE Is(Src(t)) /\ Drop(Src(t)) /\ End(t, "success") /\ UNCHANGED <<fd, to, got>>
    BY <1>1, <1>3, DropFacts, NamesStep
<1>4. QED
    BY <1>2, <1>3 DEF Clear

LEMMA ToolStart == ToolInit => ToolInv
<1> SUFFICES ASSUME ToolInit
             PROVE  ToolInv
    OBVIOUS
<1>1. job \in [Tasks -> Job] /\ entry \in [Paths -> Paths \cup {"absent", "dir"}]
    BY ToolAssumption DEF ToolInit
<1>2. ToolTypeOK
    BY <1>1 DEF ToolInit, ToolTypeOK, Job, Dst, Entries, Files, Stages
<1>3. \A t \in Tasks : Progress(t)
    BY <1>2, Typed DEF ToolInit, Progress, Goes
<1>4. QED
    BY <1>2, <1>3 DEF ToolInit, ToolInv

LEMMA ToolStep == ToolInv /\ [ToolNext]_toolvars => ToolInv'
<1> SUFFICES ASSUME ToolInv, [ToolNext]_toolvars
             PROVE  ToolInv'
    OBVIOUS
<1>1. ASSUME NEW t \in Tasks, Step(t)
      PROVE  ToolInv'
  <2>1. job' = job
      BY <1>1 DEF Step
  <2>2. QED
      BY <1>1, <2>1, BeginStep, LookStep, StatStep, OpenStep, FirstReadStep, NextReadStep,
         ScanStep, VisitStep, VisitedStep, PlaceStep, ClaimStep, TruncateStep, FillStep,
         UnlinkStep, LinkStep, DropSourceStep, UndoStep, AimStep, RenameStep, CopyStep, PasteStep,
         ClearStep DEF Step
<1>2. CASE UNCHANGED toolvars
    BY <1>2 DEF toolvars, disk, task, ToolInv, ToolTypeOK, Progress, Goes, Op
<1>3. QED
    BY <1>1, <1>2 DEF ToolNext

\* The types of the tools and of what they act on: in particular nothing is named in a
\* directory that is not there, and a tool has an outcome exactly when it ended.
THEOREM ToolTypes == ToolSpec => []ToolTypeOK
<1>1. ToolInv => ToolTypeOK
    BY DEF ToolInv
<1>2. QED
    BY <1>1, ToolStart, ToolStep, PTL DEF ToolSpec

-----------------------------------------------------------------------------
(* What is at a name stays *)

\* What a create_only write or a move without overwrite may change in one step.
Spares(t) ==
    /\ \A p \in Paths : entry[p] # "absent" /\ entry'[p] # entry[p] =>
          Op(t) = "move" /\ p = IF at[t] = "undoing" THEN Dst(t) ELSE Src(t)
    /\ \A f \in Files : data'[f] # data[f] => f = t

\* A step is of one tool; the others stay where they are.
LEMMA OthersStay ==
    ASSUME ToolInv, NEW t \in Tasks, Step(t), NEW u \in Tasks, u # t
    PROVE  at'[u] = at[u]
<1>1. at \in [Tasks -> Stages]
    BY DEF ToolInv, ToolTypeOK
<1>2. ASSUME NEW stage, at' = [at EXCEPT ![t] = stage]
      PROVE  at'[u] = at[u]
    BY <1>1, <1>2
<1>3. (\E stage : at' = [at EXCEPT ![t] = stage]) \/ at' = at
    BY DEF Step, Begin, Look, Stat, Open, FirstRead, NextRead, Scan, Visit, Visited, Place,
       Claim, Truncate, Fill, Unlink, Link, DropSource, Undo, Aim, Rename, Copy, Paste,
       Clear,
       Fails, End, Go
<1>4. QED
    BY <1>2, <1>3

LEMMA StillSpares ==
    ASSUME NEW t \in Tasks, UNCHANGED disk
    PROVE  Spares(t)
BY DEF Spares, disk

\* The exclusive write creates a file of its own, or fails, and fills that one.
LEMMA CreateSpares ==
    ASSUME ToolInv, NEW t \in Tasks, Step(t), Op(t) = "create"
    PROVE  Spares(t)
<1>1. at[t] \in {"new", "looking", "placing", "claiming", "filling", "ended"}
    BY DEF ToolInv, Progress, Goes
<1>2. Begin(t) \/ Look(t) \/ Place(t) \/ Claim(t) \/ Fill(t)
    BY <1>1 DEF Step, Begin, Look, Stat, Open, FirstRead, NextRead, Scan, Visit, Visited, Place,
       Claim, Truncate, Fill, Unlink, Link, DropSource, Undo, Aim, Rename, Copy, Paste,
       Clear
<1>3. entry \in [Paths -> Entries] /\ data \in [Files -> SUBSET Marks]
    BY DEF ToolInv, ToolTypeOK, Marks
<1>4. CASE UNCHANGED disk
    BY <1>4, StillSpares
<1>5. CASE UNCHANGED <<entry, data>>
    BY <1>5 DEF Spares
<1>6. CASE entry[Src(t)] = "absent" /\ Links(Src(t), t) /\ Holds(t, Torn)
    BY <1>3, <1>6 DEF Spares, Links, Holds
<1>7. CASE at[t] = "filling" /\ Holds(fd[t], Content(t)) /\ UNCHANGED entry
  <2>1. fd[t] = t
      BY <1>7 DEF ToolInv, Progress
  <2>2. QED
      BY <1>3, <1>7, <2>1 DEF Spares, Holds
<1>8. QED
    BY <1>2, <1>4, <1>5, <1>6, <1>7 DEF Begin, Look, Place, Claim, Fill, Fails

\* The move links a name that is absent, and drops its source or the name it linked.
LEMMA MoveSpares ==
    ASSUME ToolInv, NEW t \in Tasks, Step(t), Op(t) = "move"
    PROVE  Spares(t)
<1>1. at[t] \in {"new", "looking", "linking", "dropping", "undoing", "ended"}
    BY DEF ToolInv, Progress, Goes
<1>2. Begin(t) \/ Look(t) \/ Link(t) \/ DropSource(t) \/ Undo(t)
    BY <1>1 DEF Step, Begin, Look, Stat, Open, FirstRead, NextRead, Scan, Visit, Visited, Place,
       Claim, Truncate, Fill, Unlink, Link, DropSource, Undo, Aim, Rename, Copy, Paste,
       Clear
<1>3. entry \in [Paths -> Entries]
    BY DEF ToolInv, ToolTypeOK
<1>4. CASE UNCHANGED disk
    BY <1>4, StillSpares
<1>5. CASE entry[Dst(t)] = "absent" /\ Links(Dst(t), entry[Src(t)]) /\ UNCHANGED data
    BY <1>3, <1>5 DEF Spares, Links
<1>6. CASE at[t] = "dropping" /\ Drop(Src(t))
    BY <1>3, <1>6 DEF Spares, Drop, Links
<1>7. CASE at[t] = "undoing" /\ Drop(Dst(t))
    BY <1>3, <1>7 DEF Spares, Drop, Links
<1>8. QED
    BY <1>2, <1>4, <1>5, <1>6, <1>7 DEF Begin, Look, Link, DropSource, Undo, Fails

\* A create_only write and a move without overwrite never replace, empty or remove what
\* is at a name, for any number of tools on any loops that act on the same names at any
\* moment: between the tool's look at a name and its claim of it too.
THEOREM CreateIsExclusive == ToolSpec => NeverReplaces
<1>1. ASSUME ToolInv, [ToolNext]_toolvars, NEW t \in Tasks, Exclusive(t), at'[t] # at[t]
      PROVE  Spares(t)
  <2>1. PICK u \in Tasks : Step(u)
      BY <1>1 DEF ToolNext, toolvars, task
  <2>2. u = t
      BY <1>1, <2>1, OthersStay
  <2>3. QED
      BY <1>1, <2>1, <2>2, CreateSpares, MoveSpares DEF Exclusive
<1>2. ToolInv /\ [ToolNext]_toolvars =>
        [\A t \in Tasks : Exclusive(t) /\ at'[t] # at[t] =>
           /\ \A p \in Paths : entry[p] # "absent" /\ entry'[p] # entry[p] =>
                 Op(t) = "move" /\ p = IF at[t] = "undoing" THEN Dst(t) ELSE Src(t)
           /\ \A f \in Files : data'[f] # data[f] => f = t]_toolvars
    BY <1>1 DEF Spares
<1>3. QED
    BY <1>2, ToolStart, ToolStep, PTL DEF ToolSpec, NeverReplaces

-----------------------------------------------------------------------------
(* The tools of one loop are atomic to each other *)

\* What was there when the tool that is at work began.
Was(p) == saved[1][p]
WasFile(p) == Was(p) \in Files
WasIn(p) == saved[2][Was(p)]
WasShown == {p \in Paths : Was(p) # "absent"} \ {Inside[p] : p \in {q \in Paths : Was(q) = "dir"}}
WasLanding(d) == IF Was(d) = "dir" THEN Inside[d] ELSE d

\* A tool that opened p to write it has written as much as this.
Written(t, p) == IF WasFile(p) THEN Was(p) ELSE t
Wrote(t, p, what) ==
    /\ Was(p) # "dir" /\ fd[t] = Written(t, p)
    /\ entry = [saved[1] EXCEPT ![p] = Written(t, p)]
    /\ data = [saved[2] EXCEPT ![Written(t, p)] = what]

\* What a tool has done to the files since it began, stage by stage.
KeptDisk(t) ==
    /\ at[t] \in {"looking", "stating", "opening", "reading", "rereading", "scanning", "visiting",
                  "placing", "unlinking", "linking", "aiming", "renaming", "copying"} => disk = saved
    /\ at[t] \in {"claiming", "truncating"} => entry = saved[1] /\ data = saved[2]
    /\ at[t] = "filling" => Wrote(t, Src(t), Torn)
    /\ at[t] \in {"claiming", "truncating", "filling"} => parent = "dir" /\ saved[3] # "file"
    /\ at[t] \in {"truncating", "filling"} /\ Op(t) = "edit" =>
          WasFile(Src(t)) /\ saved[3] = "dir"
    /\ at[t] = "filling" /\ Op(t) = "create" => Was(Src(t)) = "absent"
    /\ at[t] \in {"reading", "rereading"} => WasFile(Src(t)) /\ fd[t] = Was(Src(t))
    /\ at[t] \in {"scanning", "visiting"} => parent = "dir" \/ (Op(t) = "grep" /\ parent = "file")
    /\ at[t] \in {"dropping", "undoing"} =>
          /\ WasFile(Src(t)) /\ Was(Dst(t)) = "absent"
          /\ disk = <<[saved[1] EXCEPT ![Dst(t)] = Was(Src(t))], saved[2], saved[3]>>
    /\ at[t] \in {"renaming", "copying", "pasting", "clearing"} => to[t] = WasLanding(Dst(t))
    /\ at[t] \in {"copying", "pasting", "clearing"} =>
          /\ Was(to[t]) # "dir"
          /\ WasFile(Src(t)) /\ Was(to[t]) # Was(Src(t))
    /\ at[t] = "pasting" => Wrote(t, to[t], Torn)
    /\ at[t] = "clearing" => Wrote(t, to[t], WasIn(Src(t)))
    /\ at[t] \in {"pasting", "clearing"} =>
          parent = saved[3] /\ Written(t, to[t]) # Was(Src(t))

\* What it has seen of them; a walk, of those that are not left to visit.
Walked(t, left, seen) ==
    /\ Op(t) = "list" => left \subseteq WasShown /\ seen = {<<p, Kind(p)>> : p \in WasShown \ left}
    /\ Op(t) = "glob" => \E names \in {{}, WasShown} :
          left \subseteq names /\ seen = {<<p, {"file"}>> : p \in {q \in names \ left : Is(q)}}
    /\ Op(t) = "grep" =>
          /\ left \subseteq WasShown
          /\ seen \subseteq {<<p, data[entry[p]]>> : p \in {q \in WasShown : Is(q)}}
Sight(t) == {<<Src(t), WasIn(Src(t))>>}
KeptSight(t) ==
    /\ Op(t) \notin Walking \cup {"read", "sample", "edit"} => got[t] = {}
    /\ at[t] \in {"new", "looking", "stating", "scanning"} => got[t] = {}
    /\ at[t] \in {"opening", "reading"} /\ got[t] # {} => WasFile(Src(t)) /\ got[t] = Sight(t)
    /\ at[t] = "rereading" => got[t] = Sight(t)
    /\ Op(t) = "edit" /\ at[t] \in {"truncating", "filling"} => got[t] = Sight(t)
    /\ at[t] = "visiting" => Walked(t, todo[t], got[t])

Kept(t) == KeptDisk(t) /\ KeptSight(t)

\* A file that a tool will create is not there before.
Fresh == \A t \in Tasks : at[t] \notin {"filling", "pasting", "clearing", "ended"} =>
            \A p \in Paths : entry[p] # t
SavedOK == saved \in [Paths -> Entries] \X [Files -> SUBSET Marks] \X {"dir", "missing", "file"}

AtomInv == ToolInv /\ SavedOK /\ Fresh /\ (Alone => \A t \in Tasks : Kept(t))

\* t takes a step while nobody else is at work.
Turn(t) ==
    /\ job' = job /\ saved' = (IF Quiet THEN disk ELSE saved)
    /\ Quiet <=> ~AtWork(t)
    /\ Quiet' <=> ~AtWork(t)'
Acting(t) == ToolInv /\ SavedOK /\ Fresh /\ Kept(t) /\ Turn(t)

LEMMA OthersRest ==
    ASSUME ToolInv, NEW t \in Tasks, Step(t), NEW u \in Tasks, u # t
    PROVE  got'[u] = got[u]
<1>1. got \in [Tasks -> SUBSET Seen]
    BY DEF ToolInv
<1>2. ASSUME NEW seen, got' = [got EXCEPT ![t] = seen]
      PROVE  got'[u] = got[u]
    BY <1>1, <1>2
<1>3. (\E seen : got' = [got EXCEPT ![t] = seen]) \/ got' = got
    BY DEF Step, Begin, Look, Stat, Open, FirstRead, NextRead, Scan, Visit, Visited, Place,
       Claim, Truncate, Fill, Unlink, Link, DropSource, Undo, Aim, Rename, Copy, Paste,
       Clear,
       Fails, Sees, Empty
<1>4. QED
    BY <1>2, <1>3

\* On one loop a tool steps only when no other is at work.
LEMMA TurnTaken ==
    ASSUME ToolInv, Alone, NEW t \in Tasks, Step(t)
    PROVE  Turn(t) /\ \A u \in Tasks \ {t} : ~AtWork(u) /\ at'[u] = at[u] /\ got'[u] = got[u]
<1>1. \A u \in Tasks \ {t} : ~AtWork(u)
    BY DEF Step, Free, Alone
<1>2. \A u \in Tasks \ {t} : at'[u] = at[u] /\ got'[u] = got[u]
    BY OthersStay, OthersRest
<1>3. QED
    BY <1>1, <1>2 DEF Turn, Quiet, AtWork, Step

LEMMA OthersKept ==
    ASSUME NEW u \in Tasks, Kept(u), ~AtWork(u), job' = job, at'[u] = at[u], got'[u] = got[u]
    PROVE  Kept(u)'
<1>1. at'[u] \in {"new", "ended"}
    BY DEF AtWork
<1>2. KeptDisk(u)'
    BY <1>1 DEF KeptDisk
<1>3. KeptSight(u)'
    BY <1>1 DEF Kept, KeptSight, Op
<1>4. QED
    BY <1>2, <1>3 DEF Kept

\* A tool that goes on shows nothing yet.
LEMMA GoesOn ==
    ASSUME NEW t \in Tasks, Acting(t), at[t] # "ended", at'[t] \notin {"new", "ended"},
           \/ \E stage : at' = [at EXCEPT ![t] = stage]
           \/ at' = at,
           outcome' = outcome, \A u \in Tasks \ {t} : got'[u] = got[u]
    PROVE  UNCHANGED Atomic!atomic
<1>1. ~Quiet'
    BY DEF Acting, Turn, AtWork
<1>2. /\ (IF Quiet THEN entry ELSE saved[1])' = IF Quiet THEN entry ELSE saved[1]
      /\ (IF Quiet THEN data ELSE saved[2])' = IF Quiet THEN data ELSE saved[2]
      /\ (IF Quiet THEN parent ELSE saved[3])' = IF Quiet THEN parent ELSE saved[3]
    BY <1>1 DEF Acting, Turn, disk
<1>3. \A u \in Tasks \ {t} : at'[u] = at[u]
    BY DEF Acting, ToolInv, ToolTypeOK
<1>4. \A u \in Tasks : /\ outcome'[u] = outcome[u]
                       /\ (IF at'[u] = "ended" THEN got'[u] ELSE {})
                            = IF at[u] = "ended" THEN got[u] ELSE {}
    BY <1>3
<1>5. QED
    BY <1>2, <1>4 DEF Atomic!atomic, Atomic!files

\* A tool that ends says so, and what it saw; it keeps nothing more.
LEMMA Telling ==
    ASSUME NEW t \in Tasks, Acting(t), at[t] # "ended", NEW how, End(t, how),
           NEW seen, got' = [got EXCEPT ![t] = seen],
           Op(t) \notin Walking \cup {"read", "sample", "edit"} => seen = {}
    PROVE  /\ Atomic!Tell(t, how, seen)
           /\ [u \in Tasks |-> [outcome |-> outcome[u],
                  got |-> IF at[u] = "ended" THEN got[u] ELSE {}]][t].outcome = "none"
           /\ Kept(t)' /\ Quiet'
<1>1. /\ at' = [at EXCEPT ![t] = "ended"] /\ outcome' = [outcome EXCEPT ![t] = how]
      /\ at \in [Tasks -> Stages] /\ got \in [Tasks -> SUBSET Seen]
      /\ outcome \in [Tasks -> {"none", "success", "cancelled", "validation", "internal", "raised"}]
      /\ outcome[t] = "none"
    BY DEF End, Acting, ToolInv, ToolTypeOK
<1>2. at'[t] = "ended" /\ got'[t] = seen
    BY <1>1
<1>3. \A u \in Tasks : u # t => at'[u] = at[u] /\ outcome'[u] = outcome[u] /\ got'[u] = got[u]
    BY <1>1
<1>4. outcome'[t] = how
    BY <1>1
<1>5. Atomic!Tell(t, how, seen)
    BY <1>2, <1>3, <1>4 DEF Atomic!Tell
<1>6. Quiet'
    BY <1>2 DEF Acting, Turn, AtWork
<1>7. KeptDisk(t)'
    BY <1>2 DEF KeptDisk
<1>8. KeptSight(t)'
    BY <1>2 DEF KeptSight, Op, Acting, Turn
<1>9. QED
    BY <1>1, <1>5, <1>6, <1>7, <1>8 DEF Kept

\* The files before and after the step with which a tool ends.
LEMMA Before ==
    ASSUME NEW t \in Tasks, Acting(t), AtWork(t)
    PROVE  /\ ~Quiet
           /\ (IF Quiet THEN entry ELSE saved[1]) = saved[1]
           /\ (IF Quiet THEN data ELSE saved[2]) = saved[2]
           /\ (IF Quiet THEN parent ELSE saved[3]) = saved[3]
BY DEF Acting, Turn

\* A failure leaves no trace but a directory.
LEMMA FailsAtomic ==
    ASSUME NEW t \in Tasks, Acting(t), at[t] # "ended",
           NEW how \in {"cancelled", "validation", "internal", "raised"}, End(t, how),
           got' = [got EXCEPT ![t] = {}],
           AtWork(t) => /\ entry' = saved[1] /\ data' = saved[2]
                        /\ \/ parent' = saved[3]
                           \/ Op(t) \in {"write", "create"} /\ parent' = "dir" /\ saved[3] = "missing",
           ~AtWork(t) => UNCHANGED disk
    PROVE  Kept(t)' /\ Atomic!Do(t)
<1>1. /\ Atomic!Tell(t, how, {}) /\ Kept(t)' /\ Quiet'
      /\ [u \in Tasks |-> [outcome |-> outcome[u],
                  got |-> IF at[u] = "ended" THEN got[u] ELSE {}]][t].outcome = "none"
    BY Telling
<1>2. /\ (IF Quiet THEN entry ELSE saved[1])' = (IF Quiet THEN entry ELSE saved[1])
      /\ (IF Quiet THEN data ELSE saved[2])' = (IF Quiet THEN data ELSE saved[2])
      /\ \/ (IF Quiet THEN parent ELSE saved[3])' = (IF Quiet THEN parent ELSE saved[3])
         \/ /\ job[t].op \in {"write", "create"}
            /\ (IF Quiet THEN parent ELSE saved[3])' = "dir"
            /\ (IF Quiet THEN parent ELSE saved[3]) = "missing"
  <2>1. CASE AtWork(t)
      BY <1>1, <2>1, Before DEF Op
  <2>2. CASE ~AtWork(t)
      BY <1>1, <2>2 DEF disk, Acting, Turn
  <2>3. QED
      BY <2>1, <2>2
<1>3. Atomic!Fail(t)
    BY <1>1, <1>2 DEF Atomic!Fail
<1>4. job' = job
    BY DEF Acting, Turn
<1>5. QED
    BY <1>1, <1>3, <1>4 DEF Atomic!Do

LEMMA NothingYet ==
    ASSUME NEW t \in Tasks, Acting(t), NEW how \in {"cancelled", "validation", "internal", "raised"},
           Fails(t, how),
           at[t] \notin {"ended", "filling", "dropping", "undoing", "pasting", "clearing"}
    PROVE  Kept(t)' /\ Atomic!Do(t)
<1>1. End(t, how) /\ got' = [got EXCEPT ![t] = {}] /\ UNCHANGED disk
    BY DEF Fails
<1>2. ASSUME AtWork(t)
      PROVE  /\ entry = saved[1] /\ data = saved[2]
             /\ \/ parent = saved[3]
                \/ Op(t) \in {"write", "create"} /\ parent = "dir" /\ saved[3] = "missing"
  <2>1. CASE at[t] \in {"claiming", "truncating"}
    <3>1. entry = saved[1] /\ data = saved[2] /\ parent = "dir" /\ saved[3] \in {"dir", "missing"}
        BY <2>1 DEF Acting, Kept, KeptDisk, SavedOK
    <3>2. Op(t) = "edit" => saved[3] = "dir" \/ at[t] = "claiming"
        BY <2>1 DEF Acting, Kept, KeptDisk
    <3>3. Op(t) \in {"write", "create", "edit"} /\ (Op(t) = "edit" => at[t] = "truncating")
        BY <2>1, Typed DEF Acting, ToolInv, Progress, Goes, Ops, Named, Taking, Walking
    <3>4. QED
        BY <3>1, <3>2, <3>3
  <2>2. CASE at[t] \notin {"claiming", "truncating"}
    <3>1. at[t] \in Stages
        BY DEF Acting, ToolInv, ToolTypeOK
    <3>2. disk = saved
        BY <1>2, <2>2, <3>1 DEF Stages, AtWork, Acting, Kept, KeptDisk
    <3>3. QED
        BY <3>2 DEF disk
  <2>3. QED
      BY <2>1, <2>2
<1>3. QED
    BY <1>1, <1>2, FailsAtomic DEF disk

-----------------------------------------------------------------------------
(* The stages that touch nothing *)

\* A stage that leaves the files as they were, and sees nothing.
LEMMA PassAtomic ==
    ASSUME NEW t \in Tasks, Acting(t), at[t] # "ended", NEW stage, Go(t, stage),
           stage \notin {"new", "ended"}, UNCHANGED <<disk, fd, to, got>>
    PROVE  UNCHANGED Atomic!atomic /\ at'[t] = stage /\ got' = got
<1>1. at' = [at EXCEPT ![t] = stage] /\ outcome' = outcome
    BY DEF Go
<1>2. at'[t] = stage
    BY <1>1 DEF Acting, ToolInv, ToolTypeOK
<1>3. QED
    BY <1>1, <1>2, GoesOn

LEMMA BeginAtomic ==
    ASSUME NEW t \in Tasks, Acting(t), Begin(t)
    PROVE  Kept(t)' /\ (Atomic!Do(t) \/ UNCHANGED Atomic!atomic)
<1>1. CASE \E why \in {"cancelled", "validation"} : Fails(t, why)
    BY <1>1, NothingYet DEF Begin
<1>2. CASE Go(t, "looking") /\ UNCHANGED <<disk, fd, to, got>>
  <2>1. UNCHANGED Atomic!atomic /\ at'[t] = "looking" /\ got' = got
      BY <1>2, PassAtomic DEF Begin
  <2>2. got[t] = {}
      BY DEF Begin, Acting, Kept, KeptSight
  <2>3. disk' = saved'
      BY <1>2 DEF Begin, Acting, Turn, AtWork
  <2>4. KeptDisk(t)'
      BY <2>1, <2>3 DEF KeptDisk
  <2>5. KeptSight(t)'
      BY <2>1, <2>2 DEF KeptSight
  <2>6. QED
      BY <2>1, <2>4, <2>5 DEF Kept
<1>3. QED
    BY <1>1, <1>2 DEF Begin

\* Before it writes anything, the files are as they were.
LEMMA Still ==
    ASSUME NEW t \in Tasks, Acting(t), UNCHANGED disk,
           at[t] \in {"looking", "stating", "opening", "reading", "rereading", "scanning", "visiting",
                      "placing", "unlinking", "linking", "aiming", "renaming", "copying"}
    PROVE  /\ disk = saved /\ saved' = saved /\ disk' = saved
           /\ entry = saved[1] /\ data = saved[2] /\ parent = saved[3] /\ saved'[3] = parent'
<1>1. disk = saved /\ ~Quiet
    BY DEF Acting, Turn, AtWork, Kept, KeptDisk
<1>2. QED
    BY <1>1 DEF Acting, Turn, disk

LEMMA LookAtomic ==
    ASSUME NEW t \in Tasks, Acting(t), Look(t)
    PROVE  Kept(t)' /\ (Atomic!Do(t) \/ UNCHANGED Atomic!atomic)
<1>1. CASE \E how \in {"validation", "raised"} : Fails(t, how)
    BY <1>1, NothingYet DEF Look
<1>2. CASE /\ Go(t, First[Op(t)]) /\ UNCHANGED <<disk, fd, to, got>>
           /\ Op(t) \in Walking => Walkable(t)
  <2>1. Op(t) \in Ops /\ at[t] = "looking"
      BY Typed DEF Acting, ToolInv, Look
  <2>2. /\ First[Op(t)] \in {"opening", "stating", "placing", "unlinking", "linking", "aiming",
                             "scanning"}
        /\ First[Op(t)] = "scanning" => Op(t) \in Walking
      BY <2>1, FirstStages DEF Ops, Named, Taking, Walking
  <2>3. PICK stage : stage = First[Op(t)]
      OBVIOUS
  <2>4. UNCHANGED Atomic!atomic /\ at'[t] = stage /\ got' = got
      BY <1>2, <2>1, <2>2, <2>3, PassAtomic
  <2>5. got[t] = {}
      BY <2>1 DEF Acting, Kept, KeptSight
  <2>6. disk' = saved' /\ parent' = parent
      BY <1>2, <2>1, Still DEF disk
  <2>7. KeptDisk(t)'
      BY <1>2, <2>2, <2>3, <2>4, <2>6 DEF KeptDisk, Walkable, Op, Acting, Turn
  <2>8. KeptSight(t)'
      BY <2>2, <2>3, <2>4, <2>5 DEF KeptSight
  <2>9. QED
      BY <2>4, <2>7, <2>8 DEF Kept
<1>3. QED
    BY <1>1, <1>2 DEF Look

-----------------------------------------------------------------------------
(* Reading *)

LEMMA StatAtomic ==
    ASSUME NEW t \in Tasks, Acting(t), Stat(t)
    PROVE  Kept(t)' /\ (Atomic!Do(t) \/ UNCHANGED Atomic!atomic)
<1>0. at[t] = "stating" /\ Op(t) \in {"read", "sample"}
  <2>1. at[t] = "stating" /\ Op(t) \in Ops /\ Goes(t)
      BY Typed DEF Stat, Acting, ToolInv, Progress
  <2>2. Op(t) \in {"read", "sample"}
      BY <2>1 DEF Goes, Ops, Named, Taking, Walking
  <2>3. QED
      BY <2>1, <2>2
<1>1. CASE \E how \in {"validation", "internal", "raised"} : Fails(t, how)
    BY <1>0, <1>1, NothingYet
<1>2. CASE /\ Is(Src(t)) /\ Sees(t, Src(t), data[entry[Src(t)]])
           /\ Go(t, "opening") /\ UNCHANGED <<disk, fd, to>>
  <2>1. at'[t] = "opening" /\ at' = [at EXCEPT ![t] = "opening"] /\ outcome' = outcome
      BY <1>2, Moved DEF Acting, Go
  <2>2. disk' = saved' /\ saved' = saved /\ entry = saved[1] /\ data = saved[2]
      BY <1>0, <1>2, Still
  <2>3. got[t] = {} /\ got \in [Tasks -> SUBSET Seen] /\ job' = job
      BY <1>0 DEF Acting, Turn, Kept, KeptSight, ToolInv
  <2>4. got' = [got EXCEPT ![t] = got[t] \cup {<<Src(t), data[entry[Src(t)]]>>}]
      BY <1>2 DEF Sees
  <2>5. got'[t] = Sight(t) /\ WasFile(Src(t)) /\ \A u \in Tasks \ {t} : got'[u] = got[u]
      BY <1>2, <2>2, <2>3, <2>4 DEF Sight, WasFile, Was, WasIn, Is
  <2>6. Sight(t)' = Sight(t) /\ (WasFile(Src(t)) => WasFile(Src(t))')
      BY <2>2, <2>3 DEF Sight, Was, WasIn, WasFile, Src
  <2>7. KeptDisk(t)'
      BY <2>1, <2>2 DEF KeptDisk
  <2>8. KeptSight(t)'
      BY <1>0, <2>1, <2>3, <2>5, <2>6 DEF KeptSight, Op
  <2>9. UNCHANGED Atomic!atomic
      BY <1>0, <2>1, <2>5, GoesOn
  <2>10. QED
      BY <2>7, <2>8, <2>9 DEF Kept
<1>3. CASE Go(t, "opening") /\ UNCHANGED <<disk, fd, to, got>>
  <2>1. UNCHANGED Atomic!atomic /\ at'[t] = "opening" /\ got' = got
      BY <1>0, <1>3, PassAtomic
  <2>2. disk' = saved' /\ got[t] = {}
      BY <1>0, <1>3, Still DEF Acting, Kept, KeptSight
  <2>3. KeptDisk(t)' /\ KeptSight(t)'
      BY <2>1, <2>2 DEF KeptDisk, KeptSight
  <2>4. QED
      BY <2>1, <2>3 DEF Kept
<1>4. QED
    BY <1>1, <1>2, <1>3 DEF Stat

LEMMA OpenAtomic ==
    ASSUME NEW t \in Tasks, Acting(t), Open(t)
    PROVE  Kept(t)' /\ (Atomic!Do(t) \/ UNCHANGED Atomic!atomic)
<1>0. at[t] = "opening" /\ Op(t) \in {"read", "sample", "edit"}
    BY Typed DEF Open, Acting, ToolInv, Progress, Goes, Ops, Named, Taking, Walking
<1>1. CASE \E how \in {"validation", "internal"} : Fails(t, how)
    BY <1>0, <1>1, NothingYet
<1>2. CASE /\ Is(Src(t)) /\ Opens(t, entry[Src(t)])
           /\ Go(t, "reading") /\ UNCHANGED <<disk, to, got>>
  <2>1. at'[t] = "reading" /\ at' = [at EXCEPT ![t] = "reading"] /\ outcome' = outcome
      BY <1>2, Moved DEF Acting, Go
  <2>2. disk' = saved' /\ saved' = saved /\ entry = saved[1] /\ job' = job
      BY <1>0, <1>2, Still DEF Acting, Turn
  <2>3. fd'[t] = Was(Src(t)) /\ WasFile(Src(t))
      BY <1>2, <2>2 DEF Opens, Was, WasFile, Is, Acting, ToolInv, ToolTypeOK
  <2>4. Sight(t)' = Sight(t) /\ Was(Src(t))' = Was(Src(t)) /\ WasFile(Src(t))'
      BY <2>2, <2>3 DEF Sight, Was, WasIn, WasFile, Src
  <2>5. KeptDisk(t)'
      BY <2>1, <2>2, <2>3, <2>4 DEF KeptDisk
  <2>6. KeptSight(t)'
      BY <1>0, <1>2, <2>1, <2>2, <2>4 DEF KeptSight, Op, Acting, Kept
  <2>7. UNCHANGED Atomic!atomic
      BY <1>0, <1>2, <2>1, GoesOn
  <2>8. QED
      BY <2>5, <2>6, <2>7 DEF Kept
<1>3. QED
    BY <1>1, <1>2 DEF Open

\* What a tool reads is what was there when it began.
LEMMA ReadsSight ==
    ASSUME NEW t \in Tasks, Acting(t), at[t] \in {"reading", "rereading"},
           UNCHANGED disk, Sees(t, Src(t), data[fd[t]])
    PROVE  /\ disk' = saved' /\ saved' = saved /\ WasFile(Src(t))
           /\ got' = [got EXCEPT ![t] = Sight(t)] /\ got'[t] = Sight(t)
           /\ Sight(t)' = Sight(t) /\ Was(Src(t))' = Was(Src(t)) /\ WasFile(Src(t))'
<1>1. disk' = saved' /\ saved' = saved /\ data = saved[2] /\ job' = job
    BY Still DEF Acting, Turn
<1>2. WasFile(Src(t)) /\ fd[t] = Was(Src(t)) /\ (got[t] = {} \/ got[t] = Sight(t))
    BY DEF Acting, Kept, KeptDisk, KeptSight
<1>3. got[t] \cup {<<Src(t), data[fd[t]]>>} = Sight(t)
    BY <1>1, <1>2 DEF Sight, WasIn
<1>4. got' = [got EXCEPT ![t] = Sight(t)] /\ got'[t] = Sight(t)
    BY <1>3 DEF Sees, Acting, ToolInv
<1>5. QED
    BY <1>1, <1>2, <1>4 DEF Sight, Was, WasIn, WasFile, Src

LEMMA FirstReadAtomic ==
    ASSUME NEW t \in Tasks, Acting(t), FirstRead(t)
    PROVE  Kept(t)' /\ (Atomic!Do(t) \/ UNCHANGED Atomic!atomic)
<1>0. at[t] = "reading" /\ parent = "dir" /\ Op(t) \in {"read", "sample", "edit"} /\ job' = job
    BY Typed DEF FirstRead, Acting, Turn, ToolInv, Progress, Goes, Ops, Named, Taking, Walking
<1>1. CASE \E how \in {"validation", "internal"} : Fails(t, how)
    BY <1>0, <1>1, NothingYet
<1>2. CASE /\ Sees(t, Src(t), data[fd[t]])
           /\ Go(t, IF Op(t) = "edit" THEN "truncating" ELSE "rereading")
           /\ UNCHANGED <<disk, fd, to>>
  <2>0. /\ disk' = saved' /\ saved' = saved /\ WasFile(Src(t))
        /\ got' = [got EXCEPT ![t] = Sight(t)] /\ got'[t] = Sight(t)
        /\ Sight(t)' = Sight(t) /\ Was(Src(t))' = Was(Src(t)) /\ WasFile(Src(t))'
      BY <1>0, <1>2, ReadsSight
  <2>1. PICK stage : stage = IF Op(t) = "edit" THEN "truncating" ELSE "rereading"
      OBVIOUS
  <2>2. at'[t] = stage /\ at' = [at EXCEPT ![t] = stage] /\ outcome' = outcome
      BY <1>2, <2>1, Moved DEF Acting, Go
  <2>3. fd'[t] = Was(Src(t)) /\ saved'[3] = "dir" /\ parent' = "dir"
      BY <1>0, <1>2, <2>0, Still DEF disk, Acting, Kept, KeptDisk
  <2>4. entry' = saved'[1] /\ data' = saved'[2]
      BY <2>0 DEF disk
  <2>5. KeptDisk(t)'
    <3>1. stage \in {"truncating", "rereading"} /\ (stage = "truncating" <=> Op(t)' = "edit")
        BY <1>0, <2>1 DEF Op
    <3>2. QED
        BY <2>0, <2>2, <2>3, <2>4, <3>1 DEF KeptDisk
  <2>6. KeptSight(t)'
      BY <1>0, <2>0, <2>1, <2>2 DEF KeptSight, Op
  <2>7. UNCHANGED Atomic!atomic
    <3>1. \A u \in Tasks \ {t} : got'[u] = got[u]
        BY <2>0 DEF Acting, ToolInv
    <3>2. QED
        BY <1>0, <2>1, <2>2, <3>1, GoesOn
  <2>8. QED
      BY <2>5, <2>6, <2>7 DEF Kept
<1>3. QED
    BY <1>1, <1>2 DEF FirstRead

LEMMA NextReadAtomic ==
    ASSUME NEW t \in Tasks, Acting(t), NextRead(t)
    PROVE  Kept(t)' /\ (Atomic!Do(t) \/ UNCHANGED Atomic!atomic)
<1>0. at[t] = "rereading" /\ AtWork(t) /\ Op(t) \in {"read", "sample"} /\ job' = job
    BY Typed DEF NextRead, AtWork, Acting, Turn, ToolInv, Progress, Goes, Ops, Named, Taking, Walking
<1>1. CASE \E how \in {"validation", "internal"} : Fails(t, how)
    BY <1>0, <1>1, NothingYet
<1>2. CASE Sees(t, Src(t), data[fd[t]]) /\ End(t, "success") /\ UNCHANGED <<disk, fd, to>>
  <2>1. /\ got' = [got EXCEPT ![t] = Sight(t)] /\ WasFile(Src(t)) /\ disk' = saved' /\ saved' = saved
      BY <1>0, <1>2, ReadsSight
  <2>0. PICK seen : seen = Sight(t)
      OBVIOUS
  <2>2. /\ Atomic!Tell(t, "success", seen) /\ Kept(t)' /\ Quiet'
        /\ [u \in Tasks |-> [outcome |-> outcome[u],
               got |-> IF at[u] = "ended" THEN got[u] ELSE {}]][t].outcome = "none"
    <3>1. got' = [got EXCEPT ![t] = seen]
        BY <2>0, <2>1
    <3>2. QED
        BY <1>0, <1>2, <3>1, Telling
  <2>3. Atomic!Read(t)
    <3>1. entry' = saved[1] /\ data' = saved[2] /\ parent' = saved[3]
        BY <2>1 DEF disk
    <3>2. UNCHANGED Atomic!files
        BY <1>0, <2>2, <3>1, Before DEF Atomic!files
    <3>3. (IF Quiet THEN entry ELSE saved[1])[job[t].src] \in Atomic!Files
        BY <1>0, <2>1, Before DEF WasFile, Was, Src, Files, Atomic!Files
    <3>4. seen = {<<job[t].src, (IF Quiet THEN data ELSE saved[2])
                        [(IF Quiet THEN entry ELSE saved[1])[job[t].src]]>>}
        BY <1>0, <2>0, Before DEF Sight, Was, WasIn, Src
    <3>5. QED
        BY <1>0, <2>2, <3>2, <3>3, <3>4 DEF Atomic!Read, Atomic!Is, Atomic!Tell, Op
  <2>4. QED
      BY <1>0, <2>2, <2>3 DEF Atomic!Do
<1>3. QED
    BY <1>1, <1>2 DEF NextRead

-----------------------------------------------------------------------------
(* Walking *)

LEMMA WalkedStays ==
    ASSUME NEW t \in Tasks, UNCHANGED <<disk, saved, job>>,
           NEW left, NEW seen, Walked(t, left, seen)
    PROVE  Walked(t, left, seen)'
<1>1. /\ Op(t)' = Op(t) /\ WasShown' = WasShown /\ entry' = entry /\ data' = data
      /\ \A p : Kind(p)' = Kind(p) /\ Is(p)' = Is(p)
    BY DEF disk, Op, WasShown, Was, Kind, Is
<1>2. QED
    BY <1>1 DEF Walked

\* A tool on a walk keeps what the walk has seen.
LEMMA WalkKept ==
    ASSUME NEW t \in Tasks, Acting(t), UNCHANGED disk, at[t] \in {"scanning", "visiting"},
           at'[t] = "visiting", Op(t) \in Walking,
           NEW left, NEW seen, todo'[t] = left, got'[t] = seen, Walked(t, left, seen)
    PROVE  Kept(t)'
<1>1. disk' = saved' /\ saved' = saved /\ job' = job /\ parent' = parent
    BY Still DEF Acting, Turn, disk
<1>2. Walked(t, left, seen)'
    BY <1>1, WalkedStays
<1>3. parent' = "dir" \/ (Op(t)' = "grep" /\ parent' = "file")
    BY <1>1 DEF Op, Acting, Kept, KeptDisk
<1>4. KeptDisk(t)'
    BY <1>1, <1>3 DEF KeptDisk
<1>5. KeptSight(t)'
    BY <1>1, <1>2 DEF KeptSight, Walked, Op
<1>6. QED
    BY <1>4, <1>5 DEF Kept

LEMMA ScanAtomic ==
    ASSUME NEW t \in Tasks, Acting(t), Scan(t)
    PROVE  Kept(t)' /\ (Atomic!Do(t) \/ UNCHANGED Atomic!atomic)
<1>0. at[t] = "scanning" /\ Op(t) \in Walking
  <2>1. at[t] = "scanning" /\ Op(t) \in Ops /\ Goes(t)
      BY Typed DEF Scan, Acting, ToolInv, Progress
  <2>2. QED
      BY <2>1 DEF Goes, Ops, Named, Taking
<1>1. CASE \E how \in {"cancelled", "validation", "internal"} : Fails(t, how)
    BY <1>0, <1>1, NothingYet
<1>2. CASE /\ at' = [at EXCEPT ![t] = "visiting"]
           /\ \E names \in {Names} \cup (IF Op(t) = "list" THEN {} ELSE {{}}) :
                 todo' = [todo EXCEPT ![t] = names]
           /\ UNCHANGED <<disk, fd, to, got, outcome>>
  <2>1. PICK left : /\ left \in {Names} \cup (IF Op(t) = "list" THEN {} ELSE {{}})
                    /\ todo' = [todo EXCEPT ![t] = left]
      BY <1>2
  <2>2. entry = saved[1]
      BY <1>0, <1>2, Still
  <2>3. Names = WasShown
      BY <2>2 DEF Names, WasShown, Was
  <2>4. Walked(t, left, {})
      BY <1>0, <2>1, <2>3 DEF Walked
  <2>5. /\ todo'[t] = left /\ got'[t] = {} /\ at'[t] = "visiting"
      BY <1>0, <1>2, <2>1 DEF Acting, Kept, KeptSight, ToolInv, ToolTypeOK
  <2>6. Kept(t)'
      BY <1>0, <1>2, <2>4, <2>5, WalkKept
  <2>7. UNCHANGED Atomic!atomic
      BY <1>0, <1>2, <2>5, GoesOn
  <2>8. QED
      BY <2>6, <2>7
<1>3. QED
    BY <1>1, <1>2 DEF Scan

LEMMA VisitAtomic ==
    ASSUME NEW t \in Tasks, Acting(t), NEW p \in Paths, Visit(t, p)
    PROVE  Kept(t)' /\ (Atomic!Do(t) \/ UNCHANGED Atomic!atomic)
<1>0. at[t] = "visiting" /\ p \in todo[t] /\ Op(t) \in Walking
  <2>1. at[t] = "visiting" /\ p \in todo[t] /\ Op(t) \in Ops /\ Goes(t)
      BY Typed DEF Visit, Acting, ToolInv, Progress
  <2>2. QED
      BY <2>1 DEF Goes, Ops, Named, Taking
<1>1. CASE \E how \in {"cancelled", "validation", "internal", "raised"} : Fails(t, how)
    BY <1>0, <1>1, NothingYet
<1>2. CASE /\ todo' = [todo EXCEPT ![t] = @ \ {p}]
           /\ \/ Op(t) = "list" /\ Sees(t, p, Kind(p))
              \/ Op(t) = "glob" /\ (IF Is(p) THEN Sees(t, p, {"file"}) ELSE UNCHANGED got)
              \/ Op(t) = "grep" /\ Is(p) /\ Sees(t, p, data[entry[p]])
              \/ Op(t) = "grep" /\ UNCHANGED got
           /\ UNCHANGED <<disk, at, fd, to, outcome>>
  <2>1. /\ Walked(t, todo[t], got[t]) /\ got \in [Tasks -> SUBSET Seen]
        /\ todo \in [Tasks -> SUBSET Paths]
      BY <1>0 DEF Acting, Kept, KeptSight, ToolInv, ToolTypeOK
  <2>2. PICK left, seen : left = todo[t] \ {p} /\ seen = got'[t]
      OBVIOUS
  <2>3. todo'[t] = left /\ got'[t] = seen /\ at'[t] = "visiting"
      BY <1>0, <1>2, <2>1, <2>2
  <2>4. ASSUME Op(t) = "list"
        PROVE  Walked(t, left, seen)
    <3>1. seen = got[t] \cup {<<p, Kind(p)>>}
        BY <1>2, <2>1, <2>2, <2>4 DEF Sees
    <3>2. WasShown \ left = (WasShown \ todo[t]) \cup {p} /\ left \subseteq WasShown
        BY <1>0, <2>1, <2>2, <2>4 DEF Walked
    <3>3. got[t] = {<<q, Kind(q)>> : q \in WasShown \ todo[t]}
        BY <2>1, <2>4 DEF Walked
    <3>4. seen = {<<q, Kind(q)>> : q \in WasShown \ left}
        BY <3>1, <3>2, <3>3
    <3>5. QED
        BY <2>4, <3>2, <3>4 DEF Walked
  <2>5. ASSUME Op(t) = "glob"
        PROVE  Walked(t, left, seen)
    <3>1. seen = got[t] \cup (IF Is(p) THEN {<<p, {"file"}>>} ELSE {})
        BY <1>2, <2>1, <2>2, <2>5 DEF Sees
    <3>2. PICK names \in {{}, WasShown} : /\ todo[t] \subseteq names
             /\ got[t] = {<<q, {"file"}>> : q \in {r \in names \ todo[t] : Is(r)}}
        BY <2>1, <2>5 DEF Walked
    <3>3. /\ {r \in names \ left : Is(r)}
               = {r \in names \ todo[t] : Is(r)} \cup (IF Is(p) THEN {p} ELSE {})
          /\ left \subseteq names
        BY <1>0, <2>2, <3>2
    <3>4. seen = {<<q, {"file"}>> : q \in {r \in names \ left : Is(r)}}
        BY <3>1, <3>2, <3>3
    <3>5. QED
        BY <2>5, <3>3, <3>4 DEF Walked
  <2>6. ASSUME Op(t) = "grep"
        PROVE  Walked(t, left, seen)
    <3>1. seen = got[t] \/ (Is(p) /\ seen = got[t] \cup {<<p, data[entry[p]]>>})
        BY <1>2, <2>1, <2>2, <2>6 DEF Sees
    <3>2. /\ todo[t] \subseteq WasShown
          /\ got[t] \subseteq {<<q, data[entry[q]]>> : q \in {r \in WasShown : Is(r)}}
        BY <2>1, <2>6 DEF Walked
    <3>3. seen \subseteq {<<q, data[entry[q]]>> : q \in {r \in WasShown : Is(r)}}
        BY <1>0, <3>1, <3>2
    <3>4. QED
        BY <2>2, <2>6, <3>2, <3>3 DEF Walked
  <2>7. Walked(t, left, seen)
      BY <1>0, <2>4, <2>5, <2>6 DEF Walking
  <2>8. Kept(t)'
      BY <1>0, <1>2, <2>3, <2>7, WalkKept
  <2>9. \A u \in Tasks \ {t} : got'[u] = got[u]
      BY <1>2, <2>1 DEF Sees
  <2>10. UNCHANGED Atomic!atomic
      BY <1>0, <1>2, <2>3, <2>9, GoesOn
  <2>11. QED
      BY <2>8, <2>10
<1>3. QED
    BY <1>1, <1>2 DEF Visit

LEMMA VisitedAtomic ==
    ASSUME NEW t \in Tasks, Acting(t), Visited(t)
    PROVE  Kept(t)' /\ (Atomic!Do(t) \/ UNCHANGED Atomic!atomic)
<1>0. /\ at[t] = "visiting" /\ AtWork(t) /\ job' = job
      /\ (todo[t] = {} \/ Op(t) = "grep") /\ End(t, "success") /\ UNCHANGED <<disk, fd, to, got>>
    BY DEF Visited, AtWork, Acting, Turn
<1>1. Op(t) \in Walking
  <2>1. Op(t) \in Ops /\ Goes(t)
      BY Typed DEF Acting, ToolInv, Progress
  <2>2. QED
      BY <1>0, <2>1 DEF Goes, Ops, Named, Taking
<1>2. Walked(t, todo[t], got[t]) /\ (parent = "dir" \/ (Op(t) = "grep" /\ parent = "file"))
    BY <1>0 DEF Acting, Kept, KeptDisk, KeptSight
<1>3. entry = saved[1] /\ data = saved[2] /\ parent = saved[3]
    BY <1>0, Still
<1>4. PICK seen : seen = got[t]
    OBVIOUS
<1>5. /\ Atomic!Tell(t, "success", seen) /\ Kept(t)' /\ Quiet'
      /\ [u \in Tasks |-> [outcome |-> outcome[u],
             got |-> IF at[u] = "ended" THEN got[u] ELSE {}]][t].outcome = "none"
  <2>1. got' = [got EXCEPT ![t] = seen]
      BY <1>0, <1>4 DEF Acting, ToolInv
  <2>2. QED
      BY <1>0, <1>1, <2>1, Telling
<1>6. /\ (IF Quiet THEN entry ELSE saved[1]) = entry
      /\ (IF Quiet THEN data ELSE saved[2]) = data
      /\ (IF Quiet THEN parent ELSE saved[3]) = parent
    BY <1>3
<1>7. Atomic!Shown = WasShown /\ \A p : Atomic!Is(p) <=> Is(p)
    BY <1>3, <1>6 DEF Atomic!Shown, Atomic!Is, Is, WasShown, Was, Files, Atomic!Files
<1>8. \A p \in WasShown : Atomic!Kind(p) = Kind(p)
  <2>1. TAKE p \in WasShown
  <2>2. entry[p] \in Entries /\ entry[p] # "absent"
      BY <1>3, Typed DEF WasShown, Was, Acting, ToolInv
  <2>3. QED
      BY <1>6, <1>7, <2>2, ToolAssumption DEF Atomic!Kind, Kind, Is, Entries
<1>9. Atomic!Walk(t)
  <2>1. UNCHANGED Atomic!files
      BY <1>0, <1>5, <1>6 DEF Atomic!files, disk
  <2>2. CASE Op(t) = "list"
    <3>1. seen = {<<p, Atomic!Kind(p)>> : p \in Atomic!Shown}
        BY <1>0, <1>2, <1>4, <1>7, <1>8, <2>2 DEF Walked
    <3>2. Atomic!Tell(t, "success", {<<p, Atomic!Kind(p)>> : p \in Atomic!Shown})
        BY <1>5, <3>1 DEF Atomic!Tell
    <3>3. job[t].op = "list" /\ (IF Quiet THEN parent ELSE saved[3]) = "dir"
        BY <1>2, <1>6, <2>2 DEF Op
    <3>4. QED
        BY <2>1, <3>2, <3>3 DEF Atomic!Walk
  <2>3. CASE Op(t) = "glob"
    <3>1. PICK names \in {{}, WasShown} : seen = {<<p, {"file"}>> : p \in {q \in names : Is(q)}}
        BY <1>0, <1>2, <1>4, <2>3 DEF Walked
    <3>2. PICK found : found = {q \in names : Is(q)}
        OBVIOUS
    <3>3. found \in {{}, {q \in Atomic!Shown : Atomic!Is(q)}}
        BY <1>7, <3>2
    <3>4. seen = {<<p, {"file"}>> : p \in found}
        BY <3>1, <3>2
    <3>5. Atomic!Tell(t, "success", {<<p, {"file"}>> : p \in found})
        BY <1>5, <3>4 DEF Atomic!Tell
    <3>6. job[t].op = "glob" /\ (IF Quiet THEN parent ELSE saved[3]) = "dir"
        BY <1>2, <1>6, <2>3 DEF Op
    <3>7. QED
        BY <2>1, <3>3, <3>5, <3>6 DEF Atomic!Walk
  <2>4. CASE Op(t) = "grep"
    <3>1. PICK found : found = {q \in WasShown : Is(q) /\ <<q, data[entry[q]]>> \in seen}
        OBVIOUS
    <3>2. seen = {<<p, data[entry[p]]>> : p \in found}
        BY <1>2, <1>4, <2>4, <3>1 DEF Walked
    <3>3. found \in SUBSET {q \in Atomic!Shown : Atomic!Is(q)}
        BY <1>7, <3>1
    <3>4. Atomic!Tell(t, "success", {<<p, (IF Quiet THEN data ELSE saved[2])
                         [(IF Quiet THEN entry ELSE saved[1])[p]]>> : p \in found})
      <4>1. seen = {<<p, (IF Quiet THEN data ELSE saved[2])
                       [(IF Quiet THEN entry ELSE saved[1])[p]]>> : p \in found}
          BY <1>6, <3>2
      <4>2. QED
          BY <1>5, <4>1 DEF Atomic!Tell
    <3>5. /\ job[t].op = "grep"
          /\ (IF Quiet THEN parent ELSE saved[3]) \in {"dir", "file"}
        BY <1>2, <1>6, <2>4 DEF Op
    <3>6. QED
        BY <2>1, <3>3, <3>4, <3>5 DEF Atomic!Walk
  <2>5. QED
      BY <1>1, <2>2, <2>3, <2>4 DEF Walking
<1>10. QED
    BY <1>0, <1>5, <1>9 DEF Atomic!Do

-----------------------------------------------------------------------------
(* Writing *)

\* Jobs and what was there, typed.
LEMMA TypedWas ==
    ASSUME NEW t \in Tasks, Acting(t)
    PROVE  /\ job' = job /\ Src(t) \in Paths /\ Dst(t) \in Paths /\ Op(t) \in Ops
           /\ saved[1] \in [Paths -> Entries] /\ saved[2] \in [Files -> SUBSET Marks]
           /\ saved[3] \in {"dir", "missing", "file"}
           /\ \A p \in Paths : Was(p) \in Entries /\ WasLanding(p) \in Paths /\ Written(t, p) \in Files
           /\ "absent" \notin Files /\ "dir" \notin Files /\ Goes(t)
<1>1. /\ saved[1] \in [Paths -> Entries] /\ saved[2] \in [Files -> SUBSET Marks]
      /\ saved[3] \in {"dir", "missing", "file"}
    BY DEF Acting, SavedOK
<1>2. Src(t) \in Paths /\ Dst(t) \in Paths /\ Op(t) \in Ops /\ Goes(t) /\ job' = job
    BY Typed DEF Acting, ToolInv, Turn, Progress
<1>3. \A p \in Paths : Was(p) \in Entries /\ WasLanding(p) \in Paths /\ Written(t, p) \in Files
    BY <1>1, ToolAssumption DEF Was, WasLanding, Written, WasFile, Files
<1>4. QED
    BY <1>1, <1>2, <1>3, ToolAssumption

\* What was there stays what was there.
LEMMA WasStays ==
    ASSUME NEW t \in Tasks, saved' = saved, job' = job
    PROVE  /\ \A p : Was(p)' = Was(p) /\ (WasFile(p)' <=> WasFile(p)) /\ WasIn(p)' = WasIn(p)
           /\ \A p : Written(t, p)' = Written(t, p) /\ WasLanding(p)' = WasLanding(p)
           /\ Src(t)' = Src(t) /\ Dst(t)' = Dst(t) /\ Op(t)' = Op(t) /\ Sight(t)' = Sight(t)
BY DEF Was, WasFile, WasIn, Written, WasLanding, Src, Dst, Op, Sight

LEMMA PlaceAtomic ==
    ASSUME NEW t \in Tasks, Acting(t), Place(t)
    PROVE  Kept(t)' /\ (Atomic!Do(t) \/ UNCHANGED Atomic!atomic)
<1>0. at[t] = "placing" /\ Op(t) \in {"write", "create"} /\ job' = job
  <2>1. at[t] = "placing"
      BY DEF Place
  <2>2. QED
      BY <2>1, TypedWas DEF Goes, Ops, Named, Taking, Walking
<1>1. CASE \E how \in {"validation", "internal"} : Fails(t, how)
    BY <1>0, <1>1, NothingYet
<1>2. CASE /\ parent # "file" /\ parent' = "dir"
           /\ Go(t, IF Op(t) = "create" THEN "claiming" ELSE "truncating")
           /\ UNCHANGED <<entry, data, fd, to, got>>
  <2>1. PICK stage : stage = IF Op(t) = "create" THEN "claiming" ELSE "truncating"
      OBVIOUS
  <2>2. at'[t] = stage /\ at' = [at EXCEPT ![t] = stage] /\ outcome' = outcome
      BY <1>2, <2>1, Moved DEF Acting, Go
  <2>3. disk = saved /\ saved' = saved
      BY <1>0 DEF Acting, Turn, AtWork, Kept, KeptDisk
  <2>4. entry' = saved'[1] /\ data' = saved'[2] /\ saved'[3] # "file"
      BY <1>2, <2>3 DEF disk
  <2>5. KeptDisk(t)'
      BY <1>0, <1>2, <2>1, <2>2, <2>3, <2>4, WasStays DEF KeptDisk
  <2>6. KeptSight(t)'
    <3>1. got'[t] = {}
        BY <1>0, <1>2 DEF Acting, Kept, KeptSight, Walking
    <3>2. QED
        BY <1>0, <2>1, <2>2, <2>3, <3>1, WasStays DEF KeptSight
  <2>7. UNCHANGED Atomic!atomic
      BY <1>0, <1>2, <2>1, <2>2, GoesOn
  <2>8. QED
      BY <2>5, <2>6, <2>7 DEF Kept
<1>3. QED
    BY <1>1, <1>2 DEF Place

\* A tool that opens a file to write it.
LEMMA TornKept ==
    ASSUME NEW t \in Tasks, Acting(t), at[t] \in {"claiming", "truncating"},
           Was(Src(t)) # "dir", NEW f, f = Written(t, Src(t)),
           Links(Src(t), f), Holds(f, Torn), Opens(t, f), UNCHANGED <<parent, to, got>>,
           Go(t, "filling"), Op(t) = "create" => Was(Src(t)) = "absent"
    PROVE  Kept(t)' /\ UNCHANGED Atomic!atomic
<1>1. /\ entry = saved[1] /\ data = saved[2] /\ parent = "dir" /\ saved[3] # "file"
      /\ Op(t) = "edit" => WasFile(Src(t)) /\ saved[3] = "dir"
    BY TypedWas DEF Acting, Kept, KeptDisk, Goes
<1>2. saved' = saved /\ job' = job
    BY DEF Acting, Turn, AtWork
<1>3. at'[t] = "filling" /\ at' = [at EXCEPT ![t] = "filling"] /\ outcome' = outcome
    BY Moved DEF Acting, Go
<1>4. /\ entry' = [saved[1] EXCEPT ![Src(t)] = f] /\ data' = [saved[2] EXCEPT ![f] = Torn]
      /\ fd'[t] = f
    BY <1>1 DEF Links, Holds, Opens, Acting, ToolInv, ToolTypeOK
<1>5. Wrote(t, Src(t), Torn)'
    BY <1>2, <1>4, WasStays DEF Wrote, Torn
<1>6. KeptDisk(t)'
    BY <1>1, <1>2, <1>3, <1>5, WasStays DEF KeptDisk
<1>7. KeptSight(t)'
  <2>1. Op(t) \in {"write", "create", "edit"} /\ (Op(t) = "edit" => at[t] = "truncating")
      BY TypedWas DEF Goes, Ops, Named, Taking, Walking
  <2>2. Op(t) = "edit" => got[t] = Sight(t)
      BY <2>1 DEF Acting, Kept, KeptSight
  <2>3. Op(t) # "edit" => got[t] = {}
      BY <2>1 DEF Acting, Kept, KeptSight, Walking
  <2>4. QED
      BY <1>2, <1>3, <2>1, <2>2, <2>3, WasStays DEF KeptSight
<1>8. UNCHANGED Atomic!atomic
    BY <1>3, GoesOn
<1>9. QED
    BY <1>6, <1>7, <1>8 DEF Kept

LEMMA ClaimAtomic ==
    ASSUME NEW t \in Tasks, Acting(t), Claim(t)
    PROVE  Kept(t)' /\ (Atomic!Do(t) \/ UNCHANGED Atomic!atomic)
<1>0. at[t] = "claiming"
    BY DEF Claim
<1>1. CASE \E how \in {"validation", "internal"} : Fails(t, how)
    BY <1>0, <1>1, NothingYet
<1>2. CASE /\ entry[Src(t)] = "absent"
           /\ Links(Src(t), t) /\ Holds(t, Torn) /\ Opens(t, t)
           /\ Go(t, "filling") /\ UNCHANGED <<parent, to, got>>
  <2>1. Was(Src(t)) = "absent"
      BY <1>0, <1>2 DEF Was, Acting, Kept, KeptDisk
  <2>2. t = Written(t, Src(t))
      BY <2>1, TypedWas DEF Written, WasFile
  <2>3. QED
      BY <1>0, <1>2, <2>1, <2>2, TornKept
<1>3. QED
    BY <1>1, <1>2 DEF Claim

LEMMA TruncateAtomic ==
    ASSUME NEW t \in Tasks, Acting(t), Truncate(t)
    PROVE  Kept(t)' /\ (Atomic!Do(t) \/ UNCHANGED Atomic!atomic)
<1>0. at[t] = "truncating"
    BY DEF Truncate
<1>1. CASE Fails(t, "internal")
    BY <1>0, <1>1, NothingYet
<1>2. CASE Empty(t, Src(t)) /\ Go(t, "filling")
  <2>1. entry = saved[1] /\ Op(t) # "create"
      BY <1>0, TypedWas DEF Acting, Kept, KeptDisk, Goes
  <2>2. PICK f : f = IF Is(Src(t)) THEN entry[Src(t)] ELSE t
      OBVIOUS
  <2>3. /\ entry[Src(t)] # "dir" /\ UNCHANGED <<parent, to, got>>
        /\ Links(Src(t), f) /\ Holds(f, Torn) /\ Opens(t, f)
      BY <1>2, <2>2 DEF Empty, Links, Holds, Opens
  <2>4. f = Written(t, Src(t)) /\ Was(Src(t)) # "dir"
      BY <2>1, <2>2, <2>3 DEF Written, WasFile, Was, Is
  <2>5. QED
      BY <1>0, <1>2, <2>1, <2>3, <2>4, TornKept
<1>3. QED
    BY <1>1, <1>2 DEF Truncate

\* What a write comes to is what a single step would have written.
LEMMA PutAtomic ==
    ASSUME NEW t \in Tasks, Acting(t), AtWork(t), Quiet', Was(Src(t)) # "dir", NEW what,
           entry' = [saved[1] EXCEPT ![Src(t)] = Written(t, Src(t))],
           data' = [saved[2] EXCEPT ![Written(t, Src(t))] = what], parent' = "dir"
    PROVE  Atomic!Put(job[t].src, t, what)
<1>1. /\ (IF Quiet THEN entry ELSE saved[1]) = saved[1]
      /\ (IF Quiet THEN data ELSE saved[2]) = saved[2]
    BY Before
<1>2. Written(t, Src(t)) = IF Atomic!Is(job[t].src)
                           THEN (IF Quiet THEN entry ELSE saved[1])[job[t].src] ELSE t
    BY <1>1 DEF Written, WasFile, Was, Src, Files, Atomic!Is, Atomic!Files
<1>3. PICK f : f = Written(t, Src(t))
    OBVIOUS
<1>4. (IF Quiet THEN entry ELSE saved[1])[job[t].src] # "dir"
    BY <1>1 DEF Was, Src
<1>5. (IF Quiet THEN entry ELSE saved[1])'
         = [(IF Quiet THEN entry ELSE saved[1]) EXCEPT ![job[t].src] = f]
    BY <1>1, <1>3 DEF Src
<1>6. (IF Quiet THEN data ELSE saved[2])'
         = [(IF Quiet THEN data ELSE saved[2]) EXCEPT ![f] = what]
    BY <1>1, <1>3
<1>7. (IF Quiet THEN parent ELSE saved[3])' = "dir"
    OBVIOUS
<1>8. QED
    BY <1>2, <1>3, <1>4, <1>5, <1>6, <1>7 DEF Atomic!Put

\* A write ends, with the content in the file or torn.
LEMMA FilledAtomic ==
    ASSUME NEW t \in Tasks, Acting(t), Fill(t), NEW how \in {"success", "internal"}, NEW what,
           End(t, how), got' = [got EXCEPT ![t] = {}],
           IF how = "success" THEN what = Content(t) ELSE what = Torn,
           data' = [data EXCEPT ![fd[t]] = what], entry' = entry, parent' = parent
    PROVE  Kept(t)' /\ Atomic!Do(t)
<1>0. at[t] = "filling" /\ AtWork(t) /\ Op(t) \in {"write", "create", "edit"} /\ job' = job
  <2>1. at[t] = "filling"
      BY DEF Fill
  <2>2. QED
      BY <2>1, TypedWas DEF Goes, Ops, Named, Taking, Walking, AtWork
<1>1. /\ Wrote(t, Src(t), Torn) /\ parent = "dir" /\ saved[3] # "file"
      /\ Op(t) = "edit" => WasFile(Src(t)) /\ got[t] = Sight(t)
      /\ Op(t) = "create" => Was(Src(t)) = "absent"
    BY <1>0 DEF Acting, Kept, KeptDisk, KeptSight
<1>3. /\ Atomic!Tell(t, how, {}) /\ Kept(t)' /\ Quiet'
      /\ [u \in Tasks |-> [outcome |-> outcome[u],
             got |-> IF at[u] = "ended" THEN got[u] ELSE {}]][t].outcome = "none"
    BY <1>0, Telling
<1>4. Atomic!Put(job[t].src, t, what)
  <2>1. data' = [saved[2] EXCEPT ![Written(t, Src(t))] = what]
      BY <1>1, TypedWas DEF Wrote
  <2>2. entry' = [saved[1] EXCEPT ![Src(t)] = Written(t, Src(t))] /\ Was(Src(t)) # "dir"
      BY <1>1 DEF Wrote
  <2>3. QED
      BY <1>0, <1>1, <1>3, <2>1, <2>2, PutAtomic
<1>5. /\ (IF Quiet THEN entry ELSE saved[1]) = saved[1]
      /\ (IF Quiet THEN data ELSE saved[2]) = saved[2]
      /\ (IF Quiet THEN parent ELSE saved[3]) = saved[3]
    BY <1>0, Before
<1>6. CASE Op(t) \in {"write", "create"}
  <2>1. how = "success" => what = {t}
      BY <1>6 DEF Content
  <2>2. (IF Quiet THEN parent ELSE saved[3]) \in {"dir", "missing"}
      BY <1>1, <1>5, TypedWas
  <2>3. job[t].op = "create" => (IF Quiet THEN entry ELSE saved[1])[job[t].src] = "absent"
      BY <1>1, <1>5 DEF Op, Src, Was
  <2>4. Atomic!Write(t)
      BY <1>3, <1>4, <1>6, <2>1, <2>2, <2>3 DEF Atomic!Write, Op, Torn, Atomic!Torn
  <2>5. QED
      BY <1>0, <1>3, <2>4 DEF Atomic!Do
<1>7. CASE Op(t) = "edit"
  <2>1. PICK was : was = WasIn(Src(t))
      OBVIOUS
  <2>2. how = "success" => what = was \cup {t}
    <3>1. got[t] = {<<Src(t), was>>}
        BY <1>1, <1>7, <2>1 DEF Sight
    <3>2. {seen[2] : seen \in got[t]} = {was}
        BY <3>1
    <3>3. UNION {seen[2] : seen \in got[t]} = was
        BY <3>2
    <3>4. QED
        BY <1>7, <3>3 DEF Content
  <2>3. (IF Quiet THEN data ELSE saved[2])
            [(IF Quiet THEN entry ELSE saved[1])[job[t].src]] = was
      BY <1>5, <2>1 DEF WasIn, Was, Src
  <2>4. Atomic!Is(job[t].src)
      BY <1>1, <1>5, <1>7 DEF Atomic!Is, Atomic!Files, WasFile, Was, Src, Files
  <2>5. how = "success" => Atomic!Put(job[t].src, t, (IF Quiet THEN data ELSE saved[2])
            [(IF Quiet THEN entry ELSE saved[1])[job[t].src]] \cup {t})
    <3>1. how = "success" => what = (IF Quiet THEN data ELSE saved[2])
            [(IF Quiet THEN entry ELSE saved[1])[job[t].src]] \cup {t}
        BY <2>2, <2>3
    <3>2. QED
        BY <1>4, <3>1 DEF Atomic!Put
  <2>7. Atomic!Edit(t)
      BY <1>3, <1>4, <1>7, <2>4, <2>5 DEF Atomic!Edit, Op, Torn, Atomic!Torn
  <2>8. QED
      BY <1>0, <1>3, <2>7 DEF Atomic!Do
<1>8. QED
    BY <1>0, <1>6, <1>7

LEMMA FillAtomic ==
    ASSUME NEW t \in Tasks, Acting(t), Fill(t)
    PROVE  Kept(t)' /\ (Atomic!Do(t) \/ UNCHANGED Atomic!atomic)
<1>1. CASE Fails(t, "internal")
  <2>1. Wrote(t, Src(t), Torn)
      BY DEF Fill, Acting, Kept, KeptDisk
  <2>2. data' = [data EXCEPT ![fd[t]] = Torn]
      BY <1>1, <2>1, TypedWas DEF Wrote, Fails, disk
  <2>3. QED
      BY <1>1, <2>2, FilledAtomic DEF Fails, disk
<1>2. CASE /\ Holds(fd[t], Content(t)) /\ End(t, "success")
           /\ got' = [got EXCEPT ![t] = {}] /\ UNCHANGED <<entry, parent, fd, to>>
  <2>1. PICK what : what = Content(t)
      OBVIOUS
  <2>2. data' = [data EXCEPT ![fd[t]] = what]
      BY <1>2, <2>1 DEF Holds
  <2>3. QED
      BY <1>2, <2>1, <2>2, FilledAtomic
<1>3. QED
    BY <1>1, <1>2 DEF Fill

-----------------------------------------------------------------------------
(* Deleting and moving *)

\* A delete or a move that ends has told how, and shows nothing.
LEMMA TakingEnds ==
    ASSUME NEW t \in Tasks, Acting(t), AtWork(t), Op(t) \in Taking, NEW how, End(t, how),
           got' = got \/ got' = [got EXCEPT ![t] = {}]
    PROVE  /\ Kept(t)' /\ job' = job
           /\ Quiet' /\ ~Quiet
           /\ Atomic!Tell(t, how, {})
           /\ [u \in Tasks |-> [outcome |-> outcome[u],
                  got |-> IF at[u] = "ended" THEN got[u] ELSE {}]][t].outcome = "none"
<1>1. got[t] = {} /\ got \in [Tasks -> SUBSET Seen]
    BY DEF Acting, ToolInv, Kept, KeptSight, Taking, Walking
<1>2. got' = [got EXCEPT ![t] = {}]
    BY <1>1
<1>3. QED
    BY <1>2, Telling DEF AtWork, Acting, Turn

LEMMA UnlinkAtomic ==
    ASSUME NEW t \in Tasks, Acting(t), Unlink(t)
    PROVE  Kept(t)' /\ (Atomic!Do(t) \/ UNCHANGED Atomic!atomic)
<1>0. at[t] = "unlinking" /\ AtWork(t) /\ Op(t) = "delete"
  <2>1. at[t] = "unlinking"
      BY DEF Unlink
  <2>2. QED
      BY <2>1, TypedWas DEF Goes, Ops, Named, Taking, Walking, AtWork
<1>1. CASE Fails(t, "internal")
    BY <1>0, <1>1, NothingYet
<1>2. CASE Is(Src(t)) /\ Drop(Src(t)) /\ End(t, "success") /\ UNCHANGED <<fd, to, got>>
  <2>1. disk = saved
      BY <1>0 DEF Acting, Kept, KeptDisk
  <2>2. /\ Kept(t)' /\ job' = job /\ Quiet' /\ ~Quiet /\ Atomic!Tell(t, "success", {})
        /\ [u \in Tasks |-> [outcome |-> outcome[u],
                got |-> IF at[u] = "ended" THEN got[u] ELSE {}]][t].outcome = "none"
      BY <1>0, <1>2, TakingEnds DEF Taking
  <2>3. Atomic!Delete(t)
      BY <1>0, <1>2, <2>1, <2>2 DEF Atomic!Delete, Atomic!Is, Atomic!Files, Is, Files, Drop, Links,
         disk, Op, Src
  <2>4. QED
      BY <2>2, <2>3 DEF Atomic!Do
<1>3. QED
    BY <1>1, <1>2 DEF Unlink

LEMMA LinkAtomic ==
    ASSUME NEW t \in Tasks, Acting(t), Link(t)
    PROVE  Kept(t)' /\ (Atomic!Do(t) \/ UNCHANGED Atomic!atomic)
<1>0. at[t] = "linking" /\ Op(t) = "move"
  <2>1. at[t] = "linking"
      BY DEF Link
  <2>2. QED
      BY <2>1, TypedWas DEF Goes, Ops, Named, Taking, Walking
<1>1. CASE \E how \in {"validation", "internal"} : Fails(t, how)
    BY <1>0, <1>1, NothingYet
<1>2. CASE /\ Is(Src(t)) /\ entry[Dst(t)] = "absent"
           /\ Links(Dst(t), entry[Src(t)]) /\ Opens(t, entry[Src(t)])
           /\ Go(t, "dropping") /\ UNCHANGED <<data, parent, to, got>>
  <2>1. disk = saved /\ saved' = saved /\ job' = job
      BY <1>0 DEF Acting, Turn, AtWork, Kept, KeptDisk
  <2>2. at'[t] = "dropping" /\ at' = [at EXCEPT ![t] = "dropping"] /\ outcome' = outcome
      BY <1>2, Moved DEF Acting, Go
  <2>3. WasFile(Src(t)) /\ Was(Dst(t)) = "absent"
      BY <1>2, <2>1 DEF disk, Is, WasFile, Was
  <2>4. disk' = <<[saved[1] EXCEPT ![Dst(t)] = Was(Src(t))], saved[2], saved[3]>>
      BY <1>2, <2>1 DEF disk, Links, Was
  <2>5. KeptDisk(t)'
      BY <2>1, <2>2, <2>3, <2>4, WasStays DEF KeptDisk
  <2>6. KeptSight(t)'
      BY <1>0, <1>2, <2>1, <2>2, WasStays DEF KeptSight, Acting, Kept, Walking
  <2>7. UNCHANGED Atomic!atomic
      BY <1>0, <1>2, <2>2, GoesOn
  <2>8. QED
      BY <2>5, <2>6, <2>7 DEF Kept
<1>3. QED
    BY <1>1, <1>2 DEF Link

\* A move that has claimed the name, done or stuck with both names.
LEMMA MovedAtomic ==
    ASSUME NEW t \in Tasks, Acting(t), at[t] \in {"dropping", "undoing"},
           \/ /\ End(t, "success") /\ got' = got
              /\ entry' = [entry EXCEPT ![Src(t)] = "absent"]
           \/ /\ End(t, "internal") /\ got' = [got EXCEPT ![t] = {}]
              /\ entry' = entry,
           UNCHANGED <<data, parent>>
    PROVE  Kept(t)' /\ Atomic!Do(t)
<1>1. Op(t) = "move" /\ AtWork(t)
    BY TypedWas DEF Goes, Ops, Named, Taking, Walking, AtWork
<1>2. /\ WasFile(Src(t)) /\ Was(Dst(t)) = "absent"
      /\ entry = [saved[1] EXCEPT ![Dst(t)] = Was(Src(t))] /\ data = saved[2] /\ parent = saved[3]
    BY DEF Acting, Kept, KeptDisk, disk
<1>3. PICK how : /\ how \in {"success", "internal"} /\ End(t, how)
                 /\ got' = got \/ got' = [got EXCEPT ![t] = {}]
                 /\ entry' = IF how = "success" THEN [entry EXCEPT ![Src(t)] = "absent"] ELSE entry
    OBVIOUS
<1>4. /\ Kept(t)' /\ job' = job /\ Quiet' /\ ~Quiet /\ Atomic!Tell(t, how, {})
      /\ [u \in Tasks |-> [outcome |-> outcome[u],
              got |-> IF at[u] = "ended" THEN got[u] ELSE {}]][t].outcome = "none"
    BY <1>1, <1>3, TakingEnds DEF Taking
<1>5. Atomic!Rename(t, job[t].dst)
    BY <1>1, <1>2, <1>3, <1>4 DEF Atomic!Rename, Atomic!Is, Atomic!Files, WasFile, Was, Files,
       Op, Src, Dst
<1>6. Atomic!Move(t)
    BY <1>1, <1>2, <1>4, <1>5 DEF Atomic!Move, Was, Op, Dst
<1>7. QED
    BY <1>4, <1>6 DEF Atomic!Do

LEMMA DropSourceAtomic ==
    ASSUME NEW t \in Tasks, Acting(t), DropSource(t)
    PROVE  Kept(t)' /\ (Atomic!Do(t) \/ UNCHANGED Atomic!atomic)
<1>0. at[t] = "dropping" /\ Op(t) = "move"
  <2>1. at[t] = "dropping"
      BY DEF DropSource
  <2>2. QED
      BY <2>1, TypedWas DEF Goes, Ops, Named, Taking, Walking
<1>1. CASE Go(t, "undoing") /\ UNCHANGED <<disk, fd, to, got>>
  <2>1. UNCHANGED Atomic!atomic /\ at'[t] = "undoing" /\ got' = got
      BY <1>0, <1>1, PassAtomic
  <2>2. saved' = saved /\ job' = job /\ disk' = disk
      BY <1>0, <1>1 DEF Acting, Turn, AtWork
  <2>3. /\ WasFile(Src(t)) /\ Was(Dst(t)) = "absent"
        /\ disk = <<[saved[1] EXCEPT ![Dst(t)] = Was(Src(t))], saved[2], saved[3]>>
      BY <1>0 DEF Acting, Kept, KeptDisk
  <2>4. KeptDisk(t)'
      BY <2>1, <2>2, <2>3, WasStays DEF KeptDisk
  <2>5. KeptSight(t)'
      BY <1>0, <2>1, <2>2, WasStays DEF KeptSight, Acting, Kept, Walking
  <2>6. QED
      BY <2>1, <2>4, <2>5 DEF Kept
<1>2. CASE Is(Src(t)) /\ Drop(Src(t)) /\ End(t, "success") /\ UNCHANGED <<fd, to, got>>
    BY <1>0, <1>2, MovedAtomic DEF Drop, Links
<1>3. QED
    BY <1>1, <1>2 DEF DropSource

\* A move that is undone has not happened; one that cannot be undone leaves both names.
LEMMA UndoAtomic ==
    ASSUME NEW t \in Tasks, Acting(t), Undo(t)
    PROVE  Kept(t)' /\ (Atomic!Do(t) \/ UNCHANGED Atomic!atomic)
<1>0. at[t] = "undoing" /\ AtWork(t) /\ Op(t) = "move"
  <2>1. at[t] = "undoing"
      BY DEF Undo
  <2>2. QED
      BY <2>1, TypedWas DEF Goes, Ops, Named, Taking, Walking, AtWork
<1>1. CASE Fails(t, "internal")
    BY <1>0, <1>1, MovedAtomic DEF Fails, disk
<1>2. CASE Is(Dst(t)) /\ Drop(Dst(t)) /\ End(t, "internal") /\ UNCHANGED <<fd, to, got>>
  <2>1. /\ Was(Dst(t)) = "absent" /\ data = saved[2] /\ parent = saved[3]
        /\ entry = [saved[1] EXCEPT ![Dst(t)] = Was(Src(t))]
      BY <1>0 DEF Acting, Kept, KeptDisk, disk
  <2>2. entry' = saved[1] /\ data' = saved[2] /\ parent' = saved[3]
    <3>1. entry' = [saved[1] EXCEPT ![Dst(t)] = "absent"] /\ data' = data /\ parent' = parent
        BY <1>2, <2>1, TypedWas DEF Drop, Links
    <3>2. [saved[1] EXCEPT ![Dst(t)] = "absent"] = saved[1]
        BY <2>1, TypedWas DEF Was
    <3>3. QED
        BY <2>1, <3>1, <3>2
  <2>3. got' = [got EXCEPT ![t] = {}]
      BY <1>0, <1>2 DEF Acting, ToolInv, Kept, KeptSight, Walking
  <2>4. QED
      BY <1>0, <1>2, <2>2, <2>3, FailsAtomic DEF AtWork
<1>3. QED
    BY <1>1, <1>2 DEF Undo

-----------------------------------------------------------------------------
(* A move that may overwrite *)

LEMMA AimAtomic ==
    ASSUME NEW t \in Tasks, Acting(t), Aim(t)
    PROVE  Kept(t)' /\ (Atomic!Do(t) \/ UNCHANGED Atomic!atomic)
<1>0. at[t] = "aiming" /\ AtWork(t) /\ Op(t) = "replace"
  <2>1. at[t] = "aiming"
      BY DEF Aim
  <2>2. QED
      BY <2>1, TypedWas DEF Goes, Ops, Named, Taking, Walking, AtWork
<1>1. disk = saved /\ entry = saved[1] /\ data = saved[2] /\ parent = saved[3]
      /\ saved' = saved /\ job' = job
    BY <1>0 DEF Acting, Turn, Kept, KeptDisk, disk
<1>2. PICK d : d = Landing(Dst(t))
    OBVIOUS
<1>3. d = WasLanding(Dst(t))
    BY <1>1, <1>2 DEF Landing, WasLanding, Was
<1>4. CASE Fails(t, "internal")
    BY <1>0, <1>4, NothingYet
<1>5. CASE /\ to' = [to EXCEPT ![t] = d]
           /\ Go(t, "renaming") /\ UNCHANGED <<disk, fd, got>>
  <2>1. at'[t] = "renaming" /\ at' = [at EXCEPT ![t] = "renaming"] /\ outcome' = outcome
      BY <1>5, Moved DEF Acting, Go
  <2>2. to'[t] = WasLanding(Dst(t))
      BY <1>3, <1>5 DEF Acting, ToolInv, ToolTypeOK
  <2>3. WasLanding(Dst(t))' = d /\ to'[t] = d
      BY <1>1, <1>3, <2>2, WasStays
  <2>4. KeptDisk(t)'
      BY <1>1, <1>5, <2>1, <2>3 DEF KeptDisk
  <2>5. KeptSight(t)'
      BY <1>0, <1>1, <1>5, <2>1, WasStays DEF KeptSight, Acting, Kept, Walking
  <2>6. UNCHANGED Atomic!atomic
      BY <1>0, <1>5, <2>1, GoesOn
  <2>7. QED
      BY <2>4, <2>5, <2>6 DEF Kept
<1>6. QED
    BY <1>2, <1>4, <1>5 DEF Aim

LEMMA RenameAtomic ==
    ASSUME NEW t \in Tasks, Acting(t), Rename(t)
    PROVE  Kept(t)' /\ (Atomic!Do(t) \/ UNCHANGED Atomic!atomic)
<1>0. at[t] = "renaming" /\ AtWork(t) /\ Op(t) = "replace"
  <2>1. at[t] = "renaming"
      BY DEF Rename
  <2>2. QED
      BY <2>1, TypedWas DEF Goes, Ops, Named, Taking, Walking, AtWork
<1>1. disk = saved /\ entry = saved[1] /\ data = saved[2] /\ parent = saved[3]
      /\ saved' = saved /\ job' = job
    BY <1>0 DEF Acting, Turn, Kept, KeptDisk, disk
<1>2. PICK d : d = to[t]
    OBVIOUS
<1>3. d = WasLanding(Dst(t))
    BY <1>0, <1>2 DEF Acting, Kept, KeptDisk
<1>4. CASE Fails(t, "internal")
    BY <1>0, <1>4, NothingYet
<1>5. CASE /\ Is(Src(t)) /\ entry[d] # "dir"
           /\ entry' = IF entry[d] = entry[Src(t)] THEN entry
                       ELSE [entry EXCEPT ![d] = entry[Src(t)], ![Src(t)] = "absent"]
           /\ End(t, "success") /\ UNCHANGED <<data, parent, fd, to, got>>
  <2>1. /\ Kept(t)' /\ Quiet' /\ ~Quiet /\ Atomic!Tell(t, "success", {})
        /\ [u \in Tasks |-> [outcome |-> outcome[u],
                got |-> IF at[u] = "ended" THEN got[u] ELSE {}]][t].outcome = "none"
      BY <1>0, <1>5, TakingEnds DEF Taking
  <2>2. entry = [entry EXCEPT ![d] = entry[d]]
      BY DEF Acting, ToolInv, ToolTypeOK
  <2>3. Atomic!Rename(t, d)
      BY <1>0, <1>1, <1>5, <2>1, <2>2 DEF Atomic!Rename, Atomic!Is, Atomic!Files, Is, Files, Op, Src
  <2>4. d = Atomic!Landing(job[t].dst)
      BY <1>1, <1>3, <2>1 DEF Atomic!Landing, WasLanding, Was, Dst
  <2>5. Atomic!Replace(t)
      BY <1>0, <1>1, <1>5, <2>1, <2>3, <2>4 DEF Atomic!Replace, Op
  <2>6. QED
      BY <1>1, <2>1, <2>5 DEF Atomic!Do
<1>6. CASE /\ Is(Src(t)) /\ entry[d] # "dir" /\ entry[d] # entry[Src(t)]
           /\ Go(t, "copying") /\ UNCHANGED <<disk, fd, to, got>>
  <2>1. at'[t] = "copying" /\ at' = [at EXCEPT ![t] = "copying"] /\ outcome' = outcome
      BY <1>6, Moved DEF Acting, Go
  <2>2. to'[t] = WasLanding(Dst(t))
      BY <1>2, <1>3, <1>6
  <2>3. WasFile(Src(t)) /\ Was(d) # "dir" /\ Was(d) # Was(Src(t))
      BY <1>1, <1>6 DEF WasFile, Was, Is
  <2>4. /\ WasLanding(Dst(t))' = d /\ WasFile(Src(t))' /\ Was(d)' = Was(d)
        /\ Was(Src(t))' = Was(Src(t)) /\ to'[t] = d
      BY <1>1, <1>3, <2>2, <2>3, WasStays
  <2>5. KeptDisk(t)'
      BY <1>1, <1>6, <2>1, <2>3, <2>4 DEF KeptDisk
  <2>6. KeptSight(t)'
      BY <1>0, <1>1, <1>6, <2>1, WasStays DEF KeptSight, Acting, Kept, Walking
  <2>7. UNCHANGED Atomic!atomic
      BY <1>0, <1>6, <2>1, GoesOn
  <2>8. QED
      BY <2>5, <2>6, <2>7 DEF Kept
<1>7. QED
    BY <1>2, <1>4, <1>5, <1>6 DEF Rename

LEMMA CopyAtomic ==
    ASSUME NEW t \in Tasks, Acting(t), Copy(t)
    PROVE  Kept(t)' /\ (Atomic!Do(t) \/ UNCHANGED Atomic!atomic)
<1>0. at[t] = "copying" /\ Op(t) = "replace" /\ to[t] \in Paths
  <2>1. at[t] = "copying"
      BY DEF Copy
  <2>2. QED
      BY <2>1, TypedWas DEF Goes, Ops, Named, Taking, Walking, Acting, ToolInv, ToolTypeOK
<1>1. CASE Fails(t, "internal")
    BY <1>0, <1>1, NothingYet
<1>2. CASE Empty(t, to[t]) /\ Go(t, "pasting")
  <2>1. /\ entry = saved[1] /\ data = saved[2] /\ parent = saved[3]
        /\ saved' = saved /\ job' = job
      BY <1>0 DEF Acting, Turn, AtWork, Kept, KeptDisk, disk
  <2>2. /\ to[t] = WasLanding(Dst(t)) /\ Was(to[t]) # "dir"
        /\ WasFile(Src(t)) /\ Was(to[t]) # Was(Src(t))
      BY <1>0 DEF Acting, Kept, KeptDisk
  <2>3. at'[t] = "pasting" /\ at' = [at EXCEPT ![t] = "pasting"] /\ outcome' = outcome
      BY <1>2, Moved DEF Acting, Go
  <2>4. PICK f : f = Written(t, to[t])
      OBVIOUS
  <2>5. /\ entry' = [saved[1] EXCEPT ![to[t]] = f] /\ data' = [saved[2] EXCEPT ![f] = Torn]
        /\ fd'[t] = f /\ UNCHANGED <<parent, to, got>>
    <3>1. f = IF Is(to[t]) THEN entry[to[t]] ELSE t
        BY <2>1, <2>4 DEF Written, WasFile, Was, Is
    <3>2. QED
        BY <1>2, <2>1, <3>1 DEF Empty, Links, Holds, Opens, Acting, ToolInv, ToolTypeOK
  <2>6. f # Was(Src(t))
    <3>1. Was(Src(t)) # t
        BY <1>0, <2>1, TypedWas DEF Acting, Fresh, Was
    <3>2. QED
        BY <2>2, <2>4, <3>1 DEF Written
  <2>7. PICK d : d = to[t]
      OBVIOUS
  <2>8. /\ Written(t, d)' = f /\ WasLanding(Dst(t))' = d /\ WasFile(Src(t))' /\ Was(d)' = Was(d)
        /\ Was(Src(t))' = Was(Src(t)) /\ to'[t] = d
      BY <2>1, <2>2, <2>4, <2>5, <2>7, WasStays
  <2>9. Wrote(t, d, Torn)'
      BY <2>1, <2>2, <2>5, <2>7, <2>8 DEF Wrote, Torn
  <2>10. KeptDisk(t)'
      BY <2>1, <2>2, <2>3, <2>5, <2>6, <2>7, <2>8, <2>9 DEF KeptDisk
  <2>11. KeptSight(t)'
      BY <1>0, <2>1, <2>3, <2>5, WasStays DEF KeptSight, Acting, Kept, Walking
  <2>12. UNCHANGED Atomic!atomic
      BY <1>0, <2>3, <2>5, GoesOn
  <2>13. QED
      BY <2>10, <2>11, <2>12 DEF Kept
<1>3. QED
    BY <1>1, <1>2 DEF Copy

\* What a tool that copies has in hand.
LEMMA Copying ==
    ASSUME NEW t \in Tasks, Acting(t), at[t] \in {"pasting", "clearing"},
           NEW d, d = to[t], NEW f, f = Written(t, d)
    PROVE  /\ Op(t) = "replace" /\ AtWork(t) /\ saved' = saved /\ job' = job
           /\ d \in Paths /\ d = WasLanding(Dst(t)) /\ Was(d) # "dir" /\ d # Src(t)
           /\ WasFile(Src(t)) /\ f # Was(Src(t)) /\ fd[t] = f /\ f \in Files
           /\ parent = saved[3] /\ entry = [saved[1] EXCEPT ![d] = f]
           /\ data = [saved[2] EXCEPT ![f] = IF at[t] = "pasting" THEN Torn ELSE WasIn(Src(t))]
           /\ entry[Src(t)] = Was(Src(t))
<1>1. Op(t) = "replace" /\ AtWork(t) /\ saved' = saved /\ job' = job
    BY TypedWas DEF Goes, Ops, Named, Taking, Walking, AtWork, Acting, Turn
<1>2. /\ d = WasLanding(Dst(t)) /\ Was(d) # "dir" /\ Was(d) # Was(Src(t))
      /\ WasFile(Src(t)) /\ f # Was(Src(t)) /\ parent = saved[3]
      /\ Wrote(t, d, IF at[t] = "pasting" THEN Torn ELSE WasIn(Src(t)))
    BY DEF Acting, Kept, KeptDisk
<1>3. d \in Paths /\ f \in Files
    BY TypedWas DEF Acting, ToolInv, ToolTypeOK
<1>4. QED
    BY <1>1, <1>2, <1>3, TypedWas DEF Wrote, Was

\* Onto another file system a move that may overwrite is a copy.
LEMMA Replaced ==
    ASSUME NEW t \in Tasks, ~Quiet, NEW d, d = WasLanding(Dst(t)), Was(d) # "dir", Op(t) = "replace",
           Atomic!Copy(t, d), job' = job,
           [u \in Tasks |-> [outcome |-> outcome[u],
                  got |-> IF at[u] = "ended" THEN got[u] ELSE {}]][t].outcome = "none"
    PROVE  Atomic!Do(t)
<1>1. d = Atomic!Landing(job[t].dst)
    BY DEF Atomic!Landing, WasLanding, Was, Dst
<1>2. Atomic!Replace(t)
    BY <1>1 DEF Atomic!Replace, Op, Was
<1>3. QED
    BY <1>2 DEF Atomic!Do

LEMMA PasteAtomic ==
    ASSUME NEW t \in Tasks, Acting(t), Paste(t)
    PROVE  Kept(t)' /\ (Atomic!Do(t) \/ UNCHANGED Atomic!atomic)
<1>0. at[t] = "pasting"
    BY DEF Paste
<1>1. PICK d : d = to[t]
    OBVIOUS
<1>2. PICK f : f = Written(t, d)
    OBVIOUS
<1>3. PICK was : was = WasIn(Src(t))
    OBVIOUS
<1>4. /\ Op(t) = "replace" /\ AtWork(t) /\ saved' = saved /\ job' = job
      /\ d \in Paths /\ d = WasLanding(Dst(t)) /\ Was(d) # "dir" /\ d # Src(t)
      /\ WasFile(Src(t)) /\ f # Was(Src(t)) /\ fd[t] = f /\ f \in Files
      /\ parent = saved[3] /\ entry = [saved[1] EXCEPT ![d] = f]
      /\ data = [saved[2] EXCEPT ![f] = Torn] /\ entry[Src(t)] = Was(Src(t))
    BY <1>0, <1>1, <1>2, Copying DEF Torn
<1>5. CASE Fails(t, "internal")
  <2>1. /\ Kept(t)' /\ Quiet' /\ ~Quiet /\ Atomic!Tell(t, "internal", {}) /\ UNCHANGED disk
        /\ [u \in Tasks |-> [outcome |-> outcome[u],
                got |-> IF at[u] = "ended" THEN got[u] ELSE {}]][t].outcome = "none"
      BY <1>4, <1>5, TakingEnds DEF Taking, Fails
  <2>2. f = IF Atomic!Is(d) THEN (IF Quiet THEN entry ELSE saved[1])[d] ELSE t
      BY <1>2, <2>1 DEF Written, WasFile, Was, Files, Atomic!Is, Atomic!Files
  <2>3. Atomic!Is(job[t].src)
      BY <1>4, <2>1 DEF WasFile, Was, Files, Atomic!Is, Atomic!Files, Src
  <2>4. Atomic!Copy(t, d)
      BY <1>4, <2>1, <2>2, <2>3 DEF Atomic!Copy, disk, Torn, Atomic!Torn
  <2>5. QED
      BY <1>4, <2>1, <2>4, Replaced
<1>6. CASE /\ Holds(fd[t], data[entry[Src(t)]])
           /\ Go(t, "clearing") /\ UNCHANGED <<entry, parent, fd, to, got>>
  <2>1. at'[t] = "clearing" /\ at' = [at EXCEPT ![t] = "clearing"] /\ outcome' = outcome
      BY <1>6, Moved DEF Acting, Go
  <2>2. data[entry[Src(t)]] = was
      BY <1>3, <1>4, TypedWas DEF WasIn, WasFile
  <2>3. data' = [saved[2] EXCEPT ![f] = was]
      BY <1>4, <1>6, <2>2 DEF Holds
  <2>4. /\ Written(t, d)' = f /\ WasLanding(Dst(t))' = d /\ WasFile(Src(t))' /\ Was(d)' = Was(d)
        /\ Was(Src(t))' = Was(Src(t)) /\ to'[t] = d /\ WasIn(Src(t))' = was /\ fd'[t] = f
      BY <1>1, <1>2, <1>3, <1>4, <1>6, WasStays
  <2>5. Wrote(t, d, WasIn(Src(t)))'
      BY <1>4, <1>6, <2>3, <2>4 DEF Wrote
  <2>6. Was(d) # Was(Src(t))
      BY <1>0, <1>1 DEF Acting, Kept, KeptDisk
  <2>7. KeptDisk(t)'
      BY <1>4, <1>6, <2>1, <2>4, <2>5, <2>6 DEF KeptDisk
  <2>8. KeptSight(t)'
      BY <1>4, <1>6, <2>1, WasStays DEF KeptSight, Acting, Kept, Walking
  <2>9. UNCHANGED Atomic!atomic
      BY <1>0, <1>6, <2>1, GoesOn
  <2>10. QED
      BY <2>7, <2>8, <2>9 DEF Kept
<1>7. QED
    BY <1>5, <1>6 DEF Paste

\* A copy that is complete; its source is removed, or stays.
LEMMA ClearAtomic ==
    ASSUME NEW t \in Tasks, Acting(t), Clear(t)
    PROVE  Kept(t)' /\ (Atomic!Do(t) \/ UNCHANGED Atomic!atomic)
<1>0. at[t] = "clearing"
    BY DEF Clear
<1>1. PICK d : d = to[t]
    OBVIOUS
<1>2. PICK f : f = Written(t, d)
    OBVIOUS
<1>3. PICK was : was = WasIn(Src(t))
    OBVIOUS
<1>4. /\ Op(t) = "replace" /\ AtWork(t) /\ saved' = saved /\ job' = job
      /\ d \in Paths /\ d = WasLanding(Dst(t)) /\ Was(d) # "dir" /\ d # Src(t)
      /\ WasFile(Src(t)) /\ f # Was(Src(t)) /\ fd[t] = f /\ f \in Files
      /\ parent = saved[3] /\ entry = [saved[1] EXCEPT ![d] = f]
      /\ data = [saved[2] EXCEPT ![f] = was] /\ entry[Src(t)] = Was(Src(t))
    BY <1>0, <1>1, <1>2, <1>3, Copying
<1>5. PICK how : /\ how \in {"success", "internal"} /\ End(t, how)
                 /\ got' = got \/ got' = [got EXCEPT ![t] = {}]
                 /\ entry' = IF how = "success" THEN [entry EXCEPT ![Src(t)] = "absent"] ELSE entry
                 /\ data' = data /\ parent' = parent
    BY DEF Clear, Fails, Drop, Links, disk
<1>6. /\ Kept(t)' /\ Quiet' /\ ~Quiet /\ Atomic!Tell(t, how, {})
      /\ [u \in Tasks |-> [outcome |-> outcome[u],
              got |-> IF at[u] = "ended" THEN got[u] ELSE {}]][t].outcome = "none"
    BY <1>4, <1>5, TakingEnds DEF Taking
<1>7. f = IF Atomic!Is(d) THEN (IF Quiet THEN entry ELSE saved[1])[d] ELSE t
    BY <1>2, <1>6 DEF Written, WasFile, Was, Files, Atomic!Is, Atomic!Files
<1>8. Atomic!Is(job[t].src) /\ was = (IF Quiet THEN data ELSE saved[2])
                                          [(IF Quiet THEN entry ELSE saved[1])[job[t].src]]
    BY <1>3, <1>4, <1>6 DEF WasFile, WasIn, Was, Files, Atomic!Is, Atomic!Files, Src
<1>9. how = IF (IF Quiet THEN entry ELSE saved[1])'[job'[t].src] \in Files THEN "internal" ELSE "success"
  <2>1. CASE how = "success"
    <3>1. entry'[Src(t)] = "absent"
        BY <1>4, <1>5, <2>1, TypedWas
    <3>2. QED
        BY <1>4, <1>6, <2>1, <3>1, TypedWas DEF Src
  <2>2. CASE how = "internal"
      BY <1>4, <1>5, <1>6, <2>2 DEF WasFile, Src
  <2>3. QED
      BY <1>5, <2>1, <2>2
<1>10. Atomic!Copy(t, d)
  <2>1. /\ (IF Quiet THEN entry ELSE saved[1])' \in
             {[[(IF Quiet THEN entry ELSE saved[1]) EXCEPT ![d] = f] EXCEPT ![job[t].src] = "absent"],
              [(IF Quiet THEN entry ELSE saved[1]) EXCEPT ![d] = f]}
        /\ (IF Quiet THEN data ELSE saved[2])' = [(IF Quiet THEN data ELSE saved[2]) EXCEPT ![f] = was]
        /\ (IF Quiet THEN parent ELSE saved[3])' = (IF Quiet THEN parent ELSE saved[3])
      BY <1>4, <1>5, <1>6 DEF Src
  <2>2. Atomic!Tell(t, IF Atomic!Is(job[t].src)' THEN "internal" ELSE "success", {})
      BY <1>6, <1>9 DEF Atomic!Tell, Atomic!Is, Atomic!Files, Files
  <2>3. QED
      BY <1>7, <1>8, <2>1, <2>2 DEF Atomic!Copy
<1>11. QED
    BY <1>4, <1>6, <1>10, Replaced

-----------------------------------------------------------------------------
(* Every step *)

LEMMA ActsAtomic ==
    ASSUME NEW t \in Tasks, Acting(t), Step(t)
    PROVE  Kept(t)' /\ (Atomic!Do(t) \/ UNCHANGED Atomic!atomic)
BY BeginAtomic, LookAtomic, StatAtomic, OpenAtomic, FirstReadAtomic, NextReadAtomic, ScanAtomic,
   VisitAtomic, VisitedAtomic, PlaceAtomic, ClaimAtomic, TruncateAtomic, FillAtomic, UnlinkAtomic,
   LinkAtomic, DropSourceAtomic, UndoAtomic, AimAtomic, RenameAtomic, CopyAtomic, PasteAtomic,
   ClearAtomic
   DEF Step

\* A tool that steps leaves at a name nothing, something that was at some name, or a file
\* that it created and goes on to fill.
LEMMA EntriesStep ==
    ASSUME ToolInv, NEW t \in Tasks, Step(t), NEW p \in Paths
    PROVE  \/ entry'[p] = "absent"
           \/ \E q \in Paths : entry'[p] = entry[q]
           \/ entry'[p] = t /\ at'[t] \in {"filling", "pasting"}
<1>1. entry \in [Paths -> Entries] /\ Src(t) \in Paths /\ Dst(t) \in Paths /\ to[t] \in Paths
      /\ Landing(Dst(t)) \in Paths
    BY Typed DEF ToolInv, ToolTypeOK
<1>2. CASE entry' = entry
    BY <1>2
<1>3. CASE \E q \in Paths : Drop(q)
    BY <1>1, <1>3 DEF Drop, Links
<1>4. CASE \E q \in Paths, stage \in {"filling", "pasting"} :
              Links(q, IF Is(q) THEN entry[q] ELSE t) /\ Go(t, stage)
  <2>1. PICK q \in Paths, stage \in {"filling", "pasting"} :
            Links(q, IF Is(q) THEN entry[q] ELSE t) /\ Go(t, stage)
      BY <1>4
  <2>2. at'[t] = stage
      BY <2>1, Moved
  <2>3. QED
      BY <1>1, <2>1, <2>2 DEF Links
<1>5. CASE Claim(t) /\ Links(Src(t), t) /\ Go(t, "filling")
    BY <1>1, <1>5, Moved DEF Links
<1>6. CASE \E q \in Paths : Links(q, entry[Src(t)])
    BY <1>1, <1>6 DEF Links
<1>7. CASE \E q \in Paths : entry' = [entry EXCEPT ![q] = entry[Src(t)], ![Src(t)] = "absent"]
    BY <1>1, <1>7
<1>8. CASE Truncate(t) \/ Copy(t)
    BY <1>1, <1>2, <1>4, <1>8 DEF Truncate, Copy, Empty, Fails, disk
<1>9. CASE Claim(t)
    BY <1>2, <1>5, <1>9 DEF Claim, Fails, disk
<1>10. CASE Unlink(t) \/ DropSource(t) \/ Undo(t) \/ Clear(t)
    BY <1>1, <1>2, <1>3, <1>10 DEF Unlink, DropSource, Undo, Clear, Fails, disk
<1>11. CASE Link(t)
    BY <1>1, <1>2, <1>6, <1>11 DEF Link, Fails, disk
<1>12. CASE Aim(t) \/ Rename(t)
    BY <1>1, <1>2, <1>7, <1>12 DEF Aim, Rename, Fails, disk
<1>13. CASE \/ Begin(t) \/ Look(t) \/ Stat(t) \/ Open(t) \/ FirstRead(t) \/ NextRead(t)
            \/ Scan(t) \/ (\E q \in Paths : Visit(t, q)) \/ Visited(t)
            \/ Place(t) \/ Fill(t) \/ Paste(t)
    BY <1>2, <1>13 DEF Begin, Look, Stat, Open, FirstRead, NextRead, Scan, Visit, Visited, Place,
       Fill, Paste, Fails, disk
<1>14. QED
    BY <1>8, <1>9, <1>10, <1>11, <1>12, <1>13 DEF Step

\* A tool that has created a file goes on with it or ends.
LEMMA StaysLate ==
    ASSUME ToolInv, NEW t \in Tasks, Step(t), at[t] \in {"filling", "pasting", "clearing", "ended"}
    PROVE  at'[t] \in {"filling", "pasting", "clearing", "ended"}
<1>1. Fill(t) \/ Paste(t) \/ Clear(t)
    BY DEF Step, Begin, Look, Stat, Open, FirstRead, NextRead, Scan, Visit, Visited, Place,
       Claim, Truncate, Fill, Unlink, Link, DropSource, Undo, Aim, Rename, Copy, Paste,
       Clear
<1>2. \E stage \in {"clearing", "ended"} : at' = [at EXCEPT ![t] = stage]
    BY <1>1 DEF Fill, Paste, Clear, Fails, End, Go
<1>3. QED
    BY <1>2 DEF ToolInv, ToolTypeOK

LEMMA FreshStep ==
    ASSUME ToolInv, Fresh, NEW t \in Tasks, Step(t)
    PROVE  Fresh'
<1>1. SUFFICES ASSUME NEW u \in Tasks, at'[u] \notin {"filling", "pasting", "clearing", "ended"},
                      NEW p \in Paths, entry'[p] = u
               PROVE  FALSE
    BY DEF Fresh
<1>2. at[u] \notin {"filling", "pasting", "clearing", "ended"}
    BY <1>1, StaysLate, OthersStay
<1>3. \A q \in Paths : entry[q] # u
    BY <1>2 DEF Fresh
<1>4. u # "absent"
    BY ToolAssumption DEF Files
<1>5. QED
    BY <1>1, <1>3, <1>4, EntriesStep

LEMMA SavedStep ==
    ASSUME ToolInv, SavedOK, NEW t \in Tasks, Step(t)
    PROVE  SavedOK'
<1>1. disk \in [Paths -> Entries] \X [Files -> SUBSET Marks] \X {"dir", "missing", "file"}
    BY DEF ToolInv, ToolTypeOK, disk, Marks
<1>2. saved' = disk \/ saved' = saved
    BY DEF Step
<1>3. QED
    BY <1>1, <1>2 DEF SavedOK

LEMMA AtomStart == ToolInit => AtomInv
<1>1. SUFFICES ASSUME ToolInit PROVE AtomInv
    OBVIOUS
<1>2. ToolInv
    BY <1>1, ToolStart
<1>3. SavedOK
    BY <1>1, <1>2 DEF ToolInit, SavedOK, ToolInv, ToolTypeOK, disk, Marks
<1>4. Fresh
  <2>1. entry \in [Paths -> Paths \cup {"absent", "dir"}]
      BY <1>1, ToolAssumption DEF ToolInit
  <2>2. QED
      BY <2>1, ToolAssumption DEF Fresh, Files
<1>5. ASSUME NEW t \in Tasks
      PROVE  Kept(t)
    BY <1>1 DEF ToolInit, Kept, KeptDisk, KeptSight
<1>6. QED
    BY <1>2, <1>3, <1>4, <1>5 DEF AtomInv

LEMMA AtomStep == AtomInv /\ [ToolNext]_toolvars => AtomInv'
<1>1. ASSUME AtomInv, NEW t \in Tasks, Step(t)
      PROVE  AtomInv'
  <2>1. ToolInv'
      BY <1>1, ToolStep DEF AtomInv, ToolNext
  <2>2. Fresh' /\ SavedOK'
      BY <1>1, FreshStep, SavedStep DEF AtomInv
  <2>3. ASSUME Alone
        PROVE  \A u \in Tasks : Kept(u)'
    <3>1. Turn(t) /\ \A u \in Tasks \ {t} : ~AtWork(u) /\ at'[u] = at[u] /\ got'[u] = got[u]
        BY <1>1, <2>3, TurnTaken DEF AtomInv
    <3>2. Kept(t)'
        BY <1>1, <2>3, <3>1, ActsAtomic DEF AtomInv, Acting
    <3>3. ASSUME NEW u \in Tasks \ {t}
          PROVE  Kept(u)'
        BY <1>1, <2>3, <3>1, <3>3, OthersKept DEF AtomInv, Turn
    <3>4. QED
        BY <3>2, <3>3
  <2>4. Alone' => Alone
      BY <1>1 DEF Alone, Step
  <2>5. QED
      BY <2>1, <2>2, <2>3, <2>4 DEF AtomInv
<1>2. ASSUME AtomInv, UNCHANGED toolvars
      PROVE  AtomInv'
  <2>1. ToolInv'
      BY <1>2, ToolStep DEF AtomInv
  <2>2. Fresh' /\ SavedOK' /\ (Alone' => Alone)
      BY <1>2 DEF AtomInv, Fresh, SavedOK, Alone, toolvars, task, disk
  <2>3. ASSUME NEW t \in Tasks, Kept(t)
        PROVE  Kept(t)'
    <3>1. /\ saved' = saved /\ job' = job /\ at' = at /\ entry' = entry /\ data' = data
          /\ parent' = parent /\ fd' = fd /\ to' = to /\ todo' = todo /\ got' = got
        BY <1>2 DEF toolvars, task, disk
    <3>2. KeptDisk(t)'
        BY <2>3, <3>1 DEF Kept, KeptDisk, Wrote, Was, WasFile, WasIn, WasLanding, Written, Op, Src, Dst,
           disk
    <3>3. KeptSight(t)'
        BY <2>3, <3>1 DEF Kept, KeptSight, Walked, WasShown, Was, WasFile, WasIn, Sight, Kind, Is,
           Op, Src
    <3>4. QED
        BY <3>2, <3>3 DEF Kept
  <2>4. QED
      BY <1>2, <2>1, <2>2, <2>3 DEF AtomInv
<1>3. QED
    BY <1>1, <1>2 DEF ToolNext

\* The tools of one loop are atomic to each other: FileTools implements AtomicFiles when
\* all tools run on one event loop, for any number of them, any names, any directories
\* and any order in which the loop takes them.
THEOREM ToolsAreAtomic == ToolSpec => OneLoopIsAtomic
<1>1. ASSUME AtomInv, ToolNext, Alone
      PROVE  Atomic!Next \/ UNCHANGED Atomic!atomic
  <2>1. PICK t \in Tasks : Step(t)
      BY <1>1 DEF ToolNext
  <2>2. Turn(t)
      BY <1>1, <2>1, TurnTaken DEF AtomInv
  <2>3. Atomic!Do(t) \/ UNCHANGED Atomic!atomic
      BY <1>1, <2>1, <2>2, ActsAtomic DEF AtomInv, Acting
  <2>4. QED
      BY <2>3 DEF Atomic!Next
<1>2. AtomInv /\ [ToolNext]_toolvars =>
        [Alone => Atomic!Next \/ UNCHANGED Atomic!atomic]_toolvars
    BY <1>1
<1>3. QED
    BY <1>2, AtomStart, AtomStep, PTL DEF ToolSpec, OneLoopIsAtomic

=============================================================================
