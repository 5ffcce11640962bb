------------------------------ MODULE FileTools ------------------------------
(***************************************************************************)
(* The file tools (tools/read, sample, list_dir, glob, grep, write, edit,  *)
(* delete and move) down to their file system calls.  Between two calls of *)
(* one tool the tools of other event loops act on the same files; those of *)
(* its own loop do not, because no tool body awaits.  The data of a file   *)
(* are the marks of those who wrote to it; caps on results and positions   *)
(* in a file are left out.                                                 *)
(***************************************************************************)
CONSTANTS
    Tasks,      \* tool invocations
    Loops,      \* event loops (processes)
    Paths,      \* names in one directory
    Inside,     \* the path a file gets that is moved into this path, a directory
    Jobs,       \* what the tasks may be asked to do, as [Tasks -> Job]
    Layouts,    \* what may be at the paths at first
    NoFile

VARIABLES
    job,        \* what each task is asked to do, and on which loop
    entry,      \* what is at each path
    data,       \* what is in each file
    parent,     \* the directory of the paths: there, missing, or a file
    at,         \* where each task is
    fd,         \* the file it has open or moves
    to,         \* where a move that may overwrite takes it
    todo,       \* the names a walk has listed and not visited
    got,        \* what it has seen of the files
    outcome,    \* how it ended
    saved       \* the files as they were when the tool that is at work began

disk == <<entry, data, parent>>
task == <<at, fd, to, todo, got, outcome>>
toolvars == <<job, disk, task, saved>>

Named == {"read", "sample", "edit", "write", "create"}
Taking == {"delete", "move", "replace"}
Walking == {"list", "glob", "grep"}
Ops == Named \cup Taking \cup Walking
Job == [op : Ops, src : Paths, dst : Paths, loop : Loops]
Stages == {"new", "looking", "stating", "opening", "reading", "rereading", "scanning",
           "visiting", "placing", "claiming", "truncating", "filling", "unlinking", "linking",
           "dropping", "undoing", "aiming", "renaming", "copying", "pasting", "clearing", "ended"}
\* A file is named by the path it was found at or by the task that created it.
Files == Paths \cup Tasks
Torn == {"torn"}
Entries == Files \cup {"absent", "dir"}

ASSUME ToolAssumption ==
    /\ Inside \in [Paths -> Paths] /\ Jobs \subseteq [Tasks -> Job]
    /\ Layouts \subseteq [Paths -> Paths \cup {"absent", "dir"}]
    /\ NoFile \notin Files /\ {"absent", "dir"} \cap Files = {}
    /\ Paths \cap Tasks = {}

Is(p) == entry[p] \in Files
Op(t) == job[t].op
Src(t) == job[t].src
Dst(t) == job[t].dst
AtWork(t) == at[t] \notin {"new", "ended"}
Quiet == \A t \in Tasks : ~AtWork(t)
Alone == \A t, u \in Tasks : job[t].loop = job[u].loop

ToolInit ==
    /\ job \in Jobs
    /\ entry \in Layouts
    /\ data = [f \in Files |-> {f}]
    /\ parent \in IF \A p \in Paths : entry[p] = "absent" THEN {"dir", "missing", "file"} ELSE {"dir"}
    /\ at = [t \in Tasks |-> "new"]
    /\ fd = [t \in Tasks |-> NoFile] /\ to = [t \in Tasks |-> Dst(t)]
    /\ todo = [t \in Tasks |-> {}] /\ got = [t \in Tasks |-> {}]
    /\ outcome = [t \in Tasks |-> "none"]
    /\ saved = disk

-----------------------------------------------------------------------------
(* Steps of a tool *)

Go(t, stage) == at' = [at EXCEPT ![t] = stage] /\ UNCHANGED <<outcome, todo>>
\* Bug: a tool that ends leaves the rest of its walk.
EndMidWalk(t, how) ==
    /\ at' = [at EXCEPT ![t] = "ended"]
    /\ outcome' = [outcome EXCEPT ![t] = how]
    /\ UNCHANGED todo
\* A tool ends; a failure reports nothing it saw.
End(t, how) ==
    /\ at' = [at EXCEPT ![t] = "ended"]
    /\ outcome' = [outcome EXCEPT ![t] = how]
    /\ todo' = [todo EXCEPT ![t] = {}]
Fails(t, how) == End(t, how) /\ got' = [got EXCEPT ![t] = {}] /\ UNCHANGED <<disk, fd, to>>
Sees(t, p, what) == got' = [got EXCEPT ![t] = @ \cup {<<p, what>>}]
\* This file is at p; this is at f.
Opens(t, f) == fd' = [fd EXCEPT ![t] = f]
Links(p, what) == entry' = [entry EXCEPT ![p] = what]
Holds(f, what) == data' = [data EXCEPT ![f] = what]

\* The run was stopped, or the arguments are wrong in themselves.
Begin(t) ==
    /\ at[t] = "new"
    /\ \/ \E why \in {"cancelled", "validation"} : Fails(t, why)
       \/ Go(t, "looking") /\ UNCHANGED <<disk, fd, to, got>>

\* Where each tool goes after it.
First == [read |-> "opening", edit |-> "opening", sample |-> "stating", write |-> "placing",
          create |-> "placing", delete |-> "unlinking", move |-> "linking",
          replace |-> "aiming", list |-> "scanning", glob |-> "scanning", grep |-> "scanning"]

\* grep searches a file as well.
Walkable(t) == parent = "dir" \/ (Op(t) = "grep" /\ parent = "file")

\* The first looks at the path.  Path.is_dir and Path.exists raise where a directory
\* on the way cannot be searched; os.path.lexists does not.
Look(t) ==
    /\ at[t] = "looking"
    /\ \/ /\ \/ Op(t) \in Named /\ entry[Src(t)] = "dir"
             \/ Op(t) \in Taking /\ ~Is(Src(t))
             \/ Op(t) \in Walking /\ ~Walkable(t)
          /\ Fails(t, "validation")
       \/ Op(t) \notin Taking /\ Fails(t, "raised")
       \/ /\ Op(t) \in Named => entry[Src(t)] # "dir"
          /\ Op(t) \in Taking => Is(Src(t))
          /\ Op(t) \in Walking => Walkable(t)
          /\ Go(t, First[Op(t)]) /\ UNCHANGED <<disk, fd, to, got>>

-----------------------------------------------------------------------------
(* Reading *)

\* sample's stat: missing, denied, or an error it does not catch.
Stat(t) ==
    /\ at[t] = "stating"
    /\ \/ entry[Src(t)] = "absent" /\ parent # "file" /\ Fails(t, "validation")
       \/ \E how \in {"internal", "raised"} : Fails(t, how)
       \/ /\ Is(Src(t)) /\ Sees(t, Src(t), data[entry[Src(t)]])
          /\ Go(t, "opening") /\ UNCHANGED <<disk, fd, to>>
       \/ /\ entry[Src(t)] = "dir"
          /\ Go(t, "opening") /\ UNCHANGED <<disk, fd, to, got>>

\* What opening a file to read it comes to: missing is the caller's mistake, the
\* rest is the system's.
Open(t) ==
    /\ at[t] = "opening"
    /\ \/ entry[Src(t)] = "absent" /\ parent # "file" /\ Fails(t, "validation")
       \/ Fails(t, "internal")
       \/ /\ Is(Src(t)) /\ Opens(t, entry[Src(t)])
          /\ Go(t, "reading") /\ UNCHANGED <<disk, to, got>>

\* The first segment of a stream, or all of what edit reads.  The content may fail to
\* decode, and what edit looks for may be missing or there too often.
FirstRead(t) ==
    /\ at[t] = "reading"
    /\ \/ Fails(t, "internal")
       \/ Op(t) = "edit" /\ Fails(t, "validation")
       \/ /\ Sees(t, Src(t), data[fd[t]])
          /\ Go(t, IF Op(t) = "edit" THEN "truncating" ELSE "rereading")
          /\ UNCHANGED <<disk, fd, to>>

\* The rest of the stream; the position asked for may lie past the end of its line.
NextRead(t) ==
    /\ at[t] = "rereading"
    /\ \/ \E how \in {"internal", "validation"} : Fails(t, how)
       \/ Sees(t, Src(t), data[fd[t]]) /\ End(t, "success") /\ UNCHANGED <<disk, fd, to>>

\* The names in the directory, as scandir gives them.
Names == {p \in Paths : entry[p] # "absent"} \ {Inside[p] : p \in {q \in Paths : entry[q] = "dir"}}

\* os.walk, and glob, pass over a directory they may not list.
Scan(t) ==
    /\ at[t] = "scanning"
    /\ \/ Op(t) # "grep" /\ Fails(t, "internal")
       \/ parent = "file" /\ \E how \in {"cancelled", "validation", "internal"} : Fails(t, how)
       \/ /\ at' = [at EXCEPT ![t] = "visiting"]
          /\ \E names \in {Names} \cup (IF Op(t) = "list" THEN {} ELSE {{}}) :
                todo' = [todo EXCEPT ![t] = names]
          /\ UNCHANGED <<disk, fd, to, got, outcome>>

\* What list_dir says of an entry: by now it may be gone.
Kind(p) == CASE Is(p) -> {"file"} [] entry[p] = "dir" -> {"dir"} [] OTHER -> {"other"}

\* One name: list_dir classifies it, glob keeps it if it is a file, grep searches it
\* if it can be read and looks at the run's signal before.
Visit(t, p) ==
    /\ at[t] = "visiting" /\ p \in todo[t]
    /\ \/ /\ todo' = [todo EXCEPT ![t] = @ \ {p}]
          /\ \/ Op(t) = "list" /\ Sees(t, p, Kind(p))
             \/ Op(t) = "glob" /\ (IF Is(p) THEN Sees(t, p, {"file"}) ELSE UNCHANGED got)
             \/ Op(t) = "grep" /\ Is(p) /\ Sees(t, p, data[entry[p]])
             \/ Op(t) = "grep" /\ UNCHANGED got
          /\ UNCHANGED <<disk, at, fd, to, outcome>>
       \/ Op(t) = "glob" /\ Fails(t, "internal")
       \/ Op(t) \in {"list", "grep"} /\ Fails(t, "raised")
       \/ Op(t) = "grep" /\ \E how \in {"cancelled", "validation"} : Fails(t, how)

\* All names visited, or as many matches as were asked for.
Visited(t) ==
    /\ at[t] = "visiting" /\ (todo[t] = {} \/ Op(t) = "grep")
    /\ End(t, "success") /\ UNCHANGED <<disk, fd, to, got>>

-----------------------------------------------------------------------------
(* Writing *)

\* The directory is made; what stands in its place is the caller's mistake.
Place(t) ==
    /\ at[t] = "placing"
    /\ \/ parent = "file" /\ Fails(t, "validation")
       \/ Fails(t, "internal")
       \/ /\ parent # "file" /\ parent' = "dir"
          /\ Go(t, IF Op(t) = "create" THEN "claiming" ELSE "truncating")
          /\ UNCHANGED <<entry, data, fd, to, got>>

\* Bug: create_only is a look before an ordinary write.
ClaimLater(t) ==
    /\ at[t] = "claiming"
    /\ \/ entry[Src(t)] # "absent" /\ Fails(t, "validation")
       \/ entry[Src(t)] = "absent" /\ Go(t, "truncating") /\ UNCHANGED <<disk, fd, to, got>>
\* The exclusive open: an entry that is there stays and the caller is told.
Claim(t) ==
    /\ at[t] = "claiming"
    /\ \/ entry[Src(t)] # "absent" /\ Fails(t, "validation")
       \/ Fails(t, "internal")
       \/ /\ entry[Src(t)] = "absent"
          /\ Links(Src(t), t) /\ Holds(t, Torn) /\ Opens(t, t)
          /\ Go(t, "filling") /\ UNCHANGED <<parent, to, got>>

\* Open for writing: the file there is emptied, or a new one is created.
Empty(t, p) ==
    LET f == IF Is(p) THEN entry[p] ELSE t
    IN /\ entry[p] # "dir"
       /\ Links(p, f) /\ Holds(f, Torn) /\ Opens(t, f)
       /\ UNCHANGED <<parent, to, got>>

\* write_bytes, which write and edit use on the name, whatever is there by now.
Truncate(t) ==
    /\ at[t] = "truncating"
    /\ \/ Fails(t, "internal")
       \/ Empty(t, Src(t)) /\ Go(t, "filling")

\* The content: the one given, or the one that was read, edited.
Content(t) == {t} \cup (IF Op(t) = "edit" THEN UNION {seen[2] : seen \in got[t]} ELSE {})

Fill(t) ==
    /\ at[t] = "filling"
    /\ \/ Fails(t, "internal")
       \/ /\ Holds(fd[t], Content(t)) /\ End(t, "success")
          /\ got' = [got EXCEPT ![t] = {}] /\ UNCHANGED <<entry, parent, fd, to>>

-----------------------------------------------------------------------------
(* Deleting and moving *)

Drop(p) == Links(p, "absent") /\ UNCHANGED <<data, parent>>

Unlink(t) ==
    /\ at[t] = "unlinking"
    /\ \/ Fails(t, "internal")
       \/ Is(Src(t)) /\ Drop(Src(t)) /\ End(t, "success") /\ UNCHANGED <<fd, to, got>>

\* Bug: the move is one rename, which replaces what is there.
LinkByRename(t) ==
    /\ at[t] = "linking"
    /\ \/ Fails(t, "internal")
       \/ /\ Is(Src(t)) /\ entry[Dst(t)] # "dir"
          /\ entry' = [entry EXCEPT ![Dst(t)] = entry[Src(t)], ![Src(t)] = "absent"]
          /\ End(t, "success") /\ UNCHANGED <<data, parent, fd, to, got>>
\* A move that may not overwrite: the hard link claims the name or fails.
Link(t) ==
    /\ at[t] = "linking"
    /\ \/ entry[Dst(t)] # "absent" /\ Fails(t, "validation")
       \/ Fails(t, "internal")
       \/ /\ Is(Src(t)) /\ entry[Dst(t)] = "absent"
          /\ Links(Dst(t), entry[Src(t)]) /\ Opens(t, entry[Src(t)])
          /\ Go(t, "dropping") /\ UNCHANGED <<data, parent, to, got>>

\* Bug: a source that cannot be removed is reported and the claim is kept.
DropSourceOnly(t) ==
    /\ at[t] = "dropping"
    /\ \/ Fails(t, "validation")
       \/ Is(Src(t)) /\ Drop(Src(t)) /\ End(t, "success") /\ UNCHANGED <<fd, to, got>>
DropSource(t) ==
    /\ at[t] = "dropping"
    /\ \/ Go(t, "undoing") /\ UNCHANGED <<disk, fd, to, got>>
       \/ Is(Src(t)) /\ Drop(Src(t)) /\ End(t, "success") /\ UNCHANGED <<fd, to, got>>

\* The rollback removes the name it claimed, if it can.
Undo(t) ==
    /\ at[t] = "undoing"
    /\ \/ Fails(t, "internal")
       \/ Is(Dst(t)) /\ Drop(Dst(t)) /\ End(t, "internal") /\ UNCHANGED <<fd, to, got>>

\* shutil.move looks where to go: into a directory that is there, unless the name is
\* taken in it; else to the target, whatever is there.
Landing(d) == IF entry[d] = "dir" THEN Inside[d] ELSE d
Aim(t) ==
    LET d == Landing(Dst(t))
    IN /\ at[t] = "aiming"
       /\ \/ d # Dst(t) /\ entry[d] # "absent" /\ Fails(t, "internal")
          \/ /\ d = Dst(t) \/ entry[d] = "absent"
             /\ to' = [to EXCEPT ![t] = d]
             /\ Go(t, "renaming") /\ UNCHANGED <<disk, fd, got>>

\* The rename, over what is there by now.  Two names of one file stay as they are.
\* Across file systems it fails and the file is copied.
Rename(t) ==
    LET d == to[t]
    IN /\ at[t] = "renaming"
       /\ \/ Fails(t, "internal")
          \/ /\ Is(Src(t)) /\ entry[d] # "dir"
             /\ \/ /\ entry' = IF entry[d] = entry[Src(t)] THEN entry
                             ELSE [entry EXCEPT ![d] = entry[Src(t)], ![Src(t)] = "absent"]
                   /\ End(t, "success") /\ UNCHANGED <<data, parent, fd, to, got>>
                \/ /\ entry[d] # entry[Src(t)]
                   /\ Go(t, "copying") /\ UNCHANGED <<disk, fd, to, got>>

Copy(t) ==
    /\ at[t] = "copying"
    /\ \/ Fails(t, "internal")
       \/ /\ Is(Src(t)) /\ entry[Src(t)] # entry[to[t]]
          /\ Empty(t, to[t]) /\ Go(t, "pasting")

Paste(t) ==
    /\ at[t] = "pasting"
    /\ \/ Fails(t, "internal")
       \/ /\ Is(Src(t)) /\ Holds(fd[t], data[entry[Src(t)]])
          /\ Go(t, "clearing") /\ UNCHANGED <<entry, parent, fd, to, got>>

Clear(t) ==
    /\ at[t] = "clearing"
    /\ \/ Fails(t, "internal")
       \/ Is(Src(t)) /\ Drop(Src(t)) /\ End(t, "success") /\ UNCHANGED <<fd, to, got>>

-----------------------------------------------------------------------------
(* Specification *)

\* Bug: tool bodies run in worker threads and no longer exclude each other.
FreeAlways(t) == TRUE
\* A tool begins only when no other is at work on its loop: bodies do not await.
Free(t) == \A u \in Tasks : u # t /\ AtWork(u) => job[u].loop # job[t].loop

Step(t) ==
    /\ Free(t)
    /\ \/ Begin(t) \/ Look(t) \/ Stat(t) \/ Open(t) \/ FirstRead(t) \/ NextRead(t)
       \/ Scan(t) \/ (\E p \in Paths : Visit(t, p)) \/ Visited(t)
       \/ Place(t) \/ Claim(t) \/ Truncate(t) \/ Fill(t)
       \/ Unlink(t) \/ Link(t) \/ DropSource(t) \/ Undo(t)
       \/ Aim(t) \/ Rename(t) \/ Copy(t) \/ Paste(t) \/ Clear(t)
    /\ saved' = IF Quiet THEN disk ELSE saved
    /\ UNCHANGED job

ToolNext == \E t \in Tasks : Step(t)

ToolSpec == ToolInit /\ [][ToolNext]_toolvars

-----------------------------------------------------------------------------
(* Properties *)

\* Type correctness.
ToolTypeOK ==
    /\ job \in [Tasks -> Job]
    /\ entry \in [Paths -> Entries] /\ data \in [Files -> SUBSET (Files \cup Torn)]
    /\ parent \in {"dir", "missing", "file"}
    /\ parent # "dir" => \A p \in Paths : entry[p] = "absent"
    /\ at \in [Tasks -> Stages] /\ fd \in [Tasks -> Files \cup {NoFile}]
    /\ to \in [Tasks -> Paths] /\ todo \in [Tasks -> SUBSET Paths]
    /\ \A t \in Tasks : todo[t] # {} => at[t] = "visiting"
    /\ outcome \in [Tasks -> {"none", "success", "cancelled", "validation", "internal", "raised"}]
    /\ \A t \in Tasks : outcome[t] # "none" <=> at[t] = "ended"

\* A create_only write and a move without overwrite never replace, empty or remove
\* what is at a name, whoever put it there and in whichever moment, but for what the
\* move has at its source, and its rollback at the name it had claimed.
Exclusive(t) == Op(t) \in {"create", "move"}
NeverReplaces == [][
    \A t \in Tasks : Exclusive(t) /\ at'[t] # at[t] =>
        /\ \A p \in Paths : entry[p] # "absent" /\ entry'[p] # entry[p] =>
              Op(t) = "move" /\ p = IF at[t] = "undoing" THEN Dst(t) ELSE Src(t)
        /\ \A f \in Files : data'[f] # data[f] => f = t]_toolvars

\* The tools of one loop are atomic to each other: each behaves as one of the
\* operations of AtomicFiles, on the files as they are while no tool is at work.  No
\* edit undoes another, no reader sees half a write, no listing a half-done move.
Atomic == INSTANCE AtomicFiles WITH
    entry <- IF Quiet THEN entry ELSE saved[1],
    data <- IF Quiet THEN data ELSE saved[2],
    parent <- IF Quiet THEN parent ELSE saved[3],
    told <- [t \in Tasks |-> [outcome |-> outcome[t],
                              got |-> IF at[t] = "ended" THEN got[t] ELSE {}]]
OneLoopIsAtomic == [][Alone => Atomic!Next \/ UNCHANGED Atomic!atomic]_toolvars

=============================================================================
