----------------------------- MODULE AtomicFiles -----------------------------
(***************************************************************************)
(* What the file tools of one run are to each other: operations on a small *)
(* tree of files that happen one at a time.  A success has its whole       *)
(* effect and reports what was there; a failure has none, but for the few  *)
(* said below that break off in the middle of a write or a move.           *)
(***************************************************************************)
CONSTANTS Tasks, Paths, Inside

VARIABLES
    job,        \* what each task is asked to do: op, src, dst
    entry,      \* what is at each path: a file, a directory, nothing
    data,       \* what is in each file: the marks of those who wrote to it
    parent,     \* the directory of the paths
    told        \* what each task reported: its outcome and what it saw

files == <<entry, data, parent>>
atomic == <<files, told>>

\* A file is named by the path it was found at or by the task that created it.
Files == Paths \cup Tasks
Torn == {"torn"}

Is(p) == entry[p] \in Files
Kind(p) == IF Is(p) THEN {"file"} ELSE {entry[p]}
Shown == {p \in Paths : entry[p] # "absent"} \ {Inside[p] : p \in {q \in Paths : entry[q] = "dir"}}
Tell(t, outcome, got) == told' = [told EXCEPT ![t] = [outcome |-> outcome, got |-> got]]

\* The file at p, or else a new one of t's, holds content.
Put(p, t, content) ==
    LET f == IF Is(p) THEN entry[p] ELSE t
    IN /\ entry[p] # "dir"
       /\ entry' = [entry EXCEPT ![p] = f]
       /\ data' = [data EXCEPT ![f] = content]
       /\ parent' = "dir"

\* A failure of any kind changes nothing, except that it may have made the directory.
Fail(t) ==
    /\ \E why \in {"cancelled", "validation", "internal", "raised"} : Tell(t, why, {})
    /\ UNCHANGED <<entry, data>>
    /\ parent' = parent \/ (job[t].op \in {"write", "create"} /\ parent' = "dir" /\ parent = "missing")

Read(t) ==
    /\ job[t].op \in {"read", "sample"} /\ Is(job[t].src)
    /\ Tell(t, "success", {<<job[t].src, data[entry[job[t].src]]>>})
    /\ UNCHANGED files

\* A listing is complete; a search may leave out files where nothing matched, and a
\* glob all of a directory it may not list.
Walk(t) ==
    /\ parent = "dir" \/ (job[t].op = "grep" /\ parent = "file")
    /\ \/ job[t].op = "list" /\ Tell(t, "success", {<<p, Kind(p)>> : p \in Shown})
       \/ /\ job[t].op = "glob"
          /\ \E found \in {{}, {q \in Shown : Is(q)}} :
                Tell(t, "success", {<<p, {"file"}>> : p \in found})
       \/ /\ job[t].op = "grep"
          /\ \E found \in SUBSET {q \in Shown : Is(q)} :
                Tell(t, "success", {<<p, data[entry[p]]>> : p \in found})
    /\ UNCHANGED files

\* The whole content, or a torn file and an internal failure.
Write(t) ==
    /\ job[t].op \in {"write", "create"} /\ parent \in {"dir", "missing"}
    /\ job[t].op = "create" => entry[job[t].src] = "absent"
    /\ \/ Put(job[t].src, t, {t}) /\ Tell(t, "success", {})
       \/ Put(job[t].src, t, Torn) /\ Tell(t, "internal", {})

\* What was there, edited.
Edit(t) ==
    /\ job[t].op = "edit" /\ Is(job[t].src)
    /\ LET was == data[entry[job[t].src]]
       IN \/ Put(job[t].src, t, was \cup {t}) /\ Tell(t, "success", {})
          \/ Put(job[t].src, t, Torn) /\ Tell(t, "internal", {})

Delete(t) ==
    /\ job[t].op = "delete" /\ Is(job[t].src)
    /\ entry' = [entry EXCEPT ![job[t].src] = "absent"]
    /\ Tell(t, "success", {})
    /\ UNCHANGED <<data, parent>>

\* Where shutil.move puts a file: into a directory that is there.
Landing(d) == IF entry[d] = "dir" THEN Inside[d] ELSE d

\* The file leaves the one name and has the other.  A failure may leave it both.
Rename(t, d) ==
    /\ Is(job[t].src)
    /\ \/ entry' = [entry EXCEPT ![d] = entry[job[t].src], ![job[t].src] = "absent"]
          /\ Tell(t, "success", {})
       \/ entry' = [entry EXCEPT ![d] = entry[job[t].src]]
          /\ \/ job[t].op = "move" /\ Tell(t, "internal", {})
             \/ job[t].op = "replace" /\ entry[d] = entry[job[t].src] /\ Tell(t, "success", {})
    /\ UNCHANGED <<data, parent>>

Move(t) == job[t].op = "move" /\ entry[job[t].dst] = "absent" /\ Rename(t, job[t].dst)

\* Onto another file system the file is copied, and then the source removed.
Copy(t, d) ==
    /\ Is(job[t].src)
    /\ LET f == IF Is(d) THEN entry[d] ELSE t
           copied == [entry EXCEPT ![d] = f]
       IN \/ /\ entry' \in {[copied EXCEPT ![job[t].src] = "absent"], copied}
             /\ data' = [data EXCEPT ![f] = data[entry[job[t].src]]]
             /\ Tell(t, IF Is(job[t].src)' THEN "internal" ELSE "success", {})
          \/ /\ entry' = copied
             /\ data' = [data EXCEPT ![f] = Torn]
             /\ Tell(t, "internal", {})
    /\ UNCHANGED parent

Replace(t) ==
    LET d == Landing(job[t].dst)
    IN job[t].op = "replace" /\ entry[d] # "dir" /\ (Rename(t, d) \/ Copy(t, d))

Do(t) ==
    /\ told[t].outcome = "none"
    /\ \/ Fail(t) \/ Read(t) \/ Walk(t) \/ Write(t) \/ Edit(t)
       \/ Delete(t) \/ Move(t) \/ Replace(t)
    /\ UNCHANGED job

Next == \E t \in Tasks : Do(t)

=============================================================================
