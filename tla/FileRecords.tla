---------------------------- MODULE FileRecords ----------------------------
(***************************************************************************)
(* FilesystemBackend (persistence.py): one file per record, no lock.  Each *)
(* operation runs in a worker thread, and those of one or more processes   *)
(* interleave at every listing, read, rename and unlink.                   *)
(***************************************************************************)
EXTENDS Integers, FiniteSets

CONSTANTS
    Ids,            \* records, each stored once, named by its run
    Users,          \* the other operations of applications
    Setups,         \* the recording mode of each record, and what each user does
    Created,        \* created_at
    Cutoff,         \* the age each task deletes by
    RingSize        \* dev_ring_buffer_size

ASSUME FileRecordsAssumption ==
    /\ IsFiniteSet(Ids) /\ Ids \cap Users = {}
    /\ Setups \subseteq [mode : [Ids -> {"dev", "on_failure", "always"}],
                       job : [Users -> {"none", "load", "list", "delete", "sweep"}]]
    /\ Created \in [Ids -> Nat] /\ Cutoff \in [Ids \cup Users -> Nat] /\ RingSize \in Nat

Tasks == Ids \cup Users

VARIABLES
    mode, job,
    file,       \* <run_id>.json: never there, half-written, whole, or how it went
    at,         \* where each operation is
    todo,       \* the names its listing still has to read
    found,      \* files it will unlink next, or has yet to choose from
    counted     \* what a sweep says it deleted

filevars == <<mode, job, file, at, todo, found, counted>>

Present == {i \in Ids : file[i] \in {"torn", "whole"}}
DevOf(S) == {i \in S : mode[i] = "dev"}
JobOf(t) == IF t \in Ids THEN mode[t] ELSE job[t]

FileInit ==
    /\ \E s \in Setups : mode = s.mode /\ job = s.job
    /\ file = [i \in Ids |-> "never"]
    /\ at = [t \in Tasks |-> "new"]
    /\ todo = [t \in Tasks |-> {}] /\ found = [t \in Tasks |-> {}]
    /\ counted = [u \in Users |-> {}]

Go(t, place) == at' = [at EXCEPT ![t] = place]

-----------------------------------------------------------------------------
(* store: _write_sync, then _prune_for_mode_sync *)

\* Bug: the record is written under its own name.
WriteInPlace(i) ==
    /\ at[i] = "new" /\ Go(i, "writing")
    /\ file' = [file EXCEPT ![i] = "torn"]
    /\ UNCHANGED <<mode, job, todo, found, counted>>
\* The temporary file, which no listing matches.
Write(i) ==
    /\ at[i] = "new" /\ Go(i, "writing")
    /\ UNCHANGED <<mode, job, file, todo, found, counted>>

WriteFails(i) ==
    /\ at[i] \in {"writing", "cut_writing"} /\ Go(i, "failed")
    /\ UNCHANGED <<mode, job, file, todo, found, counted>>

\* The caller is cancelled: the thread goes on, and nothing prunes after it.
CancelStore(i) ==
    /\ at[i] = "writing" /\ Go(i, "cut_writing")
    /\ UNCHANGED <<mode, job, file, todo, found, counted>>

Rename(i) ==
    /\ \/ at[i] = "writing" /\ Go(i, IF mode[i] = "always" THEN "done" ELSE "written")
       \/ at[i] = "cut_writing" /\ Go(i, "cut")
    /\ file' = [file EXCEPT ![i] = "whole"]
    /\ UNCHANGED <<mode, job, todo, found, counted>>

-----------------------------------------------------------------------------
(* Listing and reading *)

\* A listing is a snapshot of the names.
List(t) ==
    /\ \/ t \in Ids /\ at[t] = "written"
       \/ t \in Users /\ at[t] = "new" /\ job[t] \in {"list", "sweep"}
    /\ Go(t, "reading")
    /\ todo' = [todo EXCEPT ![t] = Present]
    /\ UNCHANGED <<mode, job, file, found, counted>>

\* load and delete look whether the file is there.
LookUp(u) ==
    /\ u \in Users /\ at[u] = "new" /\ job[u] \in {"load", "delete"}
    /\ \E i \in Ids :
          IF i \notin Present THEN Go(u, "done") /\ UNCHANGED <<todo, found>>
          ELSE IF job[u] = "load"
          THEN Go(u, "reading") /\ todo' = [todo EXCEPT ![u] = {i}] /\ UNCHANGED found
          ELSE Go(u, "removing") /\ found' = [found EXCEPT ![u] = {i}] /\ UNCHANGED todo
    /\ UNCHANGED <<mode, job, file, counted>>

\* What a prune or a sweep unlinks as soon as it has read it.
Expired(t, i) ==
    \/ JobOf(t) = "sweep" /\ Created[i] < Cutoff[t]
    \/ JobOf(t) = "on_failure" /\ mode[i] = "on_failure" /\ Created[i] < Cutoff[t]

\* Read one listed file.  Pruning skips what it cannot load; the others raise.
Read(t) ==
    /\ at[t] = "reading"
    /\ \E i \in todo[t] :
          /\ todo' = [todo EXCEPT ![t] = @ \ {i}]
          /\ IF file[i] # "whole"
             THEN /\ Go(t, IF t \in Ids THEN "reading"
                           ELSE IF file[i] = "torn" THEN "misread" ELSE "failed")
                  /\ UNCHANGED found
             ELSE /\ Go(t, IF Expired(t, i) THEN "removing" ELSE "reading")
                  /\ found' = IF Expired(t, i) \/ (JobOf(t) = "dev" /\ mode[i] = "dev")
                              THEN [found EXCEPT ![t] = @ \cup {i}] ELSE found
    /\ UNCHANGED <<mode, job, file, counted>>

\* Bug: the oldest stay.
PastRingOldest(S) ==
    {E \in SUBSET S : /\ Cardinality(S) <= RingSize => E = {}
                      /\ Cardinality(S) > RingSize => Cardinality(S \ E) = RingSize
                      /\ \A e \in E, k \in S \ E : Created[e] >= Created[k]}
\* Bug: one too few is evicted.
PastRingLess(S) ==
    {E \in SUBSET S : /\ Cardinality(S) <= RingSize + 1 => E = {}
                      /\ Cardinality(S) > RingSize + 1 => Cardinality(S \ E) = RingSize + 1
                      /\ \A e \in E, k \in S \ E : Created[e] <= Created[k]}
\* The records past the RingSize newest of S; of equals, any may stay.
PastRing(S) ==
    {E \in SUBSET S : /\ Cardinality(S) <= RingSize => E = {}
                      /\ Cardinality(S) > RingSize => Cardinality(S \ E) = RingSize
                      /\ \A e \in E, k \in S \ E : Created[e] <= Created[k]}

\* All names are read: a dev prune evicts what is past the ring.
ReadAll(t) ==
    /\ at[t] = "reading" /\ todo[t] = {}
    /\ \E gone \in IF JobOf(t) = "dev" THEN PastRing(found[t]) ELSE {{}} :
          /\ found' = [found EXCEPT ![t] = gone]
          /\ Go(t, IF gone = {} THEN "done" ELSE "removing")
    /\ UNCHANGED <<mode, job, file, todo, counted>>

-----------------------------------------------------------------------------
(* Unlinking *)

Remove(t, i, how) ==
    /\ found' = [found EXCEPT ![t] = @ \ {i}]
    /\ file' = [file EXCEPT ![i] = how]
    /\ Go(t, IF JobOf(t) \in {"on_failure", "sweep"} THEN "reading"
             ELSE IF found'[t] = {} THEN "done" ELSE "removing")

\* Bug: pruning raises where a file is gone.
PruneStrict(t) ==
    /\ t \in Ids /\ at[t] = "removing"
    /\ \E i \in found[t] :
          IF i \in Present THEN Remove(t, i, "pruned")
          ELSE Go(t, "failed") /\ UNCHANGED <<file, found>>
    /\ UNCHANGED <<mode, job, todo, counted>>
\* A prune's unlink(missing_ok), the newest of its victims first.
Prune(t) ==
    /\ t \in Ids /\ at[t] = "removing"
    /\ \E i \in found[t] :
          /\ \A j \in found[t] : Created[j] <= Created[i]
          /\ Remove(t, i, IF i \in Present THEN "pruned" ELSE file[i])
    /\ UNCHANGED <<mode, job, todo, counted>>

\* Bug: a sweep counts what it found gone.
UnlinkMissingOk(u) ==
    /\ u \in Users /\ at[u] = "removing"
    /\ \E i \in found[u] : Remove(u, i, "removed")
    /\ counted' = IF job[u] = "sweep" THEN [counted EXCEPT ![u] = @ \cup found[u]] ELSE counted
    /\ UNCHANGED <<mode, job, todo>>
\* The unlink of a sweep or a delete raises when the file is gone by now.
Unlink(u) ==
    /\ u \in Users /\ at[u] = "removing"
    /\ \E i \in found[u] :
          IF i \in Present
          THEN /\ Remove(u, i, "removed")
               /\ counted' = IF job[u] = "sweep" THEN [counted EXCEPT ![u] = @ \cup {i}]
                             ELSE counted
          ELSE Go(u, "failed") /\ UNCHANGED <<file, found, counted>>
    /\ UNCHANGED <<mode, job, todo>>

-----------------------------------------------------------------------------
(* Specification *)

Ended == {"new", "done", "cut", "failed", "misread", "lost"}

\* The process of the stores dies.
Crash ==
    /\ \E i \in Ids : at[i] \notin Ended
    /\ at' = [t \in Tasks |-> IF t \in Ids /\ at[t] \notin Ended THEN "lost" ELSE at[t]]
    /\ todo' = [t \in Tasks |-> IF t \in Ids THEN {} ELSE todo[t]]
    /\ found' = [t \in Tasks |-> IF t \in Ids THEN {} ELSE found[t]]
    /\ UNCHANGED <<mode, job, file, counted>>

FileNext ==
    \/ \E i \in Ids : Write(i) \/ WriteFails(i) \/ CancelStore(i) \/ Rename(i) \/ Prune(i)
    \/ \E u \in Users : LookUp(u) \/ Unlink(u)
    \/ \E t \in Tasks : List(t) \/ Read(t) \/ ReadAll(t)
    \/ Crash

FileSpec == FileInit /\ [][FileNext]_filevars

-----------------------------------------------------------------------------
(* Properties *)

\* Type correctness; no file is there before its own store's rename.
FileTypeOK ==
    /\ [mode |-> mode, job |-> job] \in Setups
    /\ file \in [Ids -> {"never", "torn", "whole", "pruned", "removed"}]
    /\ at \in [Tasks -> Ended \cup {"writing", "cut_writing", "written", "reading", "removing"}]
    /\ todo \in [Tasks -> SUBSET Ids] /\ found \in [Tasks -> SUBSET Ids]
    /\ counted \in [Users -> SUBSET Ids]
    /\ \A i \in Ids : at[i] \in {"new", "writing", "cut_writing"} => file[i] = "never"

\* No reader ever opens a record that is half-written, wherever the writer is or died
\* (_write_sync: "no reader ... can ever observe a half-written record").
ReadersSeeWhole == \A u \in Users : at[u] # "misread"

\* Stores that prune at the same time, from listings that are out of date, evict none
\* of the newest records: a dev record stays unless RingSize others as young were
\* written or an application removed it (_prune_dev_ring_buffer).
RingIsNewest ==
    \A i \in DevOf(Ids) :
        file[i] = "pruned" =>
            Cardinality({j \in DevOf(Ids) \ {i} : file[j] # "never" /\ Created[j] >= Created[i]})
                >= RingSize

\* The ring is exceeded by no more than the records whose own store has yet to prune,
\* was cancelled before it did, or died: at rest it holds, whatever interleaved.
RingHoldsAtRest ==
    Cardinality(DevOf(Present)) <=
        RingSize + Cardinality({i \in DevOf(Ids) : /\ file[i] # "never"
                                                   /\ at[i] \notin {"done", "failed"}})

\* The ring of _prune_dev_ring_buffer: none of the newest goes, and its size holds.
RingSound == RingIsNewest /\ RingHoldsAtRest

\* A store that reports failure kept no record: neither its own pruning nor anyone
\* else's deletion fails it once the record is there (dispatch reads a failed store as
\* "there is no record", and takes the output's reference back).
FailedStoresKeepNothing ==
    \A i \in Ids : at[i] = "failed" => file[i] = "never"

\* Two sweeps never both count a record, and what one counted is gone
\* (_delete_older_than_sync's unlink without missing_ok).
CountedOnce ==
    /\ \A u, v \in Users : u # v => counted[u] \cap counted[v] = {}
    /\ \A u \in Users : \A i \in counted[u] : file[i] = "removed"

=============================================================================
