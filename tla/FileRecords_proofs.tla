------------------------- MODULE FileRecords_proofs -------------------------
(***************************************************************************)
(* Theorems about FileRecords, for any records, users, modes and ages.     *)
(***************************************************************************)
EXTENDS FileRecords, TLAPS, FiniteSetTheorems, WellFoundedInduction

\* Files only appear whole, and only by the rename of their own store.
NeverTorn == \A i \in Ids : file[i] # "torn"
FileInv ==
    FileTypeOK /\ NeverTorn /\ FailedStoresKeepNothing /\ ReadersSeeWhole /\ CountedOnce

\* What an unlink does to the files.
LEMMA RemoveStep ==
    ASSUME FileInv, NEW t \in Tasks, NEW i \in found[t], at[t] = "removing",
           NEW how, Remove(t, i, how)
    PROVE  /\ i \in Ids /\ at[t] # "failed"
           /\ file' = [file EXCEPT ![i] = how]
           /\ found' \in [Tasks -> SUBSET Ids]
           /\ \E place \in {"reading", "done", "removing"} : at' = [at EXCEPT ![t] = place]
  BY DEF Remove, Go, FileInv, FileTypeOK

LEMMA FileStart == FileInit => FileInv
  BY FileRecordsAssumption
  DEF FileInit, FileInv, FileTypeOK, NeverTorn, FailedStoresKeepNothing, ReadersSeeWhole,
      CountedOnce, Tasks, Ended

LEMMA FileStep == FileInv /\ [FileNext]_filevars => FileInv'
<1> SUFFICES ASSUME FileInv, [FileNext]_filevars PROVE FileInv'
  OBVIOUS
<1> USE FileRecordsAssumption
    DEF FileInv, FileTypeOK, NeverTorn, FailedStoresKeepNothing, ReadersSeeWhole,
        CountedOnce, Tasks, Ended
<1>1. ASSUME NEW i \in Ids, Write(i) PROVE FileInv'
  BY <1>1 DEF Write, Go
<1>2. ASSUME NEW i \in Ids, WriteFails(i) PROVE FileInv'
  BY <1>2 DEF WriteFails, Go
<1>3. ASSUME NEW i \in Ids, CancelStore(i) PROVE FileInv'
  BY <1>3 DEF CancelStore, Go
<1>4. ASSUME NEW i \in Ids, Rename(i) PROVE FileInv'
  <2>1. /\ file' = [file EXCEPT ![i] = "whole"] /\ file[i] = "never"
        /\ \E place \in {"done", "written", "cut"} : at' = [at EXCEPT ![i] = place]
    BY <1>4 DEF Rename, Go
  <2> QED
    BY <1>4, <2>1 DEF Rename
<1>5. ASSUME NEW i \in Ids, Prune(i) PROVE FileInv'
  <2>1. PICK r \in found[i] : Remove(i, r, IF r \in Present THEN "pruned" ELSE file[r])
    BY <1>5 DEF Prune
  <2>2. at[i] = "removing"
    BY <1>5 DEF Prune
  <2>3. /\ r \in Ids
        /\ file' = [file EXCEPT ![r] = IF r \in Present THEN "pruned" ELSE file[r]]
        /\ found' \in [Tasks -> SUBSET Ids]
        /\ \E place \in {"reading", "done", "removing"} : at' = [at EXCEPT ![i] = place]
    BY <2>1, <2>2, RemoveStep
  <2>4. r \in Present => file[r] = "whole"
    BY <2>3 DEF Present
  <2>5. \A k \in Ids : file'[k] = file[k] \/ (file[k] = "whole" /\ file'[k] = "pruned")
    BY <2>3, <2>4
  <2>6. UNCHANGED <<mode, job, todo, counted>>
    BY <1>5 DEF Prune
  <2>7. FileTypeOK' /\ NeverTorn'
    BY <2>2, <2>3, <2>5, <2>6
  <2>8. FailedStoresKeepNothing' /\ ReadersSeeWhole'
    BY <2>2, <2>3, <2>5
  <2>9. CountedOnce'
    <3>1. \A v \in Users : \A k \in counted[v] : k \in Ids /\ file'[k] = "removed"
      BY <2>5
    <3> QED
      BY <2>6, <3>1
  <2> QED
    BY <2>7, <2>8, <2>9
<1>6. ASSUME NEW u \in Users, LookUp(u) PROVE FileInv'
  <2>1. /\ UNCHANGED <<mode, job, file, counted>> /\ u \notin Ids
        /\ \E place \in {"done", "reading", "removing"} : at' = [at EXCEPT ![u] = place]
        /\ todo' \in [Tasks -> SUBSET Ids] /\ found' \in [Tasks -> SUBSET Ids]
    BY <1>6 DEF LookUp, Go
  <2> QED
    BY <2>1
<1>7. ASSUME NEW u \in Users, Unlink(u) PROVE FileInv'
  <2>1. at[u] = "removing"
    BY <1>7 DEF Unlink
  <2>2. PICK r \in found[u] :
           IF r \in Present
           THEN /\ Remove(u, r, "removed")
                /\ counted' = IF job[u] = "sweep" THEN [counted EXCEPT ![u] = @ \cup {r}]
                              ELSE counted
           ELSE Go(u, "failed") /\ UNCHANGED <<file, found, counted>>
    BY <1>7 DEF Unlink
  <2>3. CASE r \in Present
    <3>1. /\ r \in Ids
          /\ file' = [file EXCEPT ![r] = "removed"]
          /\ found' \in [Tasks -> SUBSET Ids]
          /\ \E place \in {"reading", "done", "removing"} : at' = [at EXCEPT ![u] = place]
      BY <2>1, <2>2, <2>3, RemoveStep
    <3>2. file[r] = "whole" /\ \A v \in Users : r \notin counted[v]
      BY <2>3, <3>1 DEF Present
    <3>3. counted' \in [Users -> SUBSET Ids] /\ CountedOnce'
      <4>1. CASE counted' = [counted EXCEPT ![u] = @ \cup {r}]
        <5>1. \A v \in Users : counted'[v] = IF v = u THEN counted[u] \cup {r} ELSE counted[v]
          BY <4>1
        <5>2. counted' \in [Users -> SUBSET Ids]
          BY <3>1, <4>1
        <5>3. \A v, w \in Users : v # w => counted'[v] \cap counted'[w] = {}
          BY <5>1, <3>2
        <5>4. \A v \in Users : \A k \in counted'[v] : file'[k] = "removed"
          BY <5>1, <3>1, <5>2
        <5> QED
          BY <5>2, <5>3, <5>4
      <4>2. CASE counted' = counted
        <5>1. \A v \in Users : \A k \in counted[v] : k \in Ids /\ file'[k] = "removed"
          BY <3>1
        <5> QED
          BY <4>2, <5>1
      <4> QED
        BY <2>2, <2>3, <4>1, <4>2
    <3>4. FileTypeOK'
      BY <1>7, <3>1, <3>2, <3>3 DEF Unlink
    <3>5. NeverTorn'
      BY <3>1
    <3>6. FailedStoresKeepNothing'
      <4>1. \A k \in Ids : at'[k] = at[k]
        BY <3>1
      <4>2. \A k \in Ids : at[k] = "failed" => file[k] = "never" /\ k # r
        BY <3>2
      <4> QED
        BY <3>1, <4>1, <4>2 DEF FailedStoresKeepNothing
    <3>7. ReadersSeeWhole'
      BY <3>1
    <3> QED
      BY <3>3, <3>4, <3>5, <3>6, <3>7
  <2>4. CASE r \notin Present
    BY <1>7, <2>2, <2>4 DEF Unlink, Go
  <2> QED
    BY <2>3, <2>4
<1>8. ASSUME NEW t \in Tasks, List(t) PROVE FileInv'
  BY <1>8 DEF List, Go, Present
<1>9. ASSUME NEW t \in Tasks, Read(t) PROVE FileInv'
  BY <1>9 DEF Read, Go
<1>10. ASSUME NEW t \in Tasks, ReadAll(t) PROVE FileInv'
  BY <1>10 DEF ReadAll, Go, PastRing
<1>11. CASE Crash
  BY <1>11 DEF Crash
<1>12. CASE UNCHANGED filevars
  BY <1>12 DEF filevars
<1> QED
  BY <1>1, <1>2, <1>3, <1>4, <1>5, <1>6, <1>7, <1>8, <1>9, <1>10, <1>11, <1>12 DEF FileNext

\* A file exists only past its store's rename, and is whole.
THEOREM FileTypes == FileSpec => []FileTypeOK
<1>1. FileInv => FileTypeOK
  BY DEF FileInv
<1> QED
  BY <1>1, FileStart, FileStep, PTL DEF FileSpec

\* Wherever a writer is or died, no reader opens a half-written record.
THEOREM ReadsAreWhole == FileSpec => []ReadersSeeWhole
<1>1. FileInv => ReadersSeeWhole
  BY DEF FileInv
<1> QED
  BY <1>1, FileStart, FileStep, PTL DEF FileSpec

\* No record is counted by two sweeps, and a counted one is gone for good.
THEOREM SweepsCountOnce == FileSpec => []CountedOnce
<1>1. FileInv => CountedOnce
  BY DEF FileInv
<1> QED
  BY <1>1, FileStart, FileStep, PTL DEF FileSpec

\* Nothing fails a store whose record is there.
THEOREM FailuresKeepNothing == FileSpec => []FailedStoresKeepNothing
<1>1. FileInv => FailedStoresKeepNothing
  BY DEF FileInv
<1> QED
  BY <1>1, FileStart, FileStep, PTL DEF FileSpec

-----------------------------------------------------------------------------
(* The ring *)

\* The dev records as young as i that were ever written.
AsYoung(i) == {j \in DevOf(Ids) \ {i} : file[j] # "never" /\ Created[j] >= Created[i]}

\* A store that lists has its record written, and prunes only records of its own mode,
\* which it found written; what a dev prune will unlink is older than a whole ring.
FoundKnown ==
    /\ \A t \in Ids : at[t] \in {"written", "reading", "removing", "done"} => file[t] # "never"
    /\ \A t \in Ids : \A i \in todo[t] \cup found[t] : file[i] # "never"
    /\ \A t \in Ids : \A i \in found[t] : mode[i] = mode[t]
    /\ \A t \in DevOf(Ids) : at[t] = "removing" =>
          \A i \in found[t] : Cardinality(AsYoung(i)) >= RingSize

\* Of the records S that t's listing gave it, those that are still there are in hand
\* while t reads, and past t's own victims they are no more than the ring.
Here(S) == S \cap DevOf(Present)
Covered(t, S) ==
    /\ \A i \in S : file[i] # "never"
    /\ at[t] \in {"reading", "removing", "done"} /\ t \in Present => t \in S
    /\ at[t] = "reading" => Here(S) \subseteq todo[t] \cup found[t]
    /\ at[t] = "removing" => Cardinality(Here(S) \ found[t]) <= RingSize
    /\ at[t] = "done" => Cardinality(Here(S)) <= RingSize

\* Of two listings, what is left of one is in the other.
Nested(listed) ==
    \A t, u \in DevOf(Ids) : \/ Here(listed[t]) \subseteq Here(listed[u])
                             \/ Here(listed[u]) \subseteq Here(listed[t])
RingCovered ==
    \E listed \in [Ids -> SUBSET Ids] :
        Nested(listed) /\ \A t \in DevOf(Ids) : Covered(t, listed[t])

\* What an unlink by a prune does to the files.
LEMMA PruneEffect ==
    ASSUME FileInv, NEW t \in Ids, Prune(t)
    PROVE  /\ UNCHANGED <<mode, todo>> /\ at[t] = "removing"
           /\ \E i \in found[t] :
                 /\ i \in Ids
                 /\ found' = [found EXCEPT ![t] = @ \ {i}]
                 /\ file' = [file EXCEPT ![i] = IF i \in Present THEN "pruned" ELSE file[i]]
           /\ at' = [at EXCEPT ![t] = IF mode[t] = "on_failure" THEN "reading"
                                      ELSE IF found'[t] = {} THEN "done" ELSE "removing"]
<1>1. mode[t] \in {"dev", "on_failure", "always"}
    BY FileRecordsAssumption DEF FileInv, FileTypeOK
<1>2. found[t] \subseteq Ids
    BY DEF FileInv, FileTypeOK, Tasks
<1>3. QED
    BY <1>1, <1>2 DEF Prune, Remove, Go, JobOf

\* How a step changes the files: a new one is renamed into place, one that is there
\* goes, and none comes back.
LEMMA FilesMove ==
    ASSUME FileInv, [FileNext]_filevars
    PROVE  /\ mode' = mode
           /\ \A i \in Ids : \/ file'[i] = file[i]
                             \/ file[i] = "never" /\ file'[i] = "whole"
                             \/ file[i] # "never" /\ file'[i] \in {"pruned", "removed"}
<1>1. mode' = mode
    BY DEF FileNext, filevars, Write, WriteFails, CancelStore, Rename, Prune, LookUp, Unlink,
           List, Read, ReadAll, Crash
<1>2. file \in [Ids -> {"never", "torn", "whole", "pruned", "removed"}]
    BY DEF FileInv, FileTypeOK
<1>3. ASSUME NEW i \in Ids, Rename(i)
      PROVE  \A k \in Ids : file'[k] = file[k] \/ (file[k] = "never" /\ file'[k] = "whole")
  <2>1. file[i] = "never" /\ file' = [file EXCEPT ![i] = "whole"]
      BY <1>3 DEF Rename, FileInv, FileTypeOK
  <2>2. QED
      BY <1>2, <2>1
<1>4. ASSUME NEW t \in Ids, Prune(t)
      PROVE  \A k \in Ids : file'[k] = file[k] \/ (file[k] # "never" /\ file'[k] = "pruned")
  <2>1. PICK i \in Ids : file' = [file EXCEPT ![i] = IF i \in Present THEN "pruned" ELSE file[i]]
      BY <1>4, PruneEffect
  <2>2. QED
      BY <1>2, <2>1 DEF Present
<1>5. ASSUME NEW u \in Users, Unlink(u)
      PROVE  \A k \in Ids : file'[k] = file[k] \/ (file[k] # "never" /\ file'[k] = "removed")
  <2>1. \/ file' = file
        \/ \E i \in Ids : file[i] # "never" /\ file' = [file EXCEPT ![i] = "removed"]
      BY <1>5 DEF Unlink, Remove, Present
  <2>2. QED
      BY <1>2, <2>1
<1>6. CASE UNCHANGED file
    BY <1>1, <1>6
<1>7. CASE UNCHANGED filevars \/ Crash
           \/ (\E i \in Ids : Write(i) \/ WriteFails(i) \/ CancelStore(i))
           \/ (\E u \in Users : LookUp(u)) \/ (\E t \in Tasks : List(t) \/ Read(t) \/ ReadAll(t))
    BY <1>6, <1>7 DEF filevars, Crash, Write, WriteFails, CancelStore, LookUp, List, Read, ReadAll
<1>8. QED
    BY <1>1, <1>3, <1>4, <1>5, <1>7 DEF FileNext

\* Of records that were written, what is there after a step was there before.
LEMMA HereShrinks ==
    ASSUME FileInv, [FileNext]_filevars, NEW S \in SUBSET Ids, \A i \in S : file[i] # "never"
    PROVE  /\ \A i \in S : file'[i] # "never"
           /\ Here(S)' = {i \in Here(S) : i \in Present'}
<1>1. \A i \in S : /\ file'[i] # "never" /\ mode'[i] = mode[i]
                   /\ i \in Present' => i \in Present
    BY FilesMove DEF Present
<1>2. QED
    BY <1>1 DEF Here, DevOf

LEMMA SmallerCount ==
    ASSUME NEW B \in SUBSET Ids, NEW A \in SUBSET B
    PROVE  /\ Cardinality(A) \in Nat /\ Cardinality(B) \in Nat
           /\ Cardinality(A) <= Cardinality(B)
BY FileRecordsAssumption, FS_Subset, FS_CardinalityType

\* A task whose own place and finds are as they were is covered still.
LEMMA CoveredStill ==
    ASSUME FileInv, FoundKnown, [FileNext]_filevars, NEW t \in Ids, NEW S \in SUBSET Ids,
           Covered(t, S),
           at'[t] = at[t] \/ at'[t] \notin {"reading", "removing", "done"},
           at'[t] \in {"reading", "removing"} => todo'[t] = todo[t] /\ found'[t] = found[t]
    PROVE  Covered(t, S)'
<1>1. /\ \A i \in S : file'[i] # "never"
      /\ Here(S)' \subseteq Here(S) /\ Here(S) \subseteq Ids
    BY HereShrinks DEF Covered, Here
<1>2. at[t] \in {"reading", "removing", "done"} /\ t \in Present' => t \in Present
    BY FilesMove DEF Present, FoundKnown
<1>3. CASE at'[t] \notin {"reading", "removing", "done"}
    BY <1>1, <1>3 DEF Covered
<1>4. CASE at'[t] = "reading" /\ at[t] = "reading"
    BY <1>1, <1>2, <1>4 DEF Covered
<1>5. CASE at'[t] = "removing" /\ at[t] = "removing"
  <2>1. (Here(S) \ found[t])' \subseteq Here(S) \ found[t]
      BY <1>1, <1>5
  <2>2. Cardinality((Here(S) \ found[t])') <= RingSize
      BY <1>1, <1>5, <2>1, SmallerCount, FileRecordsAssumption DEF Covered
  <2>3. QED
      BY <1>1, <1>2, <1>5, <2>2 DEF Covered
<1>6. CASE at'[t] = "done" /\ at[t] = "done"
  <2>1. Cardinality(Here(S)') <= RingSize
      BY <1>1, <1>6, SmallerCount, FileRecordsAssumption DEF Covered
  <2>2. QED
      BY <1>1, <1>2, <1>6, <2>1 DEF Covered
<1>7. QED
    BY <1>3, <1>4, <1>5, <1>6

LEMMA NestedStill ==
    ASSUME FileInv, [FileNext]_filevars, NEW listed \in [Ids -> SUBSET Ids], Nested(listed),
           \A t \in DevOf(Ids) : \A i \in listed[t] : file[i] # "never"
    PROVE  Nested(listed)'
<1>1. \A t \in DevOf(Ids) : Here(listed[t])' = {i \in Here(listed[t]) : i \in Present'}
    BY HereShrinks DEF DevOf
<1>2. DevOf(Ids)' = DevOf(Ids)
    BY FilesMove DEF DevOf
<1>3. QED
    BY <1>1, <1>2 DEF Nested

\* The snapshot of a listing.
LEMMA ListCovers ==
    ASSUME FileInv, FoundKnown, NEW t \in DevOf(Ids), List(t),
           NEW listed \in [Ids -> SUBSET Ids], Nested(listed),
           \A u \in DevOf(Ids) : Covered(u, listed[u])
    PROVE  RingCovered'
<1>1. /\ UNCHANGED <<mode, file>> /\ todo' = [todo EXCEPT ![t] = Present]
      /\ found' = found /\ at' = [at EXCEPT ![t] = "reading"]
    BY DEF List, Go
<1>2. [FileNext]_filevars /\ t \in Ids
    BY DEF FileNext, DevOf, Tasks
<1>3. DevOf(Ids)' = DevOf(Ids)
    BY <1>1 DEF DevOf
<1>4. Present \in SUBSET Ids
    BY DEF Present
<1>5. PICK now \in [Ids -> SUBSET Ids] : now = [listed EXCEPT ![t] = Present]
    BY <1>4
<1>6. /\ now[t] = Present /\ now[t] \in SUBSET Ids
      /\ \A u \in Ids : u # t => now[u] = listed[u]
    BY <1>2, <1>4, <1>5
<1>7. \A S \in SUBSET Ids : Here(S)' = Here(S)
    BY <1>1 DEF Here, Present, DevOf
<1>8. Nested(now)'
  <2>1. \A S \in SUBSET Ids : Here(S) \subseteq Here(now[t])
      BY <1>6 DEF Here, DevOf
  <2>2. \A u \in DevOf(Ids) : u \in Ids /\ now[u] \in SUBSET Ids
      BY DEF DevOf
  <2>3. Nested(now)
      BY <1>6, <2>1, <2>2 DEF Nested
  <2>4. QED
      BY <1>3, <1>7, <2>2, <2>3 DEF Nested
<1>9. Covered(t, now[t])'
  <2>1. /\ \A i \in now[t] : file'[i] # "never"
        /\ at'[t] = "reading" /\ todo'[t] = now[t]
      BY <1>1, <1>2, <1>6 DEF FileInv, FileTypeOK, Tasks, Present
  <2>2. t \in Present' => t \in now[t]
      BY <1>1, <1>6 DEF Present
  <2>3. Here(now[t])' \subseteq todo'[t]
      BY <1>6, <1>7, <2>1 DEF Here
  <2>4. QED
      BY <2>1, <2>2, <2>3 DEF Covered
<1>10. ASSUME NEW u \in DevOf(Ids), u # t
       PROVE  Covered(u, now[u])'
  <2>1. u \in Ids /\ now[u] \in SUBSET Ids /\ Covered(u, now[u])
      BY <1>6, <1>10 DEF DevOf
  <2>2. at'[u] = at[u] /\ todo'[u] = todo[u] /\ found'[u] = found[u]
      BY <1>1, <1>10, <2>1 DEF FileInv, FileTypeOK, Tasks
  <2>3. QED
      BY <1>2, <2>1, <2>2, CoveredStill
<1>11. \A u \in DevOf(Ids) : Covered(u, now[u])'
    BY <1>9, <1>10
<1>12. QED
    BY <1>3, <1>8, <1>11 DEF RingCovered

\* A dev store that has read all it listed chooses what is past the ring.
LEMMA ReadAllCovers ==
    ASSUME FileInv, FoundKnown, NEW t \in DevOf(Ids), ReadAll(t), NEW S \in SUBSET Ids,
           Covered(t, S)
    PROVE  /\ Covered(t, S)'
           /\ \A i \in found'[t] : Cardinality(AsYoung(i)) >= RingSize
<1>1. /\ t \in Ids /\ mode[t] = "dev" /\ at[t] = "reading" /\ todo[t] = {}
      /\ found[t] \in SUBSET Ids /\ RingSize \in Nat
      /\ \A i \in found[t] : mode[i] = "dev" /\ file[i] # "never"
    BY FileRecordsAssumption DEF DevOf, ReadAll, FileInv, FileTypeOK, Tasks, FoundKnown
<1>2. PICK gone \in PastRing(found[t]) :
          /\ found' = [found EXCEPT ![t] = gone]
          /\ at' = [at EXCEPT ![t] = IF gone = {} THEN "done" ELSE "removing"]
          /\ UNCHANGED <<mode, file, todo>>
    BY <1>1 DEF ReadAll, JobOf, Go
<1>3. /\ gone \subseteq found[t]
      /\ Cardinality(found[t]) <= RingSize => gone = {}
      /\ Cardinality(found[t]) > RingSize => Cardinality(found[t] \ gone) = RingSize
      /\ \A e \in gone, k \in found[t] \ gone : Created[e] <= Created[k]
    BY <1>2 DEF PastRing
<1>4. found'[t] = gone /\ at'[t] = IF gone = {} THEN "done" ELSE "removing"
    BY <1>1, <1>2 DEF FileInv, FileTypeOK, Tasks
<1>5. Cardinality(found[t] \ gone) <= RingSize /\ Cardinality(found[t]) \in Nat
  <2>1. Cardinality(found[t]) \in Nat
      BY <1>1, SmallerCount
  <2>2. gone = {} => found[t] \ gone = found[t]
      OBVIOUS
  <2>3. QED
      BY <1>1, <1>3, <2>1, <2>2
<1>6. Here(S)' = Here(S) /\ Here(S) \subseteq found[t] /\ Present' = Present
    BY <1>1, <1>2 DEF Covered, Here, Present, DevOf
<1>7. Cardinality(Here(S) \ gone) <= RingSize
  <2>1. Here(S) \ gone \subseteq found[t] \ gone
      BY <1>6
  <2>2. /\ Cardinality(Here(S) \ gone) <= Cardinality(found[t] \ gone)
        /\ Cardinality(Here(S) \ gone) \in Nat /\ Cardinality(found[t] \ gone) \in Nat
      BY <1>1, <2>1, SmallerCount
  <2>3. QED
      BY <1>1, <1>5, <2>2
<1>8. Covered(t, S)'
  <2>1. /\ \A i \in S : file'[i] # "never"
        /\ t \in Present' => t \in S
      BY <1>1, <1>2, <1>6 DEF Covered
  <2>2. CASE gone = {}
    <3>1. Here(S) \ gone = Here(S)
        BY <2>2
    <3>2. QED
        BY <1>4, <1>6, <1>7, <2>1, <2>2, <3>1 DEF Covered
  <2>3. CASE gone # {}
      BY <1>4, <1>6, <1>7, <2>1, <2>3 DEF Covered
  <2>4. QED
      BY <2>2, <2>3
<1>9. ASSUME NEW i \in gone
      PROVE  Cardinality(AsYoung(i)) >= RingSize
  <2>1. Cardinality(found[t] \ gone) = RingSize
      BY <1>1, <1>3, <1>5, <1>9
  <2>2. found[t] \ gone \subseteq AsYoung(i)
    <3>1. \A k \in found[t] \ gone : /\ k \in DevOf(Ids) \ {i} /\ file[k] # "never"
                                     /\ Created[i] <= Created[k]
        BY <1>1, <1>3, <1>9 DEF DevOf
    <3>2. \A k \in Ids : Created[k] \in Nat
        BY FileRecordsAssumption
    <3>3. \A k \in found[t] \ gone : Created[k] >= Created[i]
        BY <1>1, <1>3, <1>9, <3>1, <3>2
    <3>4. QED
        BY <3>1, <3>3 DEF AsYoung
  <2>3. AsYoung(i) \in SUBSET Ids
      BY DEF AsYoung, DevOf
  <2>4. /\ Cardinality(found[t] \ gone) <= Cardinality(AsYoung(i))
        /\ Cardinality(AsYoung(i)) \in Nat
      BY <2>2, <2>3, SmallerCount
  <2>5. QED
      BY <1>1, <2>1, <2>4
<1>10. QED
    BY <1>4, <1>8, <1>9

\* A dev store that unlinks a victim has one less, and the ring one less past it.
LEMMA PruneCovers ==
    ASSUME FileInv, FoundKnown, NEW t \in DevOf(Ids), Prune(t), NEW S \in SUBSET Ids,
           Covered(t, S)
    PROVE  Covered(t, S)'
<1>1. /\ t \in Ids /\ mode[t] = "dev" /\ RingSize \in Nat /\ found[t] \subseteq Ids
      /\ [FileNext]_filevars
    BY FileRecordsAssumption DEF DevOf, FileNext, FileInv, FileTypeOK, Tasks
<1>2. PICK i \in found[t] :
          /\ i \in Ids
          /\ found' = [found EXCEPT ![t] = @ \ {i}]
          /\ file' = [file EXCEPT ![i] = IF i \in Present THEN "pruned" ELSE file[i]]
    BY <1>1, PruneEffect
<1>3. /\ at[t] = "removing" /\ found'[t] = found[t] \ {i}
      /\ at'[t] = IF found'[t] = {} THEN "done" ELSE "removing"
    BY <1>1, <1>2, PruneEffect DEF FileInv, FileTypeOK, Tasks
<1>4. i \notin Present'
    BY <1>2 DEF Present, FileInv, FileTypeOK
<1>5. /\ \A k \in S : file'[k] # "never"
      /\ Here(S)' = {k \in Here(S) : k \in Present'}
    BY <1>1, HereShrinks DEF Covered
<1>6. /\ Here(S)' \ found'[t] \subseteq Here(S) \ found[t]
      /\ Here(S) \ found[t] \in SUBSET Ids
    BY <1>3, <1>4, <1>5 DEF Here
<1>7. Cardinality(Here(S)' \ found'[t]) <= RingSize
    BY <1>1, <1>3, <1>6, SmallerCount DEF Covered
<1>8. t \in Present' => t \in S
    BY <1>1, <1>3, FilesMove DEF Covered, Present, FoundKnown
<1>9. CASE found'[t] = {}
  <2>1. Here(S)' \ found'[t] = Here(S)'
      BY <1>9
  <2>2. QED
      BY <1>3, <1>5, <1>7, <1>8, <1>9, <2>1 DEF Covered
<1>10. CASE found'[t] # {}
    BY <1>3, <1>5, <1>7, <1>8, <1>10 DEF Covered
<1>11. QED
    BY <1>9, <1>10

\* A dev store reads a listed file: it has it in hand, or it is not there.
LEMMA ReadCovers ==
    ASSUME FileInv, FoundKnown, NEW t \in DevOf(Ids), Read(t), NEW S \in SUBSET Ids,
           Covered(t, S)
    PROVE  Covered(t, S)'
<1>1. t \in Ids /\ mode[t] = "dev" /\ at[t] = "reading" /\ todo[t] \subseteq Ids
    BY DEF DevOf, Read, FileInv, FileTypeOK, Tasks
<1>2. /\ UNCHANGED <<mode, file>> /\ at' = [at EXCEPT ![t] = "reading"]
      /\ \E i \in todo[t] :
            /\ todo' = [todo EXCEPT ![t] = @ \ {i}]
            /\ IF file[i] = "whole" /\ mode[i] = "dev"
               THEN found' = [found EXCEPT ![t] = @ \cup {i}] ELSE found' = found
    BY <1>1 DEF Read, Go, Expired, JobOf
<1>3. PICK i \in todo[t] :
          /\ todo'[t] = todo[t] \ {i}
          /\ IF file[i] = "whole" /\ mode[i] = "dev" THEN found'[t] = found[t] \cup {i}
             ELSE found'[t] = found[t]
    BY <1>1, <1>2 DEF FileInv, FileTypeOK, Tasks
<1>4. i \in DevOf(Present) => file[i] = "whole" /\ mode[i] = "dev"
    BY DEF DevOf, Present, FileInv, NeverTorn
<1>5. Here(S)' = Here(S) /\ Present' = Present /\ at'[t] = "reading"
    BY <1>1, <1>2 DEF Here, Present, DevOf, FileInv, FileTypeOK, Tasks
<1>6. Here(S)' \subseteq todo'[t] \cup found'[t]
    BY <1>1, <1>3, <1>4, <1>5 DEF Covered, Here
<1>7. QED
    BY <1>1, <1>2, <1>5, <1>6 DEF Covered

\* What the step of one task leaves of the others.
LEMMA OthersCovered ==
    ASSUME FileInv, FoundKnown, [FileNext]_filevars, NEW t \in Tasks,
           \A u \in Tasks \ {t} : at'[u] = at[u] /\ todo'[u] = todo[u] /\ found'[u] = found[u],
           NEW listed \in [Ids -> SUBSET Ids], Nested(listed),
           \A u \in DevOf(Ids) : Covered(u, listed[u]),
           t \in DevOf(Ids) => Covered(t, listed[t])'
    PROVE  RingCovered'
<1>1. DevOf(Ids)' = DevOf(Ids)
    BY FilesMove DEF DevOf
<1>2. Nested(listed)'
    BY NestedStill DEF Covered
<1>3. \A u \in DevOf(Ids) : Covered(u, listed[u])'
  <2>1. SUFFICES ASSUME NEW u \in DevOf(Ids), u # t PROVE Covered(u, listed[u])'
      OBVIOUS
  <2>2. u \in Ids /\ u \in Tasks /\ listed[u] \in SUBSET Ids /\ Covered(u, listed[u])
      BY DEF DevOf, Tasks
  <2>3. QED
      BY <2>1, <2>2, CoveredStill
<1>4. QED
    BY <1>1, <1>2, <1>3 DEF RingCovered

LEMMA AsYoungStays ==
    ASSUME FileInv, [FileNext]_filevars, NEW i \in Ids, Cardinality(AsYoung(i)) >= RingSize
    PROVE  Cardinality(AsYoung(i)') >= RingSize
<1>1. AsYoung(i) \subseteq AsYoung(i)' /\ AsYoung(i)' \in SUBSET Ids
    BY FilesMove DEF AsYoung, DevOf
<1>2. /\ Cardinality(AsYoung(i)) <= Cardinality(AsYoung(i)') /\ Cardinality(AsYoung(i)') \in Nat
      /\ Cardinality(AsYoung(i)) \in Nat /\ RingSize \in Nat
    BY <1>1, SmallerCount, FileRecordsAssumption
<1>3. QED
    BY <1>2

\* The step of one task keeps what is known of finds, when it does of that task's.
LEMMA KnownStill ==
    ASSUME FileInv, FoundKnown, [FileNext]_filevars,
           \A t \in Ids :
               \/ /\ at'[t] = at[t] \/ at'[t] \notin {"written", "reading", "removing", "done"}
                  /\ todo'[t] \subseteq todo[t] /\ found'[t] \subseteq found[t]
               \/ /\ file'[t] # "never"
                  /\ \A i \in todo'[t] \cup found'[t] : file[i] # "never"
                  /\ \A i \in found'[t] : mode[i] = mode[t]
                  /\ mode[t] = "dev" /\ at'[t] = "removing" =>
                        \A i \in found'[t] : Cardinality(AsYoung(i)) >= RingSize
    PROVE  FoundKnown'
<1>1. /\ \A t \in Ids : todo'[t] \subseteq Ids /\ found'[t] \subseteq Ids
      /\ \A t \in DevOf(Ids)' : t \in DevOf(Ids) /\ t \in Ids /\ mode[t] = "dev"
    BY FileStep, FilesMove DEF FileInv, FileTypeOK, Tasks, DevOf
<1>2. \A t \in Ids : at'[t] \in {"written", "reading", "removing", "done"} => file'[t] # "never"
    BY FilesMove DEF FoundKnown
<1>3. \A t \in Ids : \A i \in todo'[t] \cup found'[t] : file'[i] # "never"
    BY <1>1, FilesMove DEF FoundKnown
<1>4. \A t \in Ids : \A i \in found'[t] : mode'[i] = mode'[t]
    BY FilesMove DEF FoundKnown
<1>5. ASSUME NEW t \in DevOf(Ids)', at'[t] = "removing", NEW i \in found'[t]
      PROVE  Cardinality(AsYoung(i)') >= RingSize
    BY <1>1, <1>5, AsYoungStays DEF FoundKnown
<1>6. QED
    BY <1>2, <1>3, <1>4, <1>5 DEF FoundKnown

LEMMA FoundKnownStep ==
    ASSUME FileInv, FoundKnown, RingCovered, [FileNext]_filevars
    PROVE  FoundKnown'
<1>1. /\ at \in [Tasks -> Ended \cup {"writing", "cut_writing", "written", "reading", "removing"}]
      /\ todo \in [Tasks -> SUBSET Ids] /\ found \in [Tasks -> SUBSET Ids]
      /\ file \in [Ids -> {"never", "torn", "whole", "pruned", "removed"}]
      /\ Ids \subseteq Tasks /\ Users \subseteq Tasks /\ Ids \cap Users = {}
    BY FileRecordsAssumption DEF FileInv, FileTypeOK, Tasks
<1>2. ASSUME NEW i \in Ids, Write(i) \/ WriteFails(i) \/ CancelStore(i)
      PROVE  FoundKnown'
  <2>1. \A t \in Ids : at'[t] = at[t] \/ at'[t] \notin {"written", "reading", "removing", "done"}
      BY <1>1, <1>2 DEF Write, WriteFails, CancelStore, Go
  <2>2. UNCHANGED <<todo, found>>
      BY <1>2 DEF Write, WriteFails, CancelStore
  <2>3. QED
      BY <2>1, <2>2, KnownStill
<1>3. ASSUME NEW i \in Ids, Rename(i)
      PROVE  FoundKnown'
  <2>1. UNCHANGED <<todo, found>> /\ file'[i] # "never" /\ \A t \in Ids \ {i} : at'[t] = at[t]
      BY <1>1, <1>3 DEF Rename, Go
  <2>2. at'[i] # "removing"
      BY <1>1, <1>3 DEF Rename, Go
  <2>3. QED
      BY <2>1, <2>2, KnownStill DEF FoundKnown
<1>4. ASSUME NEW t \in Ids, List(t)
      PROVE  FoundKnown'
  <2>1. /\ todo' = [todo EXCEPT ![t] = Present] /\ UNCHANGED <<file, found>>
        /\ at' = [at EXCEPT ![t] = "reading"] /\ at[t] = "written"
      BY <1>1, <1>4 DEF List, Go
  <2>2. /\ \A u \in Ids \ {t} : at'[u] = at[u] /\ todo'[u] = todo[u]
        /\ at'[t] = "reading" /\ todo'[t] = Present /\ file[t] # "never"
      BY <1>1, <2>1 DEF FoundKnown
  <2>3. \A i \in Present : file[i] # "never"
      BY DEF Present
  <2>4. QED
      BY <2>1, <2>2, <2>3, KnownStill DEF FoundKnown
<1>5. ASSUME NEW t \in Ids, Read(t)
      PROVE  FoundKnown'
  <2>1. PICK i \in todo[t] :
            /\ todo' = [todo EXCEPT ![t] = @ \ {i}]
            /\ IF file[i] # "whole" THEN Go(t, "reading") /\ UNCHANGED found
               ELSE /\ Go(t, IF Expired(t, i) THEN "removing" ELSE "reading")
                    /\ found' = IF Expired(t, i) \/ (JobOf(t) = "dev" /\ mode[i] = "dev")
                                THEN [found EXCEPT ![t] = @ \cup {i}] ELSE found
      BY <1>5 DEF Read
  <2>2. JobOf(t) = mode[t] /\ at[t] = "reading" /\ UNCHANGED <<mode, file>>
      BY <1>5 DEF JobOf, Read
  <2>3. Expired(t, i) => mode[t] = "on_failure" /\ mode[i] = "on_failure"
      BY <2>2, FileRecordsAssumption DEF Expired, FileInv, FileTypeOK
  <2>4. /\ \A u \in Ids \ {t} : at'[u] = at[u] /\ todo'[u] = todo[u] /\ found'[u] = found[u]
        /\ todo'[t] = todo[t] \ {i}
      BY <1>1, <2>1 DEF Go
  <2>5. \/ found'[t] = found[t]
        \/ mode[i] = mode[t] /\ found'[t] = found[t] \cup {i}
      BY <1>1, <2>1, <2>2, <2>3
  <2>6. mode[t] = "dev" => at'[t] = "reading"
      BY <1>1, <2>1, <2>3 DEF Go
  <2>7. file[t] # "never" /\ \A k \in found'[t] : mode[k] = mode[t]
      BY <2>2, <2>5 DEF FoundKnown
  <2>8. QED
      BY <2>2, <2>4, <2>5, <2>6, <2>7, KnownStill DEF FoundKnown
<1>6. ASSUME NEW t \in Ids, ReadAll(t)
      PROVE  FoundKnown'
  <2>1. /\ at[t] = "reading" /\ UNCHANGED <<mode, file, todo>>
        /\ \A u \in Ids \ {t} : at'[u] = at[u] /\ found'[u] = found[u]
        /\ found'[t] \subseteq found[t]
      BY <1>1, <1>6 DEF ReadAll, Go, PastRing
  <2>2. mode[t] = "dev" => \A i \in found'[t] : Cardinality(AsYoung(i)) >= RingSize
      BY <1>6, ReadAllCovers DEF RingCovered, DevOf
  <2>3. file[t] # "never"
      BY <2>1 DEF FoundKnown
  <2>4. QED
      BY <2>1, <2>2, <2>3, KnownStill DEF FoundKnown
<1>7. ASSUME NEW t \in Ids, Prune(t)
      PROVE  FoundKnown'
  <2>1. /\ UNCHANGED <<mode, todo>> /\ at[t] = "removing"
        /\ \E i \in found[t] : found' = [found EXCEPT ![t] = @ \ {i}]
        /\ \E place \in {"reading", "done", "removing"} : at' = [at EXCEPT ![t] = place]
      BY <1>7, PruneEffect
  <2>2. /\ \A u \in Ids \ {t} : at'[u] = at[u] /\ found'[u] = found[u]
        /\ found'[t] \subseteq found[t]
      BY <1>1, <2>1
  <2>3. file'[t] # "never"
      BY <2>1, FilesMove, <1>7 DEF FoundKnown, FileNext
  <2>4. QED
      BY <2>1, <2>2, <2>3, KnownStill DEF FoundKnown
<1>8. ASSUME NEW u \in Users,
             LookUp(u) \/ Unlink(u) \/ List(u) \/ Read(u) \/ ReadAll(u)
      PROVE  FoundKnown'
  <2>1. \A t \in Ids : at'[t] = at[t] /\ todo'[t] = todo[t] /\ found'[t] = found[t]
      BY <1>1, <1>8 DEF LookUp, Unlink, Remove, List, Read, ReadAll, Go
  <2>2. QED
      BY <2>1, KnownStill
<1>9. CASE Crash
  <2>1. \A t \in Ids : at'[t] = at[t] \/ at'[t] = "lost"
      BY <1>1, <1>9 DEF Crash
  <2>2. \A t \in Ids : todo'[t] = {} /\ found'[t] = {}
      BY <1>1, <1>9 DEF Crash
  <2>3. QED
      BY <2>1, <2>2, KnownStill
<1>10. CASE UNCHANGED filevars
    BY <1>10, KnownStill DEF filevars
<1>11. QED
    BY <1>2, <1>3, <1>4, <1>5, <1>6, <1>7, <1>8, <1>9, <1>10 DEF FileNext, Tasks

LEMMA RingCoveredStep ==
    ASSUME FileInv, FoundKnown, RingCovered, [FileNext]_filevars
    PROVE  RingCovered'
<1>1. /\ at \in [Tasks -> Ended \cup {"writing", "cut_writing", "written", "reading", "removing"}]
      /\ todo \in [Tasks -> SUBSET Ids] /\ found \in [Tasks -> SUBSET Ids]
      /\ Ids \subseteq Tasks /\ Users \subseteq Tasks /\ Ids \cap Users = {}
      /\ \A t \in DevOf(Ids) : t \in Ids
    BY FileRecordsAssumption DEF FileInv, FileTypeOK, Tasks, DevOf
<1>2. PICK listed \in [Ids -> SUBSET Ids] :
          Nested(listed) /\ \A t \in DevOf(Ids) : Covered(t, listed[t])
    BY DEF RingCovered
<1>3. ASSUME NEW t \in Tasks,
             \A u \in Tasks \ {t} : at'[u] = at[u] /\ todo'[u] = todo[u] /\ found'[u] = found[u],
             t \in DevOf(Ids) => Covered(t, listed[t])'
      PROVE  RingCovered'
    BY <1>2, <1>3, OthersCovered
<1>4. ASSUME NEW i \in Ids, Write(i) \/ WriteFails(i) \/ CancelStore(i) \/ Rename(i)
      PROVE  RingCovered'
  <2>1. /\ \A u \in Tasks \ {i} : at'[u] = at[u]
        /\ at'[i] \notin {"reading", "removing"} /\ UNCHANGED <<todo, found>>
      BY <1>1, <1>4 DEF Write, WriteFails, CancelStore, Rename, Go
  <2>2. i \in DevOf(Ids) => at'[i] # "done"
      BY <1>1, <1>4 DEF Write, WriteFails, CancelStore, Rename, Go, DevOf
  <2>3. i \in DevOf(Ids) => Covered(i, listed[i])'
      BY <1>2, <2>1, <2>2, CoveredStill
  <2>4. QED
      BY <1>1, <1>3, <2>1, <2>3
<1>5. ASSUME NEW t \in Ids, Prune(t)
      PROVE  RingCovered'
  <2>1. \A u \in Tasks \ {t} : at'[u] = at[u] /\ todo'[u] = todo[u] /\ found'[u] = found[u]
      BY <1>1, <1>5, PruneEffect
  <2>2. QED
      BY <1>1, <1>2, <1>3, <1>5, <2>1, PruneCovers
<1>6. ASSUME NEW t \in Ids, List(t)
      PROVE  RingCovered'
  <2>1. CASE t \in DevOf(Ids)
      BY <1>2, <1>6, <2>1, ListCovers
  <2>2. CASE t \notin DevOf(Ids)
    <3>1. \A u \in Tasks \ {t} : at'[u] = at[u] /\ todo'[u] = todo[u] /\ found'[u] = found[u]
        BY <1>1, <1>6 DEF List, Go
    <3>2. QED
        BY <1>1, <1>3, <2>2, <3>1
  <2>3. QED
      BY <2>1, <2>2
<1>7. ASSUME NEW t \in Tasks, Read(t) \/ ReadAll(t)
      PROVE  RingCovered'
  <2>1. \A u \in Tasks \ {t} : at'[u] = at[u] /\ todo'[u] = todo[u] /\ found'[u] = found[u]
      BY <1>1, <1>7 DEF Read, ReadAll, Go
  <2>2. t \in DevOf(Ids) => Covered(t, listed[t])'
      BY <1>1, <1>2, <1>7, ReadCovers, ReadAllCovers
  <2>3. QED
      BY <1>3, <2>1, <2>2
<1>8. ASSUME NEW u \in Users, LookUp(u) \/ Unlink(u) \/ List(u)
      PROVE  RingCovered'
  <2>1. \A t \in Tasks \ {u} : at'[t] = at[t] /\ todo'[t] = todo[t] /\ found'[t] = found[t]
      BY <1>1, <1>8 DEF LookUp, Unlink, Remove, List, Go
  <2>2. QED
      BY <1>1, <1>3, <2>1
<1>9. CASE Crash \/ UNCHANGED filevars
  <2>1. \A t \in Ids : /\ at'[t] = at[t] \/ at'[t] = "lost"
                       /\ at'[t] \in {"reading", "removing"} =>
                             todo'[t] = todo[t] /\ found'[t] = found[t]
      BY <1>1, <1>9 DEF Crash, Ended, filevars
  <2>2. \A t \in DevOf(Ids) : Covered(t, listed[t])'
      BY <1>1, <1>2, <2>1, CoveredStill
  <2>3. Nested(listed)' /\ DevOf(Ids)' = DevOf(Ids)
      BY <1>2, NestedStill, FilesMove DEF Covered, DevOf
  <2>4. QED
      BY <2>2, <2>3 DEF RingCovered
<1>10. QED
    BY <1>4, <1>5, <1>6, <1>7, <1>8, <1>9 DEF FileNext, Tasks

LEMMA RingIsNewestStep ==
    ASSUME FileInv, FoundKnown, RingIsNewest, [FileNext]_filevars
    PROVE  RingIsNewest'
<1>1. SUFFICES ASSUME NEW i \in DevOf(Ids), file'[i] = "pruned"
               PROVE  Cardinality(AsYoung(i)') >= RingSize
    BY FilesMove DEF RingIsNewest, AsYoung, DevOf
<1>2. i \in Ids /\ mode[i] = "dev"
    BY DEF DevOf
<1>3. CASE file[i] = "pruned"
    BY <1>2, <1>3, AsYoungStays DEF RingIsNewest, AsYoung
<1>4. ASSUME NEW t \in Ids, Prune(t), file[i] # "pruned"
      PROVE  Cardinality(AsYoung(i)') >= RingSize
  <2>1. at[t] = "removing" /\ i \in found[t]
      BY <1>1, <1>2, <1>4, PruneEffect DEF FileInv, FileTypeOK
  <2>2. t \in DevOf(Ids)
      BY <1>2, <2>1 DEF FoundKnown, DevOf
  <2>3. QED
      BY <1>2, <2>1, <2>2, AsYoungStays DEF FoundKnown
<1>5. CASE ~\E t \in Ids : Prune(t)
  <2>1. file[i] = "pruned"
    <3>1. ASSUME NEW k \in Ids, Rename(k)
          PROVE  file[i] = "pruned"
        BY <1>1, <1>2, <3>1 DEF Rename, FileInv, FileTypeOK
    <3>2. ASSUME NEW u \in Users, Unlink(u)
          PROVE  file[i] = "pruned"
        BY <1>1, <1>2, <3>2 DEF Unlink, Remove, FileInv, FileTypeOK
    <3>3. CASE UNCHANGED file
        BY <1>1, <3>3
    <3>4. QED
        BY <1>5, <3>1, <3>2, <3>3 DEF FileNext, filevars, Crash, Write, WriteFails, CancelStore,
           LookUp, List, Read, ReadAll
  <2>2. QED
      BY <1>3, <2>1
<1>6. QED
    BY <1>3, <1>4, <1>5

\* Of finitely many sets of records some one is largest.
LEMMA Largest ==
    ASSUME NEW D, NEW t0 \in D, NEW size, \A t \in D : size[t] \in 0..Cardinality(Ids)
    PROVE  \E t \in D : \A u \in D : size[u] <= size[t]
<1> DEFINE N == Cardinality(Ids)
           T == {N - size[t] : t \in D}
           R == OpToRel(<, Nat)
<1>1. N \in Nat
    BY FileRecordsAssumption, FS_CardinalityType
<1> HIDE DEF N
<1>2. T \subseteq Nat /\ T # {}
    BY <1>1 DEF N
<1>3. IsWellFoundedOn(R, Nat)
    BY NatLessThanWellFounded
<1>4. PICK x \in T : \A y \in T : ~(<<y, x>> \in R)
  <2> HIDE DEF T, R
  <2> QED BY <1>2, <1>3, WFMin
<1>5. ASSUME NEW y \in T
      PROVE  x <= y
  <2>1. x \in Nat /\ y \in Nat
      BY <1>2, <1>4
  <2>2. ~(y < x)
      BY <1>4, <2>1 DEF OpToRel
  <2>3. QED
      BY <2>1, <2>2
<1>6. PICK t \in D : x = N - size[t]
    BY <1>4
<1>7. \A u \in D : N - size[t] <= N - size[u]
    BY <1>5, <1>6
<1>8. QED
    BY <1>1, <1>7 DEF N

\* All dev records that are there and whose stores pruned were in one listing.
LEMMA RingRests ==
    ASSUME FileInv, RingCovered
    PROVE  RingHoldsAtRest
<1> DEFINE D == {i \in DevOf(Present) : at[i] = "done"}
           Yet == {i \in DevOf(Ids) : file[i] # "never" /\ at[i] \notin {"done", "failed"}}
<1>1. PICK listed \in [Ids -> SUBSET Ids] :
          Nested(listed) /\ \A t \in DevOf(Ids) : Covered(t, listed[t])
    BY DEF RingCovered
<1>2. /\ D \subseteq DevOf(Ids) /\ D \subseteq Ids /\ Yet \subseteq Ids
      /\ DevOf(Present) \subseteq D \cup Yet
    BY DEF DevOf, Present, FileInv, FailedStoresKeepNothing
<1>3. RingSize \in Nat
    BY FileRecordsAssumption
<1>4. Cardinality(D) <= RingSize
  <2>1. CASE D = {}
      BY <1>3, <2>1, FS_EmptySet
  <2>2. CASE D # {}
    <3> DEFINE size == [t \in D |-> Cardinality(Here(listed[t]))]
    <3>1. \A t \in D : Here(listed[t]) \in SUBSET Ids /\ size[t] \in 0..Cardinality(Ids)
      <4>1. \A t \in D : Here(listed[t]) \in SUBSET Ids
          BY <1>2 DEF Here
      <4>2. \A S \in SUBSET Ids : Cardinality(S) \in 0..Cardinality(Ids)
          BY SmallerCount
      <4>3. QED
          BY <4>1, <4>2
    <3>2. PICK t \in D : \A u \in D : size[u] <= size[t]
      <4> HIDE DEF size, D
      <4> QED BY <2>2, <3>1, Largest
    <3>3. \A u \in D : u \in Here(listed[u])
        BY <1>1, <1>2 DEF Covered, Here, DevOf
    <3>4. \A u \in D : Here(listed[u]) \subseteq Here(listed[t])
      <4>1. SUFFICES ASSUME NEW u \in D, Here(listed[t]) \subseteq Here(listed[u])
                     PROVE  Here(listed[u]) \subseteq Here(listed[t])
          BY <1>1, <1>2 DEF Nested
      <4>2. /\ IsFiniteSet(Here(listed[u]))
            /\ Cardinality(Here(listed[u])) <= Cardinality(Here(listed[t]))
            /\ Cardinality(Here(listed[t])) <= Cardinality(Here(listed[u]))
            /\ Cardinality(Here(listed[t])) \in Nat /\ Cardinality(Here(listed[u])) \in Nat
          BY <3>1, <3>2, <4>1, SmallerCount, FileRecordsAssumption, FS_Subset
      <4>3. Cardinality(Here(listed[u])) = Cardinality(Here(listed[t]))
          BY <4>2
      <4>4. QED
          BY <4>1, <4>2, <4>3, FS_Subset
    <3>5. D \subseteq Here(listed[t])
        BY <3>3, <3>4
    <3>6. Cardinality(Here(listed[t])) <= RingSize
        BY <1>1, <1>2, <3>2 DEF Covered
    <3>7. /\ Cardinality(D) \in Nat /\ Cardinality(Here(listed[t])) \in Nat
          /\ Cardinality(D) <= Cardinality(Here(listed[t]))
      <4> HIDE DEF D, size
      <4> QED BY <3>1, <3>2, <3>5, SmallerCount
    <3>8. QED
        BY <1>3, <3>6, <3>7
  <2>3. QED
      BY <2>1, <2>2
<1> HIDE DEF D, Yet
<1>5. /\ Cardinality(DevOf(Present)) <= Cardinality(D \cup Yet)
      /\ Cardinality(D \cup Yet) <= Cardinality(D) + Cardinality(Yet)
      /\ Cardinality(DevOf(Present)) \in Nat /\ Cardinality(D \cup Yet) \in Nat
      /\ Cardinality(D) \in Nat /\ Cardinality(Yet) \in Nat
  <2>1. IsFiniteSet(D) /\ IsFiniteSet(Yet) /\ D \cup Yet \in SUBSET Ids
      BY <1>2, FileRecordsAssumption, FS_Subset
  <2>2. Cardinality(D \cup Yet) = Cardinality(D) + Cardinality(Yet) - Cardinality(D \cap Yet)
      BY <2>1, FS_Union
  <2>3. /\ Cardinality(D \cap Yet) \in Nat /\ Cardinality(D) \in Nat /\ Cardinality(Yet) \in Nat
        /\ Cardinality(DevOf(Present)) \in Nat /\ Cardinality(D \cup Yet) \in Nat
        /\ Cardinality(DevOf(Present)) <= Cardinality(D \cup Yet)
      BY <1>2, <2>1, SmallerCount, FS_Subset, FS_CardinalityType
  <2>4. QED
      BY <2>2, <2>3
<1>6. Cardinality(DevOf(Present)) <= RingSize + Cardinality(Yet)
    BY <1>3, <1>4, <1>5
<1>7. QED
    BY <1>6 DEF RingHoldsAtRest, Yet

LEMMA RingStart == FileInit => FoundKnown /\ RingCovered /\ RingIsNewest
<1> SUFFICES ASSUME FileInit
             PROVE  FoundKnown /\ RingCovered /\ RingIsNewest
    OBVIOUS
<1>1. \A t \in Ids : at[t] = "new" /\ todo[t] = {} /\ found[t] = {} /\ file[t] = "never"
    BY DEF FileInit, Tasks
<1>2. FoundKnown /\ RingIsNewest
    BY <1>1 DEF FoundKnown, RingIsNewest, DevOf
<1>3. PICK listed \in [Ids -> SUBSET Ids] : listed = [i \in Ids |-> {}]
    OBVIOUS
<1>4. Nested(listed) /\ \A t \in DevOf(Ids) : Covered(t, listed[t])
    BY <1>1, <1>3 DEF Nested, Covered, Here, DevOf
<1>5. QED
    BY <1>2, <1>4 DEF RingCovered

\* Stores that prune at the same time, from listings out of date, evict none of the
\* newest dev records, and once each store has pruned there are no more than the ring
\* holds: for any number of stores, ages and sizes of the ring, with users that remove
\* and with stores that are cancelled or die (_prune_dev_ring_buffer).
THEOREM RingIsSound == FileSpec => []RingSound
<1> DEFINE RingInv == FileInv /\ FoundKnown /\ RingCovered /\ RingIsNewest
<1>1. FileInit => RingInv
    BY FileStart, RingStart
<1>2. RingInv /\ [FileNext]_filevars => RingInv'
    BY FileStep, FoundKnownStep, RingCoveredStep, RingIsNewestStep
<1>3. RingInv => RingSound
    BY RingRests DEF RingSound
<1>4. QED
    BY <1>1, <1>2, <1>3, PTL DEF FileSpec

=============================================================================
