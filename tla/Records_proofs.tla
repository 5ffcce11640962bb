---------------------------- MODULE Records_proofs ----------------------------
(***************************************************************************)
(* Proofs about Records, for any number of runs and nodes, any policies,   *)
(* ring size, retention and sweeps, with crashes.                          *)
(***************************************************************************)
EXTENDS Records, TLAPS, FiniteSetTheorems

-----------------------------------------------------------------------------
(* What the operators of the actions do *)

Full == [status |-> "success", output |-> "full"]

\* Of an output past its cap, the policy makes a result; a chopped one is of a node
\* whose record the modes then force.
LEMMA OverflowForms ==
    ASSUME RecTypeOK, NEW n \in Nodes, NEW result \in Result
    PROVE  /\ Overflow(n, result) \in Result
           /\ Overflow(n, result).output = "chopped" =>
                 \/ Overflow(n, result) = result
                 \/ /\ Overflow(n, result).status = "partial"
                    /\ App(n) # "off" /\ Backend(n) = TRUE
<1> DEFINE cap == policy[n]
           o == Overflow(n, result)
<1>1. policy[n] \in Policy /\ policy[RootOf[n]] \in Policy
    BY RecordsAssumption DEF RecTypeOK
<1>2. CASE cap.overflow = "reject"
  <2>1. o = [status |-> "failure", output |-> "none"]
      BY <1>2 DEF Overflow
  <2>2. QED
      BY <2>1 DEF Result
<1>3. CASE cap.overflow = "flag"
  <2>1. o = result
      BY <1>3 DEF Overflow
  <2>2. QED
      BY <2>1
<1>4. CASE cap.overflow \in {"partial", "truncate"}
  <2>1. \/ o = [status |-> "partial", output |-> "full"]
        \/ /\ o = [status |-> "partial", output |-> "chopped"]
           /\ App(n) # "off" /\ Backend(n) = TRUE
      BY <1>1, <1>4 DEF Overflow, Backend, Policy
  <2>2. QED
      BY <2>1 DEF Result
<1>5. QED
    BY <1>1, <1>2, <1>3, <1>4 DEF Policy

LEMMA ModeForms ==
    ASSUME RecTypeOK, NEW n \in Nodes, NEW referenced \in BOOLEAN
    PROVE  /\ Mode(n, referenced) \in Modes
           /\ App(n) # "off" /\ referenced => should_persist(Mode(n, referenced), "partial")
<1>1. policy[n] \in Policy /\ policy[RootOf[n]] \in Policy
    BY RecordsAssumption DEF RecTypeOK
<1>2. App(n) \in Modes \cup {NoMode} /\ policy[n].own \in Modes \cup {NoMode}
    BY <1>1 DEF App, Policy
<1>3. Mode(n, referenced) \in Modes
    BY <1>2 DEF Mode, Modes
<1>4. App(n) # "off" /\ referenced => Mode(n, referenced) # "off"
    BY <1>2 DEF Mode
<1>5. QED
    BY <1>3, <1>4 DEF Modes, should_persist

\* What is drafted, and what is kept, is what the caller is handed, or the full
\* output that a chopped one refers to.
Tells(r, handed) ==
    IF handed.output = "chopped" THEN r.result.output = "full" ELSE r.result = handed

\* A node is done with what it hands back, or drafts its record; a chopped output is
\* never handed back without.
LEMMA ConcludeEffect ==
    ASSUME RecTypeOK, NEW n \in Nodes, NEW result \in Result, result.output # "chopped",
           NEW large \in BOOLEAN, Conclude(n, result, large)
    PROVE  \E handed \in Result :
               /\ envelope' = [envelope EXCEPT ![n] = handed]
               /\ \/ /\ handed.output # "chopped" /\ draft' = draft
                     /\ phase' = [phase EXCEPT ![n] = "done"]
                  \/ \E r \in Record :
                        /\ r.node = n /\ Tells(r, handed) /\ draft' = draft \cup {r}
                        /\ phase' = [phase EXCEPT ![n] = "recording"]
<1> DEFINE handed == IF large /\ result.output = "full" THEN Overflow(n, result) ELSE result
           referenced == handed.output = "chopped"
           mode == Mode(n, referenced)
           r == [node |-> n, mode |-> mode, created |-> clock,
                 result |-> IF referenced THEN result ELSE handed]
<1>1. /\ envelope' = [envelope EXCEPT ![n] = handed]
      /\ IF Backend(n) /\ should_persist(mode, handed.status)
         THEN draft' = draft \cup {r} /\ phase' = [phase EXCEPT ![n] = "recording"]
         ELSE phase' = [phase EXCEPT ![n] = "done"] /\ UNCHANGED draft
    BY DEF Conclude
<1>2. handed \in Result
    BY OverflowForms
<1>3. referenced => /\ result.output = "full" /\ handed.status = "partial"
                    /\ App(n) # "off" /\ Backend(n) = TRUE
    BY OverflowForms
<1>4. referenced \in BOOLEAN
    OBVIOUS
<1> HIDE DEF handed, referenced
<1>5. mode \in Modes /\ (referenced => Backend(n) /\ should_persist(mode, handed.status))
    BY <1>3, <1>4, ModeForms
<1>6. r \in Record /\ r.node = n
    BY <1>2, <1>5 DEF Record, RecTypeOK
<1>7. Tells(r, handed)
    BY <1>3 DEF Tells, referenced
<1> HIDE DEF mode, r
<1>8. CASE Backend(n) /\ should_persist(mode, handed.status)
    BY <1>1, <1>2, <1>6, <1>7, <1>8
<1>9. CASE ~(Backend(n) /\ should_persist(mode, handed.status))
    BY <1>1, <1>2, <1>5, <1>9 DEF referenced
<1>10. QED
    BY <1>8, <1>9

\* What a store does to the tables: one record more, and what its mode prunes less,
\* with the logs of what it prunes.
Pruned(s, r, kept) ==
    \/ /\ s.mode = "dev" /\ r.mode = "dev"
       /\ \A k \in Dev(kept) : s.created <= k.created
    \/ s.mode = "on_failure" /\ clock - s.created > Retention

LEMMA StoreEffect ==
    ASSUME RecTypeOK, IsFiniteSet(records), NEW n \in Nodes, StoreRecord(n)
    PROVE  \E r \in draft, kept \in SUBSET (records \cup draft) :
               /\ r.node = n /\ kept \subseteq records \cup {r}
               /\ draft' = draft \ {r} /\ records' = kept
               /\ DeleteRunData(NodesOf((records \cup {r}) \ kept))
               /\ \A s \in (records \cup {r}) \ kept : Pruned(s, r, kept)
               /\ IF r.mode = "dev" THEN Cardinality(Dev(kept)) <= RingSize
                  ELSE Dev(kept) \subseteq Dev(records)
<1>1. PICK r \in draft :
          /\ r.node = n
          /\ draft' = draft \ {r}
          /\ LET with == records \cup {r}
                 expired == {s \in with : s.mode = "on_failure" /\ s.created < clock - Retention}
             IN  \E kept \in CASE r.mode = "dev" ->
                                  {(with \ Dev(with)) \cup T : T \in NewestOf(Dev(with), RingSize)}
                               [] r.mode = "on_failure" -> {with \ expired}
                               [] OTHER -> {with} :
                    /\ records' = kept
                    /\ DeleteRunData(NodesOf(with \ kept))
    BY DEF StoreRecord
<1> DEFINE with == records \cup {r}
           expired == {s \in with : s.mode = "on_failure" /\ s.created < clock - Retention}
<1>2. r \in Record /\ records \subseteq Record /\ clock \in Nat /\ RingSize \in Nat
      /\ Retention \in Nat /\ \A s \in with : s.created \in Nat
    BY RecordsAssumption DEF RecTypeOK, Record, Clock
<1>3. ASSUME r.mode = "dev",
             NEW T \in NewestOf(Dev(with), RingSize), records' = (with \ Dev(with)) \cup T,
             DeleteRunData(NodesOf(with \ ((with \ Dev(with)) \cup T)))
      PROVE  /\ records' \subseteq with
             /\ DeleteRunData(NodesOf(with \ records'))
             /\ \A s \in with \ records' : Pruned(s, r, records')
             /\ Cardinality(Dev(records')) <= RingSize
  <2>1. IsFiniteSet(with) /\ IsFiniteSet(Dev(with))
      BY FS_AddElement, FS_Subset DEF Dev
  <2>2. Cardinality(Dev(with)) \in Nat
      BY <2>1, FS_CardinalityType
  <2>3. /\ T \subseteq Dev(with)
        /\ Cardinality(T) = IF Cardinality(Dev(with)) < RingSize THEN Cardinality(Dev(with))
                            ELSE RingSize
        /\ \A k \in T, s \in Dev(with) \ T : k.created >= s.created
      BY <1>3 DEF NewestOf, kSubset
  <2>4. Dev((with \ Dev(with)) \cup T) = T
      BY <2>3 DEF Dev
  <2>5. with \ ((with \ Dev(with)) \cup T) = Dev(with) \ T
      BY <2>3 DEF Dev
  <2>6. \A s \in Dev(with) \ T : s.mode = "dev"
      BY DEF Dev
  <2> HIDE DEF with
  <2>7. \A s \in with \ records' : Pruned(s, r, records')
    <3> SUFFICES ASSUME NEW s \in Dev(with) \ T
                 PROVE  Pruned(s, r, (with \ Dev(with)) \cup T)
        BY <1>3, <2>5
    <3>1. \A k \in T : s.created <= k.created
      <4>1. s \in with /\ T \subseteq with
          BY <2>3 DEF Dev
      <4>2. \A k \in T : k.created >= s.created /\ k.created \in Nat /\ s.created \in Nat
          BY <1>2, <2>3, <4>1
      <4>3. QED
          BY <4>2
    <3>2. QED
        BY <1>3, <2>4, <2>6, <3>1 DEF Pruned
  <2>8. Cardinality(Dev(records')) <= RingSize
      BY <1>2, <1>3, <2>2, <2>3, <2>4
  <2>9. QED
      BY <1>3, <2>3, <2>7, <2>8 DEF Dev
<1>4. ASSUME r.mode = "on_failure", records' = with \ expired,
             DeleteRunData(NodesOf(with \ (with \ expired)))
      PROVE  /\ records' \subseteq with
             /\ DeleteRunData(NodesOf(with \ records'))
             /\ \A s \in with \ records' : Pruned(s, r, records')
             /\ Dev(records') \subseteq Dev(records)
  <2>1. \A s \in expired : s.mode = "on_failure" /\ clock - s.created > Retention
      BY <1>2
  <2>2. QED
      BY <1>4, <2>1 DEF Pruned, Dev
<1>5. ASSUME r.mode # "dev", records' = with, DeleteRunData(NodesOf(with \ with))
      PROVE  /\ records' \subseteq with
             /\ DeleteRunData(NodesOf(with \ records'))
             /\ \A s \in with \ records' : Pruned(s, r, records')
             /\ Dev(records') \subseteq Dev(records)
    BY <1>5 DEF Dev
<1>6. \/ /\ r.mode = "dev"
         /\ \E T \in NewestOf(Dev(with), RingSize) :
               /\ records' = (with \ Dev(with)) \cup T
               /\ DeleteRunData(NodesOf(with \ ((with \ Dev(with)) \cup T)))
      \/ /\ r.mode = "on_failure" /\ records' = with \ expired
         /\ DeleteRunData(NodesOf(with \ (with \ expired)))
      \/ /\ r.mode # "dev" /\ records' = with /\ DeleteRunData(NodesOf(with \ with))
  <2> HIDE DEF with, expired
  <2>1. CASE r.mode = "dev"
      BY <1>1, <2>1 DEF with, expired
  <2>2. CASE r.mode = "on_failure"
      BY <1>1, <2>2 DEF with, expired
  <2>3. CASE r.mode \notin {"dev", "on_failure"}
      BY <1>1, <2>3 DEF with, expired
  <2>4. QED
      BY <2>1, <2>2, <2>3
<1> HIDE DEF expired
<1>7. /\ records' \subseteq with
      /\ DeleteRunData(NodesOf(with \ records'))
      /\ \A s \in with \ records' : Pruned(s, r, records')
      /\ IF r.mode = "dev" THEN Cardinality(Dev(records')) <= RingSize
         ELSE Dev(records') \subseteq Dev(records)
    BY <1>3, <1>4, <1>5, <1>6
<1>8. QED
    BY <1>1, <1>7

LEMMA Results == Nothing \in Result /\ Full \in Result
                 /\ Nothing.output # "chopped" /\ Full.output # "chopped"
BY DEF Nothing, Full, Result

\* The end of a node's work: a root turns to the logs, a child concludes.
LEMMA FinishEffect ==
    ASSUME NEW n \in Nodes, Finish(n)
    PROVE  \E result \in {Nothing, Full}, large \in BOOLEAN :
               \/ /\ Root(n) /\ draft' = draft
                  /\ envelope' = [envelope EXCEPT ![n] = result]
                  /\ phase' = [phase EXCEPT ![n] = "logging"]
               \/ ~Root(n) /\ Conclude(n, result, large)
BY DEF Finish, Full

-----------------------------------------------------------------------------
(* The inductive invariant *)

\* What was stored is done; the nodes of a run start and work while its root does,
\* and a root turns to the logs with an output no policy has touched.
RunsInOrder ==
    /\ \A n \in stored : phase[n] = "done"
    /\ \A n \in Nodes : phase[n] # "new" => phase[RootOf[n]] # "new"
    /\ \A n \in Nodes : phase[n] = "running" => phase[RootOf[n]] = "running"
    /\ \A n \in Nodes : phase[n] \in {"logging", "registering"} =>
          envelope[n].output # "chopped"
    /\ \A r \in made : phase[r.root] # "new"

\* A node drafts one record.
OneDraft == \A r, s \in draft : r.node = s.node => r = s

\* Drafts and records tell what is handed back; a chopped output was stored.
DraftsMatch ==
    /\ \A r \in draft \cup records : Tells(r, envelope[r.node])
    /\ \A n \in Nodes : phase[n] = "done" /\ envelope[n].output = "chopped" => n \in stored

-----------------------------------------------------------------------------
(* Types *)

\* The types of the state, but for what a step does to the tables.
LEMMA ConcludeType ==
    ASSUME RecTypeOK, NEW n \in Nodes, phase[n] # "recording",
           NEW result \in Result, result.output # "chopped",
           NEW large \in BOOLEAN, Conclude(n, result, large)
    PROVE  /\ phase' \in [Nodes -> {"new", "running", "logging", "registering", "recording",
                                    "done", "lost"}]
           /\ envelope' \in [Nodes -> Result]
           /\ draft' \subseteq Record
           /\ {m \in Nodes : phase'[m] = "recording"} = NodesOf(draft')
<1>1. PICK handed \in Result :
          /\ envelope' = [envelope EXCEPT ![n] = handed]
          /\ \/ /\ handed.output # "chopped" /\ draft' = draft
                /\ phase' = [phase EXCEPT ![n] = "done"]
             \/ \E r \in Record :
                   /\ r.node = n /\ Tells(r, handed) /\ draft' = draft \cup {r}
                   /\ phase' = [phase EXCEPT ![n] = "recording"]
    BY ConcludeEffect
<1>2. CASE draft' = draft /\ phase' = [phase EXCEPT ![n] = "done"]
    BY <1>1, <1>2 DEF RecTypeOK, NodesOf
<1>3. ASSUME NEW r \in Record, r.node = n, draft' = draft \cup {r},
             phase' = [phase EXCEPT ![n] = "recording"]
      PROVE  /\ phase' \in [Nodes -> {"new", "running", "logging", "registering",
                                      "recording", "done", "lost"}]
             /\ envelope' \in [Nodes -> Result]
             /\ draft' \subseteq Record
             /\ {m \in Nodes : phase'[m] = "recording"} = NodesOf(draft')
  <2>1. \A m \in Nodes : phase'[m] = "recording" <=> m = n \/ phase[m] = "recording"
      BY <1>3 DEF RecTypeOK
  <2>2. NodesOf(draft') = NodesOf(draft) \cup {n}
      BY <1>3 DEF NodesOf
  <2>3. /\ phase' \in [Nodes -> {"new", "running", "logging", "registering", "recording",
                                 "done", "lost"}]
        /\ envelope' \in [Nodes -> Result]
        /\ draft' \subseteq Record
      BY <1>1, <1>3 DEF RecTypeOK
  <2>4. {m \in Nodes : phase'[m] = "recording"}
        = {m \in Nodes : phase[m] = "recording"} \cup {n}
      BY <2>1
  <2>5. QED
      BY <2>2, <2>3, <2>4 DEF RecTypeOK
<1>4. QED
    BY <1>1, <1>2, <1>3

\* A step that leaves records alone, or takes some away, keeps their types.
LEMMA FewerRecords ==
    ASSUME RecTypeOK, NEW R \in SUBSET records
    PROVE  /\ R \subseteq Record /\ NodesOf(R) \subseteq stored
           /\ \A r, s \in R : r.node = s.node => r = s
BY DEF RecTypeOK, NodesOf

LEMMA RecTypeStep ==
    ASSUME RecTypeOK, RunsInOrder, OneDraft, IsFiniteSet(records), [RecNext]_recvars
    PROVE  RecTypeOK'
<1> DEFINE Phases == {"new", "running", "logging", "registering", "recording", "done", "lost"}
<1>1. CASE UNCHANGED recvars
  <2>1. UNCHANGED <<policy, clock, phase, envelope, draft, made, registered, log_persistence>>
        /\ UNCHANGED <<records, calls, dispatches, stored, sweeps, crashed>>
      BY <1>1 DEF recvars, memory, tables
  <2>2. QED
      BY <2>1 DEF RecTypeOK, NodesOf
<1>2. CASE Tick
  <2>1. clock' \in Clock
      BY <1>2, RecordsAssumption DEF Tick, RecTypeOK, Clock
  <2>2. UNCHANGED <<policy, phase, envelope, draft, made, registered, log_persistence>>
        /\ UNCHANGED <<records, calls, dispatches, stored, sweeps, crashed>>
      BY <1>2 DEF Tick, memory, tables
  <2>3. QED
      BY <2>1, <2>2 DEF RecTypeOK, NodesOf
<1>3. ASSUME NEW n \in Nodes, Begin(n)
      PROVE  RecTypeOK'
    BY <1>3 DEF Begin, memory, tables, RecTypeOK
<1>4. ASSUME NEW n \in Nodes, SettleCall(n)
      PROVE  RecTypeOK'
  <2>1. [root |-> RootOf[n], node |-> n, ended |-> clock] \in LogRow
      BY RecordsAssumption DEF LogRow, RecTypeOK
  <2>2. QED
      BY <1>4, <2>1 DEF SettleCall, tables, RecTypeOK
<1>5. ASSUME NEW n \in Nodes, Finish(n)
      PROVE  RecTypeOK'
  <2>1. /\ phase' \in [Nodes -> Phases] /\ envelope' \in [Nodes -> Result]
        /\ draft' \subseteq Record /\ {m \in Nodes : phase'[m] = "recording"} = NodesOf(draft')
    <3>1. PICK result \in {Nothing, Full}, large \in BOOLEAN :
              \/ /\ Root(n) /\ draft' = draft
                 /\ envelope' = [envelope EXCEPT ![n] = result]
                 /\ phase' = [phase EXCEPT ![n] = "logging"]
              \/ ~Root(n) /\ Conclude(n, result, large)
        BY <1>5, FinishEffect
    <3>2. phase[n] = "running"
        BY <1>5 DEF Finish
    <3>3. CASE Conclude(n, result, large)
        BY <3>2, <3>3, Results, ConcludeType
    <3>4. CASE /\ draft' = draft
               /\ envelope' = [envelope EXCEPT ![n] = result]
               /\ phase' = [phase EXCEPT ![n] = "logging"]
        BY <3>2, <3>4, Results DEF RecTypeOK, NodesOf
    <3>5. QED
        BY <3>1, <3>3, <3>4
  <2>2. [root |-> RootOf[n], node |-> n, ended |-> clock] \in LogRow
      BY RecordsAssumption DEF LogRow, RecTypeOK
  <2> HIDE DEF Phases
  <2>3. QED
      BY <1>5, <2>1, <2>2 DEF Finish, tables, RecTypeOK, Phases
<1>6. ASSUME NEW n \in Nodes, StoreCalls(n)
      PROVE  RecTypeOK'
    BY <1>6 DEF StoreCalls, RecTypeOK, NodesOf
<1>7. ASSUME NEW n \in Nodes, StoreDispatches(n)
      PROVE  RecTypeOK'
  <2>1. PICK large \in BOOLEAN : Conclude(n, envelope[n], large)
      BY <1>7 DEF StoreDispatches
  <2>2. phase[n] = "registering" /\ envelope[n] \in Result /\ envelope[n].output # "chopped"
      BY <1>7 DEF StoreDispatches, RecTypeOK, RunsInOrder
  <2>3. /\ phase' \in [Nodes -> Phases] /\ envelope' \in [Nodes -> Result]
        /\ draft' \subseteq Record /\ {m \in Nodes : phase'[m] = "recording"} = NodesOf(draft')
      BY <1>7, <2>1, <2>2, ConcludeType
  <2> HIDE DEF Phases
  <2>4. QED
      BY <1>7, <2>3 DEF StoreDispatches, RecTypeOK, Phases
<1>8. ASSUME NEW n \in Nodes, StoreRecord(n)
      PROVE  RecTypeOK'
  <2>1. PICK r \in draft, kept \in SUBSET (records \cup draft) :
            /\ r.node = n /\ kept \subseteq records \cup {r}
            /\ draft' = draft \ {r} /\ records' = kept
            /\ DeleteRunData(NodesOf((records \cup {r}) \ kept))
      BY <1>8, StoreEffect
  <2>2. /\ phase[n] = "recording" /\ stored' = stored \cup {n}
        /\ phase' = [phase EXCEPT ![n] = "done"]
        /\ UNCHANGED <<policy, clock, envelope, made, registered, log_persistence, sweeps,
                       crashed>>
      BY <1>8 DEF StoreRecord
  <2>3. {m \in Nodes : phase'[m] = "recording"} = NodesOf(draft')
    <3>1. NodesOf(draft \ {r}) = NodesOf(draft) \ {n}
        BY <2>1 DEF NodesOf, OneDraft
    <3>2. \A m \in Nodes : phase'[m] = "recording" <=> phase[m] = "recording" /\ m # n
        BY <2>2 DEF RecTypeOK
    <3>3. QED
        BY <2>1, <3>1, <3>2 DEF RecTypeOK
  <2>4. /\ records' \subseteq Record /\ NodesOf(records') \subseteq stored'
        /\ \A s, t \in records' : s.node = t.node => s = t
    <3>1. n \notin stored /\ NodesOf(records) \subseteq stored
        BY <2>2 DEF RunsInOrder, RecTypeOK
    <3>2. QED
        BY <2>1, <2>2, <3>1 DEF RecTypeOK, NodesOf
  <2>5. calls' \subseteq made /\ dispatches' \subseteq registered
      BY <2>1 DEF DeleteRunData, RecTypeOK
  <2>6. phase' \in [Nodes -> Phases] /\ draft' \subseteq Record /\ stored' \subseteq Nodes
      BY <2>1, <2>2 DEF RecTypeOK
  <2> HIDE DEF Phases
  <2>7. QED
      BY <2>2, <2>3, <2>4, <2>5, <2>6 DEF RecTypeOK, Phases
<1>9. ASSUME NEW n \in Nodes, StoreFails(n)
      PROVE  RecTypeOK'
  <2>1. PICK r \in draft :
            /\ r.node = n
            /\ draft' = draft \ {r}
            /\ envelope' = [envelope EXCEPT ![n] =
                  IF @.output = "chopped" THEN [status |-> "partial", output |-> "full"] ELSE @]
      BY <1>9 DEF StoreFails
  <2>2. /\ phase[n] = "recording" /\ phase' = [phase EXCEPT ![n] = "done"]
        /\ UNCHANGED <<policy, clock, made, registered, log_persistence, tables, sweeps, crashed>>
      BY <1>9 DEF StoreFails
  <2>3. {m \in Nodes : phase'[m] = "recording"} = NodesOf(draft')
    <3>1. NodesOf(draft \ {r}) = NodesOf(draft) \ {n}
        BY <2>1 DEF NodesOf, OneDraft
    <3>2. \A m \in Nodes : phase'[m] = "recording" <=> phase[m] = "recording" /\ m # n
        BY <2>2 DEF RecTypeOK
    <3>3. QED
        BY <2>1, <3>1, <3>2 DEF RecTypeOK
  <2>4. envelope' \in [Nodes -> Result]
      BY <2>1 DEF RecTypeOK, Result
  <2>5. QED
      BY <2>1, <2>2, <2>3, <2>4 DEF RecTypeOK, tables
<1>10. ASSUME NEW n \in Nodes, Delete(n)
       PROVE  RecTypeOK'
  <2>1. records' \subseteq records
      BY <1>10 DEF Delete
  <2>2. QED
      BY <1>10, <2>1, FewerRecords DEF Delete, DeleteRunData, memory, RecTypeOK
<1>11. ASSUME NEW cutoff \in Clock, SweepReads(cutoff)
       PROVE  RecTypeOK'
  <2>1. {r.node : r \in {s \in records : s.created < cutoff}} \in SUBSET Nodes
      BY DEF RecTypeOK, Record
  <2>2. QED
      BY <1>11, <2>1 DEF SweepReads, memory, tables, RecTypeOK
<1>12. ASSUME NEW s \in sweeps, SweepDeletes(s)
       PROVE  RecTypeOK'
  <2>1. records' \subseteq records /\ calls' \subseteq calls /\ dispatches' \subseteq dispatches
      BY <1>12 DEF SweepDeletes, SweepKeeps
  <2>2. QED
      BY <1>12, <2>1, FewerRecords DEF SweepDeletes, memory, RecTypeOK
<1>13. CASE Crash
  <2>1. {m \in Nodes : phase'[m] = "recording"} = NodesOf(draft')
    <3>1. \A m \in Nodes : phase'[m] # "recording"
        BY <1>13 DEF Crash, Live
    <3>2. NodesOf(draft') = {}
        BY <1>13 DEF Crash, NodesOf
    <3>3. QED
        BY <3>1, <3>2
  <2>2. phase' \in [Nodes -> Phases]
      BY <1>13 DEF Crash, RecTypeOK
  <2>3. /\ draft' = {} /\ sweeps' = {} /\ crashed' \in BOOLEAN
        /\ UNCHANGED <<policy, clock, envelope, made, registered, log_persistence>>
        /\ UNCHANGED <<records, calls, dispatches, stored>>
      BY <1>13 DEF Crash, tables
  <2> HIDE DEF Phases
  <2>4. QED
      BY <2>1, <2>2, <2>3 DEF RecTypeOK, Phases
<1>14. QED
    BY <1>1, <1>2, <1>3, <1>4, <1>5, <1>6, <1>7, <1>8, <1>9, <1>10, <1>11, <1>12, <1>13
    DEF RecNext

-----------------------------------------------------------------------------
(* Runs in order *)

\* A node that had begun and was not done moves on, after its family if it was running.
LEMMA MovesOn ==
    ASSUME RecTypeOK, RunsInOrder, NEW n \in Nodes,
           NEW to \in {"logging", "registering", "recording", "done"},
           phase' = [phase EXCEPT ![n] = to], phase[n] \notin {"new", "done"},
           phase[n] = "running" => \A m \in Family(n) : ~Live(m),
           stored' = stored \/ (stored' = stored \cup {n} /\ to = "done"),
           \A m \in Nodes \ {n} : envelope'[m] = envelope[m],
           to \in {"logging", "registering"} => envelope'[n].output # "chopped",
           made' = made
    PROVE  RunsInOrder'
<1>1. /\ phase \in [Nodes -> {"new", "running", "logging", "registering", "recording", "done",
                              "lost"}]
      /\ stored \subseteq Nodes /\ made \subseteq LogRow /\ RootOf \in [Nodes -> Nodes]
    BY RecordsAssumption DEF RecTypeOK
<1>2. \A m \in Nodes : phase'[m] = IF m = n THEN to ELSE phase[m]
    BY <1>1
<1>3. \A m \in stored' : phase'[m] = "done"
    BY <1>1, <1>2 DEF RunsInOrder
<1>4. \A m \in Nodes : phase'[m] # "new" => phase'[RootOf[m]] # "new"
    BY <1>1, <1>2 DEF RunsInOrder
<1>5. \A m \in Nodes : phase'[m] = "running" => phase'[RootOf[m]] = "running"
  <2>1. ASSUME NEW m \in Nodes, phase'[m] = "running"
        PROVE  phase'[RootOf[m]] = "running"
    <3>1. m # n /\ phase[m] = "running" /\ phase[RootOf[m]] = "running"
        BY <1>2, <2>1 DEF RunsInOrder
    <3>2. Live(m)
        BY <3>1 DEF Live
    <3>3. RootOf[m] # n
        BY <3>1, <3>2 DEF Family
    <3>4. QED
        BY <1>1, <1>2, <3>1, <3>3
  <2>2. QED
      BY <2>1
<1>6. \A m \in Nodes : phase'[m] \in {"logging", "registering"} =>
          envelope'[m].output # "chopped"
    BY <1>2 DEF RunsInOrder
<1>7. \A r \in made' : phase'[r.root] # "new"
    BY <1>1, <1>2 DEF RunsInOrder, LogRow
<1>8. QED
    BY <1>3, <1>4, <1>5, <1>6, <1>7 DEF RunsInOrder

LEMMA ConcludeMoves ==
    ASSUME RecTypeOK, NEW n \in Nodes, NEW result \in Result, result.output # "chopped",
           NEW large \in BOOLEAN, Conclude(n, result, large)
    PROVE  /\ \E to \in {"done", "recording"} : phase' = [phase EXCEPT ![n] = to]
           /\ \A m \in Nodes \ {n} : envelope'[m] = envelope[m]
<1>1. PICK handed \in Result :
          /\ envelope' = [envelope EXCEPT ![n] = handed]
          /\ \/ /\ handed.output # "chopped" /\ draft' = draft
                /\ phase' = [phase EXCEPT ![n] = "done"]
             \/ \E r \in Record :
                   /\ r.node = n /\ Tells(r, handed) /\ draft' = draft \cup {r}
                   /\ phase' = [phase EXCEPT ![n] = "recording"]
    BY ConcludeEffect
<1>2. \A m \in Nodes \ {n} : envelope'[m] = envelope[m]
    BY <1>1 DEF RecTypeOK
<1>3. QED
    BY <1>1, <1>2

LEMMA RunsInOrderStep ==
    ASSUME RecTypeOK, RunsInOrder, [RecNext]_recvars
    PROVE  RunsInOrder'
<1>1. /\ phase \in [Nodes -> {"new", "running", "logging", "registering", "recording", "done",
                              "lost"}]
      /\ envelope \in [Nodes -> Result] /\ stored \subseteq Nodes
      /\ made \subseteq LogRow /\ RootOf \in [Nodes -> Nodes]
    BY RecordsAssumption DEF RecTypeOK
<1>2. CASE UNCHANGED <<phase, envelope, stored, made>>
    BY <1>2 DEF RunsInOrder
<1>3. ASSUME NEW n \in Nodes, Begin(n)
      PROVE  RunsInOrder'
  <2>1. /\ \A m \in Nodes : phase'[m] = IF m = n THEN "running" ELSE phase[m]
        /\ phase[n] = "new" /\ (RootOf[n] # n => phase[RootOf[n]] = "running")
        /\ UNCHANGED <<envelope, stored, made>>
      BY <1>1, <1>3 DEF Begin, memory, tables, Root
  <2>2. \A m \in Nodes : phase'[m] # "new" => phase'[RootOf[m]] # "new"
      BY <1>1, <2>1 DEF RunsInOrder
  <2>3. \A m \in Nodes : phase'[m] = "running" => phase'[RootOf[m]] = "running"
      BY <1>1, <2>1 DEF RunsInOrder
  <2>4. \A r \in made' : phase'[r.root] # "new"
      BY <1>1, <2>1 DEF RunsInOrder, LogRow
  <2>5. QED
      BY <1>1, <2>1, <2>2, <2>3, <2>4 DEF RunsInOrder
<1>4. ASSUME NEW n \in Nodes, SettleCall(n)
      PROVE  RunsInOrder'
  <2>1. /\ made' = made \cup {[root |-> RootOf[n], node |-> n, ended |-> clock]}
        /\ phase[n] = "running" /\ UNCHANGED <<phase, envelope, stored>>
      BY <1>4 DEF SettleCall, tables
  <2>2. \A r \in made' : phase[r.root] # "new"
      BY <2>1 DEF RunsInOrder
  <2>3. QED
      BY <2>1, <2>2 DEF RunsInOrder
<1>5. ASSUME NEW n \in Nodes, Finish(n)
      PROVE  RunsInOrder'
  <2>1. /\ phase[n] = "running" /\ \A m \in Family(n) : ~Live(m)
        /\ stored' = stored /\ made' = made
      BY <1>5 DEF Finish, tables
  <2>2. PICK result \in {Nothing, Full}, large \in BOOLEAN :
            \/ /\ Root(n) /\ draft' = draft
               /\ envelope' = [envelope EXCEPT ![n] = result]
               /\ phase' = [phase EXCEPT ![n] = "logging"]
            \/ ~Root(n) /\ Conclude(n, result, large)
      BY <1>5, FinishEffect
  <2>3. CASE Conclude(n, result, large)
    <3>1. PICK to \in {"done", "recording"} :
              /\ phase' = [phase EXCEPT ![n] = to]
              /\ \A m \in Nodes \ {n} : envelope'[m] = envelope[m]
        BY <2>3, Results, ConcludeMoves
    <3>2. QED
        BY <2>1, <3>1, MovesOn
  <2>4. CASE envelope' = [envelope EXCEPT ![n] = result]
             /\ phase' = [phase EXCEPT ![n] = "logging"]
    <3>1. /\ envelope'[n].output # "chopped"
          /\ \A m \in Nodes \ {n} : envelope'[m] = envelope[m]
        BY <1>1, <2>4, Results
    <3>2. QED
        BY <2>1, <2>4, <3>1, MovesOn
  <2>5. QED
      BY <2>2, <2>3, <2>4
<1>6. ASSUME NEW n \in Nodes, StoreCalls(n)
      PROVE  RunsInOrder'
  <2>1. /\ phase[n] = "logging" /\ phase' = [phase EXCEPT ![n] = "registering"]
        /\ UNCHANGED <<envelope, stored, made>>
      BY <1>6 DEF StoreCalls
  <2>2. envelope'[n].output # "chopped"
      BY <2>1 DEF RunsInOrder
  <2>3. QED
      BY <2>1, <2>2, MovesOn
<1>7. ASSUME NEW n \in Nodes, StoreDispatches(n)
      PROVE  RunsInOrder'
  <2>1. /\ phase[n] = "registering" /\ stored' = stored /\ made' = made
        /\ \E large \in BOOLEAN : Conclude(n, envelope[n], large)
      BY <1>7 DEF StoreDispatches
  <2>2. envelope[n] \in Result /\ envelope[n].output # "chopped"
      BY <1>1, <2>1 DEF RunsInOrder
  <2>3. PICK to \in {"done", "recording"} :
            /\ phase' = [phase EXCEPT ![n] = to]
            /\ \A m \in Nodes \ {n} : envelope'[m] = envelope[m]
      BY <2>1, <2>2, ConcludeMoves
  <2>4. QED
      BY <2>1, <2>3, MovesOn
<1>8. ASSUME NEW n \in Nodes, StoreRecord(n)
      PROVE  RunsInOrder'
  <2>1. /\ phase[n] = "recording" /\ phase' = [phase EXCEPT ![n] = "done"]
        /\ stored' = stored \cup {n} /\ UNCHANGED <<envelope, made>>
      BY <1>8 DEF StoreRecord
  <2>2. QED
      BY <2>1, MovesOn
<1>9. ASSUME NEW n \in Nodes, StoreFails(n)
      PROVE  RunsInOrder'
  <2>1. /\ phase[n] = "recording" /\ phase' = [phase EXCEPT ![n] = "done"]
        /\ UNCHANGED <<stored, made>>
        /\ \A m \in Nodes \ {n} : envelope'[m] = envelope[m]
      BY <1>1, <1>9 DEF StoreFails, tables
  <2>2. QED
      BY <2>1, MovesOn
<1>10. CASE Crash
  <2>1. /\ \A m \in Nodes : phase'[m] = IF Live(m) THEN "lost" ELSE phase[m]
        /\ UNCHANGED <<envelope, stored, made>>
      BY <1>10 DEF Crash, tables
  <2>2. \A m \in Nodes : phase'[m] \in {"new", "done", "lost"}
                         /\ (phase[m] = "done" => phase'[m] = "done")
                         /\ (phase'[m] = "new" <=> phase[m] = "new")
      BY <1>1, <2>1 DEF Live
  <2>3. QED
      BY <1>1, <2>1, <2>2 DEF RunsInOrder, LogRow
<1>11. CASE Tick \/ (\E n \in Nodes : Delete(n)) \/ (\E cutoff \in Clock : SweepReads(cutoff))
            \/ (\E s \in sweeps : SweepDeletes(s)) \/ UNCHANGED recvars
  <2>1. UNCHANGED <<phase, envelope, stored, made>>
      BY <1>11 DEF Tick, Delete, SweepReads, SweepDeletes, recvars, memory, tables
  <2>2. QED
      BY <1>2, <2>1
<1>12. QED
    BY <1>3, <1>4, <1>5, <1>6, <1>7, <1>8, <1>9, <1>10, <1>11 DEF RecNext

-----------------------------------------------------------------------------
(* Drafts and records *)

\* Nothing is drafted or kept of a node that has not come to its record.
LEMMA NothingKeptYet ==
    ASSUME RecTypeOK, RunsInOrder, NEW n \in Nodes, phase[n] # "done"
    PROVE  /\ n \notin stored /\ \A r \in records : r.node # n
           /\ phase[n] # "recording" => \A r \in draft : r.node # n
BY DEF RecTypeOK, RunsInOrder, NodesOf

LEMMA HandsBack ==
    ASSUME RecTypeOK, RunsInOrder, OneDraft, DraftsMatch, NEW n \in Nodes,
           phase[n] \notin {"recording", "done"}, records' = records, stored' = stored,
           NEW handed \in Result, envelope' = [envelope EXCEPT ![n] = handed],
           \/ \E to \in {"logging", "done"} :
                 /\ phase' = [phase EXCEPT ![n] = to] /\ draft' = draft
                 /\ to = "done" => handed.output # "chopped"
           \/ \E r \in Record :
                 /\ r.node = n /\ Tells(r, handed) /\ draft' = draft \cup {r}
                 /\ phase' = [phase EXCEPT ![n] = "recording"]
    PROVE  OneDraft' /\ DraftsMatch'
<1>1. \A r \in draft \cup records : r.node \in Nodes \ {n} /\ Tells(r, envelope[r.node])
    BY NothingKeptYet DEF DraftsMatch, RecTypeOK, Record
<1>2. \A m \in Nodes : envelope'[m] = IF m = n THEN handed ELSE envelope[m]
    BY DEF RecTypeOK
<1>3. \A r \in draft \cup records : Tells(r, envelope'[r.node])
    BY <1>1, <1>2
<1>4. ASSUME NEW to \in {"logging", "done"}, phase' = [phase EXCEPT ![n] = to], draft' = draft,
             to = "done" => handed.output # "chopped"
      PROVE  OneDraft' /\ DraftsMatch'
  <2>1. \A m \in Nodes : phase'[m] = IF m = n THEN to ELSE phase[m]
      BY <1>4 DEF RecTypeOK
  <2>2. \A m \in Nodes : phase'[m] = "done" /\ envelope'[m].output = "chopped" => m \in stored
      BY <1>2, <1>4, <2>1 DEF DraftsMatch
  <2>3. QED
      BY <1>3, <1>4, <2>2 DEF DraftsMatch, OneDraft, Tells
<1>5. ASSUME NEW r \in Record, r.node = n, Tells(r, handed), draft' = draft \cup {r},
             phase' = [phase EXCEPT ![n] = "recording"]
      PROVE  OneDraft' /\ DraftsMatch'
  <2>1. \A m \in Nodes : phase'[m] = IF m = n THEN "recording" ELSE phase[m]
      BY <1>5 DEF RecTypeOK
  <2>2. \A m \in Nodes : phase'[m] = "done" /\ envelope'[m].output = "chopped" => m \in stored
      BY <1>2, <2>1 DEF DraftsMatch
  <2>3. OneDraft'
      BY <1>1, <1>5 DEF OneDraft
  <2>4. \A s \in draft' \cup records : Tells(s, envelope'[s.node])
      BY <1>2, <1>3, <1>5
  <2>5. QED
      BY <2>2, <2>3, <2>4 DEF DraftsMatch, Tells
<1>6. QED
    BY <1>4, <1>5

LEMMA DraftsMatchStep ==
    ASSUME RecTypeOK, RunsInOrder, OneDraft, DraftsMatch, IsFiniteSet(records),
           [RecNext]_recvars
    PROVE  OneDraft' /\ DraftsMatch' /\ IsFiniteSet(records')
<1>1. CASE /\ UNCHANGED <<envelope, stored>> /\ draft' \subseteq draft
           /\ records' \subseteq records
           /\ \A m \in Nodes : phase'[m] = "done" => phase[m] = "done"
  <2>1. IsFiniteSet(records')
      BY <1>1, FS_Subset
  <2>2. OneDraft'
      BY <1>1 DEF OneDraft
  <2>3. QED
      BY <1>1, <2>1, <2>2 DEF DraftsMatch, Tells
<1>2. CASE Tick \/ (\E n \in Nodes : Begin(n) \/ SettleCall(n) \/ StoreCalls(n) \/ Delete(n))
           \/ (\E cutoff \in Clock : SweepReads(cutoff)) \/ (\E s \in sweeps : SweepDeletes(s))
           \/ Crash \/ UNCHANGED recvars
  <2>1. UNCHANGED <<envelope, stored>>
      BY <1>2 DEF Tick, Begin, SettleCall, StoreCalls, Delete, SweepReads, SweepDeletes, Crash,
                  recvars, memory, tables
  <2>2. draft' \subseteq draft
      BY <1>2 DEF Tick, Begin, SettleCall, StoreCalls, Delete, SweepReads, SweepDeletes, Crash,
                  recvars, memory
  <2>3. records' \subseteq records
      BY <1>2 DEF Tick, Begin, SettleCall, StoreCalls, Delete, SweepReads, SweepDeletes, Crash,
                  recvars, tables
  <2>4. \A m \in Nodes : phase'[m] = "done" => phase[m] = "done"
      BY <1>2 DEF Tick, Begin, SettleCall, StoreCalls, Delete, SweepReads, SweepDeletes, Crash,
                  recvars, RecTypeOK
  <2>5. QED
      BY <1>1, <2>1, <2>2, <2>3, <2>4
<1>3. ASSUME NEW n \in Nodes, Finish(n)
      PROVE  OneDraft' /\ DraftsMatch' /\ IsFiniteSet(records')
  <2>1. phase[n] = "running" /\ records' = records /\ stored' = stored
      BY <1>3 DEF Finish, tables
  <2>2. PICK result \in {Nothing, Full}, large \in BOOLEAN :
            \/ /\ Root(n) /\ draft' = draft
               /\ envelope' = [envelope EXCEPT ![n] = result]
               /\ phase' = [phase EXCEPT ![n] = "logging"]
            \/ ~Root(n) /\ Conclude(n, result, large)
      BY <1>3, FinishEffect
  <2>3. result \in Result /\ result.output # "chopped"
      BY Results
  <2>4. CASE Conclude(n, result, large)
      BY <2>1, <2>3, <2>4, ConcludeEffect, HandsBack
  <2>5. CASE Root(n) /\ draft' = draft /\ envelope' = [envelope EXCEPT ![n] = result]
             /\ phase' = [phase EXCEPT ![n] = "logging"]
      BY <2>1, <2>3, <2>5, HandsBack
  <2>6. QED
      BY <2>2, <2>4, <2>5
<1>4. ASSUME NEW n \in Nodes, StoreDispatches(n)
      PROVE  OneDraft' /\ DraftsMatch' /\ IsFiniteSet(records')
  <2>1. /\ phase[n] = "registering" /\ records' = records /\ stored' = stored
        /\ \E large \in BOOLEAN : Conclude(n, envelope[n], large)
      BY <1>4 DEF StoreDispatches
  <2>2. envelope[n] \in Result /\ envelope[n].output # "chopped"
      BY <2>1 DEF RecTypeOK, RunsInOrder
  <2>3. QED
      BY <2>1, <2>2, ConcludeEffect, HandsBack
<1>5. ASSUME NEW n \in Nodes, StoreRecord(n)
      PROVE  OneDraft' /\ DraftsMatch' /\ IsFiniteSet(records')
  <2>1. PICK r \in draft, kept \in SUBSET (records \cup draft) :
            /\ r.node = n /\ kept \subseteq records \cup {r}
            /\ draft' = draft \ {r} /\ records' = kept
      BY <1>5, StoreEffect
  <2>2. /\ stored' = stored \cup {n} /\ envelope' = envelope
        /\ \A m \in Nodes : phase'[m] = IF m = n THEN "done" ELSE phase[m]
      BY <1>5 DEF StoreRecord, RecTypeOK
  <2>3. IsFiniteSet(records')
      BY <2>1, FS_AddElement, FS_Subset
  <2>4. OneDraft'
      BY <2>1 DEF OneDraft
  <2>5. QED
      BY <2>1, <2>2, <2>3, <2>4 DEF DraftsMatch, Tells
<1>6. ASSUME NEW n \in Nodes, StoreFails(n)
      PROVE  OneDraft' /\ DraftsMatch' /\ IsFiniteSet(records')
  <2>1. PICK r \in draft :
            /\ r.node = n /\ draft' = draft \ {r}
            /\ envelope' = [envelope EXCEPT ![n] =
                  IF @.output = "chopped" THEN [status |-> "partial", output |-> "full"] ELSE @]
      BY <1>6 DEF StoreFails
  <2>2. /\ phase[n] = "recording" /\ UNCHANGED <<records, stored>>
        /\ \A m \in Nodes : phase'[m] = IF m = n THEN "done" ELSE phase[m]
      BY <1>6 DEF StoreFails, tables, RecTypeOK
  <2>3. /\ \A m \in Nodes \ {n} : envelope'[m] = envelope[m]
        /\ envelope'[n].output # "chopped"
      BY <2>1 DEF RecTypeOK
  <2>4. \A s \in draft' \cup records : s.node \in Nodes \ {n} /\ Tells(s, envelope[s.node])
    <3>1. \A s \in draft' : s.node # n
        BY <2>1 DEF OneDraft
    <3>2. \A s \in records : s.node # n
        BY <2>2, NothingKeptYet
    <3>3. QED
        BY <2>1, <3>1, <3>2 DEF DraftsMatch, RecTypeOK, Record
  <2>5. OneDraft'
      BY <2>1 DEF OneDraft
  <2>6. \A s \in draft' \cup records : Tells(s, envelope'[s.node])
      BY <2>3, <2>4
  <2>7. \A m \in Nodes : phase'[m] = "done" /\ envelope'[m].output = "chopped" => m \in stored
      BY <2>2, <2>3 DEF DraftsMatch
  <2>8. QED
      BY <2>2, <2>5, <2>6, <2>7 DEF DraftsMatch, Tells
<1>7. QED
    BY <1>2, <1>3, <1>4, <1>5, <1>6 DEF RecNext

\* The invariant so far, inductive; with it every record is of one node, and tells the
\* truth of it.
RecInv == RecTypeOK /\ RunsInOrder /\ OneDraft /\ DraftsMatch /\ IsFiniteSet(records)

LEMMA RecInvInit == RecInit => RecInv
<1> SUFFICES ASSUME RecInit
             PROVE  RecInv
    OBVIOUS
<1>1. IsFiniteSet(records)
    BY FS_EmptySet DEF RecInit
<1>2. RunsInOrder /\ OneDraft /\ DraftsMatch
    BY DEF RecInit, RunsInOrder, OneDraft, DraftsMatch
<1>3. RecTypeOK
  <2>1. clock \in Clock /\ Nothing \in Result
      BY RecordsAssumption, Results DEF RecInit, Clock
  <2>2. NodesOf({}) = {}
      BY DEF NodesOf
  <2>3. {n \in Nodes : phase[n] = "recording"} = NodesOf(draft)
      BY <2>2 DEF RecInit
  <2>4. QED
      BY <2>1, <2>2, <2>3 DEF RecInit, RecTypeOK
<1>4. QED
    BY <1>1, <1>2, <1>3 DEF RecInv

LEMMA RecInvStep == RecInv /\ [RecNext]_recvars => RecInv'
BY RecTypeStep, RunsInOrderStep, DraftsMatchStep DEF RecInv

LEMMA RecInvHolds == RecSpec => []RecInv
BY RecInvInit, RecInvStep, PTL DEF RecSpec

\* Type correctness: records, drafts and rows are of the nodes and runs that made them,
\* exactly the nodes that record have a draft, and no node has two records.
THEOREM RecTypes == RecSpec => []RecTypeOK
<1>1. RecInv => RecTypeOK
    BY DEF RecInv
<1>2. QED
    BY <1>1, RecInvHolds, PTL

\* No envelope is handed back chopped unless its record was committed, in full: for
\* every policy, every mode and every store that fails (truncate_with_reference, the
\* forced mode, the fallback).
THEOREM ReferencesHold == RecSpec => []ReferencesLoad
<1>1. RecInv => ReferencesLoad
    BY DEF RecInv, DraftsMatch, ReferencesLoad, Tells
<1>2. QED
    BY <1>1, RecInvHolds, PTL

-----------------------------------------------------------------------------
(* The ring *)

LEMMA RingStep ==
    ASSUME RecInv, RingHolds, [RecNext]_recvars
    PROVE  RingHolds'
<1>1. ASSUME Dev(records') \subseteq Dev(records)
      PROVE  RingHolds'
  <2>1. IsFiniteSet(Dev(records))
      BY FS_Subset DEF RecInv, Dev
  <2>2. /\ Cardinality(Dev(records')) <= Cardinality(Dev(records))
        /\ Cardinality(Dev(records)) \in Nat /\ Cardinality(Dev(records')) \in Nat
        /\ RingSize \in Nat
      BY <1>1, <2>1, FS_Subset, FS_CardinalityType, RecordsAssumption
  <2>3. QED
      BY <2>2 DEF RingHolds
<1>2. ASSUME NEW n \in Nodes, StoreRecord(n)
      PROVE  RingHolds'
  <2>1. \/ Cardinality(Dev(records')) <= RingSize
        \/ Dev(records') \subseteq Dev(records)
      BY <1>2, StoreEffect DEF RecInv
  <2>2. QED
      BY <1>1, <2>1 DEF RingHolds
<1>3. CASE ~\E n \in Nodes : StoreRecord(n)
  <2>1. records' \subseteq records
      BY <1>3 DEF RecNext, Tick, Begin, SettleCall, Finish, StoreCalls, StoreDispatches,
                  StoreFails, Delete, SweepReads, SweepDeletes, Crash, recvars, tables
  <2>2. QED
      BY <1>1, <2>1 DEF Dev
<1>4. QED
    BY <1>2, <1>3

\* A node is done recording by a store of its own, or one that failed.
LEMMA EndsOfRecording ==
    ASSUME RecTypeOK, NEW n \in Nodes, phase[n] = "recording", phase'[n] = "done",
           [RecNext]_recvars
    PROVE  StoreRecord(n) \/ StoreFails(n)
<1>1. CASE UNCHANGED phase
    BY <1>1
<1>2. CASE UNCHANGED recvars \/ Tick \/ (\E m \in Nodes : SettleCall(m) \/ Delete(m))
           \/ (\E cutoff \in Clock : SweepReads(cutoff)) \/ (\E s \in sweeps : SweepDeletes(s))
    BY <1>1, <1>2 DEF recvars, Tick, SettleCall, Delete, SweepReads, SweepDeletes
<1>3. ASSUME NEW m \in Nodes, Begin(m) \/ StoreCalls(m)
      PROVE  FALSE
    BY <1>3 DEF Begin, StoreCalls, RecTypeOK
<1>4. ASSUME NEW m \in Nodes, Finish(m) \/ StoreDispatches(m)
      PROVE  FALSE
  <2>1. m # n
      BY <1>4 DEF Finish, StoreDispatches
  <2>2. \E to \in {"logging", "recording", "done"} : phase' = [phase EXCEPT ![m] = to]
      BY <1>4 DEF Finish, StoreDispatches, Conclude
  <2>3. QED
      BY <2>1, <2>2 DEF RecTypeOK
<1>5. ASSUME NEW m \in Nodes, StoreRecord(m) \/ StoreFails(m), m # n
      PROVE  FALSE
    BY <1>5 DEF StoreRecord, StoreFails, RecTypeOK
<1>6. CASE Crash
    BY <1>6 DEF Crash, Live
<1>7. QED
    BY <1>2, <1>3, <1>4, <1>5, <1>6 DEF RecNext

\* No store leaves the ring past its size; each makes room by age, and takes nothing
\* that the rule of a mode does not name, whatever runs store in whatever order
\* (_prune_dev_sync, _prune_on_failure_sync).
THEOREM RingNewest == RecSpec => RingKeepsNewest
<1> DEFINE Kept ==
       \A n \in Nodes : phase[n] = "recording" /\ phase'[n] = "done" =>
          \A r \in records \ records' :
             \/ r.mode = "dev" /\ \A k \in Dev(records') : r.created <= k.created
             \/ r.mode = "on_failure" /\ clock - r.created > Retention
<1>1. RecInit => RingHolds
    BY FS_EmptySet, RecordsAssumption DEF RecInit, RingHolds, Dev
<1>2. RecInv /\ RingHolds /\ [RecNext]_recvars => RingHolds'
    BY RingStep
<1>3. RecInv /\ [RecNext]_recvars => Kept
  <2> SUFFICES ASSUME RecInv, [RecNext]_recvars, NEW n \in Nodes, phase[n] = "recording",
                      phase'[n] = "done", NEW r \in records \ records'
               PROVE  \/ r.mode = "dev" /\ \A k \in Dev(records') : r.created <= k.created
                      \/ r.mode = "on_failure" /\ clock - r.created > Retention
      OBVIOUS
  <2>1. StoreRecord(n) \/ StoreFails(n)
      BY EndsOfRecording DEF RecInv
  <2>2. StoreRecord(n)
      BY <2>1 DEF StoreFails, tables
  <2>3. PICK d \in draft : Pruned(r, d, records')
      BY <2>2, StoreEffect DEF RecInv
  <2>4. QED
      BY <2>3 DEF Pruned
<1>4. RecInv /\ RingHolds /\ [RecNext]_recvars => [RingHolds' /\ Kept]_recvars
    BY <1>2, <1>3
<1>5. QED
    BY <1>1, <1>2, <1>4, RecInvHolds, PTL DEF RecSpec, RingKeepsNewest

-----------------------------------------------------------------------------
(* Logs *)

\* A run's log is persisted by its root, and not before its work is over.
PersistedLate ==
    \A n \in Nodes : log_persistence[n] = "persisted" =>
        phase[n] \notin {"new", "running", "logging"}

\* A sweep on its way found what was stored, and stops short of the runs that live.
SweepsStopShort ==
    \A s \in sweeps : /\ s.found \subseteq stored /\ s.cutoff <= clock
                      /\ \A r \in made : Live(r.root) => s.cutoff <= r.ended

\* A persisted log is whole from the moment it is written until its record goes.
LogsWhole ==
    \A n \in Nodes :
        log_persistence[n] = "persisted"
            /\ (n \in NodesOf(records) \/ phase[n] \in {"registering", "recording"})
        => \A r \in made : r.root = n => r \in calls

\* What a store prunes had its record before, or is the node that stores; and none of
\* it is a node whose record is still there.
LEMMA StoreGone ==
    ASSUME RecInv, NEW n \in Nodes, StoreRecord(n)
    PROVE  \E gone \in SUBSET Nodes :
              /\ DeleteRunData(gone)
              /\ gone \subseteq NodesOf(records) \cup {n}
              /\ gone \cap NodesOf(records') = {}
              /\ NodesOf(records') \cup gone = NodesOf(records) \cup {n}
<1>1. PICK r \in draft, kept \in SUBSET (records \cup draft) :
          /\ r.node = n /\ kept \subseteq records \cup {r} /\ records' = kept
          /\ DeleteRunData(NodesOf((records \cup {r}) \ kept))
    BY StoreEffect DEF RecInv
<1> DEFINE with == records \cup {r}
           gone == NodesOf(with \ kept)
<1>2. phase[n] = "recording"
    BY DEF StoreRecord
<1>3. \A s \in records : s.node # n
    BY <1>2, NothingKeptYet DEF RecInv
<1>4. \A s, t \in with : s.node = t.node => s = t
    BY <1>1, <1>3 DEF RecInv, RecTypeOK
<1>5. gone \cap NodesOf(kept) = {}
    BY <1>1, <1>4 DEF NodesOf
<1>6. NodesOf(with) = NodesOf(records) \cup {n}
    BY <1>1 DEF NodesOf
<1>7. gone \subseteq NodesOf(with) /\ NodesOf(kept) \cup gone = NodesOf(with)
    BY <1>1 DEF NodesOf
<1>8. NodesOf(records) \subseteq Nodes
    BY DEF RecInv, RecTypeOK
<1>9. DeleteRunData(gone)
    BY <1>1
<1> HIDE DEF gone, with
<1>10. QED
    BY <1>1, <1>5, <1>6, <1>7, <1>8, <1>9

\* What an orphan sweep leaves of the rows.
LEMMA SweepEffect ==
    ASSUME RecInv, NEW s \in sweeps, SweepDeletes(s)
    PROVE  /\ NodesOf(records') = NodesOf(records) \ s.found
           /\ \A r \in calls : r \in calls' <=>
                 r.root \notin s.found /\ (r.ended >= s.cutoff \/ r.root \in NodesOf(records'))
           /\ calls' \subseteq {r \in calls : r.root \notin s.found}
           /\ dispatches' \subseteq {r \in dispatches : r.root \notin s.found}
BY DEF SweepDeletes, SweepKeeps, NodesOf

LEMMA PersistedStep ==
    ASSUME RecTypeOK, PersistedLate, [RecNext]_recvars
    PROVE  PersistedLate'
<1>1. CASE UNCHANGED <<phase, log_persistence>>
    BY <1>1 DEF PersistedLate
<1>2. ASSUME NEW n \in Nodes, Begin(n)
      PROVE  PersistedLate'
    BY <1>2 DEF Begin, memory, PersistedLate, RecTypeOK
<1>3. ASSUME NEW n \in Nodes, Finish(n) \/ StoreDispatches(n) \/ StoreRecord(n) \/ StoreFails(n)
      PROVE  PersistedLate'
  <2>1. log_persistence' = log_persistence
      BY <1>3 DEF Finish, StoreDispatches, StoreRecord, StoreFails
  <2>2. phase[n] \in {"running", "registering", "recording"}
      BY <1>3 DEF Finish, StoreDispatches, StoreRecord, StoreFails
  <2>3. \/ /\ phase[n] = "running"
           /\ \E to \in {"logging", "recording", "done"} : phase' = [phase EXCEPT ![n] = to]
        \/ \E to \in {"recording", "done"} : phase' = [phase EXCEPT ![n] = to]
      BY <1>3 DEF Finish, StoreDispatches, StoreRecord, StoreFails, Conclude
  <2>4. QED
      BY <2>1, <2>3 DEF PersistedLate, RecTypeOK
<1>4. ASSUME NEW n \in Nodes, StoreCalls(n)
      PROVE  PersistedLate'
  <2>1. /\ \A m \in Nodes : phase'[m] = IF m = n THEN "registering" ELSE phase[m]
        /\ \A m \in Nodes \ {n} : log_persistence'[m] = log_persistence[m]
      BY <1>4 DEF StoreCalls, RecTypeOK
  <2>2. QED
      BY <2>1 DEF PersistedLate
<1>5. CASE Crash
  <2>1. /\ \A m \in Nodes : phase'[m] = IF Live(m) THEN "lost" ELSE phase[m]
        /\ log_persistence' = log_persistence
      BY <1>5 DEF Crash
  <2>2. QED
      BY <2>1 DEF PersistedLate, Live
<1>6. CASE Tick \/ (\E n \in Nodes : SettleCall(n) \/ Delete(n))
           \/ (\E cutoff \in Clock : SweepReads(cutoff)) \/ (\E s \in sweeps : SweepDeletes(s))
           \/ UNCHANGED recvars
  <2>1. UNCHANGED <<phase, log_persistence>>
      BY <1>6 DEF Tick, SettleCall, Delete, SweepReads, SweepDeletes, recvars, memory
  <2>2. QED
      BY <1>1, <2>1
<1>7. QED
    BY <1>2, <1>3, <1>4, <1>5, <1>6 DEF RecNext

LEMMA SweepsStep ==
    ASSUME RecInv, SweepsStopShort, ~SweepLiveRuns, [RecNext]_recvars
    PROVE  SweepsStopShort'
<1>1. /\ clock \in Nat /\ RootOf \in [Nodes -> Nodes] /\ made \subseteq LogRow
      /\ \A s \in sweeps : s.cutoff \in Nat /\ s.found \subseteq Nodes
      /\ \A r \in made : r.ended \in Nat /\ r.root \in Nodes
    BY RecordsAssumption DEF RecInv, RecTypeOK, Clock, LogRow
<1>2. CASE /\ made' = made /\ sweeps' \subseteq sweeps /\ stored \subseteq stored'
           /\ clock' \in Nat /\ clock <= clock'
           /\ \A r \in made : phase'[r.root] \notin {"new", "done", "lost"} => Live(r.root)
  <2>1. ASSUME NEW s \in sweeps'
        PROVE  s.found \subseteq stored' /\ s.cutoff <= clock'
    <3>1. s.found \subseteq stored /\ s.cutoff <= clock /\ s.cutoff \in Nat
        BY <1>1, <1>2 DEF SweepsStopShort
    <3>2. QED
        BY <1>1, <1>2, <3>1
  <2>2. ASSUME NEW s \in sweeps', NEW r \in made', Live(r.root)'
        PROVE  s.cutoff <= r.ended
    <3>1. s \in sweeps /\ r \in made /\ Live(r.root)
        BY <1>2, <2>2 DEF Live
    <3>2. QED
        BY <3>1 DEF SweepsStopShort
  <2>3. QED
      BY <2>1, <2>2 DEF SweepsStopShort
<1>3. CASE Tick
  <2>1. made' = made /\ sweeps' = sweeps /\ stored' = stored /\ phase' = phase
        /\ clock' = clock + 1
      BY <1>3 DEF Tick, memory, tables
  <2>2. QED
      BY <1>1, <1>2, <2>1 DEF Live
<1>4. ASSUME NEW n \in Nodes, Begin(n)
      PROVE  SweepsStopShort'
  <2>1. /\ \A m \in Nodes : phase'[m] = IF m = n THEN "running" ELSE phase[m]
        /\ phase[n] = "new" /\ UNCHANGED <<made, sweeps, stored, clock>>
      BY <1>4 DEF Begin, memory, tables, RecInv, RecTypeOK
  <2>2. \A r \in made : r.root # n
      BY <2>1 DEF RecInv, RunsInOrder
  <2>3. QED
      BY <1>1, <1>2, <2>1, <2>2 DEF Live
<1>5. ASSUME NEW n \in Nodes, SettleCall(n)
      PROVE  SweepsStopShort'
  <2>1. /\ made' = made \cup {[root |-> RootOf[n], node |-> n, ended |-> clock]}
        /\ UNCHANGED <<clock, phase, stored, sweeps>>
      BY <1>5 DEF SettleCall, tables
  <2>2. ASSUME NEW s \in sweeps, NEW r \in made', Live(r.root)
        PROVE  s.cutoff <= r.ended
      BY <1>1, <2>1, <2>2 DEF SweepsStopShort
  <2>3. QED
      BY <2>1, <2>2 DEF SweepsStopShort, Live
<1>6. ASSUME NEW n \in Nodes,
             Finish(n) \/ StoreCalls(n) \/ StoreDispatches(n) \/ StoreRecord(n) \/ StoreFails(n)
      PROVE  SweepsStopShort'
  <2>1. made' = made /\ sweeps' = sweeps /\ stored \subseteq stored' /\ clock' = clock
      BY <1>6 DEF Finish, StoreCalls, StoreDispatches, StoreRecord, StoreFails, tables
  <2>2. /\ phase[n] \in {"running", "logging", "registering", "recording"}
        /\ \A m \in Nodes \ {n} : phase'[m] = phase[m]
      BY <1>6 DEF Finish, StoreCalls, StoreDispatches, StoreRecord, StoreFails, Conclude,
                  RecInv, RecTypeOK
  <2>3. QED
      BY <1>1, <1>2, <2>1, <2>2 DEF Live
<1>7. ASSUME NEW cutoff \in Clock, SweepReads(cutoff)
      PROVE  SweepsStopShort'
  <2> DEFINE found == {r.node : r \in {s \in records : s.created < cutoff}}
  <2>1. /\ cutoff <= clock /\ \A r \in made : Live(r.root) => cutoff <= r.ended
        /\ sweeps' = sweeps \cup {[cutoff |-> cutoff, found |-> found]}
        /\ UNCHANGED <<clock, phase, made, stored>>
      BY <1>7 DEF SweepReads, memory, tables
  <2>2. found \subseteq stored
      BY DEF RecInv, RecTypeOK, NodesOf
  <2> HIDE DEF found
  <2>3. QED
      BY <2>1, <2>2 DEF SweepsStopShort, Live
<1>8. CASE (\E n \in Nodes : Delete(n)) \/ (\E s \in sweeps : SweepDeletes(s))
           \/ UNCHANGED recvars
  <2>1. made' = made /\ sweeps' \subseteq sweeps /\ stored' = stored /\ phase' = phase
        /\ clock' = clock
      BY <1>8 DEF Delete, SweepDeletes, recvars, memory, tables
  <2>2. QED
      BY <1>1, <1>2, <2>1 DEF Live
<1>9. CASE Crash
  <2>1. made' = made /\ sweeps' = {} /\ stored' = stored /\ clock' = clock
      BY <1>9 DEF Crash, tables
  <2>2. QED
      BY <2>1 DEF SweepsStopShort
<1>10. QED
    BY <1>3, <1>4, <1>5, <1>6, <1>7, <1>8, <1>9 DEF RecNext

\* What holds of a run's log is kept by a step that takes no row of it.
LEMMA WholeStill ==
    ASSUME RecTypeOK, LogsWhole, made' = made, log_persistence' = log_persistence,
           \A m \in Nodes : m \in NodesOf(records') \/ phase'[m] \in {"registering", "recording"}
               => \/ log_persistence[m] # "persisted"
                  \/ /\ m \in NodesOf(records) \/ phase[m] \in {"registering", "recording"}
                     /\ \A r \in calls : r.root = m => r \in calls'
    PROVE  LogsWhole'
BY DEF LogsWhole, NodesOf

LEMMA LogsWholeStep ==
    ASSUME RecInv, PersistedLate, SweepsStopShort, LogsWhole, [RecNext]_recvars
    PROVE  LogsWhole'
<1>1. /\ RootOf \in [Nodes -> Nodes] /\ stored \subseteq Nodes
      /\ phase \in [Nodes -> {"new", "running", "logging", "registering", "recording", "done",
                              "lost"}]
      /\ NodesOf(records) \subseteq stored /\ RecTypeOK
    BY RecordsAssumption DEF RecInv, RecTypeOK
<1>2. \A n \in NodesOf(records) : n \in stored /\ phase[n] = "done"
    BY <1>1 DEF RecInv, RunsInOrder
<1>3. CASE UNCHANGED <<records, calls, phase, made, log_persistence>>
    BY <1>3 DEF LogsWhole
<1>4. ASSUME NEW n \in Nodes, Begin(n)
      PROVE  LogsWhole'
  <2>1. /\ \A m \in Nodes : phase'[m] = IF m = n THEN "running" ELSE phase[m]
        /\ UNCHANGED <<made, log_persistence, records, calls>>
      BY <1>1, <1>4 DEF Begin, memory, tables
  <2>2. QED
      BY <1>1, <2>1, WholeStill
<1>5. ASSUME NEW n \in Nodes, SettleCall(n)
      PROVE  LogsWhole'
  <2>1. /\ made' = made \cup {[root |-> RootOf[n], node |-> n, ended |-> clock]}
        /\ phase[n] = "running" /\ UNCHANGED <<phase, records, calls, log_persistence>>
      BY <1>5 DEF SettleCall, tables
  <2>2. log_persistence[RootOf[n]] # "persisted"
      BY <1>1, <2>1 DEF PersistedLate, RecInv, RunsInOrder
  <2>3. QED
      BY <2>1, <2>2 DEF LogsWhole
<1>6. ASSUME NEW n \in Nodes, Finish(n)
      PROVE  LogsWhole'
  <2>1. phase[n] = "running" /\ UNCHANGED <<made, log_persistence, records, calls>>
      BY <1>6 DEF Finish, tables
  <2>2. \A m \in Nodes \ {n} : phase'[m] = phase[m]
      BY <1>1, <1>6 DEF Finish, Conclude
  <2>3. log_persistence[n] # "persisted"
      BY <2>1 DEF PersistedLate
  <2>4. QED
      BY <1>1, <2>1, <2>2, <2>3, WholeStill
<1>7. ASSUME NEW n \in Nodes, StoreCalls(n)
      PROVE  LogsWhole'
  <2> DEFINE rows == {r \in made : r.root = n}
  <2>1. /\ phase[n] = "logging" /\ \A m \in Nodes \ {n} : phase'[m] = phase[m]
        /\ UNCHANGED <<made, records>>
      BY <1>1, <1>7 DEF StoreCalls
  <2>2. \/ calls' = calls \cup rows
        \/ calls' = calls /\ log_persistence' = [log_persistence EXCEPT ![n] =
               IF rows = {} THEN "no_calls" ELSE IF Backend(n) THEN "failed" ELSE "unavailable"]
      BY <1>7 DEF StoreCalls
  <2>3. \A m \in Nodes \ {n} : log_persistence'[m] = log_persistence[m]
      BY <1>1, <1>7 DEF StoreCalls, RecTypeOK
  <2>4. log_persistence'[n] = "persisted" => \A r \in made : r.root = n => r \in calls'
      BY <1>1, <2>2 DEF RecTypeOK
  <2>5. calls \subseteq calls'
      BY <2>2
  <2> HIDE DEF rows
  <2>6. QED
      BY <2>1, <2>3, <2>4, <2>5 DEF LogsWhole
<1>8. ASSUME NEW n \in Nodes, StoreDispatches(n)
      PROVE  LogsWhole'
  <2>1. phase[n] = "registering" /\ UNCHANGED <<made, log_persistence, records, calls>>
      BY <1>8 DEF StoreDispatches
  <2>2. \A m \in Nodes \ {n} : phase'[m] = phase[m]
      BY <1>1, <1>8 DEF StoreDispatches, Conclude
  <2>3. QED
      BY <1>1, <2>1, <2>2, WholeStill
<1>9. ASSUME NEW n \in Nodes, StoreRecord(n)
      PROVE  LogsWhole'
  <2>1. /\ phase[n] = "recording" /\ \A m \in Nodes : phase'[m] = IF m = n THEN "done" ELSE phase[m]
        /\ UNCHANGED <<made, log_persistence>>
      BY <1>1, <1>9 DEF StoreRecord
  <2>2. PICK gone \in SUBSET Nodes :
            /\ DeleteRunData(gone)
            /\ gone \subseteq NodesOf(records) \cup {n}
            /\ gone \cap NodesOf(records') = {}
            /\ NodesOf(records') \cup gone = NodesOf(records) \cup {n}
      BY <1>9, StoreGone
  <2>3. ASSUME NEW m \in Nodes,
               m \in NodesOf(records') \/ phase'[m] \in {"registering", "recording"}
        PROVE  /\ m \in NodesOf(records) \/ phase[m] \in {"registering", "recording"}
               /\ \A r \in calls : r.root = m => r \in calls'
    <3>1. m \notin gone
        BY <1>2, <2>1, <2>2, <2>3
    <3>2. \A r \in calls : r.root = m => r \in calls'
        BY <2>2, <3>1 DEF DeleteRunData
    <3>3. m \in NodesOf(records) \/ phase[m] \in {"registering", "recording"}
        BY <2>1, <2>2, <2>3
    <3>4. QED
        BY <3>2, <3>3
  <2>4. QED
      BY <1>1, <2>1, <2>3, WholeStill
<1>10. ASSUME NEW n \in Nodes, StoreFails(n)
       PROVE  LogsWhole'
  <2>1. /\ \A m \in Nodes : phase'[m] = IF m = n THEN "done" ELSE phase[m]
        /\ UNCHANGED <<made, log_persistence, records, calls>>
      BY <1>1, <1>10 DEF StoreFails, tables
  <2>2. QED
      BY <1>1, <2>1, WholeStill
<1>11. ASSUME NEW n \in Nodes, Delete(n)
       PROVE  LogsWhole'
  <2>1. /\ phase[n] = "done" /\ records' = {r \in records : r.node # n} /\ DeleteRunData({n})
        /\ UNCHANGED <<phase, made, log_persistence>>
      BY <1>11 DEF Delete, memory
  <2>2. \A m \in Nodes : m \in NodesOf(records') => m \in NodesOf(records) /\ m # n
      BY <2>1 DEF NodesOf
  <2>3. \A m \in Nodes \ {n} : \A r \in calls : r.root = m => r \in calls'
      BY <2>1 DEF DeleteRunData
  <2>4. QED
      BY <1>1, <2>1, <2>2, <2>3, WholeStill
<1>12. ASSUME NEW s \in sweeps, SweepDeletes(s)
       PROVE  LogsWhole'
  <2>1. UNCHANGED <<phase, made, log_persistence>>
      BY <1>12 DEF SweepDeletes, memory
  <2>2. s.found \subseteq stored /\ s.cutoff \in Nat
        /\ \A r \in made : Live(r.root) => s.cutoff <= r.ended
      BY RecordsAssumption DEF SweepsStopShort, RecInv, RecTypeOK, Clock
  <2>3. \A r \in calls : r \in made /\ r.ended \in Nat
      BY RecordsAssumption DEF RecInv, RecTypeOK, LogRow, Clock
  <2>4. ASSUME NEW m \in Nodes,
               m \in NodesOf(records') \/ phase'[m] \in {"registering", "recording"}
        PROVE  /\ m \in NodesOf(records) \/ phase[m] \in {"registering", "recording"}
               /\ \A r \in calls : r.root = m => r \in calls'
    <3>1. CASE m \in NodesOf(records')
        BY <1>12, <3>1, SweepEffect
    <3>2. CASE phase[m] \in {"registering", "recording"}
      <4>1. m \notin s.found /\ Live(m)
          BY <2>2, <3>2 DEF RecInv, RunsInOrder, Live
      <4>2. \A r \in calls : r.root = m => r.ended >= s.cutoff
          BY <2>2, <2>3, <4>1
      <4>3. QED
          BY <1>12, <3>2, <4>1, <4>2, SweepEffect
    <3>3. QED
        BY <2>1, <2>4, <3>1, <3>2
  <2>5. QED
      BY <1>1, <2>1, <2>4, WholeStill
<1>13. CASE Crash
  <2>1. /\ \A m \in Nodes : phase'[m] = IF Live(m) THEN "lost" ELSE phase[m]
        /\ UNCHANGED <<made, log_persistence, records, calls>>
      BY <1>13 DEF Crash, tables
  <2>2. QED
      BY <1>1, <2>1, WholeStill DEF Live
<1>14. CASE Tick \/ (\E cutoff \in Clock : SweepReads(cutoff)) \/ UNCHANGED recvars
  <2>1. UNCHANGED <<records, calls, phase, made, log_persistence>>
      BY <1>14 DEF Tick, SweepReads, recvars, memory, tables
  <2>2. QED
      BY <1>3, <2>1
<1>15. QED
    BY <1>4, <1>5, <1>6, <1>7, <1>8, <1>9, <1>10, <1>11, <1>12, <1>13, <1>14 DEF RecNext

\* No row comes back of a run whose root's record went.
LEMMA LogsDieStep ==
    ASSUME RecInv, LogsDieWithTheirRoot, [RecNext]_recvars
    PROVE  LogsDieWithTheirRoot'
<1>1. \A n \in stored : n \in Nodes /\ phase[n] = "done"
    BY DEF RecInv, RecTypeOK, RunsInOrder
<1>2. CASE stored' = stored /\ NodesOf(records) \subseteq NodesOf(records')
           /\ calls' \subseteq calls /\ dispatches' \subseteq dispatches
    BY <1>2 DEF LogsDieWithTheirRoot
<1>3. ASSUME NEW n \in Nodes, StoreCalls(n)
      PROVE  LogsDieWithTheirRoot'
  <2>1. /\ phase[n] = "logging" /\ calls' \subseteq calls \cup {r \in made : r.root = n}
        /\ UNCHANGED <<stored, records, dispatches>>
      BY <1>3 DEF StoreCalls
  <2>2. n \notin stored
      BY <1>1, <2>1
  <2>3. QED
      BY <2>1, <2>2 DEF LogsDieWithTheirRoot
<1>4. ASSUME NEW n \in Nodes, StoreDispatches(n)
      PROVE  LogsDieWithTheirRoot'
  <2>1. /\ phase[n] = "registering"
        /\ dispatches' \subseteq dispatches \cup {r \in registered : r.root = n}
        /\ UNCHANGED <<stored, records, calls>>
      BY <1>4 DEF StoreDispatches
  <2>2. n \notin stored
      BY <1>1, <2>1
  <2>3. QED
      BY <2>1, <2>2 DEF LogsDieWithTheirRoot
<1>5. ASSUME NEW n \in Nodes, StoreRecord(n)
      PROVE  LogsDieWithTheirRoot'
  <2>1. PICK gone \in SUBSET Nodes :
            /\ DeleteRunData(gone)
            /\ NodesOf(records') \cup gone = NodesOf(records) \cup {n}
      BY <1>5, StoreGone
  <2>2. stored' = stored \cup {n}
      BY <1>5 DEF StoreRecord
  <2>3. ASSUME NEW m \in stored' \ NodesOf(records'), NEW r \in calls' \cup dispatches'
        PROVE  r.root # m
    <3>1. r \in calls \cup dispatches /\ r.root \notin gone
        BY <2>1 DEF DeleteRunData
    <3>2. m \in gone \/ m \in stored \ NodesOf(records)
        BY <2>1, <2>2
    <3>3. QED
        BY <3>1, <3>2 DEF LogsDieWithTheirRoot
  <2>4. QED
      BY <2>3 DEF LogsDieWithTheirRoot
<1>6. ASSUME NEW n \in Nodes, Delete(n)
      PROVE  LogsDieWithTheirRoot'
  <2>1. /\ records' = {r \in records : r.node # n} /\ DeleteRunData({n}) /\ stored' = stored
      BY <1>6 DEF Delete
  <2>2. \A m \in NodesOf(records) : m # n => m \in NodesOf(records')
      BY <2>1 DEF NodesOf
  <2>3. QED
      BY <2>1, <2>2 DEF LogsDieWithTheirRoot, DeleteRunData
<1>7. ASSUME NEW s \in sweeps, SweepDeletes(s)
      PROVE  LogsDieWithTheirRoot'
  <2>1. stored' = stored
      BY <1>7 DEF SweepDeletes
  <2>2. QED
      BY <1>7, <2>1, SweepEffect DEF LogsDieWithTheirRoot
<1>8. CASE Tick \/ (\E n \in Nodes : Begin(n) \/ SettleCall(n) \/ Finish(n) \/ StoreFails(n))
           \/ (\E cutoff \in Clock : SweepReads(cutoff)) \/ Crash \/ UNCHANGED recvars
  <2>1. UNCHANGED <<stored, records, calls, dispatches>>
      BY <1>8 DEF Tick, Begin, SettleCall, Finish, StoreFails, SweepReads, Crash, recvars, tables
  <2>2. QED
      BY <1>2, <2>1
<1>9. QED
    BY <1>3, <1>4, <1>5, <1>6, <1>7, <1>8 DEF RecNext

LEMMA LogsInit ==
    RecInit => PersistedLate /\ SweepsStopShort /\ LogsWhole /\ LogsDieWithTheirRoot
<1> SUFFICES ASSUME RecInit
             PROVE  PersistedLate /\ SweepsStopShort /\ LogsWhole /\ LogsDieWithTheirRoot
    OBVIOUS
<1>1. PersistedLate /\ SweepsStopShort /\ LogsWhole /\ LogsDieWithTheirRoot
    BY DEF RecInit, PersistedLate, SweepsStopShort, LogsWhole, LogsDieWithTheirRoot
<1>2. QED
    BY <1>1

\* Logs go with their root's record, and stay gone: whatever is pruned, deleted or swept,
\* in whatever order with runs that store, live or crash.
THEOREM LogsDie == RecSpec => []LogsDieWithTheirRoot
<1>1. RecInit => LogsDieWithTheirRoot
    BY LogsInit
<1>2. RecInv /\ LogsDieWithTheirRoot /\ [RecNext]_recvars => LogsDieWithTheirRoot'
    BY LogsDieStep
<1>3. QED
    BY <1>1, <1>2, RecInvHolds, PTL DEF RecSpec

\* The logs of a run live exactly as long as its root record, when no application
\* deletes what is younger than a run in progress: then the orphan sweep's exemption
\* and _delete_run_data_sync leave no hole in a persisted log, and nothing behind.
THEOREM LogsFollow ==
    ASSUME ~SweepLiveRuns
    PROVE  RecSpec => []LogsFollowTheirRoot
<1>1. RecInit => PersistedLate /\ SweepsStopShort /\ LogsWhole
    BY LogsInit
<1>2. RecInv /\ PersistedLate /\ SweepsStopShort /\ LogsWhole /\ [RecNext]_recvars
          => PersistedLate' /\ SweepsStopShort' /\ LogsWhole'
    BY PersistedStep, SweepsStep, LogsWholeStep DEF RecInv
<1>3. RecInv /\ LogsWhole => RecordedLogIsWhole
    BY DEF RecInv, RecTypeOK, LogsWhole, RecordedLogIsWhole
<1>4. RecordedLogIsWhole /\ LogsDieWithTheirRoot => LogsFollowTheirRoot
    BY DEF LogsFollowTheirRoot
<1>5. QED
    BY <1>1, <1>2, <1>3, <1>4, RecInvHolds, LogsDie, PTL DEF RecSpec

=============================================================================
