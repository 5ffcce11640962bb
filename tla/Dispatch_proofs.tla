-------------------------- MODULE Dispatch_proofs --------------------------
(***************************************************************************)
(* The tree uses the door as the door allows, so what is proved of the     *)
(* door holds of every run, whatever its tree and whatever its nodes do.   *)
(***************************************************************************)
EXTENDS Dispatch, ProviderDoor_proofs

\* The dispatch seam is the door's own time check, or nothing.
LEMMA SeamIsDoorStep == check_time => [Next]_vars
<1> SUFFICES ASSUME check_time PROVE [Next]_vars
    OBVIOUS
<1>1. CASE deadline_passed /\ tripped = NoTrip
  <2>1. CheckTime
      BY <1>1 DEF check_time, CheckTime
  <2>2. QED
      BY <2>1 DEF Next
<1>2. CASE ~(deadline_passed /\ tripped = NoTrip)
  <2>1. UNCHANGED breaker
      BY <1>2 DEF check_time, Trip
  <2>2. QED
      BY <2>1 DEF check_time, vars, breaker, room
<1>3. QED
    BY <1>1, <1>2

\* A call of the tree is a call at the door.
LEMMA CallIsDoorStep == \A c \in Calls : Call(c) => Next
<1> SUFFICES ASSUME NEW c \in Calls, Call(c) PROVE Next
    OBVIOUS
<1>1. CASE RefuseOnArrival(c) \/ FailWithoutKey(c) \/ AdmitOnArrival(c) \/ Wait(c)
                \/ CancelQueued(c)
    BY <1>1 DEF Next
<1>2. ASSUME NEW W \in SUBSET In("waiting"),
             AdmitAfterWait(c, W) \/ RefuseAfterWait(c, W) \/ LeaveCancelled(c, W)
      PROVE  Next
    BY <1>2 DEF Next
<1>3. ASSUME NEW W \in SUBSET In("waiting"), NEW u \in Usages \cup {NoUsage},
             NEW raised \in BOOLEAN, Settle(c, u, raised, W)
      PROVE  Next
    BY <1>3 DEF Next
<1>4. QED
    BY <1>1, <1>2, <1>3 DEF Call

LEMMA TreeStep == [TreeNext]_allvars => [Next]_vars
<1> SUFFICES ASSUME [TreeNext]_allvars PROVE [Next]_vars
    OBVIOUS
<1>1. CASE DeadlinePasses /\ UNCHANGED tree
    BY <1>1 DEF Next
<1>2. ASSUME NEW c \in Calls, Call(c)
      PROVE  [Next]_vars
    BY <1>2, CallIsDoorStep
<1>3. ASSUME NEW node \in Nodes, Start(node) \/ RefuseDispatch(node)
      PROVE  [Next]_vars
    BY <1>3, SeamIsDoorStep DEF Start, RefuseDispatch
<1>4. ASSUME NEW node \in Nodes,
             \/ Return(node) \/ Raise(node) \/ HandBack(node)
             \/ AskStop(node) \/ CancelTask(node) \/ Tear(node)
      PROVE  UNCHANGED vars
    BY <1>4 DEF Return, Raise, HandBack, AskStop, CancelTask, Tear
<1>5. CASE PersistCallLog \/ PersistDispatchLog
    BY <1>5 DEF PersistCallLog, PersistDispatchLog
<1>6. CASE UNCHANGED allvars
    BY <1>6 DEF allvars
<1>7. QED
    BY <1>1, <1>2, <1>3, <1>4, <1>5, <1>6 DEF TreeNext

\* Whatever its tree and its nodes, a run is one of the door's environments.
THEOREM TreeIsDoor == TreeSpec => TreeUsesDoor
<1>1. TreeInit => Init
    BY DEF TreeInit
<1>2. QED
    BY <1>1, TreeStep, PTL DEF TreeSpec, TreeUsesDoor, Spec

\* Every run keeps its chairs, its call limit, its bound on overshoot and its books, its
\* calls are served in order, its first trip is final, and it is a metered run.
THEOREM RunIsGoverned ==
    TreeSpec => /\ [](RoomSound /\ CallLimitHolds /\ OvershootBounded /\ BooksAddUp)
                /\ HaltIsFinal /\ NoOvertaking /\ MeterSpec
BY TreeIsDoor, DoorChairs, DoorCallLimit, DoorOvershoot, DoorBooks, DoorHaltIsFinal, DoorIsFair,
   DoorIsMetered, PTL DEF TreeUsesDoor

-----------------------------------------------------------------------------
(* Trees *)

Closed(S) == \A k \in S : Children(k) \subseteq S

\* Subtree[m] is the least set that holds m and the children of its members.
LEMMA SubtreeIsClosure ==
    ASSUME NEW m \in Nodes
    PROVE  /\ Subtree[m] \subseteq Nodes /\ m \in Subtree[m] /\ Closed(Subtree[m])
           /\ \A S \in SUBSET Nodes : m \in S /\ Closed(S) => Subtree[m] \subseteq S
<1>1. Subtree[m] = {x \in Nodes : \A S \in SUBSET Nodes : m \in S /\ Closed(S) => x \in S}
    BY DEF Subtree, Closed
<1>2. \A x : Children(x) \subseteq Nodes
    BY DEF Children
<1>3. Closed(Subtree[m])
    BY <1>1, <1>2 DEF Closed
<1>4. QED
    BY <1>1, <1>3

\* Below m are the children of what is at or below it, and their parents are too.
LEMMA SubtreeParents ==
    ASSUME NEW m \in Nodes, NEW x \in Subtree[m], x # m
    PROVE  x \in Nodes \ {Root} /\ Parent[x] \in Subtree[m] /\ x \in Children(Parent[x])
<1> DEFINE S == {y \in Subtree[m] : y = m \/ \E z \in Subtree[m] : y \in Children(z)}
<1>1. S \in SUBSET Nodes /\ m \in S
    BY SubtreeIsClosure
<1>2. Closed(S)
    BY SubtreeIsClosure DEF Closed
<1>3. x \in S
    BY <1>1, <1>2, SubtreeIsClosure
<1>4. PICK z \in Subtree[m] : x \in Children(z)
    BY <1>3
<1>5. QED
    BY <1>4 DEF Children

LEMMA SubtreeTransitive ==
    ASSUME NEW m \in Nodes, NEW x \in Subtree[m]
    PROVE  x \in Nodes /\ Subtree[x] \subseteq Subtree[m]
BY SubtreeIsClosure

\* Nothing is above the root.
LEMMA NothingAboveRoot ==
    ASSUME NEW m \in Nodes, Root \in Subtree[m]
    PROVE  m = Root
BY SubtreeParents

\* What the root leads to is a tree: no node is below a child of its own.
LEMMA NoCycles ==
    ASSUME NEW x \in Subtree[Root], NEW m \in Children(x)
    PROVE  x \notin Subtree[m]
<1> SUFFICES ASSUME x \in Subtree[m] PROVE FALSE
    OBVIOUS
<1>0. x \in Nodes /\ m \in Nodes \ {Root} /\ Parent[m] = x /\ Root \in Nodes
    BY TreeAssumption, SubtreeIsClosure DEF Children
<1>1. m \in Subtree[x]
    BY <1>0, SubtreeIsClosure DEF Closed
<1> DEFINE Z == {z \in Nodes : z \in Subtree[x] /\ x \in Subtree[z]}
           S == Nodes \ Z
<1>2. Root \notin Z
    BY <1>0, NothingAboveRoot
<1>3. Closed(S)
  <2> SUFFICES ASSUME NEW y \in S, NEW z \in Children(y), z \in Z
               PROVE  FALSE
      BY DEF Closed, Children
  <2>1. z \in Nodes \ {Root} /\ Parent[z] = y /\ y \in Nodes
      BY DEF Children
  <2>2. x \in Subtree[y]
    <3>1. z \in Subtree[y]
        BY <2>1, SubtreeIsClosure DEF Closed
    <3>2. QED
        BY <2>1, <3>1, SubtreeTransitive
  <2>3. y \in Subtree[x]
    <3>1. CASE z # x
        BY <1>0, <2>1, <3>1, SubtreeParents
    <3>2. CASE z = x /\ x # m
        BY <1>0, <1>1, <2>1, <3>2, SubtreeParents, SubtreeTransitive
    <3>3. CASE z = x /\ x = m
        BY <1>0, <2>1, <3>3, SubtreeIsClosure
    <3>4. QED
        BY <3>1, <3>2, <3>3
  <2>4. QED
      BY <2>1, <2>2, <2>3
<1>4. Subtree[Root] \subseteq S
    BY <1>0, <1>2, <1>3, SubtreeIsClosure
<1>5. x \in Z
    BY <1>0, SubtreeIsClosure
<1>6. QED
    BY <1>4, <1>5

\* The subtrees of two children of one node have nothing in common.
LEMMA SiblingsApart ==
    ASSUME NEW x \in Subtree[Root], NEW a \in Children(x), NEW b \in Children(x), a # b
    PROVE  Subtree[a] \cap Subtree[b] = {}
<1>1. /\ a \in Nodes \ {Root} /\ b \in Nodes \ {Root}
      /\ Parent[a] = x /\ Parent[b] = x
    BY DEF Children
<1>2. a \notin Subtree[b] /\ b \notin Subtree[a]
    BY <1>1, NoCycles, SubtreeParents
<1> DEFINE S == Subtree[a] \ Subtree[b]
<1>3. a \in S /\ S \in SUBSET Nodes
    BY <1>1, <1>2, SubtreeIsClosure
<1>4. Closed(S)
  <2> SUFFICES ASSUME NEW y \in S, NEW z \in Children(y)
               PROVE  z \in S
      BY DEF Closed
  <2>1. z \in Subtree[a]
      BY <1>1, SubtreeIsClosure DEF Closed
  <2>2. z \notin Subtree[b]
    <3>1. z \in Nodes \ {Root} /\ Parent[z] = y
        BY DEF Children
    <3>2. QED
        BY <1>1, <1>2, <2>1, <3>1, SubtreeParents
  <2>3. QED
      BY <2>1, <2>2
<1>5. QED
    BY <1>1, <1>3, <1>4, SubtreeIsClosure

\* A subtree is its root and the subtrees of its children.
LEMMA SubtreeUnfolds ==
    ASSUME NEW m \in Nodes
    PROVE  Subtree[m] = {m} \cup UNION {Subtree[x] : x \in Children(m)}
<1> DEFINE S == {m} \cup UNION {Subtree[x] : x \in Children(m)}
<1>1. Children(m) \subseteq Nodes
    BY DEF Children
<1>2. S \in SUBSET Nodes /\ m \in S
    BY <1>1, SubtreeIsClosure
<1>3. Closed(S)
  <2> SUFFICES ASSUME NEW y \in S, NEW z \in Children(y)
               PROVE  z \in S
      BY DEF Closed
  <2>1. CASE y = m
      BY <1>1, <2>1, SubtreeIsClosure
  <2>2. CASE y # m
    <3>1. PICK x \in Children(m) : y \in Subtree[x]
        BY <2>2
    <3>2. z \in Subtree[x]
        BY <1>1, <3>1, SubtreeIsClosure DEF Closed
    <3>3. QED
        BY <3>2
  <2>3. QED
      BY <2>1, <2>2
<1>4. Subtree[m] \subseteq S
    BY <1>2, <1>3, SubtreeIsClosure
<1>5. S \subseteq Subtree[m]
  <2>1. \A x \in Children(m) : x \in Subtree[m]
      BY SubtreeIsClosure DEF Closed
  <2>2. QED
      BY <2>1, SubtreeIsClosure, SubtreeTransitive
<1>6. QED
    BY <1>4, <1>5

-----------------------------------------------------------------------------
(* Type correctness of the tree *)

\* The rows of any set of nodes are rows of the log, and cost a natural number; those
\* counted cost no more.
LEMMA RowsType ==
    ASSUME TypeOK, NEW S
    PROVE  /\ Rows(S) \subseteq DOMAIN calls /\ IsFiniteSet(Rows(S))
           /\ Counted(S) \subseteq Rows(S) /\ IsFiniteSet(Counted(S))
           /\ CostOf(Rows(S)) \in Nat /\ CostOf(Counted(S)) \in Nat
           /\ CostOf(Counted(S)) <= CostOf(Rows(S))
<1>1. Rows(S) \subseteq DOMAIN calls /\ IsFiniteSet(Rows(S))
    BY LogRows, FS_Subset DEF Rows
<1>2. CostOf(Rows(S)) \in Nat
    BY <1>1, LogRows, SumType DEF CostOf, Costs
<1>3. Counted(S) \subseteq Rows(S) /\ IsFiniteSet(Counted(S))
    BY <1>1, FS_Subset DEF Counted
<1>4. CostOf(Counted(S)) \in Nat
    BY <1>1, <1>3, LogRows, SumType DEF CostOf, Costs
<1>5. CostOf(Counted(S)) <= CostOf(Rows(S))
    BY <1>1, <1>3, LogRows, SumMonotonic DEF CostOf, Costs
<1>6. QED
    BY <1>1, <1>2, <1>3, <1>4, <1>5

\* The children of a node, those that are done, and what their envelopes say.
Done(m) == {x \in Children(m) : phase[x] = "done"}
Reports == [x \in Nodes |-> result[x].cost]

LEMMA ChildrenType ==
    ASSUME TreeTypeOK, NEW m
    PROVE  /\ Children(m) \subseteq Nodes \ {Root} /\ IsFiniteSet(Children(m))
           /\ Done(m) \subseteq Children(m) /\ IsFiniteSet(Done(m))
           /\ \A x \in Nodes : Reports[x] = result[x].cost /\ Reports[x] \in Nat
<1>1. Children(m) \subseteq Nodes \ {Root} /\ Done(m) \subseteq Children(m)
    BY DEF Children, Done
<1>2. IsFiniteSet(Children(m)) /\ IsFiniteSet(Done(m))
    BY <1>1, TreeAssumption, FS_Subset
<1>3. \A x \in Nodes : Reports[x] = result[x].cost /\ Reports[x] \in Nat
    BY DEF Reports, TreeTypeOK, Envelope
<1>4. QED
    BY <1>1, <1>2, <1>3

LEMMA RollupType ==
    ASSUME TypeOK, TreeTypeOK, NEW m \in Nodes
    PROVE  /\ settled_spend_usd(m) \in Nat
           /\ counted_usd(m) \in Nat /\ counted_usd(m) <= settled_spend_usd(m)
           /\ Rollup(m) = counted_usd(m) + SumFunctionOnSet(Reports, Done(m))
           /\ SumFunctionOnSet(Reports, Done(m)) \in Nat
           /\ Rollup(m) \in Nat
<1>1. /\ settled_spend_usd(m) \in Nat
      /\ counted_usd(m) \in Nat /\ counted_usd(m) <= settled_spend_usd(m)
    BY RowsType DEF settled_spend_usd, counted_usd
<1>2. SumFunctionOnSet(Reports, Done(m)) \in Nat
  <2>1. \A x \in Done(m) : Reports[x] \in Nat
      BY ChildrenType
  <2>2. QED
      BY <2>1, ChildrenType, SumType
<1>3. Rollup(m) = counted_usd(m) + SumFunctionOnSet(Reports, Done(m))
    BY DEF Rollup, Reports, Done
<1>4. QED
    BY <1>1, <1>2, <1>3

\* What an ending node may hand over: its kinds, its stamp and its cost.
Kinds == {"none", "cancelled", "internal", "budget_exceeded"}
Says(f, kind, born, account, cost) ==
    /\ f \in Envelope
    /\ f.kind = kind /\ f.breaker_born = born /\ f.account = account /\ f.cost = cost

LEMMA EnvelopeForms ==
    ASSUME TypeOK, TreeTypeOK, NEW m \in Nodes
    PROVE  /\ Says(Success(m), "none", FALSE, "summed", Rollup(m))
           /\ \A kind \in Kinds \cup {"run_halted"}, born \in BOOLEAN :
                 Says(Failure(m, kind, born), kind, born, "summed", Rollup(m))
           /\ \A kind \in Kinds, born \in BOOLEAN :
                 Says(Backstop(m, kind, born), kind, born, "floor", settled_spend_usd(m))
<1>1. Rollup(m) \in Nat /\ settled_spend_usd(m) \in Nat
    BY RollupType
<1>2. Says(Success(m), "none", FALSE, "summed", Rollup(m))
    BY <1>1 DEF Success, Envelope, AccountKinds, Says
<1>3. ASSUME NEW kind \in Kinds \cup {"run_halted"}, NEW born \in BOOLEAN
      PROVE  Says(Failure(m, kind, born), kind, born, "summed", Rollup(m))
    BY <1>1 DEF Failure, Envelope, AccountKinds, Kinds, Says
<1>4. ASSUME NEW kind \in Kinds, NEW born \in BOOLEAN
      PROVE  Says(Backstop(m, kind, born), kind, born, "floor", settled_spend_usd(m))
    BY <1>1 DEF Failure, Backstop, Envelope, AccountKinds, Kinds, Says
<1>5. QED
    BY <1>2, <1>3, <1>4

\* What an envelope of a node's own code, or of its backstop, says.
Ended(m, e) ==
    /\ e \in Envelope
    /\ \/ e.account = "summed" /\ e.cost = Rollup(m)
       \/ e.account = "floor" /\ e.cost = settled_spend_usd(m)
       \/ e.account = "freely"
    /\ e.breaker_born = TRUE => \/ Halted(m)
                                \/ tripped # NoTrip /\ m \notin asked
                                \/ \E x \in Done(m) : result[x].breaker_born = TRUE
    /\ e.kind = "run_halted" => \E x \in Done(m) : result[x].kind = "run_halted"

LEMMA EndSays ==
    ASSUME TypeOK, TreeTypeOK, NEW m \in Nodes, NEW e \in Returns(m) \cup Raises(m)
    PROVE  Ended(m, e)
<1>0. /\ \A k \in Kinds : k # "run_halted"
      /\ {"none", "cancelled", "internal", "budget_exceeded"} = Kinds
    BY DEF Kinds
<1>1. Ended(m, Success(m))
  <2>1. Says(Success(m), "none", FALSE, "summed", Rollup(m))
      BY EnvelopeForms
  <2>2. QED
      BY <2>1 DEF Says, Ended
<1>2. ASSUME NEW k \in Kinds
      PROVE  Ended(m, Failure(m, k, FALSE)) /\ Ended(m, Backstop(m, k, FALSE))
  <2>1. /\ Says(Failure(m, k, FALSE), k, FALSE, "summed", Rollup(m))
        /\ Says(Backstop(m, k, FALSE), k, FALSE, "floor", settled_spend_usd(m))
      BY EnvelopeForms
  <2>2. QED
      BY <1>0, <2>1 DEF Says, Ended
<1>3. ASSUME Halted(m)
      PROVE  /\ Ended(m, Failure(m, "cancelled", TRUE))
             /\ Ended(m, Backstop(m, "cancelled", TRUE))
  <2>1. /\ Says(Failure(m, "cancelled", TRUE), "cancelled", TRUE, "summed", Rollup(m))
        /\ Says(Backstop(m, "cancelled", TRUE), "cancelled", TRUE, "floor",
                settled_spend_usd(m))
      BY <1>0, EnvelopeForms
  <2>2. QED
      BY <1>3, <2>1 DEF Says, Ended
<1>4. ASSUME NEW x \in Done(m)
      PROVE  Ended(m, Failure(m, result[x].kind, result[x].breaker_born))
  <2>1. result[x] \in Envelope
      BY ChildrenType DEF TreeTypeOK
  <2>2. result[x].kind \in Kinds \cup {"run_halted"} /\ result[x].breaker_born \in BOOLEAN
      BY <2>1 DEF Envelope, Kinds
  <2>3. Says(Failure(m, result[x].kind, result[x].breaker_born),
             result[x].kind, result[x].breaker_born, "summed", Rollup(m))
      BY <2>2, EnvelopeForms
  <2>4. QED
      BY <2>3 DEF Says, Ended
<1>5. ASSUME tripped # NoTrip \/ m \in asked
      PROVE  Ended(m, Checkpoint(m))
  <2>1. CASE m \in asked
    <3>1. Checkpoint(m) = Failure(m, "cancelled", FALSE)
        BY <2>1 DEF Checkpoint, Failure
    <3>2. QED
        BY <1>0, <1>2, <3>1
  <2>2. CASE m \notin asked
    <3>1. Checkpoint(m) = Failure(m, "cancelled", TRUE)
        BY <2>2 DEF Checkpoint, Failure
    <3>2. Says(Failure(m, "cancelled", TRUE), "cancelled", TRUE, "summed", Rollup(m))
        BY <1>0, EnvelopeForms
    <3>3. QED
        BY <1>5, <2>2, <3>1, <3>2 DEF Says, Ended
  <2>3. QED
      BY <2>1, <2>2
<1>7. CASE e \in Raises(m)
    BY <1>0, <1>2, <1>3, <1>7 DEF Raises
<1>8. CASE e \in Returns(m) /\ m \in Custom
  <2>1. ASSUME NEW f \in CustomEnd(m)
        PROVE  Ended(m, f)
    <3>1. \/ f = Success(m) \/ f = Failure(m, "internal", FALSE)
          \/ f = Failure(m, "cancelled", FALSE)
          \/ \E x \in Done(m) : f = Failure(m, result[x].kind, result[x].breaker_born)
        BY DEF CustomEnd, OwnEnd, Done
    <3>2. QED
        BY <1>0, <1>1, <1>2, <1>4, <3>1
  <2>2. ASSUME NEW f \in CustomEnd(m), NEW usd \in Receipts,
               e = Freely(f, usd)
        PROVE  Ended(m, e)
    <3>1. Ended(m, f) /\ usd \in Nat
        BY <2>1, TreeAssumption
    <3>2. /\ f \in Envelope /\ e \in Envelope /\ e.account = "freely"
          /\ e.kind = f.kind /\ e.breaker_born = f.breaker_born
        BY <2>2, <3>1 DEF Freely, Ended, Envelope, AccountKinds
    <3>3. QED
        BY <3>1, <3>2 DEF Ended
  <2>3. QED
      BY <1>8, <2>1, <2>2 DEF Returns, FreelyEnd
<1>9. CASE e \in Returns(m) /\ m \notin Custom
  <2>1. \/ e = Success(m) \/ e = Failure(m, "internal", FALSE)
        \/ e = Failure(m, "budget_exceeded", FALSE)
        \/ Halted(m) /\ e = Failure(m, "cancelled", TRUE)
        \/ (tripped # NoTrip \/ m \in asked) /\ e = Checkpoint(m)
    <3>1. e \in LlmEnd(m)
        BY <1>9 DEF Returns
    <3>2. QED
        BY <3>1 DEF LlmEnd, OwnEnd, Stopped
  <2>2. QED
      BY <1>0, <1>1, <1>2, <1>3, <1>5, <2>1
<1>10. QED
    BY <1>7, <1>8, <1>9

\* A node ends in one of two ways: its code comes to an end, or it is turned away.
Ending(m, e) ==
    /\ phase[m] = "running" /\ m \notin cancelled /\ (Structured => Awaited(m))
    /\ e \in Returns(m) \cup Raises(m) /\ SettleDispatch(m, e, FALSE) /\ UNCHANGED vars
TurnedAway(m) ==
    /\ Invoked(m) /\ check_time /\ tripped' # NoTrip /\ SettleDispatch(m, Refusal, TRUE)

\* The steps of a tree, by what they do to it.
LEMMA TreeStepKinds ==
    ASSUME [TreeNext]_allvars
    PROVE  \/ UNCHANGED tree /\ (UNCHANGED vars \/ DeadlinePasses)
           \/ \E c \in Calls : Call(c)
           \/ PersistCallLog \/ PersistDispatchLog
           \/ \E m \in Nodes : \/ Start(m) \/ TurnedAway(m)
                               \/ \E e : Ending(m, e)
                               \/ HandBack(m) \/ AskStop(m) \/ CancelTask(m) \/ Tear(m)
<1>1. ASSUME NEW m \in Nodes, Return(m) \/ Raise(m)
      PROVE  \E e : Ending(m, e)
    BY <1>1 DEF Return, Raise, Ending, Acting
<1>2. ASSUME NEW m \in Nodes, RefuseDispatch(m)
      PROVE  TurnedAway(m)
    BY <1>2 DEF RefuseDispatch, TurnedAway
<1>3. CASE UNCHANGED allvars
    BY <1>3 DEF allvars
<1>4. CASE TreeNext
    BY <1>1, <1>2, <1>4 DEF TreeNext
<1>5. QED
    BY <1>3, <1>4

LEMMA SettleType ==
    ASSUME TreeTypeOK, NEW m \in Nodes, NEW e \in Envelope, NEW refused \in BOOLEAN,
           SettleDispatch(m, e, refused)
    PROVE  TreeTypeOK'
<1>1. result' \in [Nodes -> Envelope] /\ phase' \in [Nodes -> Phases]
    BY DEF SettleDispatch, TreeTypeOK, Phases
<1>2. [node |-> m, status |-> IF refused THEN "refused" ELSE e.status]
         \in [node : Nodes, status : {"success", "failure", "refused"}]
    BY DEF Envelope
<1>3. dispatches' \in Seq([node : Nodes, status : {"success", "failure", "refused"}])
    BY <1>2 DEF SettleDispatch, Register, TreeTypeOK
<1>4. QED
    BY <1>1, <1>3 DEF SettleDispatch, TreeTypeOK

LEMMA TreeTypeStep == TypeOK /\ TreeTypeOK /\ [TreeNext]_allvars => TreeTypeOK'
<1> SUFFICES ASSUME TypeOK, TreeTypeOK, [TreeNext]_allvars PROVE TreeTypeOK'
    OBVIOUS
<1>1. CASE UNCHANGED tree
    BY <1>1 DEF tree, TreeTypeOK
<1>2. CASE PersistCallLog
  <2>1. Len(calls) \in Nat
      BY LogRows
  <2>2. QED
      BY <1>2, <2>1 DEF PersistCallLog, TreeTypeOK, Phases
<1>3. CASE PersistDispatchLog
  <2>1. Rewrite(result[Root]) \in Envelope
      BY TreeAssumption DEF Rewrite, TreeTypeOK, Envelope, TypeOK
  <2>2. QED
      BY <1>3, <2>1 DEF PersistDispatchLog, TreeTypeOK, Phases
<1>4. ASSUME NEW m \in Nodes, TurnedAway(m)
      PROVE  TreeTypeOK'
  <2>1. Refusal \in Envelope
      BY DEF Refusal, NoResult, Envelope, AccountKinds
  <2>2. QED
      BY <1>4, <2>1, SettleType DEF TurnedAway
<1>5. ASSUME NEW m \in Nodes, NEW e, Ending(m, e)
      PROVE  TreeTypeOK'
    BY <1>5, EndSays, SettleType DEF Ending, Ended
<1>6. ASSUME NEW m \in Nodes, Start(m) \/ HandBack(m) \/ Tear(m)
      PROVE  TreeTypeOK'
    BY <1>6 DEF Start, HandBack, Tear, TreeTypeOK, Phases
<1>7. ASSUME NEW m \in Nodes, AskStop(m) \/ CancelTask(m)
      PROVE  TreeTypeOK'
    BY <1>7, SubtreeIsClosure DEF AskStop, CancelTask, TreeTypeOK
<1>8. ASSUME NEW c \in Calls, Call(c)
      PROVE  UNCHANGED tree
    BY <1>8 DEF Call
<1>9. QED
    BY <1>1, <1>2, <1>3, <1>4, <1>5, <1>6, <1>7, <1>8, TreeStepKinds

\* Type correctness of a run.
THEOREM TreeTypes == TreeSpec => [](TypeOK /\ TreeTypeOK)
<1>1. TreeInit => TreeTypeOK
    BY DEF TreeInit, TreeTypeOK, Phases, Envelope, AccountKinds, NoResult
<1>2. TreeSpec => []TypeOK
    BY TreeIsDoor, DoorTypes, PTL DEF TreeUsesDoor
<1>3. QED
    BY <1>1, <1>2, TreeTypeStep, PTL DEF TreeSpec

-----------------------------------------------------------------------------
(* The nest: what runs, runs inside something that runs *)

\* A call of the tree belongs to a node that acts, or is at the door already, and
\* leaves at most a row of its own.
LEMMA CallMoves ==
    ASSUME TypeOK, TypeOK', NEW c \in Calls, Call(c)
    PROVE  /\ UNCHANGED tree
           /\ \/ pc[c] = "new" /\ Acting(NodeOf[c])
              \/ pc[c] \notin {"new", "done"}
           /\ \A d \in Calls : /\ pc'[d] # "new" => d = c \/ pc[d] # "new"
                               /\ pc'[d] \notin {"new", "done"}
                                     => d = c \/ pc[d] \notin {"new", "done"}
           /\ \/ calls' = calls
              \/ \E r \in Row : r.call = c /\ calls' = Append(calls, r)
<1>1. UNCHANGED tree
    BY DEF Call
<1>2. \/ pc[c] = "new" /\ Acting(NodeOf[c])
      \/ pc[c] \notin {"new", "done"}
    BY DEF Call, CancelQueued, AdmitAfterWait, RefuseAfterWait, LeaveCancelled, Settle
<1>3. \E stage, W : W \subseteq In("waiting") /\ Move(c, stage, W)
  <2>1. CASE \/ RefuseOnArrival(c) \/ FailWithoutKey(c) \/ AdmitOnArrival(c) \/ Wait(c)
             \/ CancelQueued(c)
    <3>1. \E stage : Move(c, stage, {})
        BY <2>1 DEF RefuseOnArrival, FailWithoutKey, AdmitOnArrival, Wait, CancelQueued
    <3>2. QED
        BY <3>1
  <2>2. CASE \E W \in SUBSET In("waiting") :
                \/ AdmitAfterWait(c, W) \/ RefuseAfterWait(c, W) \/ LeaveCancelled(c, W)
                \/ \E u \in Usages \cup {NoUsage}, raised \in BOOLEAN : Settle(c, u, raised, W)
      BY <2>2 DEF AdmitAfterWait, RefuseAfterWait, LeaveCancelled, Settle
  <2>3. QED
      BY <2>1, <2>2 DEF Call
<1>4. \A d \in Calls : /\ pc'[d] # "new" => d = c \/ pc[d] # "new"
                       /\ pc'[d] \notin {"new", "done"}
                             => d = c \/ pc[d] \notin {"new", "done"}
    BY <1>3 DEF Move, In
<1>5. calls' = calls \/ \E r : r.call = c /\ calls' = Append(calls, r)
    BY DEF Call, RefuseOnArrival, FailWithoutKey, AdmitOnArrival, Wait, CancelQueued,
           AdmitAfterWait, RefuseAfterWait, LeaveCancelled, Settle, Refuse, Admit, Book,
           LogSettled
<1>6. ASSUME NEW r, calls' = Append(calls, r)
      PROVE  r \in Row
  <2>1. calls \in Seq(Row) /\ calls' \in Seq(Row)
      BY DEF TypeOK
  <2>2. Len(calls) \in Nat
      BY LogRows
  <2>3. Len(calls') = Len(calls) + 1 /\ calls'[Len(calls) + 1] = r
      BY <1>6, <2>1
  <2>4. QED
      BY <2>1, <2>2, <2>3, ElementOfSeq
<1>7. QED
    BY <1>1, <1>2, <1>4, <1>5, <1>6

\* What has started hangs from the root, below what has started before; the root's
\* own task is nobody's to cancel, and it alone writes the logs.
Grown ==
    /\ \A n \in Nodes : phase[n] # "new" =>
          n \in Subtree[Root] /\ (n # Root => phase[Parent[n]] # "new")
    /\ \A c \in Calls : pc[c] # "new" => phase[NodeOf[c]] # "new"
    /\ Root \notin cancelled
    /\ \A n \in Nodes : phase[n] \in {"logging", "registering"} => n = Root

\* A node runs as long as anything it started has not come back.
Nested ==
    /\ \A n \in Nodes \ {Root} : n \in Busy => phase[Parent[n]] = "running"
    /\ \A c \in Calls : pc[c] \notin {"new", "done"} => phase[NodeOf[c]] = "running"

LEMMA GrownStep ==
    ASSUME TypeOK, TypeOK', TreeTypeOK, Grown, [TreeNext]_allvars
    PROVE  Grown'
<1>0. Root \in Nodes /\ Parent \in [Nodes \ {Root} -> Nodes] /\ NodeOf \in [Calls -> Nodes]
    BY TreeAssumption
<1>1. ASSUME NEW m \in Nodes, Invoked(m)
      PROVE  m \in Subtree[Root] /\ (m # Root => phase[Parent[m]] # "new")
  <2>1. CASE m = Root
      BY <1>0, <2>1, SubtreeIsClosure
  <2>2. CASE m # Root
    <3>1. Parent[m] \in Nodes /\ phase[Parent[m]] = "running"
        BY <1>0, <1>1, <2>2 DEF Invoked, Acting
    <3>2. Parent[m] \in Subtree[Root] /\ m \in Children(Parent[m])
        BY <2>2, <3>1 DEF Grown, Children
    <3>3. QED
        BY <1>0, <2>2, <3>1, <3>2, SubtreeIsClosure DEF Closed
  <2>3. QED
      BY <2>1, <2>2
<1>2. ASSUME NEW m \in Nodes, NEW p \in Phases \ {"new"}, phase' = [phase EXCEPT ![m] = p],
             phase[m] # "new" \/ Invoked(m), p \in {"logging", "registering"} => m = Root,
             UNCHANGED <<pc, cancelled>>
      PROVE  Grown'
  <2>1. \A n \in Nodes : phase'[n] = IF n = m THEN p ELSE phase[n]
      BY <1>2 DEF TreeTypeOK
  <2>2. \A n \in Nodes : phase'[n] # "new" =>
            n \in Subtree[Root] /\ (n # Root => phase[Parent[n]] # "new")
      BY <1>1, <1>2, <2>1 DEF Grown
  <2>3. \A n \in Nodes \ {Root} : phase[Parent[n]] # "new" => phase'[Parent[n]] # "new"
      BY <1>0, <1>2, <2>1
  <2>4. QED
      BY <1>0, <1>2, <2>1, <2>2, <2>3 DEF Grown
<1>3. ASSUME NEW c \in Calls, Call(c)
      PROVE  Grown'
  <2>1. phase' = phase /\ cancelled' = cancelled
      BY <1>3, CallMoves DEF tree
  <2>2. phase[NodeOf[c]] # "new"
      BY <1>3, CallMoves DEF Grown, Acting
  <2>3. \A d \in Calls : pc'[d] # "new" => phase[NodeOf[d]] # "new"
      BY <1>3, <2>2, CallMoves DEF Grown
  <2>4. QED
      BY <2>1, <2>3 DEF Grown
<1>4. CASE UNCHANGED tree /\ (UNCHANGED vars \/ DeadlinePasses)
    BY <1>4 DEF tree, vars, DeadlinePasses, Grown
<1>5. CASE PersistCallLog
    BY <1>0, <1>2, <1>5 DEF PersistCallLog, vars, Phases
<1>6. CASE PersistDispatchLog
    BY <1>0, <1>2, <1>6 DEF PersistDispatchLog, vars, Phases
<1>7. ASSUME NEW m \in Nodes, Start(m)
      PROVE  Grown'
    BY <1>2, <1>7 DEF Start, check_time, Phases
<1>8. ASSUME NEW m \in Nodes, TurnedAway(m)
      PROVE  Grown'
    BY <1>2, <1>8 DEF TurnedAway, SettleDispatch, check_time, Phases
<1>9. ASSUME NEW m \in Nodes, NEW e, Ending(m, e)
      PROVE  Grown'
    BY <1>2, <1>9 DEF Ending, SettleDispatch, vars, Phases
<1>10. ASSUME NEW m \in Nodes, HandBack(m) \/ Tear(m)
       PROVE  Grown'
    BY <1>2, <1>10 DEF HandBack, Tear, Busy, vars, Phases
<1>11. ASSUME NEW m \in Nodes, AskStop(m)
       PROVE  Grown'
    BY <1>11 DEF AskStop, vars, Grown
<1>12. ASSUME NEW m \in Nodes, CancelTask(m)
       PROVE  Grown'
  <2>1. m \in Nodes \ {Root}
      BY <1>12, TreeAssumption DEF CancelTask
  <2>2. Root \notin Subtree[m]
      BY <1>0, <2>1, NothingAboveRoot
  <2>3. QED
      BY <1>12, <2>2 DEF CancelTask, vars, Grown
<1>13. QED
    BY <1>3, <1>4, <1>5, <1>6, <1>7, <1>8, <1>9, <1>10, <1>11, <1>12, TreeStepKinds

LEMMA NestedStep ==
    ASSUME Structured, TypeOK, TypeOK', TreeTypeOK, Grown, Nested, [TreeNext]_allvars
    PROVE  Nested'
<1>0. Root \in Nodes /\ Parent \in [Nodes \ {Root} -> Nodes] /\ NodeOf \in [Calls -> Nodes]
    BY TreeAssumption
<1>1. ASSUME NEW m \in Nodes, NEW p \in Phases, phase' = [phase EXCEPT ![m] = p],
             phase[m] = "running" => Awaited(m),
             phase[m] = "new" => Invoked(m),
             phase[m] \in {"done", "torn"} => p \in {"done", "torn"},
             UNCHANGED pc
      PROVE  Nested'
  <2>1. \A n \in Nodes : phase'[n] = IF n = m THEN p ELSE phase[n]
      BY <1>1 DEF TreeTypeOK
  <2>2. ASSUME NEW n \in Nodes \ {Root}, phase'[n] \notin {"new", "done", "torn"}
        PROVE  phase'[Parent[n]] = "running"
    <3>1. phase[Parent[n]] = "running"
      <4>1. CASE n = m /\ phase[m] = "new"
          BY <1>1, <4>1 DEF Invoked, Acting
      <4>2. CASE n # m \/ phase[m] # "new"
          BY <1>1, <2>1, <2>2, <4>2 DEF Nested, Busy
      <4>3. QED
          BY <4>1, <4>2
    <3>2. Parent[n] # m
      <4>1. SUFFICES ASSUME Parent[n] = m PROVE FALSE
          OBVIOUS
      <4>2. Awaited(m) /\ n \in Children(m)
          BY <1>1, <3>1, <4>1 DEF Children
      <4>3. n \notin Busy
          BY <4>2 DEF Awaited
      <4>4. CASE n # m
          BY <2>1, <2>2, <4>3, <4>4 DEF Busy
      <4>5. CASE n = m
          BY <3>1, <4>1, <4>3, <4>5 DEF Busy
      <4>6. QED
          BY <4>4, <4>5
    <3>3. QED
        BY <1>0, <2>1, <3>1, <3>2
  <2>3. ASSUME NEW c \in Calls, pc'[c] \notin {"new", "done"}
        PROVE  phase'[NodeOf[c]] = "running"
    <3>1. phase[NodeOf[c]] = "running" /\ pc[c] \notin {"new", "done"}
        BY <1>1, <2>3 DEF Nested
    <3>2. NodeOf[c] # m
        BY <1>1, <3>1 DEF Awaited, AtDoor
    <3>3. QED
        BY <1>0, <2>1, <3>1, <3>2
  <2>4. QED
      BY <2>2, <2>3 DEF Nested, Busy
<1>3. ASSUME NEW c \in Calls, Call(c)
      PROVE  Nested'
  <2>1. phase' = phase
      BY <1>3, CallMoves DEF tree
  <2>2. phase[NodeOf[c]] = "running"
      BY <1>3, CallMoves DEF Nested, Acting
  <2>3. \A d \in Calls : pc'[d] \notin {"new", "done"} => phase[NodeOf[d]] = "running"
      BY <1>3, <2>2, CallMoves DEF Nested
  <2>4. QED
      BY <2>1, <2>3 DEF Nested, Busy
<1>4. CASE UNCHANGED tree /\ (UNCHANGED vars \/ DeadlinePasses)
    BY <1>4 DEF tree, vars, DeadlinePasses, Nested, Busy
<1>5. CASE PersistCallLog
    BY <1>0, <1>1, <1>5 DEF PersistCallLog, vars, Phases
<1>6. CASE PersistDispatchLog
    BY <1>0, <1>1, <1>6 DEF PersistDispatchLog, vars, Phases
<1>7. ASSUME NEW m \in Nodes, Start(m)
      PROVE  Nested'
    BY <1>1, <1>7 DEF Start, check_time, Phases, Invoked
<1>8. ASSUME NEW m \in Nodes, TurnedAway(m)
      PROVE  Nested'
    BY <1>1, <1>8 DEF TurnedAway, SettleDispatch, check_time, Phases, Invoked
<1>9. ASSUME NEW m \in Nodes, NEW e, Ending(m, e)
      PROVE  Nested'
    BY <1>1, <1>9 DEF Ending, SettleDispatch, vars, Phases
<1>10. ASSUME NEW m \in Nodes, HandBack(m) \/ Tear(m)
       PROVE  Nested'
    BY <1>1, <1>10 DEF HandBack, Tear, Busy, vars, Phases
<1>11. ASSUME NEW m \in Nodes, AskStop(m) \/ CancelTask(m)
       PROVE  Nested'
    BY <1>11 DEF AskStop, CancelTask, vars, Nested, Busy
<1>12. QED
    BY <1>3, <1>4, <1>5, <1>6, <1>7, <1>8, <1>9, <1>10, <1>11, TreeStepKinds

\* Below a node that does not run, nothing runs; below one that never started,
\* nothing started.
LEMMA StillBelow ==
    ASSUME Nested, NEW k \in Nodes, phase[k] # "running", NEW m \in Subtree[k]
    PROVE  /\ m # k => m \notin Busy
           /\ phase[m] # "running"
<1> DEFINE S == {x \in Nodes : x = k \/ x \notin Busy}
<1>1. k \in S /\ S \in SUBSET Nodes
    OBVIOUS
<1>2. \A x \in S : phase[x] # "running"
    BY DEF Busy
<1>3. Closed(S)
    BY <1>2 DEF Closed, Children, Nested
<1>4. m \in S
    BY <1>1, <1>3, SubtreeIsClosure
<1>5. QED
    BY <1>2, <1>4

LEMMA NothingBelow ==
    ASSUME Grown, NEW k \in Nodes, phase[k] = "new", NEW m \in Subtree[k]
    PROVE  phase[m] = "new"
<1> DEFINE S == {x \in Nodes : phase[x] = "new"}
<1>1. k \in S /\ S \in SUBSET Nodes
    OBVIOUS
<1>2. Closed(S)
    BY DEF Closed, Children, Grown
<1>3. m \in S
    BY <1>1, <1>2, SubtreeIsClosure
<1>4. QED
    BY <1>3

\* A dispatch is only ever begun below one that was, and a call at one that was.
THEOREM TreeGrows == TreeSpec => [](TypeOK /\ TreeTypeOK /\ Grown)
<1>1. TreeInit => Grown
    BY DEF TreeInit, Init, Grown
<1>2. TypeOK /\ TreeTypeOK /\ Grown /\ [TreeNext]_allvars /\ TypeOK' => Grown'
    BY GrownStep
<1>3. QED
    BY <1>1, <1>2, TreeTypes, PTL DEF TreeSpec

\* When authors await what they start, nothing is at work below a dispatch that ended.
THEOREM TreeNests == ASSUME Structured PROVE TreeSpec => []Nested
<1>1. TreeInit => Nested
    BY TreeAssumption DEF TreeInit, Init, Nested, Busy
<1>2. TypeOK /\ TypeOK' /\ TreeTypeOK /\ Grown /\ Nested /\ [TreeNext]_allvars => Nested'
    BY NestedStep
<1>3. QED
    BY <1>1, <1>2, TreeGrows, PTL DEF TreeSpec

\* Once the root has ended the door is quiet: no call is at it, and none comes.
LEMMA RootEnded ==
    ASSUME Grown, Nested, phase[Root] \notin {"new", "running"}
    PROVE  /\ \A n \in Nodes : phase[n] # "running" /\ (n # Root => n \notin Busy)
           /\ \A c \in Calls : pc[c] \in {"new", "done"}
<1>1. ASSUME NEW n \in Nodes
      PROVE  phase[n] # "running" /\ (n # Root => n \notin Busy)
  <2>1. CASE phase[n] = "new"
      BY <2>1 DEF Busy
  <2>2. CASE phase[n] # "new"
      BY <2>2, StillBelow, TreeAssumption DEF Grown
  <2>3. QED
      BY <2>1, <2>2
<1>2. QED
    BY <1>1, TreeAssumption DEF Nested

\* When authors await every child before they return or raise, no provider call is
\* in flight when the run returns and its clients are closed.
THEOREM QuietReturn == ASSUME Structured PROVE TreeSpec => []EveryCallSettledAtReturn
<1>1. Grown /\ Nested => EveryCallSettledAtReturn
    BY RootEnded DEF EveryCallSettledAtReturn, In
<1>2. QED
    BY <1>1, TreeGrows, TreeNests, PTL

-----------------------------------------------------------------------------
(* The register *)

\* No dispatch comes to its end, but by being torn.
NothingEnds == \A n \in Nodes :
    /\ phase'[n] \in {"new", "running"} => phase[n] \in {"new", "running"}
    /\ phase'[n] \notin {"new", "running", "torn"} =>
          phase[n] \notin {"new", "running", "torn"}

\* What a step does to the register: nothing, or one row for the node it ends.
LEMMA RegisterGrows ==
    ASSUME TypeOK, TreeTypeOK, [TreeNext]_allvars
    PROVE  \/ dispatches' = dispatches /\ NothingEnds
           \/ \E m \in Nodes, status \in {"success", "failure", "refused"} :
                 /\ dispatches' = Append(dispatches, [node |-> m, status |-> status])
                 /\ \/ Invoked(m) /\ phase[m] = "new" /\ status = "refused"
                    \/ phase[m] = "running" /\ status # "refused"
                 /\ phase'[m] \in {"logging", "recording"}
                 /\ \A n \in Nodes \ {m} : phase'[n] = phase[n]
<1>1. ASSUME NEW m \in Nodes, NEW e \in Envelope, NEW refused \in BOOLEAN,
             SettleDispatch(m, e, refused),
             IF refused THEN Invoked(m) ELSE phase[m] = "running"
      PROVE  \E status \in {"success", "failure", "refused"} :
                 /\ dispatches' = Append(dispatches, [node |-> m, status |-> status])
                 /\ \/ Invoked(m) /\ phase[m] = "new" /\ status = "refused"
                    \/ phase[m] = "running" /\ status # "refused"
                 /\ phase'[m] \in {"logging", "recording"}
                 /\ \A n \in Nodes \ {m} : phase'[n] = phase[n]
  <2>1. /\ phase'[m] \in {"logging", "recording"}
        /\ \A n \in Nodes \ {m} : phase'[n] = phase[n]
      BY <1>1 DEF SettleDispatch, TreeTypeOK
  <2>2. e.status \in {"success", "failure"}
      BY DEF Envelope
  <2>3. CASE refused
      BY <1>1, <2>1, <2>3 DEF SettleDispatch, Register, Invoked
  <2>4. CASE ~refused
      BY <1>1, <2>1, <2>2, <2>4 DEF SettleDispatch, Register
  <2>5. QED
      BY <2>3, <2>4
<1>2. ASSUME NEW m \in Nodes, TurnedAway(m)
      PROVE  Refusal \in Envelope /\ SettleDispatch(m, Refusal, TRUE) /\ Invoked(m)
    BY <1>2 DEF TurnedAway, Refusal, NoResult, Envelope, AccountKinds
<1>3. ASSUME NEW m \in Nodes, NEW e, Ending(m, e)
      PROVE  e \in Envelope /\ SettleDispatch(m, e, FALSE) /\ phase[m] = "running"
    BY <1>3, EndSays DEF Ending, Ended
<1>4. ASSUME NEW m \in Nodes, NEW p, phase' = [phase EXCEPT ![m] = p],
             \/ phase[m] = "new" /\ p = "running"
             \/ phase[m] \notin {"new", "torn", "done"} /\ p = "torn"
             \/ /\ phase[m] \notin {"new", "running", "torn"}
                /\ p \in {"registering", "recording", "done"},
             dispatches' = dispatches
      PROVE  /\ dispatches' = dispatches
             /\ NothingEnds
  <2>1. \A n \in Nodes : phase'[n] = IF n = m THEN p ELSE phase[n]
      BY <1>4 DEF TreeTypeOK
  <2>2. QED
      BY <1>4, <2>1 DEF NothingEnds
<1>5. CASE UNCHANGED <<phase, dispatches>>
    BY <1>5 DEF NothingEnds
<1>6. CASE PersistCallLog \/ PersistDispatchLog
    BY <1>4, <1>6, TreeAssumption DEF PersistCallLog, PersistDispatchLog
<1>7. ASSUME NEW m \in Nodes, Start(m) \/ HandBack(m) \/ Tear(m)
      PROVE  /\ dispatches' = dispatches
             /\ NothingEnds
  <2>1. CASE Start(m)
    <3>1. phase[m] = "new" /\ phase' = [phase EXCEPT ![m] = "running"]
          /\ dispatches' = dispatches
        BY <2>1 DEF Start, Invoked
    <3>2. QED
        BY <3>1 DEF TreeTypeOK, NothingEnds
  <2>2. CASE HandBack(m)
      BY <1>4, <2>2 DEF HandBack
  <2>3. CASE Tear(m)
      BY <1>4, <2>3 DEF Tear, Busy
  <2>4. QED
      BY <1>7, <2>1, <2>2, <2>3
<1>8. ASSUME \/ UNCHANGED tree
             \/ \E c \in Calls : Call(c)
             \/ \E m \in Nodes : AskStop(m) \/ CancelTask(m)
      PROVE  UNCHANGED <<phase, dispatches>>
    BY <1>8 DEF Call, tree, AskStop, CancelTask
<1>9. CASE \E m \in Nodes : TurnedAway(m) \/ \E e : Ending(m, e)
    BY <1>1, <1>2, <1>3, <1>9, Zenon
<1>10. QED
    BY <1>5, <1>6, <1>7, <1>8, <1>9, TreeStepKinds

LEMMA RegisterStep ==
    ASSUME TypeOK, TreeTypeOK, Grown, Nested, RegisterIsTheTree, [TreeNext]_allvars
    PROVE  RegisterIsTheTree'
<1>1. CASE UNCHANGED dispatches
           /\ NothingEnds
    BY <1>1 DEF RegisterIsTheTree, Registered, NothingEnds
<1>2. ASSUME NEW m \in Nodes, NEW status \in {"success", "failure", "refused"},
             dispatches' = Append(dispatches, [node |-> m, status |-> status]),
             \/ Invoked(m) /\ phase[m] = "new"
             \/ phase[m] = "running",
             phase'[m] \in {"logging", "recording"},
             \A n \in Nodes \ {m} : phase'[n] = phase[n]
      PROVE  RegisterIsTheTree'
  <2> DEFINE k == Len(dispatches) + 1
             D == [node : Nodes, status : {"success", "failure", "refused"}]
  <2>1. /\ Len(dispatches) \in Nat /\ DOMAIN dispatches = 1..Len(dispatches)
        /\ \A i \in DOMAIN dispatches : dispatches[i].node \in Nodes
    <3>1. dispatches \in Seq(D)
        BY DEF TreeTypeOK
    <3>2. Len(dispatches) \in Nat /\ DOMAIN dispatches = 1..Len(dispatches)
        BY <3>1, LenProperties
    <3>3. \A i \in DOMAIN dispatches : dispatches[i] \in D
        BY <3>1, <3>2, ElementOfSeq
    <3>4. QED
        BY <3>2, <3>3
  <2>2. /\ DOMAIN dispatches' = DOMAIN dispatches \cup {k}
        /\ dispatches'[k].node = m
        /\ \A i \in DOMAIN dispatches : dispatches'[i] = dispatches[i] /\ i < k
    <3>1. [node |-> m, status |-> status] \in D
        OBVIOUS
    <3>2. dispatches \in Seq(D)
        BY DEF TreeTypeOK
    <3> HIDE DEF D
    <3>3. /\ Len(dispatches') = k /\ DOMAIN dispatches' = 1..k
          /\ dispatches'[k] = [node |-> m, status |-> status]
          /\ \A i \in 1..Len(dispatches) : dispatches'[i] = dispatches[i]
        BY <1>2, <2>1, <3>1, <3>2, AppendProperties, LenProperties
    <3>4. QED
        BY <2>1, <3>3
  <2> HIDE DEF k
  <2>3. Registered' = Registered \cup {m}
      BY <2>2 DEF Registered
  <2>4. \A i \in DOMAIN dispatches : m \notin Subtree[dispatches[i].node]
    <3> SUFFICES ASSUME NEW i \in DOMAIN dispatches, m \in Subtree[dispatches[i].node]
                 PROVE  FALSE
        OBVIOUS
    <3> DEFINE a == dispatches[i].node
    <3>1. a \in Nodes /\ a \in Registered
        BY <2>1 DEF Registered
    <3>2. phase[a] \notin {"new", "running"}
        BY <3>1 DEF RegisterIsTheTree
    <3> HIDE DEF a
    <3>3. m \in Subtree[a] /\ m # a
        BY <1>2, <3>2 DEF a
    <3>4. phase[m] # "running"
        BY <3>1, <3>2, <3>3, StillBelow
    <3>5. Invoked(m) /\ Parent[m] \in Subtree[a] /\ m # Root
        BY <1>2, <3>1, <3>3, <3>4, SubtreeParents
    <3>6. phase[Parent[m]] # "running"
        BY <3>1, <3>2, <3>5, StillBelow
    <3>7. QED
        BY <3>5, <3>6 DEF Invoked, Acting
  <2>5. \A i, j \in DOMAIN dispatches' : i < j =>
            dispatches'[j].node \notin Subtree[dispatches'[i].node]
    <3>0. \A i \in DOMAIN dispatches : i \in Nat /\ k \in Nat
        BY <2>1 DEF k
    <3>1. ASSUME NEW i \in DOMAIN dispatches', NEW j \in DOMAIN dispatches', i < j
          PROVE  i \in DOMAIN dispatches
        BY <2>2, <3>0, <3>1 DEF k
    <3>2. QED
        BY <2>2, <2>4, <3>1 DEF RegisterIsTheTree
  <2>6. \A n \in Nodes :
            /\ phase'[n] \in {"new", "running"} => n \notin Registered'
            /\ phase'[n] \notin {"new", "running", "torn"} => n \in Registered'
      BY <1>2, <2>3 DEF RegisterIsTheTree
  <2>7. QED
      BY <2>5, <2>6 DEF RegisterIsTheTree
<1>3. QED
    BY <1>1, <1>2, RegisterGrows

\* When authors await what they start, the register is the tree: a row for each
\* dispatch that ended, a child's before its parent's.
THEOREM RegisterTree == ASSUME Structured PROVE TreeSpec => []RegisterIsTheTree
<1>1. TreeInit => RegisterIsTheTree
    BY DEF TreeInit, RegisterIsTheTree, Registered
<1>2. TypeOK /\ TreeTypeOK /\ Grown /\ Nested /\ RegisterIsTheTree /\ [TreeNext]_allvars
        => RegisterIsTheTree'
    BY RegisterStep
<1>3. QED
    BY <1>1, <1>2, TreeGrows, TreeNests, PTL DEF TreeSpec

\* Once a fuse has tripped nothing starts, and refused is what never ran.
THEOREM TripIsFinal == TreeSpec => NothingStartsAfterTrip
<1> DEFINE Step ==
        /\ tripped' # NoTrip =>
              /\ \A n \in Nodes : phase'[n] = "running" => phase[n] = "running"
              /\ In("inflight")' \subseteq In("inflight")
        /\ Len(dispatches') > Len(dispatches) =>
              LET row == dispatches'[Len(dispatches')]
              IN  row.status = "refused" <=> phase[row.node] = "new"
<1>1. ASSUME TypeOK, TreeTypeOK, [TreeNext]_allvars
      PROVE  Step
  <2>1. ASSUME tripped' # NoTrip, NEW n \in Nodes, phase'[n] = "running"
        PROVE  phase[n] = "running"
    <3>1. ASSUME NEW m \in Nodes, NEW p, phase' = [phase EXCEPT ![m] = p], p # "running"
          PROVE  phase[n] = "running"
        BY <2>1, <3>1 DEF TreeTypeOK
    <3>2. CASE UNCHANGED tree \/ \E c \in Calls : Call(c)
        BY <2>1, <3>2 DEF tree, Call
    <3>3. CASE PersistCallLog \/ PersistDispatchLog
        BY <3>1, <3>3, TreeAssumption DEF PersistCallLog, PersistDispatchLog
    <3>4. ASSUME NEW m \in Nodes, TurnedAway(m) \/ \E e : Ending(m, e)
          PROVE  phase[n] = "running"
        BY <3>1, <3>4 DEF TurnedAway, Ending, SettleDispatch
    <3>5. ASSUME NEW m \in Nodes, HandBack(m) \/ Tear(m)
          PROVE  phase[n] = "running"
        BY <3>1, <3>5 DEF HandBack, Tear
    <3>6. ASSUME NEW m \in Nodes, AskStop(m) \/ CancelTask(m)
          PROVE  phase[n] = "running"
        BY <2>1, <3>6 DEF AskStop, CancelTask
    <3>7. ASSUME NEW m \in Nodes
          PROVE  ~Start(m)
        BY <2>1 DEF Start
    <3>8. QED
        BY <1>1, <3>2, <3>3, <3>4, <3>5, <3>6, <3>7, TreeStepKinds
  <2>2. ASSUME tripped' # NoTrip
        PROVE  InFlight' \subseteq InFlight
    <3>1. [Next]_vars
        BY <1>1, TreeStep
    <3>2. ASSUME NEW c \in Calls PROVE ~Admission(c)
        BY <2>2 DEF Admission, Admit, DueFuse, breaker
    <3>3. QED
        BY <1>1, <3>1, <3>2, StepKinds
        DEF Quiet, TimeTrip, RefusedCall, Settlement
  <2>3. ASSUME Len(dispatches') > Len(dispatches)
        PROVE  LET row == dispatches'[Len(dispatches')]
               IN  row.status = "refused" <=> phase[row.node] = "new"
    <3>1. dispatches \in Seq([node : Nodes, status : {"success", "failure", "refused"}])
          /\ Len(dispatches) \in Nat
        BY <1>1, LenProperties DEF TreeTypeOK
    <3>2. dispatches' # dispatches
        BY <2>3, <3>1
    <3>3. PICK m \in Nodes, status \in {"success", "failure", "refused"} :
              /\ dispatches' = Append(dispatches, [node |-> m, status |-> status])
              /\ \/ phase[m] = "new" /\ status = "refused"
                 \/ phase[m] = "running" /\ status # "refused"
        BY <1>1, <3>2, RegisterGrows
    <3>4. dispatches'[Len(dispatches')] = [node |-> m, status |-> status]
        BY <3>1, <3>3
    <3>5. QED
        BY <3>3, <3>4
  <2>4. QED
      BY <2>1, <2>2, <2>3 DEF InFlight
<1>2. QED
    BY <1>1, TreeTypes, PTL DEF TreeSpec, NothingStartsAfterTrip

-----------------------------------------------------------------------------
(* Whose stop it was *)

\* What a step does to the envelopes, and to the token of the caller.
LEMMA ResultMoves ==
    ASSUME TypeOK, TreeTypeOK, [TreeNext]_allvars
    PROVE  /\ asked # {} => asked' = asked
           /\ \/ result' = result
              \/ \E m \in Nodes : \E e : /\ Ended(m, e) /\ result' = [result EXCEPT ![m] = e]
                                        /\ UNCHANGED vars
              \/ \E m \in Nodes :
                    /\ result' = [result EXCEPT ![m] = Refusal] /\ tripped' # NoTrip
                    /\ dispatches' = Append(dispatches,
                                            [node |-> m, status |-> "refused"])
              \/ /\ result' = [result EXCEPT ![Root] = Rewrite(result[Root])]
                 /\ UNCHANGED <<vars, dispatches>>
<1>1. CASE UNCHANGED tree \/ \E c \in Calls : Call(c)
    BY <1>1 DEF tree, Call
<1>2. CASE PersistCallLog
    BY <1>2 DEF PersistCallLog
<1>3. CASE PersistDispatchLog
    BY <1>3 DEF PersistDispatchLog
<1>4. ASSUME NEW m \in Nodes, TurnedAway(m)
      PROVE  /\ asked' = asked
             /\ result' = [result EXCEPT ![m] = Refusal] /\ tripped' # NoTrip
             /\ dispatches' = Append(dispatches, [node |-> m, status |-> "refused"])
    BY <1>4 DEF TurnedAway, SettleDispatch, Register
<1>5. ASSUME NEW m \in Nodes, NEW e, Ending(m, e)
      PROVE  /\ asked' = asked /\ Ended(m, e) /\ result' = [result EXCEPT ![m] = e]
             /\ UNCHANGED vars
    BY <1>5, EndSays DEF Ending, SettleDispatch
<1>6. ASSUME NEW m \in Nodes,
             Start(m) \/ HandBack(m) \/ AskStop(m) \/ CancelTask(m) \/ Tear(m)
      PROVE  (asked # {} => asked' = asked) /\ result' = result
    BY <1>6 DEF Start, HandBack, AskStop, CancelTask, Tear
<1>7. QED
    BY <1>1, <1>2, <1>3, <1>4, <1>5, <1>6, TreeStepKinds

\* The log and the register only grow, and a refusal in the log means a trip.
LEMMA RefusalsStay ==
    ASSUME TypeOK, TreeTypeOK, [TreeNext]_allvars
    PROVE  /\ \A n \in Nodes : RefusedBelow(n) => RefusedBelow(n)'
           /\ tripped # NoTrip => tripped' = tripped
           /\ tripped' = NoTrip /\ (\A i \in DOMAIN calls : calls[i].status # "refused") =>
                 \A i \in DOMAIN calls' : calls'[i].status # "refused"
<1>0. [Next]_vars /\ calls \in Seq(Row) /\ Len(calls) \in Nat
    BY TreeStep, LogRows DEF TypeOK
<1>1. /\ tripped # NoTrip => tripped' = tripped
      /\ \/ calls' = calls
         \/ \E r : /\ calls' = Append(calls, r)
                   /\ r.status # "refused" \/ tripped' # NoTrip
  <2>1. CASE Quiet \/ TimeTrip
      BY <2>1 DEF Quiet, TimeTrip, breaker
  <2>2. ASSUME NEW c \in Calls, RefusedCall(c)
        PROVE  /\ tripped # NoTrip => tripped' = tripped
               /\ tripped' # NoTrip
               /\ \E r : calls' = Append(calls, r)
      BY <2>2 DEF RefusedCall, Refuse, Trip, breaker
  <2>3. ASSUME NEW c \in Calls, Admission(c)
        PROVE  tripped' = tripped /\ calls' = calls
      BY <2>3 DEF Admission, Admit, breaker
  <2>4. ASSUME NEW c \in Calls, NEW u, NEW failed \in BOOLEAN, Settlement(c, u, failed)
        PROVE  /\ tripped # NoTrip => tripped' = tripped
               /\ \E r : calls' = Append(calls, r) /\ r.status # "refused"
      BY <2>4 DEF Settlement, Book, LogSettled, BreakerAtSettle
  <2>5. QED
      BY <1>0, <2>1, <2>2, <2>3, <2>4, StepKinds
<1>2. \A i \in DOMAIN calls : i \in DOMAIN calls' /\ calls'[i] = calls[i]
    BY <1>0, <1>1
<1>3. \A i \in DOMAIN dispatches : i \in DOMAIN dispatches' /\ dispatches'[i] = dispatches[i]
  <2>1. dispatches \in Seq([node : Nodes, status : {"success", "failure", "refused"}])
        /\ Len(dispatches) \in Nat
      BY LenProperties DEF TreeTypeOK
  <2>2. dispatches' = dispatches \/ \E r : dispatches' = Append(dispatches, r)
      BY RegisterGrows
  <2>3. QED
      BY <2>1, <2>2
<1>4. \A n \in Nodes : RefusedBelow(n) => RefusedBelow(n)'
    BY <1>2, <1>3 DEF RefusedBelow
<1>5. tripped' = NoTrip /\ (\A i \in DOMAIN calls : calls[i].status # "refused") =>
          \A i \in DOMAIN calls' : calls'[i].status # "refused"
  <2>1. CASE calls' = calls
      BY <2>1
  <2>2. ASSUME NEW r, calls' = Append(calls, r), r.status # "refused"
        PROVE  \A i \in DOMAIN calls' : i \in DOMAIN calls \/ calls'[i].status # "refused"
      BY <1>0, <2>2
  <2>3. QED
      BY <1>1, <1>2, <2>1, <2>2
<1>6. QED
    BY <1>1, <1>4, <1>5

\* Before any trip there is nothing of the breaker's anywhere, and the root alone
\* speaks of the run's halt.
NoBreakerYet ==
    /\ tripped = NoTrip =>
          /\ \A i \in DOMAIN calls : calls[i].status # "refused"
          /\ \A n \in Nodes : result[n].breaker_born = FALSE
          /\ result[Root].kind # "run_halted"
    /\ \A n \in Nodes \ {Root} : result[n].kind # "run_halted"

LEMMA NoBreakerStep ==
    ASSUME TypeOK, TreeTypeOK, TreeTypeOK', NoBreakerYet, [TreeNext]_allvars
    PROVE  NoBreakerYet'
<1>0. tripped' = NoTrip => tripped = NoTrip
                          /\ \A i \in DOMAIN calls' : calls'[i].status # "refused"
    BY RefusalsStay DEF NoBreakerYet
<1>1. CASE result' = result
    BY <1>0, <1>1 DEF NoBreakerYet
<1>2. ASSUME NEW m \in Nodes, NEW e, Ended(m, e), result' = [result EXCEPT ![m] = e]
      PROVE  NoBreakerYet'
  <2>1. \A n \in Nodes : result'[n] = IF n = m THEN e ELSE result[n]
      BY <1>2 DEF TreeTypeOK
  <2>2. Done(m) \subseteq Nodes \ {Root}
      BY ChildrenType
  <2>3. e.kind # "run_halted"
      BY <1>2, <2>2 DEF Ended, NoBreakerYet
  <2>4. tripped = NoTrip => e.breaker_born = FALSE
      BY <1>2, <2>2 DEF Ended, NoBreakerYet, Halted, Envelope
  <2>5. QED
      BY <1>0, <2>1, <2>3, <2>4, TreeAssumption DEF NoBreakerYet
<1>3. ASSUME NEW m \in Nodes, result' = [result EXCEPT ![m] = Refusal], tripped' # NoTrip
      PROVE  NoBreakerYet'
  <2>1. \A n \in Nodes : result'[n] = IF n = m THEN Refusal ELSE result[n]
      BY <1>3 DEF TreeTypeOK
  <2>2. Refusal.kind # "run_halted"
      BY DEF Refusal, NoResult
  <2>3. QED
      BY <1>3, <2>1, <2>2 DEF NoBreakerYet
<1>4. CASE /\ result' = [result EXCEPT ![Root] = Rewrite(result[Root])]
           /\ UNCHANGED <<vars, dispatches>>
  <2>1. \A n \in Nodes : result'[n] = IF n = Root THEN Rewrite(result[Root]) ELSE result[n]
      BY <1>4 DEF TreeTypeOK
  <2>2. tripped = NoTrip => Rewrite(result[Root]) = result[Root]
      BY DEF Rewrite
  <2>3. QED
      BY <1>0, <2>1, <2>2, TreeAssumption DEF NoBreakerYet
<1>5. QED
    BY <1>1, <1>2, <1>3, <1>4, ResultMoves

\* The caller asked first: whoever bears the breaker's stamp has a refusal below.
StopIsCallers ==
    /\ asked = Nodes
    /\ \A n \in Nodes : result[n].breaker_born = TRUE => RefusedBelow(n)
    /\ result[Root].kind = "run_halted" =>
          \/ tripped = "spend"
          \/ RefusedBelow(Root) /\ result[Root].breaker_born = TRUE

LEMMA StopStep ==
    ASSUME TypeOK, TreeTypeOK, NoBreakerYet, StopIsCallers, [TreeNext]_allvars
    PROVE  StopIsCallers'
<1>0. /\ asked' = Nodes
      /\ tripped = "spend" => tripped' = "spend"
      /\ \A n \in Nodes : RefusedBelow(n) => RefusedBelow(n)'
  <2>1. asked # {}
      BY TreeAssumption DEF StopIsCallers
  <2>2. QED
      BY <2>1, ResultMoves, RefusalsStay DEF StopIsCallers, NoTrip
<1>1. CASE result' = result
    BY <1>0, <1>1, TreeAssumption DEF StopIsCallers
<1>2. ASSUME NEW m \in Nodes, NEW e, Ended(m, e), result' = [result EXCEPT ![m] = e]
      PROVE  StopIsCallers'
  <2>1. \A n \in Nodes : result'[n] = IF n = m THEN e ELSE result[n]
      BY <1>2 DEF TreeTypeOK
  <2>2. Done(m) \subseteq Nodes \ {Root}
      BY ChildrenType
  <2>3. e.kind # "run_halted"
      BY <1>2, <2>2 DEF Ended, NoBreakerYet
  <2>4. Halted(m) => RefusedBelow(m)
      BY SubtreeIsClosure DEF Halted, RefusedBelow
  <2>5. ASSUME NEW x \in Done(m), result[x].breaker_born = TRUE
        PROVE  RefusedBelow(m)
    <3>1. x \in Nodes /\ Subtree[x] \subseteq Subtree[m]
      <4>1. x \in Children(m)
          BY <2>5 DEF Done
      <4>2. x \in Subtree[m]
          BY <4>1, SubtreeIsClosure DEF Closed
      <4>3. QED
          BY <4>2, SubtreeTransitive
    <3>2. RefusedBelow(x)
        BY <2>5, <3>1 DEF StopIsCallers
    <3>3. QED
        BY <3>1, <3>2 DEF RefusedBelow
  <2>6. e.breaker_born = TRUE => RefusedBelow(m)
      BY <1>2, <2>4, <2>5 DEF Ended, StopIsCallers
  <2>7. QED
      BY <1>0, <2>1, <2>3, <2>6, TreeAssumption DEF StopIsCallers
<1>3. ASSUME NEW m \in Nodes, result' = [result EXCEPT ![m] = Refusal],
             dispatches' = Append(dispatches, [node |-> m, status |-> "refused"])
      PROVE  StopIsCallers'
  <2>1. \A n \in Nodes : result'[n] = IF n = m THEN Refusal ELSE result[n]
      BY <1>3 DEF TreeTypeOK
  <2>2. Refusal.kind # "run_halted"
      BY DEF Refusal, NoResult
  <2>3. RefusedBelow(m)'
    <3>1. dispatches \in Seq([node : Nodes, status : {"success", "failure", "refused"}])
          /\ Len(dispatches) \in Nat
        BY LenProperties DEF TreeTypeOK
    <3>2. /\ Len(dispatches) + 1 \in DOMAIN dispatches'
          /\ dispatches'[Len(dispatches) + 1] = [node |-> m, status |-> "refused"]
        BY <1>3, <3>1
    <3>3. m \in Subtree[m]
        BY SubtreeIsClosure
    <3>4. QED
        BY <3>2, <3>3 DEF RefusedBelow
  <2>4. QED
      BY <1>0, <2>1, <2>2, <2>3, TreeAssumption DEF StopIsCallers
<1>4. CASE /\ result' = [result EXCEPT ![Root] = Rewrite(result[Root])]
           /\ UNCHANGED <<vars, dispatches>>
  <2>0. Root \in Nodes /\ result[Root] \in Envelope
      BY TreeAssumption DEF TreeTypeOK
  <2>1. \A n \in Nodes : result'[n] = IF n = Root THEN Rewrite(result[Root]) ELSE result[n]
      BY <1>4 DEF TreeTypeOK
  <2>2. Rewrite(result[Root]).breaker_born = result[Root].breaker_born
      BY <2>0 DEF Rewrite, Envelope
  <2>3. Rewrite(result[Root]).kind = "run_halted" =>
            \/ result[Root].kind = "run_halted"
            \/ result[Root].breaker_born = TRUE
            \/ tripped = "spend"
      BY <2>0 DEF Rewrite, trip_descended, Envelope
  <2>4. QED
      BY <1>0, <2>0, <2>1, <2>2, <2>3 DEF StopIsCallers
<1>5. QED
    BY <1>1, <1>2, <1>3, <1>4, ResultMoves

\* A stop that the caller asked for before any trip is not relabelled.
THEOREM StopKeepsItsName == TreeSpec => CallerStopNotRelabelled
<1> DEFINE Asked == asked = Nodes /\ tripped = NoTrip
           Kept == /\ \A n \in Nodes : result[n].breaker_born => RefusedBelow(n)
                   /\ result[Root].kind = "run_halted" =>
                         \/ tripped = "spend"
                         \/ RefusedBelow(Root) /\ result[Root].breaker_born
<1>1. TreeInit => NoBreakerYet
    BY TreeAssumption DEF TreeInit, Init, NoBreakerYet, NoResult
<1>2. TypeOK /\ TreeTypeOK /\ NoBreakerYet /\ [TreeNext]_allvars /\ TreeTypeOK'
        => NoBreakerYet'
    BY NoBreakerStep
<1>3. NoBreakerYet /\ Asked => StopIsCallers
    BY TreeAssumption DEF NoBreakerYet, StopIsCallers
<1>4. TypeOK /\ TreeTypeOK /\ NoBreakerYet /\ StopIsCallers /\ [TreeNext]_allvars
        => StopIsCallers'
    BY StopStep
<1>5. StopIsCallers => Kept
    BY TreeAssumption DEF StopIsCallers
<1>6. CallerStopNotRelabelled <=> [](Asked => []Kept)
    BY DEF CallerStopNotRelabelled
<1> HIDE DEF Asked, Kept
<1>7. TreeSpec => [](Asked => []Kept)
    BY <1>1, <1>2, <1>3, <1>4, <1>5, TreeTypes, PTL DEF TreeSpec
<1>8. QED
    BY <1>6, <1>7

-----------------------------------------------------------------------------
(* The accounts of a tree *)

\* What the log says of a node and what is below it: spent, and counted by replies.
Below(n) == CostOf(Rows(Subtree[n]))
CountedBelow(n) == CostOf(Counted(Subtree[n]))
Belows == [n \in Nodes |-> Below(n)]
CountedBelows == [n \in Nodes |-> CountedBelow(n)]

\* The same, of any part K of the log.
Spent(K, nodes) == CostOf(K \cap Rows(nodes))
Completed == {i \in DOMAIN calls : calls[i].status = "completed"}

LEMMA BelowType ==
    ASSUME TypeOK
    PROVE  \A n \in Nodes :
              /\ Belows[n] = Below(n) /\ Below(n) \in Nat
              /\ CountedBelows[n] = CountedBelow(n) /\ CountedBelow(n) \in Nat
              /\ CountedBelow(n) <= Below(n)
BY RowsType DEF Belows, Below, CountedBelows, CountedBelow

\* A part of the log splits into a node's own rows and those below each child.
LEMMA SpentUnfolds ==
    ASSUME TypeOK, TreeTypeOK, NEW m \in Subtree[Root], NEW K \in SUBSET DOMAIN calls,
           NEW v, \A x \in Children(m) : v[x] = Spent(K, Subtree[x])
    PROVE  /\ Spent(K, Subtree[m]) = Spent(K, {m}) + SumFunctionOnSet(v, Children(m))
           /\ SumFunctionOnSet(v, Children(m)) \in Nat
<1> DEFINE R == [x \in Children(m) |-> K \cap Rows(Subtree[x])]
           U == UNION {R[x] : x \in Children(m)}
<1>0. /\ m \in Nodes /\ Children(m) \subseteq Nodes \ {Root} /\ IsFiniteSet(Children(m))
      /\ IsFiniteSet(DOMAIN calls) /\ \A i \in DOMAIN calls : Costs[i] \in Nat
    BY SubtreeIsClosure, TreeAssumption, ChildrenType, LogRows
<1>1. R \in [Children(m) -> SUBSET DOMAIN calls]
    OBVIOUS
<1>2. \A a, b \in Children(m) : a # b => R[a] \cap R[b] = {}
    BY SiblingsApart DEF Rows
<1>3. \A x \in Children(m) : v[x] = SumFunctionOnSet(Costs, R[x])
    BY DEF Spent, CostOf, Costs
<1>4. SumFunctionOnSet(Costs, U) = SumFunctionOnSet(v, Children(m))
  <2> HIDE DEF R
  <2>1. QED
      BY <1>0, <1>1, <1>2, <1>3, SumUnion
<1>5. K \cap Rows(Subtree[m]) = (K \cap Rows({m})) \cup U
  <2>1. Subtree[m] = {m} \cup UNION {Subtree[x] : x \in Children(m)}
      BY <1>0, SubtreeUnfolds
  <2>2. QED
      BY <2>1 DEF Rows
<1>6. (K \cap Rows({m})) \cap U = {}
  <2>1. \A x \in Children(m) : m \notin Subtree[x]
      BY NoCycles
  <2>2. QED
      BY <2>1 DEF Rows
<1>7. U \subseteq DOMAIN calls /\ IsFiniteSet(U)
  <2>1. U \subseteq DOMAIN calls
      BY <1>1
  <2> HIDE DEF U
  <2>2. QED
      BY <1>0, <2>1, FS_Subset
<1> HIDE DEF U
<1>8. SumFunctionOnSet(Costs, (K \cap Rows({m})) \cup U)
         = SumFunctionOnSet(Costs, K \cap Rows({m})) + SumFunctionOnSet(Costs, U)
  <2>1. K \cap Rows({m}) \subseteq DOMAIN calls /\ IsFiniteSet(K \cap Rows({m}))
      BY <1>0, FS_Subset
  <2>2. QED
      BY <1>0, <1>6, <1>7, <2>1, SumDisjoint
<1>9. SumFunctionOnSet(v, Children(m)) \in Nat
    BY <1>0, <1>4, <1>7, SumType
<1>10. QED
    BY <1>4, <1>5, <1>8, <1>9 DEF Spent, CostOf, Costs

\* So do what was spent below a node and what was counted there.
LEMMA BelowUnfolds ==
    ASSUME TypeOK, TreeTypeOK, NEW m \in Subtree[Root]
    PROVE  /\ Below(m) = settled_spend_usd(m) + SumFunctionOnSet(Belows, Children(m))
           /\ SumFunctionOnSet(Belows, Children(m)) \in Nat
           /\ CountedBelow(m) = counted_usd(m) + SumFunctionOnSet(CountedBelows, Children(m))
           /\ SumFunctionOnSet(CountedBelows, Children(m)) \in Nat
<1>1. /\ \A nodes : DOMAIN calls \cap Rows(nodes) = Rows(nodes)
      /\ \A nodes : Completed \cap Rows(nodes) = Counted(nodes)
    BY DEF Rows, Counted, Completed
<1>2. /\ \A nodes : Spent(DOMAIN calls, nodes) = CostOf(Rows(nodes))
      /\ \A nodes : Spent(Completed, nodes) = CostOf(Counted(nodes))
    BY <1>1 DEF Spent
<1>3. /\ \A x \in Children(m) : Belows[x] = Spent(DOMAIN calls, Subtree[x])
      /\ \A x \in Children(m) : CountedBelows[x] = Spent(Completed, Subtree[x])
    BY <1>2, ChildrenType DEF Belows, Below, CountedBelows, CountedBelow
<1>4. DOMAIN calls \in SUBSET DOMAIN calls /\ Completed \in SUBSET DOMAIN calls
    BY DEF Completed
<1>5. /\ Spent(DOMAIN calls, Subtree[m])
            = Spent(DOMAIN calls, {m}) + SumFunctionOnSet(Belows, Children(m))
      /\ SumFunctionOnSet(Belows, Children(m)) \in Nat
    BY <1>3, <1>4, SpentUnfolds
<1>6. /\ Spent(Completed, Subtree[m])
            = Spent(Completed, {m}) + SumFunctionOnSet(CountedBelows, Children(m))
      /\ SumFunctionOnSet(CountedBelows, Children(m)) \in Nat
    BY <1>3, <1>4, SpentUnfolds
<1>7. QED
    BY <1>2, <1>5, <1>6 DEF Below, CountedBelow, settled_spend_usd, counted_usd

\* Below a node that never started nothing was spent.
LEMMA NothingSpent ==
    ASSUME TypeOK, Grown, EveryDollarLogged, NEW m \in Nodes, phase[m] = "new"
    PROVE  Below(m) = 0 /\ CountedBelow(m) = 0
<1>1. \A i \in DOMAIN calls : calls[i].call \in Calls /\ pc[calls[i].call] = "done"
    BY LogRows DEF Row, EveryDollarLogged
<1>2. \A x \in Subtree[m] : phase[x] = "new"
    BY NothingBelow
<1>3. Rows(Subtree[m]) = {} /\ Counted(Subtree[m]) = {}
    BY <1>1, <1>2 DEF Rows, Counted, Grown
<1>4. QED
    BY <1>3, LogRows, SumType DEF Below, CountedBelow, CostOf, Costs

\* The log's rows for the nodes at or below one that does not run stay as they are.
LEMMA BelowStands ==
    ASSUME TypeOK, TypeOK', TreeTypeOK, Nested, [TreeNext]_allvars,
           NEW k \in Nodes, phase[k] # "running"
    PROVE  Below(k)' = Below(k) /\ CountedBelow(k)' = CountedBelow(k)
<1>1. ASSUME calls' = calls
      PROVE  Below(k)' = Below(k) /\ CountedBelow(k)' = CountedBelow(k)
    BY <1>1 DEF Below, CountedBelow, CostOf, Rows, Counted
<1>2. ASSUME NEW c \in Calls, Call(c), NEW r \in Row, r.call = c, calls' = Append(calls, r)
      PROVE  Below(k)' = Below(k) /\ CountedBelow(k)' = CountedBelow(k)
  <2>1. phase[NodeOf[c]] = "running"
      BY <1>2, CallMoves DEF Acting, Nested
  <2>2. NodeOf[c] \notin Subtree[k]
      BY <2>1, StillBelow
  <2> DEFINE j == Len(calls) + 1
  <2>3. /\ DOMAIN calls' = DOMAIN calls \cup {j} /\ calls'[j] = r
        /\ \A i \in DOMAIN calls : calls'[i] = calls[i]
        /\ \A rows \in SUBSET DOMAIN calls :
              SumFunctionOnSet(Costs', rows) = SumFunctionOnSet(Costs, rows)
      BY <1>2, LogGrows
  <2> HIDE DEF j
  <2>4. Rows(Subtree[k])' = Rows(Subtree[k])
      BY <1>2, <2>2, <2>3 DEF Rows
  <2>5. Rows(Subtree[k]) \in SUBSET DOMAIN calls /\ Counted(Subtree[k]) \in SUBSET DOMAIN calls
      BY RowsType
  <2>6. Counted(Subtree[k])' = Counted(Subtree[k])
      BY <2>3, <2>4, <2>5 DEF Counted
  <2>7. /\ Below(k) = SumFunctionOnSet(Costs, Rows(Subtree[k]))
        /\ CountedBelow(k) = SumFunctionOnSet(Costs, Counted(Subtree[k]))
      BY DEF Below, CountedBelow, CostOf, Costs
  <2>8. /\ Below(k)' = SumFunctionOnSet(Costs', Rows(Subtree[k])')
        /\ CountedBelow(k)' = SumFunctionOnSet(Costs', Counted(Subtree[k])')
      BY DEF Below, CountedBelow, CostOf, Costs
  <2>9. QED
      BY <2>3, <2>4, <2>5, <2>6, <2>7, <2>8
<1>3. CASE \E c \in Calls : Call(c)
    BY <1>1, <1>2, <1>3, CallMoves
<1>4. ASSUME \/ UNCHANGED vars \/ DeadlinePasses \/ PersistCallLog \/ PersistDispatchLog
             \/ \E m \in Nodes : \/ Start(m) \/ TurnedAway(m)
                                 \/ \E e : Ending(m, e)
                                 \/ HandBack(m) \/ AskStop(m) \/ CancelTask(m) \/ Tear(m)
      PROVE  calls' = calls
    BY <1>4 DEF vars, DeadlinePasses, PersistCallLog, PersistDispatchLog, Start, TurnedAway,
                check_time, Ending, HandBack, AskStop, CancelTask, Tear
<1>5. QED
    BY <1>1, <1>3, <1>4, TreeStepKinds

\* Where each envelope comes from: an ending, a refusal, or the root's rewrite.
Over == {"logging", "registering", "recording", "done"}
LEMMA NodeMoves ==
    ASSUME TypeOK, TreeTypeOK, [TreeNext]_allvars, NEW n \in Nodes
    PROVE  /\ phase[n] \in {"done", "torn"} => phase'[n] = phase[n] /\ result'[n] = result[n]
           /\ phase'[n] \in Over =>
                 \/ phase[n] \in Over /\ result'[n] = result[n]
                 \/ n = Root /\ PersistDispatchLog /\ result'[n] = Rewrite(result[n])
                 \/ TurnedAway(n) /\ result'[n] = Refusal
                 \/ \E e : Ending(n, e) /\ result'[n] = e
<1> DEFINE Claim ==
        /\ phase[n] \in {"done", "torn"} => phase'[n] = phase[n] /\ result'[n] = result[n]
        /\ phase'[n] \in Over =>
              \/ phase[n] \in Over /\ result'[n] = result[n]
              \/ n = Root /\ PersistDispatchLog /\ result'[n] = Rewrite(result[n])
              \/ TurnedAway(n) /\ result'[n] = Refusal
              \/ \E e : Ending(n, e) /\ result'[n] = e
<1>1. ASSUME phase'[n] = phase[n], result'[n] = result[n]
      PROVE  Claim
    BY <1>1
<1>2. CASE UNCHANGED tree \/ \E c \in Calls : Call(c)
    BY <1>1, <1>2 DEF tree, Call
<1>3. CASE PersistCallLog
    BY <1>3 DEF PersistCallLog, TreeTypeOK, Over
<1>4. CASE PersistDispatchLog
    BY <1>4 DEF PersistDispatchLog, TreeTypeOK, Over
<1>5. ASSUME NEW m \in Nodes, TurnedAway(m)
      PROVE  Claim
  <2>1. CASE n = m
      BY <1>5, <2>1 DEF TurnedAway, SettleDispatch, TreeTypeOK, Invoked
  <2>2. CASE n # m
      BY <1>1, <1>5, <2>2 DEF TurnedAway, SettleDispatch, TreeTypeOK
  <2>3. QED
      BY <2>1, <2>2
<1>6. ASSUME NEW m \in Nodes, NEW e, Ending(m, e)
      PROVE  Claim
  <2>1. CASE n = m
      BY <1>6, <2>1 DEF Ending, SettleDispatch, TreeTypeOK
  <2>2. CASE n # m
      BY <1>1, <1>6, <2>2 DEF Ending, SettleDispatch, TreeTypeOK
  <2>3. QED
      BY <2>1, <2>2
<1>7. ASSUME NEW m \in Nodes, Start(m) \/ HandBack(m) \/ Tear(m)
      PROVE  Claim
  <2>1. CASE Start(m)
      BY <2>1 DEF Start, Invoked, TreeTypeOK, Over
  <2>2. CASE HandBack(m)
      BY <2>2 DEF HandBack, TreeTypeOK, Over
  <2>3. CASE Tear(m)
      BY <2>3 DEF Tear, Busy, TreeTypeOK, Over
  <2>4. QED
      BY <1>7, <2>1, <2>2, <2>3
<1>8. ASSUME NEW m \in Nodes, AskStop(m) \/ CancelTask(m)
      PROVE  Claim
    BY <1>1, <1>8 DEF AskStop, CancelTask
<1>9. Claim
    BY <1>2, <1>3, <1>4, <1>5, <1>6, <1>7, <1>8, TreeStepKinds
<1>10. QED
    BY <1>9

Beneath(n) == Subtree[n] \ {n}
Said(m, account) == phase[m] = "done" /\ result[m].account = account
\* The author of m reported less than was counted at or below it.
Short(m) == Said(m, "freely") /\ result[m].cost < CountedBelow(m)

\* An envelope that is out reports what was counted below its node: less or more only
\* where it was not summed, or one below it was not.
Adds(n, cost, account) ==
    /\ cost < CountedBelow(n) => \/ account = "freely"
                                 \/ account = "floor" /\ Done(n) # {}
                                 \/ \E m \in Beneath(n) : Lost(m) \/ Short(m)
    /\ cost > CountedBelow(n) => \/ account # "summed"
                                 \/ \E m \in Beneath(n) : Said(m, "floor") \/ Said(m, "freely")
    /\ cost > Below(n) => account = "freely" \/ \E m \in Beneath(n) : Said(m, "freely")
Accounts == \A n \in Nodes :
    phase[n] \in Over /\ result[n].kind # "run_halted" =>
        Adds(n, result[n].cost, result[n].account)

\* The same of an envelope that was handed over, its node being one of those it blames.
HandedOver(n) ==
    /\ result[n].cost < CountedBelow(n) => \E m \in Subtree[n] : Lost(m) \/ Short(m)
    /\ result[n].cost > CountedBelow(n) =>
          \E m \in Subtree[n] : Said(m, "floor") \/ Said(m, "freely")
    /\ result[n].cost > Below(n) => \E m \in Subtree[n] : Said(m, "freely")

LEMMA AccountsHandOver ==
    ASSUME TreeTypeOK, Accounts, NEW n \in Nodes, phase[n] = "done",
           result[n].kind # "run_halted"
    PROVE  HandedOver(n)
<1>1. Adds(n, result[n].cost, result[n].account)
    BY DEF Accounts, Over
<1>2. result[n].account \in AccountKinds
    BY DEF TreeTypeOK, Envelope
<1>3. n \in Subtree[n] /\ Beneath(n) \subseteq Subtree[n]
    BY SubtreeIsClosure DEF Beneath
<1>4. result[n].cost < CountedBelow(n) => \E m \in Subtree[n] : Lost(m) \/ Short(m)
  <2> SUFFICES ASSUME result[n].cost < CountedBelow(n)
               PROVE  \E m \in Subtree[n] : Lost(m) \/ Short(m)
      OBVIOUS
  <2>1. CASE result[n].account = "freely"
      BY <1>3, <2>1 DEF Short, Said
  <2>2. CASE result[n].account = "floor" /\ Done(n) # {}
      BY <1>3, <2>2 DEF Lost, Done
  <2>3. QED
      BY <1>1, <1>3, <2>1, <2>2 DEF Adds
<1>5. result[n].cost > CountedBelow(n) =>
          \E m \in Subtree[n] : Said(m, "floor") \/ Said(m, "freely")
    BY <1>1, <1>2, <1>3 DEF Adds, Said, AccountKinds
<1>6. result[n].cost > Below(n) => \E m \in Subtree[n] : Said(m, "freely")
    BY <1>1, <1>3 DEF Adds, Said
<1>7. QED
    BY <1>4, <1>5, <1>6 DEF HandedOver

\* What an ending node hands over adds up, when its children's envelopes do.
LEMMA EndingAdds ==
    ASSUME TypeOK, TreeTypeOK, Grown, EveryDollarLogged, NoBreakerYet, Accounts,
           NEW m \in Subtree[Root], Awaited(m), NEW e, Ended(m, e)
    PROVE  Adds(m, e.cost, e.account)
<1> DEFINE s == settled_spend_usd(m)
           t == counted_usd(m)
           C == Children(m)
           D == Done(m)
           b == SumFunctionOnSet(Belows, C)
           bd == SumFunctionOnSet(Belows, D)
           k == SumFunctionOnSet(CountedBelows, C)
           kd == SumFunctionOnSet(CountedBelows, D)
           r == SumFunctionOnSet(Reports, D)
<1>0. /\ m \in Nodes /\ C \subseteq Nodes \ {Root} /\ D \subseteq C
      /\ IsFiniteSet(C) /\ IsFiniteSet(D) /\ IsFiniteSet(C \ D)
    BY SubtreeIsClosure, TreeAssumption, ChildrenType, FS_Subset
<1>2. \A x \in C : /\ Belows[x] = Below(x) /\ Belows[x] \in Nat
                   /\ CountedBelows[x] = CountedBelow(x) /\ CountedBelows[x] \in Nat
    BY <1>0, BelowType
<1>1. /\ Below(m) = s + b /\ CountedBelow(m) = t + k /\ Rollup(m) = t + r
      /\ s \in Nat /\ t \in Nat /\ t <= s
      /\ b \in Nat /\ k \in Nat /\ r \in Nat /\ bd \in Nat /\ kd \in Nat
  <2>1. bd \in Nat /\ kd \in Nat
      BY <1>0, <1>2, SumType
  <2>2. QED
      BY <1>0, <2>1, BelowUnfolds, RollupType
<1>3. \A x \in D : Reports[x] = result[x].cost /\ Reports[x] \in Nat
    BY <1>0, ChildrenType
<1>4. ASSUME NEW x \in C
      PROVE  x \in Beneath(m) /\ Subtree[x] \subseteq Beneath(m)
  <2>1. m \notin Subtree[x]
      BY NoCycles
  <2>2. x \in Subtree[m]
      BY <1>0, SubtreeIsClosure DEF Closed
  <2>3. Subtree[x] \subseteq Subtree[m] /\ x \in Subtree[x]
      BY <1>0, <2>2, SubtreeTransitive, SubtreeIsClosure
  <2>4. QED
      BY <2>1, <2>3 DEF Beneath
<1>5. \A x \in D : HandedOver(x)
    BY <1>0, AccountsHandOver DEF NoBreakerYet, Done
<1>6. bd <= b /\ kd <= k
    BY <1>0, <1>2, SumMonotonic
<1>7. ASSUME \A y \in Beneath(m) : ~Lost(y) /\ ~Short(y)
      PROVE  k = kd /\ kd <= r
  <2>1. \A x \in D : CountedBelows[x] <= Reports[x]
    <3>1. \A x \in D : \A y \in Subtree[x] : ~Lost(y) /\ ~Short(y)
        BY <1>0, <1>4, <1>7
    <3>2. QED
        BY <1>0, <1>2, <1>3, <1>5, <3>1 DEF HandedOver
  <2>2. kd <= r
      BY <1>0, <1>2, <1>3, <2>1, SumPointwise
  <2>3. \A x \in C \ D : CountedBelows[x] = 0
    <3>1. \A x \in C \ D : phase[x] # "torn" /\ phase[x] # "done"
        BY <1>4, <1>7 DEF Lost, Done
    <3>2. \A x \in C \ D : phase[x] = "new"
        BY <1>0, <3>1 DEF Awaited, Busy
    <3>3. QED
        BY <1>0, <1>2, <3>2, NothingSpent
  <2>4. SumFunctionOnSet(CountedBelows, C \ D) = 0
      BY <1>0, <2>3, SumZero
  <2>5. k = kd + SumFunctionOnSet(CountedBelows, C \ D)
    <3>1. C = D \cup (C \ D) /\ D \cap (C \ D) = {}
        BY <1>0
    <3>2. SumFunctionOnSet(CountedBelows, D \cup (C \ D))
             = SumFunctionOnSet(CountedBelows, D) + SumFunctionOnSet(CountedBelows, C \ D)
        BY <1>0, <1>2, <3>1, SumDisjoint
    <3>3. QED
        BY <3>1, <3>2
  <2> HIDE DEF k, kd, r
  <2>6. QED
      BY <1>1, <2>2, <2>4, <2>5
<1>8. ASSUME \A y \in Beneath(m) : ~Said(y, "floor") /\ ~Said(y, "freely")
      PROVE  r <= kd
  <2>1. \A x \in D : \A y \in Subtree[x] : ~Said(y, "floor") /\ ~Said(y, "freely")
      BY <1>0, <1>4, <1>8
  <2>2. \A x \in D : Reports[x] <= CountedBelows[x]
      BY <1>0, <1>2, <1>3, <1>5, <2>1 DEF HandedOver
  <2>3. QED
      BY <1>0, <1>2, <1>3, <2>2, SumPointwise
<1>9. ASSUME \A y \in Beneath(m) : ~Said(y, "freely")
      PROVE  r <= bd
  <2>1. \A x \in D : \A y \in Subtree[x] : ~Said(y, "freely")
      BY <1>0, <1>4, <1>9
  <2>2. \A x \in D : Reports[x] <= Belows[x]
      BY <1>0, <1>2, <1>3, <1>5, <2>1 DEF HandedOver
  <2>3. QED
      BY <1>0, <1>2, <1>3, <2>2, SumPointwise
<1>10. D = {} => kd = 0
    BY FS_EmptySet, SumType
<1>11. \/ e.account = "summed" /\ e.cost = t + r
       \/ e.account = "floor" /\ e.cost = s
       \/ e.account = "freely"
  <2>1. \/ e.account = "summed" /\ e.cost = Rollup(m)
        \/ e.account = "floor" /\ e.cost = s
        \/ e.account = "freely"
      BY DEF Ended
  <2>2. QED
      BY <1>1, <2>1
<1> HIDE DEF s, t, b, bd, k, kd, r, C
<1>12. ASSUME e.cost < CountedBelow(m), \A y \in Beneath(m) : ~Lost(y) /\ ~Short(y)
       PROVE  e.account = "freely" \/ (e.account = "floor" /\ D # {})
  <2>1. k = kd /\ kd <= r
      BY <1>7, <1>12
  <2>2. QED
      BY <1>1, <1>10, <1>11, <1>12, <2>1
<1>13. ASSUME e.cost > CountedBelow(m),
              \A y \in Beneath(m) : ~Said(y, "floor") /\ ~Said(y, "freely")
       PROVE  e.account # "summed"
  <2>1. r <= kd
      BY <1>8, <1>13
  <2>2. QED
      BY <1>1, <1>6, <1>11, <1>13, <2>1
<1>14. ASSUME e.cost > Below(m), \A y \in Beneath(m) : ~Said(y, "freely")
       PROVE  e.account = "freely"
  <2>1. r <= bd
      BY <1>9, <1>14
  <2>2. QED
      BY <1>1, <1>6, <1>11, <1>14, <2>1
<1>15. QED
    BY <1>12, <1>13, <1>14 DEF Adds

\* What was lost, or not summed, stays so.
LEMMA BlameStays ==
    ASSUME TypeOK, TypeOK', TreeTypeOK, Nested, [TreeNext]_allvars, NEW n \in Nodes
    PROVE  /\ Lost(n) => Lost(n)'
           /\ Short(n) => Short(n)'
           /\ \A account : Said(n, account) => Said(n, account)'
<1>1. phase[n] \in {"done", "torn"} => phase'[n] = phase[n] /\ result'[n] = result[n]
    BY NodeMoves
<1>2. \A x \in Children(n) : phase[x] = "done" => phase'[x] = "done"
    BY NodeMoves, ChildrenType
<1>3. phase[n] = "done" => CountedBelow(n)' = CountedBelow(n)
    BY BelowStands
<1>4. Lost(n) => Lost(n)'
  <2>1. CASE phase[n] = "torn"
      BY <1>1, <2>1 DEF Lost
  <2>2. CASE /\ phase[n] = "done" /\ result[n].account = "floor"
             /\ \E x \in Children(n) : phase[x] = "done"
      BY <1>1, <1>2, <2>2 DEF Lost, Children
  <2>3. QED
      BY <2>1, <2>2 DEF Lost
<1>5. \A account : Said(n, account) => Said(n, account)'
    BY <1>1 DEF Said
<1>6. Short(n) => Short(n)'
    BY <1>1, <1>3 DEF Short, Said
<1>7. QED
    BY <1>4, <1>5, <1>6

LEMMA AccountsStep ==
    ASSUME Structured, TypeOK, TypeOK', TreeTypeOK, Grown, Nested, EveryDollarLogged,
           NoBreakerYet, Accounts, [TreeNext]_allvars
    PROVE  Accounts'
<1> SUFFICES ASSUME NEW n \in Nodes, phase'[n] \in Over, result'[n].kind # "run_halted"
             PROVE  Adds(n, result[n].cost, result[n].account)'
    BY DEF Accounts
<1>1. ASSUME phase[n] # "running" \/ UNCHANGED vars,
             Adds(n, result'[n].cost, result'[n].account)
      PROVE  Adds(n, result[n].cost, result[n].account)'
  <2>1. Below(n)' = Below(n) /\ CountedBelow(n)' = CountedBelow(n)
    <3>1. CASE phase[n] # "running"
        BY <3>1, BelowStands
    <3>2. CASE UNCHANGED vars
        BY <3>2 DEF vars, Below, CountedBelow, CostOf, Rows, Counted
    <3>3. QED
        BY <1>1, <3>1, <3>2
  <2>2. Beneath(n)' = Beneath(n) /\ Beneath(n) \subseteq Nodes
      BY SubtreeIsClosure DEF Beneath
  <2>3. \A m \in Beneath(n) : /\ Lost(m) => Lost(m)'
                              /\ Short(m) => Short(m)'
                              /\ Said(m, "floor") => Said(m, "floor")'
                              /\ Said(m, "freely") => Said(m, "freely")'
      BY <2>2, BlameStays
  <2>4. Done(n) # {} => Done(n)' # {}
    <3>1. \A x \in Children(n) : phase[x] = "done" => phase'[x] = "done"
        BY NodeMoves, ChildrenType
    <3>2. QED
        BY <3>1 DEF Done, Children
  <2>5. QED
      BY <1>1, <2>1, <2>2, <2>3, <2>4 DEF Adds
<1>2. CASE phase[n] \in Over /\ result'[n] = result[n]
    BY <1>1, <1>2 DEF Accounts, Over
<1>3. CASE n = Root /\ PersistDispatchLog /\ result'[n] = Rewrite(result[n])
  <2>1. result'[n] = result[n]
      BY <1>3 DEF Rewrite, TreeTypeOK, Envelope
  <2>2. phase[n] \in Over
      BY <1>3 DEF PersistDispatchLog, Over
  <2>3. QED
      BY <1>2, <2>1, <2>2
<1>4. CASE TurnedAway(n) /\ result'[n] = Refusal
  <2>1. phase[n] = "new"
      BY <1>4 DEF TurnedAway, Invoked
  <2>2. Below(n) = 0 /\ CountedBelow(n) = 0
      BY <2>1, NothingSpent
  <2>3. Refusal.cost = 0
      BY DEF Refusal, NoResult
  <2>4. Adds(n, result'[n].cost, result'[n].account)
      BY <1>4, <2>2, <2>3 DEF Adds
  <2>5. QED
      BY <1>1, <2>1, <2>4
<1>5. ASSUME NEW e, Ending(n, e), result'[n] = e
      PROVE  Adds(n, result[n].cost, result[n].account)'
  <2>1. Ended(n, e) /\ Awaited(n) /\ UNCHANGED vars /\ phase[n] = "running"
      BY <1>5, EndSays DEF Ending
  <2>2. n \in Subtree[Root]
      BY <2>1 DEF Grown
  <2>3. Adds(n, e.cost, e.account)
      BY <2>1, <2>2, EndingAdds
  <2>4. QED
      BY <1>1, <1>5, <2>1, <2>3
<1>6. QED
    BY <1>2, <1>3, <1>4, <1>5, NodeMoves

\* Of what was spent below a node, its register rows lead to all when nothing was torn.
LEMMA EdgesReachAll ==
    ASSUME TypeOK, Grown, Nested, EveryDollarLogged, RegisterIsTheTree,
           NEW n \in Nodes, phase[n] = "done", \A m \in Subtree[n] : phase[m] # "torn"
    PROVE  subtree_spend_usd(n) = Below(n)
<1>1. \A i \in DOMAIN calls : calls[i].call \in Calls /\ pc[calls[i].call] = "done"
    BY LogRows DEF Row, EveryDollarLogged
<1>2. ASSUME NEW m \in Subtree[n], phase[m] # "new"
      PROVE  m \in Edges(n)
  <2>1. ASSUME NEW k \in Subtree[n] \ {n}, m \in Subtree[k]
        PROVE  k \in Registered
    <3>1. k \in Nodes
        BY SubtreeIsClosure
    <3>2. phase[k] # "new"
        BY <1>2, <2>1, <3>1, NothingBelow
    <3>3. k \notin Busy
        BY StillBelow
    <3>4. phase[k] # "torn"
        OBVIOUS
    <3>5. phase[k] = "done"
        BY <3>1, <3>2, <3>3, <3>4 DEF Busy
    <3>6. QED
        BY <3>1, <3>5 DEF RegisterIsTheTree
  <2>2. m \in Nodes
      BY SubtreeIsClosure
  <2>3. QED
      BY <2>1 DEF Edges
<1>3. Rows(Edges(n)) = Rows(Subtree[n])
    BY <1>1, <1>2 DEF Rows, Edges, Grown
<1>4. QED
    BY <1>3 DEF subtree_spend_usd, Below

\* What the root reports of a halt is the run's total, and the log it points at is
\* the whole log; both are settled only when the door is quiet.
HaltPaid ==
    /\ result[Root].kind = "run_halted" =>
          phase[Root] \in {"recording", "done"} /\ result[Root].cost = observed_spend
    /\ log_persistence = "persisted" =>
          phase[Root] \in {"registering", "recording", "done"} /\ persisted = Len(calls)

LEMMA HaltPaidStep ==
    ASSUME TypeOK, TypeOK', TreeTypeOK, Grown, Nested, NoBreakerYet, HaltPaid,
           [TreeNext]_allvars
    PROVE  HaltPaid'
<1>0. Root \in Nodes /\ Root \notin cancelled
    BY TreeAssumption DEF Grown
<1>1. ASSUME phase[Root] \notin {"new", "running"}, NEW c \in Calls
      PROVE  ~Call(c)
  <2>1. NodeOf[c] \in Nodes
      BY TreeAssumption
  <2>2. pc[c] \in {"new", "done"} /\ phase[NodeOf[c]] # "running"
      BY <1>1, <2>1, RootEnded
  <2>3. QED
      BY <2>2, CallMoves DEF Acting
<1>2. ASSUME UNCHANGED <<observed_spend, calls, log_persistence, persisted>>,
             result'[Root] = result[Root],
             \/ phase'[Root] = phase[Root]
             \/ phase[Root] = "recording" /\ phase'[Root] = "done"
             \/ phase[Root] = "new"
      PROVE  HaltPaid'
    BY <1>2 DEF HaltPaid
<1>3. ASSUME NEW c \in Calls, Call(c)
      PROVE  HaltPaid'
  <2>1. phase[Root] \in {"new", "running"}
      BY <1>1, <1>3
  <2>2. UNCHANGED tree
      BY <1>3 DEF Call
  <2>3. QED
      BY <2>1, <2>2 DEF tree, HaltPaid
<1>4. CASE UNCHANGED tree /\ (UNCHANGED vars \/ DeadlinePasses)
  <2>1. UNCHANGED <<observed_spend, calls, log_persistence, persisted, phase, result>>
      BY <1>4 DEF tree, vars, DeadlinePasses
  <2>2. QED
      BY <2>1 DEF HaltPaid
<1>5. CASE PersistCallLog
  <2>1. phase'[Root] = "registering" /\ phase[Root] = "logging"
      BY <1>0, <1>5 DEF PersistCallLog, TreeTypeOK
  <2>2. log_persistence' = "persisted" => persisted' = Len(calls)
      BY <1>5 DEF PersistCallLog
  <2>3. result' = result /\ calls' = calls
      BY <1>5 DEF PersistCallLog, vars
  <2>4. QED
      BY <2>1, <2>2, <2>3 DEF HaltPaid
<1>6. CASE PersistDispatchLog
  <2>1. /\ phase'[Root] = "recording" /\ phase[Root] = "registering"
        /\ result'[Root] = Rewrite(result[Root])
        /\ UNCHANGED <<calls, observed_spend, log_persistence, persisted>>
      BY <1>0, <1>6 DEF PersistDispatchLog, TreeTypeOK, vars
  <2>2. result[Root] \in Envelope
      BY <1>0 DEF TreeTypeOK
  <2>3. Rewrite(result[Root]).kind = "run_halted" =>
            Rewrite(result[Root]).cost = observed_spend
      BY <2>1, <2>2 DEF Rewrite, HaltPaid, Envelope
  <2>4. QED
      BY <2>1, <2>3 DEF HaltPaid
<1>7. ASSUME NEW m \in Nodes, Start(m) \/ TurnedAway(m) \/ HandBack(m) \/ Tear(m)
      PROVE  HaltPaid'
  <2>1. UNCHANGED <<observed_spend, calls, log_persistence, persisted>>
      BY <1>7 DEF Start, TurnedAway, SettleDispatch, check_time, HandBack, Tear, vars
  <2>2. CASE m = Root
    <3>1. CASE Start(m)
        BY <1>0, <1>2, <2>1, <2>2, <3>1 DEF Start, Invoked
    <3>2. CASE TurnedAway(m)
      <4>1. result'[Root] = Refusal /\ phase[Root] = "new"
          BY <1>0, <2>2, <3>2 DEF TurnedAway, SettleDispatch, Invoked, TreeTypeOK
      <4>2. Refusal.kind # "run_halted"
          BY DEF Refusal, NoResult
      <4>3. QED
          BY <2>1, <4>1, <4>2 DEF HaltPaid
    <3>3. CASE HandBack(m)
        BY <1>0, <1>2, <2>1, <2>2, <3>3 DEF HandBack, TreeTypeOK
    <3>4. CASE Tear(m)
        BY <1>0, <2>2, <3>4 DEF Tear
    <3>5. QED
        BY <1>7, <3>1, <3>2, <3>3, <3>4
  <2>3. CASE m # Root
    <3>1. phase'[Root] = phase[Root] /\ result'[Root] = result[Root]
        BY <1>0, <1>7, <2>3 DEF Start, TurnedAway, SettleDispatch, HandBack, Tear, TreeTypeOK
    <3>2. QED
        BY <2>1, <3>1 DEF HaltPaid
  <2>4. QED
      BY <2>2, <2>3
<1>8. ASSUME NEW m \in Nodes, NEW e, Ending(m, e)
      PROVE  HaltPaid'
  <2>1. Ended(m, e) /\ Done(m) \subseteq Nodes \ {Root}
      BY <1>8, EndSays, ChildrenType DEF Ending
  <2>2. e.kind # "run_halted"
      BY <2>1 DEF Ended, NoBreakerYet
  <2>3. /\ UNCHANGED <<calls, observed_spend, log_persistence, persisted>>
        /\ phase[m] = "running"
        /\ result' = [result EXCEPT ![m] = e]
        /\ phase'[Root] = phase[Root] \/ m = Root
      BY <1>0, <1>8 DEF Ending, SettleDispatch, vars, TreeTypeOK
  <2>4. CASE m = Root
      BY <1>0, <2>2, <2>3, <2>4 DEF HaltPaid, TreeTypeOK
  <2>5. CASE m # Root
    <3>1. result'[Root] = result[Root] /\ phase'[Root] = phase[Root]
        BY <1>0, <2>3, <2>5 DEF TreeTypeOK
    <3>2. QED
        BY <2>3, <3>1 DEF HaltPaid
  <2>6. QED
      BY <2>4, <2>5
<1>9. ASSUME NEW m \in Nodes, AskStop(m) \/ CancelTask(m)
      PROVE  HaltPaid'
  <2>1. UNCHANGED <<observed_spend, calls, log_persistence, persisted, phase, result>>
      BY <1>9 DEF AskStop, CancelTask, vars
  <2>2. QED
      BY <2>1 DEF HaltPaid
<1>10. QED
    BY <1>3, <1>4, <1>5, <1>6, <1>7, <1>8, <1>9, TreeStepKinds

\* With the register at hand, an author who reported less was found out, unless what
\* the author owed was torn.
LEMMA AccountsHold ==
    ASSUME TypeOK, TreeTypeOK, Grown, Nested, EveryDollarLogged, RegisterIsTheTree, Accounts
    PROVE  EnvelopesAddUp
<1> SUFFICES ASSUME NEW n \in Nodes, phase[n] = "done", result[n].kind # "run_halted"
             PROVE  /\ result[n].cost < CountedBelow(n) =>
                          \E m \in Subtree[n] : Lost(m) \/ Underreported(m)
                    /\ result[n].cost > CountedBelow(n) =>
                          \/ \E m \in Subtree[n] : Said(m, "floor")
                          \/ \E m \in Subtree[n] : Said(m, "freely")
                    /\ result[n].cost > Below(n) => \E m \in Subtree[n] : Said(m, "freely")
                    /\ (\A m \in Subtree[n] : phase[m] # "torn") =>
                          subtree_spend_usd(n) = Below(n)
    BY DEF EnvelopesAddUp, Below, CountedBelow, Said
<1>1. HandedOver(n)
    BY AccountsHandOver
<1>2. ASSUME NEW m \in Subtree[n], Short(m)
      PROVE  \E x \in Subtree[n] : Lost(x) \/ Underreported(x)
  <2>1. /\ m \in Nodes /\ phase[m] = "done" /\ Subtree[m] \subseteq Subtree[n]
      BY <1>2, SubtreeIsClosure, SubtreeTransitive DEF Short, Said
  <2>2. CASE \E x \in Subtree[m] : phase[x] = "torn"
      BY <2>1, <2>2 DEF Lost
  <2>3. CASE \A x \in Subtree[m] : phase[x] # "torn"
    <3>1. subtree_spend_usd(m) = Below(m)
        BY <2>1, <2>3, EdgesReachAll
    <3>2. result[m].cost < subtree_spend_usd(m)
      <4>1. /\ result[m].cost \in Nat /\ result[m].cost < CountedBelow(m)
            /\ CountedBelow(m) \in Nat /\ Below(m) \in Nat /\ CountedBelow(m) <= Below(m)
          BY <1>2, <2>1, BelowType DEF Short, TreeTypeOK, Envelope
      <4>2. QED
          BY <3>1, <4>1
    <3>3. Underreported(m)
        BY <1>2, <3>2 DEF Underreported, Short, Said
    <3>4. QED
        BY <3>3
  <2>4. QED
      BY <2>2, <2>3
<1>3. (\A m \in Subtree[n] : phase[m] # "torn") => subtree_spend_usd(n) = Below(n)
    BY EdgesReachAll
<1>4. QED
    BY <1>1, <1>2, <1>3 DEF HandedOver

\* When authors await what they start, the dollars of every run add up: up the tree to
\* what was counted below, against the register's edges, and in what a halted root
\* reports.  What an author reports is free, but to report less is to be found out.
THEOREM TreeDollars == ASSUME Structured PROVE TreeSpec => []DollarsAddUp
<1>1. TreeInit => NoBreakerYet /\ HaltPaid /\ Accounts
    BY TreeAssumption
    DEF TreeInit, Init, NoBreakerYet, NoResult, HaltPaid, Accounts, Over
<1>2. TypeOK /\ TreeTypeOK /\ NoBreakerYet /\ [TreeNext]_allvars /\ TreeTypeOK'
        => NoBreakerYet'
    BY NoBreakerStep
<1>3. TypeOK /\ TypeOK' /\ TreeTypeOK /\ Grown /\ Nested /\ NoBreakerYet /\ HaltPaid
        /\ [TreeNext]_allvars => HaltPaid'
    BY HaltPaidStep
<1>4. TypeOK /\ TypeOK' /\ TreeTypeOK /\ Grown /\ Nested /\ BooksAddUp /\ NoBreakerYet
        /\ Accounts /\ [TreeNext]_allvars => Accounts'
    BY AccountsStep DEF BooksAddUp
<1>5. HaltPaid /\ BooksAddUp => EveryDollarReported
    BY DEF HaltPaid, BooksAddUp, EveryDollarLogged, EveryDollarReported
<1>6. TypeOK /\ TreeTypeOK /\ Grown /\ Nested /\ BooksAddUp /\ RegisterIsTheTree /\ Accounts
        => EnvelopesAddUp
    BY AccountsHold DEF BooksAddUp
<1>7. TreeSpec => []BooksAddUp
    BY TreeIsDoor, DoorBooks, PTL DEF TreeUsesDoor
<1>8. QED
    BY <1>1, <1>2, <1>3, <1>4, <1>5, <1>6, <1>7, TreeGrows, TreeNests, RegisterTree, PTL
    DEF TreeSpec, DollarsAddUp

=============================================================================
