----------------------------- MODULE Node_proofs -----------------------------
(***************************************************************************)
(* Proofs about the nodes of a run.  The first part is about the default   *)
(* loop, for any toolbox, prices, grants, usages and caps.  The second is  *)
(* about a node with any of the three ways to run: Synthesize's passes and *)
(* the briefing's sections keep the same types, transcript and ledger, and *)
(* their own bounds.                                                       *)
(***************************************************************************)
EXTENDS Node, TLAPS, SequenceTheorems, FiniteSetTheorems

-----------------------------------------------------------------------------
(* Part 1.  The default loop                                               *)

-----------------------------------------------------------------------------
(* Money *)

LEMMA ProductIsNat == \A m, n \in Nat : m * n \in Nat
OBVIOUS

\* What tokens cost is a natural number.
LEMMA CostIsNat ==
    ASSUME NEW s \in Setups, NEW a \in Nat, NEW b \in Nat
    PROVE  /\ cost_usd(s, [in |-> a, out |-> b])
                  = a * Rate(s.in_price) + b * Rate(s.out_price)
           /\ a * Rate(s.in_price) + b * Rate(s.out_price) \in Nat
           /\ Rate(s.in_price) \in Nat /\ Rate(s.out_price) \in Nat
<1> DEFINE u == [in |-> a, out |-> b]
<1>1. Rate(s.in_price) \in Nat /\ Rate(s.out_price) \in Nat
    BY LoopAssumption DEF Setup, Price, Rate
<1>2. a * Rate(s.in_price) + b * Rate(s.out_price) \in Nat
    BY <1>1, ProductIsNat
<1>3. u # NoUsage
    BY PriceAssumption
<1>4. cost_usd(s, u) = a * Rate(s.in_price) + b * Rate(s.out_price)
    BY <1>3 DEF cost_usd
<1>5. QED
    BY <1>1, <1>2, <1>4

\* A usage record is its two counts.
LEMMA UsageOrNone ==
    ASSUME NEW u \in Usages \cup {NoUsage}, u # NoUsage
    PROVE  u.in \in Nat /\ u.out \in Nat /\ u = [in |-> u.in, out |-> u.out]
BY LoopAssumption DEF Usage

\* A turn costs a natural number, at most MaxTurnCost.
LEMMA TurnCost ==
    ASSUME NEW s \in Setups, NEW u \in Usages \cup {NoUsage}
    PROVE  cost_usd(s, u) \in Nat /\ cost_usd(s, u) <= MaxTurnCost
<1>1. CASE u = NoUsage
    BY <1>1, LoopAssumption DEF cost_usd
<1>2. CASE u # NoUsage
  <2>1. u.in \in Nat /\ u.out \in Nat /\ u = [in |-> u.in, out |-> u.out]
    BY <1>2, UsageOrNone
  <2>2. cost_usd(s, u) \in Nat
    BY <2>1, CostIsNat
  <2>3. QED
    BY <1>2, <2>2, LoopAssumption
<1>3. QED
    BY <1>1, <1>2

\* Counting a turn adds its cost to the node's own.
LEMMA CountAddsCost ==
    ASSUME setup \in Setups, in_tokens \in Nat, out_tokens \in Nat,
           NEW u \in Usages \cup {NoUsage}, Count(u), UNCHANGED setup
    PROVE  /\ in_tokens' \in Nat /\ out_tokens' \in Nat
           /\ own_cost \in Nat /\ own_cost' \in Nat
           /\ own_cost' = own_cost + cost_usd(setup, u)
<1> DEFINE p == Rate(setup.in_price)
           q == Rate(setup.out_price)
<1>1. p \in Nat /\ q \in Nat
    BY CostIsNat
<1>2. own_cost = in_tokens * p + out_tokens * q /\ own_cost \in Nat
    BY CostIsNat DEF own_cost
<1>3. CASE u = NoUsage
  <2>1. in_tokens' = in_tokens /\ out_tokens' = out_tokens
    BY <1>3 DEF Count
  <2>2. own_cost' = own_cost
    BY <2>1 DEF own_cost
  <2>3. cost_usd(setup, u) = 0
    BY <1>3 DEF cost_usd
  <2>4. QED
    BY <1>2, <2>1, <2>2, <2>3
<1>4. CASE u # NoUsage
  <2>1. u.in \in Nat /\ u.out \in Nat
    BY <1>4, UsageOrNone
  <2>2. in_tokens' = in_tokens + u.in /\ out_tokens' = out_tokens + u.out
    BY <1>4 DEF Count
  <2>3. in_tokens' \in Nat /\ out_tokens' \in Nat
    BY <2>1, <2>2
  <2>4. own_cost' = in_tokens' * p + out_tokens' * q /\ own_cost' \in Nat
    BY <2>3, CostIsNat DEF own_cost
  <2>5. cost_usd(setup, u) = u.in * p + u.out * q
    BY <1>4 DEF cost_usd
  <2>6. /\ (in_tokens + u.in) * p = in_tokens * p + u.in * p
        /\ (out_tokens + u.out) * q = out_tokens * q + u.out * q
    BY <1>1, <2>1
  <2>7. /\ in_tokens * p \in Nat /\ u.in * p \in Nat
        /\ out_tokens * q \in Nat /\ u.out * q \in Nat
    BY <1>1, <2>1, ProductIsNat
  <2>8. own_cost' = own_cost + cost_usd(setup, u)
    <3> DEFINE a == in_tokens * p
               b == u.in * p
               c == out_tokens * q
               d == u.out * q
    <3>1. own_cost' = (a + b) + (c + d)
      BY <2>2, <2>4, <2>6
    <3>2. own_cost = a + c /\ cost_usd(setup, u) = b + d
      BY <1>2, <2>5
    <3>3. a \in Nat /\ b \in Nat /\ c \in Nat /\ d \in Nat
      BY <2>7
    <3> HIDE DEF a, b, c, d
    <3>4. QED
      BY <3>1, <3>2, <3>3
  <2>9. QED
    BY <1>2, <2>3, <2>4, <2>8
<1>5. QED
    BY <1>3, <1>4

-----------------------------------------------------------------------------
(* Types *)

Message == [role : {"user", "assistant", "tool"}, calls : Seq(Asks)]

LEMMA TypesHoldInitially == LoopInit => LoopTypeOK
<1>1. <<>> \in Seq(Message) /\ <<>> \in Seq(Asks)
    BY EmptySeq
<1>2. SUFFICES ASSUME LoopInit PROVE LoopTypeOK
    OBVIOUS
<1>3. messages \in Seq([role : {"user", "assistant", "tool"}, calls : Seq(Asks)])
    BY <1>1, <1>2 DEF LoopInit, Message
<1>4. pending \in Seq(Asks)
    BY <1>1, <1>2 DEF LoopInit
<1>5. iterations \in 0..MaxIterations
    BY <1>2, LoopAssumption DEF LoopInit
<1>6. QED
    BY <1>2, <1>3, <1>4, <1>5 DEF LoopInit, LoopTypeOK, Points, Outcomes

\* The ledger adds up to natural numbers.
LEMMA LedgerTypes ==
    ASSUME LoopTypeOK
    PROVE  own_cost \in Nat /\ cost_so_far \in Nat
<1>1. own_cost \in Nat
  <2>1. setup \in Setups /\ in_tokens \in Nat /\ out_tokens \in Nat
    BY DEF LoopTypeOK
  <2>2. QED
    BY <2>1, CostIsNat DEF own_cost
<1>2. QED
    BY <1>1 DEF LoopTypeOK, cost_so_far

\* The answer to the first pending call is a message, and the rest stays pending.
LEMMA AnswerTypes ==
    ASSUME LoopTypeOK, pending # <<>>
    PROVE  /\ Head(pending) \in Asks /\ Tail(pending) \in Seq(Asks)
           /\ AnswerHead(messages) \in Seq(Message)
<1>1. Head(pending) \in Asks /\ Tail(pending) \in Seq(Asks)
    BY HeadTailProperties DEF LoopTypeOK
<1>2. <<Head(pending)>> \in Seq(Asks)
    BY <1>1
<1>3. [role |-> "tool", calls |-> <<Head(pending)>>] \in Message
    BY <1>2 DEF Message
<1>4. messages \in Seq(Message)
    BY DEF LoopTypeOK, Message
<1>5. QED
    BY <1>1, <1>3, <1>4, AppendProperties DEF AnswerHead

LEMMA SaysTypes ==
    ASSUME NEW role \in {"user", "assistant", "tool"}
    PROVE  Says(role) \in Message
BY EmptySeq DEF Says, Message

\* What a child costs is a natural number.
LEMMA ChildCostIsNat ==
    ASSUME LoopTypeOK, NEW cost \in ChildCosts(ChildGrant)
    PROVE  cost \in Nat
<1>1. setup \in Setup
    BY LoopAssumption DEF LoopTypeOK
<1>2. own_cost \in Nat /\ cost_so_far \in Nat
    BY LedgerTypes
<1>3. CASE ~Granted
    BY <1>3, LoopAssumption DEF ChildGrant, ChildCosts
<1>4. CASE Granted
  <2>1. setup.grant \in Nat
    BY <1>1, <1>4 DEF Setup, Granted
  <2>2. ChildGrant \in Nat /\ ChildGrant # NoGrant
    BY <1>2, <1>4, <2>1, LoopAssumption DEF ChildGrant
  <2>3. cost \in {0} \cup 0..(ChildGrant + ChildOvershoot)
    BY <2>2 DEF ChildCosts
  <2>4. QED
    BY <2>2, <2>3, LoopAssumption
<1>5. QED
    BY <1>3, <1>4

LEMMA TypesKept == LoopTypeOK /\ [LoopNext]_loopvars => LoopTypeOK'
<1> SUFFICES ASSUME LoopTypeOK, [LoopNext]_loopvars PROVE LoopTypeOK'
    OBVIOUS
<1>0. messages \in Seq(Message)
    BY DEF LoopTypeOK, Message
<1>1. CASE Signal
    BY <1>1 DEF Signal, LoopTypeOK, ledger, Points, Outcomes
<1>2. CASE Begin
  <2>1. <<Says("user")>> \in Seq(Message)
    BY SaysTypes
  <2>2. Refusal \in {"none", "cancelled", "validation"}
    BY DEF Refusal
  <2>3. QED
    BY <1>2, <2>1, <2>2 DEF Begin, End, LoopTypeOK, Message, ledger, signal, Points, Outcomes
<1>3. CASE Exhaust \/ StopAtCheckpoint \/ DeclineTurn \/ AskProvider
    BY <1>3, LoopAssumption
    DEF Exhaust, StopAtCheckpoint, DeclineTurn, AskProvider, End, LoopTypeOK, ledger,
        signal, Points, Outcomes
<1>4. CASE ProviderFails \/ Conclude
    BY <1>4 DEF ProviderFails, Conclude, End, LoopTypeOK, ledger, signal, Points, Outcomes
<1>5. ASSUME NEW u \in Usages \cup {NoUsage},
             \/ TurnUnmeterable(u) \/ TurnFails(u) \/ ReplyInProse(u)
             \/ \E reply \in Replies : ReplyWithCalls(u, reply)
      PROVE  LoopTypeOK'
  <2>1. cost_usd(setup, u) \in Nat
    BY TurnCost DEF LoopTypeOK
  <2>2. CASE TurnUnmeterable(u)
    BY <2>1, <2>2 DEF TurnUnmeterable, End, LoopTypeOK, signal, Points, Outcomes
  <2>3. ASSUME Paid(u)
        PROVE  /\ in_tokens' \in Nat /\ out_tokens' \in Nat /\ settled' \in Nat
               /\ setup' = setup /\ children_cost' = children_cost
    BY <2>1, <2>3, CountAddsCost DEF Paid, LoopTypeOK
  <2>4. CASE TurnFails(u)
    BY <2>3, <2>4 DEF TurnFails, Paid, End, LoopTypeOK, signal, Points, Outcomes
  <2>5. CASE ReplyInProse(u)
    <3>1. <<Says("assistant"), Says("user")>> \in Seq(Message)
      BY SaysTypes
    <3>2. messages \o <<Says("assistant"), Says("user")>> \in Seq(Message)
      BY <1>0, <3>1, ConcatProperties
    <3>3. messages' \in Seq(Message)
      BY <1>0, <2>5, <3>2 DEF ReplyInProse
    <3>4. QED
      BY <2>3, <2>5, <3>3
      DEF ReplyInProse, Paid, End, LoopTypeOK, Message, signal, Points, Outcomes
  <2>6. ASSUME NEW reply \in Replies, ReplyWithCalls(u, reply)
        PROVE  LoopTypeOK'
    <3>1. reply \in Seq(Asks)
      BY LoopAssumption DEF Replies
    <3>2. [role |-> "assistant", calls |-> reply] \in Message
      BY <3>1 DEF Message
    <3>3. messages' \in Seq(Message)
      BY <1>0, <2>6, <3>2, AppendProperties DEF ReplyWithCalls
    <3>4. QED
      BY <2>3, <2>6, <3>1, <3>3
      DEF ReplyWithCalls, Paid, LoopTypeOK, Message, signal, Points, Outcomes
  <2>7. QED
    BY <1>5, <2>2, <2>4, <2>5, <2>6
<1>6. CASE FeedBack
    BY <1>6, AnswerTypes DEF FeedBack, LoopTypeOK, Message, ledger, signal, Points, Outcomes
<1>7. CASE DispatchTool
  <2>1. children_cost' \in Nat
    <3>1. PICK cost \in IF breaker THEN {0} ELSE ChildCosts(ChildGrant) :
              children_cost' = children_cost + cost
      BY <1>7 DEF DispatchTool
    <3>2. cost \in Nat
      BY <3>1, ChildCostIsNat
    <3>3. QED
      BY <3>1, <3>2 DEF LoopTypeOK
  <2>2. QED
    BY <1>7, <2>1, AnswerTypes
    DEF DispatchTool, LoopTypeOK, Message, ledger, signal, Points, Outcomes
<1>8. CASE EndTurn
  <2>1. messages' \in Seq(Message)
    BY <1>0, <1>8, SaysTypes, AppendProperties DEF EndTurn
  <2>2. QED
    BY <1>8, <2>1 DEF EndTurn, LoopTypeOK, Message, ledger, signal, Points, Outcomes
<1>9. CASE UNCHANGED loopvars
    BY <1>9 DEF loopvars, LoopTypeOK, ledger, signal
<1>10. QED
    BY <1>1, <1>2, <1>3, <1>4, <1>5, <1>6, <1>7, <1>8, <1>9 DEF LoopNext

\* Every value of the loop keeps its type, and an ended loop says how it ended.
THEOREM LoopTypes == LoopSpec => []LoopTypeOK
BY TypesHoldInitially, TypesKept, PTL DEF LoopSpec

-----------------------------------------------------------------------------
(* The envelope's cost is what the door charged *)

\* While the node runs the two agree; what may come between them ends it.
LedgerMatches == (pc # "done" => own_cost = settled) /\ EnvelopeMatchesDoor

\* A call that is charged something and then refused was for a model without a price.
LEMMA UnmeterableIsUnpriced ==
    ASSUME NEW u \in Usages \cup {NoUsage}, Unmeterable(setup, u, Accounted),
           cost_usd(setup, u) # 0
    PROVE  ~is_priced(setup)
BY DEF Unmeterable, cost_usd

\* A turn that is paid is counted at the same price.
LEMMA PaidIsCounted ==
    ASSUME LoopTypeOK, LedgerMatches, NEW u \in Usages \cup {NoUsage}, Paid(u)
    PROVE  LedgerMatches'
<1>1. own_cost' = own_cost + cost_usd(setup, u)
    BY CountAddsCost DEF Paid, LoopTypeOK
<1>2. settled' = settled + cost_usd(setup, u)
    BY DEF Paid
<1>3. own_cost = settled
    BY DEF LedgerMatches, Paid
<1>4. QED
    BY <1>1, <1>2, <1>3 DEF LedgerMatches, EnvelopeMatchesDoor

LEMMA LedgerKept ==
    ASSUME LoopTypeOK, LedgerMatches, [LoopNext]_loopvars
    PROVE  LedgerMatches'
<1>1. ASSUME UNCHANGED <<setup, in_tokens, out_tokens, settled>>,
             pc # "done" \/ UNCHANGED <<pc, outcome>>
      PROVE  LedgerMatches'
    BY <1>1 DEF LedgerMatches, EnvelopeMatchesDoor, own_cost
<1>2. ASSUME NEW u \in Usages \cup {NoUsage}, TurnUnmeterable(u)
      PROVE  LedgerMatches'
  <2>1. cost_usd(setup, u) \in Nat /\ cost_usd(setup, u) <= MaxTurnCost
    BY TurnCost DEF LoopTypeOK
  <2>2. own_cost = settled /\ own_cost \in Nat
    BY <1>2, LedgerTypes DEF TurnUnmeterable, LedgerMatches
  <2>3. /\ settled' = settled + cost_usd(setup, u) /\ own_cost' = own_cost /\ setup' = setup
        /\ pc' = "done" /\ outcome' = "internal"
    BY <1>2 DEF TurnUnmeterable, End, own_cost
  <2>4. cost_usd(setup, u) # 0 => ~is_priced(setup)
    BY <1>2, UnmeterableIsUnpriced DEF TurnUnmeterable
  <2>5. settled' = own_cost' \/ (own_cost' < settled' /\ settled' <= own_cost' + MaxTurnCost)
    BY <2>1, <2>2, <2>3, LoopAssumption
  <2>6. settled' = own_cost' \/ ~is_priced(setup')
    BY <2>1, <2>2, <2>3, <2>4
  <2>7. QED
    BY <2>3, <2>5, <2>6 DEF LedgerMatches, EnvelopeMatchesDoor
<1>3. ASSUME NEW u \in Usages \cup {NoUsage}, Paid(u)
      PROVE  LedgerMatches'
    BY <1>3, PaidIsCounted
<1>4. CASE \/ Signal \/ Begin \/ Exhaust \/ StopAtCheckpoint \/ DeclineTurn \/ AskProvider
           \/ ProviderFails \/ Conclude \/ FeedBack \/ DispatchTool \/ EndTurn
  <2>1. UNCHANGED <<setup, in_tokens, out_tokens, settled>>
    BY <1>4
    DEF Signal, Begin, Exhaust, StopAtCheckpoint, DeclineTurn, AskProvider, ProviderFails,
        Conclude, FeedBack, DispatchTool, EndTurn, ledger
  <2>2. pc # "done"
    BY <1>4
    DEF Signal, Begin, Exhaust, StopAtCheckpoint, DeclineTurn, AskProvider, ProviderFails,
        Conclude, FeedBack, DispatchTool, EndTurn
  <2>3. QED
    BY <1>1, <2>1, <2>2
<1>5. CASE UNCHANGED loopvars
    BY <1>1, <1>5 DEF loopvars, ledger
<1>6. QED
    BY <1>2, <1>3, <1>4, <1>5 DEF LoopNext, TurnFails, ReplyInProse, ReplyWithCalls

LEMMA LedgerMatchesFirst == LoopInit => LedgerMatches
<1>1. SUFFICES ASSUME LoopInit PROVE LedgerMatches
    OBVIOUS
<1>2. setup \in Setups /\ in_tokens = 0 /\ out_tokens = 0 /\ settled = 0
    BY <1>1 DEF LoopInit
<1>3. own_cost = 0 * Rate(setup.in_price) + 0 * Rate(setup.out_price)
  <2>1. own_cost = cost_usd(setup, [in |-> 0, out |-> 0])
    BY <1>2 DEF own_cost
  <2>2. 0 \in Nat
    OBVIOUS
  <2>3. QED
    BY <1>2, <2>1, <2>2, CostIsNat
<1>4. Rate(setup.in_price) \in Nat /\ Rate(setup.out_price) \in Nat
    BY <1>2, CostIsNat
<1>5. QED
    BY <1>2, <1>3, <1>4 DEF LedgerMatches, EnvelopeMatchesDoor

\* For any prices, usages, grants and caps, an envelope's own cost is what the door
\* charged the node's calls, but for the one call of a model without a price that was
\* charged, refused and so ended the node.
THEOREM EnvelopeIsTrue == LoopSpec => []EnvelopeMatchesDoor
<1>1. LoopInit => LedgerMatches
    BY LedgerMatchesFirst
<1>2. LoopTypeOK /\ LedgerMatches /\ [LoopNext]_loopvars => LedgerMatches'
    BY LedgerKept
<1>3. LedgerMatches => EnvelopeMatchesDoor
    BY DEF LedgerMatches, EnvelopeMatchesDoor
<1>4. QED
    BY <1>1, <1>2, <1>3, LoopTypes, PTL DEF LoopSpec

-----------------------------------------------------------------------------
(* The grant *)

\* How many children of the reply may have overshot so far.
Slack == IF Starves THEN 1 ELSE MaxToolCalls - Len(pending)

\* How far past the grant each point of the loop may be.
GrantBounds ==
    /\ pc = "reply" => Len(pending) <= MaxToolCalls
    /\ Granted =>
          /\ cost_so_far <= setup.grant + Overshoot
          /\ pc = "provider" => cost_so_far <= setup.grant
          /\ pc = "reply" => cost_so_far <= setup.grant + Slack * ChildOvershoot

LEMMA MoreOvershoots ==
    ASSUME NEW j \in Nat, NEW k \in Nat, NEW c \in Nat, j <= k
    PROVE  j * c \in Nat /\ k * c \in Nat /\ j * c <= k * c /\ (j + 1) * c = j * c + c
<1>1. j * c \in Nat /\ k * c \in Nat
    BY ProductIsNat
<1>2. (j + 1) * c = j * c + c
    OBVIOUS
<1>3. j * c <= k * c
    OBVIOUS
<1>4. QED
    BY <1>1, <1>2, <1>3

LEMMA GrantTypes ==
    ASSUME LoopTypeOK, Granted
    PROVE  /\ setup.grant \in Nat /\ MaxTurnCost \in Nat /\ ChildOvershoot \in Nat
           /\ AtOnce \in Nat /\ AtOnce * ChildOvershoot \in Nat
           /\ Overshoot \in Nat /\ MaxTurnCost <= Overshoot
           /\ AtOnce * ChildOvershoot <= Overshoot
<1>1. /\ setup.grant \in Nat /\ MaxTurnCost \in Nat /\ ChildOvershoot \in Nat
      /\ MaxToolCalls \in Nat
    BY LoopAssumption DEF LoopTypeOK, Setup, Granted
<1>2. AtOnce \in Nat
    BY <1>1 DEF AtOnce
<1>3. AtOnce * ChildOvershoot \in Nat
    BY <1>1, <1>2, ProductIsNat
<1> HIDE DEF AtOnce
<1>4. QED
  <2> DEFINE m == AtOnce * ChildOvershoot
  <2>1. m \in Nat /\ Overshoot = IF MaxTurnCost > m THEN MaxTurnCost ELSE m
    BY <1>3 DEF Overshoot
  <2> HIDE DEF m
  <2>2. Overshoot \in Nat /\ MaxTurnCost <= Overshoot /\ m <= Overshoot
    BY <1>1, <2>1
  <2>3. QED
    BY <1>1, <1>2, <1>3, <2>2 DEF m

LEMMA SlackTypes ==
    ASSUME LoopTypeOK, Len(pending) <= MaxToolCalls
    PROVE  Slack \in Nat /\ Slack <= AtOnce /\ AtOnce \in Nat /\ Len(pending) \in Nat
<1>1. Len(pending) \in Nat /\ MaxToolCalls \in Nat
    BY LoopAssumption, LenProperties DEF LoopTypeOK
<1>2. QED
    BY <1>1 DEF Slack, AtOnce, Starves

\* A child adds at most its own overshoot to how far the grant is passed, and nothing
\* once the grant is spent, where that starves it.
LEMMA ChildKeepsGrant ==
    ASSUME LoopTypeOK, Granted, NEW past \in Nat, cost_so_far <= setup.grant + past,
           Starves => past = ChildOvershoot,
           NEW cost \in ChildCosts(ChildGrant)
    PROVE  cost_so_far + cost <= setup.grant + (IF Starves THEN past ELSE past + ChildOvershoot)
<1>1. cost_so_far \in Nat /\ setup.grant \in Nat /\ ChildOvershoot \in Nat
    BY LedgerTypes, GrantTypes
<1>2. cost \in Nat
    BY ChildCostIsNat
<1>3. CASE cost_so_far > setup.grant
  <2>1. ChildGrant = 0 /\ ChildGrant # NoGrant
    BY <1>3, LoopAssumption DEF ChildGrant
  <2>2. Starves => cost = 0
    BY <2>1 DEF ChildCosts, Starves
  <2>3. cost \in {0} \cup 0..(0 + ChildOvershoot)
    BY <2>1 DEF ChildCosts
  <2>4. cost <= ChildOvershoot
    BY <1>1, <2>3
  <2>5. QED
    BY <1>1, <1>2, <2>2, <2>4
<1>4. CASE ~(cost_so_far > setup.grant)
  <2>1. ChildGrant = setup.grant - cost_so_far
    BY <1>4 DEF ChildGrant
  <2>2. ChildGrant \in Nat /\ ChildGrant # NoGrant
    BY <1>1, <1>4, <2>1, LoopAssumption
  <2>3. cost \in {0} \cup 0..(ChildGrant + ChildOvershoot)
    BY <2>2 DEF ChildCosts
  <2>4. cost <= ChildGrant + ChildOvershoot
    BY <1>1, <2>2, <2>3
  <2>5. QED
    BY <1>1, <1>2, <2>1, <2>4
<1>5. QED
    BY <1>3, <1>4

\* A turn is asked for within the grant, so it passes it by no more than its cost.
LEMMA PaidKeepsGrant ==
    ASSUME LoopTypeOK, GrantBounds, Granted, NEW u \in Usages \cup {NoUsage}, Paid(u)
    PROVE  cost_so_far' \in Nat /\ cost_so_far' <= setup.grant + Overshoot
<1>1. cost_usd(setup, u) \in Nat /\ cost_usd(setup, u) <= MaxTurnCost
    BY TurnCost DEF LoopTypeOK
<1>2. /\ own_cost \in Nat /\ own_cost' = own_cost + cost_usd(setup, u)
      /\ children_cost' = children_cost /\ children_cost \in Nat
    BY CountAddsCost DEF Paid, LoopTypeOK
<1>3. cost_so_far' = cost_so_far + cost_usd(setup, u)
    BY <1>1, <1>2 DEF cost_so_far
<1>4. cost_so_far <= setup.grant
    BY DEF Paid, GrantBounds
<1>5. /\ cost_so_far \in Nat /\ setup.grant \in Nat /\ MaxTurnCost \in Nat
      /\ Overshoot \in Nat /\ MaxTurnCost <= Overshoot
    BY LedgerTypes, GrantTypes
<1>6. QED
    BY <1>1, <1>3, <1>4, <1>5

LEMMA GrantKept ==
    ASSUME LoopTypeOK, GrantBounds, [LoopNext]_loopvars
    PROVE  GrantBounds'
<1>1. setup' = setup
    BY DEF LoopNext, loopvars, Signal, Begin, Exhaust, StopAtCheckpoint, DeclineTurn,
           AskProvider, ProviderFails, TurnUnmeterable, TurnFails, ReplyInProse,
           ReplyWithCalls, Paid, Conclude, FeedBack, DispatchTool, EndTurn
<1>2. (Granted' <=> Granted) /\ (Starves' <=> Starves) /\ Overshoot' = Overshoot
    BY <1>1 DEF Granted, Overshoot, AtOnce, Starves
<1>3. Granted => /\ cost_so_far \in Nat /\ setup.grant \in Nat /\ MaxTurnCost \in Nat
                 /\ ChildOvershoot \in Nat /\ Overshoot \in Nat /\ MaxTurnCost <= Overshoot
    BY LedgerTypes, GrantTypes
<1>4. ASSUME UNCHANGED <<in_tokens, out_tokens, children_cost>> PROVE cost_so_far' = cost_so_far
    BY <1>1, <1>4 DEF cost_so_far, own_cost
<1>5. ASSUME pc' \notin {"provider", "reply"},
             Granted => cost_so_far' <= setup.grant + Overshoot
      PROVE  GrantBounds'
    BY <1>1, <1>2, <1>5 DEF GrantBounds
<1>6. CASE Signal \/ UNCHANGED loopvars
  <2>1. UNCHANGED <<setup, pc, pending, in_tokens, out_tokens, children_cost>>
    BY <1>6 DEF Signal, loopvars, ledger
  <2>2. cost_so_far' = cost_so_far /\ Slack' = Slack
    BY <1>2, <1>4, <2>1 DEF Slack
  <2>3. QED
    BY <1>1, <1>2, <2>1, <2>2 DEF GrantBounds
<1>7. CASE Begin \/ Exhaust \/ StopAtCheckpoint \/ DeclineTurn \/ ProviderFails \/ Conclude
           \/ EndTurn \/ \E u \in Usages \cup {NoUsage} : TurnUnmeterable(u)
  <2>1. pc' \notin {"provider", "reply"}
    BY <1>7 DEF Begin, Exhaust, StopAtCheckpoint, DeclineTurn, ProviderFails, Conclude,
                EndTurn, TurnUnmeterable, End
  <2>2. UNCHANGED <<in_tokens, out_tokens, children_cost>>
    BY <1>7 DEF Begin, Exhaust, StopAtCheckpoint, DeclineTurn, ProviderFails, Conclude,
                EndTurn, TurnUnmeterable, ledger
  <2>3. QED
    BY <1>4, <1>5, <2>1, <2>2 DEF GrantBounds
<1>8. CASE AskProvider
  <2>1. cost_so_far' = cost_so_far /\ pc' = "provider"
    BY <1>4, <1>8 DEF AskProvider, ledger
  <2>2. Rate(setup.in_price) \in Nat
    BY CostIsNat DEF LoopTypeOK
  <2>3. Floor * Rate(setup.in_price) \in Nat
    BY <2>2, ProductIsNat, LoopAssumption
  <2>4. Granted => ~(cost_so_far + Floor * Rate(setup.in_price) > setup.grant)
    BY <1>8 DEF AskProvider, Gate, OverGrant
  <2>5. Granted => cost_so_far <= setup.grant
    BY <1>3, <2>3, <2>4
  <2>6. QED
    BY <1>1, <1>2, <1>3, <2>1, <2>5 DEF GrantBounds
<1>9. ASSUME NEW u \in Usages \cup {NoUsage}, TurnFails(u) \/ ReplyInProse(u)
      PROVE  GrantBounds'
  <2>1. Paid(u) /\ pc' \notin {"provider", "reply"}
    BY <1>9 DEF TurnFails, ReplyInProse, End
  <2>2. QED
    BY <1>5, <2>1, PaidKeepsGrant
<1>10. ASSUME NEW u \in Usages \cup {NoUsage}, NEW reply \in Replies, ReplyWithCalls(u, reply)
       PROVE  GrantBounds'
  <2>1. /\ Paid(u) /\ pc' = "reply" /\ pending' = reply
        /\ Granted => ~(cost_so_far' > setup.grant)
    BY <1>1, <1>2, <1>10 DEF ReplyWithCalls, OverGrant, Paid
  <2>2. Len(reply) \in Nat /\ Len(reply) <= MaxToolCalls /\ MaxToolCalls \in Nat
    BY LoopAssumption DEF Replies
  <2>3. Granted => /\ cost_so_far' \in Nat /\ cost_so_far' <= setup.grant
                   /\ cost_so_far' <= setup.grant + Overshoot
    BY <1>3, <1>10, <2>1, PaidKeepsGrant
  <2>4. Slack' \in Nat
    BY <1>2, <2>1, <2>2 DEF Slack
  <2>5. Granted => Slack' * ChildOvershoot \in Nat
    BY <1>3, <2>4, ProductIsNat
  <2>6. Granted => cost_so_far' <= setup.grant + Slack' * ChildOvershoot
    <3> DEFINE past == Slack' * ChildOvershoot
    <3> HIDE DEF past
    <3>1. Granted => past \in Nat
      BY <2>5 DEF past
    <3>2. Granted => cost_so_far' <= setup.grant + past
      BY <1>3, <2>3, <3>1
    <3>3. QED
      BY <3>2 DEF past
  <2>7. QED
    BY <1>1, <1>2, <2>1, <2>2, <2>3, <2>6 DEF GrantBounds
<1>11. ASSUME pc = "reply", pc' = pc, pending # <<>>, pending' = Tail(pending),
              Granted => cost_so_far' \in Nat,
              Granted => cost_so_far' <= setup.grant
                  + (IF Starves THEN Slack * ChildOvershoot
                     ELSE Slack * ChildOvershoot + ChildOvershoot)
       PROVE  GrantBounds'
  <2>1. Len(pending) <= MaxToolCalls
    BY <1>11 DEF GrantBounds
  <2>2. Len(pending) \in Nat \ {0} /\ Len(pending') = Len(pending) - 1
    BY <1>11, HeadTailProperties, EmptySeq DEF LoopTypeOK
  <2>3. Slack \in Nat /\ AtOnce \in Nat /\ MaxToolCalls \in Nat
    BY <2>1, SlackTypes, LoopAssumption
  <2>4. Slack' = IF Starves THEN Slack ELSE Slack + 1
    BY <1>2, <2>1, <2>2, <2>3 DEF Slack
  <2>5. Slack' \in Nat /\ Slack' <= AtOnce
    BY <1>2, <2>1, <2>2, <2>3, <2>4 DEF Slack, AtOnce, Starves
  <2>6. SUFFICES ASSUME Granted
                 PROVE  /\ cost_so_far' <= setup.grant + Overshoot
                        /\ cost_so_far' <= setup.grant + Slack' * ChildOvershoot
    BY <1>1, <1>2, <1>11, <2>1, <2>2, <2>3 DEF GrantBounds
  <2>7. /\ Slack' * ChildOvershoot \in Nat
        /\ Slack' * ChildOvershoot <= AtOnce * ChildOvershoot
    BY <1>3, <2>3, <2>5, <2>6, MoreOvershoots
  <2>8. (Slack + 1) * ChildOvershoot = Slack * ChildOvershoot + ChildOvershoot
    BY <1>3, <2>3, <2>6, MoreOvershoots
  <2>9. cost_so_far' <= setup.grant + Slack' * ChildOvershoot
    BY <1>11, <2>4, <2>6, <2>8
  <2>10. AtOnce * ChildOvershoot \in Nat /\ AtOnce * ChildOvershoot <= Overshoot
    BY <2>6, GrantTypes
  <2>11. cost_so_far' \in Nat
    BY <1>11, <2>6
  <2>12. QED
    <3> DEFINE past == Slack' * ChildOvershoot
               most == AtOnce * ChildOvershoot
    <3> HIDE DEF past, most
    <3>1. /\ past \in Nat /\ most \in Nat /\ past <= most /\ most <= Overshoot
          /\ cost_so_far' <= setup.grant + past
      BY <2>7, <2>9, <2>10 DEF past, most
    <3>2. cost_so_far' <= setup.grant + Overshoot
      BY <1>3, <2>6, <2>11, <3>1
    <3>3. QED
      BY <2>9, <3>2
<1>12. CASE FeedBack
  <2>1. /\ pc = "reply" /\ pc' = pc /\ pending # <<>> /\ pending' = Tail(pending)
        /\ cost_so_far' = cost_so_far
    BY <1>4, <1>12 DEF FeedBack, ledger
  <2>2. Granted => /\ cost_so_far' \in Nat
                   /\ cost_so_far' <= setup.grant
                       + (IF Starves THEN Slack * ChildOvershoot
                          ELSE Slack * ChildOvershoot + ChildOvershoot)
    <3> DEFINE past == Slack * ChildOvershoot
    <3> HIDE DEF past
    <3>1. Slack \in Nat
      BY <2>1, SlackTypes DEF GrantBounds
    <3>2. Granted => past \in Nat /\ cost_so_far <= setup.grant + past
      BY <1>3, <2>1, <3>1, ProductIsNat DEF GrantBounds, past
    <3>3. Granted => /\ cost_so_far' \in Nat
                     /\ cost_so_far' <= setup.grant
                         + (IF Starves THEN past ELSE past + ChildOvershoot)
      BY <1>3, <2>1, <3>2
    <3>4. QED
      BY <3>3 DEF past
  <2>3. QED
    BY <1>11, <2>1, <2>2
<1>13. CASE DispatchTool
  <2>1. PICK cost \in IF breaker THEN {0} ELSE ChildCosts(ChildGrant) :
            children_cost' = children_cost + cost
    BY <1>13 DEF DispatchTool
  <2>2. /\ own_cost' = own_cost /\ own_cost \in Nat /\ children_cost \in Nat
        /\ pc = "reply" /\ pc' = pc /\ pending # <<>> /\ pending' = Tail(pending)
    BY <1>1, <1>13, LedgerTypes DEF DispatchTool, own_cost, LoopTypeOK
  <2>3. cost \in Nat
    BY <2>1, ChildCostIsNat
  <2>4. cost_so_far' = cost_so_far + cost
    BY <2>1, <2>2, <2>3 DEF cost_so_far
  <2>5. ASSUME Granted
        PROVE  /\ cost_so_far' \in Nat
               /\ cost_so_far' <= setup.grant
                   + (IF Starves THEN Slack * ChildOvershoot
                      ELSE Slack * ChildOvershoot + ChildOvershoot)
    <3> DEFINE past == Slack * ChildOvershoot
    <3> HIDE DEF past
    <3>1. Slack \in Nat /\ (Starves => Slack = 1)
      BY <2>2, SlackTypes DEF GrantBounds, Slack
    <3>2. past \in Nat /\ cost_so_far <= setup.grant + past
      BY <1>3, <2>2, <2>5, <3>1, ProductIsNat DEF GrantBounds, past
    <3>3. Starves => past = ChildOvershoot
      BY <1>3, <2>5, <3>1 DEF past
    <3>4. CASE breaker
      BY <1>3, <2>1, <2>4, <2>5, <3>2, <3>4 DEF past
    <3>5. CASE ~breaker
      <4>1. cost \in ChildCosts(ChildGrant)
        BY <2>1, <3>5
      <4>2. cost_so_far + cost <= setup.grant
                + (IF Starves THEN past ELSE past + ChildOvershoot)
        BY <2>5, <3>2, <3>3, <4>1, ChildKeepsGrant
      <4>3. QED
        BY <1>3, <2>3, <2>4, <2>5, <4>2 DEF past
    <3>6. QED
      BY <3>4, <3>5
  <2>6. QED
    BY <1>11, <2>2, <2>5
<1>14. QED
    BY <1>6, <1>7, <1>8, <1>9, <1>10, <1>12, <1>13 DEF LoopNext

\* Nothing is spent at the start.
LEMMA StartIsFree == LoopInit => cost_so_far = 0
<1>1. SUFFICES ASSUME LoopInit PROVE cost_so_far = 0
    OBVIOUS
<1>2. setup \in Setups /\ in_tokens = 0 /\ out_tokens = 0 /\ children_cost = 0
    BY <1>1 DEF LoopInit
<1>3. own_cost = cost_usd(setup, [in |-> 0, out |-> 0])
    BY <1>2 DEF own_cost
<1>4. 0 \in Nat
    OBVIOUS
<1>5. own_cost = 0 * Rate(setup.in_price) + 0 * Rate(setup.out_price)
    BY <1>2, <1>3, <1>4, CostIsNat
<1>6. Rate(setup.in_price) \in Nat /\ Rate(setup.out_price) \in Nat
    BY <1>2, CostIsNat
<1>7. QED
    BY <1>2, <1>5, <1>6 DEF cost_so_far

LEMMA GrantFirst == LoopInit => GrantBounds
<1>1. SUFFICES ASSUME LoopInit, Granted PROVE cost_so_far <= setup.grant + Overshoot
    BY DEF GrantBounds, LoopInit
<1>2. setup.grant \in Nat /\ Overshoot \in Nat
    BY <1>1, TypesHoldInitially, GrantTypes
<1>3. QED
    BY <1>1, <1>2, StartIsFree

\* For every grant, price, usage and toolbox, a node passes its grant by at most one
\* turn or one child's overshoot, or where a child's input is free by one for each call
\* of a reply, whatever the node's own model.
THEOREM GrantIsHeld == LoopSpec => []GrantHolds
<1>1. LoopInit => GrantBounds
    BY GrantFirst
<1>2. LoopTypeOK /\ GrantBounds /\ [LoopNext]_loopvars => GrantBounds'
    BY GrantKept
<1>3. GrantBounds => GrantHolds
    BY DEF GrantBounds, GrantHolds
<1>4. QED
    BY <1>1, <1>2, <1>3, LoopTypes, PTL DEF LoopSpec

-----------------------------------------------------------------------------
(* The transcript *)

Answer(call) == [role |-> "tool", calls |-> <<call>>]

\* The calls of an assistant message that have their place in the transcript are
\* answered there; the others are what is pending, and only while the loop replies.
CallsInOrder ==
    \A i \in 1..Len(messages) : messages[i].role = "assistant" =>
        \A k \in 1..Len(messages[i].calls) :
            /\ i + k <= Len(messages) => messages[i + k] = Answer(messages[i].calls[k])
            /\ i + k > Len(messages) /\ pc # "done" =>
                  /\ pc = "reply"
                  /\ i + Len(messages[i].calls) = Len(messages) + Len(pending)
                  /\ messages[i].calls[k] = pending[i + k - Len(messages)]

\* Every call of every assistant message of a transcript is answered.
Complete(log) ==
    \A i \in 1..Len(log) : log[i].role = "assistant" =>
        \A k \in 1..Len(log[i].calls) :
            i + k <= Len(log) /\ log[i + k] = Answer(log[i].calls[k])

LEMMA CallsAreASeq ==
    ASSUME NEW m \in Message
    PROVE  m.calls \in Seq(Asks) /\ Len(m.calls) \in Nat
<1>1. m.calls \in Seq(Asks)
    BY DEF Message
<1>2. QED
    BY <1>1, LenProperties

LEMMA NothingOwed ==
    ASSUME LoopTypeOK, CallsInOrder, pc # "done", pc = "reply" => pending = <<>>
    PROVE  Complete(messages)
<1> SUFFICES ASSUME NEW i \in 1..Len(messages), messages[i].role = "assistant",
                    NEW k \in 1..Len(messages[i].calls)
             PROVE  i + k <= Len(messages) /\ messages[i + k] = Answer(messages[i].calls[k])
    BY DEF Complete
<1>1. messages \in Seq(Message)
    BY DEF LoopTypeOK, Message
<1>2. Len(messages) \in Nat /\ messages[i] \in Message
    BY <1>1, ElementOfSeq, LenProperties
<1>3. Len(messages[i].calls) \in Nat
    BY <1>2, CallsAreASeq
<1>4. ASSUME i + k > Len(messages) PROVE FALSE
  <2>1. pc = "reply" /\ i + Len(messages[i].calls) = Len(messages) + Len(pending)
    BY <1>4 DEF CallsInOrder
  <2>2. Len(pending) = 0
    BY <2>1
  <2>3. QED
    BY <1>2, <1>3, <1>4, <2>1, <2>2
<1>5. i + k <= Len(messages)
    BY <1>2, <1>3, <1>4
<1>6. QED
    BY <1>5 DEF CallsInOrder

\* Messages that make no calls keep a complete transcript complete.
LEMMA StaysComplete ==
    ASSUME NEW log \in Seq(Message), Complete(log), NEW more \in Seq(Message),
           \A j \in 1..Len(more) : more[j].calls = <<>>
    PROVE  Complete(log \o more)
<1> DEFINE all == log \o more
<1>1. /\ all \in Seq(Message) /\ Len(all) = Len(log) + Len(more)
      /\ \A n \in 1..Len(all) : all[n] = IF n <= Len(log) THEN log[n] ELSE more[n - Len(log)]
    BY ConcatProperties
<1>2. Len(log) \in Nat /\ Len(more) \in Nat
    BY LenProperties
<1> HIDE DEF all
<1>3. SUFFICES ASSUME NEW i \in 1..Len(all), all[i].role = "assistant",
                      NEW k \in 1..Len(all[i].calls)
               PROVE  i + k <= Len(all) /\ all[i + k] = Answer(all[i].calls[k])
    BY DEF Complete, all
<1>4. CASE i <= Len(log)
  <2>1. i \in 1..Len(log) /\ all[i] = log[i]
    BY <1>1, <1>2, <1>4
  <2>2. i + k <= Len(log) /\ log[i + k] = Answer(log[i].calls[k])
    BY <1>3, <2>1 DEF Complete
  <2>3. log[i] \in Message
    BY <2>1, ElementOfSeq
  <2>4. k \in Nat /\ k >= 1
    BY <2>1, <2>3, CallsAreASeq
  <2>5. i + k \in 1..Len(all) /\ all[i + k] = log[i + k]
    BY <1>1, <1>2, <2>2, <2>4
  <2>6. QED
    BY <1>1, <1>2, <2>1, <2>2, <2>4, <2>5
<1>5. CASE i > Len(log)
  <2>1. i - Len(log) \in 1..Len(more) /\ all[i] = more[i - Len(log)]
    BY <1>1, <1>2, <1>5
  <2>2. all[i].calls = <<>>
    BY <2>1
  <2>3. QED
    BY <2>2
<1>6. QED
    BY <1>1, <1>2, <1>4, <1>5

\* A complete transcript owes nothing, whatever is pending.
LEMMA CompleteIsInOrder ==
    ASSUME Complete(messages'), messages' \in Seq(Message)
    PROVE  CallsInOrder'
<1> SUFFICES ASSUME NEW i \in 1..Len(messages'), messages'[i].role = "assistant",
                    NEW k \in 1..Len(messages'[i].calls)
             PROVE  /\ i + k <= Len(messages') =>
                          messages'[i + k] = Answer(messages'[i].calls[k])
                    /\ ~(i + k > Len(messages'))
    BY DEF CallsInOrder, Answer
<1>1. i + k <= Len(messages') /\ messages'[i + k] = Answer(messages'[i].calls[k])
    BY DEF Complete
<1>2. messages'[i] \in Message /\ Len(messages') \in Nat
    BY ElementOfSeq, LenProperties
<1>3. k \in Nat /\ i \in Nat
    BY <1>2, CallsAreASeq
<1>4. QED
    BY <1>1, <1>2, <1>3

\* Answering the first pending call keeps the calls in order.
LEMMA AnsweringKeepsOrder ==
    ASSUME LoopTypeOK, CallsInOrder, pc = "reply", pc' = pc, pending # <<>>,
           messages' = AnswerHead(messages), pending' = Tail(pending)
    PROVE  CallsInOrder'
<1> DEFINE n == Len(messages)
           answer == Answer(Head(pending))
<1>1. messages \in Seq(Message) /\ n \in Nat
    BY LenProperties DEF LoopTypeOK, Message
<1>2. answer \in Message
    BY HeadTailProperties DEF LoopTypeOK, Answer, Message
<1>3. /\ messages' = Append(messages, answer) /\ Len(messages') = n + 1
      /\ messages'[n + 1] = answer
      /\ \A j \in 1..n : messages'[j] = messages[j]
    BY <1>1, <1>2, AppendProperties DEF AnswerHead, Answer
<1>4. /\ pending \in Seq(Asks) /\ Len(pending) \in Nat \ {0}
      /\ Head(pending) = pending[1] /\ Len(pending') = Len(pending) - 1
      /\ \A j \in 1..(Len(pending) - 1) : pending'[j] = pending[j + 1]
    BY HeadTailProperties, EmptySeq DEF LoopTypeOK
<1>5. SUFFICES ASSUME NEW i \in 1..Len(messages'), messages'[i].role = "assistant",
                      NEW k \in 1..Len(messages'[i].calls)
               PROVE  /\ i + k <= Len(messages') =>
                            messages'[i + k] = Answer(messages'[i].calls[k])
                      /\ i + k > Len(messages') =>
                            /\ i + Len(messages'[i].calls) = Len(messages') + Len(pending')
                            /\ messages'[i].calls[k] = pending'[i + k - Len(messages')]
    BY DEF CallsInOrder, Answer
<1>6. i \in 1..n /\ messages'[i] = messages[i]
    BY <1>1, <1>3, <1>5 DEF Answer
<1>7. messages[i] \in Message
    BY <1>1, <1>6, ElementOfSeq
<1>8. Len(messages[i].calls) \in Nat /\ k \in 1..Len(messages[i].calls)
    BY <1>6, <1>7, CallsAreASeq
<1>9. /\ i + k <= n => messages[i + k] = Answer(messages[i].calls[k])
      /\ i + k > n =>
            /\ i + Len(messages[i].calls) = n + Len(pending)
            /\ messages[i].calls[k] = pending[i + k - n]
    BY <1>5, <1>6, <1>8 DEF CallsInOrder
<1> HIDE DEF n, answer
<1>10. CASE i + k <= n
  <2>1. i + k \in 1..n
    BY <1>1, <1>6, <1>8, <1>10
  <2>2. QED
    BY <1>1, <1>3, <1>6, <1>9, <2>1
<1>11. CASE i + k = n + 1
  <2>1. messages[i].calls[k] = pending[1]
    BY <1>1, <1>9, <1>11
  <2>2. QED
    BY <1>1, <1>3, <1>4, <1>6, <1>11, <2>1 DEF answer
<1>12. CASE i + k > n + 1
  <2> DEFINE made == Len(messages[i].calls)
             left == Len(pending)
             at == i + k - (n + 1)
  <2>1. /\ n \in Nat /\ made \in Nat /\ left \in Nat /\ i \in Nat /\ k \in Nat
        /\ k <= made
    BY <1>1, <1>4, <1>6, <1>8
  <2>2. i + k > n
    BY <1>12, <2>1
  <2>3. i + made = n + left /\ messages[i].calls[k] = pending[i + k - n]
    BY <1>9, <2>2
  <2>4. Len(pending') = left - 1
    BY <1>4
  <2> HIDE DEF made, left
  <2>5. at \in 1..(left - 1) /\ at + 1 = i + k - n
    BY <1>12, <2>1, <2>3
  <2>6. pending'[at] = pending[at + 1]
    BY <1>4, <2>5 DEF left
  <2>7. messages[i].calls[k] = pending'[at]
    BY <2>3, <2>5, <2>6
  <2>8. i + made = (n + 1) + (left - 1)
    BY <2>1, <2>3
  <2>9. Len(messages') = n + 1 /\ messages'[i] = messages[i]
    BY <1>3, <1>6
  <2>10. ~(i + k <= Len(messages')) /\ i + k - Len(messages') = at
    BY <1>12, <2>1, <2>9
  <2>11. i + Len(messages'[i].calls) = Len(messages') + Len(pending')
    BY <2>4, <2>8, <2>9 DEF made
  <2>12. messages'[i].calls[k] = pending'[i + k - Len(messages')]
    BY <2>7, <2>9, <2>10
  <2>13. QED
    BY <2>10, <2>11, <2>12
<1>13. i + k <= n \/ i + k = n + 1 \/ i + k > n + 1
  <2>1. n \in Nat /\ i \in Nat /\ k \in Nat
    BY <1>1, <1>6, <1>8
  <2>2. QED
    BY <2>1
<1>14. QED
    BY <1>10, <1>11, <1>12, <1>13

\* A reply's calls are pending in the order the reply makes them.
LEMMA ReplyKeepsOrder ==
    ASSUME LoopTypeOK, CallsInOrder, NEW u \in Usages \cup {NoUsage},
           NEW reply \in Replies, ReplyWithCalls(u, reply)
    PROVE  CallsInOrder'
<1> DEFINE n == Len(messages)
           m == [role |-> "assistant", calls |-> reply]
<1>1. messages \in Seq(Message) /\ n \in Nat
    BY LenProperties DEF LoopTypeOK, Message
<1>2. reply \in Seq(Asks) /\ m \in Message
    BY LoopAssumption DEF Replies, Message
<1>3. /\ Len(messages') = n + 1 /\ messages'[n + 1] = m
      /\ \A j \in 1..n : messages'[j] = messages[j]
      /\ pending' = reply /\ pc' = "reply"
    BY <1>1, <1>2, AppendProperties DEF ReplyWithCalls
<1>4. Complete(messages)
    BY NothingOwed DEF ReplyWithCalls, Paid
<1>5. SUFFICES ASSUME NEW i \in 1..Len(messages'), messages'[i].role = "assistant",
                      NEW k \in 1..Len(messages'[i].calls)
               PROVE  /\ i + k <= Len(messages') =>
                            messages'[i + k] = Answer(messages'[i].calls[k])
                      /\ i + k > Len(messages') =>
                            /\ i + Len(messages'[i].calls) = Len(messages') + Len(pending')
                            /\ messages'[i].calls[k] = pending'[i + k - Len(messages')]
    BY <1>3 DEF CallsInOrder, Answer
<1>6. CASE i \in 1..n
  <2>1. messages'[i] = messages[i] /\ messages[i] \in Message
    BY <1>1, <1>3, <1>6, ElementOfSeq
  <2>2. k \in Nat /\ k >= 1
    BY <2>1, CallsAreASeq
  <2>3. i + k <= n /\ messages[i + k] = Answer(messages[i].calls[k])
    BY <1>4, <1>5, <1>6, <2>1 DEF Complete
  <2>4. i + k \in 1..n
    BY <1>1, <1>6, <2>2, <2>3
  <2>5. QED
    BY <1>1, <1>3, <1>6, <2>1, <2>2, <2>3, <2>4
<1>7. CASE i = n + 1
  <2>1. messages'[i].calls = reply
    BY <1>3, <1>7
  <2>2. Len(reply) \in Nat /\ k \in 1..Len(reply)
    BY <1>2, <2>1, LenProperties
  <2>3. i + k > Len(messages') /\ i + k - Len(messages') = k
    BY <1>1, <1>3, <1>7, <2>2
  <2>4. i + Len(reply) = Len(messages') + Len(pending') /\ ~(i + k <= Len(messages'))
    BY <1>1, <1>3, <1>7, <2>2
  <2>5. messages'[i].calls[k] = pending'[k]
    BY <1>3, <2>1
  <2>6. QED
    BY <2>1, <2>3, <2>4, <2>5
<1>8. QED
    BY <1>1, <1>3, <1>6, <1>7

LEMMA OrderKept ==
    ASSUME LoopTypeOK, LoopTypeOK', CallsInOrder, [LoopNext]_loopvars
    PROVE  CallsInOrder'
<1>1. messages \in Seq(Message) /\ messages' \in Seq(Message)
    BY DEF LoopTypeOK, Message
<1>2. ASSUME UNCHANGED <<messages, pending>>, pc' = pc \/ pc' = "done" \/ Complete(messages)
      PROVE  CallsInOrder'
  <2>1. CASE pc' = pc
    BY <1>2, <2>1 DEF CallsInOrder, Answer
  <2>2. CASE pc' = "done" /\ pc # "done"
    BY <1>2, <2>2 DEF CallsInOrder, Answer
  <2>3. CASE Complete(messages)
    <3>1. Complete(messages')
      BY <1>2, <2>3
    <3>2. QED
      BY <1>1, <3>1, CompleteIsInOrder
  <2>4. QED
    BY <1>2, <2>1, <2>2, <2>3
<1>3. ASSUME pc \in {"start", "top", "provider"} \/ (pc = "reply" /\ pending = <<>>)
      PROVE  Complete(messages)
    BY <1>3, NothingOwed
<1>4. ASSUME Complete(messages), NEW more \in Seq(Message), messages' = messages \o more,
             \A j \in 1..Len(more) : more[j].calls = <<>>
      PROVE  CallsInOrder'
    BY <1>1, <1>4, StaysComplete, CompleteIsInOrder
<1>5. CASE Begin
  <2>1. CASE Refusal # "none"
    BY <1>2, <1>5, <2>1 DEF Begin, End
  <2>2. CASE Refusal = "none"
    <3>1. messages' = <<Says("user")>>
      BY <1>5, <2>2 DEF Begin
    <3>2. Complete(messages')
      BY <3>1 DEF Complete, Says
    <3>3. QED
      BY <1>1, <3>2, CompleteIsInOrder
  <2>3. QED
    BY <2>1, <2>2
<1>6. CASE \/ Signal \/ Exhaust \/ StopAtCheckpoint \/ DeclineTurn \/ ProviderFails \/ Conclude
           \/ \E u \in Usages \cup {NoUsage} : TurnUnmeterable(u) \/ TurnFails(u)
    BY <1>2, <1>6
    DEF Signal, Exhaust, StopAtCheckpoint, DeclineTurn, ProviderFails, Conclude,
        TurnUnmeterable, TurnFails, End
<1>7. CASE AskProvider
    BY <1>2, <1>3, <1>7 DEF AskProvider
<1>8. ASSUME NEW u \in Usages \cup {NoUsage}, ReplyInProse(u) PROVE CallsInOrder'
  <2>1. CASE nudged
    BY <1>2, <1>8, <2>1 DEF ReplyInProse, End
  <2>2. CASE ~nudged
    <3> DEFINE more == <<Says("assistant"), Says("user")>>
    <3>1. more \in Seq(Message)
      BY SaysTypes
    <3>2. \A j \in 1..Len(more) : more[j].calls = <<>>
      BY DEF Says
    <3>3. messages' = messages \o more
      BY <1>8, <2>2 DEF ReplyInProse
    <3>4. Complete(messages)
      BY <1>3, <1>8 DEF ReplyInProse, Paid
    <3> HIDE DEF more
    <3>5. QED
      BY <1>4, <3>1, <3>2, <3>3, <3>4
  <2>3. QED
    BY <2>1, <2>2
<1>9. ASSUME NEW u \in Usages \cup {NoUsage}, NEW reply \in Replies, ReplyWithCalls(u, reply)
      PROVE  CallsInOrder'
    BY <1>9, ReplyKeepsOrder
<1>10. CASE FeedBack \/ DispatchTool
    BY <1>10, AnsweringKeepsOrder DEF FeedBack, DispatchTool
<1>11. CASE EndTurn
  <2>1. Complete(messages)
    BY <1>3, <1>11 DEF EndTurn
  <2>2. CASE Granted
    <3>1. Says("user") \in Message /\ <<Says("user")>> \in Seq(Message)
      BY SaysTypes
    <3>2. messages' = messages \o <<Says("user")>>
      BY <1>1, <1>11, <2>2, <3>1, AppendIsConcat DEF EndTurn
    <3>3. \A j \in 1..Len(<<Says("user")>>) : <<Says("user")>>[j].calls = <<>>
      BY DEF Says
    <3>4. QED
      BY <1>4, <2>1, <3>1, <3>2, <3>3
  <2>3. CASE ~Granted
    BY <1>2, <1>11, <2>1, <2>3 DEF EndTurn
  <2>4. QED
    BY <2>2, <2>3
<1>12. CASE UNCHANGED loopvars
    BY <1>2, <1>12 DEF loopvars
<1>13. QED
    BY <1>5, <1>6, <1>7, <1>8, <1>9, <1>10, <1>11, <1>12 DEF LoopNext

\* In order means answered by the time of the next request.
LEMMA OrderAnswers ==
    ASSUME LoopTypeOK, CallsInOrder
    PROVE  TranscriptAnswered
<1>1. SUFFICES ASSUME pc = "provider"
               PROVE  \A i \in DOMAIN messages : messages[i].role = "assistant" =>
                          \A k \in DOMAIN messages[i].calls :
                              /\ i + k \in DOMAIN messages
                              /\ messages[i + k] = Answer(messages[i].calls[k])
    BY DEF TranscriptAnswered, Answer
<1>2. messages \in Seq(Message)
    BY <1>1 DEF LoopTypeOK, Message
<1>3. DOMAIN messages = 1..Len(messages) /\ Len(messages) \in Nat
    BY <1>2, LenProperties
<1>4. Complete(messages)
    BY <1>1, NothingOwed
<1>5. SUFFICES ASSUME NEW i \in 1..Len(messages), messages[i].role = "assistant",
                      NEW k \in DOMAIN messages[i].calls
               PROVE  /\ i + k \in 1..Len(messages)
                      /\ messages[i + k] = Answer(messages[i].calls[k])
    BY <1>3
<1>6. messages[i] \in Message
    BY <1>2, ElementOfSeq
<1>7. k \in 1..Len(messages[i].calls) /\ Len(messages[i].calls) \in Nat
    BY <1>6, CallsAreASeq, LenProperties
<1>8. i + k <= Len(messages) /\ messages[i + k] = Answer(messages[i].calls[k])
    BY <1>4, <1>5, <1>7 DEF Complete
<1>9. QED
    BY <1>3, <1>5, <1>7, <1>8

\* Whatever the calls of a reply were, the next request holds an answer to each of
\* them, in order, for any toolbox and any number of calls and turns.
THEOREM TranscriptIsAnswered == LoopSpec => []TranscriptAnswered
<1>1. LoopInit => CallsInOrder
    BY DEF LoopInit, CallsInOrder
<1>2. LoopTypeOK /\ LoopTypeOK' /\ CallsInOrder /\ [LoopNext]_loopvars => CallsInOrder'
    BY OrderKept
<1>3. LoopTypeOK /\ CallsInOrder => TranscriptAnswered
    BY OrderAnswers
<1>4. QED
    BY <1>1, <1>2, <1>3, LoopTypes, PTL DEF LoopSpec

-----------------------------------------------------------------------------
(* Part 2.  Any node                                                       *)

-----------------------------------------------------------------------------
(* Types *)

Standing == {"none", "running", "reported", "failed"}

NodeTypeOK ==
    /\ LoopTypeOK
    /\ section \in [Sections -> Standing]
    /\ author \in {"loop", "synthesize", "briefing"}

\* Whatever grant a child is given, its cost is a number.
LEMMA CostsAreNat ==
    ASSUME NEW grant \in Nat \cup {NoGrant}, NEW cost \in ChildCosts(grant)
    PROVE  cost \in Nat
<1>1. CASE grant = NoGrant
    BY <1>1, LoopAssumption DEF ChildCosts
<1>2. CASE grant # NoGrant
  <2>1. grant \in Nat /\ cost \in {0} \cup 0..(grant + ChildOvershoot)
    BY <1>2 DEF ChildCosts
  <2>2. QED
    BY <2>1, LoopAssumption
<1>3. QED
    BY <1>1, <1>2

\* The sections are some number above 0.
LEMMA SectionCount == Cardinality(Sections) \in Nat \ {0} /\ Shares \in Nat \ {0}
<1>1. Cardinality(Sections) \in Nat /\ Cardinality(Sections) # 0
    BY BriefingAssumption, FS_CardinalityType, FS_EmptySet
<1>2. QED
    BY <1>1 DEF Shares

LEMMA ShareTypes ==
    ASSUME LoopTypeOK
    PROVE  Share \in Nat \cup {NoGrant} /\ (Granted => Share \in Nat)
<1>1. CASE Granted
  <2>1. setup.grant \in Nat
    BY <1>1, GrantTypes
  <2>2. setup.grant \div Shares \in Nat
    BY <2>1, SectionCount
  <2>3. QED
    BY <1>1, <2>2 DEF Share
<1>2. CASE ~Granted
    BY <1>2 DEF Share
<1>3. QED
    BY <1>1, <1>2

LEMMA ChildGrantTypes ==
    ASSUME LoopTypeOK
    PROVE  ChildGrant \in Nat \cup {NoGrant}
<1>1. CASE Granted
  <2>1. setup.grant \in Nat /\ cost_so_far \in Nat
    BY <1>1, GrantTypes, LedgerTypes
  <2>2. QED
    BY <1>1, <2>1 DEF ChildGrant
<1>2. CASE ~Granted
    BY <1>2 DEF ChildGrant
<1>3. QED
    BY <1>1, <1>2

LEMMA SynthKeepsTypes ==
    ASSUME LoopTypeOK, SynthNext
    PROVE  LoopTypeOK'
<1>1. messages \in Seq(Message)
    BY DEF LoopTypeOK, Message
<1>2. CASE \/ Signal \/ ProviderFails \/ StopAtCheckpoint
           \/ \E u \in Usages \cup {NoUsage} : TurnUnmeterable(u)
    BY <1>2, TypesKept DEF LoopNext
<1>3. CASE SynthBegin
  <2>1. <<Says("user")>> \in Seq(Message)
    BY SaysTypes
  <2>2. SynthRefusal \in {"none", "validation", "cancelled", "budget_exceeded"}
    BY DEF SynthRefusal
  <2>3. QED
    BY <1>3, <2>1, <2>2
    DEF SynthBegin, End, LoopTypeOK, Message, ledger, signal, Points, Outcomes
<1>4. ASSUME NEW u \in Usages \cup {NoUsage}, NoChoice(u) \/ Prose(u) \/ Structured(u)
      PROVE  LoopTypeOK'
  <2>1. cost_usd(setup, u) \in Nat
    BY TurnCost DEF LoopTypeOK
  <2>2. /\ in_tokens' \in Nat /\ out_tokens' \in Nat /\ settled' \in Nat
        /\ setup' = setup /\ children_cost' = children_cost
    BY <1>4, <2>1, CountAddsCost DEF NoChoice, Prose, Structured, Paid, LoopTypeOK
  <2>3. Reply \in Seq(Message)
    BY <1>1, SaysTypes, AppendProperties DEF Reply
  <2>4. QED
    BY <1>4, <2>2, <2>3
    DEF NoChoice, Prose, Structured, Paid, End, LoopTypeOK, Message, signal, Points, Outcomes
<1>5. CASE SkipStructured
    BY <1>5 DEF SkipStructured, End, LoopTypeOK, ledger, signal, Points, Outcomes
<1>6. CASE AskStructured
  <2>1. messages' \in Seq(Message)
    BY <1>1, <1>6, SaysTypes, AppendProperties DEF AskStructured
  <2>2. QED
    BY <1>6, <2>1 DEF AskStructured, LoopTypeOK, Message, ledger, signal, Points, Outcomes
<1>7. QED
    BY <1>2, <1>3, <1>4, <1>5, <1>6 DEF SynthNext

LEMMA BriefKeepsTypes ==
    ASSUME LoopTypeOK, section \in [Sections -> Standing], BriefNext
    PROVE  LoopTypeOK' /\ section' \in [Sections -> Standing]
<1>1. CASE Signal /\ UNCHANGED section
    BY <1>1, TypesKept DEF LoopNext
<1>2. CASE BriefBegin
    BY <1>2 DEF BriefBegin, End, LoopTypeOK, ledger, signal, Points, Outcomes, Standing
<1>3. ASSUME NEW s \in Sections, SectionEnds(s)
      PROVE  LoopTypeOK' /\ section' \in [Sections -> Standing]
  <2>1. PICK cost \in ChildCosts(Share) : children_cost' = children_cost + cost
    BY <1>3 DEF SectionEnds
  <2>2. cost \in Nat
    BY ShareTypes, CostsAreNat
  <2>3. children_cost' \in Nat
    BY <2>1, <2>2 DEF LoopTypeOK
  <2>4. section' \in [Sections -> Standing]
    BY <1>3 DEF SectionEnds, Standing
  <2>5. QED
    BY <1>3, <2>3, <2>4 DEF SectionEnds, LoopTypeOK, signal
<1>4. CASE Gathered
    BY <1>4 DEF Gathered, End, LoopTypeOK, ledger, signal, Points, Outcomes
<1>5. CASE Summarized
  <2>1. PICK cost \in ChildCosts(ChildGrant) : children_cost' = children_cost + cost
    BY <1>5 DEF Summarized
  <2>2. cost \in Nat
    BY ChildGrantTypes, CostsAreNat
  <2>3. children_cost' \in Nat
    BY <2>1, <2>2 DEF LoopTypeOK
  <2>4. QED
    BY <1>5, <2>3 DEF Summarized, End, LoopTypeOK, signal, Points, Outcomes
<1>6. QED
    BY <1>1, <1>2, <1>3, <1>4, <1>5 DEF BriefNext

LEMMA NodeTypesHold == NodeSpec => []NodeTypeOK
<1>1. NodeInit => NodeTypeOK
    BY TypesHoldInitially DEF NodeInit, BriefInit, NodeTypeOK, Standing
<1>2. NodeTypeOK /\ [NodeNext]_nodevars => NodeTypeOK'
  <2>1. SUFFICES ASSUME NodeTypeOK, [NodeNext]_nodevars PROVE NodeTypeOK'
    OBVIOUS
  <2>2. CASE UNCHANGED nodevars
    <3>1. UNCHANGED loopvars /\ UNCHANGED <<section, author>>
      BY <2>2 DEF nodevars, briefvars
    <3>2. QED
      BY <2>1, <3>1, TypesKept DEF NodeTypeOK
  <2>3. CASE author = "loop" /\ LoopNext /\ UNCHANGED <<section, author>>
    BY <2>1, <2>3, TypesKept DEF NodeTypeOK
  <2>4. CASE author = "synthesize" /\ SynthNext /\ UNCHANGED <<section, author>>
    BY <2>1, <2>4, SynthKeepsTypes DEF NodeTypeOK
  <2>5. CASE author = "briefing" /\ BriefNext /\ UNCHANGED author
    BY <2>1, <2>5, BriefKeepsTypes DEF NodeTypeOK
  <2>6. QED
    BY <2>1, <2>2, <2>3, <2>4, <2>5 DEF NodeNext
<1>3. QED
    BY <1>1, <1>2, PTL DEF NodeSpec

\* A node keeps the types of the loop whichever _run it has.
THEOREM NodeTypes == NodeSpec => []LoopTypeOK
<1>1. NodeTypeOK => LoopTypeOK
    BY DEF NodeTypeOK
<1>2. QED
    BY <1>1, NodeTypesHold, PTL

-----------------------------------------------------------------------------
(* The transcript *)

\* The transcripts of the other two hold no tool calls at all, and pend none.
NoCalls == pending = <<>> /\ \A i \in 1..Len(messages) : messages[i].calls = <<>>

AuthorsOrder == IF author = "loop" THEN CallsInOrder ELSE NoCalls

\* One more message without calls leaves none.
LEMMA NoCallsMore ==
    ASSUME NEW log \in Seq(Message), \A i \in 1..Len(log) : log[i].calls = <<>>,
           NEW role \in {"user", "assistant", "tool"}, NEW log2,
           log2 = Append(log, Says(role))
    PROVE  \A i \in 1..Len(log2) : log2[i].calls = <<>>
<1>1. Says(role) \in Message /\ Says(role).calls = <<>>
    BY SaysTypes DEF Says
<1>2. /\ Len(log2) = Len(log) + 1 /\ Len(log) \in Nat
      /\ log2[Len(log) + 1] = Says(role)
      /\ \A j \in 1..Len(log) : log2[j] = log[j]
    BY <1>1, AppendProperties, LenProperties
<1>3. SUFFICES ASSUME NEW i \in 1..Len(log2) PROVE log2[i].calls = <<>>
    OBVIOUS
<1>4. i \in 1..Len(log) \/ i = Len(log) + 1
    BY <1>2
<1>5. QED
    BY <1>1, <1>2, <1>4

LEMMA SynthMakesNoCalls ==
    ASSUME LoopTypeOK, NoCalls, SynthNext
    PROVE  NoCalls'
<1>1. messages \in Seq(Message)
    BY DEF LoopTypeOK, Message
<1>2. CASE UNCHANGED <<messages, pending>>
    BY <1>2 DEF NoCalls
<1>3. ASSUME NEW role \in {"user", "assistant"}, messages' = Append(messages, Says(role)),
             UNCHANGED pending
      PROVE  NoCalls'
    BY <1>1, <1>3, NoCallsMore DEF NoCalls
<1>4. CASE SynthBegin
  <2>1. pending' = pending /\ (messages' = messages \/ messages' = <<Says("user")>>)
    BY <1>4 DEF SynthBegin
  <2>2. QED
    BY <2>1 DEF NoCalls, Says
<1>5. ASSUME NEW u \in Usages \cup {NoUsage},
             TurnUnmeterable(u) \/ NoChoice(u) \/ Prose(u) \/ Structured(u)
      PROVE  NoCalls'
    BY <1>2, <1>3, <1>5 DEF TurnUnmeterable, NoChoice, Prose, Structured, Reply
<1>6. CASE Signal \/ ProviderFails \/ StopAtCheckpoint \/ SkipStructured
    BY <1>2, <1>6 DEF Signal, ProviderFails, StopAtCheckpoint, SkipStructured
<1>7. CASE AskStructured
    BY <1>3, <1>7 DEF AskStructured
<1>8. QED
    BY <1>4, <1>5, <1>6, <1>7 DEF SynthNext

\* Every request of a node holds an answer to each tool call made so far: the loop
\* answers its own, and the other two make none.
THEOREM NodeTranscripts == NodeSpec => []TranscriptAnswered
<1>1. NodeInit => AuthorsOrder
    BY DEF NodeInit, LoopInit, AuthorsOrder, CallsInOrder, NoCalls
<1>2. LoopTypeOK /\ LoopTypeOK' /\ AuthorsOrder /\ [NodeNext]_nodevars => AuthorsOrder'
  <2>1. SUFFICES ASSUME LoopTypeOK, LoopTypeOK', AuthorsOrder, [NodeNext]_nodevars
                 PROVE  AuthorsOrder'
    OBVIOUS
  <2>2. author' = author
    BY <2>1 DEF NodeNext, nodevars
  <2>3. CASE author = "loop"
    <3>1. [LoopNext]_loopvars
      BY <2>1, <2>3 DEF NodeNext, nodevars, briefvars
    <3>2. QED
      BY <2>1, <2>2, <2>3, <3>1, OrderKept DEF AuthorsOrder
  <2>4. CASE author # "loop"
    <3>1. CASE SynthNext
      BY <2>1, <2>2, <2>4, <3>1, SynthMakesNoCalls DEF AuthorsOrder
    <3>2. CASE BriefNext
      <4>1. UNCHANGED <<messages, pending>>
        BY <3>2 DEF BriefNext, Signal, BriefBegin, SectionEnds, Gathered, Summarized
      <4>2. QED
        BY <2>1, <2>2, <2>4, <4>1 DEF AuthorsOrder, NoCalls
    <3>3. CASE UNCHANGED nodevars
      BY <2>1, <2>2, <2>4, <3>3 DEF AuthorsOrder, NoCalls, nodevars, briefvars, loopvars
    <3>4. QED
      BY <2>1, <2>4, <3>1, <3>2, <3>3 DEF NodeNext
  <2>5. QED
    BY <2>3, <2>4
<1>3. LoopTypeOK /\ AuthorsOrder => TranscriptAnswered
  <2>1. ASSUME LoopTypeOK, NoCalls PROVE TranscriptAnswered
    <3>1. messages \in Seq(Message)
      BY <2>1 DEF LoopTypeOK, Message
    <3>2. DOMAIN messages = 1..Len(messages)
      BY <3>1, LenProperties
    <3>3. ASSUME NEW i \in DOMAIN messages PROVE DOMAIN messages[i].calls = {}
      BY <2>1, <3>2, <3>3 DEF NoCalls
    <3>4. QED
      BY <3>3 DEF TranscriptAnswered
  <2>2. QED
    BY <2>1, OrderAnswers DEF AuthorsOrder
<1>4. QED
    BY <1>1, <1>2, <1>3, NodeTypes, PTL DEF NodeSpec

-----------------------------------------------------------------------------
(* The envelope's cost is what the door charged *)

\* An envelope's own cost is what the door charged the node's calls, but for the call
\* of an unpriced model that ended it, whichever _run made them; a coordinator makes none.
THEOREM NodeEnvelopes == NodeSpec => []EnvelopeMatchesDoor
<1>1. NodeInit => LedgerMatches
    BY LedgerMatchesFirst DEF NodeInit
<1>2. LoopTypeOK /\ LedgerMatches /\ [NodeNext]_nodevars => LedgerMatches'
  <2>1. SUFFICES ASSUME LoopTypeOK, LedgerMatches, [NodeNext]_nodevars PROVE LedgerMatches'
    OBVIOUS
  <2>2. CASE [LoopNext]_loopvars
    BY <2>1, <2>2, LedgerKept
  <2>3. CASE SynthNext
    <3>1. CASE SynthBegin \/ SkipStructured \/ AskStructured
      BY <2>1, <3>1
      DEF SynthBegin, SkipStructured, AskStructured, ledger, LedgerMatches,
          EnvelopeMatchesDoor, own_cost
    <3>2. ASSUME NEW u \in Usages \cup {NoUsage}, NoChoice(u) \/ Prose(u) \/ Structured(u)
          PROVE  LedgerMatches'
      BY <2>1, <3>2, PaidIsCounted DEF NoChoice, Prose, Structured
    <3>3. QED
      BY <2>2, <2>3, <3>1, <3>2 DEF SynthNext, LoopNext
  <2>4. CASE BriefNext
    <3>1. UNCHANGED <<setup, in_tokens, out_tokens, settled>>
      BY <2>4 DEF BriefNext, Signal, BriefBegin, SectionEnds, Gathered, Summarized, ledger
    <3>2. pc # "done" \/ UNCHANGED <<pc, outcome>>
      BY <2>4 DEF BriefNext, Signal, BriefBegin, SectionEnds, Gathered, Summarized
    <3>3. QED
      BY <2>1, <3>1, <3>2 DEF LedgerMatches, EnvelopeMatchesDoor, own_cost
  <2>5. QED
    BY <2>1, <2>2, <2>3, <2>4 DEF NodeNext, nodevars, briefvars
<1>3. LedgerMatches => EnvelopeMatchesDoor
    BY DEF LedgerMatches, EnvelopeMatchesDoor
<1>4. QED
    BY <1>1, <1>2, <1>3, NodeTypes, PTL DEF NodeSpec

-----------------------------------------------------------------------------
(* The grant, between the passes of Synthesize *)

PassBounds == GrantBounds /\ (pc = "start" => cost_so_far = 0)

LEMMA PassesKeepGrant ==
    ASSUME LoopTypeOK, PassBounds, SynthNext
    PROVE  PassBounds'
<1>1. CASE \/ Signal \/ ProviderFails \/ StopAtCheckpoint
           \/ \E u \in Usages \cup {NoUsage} : TurnUnmeterable(u)
  <2>1. GrantBounds'
    BY <1>1, GrantKept DEF PassBounds, LoopNext
  <2>2. pc' = "start" => pc = "start"
    BY <1>1 DEF Signal, ProviderFails, StopAtCheckpoint, TurnUnmeterable, End
  <2>3. UNCHANGED <<setup, in_tokens, out_tokens, children_cost>>
    BY <1>1 DEF Signal, ProviderFails, StopAtCheckpoint, TurnUnmeterable, ledger
  <2>4. QED
    BY <2>1, <2>2, <2>3 DEF PassBounds, cost_so_far, own_cost
<1>2. ASSUME UNCHANGED <<setup, in_tokens, out_tokens, children_cost>>,
             pc' # "start", pc' # "reply", Granted /\ pc' = "provider" => cost_so_far <= setup.grant
      PROVE  PassBounds'
    BY <1>2 DEF PassBounds, GrantBounds, Granted, Overshoot, AtOnce, Starves, cost_so_far,
                own_cost
<1>3. CASE SynthBegin
  <2>1. cost_so_far = 0
    BY <1>3 DEF SynthBegin, PassBounds
  <2>2. Granted => cost_so_far <= setup.grant
    BY <2>1, GrantTypes
  <2>3. QED
    BY <1>2, <1>3, <2>2 DEF SynthBegin, End, ledger
<1>4. CASE SkipStructured
    BY <1>2, <1>4 DEF SkipStructured, End, ledger
<1>5. CASE AskStructured
  <2>1. Granted => ~(cost_so_far > setup.grant)
    BY <1>5 DEF AskStructured, OverGrant
  <2>2. Granted => cost_so_far <= setup.grant
    BY <2>1, LedgerTypes, GrantTypes
  <2>3. QED
    BY <1>2, <1>5, <2>2 DEF AskStructured, ledger
<1>6. ASSUME NEW u \in Usages \cup {NoUsage}, NoChoice(u) \/ Prose(u) \/ Structured(u)
      PROVE  PassBounds'
  <2>1. Paid(u) /\ setup' = setup
    BY <1>6 DEF NoChoice, Prose, Structured, Paid
  <2>2. pc' \in {"top", "done"}
    BY <1>6 DEF NoChoice, Prose, Structured, End
  <2>3. Granted => cost_so_far' <= setup.grant + Overshoot
    BY <2>1, PaidKeepsGrant DEF PassBounds
  <2>4. QED
    BY <2>1, <2>2, <2>3 DEF PassBounds, GrantBounds, Granted, Overshoot, AtOnce, Starves
<1>7. QED
    BY <1>1, <1>3, <1>4, <1>5, <1>6 DEF SynthNext

-----------------------------------------------------------------------------
(* The grant, shared among the briefing's sections *)

Ended == {s \in Sections : section[s] \in {"reported", "failed"}}
OneSection == Share + ChildOvershoot
AllSections == setup.grant + Cardinality(Sections) * ChildOvershoot
WithSummary == AllSections + (IF Starves THEN 0 ELSE ChildOvershoot)

\* Until they are gathered, each section that ended has cost at most its share and
\* what one child may overshoot; the summary adds one overshoot where nothing starves it.
SectionBounds ==
    /\ pc = "start" => children_cost = 0
    /\ pc # "reply" => Open = {}
    /\ Granted /\ pc = "reply" => children_cost <= Cardinality(Ended) * OneSection
    /\ Granted /\ pc = "top" => children_cost <= AllSections
    /\ Granted /\ pc # "reply" => children_cost <= WithSummary

\* The shares of all sections are within the grant.
LEMMA SharesAreWithin ==
    ASSUME LoopTypeOK, Granted
    PROVE  Cardinality(Sections) * OneSection <= AllSections
<1> DEFINE n == Cardinality(Sections)
<1>1. n \in Nat /\ setup.grant \in Nat /\ Share \in Nat /\ ChildOvershoot \in Nat
    BY SectionCount, ShareTypes, GrantTypes
<1>2. Share = setup.grant \div (n + 1)
    BY DEF Share, Shares
<1> HIDE DEF n
<1>3. (n + 1) * Share <= setup.grant
    BY <1>1, <1>2
<1>4. (n + 1) * Share = n * Share + Share
    BY <1>1
<1>5. n * (Share + ChildOvershoot) = n * Share + n * ChildOvershoot
    BY <1>1
<1>6. n * Share \in Nat /\ n * ChildOvershoot \in Nat
    BY <1>1, ProductIsNat
<1>7. n * (Share + ChildOvershoot) <= setup.grant + n * ChildOvershoot
  <2> DEFINE a == n * Share
             b == n * ChildOvershoot
             c == (n + 1) * Share
             d == n * (Share + ChildOvershoot)
  <2>1. c = a + Share /\ d = a + b /\ c <= setup.grant /\ a \in Nat /\ b \in Nat
    BY <1>3, <1>4, <1>5, <1>6
  <2> HIDE DEF a, b, c, d
  <2>2. d <= setup.grant + b
    BY <1>1, <2>1
  <2>3. QED
    BY <2>2 DEF b, d
<1>8. QED
    BY <1>7 DEF OneSection, AllSections, n

LEMMA BoundTypes ==
    ASSUME LoopTypeOK, Granted
    PROVE  /\ setup.grant \in Nat /\ ChildOvershoot \in Nat /\ Share \in Nat
           /\ OneSection \in Nat /\ AllSections \in Nat
           /\ WithSummary \in Nat /\ AllSections <= WithSummary
<1>1. /\ setup.grant \in Nat /\ ChildOvershoot \in Nat /\ Share \in Nat
      /\ Cardinality(Sections) \in Nat
    BY GrantTypes, ShareTypes, SectionCount
<1>2. Cardinality(Sections) * ChildOvershoot \in Nat
    BY <1>1, ProductIsNat
<1>3. QED
    BY <1>1, <1>2 DEF OneSection, AllSections, WithSummary

\* What the sections cost that have ended is within the grant and one overshoot each.
LEMMA SectionsAreWithin ==
    ASSUME LoopTypeOK, SectionBounds, Granted, pc = "reply"
    PROVE  children_cost <= AllSections
<1> DEFINE k == Cardinality(Ended)
           n == Cardinality(Sections)
<1>1. k \in Nat /\ n \in Nat /\ k <= n
    BY BriefingAssumption, FS_Subset, FS_CardinalityType DEF Ended
<1>2. OneSection \in Nat /\ AllSections \in Nat /\ children_cost \in Nat
    BY BoundTypes DEF LoopTypeOK
<1>3. children_cost <= k * OneSection
    BY DEF SectionBounds
<1>4. n * OneSection <= AllSections
    BY SharesAreWithin
<1> HIDE DEF k, n
<1>5. k * OneSection <= n * OneSection
    BY <1>1, <1>2
<1>6. k * OneSection \in Nat /\ n * OneSection \in Nat
    BY <1>1, <1>2, ProductIsNat
<1>7. QED
  <2> DEFINE a == k * OneSection
             b == n * OneSection
  <2>1. a \in Nat /\ b \in Nat /\ children_cost <= a /\ a <= b /\ b <= AllSections
    BY <1>3, <1>4, <1>5, <1>6
  <2> HIDE DEF a, b
  <2>2. QED
    BY <1>2, <2>1

\* One more section has ended.
LEMMA OneMoreEnds ==
    ASSUME section \in [Sections -> Standing], NEW s \in Sections, SectionEnds(s)
    PROVE  Cardinality(Ended') = Cardinality(Ended) + 1 /\ Cardinality(Ended) \in Nat
<1>1. s \notin Ended
    BY DEF SectionEnds, Ended
<1>2. Ended' = Ended \cup {s}
    BY DEF SectionEnds, Ended, Standing
<1>3. IsFiniteSet(Ended)
    BY BriefingAssumption, FS_Subset DEF Ended
<1>4. QED
    BY <1>1, <1>2, <1>3, FS_AddElement, FS_CardinalityType

LEMMA SectionsKeepGrant ==
    ASSUME LoopTypeOK, section \in [Sections -> Standing], SectionBounds, BriefNext
    PROVE  SectionBounds'
<1>1. setup' = setup /\ (Granted' <=> Granted) /\ (Starves' <=> Starves) /\ Share' = Share
    BY DEF BriefNext, Signal, BriefBegin, SectionEnds, Gathered, Summarized, Starves,
           Granted, Share
<1>2. /\ AllSections' = AllSections /\ OneSection' = OneSection
      /\ WithSummary' = WithSummary
    BY <1>1 DEF AllSections, OneSection, WithSummary
<1>3. Granted => /\ setup.grant \in Nat /\ ChildOvershoot \in Nat /\ Share \in Nat
                 /\ OneSection \in Nat /\ AllSections \in Nat
                 /\ WithSummary \in Nat /\ AllSections <= WithSummary
    BY BoundTypes
<1>4. children_cost \in Nat
    BY DEF LoopTypeOK
<1>5. CASE Signal /\ UNCHANGED section
    BY <1>1, <1>2, <1>5 DEF Signal, SectionBounds, Open, Ended, ledger
<1>6. CASE BriefBegin
  <2>1. children_cost' = 0 /\ pc = "start"
    BY <1>6 DEF BriefBegin, SectionBounds, ledger
  <2>2. CASE caller
    BY <1>1, <1>2, <1>6, <2>1, <2>2 DEF BriefBegin, End, SectionBounds, Open
  <2>3. CASE ~caller
    <3>1. pc' = "reply" /\ section' = [t \in Sections |-> "running"]
      BY <1>6, <2>3 DEF BriefBegin
    <3>2. Ended' = {}
      BY <3>1 DEF Ended
    <3>3. Cardinality(Ended') = 0
      BY <3>2, FS_EmptySet
    <3>4. Granted => 0 * OneSection = 0
      BY <1>3
    <3>5. QED
      BY <1>1, <1>2, <2>1, <3>1, <3>3, <3>4 DEF SectionBounds
  <2>4. QED
    BY <2>2, <2>3
<1>7. ASSUME NEW s \in Sections, SectionEnds(s)
      PROVE  SectionBounds'
  <2>1. PICK cost \in ChildCosts(Share) : children_cost' = children_cost + cost
    BY <1>7 DEF SectionEnds
  <2>2. pc = "reply" /\ pc' = "reply"
    BY <1>7 DEF SectionEnds, SectionBounds, Open
  <2>3. ASSUME Granted PROVE children_cost' <= Cardinality(Ended') * OneSection
    <3> DEFINE k == Cardinality(Ended)
    <3>1. Cardinality(Ended') = k + 1 /\ k \in Nat
      BY <1>7, OneMoreEnds
    <3>2. Share \in Nat /\ ChildOvershoot \in Nat /\ OneSection \in Nat /\ Share # NoGrant
      BY <1>3, <2>3, LoopAssumption
    <3>3. cost \in {0} \cup 0..OneSection
      BY <2>1, <3>2 DEF ChildCosts, OneSection
    <3>4. cost \in Nat /\ cost <= OneSection
      BY <3>2, <3>3
    <3>5. children_cost <= k * OneSection
      BY <2>2, <2>3 DEF SectionBounds
    <3> HIDE DEF k
    <3>6. (k + 1) * OneSection = k * OneSection + OneSection /\ k * OneSection \in Nat
      BY <3>1, <3>2, ProductIsNat
    <3>7. children_cost + cost <= k * OneSection + OneSection
      <4> DEFINE a == k * OneSection
      <4>1. a \in Nat /\ children_cost <= a
        BY <3>5, <3>6
      <4> HIDE DEF a
      <4>2. children_cost + cost <= a + OneSection
        BY <1>4, <3>2, <3>4, <4>1
      <4>3. QED
        BY <4>2 DEF a
    <3>8. QED
      BY <2>1, <3>1, <3>6, <3>7
  <2>4. QED
    BY <1>1, <1>2, <2>2, <2>3 DEF SectionBounds
<1>8. CASE Gathered
  <2>1. Granted => children_cost <= AllSections /\ children_cost <= WithSummary
    BY <1>3, <1>4, <1>8, SectionsAreWithin DEF Gathered
  <2>2. /\ pc' \in {"top", "done"} /\ children_cost' = children_cost
        /\ Open = {} /\ section' = section
    BY <1>8 DEF Gathered, End, ledger
  <2>3. QED
    BY <1>1, <1>2, <2>1, <2>2 DEF SectionBounds, Open
<1>9. CASE Summarized
  <2>1. PICK cost \in ChildCosts(ChildGrant) : children_cost' = children_cost + cost
    BY <1>9 DEF Summarized
  <2>2. pc = "top" /\ pc' = "done" /\ section' = section
    BY <1>9 DEF Summarized, End
  <2>3. ASSUME Granted PROVE children_cost' <= WithSummary
    <3> DEFINE over == Cardinality(Sections) * ChildOvershoot
    <3>1. children_cost <= setup.grant + over
      BY <2>2, <2>3 DEF SectionBounds, AllSections
    <3>2. /\ setup.grant \in Nat /\ ChildOvershoot \in Nat /\ over \in Nat
          /\ own_cost \in Nat /\ cost_so_far = own_cost + children_cost
      BY <1>3, <2>3, SectionCount, ProductIsNat, LedgerTypes DEF cost_so_far
    <3>3. ChildOvershoot <= over
      <4>1. Cardinality(Sections) \in Nat \ {0}
        BY SectionCount
      <4>2. QED
        BY <3>2, <4>1
    <3>4. WithSummary = setup.grant + over + (IF Starves THEN 0 ELSE ChildOvershoot)
      BY DEF WithSummary, AllSections
    <3>5. CASE cost_so_far > setup.grant
      <4>1. ChildGrant = 0 /\ ChildGrant # NoGrant
        BY <2>3, <3>5, LoopAssumption DEF ChildGrant
      <4>2. cost \in {0} \cup 0..(0 + ChildOvershoot) /\ (Starves => cost = 0)
        BY <2>1, <4>1 DEF ChildCosts, Starves
      <4>3. cost \in Nat /\ cost <= ChildOvershoot
        BY <3>2, <4>2
      <4> HIDE DEF over
      <4>4. QED
        BY <1>4, <2>1, <3>1, <3>2, <3>4, <4>2, <4>3
    <3>6. CASE ~(cost_so_far > setup.grant)
      <4>1. ChildGrant = setup.grant - cost_so_far
        BY <2>3, <3>6 DEF ChildGrant
      <4>2. ChildGrant \in Nat /\ ChildGrant # NoGrant
        BY <1>4, <3>2, <3>6, <4>1, LoopAssumption
      <4>3. cost \in {0} \cup 0..(ChildGrant + ChildOvershoot)
        BY <2>1, <4>2 DEF ChildCosts
      <4>4. cost \in Nat /\ cost <= ChildGrant + ChildOvershoot
        BY <3>2, <4>2, <4>3
      <4> HIDE DEF over
      <4>5. QED
        BY <1>4, <2>1, <3>2, <3>3, <3>4, <4>1, <4>4
    <3>7. QED
      BY <3>5, <3>6
  <2>4. QED
    BY <1>1, <1>2, <2>2, <2>3 DEF SectionBounds, Open
<1>10. QED
    BY <1>5, <1>6, <1>7, <1>8, <1>9 DEF BriefNext

-----------------------------------------------------------------------------
(* The grant, whichever _run the node has *)

AuthorsBounds ==
    /\ author = "loop" => GrantBounds
    /\ author = "synthesize" => PassBounds
    /\ author = "briefing" => SectionBounds

\* For every grant, price, usage, toolbox and set of sections, a node passes its grant
\* by at most one turn or one child, or a briefing by one child for each section; where
\* a child's input is free, by one child for each call of a reply, or by the summary too.
THEOREM NodeGrants == NodeSpec => []NodeGrantHolds
<1>1. NodeInit => NodeTypeOK /\ AuthorsBounds
  <2>1. SUFFICES ASSUME NodeInit PROVE NodeTypeOK /\ AuthorsBounds
    OBVIOUS
  <2>2. NodeTypeOK
    BY <2>1, TypesHoldInitially DEF NodeInit, BriefInit, NodeTypeOK, Standing
  <2>3. GrantBounds /\ cost_so_far = 0
    BY <2>1, GrantFirst, StartIsFree DEF NodeInit
  <2>4. children_cost = 0 /\ pc = "start" /\ Open = {}
    BY <2>1 DEF NodeInit, LoopInit, BriefInit, Open
  <2>5. Granted => WithSummary \in Nat
    BY <2>2, BoundTypes DEF NodeTypeOK
  <2>6. QED
    BY <2>2, <2>3, <2>4, <2>5 DEF AuthorsBounds, PassBounds, SectionBounds, NodeTypeOK
<1>2. NodeTypeOK /\ AuthorsBounds /\ [NodeNext]_nodevars => AuthorsBounds'
  <2>1. SUFFICES ASSUME NodeTypeOK, AuthorsBounds, [NodeNext]_nodevars PROVE AuthorsBounds'
    OBVIOUS
  <2>2. author' = author /\ author \in {"loop", "synthesize", "briefing"}
    BY <2>1 DEF NodeNext, nodevars, NodeTypeOK
  <2>3. CASE UNCHANGED nodevars
    BY <2>1, <2>3
    DEF AuthorsBounds, GrantBounds, PassBounds, SectionBounds, Starves, Granted, Overshoot,
        AtOnce, Slack, cost_so_far, own_cost, Open, Ended, OneSection, AllSections,
        WithSummary, Share, nodevars, briefvars, loopvars, ledger
  <2>4. CASE author = "loop" /\ LoopNext
    BY <2>1, <2>2, <2>4, GrantKept DEF AuthorsBounds, NodeTypeOK
  <2>5. CASE author = "synthesize" /\ SynthNext
    BY <2>1, <2>2, <2>5, PassesKeepGrant DEF AuthorsBounds, NodeTypeOK
  <2>6. CASE author = "briefing" /\ BriefNext
    BY <2>1, <2>2, <2>6, SectionsKeepGrant DEF AuthorsBounds, NodeTypeOK
  <2>7. QED
    BY <2>1, <2>3, <2>4, <2>5, <2>6 DEF NodeNext
<1>3. NodeTypeOK /\ AuthorsBounds => NodeGrantHolds
  <2>1. GrantBounds => GrantHolds
    BY DEF GrantBounds, GrantHolds
  <2>2. ASSUME NodeTypeOK, SectionBounds PROVE SharesHold
    <3>1. ASSUME Granted PROVE children_cost <= WithSummary
      <4>1. CASE pc # "reply"
        BY <2>2, <3>1, <4>1 DEF SectionBounds
      <4>2. CASE pc = "reply"
        <5>1. children_cost <= AllSections
          BY <2>2, <3>1, <4>2, SectionsAreWithin DEF NodeTypeOK
        <5>2. children_cost \in Nat
          BY <2>2 DEF NodeTypeOK, LoopTypeOK
        <5>3. QED
          BY <2>2, <3>1, <5>1, <5>2, BoundTypes DEF NodeTypeOK
      <4>3. QED
        BY <4>1, <4>2
    <3>2. ASSUME Granted
          PROVE  WithSummary = setup.grant
                     + (IF Starves THEN Cardinality(Sections) ELSE Shares) * ChildOvershoot
      <4> DEFINE n == Cardinality(Sections)
      <4>1. n \in Nat /\ ChildOvershoot \in Nat /\ setup.grant \in Nat
        BY <2>2, <3>2, SectionCount, GrantTypes DEF NodeTypeOK
      <4>2. n * ChildOvershoot \in Nat
            /\ (n + 1) * ChildOvershoot = n * ChildOvershoot + ChildOvershoot
        BY <4>1, MoreOvershoots
      <4>3. QED
        BY <4>1, <4>2 DEF WithSummary, AllSections, Shares
    <3>3. QED
      BY <3>1, <3>2 DEF SharesHold, Starves
  <2>3. QED
    BY <2>1, <2>2 DEF AuthorsBounds, PassBounds, NodeGrantHolds, NodeTypeOK
<1>4. NodeSpec => []NodeTypeOK
    BY NodeTypesHold
<1>5. QED
    BY <1>1, <1>2, <1>3, <1>4, PTL DEF NodeSpec

=============================================================================
