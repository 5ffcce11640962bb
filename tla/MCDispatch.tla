----------------------------- MODULE MCDispatch -----------------------------
(***************************************************************************)
(* Bounded instances of Dispatch: a custom root over a custom node a, with *)
(* an LLM child g, and an LLM node b.  A call of b costs 2.  The model     *)
(* of g has no price for its output: its call is charged 1 and, under a    *)
(* spend fuse, refused.  Without usage a call costs 0.                     *)
(***************************************************************************)
EXTENDS Dispatch, TLC

CONSTANTS c1, c2, root, a, b, g

MCNodes == {root, a, b, g}
MCParent == a :> root @@ b :> root @@ g :> a
MCCustom == {root, a}
MCNoNodes == {}
MCTokens == {root, b}
MCBranch == {a}
MCCalls == {c1, c2}
MCNodeOf == c1 :> g @@ c2 :> b
Priced == [in_price |-> 1, out_price |-> 1, keyed |-> TRUE, granted |-> FALSE]
HalfPriced == [Priced EXCEPT !.out_price = NoPrice]
MCRequestOf == c1 :> HalfPriced @@ c2 :> Priced
MCUsages == {[in |-> 1, out |-> 1]}
MCReceipts == {1}
MCNoReceipts == {}

=============================================================================
