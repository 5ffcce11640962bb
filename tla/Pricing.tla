------------------------------- MODULE Pricing -------------------------------
(***************************************************************************)
(* Catalog entries and what a call on one costs (models.Model), in integer *)
(* units of money per token.                                               *)
(***************************************************************************)
EXTENDS Integers

CONSTANTS NoPrice, NoUsage

ASSUME PriceAssumption == NoPrice \notin Nat /\ NoUsage \notin [in : Nat, out : Nat]

Price == Nat \cup {NoPrice}
Usage == [in : Nat, out : Nat]

\* An unpriced side rates as zero.
Rate(price) == IF price = NoPrice THEN 0 ELSE price
cost_usd(r, u) ==
    IF u = NoUsage THEN 0 ELSE u.in * Rate(r.in_price) + u.out * Rate(r.out_price)

is_priced(r) == r.in_price # NoPrice /\ r.out_price # NoPrice
free_model(r) == r.in_price = 0 /\ r.out_price = 0

\* A dollar-accounted call whose cost cannot be tracked fails, never counts as $0.
Unmeterable(r, u, accounted) ==
    accounted /\ ~free_model(r) /\ (~is_priced(r) \/ u = NoUsage)

=============================================================================
