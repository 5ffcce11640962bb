--------------------------- MODULE MCProviderDoor ---------------------------
(***************************************************************************)
(* Bounded instances of ProviderDoor.  Five calls: a priced and granted    *)
(* one, a priced one whose grant was stripped, one priced on its input     *)
(* side only, a free one, and one whose endpoint has no API key.           *)
(***************************************************************************)
EXTENDS ProviderDoor, TLC

CONSTANTS c1, c2, c3, c4, c5

Priced == [in_price |-> 1, out_price |-> 1, keyed |-> TRUE, granted |-> TRUE]
Stripped == [Priced EXCEPT !.granted = FALSE]
HalfPriced == [Stripped EXCEPT !.out_price = NoPrice]
Free == [Stripped EXCEPT !.in_price = 0, !.out_price = 0]
Keyless == [Priced EXCEPT !.keyed = FALSE]

MCCalls == {c1, c2, c3, c4, c5}
MCRequestOf ==
    [c \in MCCalls |-> CASE c = c1 -> Priced [] c = c2 -> Stripped
                         [] c = c3 -> HalfPriced [] c = c4 -> Free
                         [] OTHER -> Keyless]
MCUsages == {[in |-> 1, out |-> 1]}

=============================================================================
