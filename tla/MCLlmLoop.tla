----------------------------- MODULE MCLlmLoop -----------------------------
(***************************************************************************)
(* Bounded instances of Node: two tools of which one is permitted, two     *)
(* sections, one setup for each way a node is priced, granted or refused,  *)
(* and the node and its children priced alike or not.                      *)
(***************************************************************************)
EXTENDS Node, TLC

CONSTANTS search, write, weather, news

MCToolbox == {search, write}
MCPermitted == {search}
MCSections == {weather, news}

Plain == [known |-> TRUE, fits |-> TRUE, opening |-> TRUE, fused |-> FALSE,
          child_floor |-> 1, in_price |-> 1, out_price |-> 1, grant |-> 3]
MCSetups == {Plain,
             [Plain EXCEPT !.grant = 1],
             [Plain EXCEPT !.child_floor = 0],
             [Plain EXCEPT !.grant = NoGrant, !.fused = TRUE],
             [Plain EXCEPT !.grant = NoGrant, !.in_price = NoPrice, !.out_price = NoPrice],
             [Plain EXCEPT !.grant = 0, !.in_price = 0, !.out_price = 0],
             [Plain EXCEPT !.grant = 1, !.in_price = 0],
             [Plain EXCEPT !.grant = 1, !.in_price = 0, !.child_floor = 0],
             [Plain EXCEPT !.in_price = NoPrice],
             [Plain EXCEPT !.grant = NoGrant, !.fused = TRUE, !.out_price = NoPrice],
             [Plain EXCEPT !.known = FALSE],
             [Plain EXCEPT !.fits = FALSE],
             [Plain EXCEPT !.opening = FALSE]}
MCUsages == {[in |-> 1, out |-> 1]}

=============================================================================
