-------------------------- MODULE MCControlledCall --------------------------
(***************************************************************************)
(* Bounded instances of RemoteRun: two invocations of one run that share   *)
(* the connection and the token, the first of them served by this library. *)
(***************************************************************************)
EXTENDS RemoteRun, TLC

CONSTANTS i1, i2

MCInvocations == {i1, i2}
MCServed == {i1}

=============================================================================
