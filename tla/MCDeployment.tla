---------------------------- MODULE MCDeployment ----------------------------
(* A small instance of Deployment for TLC.                                   *)
EXTENDS Deployment, TLC

CONSTANTS t1, t2

Plain == <<"typed", "fibergate">>
Unsafe == <<"typed", "p@$s">>
Percent == <<"typed", "100%">>
Noted == <<"typed", "100% #1">>

MCNames == {Plain, Percent}
MCOwnSecrets == {Unsafe, Noted}
MCRefused == {Unsafe}
MCMangled == Unsafe :> Plain @@ Noted :> Percent
MCSplitting == {Unsafe, Percent, Noted}
MCKeyFiles ==
    {[raw |-> TRUE, good |-> g, pass |-> None] : g \in BOOLEAN} \cup
    {[raw |-> FALSE, good |-> TRUE, pass |-> Noted]}
=============================================================================
