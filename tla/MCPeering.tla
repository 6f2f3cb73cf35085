------------------------------ MODULE MCPeering ------------------------------
(***************************************************************************)
(* The values a run of Peering needs: browser tabs, the two addresses of   *)
(* the receiver, and how often each thing may happen.                      *)
(***************************************************************************)
EXTENDS Peering

CONSTANTS t1, t2, a1, a2

Allow(drops, moves, admins, asks, crashes) ==
    [drop |-> drops, move |-> moves, admin |-> admins, ask |-> asks, crash |-> crashes]
\* A pairing that meets a drop and a restart, whose operator asks for something else
\* meanwhile, or which the receiver's operator removes.
MCEither == {Allow(1, 1, 2, 1, 1), Allow(0, 1, 2, 2, 0), Allow(0, 0, 3, 2, 0)}
\* Pairing twice, with a removal at the receiver in between.
MCRepair == {Allow(1, 0, 3, 2, 0)}
=============================================================================
