---------------------------- MODULE MCBggReference ----------------------------
(* A small instance of BggReference for TLC. *)
EXTENDS BggReference, TLC

Campaigns == 1 :> 1

=============================================================================
