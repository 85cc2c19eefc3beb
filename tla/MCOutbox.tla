------------------------------ MODULE MCOutbox ------------------------------
(***************************************************************************)
(* Two replicas, the second with a clock behind the database's.            *)
(***************************************************************************)
EXTENDS Outbox, TLC

CONSTANTS w1, w2

MCSkew == (w1 :> 0) @@ (w2 :> -1)

=============================================================================
