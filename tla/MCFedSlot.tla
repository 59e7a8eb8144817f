----------------------------- MODULE MCFedSlot -----------------------------
(* Model checking of FedSlot: one or two peers' clients, on the same path. *)
EXTENDS FedSlot, TLC
CONSTANT p1
OnePeer == [s \in Streams |-> p1]
=============================================================================
