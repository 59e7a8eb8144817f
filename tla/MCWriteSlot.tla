---------------------------- MODULE MCWriteSlot ----------------------------
(* Model checking of WriteSlot: small sets of clients. *)
EXTENDS WriteSlot, TLC
ClientSymmetry == Permutations(Clients)
=============================================================================
