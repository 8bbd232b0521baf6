---------------------------- MODULE MCCodeQueue -----------------------------
(* CodeQueue on a ring small enough to wrap around with every other frame. *)
EXTENDS CodeQueueInv, TLC

BodySymmetry == Permutations(Payloads)
=============================================================================
