---------------------------- MODULE MCSlotBatch ----------------------------
(* Instances of SlotBatch for TLC: the slots are taken in order, so there  *)
(* is no symmetry.                                                         *)
EXTENDS SlotBatch, TLC
=============================================================================
