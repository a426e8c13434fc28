-------------------------- MODULE MCSlotAssignment --------------------------
(* Small instances of SlotAssignment: every choice of masks for four events. *)
EXTENDS SlotAssignment

CONSTANTS any

\* Two nested masks, one that crosses neither, and one with a bit beyond the last slot.
SomeMasks == {{3}, {1, 2, 3}, {0}, {2, 3}, {3, 5}}
=============================================================================
