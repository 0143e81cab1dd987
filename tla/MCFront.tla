------------------------------ MODULE MCFront ------------------------------
(* One chart, one smoothing setting and one new file.                      *)
EXTENDS Front, TLC

MCTagOf == [c \in Charts |-> "loss"]

SlotSymmetry ==
  Permutations(ChartSlots) \cup Permutations(FileSlots) \cup Permutations(UploadSlots)

=============================================================================
