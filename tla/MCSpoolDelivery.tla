-------------------------- MODULE MCSpoolDelivery --------------------------
(* Instances of SpoolDelivery for TLC; the bounds are in the .cfg files.   *)
EXTENDS SpoolDelivery, TLC
CONSTANTS s1, s2
OneSlot == {s1}
TwoSlots == {s1, s2}
SlotSymmetry == Permutations(TwoSlots)
=============================================================================
