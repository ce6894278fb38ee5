---------------------------- MODULE MCPhoneStore ----------------------------
(***************************************************************************)
(* Small instances of PhoneStore.                                          *)
(***************************************************************************)
EXTENDS PhoneStore, TLC

CONSTANT Small

\* One photograph that fits by itself and others that do not.
SmallAndLarge == [p \in Page |-> IF p = Small THEN 1 ELSE 2]

\* Photographs differ in size, so they are not interchangeable.
Symmetry == Permutations(Session) \cup Permutations(Run) \cup Permutations(Slot)
=============================================================================
