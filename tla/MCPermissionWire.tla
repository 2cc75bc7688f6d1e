-------------------------- MODULE MCPermissionWire --------------------------
(* Model values for PermissionWire: the requests are all of one kind.       *)
EXTENDS PermissionWire, TLC

CONSTANTS r1, r2, r3, same

MCTwo == {r1, r2}
MCThree == {r1, r2, r3}
MCKinds == {same}
MCKindOf == [r \in Reqs |-> same]
MCSymmetry == Permutations(Reqs)

=============================================================================
