--------------------------- MODULE MCComponentScan ---------------------------
(* Components that cross tile borders, at negative coordinates too, with a   *)
(* diagonal, a gap of two, and a border of the policy that cuts through one. *)
EXTENDS ComponentScan

At(x, y, z) == [x |-> x, y |-> y, z |-> z]

Line == {At(-2, 0, 0), At(-1, 0, 0), At(0, 0, 0), At(1, 0, 0), At(3, 0, 0)}
Corner == {At(0, 0, 0), At(1, 0, 0), At(1, 1, 1), At(2, 1, 1), At(2, 1, -1)}

Field == Line \cup Corner
Scenes == {Line, Corner}
Gazes == {At(-1, 1, 0), At(2, 0, 0)}
Region == [min |-> At(-4, -4, -4), max |-> At(3, 3, 3)]
=============================================================================
