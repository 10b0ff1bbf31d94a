------------------------------ MODULE MCCapture ------------------------------
(* Two blocks to look at, in two dimensions. *)
EXTENDS Capture

CONSTANTS here, there, overworld, nether

Worlds == (here :> overworld) @@ (there :> nether)

Tasks == Permutations(Clients)
=============================================================================
