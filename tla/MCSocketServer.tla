--------------------------- MODULE MCSocketServer ---------------------------
(* Instances of SocketServer for TLC. *)
EXTENDS SocketServer, TLC

CONSTANTS c1, c2, c3, a1, a2

\* The third connection comes from the address of the first.
ReusedAddrs == (c1 :> a1) @@ (c2 :> a2) @@ (c3 :> a1)

\* It may change places with the first.
Symmetry == Permutations({c1, c3})
=============================================================================
