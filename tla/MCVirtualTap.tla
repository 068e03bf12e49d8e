---------------------------- MODULE MCVirtualTap ----------------------------
(* Two ports flood into a device while its session writes to it. *)
EXTENDS VirtualTap, TLC

CONSTANTS p1, p2, p3

MCDirOf == (p1 :> "kern") @@ (p2 :> "kern") @@ (p3 :> "virt")
MCBuf == ("kern" :> 2) @@ ("virt" :> 1)
=============================================================================
