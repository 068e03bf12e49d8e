-------------------------- MODULE MCVirtualBridge --------------------------
(***************************************************************************)
(* Instances of VirtualBridge for TLC: as in Switch.NewTap, every device   *)
(* has the same name.                                                      *)
(***************************************************************************)
EXTENDS VirtualBridge

CONSTANTS auto, d1, d2, h, g

MCNameOf == [d \in Devs |-> auto]
=============================================================================
