--------------------------- MODULE MCSwitchAccess ---------------------------
(***************************************************************************)
(* Instances of SwitchAccess for TLC: c1 and c2 share a uuid (two          *)
(* connections of one point, or of a point and its clone), c2 and c3 log   *)
(* in as the same guest, and c2 may have an address configured for its     *)
(* host name.                                                              *)
(***************************************************************************)
EXTENDS SwitchAccess, TLC

CONSTANTS c1, c2, c3, u1, u2, admin, guest

MCUserOf == (c1 :> admin) @@ (c2 :> guest) @@ (c3 :> guest)
MCUUIDOf == (c1 :> u1) @@ (c2 :> u1) @@ (c3 :> u2)
NoHost == (c1 :> NoIp) @@ (c2 :> NoIp) @@ (c3 :> NoIp)
OneHost == (c1 :> NoIp) @@ (c2 :> 1) @@ (c3 :> NoIp)
=============================================================================
