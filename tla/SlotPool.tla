------------------------------ MODULE SlotPool ------------------------------
(***************************************************************************)
(* What libol/socket.go promises about its clients, and nothing of how: a  *)
(* connection is given a slot at most once and only while fewer than Size  *)
(* are taken, or is refused; a slot is given back at most once.            *)
(***************************************************************************)
EXTENDS Naturals, FiniteSets

CONSTANTS Conns, Size

VARIABLES
    held,     \* the connections that have a slot
    gone,     \* the connections that had one
    refused   \* the connections that were turned away

poolVars == <<held, gone, refused>>

Init == held = {} /\ gone = {} /\ refused = {}

New(c) == c \notin held \cup gone \cup refused

Admit(c) ==
    /\ New(c) /\ Cardinality(held) < Size
    /\ held' = held \cup {c} /\ UNCHANGED <<gone, refused>>

Refuse(c) ==
    /\ New(c) /\ refused' = refused \cup {c}
    /\ UNCHANGED <<held, gone>>

Release(c) ==
    /\ c \in held
    /\ held' = held \ {c} /\ gone' = gone \cup {c}
    /\ UNCHANGED refused

Next == \E c \in Conns : Admit(c) \/ Refuse(c) \/ Release(c)

Spec == Init /\ [][Next]_poolVars
=============================================================================
