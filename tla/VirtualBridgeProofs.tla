------------------------ MODULE VirtualBridgeProofs ------------------------
(***************************************************************************)
(* For every set of devices, names and addresses, every timeout and every  *)
(* number of frames: a closed device is not a port, an address leads to a  *)
(* device its latest frames came from, and no frame is directed at a       *)
(* device after its Close.                                                 *)
(*                                                                         *)
(* PortsOpen is not inductive: ports are entered and deleted by name.  It  *)
(* holds because a port is always a device that has the bridge as its      *)
(* master (PortIsSlave), so that its own Close deletes it, and that is so  *)
(* because NewTap makes one device at a time (OneMade): the device that    *)
(* AddSlave finds under a name is the one that was just registered.        *)
(***************************************************************************)
EXTENDS VirtualBridge, TLAPS

\* Switch.lock: one device is being made.
OneMade ==
    \A d, e \in Devs : dev[d] \in {"made", "slave"} /\ dev[e] \in {"made", "slave"} => d = e

\* Nobody else takes the name of the device that is being made.
FindsItself == \A d \in Devs : dev[d] = "made" => taps[NameOf[d]] \in {d, NoDev}

SlaveMade == \A d \in Devs : dev[d] = "slave" => d \in slaves

\* A port is a device that will give the port up when it is closed.
PortIsSlave ==
    \A n \in Names : ports[n] # NoDev =>
        /\ NameOf[ports[n]] = n
        /\ ports[n] \in slaves
        /\ dev[ports[n]] \in {"up", "down"}

\* A port that learns or forwards has a frame; what it learns is no group.
HasFrame ==
    \A d \in Devs :
        /\ input[d] \in {"learn", "update", "add"} => src[d] \in Macs \ Groups
        /\ input[d] \in {"learn", "update", "add", "forward"} => dst[d] \in Macs

Inv == TypeOK /\ HasFrame /\ OneMade /\ FindsItself /\ SlaveMade /\ PortIsSlave /\ FollowsMoves

\* There are no devices, ports or addresses in the beginning.
LEMMA InvInit == Init => Inv
<1> SUFFICES ASSUME Init
             PROVE  Inv
    OBVIOUS
<1> USE BridgeAssumption
<1>1. TypeOK
    BY DEF Init, TypeOK, Ages
<1> QED
    BY <1>1 DEF Init, Inv, HasFrame, OneMade, FindsItself, SlaveMade, PortIsSlave, FollowsMoves

----------------------------------------------------------------------------
(* The values of the variables. *)

\* NewTap and Close.
LEMMA TypeRegistry ==
    ASSUME TypeOK, NEW d \in Devs,
           \/ NewTap(d) \/ AddSlaveGet(d) \/ AddSlavePort(d) \/ Down(d) \/ DelSlave(d) \/ DelName(d)
    PROVE  TypeOK'
<1> USE BridgeAssumption DEF TypeOK, Becomes, Goto, fdbVars, inputVars, expireVars, historyVars
<1>1. CASE NewTap(d)
    BY <1>1 DEF NewTap
<1>2. CASE AddSlaveGet(d)
    BY <1>2 DEF AddSlaveGet
<1>3. CASE AddSlavePort(d)
    BY <1>3 DEF AddSlavePort
<1>4. CASE Down(d)
    BY <1>4 DEF Down
<1>5. CASE DelSlave(d)
    BY <1>5 DEF DelSlave
<1>6. CASE DelName(d)
    BY <1>6 DEF DelName
<1> QED
    BY <1>1, <1>2, <1>3, <1>4, <1>5, <1>6

\* Recv, Learn, UniCast and Flood.
LEMMA TypeInput ==
    ASSUME TypeOK, HasFrame, NEW d \in Devs, Input(d) \/ \E s, t \in Macs : Recv(d, s, t)
    PROVE  TypeOK'
<1> USE BridgeAssumption
    DEF TypeOK, Becomes, Goto, Ages, registryVars, fdbVars, inputVars, expireVars, historyVars
<1>1. CASE LearnGet(d)
    BY <1>1 DEF LearnGet
<1>2. CASE UpdateMac(d) \/ AddMac(d)
  <2>1. src[d] \in Macs \ Groups
    BY <1>2 DEF HasFrame, UpdateMac, AddMac
  <2>2. current' \in [Macs -> SUBSET Devs] /\ older' \in [Devs -> SUBSET Devs]
    <3>1. (current[src[d]] \ older[d]) \cup {d} \in SUBSET Devs
      BY <2>1
    <3>2. Learned(d)
      BY <1>2 DEF UpdateMac, AddMac
    <3> QED
      BY <2>1, <3>1, <3>2 DEF Learned
  <2>3. macs' \in [Macs -> Devs \cup {NoDev}] /\ age' \in [Macs -> 0 .. Timeout + 1]
    BY <1>2, <2>1 DEF UpdateMac, AddMac
  <2>4. \A m \in Groups : macs'[m] = NoDev
    BY <1>2, <2>1 DEF UpdateMac, AddMac
  <2> QED
    BY <1>2, <2>2, <2>3, <2>4 DEF UpdateMac, AddMac
<1>3. CASE UniCast(d)
  <2>1. macs[dst[d]] \in Devs
    BY <1>3 DEF UniCast, HasFrame
  <2> QED
    BY <1>3, <2>1 DEF UniCast
<1>4. CASE Flood(d)
  <2>1. {ports[n] : n \in Names} \ {d, NoDev} \subseteq Devs
    OBVIOUS
  <2> QED
    BY <1>4, <2>1 DEF Flood
<1>5. CASE Send(d) \/ SendEnd(d) \/ RecvEnd(d)
    BY SMTT(30), <1>5 DEF Send, SendEnd, RecvEnd
<1>6. CASE \E s, t \in Macs : Recv(d, s, t)
    BY <1>6 DEF Recv
<1> QED
    BY <1>1, <1>2, <1>3, <1>4, <1>5, <1>6 DEF Input

\* The clock and Expire.
LEMMA TypeExpire == TypeOK /\ (Tick \/ ExpireCollect \/ ExpireDelete) => TypeOK'
<1> USE BridgeAssumption
    DEF TypeOK, Ages, Old, registryVars, inputVars, fdbVars, historyVars
<1>1. ASSUME TypeOK, Tick
      PROVE  TypeOK'
    BY <1>1 DEF Tick, expireVars
<1>2. ASSUME TypeOK, ExpireCollect
      PROVE  TypeOK'
    BY <1>2 DEF ExpireCollect
<1>3. ASSUME TypeOK, ExpireDelete
      PROVE  TypeOK'
    BY <1>3 DEF ExpireDelete
<1> QED
    BY <1>1, <1>2, <1>3
----------------------------------------------------------------------------
(* NewTap and Close. *)

Registry == OneMade /\ FindsItself /\ SlaveMade /\ PortIsSlave

\* The other steps do not touch the registry of devices.
LEMMA RegistrySame == TypeOK /\ Registry /\ UNCHANGED registryVars => Registry'
BY DEF Registry, OneMade, FindsItself, SlaveMade, PortIsSlave, registryVars

\* The device that is made takes its name over from any other.
LEMMA NewTapRegistry ==
    ASSUME TypeOK, Registry, NEW d \in Devs, NewTap(d)
    PROVE  Registry'
<1> USE BridgeAssumption DEF Registry, TypeOK, NewTap, Becomes
<1>1. OneMade' /\ SlaveMade'
    BY DEF OneMade, SlaveMade
<1>2. FindsItself'
    BY DEF FindsItself
<1>3. PortIsSlave'
    BY DEF PortIsSlave
<1> QED
    BY <1>1, <1>2, <1>3

\* AddSlave finds the device that was made, or none.
LEMMA AddSlaveGetRegistry ==
    ASSUME TypeOK, Registry, NEW d \in Devs, AddSlaveGet(d)
    PROVE  Registry'
<1> USE BridgeAssumption DEF Registry, TypeOK, AddSlaveGet, Becomes
<1>1. taps[NameOf[d]] \in {d, NoDev}
    BY DEF FindsItself
<1>2. OneMade' /\ FindsItself'
    BY DEF OneMade, FindsItself
<1>3. SlaveMade'
    BY <1>1 DEF SlaveMade
<1>4. PortIsSlave'
    BY DEF PortIsSlave
<1> QED
    BY <1>2, <1>3, <1>4

\* The new port is a slave.
LEMMA AddSlavePortRegistry ==
    ASSUME TypeOK, Registry, NEW d \in Devs, AddSlavePort(d)
    PROVE  Registry'
<1> USE BridgeAssumption DEF Registry, TypeOK, AddSlavePort, Becomes
<1>1. OneMade' /\ FindsItself' /\ SlaveMade'
    BY DEF OneMade, FindsItself, SlaveMade
<1>2. d \in slaves
    BY DEF SlaveMade
<1>3. PortIsSlave'
    BY <1>2 DEF PortIsSlave
<1> QED
    BY <1>1, <1>3

\* A device that closes gives up its own port: a port is a slave.
LEMMA CloseRegistry ==
    ASSUME TypeOK, Registry, NEW d \in Devs, Down(d) \/ DelSlave(d) \/ DelName(d)
    PROVE  Registry'
<1> USE BridgeAssumption DEF Registry, TypeOK, Becomes
<1>1. CASE Down(d)
  <2>1. OneMade' /\ FindsItself' /\ SlaveMade'
    BY <1>1 DEF Down, OneMade, FindsItself, SlaveMade
  <2>2. PortIsSlave'
    BY <1>1 DEF Down, PortIsSlave
  <2> QED
    BY <2>1, <2>2
<1>2. CASE DelSlave(d)
  <2>1. OneMade' /\ FindsItself' /\ SlaveMade'
    BY <1>2 DEF DelSlave, OneMade, FindsItself, SlaveMade
  <2>2. ASSUME NEW n \in Names, ports'[n] # NoDev
        PROVE  ports'[n] = ports[n] /\ ports[n] # d
    BY <1>2, <2>2 DEF DelSlave, PortIsSlave
  <2>3. PortIsSlave'
    BY <1>2, <2>2 DEF DelSlave, PortIsSlave
  <2> QED
    BY <2>1, <2>3
<1>3. CASE DelName(d)
  <2>1. OneMade' /\ FindsItself' /\ SlaveMade'
    BY <1>3 DEF DelName, OneMade, FindsItself, SlaveMade
  <2>2. PortIsSlave'
    BY <1>3 DEF DelName, PortIsSlave
  <2> QED
    BY <2>1, <2>2
<1> QED
    BY <1>1, <1>2, <1>3

----------------------------------------------------------------------------
(* Learn and Expire. *)

\* A frame is there from Recv to the end of Send.
LEMMA FrameStep ==
    ASSUME TypeOK, HasFrame, NEW d \in Devs,
           Input(d) \/ AddSlavePort(d) \/ \E s, t \in Macs : Recv(d, s, t)
    PROVE  HasFrame'
<1> USE DEF HasFrame, TypeOK, Goto
<1>1. CASE AddSlavePort(d)
    BY <1>1 DEF AddSlavePort
<1>2. CASE \E s, t \in Macs : Recv(d, s, t)
    BY <1>2 DEF Recv
<1>3. CASE LearnGet(d)
    BY <1>3 DEF LearnGet
<1>4. CASE UpdateMac(d) \/ AddMac(d)
    BY <1>4 DEF UpdateMac, AddMac
<1>5. CASE UniCast(d) \/ Flood(d) \/ Send(d) \/ SendEnd(d) \/ RecvEnd(d)
    BY <1>5 DEF UniCast, Flood, Send, SendEnd, RecvEnd
<1> QED
    BY <1>1, <1>2, <1>3, <1>4, <1>5 DEF Input

\* The device that an entry is given is current; an entry that is not written
\* by a Learn that was too late is gone.
LEMMA MovesStep ==
    ASSUME TypeOK, HasFrame, FollowsMoves, NEW d \in Devs, UpdateMac(d) \/ AddMac(d)
    PROVE  FollowsMoves'
<1>1. src[d] \in Macs
    BY DEF HasFrame, UpdateMac, AddMac
<1>2. current' = [current EXCEPT ![src[d]] = (@ \ older[d]) \cup {d}]
    BY DEF UpdateMac, AddMac, Learned
<1>3. \/ macs' = macs /\ macs[src[d]] = NoDev
      \/ macs' = [macs EXCEPT ![src[d]] = d]
    BY DEF UpdateMac, AddMac, fdbVars
<1> SUFFICES ASSUME NEW m \in Macs, macs'[m] # NoDev
             PROVE  macs'[m] \in current'[m]
    BY DEF FollowsMoves
<1>4. CASE m = src[d]
  <2>1. macs'[m] = d
    BY <1>1, <1>3, <1>4 DEF TypeOK
  <2> QED
    BY <1>1, <1>2, <1>4, <2>1 DEF TypeOK
<1>5. CASE m # src[d]
  <2>1. macs'[m] = macs[m] /\ current'[m] = current[m]
    BY <1>1, <1>2, <1>3, <1>5 DEF TypeOK
  <2> QED
    BY <2>1 DEF FollowsMoves
<1> QED
    BY <1>4, <1>5

----------------------------------------------------------------------------
(* Every step keeps the invariant. *)

\* The invariant, by what the lemmas above are about.
LEMMA InvParts == Inv <=> TypeOK /\ HasFrame /\ Registry /\ FollowsMoves
BY DEF Inv, Registry

\* One case for each group of actions.
LEMMA InvNext == Inv /\ [Next]_vars => Inv'
<1> SUFFICES ASSUME TypeOK, HasFrame, Registry, FollowsMoves, [Next]_vars
             PROVE  TypeOK' /\ HasFrame' /\ Registry' /\ FollowsMoves'
    BY InvParts DEF Inv, Registry
<1>1. ASSUME NEW d \in Devs, NewTap(d) \/ AddSlaveGet(d) \/ Down(d) \/ DelSlave(d) \/ DelName(d)
      PROVE  TypeOK' /\ HasFrame' /\ Registry' /\ FollowsMoves'
  <2>1. TypeOK'
    BY <1>1, TypeRegistry
  <2>2. Registry'
    BY <1>1, NewTapRegistry, AddSlaveGetRegistry, CloseRegistry
  <2>3. UNCHANGED <<fdbVars, inputVars, historyVars>>
    BY <1>1 DEF NewTap, AddSlaveGet, Down, DelSlave, DelName
  <2>4. HasFrame' /\ FollowsMoves'
    BY <2>3 DEF HasFrame, FollowsMoves, fdbVars, inputVars, historyVars
  <2> QED
    BY <2>1, <2>2, <2>4
<1>2. ASSUME NEW d \in Devs, AddSlavePort(d)
      PROVE  TypeOK' /\ HasFrame' /\ Registry' /\ FollowsMoves'
  <2>1. UNCHANGED <<fdbVars, historyVars>>
    BY <1>2 DEF AddSlavePort
  <2>2. FollowsMoves'
    BY <2>1 DEF FollowsMoves, fdbVars, historyVars
  <2> QED
    BY <1>2, <2>2, TypeRegistry, AddSlavePortRegistry, FrameStep
<1>3. ASSUME NEW d \in Devs, Input(d) \/ \E s, t \in Macs : Recv(d, s, t)
      PROVE  TypeOK' /\ HasFrame' /\ Registry' /\ FollowsMoves'
  <2>1. TypeOK' /\ HasFrame'
    BY <1>3, TypeInput, FrameStep
  <2>2. UNCHANGED registryVars
    BY <1>3 DEF Input, LearnGet, UpdateMac, AddMac, UniCast, Flood, Send, SendEnd, RecvEnd, Recv
  <2>3. Registry'
    BY <2>2, RegistrySame
  <2>4. FollowsMoves'
    <3>1. CASE UpdateMac(d) \/ AddMac(d)
      BY <3>1, MovesStep
    <3>2. CASE ~(UpdateMac(d) \/ AddMac(d))
      <4>1. UNCHANGED <<macs, current>>
        BY <1>3, <3>2 DEF Input, LearnGet, UniCast, Flood, Send, SendEnd, RecvEnd, Recv,
                          fdbVars, historyVars
      <4> QED
        BY <4>1 DEF FollowsMoves
    <3> QED
      BY <3>1, <3>2
  <2> QED
    BY <2>1, <2>3, <2>4
<1>4. ASSUME Tick \/ ExpireCollect \/ ExpireDelete
      PROVE  TypeOK' /\ HasFrame' /\ Registry' /\ FollowsMoves'
  <2>1. UNCHANGED <<registryVars, inputVars, historyVars>>
    BY <1>4 DEF Tick, ExpireCollect, ExpireDelete
  <2>2. Registry' /\ HasFrame'
    BY <2>1, RegistrySame DEF HasFrame, inputVars
  <2>3. \A m \in Macs : macs'[m] \in {macs[m], NoDev}
    BY <1>4 DEF Tick, ExpireCollect, ExpireDelete, fdbVars
  <2>4. FollowsMoves'
    BY <2>1, <2>3 DEF FollowsMoves, historyVars
  <2> QED
    BY <1>4, <2>2, <2>4, TypeExpire
<1>5. CASE UNCHANGED vars
  <2>1. UNCHANGED registryVars
    BY <1>5 DEF vars
  <2>2. Registry'
    BY <2>1, RegistrySame
  <2> QED
    BY <1>5, <2>2 DEF vars, registryVars, fdbVars, inputVars, expireVars, historyVars,
                      TypeOK, HasFrame, FollowsMoves
<1> QED
    BY <1>1, <1>2, <1>3, <1>4, <1>5 DEF Next

\* The inductive invariant holds of every reachable state.
THEOREM Invariance == Spec => []Inv
<1> QED
    BY InvInit, InvNext, PTL DEF Spec

\* The tables, the frames at hand and the program counters have their types in
\* every reachable state, and no group address is ever learned (Learn).
THEOREM TypeCorrect == Spec => []TypeOK
<1>1. Inv => TypeOK
    BY DEF Inv
<1> QED
    BY <1>1, Invariance, PTL

\* However NewTap and Close interleave and whatever names the devices have, a
\* device that has given up its port is not a port (AddSlave, DelSlave).
THEOREM ClosedNotPort == Spec => []PortsOpen
<1>1. Inv => PortsOpen
    BY DEF Inv, PortIsSlave, PortsOpen
<1> QED
    BY <1>1, Invariance, PTL

\* An address leads to a device that no later, complete Learn has superseded,
\* whatever Learn and Expire do at the same time.
THEOREM MovesFollowed == Spec => []FollowsMoves
<1>1. Inv => FollowsMoves
    BY DEF Inv
<1> QED
    BY <1>1, Invariance, PTL

\* A step that directs a frame at devices directs it at none that is closed.
LEMMA OutsStep ==
    ASSUME Inv, [Next]_vars, NEW d \in Devs, NEW e \in outs'[d] \ outs[d]
    PROVE  dev[e] # "closed"
<1> USE DEF Inv
<1>1. \E x \in Devs : UniCast(x) \/ Flood(x) \/ Send(x)
  <2>1. outs' # outs
    OBVIOUS
  <2> QED
    BY <2>1 DEF Next, Input, vars, NewTap, AddSlaveGet, AddSlavePort, Down, DelSlave, DelName,
                LearnGet, UpdateMac, AddMac, SendEnd, RecvEnd, Recv, Tick, ExpireCollect,
                ExpireDelete, inputVars
<1>2. PICK x \in Devs : UniCast(x) \/ Flood(x) \/ Send(x)
    BY <1>1
<1>3. CASE UniCast(x)
    BY <1>3 DEF UniCast, Reachable, Up, TypeOK
<1>4. CASE Flood(x)
  <2>1. PICK n \in Names : e = ports[n] /\ ports[n] # NoDev
    BY <1>4 DEF Flood, TypeOK
  <2> QED
    BY <2>1 DEF PortIsSlave
<1>5. CASE Send(x)
    BY <1>5 DEF Send, TypeOK
<1> QED
    BY <1>2, <1>3, <1>4, <1>5

\* No frame is directed at a device after its Close, by UniCast, which asks the
\* device whether it runs, or by Flood, which asks nothing.
THEOREM NothingToClosed == Spec => OutsOpen
<1>1. Inv /\ [Next]_vars => [\A d \in Devs : \A e \in outs'[d] \ outs[d] : dev[e] # "closed"]_vars
    BY OutsStep
<1> QED
    BY <1>1, Invariance, PTL DEF Spec, OutsOpen
=============================================================================
