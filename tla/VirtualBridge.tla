---------------------------- MODULE VirtualBridge ----------------------------
(***************************************************************************)
(* The in-process bridge of a network (pkg/network/bridge_virtual.go), the *)
(* registry of devices (pkg/network/taper.go) and what Switch.NewTap and   *)
(* VirtualTap.Close do to both.                                            *)
(*                                                                         *)
(* A device is made, registered and added to the bridge by one goroutine   *)
(* at a time (Switch.lock), and closed by any, without that lock.  Every   *)
(* port has a goroutine that receives its frames, learns where the source  *)
(* is and forwards the frame; one more expires what was learned.  Each     *)
(* touches the bridge in steps, one per hold of its lock.                  *)
(*                                                                         *)
(* The devices of this module are virtual taps.  Their queues are the      *)
(* VirtualTap module's: here a frame may come from a device at any time,   *)
(* also while a closed queue is drained.                                   *)
(***************************************************************************)
EXTENDS Naturals, FiniteSets

CONSTANTS
    Devs,       \* devices, one for each session
    Names,
    NameOf,     \* the name a device is made with
    NoDev,
    Macs,       \* hardware addresses
    NoMac,
    Groups,     \* the group addresses among them
    Timeout,    \* age, in ticks, above which an address expires
    MaxFrames   \* bound: frames received

ASSUME BridgeAssumption ==
    /\ NoDev \notin Devs /\ NoMac \notin Macs /\ NameOf \in [Devs -> Names] /\ Groups \subseteq Macs
    /\ Timeout \in Nat /\ MaxFrames \in Nat

Ages == 0 .. Timeout + 1    \* no older age is told apart

VARIABLES
    dev,        \* how far NewTap and Close are with a device
    taps,       \* Taps.devices
    ports,      \* VirtualBridge.ports
    slaves,     \* devices whose master is the bridge
    macs,       \* VirtualBridge.macs: device of an address
    age,        \* time since Uptime of an entry
    input,      \* pc of the goroutine that serves a port
    src, dst,   \* addresses of the frame it has
    outs,       \* devices it has still to send the frame to
    frames,     \* frames received so far
    expire,     \* pc of the goroutine that expires addresses
    deletes,    \* addresses Expire has collected
    \* history: which devices an address may be taken to be at
    current,    \* those that no later, complete Learn has superseded
    older       \* those the Learn of a port will supersede when it is complete

registryVars == <<dev, taps, ports, slaves>>
fdbVars == <<macs, age>>
inputVars == <<input, src, dst, outs, frames>>
expireVars == <<expire, deletes>>
historyVars == <<current, older>>
vars == <<registryVars, fdbVars, inputVars, expireVars, historyVars>>

Init ==
    /\ dev = [d \in Devs |-> "new"]
    /\ taps = [n \in Names |-> NoDev]
    /\ ports = [n \in Names |-> NoDev]
    /\ slaves = {}
    /\ macs = [m \in Macs |-> NoDev]
    /\ age = [m \in Macs |-> 0]
    /\ input = [d \in Devs |-> "none"]
    /\ src = [d \in Devs |-> NoMac] /\ dst = src
    /\ outs = [d \in Devs |-> {}]
    /\ frames = 0
    /\ expire = "select" /\ deletes = {}
    /\ current = [m \in Macs |-> {}]
    /\ older = [d \in Devs |-> {}]

----------------------------------------------------------------------------
(* Switch.NewTap, with Switch.lock held. *)

Goto(d, pc) == input' = [input EXCEPT ![d] = pc]
Becomes(d, s) == dev' = [dev EXCEPT ![d] = s]

\* NewVirtualTap registers the device under its name, and it is brought up.
NewTap(d) ==
    /\ dev[d] = "new" /\ \A e \in Devs : dev[e] \notin {"made", "slave"}
    /\ taps' = [taps EXCEPT ![NameOf[d]] = d]
    /\ Becomes(d, "made")
    /\ UNCHANGED <<ports, slaves, fdbVars, inputVars, expireVars, historyVars>>

\* AddSlave looks the name up.  There is no device when another one with this
\* name was closed meanwhile, and NewTap does not look at the error.
AddSlaveGet(d) ==
    /\ dev[d] = "made"
    /\ IF taps[NameOf[d]] = NoDev
       THEN /\ Becomes(d, "up")
            /\ UNCHANGED slaves
       ELSE /\ Becomes(d, "slave")
            /\ slaves' = slaves \cup {taps[NameOf[d]]}
    /\ UNCHANGED <<taps, ports, fdbVars, inputVars, expireVars, historyVars>>

AddSlavePort(d) ==
    /\ dev[d] = "slave"
    /\ ports' = [ports EXCEPT ![NameOf[d]] = d]
    /\ Goto(d, "recv")
    /\ Becomes(d, "up")
    /\ UNCHANGED <<taps, slaves, fdbVars, src, dst, outs, frames, expireVars, historyVars>>

----------------------------------------------------------------------------
(* VirtualTap.Close. *)

Down(d) ==
    /\ dev[d] = "up"
    /\ Becomes(d, "down")
    /\ UNCHANGED <<taps, ports, slaves, fdbVars, inputVars, expireVars, historyVars>>

\* Mutant: the device keeps its port.
DelSlaveNot(d) ==
    /\ dev[d] = "down"
    /\ slaves' = slaves \ {d}
    /\ Becomes(d, "released")
    /\ UNCHANGED <<taps, ports, fdbVars, inputVars, expireVars, historyVars>>

\* DelSlave goes by the name, whichever device has the port.
DelSlave(d) ==
    /\ dev[d] = "down"
    /\ ports' = IF d \in slaves THEN [ports EXCEPT ![NameOf[d]] = NoDev] ELSE ports
    /\ slaves' = slaves \ {d}
    /\ Becomes(d, "released")
    /\ UNCHANGED <<taps, fdbVars, inputVars, expireVars, historyVars>>

\* Taps.Del goes by the name as well.
DelName(d) ==
    /\ dev[d] = "released"
    /\ taps' = [taps EXCEPT ![NameOf[d]] = NoDev]
    /\ Becomes(d, "closed")
    /\ UNCHANGED <<ports, slaves, fdbVars, inputVars, expireVars, historyVars>>

Up(d) == dev[d] \in {"made", "slave", "up"}

----------------------------------------------------------------------------
(* The goroutine of a port: Recv, then Input. *)

\* Mutant: the source is learned whatever it is.
RecvGroup(d, s, t) ==
    /\ input[d] = "recv" /\ frames < MaxFrames
    /\ frames' = frames + 1
    /\ src' = [src EXCEPT ![d] = s] /\ dst' = [dst EXCEPT ![d] = t]
    /\ Goto(d, "learn")
    /\ UNCHANGED <<registryVars, fdbVars, outs, expireVars, historyVars>>

\* Learn leaves a source alone that is a group address.
Recv(d, s, t) ==
    /\ input[d] = "recv" /\ frames < MaxFrames
    /\ frames' = frames + 1
    /\ src' = [src EXCEPT ![d] = s] /\ dst' = [dst EXCEPT ![d] = t]
    /\ Goto(d, IF s \in Groups THEN "forward" ELSE "learn")
    /\ UNCHANGED <<registryVars, fdbVars, outs, expireVars, historyVars>>

\* Recv of a device that is down fails, or reads nothing.
RecvEnd(d) ==
    /\ input[d] = "recv" /\ ~Up(d)
    /\ Goto(d, "end")
    /\ UNCHANGED <<registryVars, fdbVars, src, dst, outs, frames, expireVars, historyVars>>

Learning(m) == {d \in Devs : input[d] \in {"update", "add"} /\ src[d] = m}

\* Learn looks the source up.
LearnGet(d) ==
    /\ input[d] = "learn"
    /\ Goto(d, IF macs[src[d]] # NoDev THEN "update" ELSE "add")
    /\ older' = [e \in Devs |-> CASE e = d -> Devs \ (Learning(src[d]) \cup {d})
                                  [] e \in Learning(src[d]) -> older[e] \ {d}
                                  [] OTHER -> older[e]]
    /\ UNCHANGED <<registryVars, fdbVars, src, dst, outs, frames, expireVars, current>>

\* The source of the frame is at this device from now on.
Learned(d) ==
    /\ current' = [current EXCEPT ![src[d]] = (@ \ older[d]) \cup {d}]
    /\ older' = [older EXCEPT ![d] = {}]

\* Mutant: an address that is known stays where it is.
UpdateMacNot(d) ==
    /\ input[d] = "update"
    /\ age' = [age EXCEPT ![src[d]] = 0]
    /\ Goto(d, "forward") /\ Learned(d)
    /\ UNCHANGED <<registryVars, macs, src, dst, outs, frames, expireVars>>

\* UpdateMac does nothing when the entry has expired meanwhile.
UpdateMac(d) ==
    /\ input[d] = "update"
    /\ IF macs[src[d]] # NoDev
       THEN /\ macs' = [macs EXCEPT ![src[d]] = d]
            /\ age' = [age EXCEPT ![src[d]] = 0]
       ELSE UNCHANGED fdbVars
    /\ Goto(d, "forward") /\ Learned(d)
    /\ UNCHANGED <<registryVars, src, dst, outs, frames, expireVars>>

AddMac(d) ==
    /\ input[d] = "add"
    /\ macs' = [macs EXCEPT ![src[d]] = d]
    /\ age' = [age EXCEPT ![src[d]] = 0]
    /\ Goto(d, "forward") /\ Learned(d)
    /\ UNCHANGED <<registryVars, src, dst, outs, frames, expireVars>>

\* Mutant: the device is not asked whether it runs.
ReachableAlways(d, e) == e # d

\* "out should running"
Reachable(d, e) == e # d /\ Up(e)

\* UniCast to the device of the destination: the frame is dropped when that
\* is its source or does not run.
UniCast(d) ==
    /\ input[d] = "forward" /\ macs[dst[d]] # NoDev
    /\ outs' = [outs EXCEPT ![d] = {e \in {macs[dst[d]]} : Reachable(d, e)}]
    /\ Goto(d, "send")
    /\ UNCHANGED <<registryVars, fdbVars, src, dst, frames, expireVars, historyVars>>

\* Flood to every other port when the destination is not known.
Flood(d) ==
    /\ input[d] = "forward" /\ macs[dst[d]] = NoDev
    /\ outs' = [outs EXCEPT ![d] = {ports[n] : n \in Names} \ {d, NoDev}]
    /\ Goto(d, "send")
    /\ UNCHANGED <<registryVars, fdbVars, src, dst, frames, expireVars, historyVars>>

\* Send to one of them, which refuses the frame when it is down by now.
Send(d) ==
    /\ input[d] = "send"
    /\ \E e \in outs[d] : outs' = [outs EXCEPT ![d] = @ \ {e}]
    /\ UNCHANGED <<registryVars, fdbVars, input, src, dst, frames, expireVars, historyVars>>

SendEnd(d) ==
    /\ input[d] = "send" /\ outs[d] = {}
    /\ src' = [src EXCEPT ![d] = NoMac] /\ dst' = [dst EXCEPT ![d] = NoMac]
    /\ Goto(d, "recv")
    /\ UNCHANGED <<registryVars, fdbVars, outs, frames, expireVars, historyVars>>

----------------------------------------------------------------------------
(* Expire. *)

Tick ==
    /\ \E m \in Macs : macs[m] # NoDev /\ age[m] < Timeout + 1
    /\ age' = [m \in Macs |-> IF macs[m] # NoDev /\ age[m] < Timeout + 1 THEN age[m] + 1 ELSE age[m]]
    /\ UNCHANGED <<registryVars, macs, inputVars, expireVars, historyVars>>

\* Mutant: the oldest age is not old enough.
OldOffByOne == {m \in Macs : macs[m] # NoDev /\ age[m] > Timeout + 1}

Old == {m \in Macs : macs[m] # NoDev /\ age[m] > Timeout}

\* What is too old is collected under one hold of the lock ...
ExpireCollect ==
    /\ expire = "select" /\ Old # {}
    /\ deletes' = Old
    /\ expire' = "delete"
    /\ UNCHANGED <<registryVars, fdbVars, inputVars, historyVars>>

\* ... and deleted under another, refreshed or not.
ExpireDelete ==
    /\ expire = "delete"
    /\ macs' = [m \in Macs |-> IF m \in deletes THEN NoDev ELSE macs[m]]
    /\ age' = [m \in Macs |-> IF m \in deletes THEN 0 ELSE age[m]]
    /\ deletes' = {} /\ expire' = "select"
    /\ UNCHANGED <<registryVars, inputVars, historyVars>>

----------------------------------------------------------------------------
Input(d) == \/ LearnGet(d) \/ UpdateMac(d) \/ AddMac(d)
            \/ UniCast(d) \/ Flood(d) \/ Send(d) \/ SendEnd(d) \/ RecvEnd(d)

Next ==
    \/ \E d \in Devs :
         \/ NewTap(d) \/ AddSlaveGet(d) \/ AddSlavePort(d)
         \/ Down(d) \/ DelSlave(d) \/ DelName(d)
         \/ Input(d)
         \/ \E s, t \in Macs : Recv(d, s, t)
    \/ Tick \/ ExpireCollect \/ ExpireDelete

Spec == Init /\ [][Next]_vars

\* Time passes, the ticker of the bridge fires and its goroutine is run, and
\* so are those of the ports, which never wait: Send drops what does not fit.
FairSpec ==
    /\ Spec
    /\ WF_vars(Tick) /\ WF_vars(ExpireCollect) /\ WF_vars(ExpireDelete)
    /\ \A d \in Devs : WF_vars(Input(d))

----------------------------------------------------------------------------
(* Properties. *)

\* The values of the tables and program counters; group addresses are never
\* learned.
TypeOK ==
    /\ dev \in [Devs -> {"new", "made", "slave", "up", "down", "released", "closed"}]
    /\ taps \in [Names -> Devs \cup {NoDev}] /\ ports \in [Names -> Devs \cup {NoDev}]
    /\ slaves \subseteq Devs
    /\ macs \in [Macs -> Devs \cup {NoDev}] /\ age \in [Macs -> Ages]
    /\ input \in [Devs -> {"none", "recv", "learn", "update", "add", "forward", "send", "end"}]
    /\ src \in [Devs -> Macs \cup {NoMac}] /\ dst \in [Devs -> Macs \cup {NoMac}]
    /\ outs \in [Devs -> SUBSET Devs]
    /\ frames \in 0 .. MaxFrames
    /\ expire \in {"select", "delete"} /\ deletes \subseteq Macs
    /\ current \in [Macs -> SUBSET Devs] /\ older \in [Devs -> SUBSET Devs]
    /\ \A m \in Groups : macs[m] = NoDev

\* "add new tap to bridge" (olsw/switch.go:634): a device that NewTap has
\* returned is a port of the bridge until it is closed.
PortKept == \A d \in Devs : dev[d] = "up" => ports[NameOf[d]] = d

\* A device that has given up its port is not a port again, although ports are
\* entered and deleted by a name that several devices share (AddSlave, DelSlave).
PortsOpen == \A n \in Names : ports[n] # NoDev => dev[ports[n]] \notin {"released", "closed"}

\* A known address leads to a device that its latest frames came from: once a
\* frame of a host that has moved is learned, nothing but a Learn that runs at
\* the same time leads back to the old port (Learn, Expire).
FollowsMoves == \A m \in Macs : macs[m] # NoDev => macs[m] \in current[m]

\* No frame is directed at a device after its Close, although the table of
\* addresses still holds the device (UniCast, Flood, Close).
OutsOpen ==
    [][\A d \in Devs : \A e \in outs'[d] \ outs[d] : dev[e] # "closed"]_vars

\* The addresses of a closed device are forgotten in the end; until then the
\* frames for them are dropped and not flooded (Expire).
StaleExpires ==
    \A m \in Macs, d \in Devs : (macs[m] = d /\ dev[d] = "closed") ~> macs[m] # d
=============================================================================
