------------------------------ MODULE TapWorker ------------------------------
(***************************************************************************)
(* The tap side of a point: the Loop of TapWorker with its queue of        *)
(* events, the readers of the devices it opens (pkg/olap/tap.go) and the   *)
(* goroutine of its Neighbors (pkg/olap/neighbor.go), with the lock of     *)
(* each.  A frame is "ip" or the name of a peer, whose ARP reply it is.    *)
(* The Worker above it is here by what it does to this one: OnIpAddr       *)
(* pushes an event, and OnOpen pushes the address again.                   *)
(***************************************************************************)
EXTENDS Integers, Sequences, FiniteSets

CONSTANTS
    Addrs,      \* interface addresses the switch may give
    Peers,      \* hosts that answer ARP requests
    MaxDevices, \* identities of devices, used again once a device is gone
    QueueSize,  \* capacity of eventQueue (32 in the code)
    MaxFaults,  \* bound: read errors of live devices and failed opens
    MaxAddrs,   \* bound: addresses, a configured one included
    NoAddr,
    NoDevice

VARIABLES
    tun,        \* devCfg.Type = TUN
    aLock,      \* holder of TapWorker.lock
    nLock,      \* holder of Neighbors.lock
    loop,       \* pc of Loop
    ev,         \* the event or the frame the Loop is handling
    events,     \* channel eventQueue
    done,       \* tokens in TapWorker.done
    device,     \* TapWorker.device
    state,      \* state of each device
    reader,     \* pc of the reader of each device
    ifAddr,     \* TapWorker.ifAddr, and the address in ether
    nbrs,       \* Neighbors.neighbors: age 1 is fresh, 2 due for a request, 3 expired
    nb,         \* pc of Neighbors.Start
    due,        \* neighbours Interval has yet to ask
    stop,       \* pc of Stop
    net,        \* address in Worker.network
    faults, sent

aVars == <<tun, aLock, nLock, loop, ev, events, done, device, state, reader,
           ifAddr, nbrs, nb, due, stop, net, faults, sent>>

Devices == 1 .. MaxDevices
Events == {"ReadErr", "OpenErr", "Reset"} \cup Addrs
Frames == {"ip"} \cup Peers
Neighbor == [ip : Peers, age : 1 .. 3, at : Addrs \cup {NoAddr}]

TypeOK ==
    /\ tun \in BOOLEAN
    /\ aLock \in {"free", "loop", "stop"} /\ nLock \in {"free", "nb"}
    /\ loop \in {"idle", "event", "open", "retry", "onopen", "ether",
                 "reset", "write", "writing", "panic", "exit"}
    /\ ev \in Events \cup Frames
    /\ events \in Seq(Events) /\ Len(events) <= QueueSize
    /\ done \in 0 .. 1 /\ device \in Devices \cup {NoDevice}
    /\ state \in [Devices -> {"open", "closed"}]
    /\ reader \in [Devices -> {"none", "read", "failed", "push"}]
    /\ ifAddr \in Addrs \cup {NoAddr} /\ net \in Addrs \cup {NoAddr}
    /\ nbrs \subseteq Neighbor /\ due \subseteq Peers
    /\ nb \in {"idle", "alive", "expire", "exit"}
    /\ stop \in {"no", "token", "close", "done"}
    /\ faults \in 0 .. MaxFaults /\ sent \in 0 .. MaxAddrs

\* Initialize and Start: a tun has the configured address, and the first open
\* may fail.
Init ==
    /\ tun \in BOOLEAN
    /\ aLock = "free" /\ nLock = "free" /\ loop = "idle" /\ ev = "ip"
    /\ done = 0 /\ nbrs = {} /\ due = {} /\ nb = "idle" /\ stop = "no"
    /\ net = NoAddr /\ faults = 0
    /\ ifAddr \in (IF tun THEN Addrs ELSE {}) \cup {NoAddr}
    /\ sent = IF ifAddr = NoAddr THEN 0 ELSE 1
    /\ \/ /\ device = 1 /\ events = <<>>
          /\ state = [d \in Devices |-> IF d = 1 THEN "open" ELSE "closed"]
          /\ reader = [d \in Devices |-> IF d = 1 THEN "read" ELSE "none"]
       \/ /\ device = NoDevice /\ events = <<"OpenErr">>
          /\ state = [d \in Devices |-> "closed"] /\ reader = [d \in Devices |-> "none"]

HasRoom == Len(events) < QueueSize
PushAnyway(e) == events' = Append(events, e)

Push(e) == HasRoom /\ events' = Append(events, e)
Unlock == aLock' = "free" /\ loop' = "idle" /\ ev' = "ip"

-----------------------------------------------------------------------------
(* The Loop: select, then the lock, then dispatch or DoWrite.              *)

LoopDone ==
    /\ loop = "idle" /\ done > 0
    /\ done' = done - 1 /\ loop' = "exit"
    /\ UNCHANGED <<tun, aLock, nLock, ev, events, device, state, reader, ifAddr,
                   nbrs, nb, due, stop, net, faults, sent>>

LoopEvent ==
    /\ loop = "idle" /\ events # <<>>
    /\ ev' = Head(events) /\ events' = Tail(events) /\ loop' = "event"
    /\ UNCHANGED <<tun, aLock, nLock, done, device, state, reader, ifAddr,
                   nbrs, nb, due, stop, net, faults, sent>>

\* A frame waits in writeQueue rather than in the Loop until the lock is free.
LoopFrame(f) ==
    /\ loop = "idle" /\ aLock = "free"
    /\ ev' = f /\ loop' = "write" /\ aLock' = "loop"
    /\ UNCHANGED <<tun, nLock, events, done, device, state, reader, ifAddr,
                   nbrs, nb, due, stop, net, faults, sent>>

LoopLock ==
    /\ loop = "event" /\ aLock = "free" /\ aLock' = "loop"
    /\ loop' = IF ev \in Addrs THEN "ether" ELSE "open"
    /\ UNCHANGED <<tun, nLock, ev, events, done, device, state, reader, ifAddr,
                   nbrs, nb, due, stop, net, faults, sent>>

LeavesOpen(s) == s

\* close.
Closed(s) == [d \in Devices |-> IF d = device THEN "closed" ELSE s[d]]

\* open closes the device it has and makes a new one with a reader; OnOpen
\* gives a known address to the new device, which pushes it once more.
Free(d) == reader[d] = "none" /\ d # device
Open(d) ==
    /\ loop = "open" /\ Free(d) /\ \A e \in 1 .. d - 1 : ~Free(e)
    /\ state' = [Closed(state) EXCEPT ![d] = "open"]
    /\ reader' = [reader EXCEPT ![d] = "read"]
    /\ device' = d
    /\ IF net = NoAddr THEN Unlock ELSE loop' = "onopen" /\ UNCHANGED <<aLock, ev>>
    /\ UNCHANGED <<tun, nLock, events, done, ifAddr, nbrs, nb, due, stop,
                   net, faults, sent>>

OpenFailForgets ==
    /\ loop = "open" /\ faults < MaxFaults
    /\ faults' = faults + 1 /\ state' = Closed(state) /\ Unlock
    /\ UNCHANGED <<tun, nLock, events, done, device, reader, ifAddr, nbrs, nb,
                   due, stop, net, sent>>

\* NewTaper fails: a.device remains the closed one, and after a pause, with the
\* lock held, the Loop puts OpenErr on its own queue.
OpenFail ==
    /\ loop = "open" /\ faults < MaxFaults
    /\ faults' = faults + 1 /\ state' = Closed(state) /\ loop' = "retry"
    /\ UNCHANGED <<tun, aLock, nLock, ev, events, done, device, reader, ifAddr,
                   nbrs, nb, due, stop, net, sent>>

Requeue ==
    /\ \/ loop = "retry" /\ Push("OpenErr")
       \/ loop = "reset" /\ Push("Reset")
       \/ loop = "onopen" /\ net # NoAddr /\ Push(net)
       \/ loop = "onopen" /\ net = NoAddr /\ UNCHANGED events
    /\ Unlock
    /\ UNCHANGED <<tun, nLock, done, device, state, reader, ifAddr, nbrs, nb,
                   due, stop, net, faults, sent>>

KeepsNeighbors(s) == s

\* Neighbors.Clear.
Cleared(s) == {}

\* setEther for the address of an EvTapIpAddr.
SetEther ==
    /\ loop = "ether" /\ nLock = "free"
    /\ nbrs' = Cleared(nbrs) /\ ifAddr' = ev
    /\ IF ifAddr \notin {NoAddr, ev} THEN loop' = "reset" /\ UNCHANGED <<aLock, ev>> ELSE Unlock
    /\ UNCHANGED <<tun, nLock, events, done, device, state, reader, nb, due,
                   stop, net, faults, sent>>

\* Neighbors.Add.
Learnt(p) == {n \in nbrs : n.ip # p} \cup {[ip |-> p, age |-> 1, at |-> ifAddr]}

LearnsOnTap == ev \in Peers

\* DoWrite looks for ARP replies on a tun only (toArp).
Learns == tun /\ ev \in Peers

\* DoWrite up to its last Unlock.
DoWrite ==
    /\ loop = "write"
    /\ \/ device = NoDevice /\ Unlock /\ UNCHANGED nbrs
       \/ /\ device # NoDevice /\ Learns /\ nLock = "free"
          /\ nbrs' = Learnt(ev) /\ Unlock
       \/ /\ device # NoDevice /\ ~Learns
          /\ aLock' = "free" /\ loop' = "writing" /\ ev' = "ip" /\ UNCHANGED nbrs
    /\ UNCHANGED <<tun, nLock, events, done, device, state, reader, ifAddr,
                   nb, due, stop, net, faults, sent>>

\* ... and the write, which reads a.device again without the lock.
WriteDevice ==
    /\ loop = "writing" /\ loop' = IF device = NoDevice THEN "panic" ELSE "idle"
    /\ UNCHANGED <<tun, aLock, nLock, ev, events, done, device, state, reader,
                   ifAddr, nbrs, nb, due, stop, net, faults, sent>>

-----------------------------------------------------------------------------
(* The readers.                                                            *)

ReadError(d) ==
    /\ reader[d] = "read" /\ reader' = [reader EXCEPT ![d] = "failed"]
    /\ \/ state[d] = "closed" /\ UNCHANGED faults
       \/ state[d] = "open" /\ faults < MaxFaults /\ faults' = faults + 1
    /\ UNCHANGED <<tun, aLock, nLock, loop, ev, events, done, device, state,
                   ifAddr, nbrs, nb, due, stop, net, sent>>

\* isStopped, and the event.
ReadReport(d) ==
    /\ \/ /\ reader[d] = "failed" /\ UNCHANGED events
          /\ reader' = [reader EXCEPT ![d] = IF device = NoDevice THEN "none" ELSE "push"]
       \/ /\ reader[d] = "push" /\ Push("ReadErr")
          /\ reader' = [reader EXCEPT ![d] = "none"]
    /\ UNCHANGED <<tun, aLock, nLock, loop, ev, done, device, state, ifAddr, nbrs,
                   nb, due, stop, net, faults, sent>>

-----------------------------------------------------------------------------
(* The goroutine of the neighbours, and time.                              *)

DueAlways(n) == TRUE
IsDue(n) == n.age >= 2

\* A tick at which nobody is due changes nothing, Expire included.
NbInterval ==
    /\ nb = "idle" /\ stop = "no" /\ nLock = "free"
    /\ due' = {n.ip : n \in {m \in nbrs : IsDue(m)}} /\ due' # {}
    /\ nb' = "alive" /\ nLock' = "nb"
    /\ UNCHANGED <<tun, aLock, loop, ev, events, done, device, state, reader,
                   ifAddr, nbrs, stop, net, faults, sent>>

\* OnArpAlive: the lock of the TapWorker, with that of the neighbours held.
NbAlive ==
    /\ nb = "alive" /\ aLock = "free"
    /\ \E p \in due : due' = due \ {p}
    /\ IF due' = {} THEN nb' = "expire" /\ nLock' = "free" ELSE UNCHANGED <<nb, nLock>>
    /\ UNCHANGED <<tun, aLock, loop, ev, events, done, device, state, reader,
                   ifAddr, nbrs, stop, net, faults, sent>>

NbExpire ==
    /\ nb = "expire" /\ nb' = "idle" /\ nbrs' = {n \in nbrs : n.age < 3}
    /\ UNCHANGED <<tun, aLock, nLock, loop, ev, events, done, device, state,
                   reader, ifAddr, due, stop, net, faults, sent>>

Age ==
    /\ \E n \in nbrs : n.age < 3
    /\ nbrs' = {[n EXCEPT !.age = IF n.age < 3 THEN n.age + 1 ELSE 3] : n \in nbrs}
    /\ UNCHANGED <<tun, aLock, nLock, loop, ev, events, done, device, state,
                   reader, ifAddr, nb, due, stop, net, faults, sent>>

-----------------------------------------------------------------------------
(* Stop, and the Worker's calls.                                           *)

StopBegin ==
    /\ stop = "no" /\ aLock = "free" /\ aLock' = "stop"
    /\ done' = done + 1 /\ stop' = "token"
    /\ UNCHANGED <<tun, nLock, loop, ev, events, device, state, reader, ifAddr,
                   nbrs, nb, due, net, faults, sent>>

\* Neighbors.Stop: done is unbuffered, so its goroutine must be in its select.
StopNeighbors ==
    /\ stop = "token" /\ nb = "idle" /\ nb' = "exit" /\ stop' = "close"
    /\ UNCHANGED <<tun, aLock, nLock, loop, ev, events, done, device, state,
                   reader, ifAddr, nbrs, due, net, faults, sent>>

StopDevice ==
    /\ stop = "close" /\ stop' = "done" /\ aLock' = "free"
    /\ state' = Closed(state) /\ device' = NoDevice
    /\ UNCHANGED <<tun, nLock, loop, ev, events, done, reader, ifAddr, nbrs, nb,
                   due, net, faults, sent>>

OnIpAddr(a) ==
    /\ sent < MaxAddrs /\ net # a /\ Push(a)
    /\ net' = a /\ sent' = sent + 1
    /\ UNCHANGED <<tun, aLock, nLock, loop, ev, done, device, state, reader,
                   ifAddr, nbrs, nb, due, stop, faults>>

FreeIpAddr ==
    /\ net # NoAddr /\ net' = NoAddr
    /\ UNCHANGED <<tun, aLock, nLock, loop, ev, events, done, device, state,
                   reader, ifAddr, nbrs, nb, due, stop, faults, sent>>

LoopStep ==
    \/ LoopDone \/ LoopEvent \/ LoopLock \/ OpenFail \/ Requeue \/ SetEther
    \/ DoWrite \/ WriteDevice \/ \E d \in Devices : Open(d)
NbStep == NbInterval \/ NbAlive \/ NbExpire
ReaderStep(d) == (state[d] = "closed" /\ ReadError(d)) \/ ReadReport(d)

Next ==
    \/ LoopStep \/ \E f \in Frames : LoopFrame(f)
    \/ NbStep \/ Age
    \/ \E d \in Devices : ReadError(d) \/ ReadReport(d)
    \/ StopBegin \/ StopNeighbors \/ StopDevice
    \/ \E a \in Addrs : OnIpAddr(a)
    \/ FreeIpAddr

Spec == Init /\ [][Next]_aVars

-----------------------------------------------------------------------------
Reported(d) ==
    \/ reader[d] # "none" \/ loop \in {"event", "open"}
    \/ \E i \in DOMAIN events : events[i] = "ReadErr"

(* At most one device is open, it is a.device, and somebody reads it or    *)
(* its failure is about to reach the Loop, which opens another: no open    *)
(* leaves an older device behind, whatever order read errors, resets and   *)
(* failed opens come in, also after Stop.                                  *)
OneDevice ==
    \A d \in Devices : state[d] = "open" => d = device /\ (loop \in {"exit", "panic"} \/ Reported(d))

(* The Loop or Stop waits for the neighbours, and they for the lock it     *)
(* holds.                                                                  *)
LockCycle ==
    /\ nb = "alive"
    /\ \/ aLock = "loop" /\ (loop = "ether" \/ (loop = "write" /\ Learns))
       \/ aLock = "stop" /\ stop = "token"

(* The two locks are taken in both orders, but the goroutines block each   *)
(* other only on a tun with a neighbour that has not answered for an       *)
(* interval: a tap device has no neighbours and is free of it.             *)
CycleNeedsDue == LockCycle => tun /\ \E n \in nbrs : n.age >= 2

(* Whoever the point takes for a neighbour answered the address it has     *)
(* now: setEther drops what was learnt under an earlier one, although      *)
(* replies, events and the expiry of neighbours interleave.                *)
NeighborsCurrent == \A n \in nbrs : n.at = ifAddr

Jammed == loop \in {"retry", "reset", "onopen"} /\ ~HasRoom
Up == device # NoDevice /\ state[device] = "open" /\ reader[device] = "read"

(* On a tap device, a device that fails or could not be opened is replaced *)
(* or the point is stopped, unless the queue is full when the Loop puts an *)
(* event of its own on it.                                                 *)
Recovers == (~tun /\ stop = "no" /\ ~Up) ~> (Up \/ Jammed \/ stop # "no")

(* On a tap device, Stop returns.                                          *)
Stops == (~tun /\ stop = "token") ~> (stop = "done")
=============================================================================
