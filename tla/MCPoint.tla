------------------------------- MODULE MCPoint -------------------------------
(***************************************************************************)
(* The parts of a point besides its connection in one run: its tap worker, *)
(* its Worker, and the framing of messages and the decoding of frames that *)
(* it shares with the switch.  part says which one a behaviour is of; the  *)
(* variables of the others stand still at 0.                               *)
(***************************************************************************)
EXTENDS Integers, Sequences, TLC

CONSTANTS Addrs, Peers, MaxDevices, QueueSize, MaxFaults, MaxAddrs, NoAddr, NoDevice
CONSTANTS Nets, AddrOf, SubnetOf, RoutesOf, IfAddr, Bridge, ByPass, Serial, MaxRules, NoNet
CONSTANTS Sizes, BufSize, MinSize, MaxSize, SizeLimit, MaxMsgs, MaxConns
CONSTANTS Lengths

\* Names that stand for nothing else, and room for the first event.
ASSUME TapAssumption ==
    /\ MaxDevices \in Nat \ {0} /\ QueueSize \in Nat \ {0}
    /\ MaxFaults \in Nat /\ MaxAddrs \in Nat \ {0}
    /\ NoAddr \notin Addrs /\ NoDevice \notin 1 .. MaxDevices
    /\ Addrs \cap {"ReadErr", "OpenErr", "Reset"} = {}

\* No network is its own default route.
ASSUME WorkerAssumption ==
    /\ NoNet \notin Nets
    /\ RoutesOf \in [Nets -> Seq(STRING \X STRING)]
    /\ SubnetOf \in [Nets -> STRING] /\ \A n \in Nets : SubnetOf[n] # "0.0.0.0/0"

\* Every message has its first cell, the size field says at least one cell, and
\* the limits of a packet and of decode are within the buffer.
ASSUME MsgAssumption ==
    /\ Sizes \subseteq Nat \ {0} /\ SizeLimit \in Nat \ {0}
    /\ BufSize \in Nat /\ MinSize \in 1 .. BufSize /\ MaxSize \in 0 .. BufSize
    /\ MaxMsgs \in Nat /\ MaxConns \in Nat

ASSUME ProtoAssumption == Lengths \subseteq Nat

VARIABLES part
VARIABLES tun, aLock, nLock, loop, ev, events, done, device, state, reader,
          ifAddr, nbrs, nb, due, stop, net, faults, sent
VARIABLES pc, arg, network, rules, link, bypass, addrs, routes, around, replaced, stopped
VARIABLES packet, size, mSent, next, cur, last, wire, buffer, mReader, on, tmp, got, overlap
VARIABLES frame, layer, off, at, reads

Tap == INSTANCE TapWorker
Worker == INSTANCE PointWorker
Msg == INSTANCE Messager WITH sent <- mSent, reader <- mReader
Proto == INSTANCE FrameProto

MCAddrOf == "n1" :> "a1" @@ "n2" :> "a2"
MCSubnetOf == "n1" :> "s1" @@ "n2" :> "s2"
MCRoutesOf == "n1" :> <<<<"0.0.0.0/0", "h1">>>> @@ "n2" :> <<<<"d1", "h2">>, <<"0.0.0.0/0", "h3">>>>

tapVars == <<tun, aLock, nLock, loop, ev, events, done, device, state, reader,
             ifAddr, nbrs, nb, due, stop, net, faults, sent>>
workerVars == <<pc, arg, network, rules, link, bypass, addrs, routes, around, replaced, stopped>>
msgVars == <<packet, size, mSent, next, cur, last, wire, buffer, mReader, on, tmp, got, overlap>>
frameVars == <<frame, layer, off, at, reads>>
vars == <<part, tapVars, workerVars, msgVars, frameVars>>

NoTap ==
    /\ tun = 0 /\ aLock = 0 /\ nLock = 0 /\ loop = 0 /\ ev = 0 /\ events = 0
    /\ done = 0 /\ device = 0 /\ state = 0 /\ reader = 0 /\ ifAddr = 0 /\ nbrs = 0
    /\ nb = 0 /\ due = 0 /\ stop = 0 /\ net = 0 /\ faults = 0 /\ sent = 0
NoWorker ==
    /\ pc = 0 /\ arg = 0 /\ network = 0 /\ rules = 0 /\ link = 0 /\ bypass = 0
    /\ addrs = 0 /\ routes = 0 /\ around = 0 /\ replaced = 0 /\ stopped = 0
NoMsg ==
    /\ packet = 0 /\ size = 0 /\ mSent = 0 /\ next = 0 /\ cur = 0 /\ last = 0 /\ wire = 0
    /\ buffer = 0 /\ mReader = 0 /\ on = 0 /\ tmp = 0 /\ got = 0 /\ overlap = 0
NoFrame == frame = 0 /\ layer = 0 /\ off = 0 /\ at = 0 /\ reads = 0

Init ==
    \/ part = "tap" /\ Tap!Init /\ NoWorker /\ NoMsg /\ NoFrame
    \/ part = "worker" /\ Worker!Init /\ NoTap /\ NoMsg /\ NoFrame
    \/ part = "msg" /\ Msg!Init /\ NoTap /\ NoWorker /\ NoFrame
    \/ part = "proto" /\ Proto!Init /\ NoTap /\ NoWorker /\ NoMsg

OfTap(A) == part = "tap" /\ A /\ UNCHANGED <<part, workerVars, msgVars, frameVars>>
TapNext == OfTap(Tap!Next)
WorkerNext == part = "worker" /\ Worker!Next /\ UNCHANGED <<part, tapVars, msgVars, frameVars>>
MsgNext == part = "msg" /\ Msg!Next /\ UNCHANGED <<part, tapVars, workerVars, frameVars>>
ProtoNext == part = "proto" /\ Proto!Next /\ UNCHANGED <<part, tapVars, workerVars, msgVars>>
Next == TapNext \/ WorkerNext \/ MsgNext \/ ProtoNext

\* The goroutines of the TapWorker run; its select takes an event in the end
\* although frames are waiting, and the one of the neighbours the token of Stop
\* although its ticker fires.
Fairness ==
    /\ WF_vars(OfTap(Tap!LoopStep)) /\ SF_vars(OfTap(Tap!LoopEvent))
    /\ WF_vars(OfTap(Tap!NbStep)) /\ SF_vars(OfTap(Tap!StopNeighbors))
    /\ WF_vars(OfTap(Tap!StopDevice))
    /\ \A d \in 1 .. MaxDevices : WF_vars(OfTap(Tap!ReaderStep(d)))

Spec == Init /\ [][Next]_vars /\ Fairness

\* The type invariant of each part.
TypeOK ==
    /\ part = "tap" => Tap!TypeOK
    /\ part = "worker" => Worker!TypeOK
    /\ part = "msg" => Msg!TypeOK
    /\ part = "proto" => Proto!TypeOK

\* TapWorker: no open leaves an older device open or unread, its locks block
\* each other on a tun only, neighbours answered the address the point has, a
\* device that is lost is replaced, and Stop returns.
TapServed ==
    /\ [](part = "tap" => Tap!OneDevice /\ Tap!CycleNeedsDue /\ Tap!NeighborsCurrent)
    /\ (part = "tap" /\ ~tun /\ stop = "no" /\ ~Tap!Up)
       ~> (part = "tap" /\ (Tap!Up \/ Tap!Jammed \/ stop # "no"))
    /\ (part = "tap" /\ ~tun /\ stop = "token") ~> (part = "tap" /\ stop = "done")

\* PointWorker: between calls the kernel and FindNext follow the network.
NetworkFollowed == part = "worker" => Worker!NetworkFollowed

\* Messager and FrameProto: messages arrive whole or not at all, and frames are
\* decoded within their bounds, each header where the one before it ends.
MessagesRead ==
    /\ part = "msg" => Msg!MessagesIntact
    /\ part = "proto" => Proto!FramesDecoded
=============================================================================
