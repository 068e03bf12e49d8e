----------------------------- MODULE PointProofs -----------------------------
(***************************************************************************)
(* The parts of a point besides its connection, for every configuration:   *)
(* what the run of MCPoint checks of a small instance, as far as it is     *)
(* safety.  A behaviour of MCPoint is one of a single part; the lemmas     *)
(* about a part use its own next-state relation.                           *)
(***************************************************************************)
EXTENDS MCPoint, SequenceTheorems, WellFoundedInduction, TLAPS

----------------------------------------------------------------------------
(* Decoding of frames (FrameProto).                                        *)
(*                                                                         *)
(* Which headers come before one is known from the layer: ProtoPath says   *)
(* where they were decoded, for every layer Decode can be at.              *)

ProtoPath ==
    /\ layer = "ether" => off = 0
    /\ layer = "ip4" => off = 14 /\ frame.type = "ip4" /\ at["ether"] = 0
    /\ layer \in {"tcp", "udp"} =>
         /\ off = 34 /\ frame.type = "ip4" /\ frame.proto = layer
         /\ at["ether"] = 0 /\ at["ip4"] = 14
    /\ layer \in {"arp", "vlan"} => frame.type = layer
    /\ layer = "done" /\ frame.type = "ip4" =>
         /\ at["ether"] = 0 /\ at["ip4"] = 14
         /\ frame.proto = "tcp" => at["tcp"] = 34
         /\ frame.proto = "udp" => at["udp"] = 34

ProtoInv == Proto!TypeOK /\ Proto!InFrame /\ ProtoPath

\* A step of a behaviour of this part is one of FrameProto.
LEMMA ProtoIsStep ==
    part = "proto" /\ [Next]_vars => part' = "proto" /\ [Proto!Next]_(Proto!fVars)
<1> SUFFICES ASSUME part = "proto", [Next]_vars
             PROVE  part' = "proto" /\ [Proto!Next]_(Proto!fVars)
  OBVIOUS
<1>1. CASE ProtoNext BY <1>1 DEF ProtoNext
<1>2. CASE UNCHANGED vars BY <1>2 DEF vars, frameVars, Proto!fVars
<1>3. ~TapNext /\ ~WorkerNext /\ ~MsgNext BY DEF TapNext, OfTap, WorkerNext, MsgNext
<1> QED BY <1>1, <1>2, <1>3 DEF Next

\* The layouts are the same, and no field reaches beyond the header's length.
LEMMA Layouts ==
    \A h \in Proto!Headers :
      /\ Proto!Decoded(h) = Proto!Encoded(h) /\ Proto!Disjoint(Proto!Decoded(h))
      /\ \A f \in Proto!Decoded(h) : f[2] \in Nat /\ f[3] \in Nat /\ f[2] + f[3] <= Proto!MinLen(h)
<1> USE DEF Proto!Headers, Proto!Decoded, Proto!Encoded, Proto!Disjoint, Proto!MinLen
<1>1. ASSUME NEW h \in {"ether", "vlan", "udp"}
      PROVE  /\ Proto!Decoded(h) = Proto!Encoded(h) /\ Proto!Disjoint(Proto!Decoded(h))
             /\ \A f \in Proto!Decoded(h) : f[2] \in Nat /\ f[3] \in Nat /\ f[2] + f[3] <= Proto!MinLen(h)
  BY DEF Proto!DecodedEther, Proto!EncodedEther, Proto!DecodedVlan, Proto!EncodedVlan,
         Proto!DecodedUdp, Proto!EncodedUdp
<1>2. /\ Proto!DecodedArp = Proto!EncodedArp /\ Proto!Disjoint(Proto!DecodedArp)
      /\ \A f \in Proto!DecodedArp : f[2] \in Nat /\ f[3] \in Nat /\ f[2] + f[3] <= 28
  BY DEF Proto!DecodedArp, Proto!EncodedArp, Proto!ArpHead, Proto!ArpAddrs
<1>3. /\ Proto!DecodedIpv4 = Proto!EncodedIpv4 /\ Proto!Disjoint(Proto!DecodedIpv4)
      /\ \A f \in Proto!DecodedIpv4 : f[2] \in Nat /\ f[3] \in Nat /\ f[2] + f[3] <= 20
  BY DEF Proto!DecodedIpv4, Proto!EncodedIpv4
<1>4. /\ Proto!DecodedTcp = Proto!EncodedTcp /\ Proto!Disjoint(Proto!DecodedTcp)
      /\ \A f \in Proto!DecodedTcp : f[2] \in Nat /\ f[3] \in Nat /\ f[2] + f[3] <= 20
  BY DEF Proto!DecodedTcp, Proto!EncodedTcp
<1> QED BY <1>1, <1>2, <1>3, <1>4

LEMMA ProtoStep == ProtoInv /\ [Proto!Next]_(Proto!fVars) => ProtoInv'
<1> SUFFICES ASSUME ProtoInv, [Proto!Next]_(Proto!fVars) PROVE ProtoInv'
  OBVIOUS
<1> USE ProtoAssumption
<1>0. /\ frame \in Proto!Frames /\ frame.len \in Nat /\ off \in Nat /\ off <= frame.len
      /\ at \in [Proto!Headers -> Int] /\ \A x \in reads : x[2] <= frame.len
  BY DEF ProtoInv, Proto!TypeOK, Proto!InFrame, Proto!Frames
<1>1. CASE UNCHANGED Proto!fVars
  BY <1>1 DEF Proto!fVars, ProtoInv, Proto!TypeOK, Proto!InFrame, ProtoPath
<1>2. CASE Proto!DecodeHeader /\ Proto!Rejected(layer)
  <2>0. /\ layer' = "error" /\ UNCHANGED <<off, at, frame>>
        /\ reads' = reads \cup (IF layer = "arp" /\ Proto!Left >= 8 THEN Proto!Spans(Proto!ArpHead) ELSE {})
    BY <1>2 DEF Proto!DecodeHeader
  <2>1. ASSUME Proto!Left >= 8 PROVE \A x \in Proto!Spans(Proto!ArpHead) : x[2] <= frame.len
    <3>1. \A f \in Proto!ArpHead : f[2] \in Nat /\ f[3] \in Nat /\ f[2] + f[3] <= 8
      BY DEF Proto!ArpHead
    <3>2. ASSUME NEW f \in Proto!ArpHead PROVE off + f[2] + f[3] <= frame.len
      BY <1>0, <2>1, <3>1 DEF Proto!Left
    <3> QED BY <3>2 DEF Proto!Spans
  <2>2. Proto!InFrame'
    BY <1>0, <2>0, <2>1 DEF Proto!InFrame
  <2>3. Proto!TypeOK' BY <1>0, <2>0 DEF Proto!TypeOK
  <2>4. ProtoPath' BY <2>0 DEF ProtoPath
  <2> QED BY <2>2, <2>3, <2>4 DEF ProtoInv
<1>3. CASE Proto!DecodeHeader /\ ~Proto!Rejected(layer)
  <2>0. /\ layer \in Proto!Headers /\ reads' = reads \cup Proto!Spans(Proto!Decoded(layer))
        /\ at' = [at EXCEPT ![layer] = off] /\ off' = off + Proto!MinLen(layer)
        /\ layer' = Proto!After(layer) /\ UNCHANGED frame /\ ~(Proto!Left < Proto!MinLen(layer))
    BY <1>3 DEF Proto!DecodeHeader, Proto!HeaderLen, Proto!Rejected
  <2>1. Proto!MinLen(layer) \in Nat /\ off + Proto!MinLen(layer) <= frame.len
    <3>1. Proto!MinLen(layer) \in Nat BY <2>0 DEF Proto!MinLen, Proto!Headers
    <3> QED BY <1>0, <2>0, <3>1 DEF Proto!Left
  <2>2. \A x \in Proto!Spans(Proto!Decoded(layer)) : x[2] <= frame.len
    <3>1. ASSUME NEW f \in Proto!Decoded(layer) PROVE off + f[2] + f[3] <= frame.len
      <4>1. f[2] \in Nat /\ f[3] \in Nat /\ f[2] + f[3] <= Proto!MinLen(layer)
        BY <2>0, Layouts
      <4> QED BY <1>0, <2>1, <4>1
    <3> QED BY <3>1 DEF Proto!Spans
  <2>3. Proto!InFrame'
    BY <1>0, <2>0, <2>1, <2>2 DEF Proto!InFrame
  <2>4. layer' \in Proto!Headers \cup {"done", "error"}
    BY <1>0, <2>0 DEF Proto!After, Proto!Headers, Proto!Frames
  <2>5. Proto!TypeOK'
    <3>1. off' \in Nat BY <1>0, <2>0, <2>1
    <3>2. at' \in [Proto!Headers -> Int] BY <1>0, <2>0
    <3> QED BY <1>0, <2>0, <2>4, <3>1, <3>2 DEF Proto!TypeOK
  <2>6. ProtoPath'
    <3>0. /\ \A h \in Proto!Headers : at'[h] = IF h = layer THEN off ELSE at[h]
      BY <1>0, <2>0
    <3>1. CASE layer = "ether"
      <4>1. /\ off' = 14 /\ at'["ether"] = 0
            /\ \/ layer' \in {"vlan", "ip4", "arp"} /\ layer' = frame.type
               \/ layer' = "done" /\ frame.type = "other"
        BY <1>0, <2>0, <3>0, <3>1 DEF ProtoInv, ProtoPath, Proto!MinLen, Proto!After, Proto!Frames, Proto!Headers
      <4> QED BY <2>0, <4>1 DEF ProtoPath
    <3>2. CASE layer = "ip4"
      <4>1. /\ off' = 34 /\ at'["ether"] = 0 /\ at'["ip4"] = 14 /\ frame.type = "ip4"
            /\ \/ layer' \in {"tcp", "udp"} /\ layer' = frame.proto
               \/ layer' = "done" /\ frame.proto = "other"
        BY <1>0, <2>0, <3>0, <3>2 DEF ProtoInv, ProtoPath, Proto!MinLen, Proto!After, Proto!Frames, Proto!Headers
      <4> QED BY <2>0, <4>1 DEF ProtoPath
    <3>3. CASE layer \in {"tcp", "udp"}
      <4>1. /\ at'["ether"] = 0 /\ at'["ip4"] = 14 /\ frame.proto = layer
            /\ at'[layer] = 34 /\ layer' = "done"
        BY <2>0, <3>0, <3>3 DEF ProtoInv, ProtoPath, Proto!After, Proto!Headers
      <4> QED BY <2>0, <3>3, <4>1 DEF ProtoPath
    <3>4. CASE layer \in {"arp", "vlan"}
      <4>1. layer' = "done" /\ frame.type = layer
        BY <2>0, <3>4 DEF ProtoInv, ProtoPath, Proto!After
      <4> QED BY <2>0, <3>4, <4>1 DEF ProtoPath
    <3> QED BY <2>0, <3>1, <3>2, <3>3, <3>4 DEF Proto!Headers
  <2> QED BY <2>3, <2>5, <2>6 DEF ProtoInv
<1> QED BY <1>1, <1>2, <1>3 DEF Proto!Next

LEMMA ProtoAlways == Spec => [](part = "proto" => ProtoInv)
<1>1. Init => (part = "proto" => ProtoInv)
  <2> SUFFICES ASSUME Proto!Init PROVE ProtoInv
    BY DEF Init
  <2>1. frame \in Proto!Frames /\ frame.len \in Nat
    BY ProtoAssumption DEF Proto!Init, Proto!Frames
  <2> QED BY <2>1 DEF Proto!Init, ProtoInv, ProtoPath, Proto!TypeOK, Proto!InFrame, Proto!Headers
<1>2. (part = "proto" => ProtoInv) /\ [Next]_vars => (part = "proto" => ProtoInv)'
  <2> SUFFICES ASSUME part = "proto" => ProtoInv, [Next]_vars, part' = "proto" PROVE ProtoInv'
    OBVIOUS
  <2>1. part = "proto"
    BY DEF Next, TapNext, WorkerNext, MsgNext, ProtoNext, OfTap, vars
  <2> QED BY <2>1, ProtoIsStep, ProtoStep
<1> QED BY <1>1, <1>2, PTL DEF Spec

\* What Decode promises of the frame, from the invariant and the layouts.
LEMMA ProtoPromise == ProtoInv => Proto!FramesDecoded
<1> SUFFICES ASSUME ProtoInv PROVE Proto!FramesDecoded
  OBVIOUS
<1>1. Proto!InFrame /\ Proto!ReadsWritten
  BY Layouts DEF ProtoInv, Proto!ReadsWritten
<1>2. Proto!HeadersInPlace
  BY DEF ProtoInv, ProtoPath, Proto!HeadersInPlace
<1> QED BY <1>1, <1>2 DEF Proto!FramesDecoded

----------------------------------------------------------------------------
(* The tap side (TapWorker).                                               *)
(*                                                                         *)
(* A lock is held exactly at the steps that its holder takes with it       *)
(* (TapLocks).  The only open device is a.device, and its failure is known *)
(* to its reader, to the queue, or to the Loop that is about to open       *)
(* another: an address the Loop has taken from the queue does not count    *)
(* (TapDevices).  A neighbour is one of a tun, answered the present        *)
(* address, and one that is due is there while the requests go out         *)
(* (TapNeighbors).                                                         *)

TapLocks ==
    /\ aLock = "loop" <=> loop \in {"open", "retry", "onopen", "ether", "reset", "write"}
    /\ aLock = "stop" <=> stop \in {"token", "close"}
    /\ nLock = "nb" <=> nb = "alive"
    /\ stop = "no" => done = 0
    /\ loop = "event" => ev \in Tap!Events
    /\ loop = "ether" => ev \in Addrs

TapKnown(d) ==
    \/ reader[d] # "none" \/ loop = "open"
    \/ loop = "event" /\ ev \notin Addrs
    \/ \E i \in 1 .. Len(events) : events[i] = "ReadErr"

TapDevices ==
    \A d \in 1 .. MaxDevices :
      state[d] = "open" => d = device /\ (loop \in {"exit", "panic"} \/ TapKnown(d))

TapNeighbors ==
    /\ \A n \in nbrs : n.at = ifAddr
    /\ nbrs # {} => tun
    /\ nb = "alive" => \E n \in nbrs : n.age >= 2

TapInv == Tap!TypeOK /\ TapLocks /\ TapDevices /\ TapNeighbors

\* A step of a behaviour of this part is one of TapWorker.
LEMMA TapIsStep == part = "tap" /\ [Next]_vars => part' = "tap" /\ [Tap!Next]_(Tap!aVars)
<1> SUFFICES ASSUME part = "tap", [Next]_vars PROVE part' = "tap" /\ [Tap!Next]_(Tap!aVars)
  OBVIOUS
<1>1. CASE TapNext BY <1>1 DEF TapNext, OfTap
<1>2. CASE UNCHANGED vars BY <1>2 DEF vars, tapVars, Tap!aVars
<1>3. ~ProtoNext /\ ~WorkerNext /\ ~MsgNext BY DEF ProtoNext, WorkerNext, MsgNext
<1> QED BY <1>1, <1>2, <1>3 DEF Next

LEMMA TapInit == Tap!Init => TapInv
<1> SUFFICES ASSUME Tap!Init PROVE TapInv
  OBVIOUS
<1> USE TapAssumption DEF Tap!Init, Tap!Devices
<1>1. Tap!TypeOK
  <2>1. events \in Seq(Tap!Events) /\ Len(events) <= QueueSize
    <3>1. "OpenErr" \in Tap!Events BY DEF Tap!Events
    <3>2. <<"OpenErr">> \in Seq(Tap!Events) /\ Len(<<"OpenErr">>) = 1 BY <3>1
    <3>3. <<>> \in Seq(Tap!Events) /\ Len(<<>>) = 0 OBVIOUS
    <3>4. events = <<>> \/ events = <<"OpenErr">> OBVIOUS
    <3>5. CASE events = <<>> BY <3>3, <3>5
    <3>6. CASE events = <<"OpenErr">> BY <3>2, <3>6
    <3> QED BY <3>4, <3>5, <3>6
  <2>2. ifAddr \in Addrs \cup {NoAddr} /\ sent \in 0 .. MaxAddrs
    OBVIOUS
  <2> QED BY <2>1, <2>2 DEF Tap!TypeOK, Tap!Frames
<1>2. TapLocks BY DEF TapLocks
<1>3. TapDevices BY DEF TapDevices, TapKnown
<1>4. TapNeighbors BY DEF TapNeighbors
<1> QED BY <1>1, <1>2, <1>3, <1>4 DEF TapInv

\* What a push onto the event queue, and what taking its head, yields.
LEMMA Pushed ==
    ASSUME NEW S, NEW q \in Seq(S), NEW x \in S
    PROVE  /\ Append(q, x) \in Seq(S) /\ Len(q) \in Nat /\ Len(Append(q, x)) = Len(q) + 1
           /\ Append(q, x)[Len(q) + 1] = x
           /\ \A i \in 1 .. Len(q) : Append(q, x)[i] = q[i] /\ i \in 1 .. Len(Append(q, x))
OBVIOUS

LEMMA Taken ==
    ASSUME NEW S, NEW q \in Seq(S), q # <<>>
    PROVE  /\ Head(q) \in S /\ Tail(q) \in Seq(S) /\ Len(q) \in Nat /\ Len(Tail(q)) = Len(q) - 1
           /\ Head(q) = q[1]
           /\ \A i \in 2 .. Len(q) : i - 1 \in 1 .. Len(Tail(q)) /\ Tail(q)[i - 1] = q[i]
OBVIOUS

LEMMA TapStep == TapInv /\ [Tap!Next]_(Tap!aVars) => TapInv'
<1> SUFFICES ASSUME TapInv, [Tap!Next]_(Tap!aVars) PROVE TapInv'
  OBVIOUS
<1> USE TapAssumption DEF Tap!Devices
<1>0. Tap!TypeOK /\ TapLocks /\ TapDevices /\ TapNeighbors
  BY DEF TapInv
<1>e. events \in Seq(Tap!Events) /\ Len(events) \in Nat /\ Len(events) <= QueueSize
  BY <1>0 DEF Tap!TypeOK
\* A step that leaves the devices and the queue alone and the Loop where no
\* open depends on it.
<1>d. ASSUME UNCHANGED <<state, device, reader, events>>,
             loop' = loop \/ loop \in {"idle", "retry", "onopen", "reset", "ether", "write", "writing"},
             loop' = loop => ev' = ev
      PROVE  TapDevices'
  BY <1>0, <1>d DEF TapDevices, TapKnown
<1>n. ASSUME UNCHANGED <<nbrs, ifAddr, tun, nb>> PROVE TapNeighbors'
  BY <1>0, <1>n DEF TapNeighbors
<1>p. ASSUME NEW e \in Tap!Events, Tap!Push(e)
      PROVE  /\ events' \in Seq(Tap!Events) /\ Len(events') <= QueueSize
             /\ events'[Len(events')] = e /\ Len(events') \in 1 .. Len(events')
             /\ \A i \in 1 .. Len(events) : events'[i] = events[i] /\ i \in 1 .. Len(events')
  BY <1>e, <1>p, Pushed DEF Tap!Push, Tap!HasRoom
<1>1. CASE Tap!LoopDone
  <2>0. /\ loop = "idle" /\ done > 0 /\ done' = done - 1 /\ loop' = "exit"
        /\ UNCHANGED <<tun, aLock, nLock, ev, events, device, state, reader, ifAddr,
                       nbrs, nb, due, stop, net, faults, sent>>
    BY <1>1 DEF Tap!LoopDone
  <2>1. Tap!TypeOK' BY <1>0, <2>0 DEF Tap!TypeOK
  <2>2. TapLocks' BY <1>0, <2>0 DEF TapLocks
  <2>3. TapDevices' BY <1>0, <2>0 DEF TapDevices
  <2>4. TapNeighbors' BY <1>n, <2>0
  <2> QED BY <2>1, <2>2, <2>3, <2>4 DEF TapInv
<1>2. CASE Tap!LoopEvent
  <2>0. /\ loop = "idle" /\ events # <<>> /\ ev' = Head(events) /\ events' = Tail(events) /\ loop' = "event"
        /\ UNCHANGED <<tun, aLock, nLock, done, device, state, reader, ifAddr,
                       nbrs, nb, due, stop, net, faults, sent>>
    BY <1>2 DEF Tap!LoopEvent
  <2>1. /\ ev' \in Tap!Events /\ events' \in Seq(Tap!Events) /\ Len(events') <= QueueSize
        /\ ev' = events[1]
        /\ \A i \in 2 .. Len(events) : i - 1 \in 1 .. Len(events') /\ events'[i - 1] = events[i]
    BY <1>e, <2>0, Taken
  <2>2. Tap!TypeOK' BY <1>0, <2>0, <2>1 DEF Tap!TypeOK
  <2>3. TapLocks' BY <1>0, <2>0, <2>1 DEF TapLocks
  <2>4. TapDevices'
    <3>1. ASSUME NEW d \in 1 .. MaxDevices, TapKnown(d) PROVE TapKnown(d)'
      <4>1. CASE reader[d] # "none" BY <2>0, <4>1 DEF TapKnown
      <4>2. ASSUME NEW i \in 1 .. Len(events), events[i] = "ReadErr" PROVE TapKnown(d)'
        <5>1. CASE i = 1 BY <2>0, <2>1, <4>2, <5>1 DEF TapKnown
        <5>2. CASE i \in 2 .. Len(events) BY <2>0, <2>1, <4>2, <5>2 DEF TapKnown
        <5> QED BY <1>e, <5>1, <5>2
      <4> QED BY <2>0, <3>1, <4>1, <4>2 DEF TapKnown
    <3> QED BY <1>0, <2>0, <3>1 DEF TapDevices
  <2>5. TapNeighbors' BY <1>n, <2>0
  <2> QED BY <2>2, <2>3, <2>4, <2>5 DEF TapInv
<1>3. ASSUME NEW f \in Tap!Frames, Tap!LoopFrame(f) PROVE TapInv'
  <2>0. /\ loop = "idle" /\ aLock = "free" /\ ev' = f /\ loop' = "write" /\ aLock' = "loop"
        /\ UNCHANGED <<tun, nLock, events, done, device, state, reader, ifAddr,
                       nbrs, nb, due, stop, net, faults, sent>>
    BY <1>3 DEF Tap!LoopFrame
  <2>1. Tap!TypeOK' BY <1>0, <2>0 DEF Tap!TypeOK
  <2>2. TapLocks' BY <1>0, <2>0 DEF TapLocks
  <2>3. TapDevices' BY <1>d, <2>0
  <2>4. TapNeighbors' BY <1>n, <2>0
  <2> QED BY <2>1, <2>2, <2>3, <2>4 DEF TapInv
<1>4. CASE Tap!LoopLock
  <2>0. /\ loop = "event" /\ aLock = "free" /\ aLock' = "loop"
        /\ loop' = IF ev \in Addrs THEN "ether" ELSE "open"
        /\ UNCHANGED <<tun, nLock, ev, events, done, device, state, reader, ifAddr,
                       nbrs, nb, due, stop, net, faults, sent>>
    BY <1>4 DEF Tap!LoopLock
  <2>1. Tap!TypeOK' BY <1>0, <2>0 DEF Tap!TypeOK
  <2>2. TapLocks' BY <1>0, <2>0 DEF TapLocks
  <2>3. TapDevices' BY <1>0, <2>0 DEF TapDevices, TapKnown
  <2>4. TapNeighbors' BY <1>n, <2>0
  <2> QED BY <2>1, <2>2, <2>3, <2>4 DEF TapInv
<1>5. ASSUME NEW d \in 1 .. MaxDevices, Tap!Open(d) PROVE TapInv'
  <2>0. /\ loop = "open" /\ d # device /\ device' = d
        /\ state' = [Tap!Closed(state) EXCEPT ![d] = "open"]
        /\ reader' = [reader EXCEPT ![d] = "read"]
        /\ \/ aLock' = "free" /\ loop' = "idle" /\ ev' = "ip"
           \/ loop' = "onopen" /\ UNCHANGED <<aLock, ev>>
        /\ UNCHANGED <<tun, nLock, events, done, ifAddr, nbrs, nb, due, stop, net, faults, sent>>
    BY <1>5 DEF Tap!Open, Tap!Free, Tap!Unlock
  <2>1. \A e \in 1 .. MaxDevices : state'[e] = IF e = d THEN "open" ELSE IF e = device THEN "closed" ELSE state[e]
    BY <1>0, <2>0 DEF Tap!Closed, Tap!TypeOK
  <2>2. Tap!TypeOK' BY <1>0, <2>0 DEF Tap!TypeOK, Tap!Closed, Tap!Frames
  <2>3. TapLocks' BY <1>0, <2>0 DEF TapLocks
  <2>4. TapDevices'
    <3>1. reader'[d] = "read" BY <1>0, <2>0 DEF Tap!TypeOK
    <3> QED BY <1>0, <2>0, <2>1, <3>1 DEF TapDevices, TapKnown
  <2>5. TapNeighbors' BY <1>n, <2>0
  <2> QED BY <2>2, <2>3, <2>4, <2>5 DEF TapInv
<1>6. CASE Tap!OpenFail
  <2>0. /\ loop = "open" /\ faults < MaxFaults
        /\ faults' = faults + 1 /\ state' = Tap!Closed(state) /\ loop' = "retry"
        /\ UNCHANGED <<tun, aLock, nLock, ev, events, done, device, reader, ifAddr,
                       nbrs, nb, due, stop, net, sent>>
    BY <1>6 DEF Tap!OpenFail
  <2>1. \A e \in 1 .. MaxDevices : state'[e] = IF e = device THEN "closed" ELSE state[e]
    BY <2>0 DEF Tap!Closed
  <2>2. Tap!TypeOK' BY <1>0, <2>0 DEF Tap!TypeOK, Tap!Closed
  <2>3. TapLocks' BY <1>0, <2>0 DEF TapLocks
  <2>4. TapDevices' BY <1>0, <2>0, <2>1 DEF TapDevices
  <2>5. TapNeighbors' BY <1>n, <2>0
  <2> QED BY <2>2, <2>3, <2>4, <2>5 DEF TapInv
<1>7. CASE Tap!Requeue
  <2>0. /\ loop \in {"retry", "reset", "onopen"} /\ aLock' = "free" /\ loop' = "idle" /\ ev' = "ip"
        /\ UNCHANGED <<tun, nLock, done, device, state, reader, ifAddr, nbrs, nb,
                       due, stop, net, faults, sent>>
    BY <1>7 DEF Tap!Requeue, Tap!Unlock
  <2>1. UNCHANGED events \/ \E e \in Tap!Events : Tap!Push(e)
    <3>1. "OpenErr" \in Tap!Events /\ "Reset" \in Tap!Events /\ (net # NoAddr => net \in Tap!Events)
      BY <1>0 DEF Tap!Events, Tap!TypeOK
    <3> QED BY <1>7, <3>1 DEF Tap!Requeue
  <2>2. /\ events' \in Seq(Tap!Events) /\ Len(events') <= QueueSize
        /\ \A i \in 1 .. Len(events) : events'[i] = events[i] /\ i \in 1 .. Len(events')
    BY <1>e, <1>p, <2>1
  <2>3. Tap!TypeOK' BY <1>0, <2>0, <2>2 DEF Tap!TypeOK, Tap!Frames
  <2>4. TapLocks' BY <1>0, <2>0 DEF TapLocks
  <2>5. TapDevices' BY <1>0, <2>0, <2>2 DEF TapDevices, TapKnown
  <2>6. TapNeighbors' BY <1>n, <2>0
  <2> QED BY <2>3, <2>4, <2>5, <2>6 DEF TapInv
<1>8. CASE Tap!SetEther
  <2>0. /\ loop = "ether" /\ nLock = "free" /\ nbrs' = {} /\ ifAddr' = ev
        /\ \/ loop' = "reset" /\ UNCHANGED <<aLock, ev>>
           \/ aLock' = "free" /\ loop' = "idle" /\ ev' = "ip"
        /\ UNCHANGED <<tun, nLock, events, done, device, state, reader, nb, due,
                       stop, net, faults, sent>>
    BY <1>8 DEF Tap!SetEther, Tap!Unlock, Tap!Cleared
  <2>1. Tap!TypeOK' BY <1>0, <2>0 DEF Tap!TypeOK, TapLocks, Tap!Frames
  <2>2. TapLocks' BY <1>0, <2>0 DEF TapLocks
  <2>3. TapDevices' BY <1>0, <2>0 DEF TapDevices, TapKnown
  <2>4. TapNeighbors' BY <1>0, <2>0 DEF TapNeighbors, TapLocks
  <2> QED BY <2>1, <2>2, <2>3, <2>4 DEF TapInv
<1>9. CASE Tap!DoWrite
  <2>0. /\ loop = "write" /\ aLock' = "free" /\ ev' = "ip" /\ loop' \in {"idle", "writing"}
        /\ \/ UNCHANGED nbrs
           \/ tun /\ ev \in Peers /\ nLock = "free" /\ nbrs' = Tap!Learnt(ev)
        /\ UNCHANGED <<tun, nLock, events, done, device, state, reader, ifAddr,
                       nb, due, stop, net, faults, sent>>
    BY <1>9 DEF Tap!DoWrite, Tap!Unlock, Tap!Learns
  <2>1. Tap!TypeOK'
    <3>1. nbrs' \subseteq Tap!Neighbor
      BY <1>0, <2>0 DEF Tap!Learnt, Tap!Neighbor, Tap!TypeOK
    <3> QED BY <1>0, <2>0, <3>1 DEF Tap!TypeOK, Tap!Frames
  <2>2. TapLocks' BY <1>0, <2>0 DEF TapLocks
  <2>3. TapDevices' BY <1>0, <2>0 DEF TapDevices, TapKnown
  <2>4. TapNeighbors'
    <3>1. CASE UNCHANGED nbrs BY <1>n, <2>0, <3>1
    <3>2. CASE tun /\ ev \in Peers /\ nLock = "free" /\ nbrs' = Tap!Learnt(ev)
      <4>1. \A n \in nbrs' : n.at = ifAddr
        BY <1>0, <3>2 DEF TapNeighbors, Tap!Learnt
      <4> QED BY <1>0, <2>0, <3>2, <4>1 DEF TapNeighbors, TapLocks
    <3> QED BY <2>0, <3>1, <3>2
  <2> QED BY <2>1, <2>2, <2>3, <2>4 DEF TapInv
<1>10. CASE Tap!WriteDevice
  <2>0. /\ loop = "writing" /\ loop' \in {"panic", "idle"}
        /\ UNCHANGED <<tun, aLock, nLock, ev, events, done, device, state, reader,
                       ifAddr, nbrs, nb, due, stop, net, faults, sent>>
    BY <1>10 DEF Tap!WriteDevice
  <2>1. Tap!TypeOK' BY <1>0, <2>0 DEF Tap!TypeOK
  <2>2. TapLocks' BY <1>0, <2>0 DEF TapLocks
  <2>3. TapDevices' BY <1>0, <2>0 DEF TapDevices, TapKnown
  <2>4. TapNeighbors' BY <1>n, <2>0
  <2> QED BY <2>1, <2>2, <2>3, <2>4 DEF TapInv
<1>11. ASSUME NEW d \in 1 .. MaxDevices, Tap!ReadError(d) PROVE TapInv'
  <2>0. /\ reader[d] = "read" /\ reader' = [reader EXCEPT ![d] = "failed"]
        /\ \/ UNCHANGED faults
           \/ faults < MaxFaults /\ faults' = faults + 1
        /\ UNCHANGED <<tun, aLock, nLock, loop, ev, events, done, device, state,
                       ifAddr, nbrs, nb, due, stop, net, sent>>
    BY <1>11 DEF Tap!ReadError
  <2>1. Tap!TypeOK' BY <1>0, <2>0 DEF Tap!TypeOK
  <2>2. TapLocks' BY <1>0, <2>0 DEF TapLocks
  <2>3. TapDevices' BY <1>0, <2>0 DEF TapDevices, TapKnown, Tap!TypeOK
  <2>4. TapNeighbors' BY <1>n, <2>0
  <2> QED BY <2>1, <2>2, <2>3, <2>4 DEF TapInv
<1>12. ASSUME NEW d \in 1 .. MaxDevices, Tap!ReadReport(d) PROVE TapInv'
  <2>0. UNCHANGED <<tun, aLock, nLock, loop, ev, done, device, state, ifAddr, nbrs,
                    nb, due, stop, net, faults, sent>>
    BY <1>12 DEF Tap!ReadReport
  <2>1. CASE reader[d] = "failed" /\ UNCHANGED events
             /\ reader' = [reader EXCEPT ![d] = IF device = NoDevice THEN "none" ELSE "push"]
    <3>1. Tap!TypeOK' BY <1>0, <2>0, <2>1 DEF Tap!TypeOK
    <3>2. TapDevices'
      <4>1. CASE device = NoDevice BY <1>0, <2>0, <4>1 DEF TapDevices
      <4>2. CASE device # NoDevice BY <1>0, <2>0, <2>1, <4>2 DEF TapDevices, TapKnown, Tap!TypeOK
      <4> QED BY <4>1, <4>2
    <3>3. TapLocks' BY <1>0, <2>0 DEF TapLocks
    <3>4. TapNeighbors' BY <1>n, <2>0
    <3> QED BY <3>1, <3>2, <3>3, <3>4 DEF TapInv
  <2>2. CASE reader[d] = "push" /\ Tap!Push("ReadErr") /\ reader' = [reader EXCEPT ![d] = "none"]
    <3>0. "ReadErr" \in Tap!Events BY DEF Tap!Events
    <3>1. /\ events' \in Seq(Tap!Events) /\ Len(events') <= QueueSize
          /\ events'[Len(events')] = "ReadErr" /\ Len(events') \in 1 .. Len(events')
      BY <1>p, <2>2, <3>0
    <3>2. Tap!TypeOK' BY <1>0, <2>0, <2>2, <3>1 DEF Tap!TypeOK
    <3>3. TapDevices' BY <1>0, <2>0, <3>1 DEF TapDevices, TapKnown
    <3>4. TapLocks' BY <1>0, <2>0 DEF TapLocks
    <3>5. TapNeighbors' BY <1>n, <2>0
    <3> QED BY <3>2, <3>3, <3>4, <3>5 DEF TapInv
  <2> QED BY <1>12, <2>1, <2>2 DEF Tap!ReadReport
<1>13. CASE Tap!NbInterval
  <2>0. /\ nb = "idle" /\ stop = "no" /\ nLock = "free"
        /\ due' = {n.ip : n \in {m \in nbrs : m.age >= 2}} /\ due' # {}
        /\ nb' = "alive" /\ nLock' = "nb"
        /\ UNCHANGED <<tun, aLock, loop, ev, events, done, device, state, reader,
                       ifAddr, nbrs, stop, net, faults, sent>>
    BY <1>13 DEF Tap!NbInterval, Tap!IsDue
  <2>1. due' \subseteq Peers
    BY <1>0, <2>0 DEF Tap!TypeOK, Tap!Neighbor
  <2>2. Tap!TypeOK' BY <1>0, <2>0, <2>1 DEF Tap!TypeOK
  <2>3. TapLocks' BY <1>0, <2>0 DEF TapLocks
  <2>4. TapDevices' BY <1>d, <2>0
  <2>5. TapNeighbors' BY <1>0, <2>0 DEF TapNeighbors
  <2> QED BY <2>2, <2>3, <2>4, <2>5 DEF TapInv
<1>14. CASE Tap!NbAlive
  <2>0. /\ nb = "alive" /\ due' \subseteq due
        /\ \/ nb' = "expire" /\ nLock' = "free"
           \/ UNCHANGED <<nb, nLock>>
        /\ UNCHANGED <<tun, aLock, loop, ev, events, done, device, state, reader,
                       ifAddr, nbrs, stop, net, faults, sent>>
    BY <1>14 DEF Tap!NbAlive
  <2>2. Tap!TypeOK' BY <1>0, <2>0 DEF Tap!TypeOK
  <2>3. TapLocks' BY <1>0, <2>0 DEF TapLocks
  <2>4. TapDevices' BY <1>d, <2>0
  <2>5. TapNeighbors' BY <1>0, <2>0 DEF TapNeighbors
  <2> QED BY <2>2, <2>3, <2>4, <2>5 DEF TapInv
<1>15. CASE Tap!NbExpire
  <2>0. /\ nb = "expire" /\ nb' = "idle" /\ nbrs' \subseteq nbrs
        /\ UNCHANGED <<tun, aLock, nLock, loop, ev, events, done, device, state,
                       reader, ifAddr, due, stop, net, faults, sent>>
    BY <1>15 DEF Tap!NbExpire
  <2>2. Tap!TypeOK' BY <1>0, <2>0 DEF Tap!TypeOK
  <2>3. TapLocks' BY <1>0, <2>0 DEF TapLocks
  <2>4. TapDevices' BY <1>d, <2>0
  <2>5. TapNeighbors' BY <1>0, <2>0 DEF TapNeighbors
  <2> QED BY <2>2, <2>3, <2>4, <2>5 DEF TapInv
<1>16. CASE Tap!Age
  <2> DEFINE Older(n) == [n EXCEPT !.age = IF n.age < 3 THEN n.age + 1 ELSE 3]
  <2>0. /\ nbrs' = {Older(n) : n \in nbrs} /\ nbrs # {}
        /\ UNCHANGED <<tun, aLock, nLock, loop, ev, events, done, device, state,
                       reader, ifAddr, nb, due, stop, net, faults, sent>>
    BY <1>16 DEF Tap!Age
  <2>1. \A n \in Tap!Neighbor : /\ Older(n) \in Tap!Neighbor /\ Older(n).at = n.at
                                /\ n.age >= 2 => Older(n).age >= 2
    BY DEF Tap!Neighbor
  <2>2. nbrs \subseteq Tap!Neighbor BY <1>0 DEF Tap!TypeOK
  <2> HIDE DEF Older
  <2>3. nbrs' \subseteq Tap!Neighbor BY <2>0, <2>1, <2>2
  <2>4. Tap!TypeOK' BY <1>0, <2>0, <2>3 DEF Tap!TypeOK
  <2>5. TapLocks' BY <1>0, <2>0 DEF TapLocks
  <2>6. TapDevices' BY <1>d, <2>0
  <2>7. TapNeighbors' BY <1>0, <2>0, <2>1, <2>2 DEF TapNeighbors
  <2> QED BY <2>4, <2>5, <2>6, <2>7 DEF TapInv
<1>17. CASE Tap!StopBegin
  <2>0. /\ stop = "no" /\ aLock = "free" /\ aLock' = "stop" /\ done' = done + 1 /\ stop' = "token"
        /\ UNCHANGED <<tun, nLock, loop, ev, events, device, state, reader, ifAddr,
                       nbrs, nb, due, net, faults, sent>>
    BY <1>17 DEF Tap!StopBegin
  <2>1. done' = 1 BY <1>0, <2>0 DEF TapLocks
  <2>2. Tap!TypeOK' BY <1>0, <2>0, <2>1 DEF Tap!TypeOK
  <2>3. TapLocks' BY <1>0, <2>0 DEF TapLocks
  <2>4. TapDevices' BY <1>d, <2>0
  <2>5. TapNeighbors' BY <1>n, <2>0
  <2> QED BY <2>2, <2>3, <2>4, <2>5 DEF TapInv
<1>18. CASE Tap!StopNeighbors
  <2>0. /\ stop = "token" /\ nb = "idle" /\ nb' = "exit" /\ stop' = "close"
        /\ UNCHANGED <<tun, aLock, nLock, loop, ev, events, done, device, state,
                       reader, ifAddr, nbrs, due, net, faults, sent>>
    BY <1>18 DEF Tap!StopNeighbors
  <2>2. Tap!TypeOK' BY <1>0, <2>0 DEF Tap!TypeOK
  <2>3. TapLocks' BY <1>0, <2>0 DEF TapLocks
  <2>4. TapDevices' BY <1>d, <2>0
  <2>5. TapNeighbors' BY <1>0, <2>0 DEF TapNeighbors
  <2> QED BY <2>2, <2>3, <2>4, <2>5 DEF TapInv
<1>19. CASE Tap!StopDevice
  <2>0. /\ stop = "close" /\ stop' = "done" /\ aLock' = "free"
        /\ state' = Tap!Closed(state) /\ device' = NoDevice
        /\ UNCHANGED <<tun, nLock, loop, ev, events, done, reader, ifAddr, nbrs, nb,
                       due, net, faults, sent>>
    BY <1>19 DEF Tap!StopDevice
  <2>1. \A e \in 1 .. MaxDevices : state'[e] = IF e = device THEN "closed" ELSE state[e]
    BY <2>0 DEF Tap!Closed
  <2>2. Tap!TypeOK' BY <1>0, <2>0 DEF Tap!TypeOK, Tap!Closed
  <2>3. TapLocks' BY <1>0, <2>0 DEF TapLocks
  <2>4. TapDevices' BY <1>0, <2>0, <2>1 DEF TapDevices
  <2>5. TapNeighbors' BY <1>n, <2>0
  <2> QED BY <2>2, <2>3, <2>4, <2>5 DEF TapInv
<1>20. ASSUME NEW a \in Addrs, Tap!OnIpAddr(a) PROVE TapInv'
  <2>0. /\ sent < MaxAddrs /\ Tap!Push(a) /\ net' = a /\ sent' = sent + 1
        /\ UNCHANGED <<tun, aLock, nLock, loop, ev, done, device, state, reader,
                       ifAddr, nbrs, nb, due, stop, faults>>
    BY <1>20 DEF Tap!OnIpAddr
  <2>1. a \in Tap!Events BY DEF Tap!Events
  <2>2. /\ events' \in Seq(Tap!Events) /\ Len(events') <= QueueSize
        /\ \A i \in 1 .. Len(events) : events'[i] = events[i] /\ i \in 1 .. Len(events')
    BY <1>p, <2>0, <2>1
  <2>3. Tap!TypeOK' BY <1>0, <2>0, <2>2 DEF Tap!TypeOK
  <2>4. TapLocks' BY <1>0, <2>0 DEF TapLocks
  <2>5. TapDevices' BY <1>0, <2>0, <2>2 DEF TapDevices, TapKnown
  <2>6. TapNeighbors' BY <1>n, <2>0
  <2> QED BY <2>3, <2>4, <2>5, <2>6 DEF TapInv
<1>21. CASE Tap!FreeIpAddr \/ UNCHANGED Tap!aVars
  <2>0. /\ net' \in {net, NoAddr}
        /\ UNCHANGED <<tun, aLock, nLock, loop, ev, events, done, device, state,
                       reader, ifAddr, nbrs, nb, due, stop, faults, sent>>
    BY <1>21 DEF Tap!FreeIpAddr, Tap!aVars
  <2>2. Tap!TypeOK' BY <1>0, <2>0 DEF Tap!TypeOK
  <2>3. TapLocks' BY <1>0, <2>0 DEF TapLocks
  <2>4. TapDevices' BY <1>d, <2>0
  <2>5. TapNeighbors' BY <1>n, <2>0
  <2> QED BY <2>2, <2>3, <2>4, <2>5 DEF TapInv
<1> QED BY <1>1, <1>2, <1>3, <1>4, <1>5, <1>6, <1>7, <1>8, <1>9, <1>10, <1>11, <1>12, <1>13,
           <1>14, <1>15, <1>16, <1>17, <1>18, <1>19, <1>20, <1>21
        DEF Tap!Next, Tap!LoopStep, Tap!NbStep

LEMMA TapAlways == Spec => [](part = "tap" => TapInv)
<1>1. Init => (part = "tap" => TapInv)
  BY TapInit DEF Init
<1>2. (part = "tap" => TapInv) /\ [Next]_vars => (part = "tap" => TapInv)'
  <2> SUFFICES ASSUME part = "tap" => TapInv, [Next]_vars, part' = "tap" PROVE TapInv'
    OBVIOUS
  <2>1. part = "tap"
    BY DEF Next, TapNext, WorkerNext, MsgNext, ProtoNext, OfTap, vars
  <2> QED BY <2>1, TapIsStep, TapStep
<1> QED BY <1>1, <1>2, PTL DEF Spec

\* tap.go and neighbor.go: no open leaves an older device open or unread, the
\* two locks block each other only on a tun with a neighbour that is due, and
\* neighbours answered the present address, for any numbers of devices,
\* neighbours and faults and any size of the event queue.
THEOREM TapKept ==
    Spec => [](part = "tap" => Tap!OneDevice /\ Tap!CycleNeedsDue /\ Tap!NeighborsCurrent)
<1>1. TapInv => Tap!OneDevice /\ Tap!CycleNeedsDue /\ Tap!NeighborsCurrent
  <2> SUFFICES ASSUME TapInv PROVE Tap!OneDevice /\ Tap!CycleNeedsDue /\ Tap!NeighborsCurrent
    OBVIOUS
  <2>1. DOMAIN events = 1 .. Len(events) BY DEF TapInv, Tap!TypeOK
  <2>2. Tap!OneDevice
    BY <2>1 DEF TapInv, TapDevices, TapKnown, Tap!OneDevice, Tap!Reported, Tap!Devices
  <2>3. Tap!CycleNeedsDue /\ Tap!NeighborsCurrent
    BY DEF TapInv, TapNeighbors, Tap!CycleNeedsDue, Tap!LockCycle, Tap!NeighborsCurrent
  <2> QED BY <2>2, <2>3
<1> QED BY <1>1, TapAlways, PTL

----------------------------------------------------------------------------
(* The Worker of a point (PointWorker).                                    *)
(*                                                                         *)
(* The type needs to know that who installs a network has one, whether or  *)
(* not the calls are serial (WorkerType).  With serial calls the kernel is *)
(* described at every step of the one call under way: what it may hold     *)
(* (WorkerMost), and what it must (WorkerLeast).  The half routes of the   *)
(* network are there only while bypass is set, which is why FreeIpAddr     *)
(* finds all that it has to delete.                                        *)

Installing == {"ip", "addr", "route", "net"}
Freeing == {"delroute", "deladdr", "nil"}
Rule == [type : {0, 1}, dest : STRING, hop : STRING \cup {"zero"}]

WorkerType ==
    /\ Worker!TypeOK /\ rules \in Seq(Rule)
    /\ \A c \in Worker!Callers : pc[c] \in Installing => arg[c] \in Nets
    /\ pc["tap"] # "idle" => arg["tap"] \in Nets

\* One call at a time, which never finds the network gone.
WorkerOne ==
    /\ \A c, d \in Worker!Callers : pc[c] # "idle" /\ pc[d] # "idle" => c = d
    /\ \A c \in Worker!Callers : pc[c] # "panic" /\ (pc[c] \in Freeing => network # NoNet)
    /\ pc["tap"] \in Installing => network = NoNet

RoutesNow(n) == Worker!RouteSet(n) \cup (IF bypass THEN Worker!HalfRoutes(n) ELSE {})

WorkerMost ==
    /\ ~link => addrs = {} /\ routes = {}
    /\ \A a \in addrs :
         \/ a = IfAddr \/ \E n \in replaced : a = AddrOf[n]
         \/ network # NoNet /\ a = AddrOf[network] /\ \A c \in Worker!Callers : pc[c] # "nil"
         \/ \E c \in Worker!Callers : pc[c] \in {"route", "net"} /\ a = AddrOf[arg[c]]
    /\ \A r \in routes :
         \/ \E n \in replaced : r \in Worker!RouteSet(n) \cup Worker!HalfRoutes(n)
         \/ r \in RoutesNow(network) /\ \A c \in Worker!Callers : pc[c] \notin {"deladdr", "nil"}
         \/ \E c \in Worker!Callers : pc[c] = "net" /\ r \in RoutesNow(arg[c])

WorkerLeast ==
    /\ \A c \in Worker!Callers : pc[c] \in {"route", "net"} /\ link => AddrOf[arg[c]] \in addrs
    /\ \A c \in Worker!Callers : pc[c] = "net" /\ link => Worker!RouteSet(arg[c]) \subseteq routes
    /\ network # NoNet /\ link /\ pc["tap"] = "idle" /\ (\A c \in Worker!Callers : pc[c] \notin Freeing)
       => AddrOf[network] \in addrs /\ Worker!RouteSet(network) \subseteq routes

WorkerRules ==
    replaced = {} => rules = IF network = NoNet THEN <<>> ELSE Worker!RulesOf(network)

WorkerInv == WorkerOne /\ WorkerMost /\ WorkerLeast /\ WorkerRules

\* A step of a behaviour of this part is one of PointWorker.
LEMMA WorkerIsStep ==
    part = "worker" /\ [Next]_vars => part' = "worker" /\ [Worker!Next]_(Worker!wVars)
<1> SUFFICES ASSUME part = "worker", [Next]_vars
             PROVE  part' = "worker" /\ [Worker!Next]_(Worker!wVars)
  OBVIOUS
<1>1. CASE WorkerNext BY <1>1 DEF WorkerNext
<1>2. CASE UNCHANGED vars BY <1>2 DEF vars, workerVars, Worker!wVars
<1>3. ~TapNext /\ ~ProtoNext /\ ~MsgNext BY DEF TapNext, OfTap, ProtoNext, MsgNext
<1> QED BY <1>1, <1>2, <1>3 DEF Next

\* What joining two sequences yields.
LEMMA Joined ==
    ASSUME NEW S, NEW a \in Seq(S), NEW b \in Seq(S)
    PROVE  /\ a \o b \in Seq(S) /\ Len(a) \in Nat /\ Len(b) \in Nat /\ Len(a \o b) = Len(a) + Len(b)
           /\ \A i \in 1 .. Len(a) + Len(b) : (a \o b)[i] = IF i <= Len(a) THEN a[i] ELSE b[i - Len(a)]
OBVIOUS

\* OnIpAddr appends well-formed rules: the own subnet first.
LEMMA RulesFacts ==
    ASSUME NEW n \in Nets
    PROVE  /\ Worker!RulesOf(n) \in Seq(Rule) /\ Len(RoutesOf[n]) \in Nat
           /\ Len(Worker!RulesOf(n)) = Len(RoutesOf[n]) + 1
           /\ Worker!RulesOf(n)[1] = [type |-> 0, dest |-> SubnetOf[n], hop |-> "zero"]
           /\ \A i \in 1 .. Len(RoutesOf[n]) :
                /\ RoutesOf[n][i] \in STRING \X STRING
                /\ Worker!RulesOf(n)[i + 1] = [type |-> 1, dest |-> RoutesOf[n][i][1], hop |-> RoutesOf[n][i][2]]
<1> DEFINE own == <<[type |-> 0, dest |-> SubnetOf[n], hop |-> "zero"]>>
           rs == RoutesOf[n]
           rest == [i \in DOMAIN rs |-> [type |-> 1, dest |-> rs[i][1], hop |-> rs[i][2]]]
<1>1. rs \in Seq(STRING \X STRING) /\ SubnetOf[n] \in STRING
  BY WorkerAssumption
<1>2. Len(rs) \in Nat /\ DOMAIN rs = 1 .. Len(rs) /\ \A i \in 1 .. Len(rs) : rs[i] \in STRING \X STRING
  BY <1>1
<1>3. own \in Seq(Rule) /\ Len(own) = 1 /\ own[1] = [type |-> 0, dest |-> SubnetOf[n], hop |-> "zero"]
  <2>1. [type |-> 0, dest |-> SubnetOf[n], hop |-> "zero"] \in Rule
    BY <1>1 DEF Rule
  <2> QED BY <2>1
<1>4. /\ rest \in Seq(Rule) /\ Len(rest) = Len(rs)
      /\ \A i \in 1 .. Len(rs) : rest[i] = [type |-> 1, dest |-> rs[i][1], hop |-> rs[i][2]]
  <2>1. \A i \in 1 .. Len(rs) : [type |-> 1, dest |-> rs[i][1], hop |-> rs[i][2]] \in Rule
    BY <1>2 DEF Rule
  <2>2. rest \in [1 .. Len(rs) -> Rule]
    BY <1>2, <2>1
  <2> QED BY <1>2, <2>2
<1>5. Worker!RulesOf(n) = own \o rest
  BY DEF Worker!RulesOf, Worker!NoHop
<1> HIDE DEF own, rest, rs
<1>6. /\ own \o rest \in Seq(Rule) /\ Len(own \o rest) = 1 + Len(rs)
      /\ (own \o rest)[1] = own[1]
      /\ \A i \in 1 .. Len(rs) : (own \o rest)[i + 1] = rest[i]
  <2>1. own \in Seq(Rule) /\ rest \in Seq(Rule)
    BY <1>3, <1>4
  <2>2. /\ own \o rest \in Seq(Rule) /\ Len(own \o rest) = Len(own) + Len(rest)
        /\ \A i \in 1 .. Len(own) + Len(rest) :
             (own \o rest)[i] = IF i <= Len(own) THEN own[i] ELSE rest[i - Len(own)]
    BY <2>1, Joined
  <2>3. \A i \in 1 .. Len(rs) : i + 1 \in 1 .. 1 + Len(rs) /\ ~(i + 1 <= 1) /\ (i + 1) - 1 = i
    BY <1>2
  <2>4. 1 \in 1 .. 1 + Len(rs) BY <1>2
  <2> QED BY <1>3, <1>4, <2>1, <2>2, <2>3, <2>4
<1> QED BY SMTT(30), <1>2, <1>3, <1>4, <1>5, <1>6 DEF rs

\* The least of a set of numbers.
LEMMA LeastExists ==
    ASSUME NEW T \in SUBSET Nat, T # {}
    PROVE  \E x \in T : \A y \in T : x <= y
<1> DEFINE R == {p \in Nat \X Nat : p[1] < p[2]}
<1>1. IsWellFoundedOn(R, Nat) BY NatLessThanWellFounded DEF OpToRel
<1> HIDE DEF R
<1>2. PICK x \in T : \A y \in T : ~(<<y, x>> \in R) BY <1>1, WFMin
<1>3. \A y \in T : ~(y < x) BY <1>2 DEF R
<1> QED BY <1>3

\* FindNext over the rules of a network: the own subnet directly, what a route
\* covers to its next hop, anything else directly.
LEMMA FindNextFacts ==
    ASSUME NEW n \in Nets, NEW d
    PROVE  Worker!FindNext(Worker!RulesOf(n), d) \in Worker!NextHop(n, d)
<1> DEFINE rs == Worker!RulesOf(n)
           hits == {i \in DOMAIN rs : Worker!Covers(rs[i].dest, d)}
           first == CHOOSE i \in hits : \A j \in hits : i <= j
           len == Len(RoutesOf[n])
<1>0. n # NoNet /\ SubnetOf[n] # "0.0.0.0/0" /\ RoutesOf[n] \in Seq(STRING \X STRING)
  BY WorkerAssumption
<1>1. len \in Nat /\ DOMAIN rs = 1 .. len + 1 /\ DOMAIN RoutesOf[n] = 1 .. len
  <2>1. rs \in Seq(Rule) /\ Len(rs) = len + 1 BY RulesFacts
  <2> QED BY <1>0, <2>1
<1>2. rs[1].type = 0 /\ rs[1].dest = SubnetOf[n]
  <2>1. rs[1] = [type |-> 0, dest |-> SubnetOf[n], hop |-> "zero"] BY RulesFacts
  <2> QED BY <2>1
<1>3. \A i \in 1 .. len : /\ rs[i + 1].type = 1 /\ rs[i + 1].dest = RoutesOf[n][i][1]
                          /\ rs[i + 1].hop = RoutesOf[n][i][2]
  <2>1. \A i \in 1 .. len : rs[i + 1] = [type |-> 1, dest |-> RoutesOf[n][i][1], hop |-> RoutesOf[n][i][2]]
    BY RulesFacts
  <2> HIDE DEF rs, len
  <2>2. ASSUME NEW i \in 1 .. len
        PROVE  /\ rs[i + 1].type = 1 /\ rs[i + 1].dest = RoutesOf[n][i][1]
               /\ rs[i + 1].hop = RoutesOf[n][i][2]
    <3>1. rs[i + 1] = [type |-> 1, dest |-> RoutesOf[n][i][1], hop |-> RoutesOf[n][i][2]] BY <2>1
    <3> QED BY <3>1
  <2> QED BY <2>2
<1>4. Worker!RouteSet(n) = {RoutesOf[n][i] : i \in 1 .. len}
  BY <1>0, <1>1 DEF Worker!RouteSet, Worker!Range
<1>5. Worker!FindNext(rs, d) = IF hits = {} \/ rs[first].type = 0 THEN d ELSE rs[first].hop
  BY DEF Worker!FindNext
<1> HIDE DEF rs, len
<1>6. hits # {} => first \in hits /\ \A j \in hits : first <= j
  <2>1. hits \in SUBSET Nat BY <1>1
  <2> QED BY <2>1, LeastExists
<1> HIDE DEF first
<1>7. CASE d = SubnetOf[n]
  <2>1. 1 \in hits BY <1>1, <1>2, <1>7 DEF Worker!Covers
  <2>2. first = 1 BY <1>1, <1>6, <2>1
  <2> QED BY <1>2, <1>5, <1>7, <2>1, <2>2 DEF Worker!NextHop, rs
<1>8. CASE d # SubnetOf[n]
  <2>1. 1 \notin hits BY <1>0, <1>2, <1>8 DEF Worker!Covers, Worker!Default
  <2>2. CASE hits = {}
    <3>1. ~\E r \in Worker!RouteSet(n) : Worker!Covers(r[1], d)
      BY <1>1, <1>3, <1>4, <2>2
    <3> QED BY <1>5, <2>2, <3>1 DEF Worker!NextHop, rs
  <2>3. CASE hits # {}
    <3>1. first \in 2 .. len + 1 /\ Worker!Covers(rs[first].dest, d)
      BY <1>1, <1>6, <2>1, <2>3
    <3>2. PICK i \in 1 .. len : first = i + 1
      <4>1. first - 1 \in 1 .. len /\ first = (first - 1) + 1 BY <1>1, <3>1
      <4> QED BY <4>1
    <3>3. RoutesOf[n][i] \in Worker!RouteSet(n) /\ Worker!Covers(RoutesOf[n][i][1], d)
      BY <1>3, <1>4, <3>1, <3>2
    <3>4. Worker!FindNext(rs, d) = RoutesOf[n][i][2]
      BY <1>3, <1>5, <2>3, <3>2
    <3> QED BY <1>8, <3>3, <3>4 DEF Worker!NextHop, rs
  <2> QED BY <2>2, <2>3
<1> QED BY <1>7, <1>8

\* The type of the Worker, whether or not its calls are serial.
LEMMA WorkerTypeStep == WorkerType /\ [Worker!Next]_(Worker!wVars) => WorkerType'
<1> SUFFICES ASSUME WorkerType, [Worker!Next]_(Worker!wVars) PROVE WorkerType'
  OBVIOUS
<1> USE WorkerAssumption DEF Worker!Callers
<1>0. /\ pc \in [Worker!Callers -> {"idle", "ip", "addr", "route", "net", "free", "delroute",
                                    "deladdr", "nil", "panic"}]
      /\ arg \in [Worker!Callers -> Nets \cup {NoNet}] /\ network \in Nets \cup {NoNet}
      /\ rules \in Seq(Rule) /\ Worker!TypeOK
      /\ \A c \in Worker!Callers : pc[c] \in Installing => arg[c] \in Nets
      /\ pc["tap"] # "idle" => arg["tap"] \in Nets
  BY DEF WorkerType, Worker!TypeOK
\* Rules keep their form.
<1>r. ASSUME rules' \in Seq(Rule)
      PROVE  \A i \in DOMAIN rules' : DOMAIN rules'[i] = {"type", "dest", "hop"}
  <2>1. \A i \in DOMAIN rules' : rules'[i] \in Rule BY <1>r
  <2> QED BY <2>1 DEF Rule
<1> USE DEF Installing
<1>1. ASSUME NEW n \in Nets, Worker!OnIpAddr(n) PROVE WorkerType'
  BY <1>0, <1>1 DEF Worker!OnIpAddr, Worker!MayCall, Worker!Goto, WorkerType, Worker!TypeOK
<1>2. CASE Worker!OnSuccess
  BY <1>0, <1>2 DEF Worker!OnSuccess, WorkerType, Worker!TypeOK
<1>3. CASE Worker!OnClose
  BY <1>0, <1>3 DEF Worker!OnClose, Worker!MayCall, Worker!Goto, WorkerType, Worker!TypeOK
<1>4. CASE Worker!OnOpen
  BY <1>0, <1>4 DEF Worker!OnOpen, Worker!OpenFlush, Worker!MayCall, Worker!Goto, WorkerType, Worker!TypeOK
<1>5. CASE Worker!Stop
  BY <1>0, <1>5 DEF Worker!Stop, Worker!MayCall, Worker!Goto, WorkerType, Worker!TypeOK
<1>6. ASSUME NEW c \in Worker!Callers, Worker!Step(c) PROVE WorkerType'
  <2>1. CASE Worker!CompareNet(c)
    BY <1>0, <2>1 DEF Worker!CompareNet, Worker!Goto, WorkerType, Worker!TypeOK
  <2>2. CASE Worker!AddAddr(c)
    BY <1>0, <2>2 DEF Worker!AddAddr, Worker!Goto, WorkerType, Worker!TypeOK
  <2>3. CASE Worker!AddRoutes(c)
    BY <1>0, <2>3 DEF Worker!AddRoutes, Worker!Goto, WorkerType, Worker!TypeOK
  <2>4. CASE Worker!SetNetwork(c)
    <3>1. pc[c] = "net" /\ arg[c] \in Nets
      BY <1>0, <2>4 DEF Worker!SetNetwork
    <3> PICK n \in Nets : n = arg[c] BY <3>1
    <3>2. /\ pc' = [pc EXCEPT ![c] = "idle"] /\ network' = n /\ rules' = rules \o Worker!RulesOf(n)
          /\ replaced' = IF network = NoNet THEN replaced ELSE replaced \cup {network}
          /\ UNCHANGED <<arg, link, bypass, addrs, routes, around, stopped>>
      BY <2>4 DEF Worker!SetNetwork, Worker!Goto
    <3>3. Worker!RulesOf(n) \in Seq(Rule) BY RulesFacts
    <3>4. rules' \in Seq(Rule) BY <1>0, <3>2, <3>3, Joined
    <3> QED BY <1>0, <1>r, <3>2, <3>4 DEF WorkerType, Worker!TypeOK
  <2>5. CASE Worker!CheckNet(c)
    BY <1>0, <2>5 DEF Worker!CheckNet, Worker!AfterFree, Worker!Goto, WorkerType, Worker!TypeOK
  <2>6. CASE Worker!DelRoutes(c)
    BY ZenonT(60), <1>0, <2>6 DEF Worker!DelRoutes, Worker!Goto, WorkerType, Worker!TypeOK
  <2>7. CASE Worker!DelAddr(c)
    BY <1>0, <2>7 DEF Worker!DelAddr, Worker!Goto, WorkerType, Worker!TypeOK
  <2>8. CASE Worker!ClearNet(c)
    <3>1. rules' = <<>> BY <2>8 DEF Worker!ClearNet, Worker!RulesFreed
    <3>2. rules' \in Seq(Rule) BY <3>1
    <3> QED BY <1>0, <1>r, <2>8, <3>2 DEF Worker!ClearNet, Worker!AfterFree, Worker!Goto, WorkerType, Worker!TypeOK
  <2> QED BY <1>6, <2>1, <2>2, <2>3, <2>4, <2>5, <2>6, <2>7, <2>8 DEF Worker!Step
<1>7. CASE UNCHANGED Worker!wVars
  BY <1>0, <1>7 DEF Worker!wVars, WorkerType, Worker!TypeOK
<1> QED BY <1>1, <1>2, <1>3, <1>4, <1>5, <1>6, <1>7 DEF Worker!Next

\* Nothing is installed for no network.
LEMMA NoNetRoutes == Worker!RouteSet(NoNet) = {} /\ Worker!HalfRoutes(NoNet) = {}
BY DEF Worker!RouteSet, Worker!HalfRoutes

LEMMA WorkerInvStep ==
    Serial /\ WorkerType /\ WorkerInv /\ [Worker!Next]_(Worker!wVars) => WorkerInv'
<1> SUFFICES ASSUME Serial, WorkerType, WorkerInv, [Worker!Next]_(Worker!wVars) PROVE WorkerInv'
  OBVIOUS
<1> USE WorkerAssumption DEF Worker!Callers
<1>0. /\ DOMAIN pc = Worker!Callers /\ DOMAIN arg = Worker!Callers
      /\ network \in Nets \cup {NoNet} /\ rules \in Seq(Rule)
      /\ \A c \in Worker!Callers : pc[c] \in Installing => arg[c] \in Nets
      /\ WorkerOne /\ WorkerMost /\ WorkerLeast /\ WorkerRules
  BY DEF WorkerType, WorkerInv, Worker!TypeOK
<1>s. ASSUME NEW c \in Worker!Callers, pc[c] # "idle"
      PROVE  \A d \in Worker!Callers : d # c => pc[d] = "idle"
  BY <1>0, <1>s DEF WorkerOne
<1>g. ASSUME NEW c \in Worker!Callers, NEW x, pc' = [pc EXCEPT ![c] = x]
      PROVE  \A d \in Worker!Callers : pc'[d] = IF d = c THEN x ELSE pc[d]
  BY <1>0, <1>g
<1>i. ASSUME NEW c \in Worker!Callers, Worker!MayCall(c)
      PROVE  \A d \in Worker!Callers : pc[d] = "idle"
  BY <1>0, <1>i DEF Worker!MayCall, Worker!Idle, WorkerOne
<1> PICK m \in Nets \cup {NoNet} : m = network BY <1>0
<1>1. ASSUME NEW n \in Nets, Worker!OnIpAddr(n) PROVE WorkerInv'
  <2>0. /\ \A d \in Worker!Callers : pc[d] = "idle"
        /\ \A d \in Worker!Callers : pc'[d] = IF d = "reader" THEN "ip" ELSE "idle"
        /\ UNCHANGED <<network, rules, link, bypass, addrs, routes, around, replaced, stopped>>
    BY <1>1, <1>g, <1>i DEF Worker!OnIpAddr, Worker!Goto
  <2>1. WorkerOne' BY <2>0 DEF WorkerOne, Freeing, Installing
  <2>2. WorkerMost' BY <1>0, <2>0 DEF WorkerMost, RoutesNow
  <2>3. WorkerLeast' BY <1>0, <2>0 DEF WorkerLeast, Freeing
  <2>4. WorkerRules' BY <1>0, <2>0 DEF WorkerRules
  <2> QED BY <2>1, <2>2, <2>3, <2>4 DEF WorkerInv
<1>2. CASE Worker!OnSuccess
  <2>0. /\ link /\ addrs' = addrs \cup {IfAddr}
        /\ UNCHANGED <<pc, arg, network, rules, link, bypass, routes, around, replaced, stopped>>
    BY <1>2 DEF Worker!OnSuccess
  <2>1. WorkerOne' BY <1>0, <2>0 DEF WorkerOne
  <2>2. WorkerMost' BY <1>0, <2>0 DEF WorkerMost, RoutesNow
  <2>3. WorkerLeast' BY <1>0, <2>0 DEF WorkerLeast
  <2>4. WorkerRules' BY <1>0, <2>0 DEF WorkerRules
  <2> QED BY <2>1, <2>2, <2>3, <2>4 DEF WorkerInv
<1>3. ASSUME NEW c \in {"socket", "stop"}, Worker!MayCall(c), Worker!Goto(c, "free"),
             UNCHANGED <<arg, network, rules, link, bypass, addrs, routes, around, replaced>>
      PROVE  WorkerInv'
  <2>0. /\ \A d \in Worker!Callers : pc[d] = "idle"
        /\ \A d \in Worker!Callers : pc'[d] = IF d = c THEN "free" ELSE "idle"
    BY ZenonT(60), <1>3, <1>g, <1>i DEF Worker!Goto
  <2>1. WorkerOne' BY <2>0 DEF WorkerOne, Freeing, Installing
  <2>2. WorkerMost' BY <1>0, <1>3, <2>0 DEF WorkerMost, RoutesNow
  <2>3. WorkerLeast' BY <1>0, <1>3, <2>0 DEF WorkerLeast, Freeing
  <2>4. WorkerRules' BY <1>0, <1>3 DEF WorkerRules
  <2> QED BY <2>1, <2>2, <2>3, <2>4 DEF WorkerInv
<1>4. CASE Worker!OnOpen
  <2>0. /\ \A d \in Worker!Callers : pc[d] = "idle"
        /\ \A d \in Worker!Callers : pc'[d] = IF d = "tap" /\ m # NoNet THEN "free" ELSE "idle"
        /\ link' = TRUE /\ addrs' \subseteq addrs /\ routes' \subseteq routes
        /\ UNCHANGED <<network, rules, bypass, around, replaced, stopped>>
    BY ZenonT(60), <1>4, <1>g, <1>i DEF Worker!OnOpen, Worker!OpenFlush, Worker!Goto
  <2>1. WorkerOne' BY <2>0 DEF WorkerOne, Freeing, Installing
  <2>2. WorkerMost' BY <1>0, <2>0 DEF WorkerMost, RoutesNow
  <2>3. WorkerLeast' BY <1>0, <2>0 DEF WorkerLeast, Freeing
  <2>4. WorkerRules' BY <1>0, <2>0 DEF WorkerRules
  <2> QED BY <2>1, <2>2, <2>3, <2>4 DEF WorkerInv
<1>6. ASSUME NEW c \in Worker!Callers, Worker!Step(c) PROVE WorkerInv'
  <2>0. pc[c] # "idle" /\ \A d \in Worker!Callers : d # c => pc[d] = "idle"
    <3>1. pc[c] # "idle"
      BY <1>6 DEF Worker!Step, Worker!CompareNet, Worker!AddAddr, Worker!AddRoutes, Worker!SetNetwork,
                  Worker!CheckNet, Worker!DelRoutes, Worker!DelAddr, Worker!ClearNet
    <3> QED BY <1>s, <3>1
  <2>1. CASE Worker!CompareNet(c)
    <3>1. /\ pc[c] = "ip" /\ \A d \in Worker!Callers : pc'[d] = IF d = c THEN IF network = arg[c] THEN "idle" ELSE "addr" ELSE "idle"
          /\ UNCHANGED <<arg, network, rules, link, bypass, addrs, routes, around, replaced, stopped>>
      <4>1. pc' = [pc EXCEPT ![c] = IF network = arg[c] THEN "idle" ELSE "addr"]
        BY <2>1 DEF Worker!CompareNet, Worker!Goto
      <4>2. \A d \in Worker!Callers : pc'[d] = IF d = c THEN IF network = arg[c] THEN "idle" ELSE "addr" ELSE "idle"
        BY <1>0, <2>0, <4>1
      <4> QED BY <2>1, <4>2 DEF Worker!CompareNet
    <3>2. WorkerOne' BY <1>0, <2>0, <3>1 DEF WorkerOne, Freeing, Installing
    <3>3. WorkerMost' BY <1>0, <2>0, <3>1 DEF WorkerMost, RoutesNow
    <3>4. WorkerLeast'
      <4>1. c = "tap" => network = NoNet BY <1>0, <3>1 DEF WorkerOne, Installing
      <4> QED BY <1>0, <2>0, <3>1, <4>1 DEF WorkerLeast, Freeing
    <3>5. WorkerRules' BY <1>0, <3>1 DEF WorkerRules
    <3> QED BY <3>2, <3>3, <3>4, <3>5 DEF WorkerInv
  <2>2. CASE Worker!AddAddr(c)
    <3>0. pc[c] = "addr" /\ arg[c] \in Nets BY <1>0, <2>2 DEF Worker!AddAddr, Installing
    <3>1. /\ \A d \in Worker!Callers : pc'[d] = IF d = c THEN "route" ELSE "idle"
          /\ addrs' = IF link THEN addrs \cup {AddrOf[arg[c]]} ELSE addrs
          /\ UNCHANGED <<arg, network, rules, link, bypass, routes, around, replaced, stopped>>
      <4>1. pc' = [pc EXCEPT ![c] = "route"]
        BY <2>2 DEF Worker!AddAddr, Worker!Goto
      <4>2. \A d \in Worker!Callers : pc'[d] = IF d = c THEN "route" ELSE "idle"
        BY <1>0, <2>0, <4>1
      <4> QED BY <2>2, <4>2 DEF Worker!AddAddr
    <3>2. WorkerOne' BY <1>0, <2>0, <3>0, <3>1 DEF WorkerOne, Freeing, Installing
    <3>3. WorkerMost' BY <1>0, <2>0, <3>0, <3>1 DEF WorkerMost, RoutesNow
    <3>4. WorkerLeast' BY <1>0, <2>0, <3>0, <3>1 DEF WorkerLeast, Freeing
    <3>5. WorkerRules' BY <1>0, <3>1 DEF WorkerRules
    <3> QED BY <3>2, <3>3, <3>4, <3>5 DEF WorkerInv
  <2>3. CASE Worker!AddRoutes(c)
    <3>0. pc[c] = "route" /\ arg[c] \in Nets BY <1>0, <2>3 DEF Worker!AddRoutes, Installing
    <3> PICK n \in Nets : n = arg[c] BY <3>0
    <3>1. /\ \A d \in Worker!Callers : pc'[d] = IF d = c THEN "net" ELSE "idle"
          /\ \/ ~link /\ UNCHANGED <<routes, bypass, around>>
             \/ link /\ bypass' = TRUE /\ routes' = routes \cup Worker!HalfRoutes(n) \cup Worker!RouteSet(n)
             \/ link /\ routes' = routes \cup Worker!RouteSet(n) /\ UNCHANGED bypass
          /\ UNCHANGED <<arg, network, rules, link, addrs, replaced, stopped>>
      <4>1. pc' = [pc EXCEPT ![c] = "net"]
        BY <2>3 DEF Worker!AddRoutes, Worker!Goto
      <4>2. \A d \in Worker!Callers : pc'[d] = IF d = c THEN "net" ELSE "idle"
        BY <1>0, <2>0, <4>1
      <4> QED BY <2>3, <4>2 DEF Worker!AddRoutes
    <3>2. WorkerOne' BY <1>0, <2>0, <3>0, <3>1 DEF WorkerOne, Freeing, Installing
    <3>3. WorkerMost' BY <1>0, <2>0, <3>0, <3>1 DEF WorkerMost, RoutesNow
    <3>4. WorkerLeast' BY <1>0, <2>0, <3>0, <3>1 DEF WorkerLeast, Freeing
    <3>5. WorkerRules' BY <1>0, <3>1 DEF WorkerRules
    <3> QED BY <3>2, <3>3, <3>4, <3>5 DEF WorkerInv
  <2>4. CASE Worker!SetNetwork(c)
    <3>0. pc[c] = "net" /\ arg[c] \in Nets BY <1>0, <2>4 DEF Worker!SetNetwork, Installing
    <3> PICK n \in Nets : n = arg[c] BY <3>0
    <3>1. /\ \A d \in Worker!Callers : pc'[d] = "idle"
          /\ network' = n /\ rules' = rules \o Worker!RulesOf(n)
          /\ replaced' = IF network = NoNet THEN replaced ELSE replaced \cup {network}
          /\ UNCHANGED <<arg, link, bypass, addrs, routes, around, stopped>>
      <4>1. pc' = [pc EXCEPT ![c] = "idle"]
        BY <2>4 DEF Worker!SetNetwork, Worker!Goto
      <4>2. \A d \in Worker!Callers : pc'[d] = IF d = c THEN "idle" ELSE "idle"
        BY <1>0, <2>0, <4>1
      <4> QED BY <2>4, <4>2 DEF Worker!SetNetwork
    <3>2. WorkerOne' BY <3>1 DEF WorkerOne, Freeing, Installing
    <3>3. WorkerMost' BY SMTT(30), <1>0, <2>0, <3>0, <3>1, NoNetRoutes DEF WorkerMost, RoutesNow
    <3>4. WorkerLeast' BY <1>0, <3>0, <3>1 DEF WorkerLeast
    <3>5. WorkerRules'
      <4>1. ASSUME replaced' = {} PROVE network = NoNet /\ rules = <<>>
        BY <1>0, <3>1, <4>1 DEF WorkerRules
      <4>2. Worker!RulesOf(n) \in Seq(Rule) BY RulesFacts
      <4>3. <<>> \o Worker!RulesOf(n) = Worker!RulesOf(n) BY <4>2
      <4> QED BY <3>1, <4>1, <4>3 DEF WorkerRules
    <3> QED BY <3>2, <3>3, <3>4, <3>5 DEF WorkerInv
  <2>5. CASE Worker!CheckNet(c)
    <3>1. /\ pc[c] = "free"
          /\ \A d \in Worker!Callers : pc'[d] = IF d = c THEN IF network = NoNet THEN Worker!AfterFree(c) ELSE "delroute" ELSE "idle"
          /\ UNCHANGED <<arg, network, rules, link, bypass, addrs, routes, around, replaced, stopped>>
      <4>1. pc' = [pc EXCEPT ![c] = IF network = NoNet THEN Worker!AfterFree(c) ELSE "delroute"]
        BY <2>5 DEF Worker!CheckNet, Worker!Goto
      <4>2. \A d \in Worker!Callers : pc'[d] = IF d = c THEN IF network = NoNet THEN Worker!AfterFree(c) ELSE "delroute" ELSE "idle"
        BY <1>0, <2>0, <4>1
      <4> QED BY <2>5, <4>2 DEF Worker!CheckNet
    <3>2. WorkerOne' BY <1>0, <2>0, <3>1 DEF WorkerOne, Freeing, Installing, Worker!AfterFree
    <3>3. WorkerMost' BY <1>0, <2>0, <3>1 DEF WorkerMost, RoutesNow, Worker!AfterFree
    <3>4. WorkerLeast' BY <1>0, <2>0, <3>1 DEF WorkerLeast, Freeing, Worker!AfterFree
    <3>5. WorkerRules' BY <1>0, <3>1 DEF WorkerRules
    <3> QED BY <3>2, <3>3, <3>4, <3>5 DEF WorkerInv
  <2>6. CASE Worker!DelRoutes(c)
    <3>0. pc[c] = "delroute" /\ network # NoNet
      BY <1>0, <2>6 DEF Worker!DelRoutes, WorkerOne, Freeing
    <3>1. /\ \A d \in Worker!Callers : pc'[d] = IF d = c THEN "deladdr" ELSE "idle"
          /\ routes' = IF link THEN routes \ RoutesNow(m) ELSE routes
          /\ UNCHANGED <<arg, network, rules, link, addrs, replaced, stopped>>
      BY ZenonT(60), <1>g, <2>0, <2>6, <3>0 DEF Worker!DelRoutes, Worker!RoutesFreed, RoutesNow, Worker!Goto
    <3>2. WorkerOne' BY <1>0, <2>0, <3>0, <3>1 DEF WorkerOne, Freeing, Installing
    <3>3. WorkerMost'
      <4>1. \A r \in routes : \/ \E n \in replaced : r \in Worker!RouteSet(n) \cup Worker!HalfRoutes(n)
                              \/ r \in RoutesNow(m)
        BY <1>0, <2>0, <3>0 DEF WorkerMost
      <4>2. \A r \in routes' : \E n \in replaced : r \in Worker!RouteSet(n) \cup Worker!HalfRoutes(n)
        BY <1>0, <3>1, <4>1 DEF WorkerMost
      <4>3. \A a \in addrs : \/ a = IfAddr \/ \E n \in replaced : a = AddrOf[n]
                             \/ network # NoNet /\ a = AddrOf[network]
        BY <1>0, <2>0, <3>0 DEF WorkerMost
      <4>4. ~link => addrs' = {} /\ routes' = {} BY <1>0, <3>1 DEF WorkerMost
      <4> QED BY <3>1, <4>2, <4>3, <4>4 DEF WorkerMost
    <3>4. WorkerLeast' BY <1>0, <2>0, <3>0, <3>1 DEF WorkerLeast, Freeing
    <3>5. WorkerRules' BY <1>0, <3>1 DEF WorkerRules
    <3> QED BY <3>2, <3>3, <3>4, <3>5 DEF WorkerInv
  <2>7. CASE Worker!DelAddr(c)
    <3>0. pc[c] = "deladdr" /\ network # NoNet
      BY <1>0, <2>7 DEF Worker!DelAddr, WorkerOne, Freeing
    <3>1. /\ \A d \in Worker!Callers : pc'[d] = IF d = c THEN "nil" ELSE "idle"
          /\ addrs' = IF link THEN addrs \ {AddrOf[network]} ELSE addrs
          /\ UNCHANGED <<arg, network, rules, link, bypass, routes, around, replaced, stopped>>
      BY ZenonT(60), <1>g, <2>0, <2>7, <3>0 DEF Worker!DelAddr, Worker!Goto
    <3>2. WorkerOne' BY <1>0, <2>0, <3>0, <3>1 DEF WorkerOne, Freeing, Installing
    <3>3. WorkerMost' BY <1>0, <2>0, <3>0, <3>1 DEF WorkerMost, RoutesNow
    <3>4. WorkerLeast' BY <1>0, <2>0, <3>0, <3>1 DEF WorkerLeast, Freeing
    <3>5. WorkerRules' BY <1>0, <3>1 DEF WorkerRules
    <3> QED BY <3>2, <3>3, <3>4, <3>5 DEF WorkerInv
  <2>8. CASE Worker!ClearNet(c)
    <3>1. /\ pc[c] = "nil" /\ \A d \in Worker!Callers : pc'[d] = IF d = c THEN Worker!AfterFree(c) ELSE "idle"
          /\ network' = NoNet /\ rules' = <<>>
          /\ UNCHANGED <<arg, link, bypass, addrs, routes, around, replaced, stopped>>
      <4>1. pc' = [pc EXCEPT ![c] = Worker!AfterFree(c)]
        BY <2>8 DEF Worker!ClearNet, Worker!Goto
      <4>2. \A d \in Worker!Callers : pc'[d] = IF d = c THEN Worker!AfterFree(c) ELSE "idle"
        BY <1>0, <2>0, <4>1
      <4> QED BY <2>8, <4>2 DEF Worker!ClearNet, Worker!RulesFreed
    <3>2. WorkerOne' BY <2>0, <3>1 DEF WorkerOne, Freeing, Installing, Worker!AfterFree
    <3>3. WorkerMost' BY <1>0, <2>0, <3>1 DEF WorkerMost, RoutesNow, Worker!AfterFree
    <3>4. WorkerLeast' BY <2>0, <3>1 DEF WorkerLeast, Worker!AfterFree
    <3>5. WorkerRules' BY <3>1 DEF WorkerRules
    <3> QED BY <3>2, <3>3, <3>4, <3>5 DEF WorkerInv
  <2> QED BY <1>6, <2>1, <2>2, <2>3, <2>4, <2>5, <2>6, <2>7, <2>8 DEF Worker!Step
<1>7. CASE UNCHANGED Worker!wVars
  BY <1>0, <1>7 DEF Worker!wVars, WorkerInv, WorkerOne, WorkerMost, WorkerLeast, WorkerRules, RoutesNow
<1>8. CASE Worker!OnClose \/ Worker!Stop
  BY <1>3, <1>8 DEF Worker!OnClose, Worker!Stop
<1> QED BY <1>1, <1>2, <1>4, <1>6, <1>7, <1>8 DEF Worker!Next

LEMMA WorkerInit == Worker!Init => WorkerType /\ WorkerInv
<1> SUFFICES ASSUME Worker!Init PROVE WorkerType /\ WorkerInv
  OBVIOUS
<1> USE WorkerAssumption DEF Worker!Init, Worker!Callers
<1>1. rules = <<>> /\ rules \in Seq(Rule) /\ DOMAIN rules = {}
  OBVIOUS
<1>2. WorkerType BY <1>1 DEF WorkerType, Worker!TypeOK, Installing
<1>3. WorkerInv
  BY DEF WorkerInv, WorkerOne, WorkerMost, WorkerLeast, WorkerRules, Installing, Freeing
<1> QED BY <1>2, <1>3

LEMMA WorkerTypeAlways == Spec => [](part = "worker" => WorkerType)
<1>1. Init => (part = "worker" => WorkerType) BY WorkerInit DEF Init
<1>2. (part = "worker" => WorkerType) /\ [Next]_vars => (part = "worker" => WorkerType)'
  <2> SUFFICES ASSUME part = "worker" => WorkerType, [Next]_vars, part' = "worker" PROVE WorkerType'
    OBVIOUS
  <2>1. part = "worker"
    BY DEF Next, TapNext, WorkerNext, MsgNext, ProtoNext, OfTap, vars
  <2> QED BY <2>1, WorkerIsStep, WorkerTypeStep
<1> QED BY <1>1, <1>2, PTL DEF Spec

\* What holds between calls, from the description of every step.
LEMMA WorkerPromise == WorkerType /\ WorkerInv => Worker!NetworkFollowed
<1> SUFFICES ASSUME WorkerType, WorkerInv PROVE Worker!NetworkFollowed
  OBVIOUS
<1> USE WorkerAssumption
<1>0. network \in Nets \cup {NoNet} /\ WorkerOne /\ WorkerMost /\ WorkerLeast /\ WorkerRules
  BY DEF WorkerType, WorkerInv, Worker!TypeOK
<1>1. ASSUME Worker!Idle
      PROVE  /\ addrs \subseteq {IfAddr} \cup {AddrOf[n] : n \in replaced \cup ({network} \ {NoNet})}
             /\ routes \subseteq UNION {Worker!RouteSet(n) \cup Worker!HalfRoutes(n) : n \in replaced \cup {network}}
             /\ network # NoNet /\ link =>
                  AddrOf[network] \in addrs /\ Worker!RouteSet(network) \subseteq routes
  <2>1. \A c \in Worker!Callers : pc[c] = "idle" BY <1>0, <1>1 DEF Worker!Idle, WorkerOne
  <2>2. \A a \in addrs : \/ a = IfAddr \/ \E n \in replaced : a = AddrOf[n]
                         \/ network # NoNet /\ a = AddrOf[network]
    BY <1>0, <2>1 DEF WorkerMost
  <2>3. \A r \in routes : \/ \E n \in replaced : r \in Worker!RouteSet(n) \cup Worker!HalfRoutes(n)
                          \/ r \in RoutesNow(network)
    BY <1>0, <2>1 DEF WorkerMost
  <2>4. RoutesNow(network) \subseteq Worker!RouteSet(network) \cup Worker!HalfRoutes(network)
    BY DEF RoutesNow
  <2>5. network # NoNet /\ link => AddrOf[network] \in addrs /\ Worker!RouteSet(network) \subseteq routes
    BY <1>0, <2>1 DEF WorkerLeast, Freeing, Worker!Callers
  <2> QED BY <2>2, <2>3, <2>4, <2>5
<1>2. Worker!NextHopCurrent
  <2>1. ASSUME replaced = {}, network # NoNet, NEW d \in Worker!Dests
        PROVE  Worker!FindNext(rules, d) \in Worker!NextHop(network, d)
    <3> PICK n \in Nets : n = network BY <1>0, <2>1
    <3>1. rules = Worker!RulesOf(n) BY <1>0, <2>1 DEF WorkerRules
    <3>2. Worker!FindNext(Worker!RulesOf(n), d) \in Worker!NextHop(n, d) BY FindNextFacts
    <3> QED BY <3>1, <3>2
  <2> QED BY <1>0, <2>1 DEF Worker!NextHopCurrent, WorkerRules
<1> QED BY <1>1, <1>2 DEF Worker!NetworkFollowed, Worker!KernelFollows

(* worker.go, OnIpAddr, OnClose, OnOpen and Stop: when calls run one at a  *)
(* time, the kernel and the table of FindNext follow the network the       *)
(* switch gave, for any networks and routes.  Without that FreeIpAddr may  *)
(* find the network gone half way.                                         *)
THEOREM NetworkKept == Serial => (Spec => []NetworkFollowed)
<1> SUFFICES ASSUME Serial PROVE Spec => []NetworkFollowed
  OBVIOUS
<1>1. Init => (part = "worker" => WorkerType /\ WorkerInv) BY WorkerInit DEF Init
<1>2. /\ part = "worker" => WorkerType /\ WorkerInv
      /\ [Next]_vars
      => (part = "worker" => WorkerType /\ WorkerInv)'
  <2> SUFFICES ASSUME part = "worker" => WorkerType /\ WorkerInv, [Next]_vars, part' = "worker"
               PROVE  (WorkerType /\ WorkerInv)'
    OBVIOUS
  <2>1. part = "worker"
    BY DEF Next, TapNext, WorkerNext, MsgNext, ProtoNext, OfTap, vars
  <2> QED BY <2>1, WorkerIsStep, WorkerTypeStep, WorkerInvStep
<1>3. (part = "worker" => WorkerType /\ WorkerInv) => NetworkFollowed
  BY WorkerPromise DEF NetworkFollowed
<1> QED BY <1>1, <1>2, <1>3, PTL DEF Spec

----------------------------------------------------------------------------
(* Framing of messages (Messager).                                         *)
(*                                                                         *)
(* A reader that waits for more has neither a frame nor a wrong magic      *)
(* (MsgWaits).  Datagrams under way and received are different messages of *)
(* the connection (MsgPackets).  On a stream without overlap only the last *)
(* connection has a reader; what it holds and what is under way, joined,   *)
(* is a run of whole messages up to the last one sent, except that the     *)
(* first may have lost its head: MsgStream says so cell by cell, and that  *)
(* the run starts at the message after the ones received, or else in the   *)
(* middle of a message, where no frame is found any more.                  *)

Cell == Msg!Msgs \X (Nat \ {0})
Busy == {"read", "decode"}
Live == {"idle", "read", "decode"}

MsgType ==
    /\ Msg!TypeOK
    /\ mSent \in [Msg!Conns -> Seq(Msg!Msgs)] /\ got \in [Msg!Conns -> Seq(Int)]
    /\ buffer \in Seq(Cell) /\ tmp \in [Msg!Conns -> Seq(Cell)]
    /\ wire \in [Msg!Conns -> Seq(IF packet THEN Msg!Msgs ELSE Cell)]
    /\ \A r \in Msg!Conns : mReader[r] \in Busy => ~packet /\ on[r] \in Msg!Conns

MsgWaits ==
    \A r \in Msg!Conns : mReader[r] = "read" => ~Msg!HasFrame(tmp[r]) /\ ~Msg!BadMagic(tmp[r])

\* Of the messages q, all before n, different ones are under way and received.
PacketsOf(q, w, g, n) ==
    /\ \A i \in 1 .. Len(q) : q[i] < n
    /\ \A i \in 1 .. Len(w) : \E k \in 1 .. Len(q) : w[i] = q[k]
    /\ \A i \in 1 .. Len(g) : \E k \in 1 .. Len(q) : g[i] = q[k]
    /\ \A i, j \in 1 .. Len(w) : i # j => w[i] # w[j]
    /\ \A i, j \in 1 .. Len(g) : i # j => g[i] # g[j]
    /\ \A i \in 1 .. Len(w) : \A j \in 1 .. Len(g) : w[i] # g[j]

MsgPackets ==
    packet =>
      /\ \A m \in Msg!Msgs : size[m] <= SizeLimit
      /\ \A c \in Msg!Conns : PacketsOf(mSent[c], wire[c], got[c], next)

\* Where the message of cell j ends, with the sizes sz.
EndOf(s, j, sz) == j + sz[s[j][1]] - s[j][2]

\* Every cell of s is followed by the rest of its message, and that by the next
\* message, up to the one before n.
IsRun(s, n, sz) ==
    \A j \in 1 .. Len(s) :
      /\ s[j][1] < n /\ s[j][2] <= sz[s[j][1]] /\ EndOf(s, j, sz) <= Len(s)
      /\ \A d \in 0 .. sz[s[j][1]] - s[j][2] : s[j + d] = <<s[j][1], s[j][2] + d>>
      /\ EndOf(s, j, sz) = Len(s) => s[j][1] = n - 1
      /\ EndOf(s, j, sz) < Len(s) => s[EndOf(s, j, sz) + 1] = <<s[j][1] + 1, 1>>

\* What the reader of c holds.
Held(c) == IF mReader[c] = "idle" THEN buffer ELSE tmp[c]

\* s is what comes after the first k messages of q, or starts inside a message.
Follows(s, q, k) ==
    \/ s = <<>> /\ k = Len(q)
    \/ s # <<>> /\ k + 1 \in 1 .. Len(q) /\ s[1] = <<q[k + 1], 1>>
    \/ s # <<>> /\ s[1][2] # 1

\* s follows k of the messages q, the last ones before n.
ReadsOn(s, q, k, n, sz) ==
    /\ \A i \in 1 .. Len(q) : q[i] = n - 1 - Len(q) + i
    /\ IsRun(s, n, sz) /\ Follows(s, q, k)

\* g is the start of q, a message beyond the limit cut.
GotOf(g, q, sz) ==
    \A i \in 1 .. Len(g) :
      i \in 1 .. Len(q) /\ g[i] \in {q[i], -q[i]} /\ (sz[q[i]] <= SizeLimit => g[i] = q[i])

StreamOf(c) ==
    /\ c > last => mReader[c] = "none" /\ wire[c] = <<>> /\ mSent[c] = <<>> /\ got[c] = <<>>
    /\ mReader[c] \in Live => c = last
    /\ mReader[c] \in Busy => on[c] = c
    /\ mReader[c] = "decode" => cur = c
    /\ GotOf(got[c], mSent[c], size)
    /\ cur = c /\ mReader[c] \in Live =>
         ReadsOn(Held(c) \o wire[c], mSent[c], Len(got[c]), next, size)

MsgStream ==
    ~packet /\ ~overlap =>
      /\ cur \in {Msg!NoConn, last} /\ (cur = Msg!NoConn => buffer = <<>>)
      /\ \A c \in Msg!Conns : StreamOf(c)

MsgInv == MsgType /\ MsgWaits /\ MsgPackets /\ MsgStream

\* A step of a behaviour of this part is one of Messager.
LEMMA MsgIsStep == part = "msg" /\ [Next]_vars => part' = "msg" /\ [Msg!Next]_(Msg!mVars)
<1> SUFFICES ASSUME part = "msg", [Next]_vars PROVE part' = "msg" /\ [Msg!Next]_(Msg!mVars)
  OBVIOUS
<1>1. CASE MsgNext BY <1>1 DEF MsgNext
<1>2. CASE UNCHANGED vars BY <1>2 DEF vars, msgVars, Msg!mVars
<1>3. ~TapNext /\ ~ProtoNext /\ ~WorkerNext BY DEF TapNext, OfTap, ProtoNext, WorkerNext
<1> QED BY <1>1, <1>2, <1>3 DEF Next

\* A part of a sequence, from a to b.
LEMMA Sliced ==
    ASSUME NEW S, NEW q \in Seq(S), NEW a \in Int, NEW b \in Int, 1 <= a, b <= Len(q)
    PROVE  /\ SubSeq(q, a, b) \in Seq(S) /\ Len(SubSeq(q, a, b)) = IF a <= b THEN b - a + 1 ELSE 0
           /\ \A i \in 1 .. b - a + 1 : SubSeq(q, a, b)[i] = q[a + i - 1]
<1>1. \A i \in a .. b : q[i] \in S OBVIOUS
<1> QED BY <1>1, SubSeqProperties

\* A sequence without its element i.
LEMMA Removed ==
    ASSUME NEW S, NEW q \in Seq(S), NEW i \in 1 .. Len(q)
    PROVE  /\ Msg!RemoveAt(q, i) \in Seq(S) /\ Len(Msg!RemoveAt(q, i)) = Len(q) - 1
           /\ \A j \in 1 .. Len(q) - 1 : Msg!RemoveAt(q, i)[j] = IF j < i THEN q[j] ELSE q[j + 1]
<1> DEFINE a == SubSeq(q, 1, i - 1)
           b == SubSeq(q, i + 1, Len(q))
<1>0. Len(q) \in Nat /\ i \in Nat /\ i >= 1 /\ i <= Len(q) OBVIOUS
<1>1. a \in Seq(S) /\ Len(a) = i - 1 /\ \A j \in 1 .. i - 1 : a[j] = q[j]
  <2>1. i - 1 \in Int /\ i - 1 <= Len(q) /\ 1 \in Int BY <1>0
  <2>2. /\ a \in Seq(S) /\ Len(a) = IF 1 <= i - 1 THEN (i - 1) - 1 + 1 ELSE 0
        /\ \A j \in 1 .. (i - 1) - 1 + 1 : a[j] = q[1 + j - 1]
    BY <2>1, Sliced
  <2>3. Len(a) = i - 1 BY <1>0, <2>2
  <2>4. ASSUME NEW j \in 1 .. i - 1 PROVE a[j] = q[j]
    <3>1. j \in 1 .. (i - 1) - 1 + 1 /\ 1 + j - 1 = j BY <1>0
    <3> QED BY <2>2, <3>1
  <2> QED BY <2>2, <2>3, <2>4
<1>2. b \in Seq(S) /\ Len(b) = Len(q) - i /\ \A j \in 1 .. Len(q) - i : b[j] = q[i + j]
  <2>1. i + 1 \in Int /\ Len(q) \in Int /\ 1 <= i + 1 BY <1>0
  <2>2. /\ b \in Seq(S) /\ Len(b) = IF i + 1 <= Len(q) THEN Len(q) - (i + 1) + 1 ELSE 0
        /\ \A j \in 1 .. Len(q) - (i + 1) + 1 : b[j] = q[(i + 1) + j - 1]
    BY <2>1, Sliced
  <2>3. Len(b) = Len(q) - i BY <1>0, <2>2
  <2>4. ASSUME NEW j \in 1 .. Len(q) - i PROVE b[j] = q[i + j]
    <3>1. j \in 1 .. Len(q) - (i + 1) + 1 /\ (i + 1) + j - 1 = i + j BY <1>0
    <3> QED BY <2>2, <3>1
  <2> QED BY <2>2, <2>3, <2>4
<1>3. Msg!RemoveAt(q, i) = a \o b BY DEF Msg!RemoveAt
<1> HIDE DEF a, b
<1>4. /\ a \o b \in Seq(S) /\ Len(a \o b) = Len(a) + Len(b)
      /\ \A j \in 1 .. Len(a) + Len(b) : (a \o b)[j] = IF j <= Len(a) THEN a[j] ELSE b[j - Len(a)]
  BY <1>1, <1>2, Joined
<1>5. ASSUME NEW j \in 1 .. Len(q) - 1 PROVE (a \o b)[j] = IF j < i THEN q[j] ELSE q[j + 1]
  <2>1. CASE j < i
    <3>1. j \in 1 .. Len(a) + Len(b) /\ j <= Len(a) /\ j \in 1 .. i - 1 BY <1>0, <1>1, <1>2, <2>1
    <3> QED BY <1>1, <1>4, <2>1, <3>1
  <2>2. CASE ~(j < i)
    <3>1. /\ j \in 1 .. Len(a) + Len(b) /\ ~(j <= Len(a)) /\ j - Len(a) \in 1 .. Len(q) - i
          /\ i + (j - Len(a)) = j + 1
      BY <1>0, <1>1, <1>2, <2>2
    <3> QED BY <1>2, <1>4, <2>2, <3>1
  <2> QED BY <2>1, <2>2
<1>6. Len(a) + Len(b) = Len(q) - 1 BY <1>0, <1>1, <1>2
<1> QED BY <1>3, <1>4, <1>5, <1>6

\* What encode declares is within the message, and all of it if it is in range.
LEMMA DeclaredFacts ==
    ASSUME size \in [Msg!Msgs -> Sizes], NEW m \in Msg!Msgs
    PROVE  /\ size[m] \in Nat \ {0} /\ Msg!Declared(m) \in 1 .. size[m]
           /\ size[m] <= SizeLimit => Msg!Declared(m) = size[m]
<1>1. size[m] \in Nat \ {0} /\ SizeLimit \in Nat \ {0} BY MsgAssumption
<1> DEFINE x == size[m]
           y == (x - 1) % SizeLimit
<1>2. x \in Nat \ {0} BY <1>1
<1>3. Msg!Declared(m) = 1 + y BY DEF Msg!Declared
<1> HIDE DEF x
<1>4. y \in 0 .. SizeLimit - 1 /\ y <= x - 1 /\ (x <= SizeLimit => y = x - 1)
  <2>1. x - 1 \in Nat BY <1>2
  <2>2. y \in 0 .. SizeLimit - 1 BY <1>1, <2>1
  <2>3. CASE x <= SizeLimit
    <3>1. x - 1 < SizeLimit BY <1>1, <1>2, <2>3
    <3>2. y = x - 1 BY <1>1, <2>1, <3>1
    <3> QED BY <1>2, <2>2, <3>2
  <2>4. CASE ~(x <= SizeLimit)
    BY <1>1, <1>2, <2>2, <2>4
  <2> QED BY <2>3, <2>4
<1> HIDE DEF y
<1>5. 1 + y \in 1 .. x /\ (x <= SizeLimit => 1 + y = x) BY <1>1, <1>2, <1>4
<1> QED BY <1>2, <1>3, <1>5 DEF x

\* A cell is one of a message.
LEMMA CellIs == ASSUME NEW x \in Cell PROVE \E a \in Msg!Msgs, i \in Nat \ {0} : x = <<a, i>>
BY DEF Cell

\* A message sent behind a run extends it.
LEMMA RunSent ==
    ASSUME NEW sz \in [Msg!Msgs -> Nat \ {0}], NEW s \in Seq(Cell), NEW n \in Msg!Msgs, IsRun(s, n, sz),
           NEW t \in Seq(Cell), Len(t) = sz[n], \A i \in 1 .. Len(t) : t[i] = <<n, i>>
    PROVE  IsRun(s \o t, n + 1, sz)
<1> DEFINE u == s \o t
<1>0. n \in Nat /\ sz[n] \in Nat \ {0} BY DEF Msg!Msgs
<1>1. /\ u \in Seq(Cell) /\ Len(s) \in Nat /\ Len(u) = Len(s) + sz[n]
      /\ \A i \in 1 .. Len(s) : u[i] = s[i]
      /\ \A i \in 1 .. sz[n] : u[Len(s) + i] = <<n, i>>
  <2>1. /\ u \in Seq(Cell) /\ Len(s) \in Nat /\ Len(t) \in Nat /\ Len(u) = Len(s) + Len(t)
        /\ \A i \in 1 .. Len(s) + Len(t) : u[i] = IF i <= Len(s) THEN s[i] ELSE t[i - Len(s)]
    BY Joined
  <2> HIDE DEF u
  <2>2. ASSUME NEW i \in 1 .. Len(s) PROVE u[i] = s[i]
    <3>1. i \in 1 .. Len(s) + Len(t) /\ i <= Len(s) BY <2>1
    <3> QED BY <2>1, <3>1
  <2>3. ASSUME NEW i \in 1 .. sz[n] PROVE u[Len(s) + i] = <<n, i>>
    <3>1. /\ Len(s) + i \in 1 .. Len(s) + Len(t) /\ ~(Len(s) + i <= Len(s))
          /\ Len(s) + i - Len(s) = i /\ i \in 1 .. Len(t)
      BY <1>0, <2>1
    <3> QED BY <2>1, <3>1
  <2> QED BY <2>1, <2>2, <2>3
<1> HIDE DEF u
<1>p. PICK p \in Nat : p = n + 1 BY <1>0
<1>2. ASSUME NEW j \in 1 .. Len(u)
      PROVE  /\ u[j][1] < p /\ u[j][2] <= sz[u[j][1]] /\ EndOf(u, j, sz) <= Len(u)
             /\ \A d \in 0 .. sz[u[j][1]] - u[j][2] : u[j + d] = <<u[j][1], u[j][2] + d>>
             /\ EndOf(u, j, sz) = Len(u) => u[j][1] = p - 1
             /\ EndOf(u, j, sz) < Len(u) => u[EndOf(u, j, sz) + 1] = <<u[j][1] + 1, 1>>
  <2>1. CASE j <= Len(s)
    <3>1. j \in 1 .. Len(s) /\ u[j] = s[j] /\ j \in Nat
      <4>1. j \in 1 .. Len(s) /\ j \in Nat BY <1>0, <1>1, <2>1
      <4> QED BY <1>1, <4>1
    <3>2. s[j] \in Cell BY <3>1
    <3>3. PICK a \in Msg!Msgs, i \in Nat \ {0} : s[j] = <<a, i>> BY <3>2, CellIs
    <3>4. PICK z \in Nat \ {0} : z = sz[a] OBVIOUS
    <3>5. s[j][1] = a /\ s[j][2] = i /\ u[j][1] = a /\ u[j][2] = i BY <3>1, <3>3
    <3>6. EndOf(s, j, sz) = j + z - i /\ EndOf(u, j, sz) = j + z - i BY <3>4, <3>5 DEF EndOf
    <3>7. /\ a < n /\ i <= z /\ j + z - i <= Len(s)
          /\ \A d \in 0 .. z - i : s[j + d] = <<a, i + d>>
          /\ j + z - i = Len(s) => a = n - 1
          /\ j + z - i < Len(s) => s[j + z - i + 1] = <<a + 1, 1>>
      BY ZenonT(60), <3>1, <3>4, <3>5, <3>6 DEF IsRun
    <3>8. a \in Nat BY DEF Msg!Msgs
    <3>9. ASSUME NEW d \in 0 .. z - i PROVE u[j + d] = <<a, i + d>>
      <4>1. j + d \in 1 .. Len(s) BY <1>1, <3>7
      <4> QED BY <1>1, <3>7, <4>1
    <3>10. j + z - i < Len(u) BY SMTT(30), <1>0, <1>1, <3>7
    <3>11. u[j + z - i + 1] = <<a + 1, 1>>
      <4>1. CASE j + z - i = Len(s)
        <5>1. u[Len(s) + 1] = <<n, 1>> BY <1>0, <1>1
        <5>2. a + 1 = n BY <1>0, <3>7, <3>8, <4>1
        <5> QED BY <4>1, <5>1, <5>2
      <4>2. CASE j + z - i < Len(s)
        <5>1. j + z - i + 1 \in 1 .. Len(s) BY <1>1, <3>7, <4>2
        <5> QED BY <1>1, <3>7, <4>2, <5>1
      <4>3. j + z - i = Len(s) \/ j + z - i < Len(s)
        <5>1. PICK e \in Int : e = j + z - i BY <3>1
        <5>2. PICK l \in Nat : l = Len(s) BY <1>1
        <5>3. e <= l BY <3>7, <5>1, <5>2
        <5>4. e = l \/ e < l BY <5>3
        <5> QED BY <5>1, <5>2, <5>4
      <4> QED BY <4>1, <4>2, <4>3
    <3>12. a < p /\ j + z - i <= Len(u) BY <1>0, <1>1, <1>p, <3>7, <3>8, <3>10
    <3>13. j + z - i # Len(u) BY <1>1, <3>10
    <3> QED BY <3>4, <3>5, <3>6, <3>7, <3>9, <3>10, <3>11, <3>12, <3>13
  <2>2. CASE ~(j <= Len(s))
    <3>1. PICK i \in 1 .. sz[n] : j = Len(s) + i
      <4>1. j - Len(s) \in 1 .. sz[n] /\ j = Len(s) + (j - Len(s)) BY <1>0, <1>1, <2>2
      <4> QED BY <4>1
    <3>2. u[j] = <<n, i>> BY <1>1, <3>1
    <3>3. u[j][1] = n /\ u[j][2] = i BY <3>2
    <3>4. EndOf(u, j, sz) = Len(u) BY <1>0, <1>1, <3>1, <3>3 DEF EndOf
    <3>5. ASSUME NEW d \in 0 .. sz[n] - i PROVE u[j + d] = <<n, i + d>>
      <4>1. i + d \in 1 .. sz[n] /\ j + d = Len(s) + (i + d) BY <1>0, <1>1, <3>1
      <4> QED BY <1>1, <4>1
    <3>6. n < p /\ n = p - 1 /\ i <= sz[n] BY <1>0, <1>p
    <3>7. Len(u) <= Len(u) /\ ~(Len(u) < Len(u)) BY <1>0, <1>1
    <3> QED BY <3>3, <3>4, <3>5, <3>6, <3>7
  <2> QED BY <2>1, <2>2
<1>3. IsRun(u, n + 1, sz)
  <2>1. IsRun(u, p, sz) BY <1>2 DEF IsRun
  <2> QED BY <1>p, <2>1
<1> QED BY <1>3 DEF u

\* What is left of a run behind its first cells is a run.
LEMMA RunLeft ==
    ASSUME NEW sz \in [Msg!Msgs -> Nat \ {0}], NEW s \in Seq(Cell), NEW n \in Nat, IsRun(s, n, sz),
           NEW k \in 0 .. Len(s), NEW u \in Seq(Cell), Len(u) = Len(s) - k,
           \A i \in 1 .. Len(u) : u[i] = s[k + i]
    PROVE  IsRun(u, n, sz)
<1>1. ASSUME NEW j \in 1 .. Len(u)
      PROVE  /\ u[j][1] < n /\ u[j][2] <= sz[u[j][1]] /\ EndOf(u, j, sz) <= Len(u)
             /\ \A d \in 0 .. sz[u[j][1]] - u[j][2] : u[j + d] = <<u[j][1], u[j][2] + d>>
             /\ EndOf(u, j, sz) = Len(u) => u[j][1] = n - 1
             /\ EndOf(u, j, sz) < Len(u) => u[EndOf(u, j, sz) + 1] = <<u[j][1] + 1, 1>>
  <2>0. Len(s) \in Nat /\ k \in Nat /\ Len(u) \in Nat /\ j \in Nat OBVIOUS
  <2>1. k + j \in 1 .. Len(s) /\ u[j] = s[k + j] BY <2>0
  <2>2. u[j] \in Cell OBVIOUS
  <2>3. PICK a \in Msg!Msgs, i \in Nat \ {0} : u[j] = <<a, i>> BY <2>2 DEF Cell
  <2>4. PICK z \in Nat \ {0} : z = sz[a] OBVIOUS
  <2>5. s[k + j][1] = a /\ s[k + j][2] = i /\ u[j][1] = a /\ u[j][2] = i BY <2>1, <2>3
  <2>6. EndOf(s, k + j, sz) = k + j + z - i /\ EndOf(u, j, sz) = j + z - i BY <2>4, <2>5 DEF EndOf
  <2>7. /\ a < n /\ i <= z /\ k + j + z - i <= Len(s)
        /\ \A d \in 0 .. z - i : s[k + j + d] = <<a, i + d>>
        /\ k + j + z - i = Len(s) => a = n - 1
        /\ k + j + z - i < Len(s) => s[k + j + z - i + 1] = <<a + 1, 1>>
    BY <2>1, <2>4, <2>5, <2>6 DEF IsRun
  <2>8. ASSUME NEW d \in 0 .. z - i PROVE u[j + d] = <<a, i + d>>
    <3>1. j + d \in 1 .. Len(u) /\ k + (j + d) = k + j + d BY SMTT(30), <2>0, <2>7
    <3> QED BY <2>7, <3>1
  <2>9. j + z - i <= Len(u) BY <2>0, <2>7
  <2>10. ASSUME j + z - i = Len(u) PROVE a = n - 1
    <3>1. k + j + z - i = Len(s) BY <2>0, <2>10
    <3> QED BY <2>7, <3>1
  <2>11. ASSUME j + z - i < Len(u) PROVE u[j + z - i + 1] = <<a + 1, 1>>
    <3>1. k + j + z - i < Len(s) BY <2>0, <2>11
    <3>2. j + z - i + 1 \in 1 .. Len(u) /\ k + (j + z - i + 1) = k + j + z - i + 1 BY SMTT(30), <2>0, <2>7, <2>11
    <3>3. u[j + z - i + 1] = s[k + (j + z - i + 1)] BY <3>2
    <3> QED BY <2>7, <3>1, <3>2, <3>3
  <2> QED BY <2>4, <2>5, <2>6, <2>7, <2>8, <2>9, <2>10, <2>11
<1> QED BY <1>1 DEF IsRun

\* decode: a frame starts at a magic and is followed by the rest.
LEMMA FrameFacts ==
    ASSUME size \in [Msg!Msgs -> Sizes], NEW b \in Seq(Cell), Msg!HasFrame(b),
           NEW m, m = b[1][1], NEW D, D = Msg!Declared(m)
    PROVE  /\ Len(b) \in Nat /\ m \in Msg!Msgs /\ b[1] = <<m, 1>> /\ D \in 1 .. Len(b)
           /\ size[m] \in Nat \ {0} /\ D \in 1 .. size[m] /\ (size[m] <= SizeLimit => D = size[m])
           /\ Msg!FrameOf(b) \in Seq(Cell) /\ Len(Msg!FrameOf(b)) = D
           /\ \A i \in 1 .. D : Msg!FrameOf(b)[i] = b[i]
           /\ Msg!RestOf(b) \in Seq(Cell) /\ Len(Msg!RestOf(b)) = Len(b) - D
           /\ \A i \in 1 .. Len(b) - D : Msg!RestOf(b)[i] = b[D + i]
           /\ Msg!Tag(Msg!FrameOf(b)) \in {m, -m}
<1>0. Len(b) \in Nat /\ Len(b) >= 1
  BY MsgAssumption DEF Msg!HasFrame
<1>1. b[1] \in Cell BY <1>0
<1>2. m \in Msg!Msgs /\ b[1] = <<m, 1>>
  <2>1. PICK a \in Msg!Msgs, i \in Nat \ {0} : b[1] = <<a, i>> BY <1>1, CellIs
  <2>2. b[1][2] = 1 BY DEF Msg!HasFrame, Msg!IsMagic
  <2>3. a = m /\ i = 1 BY <2>1, <2>2
  <2> QED BY <2>1, <2>3
<1>3. size[m] \in Nat \ {0} /\ D \in 1 .. size[m] /\ (size[m] <= SizeLimit => D = size[m])
  BY <1>2, DeclaredFacts
<1>4. D \in Nat /\ D >= 1 /\ D <= Len(b) BY <1>0, <1>3 DEF Msg!HasFrame
<1>5. Msg!FrameOf(b) = SubSeq(b, 1, D) /\ Msg!RestOf(b) = SubSeq(b, D + 1, Len(b))
  BY DEF Msg!FrameOf, Msg!RestOf
<1>6. /\ Msg!FrameOf(b) \in Seq(Cell) /\ Len(Msg!FrameOf(b)) = D
      /\ \A i \in 1 .. D : Msg!FrameOf(b)[i] = b[i]
  <2>1. /\ SubSeq(b, 1, D) \in Seq(Cell) /\ Len(SubSeq(b, 1, D)) = IF 1 <= D THEN D - 1 + 1 ELSE 0
        /\ \A i \in 1 .. D - 1 + 1 : SubSeq(b, 1, D)[i] = b[1 + i - 1]
    <3>1. 1 \in Int /\ D \in Int /\ 1 <= 1 /\ D <= Len(b) BY <1>4
    <3> QED BY <3>1, Sliced
  <2>2. Len(SubSeq(b, 1, D)) = D BY <1>4, <2>1
  <2>3. ASSUME NEW i \in 1 .. D PROVE SubSeq(b, 1, D)[i] = b[i]
    <3>1. i \in 1 .. D - 1 + 1 /\ 1 + i - 1 = i BY <1>4
    <3> QED BY <2>1, <3>1
  <2> QED BY <1>5, <2>1, <2>2, <2>3
<1>7. /\ Msg!RestOf(b) \in Seq(Cell) /\ Len(Msg!RestOf(b)) = Len(b) - D
      /\ \A i \in 1 .. Len(b) - D : Msg!RestOf(b)[i] = b[D + i]
  <2> DEFINE e == D + 1
             l == Len(b)
  <2>0. e \in Int /\ l \in Int /\ 1 <= e /\ l <= Len(b) BY <1>0, <1>4
  <2>1. /\ SubSeq(b, e, l) \in Seq(Cell) /\ Len(SubSeq(b, e, l)) = IF e <= l THEN l - e + 1 ELSE 0
        /\ \A i \in 1 .. l - e + 1 : SubSeq(b, e, l)[i] = b[e + i - 1]
    <3> HIDE DEF e, l
    <3> QED BY <2>0, Sliced
  <2>2. Len(SubSeq(b, e, l)) = Len(b) - D BY <1>0, <1>4, <2>1
  <2>3. ASSUME NEW i \in 1 .. Len(b) - D PROVE SubSeq(b, e, l)[i] = b[D + i]
    <3>1. i \in 1 .. l - e + 1 /\ e + i - 1 = D + i BY <1>0, <1>4
    <3> QED BY <2>1, <3>1
  <2> QED BY <1>5, <2>1, <2>2, <2>3
<1>8. Msg!FrameOf(b)[1][1] = m BY <1>2, <1>4, <1>6
<1> QED BY <1>0, <1>2, <1>3, <1>4, <1>6, <1>7, <1>8 DEF Msg!Tag

\* A frame at the start of a run is its first message, or the part of it that
\* the size field says.
LEMMA TagFacts ==
    ASSUME size \in [Msg!Msgs -> Sizes], NEW b \in Seq(Cell), Msg!HasFrame(b),
           NEW w \in Seq(Cell), NEW n, IsRun(b \o w, n, size),
           Msg!Declared(b[1][1]) = size[b[1][1]]
    PROVE  Msg!Tag(Msg!FrameOf(b)) = b[1][1]
<1> DEFINE m == b[1][1]
           D == Msg!Declared(m)
           f == Msg!FrameOf(b)
           s == b \o w
<1>1. /\ Len(b) \in Nat /\ m \in Msg!Msgs /\ b[1] = <<m, 1>> /\ D \in 1 .. Len(b)
      /\ size[m] \in Nat \ {0} /\ f \in Seq(Cell) /\ Len(f) = D
      /\ \A i \in 1 .. D : f[i] = b[i]
  BY FrameFacts
<1>2. D = size[m] OBVIOUS
<1>3. /\ Len(w) \in Nat /\ Len(s) = Len(b) + Len(w)
      /\ \A i \in 1 .. Len(b) + Len(w) : s[i] = IF i <= Len(b) THEN b[i] ELSE w[i - Len(b)]
  BY Joined
<1>4. IsRun(s, n, size) OBVIOUS
<1> HIDE DEF s, f, D, m
<1>5. \A i \in 1 .. Len(b) : s[i] = b[i]
  <2>1. \A i \in 1 .. Len(b) : i \in 1 .. Len(b) + Len(w) /\ i <= Len(b) BY <1>1, <1>3
  <2> QED BY <1>3, <2>1
<1>6. 1 \in 1 .. Len(s) /\ s[1] = <<m, 1>> BY <1>1, <1>3, <1>5
<1>7. \A d \in 0 .. size[m] - 1 : s[1 + d] = <<m, 1 + d>>
  <2>1. s[1][1] = m /\ s[1][2] = 1 BY <1>6
  <2> QED BY <1>4, <1>6, <2>1 DEF IsRun
<1>8. ASSUME NEW i \in 1 .. size[m] PROVE f[i] = <<m, i>>
  <2>1. i - 1 \in 0 .. size[m] - 1 /\ 1 + (i - 1) = i /\ i \in 1 .. Len(b) /\ i \in 1 .. D BY <1>1, <1>2
  <2>2. s[1 + (i - 1)] = <<m, 1 + (i - 1)>> BY <1>7, <2>1
  <2> QED BY <1>1, <1>5, <2>1, <2>2
<1>9. f = [i \in 1 .. size[m] |-> <<m, i>>]
  <2>1. DOMAIN f = 1 .. size[m] BY <1>1, <1>2
  <2>2. f = [i \in DOMAIN f |-> f[i]] BY <1>1
  <2> QED BY <1>8, <2>1, <2>2
<1>10. f[1][1] = m BY <1>1, <1>2, <1>8
<1>11. Msg!Tag(f) = m BY <1>9, <1>10 DEF Msg!Tag, Msg!Whole, Msg!Cells
<1> QED BY <1>11 DEF f, m

\* A reader that finds a frame at the start of what follows k messages gets the
\* next one, and what is left follows it.
LEMMA ReadOn ==
    ASSUME size \in [Msg!Msgs -> Sizes], NEW b \in Seq(Cell), Msg!HasFrame(b), NEW w \in Seq(Cell),
           NEW n \in Nat, NEW q \in Seq(Msg!Msgs), NEW k \in Nat, ReadsOn(b \o w, q, k, n, size)
    PROVE  /\ k + 1 \in 1 .. Len(q) /\ Msg!Tag(Msg!FrameOf(b)) \in {q[k + 1], -q[k + 1]}
           /\ size[q[k + 1]] <= SizeLimit => Msg!Tag(Msg!FrameOf(b)) = q[k + 1]
           /\ ReadsOn(Msg!RestOf(b) \o w, q, k + 1, n, size)
<1> DEFINE m == b[1][1]
           D == Msg!Declared(m)
           f == Msg!FrameOf(b)
           g == Msg!RestOf(b)
           s == b \o w
           u == g \o w
<1>1. /\ Len(b) \in Nat /\ m \in Msg!Msgs /\ b[1] = <<m, 1>> /\ D \in 1 .. Len(b)
      /\ size[m] \in Nat \ {0} /\ D \in 1 .. size[m] /\ (size[m] <= SizeLimit => D = size[m])
      /\ g \in Seq(Cell) /\ Len(g) = Len(b) - D /\ \A i \in 1 .. Len(b) - D : g[i] = b[D + i]
      /\ Msg!Tag(f) \in {m, -m}
  BY FrameFacts
<1>2. D = size[m] => Msg!Tag(f) = m BY TagFacts DEF ReadsOn
<1>3. /\ s \in Seq(Cell) /\ Len(w) \in Nat /\ Len(s) = Len(b) + Len(w)
      /\ \A i \in 1 .. Len(b) + Len(w) : s[i] = IF i <= Len(b) THEN b[i] ELSE w[i - Len(b)]
  BY Joined
<1>4. /\ u \in Seq(Cell) /\ Len(u) = Len(g) + Len(w)
      /\ \A i \in 1 .. Len(g) + Len(w) : u[i] = IF i <= Len(g) THEN g[i] ELSE w[i - Len(g)]
  BY ZenonT(60), <1>1, Joined
<1>5. /\ IsRun(s, n, size) /\ Follows(s, q, k)
      /\ \A i \in 1 .. Len(q) : q[i] = n - 1 - Len(q) + i
  BY DEF ReadsOn
<1>6. size \in [Msg!Msgs -> Nat \ {0}] BY MsgAssumption
<1> HIDE DEF s, u, f, g, D, m
<1>7. PICK d \in Nat, z \in Nat \ {0}, l \in Nat :
        d = D /\ z = size[m] /\ l = Len(s) /\ 1 <= d /\ d <= z /\ d <= l
  <2>1. D \in Nat /\ 1 <= D /\ D <= Len(b) /\ D <= size[m] BY <1>1
  <2>2. Len(s) \in Nat /\ D <= Len(s) BY <1>1, <1>3, <2>1
  <2> QED BY <1>1, <2>1, <2>2
<1>8. Len(u) = l - d BY <1>1, <1>3, <1>4, <1>7
<1>9. ASSUME NEW i \in 1 .. Len(u) PROVE u[i] = s[d + i]
  <2>0. i \in 1 .. Len(g) + Len(w) /\ d + i \in 1 .. Len(b) + Len(w) BY <1>1, <1>3, <1>4, <1>7, <1>8
  <2>1. CASE i <= Len(g)
    <3>0. Len(g) = Len(b) - d /\ i \in Nat /\ i >= 1 BY SMTT(30), <1>1, <1>7, <2>0
    <3>1. d + i <= Len(b) /\ i \in 1 .. Len(b) - D BY <1>1, <1>7, <2>1, <3>0
    <3>2. u[i] = g[i] /\ s[d + i] = b[d + i] BY <1>3, <1>4, <2>0, <2>1, <3>1
    <3> QED BY <1>1, <1>7, <3>1, <3>2
  <2>2. CASE ~(i <= Len(g))
    <3>1. ~(d + i <= Len(b)) /\ d + i - Len(b) = i - Len(g) BY <1>1, <1>7, <2>0, <2>2
    <3>2. u[i] = w[i - Len(g)] BY <1>4, <2>0, <2>2
    <3>3. s[d + i] = w[d + i - Len(b)] BY <1>3, <2>0, <3>1
    <3> QED BY <3>1, <3>2, <3>3
  <2> QED BY <2>1, <2>2
<1>10. IsRun(u, n, size)
  <2>1. d \in 0 .. Len(s) /\ Len(u) = Len(s) - d BY <1>7, <1>8
  <2> QED BY <1>3, <1>4, <1>5, <1>6, <1>9, <2>1, RunLeft
<1>11. 1 \in 1 .. Len(s) /\ s[1] = <<m, 1>> /\ s # <<>>
  <2>1. 1 \in 1 .. Len(b) + Len(w) /\ 1 <= Len(b) BY <1>1, <1>3
  <2> QED BY <1>1, <1>3, <2>1
<1>12. k + 1 \in 1 .. Len(q) /\ m = q[k + 1]
  BY <1>5, <1>11 DEF Follows
<1>13. /\ m < n /\ z <= l
       /\ \A x \in 0 .. z - 1 : s[1 + x] = <<m, 1 + x>>
       /\ z = l => m = n - 1
       /\ z < l => s[z + 1] = <<m + 1, 1>>
  <2>1. s[1][1] = m /\ s[1][2] = 1 BY <1>11
  <2>2. EndOf(s, 1, size) = z BY <1>7, <2>1 DEF EndOf
  <2> QED BY <1>5, <1>7, <1>11, <2>1, <2>2 DEF IsRun
<1>14. m \in Nat /\ Len(q) \in Nat BY <1>1 DEF Msg!Msgs
<1>15. m = n - 1 - Len(q) + k + 1 BY <1>5, <1>12, <1>14
<1>16. Follows(u, q, k + 1)
  <2>1. CASE d < z
    <3>1. d \in 0 .. z - 1 /\ 1 \in 1 .. Len(u) /\ d + 1 = 1 + d BY <1>7, <1>8, <1>13, <2>1
    <3>2. u[1] = <<m, 1 + d>> BY <1>9, <1>13, <3>1
    <3>3. u # <<>> /\ u[1][2] = 1 + d /\ 1 + d # 1 BY <1>4, <1>7, <3>1, <3>2
    <3> QED BY <3>3 DEF Follows
  <2>2. CASE d = z /\ z = l
    <3>1. Len(u) = 0 BY <1>7, <1>8, <2>2
    <3>2. u = <<>> BY <1>4, <3>1
    <3>3. k + 1 = Len(q)
      <4>1. m = n - 1 BY <1>13, <2>2
      <4> QED BY <1>14, <1>15, <4>1
    <3> QED BY <3>2, <3>3 DEF Follows
  <2>3. CASE d = z /\ z < l
    <3>1. 1 \in 1 .. Len(u) /\ d + 1 = z + 1 /\ z + 1 \in 1 .. Len(s) BY SMTT(30), <1>7, <1>8, <2>3
    <3>2. u[1] = <<m + 1, 1>> /\ s[z + 1] = <<m + 1, 1>> BY <1>9, <1>13, <2>3, <3>1
    <3>3. m + 1 < n
      <4>1. s[z + 1][1] = m + 1 BY <3>2
      <4> QED BY <1>5, <3>1, <4>1 DEF IsRun
    <3>4. (k + 1) + 1 \in 1 .. Len(q) /\ n - 1 - Len(q) + ((k + 1) + 1) = m + 1
      BY <1>14, <1>15, <3>3
    <3>5. q[(k + 1) + 1] = m + 1
      <4>1. q[(k + 1) + 1] = n - 1 - Len(q) + ((k + 1) + 1) BY <1>5, <3>4
      <4> QED BY <3>4, <4>1
    <3>6. u # <<>> BY <1>4, <3>1
    <3> QED BY <3>2, <3>4, <3>5, <3>6 DEF Follows
  <2>4. d < z \/ (d = z /\ z = l) \/ (d = z /\ z < l) BY <1>7, <1>13
  <2> QED BY <2>1, <2>2, <2>3, <2>4
<1>17. /\ Msg!Tag(f) \in {q[k + 1], -q[k + 1]}
       /\ size[q[k + 1]] <= SizeLimit => Msg!Tag(f) = q[k + 1]
  BY <1>1, <1>2, <1>12
<1>18. ReadsOn(u, q, k + 1, n, size) BY <1>5, <1>10, <1>16 DEF ReadsOn
<1> QED BY <1>12, <1>17, <1>18 DEF f, u, g

\* encode: the cells of a message.
LEMMA CellsFacts ==
    ASSUME size \in [Msg!Msgs -> Sizes], NEW m \in Msg!Msgs
    PROVE  /\ Msg!Cells(m) \in Seq(Cell) /\ Len(Msg!Cells(m)) = size[m]
           /\ \A i \in 1 .. size[m] : Msg!Cells(m)[i] = <<m, i>>
<1>1. size[m] \in Nat \ {0} BY MsgAssumption
<1>2. \A i \in 1 .. size[m] : <<m, i>> \in Cell BY <1>1 DEF Cell
<1>3. Msg!Cells(m) = [i \in 1 .. size[m] |-> <<m, i>>] BY DEF Msg!Cells
<1>4. Msg!Cells(m) \in [1 .. size[m] -> Cell] BY <1>2, <1>3
<1>5. \A i \in 1 .. size[m] : Msg!Cells(m)[i] = <<m, i>> BY <1>3
<1>6. DOMAIN Msg!Cells(m) = 1 .. size[m] BY <1>3
<1> DEFINE c == Msg!Cells(m)
           z == size[m]
<1>7. z \in Nat /\ c \in [1 .. z -> Cell] BY <1>1, <1>4
<1> HIDE DEF c, z
<1>8. c \in Seq(Cell) /\ Len(c) = z BY <1>7
<1> QED BY <1>5, <1>8 DEF c, z

\* Receive of a datagram within the limits: the message if the field says all
\* of its size.
LEMMA PacketTag ==
    ASSUME size \in [Msg!Msgs -> Sizes], NEW m \in Msg!Msgs, Msg!Accepted(m), NEW have,
           have = SubSeq(Msg!Cells(m), 1, IF size[m] < BufSize THEN size[m] ELSE BufSize)
    PROVE  /\ Msg!Tag(SubSeq(have, 1, Msg!Declared(m))) \in {m, -m}
           /\ size[m] <= SizeLimit => Msg!Tag(SubSeq(have, 1, Msg!Declared(m))) = m
<1> DEFINE D == Msg!Declared(m)
           h == IF size[m] < BufSize THEN size[m] ELSE BufSize
           f == SubSeq(have, 1, D)
<1>1. /\ size[m] \in Nat \ {0} /\ D \in 1 .. size[m] /\ (size[m] <= SizeLimit => D = size[m])
  BY DeclaredFacts
<1>2. D <= BufSize /\ BufSize \in Nat BY <1>1, MsgAssumption DEF Msg!Accepted
<1>3. D \in Nat /\ D >= 1 /\ h \in Nat /\ D <= h /\ h <= size[m] BY <1>1, <1>2
<1>4. /\ Msg!Cells(m) \in Seq(Cell) /\ Len(Msg!Cells(m)) = size[m]
      /\ \A i \in 1 .. size[m] : Msg!Cells(m)[i] = <<m, i>>
  BY CellsFacts
<1>5. have = SubSeq(Msg!Cells(m), 1, h) OBVIOUS
<1> HIDE DEF h, D, f
<1>6. have \in Seq(Cell) /\ Len(have) = h /\ \A i \in 1 .. h : have[i] = <<m, i>>
  <2>0. 1 \in Int /\ h \in Int /\ 1 <= 1 /\ h <= Len(Msg!Cells(m)) BY <1>3, <1>4
  <2>1. /\ have \in Seq(Cell) /\ Len(have) = IF 1 <= h THEN h - 1 + 1 ELSE 0
        /\ \A i \in 1 .. h - 1 + 1 : have[i] = Msg!Cells(m)[1 + i - 1]
    <3> DEFINE c == Msg!Cells(m)
    <3>1. c \in Seq(Cell) /\ have = SubSeq(c, 1, h) /\ h <= Len(c) BY <1>4, <1>5, <2>0
    <3> HIDE DEF c
    <3>2. /\ SubSeq(c, 1, h) \in Seq(Cell)
          /\ Len(SubSeq(c, 1, h)) = IF 1 <= h THEN h - 1 + 1 ELSE 0
          /\ \A i \in 1 .. h - 1 + 1 : SubSeq(c, 1, h)[i] = c[1 + i - 1]
      BY <2>0, <3>1, Sliced
    <3> QED BY <3>1, <3>2 DEF c
  <2>2. Len(have) = h BY <1>3, <2>1
  <2>3. ASSUME NEW i \in 1 .. h PROVE have[i] = <<m, i>>
    <3>1. i \in 1 .. h - 1 + 1 /\ 1 + i - 1 = i /\ i \in 1 .. size[m] BY <1>1, <1>3
    <3> QED BY <1>4, <2>1, <3>1
  <2> QED BY <2>1, <2>2, <2>3
<1>7. f \in Seq(Cell) /\ Len(f) = D /\ \A i \in 1 .. D : f[i] = <<m, i>>
  <2>0. 1 \in Int /\ D \in Int /\ 1 <= 1 /\ D <= Len(have) BY <1>3, <1>6
  <2>1. /\ f \in Seq(Cell) /\ Len(f) = IF 1 <= D THEN D - 1 + 1 ELSE 0
        /\ \A i \in 1 .. D - 1 + 1 : f[i] = have[1 + i - 1]
    BY <1>6, <2>0, Sliced DEF f
  <2>2. Len(f) = D BY <1>3, <2>1
  <2>3. ASSUME NEW i \in 1 .. D PROVE f[i] = <<m, i>>
    <3>1. i \in 1 .. D - 1 + 1 /\ 1 + i - 1 = i /\ i \in 1 .. h BY <1>3
    <3> QED BY <1>6, <2>1, <3>1
  <2> QED BY <2>1, <2>2, <2>3
<1>8. f[1][1] = m BY <1>3, <1>7
<1>9. ASSUME size[m] <= SizeLimit PROVE f = [i \in 1 .. size[m] |-> <<m, i>>]
  <2>1. DOMAIN f = 1 .. size[m] BY <1>1, <1>7, <1>9
  <2>2. f = [i \in DOMAIN f |-> f[i]] BY <1>7
  <2> QED BY <1>1, <1>7, <1>9, <2>1, <2>2
<1>10. Msg!Tag(f) \in {m, -m} BY <1>8 DEF Msg!Tag
<1>11. size[m] <= SizeLimit => Msg!Tag(f) = m BY <1>8, <1>9 DEF Msg!Tag, Msg!Whole, Msg!Cells
<1> QED BY <1>10, <1>11 DEF f, D

\* The type of the framing, with what a waiting reader has.
LEMMA MsgTypeStep == MsgType /\ MsgWaits /\ [Msg!Next]_(Msg!mVars) => (MsgType /\ MsgWaits)'
<1> SUFFICES ASSUME MsgType, MsgWaits, [Msg!Next]_(Msg!mVars) PROVE (MsgType /\ MsgWaits)'
  OBVIOUS
<1> USE MsgAssumption
<1>0. /\ packet \in BOOLEAN /\ size \in [Msg!Msgs -> Sizes] /\ next \in 1 .. MaxMsgs + 1
      /\ cur \in Msg!Conns \cup {Msg!NoConn} /\ last \in 0 .. MaxConns
      /\ mReader \in [Msg!Conns -> {"none", "idle", "read", "decode", "gone"}]
      /\ on \in [Msg!Conns -> Msg!Conns \cup {Msg!NoConn}] /\ overlap \in BOOLEAN
      /\ Len(buffer) < BufSize \/ buffer = <<>>
      /\ \A c \in Msg!Conns : Len(tmp[c]) <= BufSize
      /\ mSent \in [Msg!Conns -> Seq(Msg!Msgs)] /\ got \in [Msg!Conns -> Seq(Int)]
      /\ buffer \in Seq(Cell) /\ tmp \in [Msg!Conns -> Seq(Cell)]
      /\ wire \in [Msg!Conns -> Seq(IF packet THEN Msg!Msgs ELSE Cell)]
      /\ \A r \in Msg!Conns : mReader[r] \in Busy => ~packet /\ on[r] \in Msg!Conns
  BY DEF MsgType, Msg!TypeOK
<1>c. Msg!NoConn \notin Msg!Conns BY DEF Msg!NoConn, Msg!Conns
<1>g. ASSUME NEW c \in Msg!Conns, NEW x \in Int, got' = [got EXCEPT ![c] = Append(@, x)]
      PROVE  got' \in [Msg!Conns -> Seq(Int)]
  BY <1>0, <1>g
<1>f. ASSUME NEW b \in Seq(Cell), Msg!HasFrame(b)
      PROVE  /\ Msg!Tag(Msg!FrameOf(b)) \in Int /\ Msg!RestOf(b) \in Seq(Cell)
             /\ Len(b) \in Nat /\ Len(Msg!RestOf(b)) \in Nat /\ Len(Msg!RestOf(b)) < Len(b)
  <2>1. PICK m : m = b[1][1] OBVIOUS
  <2>2. PICK D : D = Msg!Declared(m) OBVIOUS
  <2>3. /\ Len(b) \in Nat /\ m \in Msg!Msgs /\ D \in 1 .. Len(b)
        /\ Msg!RestOf(b) \in Seq(Cell) /\ Len(Msg!RestOf(b)) = Len(b) - D
        /\ Msg!Tag(Msg!FrameOf(b)) \in {m, -m}
    BY <1>0, <1>f, <2>1, <2>2, FrameFacts
  <2>4. m \in Int /\ -m \in Int BY <2>3 DEF Msg!Msgs
  <2> QED BY <2>3, <2>4
\* A step that leaves what is read as it was.
<1>w. ASSUME UNCHANGED <<size, tmp>>, \A r \in Msg!Conns : mReader'[r] = "read" => mReader[r] = "read"
      PROVE  MsgWaits'
  BY <1>w DEF MsgWaits, Msg!HasFrame, Msg!BadMagic, Msg!IsMagic, Msg!Declared
\* Receive returns.
<1>r. ASSUME NEW r \in Msg!Conns, NEW x \in {"idle", "gone"}, Msg!Returns(r, x), UNCHANGED <<packet, size>>
      PROVE  /\ mReader' \in [Msg!Conns -> {"none", "idle", "read", "decode", "gone"}]
             /\ on' \in [Msg!Conns -> Msg!Conns \cup {Msg!NoConn}] /\ tmp' \in [Msg!Conns -> Seq(Cell)]
             /\ \A d \in Msg!Conns : Len(tmp'[d]) <= BufSize
             /\ \A d \in Msg!Conns : mReader'[d] \in Busy => ~packet /\ on'[d] \in Msg!Conns
             /\ MsgWaits'
  <2>0. /\ mReader' = [mReader EXCEPT ![r] = x] /\ on' = [on EXCEPT ![r] = Msg!NoConn]
        /\ tmp' = [tmp EXCEPT ![r] = <<>>]
    BY <1>r DEF Msg!Returns, Msg!Becomes
  <2>1. /\ \A d \in Msg!Conns : mReader'[d] = IF d = r THEN x ELSE mReader[d]
        /\ \A d \in Msg!Conns : on'[d] = IF d = r THEN Msg!NoConn ELSE on[d]
        /\ \A d \in Msg!Conns : tmp'[d] = IF d = r THEN <<>> ELSE tmp[d]
    BY <1>0, <2>0
  <2>2. /\ mReader' \in [Msg!Conns -> {"none", "idle", "read", "decode", "gone"}]
        /\ on' \in [Msg!Conns -> Msg!Conns \cup {Msg!NoConn}] /\ tmp' \in [Msg!Conns -> Seq(Cell)]
    BY <1>0, <2>0
  <2>3. Len(<<>>) <= BufSize OBVIOUS
  <2>4. \A d \in Msg!Conns : Len(tmp'[d]) <= BufSize BY <1>0, <2>1, <2>3
  <2>5. \A d \in Msg!Conns : mReader'[d] \in Busy => ~packet /\ on'[d] \in Msg!Conns
    BY <1>0, <2>1 DEF Busy
  <2>6. MsgWaits'
    <3>1. \A d \in Msg!Conns : mReader'[d] = "read" => mReader[d] = "read" /\ tmp'[d] = tmp[d] BY <2>1
    <3> QED BY <1>r, <3>1 DEF MsgWaits, Msg!HasFrame, Msg!BadMagic, Msg!IsMagic, Msg!Declared
  <2> QED BY <2>2, <2>4, <2>5, <2>6
<1>1. CASE Msg!Connect
  <2>0. /\ last < MaxConns /\ last' = last + 1 /\ cur' = last + 1
        /\ mReader' = [mReader EXCEPT ![last + 1] = "idle"] /\ overlap' \in BOOLEAN
        /\ UNCHANGED <<packet, size, mSent, next, wire, buffer, on, tmp, got>>
    BY <1>0, <1>1 DEF Msg!Connect
  <2>1. last + 1 \in Msg!Conns /\ last + 1 \in 0 .. MaxConns BY <1>0, <2>0 DEF Msg!Conns
  <2>2. \A r \in Msg!Conns : mReader'[r] = IF r = last + 1 THEN "idle" ELSE mReader[r]
    BY <1>0, <2>0
  <2>3. mReader' \in [Msg!Conns -> {"none", "idle", "read", "decode", "gone"}] BY <1>0, <2>0
  <2>4. \A r \in Msg!Conns : mReader'[r] \in Busy => mReader[r] \in Busy BY <2>2 DEF Busy
  <2>5. MsgType' BY <1>0, <2>0, <2>1, <2>3, <2>4 DEF MsgType, Msg!TypeOK
  <2> QED BY <1>w, <2>0, <2>2, <2>5
<1>2. CASE Msg!Close
  <2>0. /\ cur \in Msg!Conns /\ cur' = Msg!NoConn /\ buffer' = <<>>
        /\ wire' = [wire EXCEPT ![cur] = <<>>] /\ overlap' \in BOOLEAN
        /\ UNCHANGED <<packet, size, mSent, next, last, mReader, on, tmp, got>>
    BY <1>0, <1>2 DEF Msg!Close, Msg!Flush
  <2>1. wire' \in [Msg!Conns -> Seq(IF packet THEN Msg!Msgs ELSE Cell)] BY <1>0, <2>0
  <2>2. buffer' \in Seq(Cell) BY <2>0
  <2>3. MsgType' BY <1>0, <2>0, <2>1, <2>2 DEF MsgType, Msg!TypeOK
  <2> QED BY <1>w, <2>0, <2>3
<1>3. CASE Msg!Send
  <2>0. /\ cur \in Msg!Conns /\ next <= MaxMsgs /\ next' = next + 1
        /\ mSent' = [mSent EXCEPT ![cur] = Append(@, next)]
        /\ wire' = [wire EXCEPT ![cur] = IF packet THEN Append(@, next) ELSE @ \o Msg!Cells(next)]
        /\ UNCHANGED <<packet, size, cur, last, buffer, mReader, on, tmp, got, overlap>>
    BY <1>0, <1>3 DEF Msg!Send
  <2>1. next \in Msg!Msgs /\ next' \in 1 .. MaxMsgs + 1 BY <1>0, <2>0 DEF Msg!Msgs
  <2>2. PICK m \in Msg!Msgs : m = next BY <2>1
  <2>3. Msg!Cells(m) \in Seq(Cell) BY <1>0, CellsFacts
  <2>4. mSent' \in [Msg!Conns -> Seq(Msg!Msgs)] BY <1>0, <2>0, <2>1
  <2>5. wire' \in [Msg!Conns -> Seq(IF packet THEN Msg!Msgs ELSE Cell)]
    <3>1. CASE packet BY <1>0, <2>0, <2>1, <3>1
    <3>2. CASE ~packet
      <4>1. wire \in [Msg!Conns -> Seq(Cell)] BY <1>0, <3>2
      <4>2. wire[cur] \o Msg!Cells(m) \in Seq(Cell) BY <2>0, <2>3, <4>1, Joined
      <4>3. wire' = [wire EXCEPT ![cur] = wire[cur] \o Msg!Cells(m)] BY <2>0, <2>2, <3>2
      <4>4. wire' \in [Msg!Conns -> Seq(Cell)] BY <2>0, <4>1, <4>2, <4>3
      <4> QED BY <3>2, <4>4
    <3> QED BY <3>1, <3>2
  <2>6. MsgType' BY <1>0, <2>0, <2>1, <2>4, <2>5 DEF MsgType, Msg!TypeOK
  <2> QED BY <1>w, <2>0, <2>6
<1>4. ASSUME NEW i \in Msg!Msgs, Msg!Lose(i) PROVE (MsgType /\ MsgWaits)'
  <2>0. /\ packet /\ cur \in Msg!Conns /\ i \in DOMAIN wire[cur]
        /\ wire' = [wire EXCEPT ![cur] = Msg!RemoveAt(@, i)]
        /\ UNCHANGED <<packet, size, mSent, next, cur, last, buffer, mReader, on, tmp, got, overlap>>
    BY <1>0, <1>4 DEF Msg!Lose
  <2>1. wire \in [Msg!Conns -> Seq(Msg!Msgs)] BY <1>0, <2>0
  <2>2. wire[cur] \in Seq(Msg!Msgs) /\ i \in 1 .. Len(wire[cur]) BY <2>0, <2>1
  <2>3. Msg!RemoveAt(wire[cur], i) \in Seq(Msg!Msgs) BY <2>2, Removed
  <2>4. wire' \in [Msg!Conns -> Seq(IF packet THEN Msg!Msgs ELSE Cell)] BY <2>0, <2>1, <2>3
  <2>5. MsgType' BY <1>0, <2>0, <2>4 DEF MsgType, Msg!TypeOK
  <2> QED BY <1>w, <2>0, <2>5
<1>5. ASSUME NEW r \in Msg!Conns, NEW i \in Msg!Msgs, Msg!ReceivePacket(r, i) PROVE (MsgType /\ MsgWaits)'
  <2>0. /\ packet /\ mReader[r] = "idle" /\ cur \in Msg!Conns /\ i \in DOMAIN wire[cur]
        /\ wire' = [wire EXCEPT ![cur] = Msg!RemoveAt(@, i)]
        /\ UNCHANGED <<packet, size, mSent, next, cur, last, buffer, on, tmp, overlap>>
    BY <1>0, <1>5 DEF Msg!ReceivePacket
  <2>1. wire \in [Msg!Conns -> Seq(Msg!Msgs)] BY <1>0, <2>0
  <2>2. wire[cur] \in Seq(Msg!Msgs) /\ i \in 1 .. Len(wire[cur]) BY <2>0, <2>1
  <2>3. Msg!RemoveAt(wire[cur], i) \in Seq(Msg!Msgs) BY <2>2, Removed
  <2>4. wire' \in [Msg!Conns -> Seq(IF packet THEN Msg!Msgs ELSE Cell)] BY <2>0, <2>1, <2>3
  <2>5. PICK m \in Msg!Msgs : m = wire[cur][i] BY <2>2
  <2>6. PICK have : have = SubSeq(Msg!Cells(m), 1, IF size[m] < BufSize THEN size[m] ELSE BufSize) OBVIOUS
  <2>7. IF Msg!Accepted(m)
        THEN got' = [got EXCEPT ![cur] = Append(@, Msg!Tag(SubSeq(have, 1, Msg!Declared(m))))] /\ UNCHANGED mReader
        ELSE mReader' = [mReader EXCEPT ![r] = "gone"] /\ UNCHANGED got
    BY <1>5, <2>5, <2>6 DEF Msg!ReceivePacket, Msg!Deliver, Msg!Becomes
  <2>8. got' \in [Msg!Conns -> Seq(Int)]
    <3>1. CASE Msg!Accepted(m)
      <4>1. Msg!Tag(SubSeq(have, 1, Msg!Declared(m))) \in {m, -m} BY <1>0, <2>6, <3>1, PacketTag
      <4>2. Msg!Tag(SubSeq(have, 1, Msg!Declared(m))) \in Int BY <4>1 DEF Msg!Msgs
      <4> QED BY <1>g, <2>0, <2>7, <3>1, <4>2
    <3>2. CASE ~Msg!Accepted(m) BY <1>0, <2>7, <3>2
    <3> QED BY <3>1, <3>2
  <2>9. /\ mReader' \in [Msg!Conns -> {"none", "idle", "read", "decode", "gone"}]
        /\ \A d \in Msg!Conns : mReader'[d] = mReader[d] \/ mReader'[d] = "gone"
    BY <1>0, <2>7
  <2>10. \A d \in Msg!Conns : mReader'[d] \in Busy => mReader[d] \in Busy BY <2>9 DEF Busy
  <2>11. MsgType' BY <1>0, <2>0, <2>4, <2>8, <2>9, <2>10 DEF MsgType, Msg!TypeOK
  <2> QED BY <1>w, <2>0, <2>9, <2>11
<1>6. ASSUME NEW r \in Msg!Conns, Msg!ReceiveBegin(r) PROVE (MsgType /\ MsgWaits)'
  <2>0. /\ mReader[r] = "idle" /\ ~packet /\ cur \in Msg!Conns
        /\ UNCHANGED <<packet, size, mSent, next, cur, last, wire, overlap>>
    BY <1>0, <1>6 DEF Msg!ReceiveBegin
  <2>1. ASSUME Msg!HasFrame(buffer), got' = [got EXCEPT ![cur] = Append(@, Msg!Tag(Msg!FrameOf(buffer)))],
               buffer' = Msg!RestOf(buffer), UNCHANGED <<mReader, on, tmp>>
        PROVE  (MsgType /\ MsgWaits)'
    <3>1. PICK b \in Seq(Cell) : b = buffer BY <1>0
    <3>2. /\ Msg!Tag(Msg!FrameOf(b)) \in Int /\ Msg!RestOf(b) \in Seq(Cell)
          /\ Len(b) \in Nat /\ Len(Msg!RestOf(b)) \in Nat /\ Len(Msg!RestOf(b)) < Len(b)
      BY <1>f, <2>1, <3>1
    <3>3. got' \in [Msg!Conns -> Seq(Int)] BY <1>g, <2>0, <2>1, <3>1, <3>2
    <3>4. buffer' \in Seq(Cell) /\ Len(buffer') < BufSize
      <4>1. Len(b) < BufSize
        <5>1. b # <<>> BY <3>2
        <5> QED BY <1>0, <3>1, <5>1
      <4> QED BY <2>1, <3>1, <3>2, <4>1
    <3>5. MsgType' BY <1>0, <2>0, <2>1, <3>3, <3>4 DEF MsgType, Msg!TypeOK
    <3> QED BY <1>w, <2>0, <2>1, <3>5
  <2>2. ASSUME mReader' = [mReader EXCEPT ![r] = "gone"], UNCHANGED <<buffer, on, tmp, got>>
        PROVE  (MsgType /\ MsgWaits)'
    <3>1. \A d \in Msg!Conns : mReader'[d] = IF d = r THEN "gone" ELSE mReader[d] BY <1>0, <2>2
    <3>2. mReader' \in [Msg!Conns -> {"none", "idle", "read", "decode", "gone"}] BY <1>0, <2>2
    <3>3. \A d \in Msg!Conns : mReader'[d] \in Busy => mReader[d] \in Busy BY <3>1 DEF Busy
    <3>4. MsgType' BY <1>0, <2>0, <2>2, <3>2, <3>3 DEF MsgType, Msg!TypeOK
    <3> QED BY <1>w, <2>0, <2>2, <3>1, <3>4
  <2>3. ASSUME ~Msg!HasFrame(buffer), ~Msg!BadMagic(buffer), mReader' = [mReader EXCEPT ![r] = "read"],
               on' = [on EXCEPT ![r] = cur], tmp' = [tmp EXCEPT ![r] = buffer], UNCHANGED <<buffer, got>>
        PROVE  (MsgType /\ MsgWaits)'
    <3>1. /\ \A d \in Msg!Conns : mReader'[d] = IF d = r THEN "read" ELSE mReader[d]
          /\ \A d \in Msg!Conns : on'[d] = IF d = r THEN cur ELSE on[d]
          /\ \A d \in Msg!Conns : tmp'[d] = IF d = r THEN buffer ELSE tmp[d]
      BY <1>0, <2>3
    <3>2. /\ mReader' \in [Msg!Conns -> {"none", "idle", "read", "decode", "gone"}]
          /\ on' \in [Msg!Conns -> Msg!Conns \cup {Msg!NoConn}] /\ tmp' \in [Msg!Conns -> Seq(Cell)]
      BY <1>0, <2>0, <2>3
    <3>3. \A d \in Msg!Conns : mReader'[d] \in Busy => ~packet /\ on'[d] \in Msg!Conns
      BY <1>0, <2>0, <3>1 DEF Busy
    <3>4. Len(buffer) <= BufSize BY <1>0
    <3>5. \A d \in Msg!Conns : Len(tmp'[d]) <= BufSize BY <1>0, <3>1, <3>4
    <3>6. MsgType' BY <1>0, <2>0, <2>3, <3>2, <3>3, <3>5 DEF MsgType, Msg!TypeOK
    <3>7. MsgWaits'
      BY <2>0, <2>3, <3>1 DEF MsgWaits, Msg!HasFrame, Msg!BadMagic, Msg!IsMagic, Msg!Declared
    <3> QED BY <3>6, <3>7
  <2> QED BY <1>6, <2>1, <2>2, <2>3 DEF Msg!ReceiveBegin, Msg!Becomes, Msg!Deliver
<1>7. ASSUME NEW r \in Msg!Conns, NEW k \in 1 .. BufSize, Msg!ReadSome(r, k) PROVE (MsgType /\ MsgWaits)'
  <2>0. /\ mReader[r] = "read" /\ cur = on[r] /\ k \in 1 .. Len(wire[on[r]]) /\ k <= BufSize - Len(tmp[r])
        /\ tmp' = [tmp EXCEPT ![r] = @ \o SubSeq(wire[on[r]], 1, k)]
        /\ wire' = [wire EXCEPT ![on[r]] = SubSeq(@, k + 1, Len(@))]
        /\ mReader' = [mReader EXCEPT ![r] = "decode"]
        /\ UNCHANGED <<packet, size, mSent, next, cur, last, buffer, on, got, overlap>>
    BY <1>7 DEF Msg!ReadSome, Msg!Becomes, Msg!Room
  <2>1. ~packet /\ on[r] \in Msg!Conns BY <1>0, <2>0 DEF Busy
  <2>2. PICK c \in Msg!Conns : c = on[r] BY <2>1
  <2>3. wire \in [Msg!Conns -> Seq(Cell)] BY <1>0, <2>1
  <2>4. PICK w \in Seq(Cell) : w = wire[c] BY <2>3
  <2>5. PICK t \in Seq(Cell) : t = tmp[r] BY <1>0
  <2>6. k \in Int /\ k >= 1 /\ k <= Len(w) /\ Len(w) \in Nat /\ Len(t) \in Nat /\ k <= BufSize - Len(t)
    BY <2>0, <2>2, <2>4, <2>5
  <2>7. SubSeq(w, 1, k) \in Seq(Cell) /\ Len(SubSeq(w, 1, k)) = k
    <3>1. 1 \in Int /\ k \in Int /\ 1 <= 1 /\ k <= Len(w) BY <2>6
    <3>2. SubSeq(w, 1, k) \in Seq(Cell) /\ Len(SubSeq(w, 1, k)) = IF 1 <= k THEN k - 1 + 1 ELSE 0
      BY <3>1, Sliced
    <3> QED BY <2>6, <3>2
  <2>8. SubSeq(w, k + 1, Len(w)) \in Seq(Cell)
    <3>1. k + 1 \in Int /\ Len(w) \in Int /\ 1 <= k + 1 /\ Len(w) <= Len(w) BY <2>6
    <3> QED BY <3>1, Sliced
  <2>9. t \o SubSeq(w, 1, k) \in Seq(Cell) /\ Len(t \o SubSeq(w, 1, k)) <= BufSize
    <3>1. t \o SubSeq(w, 1, k) \in Seq(Cell) /\ Len(t \o SubSeq(w, 1, k)) = Len(t) + Len(SubSeq(w, 1, k))
      BY <2>7, Joined
    <3> QED BY <2>6, <2>7, <3>1
  <2>10. /\ tmp' = [tmp EXCEPT ![r] = t \o SubSeq(w, 1, k)]
         /\ wire' = [wire EXCEPT ![c] = SubSeq(w, k + 1, Len(w))]
    BY <2>0, <2>2, <2>4, <2>5
  <2>11. /\ mReader' \in [Msg!Conns -> {"none", "idle", "read", "decode", "gone"}]
         /\ tmp' \in [Msg!Conns -> Seq(Cell)] /\ wire' \in [Msg!Conns -> Seq(Cell)]
    <3>1. mReader' \in [Msg!Conns -> {"none", "idle", "read", "decode", "gone"}] BY <1>0, <2>0
    <3>2. tmp' \in [Msg!Conns -> Seq(Cell)] BY <1>0, <2>9, <2>10
    <3>3. wire' \in [Msg!Conns -> Seq(Cell)] BY <2>3, <2>8, <2>10
    <3> QED BY <3>1, <3>2, <3>3
  <2>12. /\ \A d \in Msg!Conns : mReader'[d] = IF d = r THEN "decode" ELSE mReader[d]
         /\ \A d \in Msg!Conns : tmp'[d] = IF d = r THEN t \o SubSeq(w, 1, k) ELSE tmp[d]
    BY <1>0, <2>0, <2>10
  <2>13. \A d \in Msg!Conns : Len(tmp'[d]) <= BufSize BY <1>0, <2>9, <2>12
  <2>14. \A d \in Msg!Conns : mReader'[d] \in Busy => ~packet /\ on[d] \in Msg!Conns
    BY <1>0, <2>1, <2>12
  <2>15. MsgType' BY <1>0, <2>0, <2>1, <2>11, <2>13, <2>14 DEF MsgType, Msg!TypeOK
  <2>16. MsgWaits'
    <3>1. \A d \in Msg!Conns : mReader'[d] = "read" => mReader[d] = "read" /\ tmp'[d] = tmp[d] BY <2>12
    <3> QED BY <2>0, <3>1 DEF MsgWaits, Msg!HasFrame, Msg!BadMagic, Msg!IsMagic, Msg!Declared
  <2> QED BY <2>15, <2>16
<1>8. ASSUME NEW r \in Msg!Conns, Msg!DecodeSome(r) PROVE (MsgType /\ MsgWaits)'
  <2>0. mReader[r] = "decode" /\ UNCHANGED <<packet, size, mSent, next, cur, last, wire, overlap>>
    BY <1>8 DEF Msg!DecodeSome
  <2>c. on[r] \in Msg!Conns BY <1>0, <2>0 DEF Busy
  <2>1. ASSUME Msg!HasFrame(tmp[r]), got' = [got EXCEPT ![on[r]] = Append(@, Msg!Tag(Msg!FrameOf(tmp[r])))],
               buffer' = Msg!RestOf(tmp[r]), Msg!Returns(r, "idle")
        PROVE  (MsgType /\ MsgWaits)'
    <3>1. PICK b \in Seq(Cell) : b = tmp[r] BY <1>0
    <3>2. /\ Msg!Tag(Msg!FrameOf(b)) \in Int /\ Msg!RestOf(b) \in Seq(Cell)
          /\ Len(b) \in Nat /\ Len(Msg!RestOf(b)) \in Nat /\ Len(Msg!RestOf(b)) < Len(b)
      BY <1>f, <2>1, <3>1
    <3>3. got' \in [Msg!Conns -> Seq(Int)] BY <1>g, <2>1, <2>c, <3>1, <3>2
    <3>4. buffer' \in Seq(Cell) /\ Len(buffer') < BufSize BY <1>0, <2>1, <3>1, <3>2
    <3>5. MsgType' BY <1>0, <1>r, <2>0, <2>1, <3>3, <3>4 DEF MsgType, Msg!TypeOK
    <3> QED BY <1>r, <2>0, <2>1, <3>5
  <2>2. ASSUME Msg!Returns(r, "gone"), UNCHANGED <<buffer, got>> PROVE (MsgType /\ MsgWaits)'
    <3>1. MsgType' BY <1>0, <1>r, <2>0, <2>2 DEF MsgType, Msg!TypeOK
    <3> QED BY <1>r, <2>0, <2>2, <3>1
  <2>3. ASSUME ~Msg!HasFrame(tmp[r]), ~Msg!BadMagic(tmp[r]), mReader' = [mReader EXCEPT ![r] = "read"],
               UNCHANGED <<buffer, on, tmp, got>>
        PROVE  (MsgType /\ MsgWaits)'
    <3>1. \A d \in Msg!Conns : mReader'[d] = IF d = r THEN "read" ELSE mReader[d] BY <1>0, <2>3
    <3>2. mReader' \in [Msg!Conns -> {"none", "idle", "read", "decode", "gone"}] BY <1>0, <2>3
    <3>3. \A d \in Msg!Conns : mReader'[d] \in Busy => mReader[d] \in Busy BY <2>0, <3>1 DEF Busy
    <3>4. MsgType' BY <1>0, <2>0, <2>3, <3>2, <3>3 DEF MsgType, Msg!TypeOK
    <3>5. MsgWaits'
      BY <2>0, <2>3, <3>1 DEF MsgWaits, Msg!HasFrame, Msg!BadMagic, Msg!IsMagic, Msg!Declared
    <3> QED BY <3>4, <3>5
  <2> QED BY <1>8, <2>1, <2>2, <2>3 DEF Msg!DecodeSome, Msg!Becomes, Msg!Deliver
<1>9. ASSUME NEW r \in Msg!Conns, Msg!ReadFails(r) PROVE (MsgType /\ MsgWaits)'
  <2>0. /\ Msg!Returns(r, "gone")
        /\ UNCHANGED <<packet, size, mSent, next, cur, last, wire, buffer, got, overlap>>
    BY <1>9 DEF Msg!ReadFails
  <2>1. MsgType' BY <1>0, <1>r, <2>0 DEF MsgType, Msg!TypeOK
  <2> QED BY <1>r, <2>0, <2>1
<1>10. CASE UNCHANGED Msg!mVars
  <2>1. MsgType' BY <1>0, <1>10 DEF MsgType, Msg!TypeOK, Msg!mVars
  <2> QED BY <1>w, <1>10, <2>1 DEF Msg!mVars
<1> QED BY <1>1, <1>2, <1>3, <1>4, <1>5, <1>6, <1>7, <1>8, <1>9, <1>10 DEF Msg!Next

\* A datagram sent, lost or received keeps them different.
LEMMA PacketSent ==
    ASSUME NEW n \in Msg!Msgs, NEW q \in Seq(Msg!Msgs), NEW w \in Seq(Msg!Msgs), NEW g \in Seq(Int),
           PacketsOf(q, w, g, n)
    PROVE  PacketsOf(Append(q, n), Append(w, n), g, n + 1)
<1> DEFINE p == Append(q, n)
           v == Append(w, n)
<1>0. n \in Nat /\ \A i \in 1 .. Len(q) : q[i] \in Nat
  <2>1. \A i \in 1 .. Len(q) : q[i] \in Msg!Msgs OBVIOUS
  <2> QED BY <2>1 DEF Msg!Msgs
<1>1. /\ Len(q) \in Nat /\ Len(p) = Len(q) + 1 /\ p[Len(q) + 1] = n
      /\ \A i \in 1 .. Len(q) : p[i] = q[i] /\ i \in 1 .. Len(p)
  BY Pushed
<1>2. /\ Len(w) \in Nat /\ Len(v) = Len(w) + 1 /\ v[Len(w) + 1] = n
      /\ \A i \in 1 .. Len(w) : v[i] = w[i] /\ i \in 1 .. Len(v)
  BY Pushed
<1> HIDE DEF p, v
<1>3. \A i \in 1 .. Len(v) : i \in 1 .. Len(w) \/ i = Len(w) + 1 BY <1>2
<1>4. \A i \in 1 .. Len(p) : i \in 1 .. Len(q) \/ i = Len(q) + 1 BY <1>1
<1>5. Len(q) + 1 \in 1 .. Len(p) BY <1>1
<1>6. \A i \in 1 .. Len(q) : q[i] < n BY DEF PacketsOf
<1>7. ASSUME NEW i \in 1 .. Len(p) PROVE p[i] < n + 1
  <2>1. CASE i \in 1 .. Len(q) BY <1>0, <1>1, <1>6, <2>1
  <2>2. CASE i = Len(q) + 1 BY <1>0, <1>1, <2>2
  <2> QED BY <1>4, <2>1, <2>2
<1>8. ASSUME NEW i \in 1 .. Len(w) PROVE w[i] # n
  <2>1. PICK k \in 1 .. Len(q) : w[i] = q[k] BY DEF PacketsOf
  <2> QED BY <1>0, <1>6, <2>1
<1>9. ASSUME NEW i \in 1 .. Len(g) PROVE g[i] # n
  <2>1. PICK k \in 1 .. Len(q) : g[i] = q[k] BY DEF PacketsOf
  <2> QED BY <1>0, <1>6, <2>1
<1>10. ASSUME NEW i \in 1 .. Len(v) PROVE \E k \in 1 .. Len(p) : v[i] = p[k]
  <2>1. CASE i \in 1 .. Len(w)
    <3>1. PICK k \in 1 .. Len(q) : w[i] = q[k] BY <2>1 DEF PacketsOf
    <3> QED BY <1>1, <1>2, <2>1, <3>1
  <2>2. CASE i = Len(w) + 1
    <3>1. v[i] = p[Len(q) + 1] BY <1>1, <1>2, <2>2
    <3> QED BY <1>5, <3>1
  <2> QED BY <1>3, <2>1, <2>2
<1>11. \A i \in 1 .. Len(g) : \E k \in 1 .. Len(p) : g[i] = p[k] BY <1>1 DEF PacketsOf
<1>12. ASSUME NEW i \in 1 .. Len(v), NEW j \in 1 .. Len(v), i # j PROVE v[i] # v[j]
  <2>1. CASE i \in 1 .. Len(w) /\ j \in 1 .. Len(w) BY <1>2, <1>12, <2>1 DEF PacketsOf
  <2>2. CASE i \in 1 .. Len(w) /\ j = Len(w) + 1 BY <1>2, <1>8, <2>2
  <2>3. CASE i = Len(w) + 1 /\ j \in 1 .. Len(w) BY <1>2, <1>8, <2>3
  <2> QED BY <1>3, <1>12, <2>1, <2>2, <2>3
<1>13. ASSUME NEW i \in 1 .. Len(v), NEW j \in 1 .. Len(g) PROVE v[i] # g[j]
  <2>1. CASE i \in 1 .. Len(w) BY <1>2, <2>1 DEF PacketsOf
  <2>2. CASE i = Len(w) + 1 BY <1>2, <1>9, <2>2
  <2> QED BY <1>3, <2>1, <2>2
<1>14. \A i, j \in 1 .. Len(g) : i # j => g[i] # g[j] BY DEF PacketsOf
<1>15. PICK n1 : n1 = n + 1 OBVIOUS
<1>16. PacketsOf(p, v, g, n1) BY <1>7, <1>10, <1>11, <1>12, <1>13, <1>14, <1>15 DEF PacketsOf
<1> QED BY <1>15, <1>16 DEF p, v

LEMMA PacketLost ==
    ASSUME NEW n, NEW q \in Seq(Msg!Msgs), NEW w \in Seq(Msg!Msgs), NEW g \in Seq(Int),
           NEW i \in 1 .. Len(w), PacketsOf(q, w, g, n)
    PROVE  PacketsOf(q, Msg!RemoveAt(w, i), g, n)
<1> DEFINE v == Msg!RemoveAt(w, i)
<1>1. /\ v \in Seq(Msg!Msgs) /\ Len(v) = Len(w) - 1
      /\ \A j \in 1 .. Len(w) - 1 : v[j] = IF j < i THEN w[j] ELSE w[j + 1]
  BY Removed
<1> HIDE DEF v
<1>2. ASSUME NEW j \in 1 .. Len(v) PROVE \E x \in 1 .. Len(w) : v[j] = w[x] /\ x = IF j < i THEN j ELSE j + 1
  <2>1. j \in 1 .. Len(w) - 1 /\ j \in 1 .. Len(w) /\ j + 1 \in 1 .. Len(w) BY <1>1
  <2> QED BY <1>1, <2>1
<1>3. \A j \in 1 .. Len(v) : \E k \in 1 .. Len(q) : v[j] = q[k]
  <2> SUFFICES ASSUME NEW j \in 1 .. Len(v) PROVE \E k \in 1 .. Len(q) : v[j] = q[k]
    OBVIOUS
  <2>1. PICK x \in 1 .. Len(w) : v[j] = w[x] BY <1>2
  <2> QED BY <2>1 DEF PacketsOf
<1>4. \A j, k \in 1 .. Len(v) : j # k => v[j] # v[k]
  <2> SUFFICES ASSUME NEW j \in 1 .. Len(v), NEW k \in 1 .. Len(v), j # k PROVE v[j] # v[k]
    OBVIOUS
  <2>1. PICK x \in 1 .. Len(w) : v[j] = w[x] /\ x = IF j < i THEN j ELSE j + 1 BY <1>2
  <2>2. PICK y \in 1 .. Len(w) : v[k] = w[y] /\ y = IF k < i THEN k ELSE k + 1 BY <1>2
  <2>3. j \in Nat /\ k \in Nat /\ i \in Nat BY <1>1
  <2>4. x # y BY <2>1, <2>2, <2>3
  <2> QED BY <2>1, <2>2, <2>4 DEF PacketsOf
<1>5. \A j \in 1 .. Len(v) : \A k \in 1 .. Len(g) : v[j] # g[k]
  <2> SUFFICES ASSUME NEW j \in 1 .. Len(v), NEW k \in 1 .. Len(g) PROVE v[j] # g[k]
    OBVIOUS
  <2>1. PICK x \in 1 .. Len(w) : v[j] = w[x] BY <1>2
  <2> QED BY <2>1 DEF PacketsOf
<1>6. PacketsOf(q, v, g, n) BY <1>3, <1>4, <1>5 DEF PacketsOf
<1> QED BY <1>6 DEF v

LEMMA PacketGot ==
    ASSUME NEW n, NEW q \in Seq(Msg!Msgs), NEW w \in Seq(Msg!Msgs), NEW g \in Seq(Int),
           NEW i \in 1 .. Len(w), PacketsOf(q, w, g, n)
    PROVE  PacketsOf(q, Msg!RemoveAt(w, i), Append(g, w[i]), n)
<1> DEFINE v == Msg!RemoveAt(w, i)
           h == Append(g, w[i])
<1>0. w[i] \in Int
  <2>1. w[i] \in Msg!Msgs OBVIOUS
  <2> QED BY <2>1 DEF Msg!Msgs
<1>1. PacketsOf(q, v, g, n) BY PacketLost
<1>2. /\ v \in Seq(Msg!Msgs) /\ Len(v) = Len(w) - 1
      /\ \A j \in 1 .. Len(w) - 1 : v[j] = IF j < i THEN w[j] ELSE w[j + 1]
  BY Removed
<1>3. /\ Len(g) \in Nat /\ Len(h) = Len(g) + 1 /\ h[Len(g) + 1] = w[i]
      /\ \A j \in 1 .. Len(g) : h[j] = g[j] /\ j \in 1 .. Len(h)
  BY <1>0, Pushed
<1> HIDE DEF v, h
<1>4. \A j \in 1 .. Len(h) : j \in 1 .. Len(g) \/ j = Len(g) + 1 BY <1>3
<1>5. ASSUME NEW j \in 1 .. Len(v) PROVE v[j] # w[i]
  <2>1. j \in 1 .. Len(w) - 1 /\ j \in 1 .. Len(w) /\ j + 1 \in 1 .. Len(w) /\ i \in Nat BY <1>2
  <2>2. CASE j < i
    <3>1. v[j] = w[j] /\ j # i BY <1>2, <2>1, <2>2
    <3> QED BY <2>1, <3>1 DEF PacketsOf
  <2>3. CASE ~(j < i)
    <3>1. v[j] = w[j + 1] /\ j + 1 # i BY <1>2, <2>1, <2>3
    <3> QED BY <2>1, <3>1 DEF PacketsOf
  <2> QED BY <2>2, <2>3
<1>6. ASSUME NEW j \in 1 .. Len(h) PROVE \E k \in 1 .. Len(q) : h[j] = q[k]
  <2>1. CASE j \in 1 .. Len(g) BY SMTT(30), <1>3, <2>1 DEF PacketsOf
  <2>2. CASE j = Len(g) + 1
    <3>1. \E k \in 1 .. Len(q) : w[i] = q[k] BY DEF PacketsOf
    <3> QED BY <1>3, <2>2, <3>1
  <2> QED BY <1>4, <2>1, <2>2
<1>7. ASSUME NEW j \in 1 .. Len(h), NEW k \in 1 .. Len(h), j # k PROVE h[j] # h[k]
  <2>0. \A x \in 1 .. Len(g) : w[i] # g[x] BY DEF PacketsOf
  <2>1. CASE j \in 1 .. Len(g) /\ k \in 1 .. Len(g) BY <1>3, <1>7, <2>1 DEF PacketsOf
  <2>2. CASE j \in 1 .. Len(g) /\ k = Len(g) + 1 BY <1>3, <2>0, <2>2
  <2>3. CASE j = Len(g) + 1 /\ k \in 1 .. Len(g) BY <1>3, <2>0, <2>3
  <2> QED BY <1>4, <1>7, <2>1, <2>2, <2>3
<1>8. ASSUME NEW j \in 1 .. Len(v), NEW k \in 1 .. Len(h) PROVE v[j] # h[k]
  <2>1. CASE k \in 1 .. Len(g) BY <1>1, <1>3, <2>1 DEF PacketsOf
  <2>2. CASE k = Len(g) + 1 BY <1>3, <1>5, <2>2
  <2> QED BY <1>4, <2>1, <2>2
<1>9. PacketsOf(q, v, h, n) BY <1>1, <1>6, <1>7, <1>8 DEF PacketsOf
<1> QED BY <1>9 DEF v, h

LEMMA MsgPacketsStep == MsgType /\ MsgPackets /\ [Msg!Next]_(Msg!mVars) => MsgPackets'
<1> SUFFICES ASSUME MsgType, MsgPackets, [Msg!Next]_(Msg!mVars), packet' PROVE MsgPackets'
  BY DEF MsgPackets
<1> USE MsgAssumption
<1>0. /\ packet' = packet /\ size' = size
  BY DEF Msg!Next, Msg!mVars, Msg!Connect, Msg!Close, Msg!Send, Msg!Lose, Msg!ReceivePacket,
         Msg!ReceiveBegin, Msg!DecodeSome, Msg!ReadFails, Msg!ReadSome
<1>1. /\ size \in [Msg!Msgs -> Sizes] /\ next \in 1 .. MaxMsgs + 1
      /\ cur \in Msg!Conns \cup {Msg!NoConn}
      /\ mSent \in [Msg!Conns -> Seq(Msg!Msgs)] /\ got \in [Msg!Conns -> Seq(Int)]
      /\ wire \in [Msg!Conns -> Seq(Msg!Msgs)]
      /\ \A r \in Msg!Conns : mReader[r] \notin Busy
      /\ \A m \in Msg!Msgs : size[m] <= SizeLimit
      /\ \A c \in Msg!Conns : PacketsOf(mSent[c], wire[c], got[c], next)
  BY <1>0 DEF MsgType, Msg!TypeOK, MsgPackets
<1>2. ASSUME \A c \in Msg!Conns : PacketsOf(mSent'[c], wire'[c], got'[c], next') PROVE MsgPackets'
  BY <1>0, <1>1, <1>2 DEF MsgPackets
<1>3. CASE UNCHANGED <<mSent, wire, got, next>>
  BY <1>1, <1>2, <1>3
<1>4. CASE Msg!Close
  <2>1. cur \in Msg!Conns /\ wire' = [wire EXCEPT ![cur] = <<>>] /\ UNCHANGED <<mSent, next, got>>
    BY <1>1, <1>4 DEF Msg!Close
  <2>2. \A c \in Msg!Conns : wire'[c] = IF c = cur THEN <<>> ELSE wire[c] BY <1>1, <2>1
  <2>3. ASSUME NEW c \in Msg!Conns, c = cur PROVE PacketsOf(mSent'[c], wire'[c], got'[c], next')
    <3>1. wire'[c] = <<>> /\ 1 .. Len(wire'[c]) = {} BY <2>2, <2>3
    <3>2. PacketsOf(mSent[c], wire[c], got[c], next) BY <1>1
    <3> QED BY <2>1, <3>1, <3>2 DEF PacketsOf
  <2>4. ASSUME NEW c \in Msg!Conns, c # cur PROVE PacketsOf(mSent'[c], wire'[c], got'[c], next')
    BY <1>1, <2>1, <2>2, <2>4
  <2> QED BY <1>2, <2>3, <2>4
<1>5. CASE Msg!Send
  <2>0. /\ cur \in Msg!Conns /\ next <= MaxMsgs /\ next' = next + 1
        /\ mSent' = [mSent EXCEPT ![cur] = Append(@, next)]
        /\ wire' = [wire EXCEPT ![cur] = Append(@, next)] /\ UNCHANGED got
    <3>1. packet BY <1>0
    <3>2. wire' = [wire EXCEPT ![cur] = IF packet THEN Append(@, next) ELSE @ \o Msg!Cells(next)]
      BY <1>5 DEF Msg!Send
    <3>3. wire' = [wire EXCEPT ![cur] = Append(@, next)] BY <3>1, <3>2
    <3> QED BY <1>1, <1>5, <3>3 DEF Msg!Send
  <2>1. next \in Msg!Msgs /\ next \in Nat BY <1>1, <2>0 DEF Msg!Msgs
  <2>2. /\ \A c \in Msg!Conns : mSent'[c] = IF c = cur THEN Append(mSent[c], next) ELSE mSent[c]
        /\ \A c \in Msg!Conns : wire'[c] = IF c = cur THEN Append(wire[c], next) ELSE wire[c]
    BY <1>1, <2>0
  <2>3. ASSUME NEW c \in Msg!Conns, c = cur PROVE PacketsOf(mSent'[c], wire'[c], got'[c], next')
    <3>1. PICK n \in Msg!Msgs : n = next BY <2>1
    <3>2. PacketsOf(mSent[c], wire[c], got[c], n) BY <1>1, <3>1
    <3>3. PacketsOf(Append(mSent[c], n), Append(wire[c], n), got[c], n + 1) BY <1>1, <3>2, PacketSent
    <3> QED BY <2>0, <2>2, <2>3, <3>1, <3>3
  <2>4. ASSUME NEW c \in Msg!Conns, c # cur PROVE PacketsOf(mSent'[c], wire'[c], got'[c], next')
    <3>1. PacketsOf(mSent[c], wire[c], got[c], next) BY <1>1
    <3>2. PICK n \in Nat, n1 \in Nat : n = next /\ n1 = n + 1 BY <2>1
    <3>3. ASSUME NEW i \in 1 .. Len(mSent[c]) PROVE mSent[c][i] < n1
      <4>1. mSent[c][i] < n BY <3>1, <3>2 DEF PacketsOf
      <4>2. mSent[c][i] \in Nat BY <1>1 DEF Msg!Msgs
      <4> QED BY <3>2, <4>1, <4>2
    <3>4. PacketsOf(mSent[c], wire[c], got[c], n1) BY <3>1, <3>3 DEF PacketsOf
    <3> QED BY <2>0, <2>2, <2>4, <3>2, <3>4
  <2> QED BY <1>2, <2>3, <2>4
<1>6. ASSUME NEW i \in Msg!Msgs, Msg!Lose(i) PROVE MsgPackets'
  <2>0. /\ cur \in Msg!Conns /\ i \in DOMAIN wire[cur]
        /\ wire' = [wire EXCEPT ![cur] = Msg!RemoveAt(@, i)] /\ UNCHANGED <<mSent, next, got>>
    BY <1>1, <1>6 DEF Msg!Lose
  <2>1. \A c \in Msg!Conns : wire'[c] = IF c = cur THEN Msg!RemoveAt(wire[c], i) ELSE wire[c]
    BY <1>1, <2>0
  <2>2. ASSUME NEW c \in Msg!Conns, c = cur PROVE PacketsOf(mSent'[c], wire'[c], got'[c], next')
    <3>1. i \in 1 .. Len(wire[c]) /\ PacketsOf(mSent[c], wire[c], got[c], next) BY <1>1, <2>0, <2>2
    <3>2. PacketsOf(mSent[c], Msg!RemoveAt(wire[c], i), got[c], next) BY <1>1, <3>1, PacketLost
    <3> QED BY <2>0, <2>1, <2>2, <3>2
  <2>3. ASSUME NEW c \in Msg!Conns, c # cur PROVE PacketsOf(mSent'[c], wire'[c], got'[c], next')
    BY <1>1, <2>0, <2>1, <2>3
  <2> QED BY <1>2, <2>2, <2>3
<1>7. ASSUME NEW r \in Msg!Conns, NEW i \in Msg!Msgs, Msg!ReceivePacket(r, i) PROVE MsgPackets'
  <2>0. /\ cur \in Msg!Conns /\ i \in DOMAIN wire[cur]
        /\ wire' = [wire EXCEPT ![cur] = Msg!RemoveAt(@, i)] /\ UNCHANGED <<mSent, next>>
    BY <1>1, <1>7 DEF Msg!ReceivePacket
  <2>1. \A c \in Msg!Conns : wire'[c] = IF c = cur THEN Msg!RemoveAt(wire[c], i) ELSE wire[c]
    BY <1>1, <2>0
  <2>2. i \in 1 .. Len(wire[cur]) BY <1>1, <2>0
  <2>3. PICK m \in Msg!Msgs : m = wire[cur][i] BY <1>1, <2>0, <2>2
  <2>4. PICK have : have = SubSeq(Msg!Cells(m), 1, IF size[m] < BufSize THEN size[m] ELSE BufSize) OBVIOUS
  <2>5. IF Msg!Accepted(m)
        THEN got' = [got EXCEPT ![cur] = Append(@, Msg!Tag(SubSeq(have, 1, Msg!Declared(m))))]
        ELSE UNCHANGED got
    BY <1>7, <2>3, <2>4 DEF Msg!ReceivePacket, Msg!Deliver
  <2>6. Msg!Accepted(m) => Msg!Tag(SubSeq(have, 1, Msg!Declared(m))) = m BY <1>1, <2>4, PacketTag
  <2>7. \/ UNCHANGED got
        \/ \A c \in Msg!Conns : got'[c] = IF c = cur THEN Append(got[c], m) ELSE got[c]
    BY <1>1, <2>0, <2>5, <2>6
  <2>8. ASSUME NEW c \in Msg!Conns, c = cur PROVE PacketsOf(mSent'[c], wire'[c], got'[c], next')
    <3>1. i \in 1 .. Len(wire[c]) /\ PacketsOf(mSent[c], wire[c], got[c], next) BY <1>1, <2>2, <2>8
    <3>2. PacketsOf(mSent[c], Msg!RemoveAt(wire[c], i), got[c], next) BY <1>1, <3>1, PacketLost
    <3>3. PacketsOf(mSent[c], Msg!RemoveAt(wire[c], i), Append(got[c], wire[c][i]), next)
      BY <1>1, <3>1, PacketGot
    <3>4. wire[c][i] = m BY <2>3, <2>8
    <3> QED BY <2>0, <2>1, <2>7, <2>8, <3>2, <3>3, <3>4
  <2>9. ASSUME NEW c \in Msg!Conns, c # cur PROVE PacketsOf(mSent'[c], wire'[c], got'[c], next')
    BY <1>1, <2>0, <2>1, <2>7, <2>9
  <2> QED BY <1>2, <2>8, <2>9
<1>8. CASE Msg!Connect BY <1>3, <1>8 DEF Msg!Connect
<1>9. ASSUME NEW r \in Msg!Conns, Msg!ReadFails(r) PROVE MsgPackets'
  BY <1>3, <1>9 DEF Msg!ReadFails
<1>10. ASSUME NEW r \in Msg!Conns, Msg!ReceiveBegin(r) \/ Msg!DecodeSome(r) PROVE MsgPackets'
  BY <1>0, <1>1, <1>10 DEF Msg!ReceiveBegin, Msg!DecodeSome, Busy
<1>11. ASSUME NEW r \in Msg!Conns, NEW k \in 1 .. BufSize, Msg!ReadSome(r, k) PROVE MsgPackets'
  BY <1>1, <1>11 DEF Msg!ReadSome, Busy
<1>12. CASE UNCHANGED Msg!mVars BY <1>3, <1>12 DEF Msg!mVars
<1> QED BY <1>4, <1>5, <1>6, <1>7, <1>8, <1>9, <1>10, <1>11, <1>12 DEF Msg!Next

\* A message sent comes behind all that is to be read.
LEMMA ReadsSent ==
    ASSUME NEW sz \in [Msg!Msgs -> Nat \ {0}], NEW s \in Seq(Cell), NEW n \in Msg!Msgs,
           NEW q \in Seq(Msg!Msgs), NEW k \in Nat, ReadsOn(s, q, k, n, sz),
           NEW t \in Seq(Cell), Len(t) = sz[n], \A i \in 1 .. Len(t) : t[i] = <<n, i>>
    PROVE  ReadsOn(s \o t, Append(q, n), k, n + 1, sz)
<1> DEFINE u == s \o t
           p == Append(q, n)
<1>0. n \in Nat /\ sz[n] \in Nat \ {0} BY DEF Msg!Msgs
<1>1. IsRun(u, n + 1, sz)
  <2>1. IsRun(s, n, sz) BY DEF ReadsOn
  <2> QED BY <2>1, RunSent
<1>2. /\ Len(q) \in Nat /\ p \in Seq(Msg!Msgs) /\ Len(p) = Len(q) + 1 /\ p[Len(q) + 1] = n
      /\ \A i \in 1 .. Len(q) : p[i] = q[i] /\ i \in 1 .. Len(p)
  BY Pushed
<1>3. /\ u \in Seq(Cell) /\ Len(s) \in Nat /\ Len(t) \in Nat /\ Len(u) = Len(s) + Len(t)
      /\ \A i \in 1 .. Len(s) + Len(t) : u[i] = IF i <= Len(s) THEN s[i] ELSE t[i - Len(s)]
  BY Joined
<1> HIDE DEF u, p
<1>4. u # <<>> /\ 1 \in 1 .. Len(s) + Len(t) BY <1>0, <1>3
<1>5. PICK n1 \in Nat : n1 = n + 1 BY <1>0
<1>6. ASSUME NEW i \in 1 .. Len(p) PROVE p[i] = n1 - 1 - Len(p) + i
  <2>1. CASE i \in 1 .. Len(q)
    <3>1. q[i] = n - 1 - Len(q) + i BY <2>1 DEF ReadsOn
    <3>2. p[i] = n - 1 - Len(q) + i BY <1>2, <2>1, <3>1
    <3> QED BY <1>0, <1>2, <1>5, <2>1, <3>2
  <2>2. CASE i = Len(q) + 1 BY <1>0, <1>2, <1>5, <2>2
  <2>3. i \in 1 .. Len(q) \/ i = Len(q) + 1 BY <1>2
  <2> QED BY <2>1, <2>2, <2>3
<1>7. Follows(u, p, k)
  <2>1. CASE s = <<>> /\ k = Len(q)
    <3>1. Len(s) = 0 /\ ~(1 <= Len(s)) /\ 1 - Len(s) = 1 /\ 1 \in 1 .. Len(t) BY <1>0, <1>3, <2>1
    <3>2. u[1] = t[1] BY <1>3, <1>4, <3>1
    <3>3. u[1] = <<p[k + 1], 1>> BY <1>2, <2>1, <3>1, <3>2
    <3>4. k + 1 \in 1 .. Len(p) BY <1>2, <2>1
    <3> QED BY <1>4, <3>3, <3>4 DEF Follows
  <2>2. ASSUME s # <<>> PROVE u[1] = s[1]
    <3>1. 1 <= Len(s) BY <1>3, <2>2
    <3> QED BY <1>3, <1>4, <3>1
  <2>3. CASE s # <<>> /\ k + 1 \in 1 .. Len(q) /\ s[1] = <<q[k + 1], 1>>
    <3>1. k + 1 \in 1 .. Len(p) /\ p[k + 1] = q[k + 1] BY <1>2, <2>3
    <3> QED BY <1>4, <2>2, <2>3, <3>1 DEF Follows
  <2>4. CASE s # <<>> /\ s[1][2] # 1
    BY <1>4, <2>2, <2>4 DEF Follows
  <2> QED BY <2>1, <2>3, <2>4 DEF ReadsOn, Follows
<1>8. ReadsOn(u, p, k, n1, sz) BY <1>1, <1>5, <1>6, <1>7 DEF ReadsOn
<1> QED BY <1>5, <1>8 DEF u, p

\* What was received stays the start of what was sent, and grows with it.
LEMMA GotSent ==
    ASSUME NEW sz, NEW n \in Msg!Msgs, NEW q \in Seq(Msg!Msgs), NEW g \in Seq(Int), GotOf(g, q, sz)
    PROVE  GotOf(g, Append(q, n), sz)
<1> DEFINE p == Append(q, n)
<1>1. \A i \in 1 .. Len(q) : p[i] = q[i] /\ i \in 1 .. Len(p) BY Pushed
<1> HIDE DEF p
<1>2. GotOf(g, p, sz) BY <1>1 DEF GotOf
<1> QED BY <1>2 DEF p

LEMMA GotMore ==
    ASSUME NEW sz, NEW q \in Seq(Msg!Msgs), NEW g \in Seq(Int), GotOf(g, q, sz), NEW x \in Int,
           Len(g) + 1 \in 1 .. Len(q), x \in {q[Len(g) + 1], -q[Len(g) + 1]},
           sz[q[Len(g) + 1]] <= SizeLimit => x = q[Len(g) + 1]
    PROVE  GotOf(Append(g, x), q, sz)
<1> DEFINE h == Append(g, x)
<1>1. /\ Len(g) \in Nat /\ Len(h) = Len(g) + 1 /\ h[Len(g) + 1] = x
      /\ \A i \in 1 .. Len(g) : h[i] = g[i]
  BY Pushed
<1> HIDE DEF h
<1>2. \A i \in 1 .. Len(h) : i \in 1 .. Len(g) \/ i = Len(g) + 1 BY <1>1
<1>3. ASSUME NEW i \in 1 .. Len(h)
      PROVE  i \in 1 .. Len(q) /\ h[i] \in {q[i], -q[i]} /\ (sz[q[i]] <= SizeLimit => h[i] = q[i])
  <2>1. CASE i \in 1 .. Len(g) BY <1>1, <2>1 DEF GotOf
  <2>2. CASE i = Len(g) + 1 BY <1>1, <2>2
  <2> QED BY <1>2, <2>1, <2>2
<1>4. GotOf(h, q, sz) BY <1>3 DEF GotOf
<1> QED BY <1>4 DEF h

\* Concatenation is associative (what the buffer holds, then the wire).
LEMMA Associated ==
    ASSUME NEW a \in Seq(Cell), NEW b \in Seq(Cell), NEW c \in Seq(Cell)
    PROVE  (a \o b) \o c = a \o (b \o c)
BY ConcatAssociative, SMTT(60)

\* Moving cells from the wire to the reader leaves the stream as it is.
LEMMA Moved ==
    ASSUME NEW a \in Seq(Cell), NEW w \in Seq(Cell), NEW k \in 1 .. Len(w)
    PROVE  (a \o SubSeq(w, 1, k)) \o SubSeq(w, k + 1, Len(w)) = a \o w
<1>0. Len(w) \in Nat /\ k \in Nat /\ k >= 1 /\ k <= Len(w) OBVIOUS
<1>1. SubSeq(w, 1, k) \o SubSeq(w, k + 1, Len(w)) = SubSeq(w, 1, Len(w))
  <2>1. 1 \in 1 .. Len(w) + 1 /\ k \in 1 - 1 .. Len(w) /\ Len(w) \in k .. Len(w) BY <1>0
  <2> QED BY <2>1, ConcatAdjacentSubSeq
<1>2. SubSeq(w, 1, Len(w)) = w BY SubSeqFull
<1>3. SubSeq(w, 1, k) \in Seq(Cell)
  <2>1. 1 \in Int /\ k \in Int /\ 1 <= 1 /\ k <= Len(w) BY <1>0
  <2> QED BY <2>1, Sliced
<1>4. SubSeq(w, k + 1, Len(w)) \in Seq(Cell)
  <2>1. k + 1 \in Int /\ Len(w) \in Int /\ 1 <= k + 1 /\ Len(w) <= Len(w) BY <1>0
  <2> QED BY <2>1, Sliced
<1>5. PICK x \in Seq(Cell), y \in Seq(Cell) : x = SubSeq(w, 1, k) /\ y = SubSeq(w, k + 1, Len(w))
  BY <1>3, <1>4
<1>6. (a \o x) \o y = a \o (x \o y) BY SMTT(30), Associated
<1> QED BY <1>1, <1>2, <1>5, <1>6

LEMMA MsgStreamStep == MsgType /\ MsgStream /\ [Msg!Next]_(Msg!mVars) => MsgStream'
<1> SUFFICES ASSUME MsgType, MsgStream, [Msg!Next]_(Msg!mVars), ~packet', ~overlap' PROVE MsgStream'
  BY DEF MsgStream
<1> USE MsgAssumption
<1>0. packet' = packet /\ size' = size
  BY DEF Msg!Next, Msg!mVars, Msg!Connect, Msg!Close, Msg!Send, Msg!Lose, Msg!ReceivePacket,
         Msg!ReceiveBegin, Msg!DecodeSome, Msg!ReadFails, Msg!ReadSome
<1>1. ~packet /\ ~overlap
  <2>0. ~packet BY <1>0
  <2>1. CASE Msg!Connect
    <3>1. overlap' = (overlap \/ \E c \in Msg!Conns : mReader[c] \in {"idle", "read", "decode"})
      BY <2>1 DEF Msg!Connect
    <3> QED BY <2>0, <3>1, Zenon
  <2>2. CASE Msg!Close
    <3>1. overlap' = (overlap \/ \E c \in Msg!Conns : mReader[c] = "decode") BY <2>2 DEF Msg!Close
    <3> QED BY <2>0, <3>1, Zenon
  <2>3. CASE ~Msg!Connect /\ ~Msg!Close
    <3>1. overlap' = overlap
      BY <2>3 DEF Msg!Next, Msg!mVars, Msg!Send, Msg!Lose, Msg!ReceivePacket,
         Msg!ReceiveBegin, Msg!DecodeSome, Msg!ReadFails, Msg!ReadSome
    <3> QED BY <2>0, <3>1
  <2> QED BY <2>1, <2>2, <2>3
<1>2. /\ size \in [Msg!Msgs -> Sizes] /\ next \in 1 .. MaxMsgs + 1
      /\ cur \in Msg!Conns \cup {Msg!NoConn} /\ last \in 0 .. MaxConns
      /\ mReader \in [Msg!Conns -> {"none", "idle", "read", "decode", "gone"}]
      /\ on \in [Msg!Conns -> Msg!Conns \cup {Msg!NoConn}]
      /\ mSent \in [Msg!Conns -> Seq(Msg!Msgs)] /\ got \in [Msg!Conns -> Seq(Int)]
      /\ buffer \in Seq(Cell) /\ tmp \in [Msg!Conns -> Seq(Cell)]
      /\ wire \in [Msg!Conns -> Seq(Cell)]
  BY <1>1 DEF MsgType, Msg!TypeOK
<1>3. /\ cur \in {Msg!NoConn, last} /\ (cur = Msg!NoConn => buffer = <<>>)
      /\ \A c \in Msg!Conns : StreamOf(c)
  BY <1>1 DEF MsgStream
<1>4. Msg!NoConn \notin Msg!Conns /\ \A c \in Msg!Conns : c \in Nat BY DEF Msg!NoConn, Msg!Conns
<1>5. size \in [Msg!Msgs -> Nat \ {0}] BY <1>2
<1>6. ASSUME cur' \in {Msg!NoConn, last'}, cur' = Msg!NoConn => buffer' = <<>>,
             \A c \in Msg!Conns : StreamOf(c)'
      PROVE  MsgStream'
  BY <1>6 DEF MsgStream
\* A connection that a step leaves alone.
<1>7. ASSUME NEW c \in Msg!Conns, c > last' => c > last,
             mReader'[c] = mReader[c], wire'[c] = wire[c], mSent'[c] = mSent[c], got'[c] = got[c],
             on'[c] = on[c], mReader[c] \in Live => last' = last, mReader[c] = "decode" => cur' = cur,
             cur' # c
      PROVE  StreamOf(c)'
  BY <1>0, <1>3, <1>7 DEF StreamOf, Live, Busy
\* The reader of a connection is gone.
<1>8. ASSUME NEW r \in Msg!Conns, mReader[r] # "none", mReader'[r] = "gone",
             \A d \in Msg!Conns : d # r => mReader'[d] = mReader[d] /\ on'[d] = on[d] /\ tmp'[d] = tmp[d],
             UNCHANGED <<mSent, next, cur, last, wire, buffer, got>>
      PROVE  MsgStream'
  <2>1. ASSUME NEW c \in Msg!Conns, c = r PROVE StreamOf(c)'
    BY <1>0, <1>3, <1>8, <2>1 DEF StreamOf, Live, Busy
  <2>2. ASSUME NEW c \in Msg!Conns, c # r PROVE StreamOf(c)'
    <3>1. Held(c)' = Held(c) BY <1>8, <2>2 DEF Held
    <3> QED BY <1>0, <1>3, <1>8, <2>2, <3>1 DEF StreamOf
  <2> QED BY <1>3, <1>6, <1>8, <2>1, <2>2
\* A reader of the present connection that finds a frame.
<1>9. ASSUME NEW r \in Msg!Conns, r = last, cur = r, mReader[r] \in Live,
             NEW b \in Seq(Cell), b = Held(r), Msg!HasFrame(b),
             got' = [got EXCEPT ![r] = Append(@, Msg!Tag(Msg!FrameOf(b)))], buffer' = Msg!RestOf(b),
             mReader'[r] = "idle",
             \A d \in Msg!Conns : d # r => mReader'[d] = mReader[d] /\ on'[d] = on[d] /\ tmp'[d] = tmp[d],
             UNCHANGED <<mSent, next, cur, last, wire>>
      PROVE  MsgStream'
  <2>1. PICK w \in Seq(Cell) : w = wire[r] BY <1>2
  <2>2. PICK q \in Seq(Msg!Msgs) : q = mSent[r] BY <1>2
  <2>3. PICK g \in Seq(Int) : g = got[r] BY <1>2
  <2>4. PICK n \in Nat : n = next BY <1>2
  <2>5. PICK k \in Nat : k = Len(g) OBVIOUS
  <2>6. ReadsOn(b \o w, q, k, n, size) /\ GotOf(g, q, size)
    BY <1>3, <1>9, <2>1, <2>2, <2>3, <2>4, <2>5 DEF StreamOf
  <2>7. PICK x : x = Msg!Tag(Msg!FrameOf(b)) OBVIOUS
  <2>8. /\ k + 1 \in 1 .. Len(q) /\ x \in {q[k + 1], -q[k + 1]}
        /\ size[q[k + 1]] <= SizeLimit => x = q[k + 1]
        /\ ReadsOn(Msg!RestOf(b) \o w, q, k + 1, n, size)
    BY <1>2, <1>9, <2>6, <2>7, ReadOn
  <2>9. x \in Int
    <3>1. q[k + 1] \in Msg!Msgs BY <2>8
    <3> QED BY <2>8, <3>1 DEF Msg!Msgs
  <2>10. GotOf(Append(g, x), q, size) BY <2>5, <2>6, <2>8, <2>9, GotMore
  <2>11. \A d \in Msg!Conns : got'[d] = IF d = r THEN Append(g, x) ELSE got[d]
    BY <1>2, <1>9, <2>3, <2>7
  <2>12. Len(Append(g, x)) = k + 1 BY <2>5, <2>9
  <2>13. ASSUME NEW c \in Msg!Conns, c = r PROVE StreamOf(c)'
    <3>1. got'[c] = Append(g, x) /\ mSent'[c] = q /\ wire'[c] = w /\ next' = n BY <1>9, <2>1, <2>2, <2>4, <2>11, <2>13
    <3>2. Held(c)' = Msg!RestOf(b) BY <1>9, <2>13 DEF Held
    <3>3. ReadsOn((Held(c) \o wire[c])', mSent'[c], Len(got'[c]), next', size')
      BY <1>0, <2>8, <2>12, <3>1, <3>2
    <3>4. GotOf(got'[c], mSent'[c], size') BY <1>0, <2>10, <3>1
    <3>5. ~(c > last') /\ c = last' /\ mReader'[c] = "idle" BY <1>2, <1>9, <2>13
    <3> QED BY <3>3, <3>4, <3>5 DEF StreamOf, Live, Busy
  <2>14. ASSUME NEW c \in Msg!Conns, c # r PROVE StreamOf(c)'
    BY <1>7, <1>9, <2>11, <2>14
  <2> QED BY <1>3, <1>4, <1>6, <1>9, <2>13, <2>14
\* A reader of the present connection that moves cells, if any, and goes on.
<1>10. ASSUME NEW r \in Msg!Conns, r = last, cur = r, mReader[r] \in Live, mReader'[r] \in Busy,
              on'[r] = r, tmp'[r] \o wire'[r] = Held(r) \o wire[r],
              \A d \in Msg!Conns : d # r => mReader'[d] = mReader[d] /\ on'[d] = on[d] /\ wire'[d] = wire[d],
              UNCHANGED <<mSent, next, cur, last, got, buffer>>
       PROVE  MsgStream'
  <2>1. ASSUME NEW c \in Msg!Conns, c = r PROVE StreamOf(c)'
    <3>1. (Held(c) \o wire[c])' = Held(c) \o wire[c] BY <1>10, <2>1 DEF Held, Busy
    <3>2. ReadsOn(Held(c) \o wire[c], mSent[c], Len(got[c]), next, size) BY <1>3, <1>10, <2>1 DEF StreamOf
    <3>3. ReadsOn((Held(c) \o wire[c])', mSent'[c], Len(got'[c]), next', size') BY <1>0, <1>10, <3>1, <3>2
    <3>4. GotOf(got'[c], mSent'[c], size') BY <1>0, <1>3, <1>10 DEF StreamOf
    <3>5. ~(c > last') /\ c = last' /\ cur' = c BY <1>2, <1>10, <2>1
    <3> QED BY <1>10, <2>1, <3>3, <3>4, <3>5 DEF StreamOf
  <2>2. ASSUME NEW c \in Msg!Conns, c # r PROVE StreamOf(c)'
    BY <1>7, <1>10, <2>2
  <2> QED BY <1>3, <1>4, <1>6, <1>10, <2>1, <2>2
<1>11. CASE Msg!Connect
  <2>0. /\ cur = Msg!NoConn /\ last < MaxConns /\ last' = last + 1 /\ cur' = last + 1
        /\ mReader' = [mReader EXCEPT ![last + 1] = "idle"]
        /\ \A c \in Msg!Conns : mReader[c] \notin Live
        /\ UNCHANGED <<mSent, next, wire, buffer, on, tmp, got>>
    BY <1>11 DEF Msg!Connect, Live
  <2>1. PICK n \in Msg!Conns : n = last + 1 BY <1>2, <2>0 DEF Msg!Conns
  <2>2. \A d \in Msg!Conns : mReader'[d] = IF d = n THEN "idle" ELSE mReader[d] BY <1>2, <2>0, <2>1
  <2>3. n > last BY <1>2, <2>1
  <2>4. ASSUME NEW c \in Msg!Conns, c = n PROVE StreamOf(c)'
    <3>1. wire[c] = <<>> /\ mSent[c] = <<>> /\ got[c] = <<>> BY <1>3, <2>3, <2>4 DEF StreamOf
    <3>2. Held(c)' = <<>> BY <1>3, <2>0, <2>2, <2>4 DEF Held
    <3>3. <<>> \o <<>> = <<>> /\ Len(<<>>) = 0 /\ 1 .. Len(<<>>) = {} OBVIOUS
    <3>4. (Held(c) \o wire[c])' = <<>> /\ mSent'[c] = <<>> /\ got'[c] = <<>> BY <2>0, <3>1, <3>2, <3>3
    <3>5. ReadsOn((Held(c) \o wire[c])', mSent'[c], Len(got'[c]), next', size')
      BY <3>3, <3>4 DEF ReadsOn, IsRun, Follows
    <3>6. GotOf(got'[c], mSent'[c], size') BY <3>3, <3>4 DEF GotOf
    <3>7. ~(c > last') /\ c = last' /\ mReader'[c] = "idle" BY <1>2, <2>0, <2>1, <2>2, <2>4
    <3> QED BY <3>5, <3>6, <3>7 DEF StreamOf, Busy
  <2>5. ASSUME NEW c \in Msg!Conns, c # n PROVE StreamOf(c)'
    <3>1. c > last' => c > last BY <1>2, <1>4, <2>0
    <3>2. mReader[c] \notin Live /\ mReader[c] # "decode" BY <2>0 DEF Live
    <3> QED BY <1>7, <2>0, <2>1, <2>2, <2>5, <3>1, <3>2
  <2> QED BY <1>4, <1>6, <2>0, <2>1, <2>4, <2>5
<1>12. CASE Msg!Close
  <2>0. /\ cur \in Msg!Conns /\ cur' = Msg!NoConn /\ buffer' = <<>>
        /\ wire' = [wire EXCEPT ![cur] = <<>>] /\ \A c \in Msg!Conns : mReader[c] # "decode"
        /\ UNCHANGED <<mSent, next, last, mReader, on, tmp, got>>
    BY <1>2, <1>12 DEF Msg!Close, Msg!Flush
  <2>1. \A c \in Msg!Conns : wire'[c] = IF c = cur THEN <<>> ELSE wire[c] BY <1>2, <2>0
  <2>2. ASSUME NEW c \in Msg!Conns PROVE StreamOf(c)'
    BY <1>0, <1>3, <1>4, <2>0, <2>1 DEF StreamOf
  <2> QED BY <1>6, <2>0, <2>2
<1>13. CASE Msg!Send
  <2>0. /\ cur \in Msg!Conns /\ next <= MaxMsgs /\ next' = next + 1
        /\ mSent' = [mSent EXCEPT ![cur] = Append(@, next)]
        /\ wire' = [wire EXCEPT ![cur] = @ \o Msg!Cells(next)]
        /\ UNCHANGED <<cur, last, buffer, mReader, on, tmp, got>>
    <3>1. wire' = [wire EXCEPT ![cur] = IF packet THEN Append(@, next) ELSE @ \o Msg!Cells(next)]
      BY <1>13 DEF Msg!Send
    <3>2. wire' = [wire EXCEPT ![cur] = @ \o Msg!Cells(next)] BY <1>1, <3>1
    <3> QED BY <1>2, <1>13, <3>2 DEF Msg!Send
  <2>1. PICK n \in Msg!Msgs : n = next BY <1>2, <2>0 DEF Msg!Msgs
  <2>2. PICK r \in Msg!Conns : r = cur BY <2>0
  <2>3. PICK t : t = Msg!Cells(n) OBVIOUS
  <2>4. t \in Seq(Cell) /\ Len(t) = size[n] /\ \A i \in 1 .. size[n] : t[i] = <<n, i>>
    BY <1>2, <2>3, CellsFacts
  <2>5. /\ \A c \in Msg!Conns : mSent'[c] = IF c = r THEN Append(mSent[c], n) ELSE mSent[c]
        /\ \A c \in Msg!Conns : wire'[c] = IF c = r THEN wire[c] \o t ELSE wire[c]
    BY <1>2, <2>0, <2>1, <2>2, <2>3
  <2>6. ASSUME NEW c \in Msg!Conns, c = r PROVE StreamOf(c)'
    <3>1. PICK q \in Seq(Msg!Msgs), w \in Seq(Cell), h \in Seq(Cell), g \in Seq(Int), k \in Nat :
            q = mSent[c] /\ w = wire[c] /\ h = Held(c) /\ g = got[c] /\ k = Len(got[c])
      <4>1. Held(c) \in Seq(Cell) BY <1>2 DEF Held
      <4>2. mSent[c] \in Seq(Msg!Msgs) /\ wire[c] \in Seq(Cell) /\ got[c] \in Seq(Int) /\ Len(got[c]) \in Nat
        BY <1>2
      <4> QED BY <4>1, <4>2
    <3>2. GotOf(g, q, size) BY <1>3, <3>1 DEF StreamOf
    <3>3. GotOf(g, Append(q, n), size) BY <3>2, GotSent
    <3>4. ASSUME mReader[c] \in Live
          PROVE  ReadsOn((Held(c) \o wire[c])', mSent'[c], Len(got'[c]), next', size')
      <4>1. ReadsOn(h \o w, q, k, n, size) BY <1>3, <2>1, <2>2, <2>6, <3>1, <3>4 DEF StreamOf
      <4>2. h \o w \in Seq(Cell) BY Joined
      <4>3. PICK s \in Seq(Cell) : s = h \o w BY <4>2
      <4>4. ReadsOn(s, q, k, n, size) BY <4>1, <4>3
      <4>5. \A i \in 1 .. Len(t) : t[i] = <<n, i>> BY <2>4
      <4>6. ReadsOn(s \o t, Append(q, n), k, n + 1, size) BY <1>5, <2>4, <4>4, <4>5, ReadsSent
      <4>7. s \o t = h \o (w \o t)
        <5>1. (h \o w) \o t = h \o (w \o t) BY <2>4, Associated
        <5> QED BY <4>3, <5>1
      <4>8. Held(c)' = h BY <2>0, <3>1 DEF Held
      <4>9. (Held(c) \o wire[c])' = s \o t BY <2>5, <2>6, <3>1, <4>7, <4>8
      <4>10. mSent'[c] = Append(q, n) /\ Len(got'[c]) = k /\ next' = n + 1 BY <2>0, <2>1, <2>5, <2>6, <3>1
      <4> QED BY <1>0, <4>6, <4>9, <4>10
    <3>5. GotOf(got'[c], mSent'[c], size') BY <1>0, <2>0, <2>5, <2>6, <3>1, <3>3
    <3>6. ~(c > last) BY <1>2, <1>3, <1>4, <2>2, <2>6
    <3> QED BY <1>3, <2>0, <2>2, <2>6, <3>4, <3>5, <3>6 DEF StreamOf
  <2>7. ASSUME NEW c \in Msg!Conns, c # r PROVE StreamOf(c)'
    BY <1>7, <2>0, <2>2, <2>5, <2>7
  <2> QED BY <1>3, <1>6, <2>0, <2>6, <2>7
<1>14. ASSUME NEW r \in Msg!Conns, Msg!ReceiveBegin(r) PROVE MsgStream'
  <2>0. /\ mReader[r] = "idle" /\ cur # Msg!NoConn
        /\ UNCHANGED <<mSent, next, cur, last, wire>>
    BY <1>14 DEF Msg!ReceiveBegin
  <2>1. r = last /\ cur = r /\ mReader[r] \in Live BY <1>3, <2>0 DEF StreamOf, Live
  <2>2. Held(r) = buffer BY <2>0 DEF Held
  <2>3. ASSUME Msg!HasFrame(buffer), got' = [got EXCEPT ![cur] = Append(@, Msg!Tag(Msg!FrameOf(buffer)))],
               buffer' = Msg!RestOf(buffer), UNCHANGED <<mReader, on, tmp>>
        PROVE  MsgStream'
    <3>1. PICK b \in Seq(Cell) : b = buffer BY <1>2
    <3> QED BY <1>9, <2>0, <2>1, <2>2, <2>3, <3>1
  <2>4. ASSUME mReader' = [mReader EXCEPT ![r] = "gone"], UNCHANGED <<buffer, on, tmp, got>> PROVE MsgStream'
    <3>1. mReader'[r] = "gone" /\ \A d \in Msg!Conns : d # r => mReader'[d] = mReader[d] BY <1>2, <2>4
    <3> QED BY <1>8, <2>0, <2>4, <3>1
  <2>5. ASSUME mReader' = [mReader EXCEPT ![r] = "read"], on' = [on EXCEPT ![r] = cur],
               tmp' = [tmp EXCEPT ![r] = buffer], UNCHANGED <<buffer, got>>
        PROVE  MsgStream'
    <3>1. /\ mReader'[r] \in Busy /\ on'[r] = r /\ tmp'[r] = buffer
          /\ \A d \in Msg!Conns : d # r => mReader'[d] = mReader[d] /\ on'[d] = on[d]
      BY <1>2, <2>1, <2>5 DEF Busy
    <3>2. tmp'[r] \o wire'[r] = Held(r) \o wire[r] BY <2>0, <2>2, <3>1
    <3> QED BY <1>10, <2>0, <2>1, <2>5, <3>1, <3>2
  <2> QED BY <1>14, <2>3, <2>4, <2>5 DEF Msg!ReceiveBegin, Msg!Becomes, Msg!Deliver
<1>15. ASSUME NEW r \in Msg!Conns, NEW k \in 1 .. BufSize, Msg!ReadSome(r, k) PROVE MsgStream'
  <2>0. /\ mReader[r] = "read" /\ cur = on[r] /\ k \in 1 .. Len(wire[on[r]])
        /\ tmp' = [tmp EXCEPT ![r] = @ \o SubSeq(wire[on[r]], 1, k)]
        /\ wire' = [wire EXCEPT ![on[r]] = SubSeq(@, k + 1, Len(@))]
        /\ mReader' = [mReader EXCEPT ![r] = "decode"]
        /\ UNCHANGED <<mSent, next, cur, last, buffer, on, got>>
    BY <1>15 DEF Msg!ReadSome, Msg!Becomes
  <2>1. r = last /\ on[r] = r /\ cur = r /\ mReader[r] \in Live BY <1>3, <2>0 DEF StreamOf, Live, Busy
  <2>2. PICK w \in Seq(Cell), t \in Seq(Cell) : w = wire[r] /\ t = tmp[r] BY <1>2
  <2>3. /\ \A d \in Msg!Conns : mReader'[d] = IF d = r THEN "decode" ELSE mReader[d]
        /\ tmp'[r] = t \o SubSeq(w, 1, k) /\ wire'[r] = SubSeq(w, k + 1, Len(w))
        /\ \A d \in Msg!Conns : d # r => wire'[d] = wire[d]
    BY <1>2, <2>0, <2>1, <2>2
  <2>4. tmp'[r] \o wire'[r] = Held(r) \o wire[r]
    <3>1. k \in 1 .. Len(w) BY <2>0, <2>1, <2>2
    <3>2. (t \o SubSeq(w, 1, k)) \o SubSeq(w, k + 1, Len(w)) = t \o w BY <3>1, Moved
    <3>3. Held(r) = t BY <2>0, <2>2 DEF Held
    <3> QED BY <2>2, <2>3, <3>2, <3>3
  <2>5. mReader'[r] \in Busy /\ on'[r] = r BY <2>0, <2>1, <2>3 DEF Busy
  <2>6. \A d \in Msg!Conns : d # r => mReader'[d] = mReader[d] /\ on'[d] = on[d] /\ wire'[d] = wire[d]
    BY <2>0, <2>3
  <2>7. UNCHANGED <<mSent, next, cur, last, got, buffer>> BY <2>0
  <2> QED BY <1>10, <2>1, <2>4, <2>5, <2>6, <2>7
<1>16. ASSUME NEW r \in Msg!Conns, Msg!DecodeSome(r) PROVE MsgStream'
  <2>0. mReader[r] = "decode" /\ UNCHANGED <<mSent, next, cur, last, wire>>
    BY <1>16 DEF Msg!DecodeSome
  <2>1. r = last /\ on[r] = r /\ cur = r /\ mReader[r] \in Live BY <1>3, <2>0 DEF StreamOf, Live, Busy
  <2>2. Held(r) = tmp[r] BY <2>0 DEF Held
  <2>3. ASSUME NEW x \in {"idle", "gone"}, Msg!Returns(r, x)
        PROVE  /\ mReader'[r] = x
               /\ \A d \in Msg!Conns : d # r => mReader'[d] = mReader[d] /\ on'[d] = on[d] /\ tmp'[d] = tmp[d]
    BY <1>2, <2>3 DEF Msg!Returns, Msg!Becomes
  <2>4. ASSUME Msg!HasFrame(tmp[r]), got' = [got EXCEPT ![on[r]] = Append(@, Msg!Tag(Msg!FrameOf(tmp[r])))],
               buffer' = Msg!RestOf(tmp[r]), Msg!Returns(r, "idle")
        PROVE  MsgStream'
    <3>1. PICK b \in Seq(Cell) : b = tmp[r] BY <1>2
    <3>2. /\ mReader'[r] = "idle"
          /\ \A d \in Msg!Conns : d # r => mReader'[d] = mReader[d] /\ on'[d] = on[d] /\ tmp'[d] = tmp[d]
      BY <2>3, <2>4
    <3> QED BY <1>9, <2>0, <2>1, <2>2, <2>4, <3>1, <3>2
  <2>5. ASSUME Msg!Returns(r, "gone"), UNCHANGED <<buffer, got>> PROVE MsgStream'
    BY <1>8, <2>0, <2>3, <2>5
  <2>6. ASSUME mReader' = [mReader EXCEPT ![r] = "read"], UNCHANGED <<buffer, on, tmp, got>> PROVE MsgStream'
    <3>1. /\ mReader'[r] \in Busy /\ on'[r] = r
          /\ \A d \in Msg!Conns : d # r => mReader'[d] = mReader[d]
      BY <1>2, <2>1, <2>6 DEF Busy
    <3>2. tmp'[r] \o wire'[r] = Held(r) \o wire[r] BY <2>0, <2>2, <2>6
    <3> QED BY <1>10, <2>0, <2>1, <2>6, <3>1, <3>2
  <2> QED BY <1>16, <2>4, <2>5, <2>6 DEF Msg!DecodeSome, Msg!Becomes, Msg!Deliver
<1>17. ASSUME NEW r \in Msg!Conns, Msg!ReadFails(r) PROVE MsgStream'
  <2>0. /\ mReader[r] # "none" /\ mReader' = [mReader EXCEPT ![r] = "gone"]
        /\ on' = [on EXCEPT ![r] = Msg!NoConn] /\ tmp' = [tmp EXCEPT ![r] = <<>>]
        /\ UNCHANGED <<mSent, next, cur, last, wire, buffer, got>>
    BY <1>17 DEF Msg!ReadFails, Msg!Returns, Msg!Becomes
  <2>1. /\ mReader'[r] = "gone"
        /\ \A d \in Msg!Conns : d # r => mReader'[d] = mReader[d] /\ on'[d] = on[d] /\ tmp'[d] = tmp[d]
    BY <1>2, <2>0
  <2> QED BY <1>8, <2>0, <2>1
<1>18. CASE UNCHANGED Msg!mVars
  <2>1. UNCHANGED <<packet, size, mSent, next, cur, last, wire, buffer, mReader, on, tmp, got, overlap>>
    BY <1>18 DEF Msg!mVars
  <2>2. ASSUME NEW c \in Msg!Conns PROVE StreamOf(c)' BY <1>3, <2>1 DEF StreamOf, Held
  <2> QED BY <1>3, <1>6, <2>1, <2>2
<1>19. ~(\E i \in Msg!Msgs : Msg!Lose(i) \/ \E r \in Msg!Conns : Msg!ReceivePacket(r, i))
  BY <1>1 DEF Msg!Lose, Msg!ReceivePacket
<1> QED BY <1>11, <1>12, <1>13, <1>14, <1>15, <1>16, <1>17, <1>18, <1>19 DEF Msg!Next

LEMMA MsgInit == Msg!Init => MsgInv
<1> SUFFICES ASSUME Msg!Init PROVE MsgInv
  OBVIOUS
<1> USE MsgAssumption DEF Msg!Init
<1>1. <<>> \in Seq(Msg!Msgs) /\ <<>> \in Seq(Cell) /\ <<>> \in Seq(Int) /\ Len(<<>>) = 0 /\ 1 .. Len(<<>>) = {}
  OBVIOUS
<1>2. <<>> \in Seq(IF packet THEN Msg!Msgs ELSE Cell) BY <1>1
<1>3. /\ \A c \in Msg!Conns : mReader[c] = "none" /\ on[c] = Msg!NoConn /\ tmp[c] = <<>> /\ wire[c] = <<>>
      /\ \A c \in Msg!Conns : mSent[c] = <<>> /\ got[c] = <<>>
  OBVIOUS
<1>4. MsgType
  <2>1. Msg!TypeOK
    <3>1. next \in 1 .. MaxMsgs + 1 /\ last \in 0 .. MaxConns OBVIOUS
    <3>2. mReader \in [Msg!Conns -> {"none", "idle", "read", "decode", "gone"}] OBVIOUS
    <3>3. on \in [Msg!Conns -> Msg!Conns \cup {Msg!NoConn}] /\ overlap \in BOOLEAN OBVIOUS
    <3>4. \A c \in Msg!Conns : Len(tmp[c]) <= BufSize BY <1>1, <1>3
    <3>5. packet \in BOOLEAN /\ size \in [Msg!Msgs -> Sizes] /\ cur = Msg!NoConn /\ buffer = <<>> OBVIOUS
    <3> QED BY <3>1, <3>2, <3>3, <3>4, <3>5 DEF Msg!TypeOK
  <2>2. wire \in [Msg!Conns -> Seq(IF packet THEN Msg!Msgs ELSE Cell)] BY <1>2
  <2>3. mSent \in [Msg!Conns -> Seq(Msg!Msgs)] /\ got \in [Msg!Conns -> Seq(Int)] BY <1>1
  <2>4. buffer \in Seq(Cell) /\ tmp \in [Msg!Conns -> Seq(Cell)] BY <1>1
  <2>5. \A r \in Msg!Conns : mReader[r] \notin Busy BY <1>3 DEF Busy
  <2> QED BY <2>1, <2>2, <2>3, <2>4, <2>5 DEF MsgType
<1>5. MsgWaits BY <1>3 DEF MsgWaits
<1>6. MsgPackets BY <1>1, <1>3 DEF MsgPackets, PacketsOf
<1>7. MsgStream
  <2>1. ASSUME NEW c \in Msg!Conns PROVE StreamOf(c)
    BY <1>1, <1>3 DEF StreamOf, GotOf, Live, Busy
  <2> QED BY <2>1 DEF MsgStream
<1> QED BY <1>4, <1>5, <1>6, <1>7 DEF MsgInv

LEMMA MsgAlways == Spec => [](part = "msg" => MsgInv)
<1>1. Init => (part = "msg" => MsgInv) BY MsgInit DEF Init
<1>2. (part = "msg" => MsgInv) /\ [Next]_vars => (part = "msg" => MsgInv)'
  <2> SUFFICES ASSUME part = "msg" => MsgInv, [Next]_vars, part' = "msg" PROVE MsgInv'
    OBVIOUS
  <2>1. part = "msg"
    BY DEF Next, TapNext, WorkerNext, MsgNext, ProtoNext, OfTap, vars
  <2>2. [Msg!Next]_(Msg!mVars) BY <2>1, MsgIsStep
  <2>3. MsgType /\ MsgWaits /\ MsgPackets /\ MsgStream BY <2>1 DEF MsgInv
  <2>4. MsgType' /\ MsgWaits' BY <2>2, <2>3, MsgTypeStep
  <2>5. MsgPackets' BY <2>2, <2>3, MsgPacketsStep
  <2>6. MsgStream' BY <2>2, <2>3, MsgStreamStep
  <2> QED BY <2>4, <2>5, <2>6 DEF MsgInv
<1> QED BY <1>1, <1>2, PTL DEF Spec

\* What the framing promises, from its invariant.
LEMMA MsgPromise == MsgInv => Msg!MessagesIntact
<1> SUFFICES ASSUME MsgInv PROVE Msg!MessagesIntact
  OBVIOUS
<1> USE MsgAssumption
<1>0. /\ size \in [Msg!Msgs -> Sizes] /\ tmp \in [Msg!Conns -> Seq(Cell)]
      /\ got \in [Msg!Conns -> Seq(Int)] /\ mSent \in [Msg!Conns -> Seq(Msg!Msgs)]
      /\ MsgWaits /\ MsgPackets /\ MsgStream
  BY DEF MsgInv, MsgType, Msg!TypeOK
<1>d. \A c \in Msg!Conns : DOMAIN got[c] = 1 .. Len(got[c]) /\ DOMAIN mSent[c] = 1 .. Len(mSent[c])
  BY <1>0
<1>1. Msg!Intact
  <2> SUFFICES ASSUME ~packet, ~overlap, NEW c \in Msg!Conns, NEW i \in DOMAIN got[c]
               PROVE  /\ i \in DOMAIN mSent[c]
                      /\ got[c][i] \in {mSent[c][i], -mSent[c][i]}
                      /\ size[mSent[c][i]] <= SizeLimit => got[c][i] = mSent[c][i]
    BY DEF Msg!Intact
  <2>1. GotOf(got[c], mSent[c], size) BY <1>0 DEF MsgStream, StreamOf
  <2> QED BY <1>d, <2>1 DEF GotOf
<1>2. Msg!StallsOnOversize
  <2> SUFFICES ASSUME NEW r \in Msg!Conns, mReader[r] = "read", Msg!Room(r) = 0
               PROVE  Msg!Declared(tmp[r][1][1]) > BufSize
    BY DEF Msg!StallsOnOversize
  <2>1. PICK b \in Seq(Cell) : b = tmp[r] BY <1>0
  <2>2. Len(b) = BufSize BY <2>1 DEF Msg!Room
  <2>3. ~Msg!HasFrame(b) /\ ~Msg!BadMagic(b) BY <1>0, <2>1 DEF MsgWaits
  <2>4. Len(b) >= MinSize /\ 1 \in 1 .. Len(b) BY <2>2
  <2>5. ~(Len(b) >= Msg!Declared(b[1][1])) BY <2>3, <2>4 DEF Msg!HasFrame, Msg!BadMagic
  <2>6. PICK a \in Msg!Msgs, i \in Nat \ {0} : b[1] = <<a, i>>
    <3>1. b[1] \in Cell BY <2>4
    <3> QED BY <3>1, CellIs
  <2>7. b[1][1] = a BY <2>6
  <2>8. Msg!Declared(a) \in Nat
    <3>1. size[a] \in Nat \ {0} /\ Msg!Declared(a) \in 1 .. size[a] BY <1>0, DeclaredFacts
    <3> QED BY <3>1
  <2>9. Msg!Declared(a) > BufSize BY <2>2, <2>5, <2>7, <2>8
  <2> QED BY <2>1, <2>7, <2>9
<1>3. Msg!PacketsWhole
  <2> SUFFICES ASSUME packet, NEW c \in Msg!Conns
               PROVE  /\ \A i \in DOMAIN got[c] : got[c][i] \in Msg!Range(mSent[c])
                      /\ \A i, j \in DOMAIN got[c] : i # j => got[c][i] # got[c][j]
    BY DEF Msg!PacketsWhole
  <2>1. PacketsOf(mSent[c], wire[c], got[c], next) BY <1>0 DEF MsgPackets
  <2> QED BY <1>d, <2>1 DEF PacketsOf, Msg!Range
<1> QED BY <1>1, <1>2, <1>3 DEF Msg!MessagesIntact

(* message.go, Send, Receive and ReadMsg: for any sizes of messages, any   *)
(* buffer and any way the reads cut the stream up, a stream delivers what  *)
(* was sent, whole and in order, a packet arrives whole and at most once,  *)
(* and only a message beyond the buffer stalls a reader; and protocol.go's *)
(* Decode, for frames of any length, reads each header where the one       *)
(* before it ends, within the frame.                                       *)
THEOREM MessagesArrive == Spec => []MessagesRead
<1>1. (part = "msg" => MsgInv) /\ (part = "proto" => ProtoInv) => MessagesRead
  BY MsgPromise, ProtoPromise DEF MessagesRead
<1> QED BY <1>1, MsgAlways, ProtoAlways, PTL

(* The type invariant of every part of the point.                          *)
THEOREM TypeCorrect == Spec => []TypeOK
<1>1. /\ part = "tap" => TapInv
      /\ part = "worker" => WorkerType
      /\ part = "msg" => MsgInv
      /\ part = "proto" => ProtoInv
      => TypeOK
  BY DEF TypeOK, TapInv, WorkerType, MsgInv, MsgType, ProtoInv
<1> QED BY <1>1, TapAlways, WorkerTypeAlways, MsgAlways, ProtoAlways, PTL
=============================================================================
