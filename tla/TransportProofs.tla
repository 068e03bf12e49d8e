--------------------------- MODULE TransportProofs ---------------------------
(***************************************************************************)
(* The connections of pkg/libol, for every number of sessions, datagrams,  *)
(* dials and closers: what the run of MCTransport checks of a small        *)
(* instance, as far as it is safety.  A behaviour of MCTransport is one of *)
(* a single part; the lemmas about a part use its own next-state relation. *)
(***************************************************************************)
EXTENDS MCTransport, FiniteSetTheorems, TLAPS

----------------------------------------------------------------------------
(* Clients (SocketClient).                                                 *)
(*                                                                         *)
(* A client that connects has no connection, a dial that has the lock to   *)
(* wait for is the last one made, and the websocket of a server is closed  *)
(* by its handler only after the Close that left the token took the        *)
(* connection away for good.                                               *)

ClientHas ==
    /\ connector # "idle" => cConn = 0 /\ ~server
    /\ connector = "dial" => dialled < MaxDials
    /\ connector = "set" => dialled \in open
    /\ cConn # 0 => cConn \in open
    /\ open \subseteq {cConn} \cup (IF connector = "set" THEN {dialled} ELSE {})

ClientHands ==
    /\ handler # "none" => server
    /\ server /\ (cDone > 0 \/ \E x \in Closers : closer[x] = "token") => cConn = 0

ClientInv == Client!TypeOK /\ ClientHas /\ ClientHands

\* A step of a behaviour of this part is one of SocketClient.
LEMMA ClientIsStep ==
    part = "client" /\ [Next]_vars => part' = "client" /\ [Client!Next]_(Client!cVars)
<1> SUFFICES ASSUME part = "client", [Next]_vars
             PROVE  part' = "client" /\ [Client!Next]_(Client!cVars)
  OBVIOUS
<1>1. CASE ClientNext BY <1>1 DEF ClientNext, OfClient
<1>2. CASE UNCHANGED vars BY <1>2 DEF vars, clientVars, Client!cVars
<1>3. ~ServerNext /\ ~UdpNext BY DEF ServerNext, UdpNext, OfServer, OfUdp
<1> QED BY <1>1, <1>2, <1>3 DEF Next

LEMMA ClientInit == Client!Init => ClientInv
<1> SUFFICES ASSUME Client!Init PROVE ClientInv
  OBVIOUS
<1> USE ClientAssumption DEF Client!Init, Client!NoConn
<1>1. Client!TypeOK
  <2>1. cConn \in {0, 1} /\ (server <=> cConn = 1) /\ web \in BOOLEAN /\ server \in BOOLEAN
    OBVIOUS
  <2>2. open = {1} \/ (open = {} /\ cConn = 0)
    BY <2>1
  <2>3. open \subseteq 1 .. dialled /\ dialled \in 0 .. MaxDials
    BY <2>1, <2>2
  <2> QED BY <2>1, <2>3 DEF Client!TypeOK, Client!Conns, Client!Statuses
<1>2. ClientHas
  BY DEF ClientHas
<1>3. ClientHands
  BY DEF ClientHands
<1> QED BY <1>1, <1>2, <1>3 DEF ClientInv

LEMMA ClientStep == ClientInv /\ [Client!Next]_(Client!cVars) => ClientInv'
<1> SUFFICES ASSUME ClientInv, [Client!Next]_(Client!cVars) PROVE ClientInv'
  OBVIOUS
<1> USE ClientAssumption
        DEF ClientInv, ClientHas, ClientHands, Client!TypeOK, Client!NoConn, Client!Conns,
            Client!Statuses
<1>1. CASE Client!Retry
  BY <1>1 DEF Client!Retry, Client!MayRetry
<1>2. CASE Client!Dial
  <2>1. CASE connector' = "set"
    <3>1. dialled' = dialled + 1 /\ open' = open \cup {dialled'} /\ dialled + 1 \in 1 .. MaxDials
      BY <1>2, <2>1 DEF Client!Dial
    <3>2. open' \subseteq 1 .. dialled'
      BY <3>1
    <3> QED BY <1>2, <2>1, <3>1, <3>2 DEF Client!Dial
  <2>2. CASE connector' = "idle"
    BY <1>2, <2>2 DEF Client!Dial
  <2> QED BY <1>2, <2>1, <2>2 DEF Client!Dial
<1>3. CASE Client!SetConnection
  BY <1>3 DEF Client!SetConnection
<1>4. ASSUME NEW s \in {"auth", "unauth"}, Client!SetStatus(s) PROVE ClientInv'
  BY <1>4 DEF Client!SetStatus
<1>5. ASSUME NEW x \in Closers, Client!Terminal(x) PROVE ClientInv'
  BY <1>5 DEF Client!Terminal
<1>6. ASSUME NEW x \in Closers, Client!Close(x) PROVE ClientInv'
  BY <1>6 DEF Client!Close, Client!StatusClosed
<1>7. ASSUME NEW x \in Closers, Client!CloseToken(x) PROVE ClientInv'
  BY <1>7 DEF Client!CloseToken
<1>8. CASE Client!HandlerAccept
  BY <1>8 DEF Client!HandlerAccept
<1>9. CASE Client!HandlerDone
  BY <1>9 DEF Client!HandlerDone
<1>10. CASE UNCHANGED Client!cVars
  BY <1>10 DEF Client!cVars
<1> HIDE DEF ClientInv
<1> QED BY <1>1, <1>2, <1>3, <1>4, <1>5, <1>6, <1>7, <1>8, <1>9, <1>10 DEF Client!Next

LEMMA ClientAlways == Spec => [](part = "client" => ClientInv)
<1>1. Init => (part = "client" => ClientInv)
  BY ClientInit DEF Init
<1>2. (part = "client" => ClientInv) /\ [Next]_vars => (part = "client" => ClientInv)'
  <2> SUFFICES ASSUME part = "client" => ClientInv, [Next]_vars, part' = "client" PROVE ClientInv'
    OBVIOUS
  <2>1. part = "client"
    BY DEF Next, ServerNext, UdpNext, ClientNext, OfServer, OfUdp, OfClient, vars
  <2> QED BY <2>1, ClientIsStep, ClientStep
<1> QED BY <1>1, <1>2, PTL DEF Spec

\* socket.go: an open connection is the one the client has or the one its
\* Connect has dialled and not yet set, however Connect, Close and Terminal
\* interleave, for any number of closers and dials.
THEOREM NoClientConnLost == Spec => [](part = "client" => Client!NoConnLost)
<1>1. (part = "client" => ClientInv) => (part = "client" => Client!NoConnLost)
  BY DEF ClientInv, ClientHas, Client!NoConnLost, Client!NoConn
<1> QED BY <1>1, ClientAlways, PTL

\* socket.go: nothing but a dial that was under way when the client was
\* terminated revives it.
THEOREM TerminalIsFinal ==
    Spec => [][part = "client" /\ status = "terminal" /\ connector # "set"
               => status' = "terminal"]_vars
<1>1. [Next]_vars => [part = "client" /\ status = "terminal" /\ connector # "set"
                      => status' = "terminal"]_vars
  <2> SUFFICES ASSUME Next, part = "client", status = "terminal", connector # "set"
               PROVE  status' = "terminal"
    OBVIOUS
  <2>1. Client!Next
    BY DEF Next, ServerNext, UdpNext, ClientNext, OfServer, OfUdp, OfClient
  <2> QED BY <2>1 DEF Client!Next, Client!Retry, Client!MayRetry, Client!Dial, Client!SetConnection,
                      Client!SetStatus, Client!Terminal, Client!Close, Client!StatusClosed,
                      Client!CloseToken, Client!HandlerAccept, Client!HandlerDone
<1> QED BY <1>1, PTL DEF Spec
----------------------------------------------------------------------------
(* UDP sessions (Xdp).                                                     *)
(*                                                                         *)
(* A number beyond made is nobody's: no reader, no queue, not closed       *)
(* (UdpMade).  An entry of the map is a session that is open and has that  *)
(* address, and an open session has its entry (UdpMap).  While the Loop    *)
(* has a datagram in hand it is the last one received, later than all that *)
(* was queued or read (UdpData).                                           *)

UdpBusy == loop \in {"accept", "check", "send"}

UdpMade ==
    /\ \A c \in 1 .. MaxConns : xReader[c] # "none" \/ closed[c] => c <= made
    /\ \A i \in 1 .. Len(accept) : accept[i] <= made
    /\ UdpBusy => target \in 1 .. made

UdpMap ==
    /\ \A r \in Remotes : sessions[r] # NoSession =>
         sessions[r] <= made /\ remote[sessions[r]] = r /\ ~closed[sessions[r]]
    /\ \A c \in 1 .. made : ~closed[c] => sessions[remote[c]] = c

UdpData ==
    /\ UdpBusy => item = received /\ item > 0
    /\ \A c \in 1 .. MaxConns :
         /\ got[c] <= received
         /\ UdpBusy => got[c] < received
         /\ \A i \in 1 .. Len(xQueue[c]) :
              /\ xQueue[c][i] > got[c] /\ xQueue[c][i] <= received
              /\ UdpBusy => xQueue[c][i] < received
              /\ \A j \in 1 .. i - 1 : xQueue[c][j] < xQueue[c][i]

UdpInv == Udp!TypeOK /\ DOMAIN xQueue = 1 .. MaxConns /\ UdpMade /\ UdpMap /\ UdpData

\* A step of a behaviour of this part is one of Xdp.
LEMMA UdpIsStep == part = "udp" /\ [Next]_vars => part' = "udp" /\ [Udp!Next]_(Udp!xVars)
<1> SUFFICES ASSUME part = "udp", [Next]_vars PROVE part' = "udp" /\ [Udp!Next]_(Udp!xVars)
  OBVIOUS
<1>1. CASE UdpNext BY <1>1 DEF UdpNext, OfUdp
<1>2. CASE UNCHANGED vars BY <1>2 DEF vars, xdpVars, Udp!xVars
<1>3. ~ServerNext /\ ~ClientNext BY DEF ServerNext, ClientNext, OfServer, OfClient
<1> QED BY <1>1, <1>2, <1>3 DEF Next

\* What receiving from a channel, a sequence taken at its head, yields.
LEMMA Received ==
    ASSUME NEW S, NEW q \in Seq(S), q # <<>>
    PROVE  /\ 1 \in 1 .. Len(q) /\ Head(q) = q[1] /\ Head(q) \in S
           /\ Tail(q) \in Seq(S) /\ Len(Tail(q)) = Len(q) - 1
           /\ \A i \in 1 .. Len(Tail(q)) : i + 1 \in 1 .. Len(q) /\ Tail(q)[i] = q[i + 1]
OBVIOUS

\* What sending to a channel, a sequence filled at its end, yields.
LEMMA Sent ==
    ASSUME NEW S, NEW q \in Seq(S), NEW x \in S
    PROVE  /\ Append(q, x) \in Seq(S) /\ Len(Append(q, x)) = Len(q) + 1
           /\ Append(q, x)[Len(q) + 1] = x
           /\ \A i \in 1 .. Len(q) : Append(q, x)[i] = q[i]
OBVIOUS

\* What a channel holds are values of its type.
LEMMA Held ==
    ASSUME NEW S, NEW q \in Seq(S)
    PROVE  Len(q) \in Nat /\ \A i \in 1 .. Len(q) : q[i] \in S
OBVIOUS

LEMMA UdpInit == Udp!Init => UdpInv
<1> SUFFICES ASSUME Udp!Init PROVE UdpInv
  OBVIOUS
<1> USE UdpAssumption DEF Udp!Init, Udp!Conns
<1>1. Udp!TypeOK
  BY DEF Udp!TypeOK
<1>2. UdpMade BY DEF UdpMade, UdpBusy
<1>3. UdpMap BY DEF UdpMap
<1>4. UdpData BY DEF UdpData, UdpBusy
<1> QED BY <1>1, <1>2, <1>3, <1>4 DEF UdpInv

LEMMA UdpStep == UdpInv /\ [Udp!Next]_(Udp!xVars) => UdpInv'
<1> SUFFICES ASSUME UdpInv, [Udp!Next]_(Udp!xVars) PROVE UdpInv'
  OBVIOUS
<1> USE UdpAssumption DEF Udp!Conns
<1>0. /\ Udp!TypeOK /\ DOMAIN xQueue = 1 .. MaxConns
      /\ UdpMade /\ UdpMap /\ UdpData
  BY DEF UdpInv
<1>h. Len(accept) \in Nat /\ \A i \in 1 .. Len(accept) : accept[i] \in 1 .. MaxConns
  BY <1>0, Held DEF Udp!TypeOK
<1>q. ASSUME NEW c \in 1 .. MaxConns
      PROVE  /\ got[c] \in 0 .. MaxData /\ xQueue[c] \in Seq(1 .. MaxData) /\ Len(xQueue[c]) \in Nat
             /\ \A i \in 1 .. Len(xQueue[c]) : xQueue[c][i] \in 1 .. MaxData
  BY <1>0, Held DEF Udp!TypeOK
<1>1. ASSUME NEW r \in Remotes, Udp!Recv(r) PROVE UdpInv'
  <2>0. /\ loop = "idle" /\ received \in 0 .. MaxData /\ received + 1 \in 1 .. MaxData
        /\ received' = received + 1
        /\ UNCHANGED <<accept, xQueue, closed, xReader, got, listening>>
    BY <1>0, <1>1 DEF Udp!Recv, Udp!TypeOK
  <2>d. ASSUME item' = received' PROVE UdpData'
    <3> SUFFICES ASSUME NEW c \in 1 .. MaxConns
                 PROVE  /\ got[c] <= received + 1 /\ got[c] < received + 1
                        /\ \A i \in 1 .. Len(xQueue[c]) :
                             /\ xQueue[c][i] > got[c] /\ xQueue[c][i] <= received + 1
                             /\ xQueue[c][i] < received + 1
                             /\ \A j \in 1 .. i - 1 : xQueue[c][j] < xQueue[c][i]
      BY <2>0, <2>d DEF UdpData
    <3> QED BY SMTT(30), <1>0, <1>q, <2>0 DEF UdpData
  <2>1. CASE sessions[r] # NoSession
    <3>1. loop' = "check" /\ target' = sessions[r] /\ item' = received' /\ UNCHANGED <<made, remote, sessions>>
      BY <1>1, <2>1 DEF Udp!Recv
    <3>2. sessions[r] \in 1 .. made
      BY <1>0, <2>1 DEF UdpMap, Udp!TypeOK
    <3>3. Udp!TypeOK'
      <4>1. sessions[r] \in 1 .. MaxConns BY <1>0, <2>1 DEF Udp!TypeOK
      <4> QED BY <1>0, <2>0, <3>1, <4>1 DEF Udp!TypeOK
    <3>4. UdpMade' BY <1>0, <2>0, <3>1, <3>2 DEF UdpMade, UdpBusy
    <3>5. UdpMap' BY <1>0, <2>0, <3>1 DEF UdpMap
    <3>6. UdpData' BY <2>d, <3>1
    <3> QED BY <1>0, <2>0, <3>3, <3>4, <3>5, <3>6 DEF UdpInv
  <2>2. CASE UNCHANGED <<loop, target, item, made, remote, sessions>>
    <3>3. Udp!TypeOK' BY <1>0, <2>0, <2>2 DEF Udp!TypeOK
    <3>4. UdpMade' BY <1>0, <2>0, <2>2 DEF UdpMade, UdpBusy
    <3>5. UdpMap' BY <1>0, <2>0, <2>2 DEF UdpMap
    <3>6. UdpData' BY <1>0, <2>0, <2>2 DEF UdpData, UdpBusy, Udp!TypeOK
    <3> QED BY <1>0, <2>0, <3>3, <3>4, <3>5, <3>6 DEF UdpInv
  <2>3. CASE /\ sessions[r] = NoSession /\ made < MaxConns
             /\ made' = made + 1 /\ target' = made' /\ item' = received' /\ loop' = "accept"
             /\ remote' = [remote EXCEPT ![made'] = r]
             /\ sessions' = [sessions EXCEPT ![r] = made']
    <3>2. made \in 0 .. MaxConns /\ made + 1 \in 1 .. MaxConns /\ made' = made + 1
      BY <1>0, <2>3 DEF Udp!TypeOK
    <3>3. Udp!TypeOK' BY <1>0, <2>0, <2>3, <3>2 DEF Udp!TypeOK
    <3>4. UdpMade'
      <4>2. \A n \in 1 .. MaxConns : n <= made => n <= made + 1 BY <3>2
      <4>3. target' \in 1 .. made' BY <2>3, <3>2
      <4> HIDE DEF Udp!Conns
      <4> QED BY <1>0, <2>0, <1>h, <2>3, <3>2, <4>2, <4>3 DEF UdpMade
    <3>5. UdpMap'
      <4>1. ~closed[made + 1]
        BY <1>0, <3>2 DEF UdpMade, Udp!TypeOK
      <4>2. \A c \in 1 .. made : remote'[c] = remote[c] /\ c # made + 1
        BY <1>0, <2>3, <3>2 DEF Udp!TypeOK
      <4>3. remote'[made + 1] = r /\ sessions'[r] = made + 1
        BY <1>0, <2>3, <3>2 DEF Udp!TypeOK
      <4>4. \A q \in Remotes : q # r => sessions'[q] = sessions[q]
        BY <1>0, <2>3 DEF Udp!TypeOK
      <4>5. \A q \in Remotes : sessions[q] # NoSession => sessions[q] \in 1 .. made
        BY <1>0, <3>2 DEF UdpMap, Udp!TypeOK
      <4>6. \A c \in 1 .. made : ~closed[c] => remote[c] # r
        BY <1>0, <2>3, <3>2 DEF UdpMap, Udp!TypeOK
      <4>7. \A q \in Remotes : sessions'[q] # NoSession =>
              sessions'[q] <= made' /\ remote'[sessions'[q]] = q /\ ~closed'[sessions'[q]]
        <5> SUFFICES ASSUME NEW q \in Remotes, sessions'[q] # NoSession
                     PROVE  sessions'[q] <= made' /\ remote'[sessions'[q]] = q /\ ~closed'[sessions'[q]]
          OBVIOUS
        <5>1. CASE q = r BY <2>0, <3>2, <4>1, <4>3, <5>1
        <5>2. CASE q # r BY <1>0, <2>0, <3>2, <4>2, <4>4, <4>5, <5>2 DEF UdpMap
        <5> QED BY <5>1, <5>2
      <4>8. \A c \in 1 .. made' : ~closed'[c] => sessions'[remote'[c]] = c
        <5> SUFFICES ASSUME NEW c \in 1 .. made', ~closed'[c] PROVE sessions'[remote'[c]] = c
          OBVIOUS
        <5>1. c = made + 1 \/ c \in 1 .. made BY <3>2
        <5>2. c \in 1 .. made => remote[c] \in Remotes BY <1>0, <3>2 DEF Udp!TypeOK
        <5> QED BY <1>0, <2>0, <4>2, <4>3, <4>4, <4>6, <5>1, <5>2 DEF UdpMap
      <4> QED BY <4>7, <4>8 DEF UdpMap
    <3>6. UdpData' BY <2>d, <2>3
    <3> QED BY <1>0, <2>0, <3>3, <3>4, <3>5, <3>6 DEF UdpInv
  <2> QED BY <1>1, <2>1, <2>2, <2>3 DEF Udp!Recv
<1>2. CASE Udp!ToAccept
  <2>0. /\ loop = "accept" /\ accept' = Append(accept, target) /\ loop' = "check"
        /\ Len(accept) < AcceptSize
        /\ UNCHANGED <<target, item, received, made, remote, sessions, xQueue, closed,
                       xReader, got, listening>>
    BY <1>2 DEF Udp!ToAccept
  <2>1. target \in 1 .. made /\ target \in 1 .. MaxConns /\ target <= made
    BY <1>0, <2>0 DEF UdpMade, UdpBusy, Udp!TypeOK
  <2>2. /\ accept' \in Seq(1 .. MaxConns) /\ Len(accept') = Len(accept) + 1
        /\ \A i \in 1 .. Len(accept') : accept'[i] = target \/ (i \in 1 .. Len(accept) /\ accept'[i] = accept[i])
    <3>1. accept \in Seq(1 .. MaxConns) BY <1>0 DEF Udp!TypeOK
    <3>2. /\ accept' \in Seq(1 .. MaxConns) /\ Len(accept') = Len(accept) + 1
          /\ accept'[Len(accept) + 1] = target
          /\ \A i \in 1 .. Len(accept) : accept'[i] = accept[i]
      BY <2>0, <2>1, <3>1, Sent
    <3>3. \A i \in 1 .. Len(accept) + 1 : i = Len(accept) + 1 \/ i \in 1 .. Len(accept) BY <1>h
    <3> QED BY <3>2, <3>3
  <2>3. Udp!TypeOK' BY <1>0, <1>h, <2>0, <2>2 DEF Udp!TypeOK
  <2>4. UdpMade' BY <1>0, <2>0, <2>1, <2>2 DEF UdpMade, UdpBusy
  <2>5. UdpMap' BY <1>0, <2>0 DEF UdpMap
  <2>6. UdpData' BY <1>0, <2>0 DEF UdpData, UdpBusy
  <2> QED BY <1>0, <2>0, <2>3, <2>4, <2>5, <2>6 DEF UdpInv
<1>3. CASE Udp!CheckClosed
  <2>0. /\ loop = "check" /\ \/ loop' = "idle" /\ target' = NoSession /\ item' = 0
                             \/ loop' = "send" /\ UNCHANGED <<target, item>>
        /\ UNCHANGED <<received, made, remote, sessions, accept, xQueue, closed, xReader,
                       got, listening>>
    BY <1>3 DEF Udp!CheckClosed, Udp!Dropped
  <2>3. Udp!TypeOK' BY <1>0, <2>0 DEF Udp!TypeOK
  <2>4. UdpMade' BY <1>0, <2>0 DEF UdpMade, UdpBusy
  <2>5. UdpMap' BY <1>0, <2>0 DEF UdpMap
  <2>6. UdpData' BY <1>0, <2>0 DEF UdpData, UdpBusy
  <2> QED BY <1>0, <2>0, <2>3, <2>4, <2>5, <2>6 DEF UdpInv
<1>4. CASE Udp!ToQueue
  <2>0. /\ loop = "send" /\ Len(xQueue[target]) < QueueSize
        /\ xQueue' = [xQueue EXCEPT ![target] = Append(xQueue[target], item)]
        /\ loop' = "idle" /\ target' = NoSession /\ item' = 0
        /\ UNCHANGED <<received, made, remote, sessions, accept, closed, xReader, got, listening>>
    BY <1>4 DEF Udp!ToQueue, Udp!Dropped
  <2>1. target \in 1 .. MaxConns /\ item = received /\ item \in 1 .. MaxData
    BY <1>0, <2>0 DEF UdpMade, UdpBusy, UdpData, Udp!TypeOK
  <2> DEFINE q == xQueue[target]
  <2>2. /\ xQueue'[target] \in Seq(1 .. MaxData) /\ Len(xQueue'[target]) = Len(q) + 1
        /\ xQueue'[target][Len(q) + 1] = item
        /\ \A i \in 1 .. Len(q) : xQueue'[target][i] = q[i]
    <3>1. xQueue'[target] = Append(q, item) BY <1>0, <2>0, <2>1
    <3>2. q \in Seq(1 .. MaxData) BY <1>q, <2>1
    <3> HIDE DEF q
    <3> QED BY <2>1, <3>1, <3>2, Sent
  <2>3. \A c \in 1 .. MaxConns : c # target => xQueue'[c] = xQueue[c]
    BY <1>0, <2>0
  <2>4. DOMAIN xQueue' = 1 .. MaxConns
    BY <1>0, <2>0
  <2>5. Udp!TypeOK'
    <3>1. \A c \in 1 .. MaxConns : xQueue'[c] \in Seq(1 .. MaxData) /\ Len(xQueue'[c]) <= QueueSize
      <4>1. Len(q) + 1 <= QueueSize BY <1>q, <2>0, <2>1
      <4>2. \A c \in 1 .. MaxConns : Len(xQueue[c]) <= QueueSize /\ xQueue[c] \in Seq(1 .. MaxData)
        BY <1>0 DEF Udp!TypeOK
      <4> HIDE DEF q
      <4> QED BY <2>2, <2>3, <4>1, <4>2
    <3> QED BY <1>0, <2>0, <3>1 DEF Udp!TypeOK
  <2>6. UdpMade' BY <1>0, <2>0 DEF UdpMade, UdpBusy
  <2>7. UdpMap' BY <1>0, <2>0 DEF UdpMap
  <2>8. UdpData'
    <3>1. ASSUME NEW c \in 1 .. MaxConns, NEW i \in 1 .. Len(xQueue'[c])
          PROVE  /\ xQueue'[c][i] > got[c] /\ xQueue'[c][i] <= received
                 /\ \A j \in 1 .. i - 1 : xQueue'[c][j] < xQueue'[c][i]
      <4>1. CASE c # target BY <1>0, <2>0, <2>3, <3>1, <4>1 DEF UdpData
      <4>2. CASE c = target /\ i \in 1 .. Len(q)
        <5>1. \A j \in 1 .. i - 1 : j \in 1 .. Len(q) BY <1>q, <2>1, <4>2
        <5> QED BY <1>0, <2>0, <2>1, <2>2, <4>2, <5>1 DEF UdpData
      <4>3. CASE c = target /\ i = Len(q) + 1
        <5>1. Len(q) \in Nat /\ \A j \in 1 .. i - 1 : j \in 1 .. Len(q) BY <1>q, <2>1, <4>3
        <5>2. got[c] < received /\ \A j \in 1 .. Len(q) : q[j] < received
          BY <1>0, <2>0, <2>1, <4>3 DEF UdpData, UdpBusy
        <5>3. got[c] \in 0 .. MaxData BY <1>q
        <5> HIDE DEF q
        <5>4. xQueue'[c][i] = received BY <2>1, <2>2, <4>3
        <5>5. \A j \in 1 .. i - 1 : xQueue'[c][j] < received BY <2>2, <4>3, <5>1, <5>2
        <5> QED BY <2>1, <5>2, <5>3, <5>4, <5>5
      <4>4. c = target => i \in 1 .. Len(q) \/ i = Len(q) + 1
        <5>1. Len(q) \in Nat BY <1>q, <2>1
        <5> HIDE DEF q
        <5> QED BY <2>2, <3>1, <5>1
      <4> QED BY <4>1, <4>2, <4>3, <4>4
    <3> QED BY <1>0, <2>0, <3>1 DEF UdpData, UdpBusy
  <2> QED BY <1>0, <2>0, <2>4, <2>5, <2>6, <2>7, <2>8 DEF UdpInv
<1>5. CASE Udp!LoopExit \/ Udp!CloseListener
  <2>0. /\ loop' \in {loop, "exit"} /\ listening' \in BOOLEAN
        /\ UNCHANGED <<target, item, received, made, remote, sessions, accept, xQueue,
                       closed, xReader, got>>
    BY <1>0, <1>5 DEF Udp!LoopExit, Udp!CloseListener, Udp!TypeOK
  <2>3. Udp!TypeOK' BY <1>0, <2>0 DEF Udp!TypeOK
  <2>4. UdpMade' BY <1>0, <2>0 DEF UdpMade, UdpBusy
  <2>5. UdpMap' BY <1>0, <2>0 DEF UdpMap
  <2>6. UdpData' BY <1>0, <2>0 DEF UdpData, UdpBusy
  <2> QED BY <1>0, <2>0, <2>3, <2>4, <2>5, <2>6 DEF UdpInv
<1>6. CASE Udp!Accept
  <2>0. /\ accept # <<>> /\ accept' = Tail(accept)
        /\ xReader' = [xReader EXCEPT ![Head(accept)] = "idle"]
        /\ UNCHANGED <<loop, target, item, received, made, remote, sessions, xQueue,
                       closed, got, listening>>
    BY <1>6 DEF Udp!Accept
  <2>1. accept \in Seq(1 .. MaxConns) BY <1>0 DEF Udp!TypeOK
  <2>2. /\ 1 \in 1 .. Len(accept) /\ Head(accept) = accept[1] /\ Head(accept) \in 1 .. MaxConns
        /\ accept' \in Seq(1 .. MaxConns) /\ Len(accept') = Len(accept) - 1
        /\ \A i \in 1 .. Len(accept') : i + 1 \in 1 .. Len(accept) /\ accept'[i] = accept[i + 1]
    BY <2>0, <2>1, Received
  <2>3. Udp!TypeOK'
    <3>1. Len(accept) <= AcceptSize BY <1>0 DEF Udp!TypeOK
    <3>2. Len(accept') <= AcceptSize BY <1>h, <2>2, <3>1
    <3>3. xReader' \in [1 .. MaxConns -> {"none", "idle", "wait", "gone"}]
      BY <1>0, <2>0, <2>2 DEF Udp!TypeOK
    <3> QED BY <1>0, <2>0, <2>2, <3>2, <3>3 DEF Udp!TypeOK
  <2>4. UdpMade'
    <3>1. Head(accept) <= made BY <1>0, <2>2 DEF UdpMade
    <3>2. \A c \in 1 .. MaxConns : c # Head(accept) => xReader'[c] = xReader[c]
      BY <1>0, <2>0 DEF Udp!TypeOK
    <3> QED BY <1>0, <2>0, <2>2, <3>1, <3>2 DEF UdpMade, UdpBusy
  <2>5. UdpMap' BY <1>0, <2>0 DEF UdpMap
  <2>6. UdpData' BY <1>0, <2>0 DEF UdpData, UdpBusy
  <2> QED BY <1>0, <2>0, <2>3, <2>4, <2>5, <2>6 DEF UdpInv
<1>7. ASSUME NEW c \in 1 .. MaxConns, Udp!ReadBegin(c) \/ Udp!ReadTimeout(c) PROVE UdpInv'
  <2>0. /\ \E s \in {"gone", "wait"} : xReader' = [xReader EXCEPT ![c] = s]
        /\ xReader[c] # "none"
        /\ UNCHANGED <<loop, target, item, received, made, remote, sessions, accept, xQueue,
                       closed, got, listening>>
    BY <1>7 DEF Udp!ReadBegin, Udp!ReadTimeout
  <2>3. Udp!TypeOK' BY <1>0, <2>0 DEF Udp!TypeOK
  <2>4. UdpMade' BY <1>0, <2>0 DEF UdpMade, UdpBusy, Udp!TypeOK
  <2>5. UdpMap' BY <1>0, <2>0 DEF UdpMap
  <2>6. UdpData' BY <1>0, <2>0 DEF UdpData, UdpBusy
  <2> QED BY <1>0, <2>0, <2>3, <2>4, <2>5, <2>6 DEF UdpInv
<1>8. ASSUME NEW c \in 1 .. MaxConns, Udp!ReadData(c) PROVE UdpInv'
  <2> DEFINE q == xQueue[c]
  <2>0. /\ xReader[c] = "wait" /\ q # <<>>
        /\ got' = [got EXCEPT ![c] = Head(q)] /\ xQueue' = [xQueue EXCEPT ![c] = Tail(q)]
        /\ xReader' = [xReader EXCEPT ![c] = "idle"]
        /\ UNCHANGED <<loop, target, item, received, made, remote, sessions, accept,
                       closed, listening>>
    BY <1>8 DEF Udp!ReadData
  <2>1. /\ xQueue'[c] = Tail(q) /\ got'[c] = Head(q) /\ DOMAIN xQueue' = 1 .. MaxConns
        /\ \A d \in 1 .. MaxConns : d # c => xQueue'[d] = xQueue[d] /\ got'[d] = got[d]
    BY <1>0, <2>0 DEF Udp!TypeOK
  <2>2. q \in Seq(1 .. MaxData) /\ Len(q) \in Nat BY <1>q
  <2>3. /\ 1 \in 1 .. Len(q) /\ Head(q) = q[1] /\ Head(q) \in 1 .. MaxData
        /\ Tail(q) \in Seq(1 .. MaxData) /\ Len(Tail(q)) = Len(q) - 1
        /\ \A i \in 1 .. Len(Tail(q)) : i + 1 \in 1 .. Len(q) /\ Tail(q)[i] = q[i + 1]
    <3> HIDE DEF q
    <3> QED BY <2>0, <2>2, Received
  <2>4. Udp!TypeOK'
    <3>1. Len(q) <= QueueSize /\ \A d \in 1 .. MaxConns : Len(xQueue[d]) <= QueueSize BY <1>0 DEF Udp!TypeOK
    <3>2. Len(Tail(q)) <= QueueSize BY <2>2, <2>3, <3>1
    <3>3. \A d \in 1 .. MaxConns : xQueue'[d] \in Seq(1 .. MaxData) /\ Len(xQueue'[d]) <= QueueSize
      BY <1>q, <2>1, <2>3, <3>1, <3>2
    <3>4. got' \in [1 .. MaxConns -> 0 .. MaxData] /\ xReader' \in [1 .. MaxConns -> {"none", "idle", "wait", "gone"}]
      BY <1>0, <2>0, <2>3 DEF Udp!TypeOK
    <3> QED BY <1>0, <2>0, <3>3, <3>4 DEF Udp!TypeOK
  <2>5. UdpMade' BY <1>0, <2>0 DEF UdpMade, UdpBusy, Udp!TypeOK
  <2>6. UdpMap' BY <1>0, <2>0 DEF UdpMap
  <2>7. UdpData'
    <3>1. ASSUME NEW d \in 1 .. MaxConns
          PROVE  /\ got'[d] <= received
                 /\ UdpBusy => got'[d] < received
                 /\ \A i \in 1 .. Len(xQueue'[d]) :
                      /\ xQueue'[d][i] > got'[d] /\ xQueue'[d][i] <= received
                      /\ UdpBusy => xQueue'[d][i] < received
                      /\ \A j \in 1 .. i - 1 : xQueue'[d][j] < xQueue'[d][i]
      <4>1. CASE d # c BY <1>0, <2>1, <4>1 DEF UdpData
      <4>2. CASE d = c
        <5>1. /\ \A i \in 1 .. Len(q) : /\ q[i] <= received /\ (UdpBusy => q[i] < received)
                                        /\ \A j \in 1 .. i - 1 : q[j] < q[i]
          BY <1>0 DEF UdpData
        <5> HIDE DEF q
        <5>2. \A i \in 1 .. Len(Tail(q)) : 1 \in 1 .. (i + 1) - 1 /\ \A j \in 1 .. i - 1 : j + 1 \in 1 .. (i + 1) - 1
          BY <2>2, <2>3
        <5>3. \A i \in 1 .. Len(Tail(q)) : \A j \in 1 .. i - 1 : j \in 1 .. Len(Tail(q))
          BY <2>2, <2>3
        <5>4. \A i \in 1 .. Len(Tail(q)) : q[1] < q[i + 1] BY <2>3, <5>1, <5>2
        <5>5. \A i \in 1 .. Len(q) : q[i] \in 1 .. MaxData BY <2>2, Held
        <5>6. \A i \in 1 .. Len(Tail(q)) : q[i + 1] > q[1] BY <2>3, <5>4, <5>5
        <5>7. \A i \in 1 .. Len(Tail(q)) : \A j \in 1 .. i - 1 : Tail(q)[j] < Tail(q)[i]
          BY <2>3, <5>1, <5>2, <5>3
        <5> QED BY ZenonT(60), <2>1, <2>3, <4>2, <5>1, <5>6, <5>7
      <4> QED BY <4>1, <4>2
    <3> QED BY <1>0, <2>0, <3>1 DEF UdpData, UdpBusy
  <2> QED BY <1>0, <2>0, <2>1, <2>4, <2>5, <2>6, <2>7 DEF UdpInv
<1>9. ASSUME NEW c \in 1 .. MaxConns, Udp!Close(c) PROVE UdpInv'
  <2>0. /\ xReader[c] # "none" /\ ~closed[c]
        /\ closed' = [closed EXCEPT ![c] = TRUE]
        /\ sessions' = [sessions EXCEPT ![remote[c]] = NoSession]
        /\ UNCHANGED <<loop, target, item, received, made, remote, accept, xQueue,
                       xReader, got, listening>>
    BY <1>9 DEF Udp!Close, Udp!CloseConn
  <2>1. made \in 0 .. MaxConns /\ c \in 1 .. made /\ remote[c] \in Remotes /\ sessions[remote[c]] = c
    BY <1>0, <2>0 DEF UdpMade, UdpMap, Udp!TypeOK
  <2>2. Udp!TypeOK' BY <1>0, <2>0 DEF Udp!TypeOK
  <2>3. UdpMade' BY <1>0, <2>0 DEF UdpMade, UdpBusy, Udp!TypeOK
  <2>4. UdpMap'
    <3>1. \A r \in Remotes : sessions'[r] = IF r = remote[c] THEN NoSession ELSE sessions[r]
      BY <1>0, <2>0 DEF Udp!TypeOK
    <3>2. \A d \in 1 .. MaxConns : closed'[d] <=> closed[d] \/ d = c
      BY <1>0, <2>0 DEF Udp!TypeOK
    <3>3. \A r \in Remotes : sessions[r] # NoSession => sessions[r] \in 1 .. MaxConns
      BY <1>0 DEF Udp!TypeOK
    <3>4. \A d \in 1 .. made : d \in 1 .. MaxConns /\ remote[d] \in Remotes
      <4>1. \A d \in 1 .. made : d \in 1 .. MaxConns BY <2>1
      <4>2. \A d \in 1 .. MaxConns : remote[d] \in Remotes BY <1>0 DEF Udp!TypeOK
      <4> QED BY <4>1, <4>2
    <3>5. \A r \in Remotes : sessions'[r] # NoSession =>
            sessions'[r] <= made' /\ remote'[sessions'[r]] = r /\ ~closed'[sessions'[r]]
      BY <1>0, <2>0, <2>1, <3>1, <3>2, <3>3 DEF UdpMap
    <3>6. \A d \in 1 .. made' : ~closed'[d] => sessions'[remote'[d]] = d
      BY <1>0, <2>0, <2>1, <3>1, <3>2, <3>4 DEF UdpMap
    <3> QED BY <3>5, <3>6 DEF UdpMap
  <2>5. UdpData' BY <1>0, <2>0 DEF UdpData, UdpBusy
  <2> QED BY <1>0, <2>0, <2>2, <2>3, <2>4, <2>5 DEF UdpInv
<1>10. CASE UNCHANGED Udp!xVars
  <2>0. UNCHANGED <<loop, target, item, received, made, remote, sessions, accept, xQueue,
                    closed, xReader, got, listening>>
    BY <1>10 DEF Udp!xVars
  <2>2. Udp!TypeOK' BY <1>0, <2>0 DEF Udp!TypeOK
  <2>3. UdpMade' BY <1>0, <2>0 DEF UdpMade, UdpBusy
  <2>4. UdpMap' BY <1>0, <2>0 DEF UdpMap
  <2>5. UdpData' BY <1>0, <2>0 DEF UdpData, UdpBusy
  <2> QED BY <1>0, <2>0, <2>2, <2>3, <2>4, <2>5 DEF UdpInv
<1> QED BY <1>1, <1>2, <1>3, <1>4, <1>5, <1>6, <1>7, <1>8, <1>9, <1>10
        DEF Udp!Next, Udp!LoopStep, Udp!ReaderStep

LEMMA UdpAlways == Spec => [](part = "udp" => UdpInv)
<1>1. Init => (part = "udp" => UdpInv)
  BY UdpInit DEF Init
<1>2. (part = "udp" => UdpInv) /\ [Next]_vars => (part = "udp" => UdpInv)'
  <2> SUFFICES ASSUME part = "udp" => UdpInv, [Next]_vars, part' = "udp" PROVE UdpInv'
    OBVIOUS
  <2>1. part = "udp"
    BY DEF Next, ServerNext, UdpNext, ClientNext, OfServer, OfUdp, OfClient, vars
  <2> QED BY <2>1, UdpIsStep, UdpStep
<1> QED BY <1>1, <1>2, PTL DEF Spec

\* xdp.go: the map holds exactly the sessions that are not closed, and a reader
\* is given its datagrams in the order they came, for any numbers of sessions,
\* addresses and datagrams and any sizes of the queues.
THEOREM UdpSessionsKept ==
    Spec => [](part = "udp" => Udp!SessionsOpen /\ Udp!DeliveredInOrder)
<1>1. UdpInv => Udp!SessionsOpen /\ Udp!DeliveredInOrder
  <2> SUFFICES ASSUME UdpInv PROVE Udp!SessionsOpen /\ Udp!DeliveredInOrder
    OBVIOUS
  <2> USE UdpAssumption DEF UdpInv, Udp!Conns
  <2>1. Udp!SessionsOpen
    <3> SUFFICES ASSUME NEW c \in 1 .. made PROVE closed[c] <=> sessions[remote[c]] # c
      BY DEF Udp!SessionsOpen
    <3>1. c \in 1 .. MaxConns /\ remote[c] \in Remotes /\ c # NoSession
      BY DEF Udp!TypeOK
    <3> QED BY <3>1 DEF UdpMap
  <2>2. Udp!DeliveredInOrder
    <3> SUFFICES ASSUME NEW c \in 1 .. MaxConns, NEW i \in DOMAIN xQueue[c]
                 PROVE  /\ xQueue[c][i] > got[c]
                        /\ \A j \in 1 .. i - 1 : xQueue[c][j] < xQueue[c][i]
                        /\ loop \in {"accept", "check", "send"} /\ target = c => xQueue[c][i] < item
      BY DEF Udp!DeliveredInOrder
    <3>1. i \in 1 .. Len(xQueue[c])
      BY DEF Udp!TypeOK
    <3> QED BY <3>1 DEF UdpData, UdpBusy
  <2> QED BY <2>1, <2>2
<1> QED BY <1>1, UdpAlways, PTL
----------------------------------------------------------------------------
(* The server, by the theorems about SocketServer.                         *)

Srv == INSTANCE SocketServerProofs

LEMMA SrvStep == Server!TypeOK /\ [Server!Next]_(Server!vars) => Server!TypeOK'
<1>1. Srv!IsFiniteSet(Clients)
  BY ServerAssumption DEF IsFiniteSet, Srv!IsFiniteSet
<1>2. Srv!TypeOK /\ [Srv!Next]_(Srv!vars) => Srv!TypeOK'
  BY ServerAssumption, Srv!TypeStep, <1>1
<1>3. Srv!TypeOK <=> Server!TypeOK
  BY DEF Srv!TypeOK, Server!TypeOK, Srv!NetStates, Server!NetStates
<1>4. (Srv!TypeOK)' <=> (Server!TypeOK)'
  BY DEF Srv!TypeOK, Server!TypeOK, Srv!NetStates, Server!NetStates
<1>5. UNCHANGED Server!vars => UNCHANGED Srv!vars
  BY DEF Srv!vars, Server!vars, Srv!acceptVars, Server!acceptVars, Srv!stats, Server!stats,
         Srv!clientVars, Server!clientVars
<1>6. Server!Next => Srv!Next
  <2>1. Server!AcceptorStep => Srv!AcceptorStep
    BY DEF Srv!AcceptorStep, Server!AcceptorStep, Srv!PreAcceptDeny,
           Server!PreAcceptDeny, Srv!PreAcceptAllow, Server!PreAcceptAllow,
           Srv!PushClient, Server!PushClient, Srv!Full, Server!Full, Srv!acceptVars,
           Server!acceptVars, Srv!stats, Server!stats, Srv!clientVars, Server!clientVars
  <2>2. Server!LoopStep => Srv!LoopStep
    BY DEF Srv!LoopStep, Server!LoopStep, Srv!DoOnClient, Server!DoOnClient,
           Srv!DoOffClient, Server!DoOffClient, Srv!DoOffClientEnd,
           Server!DoOffClientEnd, Srv!Registered, Server!Registered, Srv!SetIfAbsent,
           Server!SetIfAbsent, Srv!acceptVars, Server!acceptVars, Srv!stats,
           Server!stats, Srv!clientVars, Server!clientVars
  <2>3. ASSUME NEW c \in Clients, Server!ReaderStep(c) PROVE Srv!ReaderStep(c)
    BY <2>3 DEF Srv!ReaderStep, Server!ReaderStep, Srv!ReadFrame, Server!ReadFrame,
           Srv!PushFrame, Server!PushFrame, Srv!ReadError, Server!ReadError,
           Srv!ReaderOff, Server!ReaderOff, Srv!acceptVars, Server!acceptVars,
           Srv!stats, Server!stats, Srv!clientVars, Server!clientVars
  <2>4. ASSUME NEW c \in Clients, Server!WorkerStep(c) PROVE Srv!WorkerStep(c)
    BY <2>4 DEF Srv!WorkerStep, Server!WorkerStep, Srv!TakeFrame, Server!TakeFrame,
           Srv!ReadAtOk, Server!ReadAtOk, Srv!ReadAtError, Server!ReadAtError,
           Srv!TakeDone, Server!TakeDone, Srv!acceptVars, Server!acceptVars, Srv!stats,
           Server!stats, Srv!clientVars, Server!clientVars
  <2>5. ASSUME NEW c \in Clients, Server!Accept(c) \/ Server!PeerLost(c) \/ Server!OffClient(c)
        PROVE  Srv!Accept(c) \/ Srv!PeerLost(c) \/ Srv!OffClient(c)
    BY <2>5 DEF Srv!Started, Server!Started, Srv!Accept, Server!Accept, Srv!PeerLost, Server!PeerLost, Srv!OffClient,
           Server!OffClient, Srv!acceptVars, Server!acceptVars, Srv!stats, Server!stats,
           Srv!clientVars, Server!clientVars
  <2> QED BY <2>1, <2>2, <2>3, <2>4, <2>5 DEF Server!Next, Srv!Next
<1> QED BY <1>2, <1>3, <1>4, <1>5, <1>6

\* A step of a behaviour of this part is one of SocketServer.
LEMMA ServerIsStep ==
    part = "server" /\ [Next]_vars => part' = "server" /\ [Server!Next]_(Server!vars)
<1> SUFFICES ASSUME part = "server", [Next]_vars
             PROVE  part' = "server" /\ [Server!Next]_(Server!vars)
  OBVIOUS
<1>1. CASE ServerNext BY <1>1 DEF ServerNext, OfServer
<1>2. CASE UNCHANGED vars
  BY <1>2 DEF vars, serverVars, Server!vars, Server!acceptVars, Server!stats, Server!clientVars
<1>3. ~UdpNext /\ ~ClientNext BY DEF UdpNext, ClientNext, OfUdp, OfClient
<1> QED BY <1>1, <1>2, <1>3 DEF Next

\* The type invariant of the server, the sessions and the clients, for every
\* instance: no channel, queue or count leaves its bounds.
THEOREM TypeCorrect == Spec => []TypeOK
<1>1. Init => (part = "server" => Server!TypeOK)
  <2> SUFFICES ASSUME Server!Init PROVE Server!TypeOK
    BY DEF Init
  <2>1. Srv!IsFiniteSet(Clients)
    BY ServerAssumption DEF IsFiniteSet, Srv!IsFiniteSet
  <2>2. Srv!Init
    BY DEF Srv!Init, Server!Init, Srv!acceptVars, Server!acceptVars
  <2>3. Srv!TypeOK
    BY ServerAssumption, Srv!TypeInit, <2>1, <2>2
  <2> QED BY <2>3 DEF Srv!TypeOK, Server!TypeOK, Srv!NetStates, Server!NetStates
<1>2. (part = "server" => Server!TypeOK) /\ [Next]_vars => (part = "server" => Server!TypeOK)'
  <2> SUFFICES ASSUME part = "server" => Server!TypeOK, [Next]_vars, part' = "server"
               PROVE  Server!TypeOK'
    OBVIOUS
  <2>1. part = "server"
    BY DEF Next, ServerNext, UdpNext, ClientNext, OfServer, OfUdp, OfClient, vars
  <2> QED BY <2>1, ServerIsStep, SrvStep
<1>3. /\ part = "server" => Server!TypeOK
      /\ part = "udp" => UdpInv
      /\ part = "client" => ClientInv
      => TypeOK
  BY DEF TypeOK, UdpInv, ClientInv
<1> QED BY <1>1, <1>2, <1>3, UdpAlways, ClientAlways, PTL DEF Spec
=============================================================================
