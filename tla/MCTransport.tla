----------------------------- MODULE MCTransport -----------------------------
(***************************************************************************)
(* The connections of pkg/libol in one run: the server with fairness, the  *)
(* UDP sessions and the client of every transport.  part says which one a  *)
(* behaviour is of; the variables of the others stand still at 0.          *)
(***************************************************************************)
EXTENDS Integers, Sequences, FiniteSets, TLC

CONSTANTS Clients, Addrs, AddrOf, NoClient, MaxClient, OnCap, OffCap, WrQus
CONSTANTS Remotes, MaxSessions, QueueSize, AcceptSize, MaxConns, MaxData, NoSession
CONSTANTS Closers, DoneSize, MaxDials, Free

\* Room in the channels, and names that stand for nothing else.
ASSUME ServerAssumption ==
    /\ IsFiniteSet(Clients) /\ NoClient \notin Clients /\ AddrOf \in [Clients -> Addrs]
    /\ MaxClient \in Nat
    /\ OnCap \in Nat \ {0} /\ OffCap \in Nat \ {0} /\ WrQus \in Nat \ {0}
ASSUME UdpAssumption ==
    /\ QueueSize \in Nat /\ AcceptSize \in Nat /\ MaxConns \in Nat /\ MaxData \in Nat
    /\ NoSession \notin 1 .. MaxConns /\ Remotes # {}
ASSUME ClientAssumption == DoneSize \in Nat /\ MaxDials \in Nat \ {0} /\ Free \notin Closers

VARIABLES part
VARIABLES acceptor, conn, seen, closing, net, clients, onClients, offClients,
          ssAccept, ssDeny, ssClose, ssAlive, reader, worker, queue, done
VARIABLES loop, target, item, received, made, remote, sessions, accept, xQueue,
          closed, xReader, got, listening
VARIABLES web, server, lock, status, cConn, dialled, open, connector, closer, cDone, handler

serverVars == <<acceptor, conn, seen, closing, net, clients, onClients, offClients,
                ssAccept, ssDeny, ssClose, ssAlive, reader, worker, queue, done>>
xdpVars == <<loop, target, item, received, made, remote, sessions, accept, xQueue,
             closed, xReader, got, listening>>
clientVars == <<web, server, lock, status, cConn, dialled, open, connector, closer, cDone, handler>>
vars == <<part, serverVars, xdpVars, clientVars>>

Server == INSTANCE SocketServer
Udp == INSTANCE Xdp WITH NoConn <- NoSession, queue <- xQueue, reader <- xReader
Client == INSTANCE SocketClient WITH MaxConns <- MaxDials, conn <- cConn, done <- cDone

MCAddrOf == "c1" :> "a1" @@ "c2" :> "a2"

NoServer ==
    /\ acceptor = 0 /\ conn = 0 /\ seen = 0 /\ closing = 0 /\ net = 0 /\ clients = 0
    /\ onClients = 0 /\ offClients = 0 /\ ssAccept = 0 /\ ssDeny = 0 /\ ssClose = 0
    /\ ssAlive = 0 /\ reader = 0 /\ worker = 0 /\ queue = 0 /\ done = 0
NoUdp ==
    /\ loop = 0 /\ target = 0 /\ item = 0 /\ received = 0 /\ made = 0 /\ remote = 0
    /\ sessions = 0 /\ accept = 0 /\ xQueue = 0 /\ closed = 0 /\ xReader = 0
    /\ got = 0 /\ listening = 0
NoClientPart ==
    /\ web = 0 /\ server = 0 /\ lock = 0 /\ status = 0 /\ cConn = 0 /\ dialled = 0
    /\ open = 0 /\ connector = 0 /\ closer = 0 /\ cDone = 0 /\ handler = 0
Init ==
    \/ part = "server" /\ Server!Init /\ NoUdp /\ NoClientPart
    \/ part = "udp" /\ Udp!Init /\ NoServer /\ NoClientPart
    \/ part = "client" /\ Client!Init /\ NoServer /\ NoUdp

OfServer(A) == part = "server" /\ A /\ UNCHANGED <<part, xdpVars, clientVars>>
OfUdp(A) == part = "udp" /\ A /\ UNCHANGED <<part, serverVars, clientVars>>
OfClient(A) == part = "client" /\ A /\ UNCHANGED <<part, serverVars, xdpVars>>

ServerNext == OfServer(Server!Next)
UdpNext == OfUdp(Udp!Next)
ClientNext == OfClient(Client!Next)

Next == ServerNext \/ UdpNext \/ ClientNext

\* The runtime runs every goroutine that can run.  A select chooses at random
\* among its ready cases and blocked senders of a channel are served in order.
ServerFairness ==
    /\ WF_serverVars(part = "server" /\ Server!AcceptorStep)
    /\ SF_serverVars(part = "server" /\ Server!DoOnClient) /\ SF_serverVars(part = "server" /\ Server!DoOffClient)
    /\ WF_serverVars(part = "server" /\ Server!DoOffClientEnd)
    /\ \A c \in Clients :
         /\ WF_serverVars(part = "server" /\ (Server!ReadFrame(c) \/ Server!PushFrame(c) \/ Server!ReadError(c)))
         /\ SF_serverVars(part = "server" /\ Server!ReaderOff(c))
         /\ WF_serverVars(part = "server" /\ (Server!TakeFrame(c) \/ Server!ReadAtOk(c) \/ Server!TakeDone(c)))
UdpFairness ==
    /\ WF_xdpVars(part = "udp" /\ Udp!LoopStep) /\ WF_xdpVars(part = "udp" /\ Udp!Accept)
    /\ \A c \in 1 .. MaxConns :
         /\ WF_xdpVars(part = "udp" /\ Udp!ReaderStep(c)) /\ SF_xdpVars(part = "udp" /\ Udp!ReadData(c))
         /\ WF_xdpVars(part = "udp" /\ Udp!ReadTimeout(c))
ClientFairness ==
    /\ WF_clientVars(part = "client" /\ (\E x \in Closers : Client!CloseToken(x)))
    /\ WF_clientVars(part = "client" /\ (Client!HandlerAccept \/ Client!HandlerDone))

Spec == Init /\ [][Next]_vars /\ ServerFairness /\ UdpFairness /\ ClientFairness

\* The type invariant of each part.
TypeOK ==
    /\ part = "server" => Server!TypeOK
    /\ part = "udp" => Udp!TypeOK
    /\ part = "client" => Client!TypeOK

\* A slot of SocketServerImpl whose peer is gone is released.
LostReleased ==
    \A c \in Clients : (part = "server" /\ net[c] = "lost")
                       ~> (part = "server" /\ (net[c] = "closed" \/ worker[c] = "failed"))

\* Xdp: the map holds the sessions that are not closed, readers are given their
\* datagrams in order, the Loop gets back to its socket from each of them, and a
\* reader ends after the Close of its session.
SessionsServed ==
    /\ [](part = "udp" => Udp!SessionsOpen /\ Udp!DeliveredInOrder)
    /\ (part = "udp" /\ loop \in {"accept", "check", "send"})
       ~> (part = "udp" /\ (loop = "idle" \/ Udp!Wedged))
    /\ \A c \in 1 .. MaxConns :
         (part = "udp" /\ xReader[c] # "none" /\ closed[c]) ~> (part = "udp" /\ xReader[c] = "gone")

\* SocketClient: Connect and Close leave no connection behind, only a dial under
\* way revives a terminal client, Close gives the lock back, and the handler of
\* a websocket ends after the Close of its client.
ClientSound ==
    /\ [](part = "client" => Client!NoConnLost)
    /\ [][part = "client" /\ status = "terminal" /\ connector # "set" => status' = "terminal"]_vars
    /\ (part = "client" /\ lock # Free)
       ~> (part = "client" /\ (lock = Free \/ (web /\ ~server /\ cDone = DoneSize)))
    /\ (part = "client" /\ handler # "none" /\ cConn = 0) ~> (part = "client" /\ handler = "gone")
=============================================================================
