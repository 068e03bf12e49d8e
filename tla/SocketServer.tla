---------------------------- MODULE SocketServer ----------------------------
(***************************************************************************)
(* The connection server of the switch (pkg/libol/socket.go, with the      *)
(* accept loop of pkg/libol/tcpsocket.go): how a connection is accepted,   *)
(* registered, read and closed, and how the open ones are counted.         *)
(*                                                                         *)
(* The goroutines are the acceptor, the Loop that owns the registration    *)
(* and the closing, and per client a reader and a worker joined by a       *)
(* bounded queue.  Anybody (a reader, a login handler, the HTTP API, a tap *)
(* reader) may ask the Loop to close a client, at any time and any number  *)
(* of times, through the channel offClients.                               *)
(*                                                                         *)
(* A member of Clients is one accepted connection and the SocketClient     *)
(* built for it; a client object is never used for a second connection.    *)
(***************************************************************************)
EXTENDS Integers, Sequences, FiniteSets

CONSTANTS
    Clients,    \* the connections a run may see
    Addrs,      \* remote addresses, the keys of SocketServerImpl.clients
    AddrOf,     \* the remote address a connection comes from
    NoClient,   \* no SocketClient (nil)
    MaxClient,  \* SocketServerImpl.maxClient
    OnCap,      \* capacity of the channel onClients
    OffCap,     \* capacity of the channel offClients
    WrQus       \* capacity of the queue between reader and worker

ASSUME ClientsAssumption ==
    /\ IsFiniteSet(Clients)
    /\ NoClient \notin Clients
    /\ AddrOf \in [Clients -> Addrs]

ASSUME BoundsAssumption ==
    /\ MaxClient \in Nat /\ OnCap \in Nat \ {0}
    /\ OffCap \in Nat \ {0} /\ WrQus \in Nat \ {0}

VARIABLES
    acceptor,    \* pc of the acceptor goroutine,
    conn,        \*   the connection it has in hand,
    seen,        \*   and the value of SsAlive preAccept read
    closing,     \* the client the Loop is closing, NoClient when it selects
    net,         \* connection of each client, as its SocketClient sees it
    clients,     \* SocketServerImpl.clients
    onClients,   \* channel of accepted clients
    offClients,  \* channel of clients to close
    ssAccept,    \* statistics: connections preAccept saw,
    ssDeny,      \*             refused,
    ssClose,     \*             closed,
    ssAlive,     \*             and holding a slot
    reader,      \* pc of the goroutine running SocketServerImpl.Read
    worker,      \* pc of the goroutine that calls ReadAt
    queue,       \* number of frames between the two
    done         \* is a token in the channel done

acceptVars == <<acceptor, conn, seen>>
stats == <<ssAccept, ssDeny, ssClose, ssAlive>>
clientVars == <<reader, worker, queue, done>>
vars == <<acceptVars, closing, net, clients, onClients, offClients, stats, clientVars>>

NetStates == {"idle", "pending", "denied", "open", "lost", "closed"}

\* Clients that hold a slot: accepted, and not closed by the server.
Held == {c \in Clients : net[c] \in {"open", "lost"}}

\* Clients some goroutine of the server has been started for.
Started == {c \in Clients : reader[c] # "none"}

Init ==
    /\ acceptor = "accept" /\ conn = NoClient /\ seen = 0
    /\ closing = NoClient
    /\ net = [c \in Clients |-> "idle"]
    /\ clients = [a \in Addrs |-> NoClient]
    /\ onClients = <<>>
    /\ offClients = <<>>
    /\ ssAccept = 0 /\ ssDeny = 0 /\ ssClose = 0 /\ ssAlive = 0
    /\ reader = [c \in Clients |-> "none"]
    /\ worker = [c \in Clients |-> "none"]
    /\ queue = [c \in Clients |-> 0]
    /\ done = [c \in Clients |-> FALSE]

----------------------------------------------------------------------------
(* Acceptor goroutine. *)

\* A connection arrives and preAccept reads the number of open clients.  The
\* remote address may be the one of a connection the peer has lost, which the
\* server has not noticed yet, but never of one that is still open.
Accept(c) ==
    /\ acceptor = "accept"
    /\ net[c] = "idle"
    /\ \A d \in Clients : net[d] \in {"pending", "open"} => AddrOf[d] # AddrOf[c]
    /\ net' = [net EXCEPT ![c] = "pending"]
    /\ acceptor' = "check" /\ conn' = c /\ seen' = ssAlive
    /\ ssAccept' = ssAccept + 1 /\ UNCHANGED <<ssDeny, ssClose, ssAlive>>
    /\ UNCHANGED <<closing, clients, onClients, offClients, clientVars>>

\* Mutant: the limit is passed by one.
FullOffByOne == seen > MaxClient

\* The number of open clients preAccept read has reached the limit.
Full == seen >= MaxClient

\* Mutant: a refused connection is not counted as closed.
PreAcceptDenyUncounted ==
    /\ acceptor = "check" /\ Full
    /\ net' = [net EXCEPT ![conn] = "denied"]
    /\ acceptor' = "accept" /\ conn' = NoClient /\ UNCHANGED seen
    /\ ssDeny' = ssDeny + 1 /\ UNCHANGED <<ssAccept, ssClose, ssAlive>>
    /\ UNCHANGED <<closing, clients, onClients, offClients, clientVars>>

\* preAccept refuses.
PreAcceptDeny ==
    /\ acceptor = "check"
    /\ Full
    /\ net' = [net EXCEPT ![conn] = "denied"]
    /\ acceptor' = "accept" /\ conn' = NoClient /\ UNCHANGED seen
    /\ ssDeny' = ssDeny + 1 /\ ssClose' = ssClose + 1 /\ UNCHANGED <<ssAccept, ssAlive>>
    /\ UNCHANGED <<closing, clients, onClients, offClients, clientVars>>

\* preAccept admits: the slot is counted before the Loop knows the client.
PreAcceptAllow ==
    /\ acceptor = "check"
    /\ ~Full
    /\ net' = [net EXCEPT ![conn] = "open"]
    /\ acceptor' = "push" /\ UNCHANGED <<conn, seen>>
    /\ ssAlive' = ssAlive + 1 /\ UNCHANGED <<ssAccept, ssDeny, ssClose>>
    /\ UNCHANGED <<closing, clients, onClients, offClients, clientVars>>

\* The new client is sent to the Loop; the send blocks while onClients is full.
PushClient ==
    /\ acceptor = "push"
    /\ Len(onClients) < OnCap
    /\ onClients' = Append(onClients, conn)
    /\ acceptor' = "accept" /\ conn' = NoClient /\ UNCHANGED seen
    /\ UNCHANGED <<closing, net, clients, offClients, stats, clientVars>>

----------------------------------------------------------------------------
(* Loop goroutine. *)

\* Mutant: the client is not entered (the error of Set is dropped).
SetNothing(m, k, v) == m

\* SafeStrMap.Set keeps the value a key already has.
SetIfAbsent(m, k, v) == IF m[k] = NoClient THEN [m EXCEPT ![k] = v] ELSE m

DoOnClient ==
    /\ closing = NoClient
    /\ onClients # <<>>
    /\ LET c == Head(onClients) IN
       /\ clients' = SetIfAbsent(clients, AddrOf[c], c)
       /\ reader' = [reader EXCEPT ![c] = "read"]
       /\ worker' = [worker EXCEPT ![c] = "select"]
    /\ onClients' = Tail(onClients)
    /\ UNCHANGED <<acceptVars, closing, net, offClients, queue, done, stats>>

\* Mutant: every OffClient releases a slot.
RegisteredAlways(c) == TRUE

\* Is there an entry in clients under client.RemoteAddr()?  Close empties the
\* remote address, so a closed client finds none.
Registered(c) == net[c] # "closed" /\ clients[AddrOf[c]] # NoClient

\* First half of doOffClient, up to client.Close().
DoOffClient ==
    /\ closing = NoClient
    /\ offClients # <<>>
    /\ offClients' = Tail(offClients)
    /\ LET c == Head(offClients) IN
       IF Registered(c)
       THEN /\ ssClose' = ssClose + 1
            /\ net' = [net EXCEPT ![c] = "closed"]
            /\ closing' = c
       ELSE UNCHANGED <<ssClose, net, closing>>
    /\ UNCHANGED <<ssAccept, ssDeny, ssAlive, acceptVars, clients, onClients, clientVars>>

\* Second half of doOffClient: the entry is dropped and the slot released.
DoOffClientEnd ==
    /\ closing # NoClient
    /\ clients' = [clients EXCEPT ![AddrOf[closing]] = NoClient]
    /\ ssAlive' = ssAlive - 1 /\ UNCHANGED <<ssAccept, ssDeny, ssClose>>
    /\ closing' = NoClient
    /\ UNCHANGED <<acceptVars, net, onClients, offClients, clientVars>>

----------------------------------------------------------------------------
(* Reader and worker goroutines of one client. *)

ReadFrame(c) ==
    /\ reader[c] = "read"
    /\ net[c] = "open"
    /\ reader' = [reader EXCEPT ![c] = "push"]
    /\ UNCHANGED <<acceptVars, closing, net, clients, onClients, offClients, worker, queue, done, stats>>

\* Mutant: the queue has no capacity.
PushFrameUnbounded(c) ==
    /\ reader[c] = "push"
    /\ queue' = [queue EXCEPT ![c] = @ + 1]
    /\ reader' = [reader EXCEPT ![c] = "read"]
    /\ UNCHANGED <<acceptVars, closing, net, clients, onClients, offClients, worker, done, stats>>

\* The send blocks while the queue is full.
PushFrame(c) ==
    /\ reader[c] = "push"
    /\ queue[c] < WrQus
    /\ queue' = [queue EXCEPT ![c] = @ + 1]
    /\ reader' = [reader EXCEPT ![c] = "read"]
    /\ UNCHANGED <<acceptVars, closing, net, clients, onClients, offClients, worker, done, stats>>

\* Mutant: the reader ends without asking for the client to be closed.
ReadErrorSilent(c) ==
    /\ reader[c] = "read" /\ net[c] \in {"lost", "closed"}
    /\ done' = [done EXCEPT ![c] = TRUE]
    /\ reader' = [reader EXCEPT ![c] = "stop"]
    /\ UNCHANGED <<acceptVars, closing, net, clients, onClients, offClients, worker, queue, stats>>

\* ReadMsg fails: the peer is gone, or the Loop closed the connection.
ReadError(c) ==
    /\ reader[c] = "read"
    /\ net[c] \in {"lost", "closed"}
    /\ done' = [done EXCEPT ![c] = TRUE]
    /\ reader' = [reader EXCEPT ![c] = "off"]
    /\ UNCHANGED <<acceptVars, closing, net, clients, onClients, offClients, worker, queue, stats>>

\* The reader's last act is OffClient, which blocks while offClients is full.
ReaderOff(c) ==
    /\ reader[c] = "off"
    /\ Len(offClients) < OffCap
    /\ offClients' = Append(offClients, c)
    /\ reader' = [reader EXCEPT ![c] = "stop"]
    /\ UNCHANGED <<acceptVars, closing, net, clients, onClients, worker, queue, done, stats>>

TakeFrame(c) ==
    /\ worker[c] = "select"
    /\ queue[c] > 0
    /\ queue' = [queue EXCEPT ![c] = @ - 1]
    /\ worker' = [worker EXCEPT ![c] = "readAt"]
    /\ UNCHANGED <<acceptVars, closing, net, clients, onClients, offClients, reader, done, stats>>

\* ReadAt returns nil and the worker selects again.
ReadAtOk(c) ==
    /\ worker[c] = "readAt"
    /\ worker' = [worker EXCEPT ![c] = "select"]
    /\ UNCHANGED <<acceptVars, closing, net, clients, onClients, offClients, reader, queue, done, stats>>

\* ReadAt returns an error (no point or device behind the client): the worker
\* ends, tells nobody, and the reader goes on filling the queue.
ReadAtError(c) ==
    /\ worker[c] = "readAt"
    /\ worker' = [worker EXCEPT ![c] = "failed"]
    /\ UNCHANGED <<acceptVars, closing, net, clients, onClients, offClients, reader, queue, done, stats>>

TakeDone(c) ==
    /\ worker[c] = "select"
    /\ done[c]
    /\ done' = [done EXCEPT ![c] = FALSE]
    /\ worker' = [worker EXCEPT ![c] = "stop"]
    /\ UNCHANGED <<acceptVars, closing, net, clients, onClients, offClients, reader, queue, stats>>

----------------------------------------------------------------------------
(* The environment. *)

\* OffClient by somebody else: a login that replaces a session, a LeftReq, the
\* HTTP API, the tap reader whose WriteMsg failed.
OffClient(c) ==
    /\ c \in Started
    /\ Len(offClients) < OffCap
    /\ offClients' = Append(offClients, c)
    /\ UNCHANGED <<acceptVars, closing, net, clients, onClients, stats, clientVars>>

\* The peer resets the connection, goes silent or sends what cannot be framed.
PeerLost(c) ==
    /\ net[c] = "open"
    /\ net' = [net EXCEPT ![c] = "lost"]
    /\ UNCHANGED <<acceptVars, closing, clients, onClients, offClients, stats, clientVars>>

----------------------------------------------------------------------------
AcceptorStep == PreAcceptDeny \/ PreAcceptAllow \/ PushClient

LoopStep == DoOnClient \/ DoOffClient \/ DoOffClientEnd

ReaderStep(c) == ReadFrame(c) \/ PushFrame(c) \/ ReadError(c) \/ ReaderOff(c)

WorkerStep(c) == TakeFrame(c) \/ ReadAtOk(c) \/ ReadAtError(c) \/ TakeDone(c)

Next ==
    \/ AcceptorStep
    \/ LoopStep
    \/ \E c \in Clients :
         Accept(c) \/ ReaderStep(c) \/ WorkerStep(c) \/ OffClient(c) \/ PeerLost(c)

\* The runtime runs every goroutine that can run.  A select chooses at random
\* among its ready cases and blocked senders of a channel are served in order:
\* neither the Loop's two cases nor a sender to offClients is passed over for ever.
Fairness ==
    /\ WF_vars(AcceptorStep)
    /\ SF_vars(DoOnClient) /\ SF_vars(DoOffClient) /\ WF_vars(DoOffClientEnd)
    /\ \A c \in Clients :
         /\ WF_vars(ReadFrame(c) \/ PushFrame(c) \/ ReadError(c))
         /\ SF_vars(ReaderOff(c))
         /\ WF_vars(TakeFrame(c) \/ ReadAtOk(c) \/ TakeDone(c))

Spec == Init /\ [][Next]_vars

FairSpec == Spec /\ Fairness

----------------------------------------------------------------------------
(* Properties. *)

\* The values the state of SocketServerImpl and of its goroutines can take.
TypeOK ==
    /\ acceptor \in {"accept", "check", "push"}
    /\ conn \in Clients \cup {NoClient} /\ seen \in Int
    /\ acceptor = "accept" <=> conn = NoClient
    /\ closing \in Clients \cup {NoClient}
    /\ net \in [Clients -> NetStates]
    /\ clients \in [Addrs -> Clients \cup {NoClient}]
    /\ onClients \in Seq(Clients) /\ Len(onClients) <= OnCap
    /\ offClients \in Seq(Clients) /\ Len(offClients) <= OffCap
    /\ ssAccept \in Int /\ ssDeny \in Int /\ ssClose \in Int /\ ssAlive \in Int
    /\ reader \in [Clients -> {"none", "read", "push", "off", "stop"}]
    /\ worker \in [Clients -> {"none", "select", "readAt", "failed", "stop"}]
    /\ queue \in [Clients -> 0 .. WrQus]
    /\ done \in [Clients -> BOOLEAN]

Closing == IF closing # NoClient THEN 1 ELSE 0
Checking == IF acceptor = "check" THEN 1 ELSE 0

\* SsAlive, the number preAccept decides by, is exactly the number of clients
\* that hold a slot, however many times each is asked to close and whoever
\* reuses its address: no slot is released twice and none is forgotten by the
\* counter (doOffClient, preAccept).
AliveExact == ssAlive = Cardinality(Held) + Closing

\* preAccept reads SsAlive, compares, and only then adds to it, while the Loop
\* subtracts: still no more than maxClient clients hold a slot.
AliveBounded == Cardinality(Held) <= MaxClient /\ ssAlive <= MaxClient

\* Every connection counted as accepted is counted as alive or as closed, but
\* for the one preAccept is deciding about and the one the Loop is closing.
StatsBalanced == ssAccept = ssAlive + ssClose + Checking - Closing

\* The accounts of the server (socket.go:375-387, 467-490): the slots counted
\* are the slots held and at most maxClient, and the statistics balance,
\* whatever is refused, closed twice or registered under a reused address.
SlotsAccounted == AliveExact /\ AliveBounded /\ StatsBalanced

\* No other peer comes from the address of this one.
OwnAddr(c) == \A d \in Clients : AddrOf[d] = AddrOf[c] => d = c

\* A client that holds a slot, and has its address to itself, can be found by
\* doOffClient: it waits to be registered or is registered under its address.
\* (With a reused address it may be lost: Set keeps the older client.)
NoOrphan ==
    \A c \in Held : OwnAddr(c) =>
        \/ acceptor = "push" /\ conn = c
        \/ \E i \in 1 .. Len(onClients) : onClients[i] = c
        \/ clients[AddrOf[c]] = c

\* A slot whose peer is gone is released, whatever the readers and the other
\* callers of OffClient do, unless the worker of that client ended on a ReadAt
\* error: then the reader may be stuck on the full queue and notice nothing.
LostReleased ==
    \A c \in Clients : (net[c] = "lost") ~> (net[c] = "closed" \/ worker[c] = "failed")

Pool == INSTANCE SlotPool WITH
            Conns <- Clients, Size <- MaxClient, held <- Held,
            gone <- {c \in Clients : net[c] = "closed"},
            refused <- {c \in Clients : net[c] = "denied"}

\* The server implements a pool of MaxClient slots (module SlotPool), although
\* preAccept decides by a counter that the Loop lowers later and that clients
\* asked to close twice, or sharing an address, could lower twice.
ImplementsPool == Pool!Spec
=============================================================================
