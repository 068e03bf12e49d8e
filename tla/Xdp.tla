--------------------------------- MODULE Xdp ---------------------------------
(***************************************************************************)
(* UDP sessions over one socket (pkg/libol/xdp.go): the Loop receives for  *)
(* all sessions and puts what it receives on the queue of the session of   *)
(* the address it came from; the acceptor of UdpServer takes new sessions; *)
(* each session has a reader.  Sessions are numbered in the order Recv     *)
(* makes them, datagrams in the order they arrive.  Losing or reordering   *)
(* datagrams before the socket needs no action: they have no meaning here  *)
(* beyond their number.                                                    *)
(***************************************************************************)
EXTENDS Integers, Sequences, FiniteSets

CONSTANTS
    Remotes,        \* addresses of points
    MaxSessions,    \* size of the map of sessions (UdpConfig.Clients)
    QueueSize,      \* capacity of readQueue (1024 in the code)
    AcceptSize,     \* capacity of accept (2 in the code)
    MaxConns,       \* bound: sessions made
    MaxData,        \* bound: datagrams received
    NoConn

Conns == 1 .. MaxConns

VARIABLES
    loop,       \* pc of XDP.Loop
    target,     \* the session Recv is delivering to
    item,       \* the datagram it delivers
    received,   \* datagrams received so far
    made,       \* sessions made so far
    remote,     \* XDPConn.remoteAddr
    sessions,   \* XDP.sessions
    accept,     \* channel accept
    queue,      \* XDPConn.readQueue
    closed,     \* XDPConn.closed
    reader,     \* pc of the reader of a session
    got,        \* what the reader of a session was given last
    listening   \* the socket is open

xVars == <<loop, target, item, received, made, remote, sessions, accept, queue,
           closed, reader, got, listening>>

TypeOK ==
    /\ loop \in {"idle", "accept", "check", "send", "exit"}
    /\ target \in Conns \cup {NoConn} /\ item \in 0 .. MaxData
    /\ received \in 0 .. MaxData /\ made \in 0 .. MaxConns
    /\ remote \in [Conns -> Remotes] /\ sessions \in [Remotes -> Conns \cup {NoConn}]
    /\ accept \in Seq(Conns) /\ Len(accept) <= AcceptSize
    /\ \A c \in Conns : queue[c] \in Seq(1 .. MaxData) /\ Len(queue[c]) <= QueueSize
    /\ closed \in [Conns -> BOOLEAN] /\ got \in [Conns -> 0 .. MaxData]
    /\ reader \in [Conns -> {"none", "idle", "wait", "gone"}] /\ listening \in BOOLEAN

Init ==
    /\ loop = "idle" /\ target = NoConn /\ item = 0 /\ received = 0 /\ made = 0
    /\ remote = [c \in Conns |-> CHOOSE r \in Remotes : TRUE]
    /\ sessions = [r \in Remotes |-> NoConn]
    /\ accept = <<>> /\ queue = [c \in Conns |-> <<>>]
    /\ closed = [c \in Conns |-> FALSE] /\ reader = [c \in Conns |-> "none"]
    /\ got = [c \in Conns |-> 0] /\ listening = TRUE

InUse == {r \in Remotes : sessions[r] # NoConn}

-----------------------------------------------------------------------------
(* The Loop.                                                               *)

\* Recv: a session that is known, a new one, or a full map.
Recv(r) ==
    /\ loop = "idle" /\ listening /\ received < MaxData
    /\ received' = received + 1
    /\ \/ /\ sessions[r] # NoConn
          /\ loop' = "check" /\ target' = sessions[r] /\ item' = received'
          /\ UNCHANGED <<made, remote, sessions>>
       \/ /\ sessions[r] = NoConn /\ Cardinality(InUse) >= MaxSessions
          /\ UNCHANGED <<loop, target, item, made, remote, sessions>>
       \/ /\ sessions[r] = NoConn /\ Cardinality(InUse) < MaxSessions /\ made < MaxConns
          /\ made' = made + 1 /\ target' = made' /\ item' = received' /\ loop' = "accept"
          /\ remote' = [remote EXCEPT ![made'] = r]
          /\ sessions' = [sessions EXCEPT ![r] = made']
    /\ UNCHANGED <<accept, queue, closed, reader, got, listening>>

ToAcceptAnyway ==
    /\ loop = "accept"
    /\ accept' = Append(accept, target) /\ loop' = "check"
    /\ UNCHANGED <<target, item, received, made, remote, sessions, queue, closed,
                   reader, got, listening>>

\* x.accept <- conn waits for room.
ToAccept ==
    /\ loop = "accept" /\ Len(accept) < AcceptSize
    /\ accept' = Append(accept, target) /\ loop' = "check"
    /\ UNCHANGED <<target, item, received, made, remote, sessions, queue, closed,
                   reader, got, listening>>

Dropped == loop' = "idle" /\ target' = NoConn /\ item' = 0

\* toQueue tests closed and then waits for room in the queue of the session.
CheckClosed ==
    /\ loop = "check"
    /\ IF closed[target] THEN Dropped ELSE loop' = "send" /\ UNCHANGED <<target, item>>
    /\ UNCHANGED <<received, made, remote, sessions, accept, queue, closed, reader,
                   got, listening>>

ToQueueFirst ==
    /\ loop = "send" /\ Len(queue[target]) < QueueSize
    /\ queue' = [queue EXCEPT ![target] = <<item>> \o @]
    /\ Dropped
    /\ UNCHANGED <<received, made, remote, sessions, accept, closed, reader, got, listening>>

ToQueue ==
    /\ loop = "send" /\ Len(queue[target]) < QueueSize
    /\ queue' = [queue EXCEPT ![target] = Append(@, item)]
    /\ Dropped
    /\ UNCHANGED <<received, made, remote, sessions, accept, closed, reader, got, listening>>

\* ReadFromUDP fails once the socket is closed.
LoopExit ==
    /\ loop = "idle" /\ ~listening /\ loop' = "exit"
    /\ UNCHANGED <<target, item, received, made, remote, sessions, accept, queue,
                   closed, reader, got, listening>>

-----------------------------------------------------------------------------
(* Accept, the readers, and Close.                                         *)

AcceptForgets ==
    /\ accept # <<>> /\ accept' = Tail(accept)
    /\ UNCHANGED <<loop, target, item, received, made, remote, sessions, queue,
                   closed, reader, got, listening>>

Accept ==
    /\ accept # <<>>
    /\ accept' = Tail(accept) /\ reader' = [reader EXCEPT ![Head(accept)] = "idle"]
    /\ UNCHANGED <<loop, target, item, received, made, remote, sessions, queue,
                   closed, got, listening>>

\* Read tests closed under the lock and then waits.
ReadBegin(c) ==
    /\ reader[c] = "idle"
    /\ reader' = [reader EXCEPT ![c] = IF closed[c] THEN "gone" ELSE "wait"]
    /\ UNCHANGED <<loop, target, item, received, made, remote, sessions, accept,
                   queue, closed, got, listening>>

ReadData(c) ==
    /\ reader[c] = "wait" /\ queue[c] # <<>>
    /\ got' = [got EXCEPT ![c] = Head(queue[c])]
    /\ queue' = [queue EXCEPT ![c] = Tail(@)]
    /\ reader' = [reader EXCEPT ![c] = "idle"]
    /\ UNCHANGED <<loop, target, item, received, made, remote, sessions, accept,
                   closed, listening>>

NeverTimesOut(c) == FALSE /\ UNCHANGED xVars

\* The deadline that the Messager sets before each Read passes; the read
\* fails, and the server closes the session of a reader that fails.
ReadTimeout(c) ==
    /\ reader[c] = "wait" /\ reader' = [reader EXCEPT ![c] = "gone"]
    /\ UNCHANGED <<loop, target, item, received, made, remote, sessions, accept,
                   queue, closed, got, listening>>

CloseAlways(c) ==
    /\ closed' = [closed EXCEPT ![c] = TRUE]
    /\ sessions' = [sessions EXCEPT ![remote[c]] = NoConn]

\* XDPConn.Close does nothing the second time; onClose deletes the address.
CloseConn(c) ==
    /\ ~closed[c]
    /\ closed' = [closed EXCEPT ![c] = TRUE]
    /\ sessions' = [sessions EXCEPT ![remote[c]] = NoConn]

\* The server closes a session, for its reader, the API or a newer login.
Close(c) ==
    /\ reader[c] # "none" /\ CloseConn(c)
    /\ UNCHANGED <<loop, target, item, received, made, remote, accept, queue,
                   reader, got, listening>>

CloseListener ==
    /\ listening /\ listening' = FALSE
    /\ UNCHANGED <<loop, target, item, received, made, remote, sessions, accept,
                   queue, closed, reader, got>>

LoopStep == ToAccept \/ CheckClosed \/ ToQueue \/ LoopExit
ReaderStep(c) == ReadBegin(c) \/ ReadData(c)

Next ==
    \/ \E r \in Remotes : Recv(r)
    \/ LoopStep \/ Accept \/ CloseListener
    \/ \E c \in Conns : ReaderStep(c) \/ ReadTimeout(c) \/ Close(c)

Spec == Init /\ [][Next]_xVars

-----------------------------------------------------------------------------
(* The map of sessions holds exactly the sessions that are not closed: the *)
(* Close of an old session never takes away the one that its point has     *)
(* made since from the same address, and no closed one stays to swallow    *)
(* what the point sends.                                                   *)
SessionsOpen == \A c \in 1 .. made : closed[c] <=> sessions[remote[c]] # c

(* A reader is given what was received for its address in the order it     *)
(* came, across the waits of the Loop for room in other queues.            *)
DeliveredInOrder ==
    \A c \in Conns : \A i \in DOMAIN queue[c] :
        /\ queue[c][i] > got[c]
        /\ \A j \in 1 .. i - 1 : queue[c][j] < queue[c][i]
        /\ loop \in {"accept", "check", "send"} /\ target = c => queue[c][i] < item

(* The Loop waits for a queue that nobody reads any more.                  *)
Wedged == loop = "send" /\ Len(queue[target]) = QueueSize /\ reader[target] = "gone"

(* The Loop gets back to its socket from every datagram, unless the        *)
(* session it delivers to has filled its queue and lost its reader: then   *)
(* it serves no session again.                                             *)
LoopServes == (loop \in {"accept", "check", "send"}) ~> (loop = "idle" \/ Wedged)

(* A reader ends after its session is closed: not at once, as Close does   *)
(* not wake it, but by its deadline.                                       *)
ReaderEnds == \A c \in Conns : (reader[c] # "none" /\ closed[c]) ~> (reader[c] = "gone")
=============================================================================
