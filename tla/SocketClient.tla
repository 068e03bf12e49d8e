---------------------------- MODULE SocketClient ----------------------------
(***************************************************************************)
(* The client end of a connection (SocketClientImpl in                     *)
(* pkg/libol/socket.go) in its four transports: Connect, SetStatus,        *)
(* Terminal and Close of tcp, kcp and udp clients are the same code, a     *)
(* websocket client has a channel done beside it on which Close tells the  *)
(* HTTP handler of the server to return (pkg/libol/websocket.go).  A       *)
(* client is the one of a point, which connects again and again, or one    *)
(* that the server made for a connection it accepted.                      *)
(*                                                                         *)
(* One goroutine connects (the Loop of SocketWorker); any may close.  The  *)
(* lock of the client is held over one step, except by a Close that waits  *)
(* for room in done.                                                       *)
(***************************************************************************)
EXTENDS Integers, FiniteSets

CONSTANTS
    Closers,    \* goroutines that call Close or Terminal
    DoneSize,   \* capacity of done (2 in the code)
    MaxConns,   \* bound: connections dialled
    Free

Conns == 1 .. MaxConns
NoConn == 0
Statuses == {"init", "connecting", "connected", "auth", "unauth", "closed", "terminal"}

VARIABLES
    web,        \* the client is a WebClient
    server,     \* the server made it
    lock,       \* holder of SocketClientImpl.lock
    status, conn,
    dialled,    \* connections made so far
    open,       \* connections that are open
    connector,  \* pc of Connect
    closer,     \* pc of each closer
    done,       \* tokens in WebClient.done
    handler     \* the handler of the websocket on the server

cVars == <<web, server, lock, status, conn, dialled, open, connector, closer, done, handler>>

TypeOK ==
    /\ web \in BOOLEAN /\ server \in BOOLEAN /\ lock \in Closers \cup {Free}
    /\ status \in Statuses /\ conn \in Conns \cup {NoConn}
    /\ dialled \in 0 .. MaxConns /\ open \subseteq 1 .. dialled
    /\ connector \in {"idle", "dial", "set"}
    /\ closer \in [Closers -> {"idle", "close", "token"}]
    /\ done \in 0 .. DoneSize /\ handler \in {"none", "accept", "wait", "gone"}

\* NewWebClientFromConn and its like, called with an accepted connection, or a
\* client that is yet to connect.
Init ==
    /\ web \in BOOLEAN /\ server \in BOOLEAN /\ lock = Free /\ status = "init"
    /\ conn = (IF server THEN 1 ELSE NoConn)
    /\ dialled = conn /\ open = {conn} \ {NoConn}
    /\ connector = "idle" /\ closer = [x \in Closers |-> "idle"] /\ done = 0
    /\ handler = IF server /\ web THEN "accept" ELSE "none"

-----------------------------------------------------------------------------
(* Connect: Retry, the dial without the lock, SetConnection.               *)

RetryAnyway == status \notin {"terminal", "unauth"}

\* Retry refuses a client that has a connection or that must not connect.
MayRetry == conn = NoConn /\ status \notin {"terminal", "unauth"}

Retry ==
    /\ ~server /\ connector = "idle" /\ lock = Free /\ MayRetry /\ dialled < MaxConns
    /\ status' = "connecting" /\ connector' = "dial"
    /\ UNCHANGED <<web, server, lock, conn, dialled, open, closer, done, handler>>

Dial ==
    /\ connector = "dial"
    /\ \/ dialled' = dialled + 1 /\ open' = open \cup {dialled'} /\ connector' = "set"
       \/ connector' = "idle" /\ UNCHANGED <<dialled, open>>
    /\ UNCHANGED <<web, server, lock, status, conn, closer, done, handler>>

SetConnection ==
    /\ connector = "set" /\ lock = Free
    /\ conn' = dialled /\ status' = "connected" /\ connector' = "idle"
    /\ UNCHANGED <<web, server, lock, dialled, open, closer, done, handler>>

\* The answer to a login.
SetStatus(s) ==
    /\ lock = Free /\ conn # NoConn /\ status \in {"init", "connected"} /\ status' = s
    /\ UNCHANGED <<web, server, lock, conn, dialled, open, connector, closer, done, handler>>

-----------------------------------------------------------------------------
(* Close and Terminal.                                                     *)

Terminal(x) ==
    /\ closer[x] = "idle" /\ lock = Free /\ status # "terminal"
    /\ status' = "terminal" /\ closer' = [closer EXCEPT ![x] = "close"]
    /\ UNCHANGED <<web, server, lock, conn, dialled, open, connector, done, handler>>

ClosedStatus == "closed"

\* Close leaves the status of a client that is terminal.
StatusClosed == IF status # "terminal" THEN "closed" ELSE status

Close(x) ==
    /\ closer[x] \in {"idle", "close"} /\ lock = Free
    /\ \/ /\ conn = NoConn /\ closer[x] = "close"
          /\ closer' = [closer EXCEPT ![x] = "idle"] /\ UNCHANGED <<status, conn, open, lock>>
       \/ /\ conn # NoConn
          /\ status' = StatusClosed /\ open' = open \ {conn} /\ conn' = NoConn
          /\ closer' = [closer EXCEPT ![x] = IF web THEN "token" ELSE "idle"]
          /\ lock' = IF web THEN x ELSE Free
    /\ UNCHANGED <<web, server, dialled, connector, done, handler>>

KeepsLock(x) ==
    /\ closer[x] = "token" /\ done < DoneSize
    /\ done' = done + 1 /\ closer' = [closer EXCEPT ![x] = "idle"]
    /\ UNCHANGED <<web, server, lock, status, conn, dialled, open, connector, handler>>

NoToken(x) ==
    /\ closer[x] = "token"
    /\ lock' = Free /\ closer' = [closer EXCEPT ![x] = "idle"]
    /\ UNCHANGED <<web, server, status, conn, dialled, open, connector, done, handler>>

\* A websocket's Close: the token goes into done with the lock held.
CloseToken(x) ==
    /\ closer[x] = "token" /\ done < DoneSize
    /\ done' = done + 1 /\ lock' = Free /\ closer' = [closer EXCEPT ![x] = "idle"]
    /\ UNCHANGED <<web, server, status, conn, dialled, open, connector, handler>>

-----------------------------------------------------------------------------
(* The handler of WebServer.Accept: it gives the client to the server and  *)
(* waits for done; then the websocket is closed.                           *)

HandlerAccept ==
    /\ handler = "accept" /\ handler' = "wait"
    /\ UNCHANGED <<web, server, lock, status, conn, dialled, open, connector, closer, done>>

HandlerDone ==
    /\ handler = "wait" /\ done > 0
    /\ done' = done - 1 /\ handler' = "gone" /\ open' = {}
    /\ UNCHANGED <<web, server, lock, status, conn, dialled, connector, closer>>

Next ==
    \/ Retry \/ Dial \/ SetConnection
    \/ \E s \in {"auth", "unauth"} : SetStatus(s)
    \/ \E x \in Closers : Terminal(x) \/ Close(x) \/ CloseToken(x)
    \/ HandlerAccept \/ HandlerDone

Spec == Init /\ [][Next]_cVars

-----------------------------------------------------------------------------
(* An open connection is the one the client has, or the one its Connect    *)
(* has dialled and not yet set: however Close, Terminal and failed dials   *)
(* interleave with Connect, none is left open that nobody can close, and   *)
(* the one the client has is open.                                         *)
NoConnLost ==
    /\ open \subseteq {conn} \cup (IF connector = "set" THEN {dialled} ELSE {})
    /\ conn # NoConn => conn \in open

(* A terminal client stays terminal: neither a Close nor a request to      *)
(* connect revives it, only a dial that was under way when it was          *)
(* terminated.                                                             *)
TerminalFinal ==
    [][status = "terminal" /\ connector # "set" => status' = "terminal"]_cVars

(* Whoever takes the lock gives it back, except the third Close of a       *)
(* websocket client on a point, where nobody takes the tokens out of done. *)
LockReturned == (lock # Free) ~> (lock = Free \/ (web /\ ~server /\ done = DoneSize))

(* The handler of a websocket returns once its client is closed.           *)
HandlerEnds == (handler # "none" /\ conn = NoConn) ~> (handler = "gone")
=============================================================================
