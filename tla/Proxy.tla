------------------------------- MODULE Proxy -------------------------------
(***************************************************************************)
(* pkg/proxy: the proxies that Proxy.Start brings up one after the other,  *)
(* SOCKS, TCP and HTTP, each with a Promise that tries again while its     *)
(* port is taken, and what the TCP and the HTTP proxy do with a            *)
(* connection.  The accept loop of the TCP proxy looks for a target that   *)
(* answers, starting where the last connection ended; a tunnel copies both *)
(* ways until one direction ends.                                          *)
(***************************************************************************)
EXTENDS Integers, Sequences, FiniteSets

CONSTANTS
    Targets,   \* number of targets of the TCP proxy
    RRSize,    \* rr counts modulo this, a multiple of Targets; 2^64 in the code
    Conns,     \* connections to the TCP proxy
    Tunnels,   \* CONNECT requests to the HTTP proxy
    MaxTurns   \* bound: times a target goes down or comes back

NoConn == "none"
Kinds == <<"socks", "tcp", "http">>    \* the order of Proxy.Start

VARIABLES
    start,     \* the proxies Start has called Start of
    stopped,   \* Proxy.Stop was called
    taken,     \* ports held by others
    serves,    \* proxy -> "no", "retries", "yes", "shut", "ended"
    turns,
    rr, cur,   \* t.rr, and the connection the accept loop is busy with, NoConn if none
    fail,      \* targets that refused it
    tried,     \* history: connection -> the targets dialled for it, until it is over
    down,      \* targets that refuse connections
    conn       \* connection -> the state of its tunnel

startVars == <<start, stopped, taken, serves>>
loopVars == <<rr, cur, fail, tried>>
targetVars == <<down, turns>>
proxyVars == <<startVars, loopVars, targetVars, conn>>

All == Conns \cup Tunnels
Ends == {"client", "target"}
None == [at |-> "none", open |-> {}, copies |-> {}]
\* A tunnel: the ends that are open, and the goroutines that copy from each end.
Tunnel == [at |-> "tunnel", open |-> Ends, copies |-> Ends]

\* Is there nothing left of an earlier connection c?
Spare(c) == conn[c].at \in {"none", "failed", "over"} /\ conn[c].open = {} /\ conn[c].copies = {}

TypeOK ==
    /\ start \in 0 .. Len(Kinds) /\ stopped \in BOOLEAN
    /\ serves \in [{"socks", "tcp", "http"} -> {"no", "retries", "yes", "shut", "ended"}]
    /\ rr \in 0 .. RRSize - 1 /\ fail \in 0 .. Targets
    /\ cur \in Conns \cup {NoConn} /\ down \subseteq 0 .. Targets - 1
    /\ \A c \in All : conn[c].at \in {"none", "accepted", "tunnel", "failed", "over"}

Init ==
    /\ start = 0 /\ stopped = FALSE /\ turns = 0
    /\ taken \in SUBSET {"socks", "tcp", "http"}
    /\ serves = [k \in {"socks", "tcp", "http"} |-> "no"]
    /\ rr = 0 /\ cur = NoConn /\ fail = 0
    /\ tried = [c \in Conns |-> <<>>] /\ down = {}
    /\ conn = [c \in All |-> None]

----------------------------------------------------------------------------
(* Start and Stop. *)

\* A Promise's call: it listens, or is tried again.  The call of HttpProxy ends
\* in Shutdown also when it failed, and a server that was shut never serves.
TriesOnce(k) == IF k \in taken THEN "shut" ELSE "yes"
Tried(k) ==
    CASE serves[k] = "shut" -> "shut"
      [] k \notin taken -> "yes"
      [] k = "http" -> "shut"
      [] OTHER -> "retries"

\* Promise.Go lets Start go on, Promise.Done of TcpProxy.Start keeps it.
Returns(k) == k = "tcp" => serves[k] # "retries"
Start ==
    /\ start < Len(Kinds)
    /\ start > 0 => Returns(Kinds[start])
    /\ start' = start + 1
    /\ LET k == Kinds[start + 1] IN serves' = [serves EXCEPT ![k] = Tried(k)]
    /\ UNCHANGED <<stopped, taken, conn, loopVars, targetVars>>
Retry(k) ==
    /\ serves[k] = "retries" /\ serves' = [serves EXCEPT ![k] = Tried(k)]
    /\ UNCHANGED <<start, stopped, taken, conn, loopVars, targetVars>>
PortFreed(k) ==
    /\ k \in taken /\ taken' = taken \ {k}
    /\ UNCHANGED <<start, stopped, serves, conn, loopVars, targetVars>>

\* Stop closes the listener of the TCP proxy; the accept loop ends when it
\* comes back to Accept.
Stop ==
    /\ ~stopped /\ stopped' = TRUE
    /\ serves' = [serves EXCEPT !["tcp"] = IF @ = "yes" THEN "ended" ELSE @]
    /\ UNCHANGED <<start, taken, conn, loopVars, targetVars>>

----------------------------------------------------------------------------
(* The accept loop of TcpProxy. *)

Accept(c) ==
    /\ serves["tcp"] = "yes" /\ cur = NoConn /\ Spare(c)
    /\ cur' = c /\ fail' = 0 /\ tried' = [tried EXCEPT ![c] = <<>>]
    /\ conn' = [conn EXCEPT ![c] = [at |-> "accepted", open |-> {"client"}, copies |-> {}]]
    /\ UNCHANGED <<rr, startVars, targetVars>>

\* loadBalance: the next target in turn, until as many as there are have failed.
OneShort(f) == f < Targets - 1
MayTry(f) == f < Targets
Dial ==
    /\ cur # NoConn /\ MayTry(fail)
    /\ LET i == rr % Targets IN
       /\ tried' = [tried EXCEPT ![cur] = Append(@, i)]
       /\ IF i \in down
          THEN fail' = fail + 1 /\ UNCHANGED <<cur, conn>>
          ELSE /\ conn' = [conn EXCEPT ![cur] = Tunnel]
               /\ cur' = NoConn /\ fail' = 0
    /\ rr' = (rr + 1) % RRSize
    /\ UNCHANGED <<startVars, targetVars>>
\* No target is left: the loop goes on to the next connection, this one stays open.
GiveUp ==
    /\ cur # NoConn /\ ~MayTry(fail)
    /\ conn' = [conn EXCEPT ![cur].at = "failed"] /\ cur' = NoConn /\ fail' = 0
    /\ UNCHANGED <<rr, tried, startVars, targetVars>>
TargetTurns(i) ==
    /\ turns < MaxTurns /\ turns' = turns + 1
    /\ down' = IF i \in down THEN down \ {i} ELSE down \cup {i}
    /\ UNCHANGED <<conn, startVars, loopVars>>

----------------------------------------------------------------------------
(* HttpProxy: CONNECT.  Other requests are one round trip. *)

Connect(c) ==
    /\ serves["http"] = "yes" /\ Spare(c)
    /\ conn' = [conn EXCEPT ![c] = Tunnel]
    /\ UNCHANGED <<startVars, loopVars, targetVars>>

----------------------------------------------------------------------------
(* tunnel, of both. *)

\* One end closes its connection.
Hangup(c, e) ==
    /\ conn[c].at \in {"tunnel", "over", "failed"} /\ e \in conn[c].open
    /\ conn' = [conn EXCEPT ![c].open = @ \ {e}]
    /\ UNCHANGED <<startVars, loopVars, targetVars>>
\* A copy ends when the end it reads from is closed.
CopyEnds(c, e) ==
    /\ e \in conn[c].copies \ conn[c].open
    /\ conn' = [conn EXCEPT ![c].copies = @ \ {e}]
    /\ UNCHANGED <<startVars, loopVars, targetVars>>

\* WaitOne.Wait returns when the first copy has ended.  The deferred calls close
\* both ends in the TCP proxy, that of the client in the HTTP proxy.
BothDone(c) == conn[c].copies = {}
OneDone(c) == conn[c].copies # Ends
ClosesNone(c) == {}
Closes(c) == IF c \in Conns THEN Ends ELSE {"client"}
TunnelEnds(c) ==
    /\ conn[c].at = "tunnel" /\ OneDone(c)
    /\ conn' = [conn EXCEPT ![c].at = "over", ![c].open = @ \ Closes(c)]
    /\ tried' = [x \in Conns |-> IF x = c THEN <<>> ELSE tried[x]]
    /\ UNCHANGED <<rr, cur, fail, startVars, targetVars>>

Next ==
    \/ Start \/ Stop \/ Dial \/ GiveUp
    \/ \E k \in {"socks", "tcp", "http"} : Retry(k) \/ PortFreed(k)
    \/ \E c \in Conns : Accept(c)
    \/ \E c \in Tunnels : Connect(c)
    \/ \E i \in 0 .. Targets - 1 : TargetTurns(i)
    \/ \E c \in All : TunnelEnds(c) \/ \E e \in Ends : Hangup(c, e) \/ CopyEnds(c, e)

\* The goroutine of Start and those of the Promises.
StartStep == Start \/ Retry("socks") \/ Retry("tcp")
\* The goroutines of a tunnel.
TunnelStep(c) == TunnelEnds(c) \/ \E e \in Ends : CopyEnds(c, e)

\* Goroutines run: Start and its Promises do, and so does every tunnel.
Fairness == WF_proxyVars(StartStep) /\ \A c \in All : WF_proxyVars(TunnelStep(c))

Spec == Init /\ [][Next]_proxyVars /\ Fairness

----------------------------------------------------------------------------
\* tcp.go:48-56, 81-98: a connection is given up only after every target was
\* dialled for it, and no target is dialled twice for one, wherever the turn
\* of the connections before it ended.
AllTried == \A c \in Conns :
    /\ conn[c].at = "failed" => {tried[c][i] : i \in DOMAIN tried[c]} = 0 .. Targets - 1
    /\ \A i, j \in DOMAIN tried[c] : i # j => tried[c][i] # tried[c][j]

\* tcp.go:27-46, http.go:96-127: when one end of a tunnel hangs up, the client's
\* end is closed, and in the TCP proxy the target's too, and both copies end.
\* (The HTTP proxy leaves the target open.)
TunnelFreed ==
    \A c \in All : (conn[c].at = "tunnel" /\ conn[c].open # Ends)
                   ~> ("client" \notin conn[c].open
                       /\ (c \in Conns => conn[c].open = {} /\ conn[c].copies = {}))

AllUp == start = Len(Kinds) /\ serves["socks"] = "yes" /\ serves["tcp"] \in {"yes", "ended"}
         /\ serves["http"] \in {"yes", "shut"}

\* proxy.go:58-76: whatever ports were taken at first, when they are free Start
\* brings up every proxy, except an HTTP proxy whose port was taken when it was
\* first tried.
StartsAll == taken = {} ~> AllUp
=============================================================================
