--------------------------- MODULE OpenLANWorker ---------------------------
(***************************************************************************)
(* The worker of one OpenLAN network (olsw/openlan.go) with the Linux      *)
(* bridge it opens (network/bridge_linux.go, brctl_linux.go), the routes   *)
(* and the veth pair it leaves to retrying goroutines (libol/promise.go),  *)
(* and its links, each a point that runs as a process of its own and is    *)
(* reached through files named after a uuid (olsw/link.go).                *)
(*                                                                         *)
(* All links share one configuration: LoadLinks passes the address of its  *)
(* loop variable (openlan.go:112), so the goroutine of Link.Start reads    *)
(* the Connection of whatever link the loop has come to.  A process that   *)
(* finds its configuration file takes the connection from there.           *)
(***************************************************************************)
EXTENDS Naturals, Sequences

CONSTANTS
    Conns,      \* cfg.Links: the sequence of their connections
    Routes,     \* cfg.Routes: sequence of [local, multi], multi: has MultiPath
    Peer        \* has the bridge a Peer?

VARIABLES
    at,         \* the worker: see Places
    n,          \* its place in the loop it is in
    lin,        \* what LoadLinks' loop variable holds: an index of Conns
    links,      \* Links.links: connection -> uuid; a uuid is an index of Conns
    left,       \* the links UnLoadLinks has still to stop
    files,      \* the files that exist: <<uuid, "conf">>, <<uuid, "pid">>
    conf,       \* uuid -> the connection saved in its configuration file
    point,      \* uuid -> its process: none, forked, exec, run, listed, dead
    dials,      \* uuid -> the connection of that process
    routes,     \* the routes of the network that are in the kernel
    promise,    \* route -> its goroutine: none, try, done
    address,    \* is the bridge's address set?
    peer,       \* [br: peer exists, veth: pair exists, promise]
    settled     \* no promise was pending when Stop was called

oVars == <<at, n, lin, links, left, files, conf, point, dials, routes, promise,
           address, peer, settled>>
linkVars  == <<lin, links, left, files, conf, point, dials>>
routeVars == <<routes, promise>>

UUIDs  == DOMAIN Conns
RIds   == DOMAIN Routes
Places == {"new", "links", "up", "unroute", "unlink", "stopped"}
NoConn == ""

Init ==
    /\ at = "new" /\ n = 1 /\ lin = 0 /\ links = <<>> /\ left = {} /\ files = {}
    /\ conf = [u \in UUIDs |-> NoConn] /\ dials = [u \in UUIDs |-> NoConn]
    /\ point = [u \in UUIDs |-> "none"]
    /\ routes = {} /\ promise = [r \in RIds |-> "none"]
    /\ address = FALSE /\ settled = FALSE
    /\ peer \in [br : BOOLEAN, veth : {FALSE}, promise : {"none"}]

-----------------------------------------------------------------------------
Range(f) == {f[x] : x \in DOMAIN f}

(* Start: UpBridge with connectPeer, LoadLinks, LoadRoutes. *)

UpBridge ==
    /\ at = "new" /\ at' = "links" /\ n' = 1
    /\ address' = TRUE
    /\ peer' = [peer EXCEPT !.promise = IF Peer THEN "try" ELSE "none"]
    /\ UNCHANGED <<linkVars, routeVars, settled>>

(* The configuration is saved before the goroutine of Start is made; with  *)
(* no log file there is no goroutine.                                      *)
AddLink ==
    /\ at = "links" /\ n <= Len(Conns)
    /\ lin' = n /\ n' = n + 1
    /\ conf' = [conf EXCEPT ![n] = Conns[n]]
    /\ files' = files \cup {<<n, "conf">>}
    /\ links' = [c \in DOMAIN links \cup {Conns[n]} |->
                    IF c = Conns[n] THEN n ELSE links[c]]
    /\ \E st \in {"forked", "none"} : point' = [point EXCEPT ![n] = st]
    /\ UNCHANGED <<at, left, dials, routeVars, address, peer, settled>>

(* A route whose next hop is the bridge itself is not installed. *)
Installed(r) == Routes[r].multi \/ ~Routes[r].local

LoadRoutes ==
    /\ at = "links" /\ n > Len(Conns) /\ at' = "up"
    /\ promise' = [r \in RIds |-> IF Installed(r) THEN "try" ELSE "none"]
    /\ UNCHANGED <<n, linkVars, routes, address, peer, settled>>

GivesUp(r) ==
    /\ promise[r] = "try"
    /\ promise' = [promise EXCEPT ![r] = "done"]
    /\ UNCHANGED <<at, n, linkVars, routes, address, peer, settled>>

(* Promise.Done calls again until the call returns no error. *)
RouteAdd(r) ==
    /\ promise[r] = "try" /\ address /\ r \notin routes
    /\ routes' = routes \cup {r} /\ promise' = [promise EXCEPT ![r] = "done"]
    /\ UNCHANGED <<at, n, linkVars, address, peer, settled>>

(* connectPeer: without the peer it is tried again; an error of LinkAdd    *)
(* ends the promise.                                                       *)
ConnectPeer ==
    /\ peer.promise = "try" /\ peer.br
    /\ peer' = [peer EXCEPT !.promise = "done", !.veth = TRUE]
    /\ UNCHANGED <<at, n, linkVars, routeVars, address, settled>>

(* External: the peer's bridge comes up. *)
PeerUp ==
    /\ ~peer.br /\ peer' = [peer EXCEPT !.br = TRUE]
    /\ UNCHANGED <<at, n, linkVars, routeVars, address, settled>>

-----------------------------------------------------------------------------
(* The processes of the links. *)

(* The goroutine of Link.Start: the argument -conn is l.cfg.Connection. *)
LinkRun(u) ==
    /\ point[u] = "forked"
    /\ point' = [point EXCEPT ![u] = "exec"]
    /\ dials' = [dials EXCEPT ![u] = Conns[lin]]
    /\ UNCHANGED <<at, n, lin, links, left, files, conf, routeVars, address, peer, settled>>

ArgumentWins(u) == dials[u]

(* NewPoint: the flags are parsed first, then the file is loaded over them. *)
Loaded(u) == IF <<u, "conf">> \in files THEN conf[u] ELSE dials[u]

(* A process without its file has no name for a pid file. *)
PointLoads(u) ==
    /\ point[u] = "exec"
    /\ dials' = [dials EXCEPT ![u] = Loaded(u)]
    /\ point' = [point EXCEPT ![u] = IF <<u, "conf">> \in files THEN "run" ELSE "lost"]
    /\ UNCHANGED <<at, n, lin, links, left, files, conf, routeVars, address, peer, settled>>

(* Worker.Initialize of the point writes the pid file. *)
PointLists(u) ==
    /\ point[u] = "run"
    /\ point' = [point EXCEPT ![u] = "listed"]
    /\ files' = files \cup {<<u, "pid">>}
    /\ UNCHANGED <<at, n, lin, links, left, conf, dials, routeVars, address, peer, settled>>

(* cmd.Run returns: a point that ends is not started again. *)
PointEnds(u) ==
    /\ point[u] \in {"run", "listed"}
    /\ point' = [point EXCEPT ![u] = "dead"]
    /\ UNCHANGED <<at, n, lin, links, left, files, conf, dials, routeVars, address, peer, settled>>

-----------------------------------------------------------------------------
(* Stop: UnLoadRoutes, UnLoadLinks, downBridge. *)

Stop ==
    /\ at = "up" /\ at' = "unroute" /\ n' = 1
    /\ settled' = ("try" \notin Range(promise) \cup {peer.promise})
    /\ UNCHANGED <<linkVars, routeVars, address, peer>>

KeepsMulti(r) == IF Routes[r].multi THEN {} ELSE {r}

(* RouteDel of one configured route, also of one that was not installed;   *)
(* a MultiPath route is named by its destination alone.                    *)
Deleted(r) == {r}

UnLoadRoute ==
    /\ at = "unroute" /\ n <= Len(Routes) /\ n' = n + 1
    /\ routes' = routes \ Deleted(n)
    /\ UNCHANGED <<at, linkVars, promise, address, peer, settled>>

RoutesUnloaded ==
    /\ at = "unroute" /\ n > Len(Routes) /\ at' = "unlink"
    /\ left' = Range(links)
    /\ UNCHANGED <<n, lin, links, files, conf, point, dials, routeVars, address, peer, settled>>

Alive == {"run", "listed"}

CleanFirst(u) == point

(* Link.Stop kills the pid of the file, if there is one; then Clean.       *)
Killed(u) ==
    IF <<u, "pid">> \in files /\ point[u] \in Alive
    THEN [point EXCEPT ![u] = "dead"] ELSE point

LinkStop(u) ==
    /\ at = "unlink" /\ u \in left
    /\ left' = left \ {u}
    /\ point' = Killed(u)
    /\ files' = { f \in files : f[1] # u }
    /\ UNCHANGED <<at, n, lin, links, conf, dials, routeVars, address, peer, settled>>

(* downBridge: closePeer deletes the pair, Close the address. *)
DownBridge ==
    /\ at = "unlink" /\ left = {} /\ at' = "stopped"
    /\ address' = FALSE
    /\ peer' = [peer EXCEPT !.veth = IF Peer THEN FALSE ELSE @]
    /\ UNCHANGED <<n, linkVars, routeVars, settled>>

-----------------------------------------------------------------------------
Next ==
    \/ UpBridge \/ AddLink \/ LoadRoutes \/ ConnectPeer \/ PeerUp
    \/ \E r \in RIds : RouteAdd(r)
    \/ \E u \in UUIDs : LinkRun(u) \/ PointLoads(u) \/ PointLists(u) \/ PointEnds(u)
    \/ Stop \/ UnLoadRoute \/ RoutesUnloaded
    \/ \E u \in UUIDs : LinkStop(u)
    \/ DownBridge

(* A promise sleeps and tries again for as long as the process lives. *)
Fairness == WF_oVars(ConnectPeer) /\ \A r \in RIds : WF_oVars(RouteAdd(r))

Spec == Init /\ [][Next]_oVars /\ Fairness

-----------------------------------------------------------------------------
(* Every variable stays in its domain from Start to Stop. *)
TypeOK ==
    /\ at \in Places /\ n \in 1 .. Len(Conns) + Len(Routes) + 1
    /\ lin \in 0 .. Len(Conns)
    /\ DOMAIN links \subseteq Range(Conns) /\ Range(links) \subseteq UUIDs
    /\ left \subseteq UUIDs /\ files \subseteq UUIDs \X {"conf", "pid"}
    /\ conf \in [UUIDs -> Range(Conns) \cup {NoConn}]
    /\ dials \in [UUIDs -> Range(Conns) \cup {NoConn}]
    /\ point \in [UUIDs -> Alive \cup {"none", "forked", "exec", "lost", "dead"}]
    /\ routes \subseteq RIds /\ promise \in [RIds -> {"none", "try", "done"}]
    /\ address \in BOOLEAN /\ settled \in BOOLEAN
    /\ peer \in [br : BOOLEAN, veth : BOOLEAN, promise : {"none", "try", "done"}]

(* Until UnLoadLinks removes the files (olsw/link.go: Clean), every point  *)
(* dials the connection of its own link although the links share one       *)
(* configuration (openlan.go:112) and their goroutines run late.           *)
DialsOwn ==
    \A u \in UUIDs : point[u] \in Alive => dials[u] = Conns[u]

(* Link.Stop (olsw/link.go:118) kills before it cleans: the pid file of a  *)
(* point that is alive and has written it is never removed, even when two  *)
(* links have the same connection and one of them is never stopped.        *)
PidKept ==
    \A u \in UUIDs : point[u] = "listed" => <<u, "pid">> \in files

(* A Stop that finds no promise pending (openlan.go: UnLoadRoutes,         *)
(* closePeer) leaves no route, no pair and no address in the kernel.       *)
KernelCleared ==
    at = "stopped" /\ settled => routes = {} /\ ~peer.veth /\ ~address

(* libol/promise.go: while the worker is up, every route of the network    *)
(* that is not local comes to the kernel, and the peer is joined once its  *)
(* bridge exists.                                                          *)
PromisesKept ==
    /\ \A r \in RIds : at = "up" /\ Installed(r) ~> r \in routes \/ at # "up"
    /\ peer.promise = "try" /\ peer.br ~> peer.promise = "done"
=============================================================================
