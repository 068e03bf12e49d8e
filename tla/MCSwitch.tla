------------------------------ MODULE MCSwitch ------------------------------
(***************************************************************************)
(* The parts of a switch besides its sessions in one run: the firewall,    *)
(* the workers of the networks, the OpenVPN server, the stores, the        *)
(* management server, the database client, and the proxy, a program of its *)
(* own.  part says which one a behaviour is of; the variables of the       *)
(* others stand still at 0.                                                *)
(***************************************************************************)
EXTENDS Integers, Sequences, FiniteSets, TLC

CONSTANTS Flows, Acls, Nets, MaxStarts, MaxReloads, EarlyReload
CONSTANTS Conns, Routes, Peer
CONSTANTS TunnelPorts, Vnets, Macs, NoFlow
CONSTANTS Members, VxMembers, Handlers, MaxEspReloads, MaxFaults, MaxLost
CONSTANTS Clients, Fixed, MaxProcs, MaxWrites
CONSTANTS Logins, Passes, Roles, Leases, Ldap, NoUser, NoPass, MaxCalls
CONSTANTS Workers, Listers, Lines, Ips, MaxSize, NbrSize, ChanCap, MaxFrames
CONSTANTS Requests, Points
CONSTANTS Links, EspLinks, Addressed, SpiOf, Hosts, NoIp, MaxChanges
CONSTANTS Targets, RRSize, Streams, Requested, MaxTurns

ASSUME TunAssumption ==
    /\ "main" \notin Handlers
    /\ MaxEspReloads \in Nat /\ MaxFaults \in Nat
\* The name of a patch port is made of the vni (vni2peer), that of a tunnel of
\* the remote address, with another prefix; no port has two modes.
ASSUME FabAssumption ==
    /\ TunnelPorts \in Seq({TunnelPorts[i] : i \in DOMAIN TunnelPorts})
    /\ Vnets \in Seq({Vnets[i] : i \in DOMAIN Vnets})
    /\ \A i, j \in DOMAIN TunnelPorts :
         /\ TunnelPorts[i].border \in BOOLEAN
         /\ TunnelPorts[i].port = TunnelPorts[j].port => TunnelPorts[i].border = TunnelPorts[j].border
    /\ \A i, j \in DOMAIN Vnets : Vnets[i].vni = Vnets[j].vni <=> Vnets[i].patch = Vnets[j].patch
    /\ \A i \in DOMAIN TunnelPorts, j \in DOMAIN Vnets : TunnelPorts[i].port # Vnets[j].patch
    /\ \A j \in DOMAIN Vnets : Vnets[j].vni # NoFlow
    /\ \A s \in SUBSET {TunnelPorts[i].port : i \in DOMAIN TunnelPorts} : s # NoFlow
\* A remote end has a name, and the numbers GenInt32 returns, from 100 on, are
\* those of no link.
ASSUME DbAssumption ==
    /\ IsFiniteSet(Links) /\ IsFiniteSet(Hosts) /\ EspLinks \subseteq Links
    /\ SpiOf \in [Links -> 0 .. 99]
    /\ "" \notin Hosts /\ "none" \notin Hosts /\ NoIp \notin Ips /\ MaxChanges \in Nat
ASSUME VpnAssumption == IsFiniteSet(Clients) /\ MaxProcs \in Nat /\ MaxWrites \in Nat
ASSUME LanAssumption ==
    /\ Conns \in Seq({Conns[i] : i \in DOMAIN Conns})
    /\ Routes \in Seq({Routes[i] : i \in DOMAIN Routes})
\* A password is one field or more, as its colons part it; nobody is no entry of
\* the table.  The second field of a password is read back as the role of its
\* user: one that says "ldap" would make the user one of LDAP.
PassFields == UNION { {p[i] : i \in DOMAIN p} : p \in Passes }
ASSUME UserAssumption ==
    /\ \A p \in Passes \cup {NoPass} : p \in Seq({p[i] : i \in DOMAIN p}) /\ p # <<>>
    /\ \A p \in Passes : Len(p) > 1 => p[2] # "ldap"
    /\ Len(NoPass) = 1 /\ 0 \in Leases /\ MaxCalls \in Nat
    /\ NoUser \notin [pass : Passes \cup {NoPass} \cup {<<x>> : x \in PassFields},
                    role : Roles \cup PassFields \cup {"ldap"}, lease : Leases]
ASSUME WebAssumption == MaxStarts \in Nat \ {0} /\ MaxFaults \in Nat
\* A key of a table is no name of a worker, and nil, which ends a listing, is
\* no flow.
ASSUME TableAssumption ==
    /\ "nobody" \notin Workers /\ "nil" \notin Lines
    /\ MaxSize \in Nat \ {0} /\ NbrSize \in Nat /\ ChanCap \in Nat
    /\ IsFiniteSet(Ips)
\* The 2^64 values of t.rr are a multiple of Targets or more than the dials of
\* a process's life, for which any greater multiple of Targets does as well.
ASSUME PrxAssumption ==
    /\ Targets \in Nat \ {0} /\ RRSize \in Nat \ {0} /\ RRSize % Targets = 0
    /\ "none" \notin Streams /\ Streams \cap Requested = {}

VARIABLES part
VARIABLES chains, rules, kernel, holder, step, life, starts, spawned, hooks, calls, reloads
VARIABLES at, n, lin, links, left, files, conf, point, dials, routes, promise,
          address, peer, settled
VARIABLES fabAt, k, tables, in0, fdb, toTun, toPatch, toBorder, loop, tunnels, borders,
          devs, last
VARIABLES tunLife, todo, states, policies, kStates, kPolicies, tunLinks, addrs, tunRoutes,
          vxlans, cStates, cPolicies, raced, tunReloads, tunFaults
VARIABLES switch, ccd, proc, pidFile, port, astray, online, linked, status, pending,
          writes, reader
VARIABLES users, file, call, before, torn, userCalls, accepted
VARIABLES lineList, lineMap, lines, lineLock, waiting, readers, worker, frames, lister,
          nbrs, announced
VARIABLES main, told, missed, boot, server, admin, tokenFile, saved, webPort, req,
          webStarts, faults, fresh, known, unread
VARIABLES open, rows, cached, queue, dns, members, xfrm, random, changes, steady
VARIABLES start, stopped, taken, serves, turns, rr, cur, fail, tried, down, conn

Wall == INSTANCE Firewall
Lan == INSTANCE OpenLANWorker
Fab == INSTANCE Fabric WITH Tunnels <- TunnelPorts, Nets <- Vnets, at <- fabAt
Tun == INSTANCE Tunnels WITH MaxReloads <- MaxEspReloads, life <- tunLife,
        links <- tunLinks, routes <- tunRoutes, reloads <- tunReloads, faults <- tunFaults
Vpn == INSTANCE OpenVPN
User == INSTANCE Users WITH Names <- Logins, calls <- userCalls
Table == INSTANCE Tables WITH holder <- lineLock
Web == INSTANCE HttpServer WITH file <- tokenFile, port <- webPort, starts <- webStarts
Db == INSTANCE Confd WITH Known <- EspLinks, Names <- Hosts,
                          MaxWrites <- MaxChanges, kernel <- xfrm, writes <- changes
Prx == INSTANCE Proxy WITH Conns <- Streams, Tunnels <- Requested

IsList(s) == s \in Seq({s[i] : i \in DOMAIN s})
\* The rules of the configuration are about chains that there are, with a
\* target each, and the ACL of a network is one of the switch.
ASSUME WallAssumption ==
    /\ MaxStarts \in Nat /\ MaxReloads \in Nat
    /\ IsList(Flows) /\ IsList(Acls) /\ IsList(Nets)
    /\ \A i \in DOMAIN Flows :
         /\ Flows[i].chain \in Wall!BuiltIns \cup Wall!Range(Wall!InitChains)
         /\ Flows[i].order = "-A" /\ Flows[i].jump[1] = "target"
    /\ \A i \in DOMAIN Acls : IsList(Acls[i].rules)
    /\ \A i \in DOMAIN Nets :
         /\ IsList(Nets[i].routes) /\ IsList(Nets[i].vpns)
         /\ \A j \in DOMAIN Nets[i].vpns : IsList(Nets[i].vpns[j].routes)
         /\ Nets[i].acl # "" => \E j \in DOMAIN Acls : Acls[j].name = Nets[i].acl

Rule(chain, match, jump) == [chain |-> chain, match |-> match, jump |-> jump, order |-> "-A"]
MCFlows == <<Rule(<<"filter", "built-in", "IN">>, "f1", <<"target", "ACCEPT", "">>),
             Rule(<<"filter", "OPENLAN", "FWD">>, <<"", "", "f2", "">>, <<"target", "DROP", "">>)>>
MCAcl(match, action) == [match |-> match, action |-> action]
MCAcls == <<[name |-> "acl1", rules |-> <<MCAcl("m1", "ACCEPT"), MCAcl("m2", "DROP"),
                                          MCAcl("m1", "ACCEPT")>>],
            [name |-> "", rules |-> <<MCAcl("m3", "DROP")>>],
            [name |-> "acl2", rules |-> <<MCAcl("m1", "DROP")>>]>>
MCNets == <<
    [bridge |-> "br1", acl |-> "acl1", subnet |-> "s1", ifAddr |-> "a1", mss |-> 1,
     routes |-> <<[prefix |-> "p1", local |-> TRUE, multi |-> FALSE, snat |-> TRUE],
                  [prefix |-> "0.0.0.0/0", local |-> TRUE, multi |-> TRUE, snat |-> FALSE]>>,
     vpns |-> <<[dev |-> "t1", subnet |-> "v1", routes |-> <<"p2">>, proto |-> "udp",
                 port |-> "1194"]>>],
    [bridge |-> "", acl |-> "acl1", subnet |-> "s2", ifAddr |-> "", mss |-> 0,
     routes |-> <<>>, vpns |-> <<>>],
    [bridge |-> "br2", acl |-> "acl2", subnet |-> "s3", ifAddr |-> "", mss |-> 0,
     routes |-> <<>>, vpns |-> <<>>]>>
MCConns == <<"c1", "c2", "c1">>
MCRoutes == <<[local |-> TRUE, multi |-> FALSE], [local |-> TRUE, multi |-> TRUE]>>
MCPorts == <<[port |-> "t1", border |-> FALSE], [port |-> "b1", border |-> TRUE],
             [port |-> "t2", border |-> FALSE]>>
MCVnets == <<[vni |-> 1, patch |-> "p1", outputs |-> {"o1"}],
             [vni |-> 2, patch |-> "p2", outputs |-> {}]>>
MCMembers == <<
    [name |-> "d1", spi |-> 1, known |-> TRUE, policies |-> <<<<"a", "b">>>>],
    [name |-> "d2", spi |-> 2, known |-> FALSE, policies |-> <<<<"a", "d">>>>],
    [name |-> "d3", spi |-> 3, known |-> TRUE, policies |-> <<<<"a", "b">>>>]>>
MCPasses == {<<"p">>, <<"p", "q">>}
MCNoPass == <<"">>
MCLdap == "n1" :> <<"p">> @@ "n2" :> <<"">>
MCSpiOf == "l1" :> 1 @@ "l2" :> 2 @@ "l3" :> 0

wallVars == <<chains, rules, kernel, holder, step, life, starts, spawned, hooks, calls, reloads>>
lanVars == <<at, n, lin, links, left, files, conf, point, dials, routes, promise, address,
             peer, settled>>
fabVars == <<fabAt, k, tables, in0, fdb, toTun, toPatch, toBorder, loop, tunnels, borders,
             devs, last>>
tunVars == <<tunLife, todo, states, policies, kStates, kPolicies, tunLinks, addrs,
             tunRoutes, vxlans, cStates, cPolicies, raced, tunReloads, tunFaults>>
vpnVars == <<switch, ccd, proc, pidFile, port, astray, online, linked, status, pending,
             writes, reader>>
userVars == <<users, file, call, before, torn, userCalls, accepted>>
tableVars == <<lineList, lineMap, lines, lineLock, waiting, readers, worker, frames, lister,
               nbrs, announced>>
webVars == <<main, told, missed, boot, server, admin, tokenFile, saved, webPort, req,
             webStarts, faults, fresh, known, unread>>
dbVars == <<open, rows, cached, queue, dns, members, xfrm, random, changes, steady>>
prxVars == <<start, stopped, taken, serves, turns, rr, cur, fail, tried, down, conn>>
vars == <<part, wallVars, lanVars, fabVars, tunVars, vpnVars,
          userVars, tableVars, webVars, dbVars, prxVars>>

StillWall ==
    /\ chains = 0 /\ rules = 0 /\ kernel = 0 /\ holder = 0 /\ step = 0 /\ life = 0 /\ starts = 0 /\ spawned = 0
    /\ hooks = 0 /\ calls = 0 /\ reloads = 0
StillLan ==
    /\ at = 0 /\ n = 0 /\ lin = 0 /\ links = 0 /\ left = 0 /\ files = 0 /\ conf = 0
    /\ point = 0 /\ dials = 0 /\ routes = 0 /\ promise = 0 /\ address = 0 /\ peer = 0
    /\ settled = 0
StillFab ==
    /\ fabAt = 0 /\ k = 0 /\ tables = 0 /\ in0 = 0 /\ fdb = 0 /\ toTun = 0
    /\ toPatch = 0 /\ toBorder = 0 /\ loop = 0 /\ tunnels = 0 /\ borders = 0 /\ devs = 0
    /\ last = 0
StillTun ==
    /\ tunLife = 0 /\ todo = 0 /\ states = 0 /\ policies = 0 /\ kStates = 0
    /\ kPolicies = 0 /\ tunLinks = 0 /\ addrs = 0 /\ tunRoutes = 0 /\ vxlans = 0
    /\ cStates = 0 /\ cPolicies = 0 /\ raced = 0 /\ tunReloads = 0 /\ tunFaults = 0
StillVpn ==
    /\ switch = 0 /\ ccd = 0 /\ proc = 0 /\ pidFile = 0 /\ port = 0 /\ astray = 0
    /\ online = 0 /\ linked = 0 /\ status = 0 /\ pending = 0 /\ writes = 0 /\ reader = 0
StillUser ==
    /\ users = 0 /\ file = 0 /\ call = 0 /\ before = 0 /\ torn = 0 /\ userCalls = 0
    /\ accepted = 0
StillTable ==
    /\ lineList = 0 /\ lineMap = 0 /\ lines = 0 /\ lineLock = 0 /\ waiting = 0
    /\ readers = 0 /\ worker = 0 /\ frames = 0 /\ lister = 0 /\ nbrs = 0
    /\ announced = 0
StillWeb ==
    /\ main = 0 /\ told = 0 /\ missed = 0 /\ boot = 0 /\ server = 0 /\ admin = 0
    /\ tokenFile = 0 /\ saved = 0 /\ webPort = 0 /\ req = 0 /\ webStarts = 0
    /\ faults = 0 /\ fresh = 0 /\ known = 0 /\ unread = 0
StillDb ==
    /\ open = 0 /\ rows = 0 /\ cached = 0 /\ queue = 0 /\ dns = 0 /\ members = 0
    /\ xfrm = 0 /\ random = 0 /\ changes = 0 /\ steady = 0
StillPrx ==
    /\ start = 0 /\ stopped = 0 /\ taken = 0 /\ serves = 0 /\ turns = 0 /\ rr = 0
    /\ cur = 0 /\ fail = 0 /\ tried = 0 /\ down = 0 /\ conn = 0

\* Every part but p stands still.
Only(p) ==
    /\ part = p
    /\ p # "wall" => StillWall
    /\ p # "lan" => StillLan
    /\ p # "fab" => StillFab
    /\ p # "tun" => StillTun
    /\ p # "vpn" => StillVpn
    /\ p # "user" => StillUser
    /\ p # "table" => StillTable
    /\ p # "web" => StillWeb
    /\ p # "db" => StillDb
    /\ p # "prx" => StillPrx
Init ==
    \/ Only("wall") /\ Wall!Init
    \/ Only("lan") /\ Lan!Init
    \/ Only("fab") /\ Fab!Init
    \/ Only("tun") /\ Tun!Init
    \/ Only("vpn") /\ Vpn!Init
    \/ Only("user") /\ User!Init
    \/ Only("table") /\ Table!Init
    \/ Only("web") /\ Web!Init
    \/ Only("db") /\ Db!Init
    \/ Only("prx") /\ Prx!Init

OfWall(A) ==
    /\ part = "wall" /\ A
    /\ UNCHANGED <<part, lanVars, fabVars, tunVars, vpnVars, userVars,
                   tableVars, webVars, dbVars, prxVars>>
OfLan(A) ==
    /\ part = "lan" /\ A
    /\ UNCHANGED <<part, wallVars, fabVars, tunVars, vpnVars, userVars,
                   tableVars, webVars, dbVars, prxVars>>
OfFab(A) ==
    /\ part = "fab" /\ A
    /\ UNCHANGED <<part, wallVars, lanVars, tunVars, vpnVars, userVars,
                   tableVars, webVars, dbVars, prxVars>>
OfTun(A) ==
    /\ part = "tun" /\ A
    /\ UNCHANGED <<part, wallVars, lanVars, fabVars, vpnVars, userVars,
                   tableVars, webVars, dbVars, prxVars>>
OfVpn(A) ==
    /\ part = "vpn" /\ A
    /\ UNCHANGED <<part, wallVars, lanVars, fabVars, tunVars, userVars,
                   tableVars, webVars, dbVars, prxVars>>
OfUser(A) ==
    /\ part = "user" /\ A
    /\ UNCHANGED <<part, wallVars, lanVars, fabVars, tunVars, vpnVars,
                   tableVars, webVars, dbVars, prxVars>>
OfTable(A) ==
    /\ part = "table" /\ A
    /\ UNCHANGED <<part, wallVars, lanVars, fabVars, tunVars, vpnVars,
                   userVars, webVars, dbVars, prxVars>>
OfWeb(A) ==
    /\ part = "web" /\ A
    /\ UNCHANGED <<part, wallVars, lanVars, fabVars, tunVars, vpnVars,
                   userVars, tableVars, dbVars, prxVars>>
OfDb(A) ==
    /\ part = "db" /\ A
    /\ UNCHANGED <<part, wallVars, lanVars, fabVars, tunVars, vpnVars,
                   userVars, tableVars, webVars, prxVars>>
OfPrx(A) ==
    /\ part = "prx" /\ A
    /\ UNCHANGED <<part, wallVars, lanVars, fabVars, tunVars, vpnVars,
                   userVars, tableVars, webVars, dbVars>>

WallNext == OfWall(Wall!Next)
LanNext == OfLan(Lan!Next)
FabNext == OfFab(Fab!Next)
TunNext == OfTun(Tun!Next)
VpnNext == OfVpn(Vpn!Next)
UserNext == OfUser(User!Next)
TableNext == OfTable(Table!Next)
WebNext == OfWeb(Web!Next)
DbNext == OfDb(Db!Next)
PrxNext == OfPrx(Prx!Next)
Next == WallNext \/ LanNext \/ FabNext \/ TunNext \/ VpnNext
        \/ UserNext \/ TableNext \/ WebNext \/ DbNext \/ PrxNext

\* The goroutines that the parts leave to themselves run: promises, the workers
\* and handlers of the tables, main and the handlers of the management server,
\* the tunnels of the proxy.
LanFairness ==
    /\ WF_lanVars(part = "lan" /\ Lan!ConnectPeer)
    /\ \A r \in DOMAIN Routes : WF_lanVars(part = "lan" /\ Lan!RouteAdd(r))
TableFairness ==
    /\ \A w \in Workers : WF_tableVars(part = "table" /\ Table!WorkerStep(w))
    /\ \A l \in Listers : WF_tableVars(part = "table" /\ Table!ListerStep(l))
WebFairness ==
    /\ WF_webVars(part = "web" /\ Web!StartStep) /\ WF_webVars(part = "web" /\ Web!StopStep)
    /\ \A r \in Requests : WF_webVars(part = "web" /\ Web!Handler(r))
PrxFairness ==
    /\ WF_prxVars(part = "prx" /\ Prx!StartStep)
    /\ \A c \in Streams \cup Requested : WF_prxVars(part = "prx" /\ Prx!TunnelStep(c))
Fairness == LanFairness /\ TableFairness /\ WebFairness /\ PrxFairness

Spec == Init /\ [][Next]_vars /\ Fairness

\* The type invariant of each part.
TypeOK ==
    /\ part = "wall" => Wall!TypeOK
    /\ part = "lan" => Lan!TypeOK
    /\ part = "fab" => Fab!TypeOK
    /\ part = "tun" => Tun!TypeOK
    /\ part = "vpn" => Vpn!TypeOK
    /\ part = "user" => User!TypeOK
    /\ part = "table" => Table!TypeOK
    /\ part = "web" => Web!TypeOK
    /\ part = "db" => Db!TypeOK
    /\ part = "prx" => Prx!TypeOK

\* Firewall: when no call is under way the kernel has the configured rules and
\* those that the clients of OpenVPN servers need, and Stop leaves none.
RulesKept ==
    /\ [](part = "wall" => Wall!Protected /\ Wall!VpnServed)
    /\ [][part = "wall" /\ holder = "stop" /\ holder' = "none" => kernel' = Wall!BuiltInOnly]_vars

\* OpenLANWorker: every point of a link dials the connection of its own link
\* and keeps its pid file, a Stop that finds no promise pending clears the
\* kernel, and while the worker is up its promises are kept.
NetworkKept ==
    /\ [](part = "lan" => Lan!DialsOwn /\ Lan!PidKept /\ Lan!KernelCleared)
    /\ \A r \in DOMAIN Routes : (part = "lan" /\ at = "up" /\ Lan!Installed(r))
                              ~> (part = "lan" /\ (r \in routes \/ at # "up"))
    /\ (part = "lan" /\ peer.promise = "try" /\ peer.br) ~> (part = "lan" /\ peer.promise = "done")

\* Fabric: frames stay in their logical switch and reach all of it.
FabricForwards == part = "fab" => Fab!FabricForwards

\* Tunnels: overlapping Reloads leave all states and policies, Stop none, but
\* for appends that race.
TunnelsRestored == part = "tun" => Tun!TunnelsRestored

\* OpenVPN: the pid file names the server, Stop ends it, its clients are listed.
ServerTracked == part = "vpn" => Vpn!ServerTracked

\* Users: a restart reads back every local user, whole, and nobody else.
UsersKept == part = "user" => User!UsersKept

\* Tables: list, map and cache agree, listings are snapshots, announced
\* neighbours are listed, and a worker gets past the listings to the table.
TablesAgree ==
    /\ [](part = "table" => Table!InSync /\ Table!ListsSnapshot /\ Table!NeighborsListed)
    /\ \A w \in Workers : (part = "table" /\ worker[w].at \in {"del", "set"})
                          ~> (part = "table" /\ worker[w].at = "idle")

\* HttpServer: the token file is current and survives, no handler runs while
\* the networks stop, Stop returns (or panics because Start had not made the
\* server), and the server serves when its port is or comes free.
WebServed ==
    /\ [](part = "web" => Web!FileCurrent /\ Web!TokenSurvives /\ Web!QuietStop)
    /\ (part = "web" /\ main = "left") ~> (part = "web" /\ main \in {"stopped", "dead", "up"})
    /\ (part = "web" /\ boot \in {"listen", "sleep"} /\ server = "new" /\ webPort = "free")
       ~> (part = "web" /\ (server \in {"serving", "shut"} \/ main # "up" \/ boot = "go"))

\* Confd: rows, members, names and kernel states agree.
RowsFollowed == part = "db" => Db!RowsFollowed

\* Proxy: a connection is given up only when every target refused it, a tunnel
\* is taken down when one end hangs up, and Start brings up the proxies.
ProxiesServe ==
    /\ [](part = "prx" => Prx!AllTried)
    /\ \A c \in Streams \cup Requested :
         (part = "prx" /\ conn[c].at = "tunnel" /\ conn[c].open # Prx!Ends)
         ~> (part = "prx" /\ "client" \notin conn[c].open
             /\ (c \in Streams => conn[c].open = {} /\ conn[c].copies = {}))
    /\ (part = "prx" /\ taken = {}) ~> (part = "prx" /\ Prx!AllUp)
=============================================================================
