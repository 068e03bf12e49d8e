----------------------------- MODULE PointWorker -----------------------------
(***************************************************************************)
(* The Worker of a point (pkg/olap/worker.go) between its SocketWorker and *)
(* its TapWorker, and the Point on Linux below it                          *)
(* (pkg/olap/point_linux.go): the network the switch gave, the address and *)
(* the routes in the kernel, and the table FindNext looks a next hop up    *)
(* in.                                                                     *)
(*                                                                         *)
(* Three goroutines call it without a lock: the reader of the socket       *)
(* (OnSuccess, OnIpAddr), the Loop of the socket (OnClose) and the Loop of *)
(* the tap (OnOpen), and whoever stops the point.  A call is a sequence of *)
(* steps.  With Serial calls run one at a time.  The kernel is external: a *)
(* set of addresses and of routes, where adding what is there and deleting *)
(* what is not are errors without effect, and the ones of a device go with *)
(* it.                                                                     *)
(***************************************************************************)
EXTENDS Integers, Sequences, FiniteSets, Functions

CONSTANTS
    Nets,       \* networks the switch may give
    AddrOf,     \* their interface address
    SubnetOf,   \* their own subnet, a destination
    RoutesOf,   \* their routes, a sequence of <<destination, next hop>>
    IfAddr,     \* configured address, or NoAddr
    Bridge,     \* the point puts its device in a bridge
    ByPass,     \* the traffic to the switch goes around the routes
    Serial,
    MaxRules,   \* bound: entries of Worker.routes
    NoNet,
    NoAddr

VARIABLES
    pc,         \* step of each caller
    arg,        \* its network
    network,    \* Worker.network
    rules,      \* Worker.routes
    link,       \* Point.link is set
    bypass,     \* Point.bypass is set
    addrs,      \* kernel: addresses of the link
    routes,     \* kernel: routes in the main table
    around,     \* kernel: the route to the switch in table 100
    replaced,   \* history: networks given up without FreeIpAddr
    stopped

wVars == <<pc, arg, network, rules, link, bypass, addrs, routes, around, replaced, stopped>>

Callers == {"reader", "socket", "tap", "stop"}
Default == "0.0.0.0/0"
Dests == {SubnetOf[n] : n \in Nets} \cup UNION {{r[1] : r \in Range(RoutesOf[n])} : n \in Nets}
Halves == {"0.0.0.0/1", "128.0.0.0/1"}
NoHop == "zero"

TypeOK ==
    /\ pc \in [Callers -> {"idle", "ip", "addr", "route", "net", "free", "delroute",
                           "deladdr", "nil", "panic"}]
    /\ arg \in [Callers -> Nets \cup {NoNet}] /\ network \in Nets \cup {NoNet}
    /\ link \in BOOLEAN /\ bypass \in BOOLEAN /\ around \in BOOLEAN /\ stopped \in BOOLEAN
    /\ addrs \subseteq {AddrOf[n] : n \in Nets} \cup {IfAddr}
    /\ replaced \subseteq Nets
    /\ \A i \in DOMAIN rules : DOMAIN rules[i] = {"type", "dest", "hop"}

\* The tap device opens in Initialize, or not yet.
Init ==
    /\ pc = [c \in Callers |-> "idle"] /\ arg = [c \in Callers |-> NoNet]
    /\ network = NoNet /\ rules = <<>> /\ link \in BOOLEAN
    /\ bypass = FALSE /\ addrs = {} /\ routes = {} /\ around = FALSE
    /\ replaced = {} /\ stopped = FALSE

Idle == \A c \in Callers : pc[c] \in {"idle", "panic"}
MayCall(c) == pc[c] = "idle" /\ ~stopped /\ (Serial => Idle)
Goto(c, s) == pc' = [pc EXCEPT ![c] = s]

-----------------------------------------------------------------------------
(* What a network puts into the kernel.                                    *)

RouteSet(n) == IF n = NoNet THEN {} ELSE Range(RoutesOf[n])
HalfRoutes(n) == {<<h, r[2]>> : h \in Halves, r \in {q \in RouteSet(n) : q[1] = Default}}

RoutesFirst(n) ==
    [i \in DOMAIN RoutesOf[n] |->
       [type |-> 1, dest |-> RoutesOf[n][i][1], hop |-> RoutesOf[n][i][2]]]
    \o <<[type |-> 0, dest |-> SubnetOf[n], hop |-> NoHop]>>

\* OnIpAddr appends the own subnet, then the routes.
RulesOf(n) ==
    <<[type |-> 0, dest |-> SubnetOf[n], hop |-> NoHop]>>
    \o [i \in DOMAIN RoutesOf[n] |->
          [type |-> 1, dest |-> RoutesOf[n][i][1], hop |-> RoutesOf[n][i][2]]]

Covers(prefix, dest) == prefix \in {dest, Default}

\* FindNext: the first rule that matches; the own subnet is reached directly.
FindNext(rs, dest) ==
    LET hits == {i \in DOMAIN rs : Covers(rs[i].dest, dest)}
        first == CHOOSE i \in hits : \A j \in hits : i <= j
    IN IF hits = {} \/ rs[first].type = 0 THEN dest ELSE rs[first].hop

-----------------------------------------------------------------------------
(* OnIpAddr and OnSuccess.                                                 *)

OnIpAddr(n) ==
    /\ MayCall("reader") /\ Len(rules) < MaxRules /\ Goto("reader", "ip") /\ arg' = [arg EXCEPT !["reader"] = n]
    /\ UNCHANGED <<network, rules, link, bypass, addrs, routes, around, replaced, stopped>>

OnSuccess ==
    /\ MayCall("reader") /\ link /\ IfAddr # NoAddr
    /\ addrs' = addrs \cup {IfAddr}
    /\ UNCHANGED <<pc, arg, network, rules, link, bypass, routes, around, replaced, stopped>>

\* NetworkEqual, then Point.AddAddr.
CompareNet(c) ==
    /\ pc[c] = "ip" /\ Goto(c, IF network = arg[c] THEN "idle" ELSE "addr")
    /\ UNCHANGED <<arg, network, rules, link, bypass, addrs, routes, around, replaced, stopped>>

AddAddr(c) ==
    /\ pc[c] = "addr" /\ Goto(c, "route")
    /\ addrs' = IF link THEN addrs \cup {AddrOf[arg[c]]} ELSE addrs
    /\ UNCHANGED <<arg, network, rules, link, bypass, routes, around, replaced, stopped>>

\* AddRoutes with AddBypass, whose RouteGet may find no gateway.
AddRoutes(c) ==
    /\ pc[c] = "route" /\ Goto(c, "net")
    /\ \/ ~link /\ UNCHANGED <<routes, bypass, around>>
       \/ /\ link /\ ByPass /\ bypass' = TRUE /\ around' = TRUE
          /\ routes' = routes \cup HalfRoutes(arg[c]) \cup RouteSet(arg[c])
       \/ /\ link /\ routes' = routes \cup RouteSet(arg[c]) /\ UNCHANGED <<bypass, around>>
    /\ UNCHANGED <<arg, network, rules, link, addrs, replaced, stopped>>

SetNetwork(c) ==
    /\ pc[c] = "net" /\ Goto(c, "idle")
    /\ network' = arg[c] /\ rules' = rules \o RulesOf(arg[c])
    /\ replaced' = IF network = NoNet THEN replaced ELSE replaced \cup {network}
    /\ UNCHANGED <<arg, link, bypass, addrs, routes, around, stopped>>

-----------------------------------------------------------------------------
(* FreeIpAddr, called by OnClose, Stop and OnOpen.                         *)

OnClose ==
    /\ MayCall("socket") /\ Goto("socket", "free")
    /\ UNCHANGED <<arg, network, rules, link, bypass, addrs, routes, around, replaced, stopped>>

Stop ==
    /\ MayCall("stop") /\ Goto("stop", "free") /\ stopped' = TRUE
    /\ UNCHANGED <<arg, network, rules, link, bypass, addrs, routes, around, replaced>>

\* The kernel takes what was on a device with it; a bridge stays.
OpenFlush(s) == IF Bridge THEN s ELSE {}

\* open of the TapWorker: OnTap sets the link, and OnOpen gives the network
\* it finds to the new device.
OnOpen ==
    /\ MayCall("tap") /\ link' = TRUE
    /\ addrs' = OpenFlush(addrs) /\ routes' = OpenFlush(routes)
    /\ arg' = [arg EXCEPT !["tap"] = network]
    /\ Goto("tap", IF network = NoNet THEN "idle" ELSE "free")
    /\ UNCHANGED <<network, rules, bypass, around, replaced, stopped>>

\* After FreeIpAddr, OnOpen goes on with OnIpAddr.
AfterFree(c) == IF c = "tap" THEN "ip" ELSE "idle"

CheckNet(c) ==
    /\ pc[c] = "free" /\ Goto(c, IF network = NoNet THEN AfterFree(c) ELSE "delroute")
    /\ UNCHANGED <<arg, network, rules, link, bypass, addrs, routes, around, replaced, stopped>>

\* DelRoutes with DelBypass, which adds the route to the switch where it means
\* to delete it.  w.network may be nil by now.
KeepsHalves(n) == RouteSet(n)
RoutesFreed(n) == RouteSet(n) \cup (IF bypass THEN HalfRoutes(n) ELSE {})
DelRoutes(c) ==
    /\ pc[c] = "delroute"
    /\ IF network = NoNet
       THEN Goto(c, "panic") /\ UNCHANGED <<routes, bypass, around>>
       ELSE /\ Goto(c, "deladdr")
            /\ routes' = IF link THEN routes \ RoutesFreed(network) ELSE routes
            /\ around' = (around \/ (link /\ bypass))
            /\ bypass' = (bypass /\ ~link)
    /\ UNCHANGED <<arg, network, rules, link, addrs, replaced, stopped>>

DelAddr(c) ==
    /\ pc[c] = "deladdr"
    /\ IF network = NoNet
       THEN Goto(c, "panic") /\ UNCHANGED addrs
       ELSE Goto(c, "nil") /\ addrs' = IF link THEN addrs \ {AddrOf[network]} ELSE addrs
    /\ UNCHANGED <<arg, network, rules, link, bypass, routes, around, replaced, stopped>>

RulesFreed(rs) == <<>>
ClearNet(c) ==
    /\ pc[c] = "nil" /\ Goto(c, AfterFree(c))
    /\ network' = NoNet /\ rules' = RulesFreed(rules)
    /\ UNCHANGED <<arg, link, bypass, addrs, routes, around, replaced, stopped>>

Step(c) ==
    \/ CompareNet(c) \/ AddAddr(c) \/ AddRoutes(c) \/ SetNetwork(c)
    \/ CheckNet(c) \/ DelRoutes(c) \/ DelAddr(c) \/ ClearNet(c)

Next ==
    \/ \E n \in Nets : OnIpAddr(n)
    \/ OnSuccess \/ OnClose \/ OnOpen \/ Stop
    \/ \E c \in Callers : Step(c)

Spec == Init /\ [][Next]_wVars

-----------------------------------------------------------------------------
(* Between calls the kernel holds the address and the routes of the        *)
(* network the point has, also after the device was opened again and when  *)
(* the network came before the device, and no others but those of a        *)
(* network that OnIpAddr replaced without freeing it.                      *)
KernelFollows ==
    Idle =>
      /\ addrs \subseteq {IfAddr} \cup {AddrOf[n] : n \in replaced \cup ({network} \ {NoNet})}
      /\ routes \subseteq UNION {RouteSet(n) \cup HalfRoutes(n) : n \in replaced \cup {network}}
      /\ network # NoNet /\ link => AddrOf[network] \in addrs /\ RouteSet(network) \subseteq routes

NextHop(n, dest) ==
    IF dest = SubnetOf[n] \/ ~\E r \in RouteSet(n) : Covers(r[1], dest) THEN {dest}
    ELSE {r[2] : r \in {q \in RouteSet(n) : Covers(q[1], dest)}}

(* A point whose networks were each freed before the next sends what is    *)
(* for its own subnet directly, also with a default route, what a route of *)
(* its network covers to the next hop of one, and anything else directly;  *)
(* a point without a network has no rules.                                 *)
NextHopCurrent ==
    Idle /\ replaced = {} =>
      /\ network = NoNet => rules = <<>>
      /\ network # NoNet =>
           \A d \in Dests : FindNext(rules, d) \in NextHop(network, d)

(* worker.go: between calls the kernel and the table of next hops both     *)
(* follow the network the switch gave.                                     *)
NetworkFollowed == KernelFollows /\ NextHopCurrent
=============================================================================
