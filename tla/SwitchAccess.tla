---------------------------- MODULE SwitchAccess ----------------------------
(***************************************************************************)
(* Sessions on the switch: a client logs in (pkg/olsw/app/access.go), asks *)
(* for an interface address (pkg/olsw/app/request.go) and is closed        *)
(* (Switch.OnClose), over the caches of points, users and leases           *)
(* (pkg/olsw/cache).                                                       *)
(*                                                                         *)
(* Every client has a worker goroutine that handles its frames; one Loop   *)
(* closes clients.  Each cache is a set of maps with a lock of their own,  *)
(* so a handler is a sequence of steps, one per locked map operation, and  *)
(* the steps of different goroutines interleave.  With Serial the          *)
(* handlers run one at a time instead: the reading under which the code's  *)
(* own comments are right.                                                 *)
(*                                                                         *)
(* A client is its own remote address, client.String(): no two clients of  *)
(* this module share one.  A request to close a client that already waits  *)
(* in offClients is dropped: doOffClient would ignore it (SocketServer).   *)
(***************************************************************************)
EXTENDS Integers, Sequences, FiniteSets

CONSTANTS
    Clients,    \* connections of points
    Users,      \* entries of the user cache
    Guests,     \* users with role guest (an ldap entry is never given back by
                \* Check, so its Last is never read)
    UUIDs,      \* uuids of points, cut to 13 characters by SetUser
    UserOf,     \* the user a client logs in as
    UUIDOf,     \* the uuid it logs in with
    LastIp,     \* the subnet of the network is the addresses 1 .. LastIp
    StaticIp,   \* address configured for the host name of a client, or NoIp
    NoClient,
    NoUUID,
    Serial      \* handlers run one at a time

NoIp == 0
Ips == 1 .. LastIp

\* Configured hosts are entered as leases that are never deleted, under the
\* name of the host, which is no uuid of a point.
StaticHolder == "static"

ASSUME AccessAssumption ==
    /\ IsFiniteSet(Clients) /\ NoClient \notin Clients
    /\ Guests \subseteq Users /\ NoUUID \notin UUIDs
    /\ StaticHolder \notin UUIDs \cup {NoUUID}
    /\ UserOf \in [Clients -> Users] /\ UUIDOf \in [Clients -> UUIDs]
    /\ LastIp \in Nat /\ StaticIp \in [Clients -> Ips \cup {NoIp}]
    /\ Serial \in BOOLEAN

VARIABLES
    status,     \* SocketClient.status of each client
    closed,     \* clients the Loop has closed: the connection is nil
    worker,     \* pc of the worker goroutine of each client
    off,        \* channel offClients
    loop,       \* pc of the Loop
    victim,     \* the client the Loop is closing
    freed,      \* address of the lease DelLease has deleted
    uuidAddr,   \* cache.Point.UUIDAddr
    addrUUID,   \* cache.Point.AddrUUID
    points,     \* keys of cache.Point.Clients
    device,     \* clients whose tap device is up
    last,       \* User.Last
    leases,     \* cache.Network.UUID: address leased to a uuid
    holder,     \* cache.Network.Addr: uuid in the lease of an address
    given,      \* address last sent to a client in an IpAddrResp
    picked      \* address allocLease returned to the worker of a client

pointVars == <<uuidAddr, addrUUID, points, device>>
leaseVars == <<leases, holder>>
workVars == <<given, picked>>
loopVars == <<loop, victim, freed>>
vars == <<status, closed, worker, off, loopVars, pointVars, last, leaseVars, workVars>>

Init ==
    /\ status = [c \in Clients |-> "new"]
    /\ closed = {}
    /\ worker = [c \in Clients |-> "none"]
    /\ off = <<>>
    /\ loop = "select" /\ victim = NoClient /\ freed = NoIp
    /\ uuidAddr = [u \in UUIDs |-> NoClient]
    /\ addrUUID = [c \in Clients |-> NoUUID]
    /\ points = {}
    /\ device = {}
    /\ last = [u \in Users |-> NoClient]
    /\ leases = [u \in UUIDs |-> NoIp]
    /\ holder = [i \in Ips |-> IF \E c \in Clients : StaticIp[c] = i THEN StaticHolder ELSE NoUUID]
    /\ given = [c \in Clients |-> NoIp]
    /\ picked = [c \in Clients |-> NoIp]

Idle(c) == worker[c] \in {"none", "select", "stop"}

\* May a handler start?  Only when no other runs, if they are serial.
MayStart == Serial => (loop = "select" /\ \A c \in Clients : Idle(c))

Pending == {off[i] : i \in 1 .. Len(off)}

\* Switch.OffClient of at most one client.
OffClient(S) ==
    off' = IF S \subseteq Pending THEN off ELSE Append(off, CHOOSE c \in S : TRUE)

Goto(c, pc) == worker' = [worker EXCEPT ![c] = pc]

----------------------------------------------------------------------------
(* Registration, and the frames a worker handles. *)

\* doOnClient with Switch.OnClient.
OnClient(c) ==
    /\ worker[c] = "none" /\ loop = "select" /\ MayStart
    /\ status' = [status EXCEPT ![c] = "connected"]
    /\ Goto(c, "select")
    /\ UNCHANGED <<closed, off, loopVars, pointVars, last, leaseVars, workVars>>

\* The worker takes the done token its reader left when it failed.
WorkerStop(c) ==
    /\ worker[c] = "select" /\ (c \in closed \cup Pending)
    /\ Goto(c, "stop")
    /\ UNCHANGED <<status, closed, off, loopVars, pointVars, last, leaseVars, workVars>>

\* handleLogin of a client that is not authenticated: the user is not known,
\* its password is wrong or its lease is over.
LoginFail(c) ==
    /\ worker[c] = "select" /\ MayStart
    /\ status[c] # "auth"
    /\ status' = [status EXCEPT ![c] = "unauth"]
    /\ UNCHANGED <<closed, worker, off, loopVars, pointVars, last, leaseVars, workVars>>

\* Mutant: the last session of a guest is left alone.
ReplacedByMutant(c) == {}

\* The session a login of a guest replaces.
ReplacedBy(c) == IF UserOf[c] \in Guests THEN {last[UserOf[c]]} \ {NoClient} ELSE {}

\* handleLogin with the right password, up to OffClient(now.Last).
LoginCheck(c) ==
    /\ worker[c] = "select" /\ MayStart
    /\ status[c] # "auth"
    /\ OffClient(ReplacedBy(c))
    /\ Goto(c, "auth")
    /\ UNCHANGED <<status, closed, loopVars, pointVars, last, leaseVars, workVars>>

\* handleLogin goes on: now.Last = client, SetStatus(ClAuth).
LoginAuth(c) ==
    /\ worker[c] = "auth"
    /\ last' = [last EXCEPT ![UserOf[c]] = c]
    /\ status' = [status EXCEPT ![c] = "auth"]
    /\ Goto(c, "tap")
    /\ UNCHANGED <<closed, off, loopVars, pointVars, leaseVars, workVars>>

\* onAuth cannot have a tap (there is no bridge for the network): the client
\* stays authenticated and has no point.
NewTapFail(c) ==
    /\ worker[c] = "tap"
    /\ Goto(c, "select")
    /\ UNCHANGED <<status, closed, off, loopVars, pointVars, last, leaseVars, workVars>>

\* Mutant: the point that has the uuid is not looked for.
SameUUIDMutant(u) == {}

\* cache.Point.GetByUUID.
SameUUID(u) == {uuidAddr[u]} \cap points

\* onAuth has a tap, and asks for the close of the point with the same uuid.
NewTapOk(c) ==
    /\ worker[c] = "tap"
    /\ device' = device \cup {c}
    /\ OffClient(SameUUID(UUIDOf[c]))
    /\ Goto(c, "reset")
    /\ UNCHANGED <<status, closed, loopVars, uuidAddr, addrUUID, points, last, leaseVars, workVars>>

\* cache.Point.Add, three maps one after the other.
PointReset(c) ==
    /\ worker[c] = "reset"
    /\ uuidAddr' = [uuidAddr EXCEPT ![UUIDOf[c]] = c]
    /\ Goto(c, "addr")
    /\ UNCHANGED <<status, closed, off, loopVars, addrUUID, points, device, last, leaseVars, workVars>>

\* Mutant: the point is not entered under its address.
PointAddrMutant(c) ==
    /\ worker[c] = "addr"
    /\ Goto(c, "client")
    /\ UNCHANGED <<status, closed, off, loopVars, pointVars, last, leaseVars, workVars>>

PointAddr(c) ==
    /\ worker[c] = "addr"
    /\ addrUUID' = [addrUUID EXCEPT ![c] = IF @ = NoUUID THEN UUIDOf[c] ELSE @]
    /\ Goto(c, "client")
    /\ UNCHANGED <<status, closed, off, loopVars, uuidAddr, points, device, last, leaseVars, workVars>>

PointClient(c) ==
    /\ worker[c] = "client"
    /\ points' = points \cup {c}
    /\ Goto(c, "select")
    /\ UNCHANGED <<status, closed, off, loopVars, uuidAddr, addrUUID, device, last, leaseVars, workVars>>

----------------------------------------------------------------------------
(* Request.onIpAddr, of an authenticated client that has a point. *)

MayRequest(c) == worker[c] = "select" /\ MayStart /\ status[c] = "auth"

\* getLease finds a lease: the configured one of the host, or the one the
\* uuid already has.
IpKnown(c) ==
    /\ MayRequest(c) /\ c \in points
    /\ LET ip == IF StaticIp[c] # NoIp THEN StaticIp[c] ELSE leases[UUIDOf[c]]
       IN /\ ip # NoIp
          /\ given' = [given EXCEPT ![c] = ip]
    /\ UNCHANGED <<status, closed, worker, off, loopVars, pointVars, last, leaseVars, picked>>

\* Mutant: the addresses of configured hosts are given away.
FreeIpsMutant == {i \in Ips : holder[i] \notin UUIDs}

FreeIps == {i \in Ips : holder[i] = NoUUID}

\* NewLease finds none, and allocLease returns the first address that is free.
IpAlloc(c) ==
    /\ MayRequest(c) /\ c \in points
    /\ StaticIp[c] = NoIp /\ leases[UUIDOf[c]] = NoIp
    /\ FreeIps # {}
    /\ picked' = [picked EXCEPT ![c] = CHOOSE i \in FreeIps : \A j \in FreeIps : i <= j]
    /\ Goto(c, "leaseUUID")
    /\ UNCHANGED <<status, closed, off, loopVars, pointVars, last, leaseVars, given>>

\* No address is left: the answer is 169.254.0.0.
IpExhausted(c) ==
    /\ MayRequest(c) /\ c \in points
    /\ StaticIp[c] = NoIp /\ leases[UUIDOf[c]] = NoIp
    /\ FreeIps = {}
    /\ given' = [given EXCEPT ![c] = NoIp]
    /\ UNCHANGED <<status, closed, worker, off, loopVars, pointVars, last, leaseVars, picked>>

\* AddLease, two maps one after the other; Set keeps what a key has.
LeaseUUID(c) ==
    /\ worker[c] = "leaseUUID"
    /\ leases' = [leases EXCEPT ![UUIDOf[c]] = IF @ = NoIp THEN picked[c] ELSE @]
    /\ Goto(c, "leaseAddr")
    /\ UNCHANGED <<status, closed, off, loopVars, pointVars, last, holder, workVars>>

\* Mutant: the address is not entered, so it stays free.
LeaseAddrMutant(c) ==
    /\ worker[c] = "leaseAddr"
    /\ given' = [given EXCEPT ![c] = leases[UUIDOf[c]]]
    /\ picked' = [picked EXCEPT ![c] = NoIp]
    /\ Goto(c, "select")
    /\ UNCHANGED <<status, closed, off, loopVars, pointVars, last, leases, holder>>

\* ... then NewLease reads the lease of the uuid back, and it is sent.
LeaseAddr(c) ==
    /\ worker[c] = "leaseAddr"
    /\ holder' = [holder EXCEPT ![picked[c]] = IF @ = NoUUID THEN UUIDOf[c] ELSE @]
    /\ given' = [given EXCEPT ![c] = leases[UUIDOf[c]]]
    /\ picked' = [picked EXCEPT ![c] = NoIp]
    /\ Goto(c, "select")
    /\ UNCHANGED <<status, closed, off, loopVars, pointVars, last, leases>>

\* Request.onLeave.
OnLeave(c) ==
    /\ MayRequest(c)
    /\ OffClient({c})
    /\ UNCHANGED <<status, closed, worker, loopVars, pointVars, last, leaseVars, workVars>>

----------------------------------------------------------------------------
(* Other goroutines that ask for a close. *)

\* The reader of a client fails, or the HTTP API drops it.
ReaderFail(c) ==
    /\ worker[c] # "none" /\ c \notin closed /\ MayStart
    /\ OffClient({c})
    /\ UNCHANGED <<status, closed, worker, loopVars, pointVars, last, leaseVars, workVars>>

\* ReadTap of a client that is closed: WriteMsg fails, the device is closed.
TapWriteFail(c) ==
    /\ c \in device \cap points \cap closed
    /\ OffClient({c})
    /\ device' = device \ {c}
    /\ UNCHANGED <<status, closed, worker, loopVars, uuidAddr, addrUUID, points, last, leaseVars, workVars>>

----------------------------------------------------------------------------
(* The Loop: doOffClient with Switch.OnClose. *)

\* doOffClient of a client that is closed already does nothing.
OffIgnored(c) ==
    /\ loop = "select" /\ off # <<>> /\ c = Head(off) /\ c \in closed
    /\ off' = Tail(off)
    /\ UNCHANGED <<status, closed, worker, loopVars, pointVars, last, leaseVars, workVars>>

\* Mutant: the lease goes with whichever client of the uuid closes.
HasNewerMutant(c) == FALSE

\* Is the uuid of this client unknown, or in use by a newer client?
HasNewer(c) == addrUUID[c] = NoUUID \/ uuidAddr[addrUUID[c]] # c

\* OnClose looks whether the uuid has a newer client.
CloseCheck(c) ==
    /\ loop = "select" /\ MayStart
    /\ off # <<>> /\ c = Head(off) /\ c \notin closed
    /\ off' = Tail(off)
    /\ victim' = c
    /\ loop' = IF HasNewer(c) THEN "point" ELSE "leaseUUID"
    /\ UNCHANGED <<status, closed, worker, freed, pointVars, last, leaseVars, workVars>>

\* DelLease, two maps one after the other.
CloseLeaseUUID ==
    /\ loop = "leaseUUID"
    /\ freed' = leases[UUIDOf[victim]]
    /\ leases' = [leases EXCEPT ![UUIDOf[victim]] = NoIp]
    /\ loop' = "leaseAddr"
    /\ UNCHANGED <<status, closed, worker, off, victim, pointVars, last, holder, workVars>>

\* Mutant: the address stays taken.
CloseLeaseAddrMutant ==
    /\ loop = "leaseAddr"
    /\ freed' = NoIp
    /\ loop' = "point"
    /\ UNCHANGED <<status, closed, worker, off, victim, pointVars, last, leaseVars, workVars>>

CloseLeaseAddr ==
    /\ loop = "leaseAddr"
    /\ holder' = [i \in Ips |->
                    IF i = freed /\ holder[i] = UUIDOf[victim] THEN NoUUID ELSE holder[i]]
    /\ freed' = NoIp
    /\ loop' = "point"
    /\ UNCHANGED <<status, closed, worker, off, victim, pointVars, last, leases, workVars>>

\* cache.Point.Del: the device is closed and the index of the uuid compared.
ClosePoint ==
    /\ loop = "point"
    /\ IF victim \in points
       THEN /\ device' = device \ {victim}
            /\ loop' = IF uuidAddr[UUIDOf[victim]] = victim THEN "index" ELSE "addr"
       ELSE /\ loop' = "conn"
            /\ UNCHANGED device
    /\ UNCHANGED <<status, closed, worker, off, victim, freed, uuidAddr, addrUUID, points, last, leaseVars, workVars>>

CloseIndex ==
    /\ loop = "index"
    /\ uuidAddr' = [uuidAddr EXCEPT ![UUIDOf[victim]] = NoClient]
    /\ loop' = "addr"
    /\ UNCHANGED <<status, closed, worker, off, victim, freed, addrUUID, points, device, last, leaseVars, workVars>>

CloseAddr ==
    /\ loop = "addr"
    /\ addrUUID' = [addrUUID EXCEPT ![victim] = NoUUID]
    /\ points' = points \ {victim}
    /\ loop' = "conn"
    /\ UNCHANGED <<status, closed, worker, off, victim, freed, uuidAddr, device, last, leaseVars, workVars>>

\* Mutant: the Loop forgets which client it was closing.
CloseConnMutant ==
    /\ loop = "conn"
    /\ closed' = closed \cup {victim}
    /\ status' = [status EXCEPT ![victim] = "closed"]
    /\ given' = [given EXCEPT ![victim] = NoIp]
    /\ loop' = "select"
    /\ UNCHANGED <<victim, freed, worker, off, pointVars, last, leaseVars, picked>>

\* client.Close().
CloseConn ==
    /\ loop = "conn"
    /\ closed' = closed \cup {victim}
    /\ status' = [status EXCEPT ![victim] = "closed"]
    /\ given' = [given EXCEPT ![victim] = NoIp]
    /\ loop' = "select" /\ victim' = NoClient
    /\ UNCHANGED <<freed, worker, off, pointVars, last, leaseVars, picked>>

----------------------------------------------------------------------------
Login(c) == \/ LoginFail(c) \/ LoginCheck(c) \/ LoginAuth(c) \/ NewTapFail(c)
            \/ NewTapOk(c) \/ PointReset(c) \/ PointAddr(c) \/ PointClient(c)

IpRequest(c) == IpKnown(c) \/ IpAlloc(c) \/ IpExhausted(c) \/ LeaseUUID(c) \/ LeaseAddr(c)

Close == \/ CloseLeaseUUID \/ CloseLeaseAddr \/ ClosePoint
         \/ CloseIndex \/ CloseAddr \/ CloseConn

Next ==
    \/ \E c \in Clients :
         \/ OnClient(c) \/ WorkerStop(c) \/ Login(c) \/ IpRequest(c) \/ OnLeave(c)
         \/ ReaderFail(c) \/ TapWriteFail(c) \/ OffIgnored(c) \/ CloseCheck(c)
    \/ Close

Spec == Init /\ [][Next]_vars

----------------------------------------------------------------------------
(* Properties.  They are read between handlers, when nothing is left to     *)
(* close (Settled).  A zombie is a client whose worker handled a LoginReq   *)
(* after the Loop had closed it: it is authenticated, no later OffClient    *)
(* reaches it, and it stays in the caches; the properties are about         *)
(* histories without one.                                                   *)

\* The values the caches and the goroutines can take.
TypeOK ==
    /\ status \in [Clients -> {"new", "connected", "unauth", "auth", "closed"}]
    /\ closed \subseteq Clients /\ off \in Seq(Clients) /\ points \subseteq Clients
    /\ worker \in [Clients -> {"none", "select", "stop", "auth", "tap", "reset", "addr",
                               "client", "leaseUUID", "leaseAddr"}]
    /\ loop \in {"select", "leaseUUID", "leaseAddr", "point", "index", "addr", "conn"}
    /\ victim \in Clients \cup {NoClient} /\ (victim = NoClient <=> loop = "select")
    /\ uuidAddr \in [UUIDs -> Clients \cup {NoClient}]
    /\ addrUUID \in [Clients -> UUIDs \cup {NoUUID}]
    /\ device \subseteq Clients
    /\ last \in [Users -> Clients \cup {NoClient}]
    /\ leases \in [UUIDs -> Ips \cup {NoIp}]
    /\ holder \in [Ips -> UUIDs \cup {NoUUID, StaticHolder}]
    /\ given \in [Clients -> Ips \cup {NoIp}] /\ picked \in [Clients -> Ips \cup {NoIp}]
    /\ freed \in Ips \cup {NoIp}

BetweenHandlers == loop = "select" /\ \A c \in Clients : Idle(c)

Zombies == {c \in closed : status[c] = "auth"}

Settled == BetweenHandlers /\ off = <<>> /\ Zombies = {}

LiveSessions == {c \in Clients \ closed : status[c] = "auth"}

\* "To offline lastly client if guest" (access.go:70): once its OffClient
\* requests are served, a guest has one live session.
OneGuestSession ==
    Settled => \A c, d \in LiveSessions :
                 UserOf[c] = UserOf[d] /\ UserOf[c] \in Guests => c = d

\* "free point has same uuid" (access.go:99): once the OffClient requests are
\* served, a uuid has one point in the cache, whichever users it logged in as.
OnePointPerUUID ==
    Settled => \A c, d \in points : UUIDOf[c] = UUIDOf[d] => c = d

\* The point cache agrees with itself and with the devices: a uuid leads to
\* the point that is there, and a device is up only while its point is listed
\* (Add, Del).
PointsIndexed ==
    Settled => /\ \A c \in points : addrUUID[c] = UUIDOf[c] /\ uuidAddr[UUIDOf[c]] = c
               /\ \A u \in UUIDs : uuidAddr[u] \in points \cup {NoClient}
               /\ device = points

\* "avoid address conflict by different points" (network.go:139): no two uuids
\* hold the same address (NewLease, DelLease).
LeasesExclusive ==
    BetweenHandlers =>
        \A u, v \in UUIDs : leases[u] = leases[v] /\ leases[u] # NoIp => u = v

\* An address is taken in one map exactly when a uuid holds it in the other, so
\* every address of a closed point can be leased again (AddLease, DelLease).
LeasesAccounted ==
    BetweenHandlers => \A u \in UUIDs, i \in Ips : leases[u] = i <=> holder[i] = u

\* A live point keeps the lease of the address it was given, although an older
\* client of its uuid is closed meanwhile ("not has newer", switch.go:534).
LeaseKept ==
    Settled => \A c \in points : given[c] \notin {NoIp, StaticIp[c]} => leases[UUIDOf[c]] = given[c]

\* The address configured for a host is never given to another point, whatever
\* is leased and released in between (allocLease, DelLease of a static lease).
HostReserved ==
    \A c, h \in Clients : given[c] # NoIp /\ given[c] = StaticIp[h] => StaticIp[c] = StaticIp[h]

\* What the login handler promises (access.go:69, 99, cache/point.go): once the
\* OffClient requests are served each guest and each uuid has one session, and
\* the indexes of the point cache and the devices agree about it.
OneSession == OneGuestSession /\ OnePointPerUUID /\ PointsIndexed

\* What the lease cache promises (cache/network.go:118-150, switch.go:534): its
\* two maps agree, so that a released address can be leased again, a live point
\* keeps the address it was given, and a configured host never loses its own.
LeasesKept == LeasesAccounted /\ LeaseKept /\ HostReserved
=============================================================================
