------------------------- MODULE SwitchAccessProofs -------------------------
(***************************************************************************)
(* For every set of clients, users and uuids, every subnet and every       *)
(* assignment of configured hosts.                                         *)
(*                                                                         *)
(* However the handlers interleave, the address of a configured host is    *)
(* only given to that host (HostsReserved).  When they run one at a time   *)
(* (Serial), the promises of the lease cache and of the login handler hold *)
(* too.  None of them is inductive: each is read between handlers, and     *)
(* has to be said of every step of a handler, with the entry that handler  *)
(* is about to make or to delete as the exception (LeaseInv, PointInv,     *)
(* GuestInv, GivenInv).                                                    *)
(***************************************************************************)
EXTENDS SwitchAccess, WellFoundedInduction, TLAPS

\* Addresses of configured hosts.
Static == {i \in Ips : \E h \in Clients : StaticIp[h] = i}

\* The address of a configured host is taken, and not as the lease of a uuid:
\* nothing that is leased, about to be leased or just released is one of them.
HostInv ==
    /\ \A i \in Static : holder[i] = StaticHolder
    /\ \A u \in UUIDs : leases[u] \notin Static
    /\ \A c \in Clients : picked[c] \notin Static
    /\ HostReserved

\* One handler at a time.
OneHandler ==
    /\ loop # "select" => \A c \in Clients : Idle(c)
    /\ \A c, d \in Clients : Idle(c) \/ Idle(d) \/ c = d

\* The two maps of leases agree, but for the entry a handler has made or
\* deleted in the one and not yet in the other.
LeaseInv ==
    /\ \A c \in Clients : worker[c] \in {"leaseUUID", "leaseAddr"} =>
         /\ picked[c] \in Ips /\ holder[picked[c]] = NoUUID
         /\ leases[UUIDOf[c]] = IF worker[c] = "leaseUUID" THEN NoIp ELSE picked[c]
    /\ \A u \in UUIDs, i \in Ips : holder[i] = u =>
         leases[u] = i \/ (loop = "leaseAddr" /\ u = UUIDOf[victim] /\ i = freed)
    /\ \A u \in UUIDs, i \in Ips : leases[u] = i =>
         holder[i] = u \/ \E c \in Clients : worker[c] = "leaseAddr" /\ UUIDOf[c] = u /\ picked[c] = i
    /\ loop = "leaseAddr" => leases[UUIDOf[victim]] = NoIp

\* A client the Loop has been asked to close, or is closing.
Leaving(c) == c \in Pending \/ c = victim

\* A client whose login has a tap, and no point yet.
Entering(c) == worker[c] \in {"reset", "addr", "client"}

\* A client is in the points once it has logged in and until it is closed.
MemberInv ==
    /\ \A c \in points : status[c] = "auth" /\ addrUUID[c] = UUIDOf[c]
    /\ \A c \in Clients : worker[c] = "client" => addrUUID[c] = UUIDOf[c]
    /\ \A c \in Clients : addrUUID[c] # NoUUID =>
         addrUUID[c] = UUIDOf[c] /\ (c \in points \/ worker[c] = "client")
    /\ \A c \in Clients : worker[c] \in {"tap", "reset", "addr", "client"} => status[c] = "auth"
    /\ \A c \in Clients : worker[c] \in {"none", "auth"} => status[c] # "auth"
    /\ loop # "select" => victim \notin closed
    /\ loop \in {"index", "addr"} => victim \in points
    /\ loop = "conn" => victim \notin points

\* The index of the uuids leads to a point, and to the one that stays.
IndexInv ==
    /\ \A u \in UUIDs : uuidAddr[u] # NoClient =>
         /\ UUIDOf[uuidAddr[u]] = u
         /\ uuidAddr[u] \in points \/ worker[uuidAddr[u]] \in {"addr", "client"}
    /\ \A c \in Clients : worker[c] \in {"addr", "client"} => uuidAddr[UUIDOf[c]] = c
    /\ loop \in {"leaseUUID", "leaseAddr", "index"} => uuidAddr[UUIDOf[victim]] = victim
    /\ loop = "addr" => uuidAddr[UUIDOf[victim]] # victim
    /\ Zombies = {} => \A c \in points : uuidAddr[UUIDOf[c]] = c \/ Leaving(c)
    /\ Zombies = {} => \A c \in Clients : worker[c] = "reset" =>
         \A d \in points : UUIDOf[d] = UUIDOf[c] => Leaving(d)

\* The points have a device, but for the one that is entered and the one that
\* is deleted.
DeviceInv ==
    Zombies = {} =>
      /\ \A c \in device : c \in points \/ Entering(c)
      /\ \A c \in Clients : Entering(c) => c \in device
      /\ \A c \in points : c \in device \/ (c = victim /\ loop \in {"index", "addr"})
      /\ loop \in {"index", "addr"} => victim \notin device

\* A live session of a guest is the last one or is being closed.
GuestInv ==
    /\ \A c \in LiveSessions : UserOf[c] \in Guests => last[UserOf[c]] = c \/ Leaving(c)
    /\ \A c \in Clients : worker[c] = "auth" /\ UserOf[c] \in Guests =>
         \A d \in LiveSessions : UserOf[d] = UserOf[c] => Leaving(d)

\* A point was given the address its uuid holds, or is being closed.
GivenInv ==
    /\ \A c \in Clients : given[c] # NoIp => c \in points \/ (c = victim /\ loop = "conn")
    /\ \A c \in Clients : worker[c] \in {"leaseUUID", "leaseAddr"} => c \in points
    /\ Zombies = {} => \A c \in points : given[c] \notin {NoIp, StaticIp[c]} =>
         leases[UUIDOf[c]] = given[c] \/ Leaving(c)

----------------------------------------------------------------------------
(* What the operators of the model compute. *)

\* A nonempty set of natural numbers has a least element.
LEMMA LeastExists ==
    ASSUME NEW S \in SUBSET Nat, S # {}
    PROVE  \E i \in S : \A j \in S : i <= j
<1> DEFINE Less == OpToRel(<, Nat)
<1>1. IsWellFoundedOn(Less, Nat)
    BY NatLessThanWellFounded, Zenon
<1>2. PICK i \in S : \A j \in S : <<j, i>> \notin Less
  <2> HIDE DEF Less
  <2> QED BY <1>1, WFMin, Zenon
<1>3. \A j \in S : ~(j < i)
    BY <1>2 DEF OpToRel
<1> QED BY <1>3

\* allocLease finds a free address when there is one.
LEMMA FirstFree ==
    ASSUME FreeIps # {}
    PROVE  (CHOOSE i \in FreeIps : \A j \in FreeIps : i <= j) \in FreeIps
<1>1. FreeIps \in SUBSET Nat BY AccessAssumption DEF FreeIps, Ips
<1>2. \E i \in FreeIps : \A j \in FreeIps : i <= j BY <1>1, LeastExists
<1> QED BY <1>2

\* OffClient enters the client it is called with, if any, and no other.
LEMMA OffFacts ==
    ASSUME off \in Seq(Clients), NEW S \in SUBSET Clients,
           off' = IF S \subseteq Pending THEN off ELSE Append(off, CHOOSE c \in S : TRUE)
    PROVE  /\ off' \in Seq(Clients)
           /\ Pending \subseteq Pending' /\ Pending' \subseteq Pending \cup S
           /\ \A x : S \subseteq {x} => S \subseteq Pending'
<1>1. CASE S \subseteq Pending
  <2>1. off' = off BY <1>1
  <2> QED BY <1>1, <2>1 DEF Pending
<1>2. CASE ~(S \subseteq Pending)
  <2> DEFINE x == CHOOSE c \in S : TRUE
  <2>1. x \in S /\ x \in Clients BY <1>2
  <2>2. off' = Append(off, x) BY <1>2
  <2> HIDE DEF x
  <2>3. /\ off' \in Seq(Clients) /\ Len(off') = Len(off) + 1
        /\ off'[Len(off) + 1] = x /\ \A i \in 1 .. Len(off) : off'[i] = off[i]
    BY <2>1, <2>2
  <2>4. Len(off) \in Nat OBVIOUS
  <2>5. x \in Pending'
    <3>1. Len(off) + 1 \in 1 .. Len(off') BY <2>3, <2>4
    <3> QED BY <2>3, <3>1 DEF Pending
  <2>6. Pending \subseteq Pending'
    BY <2>3, <2>4 DEF Pending
  <2>7. Pending' \subseteq Pending \cup {x}
    <3>1. \A i \in 1 .. Len(off') : i \in 1 .. Len(off) \/ i = Len(off) + 1 BY <2>3, <2>4
    <3> QED BY <2>3, <3>1 DEF Pending
  <2> QED BY <2>1, <2>3, <2>5, <2>6, <2>7
<1> QED BY <1>1, <1>2

\* OffClient of one client.
LEMMA OffOne ==
    ASSUME off \in Seq(Clients), NEW d \in Clients, NEW S, S = {d},
           off' = IF S \subseteq Pending THEN off ELSE Append(off, CHOOSE c \in S : TRUE)
    PROVE  d \in Pending'
<1>1. S \in SUBSET Clients OBVIOUS
<1>2. \A x : S \subseteq {x} => S \subseteq Pending' BY <1>1, OffFacts
<1> QED BY <1>2

\* The Loop takes the first request: the others stay.
LEMMA TakeFacts ==
    ASSUME off \in Seq(Clients), off # <<>>, off' = Tail(off)
    PROVE  /\ off' \in Seq(Clients) /\ Head(off) \in Clients
           /\ Pending \subseteq Pending' \cup {Head(off)} /\ Pending' \subseteq Pending
<1>1. /\ Len(off) \in Nat \ {0} /\ off' \in Seq(Clients) /\ Len(off') = Len(off) - 1
      /\ Head(off) = off[1] /\ Head(off) \in Clients
      /\ \A i \in 1 .. Len(off') : off'[i] = off[i + 1]
  OBVIOUS
<1>2. \A i \in 1 .. Len(off) : i = 1 \/ (i - 1 \in 1 .. Len(off') /\ off'[i - 1] = off[i])
  BY <1>1
<1>3. \A i \in 1 .. Len(off') : i + 1 \in 1 .. Len(off)
  BY <1>1
<1> QED BY <1>1, <1>2, <1>3 DEF Pending

----------------------------------------------------------------------------
(* The values of the variables. *)

\* The caches are empty in the beginning, but for the configured hosts.
LEMMA TypeInit == Init => TypeOK
BY AccessAssumption DEF Init, TypeOK, Ips, NoIp

\* Registration, login and the end of a worker.
LEMMA TypeLogin ==
    ASSUME TypeOK, NEW c \in Clients, OnClient(c) \/ WorkerStop(c) \/ Login(c)
    PROVE  TypeOK'
<1> USE AccessAssumption DEF TypeOK, Goto, loopVars, pointVars, leaseVars, workVars
<1>1. CASE OnClient(c) BY <1>1 DEF OnClient
<1>2. CASE WorkerStop(c) BY <1>2 DEF WorkerStop
<1>3. CASE LoginFail(c) BY <1>3 DEF LoginFail
<1>4. CASE LoginCheck(c)
  <2>1. ReplacedBy(c) \in SUBSET Clients BY DEF ReplacedBy
  <2>2. off' \in Seq(Clients) BY <1>4, <2>1, OffFacts DEF LoginCheck, OffClient
  <2> QED BY <1>4, <2>2 DEF LoginCheck
<1>5. CASE LoginAuth(c) BY <1>5 DEF LoginAuth
<1>6. CASE NewTapFail(c) BY <1>6 DEF NewTapFail
<1>7. CASE NewTapOk(c)
  <2>1. SameUUID(UUIDOf[c]) \in SUBSET Clients BY DEF SameUUID
  <2>2. off' \in Seq(Clients) BY <1>7, <2>1, OffFacts DEF NewTapOk, OffClient
  <2> QED BY <1>7, <2>2 DEF NewTapOk
<1>8. CASE PointReset(c) BY <1>8 DEF PointReset
<1>9. CASE PointAddr(c) BY <1>9 DEF PointAddr
<1>10. CASE PointClient(c) BY <1>10 DEF PointClient
<1> QED BY <1>1, <1>2, <1>3, <1>4, <1>5, <1>6, <1>7, <1>8, <1>9, <1>10 DEF Login

\* Requests for an address and for a close.
LEMMA TypeRequest ==
    ASSUME TypeOK, NEW c \in Clients,
           IpRequest(c) \/ OnLeave(c) \/ ReaderFail(c) \/ TapWriteFail(c)
    PROVE  TypeOK'
<1> USE AccessAssumption DEF TypeOK, Goto, loopVars, pointVars, leaseVars, workVars
<1>o. OnLeave(c) \/ ReaderFail(c) \/ TapWriteFail(c) => off' \in Seq(Clients)
  BY OffFacts DEF OnLeave, ReaderFail, TapWriteFail, OffClient
<1>1. CASE IpKnown(c) BY <1>1 DEF IpKnown
<1>2. CASE IpAlloc(c)
  <2> DEFINE i == CHOOSE i \in FreeIps : \A j \in FreeIps : i <= j
  <2>1. i \in Ips BY <1>2, FirstFree DEF IpAlloc, FreeIps
  <2>2. picked' = [picked EXCEPT ![c] = i] BY <1>2 DEF IpAlloc
  <2> HIDE DEF i
  <2>3. picked' \in [Clients -> Ips \cup {NoIp}] BY <2>1, <2>2
  <2>4. worker' = [worker EXCEPT ![c] = "leaseUUID"]
    BY <1>2 DEF IpAlloc
  <2>5. UNCHANGED <<status, closed, off, loopVars, pointVars, last, leaseVars, given>>
    BY <1>2 DEF IpAlloc
  <2> QED BY <2>3, <2>4, <2>5
<1>3. CASE IpExhausted(c) BY <1>3 DEF IpExhausted
<1>4. CASE LeaseUUID(c) BY <1>4 DEF LeaseUUID
<1>5. CASE LeaseAddr(c) BY <1>5 DEF LeaseAddr
<1>6. CASE OnLeave(c) BY <1>6, <1>o DEF OnLeave
<1>7. CASE ReaderFail(c) BY <1>7, <1>o DEF ReaderFail
<1>8. CASE TapWriteFail(c) BY <1>8, <1>o DEF TapWriteFail
<1> QED BY <1>1, <1>2, <1>3, <1>4, <1>5, <1>6, <1>7, <1>8 DEF IpRequest

\* The Loop.
LEMMA TypeClose ==
    ASSUME TypeOK, Close \/ \E c \in Clients : OffIgnored(c) \/ CloseCheck(c)
    PROVE  TypeOK'
<1> USE AccessAssumption DEF TypeOK, loopVars, pointVars, leaseVars, workVars
<1>1. ASSUME NEW c \in Clients, OffIgnored(c) PROVE TypeOK'
  BY <1>1, TakeFacts DEF OffIgnored
<1>2. ASSUME NEW c \in Clients, CloseCheck(c) PROVE TypeOK'
  <2>1. off' \in Seq(Clients) BY <1>2, TakeFacts DEF CloseCheck
  <2> QED BY <1>2, <2>1 DEF CloseCheck
<1>3. CASE CloseLeaseUUID BY <1>3 DEF CloseLeaseUUID
<1>4. CASE CloseLeaseAddr BY <1>4 DEF CloseLeaseAddr
<1>5. CASE ClosePoint BY <1>5 DEF ClosePoint
<1>6. CASE CloseIndex BY <1>6 DEF CloseIndex
<1>7. CASE CloseAddr BY <1>7 DEF CloseAddr
<1>8. CASE CloseConn BY <1>8 DEF CloseConn
<1> QED BY <1>1, <1>2, <1>3, <1>4, <1>5, <1>6, <1>7, <1>8 DEF Close

LEMMA TypeStep == TypeOK /\ [Next]_vars => TypeOK'
<1> SUFFICES ASSUME TypeOK, [Next]_vars PROVE TypeOK'
  OBVIOUS
<1>1. CASE UNCHANGED vars
  BY <1>1 DEF vars, TypeOK, loopVars, pointVars, leaseVars, workVars
<1> QED BY <1>1, TypeLogin, TypeRequest, TypeClose DEF Next

\* TypeOK is an invariant, whether or not the handlers are serial.
THEOREM TypeCorrect == Spec => []TypeOK
BY TypeInit, TypeStep, PTL DEF Spec

----------------------------------------------------------------------------
(* The addresses of configured hosts, however the handlers interleave. *)

\* Login, closing requests and the point cache leave the leases alone.
LEMMA LeasesStill ==
    ASSUME \/ \E c \in Clients :
                \/ OnClient(c) \/ WorkerStop(c) \/ Login(c) \/ OnLeave(c)
                \/ ReaderFail(c) \/ TapWriteFail(c) \/ OffIgnored(c) \/ CloseCheck(c)
           \/ ClosePoint \/ CloseIndex \/ CloseAddr \/ UNCHANGED vars
    PROVE  UNCHANGED <<leases, holder, given, picked>>
<1> USE DEF leaseVars, workVars
<1>1. ASSUME NEW c \in Clients, Login(c) PROVE UNCHANGED <<leases, holder, given, picked>>
  BY <1>1 DEF Login, LoginFail, LoginCheck, LoginAuth, NewTapFail, NewTapOk, PointReset,
         PointAddr, PointClient
<1>2. ASSUME NEW c \in Clients,
             \/ OnClient(c) \/ WorkerStop(c) \/ OnLeave(c) \/ ReaderFail(c)
             \/ TapWriteFail(c) \/ OffIgnored(c) \/ CloseCheck(c)
      PROVE  UNCHANGED <<leases, holder, given, picked>>
  BY <1>2 DEF OnClient, WorkerStop, OnLeave, ReaderFail, TapWriteFail, OffIgnored, CloseCheck
<1>3. ClosePoint \/ CloseIndex \/ CloseAddr => UNCHANGED <<leases, holder, given, picked>>
  BY DEF ClosePoint, CloseIndex, CloseAddr
<1>4. UNCHANGED vars => UNCHANGED <<leases, holder, given, picked>>
  BY DEF vars
<1> QED BY <1>1, <1>2, <1>3, <1>4

\* In the beginning only the configured hosts have an address.
LEMMA HostInit == Init => HostInv
BY AccessAssumption DEF Init, HostInv, Static, HostReserved, Ips, NoIp

\* What is given to a client is its own configured address or a free one.
LEMMA HostStep == TypeOK /\ HostInv /\ [Next]_vars => HostInv'
<1> SUFFICES ASSUME TypeOK, HostInv, [Next]_vars PROVE HostInv'
  OBVIOUS
<1> USE AccessAssumption
<1>a. \A h \in Clients : StaticIp[h] = NoIp \/ StaticIp[h] \in Static
  BY DEF Static
<1>b. NoIp \notin Static BY DEF Static, Ips, NoIp
<1>1. CASE UNCHANGED <<leases, holder, given, picked>>
  BY <1>1 DEF HostInv, HostReserved
<1>2. ASSUME NEW c \in Clients, IpKnown(c) PROVE HostInv'
  <2>1. UNCHANGED <<leases, holder, picked>> BY <1>2 DEF IpKnown, leaseVars
  <2>2. PICK ip : /\ given' = [given EXCEPT ![c] = ip]
                  /\ ip = StaticIp[c] \/ ip = leases[UUIDOf[c]]
    BY <1>2 DEF IpKnown
  <2>3. ip = StaticIp[c] \/ ip \notin Static BY <2>2 DEF HostInv
  <2>4. HostReserved' BY <2>2, <2>3, <1>a DEF HostInv, HostReserved, TypeOK
  <2> QED BY <2>1, <2>4 DEF HostInv
<1>3. ASSUME NEW c \in Clients, IpAlloc(c) PROVE HostInv'
  <2> DEFINE i == CHOOSE i \in FreeIps : \A j \in FreeIps : i <= j
  <2>1. i \in FreeIps BY <1>3, FirstFree DEF IpAlloc
  <2>2. picked' = [picked EXCEPT ![c] = i] BY <1>3 DEF IpAlloc
  <2> HIDE DEF i
  <2>3. i \notin Static BY <2>1 DEF FreeIps, HostInv
  <2>4. UNCHANGED <<leases, holder, given>> BY <1>3 DEF IpAlloc, leaseVars
  <2> QED BY <2>2, <2>3, <2>4 DEF HostInv, HostReserved, TypeOK
<1>4. ASSUME NEW c \in Clients, IpExhausted(c) PROVE HostInv'
  BY <1>4 DEF IpExhausted, leaseVars, HostInv, HostReserved, TypeOK
<1>5. ASSUME NEW c \in Clients, LeaseUUID(c) PROVE HostInv'
  BY <1>5 DEF LeaseUUID, workVars, HostInv, HostReserved, TypeOK
<1>6. ASSUME NEW c \in Clients, LeaseAddr(c) PROVE HostInv'
  <2>1. \A i \in Static : holder'[i] = StaticHolder
    BY <1>6 DEF LeaseAddr, HostInv, TypeOK, Static
  <2>2. HostReserved'
    BY <1>6, <1>a DEF LeaseAddr, HostInv, HostReserved, TypeOK
  <2>3. \A d \in Clients : picked'[d] \notin Static
    BY <1>6, <1>b DEF LeaseAddr, HostInv, TypeOK
  <2> QED BY <1>6, <2>1, <2>2, <2>3 DEF LeaseAddr, HostInv
<1>7. CASE CloseLeaseUUID
  BY <1>7, <1>b DEF CloseLeaseUUID, workVars, HostInv, HostReserved, TypeOK
<1>8. CASE CloseLeaseAddr
  <2>1. \A i \in Static : holder'[i] = StaticHolder
    BY <1>8 DEF CloseLeaseAddr, HostInv, TypeOK, Static
  <2> QED BY <1>8, <2>1 DEF CloseLeaseAddr, workVars, HostInv, HostReserved
<1>9. CASE CloseConn
  BY <1>9 DEF CloseConn, leaseVars, HostInv, HostReserved, TypeOK
<1> QED BY <1>1, <1>2, <1>3, <1>4, <1>5, <1>6, <1>7, <1>8, <1>9, LeasesStill
        DEF Next, IpRequest, Close

\* An address configured for a host is given to that host only, whatever is
\* leased and released meanwhile and however the steps of NewLease and DelLease
\* interleave (HostReserved).
THEOREM HostsReserved == Spec => []HostReserved
<1>1. HostInv => HostReserved BY DEF HostInv
<1> QED BY <1>1, HostInit, HostStep, TypeCorrect, PTL DEF Spec

----------------------------------------------------------------------------
(* Serial handlers. *)

\* A worker goes on: it was busy, or is idle afterwards, or nobody else runs.
LEMMA WorkerAlone ==
    ASSUME Serial, TypeOK, OneHandler, NEW c \in Clients, NEW pc,
           worker' = [worker EXCEPT ![c] = pc], loop' = loop,
           ~Idle(c) \/ pc \in {"none", "select", "stop"} \/ MayStart
    PROVE  OneHandler'
<1>1. \A d \in Clients : d # c => (Idle(d)' <=> Idle(d)) BY DEF Idle, TypeOK
<1>2. CASE ~Idle(c)
  BY <1>1, <1>2 DEF OneHandler
<1>3. CASE pc \in {"none", "select", "stop"}
  <2>1. Idle(c)' BY <1>3 DEF Idle, TypeOK
  <2> QED BY <1>1, <2>1 DEF OneHandler
<1>4. CASE MayStart
  BY <1>1, <1>4 DEF OneHandler, MayStart
<1> QED BY <1>2, <1>3, <1>4

\* A handler starts when no other runs.
LEMMA OneHandlerStep ==
    ASSUME Serial, TypeOK, OneHandler, [Next]_vars
    PROVE  OneHandler'
<1> USE DEF Goto, loopVars
<1>s. ASSUME UNCHANGED <<worker, loop>> PROVE OneHandler'
  BY <1>s DEF OneHandler, Idle
<1>1. ASSUME NEW c \in Clients, OnClient(c) PROVE OneHandler'
  BY <1>1, WorkerAlone DEF OnClient
<1>2. ASSUME NEW c \in Clients, WorkerStop(c) PROVE OneHandler'
  BY <1>2, WorkerAlone DEF WorkerStop
<1>3. ASSUME NEW c \in Clients, LoginCheck(c) PROVE OneHandler'
  BY <1>3, WorkerAlone DEF LoginCheck
<1>4. ASSUME NEW c \in Clients, IpAlloc(c) PROVE OneHandler'
  BY <1>4, WorkerAlone DEF IpAlloc, MayRequest
<1>5. ASSUME NEW c \in Clients, LoginAuth(c) \/ NewTapFail(c) \/ NewTapOk(c) PROVE OneHandler'
  BY <1>5, WorkerAlone DEF LoginAuth, NewTapFail, NewTapOk, Idle
<1>6. ASSUME NEW c \in Clients, PointReset(c) \/ PointAddr(c) \/ PointClient(c) PROVE OneHandler'
  BY <1>6, WorkerAlone DEF PointReset, PointAddr, PointClient, Idle
<1>7. ASSUME NEW c \in Clients, LeaseUUID(c) \/ LeaseAddr(c) PROVE OneHandler'
  BY <1>7, WorkerAlone DEF LeaseUUID, LeaseAddr, Idle
<1>8. ASSUME NEW c \in Clients, CloseCheck(c) PROVE OneHandler'
  BY <1>8 DEF CloseCheck, MayStart, OneHandler, Idle
<1>9. ASSUME NEW c \in Clients,
             \/ LoginFail(c) \/ IpKnown(c) \/ IpExhausted(c) \/ OnLeave(c)
             \/ ReaderFail(c) \/ TapWriteFail(c) \/ OffIgnored(c)
      PROVE  OneHandler'
  BY <1>9, <1>s DEF LoginFail, IpKnown, IpExhausted, OnLeave, ReaderFail, TapWriteFail, OffIgnored
<1>10. CASE Close
  <2>1. loop # "select" /\ worker' = worker
    BY <1>10 DEF Close, CloseLeaseUUID, CloseLeaseAddr, ClosePoint, CloseIndex, CloseAddr, CloseConn
  <2> QED BY <2>1 DEF OneHandler, Idle
<1>11. CASE UNCHANGED vars BY <1>11, <1>s DEF vars
<1> QED BY <1>1, <1>2, <1>3, <1>4, <1>5, <1>6, <1>7, <1>8, <1>9, <1>10, <1>11
        DEF Next, Login, IpRequest

----------------------------------------------------------------------------
(* The lease cache. *)

\* A worker between the two maps of AddLease.
Leasing(c) == worker[c] \in {"leaseUUID", "leaseAddr"}

\* A handler that runs is alone.
LEMMA Alone ==
    ASSUME OneHandler
    PROVE  /\ \A c \in Clients : ~Idle(c) => loop = "select" /\ \A d \in Clients \ {c} : Idle(d)
           /\ loop # "select" => \A c \in Clients : Idle(c)
BY DEF OneHandler

\* A step that is not one of AddLease or DelLease.
LEMMA LeaseFrame ==
    ASSUME LeaseInv, UNCHANGED <<leases, holder, picked>>,
           \A c \in Clients : Leasing(c) \/ Leasing(c)' => worker'[c] = worker[c],
           loop = "leaseAddr" \/ loop' = "leaseAddr" => UNCHANGED <<loop, victim, freed>>
    PROVE  LeaseInv'
<1>1. \A c \in Clients : /\ worker'[c] = "leaseAddr" <=> worker[c] = "leaseAddr"
                         /\ worker'[c] = "leaseUUID" <=> worker[c] = "leaseUUID"
  BY DEF Leasing
<1> QED BY <1>1 DEF LeaseInv

\* The steps that are none of AddLease or DelLease.
LEMMA LeaseOther ==
    ASSUME TypeOK, LeaseInv,
           \/ \E c \in Clients :
                \/ OnClient(c) \/ WorkerStop(c) \/ Login(c) \/ IpKnown(c) \/ IpExhausted(c)
                \/ OnLeave(c) \/ ReaderFail(c) \/ TapWriteFail(c) \/ OffIgnored(c) \/ CloseCheck(c)
           \/ ClosePoint \/ CloseIndex \/ CloseAddr \/ CloseConn \/ UNCHANGED vars
    PROVE  LeaseInv'
<1> USE DEF Goto, loopVars, leaseVars, workVars
<1>w. ASSUME NEW c \in Clients, NEW pc \in {"select", "stop", "auth", "tap", "reset", "addr", "client"},
             worker' = [worker EXCEPT ![c] = pc], ~Leasing(c),
             UNCHANGED <<leases, holder, picked, loop, victim, freed>>
      PROVE  LeaseInv'
  <2>1. \A d \in Clients : Leasing(d) \/ Leasing(d)' => worker'[d] = worker[d]
    BY <1>w DEF TypeOK, Leasing
  <2> QED BY <1>w, <2>1, LeaseFrame
<1>s. ASSUME UNCHANGED <<worker, leases, holder, picked>>,
             loop = "leaseAddr" \/ loop' = "leaseAddr" => UNCHANGED <<loop, victim, freed>>
      PROVE  LeaseInv'
  BY <1>s, LeaseFrame
<1>1. ASSUME NEW c \in Clients,
             \/ OnClient(c) \/ WorkerStop(c) \/ LoginCheck(c) \/ LoginAuth(c) \/ NewTapFail(c)
      PROVE  LeaseInv'
  BY <1>1, <1>w DEF OnClient, WorkerStop, LoginCheck, LoginAuth, NewTapFail, Leasing
<1>2. ASSUME NEW c \in Clients,
             NewTapOk(c) \/ PointReset(c) \/ PointAddr(c) \/ PointClient(c)
      PROVE  LeaseInv'
  BY <1>2, <1>w DEF NewTapOk, PointReset, PointAddr, PointClient, Leasing
<1>3. ASSUME NEW c \in Clients,
             \/ LoginFail(c) \/ IpKnown(c) \/ IpExhausted(c) \/ OnLeave(c) \/ ReaderFail(c)
             \/ TapWriteFail(c) \/ OffIgnored(c) \/ CloseCheck(c)
      PROVE  LeaseInv'
  BY <1>3, <1>s DEF LoginFail, IpKnown, IpExhausted, OnLeave, ReaderFail, TapWriteFail,
         OffIgnored, CloseCheck
<1>4. CASE ClosePoint \/ CloseIndex \/ CloseAddr \/ CloseConn
  BY <1>4, <1>s DEF ClosePoint, CloseIndex, CloseAddr, CloseConn
<1>5. CASE UNCHANGED vars BY <1>5, <1>s DEF vars
<1> QED BY <1>1, <1>2, <1>3, <1>4, <1>5 DEF Login

\* The maps of leases agree at every step of a handler.
LEMMA LeaseStep ==
    ASSUME TypeOK, OneHandler, LeaseInv, Serial, [Next]_vars
    PROVE  LeaseInv'
<1> USE AccessAssumption DEF Goto
<1>z. NoIp \notin Ips BY DEF NoIp, Ips
<1>u. \A c \in Clients : UUIDOf[c] \in UUIDs OBVIOUS
<1>1. ASSUME NEW c \in Clients, IpAlloc(c) PROVE LeaseInv'
  <2> DEFINE i == CHOOSE i \in FreeIps : \A j \in FreeIps : i <= j
  <2>1. i \in FreeIps BY <1>1, FirstFree DEF IpAlloc
  <2>2. picked' = [picked EXCEPT ![c] = i] BY <1>1 DEF IpAlloc
  <2> HIDE DEF i
  <2>3. i \in Ips /\ holder[i] = NoUUID BY <2>1 DEF FreeIps
  <2>4. loop = "select" /\ \A d \in Clients : ~Leasing(d)
    BY <1>1 DEF IpAlloc, MayRequest, MayStart, Idle, Leasing
  <2>5. /\ leases[UUIDOf[c]] = NoIp /\ worker' = [worker EXCEPT ![c] = "leaseUUID"]
        /\ UNCHANGED <<leases, holder, loop, victim, freed>>
    BY <1>1 DEF IpAlloc, leaseVars, loopVars
  <2>6. \A d \in Clients : worker'[d] # "leaseAddr" /\ (worker'[d] = "leaseUUID" => d = c)
    BY <2>4, <2>5 DEF TypeOK, Leasing
  <2>7. picked'[c] = i BY <2>2 DEF TypeOK
  <2> QED BY <2>3, <2>4, <2>5, <2>6, <2>7 DEF LeaseInv, Leasing
<1>2. ASSUME NEW c \in Clients, LeaseUUID(c) PROVE LeaseInv'
  <2>1. loop = "select" /\ \A d \in Clients \ {c} : ~Leasing(d)
    BY <1>2, Alone DEF LeaseUUID, Idle, Leasing
  <2>2. picked[c] \in Ips /\ holder[picked[c]] = NoUUID /\ leases[UUIDOf[c]] = NoIp
    BY <1>2 DEF LeaseInv, LeaseUUID
  <2>3. /\ worker' = [worker EXCEPT ![c] = "leaseAddr"] /\ worker[c] = "leaseUUID"
        /\ UNCHANGED <<holder, picked, loop, victim, freed>>
    BY <1>2 DEF LeaseUUID, loopVars, workVars
  <2>4. leases' = [leases EXCEPT ![UUIDOf[c]] = picked[c]]
    BY <1>2, <2>2 DEF LeaseUUID
  <2>5. worker'[c] = "leaseAddr" /\ \A d \in Clients \ {c} : ~Leasing(d)'
    BY <2>1, <2>3 DEF TypeOK, Leasing
  <2>6. leases'[UUIDOf[c]] = picked[c] /\ \A u \in UUIDs \ {UUIDOf[c]} : leases'[u] = leases[u]
    BY <2>4 DEF TypeOK
  <2>7. \A u \in UUIDs, i \in Ips : holder[i] = u => leases[u] = i
    BY <2>1 DEF LeaseInv
  <2>8. \A u \in UUIDs, i \in Ips : leases[u] = i => holder[i] = u
    BY <2>1, <2>3 DEF LeaseInv, Leasing
  <2>9. \A u \in UUIDs, i \in Ips : holder'[i] = u => leases'[u] = i
    BY <2>2, <2>3, <2>6, <2>7, <1>z
  <2>10. \A u \in UUIDs, i \in Ips : leases'[u] = i =>
           holder'[i] = u \/ (worker'[c] = "leaseAddr" /\ UUIDOf[c] = u /\ picked'[c] = i)
    BY <2>3, <2>5, <2>6, <2>8
  <2> QED BY <2>1, <2>2, <2>3, <2>5, <2>6, <2>9, <2>10 DEF LeaseInv, Leasing
<1>3. ASSUME NEW c \in Clients, LeaseAddr(c) PROVE LeaseInv'
  <2>1. loop = "select" /\ \A d \in Clients \ {c} : ~Leasing(d)
    BY <1>3, Alone DEF LeaseAddr, Idle, Leasing
  <2>2. picked[c] \in Ips /\ holder[picked[c]] = NoUUID /\ leases[UUIDOf[c]] = picked[c]
    BY <1>3 DEF LeaseInv, LeaseAddr
  <2>3. /\ worker' = [worker EXCEPT ![c] = "select"]
        /\ UNCHANGED <<leases, loop, victim, freed>>
    BY <1>3 DEF LeaseAddr, loopVars
  <2>4. holder' = [holder EXCEPT ![picked[c]] = UUIDOf[c]]
    BY <1>3, <2>2 DEF LeaseAddr
  <2>5. \A d \in Clients : ~Leasing(d)'
    BY <2>1, <2>3 DEF TypeOK, Leasing
  <2>6. holder'[picked[c]] = UUIDOf[c] /\ \A i \in Ips \ {picked[c]} : holder'[i] = holder[i]
    BY <2>2, <2>4 DEF TypeOK
  <2>7. \A u \in UUIDs, i \in Ips : holder[i] = u => leases[u] = i
    BY <2>1 DEF LeaseInv
  <2>8. \A u \in UUIDs, i \in Ips : leases[u] = i =>
          holder[i] = u \/ (UUIDOf[c] = u /\ picked[c] = i)
    BY <2>1 DEF LeaseInv, Leasing
  <2>9. \A u \in UUIDs, i \in Ips : holder'[i] = u => leases'[u] = i
    BY <2>2, <2>3, <2>6, <2>7
  <2>10. \A u \in UUIDs, i \in Ips : leases'[u] = i => holder'[i] = u
    BY <2>2, <2>3, <2>6, <2>8
  <2> QED BY <2>1, <2>3, <2>5, <2>9, <2>10 DEF LeaseInv, Leasing
<1>4. CASE CloseLeaseUUID
  <2>1. victim \in Clients /\ loop = "leaseUUID" /\ \A d \in Clients : ~Leasing(d)
    BY <1>4, Alone DEF CloseLeaseUUID, TypeOK, Idle, Leasing
  <2>2. /\ freed' = leases[UUIDOf[victim]]
        /\ leases' = [leases EXCEPT ![UUIDOf[victim]] = NoIp]
        /\ loop' = "leaseAddr" /\ UNCHANGED <<worker, victim, holder, picked>>
    BY <1>4 DEF CloseLeaseUUID, workVars
  <2>3. leases'[UUIDOf[victim]] = NoIp /\ \A u \in UUIDs \ {UUIDOf[victim]} : leases'[u] = leases[u]
    BY <2>1, <2>2 DEF TypeOK
  <2>4. \A u \in UUIDs, i \in Ips : leases[u] = i <=> holder[i] = u
    BY <2>1 DEF LeaseInv, Leasing
  <2>5. \A d \in Clients : ~Leasing(d)' BY <2>1, <2>2 DEF Leasing
  <2> QED BY <2>1, <2>2, <2>3, <2>4, <2>5, <1>z DEF LeaseInv, Leasing
<1>5. CASE CloseLeaseAddr
  <2>1. victim \in Clients /\ loop = "leaseAddr" /\ \A d \in Clients : ~Leasing(d)
    BY <1>5, Alone DEF CloseLeaseAddr, TypeOK, Idle, Leasing
  <2>2. /\ holder' = [i \in Ips |->
                         IF i = freed /\ holder[i] = UUIDOf[victim] THEN NoUUID ELSE holder[i]]
        /\ loop' = "point" /\ UNCHANGED <<worker, victim, leases, picked>>
    BY <1>5 DEF CloseLeaseAddr, workVars
  <2>3. \A u \in UUIDs, i \in Ips : leases[u] = i => holder[i] = u
    BY <2>1 DEF LeaseInv, Leasing
  <2>4. \A u \in UUIDs, i \in Ips : holder[i] = u =>
          leases[u] = i \/ (u = UUIDOf[victim] /\ i = freed)
    BY <2>1 DEF LeaseInv
  <2>5. leases[UUIDOf[victim]] = NoIp BY <2>1 DEF LeaseInv
  <2>6. \A d \in Clients : ~Leasing(d)' BY <2>1, <2>2 DEF Leasing
  <2>7. \A u \in UUIDs, i \in Ips : holder'[i] = u => leases'[u] = i
    BY <2>2, <2>4
  <2>8. \A u \in UUIDs, i \in Ips : leases'[u] = i => holder'[i] = u
    BY <2>2, <2>3, <2>5, <1>z
  <2> QED BY <2>2, <2>6, <2>7, <2>8 DEF LeaseInv, Leasing
<1> QED BY <1>1, <1>2, <1>3, <1>4, <1>5, LeaseOther DEF Next, IpRequest, Close

----------------------------------------------------------------------------
(* The points. *)

\* What MemberInv is about stays as it is.
LEMMA MemberFrame ==
    ASSUME MemberInv, UNCHANGED <<points, status, addrUUID, closed>>,
           \A c \in Clients :
             worker'[c] # worker[c] =>
               worker'[c] \in {"select", "stop", "leaseUUID", "leaseAddr"} /\ worker[c] # "client",
           loop' # "select" => victim' \notin closed,
           loop' \in {"index", "addr"} => victim' \in points,
           loop' = "conn" => victim' \notin points
    PROVE  MemberInv'
BY DEF MemberInv

\* The steps that neither log a client in nor close it.
LEMMA MemberOther ==
    ASSUME TypeOK, MemberInv,
           \/ \E c \in Clients :
                \/ WorkerStop(c) \/ NewTapFail(c) \/ IpRequest(c)
                \/ OnLeave(c) \/ ReaderFail(c) \/ TapWriteFail(c) \/ OffIgnored(c) \/ CloseCheck(c)
           \/ CloseLeaseUUID \/ CloseLeaseAddr \/ ClosePoint \/ CloseIndex \/ UNCHANGED vars
    PROVE  MemberInv'
<1> USE DEF Goto, loopVars, pointVars
<1>m. /\ loop # "select" => victim \notin closed
      /\ loop \in {"index", "addr"} => victim \in points
      /\ loop = "conn" => victim \notin points
  BY DEF MemberInv
<1>w. ASSUME NEW c \in Clients, NEW pc \in {"select", "stop", "leaseUUID", "leaseAddr"},
             worker' = [worker EXCEPT ![c] = pc], worker[c] # "client",
             UNCHANGED <<points, status, addrUUID, closed, loop, victim>>
      PROVE  MemberInv'
  <2>1. \A d \in Clients : d # c => worker'[d] = worker[d] BY <1>w DEF TypeOK
  <2>2. worker'[c] = pc BY <1>w DEF TypeOK
  <2> QED BY <1>w, <1>m, <2>1, <2>2, MemberFrame
<1>1. ASSUME NEW c \in Clients,
             WorkerStop(c) \/ NewTapFail(c) \/ IpAlloc(c) \/ LeaseUUID(c) \/ LeaseAddr(c)
      PROVE  MemberInv'
  BY <1>1, <1>w DEF WorkerStop, NewTapFail, IpAlloc, MayRequest, LeaseUUID, LeaseAddr
<1>2. ASSUME NEW c \in Clients,
             \/ IpKnown(c) \/ IpExhausted(c) \/ OnLeave(c) \/ ReaderFail(c)
             \/ TapWriteFail(c) \/ OffIgnored(c)
      PROVE  MemberInv'
  <2>1. UNCHANGED <<points, status, addrUUID, closed, worker, loop, victim>>
    BY <1>2 DEF IpKnown, IpExhausted, OnLeave, ReaderFail, TapWriteFail, OffIgnored
  <2> QED BY <2>1, <1>m, MemberFrame
<1>3. ASSUME NEW c \in Clients, CloseCheck(c) PROVE MemberInv'
  BY <1>3, MemberFrame DEF CloseCheck
<1>4. CASE CloseLeaseUUID \/ CloseLeaseAddr \/ ClosePoint \/ CloseIndex
  BY <1>4, <1>m, MemberFrame DEF CloseLeaseUUID, CloseLeaseAddr, ClosePoint, CloseIndex
<1>5. CASE UNCHANGED vars BY <1>5, <1>m, MemberFrame DEF vars
<1> QED BY <1>1, <1>2, <1>3, <1>4, <1>5 DEF IpRequest

\* A client is a point from its login to its close.
LEMMA MemberStep ==
    ASSUME TypeOK, OneHandler, MemberInv, [Next]_vars
    PROVE  MemberInv'
<1> USE AccessAssumption DEF Goto, loopVars, pointVars
<1>w. ASSUME NEW c \in Clients, NEW pc, worker' = [worker EXCEPT ![c] = pc]
      PROVE  worker'[c] = pc /\ \A d \in Clients \ {c} : worker'[d] = worker[d]
  BY <1>w DEF TypeOK
<1>1. ASSUME NEW c \in Clients, OnClient(c) PROVE MemberInv'
  BY <1>1, <1>w DEF OnClient, MemberInv, TypeOK
<1>2. ASSUME NEW c \in Clients, LoginFail(c) PROVE MemberInv'
  BY <1>2 DEF LoginFail, MemberInv, TypeOK
<1>3. ASSUME NEW c \in Clients, LoginCheck(c) PROVE MemberInv'
  BY <1>3, <1>w DEF LoginCheck, MemberInv
<1>4. ASSUME NEW c \in Clients, LoginAuth(c) PROVE MemberInv'
  BY <1>4, <1>w DEF LoginAuth, MemberInv, TypeOK
<1>5. ASSUME NEW c \in Clients, NewTapOk(c) PROVE MemberInv'
  BY <1>5, <1>w DEF NewTapOk, MemberInv
<1>6. ASSUME NEW c \in Clients, PointReset(c) PROVE MemberInv'
  BY <1>6, <1>w DEF PointReset, MemberInv
<1>7. ASSUME NEW c \in Clients, PointAddr(c) PROVE MemberInv'
  <2>1. addrUUID'[c] = UUIDOf[c] /\ \A d \in Clients \ {c} : addrUUID'[d] = addrUUID[d]
    BY <1>7 DEF PointAddr, MemberInv, TypeOK
  <2>2. worker'[c] = "client" /\ \A d \in Clients \ {c} : worker'[d] = worker[d]
    BY <1>7, <1>w DEF PointAddr
  <2>3. worker[c] = "addr" /\ UNCHANGED <<status, closed, loop, victim, points>> BY <1>7 DEF PointAddr
  <2>4. points \subseteq Clients BY DEF TypeOK
  <2> QED BY <2>1, <2>2, <2>3, <2>4 DEF MemberInv
<1>8. ASSUME NEW c \in Clients, PointClient(c) PROVE MemberInv'
  <2>1. loop = "select" BY <1>8, Alone DEF PointClient, Idle
  <2> QED BY <1>8, <1>w, <2>1 DEF PointClient, MemberInv
<1>9. CASE CloseAddr
  <2>1. victim \in Clients /\ loop = "addr" /\ \A d \in Clients : Idle(d)
    BY <1>9, Alone DEF CloseAddr, TypeOK
  <2> QED BY <1>9, <2>1 DEF CloseAddr, MemberInv, TypeOK, Idle
<1>10. CASE CloseConn
  <2>1. victim \in Clients /\ loop = "conn" /\ \A d \in Clients : Idle(d)
    BY <1>10, Alone DEF CloseConn, TypeOK
  <2> QED BY <1>10, <2>1 DEF CloseConn, MemberInv, TypeOK, Idle
<1> QED BY <1>1, <1>2, <1>3, <1>4, <1>5, <1>6, <1>7, <1>8, <1>9, <1>10, MemberOther
        DEF Next, Login, Close

\* No point is closed while there is no zombie.
LEMMA PointsLive == MemberInv /\ Zombies = {} => points \cap closed = {}
BY DEF MemberInv, Zombies

\* A zombie stays one.
LEMMA ZombiesStay ==
    ASSUME TypeOK, MemberInv, [Next]_vars
    PROVE  Zombies \subseteq Zombies'
<1>1. ASSUME NEW c \in Clients, OnClient(c) \/ LoginFail(c) \/ LoginAuth(c)
      PROVE  Zombies \subseteq Zombies'
  BY <1>1 DEF OnClient, LoginFail, LoginAuth, MemberInv, TypeOK, Zombies
<1>2. CASE CloseConn
  BY <1>2 DEF CloseConn, MemberInv, TypeOK, Zombies
<1>3. CASE UNCHANGED <<status, closed>> BY <1>3 DEF Zombies
<1>4. ASSUME NEW c \in Clients,
             \/ WorkerStop(c) \/ LoginCheck(c) \/ NewTapFail(c) \/ NewTapOk(c)
             \/ PointReset(c) \/ PointAddr(c) \/ PointClient(c)
      PROVE  UNCHANGED <<status, closed>>
  BY <1>4 DEF WorkerStop, LoginCheck, NewTapFail, NewTapOk, PointReset, PointAddr, PointClient
<1>5. ASSUME NEW c \in Clients,
             \/ IpRequest(c) \/ OnLeave(c) \/ ReaderFail(c) \/ TapWriteFail(c)
             \/ OffIgnored(c) \/ CloseCheck(c)
      PROVE  UNCHANGED <<status, closed>>
  BY <1>5 DEF IpRequest, IpKnown, IpAlloc, IpExhausted, LeaseUUID, LeaseAddr, OnLeave, ReaderFail,
         TapWriteFail, OffIgnored, CloseCheck
<1>6. \/ CloseLeaseUUID \/ CloseLeaseAddr \/ ClosePoint \/ CloseIndex \/ CloseAddr \/ UNCHANGED vars
      => UNCHANGED <<status, closed>>
  BY DEF CloseLeaseUUID, CloseLeaseAddr, ClosePoint, CloseIndex, CloseAddr, vars
<1> QED BY <1>1, <1>2, <1>3, <1>4, <1>5, <1>6 DEF Next, Login, Close

\* A client that is asked to close stays so until the Loop has closed it.
LEMMA LeavingStays ==
    ASSUME TypeOK, [Next]_vars, NEW x \in Clients, Leaving(x)
    PROVE  Leaving(x)' \/ x \in closed'
<1> USE AccessAssumption DEF loopVars
<1>f. off \in Seq(Clients) BY DEF TypeOK
<1>s. ASSUME UNCHANGED <<off, victim>> PROVE Leaving(x)'
  BY <1>s DEF Leaving, Pending
<1>o. ASSUME NEW S \in SUBSET Clients, victim' = victim,
             off' = IF S \subseteq Pending THEN off ELSE Append(off, CHOOSE c \in S : TRUE)
      PROVE  Leaving(x)'
  <2>1. Pending \subseteq Pending' BY <1>o, <1>f, OffFacts
  <2> QED BY <1>o, <2>1 DEF Leaving
<1>1. ASSUME NEW c \in Clients, LoginCheck(c) PROVE Leaving(x)'
  <2>1. ReplacedBy(c) \in SUBSET Clients BY DEF ReplacedBy, TypeOK
  <2> QED BY <1>1, <1>o, <2>1 DEF LoginCheck, OffClient
<1>2. ASSUME NEW c \in Clients, NewTapOk(c) PROVE Leaving(x)'
  <2>1. SameUUID(UUIDOf[c]) \in SUBSET Clients BY DEF SameUUID, TypeOK
  <2> QED BY <1>2, <1>o, <2>1 DEF NewTapOk, OffClient
<1>3. ASSUME NEW c \in Clients, OnLeave(c) \/ ReaderFail(c) \/ TapWriteFail(c) PROVE Leaving(x)'
  BY <1>3, <1>o DEF OnLeave, ReaderFail, TapWriteFail, OffClient
<1>4. ASSUME NEW c \in Clients, OffIgnored(c) PROVE Leaving(x)' \/ x \in closed'
  BY <1>4, <1>f, TakeFacts DEF OffIgnored, Leaving
<1>5. ASSUME NEW c \in Clients, CloseCheck(c) PROVE Leaving(x)'
  <2>1. victim = NoClient BY <1>5 DEF CloseCheck, TypeOK
  <2> QED BY <1>5, <1>f, <2>1, TakeFacts DEF CloseCheck, Leaving
<1>6. CASE CloseConn
  BY <1>6 DEF CloseConn, Leaving, Pending
<1>7. ASSUME NEW c \in Clients,
             \/ OnClient(c) \/ WorkerStop(c) \/ LoginFail(c) \/ LoginAuth(c) \/ NewTapFail(c)
             \/ PointReset(c) \/ PointAddr(c) \/ PointClient(c) \/ IpRequest(c)
      PROVE  UNCHANGED <<off, victim>>
  BY <1>7 DEF OnClient, WorkerStop, LoginFail, LoginAuth, NewTapFail, PointReset, PointAddr,
         PointClient, IpRequest, IpKnown, IpAlloc, IpExhausted, LeaseUUID, LeaseAddr
<1>8. \/ CloseLeaseUUID \/ CloseLeaseAddr \/ ClosePoint \/ CloseIndex \/ CloseAddr \/ UNCHANGED vars
      => UNCHANGED <<off, victim>>
  BY DEF CloseLeaseUUID, CloseLeaseAddr, ClosePoint, CloseIndex, CloseAddr, vars
<1> QED BY <1>1, <1>2, <1>3, <1>4, <1>5, <1>6, <1>7, <1>8, <1>s DEF Next, Login, Close

\* A point of a state without zombies that was leaving is so still.
LEMMA PointLeaving ==
    ASSUME TypeOK, MemberInv', Zombies' = {}, [Next]_vars, NEW x \in Clients, x \in points', Leaving(x)
    PROVE  Leaving(x)'
<1>1. Leaving(x)' \/ x \in closed' BY LeavingStays
<1>2. points' \cap closed' = {} BY DEF MemberInv, Zombies
<1> QED BY <1>1, <1>2

\* The index and the points are left alone, and no login has begun.
LEMMA IndexFrame ==
    ASSUME TypeOK, MemberInv, MemberInv', IndexInv, [Next]_vars,
           UNCHANGED <<uuidAddr, points>>,
           \A c \in Clients :
             worker'[c] # worker[c] =>
               \/ worker[c] = "addr" /\ worker'[c] = "client"
               \/ ~Entering(c) /\ ~Entering(c)',
           loop' \in {"leaseUUID", "leaseAddr", "index"} => uuidAddr[UUIDOf[victim']] = victim',
           loop' = "addr" => uuidAddr[UUIDOf[victim']] # victim'
    PROVE  IndexInv'
<1>1. Zombies' = {} => Zombies = {} BY ZombiesStay
<1>2. ASSUME Zombies' = {}, NEW c \in points PROVE Leaving(c) => Leaving(c)'
  <2>1. c \in Clients BY <1>2 DEF TypeOK
  <2> QED BY <1>2, <2>1, PointLeaving
<1>3. \A c \in Clients : (worker'[c] \in {"addr", "client"} <=> worker[c] \in {"addr", "client"})
                        /\ (worker'[c] = "reset" <=> worker[c] = "reset")
  BY DEF Entering
<1>4. Zombies' = {} => \A c \in points : uuidAddr[UUIDOf[c]] = c \/ Leaving(c)'
  BY <1>1, <1>2 DEF IndexInv
<1>5. Zombies' = {} => \A c \in Clients : worker'[c] = "reset" =>
        \A d \in points : UUIDOf[d] = UUIDOf[c] => Leaving(d)'
  BY <1>1, <1>2, <1>3 DEF IndexInv
<1>6. \A u \in UUIDs : uuidAddr[u] # NoClient =>
        UUIDOf[uuidAddr[u]] = u /\ (uuidAddr[u] \in points \/ worker'[uuidAddr[u]] \in {"addr", "client"})
  BY <1>3 DEF IndexInv, TypeOK
<1>7. \A c \in Clients : worker'[c] \in {"addr", "client"} => uuidAddr[UUIDOf[c]] = c
  BY <1>3 DEF IndexInv
<1> QED BY <1>4, <1>5, <1>6, <1>7 DEF IndexInv

\* The steps that leave the index and the points alone.
LEMMA IndexOther ==
    ASSUME TypeOK, MemberInv, MemberInv', IndexInv, [Next]_vars,
           \/ \E c \in Clients :
                \/ OnClient(c) \/ WorkerStop(c) \/ LoginFail(c) \/ LoginCheck(c) \/ LoginAuth(c)
                \/ NewTapFail(c) \/ PointAddr(c) \/ IpRequest(c) \/ OnLeave(c) \/ ReaderFail(c)
                \/ TapWriteFail(c) \/ OffIgnored(c) \/ CloseCheck(c)
           \/ CloseLeaseUUID \/ CloseLeaseAddr \/ ClosePoint \/ CloseConn \/ UNCHANGED vars
    PROVE  IndexInv'
<1> USE DEF Goto, loopVars, pointVars
<1>i. /\ loop \in {"leaseUUID", "leaseAddr", "index"} => uuidAddr[UUIDOf[victim]] = victim
      /\ loop = "addr" => uuidAddr[UUIDOf[victim]] # victim
  BY DEF IndexInv
<1>w. ASSUME NEW c \in Clients, NEW pc, worker' = [worker EXCEPT ![c] = pc],
             \/ worker[c] = "addr" /\ pc = "client"
             \/ ~Entering(c) /\ pc \notin {"reset", "addr", "client"},
             UNCHANGED <<uuidAddr, points, loop, victim>>
      PROVE  IndexInv'
  <2>1. worker'[c] = pc /\ \A d \in Clients : d # c => worker'[d] = worker[d] BY <1>w DEF TypeOK
  <2>2. \A d \in Clients : worker'[d] # worker[d] =>
          (worker[d] = "addr" /\ worker'[d] = "client") \/ (~Entering(d) /\ ~Entering(d)')
    BY <1>w, <2>1 DEF Entering
  <2> QED BY <1>w, <1>i, <2>2, IndexFrame
<1>s. ASSUME UNCHANGED <<uuidAddr, points, worker, loop, victim>> PROVE IndexInv'
  BY <1>s, <1>i, IndexFrame
<1>1. ASSUME NEW c \in Clients,
             \/ OnClient(c) \/ WorkerStop(c) \/ LoginCheck(c) \/ LoginAuth(c) \/ NewTapFail(c)
             \/ PointAddr(c) \/ IpAlloc(c) \/ LeaseUUID(c) \/ LeaseAddr(c)
      PROVE  IndexInv'
  <2>1. CASE OnClient(c) \/ WorkerStop(c) \/ LoginCheck(c) \/ LoginAuth(c) \/ NewTapFail(c)
    BY <2>1, <1>w DEF OnClient, WorkerStop, LoginCheck, LoginAuth, NewTapFail, Entering
  <2>2. CASE PointAddr(c) \/ IpAlloc(c) \/ LeaseUUID(c) \/ LeaseAddr(c)
    BY <2>2, <1>w DEF PointAddr, IpAlloc, MayRequest, LeaseUUID, LeaseAddr, Entering
  <2> QED BY <1>1, <2>1, <2>2
<1>2. ASSUME NEW c \in Clients,
             \/ LoginFail(c) \/ IpKnown(c) \/ IpExhausted(c) \/ OnLeave(c) \/ ReaderFail(c)
             \/ TapWriteFail(c) \/ OffIgnored(c)
      PROVE  IndexInv'
  BY <1>2, <1>s DEF LoginFail, IpKnown, IpExhausted, OnLeave, ReaderFail, TapWriteFail, OffIgnored
<1>3. ASSUME NEW c \in Clients, CloseCheck(c) PROVE IndexInv'
  <2>1. ~HasNewer(c) => uuidAddr[UUIDOf[c]] = c BY DEF HasNewer, MemberInv
  <2> QED BY <1>3, <2>1, IndexFrame DEF CloseCheck
<1>4. CASE CloseLeaseUUID \/ CloseLeaseAddr
  BY <1>4, <1>i, IndexFrame DEF CloseLeaseUUID, CloseLeaseAddr
<1>5. CASE ClosePoint BY <1>5, <1>i, IndexFrame DEF ClosePoint
<1>6. CASE CloseConn BY <1>6, IndexFrame DEF CloseConn
<1>7. CASE UNCHANGED vars BY <1>7, <1>s DEF vars
<1> QED BY <1>1, <1>2, <1>3, <1>4, <1>5, <1>6, <1>7 DEF IpRequest

\* The index leads to the newest point of a uuid, and the others are leaving.
LEMMA IndexStep ==
    ASSUME TypeOK, OneHandler, MemberInv, MemberInv', IndexInv, [Next]_vars
    PROVE  IndexInv'
<1> USE AccessAssumption DEF Goto, loopVars, pointVars
<1>t. points \subseteq Clients BY DEF TypeOK
<1>z. Zombies' = {} => Zombies = {} BY ZombiesStay
<1>l. ASSUME Zombies' = {}, NEW x \in Clients, x \in points' PROVE Leaving(x) => Leaving(x)'
  BY <1>l, PointLeaving
<1>w. ASSUME NEW c \in Clients, NEW pc, worker' = [worker EXCEPT ![c] = pc]
      PROVE  worker'[c] = pc /\ \A d \in Clients \ {c} : worker'[d] = worker[d]
  BY <1>w DEF TypeOK
<1>1. ASSUME NEW c \in Clients, NewTapOk(c) PROVE IndexInv'
  <2>1. loop = "select" /\ \A d \in Clients \ {c} : Idle(d)
    BY <1>1, Alone DEF NewTapOk, Idle
  <2>2. /\ worker[c] = "tap" /\ worker'[c] = "reset" /\ \A d \in Clients \ {c} : worker'[d] = worker[d]
        /\ UNCHANGED <<uuidAddr, points, loop, victim>>
    BY <1>1, <1>w DEF NewTapOk
  <2>3. ASSUME NEW d \in points, UUIDOf[d] = UUIDOf[c], Zombies' = {} PROVE Leaving(d)'
    <3>1. CASE uuidAddr[UUIDOf[c]] = d
      <4>1. SameUUID(UUIDOf[c]) = {d} /\ d \in Clients BY <1>t, <2>3, <3>1 DEF SameUUID
      <4>2. off \in Seq(Clients) /\ OffClient(SameUUID(UUIDOf[c]))
        BY <1>1 DEF NewTapOk, TypeOK
      <4>3. d \in Pending' BY <4>1, <4>2, OffOne DEF OffClient
      <4> QED BY <4>3 DEF Leaving
    <3>2. CASE Leaving(d) BY <1>t, <1>l, <2>2, <2>3, <3>2
    <3> QED BY <1>z, <2>3, <3>1, <3>2 DEF IndexInv
  <2>4. \A d \in points : Zombies' = {} => uuidAddr[UUIDOf[d]] = d \/ Leaving(d)'
    BY <1>t, <1>z, <1>l, <2>2 DEF IndexInv
  <2>5. \A d \in Clients : worker'[d] \in {"addr", "client"} <=> worker[d] \in {"addr", "client"}
    BY <2>2
  <2>6. \A d \in Clients : worker'[d] = "reset" => d = c
    BY <2>1, <2>2 DEF Idle
  <2>7. \A u \in UUIDs : uuidAddr[u] # NoClient =>
          UUIDOf[uuidAddr[u]] = u /\ (uuidAddr[u] \in points \/ worker'[uuidAddr[u]] \in {"addr", "client"})
    BY <2>5 DEF IndexInv, TypeOK
  <2>8. \A d \in Clients : worker'[d] \in {"addr", "client"} => uuidAddr[UUIDOf[d]] = d
    BY <2>5 DEF IndexInv
  <2> QED BY <2>1, <2>2, <2>3, <2>4, <2>6, <2>7, <2>8 DEF IndexInv
<1>2. ASSUME NEW c \in Clients, PointReset(c) PROVE IndexInv'
  <2>1. loop = "select" /\ \A d \in Clients \ {c} : Idle(d)
    BY <1>2, Alone DEF PointReset, Idle
  <2>2. /\ worker[c] = "reset" /\ worker'[c] = "addr" /\ \A d \in Clients \ {c} : worker'[d] = worker[d]
        /\ UNCHANGED <<points, loop, victim>>
    BY <1>2, <1>w DEF PointReset
  <2>3. uuidAddr'[UUIDOf[c]] = c /\ \A u \in UUIDs \ {UUIDOf[c]} : uuidAddr'[u] = uuidAddr[u]
    BY <1>2 DEF PointReset, TypeOK
  <2>4. \A d \in points : Zombies' = {} => uuidAddr'[UUIDOf[d]] = d \/ Leaving(d)'
    BY <1>t, <1>z, <1>l, <2>2, <2>3 DEF IndexInv
  <2>5. \A d \in Clients \ {c} : worker'[d] \notin {"reset", "addr", "client"}
    BY <2>1, <2>2 DEF Idle
  <2>6. \A u \in UUIDs : uuidAddr'[u] # NoClient =>
          UUIDOf[uuidAddr'[u]] = u /\ (uuidAddr'[u] \in points \/ worker'[uuidAddr'[u]] \in {"addr", "client"})
    BY <2>2, <2>3 DEF IndexInv, TypeOK
  <2> QED BY <2>1, <2>2, <2>3, <2>4, <2>5, <2>6 DEF IndexInv
<1>3. ASSUME NEW c \in Clients, PointClient(c) PROVE IndexInv'
  <2>1. loop = "select" /\ \A d \in Clients \ {c} : Idle(d)
    BY <1>3, Alone DEF PointClient, Idle
  <2>2. /\ worker[c] = "client" /\ worker'[c] = "select" /\ \A d \in Clients \ {c} : worker'[d] = worker[d]
        /\ points' = points \cup {c} /\ UNCHANGED <<uuidAddr, loop, victim>>
    BY <1>3, <1>w DEF PointClient
  <2>3. uuidAddr[UUIDOf[c]] = c BY <2>2 DEF IndexInv
  <2>4. \A d \in points' : Zombies' = {} => uuidAddr[UUIDOf[d]] = d \/ Leaving(d)'
    BY <1>t, <1>z, <1>l, <2>2, <2>3 DEF IndexInv
  <2>5. \A d \in Clients : worker'[d] \notin {"reset", "addr", "client"}
    BY <2>1, <2>2 DEF Idle
  <2>6. \A u \in UUIDs : uuidAddr[u] # NoClient => UUIDOf[uuidAddr[u]] = u /\ uuidAddr[u] \in points'
    BY <2>1, <2>2 DEF IndexInv, TypeOK, Idle
  <2> QED BY <2>1, <2>2, <2>4, <2>5, <2>6 DEF IndexInv
<1>4. CASE CloseIndex
  <2>1. victim \in Clients /\ loop = "index" /\ \A d \in Clients : Idle(d)
    BY <1>4, Alone DEF CloseIndex, TypeOK
  <2>2. loop' = "addr" /\ UNCHANGED <<points, worker, victim>> BY <1>4 DEF CloseIndex
  <2>3. uuidAddr'[UUIDOf[victim]] = NoClient /\ \A u \in UUIDs \ {UUIDOf[victim]} : uuidAddr'[u] = uuidAddr[u]
    BY <1>4, <2>1 DEF CloseIndex, TypeOK
  <2>4. uuidAddr[UUIDOf[victim]] = victim BY <2>1 DEF IndexInv
  <2>5. Leaving(victim) BY DEF Leaving
  <2>6. \A d \in points : Zombies' = {} => uuidAddr'[UUIDOf[d]] = d \/ Leaving(d)'
    BY <1>t, <1>z, <1>l, <2>2, <2>3, <2>4, <2>5 DEF IndexInv
  <2> QED BY <2>1, <2>2, <2>3, <2>6 DEF IndexInv, Idle, TypeOK
<1>5. CASE CloseAddr
  <2>1. victim \in Clients /\ loop = "addr" /\ \A d \in Clients : Idle(d)
    BY <1>5, Alone DEF CloseAddr, TypeOK
  <2>2. loop' = "conn" /\ points' = points \ {victim} /\ UNCHANGED <<uuidAddr, worker, victim>>
    BY <1>5 DEF CloseAddr
  <2>3. uuidAddr[UUIDOf[victim]] # victim BY <2>1 DEF IndexInv
  <2>4. \A d \in points' : Zombies' = {} => uuidAddr[UUIDOf[d]] = d \/ Leaving(d)'
    BY <1>t, <1>z, <1>l, <2>2 DEF IndexInv
  <2>5. \A u \in UUIDs : uuidAddr[u] # NoClient => UUIDOf[uuidAddr[u]] = u /\ uuidAddr[u] \in points'
    BY <2>1, <2>2, <2>3 DEF IndexInv, TypeOK, Idle
  <2> QED BY <2>1, <2>2, <2>4, <2>5 DEF IndexInv, Idle
<1> QED BY <1>1, <1>2, <1>3, <1>4, <1>5, IndexOther DEF Next, Login, Close

\* The devices and the points are left alone.
LEMMA DeviceFrame ==
    ASSUME TypeOK, MemberInv, DeviceInv, [Next]_vars, UNCHANGED <<device, points>>,
           \A c \in Clients : Entering(c)' <=> Entering(c),
           loop' \in {"index", "addr"} => loop \in {"index", "addr"} /\ victim' = victim,
           loop \in {"index", "addr"} => loop' \in {"index", "addr"}
    PROVE  DeviceInv'
<1>1. Zombies' = {} => Zombies = {} BY ZombiesStay
<1>2. device \subseteq Clients BY DEF TypeOK
<1> QED BY <1>1, <1>2 DEF DeviceInv

\* The steps that leave the devices and the points alone.
LEMMA DeviceOther ==
    ASSUME TypeOK, MemberInv, DeviceInv, [Next]_vars,
           \/ \E c \in Clients :
                \/ OnClient(c) \/ WorkerStop(c) \/ LoginFail(c) \/ LoginCheck(c) \/ LoginAuth(c)
                \/ NewTapFail(c) \/ PointReset(c) \/ PointAddr(c) \/ IpRequest(c) \/ OnLeave(c)
                \/ ReaderFail(c) \/ OffIgnored(c) \/ CloseCheck(c)
           \/ CloseLeaseUUID \/ CloseLeaseAddr \/ CloseIndex \/ CloseConn \/ UNCHANGED vars
    PROVE  DeviceInv'
<1> USE DEF Goto, loopVars, pointVars
<1>w. ASSUME NEW c \in Clients, NEW pc, worker' = [worker EXCEPT ![c] = pc],
             Entering(c) <=> pc \in {"reset", "addr", "client"},
             UNCHANGED <<device, points, loop, victim>>
      PROVE  DeviceInv'
  <2>1. worker'[c] = pc /\ \A d \in Clients : d # c => worker'[d] = worker[d] BY <1>w DEF TypeOK
  <2>2. \A d \in Clients : Entering(d)' <=> Entering(d) BY <1>w, <2>1 DEF Entering
  <2> QED BY <1>w, <2>2, DeviceFrame
<1>s. ASSUME UNCHANGED <<device, points, worker>>,
             \/ UNCHANGED <<loop, victim>>
             \/ loop \notin {"index", "addr"} /\ loop' \notin {"index", "addr"}
             \/ loop = "index" /\ loop' = "addr" /\ victim' = victim
      PROVE  DeviceInv'
  <2>1. \A d \in Clients : Entering(d)' <=> Entering(d) BY <1>s DEF Entering
  <2> QED BY <1>s, <2>1, DeviceFrame
<1>1. ASSUME NEW c \in Clients,
             OnClient(c) \/ WorkerStop(c) \/ LoginCheck(c) \/ LoginAuth(c) \/ NewTapFail(c)
      PROVE  DeviceInv'
  BY <1>1, <1>w DEF OnClient, WorkerStop, LoginCheck, LoginAuth, NewTapFail, Entering
<1>2. ASSUME NEW c \in Clients,
             PointReset(c) \/ PointAddr(c) \/ IpAlloc(c) \/ LeaseUUID(c) \/ LeaseAddr(c)
      PROVE  DeviceInv'
  BY <1>2, <1>w DEF PointReset, PointAddr, IpAlloc, MayRequest, LeaseUUID, LeaseAddr, Entering
<1>3. ASSUME NEW c \in Clients,
             \/ LoginFail(c) \/ IpKnown(c) \/ IpExhausted(c) \/ OnLeave(c) \/ ReaderFail(c)
             \/ OffIgnored(c) \/ CloseCheck(c)
      PROVE  DeviceInv'
  BY <1>3, <1>s DEF LoginFail, IpKnown, IpExhausted, OnLeave, ReaderFail, OffIgnored, CloseCheck
<1>4. CASE CloseLeaseUUID \/ CloseLeaseAddr \/ CloseIndex \/ CloseConn
  BY <1>4, <1>s DEF CloseLeaseUUID, CloseLeaseAddr, CloseIndex, CloseConn
<1>5. CASE UNCHANGED vars BY <1>5, <1>s DEF vars
<1> QED BY <1>1, <1>2, <1>3, <1>4, <1>5 DEF IpRequest

\* A point has its device, and nobody else has one.
LEMMA DeviceStep ==
    ASSUME TypeOK, OneHandler, MemberInv, DeviceInv, [Next]_vars
    PROVE  DeviceInv'
<1> USE AccessAssumption DEF Goto, loopVars, pointVars
<1>t. device \subseteq Clients /\ points \subseteq Clients BY DEF TypeOK
<1>z. Zombies' = {} => Zombies = {} BY ZombiesStay
<1>w. ASSUME NEW c \in Clients, NEW pc, worker' = [worker EXCEPT ![c] = pc]
      PROVE  worker'[c] = pc /\ \A d \in Clients \ {c} : worker'[d] = worker[d]
  BY <1>w DEF TypeOK
<1>1. ASSUME NEW c \in Clients, NewTapOk(c) PROVE DeviceInv'
  <2>1. loop = "select" BY <1>1, Alone DEF NewTapOk, Idle
  <2>2. /\ worker'[c] = "reset" /\ \A d \in Clients \ {c} : worker'[d] = worker[d]
        /\ device' = device \cup {c} /\ UNCHANGED <<points, loop, victim>>
    BY <1>1, <1>w DEF NewTapOk
  <2> QED BY <1>t, <1>z, <2>1, <2>2 DEF DeviceInv, Entering
<1>2. ASSUME NEW c \in Clients, PointClient(c) PROVE DeviceInv'
  <2>1. loop = "select" BY <1>2, Alone DEF PointClient, Idle
  <2>2. /\ worker[c] = "client" /\ worker'[c] = "select" /\ \A d \in Clients \ {c} : worker'[d] = worker[d]
        /\ points' = points \cup {c} /\ UNCHANGED <<device, loop, victim>>
    BY <1>2, <1>w DEF PointClient
  <2> QED BY <1>t, <1>z, <2>1, <2>2 DEF DeviceInv, Entering
<1>3. ASSUME NEW c \in Clients, TapWriteFail(c) PROVE DeviceInv'
  <2>1. Zombies # {} BY <1>3 DEF TapWriteFail, MemberInv, Zombies
  <2> QED BY <1>z, <2>1 DEF DeviceInv
<1>4. CASE ClosePoint
  <2>1. victim \in Clients /\ loop = "point" /\ \A d \in Clients : Idle(d)
    BY <1>4, Alone DEF ClosePoint, TypeOK
  <2>2. UNCHANGED <<points, worker, victim>> BY <1>4 DEF ClosePoint
  <2>3. \/ device' = device \ {victim} /\ loop' \in {"index", "addr"}
        \/ device' = device /\ loop' = "conn"
    BY <1>4 DEF ClosePoint
  <2> QED BY <1>t, <1>z, <2>1, <2>2, <2>3 DEF DeviceInv, Entering, Idle
<1>5. CASE CloseAddr
  <2>1. victim \in Clients /\ loop = "addr" /\ \A d \in Clients : Idle(d)
    BY <1>5, Alone DEF CloseAddr, TypeOK
  <2>2. points' = points \ {victim} /\ loop' = "conn" /\ UNCHANGED <<device, worker, victim>>
    BY <1>5 DEF CloseAddr
  <2> QED BY <1>t, <1>z, <2>1, <2>2 DEF DeviceInv, Entering, Idle
<1> QED BY <1>1, <1>2, <1>3, <1>4, <1>5, DeviceOther DEF Next, Login, Close

----------------------------------------------------------------------------
(* The sessions of guests. *)

\* The live sessions of guests are the last ones or are leaving.
LEMMA GuestStep ==
    ASSUME TypeOK, OneHandler, GuestInv, [Next]_vars
    PROVE  GuestInv'
<1> USE AccessAssumption DEF Goto, loopVars, pointVars
<1>l. ASSUME NEW x \in LiveSessions', Leaving(x) PROVE Leaving(x)'
  <2>1. x \in Clients /\ x \notin closed' BY <1>l DEF LiveSessions
  <2> QED BY <1>l, <2>1, LeavingStays
<1>w. ASSUME NEW c \in Clients, NEW pc, worker' = [worker EXCEPT ![c] = pc]
      PROVE  worker'[c] = pc /\ \A d \in Clients \ {c} : worker'[d] = worker[d]
  BY <1>w DEF TypeOK
<1>s. ASSUME last' = last, LiveSessions' \subseteq LiveSessions,
             \A c \in Clients : worker'[c] = "auth" => worker[c] = "auth"
      PROVE  GuestInv'
  BY <1>s, <1>l DEF GuestInv
<1>1. ASSUME NEW c \in Clients, LoginCheck(c) PROVE GuestInv'
  <2>1. /\ worker'[c] = "auth" /\ \A d \in Clients \ {c} : worker'[d] = worker[d]
        /\ UNCHANGED <<last, status, closed>>
    BY <1>1, <1>w DEF LoginCheck
  <2>2. LiveSessions' = LiveSessions BY <2>1 DEF LiveSessions
  <2>3. ASSUME NEW d \in LiveSessions, UserOf[d] = UserOf[c], UserOf[c] \in Guests PROVE Leaving(d)'
    <3>1. CASE last[UserOf[c]] = d
      <4>1. d \in Clients BY DEF LiveSessions
      <4>2. ReplacedBy(c) = {d} BY <2>3, <3>1, <4>1 DEF ReplacedBy
      <4>3. off \in Seq(Clients) /\ OffClient(ReplacedBy(c))
        BY <1>1 DEF LoginCheck, TypeOK
      <4>4. d \in Pending' BY <4>1, <4>2, <4>3, OffOne DEF OffClient
      <4> QED BY <4>4 DEF Leaving
    <3>2. CASE Leaving(d) BY <1>l, <2>2, <3>2
    <3> QED BY <2>3, <3>1, <3>2 DEF GuestInv
  <2>4. \A d \in LiveSessions : Leaving(d) => Leaving(d)' BY <1>l, <2>2
  <2> QED BY <2>1, <2>2, <2>3, <2>4 DEF GuestInv
<1>2. ASSUME NEW c \in Clients, LoginAuth(c) PROVE GuestInv'
  <2>1. \A d \in Clients \ {c} : Idle(d) BY <1>2, Alone DEF LoginAuth, Idle
  <2>2. /\ worker[c] = "auth" /\ worker'[c] = "tap" /\ \A d \in Clients \ {c} : worker'[d] = worker[d]
        /\ closed' = closed
    BY <1>2, <1>w DEF LoginAuth
  <2>3. /\ last'[UserOf[c]] = c /\ \A u \in Users \ {UserOf[c]} : last'[u] = last[u]
        /\ \A d \in Clients \ {c} : status'[d] = status[d]
    BY <1>2 DEF LoginAuth, TypeOK
  <2>4. \A d \in LiveSessions' : d = c \/ d \in LiveSessions BY <2>2, <2>3 DEF LiveSessions
  <2>5. \A d \in Clients : worker'[d] # "auth" BY <2>1, <2>2 DEF Idle
  <2>6. \A d \in LiveSessions' : UserOf[d] \in Guests => last'[UserOf[d]] = d \/ Leaving(d)'
    <3> TAKE d \in LiveSessions'
    <3>1. CASE d = c BY <2>3, <3>1
    <3>2. CASE d # c
      <4>1. d \in LiveSessions /\ d \in Clients BY <2>4, <3>2 DEF LiveSessions
      <4>2. UserOf[d] \in Guests => last'[UserOf[d]] = d \/ Leaving(d)
        BY <2>2, <2>3, <4>1 DEF GuestInv
      <4> QED BY <1>l, <4>2
    <3> QED BY <3>1, <3>2
  <2> QED BY <2>5, <2>6 DEF GuestInv
<1>3. ASSUME NEW c \in Clients, OnClient(c) \/ LoginFail(c) PROVE GuestInv'
  <2>1. last' = last /\ LiveSessions' \subseteq LiveSessions
    BY <1>3 DEF OnClient, LoginFail, LiveSessions, TypeOK
  <2>2. \A d \in Clients : worker'[d] = "auth" => worker[d] = "auth"
    BY <1>3, <1>w DEF OnClient, LoginFail
  <2> QED BY <1>s, <2>1, <2>2
<1>4. ASSUME NEW c \in Clients,
             \/ WorkerStop(c) \/ NewTapFail(c) \/ NewTapOk(c) \/ PointReset(c) \/ PointAddr(c)
             \/ PointClient(c)
      PROVE  GuestInv'
  <2>1. UNCHANGED <<last, status, closed>>
    BY <1>4 DEF WorkerStop, NewTapFail, NewTapOk, PointReset, PointAddr, PointClient
  <2>2. \A d \in Clients : worker'[d] = "auth" => worker[d] = "auth"
    BY <1>4, <1>w DEF WorkerStop, NewTapFail, NewTapOk, PointReset, PointAddr, PointClient
  <2> QED BY <1>s, <2>1, <2>2 DEF LiveSessions
<1>5. ASSUME NEW c \in Clients, IpAlloc(c) \/ LeaseUUID(c) \/ LeaseAddr(c) PROVE GuestInv'
  <2>1. UNCHANGED <<last, status, closed>> BY <1>5 DEF IpAlloc, LeaseUUID, LeaseAddr
  <2>2. \A d \in Clients : worker'[d] = "auth" => worker[d] = "auth"
    BY <1>5, <1>w DEF IpAlloc, LeaseUUID, LeaseAddr
  <2> QED BY <1>s, <2>1, <2>2 DEF LiveSessions
<1>6. ASSUME NEW c \in Clients,
             \/ IpKnown(c) \/ IpExhausted(c) \/ OnLeave(c) \/ ReaderFail(c) \/ TapWriteFail(c)
             \/ OffIgnored(c) \/ CloseCheck(c)
      PROVE  GuestInv'
  <2>1. UNCHANGED <<last, status, closed, worker>>
    BY <1>6 DEF IpKnown, IpExhausted, OnLeave, ReaderFail, TapWriteFail, OffIgnored, CloseCheck
  <2> QED BY <1>s, <2>1 DEF LiveSessions
<1>7. CASE CloseLeaseUUID \/ CloseLeaseAddr \/ ClosePoint \/ CloseIndex \/ CloseAddr \/ UNCHANGED vars
  <2>1. UNCHANGED <<last, status, closed, worker>>
    BY <1>7 DEF CloseLeaseUUID, CloseLeaseAddr, ClosePoint, CloseIndex, CloseAddr, vars
  <2> QED BY <1>s, <2>1 DEF LiveSessions
<1>8. CASE CloseConn
  <2>1. LiveSessions' \subseteq LiveSessions BY <1>8 DEF CloseConn, LiveSessions, TypeOK
  <2> QED BY <1>8, <1>s, <2>1 DEF CloseConn
<1> QED BY <1>1, <1>2, <1>3, <1>4, <1>5, <1>6, <1>7, <1>8 DEF Next, Login, IpRequest, Close

----------------------------------------------------------------------------
(* The addresses that were given. *)

\* The points keep the address they were given, unless they are leaving.
LEMMA GivenStep ==
    ASSUME TypeOK, OneHandler, LeaseInv, MemberInv, MemberInv', IndexInv, GivenInv, [Next]_vars
    PROVE  GivenInv'
<1> USE AccessAssumption DEF Goto, loopVars, pointVars, leaseVars, workVars
<1>t. points \subseteq Clients BY DEF TypeOK
<1>z. Zombies' = {} => Zombies = {} BY ZombiesStay
<1>l. ASSUME Zombies' = {}, NEW x \in Clients, x \in points' PROVE Leaving(x) => Leaving(x)'
  BY <1>l, PointLeaving
<1>w. ASSUME NEW c \in Clients, NEW pc, worker' = [worker EXCEPT ![c] = pc]
      PROVE  worker'[c] = pc /\ \A d \in Clients \ {c} : worker'[d] = worker[d]
  BY <1>w DEF TypeOK
<1>s. ASSUME UNCHANGED <<given, leases, points>>,
             \A c \in Clients : Leasing(c)' => Leasing(c) \/ c \in points,
             loop = "conn" => UNCHANGED <<loop, victim>>
      PROVE  GivenInv'
  <2>1. \A c \in Clients : given[c] # NoIp => c \in points \/ (c = victim' /\ loop' = "conn")
    BY <1>s DEF GivenInv
  <2>2. \A c \in Clients : worker'[c] \in {"leaseUUID", "leaseAddr"} => c \in points
    BY <1>s DEF GivenInv, Leasing
  <2>3. Zombies' = {} => \A c \in points : given[c] \notin {NoIp, StaticIp[c]} =>
          leases[UUIDOf[c]] = given[c] \/ Leaving(c)'
    BY <1>s, <1>t, <1>z, <1>l DEF GivenInv
  <2> QED BY <1>s, <2>1, <2>2, <2>3 DEF GivenInv
<1>1. ASSUME NEW c \in Clients,
             \/ OnClient(c) \/ WorkerStop(c) \/ LoginCheck(c) \/ LoginAuth(c) \/ NewTapFail(c)
             \/ NewTapOk(c) \/ PointReset(c) \/ PointAddr(c)
      PROVE  GivenInv'
  <2>1. UNCHANGED <<given, leases, points, loop, victim>>
    BY <1>1 DEF OnClient, WorkerStop, LoginCheck, LoginAuth, NewTapFail, NewTapOk, PointReset, PointAddr
  <2>2. PICK pc \in {"select", "stop", "auth", "tap", "reset", "addr", "client"} :
          worker' = [worker EXCEPT ![c] = pc]
    BY <1>1 DEF OnClient, WorkerStop, LoginCheck, LoginAuth, NewTapFail, NewTapOk, PointReset, PointAddr
  <2>3. \A d \in Clients : Leasing(d)' => Leasing(d)
    BY <1>w, <2>2 DEF Leasing
  <2> QED BY <1>s, <2>1, <2>3
<1>2. ASSUME NEW c \in Clients,
             LoginFail(c) \/ OnLeave(c) \/ ReaderFail(c) \/ TapWriteFail(c) \/ OffIgnored(c) \/ CloseCheck(c)
      PROVE  GivenInv'
  <2>1. UNCHANGED <<given, leases, points, worker>> /\ (loop = "conn" => UNCHANGED <<loop, victim>>)
    BY <1>2 DEF LoginFail, OnLeave, ReaderFail, TapWriteFail, OffIgnored, CloseCheck
  <2> QED BY <1>s, <2>1 DEF Leasing
<1>3. ASSUME NEW c \in Clients, PointClient(c) PROVE GivenInv'
  <2>1. loop = "select" BY <1>3, Alone DEF PointClient, Idle
  <2>2. /\ worker'[c] = "select" /\ \A d \in Clients \ {c} : worker'[d] = worker[d]
        /\ points' = points \cup {c} /\ UNCHANGED <<given, leases, loop, victim>>
    BY <1>3, <1>w DEF PointClient
  <2>3. \A d \in points' : given[d] = NoIp \/ d \in points BY <2>1, <2>2, <1>t DEF GivenInv
  <2>4. Zombies' = {} => \A d \in points' : given[d] \notin {NoIp, StaticIp[d]} =>
          leases[UUIDOf[d]] = given[d] \/ Leaving(d)'
    BY <1>t, <1>z, <1>l, <2>2, <2>3 DEF GivenInv
  <2> QED BY <2>1, <2>2, <2>4 DEF GivenInv
<1>4. ASSUME NEW c \in Clients, IpKnown(c) \/ IpExhausted(c) PROVE GivenInv'
  <2>1. PICK ip : /\ given' = [given EXCEPT ![c] = ip]
                  /\ ip \in {NoIp, StaticIp[c], leases[UUIDOf[c]]}
    BY <1>4 DEF IpKnown, IpExhausted
  <2>2. c \in points /\ UNCHANGED <<leases, points, worker, loop, victim>>
    BY <1>4 DEF IpKnown, IpExhausted
  <2>3. given'[c] = ip /\ \A d \in Clients \ {c} : given'[d] = given[d] BY <2>1 DEF TypeOK
  <2>4. Zombies' = {} => \A d \in points : given'[d] \notin {NoIp, StaticIp[d]} =>
          leases[UUIDOf[d]] = given'[d] \/ Leaving(d)'
    BY <1>t, <1>z, <1>l, <2>1, <2>2, <2>3 DEF GivenInv
  <2> QED BY <2>2, <2>3, <2>4 DEF GivenInv
<1>5. ASSUME NEW c \in Clients, IpAlloc(c) PROVE GivenInv'
  <2>1. UNCHANGED <<given, leases, points, loop, victim>> BY <1>5 DEF IpAlloc
  <2>2. c \in points /\ \A d \in Clients \ {c} : worker'[d] = worker[d] BY <1>5, <1>w DEF IpAlloc
  <2> QED BY <1>s, <2>1, <2>2 DEF Leasing
<1>6. ASSUME NEW c \in Clients, LeaseUUID(c) PROVE GivenInv'
  <2>1. leases[UUIDOf[c]] = NoIp /\ c \in points
    BY <1>6 DEF LeaseUUID, LeaseInv, GivenInv
  <2>2. /\ worker'[c] = "leaseAddr" /\ \A d \in Clients \ {c} : worker'[d] = worker[d]
        /\ UNCHANGED <<given, points, loop, victim>>
    BY <1>6, <1>w DEF LeaseUUID
  <2>3. \A u \in UUIDs \ {UUIDOf[c]} : leases'[u] = leases[u] BY <1>6 DEF LeaseUUID, TypeOK
  <2>4. Zombies' = {} => \A d \in points : given[d] \notin {NoIp, StaticIp[d]} =>
          leases'[UUIDOf[d]] = given[d] \/ Leaving(d)'
    BY <1>t, <1>z, <1>l, <2>1, <2>2, <2>3 DEF GivenInv
  <2> QED BY <2>1, <2>2, <2>4 DEF GivenInv
<1>7. ASSUME NEW c \in Clients, LeaseAddr(c) PROVE GivenInv'
  <2>1. c \in points /\ UNCHANGED <<leases, points, loop, victim>>
    BY <1>7 DEF LeaseAddr, GivenInv
  <2>2. given'[c] = leases[UUIDOf[c]] /\ \A d \in Clients \ {c} : given'[d] = given[d]
    BY <1>7 DEF LeaseAddr, TypeOK
  <2>3. worker'[c] = "select" /\ \A d \in Clients \ {c} : worker'[d] = worker[d]
    BY <1>7, <1>w DEF LeaseAddr
  <2>4. Zombies' = {} => \A d \in points : given'[d] \notin {NoIp, StaticIp[d]} =>
          leases[UUIDOf[d]] = given'[d] \/ Leaving(d)'
    BY <1>t, <1>z, <1>l, <2>1, <2>2 DEF GivenInv
  <2> QED BY <2>1, <2>2, <2>3, <2>4 DEF GivenInv
<1>8. CASE CloseLeaseUUID
  <2>1. victim \in Clients /\ loop = "leaseUUID" /\ uuidAddr[UUIDOf[victim]] = victim
    BY <1>8 DEF CloseLeaseUUID, TypeOK, IndexInv
  <2>2. loop' = "leaseAddr" /\ UNCHANGED <<given, points, worker, victim>> BY <1>8 DEF CloseLeaseUUID
  <2>3. \A u \in UUIDs \ {UUIDOf[victim]} : leases'[u] = leases[u]
    BY <1>8, <2>1 DEF CloseLeaseUUID, TypeOK
  <2>4. Zombies' = {} => \A d \in points : UUIDOf[d] = UUIDOf[victim] => Leaving(d)
    BY <1>z, <2>1 DEF IndexInv, Leaving
  <2>5. Zombies' = {} => \A d \in points : given[d] \notin {NoIp, StaticIp[d]} =>
          leases'[UUIDOf[d]] = given[d] \/ Leaving(d)'
    BY <1>t, <1>z, <1>l, <2>2, <2>3, <2>4 DEF GivenInv
  <2> QED BY <2>1, <2>2, <2>5 DEF GivenInv
<1>9. CASE CloseLeaseAddr \/ ClosePoint \/ CloseIndex \/ UNCHANGED vars
  <2>1. UNCHANGED <<given, leases, points, worker, victim>> /\ (loop = "conn" => loop' = loop)
    BY <1>9 DEF CloseLeaseAddr, ClosePoint, CloseIndex, vars
  <2> QED BY <1>s, <2>1 DEF Leasing
<1>10. CASE CloseAddr
  <2>1. victim \in Clients /\ loop = "addr" /\ \A d \in Clients : ~Leasing(d)
    BY <1>10, Alone DEF CloseAddr, TypeOK, Idle, Leasing
  <2>2. loop' = "conn" /\ points' = points \ {victim} /\ UNCHANGED <<given, leases, worker, victim>>
    BY <1>10 DEF CloseAddr
  <2>3. Zombies' = {} => \A d \in points' : given[d] \notin {NoIp, StaticIp[d]} =>
          leases[UUIDOf[d]] = given[d] \/ Leaving(d)'
    BY <1>t, <1>z, <1>l, <2>2 DEF GivenInv
  <2> QED BY <2>1, <2>2, <2>3 DEF GivenInv, Leasing
<1>11. CASE CloseConn
  <2>1. victim \in Clients BY <1>11 DEF CloseConn, TypeOK
  <2>2. given'[victim] = NoIp /\ \A d \in Clients \ {victim} : given'[d] = given[d]
    BY <1>11, <2>1 DEF CloseConn, TypeOK
  <2>3. UNCHANGED <<leases, points, worker>> BY <1>11 DEF CloseConn
  <2>4. Zombies' = {} => \A d \in points : given'[d] \notin {NoIp, StaticIp[d]} =>
          leases[UUIDOf[d]] = given'[d] \/ Leaving(d)'
    BY <1>t, <1>z, <1>l, <2>2, <2>3 DEF GivenInv
  <2> QED BY <2>2, <2>3, <2>4 DEF GivenInv
<1> QED BY <1>1, <1>2, <1>3, <1>4, <1>5, <1>6, <1>7, <1>8, <1>9, <1>10, <1>11
        DEF Next, Login, IpRequest, Close

----------------------------------------------------------------------------
(* What the caches promise. *)

\* The inductive invariant of the serial switch.
SerialInv ==
    /\ TypeOK /\ HostInv /\ OneHandler /\ LeaseInv
    /\ MemberInv /\ IndexInv /\ DeviceInv /\ GuestInv /\ GivenInv

\* Nothing is entered, leased or running in the beginning.
LEMMA SerialInit == Init => SerialInv
<1> SUFFICES ASSUME Init PROVE SerialInv
  OBVIOUS
<1> USE AccessAssumption DEF Init
<1>1. OneHandler BY DEF OneHandler, Idle
<1>2. LeaseInv BY DEF LeaseInv, Ips, NoIp
<1>3. MemberInv BY DEF MemberInv
<1>4. IndexInv BY DEF IndexInv
<1>5. DeviceInv BY DEF DeviceInv, Entering
<1>6. GuestInv BY DEF GuestInv, LiveSessions
<1>7. GivenInv BY DEF GivenInv
<1> QED BY <1>1, <1>2, <1>3, <1>4, <1>5, <1>6, <1>7, TypeInit, HostInit DEF SerialInv

LEMMA SerialStep == Serial /\ SerialInv /\ [Next]_vars => SerialInv'
<1> SUFFICES ASSUME Serial, SerialInv, [Next]_vars PROVE SerialInv'
  OBVIOUS
<1>i. /\ TypeOK /\ HostInv /\ OneHandler /\ LeaseInv
      /\ MemberInv /\ IndexInv /\ DeviceInv /\ GuestInv /\ GivenInv
  BY DEF SerialInv
<1>1. TypeOK' /\ HostInv' BY <1>i, TypeStep, HostStep
<1>2. OneHandler' BY <1>i, OneHandlerStep
<1>3. LeaseInv' BY <1>i, LeaseStep
<1>4. MemberInv' BY <1>i, MemberStep
<1>5. IndexInv' BY <1>i, <1>4, IndexStep
<1>6. DeviceInv' BY <1>i, DeviceStep
<1>7. GuestInv' BY <1>i, GuestStep
<1>8. GivenInv' BY <1>i, <1>4, GivenStep
<1> QED BY <1>1, <1>2, <1>3, <1>4, <1>5, <1>6, <1>7, <1>8 DEF SerialInv

\* Every step of every handler keeps the caches in order, if handlers are serial.
LEMMA SerialAlways == Serial => (Spec => []SerialInv)
<1> SUFFICES ASSUME Serial PROVE Spec => []SerialInv
  OBVIOUS
<1>1. SerialInv /\ [Next]_vars => SerialInv' BY SerialStep
<1> QED BY <1>1, SerialInit, PTL DEF Spec

\* Between handlers the two maps of the lease cache are inverse to each other.
LEMMA SerialAccounted == SerialInv => LeasesAccounted
BY DEF SerialInv, LeaseInv, LeasesAccounted, BetweenHandlers, Idle

\* No two uuids hold the same address, "avoid address conflict by different
\* points" (network.go:139), when the handlers are serial (LeasesExclusive).
THEOREM NoLeaseConflict == Serial => (Spec => []LeasesExclusive)
<1>1. SerialInv => LeasesExclusive
  <2> SUFFICES ASSUME SerialInv, BetweenHandlers, NEW u \in UUIDs, NEW v \in UUIDs,
                      leases[u] = leases[v], leases[u] # NoIp
               PROVE  u = v
    BY DEF LeasesExclusive
  <2>1. leases[u] \in Ips BY AccessAssumption DEF SerialInv, TypeOK
  <2> QED BY <2>1, SerialAccounted DEF LeasesAccounted
<1> QED BY <1>1, SerialAlways, PTL

\* The lease cache keeps its promises when the handlers are serial: its maps
\* agree, a live point keeps the address it was given although older clients of
\* its uuid are closed, and configured hosts keep theirs (LeasesKept).
THEOREM LeasePromises == Serial => (Spec => []LeasesKept)
<1>1. SerialInv => LeaseKept
  <2> SUFFICES ASSUME SerialInv, Settled PROVE LeaseKept
    BY DEF LeaseKept
  <2>1. Zombies = {} /\ victim = NoClient /\ Pending = {} /\ points \subseteq Clients
    BY DEF SerialInv, Settled, BetweenHandlers, Pending, TypeOK
  <2>2. \A c \in points : ~Leaving(c) BY <2>1, AccessAssumption DEF Leaving
  <2> QED BY <2>1, <2>2 DEF SerialInv, GivenInv, LeaseKept
<1>2. SerialInv => LeasesKept
  BY <1>1, SerialAccounted DEF LeasesKept, SerialInv, HostInv
<1> QED BY <1>2, SerialAlways, PTL

\* The login handler keeps its promises when the handlers are serial: once the
\* OffClient requests are served each guest and each uuid has one session, and
\* the point cache and the devices agree about it (OneSession).
THEOREM SessionPromises == Serial => (Spec => []OneSession)
<1>1. SerialInv => OneSession
  <2> SUFFICES ASSUME SerialInv, Settled PROVE OneSession
    BY DEF OneSession, OneGuestSession, OnePointPerUUID, PointsIndexed
  <2> USE DEF SerialInv
  <2>1. /\ loop = "select" /\ \A c \in Clients : Idle(c) /\ Zombies = {}
        /\ victim = NoClient /\ Pending = {}
    BY DEF Settled, BetweenHandlers, Pending, TypeOK
  <2>2. points \subseteq Clients /\ device \subseteq Clients /\ LiveSessions \subseteq Clients
    BY DEF TypeOK, LiveSessions
  <2>3. \A c \in Clients : ~Leaving(c) BY <2>1, AccessAssumption DEF Leaving
  <2>4. OneGuestSession BY <2>2, <2>3 DEF OneGuestSession, GuestInv
  <2>5. \A c \in points : uuidAddr[UUIDOf[c]] = c BY <2>1, <2>2, <2>3 DEF IndexInv
  <2>6. OnePointPerUUID BY <2>5 DEF OnePointPerUUID
  <2>7. \A u \in UUIDs : uuidAddr[u] \in points \cup {NoClient}
    BY <2>1 DEF IndexInv, Idle, TypeOK
  <2>8. device = points BY <2>1, <2>2 DEF DeviceInv, Entering, Idle
  <2>9. PointsIndexed BY <2>5, <2>7, <2>8 DEF PointsIndexed, MemberInv
  <2> QED BY <2>4, <2>6, <2>9 DEF OneSession
<1> QED BY <1>1, SerialAlways, PTL
=============================================================================
