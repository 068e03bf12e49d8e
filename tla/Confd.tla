------------------------------- MODULE Confd -------------------------------
(***************************************************************************)
(* olsw/confd.go: the switch follows the configuration database.  The      *)
(* client of the database (database/client.go) connects, registers the     *)
(* handlers and monitors all tables; the rows there are come as Add events *)
(* in any order, later changes as they are made, and one goroutine calls   *)
(* the handlers.  A VirtualLink becomes a member of its ESP network, a     *)
(* NameCache row makes the members of that name be looked up again, and    *)
(* each change ends in Reload of the network (module Tunnels has its       *)
(* steps; here it is one).                                                 *)
(***************************************************************************)
EXTENDS Integers, Sequences, FiniteSets

CONSTANTS
    Links,      \* rows of VirtualLink
    Known,      \* the links of an ESP network of this switch
    Addressed,  \* the links with a local address, of their own or the network's
    SpiOf,      \* link -> the number in its connection or device, 0 if there is none
    Names,      \* names of remote ends
    Ips, NoIp,  \* what a name resolves to
    MaxWrites   \* bound: changes of the database and of the DNS

VARIABLES
    open,       \* how far Open has come
    rows,       \* VirtualLink: link -> its remote name, "" without one, or "none"
    cached,     \* NameCache: name -> address, NoIp without one
    queue,      \* events the handlers have not seen
    dns,        \* what LookupIP answers, NoIp for nothing
    members,    \* ESPSpecifies.Members
    kernel,     \* the states of the network in the kernel
    random,     \* the next number GenInt32 returns
    writes,
    steady      \* names whose last event agreed with a DNS that has not changed since

confdVars == <<open, rows, cached, queue, dns, members, kernel, random, writes, steady>>

Member(l, spi, remote, ip) == [link |-> l, spi |-> spi, remote |-> remote, ip |-> ip]
LinkEvent(l, remote) == [table |-> "link", row |-> l, value |-> remote]
NameEvent(n, ip) == [table |-> "name", row |-> n, value |-> ip]
GoneEvent(l) == [table |-> "gone", row |-> l, value |-> ""]

\* A row names its remote end by a name; that of an spi link may come later.
Remotes == Names \cup {""}

Range(f) == {f[x] : x \in DOMAIN f}

TypeOK ==
    /\ open \in {"no", "connected", "handled", "monitors", "failed", "lost"}
    /\ rows \in [Links -> Remotes \cup {"none"}]
    /\ cached \in [Names -> Ips \cup {NoIp}] /\ dns \in [Names -> Ips \cup {NoIp}]
    /\ \A e \in Range(queue) : e.table \in {"link", "name", "gone"}
    /\ \A m \in Range(members) : m.remote \in Names /\ m.ip \in Ips \cup {NoIp}
    /\ \A k \in kernel : k.ip \in Ips
    /\ steady \subseteq Names /\ writes \in 0 .. MaxWrites

Init ==
    /\ open = "no" /\ queue = <<>> /\ members = <<>> /\ kernel = {}
    /\ rows = [l \in Links |-> "none"]
    /\ cached = [n \in Names |-> NoIp]
    /\ dns \in [Names -> Ips \cup {NoIp}]
    /\ random = 100 /\ writes = 0 /\ steady = {}

----------------------------------------------------------------------------
(* The database and the DNS. *)

Change == writes < MaxWrites /\ writes' = writes + 1
\* A change is an event once MonitorAll has been answered.
Event(e) == queue' = IF open = "monitors" THEN Append(queue, e) ELSE queue

WriteLink(l, remote) ==
    /\ Change /\ rows[l] # remote /\ rows' = [rows EXCEPT ![l] = remote]
    /\ Event(LinkEvent(l, remote))
    /\ UNCHANGED <<open, cached, dns, members, kernel, random, steady>>
DeleteLink(l) ==
    /\ Change /\ rows[l] # "none" /\ rows' = [rows EXCEPT ![l] = "none"]
    /\ Event(GoneEvent(l))
    /\ UNCHANGED <<open, cached, dns, members, kernel, random, steady>>
WriteName(n, ip) ==
    /\ Change /\ cached[n] # ip /\ cached' = [cached EXCEPT ![n] = ip]
    /\ Event(NameEvent(n, ip))
    /\ UNCHANGED <<open, rows, dns, members, kernel, random, steady>>
Resolves(n, ip) ==
    /\ Change /\ dns[n] # ip /\ dns' = [dns EXCEPT ![n] = ip] /\ steady' = steady \ {n}
    /\ UNCHANGED <<open, rows, cached, queue, members, kernel, random>>

----------------------------------------------------------------------------
(* Open: Connect, AddEventHandler, MonitorAll; it is called once. *)

Rows == {LinkEvent(l, rows[l]) : l \in {k \in Links : rows[k] # "none"}}
        \cup {NameEvent(n, cached[n]) : n \in {k \in Names : cached[k] # NoIp}}
Orders(S) == {s \in [1 .. Cardinality(S) -> S] : Range(s) = S}

Goes(from, to) == open = from /\ open' = to
Connect ==
    /\ Goes("no", "connected") \/ Goes("no", "failed")
    /\ UNCHANGED <<rows, cached, queue, dns, members, kernel, random, writes, steady>>
\* MonitorAll before there is a handler: the rows there are go nowhere.
MonitorsFirst ==
    /\ Goes("connected", "monitors")
    /\ UNCHANGED <<rows, cached, queue, dns, members, kernel, random, writes, steady>>
AddEventHandler ==
    /\ Goes("connected", "handled")
    /\ UNCHANGED <<rows, cached, queue, dns, members, kernel, random, writes, steady>>
MonitorAll ==
    /\ \/ Goes("handled", "monitors") /\ queue' \in Orders(Rows)
       \/ Goes("handled", "failed") /\ UNCHANGED queue
    /\ UNCHANGED <<rows, cached, dns, members, kernel, random, writes, steady>>
\* The connection breaks; the client was made without reconnecting.
Disconnect ==
    /\ Goes("monitors", "lost")
    /\ UNCHANGED <<rows, cached, queue, dns, members, kernel, random, writes, steady>>

----------------------------------------------------------------------------
(* The handlers: Add and Update of a VirtualLink and of a NameCache row.   *)

\* EspState.Correct looks the name up each time.
KeepsIp(m) == IF m.ip # NoIp THEN m.ip ELSE dns[m.remote]
LookupIP(m) == IF dns[m.remote] # NoIp THEN dns[m.remote] ELSE m.ip

\* ESPSpecifies.Correct skips a member without address and numbers one
\* without spi.
Correct(ms) ==
    [i \in DOMAIN ms |->
        IF ms[i].link \notin Addressed THEN ms[i]
        ELSE [ms[i] EXCEPT !.ip = LookupIP(ms[i]), !.spi = IF @ = 0 THEN random ELSE @]]

\* Reload: updateXfrm leaves out a member whose end did not resolve.
Reload(ms) == kernel' = {[spi |-> m.spi, ip |-> m.ip] : m \in {k \in Range(ms) : k.ip # NoIp}}
Changed(ms) == members' = ms /\ Reload(ms) /\ random' = random + 1

\* AddMember replaces the members with the spi of the link.
AlwaysAppends(ms, m) == Append(ms, m)
Put(ms, m) ==
    IF \E i \in DOMAIN ms : ms[i].spi = m.spi
    THEN [i \in DOMAIN ms |-> IF ms[i].spi = m.spi THEN m ELSE ms[i]]
    ELSE Append(ms, m)
AddMember(l, remote) ==
    IF remote # "" /\ l \in Known
    THEN Changed(Correct(Put(members, Member(l, SpiOf[l], remote, NoIp))))
    ELSE UNCHANGED <<members, kernel, random>>

\* UpdateName looks all members up again if one of that name has another address.
NoReload(n, ip) ==
    /\ members' = IF ip # NoIp THEN Correct(members) ELSE members
    /\ UNCHANGED <<kernel, random>>
UpdateName(n, ip) ==
    IF ip # NoIp /\ \E m \in Range(members) : m.remote = n /\ m.ip # ip
    THEN Changed(Correct(members))
    ELSE UNCHANGED <<members, kernel, random>>

Handle ==
    /\ queue # <<>> /\ queue' = Tail(queue)
    /\ LET e == Head(queue) IN
       /\ CASE e.table = "link" -> AddMember(e.row, e.value)
            [] e.table = "name" -> UpdateName(e.row, e.value)
            [] OTHER -> UNCHANGED <<members, kernel, random>>   \* Delete only logs
       /\ steady' = IF e.table = "name" /\ dns[e.row] = e.value THEN steady \cup {e.row}
                    ELSE IF e.table = "name" THEN steady \ {e.row} ELSE steady
    /\ UNCHANGED <<open, rows, cached, dns, writes>>

Next ==
    \/ \E l \in Links : DeleteLink(l) \/ \E r \in Remotes : WriteLink(l, r)
    \/ \E n \in Names, ip \in Ips : WriteName(n, ip) \/ Resolves(n, ip)
    \/ \E n \in Names : Resolves(n, NoIp)
    \/ Connect \/ AddEventHandler \/ MonitorAll \/ Disconnect \/ Handle

Spec == Init /\ [][Next]_confdVars

----------------------------------------------------------------------------
Settled == open = "monitors" /\ queue = <<>>
Alone(l) == SpiOf[l] # 0 /\ \A k \in Known \ {l} : SpiOf[k] # SpiOf[l]

\* confd.go:108-169, client.go:82-114: when the handlers have caught up, each
\* link of an ESP network that names its remote end, and shares its spi with
\* no other, is exactly one member, with that end; in whatever order the rows
\* came, and if they were there before the switch or not.
LinksServed ==
    Settled => \A l \in Known :
        Alone(l) /\ rows[l] \in Names =>
            /\ \E m \in Range(members) : m.link = l /\ m.remote = rows[l]
            /\ Cardinality({i \in DOMAIN members : members[i].spi = SpiOf[l]}) = 1

\* confd.go:171-200: a name whose row the handlers have seen when the DNS said
\* the same is followed by every member with an address, also by the ones that
\* were added before or after.
NamesFollowed ==
    Settled => \A n \in steady : \A m \in Range(members) :
        m.remote = n /\ m.link \in Addressed => m.ip = cached[n]

\* confd.go:165,197: whatever the handlers change, the kernel has the states of
\* the members that resolve and no others.
StatesFollow ==
    kernel = {[spi |-> m.spi, ip |-> m.ip] : m \in {k \in Range(members) : k.ip # NoIp}}

\* confd.go:108-200 as a whole: rows, members, names and kernel states agree
\* when the handlers have caught up with the database.
RowsFollowed == LinksServed /\ NamesFollowed /\ StatesFollow
=============================================================================
