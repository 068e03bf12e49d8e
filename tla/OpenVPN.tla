------------------------------- MODULE OpenVPN -------------------------------
(***************************************************************************)
(* One OpenVPN server of a network (olsw/openvpn.go): the files it is      *)
(* started from, the process, its pid file, and the list of its clients,   *)
(* which the HTTP API reads from the status file of the process            *)
(* (olsw/cache/openvpn.go) while the process rewrites it.                  *)
(*                                                                         *)
(* The switch may crash: the process then lives on, and with it the port.  *)
(* The openvpn process is external: it writes its pid, then binds the port *)
(* or ends when it is taken, and rewrites its status file from time to     *)
(* time.                                                                   *)
(***************************************************************************)
EXTENDS Naturals, Sequences, FiniteSets

CONSTANTS
    Clients,   \* who may be connected
    Fixed,     \* cfg.Clients with a name and an address
    MaxProcs,  \* bound: processes started
    MaxWrites  \* bound: rewrites of the status file

VARIABLES
    switch,    \* "off", "init", "up", "crashed"
    ccd,       \* clients with a file in the directory ccd
    proc,      \* pid -> "none", "forked", "started", "run", "killed", "dead"
    pidFile,   \* 0 or the pid in it; Clean leaves it
    port,      \* 0 or the pid that has bound it
    astray,    \* history: a process was started beside one that was alive, or
               \* the switch stopped before a process had written its pid
    online,    \* the clients connected to the process
    linked,    \* the file the process writes is still in its directory
    status,    \* the lines of the status file
    pending,   \* the lines the process has still to write
    writes,
    reader     \* a call of scanStatus, see Idle

vpnVars == <<switch, ccd, proc, pidFile, port, astray, online, linked, status,
             pending, writes, reader>>
procVars == <<proc, pidFile, port, astray>>
fileVars == <<online, linked, status, pending, writes>>

Pids == 1 .. MaxProcs
Live == {"started", "run", "killed"}

(* The lines of a status file: its kind and the number of its columns. *)
Line(kind, cols, name) == [kind |-> kind, cols |-> cols, name |-> name]

\* Some order of S.
Listing(S) == CHOOSE s \in [1 .. Cardinality(S) -> S] :
                  \A i, j \in DOMAIN s : s[i] = s[j] => i = j

StatusOf(S) ==
    LET list == Listing(S) IN
    << Line("CLIENT LIST", 1, ""), Line("updated", 2, ""), Line("header", 5, "Common Name") >>
    \o [ i \in DOMAIN list |-> Line("client", 5, list[i]) ]
    \o << Line("ROUTING TABLE", 1, ""), Line("header", 4, "Virtual Address") >>
    \o [ i \in DOMAIN list |-> Line("route", 4, list[i]) ]
    \o << Line("GLOBAL STATS", 1, ""), Line("max", 2, "") >>

Idle == [on |-> FALSE, at |-> 0, part |-> "header", offset |-> 0, found |-> {}, placed |-> {}, ended |-> FALSE]

Init ==
    /\ switch = "off" /\ ccd = {} /\ proc = [p \in Pids |-> "none"]
    /\ pidFile = 0 /\ port = 0 /\ astray = FALSE
    /\ online = {} /\ linked = FALSE /\ status = <<>> /\ pending = <<>>
    /\ writes = 0 /\ reader = Idle

-----------------------------------------------------------------------------
(* OpenVPN.Initialize, Start, Stop, and a crash of the switch. *)

(* The status file goes, also that of a process that is alive. *)
Clean == linked' = FALSE /\ status' = <<>>

(* Clean, then WriteConf with the files of the clients. *)
Initialize ==
    /\ switch \in {"off", "crashed"} /\ switch' = "init"
    /\ Clean /\ ccd' = Fixed
    /\ UNCHANGED <<procVars, online, pending, writes, reader>>

(* Start: a goroutine runs the process; without the log file it is not run. *)
Start ==
    /\ switch = "init" /\ switch' = "up"
    /\ \/ UNCHANGED proc
       \/ \E p \in Pids :
            /\ proc[p] = "none" /\ \A q \in 1 .. p - 1 : proc[q] # "none"
            /\ proc' = [proc EXCEPT ![p] = "forked"]
    /\ UNCHANGED <<ccd, pidFile, port, astray, fileVars, reader>>

KillsNone == proc

(* kill of the pid in the file, when there is one. *)
Killed ==
    IF pidFile \in Pids /\ proc[pidFile] \in {"started", "run"}
    THEN [proc EXCEPT ![pidFile] = "killed"] ELSE proc

(* Stop kills, then Clean removes the files of the clients and the status; *)
(* the pid file and the configuration stay.                                *)
Stop ==
    /\ switch = "up" /\ switch' = "off"
    /\ proc' = Killed /\ astray' = (astray \/ \E p \in Pids : proc[p] = "forked")
    /\ Clean /\ ccd' = {}
    /\ UNCHANGED <<pidFile, port, online, pending, writes, reader>>

Crash ==
    /\ switch \in {"init", "up"} /\ switch' = "crashed" /\ reader' = Idle
    /\ UNCHANGED <<ccd, procVars, fileVars>>

-----------------------------------------------------------------------------
(* The process (external), started with --writepid. *)

NoWritePid(p) == pidFile
WritePid(p) == p

Starts(p) ==
    /\ proc[p] = "forked" /\ proc' = [proc EXCEPT ![p] = "started"]
    /\ pidFile' = WritePid(p)
    /\ astray' = (astray \/ \E q \in Pids \ {p} : proc[q] \in Live)
    /\ UNCHANGED <<switch, ccd, port, fileVars, reader>>

Binds(p) ==
    /\ proc[p] = "started"
    /\ \/ port = 0 /\ port' = p /\ proc' = [proc EXCEPT ![p] = "run"]
          /\ linked' = TRUE /\ status' = <<>>
       \/ port # 0 /\ proc' = [proc EXCEPT ![p] = "dead"] /\ UNCHANGED <<port, linked, status>>
    /\ UNCHANGED <<switch, ccd, pidFile, astray, online, pending, writes, reader>>

(* It ends when it is killed, or by itself: nobody starts it again. *)
Exits(p) ==
    /\ proc[p] \in {"run", "killed"} /\ proc' = [proc EXCEPT ![p] = "dead"]
    /\ IF port = p THEN port' = 0 /\ online' = {} /\ pending' = <<>>
       ELSE UNCHANGED <<port, online, pending>>
    /\ UNCHANGED <<switch, ccd, pidFile, astray, linked, status, writes, reader>>

Connects(c) ==
    /\ port # 0 /\ pending = <<>>
    /\ online' = IF c \in online THEN online \ {c} ELSE online \cup {c}
    /\ UNCHANGED <<switch, ccd, procVars, linked, status, pending, writes, reader>>

(* status ... 5: the file is truncated, then written line by line. *)
Truncates ==
    /\ port # 0 /\ pending = <<>> /\ writes < MaxWrites
    /\ status' = <<>> /\ pending' = StatusOf(online) /\ writes' = writes + 1
    /\ UNCHANGED <<switch, ccd, procVars, online, linked, reader>>

Writes ==
    /\ pending # <<>>
    /\ status' = IF linked THEN Append(status, Head(pending)) ELSE status
    /\ pending' = Tail(pending)
    /\ UNCHANGED <<switch, ccd, procVars, online, linked, writes, reader>>

-----------------------------------------------------------------------------
(* vpnClient.List: readStatus opens the file and scanStatus reads it. *)

ListClients ==
    /\ switch = "up" /\ ~reader.on /\ reader' = [Idle EXCEPT !.on = TRUE]
    /\ UNCHANGED <<switch, ccd, procVars, fileVars>>

OneLess(kind) ==
    CASE kind = "CLIENT LIST" -> 2 [] kind = "ROUTING TABLE" -> 1 [] kind = "GLOBAL STATS" -> 0

(* The lines to skip from a title on, the title included. *)
Skip(kind) ==
    CASE kind = "CLIENT LIST" -> 3 [] kind = "ROUTING TABLE" -> 2 [] kind = "GLOBAL STATS" -> 1

Part(kind) ==
    CASE kind = "CLIENT LIST" -> "common" [] kind = "ROUTING TABLE" -> "routing"
      [] kind = "GLOBAL STATS" -> "global"

IsTitle(kind) == kind \in {"CLIENT LIST", "ROUTING TABLE", "GLOBAL STATS"}

Taken(r, line) ==
    IF r.offset > 0 THEN [r EXCEPT !.offset = @ - 1]
    ELSE IF r.part = "common" /\ line.cols = 5 THEN [r EXCEPT !.found = @ \cup {line.name}]
    ELSE IF r.part = "routing" /\ line.cols = 4 /\ line.name \in r.found
         THEN [r EXCEPT !.placed = @ \cup {line.name}]
    ELSE r

Scan ==
    /\ reader.on /\ ~reader.ended
    /\ IF reader.at < Len(status)
       THEN LET line == status[reader.at + 1]
                next == [reader EXCEPT !.at = @ + 1]
            IN reader' = Taken(IF IsTitle(line.kind)
                               THEN [next EXCEPT !.part = Part(line.kind), !.offset = Skip(line.kind)]
                               ELSE next, line)
       ELSE reader' = [reader EXCEPT !.ended = TRUE]
    /\ UNCHANGED <<switch, ccd, procVars, fileVars>>

Listed ==
    /\ reader.on /\ reader.ended /\ reader' = Idle
    /\ UNCHANGED <<switch, ccd, procVars, fileVars>>

Next ==
    \/ Initialize \/ Start \/ Stop \/ Crash
    \/ \E p \in Pids : Starts(p) \/ Binds(p) \/ Exits(p)
    \/ \E c \in Clients : Connects(c)
    \/ Truncates \/ Writes \/ ListClients \/ Scan \/ Listed

Spec == Init /\ [][Next]_vpnVars

-----------------------------------------------------------------------------
(* Every variable stays in its domain, over crashes and restarts. *)
TypeOK ==
    /\ switch \in {"off", "init", "up", "crashed"} /\ ccd \subseteq Fixed
    /\ proc \in [Pids -> {"none", "forked", "started", "run", "killed", "dead"}]
    /\ pidFile \in 0 .. MaxProcs /\ port \in 0 .. MaxProcs
    /\ astray \in BOOLEAN /\ linked \in BOOLEAN
    /\ online \subseteq Clients /\ writes \in 0 .. MaxWrites
    /\ reader.part \in {"header", "common", "routing", "global"}
    /\ reader.offset \in 0 .. 3

(* The process that has the port is the one the pid file names, unless a   *)
(* process was started beside one that was alive: that one, after a crash  *)
(* of the switch, overwrites the pid and then finds the port taken.        *)
PidNamesServer == port # 0 /\ ~astray => pidFile = port

(* A switch that has stopped in order has left no server that is not about *)
(* to end (OpenVPN.Stop), also when it had crashed and the server that     *)
(* lived on had ended before the next was started.                         *)
StopEndsServer ==
    switch = "off" /\ ~astray => \A p \in Pids : proc[p] \notin {"forked", "started", "run"}

(* cache/openvpn.go:41: whatever part of an old or a new status file a     *)
(* scan reads while openvpn rewrites it, it lists only clients, never a    *)
(* title or a header of the file, and gives an address only to a client.   *)
ListsClients ==
    reader.found \subseteq Clients /\ reader.placed \subseteq reader.found

(* openvpn.go:383 and cache/openvpn.go:41 between them: the switch finds   *)
(* its server by the pid file, ends it, and lists its clients only.        *)
ServerTracked == PidNamesServer /\ StopEndsServer /\ ListsClients
=============================================================================
