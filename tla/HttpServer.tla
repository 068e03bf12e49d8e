---------------------------- MODULE HttpServer ----------------------------
(***************************************************************************)
(* The management server of the switch, olsw/http.go, over the life of the *)
(* process: main calls Switch.Start, which hands Http.Start to a goroutine *)
(* of its own, and Switch.Stop when a signal comes.  Http.Start loads the  *)
(* admin token from its file, makes one up if there is none, writes it     *)
(* back and serves; a Promise tries ListenAndServe again when the port is  *)
(* taken.  The process may die at any step and start again.                *)
(*                                                                         *)
(* A token is a number: fresh is the next one GenRandom makes up, 0 the    *)
(* empty string.  The guest token is a digest of the admin token.          *)
(***************************************************************************)
EXTENDS Naturals, Sequences, FiniteSets

CONSTANTS
    Requests,    \* requests of users of the API
    Points,      \* points that have a session with the switch
    MaxStarts,   \* bound: times the process starts
    MaxFaults    \* bound: failures of the token file and of the port

VARIABLES
    main,      \* where the goroutine of main is
    told,      \* points that leftClient wrote LeftReq to
    missed,    \* points whose write failed
    boot,      \* where the goroutine of Http.Start is
    server,    \* http.Server: "nil", "new", "serving", "shut"
    admin,     \* h.adminToken
    file,      \* content of the token file
    saved,     \* the token file could be written
    port,      \* the listen address: "free", "taken", "own"
    req,       \* where the handler of each request is
    starts, faults, fresh,
    known,     \* the token last written to the file, 0 if none
    unread     \* LoadToken could not read the file

stopVars == <<main, told, missed>>
tokenVars == <<admin, file, saved, fresh, known, unread>>
webVars == <<stopVars, boot, server, tokenVars, port, req, starts, faults>>

\* The lists that getIndex goes through, each until the nil that ends it.
Lists == <<"points", "neighbors", "links", "online", "clients", "states">>
Paths == {"api", "get", "page"}
Tokens == 0 .. MaxStarts + 1
\* The name a request gives: a token as the admin's or as the guest's, or none.
Names == {<<"none", 0>>} \cup ({"admin", "guest"} \X Tokens)

Idle == [at |-> "idle"]
Active(r) == req[r].at \in {"handler", "listing"}
Places == {"up", "left", "firewall", "shutdown", "waits", "server", "workers",
           "stopped", "dead"}

TypeOK ==
    /\ main \in Places
    /\ told \subseteq Points /\ missed \subseteq Points
    /\ boot \in {"go", "load", "open", "write", "router", "listen", "sleep", "serve", "none"}
    /\ server \in {"nil", "new", "serving", "shut"}
    /\ admin \in Tokens /\ file \in Tokens /\ fresh \in 1 .. MaxStarts + 2
    /\ saved \in BOOLEAN /\ known \in Tokens /\ unread \in BOOLEAN
    /\ port \in {"free", "taken", "own"}
    /\ \A r \in Requests : req[r].at \in {"idle", "handler", "listing", "denied", "done"}
    /\ starts \in 1 .. MaxStarts /\ faults \in 0 .. MaxFaults

Init ==
    /\ main = "up" /\ boot = "go" /\ server = "nil"
    /\ told = {} /\ missed = {}
    /\ admin = 0 /\ file \in {0, 1} /\ saved = FALSE /\ fresh = 1 + file
    /\ port \in {"free", "taken"}
    /\ req = [r \in Requests |-> Idle]
    /\ starts = 1 /\ faults = 0 /\ known = file /\ unread = FALSE

----------------------------------------------------------------------------
(* The goroutine of Http.Start. *)

\* Initialize makes the http.Server.
NewServer ==
    /\ boot = "go" /\ boot' = "load" /\ server' = IF server = "nil" THEN "new" ELSE server
    /\ UNCHANGED <<stopVars, tokenVars, port, req, starts, faults>>

\* LoadToken: the file's token, or a random one when it is empty, missing or
\* cannot be read.
SetToken(t) == admin' = t
\* LoadToken makes up a token every time.
AlwaysFresh ==
    /\ boot = "load" /\ boot' = "open" /\ SetToken(fresh) /\ fresh' = fresh + 1
    /\ UNCHANGED <<stopVars, server, file, saved, port, req, starts, faults, known, unread>>
LoadToken ==
    /\ boot = "load" /\ boot' = "open"
    /\ \/ file # 0 /\ SetToken(file) /\ unread' = FALSE /\ UNCHANGED <<fresh, faults>>
       \/ file = 0 /\ SetToken(fresh) /\ fresh' = fresh + 1 /\ unread' = FALSE /\ UNCHANGED faults
       \/ /\ faults < MaxFaults /\ faults' = faults + 1 /\ unread' = TRUE
          /\ SetToken(fresh) /\ fresh' = fresh + 1
    /\ UNCHANGED <<stopVars, server, file, saved, port, req, starts, known>>

\* SaveToken opens the file, which truncates it, and writes the token; an error
\* ends it early and Initialize goes on.
OpenToken ==
    /\ boot = "open"
    /\ \/ boot' = "write" /\ file' = 0 /\ UNCHANGED faults
       \/ faults < MaxFaults /\ faults' = faults + 1 /\ boot' = "router" /\ UNCHANGED file
    /\ UNCHANGED <<stopVars, server, admin, saved, port, req, starts, fresh, known, unread>>
\* SaveToken forgets to write.
ForgetsToken ==
    /\ boot = "write" /\ boot' = "router" /\ saved' = TRUE
    /\ UNCHANGED <<stopVars, server, admin, file, port, req, starts, faults, fresh, known, unread>>
WriteToken ==
    /\ boot = "write" /\ boot' = "router"
    /\ \/ file' = admin /\ saved' = TRUE /\ known' = admin /\ UNCHANGED faults
       \/ faults < MaxFaults /\ faults' = faults + 1 /\ UNCHANGED <<file, saved, known>>
    /\ UNCHANGED <<stopVars, server, admin, port, req, starts, fresh, unread>>
LoadRouter ==
    /\ boot = "router" /\ boot' = "listen"
    /\ UNCHANGED <<stopVars, tokenVars, server, port, req, starts, faults>>

\* A Promise that tries once.
TriesOnce ==
    /\ boot = "listen" /\ boot' = "none"
    /\ UNCHANGED <<stopVars, tokenVars, server, port, req, starts, faults>>
\* ListenAndServe in the Promise: it serves, or fails and is tried again after
\* the delay; after Shutdown it fails every time.
Listen ==
    /\ boot = "listen"
    /\ IF server = "new" /\ port = "free"
       THEN boot' = "serve" /\ server' = "serving" /\ port' = "own"
       ELSE boot' = "sleep" /\ UNCHANGED <<server, port>>
    /\ UNCHANGED <<stopVars, tokenVars, req, starts, faults>>
Sleep ==
    /\ boot \in {"sleep", "serve"} /\ (boot = "serve" => server = "shut")
    /\ boot' = IF boot = "serve" THEN "sleep" ELSE "listen"
    /\ UNCHANGED <<stopVars, tokenVars, server, port, req, starts, faults>>

\* Whoever had the port gives it back.
PortFreed ==
    /\ port = "taken" /\ port' = "free"
    /\ UNCHANGED <<stopVars, tokenVars, boot, server, req, starts, faults>>

----------------------------------------------------------------------------
(* Requests: Middleware asks IsAuth, then the handler runs. *)

IsAuth(path, name) ==
    CASE path = "api" -> name = <<"admin", admin>>
      [] path = "get" -> name = <<"guest", admin>>
      [] OTHER -> TRUE

Request(r, path, name) ==
    /\ server = "serving" /\ req[r].at \in {"idle", "done", "denied"}
    /\ req' = [req EXCEPT ![r] =
                IF IsAuth(path, name)
                THEN [at |-> IF path = "api" THEN "listing" ELSE "handler",
                      path |-> path, name |-> name, list |-> 1]
                ELSE [at |-> "denied"]]
    /\ UNCHANGED <<stopVars, tokenVars, boot, server, port, starts, faults>>

\* getIndex drains one list after the other; other handlers just answer.
getIndex(r) ==
    /\ req[r].at = "listing"
    /\ LET i == req[r].list IN
       req' = [req EXCEPT ![r] = IF i < Len(Lists) THEN [@ EXCEPT !.list = i + 1]
                                 ELSE [at |-> "done"]]
    /\ UNCHANGED <<stopVars, tokenVars, boot, server, port, starts, faults>>
Answer(r) ==
    /\ req[r].at = "handler" /\ req' = [req EXCEPT ![r] = [at |-> "done"]]
    /\ UNCHANGED <<stopVars, tokenVars, boot, server, port, starts, faults>>
Handler(r) == getIndex(r) \/ Answer(r)

----------------------------------------------------------------------------
(* Switch.Stop. *)

Goes(from, to) ==
    /\ main = from /\ main' = to
    /\ UNCHANGED <<tokenVars, told, missed, boot, server, port, req, starts, faults>>
StopBegins == Goes("up", "left")

\* leftClient for each point of the cache; a write that fails is logged.
leftClient(p) ==
    /\ main = "left" /\ p \notin told \cup missed
    /\ \/ told' = told \cup {p} /\ UNCHANGED missed
       \/ missed' = missed \cup {p} /\ UNCHANGED told
    /\ UNCHANGED <<tokenVars, main, boot, server, port, req, starts, faults>>
\* Stop waits until every point has been told.
AllTold == told = Points /\ Goes("left", "firewall")
AllLeft == told \cup missed = Points /\ Goes("left", "firewall")
FirewallStop == Goes("firewall", "shutdown")

\* Shutdown closes the listener and waits for the handlers.  The goroutine of
\* Http.Start may not have made the server yet: a nil server panics in main.
Shutdown ==
    /\ main = "shutdown"
    /\ IF server = "nil"
       THEN main' = "dead" /\ boot' = "none" /\ UNCHANGED <<server, port>>
       ELSE /\ main' = "waits" /\ server' = "shut" /\ UNCHANGED boot
            /\ port' = IF server = "serving" THEN "free" ELSE port
    /\ UNCHANGED <<tokenVars, told, missed, req, starts, faults>>
\* Shutdown is not waited for.
NeverBusy == TRUE
Drained == \A r \in Requests : ~Active(r)
Waited == Drained /\ Goes("waits", "server")
\* server.Close, and then Stop of every network.
ServerClose == Goes("server", "workers")
WorkersStop == Goes("workers", "stopped")

\* The process is killed, and started again by the service manager.
Restart ==
    /\ starts < MaxStarts /\ starts' = starts + 1
    /\ main' = "up" /\ boot' = "go" /\ server' = "nil" /\ told' = {} /\ missed' = {}
    /\ admin' = 0 /\ saved' = FALSE
    /\ req' = [r \in Requests |-> Idle]
    /\ port' = IF port = "own" THEN "free" ELSE port
    /\ UNCHANGED <<file, faults, fresh, known, unread>>

StartStep == NewServer \/ LoadToken \/ OpenToken \/ WriteToken \/ LoadRouter \/ Listen \/ Sleep
StopStep == (\E p \in Points : leftClient(p)) \/ AllLeft \/ FirewallStop \/ Shutdown
            \/ Waited \/ ServerClose \/ WorkersStop

Next ==
    \/ StartStep \/ StopBegins \/ StopStep \/ PortFreed \/ Restart
    \/ \E r \in Requests : Handler(r) \/ \E p \in Paths, n \in Names : Request(r, p, n)

\* The goroutines run: the one of Http.Start, main in Stop, and the handlers.
Fairness ==
    /\ WF_webVars(StartStep) /\ WF_webVars(StopStep)
    /\ \A r \in Requests : WF_webVars(Handler(r))

Spec == Init /\ [][Next]_webVars /\ Fairness

----------------------------------------------------------------------------
\* The file holds the token the server accepts, unless it could not be written:
\* the command line tools that read it are let in.
FileCurrent == server = "serving" /\ saved => file = admin

\* The admin token outlives the process: LoadToken makes up another one only
\* after SaveToken had emptied the file and not written it, or when it cannot
\* read the file.
TokenSurvives == admin # 0 /\ known # 0 => admin = known \/ file = 0 \/ unread

\* While the networks are stopped no handler of the API runs, and the points
\* that could be told to leave have been told.
QuietStop ==
    main \in {"server", "workers", "stopped"} =>
        (\A r \in Requests : ~Active(r)) /\ told \cup missed = Points

\* Stop returns, unless it panics because Start had not made the server.
StopReturns == main = "left" ~> main \in {"stopped", "dead", "up"}

\* When the port is or comes free the switch serves, unless it is stopped.
Serves == (boot \in {"listen", "sleep"} /\ server = "new" /\ port = "free")
          ~> (server \in {"serving", "shut"} \/ main # "up" \/ boot = "go")
============================================================================
