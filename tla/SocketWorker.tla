---------------------------- MODULE SocketWorker ----------------------------
(***************************************************************************)
(* The connection of a point to its switch (pkg/olap/socket.go over the    *)
(* client half of pkg/libol/socket.go and tcpsocket.go).                   *)
(*                                                                         *)
(* One Loop takes events and ticks, and makes connections; every           *)
(* connection starts a reader goroutine; all of them work on one client    *)
(* object, whose connection is replaced under their feet.  Events go       *)
(* through a bounded queue that the Loop itself fills too.  t.lock is held *)
(* by the Loop in dispatch and doTicker, by a reader in onInstruct and by  *)
(* Stop, also while they wait for room in that queue.                      *)
(*                                                                         *)
(* Connections are numbered in the order in which they are made, 0 is no   *)
(* connection.  The record of times, which has the resolution of a second, *)
(* is kept as ages: a time that is compared with the timeout is its age,   *)
(* cut at the timeout, and "connected at or after the last reconnect" is   *)
(* one flag.                                                               *)
(***************************************************************************)
EXTENDS Naturals, Sequences, FiniteSets

CONSTANTS
    MaxConns,   \* bound: connections made
    MaxFrames,  \* bound: control frames the switch sends
    MaxWrites,  \* bound: frames of the tap that are written
    EvCap,      \* capacity of eventQueue
    Timeout,    \* pinCfg.Timeout, in ticks
    SleepUnit,  \* ticks a reconnect is put off per failed try
    MaxSleeps,  \* tries after which the delay grows no more
    Prompt      \* a second passes only while the Loop waits or dials

ASSUME WorkerAssumption ==
    /\ {MaxConns, MaxFrames, MaxWrites, SleepUnit, MaxSleeps} \subseteq Nat
    /\ EvCap \in Nat \ {0} /\ Timeout \in Nat \ {0} /\ Prompt \in BOOLEAN

Readers == 1 .. MaxConns    \* one reader for every conned event
Delays == 0 .. SleepUnit * MaxSleeps

VARIABLES
    conn,       \* client.connection
    status,     \* client.status
    conns,      \* connections made so far
    lost,       \* has the network broken the connection
    heard,      \* control frames received
    stop,       \* pc of Stop
    lock,       \* who holds t.lock
    events,     \* eventQueue
    loop,       \* pc of the Loop
    event,      \* event the Loop has taken
    ticker,     \* is there a tick in ticker.C
    batch,      \* due jobs checkJobber has still to call
    jobs,       \* jobber: number of jobs by the ticks left
    writes,     \* frames of the tap taken from writeQueue
    reader,     \* pc of each reader
    reading,    \* connection a reader reads
    frame,      \* control frame or event a reader has at hand
    heardAge,   \* age of rtLast or rtLive, whichever is newer
    reconAge,   \* age of rtReConnect
    connNow,    \* was rtConnected set in this second
    connAfter,  \* rtConnected >= rtReConnect
    sleeps      \* rtSleeps

clientVars == <<conn, status, conns, lost>>
loopVars == <<loop, event, ticker, batch, jobs, writes>>
readerVars == <<reader, reading, frame>>
timeVars == <<heardAge, reconAge, connNow, connAfter, sleeps>>
vars == <<clientVars, heard, stop, lock, events, loopVars, readerVars, timeVars>>

\* Start connects before the Loop is started, with the lock held.
Init ==
    /\ conn = 0 /\ status = "connecting" /\ conns = 0 /\ lost = FALSE /\ heard = 0
    /\ stop = "idle"
    /\ lock = "loop"
    /\ events = <<>>
    /\ loop = "dial" /\ event = "none" /\ ticker = FALSE /\ batch = 1
    /\ jobs = [d \in Delays |-> 0]
    /\ writes = 0
    /\ reader = [r \in Readers |-> "none"]
    /\ reading = [r \in Readers |-> 0]
    /\ frame = [r \in Readers |-> "none"]
    /\ heardAge = 0 /\ reconAge = 0
    /\ connNow = FALSE /\ connAfter = FALSE /\ sleeps = 0

\* Mutant: Stop leaves the client in its place.
ClientNilNever == FALSE

\* Stop sets the client to nil; before it, the status is terminal.
ClientNil == stop = "end"
IsStopped == ClientNil \/ status = "terminal"

Older(age) == IF age < Timeout THEN age + 1 ELSE age

Room == Len(events) < EvCap

\* Mutant: the queue grows.
PushUnbounded(e) == events' = Append(events, e)

Push(e) == Room /\ events' = Append(events, e)

\* TcpClient.Close, up to the OnClose callback that pushes an event.
ClientClose(st) ==
    /\ conn' = 0
    /\ status' = IF st = "terminal" THEN st ELSE "closed"
    /\ lost' = FALSE

----------------------------------------------------------------------------
(* Time and the network. *)

\* A second passes, and the ticker fires until Stop stops it; only the Loop
\* reads the clock.
Tick ==
    /\ loop # "end"
    /\ Prompt => loop = "dial" \/ (loop = "select" /\ events = <<>> /\ ~ticker)
    /\ ticker' = (ticker \/ ~ClientNil)
    /\ heardAge' = Older(heardAge) /\ reconAge' = Older(reconAge)
    /\ jobs' = [d \in Delays |-> (IF d + 1 \in Delays THEN jobs[d + 1] ELSE 0)
                                 + (IF d = 0 THEN jobs[0] ELSE 0)]
    /\ connNow' = FALSE
    /\ UNCHANGED <<clientVars, heard, stop, lock, events, loop, event, batch, writes, readerVars,
                   connAfter, sleeps>>

ConnLost ==
    /\ conn # 0 /\ ~lost
    /\ lost' = TRUE
    /\ UNCHANGED <<conn, status, conns, heard, stop, lock, events, loopVars, readerVars,
                   timeVars>>

----------------------------------------------------------------------------
(* The Loop: events. *)

\* reconnect() asks for a connection in a while; the job gives up when there
\* has been a connection at or after this second.
Reconnect ==
    IF IsStopped
    THEN UNCHANGED <<jobs, timeVars>>
    ELSE LET n == IF sleeps < MaxSleeps THEN sleeps + 1 ELSE sleeps
         IN /\ sleeps' = n
            /\ reconAge' = 0
            /\ connAfter' = connNow
            /\ jobs' = [jobs EXCEPT ![n * SleepUnit] = @ + 1]
            /\ UNCHANGED <<heardAge, connNow>>

TakeEvent ==
    /\ loop = "select" /\ events # <<>>
    /\ event' = Head(events) /\ events' = Tail(events)
    /\ loop' = "dispatch"
    /\ UNCHANGED <<clientVars, heard, stop, lock, ticker, batch, jobs, writes, readerVars, timeVars>>

\* dispatch, with the lock.  The requests it sends (login, ping, address)
\* change nothing here: what the switch answers is read by a reader.
Dispatch ==
    /\ loop = "dispatch" /\ lock = "free"
    /\ loop' = "select" /\ event' = "none"
    /\ \/ /\ event = "conned" /\ ~ClientNil
          /\ \E r \in Readers :
               /\ reader[r] = "none" /\ \A q \in Readers : q < r => reader[q] # "none"
               /\ reader' = [reader EXCEPT ![r] = "call"]
          /\ UNCHANGED <<jobs, timeVars>>
       \/ /\ event \in {"reconRead", "reconAlive"}
          /\ Reconnect
          /\ UNCHANGED reader
       \/ /\ event \in {"closed", "success", "signIn"} \/ (event = "conned" /\ ClientNil)
          /\ UNCHANGED <<jobs, timeVars, reader>>
    /\ UNCHANGED <<clientVars, heard, stop, lock, events, ticker, batch, writes, reading, frame>>

----------------------------------------------------------------------------
(* The Loop: ticks and frames of the tap. *)

\* checkAlive: nothing was received, and no reconnect asked for, in Timeout.
NotAlive == heardAge = Timeout /\ reconAge = Timeout

TakeTick ==
    /\ loop = "select" /\ ticker
    /\ ticker' = FALSE
    /\ loop' = "tick"
    /\ UNCHANGED <<clientVars, heard, stop, lock, events, event, batch, jobs, writes, readerVars,
                   timeVars>>

DoTicker ==
    /\ loop = "tick" /\ lock = "free"
    /\ lock' = "loop"
    /\ loop' = IF NotAlive THEN "alivePush" ELSE "keepAlive"
    /\ UNCHANGED <<clientVars, heard, stop, events, event, ticker, batch, jobs, writes, readerVars,
                   timeVars>>

\* DoWrite checks without the lock.
TakeWrite ==
    /\ loop = "select" /\ writes < MaxWrites
    /\ writes' = writes + 1
    /\ loop' = IF NotAlive THEN "writePush" ELSE "write"
    /\ UNCHANGED <<clientVars, heard, stop, lock, events, event, ticker, batch, jobs, readerVars,
                   timeVars>>

\* checkAlive asks for a reconnect, in the queue of the Loop itself.
AlivePush ==
    /\ loop \in {"alivePush", "writePush"}
    /\ Push("reconAlive")
    /\ loop' = IF loop = "alivePush" THEN "keepAlive" ELSE "write"
    /\ UNCHANGED <<clientVars, heard, stop, lock, event, ticker, batch, jobs, writes, readerVars, timeVars>>

\* The rest of DoWrite needs the lock to look at the status, and writes
\* without it; when Stop comes in between, WriteMsg of no client panics.
WriteCheck ==
    /\ loop = "write" /\ lock = "free"
    /\ loop' = IF status = "auth" THEN "writing" ELSE "select"
    /\ UNCHANGED <<clientVars, heard, stop, lock, events, event, ticker, batch, jobs, writes,
                   readerVars, timeVars>>

WriteMsg ==
    /\ loop = "writing"
    /\ loop' = IF ClientNil THEN "end" ELSE "select"
    /\ UNCHANGED <<clientVars, heard, stop, lock, events, event, ticker, batch, jobs, writes,
                   readerVars, timeVars>>

\* keepAlive sends a ping or a login when it is its turn, and panics when
\* there is no client: the lock is kept and the Loop is over.
KeepAlivePanic ==
    /\ loop = "keepAlive" /\ ClientNil
    /\ loop' = "end"
    /\ UNCHANGED <<clientVars, heard, stop, lock, events, event, ticker, batch, jobs, writes, readerVars,
                   timeVars>>

\* There are n jobs left to call; after the last the lock is released.
JobsLeft(n) ==
    /\ batch' = n
    /\ IF n = 0 THEN loop' = "select" /\ lock' = "free"
                ELSE loop' = "jobs" /\ UNCHANGED lock

\* checkJobber takes the jobs that are due.
CheckJobber ==
    /\ loop = "keepAlive"
    /\ JobsLeft(jobs[0])
    /\ jobs' = [jobs EXCEPT ![0] = 0]
    /\ UNCHANGED <<clientVars, heard, stop, events, event, ticker, writes, readerVars, timeVars>>

\* Mutant: every job finds that there has been a connection.
AlreadyConnectedAlways == TRUE

\* rtConn >= rtReCon.
AlreadyConnected == connAfter

JobDissed ==
    /\ loop = "jobs" /\ batch > 0 /\ AlreadyConnected
    /\ JobsLeft(batch - 1)
    /\ UNCHANGED <<clientVars, heard, stop, events, event, ticker, jobs, writes, readerVars, timeVars>>

\* connect() closes what there is.
JobClose ==
    /\ loop = "jobs" /\ batch > 0 /\ ~AlreadyConnected /\ ~ClientNil
    /\ IF conn = 0
       THEN /\ status' = "connecting"
            /\ loop' = "dial"
            /\ UNCHANGED <<conn, lost>>
       ELSE /\ ClientClose(status)
            /\ loop' = "closePush"
    /\ UNCHANGED <<conns, heard, stop, lock, events, event, ticker, batch, jobs, writes, readerVars,
                   timeVars>>

\* connect() of no client panics.
JobPanic ==
    /\ loop = "jobs" /\ batch > 0 /\ ~AlreadyConnected /\ ClientNil
    /\ loop' = "end"
    /\ UNCHANGED <<clientVars, heard, stop, lock, events, event, ticker, batch, jobs, writes, readerVars,
                   timeVars>>

\* OnClose; then the status is reset and Connect starts.
ClosePush ==
    /\ loop = "closePush"
    /\ Push("closed")
    /\ status' = "connecting"
    /\ loop' = "dial"
    /\ UNCHANGED <<conn, conns, lost, heard, stop, lock, event, ticker, batch, jobs, writes,
                   readerVars, timeVars>>

DialFail ==
    /\ loop = "dial"
    /\ JobsLeft(batch - 1)
    /\ UNCHANGED <<clientVars, heard, stop, events, event, ticker, jobs, writes, readerVars, timeVars>>

DialOk ==
    /\ loop = "dial" /\ conns < MaxConns
    /\ conn' = conns + 1 /\ conns' = conns + 1
    /\ status' = "connected"
    /\ connNow' = TRUE /\ connAfter' = TRUE
    /\ loop' = "connPush"
    /\ UNCHANGED <<lost, heard, stop, lock, events, event, ticker, batch, jobs, writes, readerVars,
                   heardAge, reconAge, sleeps>>

ConnPush ==
    /\ loop = "connPush"
    /\ Push("conned")
    /\ JobsLeft(batch - 1)
    /\ UNCHANGED <<clientVars, heard, stop, event, ticker, jobs, writes, readerVars, timeVars>>

LoopDone ==
    /\ loop = "select" /\ ClientNil
    /\ loop' = "end"
    /\ UNCHANGED <<clientVars, heard, stop, lock, events, event, ticker, batch, jobs, writes, readerVars,
                   timeVars>>

----------------------------------------------------------------------------
(* Readers. *)

Goto(r, pc) == reader' = [reader EXCEPT ![r] = pc]

\* ReadMsg takes the connection of the client, whichever it is by now.
ReadCall(r) ==
    /\ reader[r] = "call"
    /\ IF conn = 0
       THEN Goto(r, "close") /\ UNCHANGED reading
       ELSE Goto(r, "read") /\ reading' = [reading EXCEPT ![r] = conn]
    /\ UNCHANGED <<clientVars, heard, stop, lock, events, loopVars, frame, timeVars>>

\* The connection that is read has been closed or is lost.
ReadError(r) ==
    /\ reader[r] = "read" /\ (reading[r] # conn \/ lost)
    /\ Goto(r, "close")
    /\ UNCHANGED <<clientVars, heard, stop, lock, events, loopVars, reading, frame, timeVars>>

MayReceive(r) == reader[r] = "read" /\ reading[r] = conn /\ ~lost

ReadData(r) ==
    /\ MayReceive(r)
    /\ heardAge' = 0
    /\ Goto(r, "call")
    /\ UNCHANGED <<clientVars, heard, stop, lock, events, loopVars, reading, frame, reconAge, connNow,
                   connAfter, sleeps>>

\* A control frame: an answer of the switch, or a request.
ReadControl(r, f) ==
    /\ MayReceive(r) /\ heard < MaxFrames
    /\ heard' = heard + 1
    /\ frame' = [frame EXCEPT ![r] = f]
    /\ Goto(r, "frame")
    /\ UNCHANGED <<clientVars, stop, lock, events, loopVars, reading, timeVars>>

\* The reader is done with a frame.
Done(r) == Goto(r, "call") /\ frame' = [frame EXCEPT ![r] = "none"]

\* onInstruct with the lock, up to the event it pushes, if it does.
OnInstruct(r) ==
    /\ reader[r] = "frame" /\ lock = "free" /\ ~ClientNil
    /\ \/ /\ frame[r] = "pong"
          /\ heardAge' = 0
          /\ Done(r) /\ UNCHANGED <<conn, status, lost, lock, sleeps>>
       \/ /\ frame[r] \in {"okay", "deny"} /\ status = "auth"
          /\ Done(r) /\ UNCHANGED <<conn, status, lost, lock, heardAge, sleeps>>
       \/ /\ frame[r] = "deny" /\ status # "auth"
          /\ status' = "unauth"
          /\ Done(r) /\ UNCHANGED <<conn, lost, lock, heardAge, sleeps>>
       \/ /\ frame[r] = "okay" /\ status # "auth"
          /\ status' = "auth" /\ sleeps' = 0
          /\ frame' = [frame EXCEPT ![r] = "success"]
          /\ lock' = "reader"
          /\ Goto(r, "push") /\ UNCHANGED <<conn, lost, heardAge>>
       \/ /\ frame[r] = "sign"
          /\ frame' = [frame EXCEPT ![r] = "signIn"]
          /\ lock' = "reader"
          /\ Goto(r, "push") /\ UNCHANGED <<conn, status, lost, heardAge, sleeps>>
       \/ /\ frame[r] = "left" /\ conn # 0
          /\ ClientClose(status)
          /\ frame' = [frame EXCEPT ![r] = "closed"]
          /\ lock' = "reader"
          /\ Goto(r, "push") /\ UNCHANGED <<heardAge, sleeps>>
       \/ /\ frame[r] = "left" /\ conn = 0
          /\ Done(r) /\ UNCHANGED <<conn, status, lost, lock, heardAge, sleeps>>
    /\ UNCHANGED <<conns, heard, stop, events, loopVars, reading, reconAge, connNow,
                   connAfter>>

ReaderPush(r) ==
    /\ reader[r] = "push"
    /\ Push(frame[r])
    /\ lock' = "free"
    /\ Done(r)
    /\ UNCHANGED <<clientVars, heard, stop, loopVars, reading, timeVars>>

\* Mutant: the connection is left as it is.
ReaderCloseNot(r) ==
    /\ reader[r] = "close"
    /\ Goto(r, "recon")
    /\ UNCHANGED <<clientVars, heard, stop, lock, events, loopVars, reading, frame, timeVars>>

\* The reader closes the client: the connection it has by now.
ReaderClose(r) ==
    /\ reader[r] = "close"
    /\ IF conn = 0
       THEN Goto(r, "recon") /\ UNCHANGED <<conn, status, lost>>
       ELSE Goto(r, "closed") /\ ClientClose(status)
    /\ UNCHANGED <<conns, heard, stop, lock, events, loopVars, reading, frame, timeVars>>

ReaderClosed(r) ==
    /\ reader[r] = "closed"
    /\ Push("closed")
    /\ Goto(r, "recon")
    /\ UNCHANGED <<clientVars, heard, stop, lock, loopVars, reading, frame, timeVars>>

\* ... and asks for another one.
ReaderRecon(r) ==
    /\ reader[r] = "recon"
    /\ IF IsStopped
       THEN UNCHANGED events
       ELSE Push("reconRead")
    /\ Goto(r, "end")
    /\ reading' = [reading EXCEPT ![r] = 0]
    /\ UNCHANGED <<clientVars, heard, stop, lock, loopVars, frame, timeVars>>

\* onInstruct of no client panics, with the lock held.
ReaderPanic(r) ==
    /\ ClientNil /\ reader[r] = "frame" /\ lock = "free"
    /\ lock' = "reader"
    /\ Goto(r, "end")
    /\ UNCHANGED <<clientVars, heard, stop, events, loopVars, reading, frame, timeVars>>

----------------------------------------------------------------------------
(* Stop. *)

\* Terminal closes the connection, with the lock held ...
StopBegin ==
    /\ stop = "idle" /\ lock = "free"
    /\ status' = "terminal"
    /\ IF conn = 0
       THEN /\ stop' = "end"
            /\ UNCHANGED <<conn, lost, lock>>
       ELSE /\ conn' = 0 /\ lost' = FALSE
            /\ stop' = "push" /\ lock' = "stop"
    /\ UNCHANGED <<conns, heard, events, loopVars, readerVars, timeVars>>

\* ... and OnClose pushes an event before the client is set to nil.
StopEnd ==
    /\ stop = "push"
    /\ Push("closed")
    /\ stop' = "end" /\ lock' = "free"
    /\ UNCHANGED <<clientVars, heard, loopVars, readerVars, timeVars>>

----------------------------------------------------------------------------
LoopStep ==
    \/ Dispatch \/ DoTicker \/ AlivePush \/ WriteCheck \/ WriteMsg \/ KeepAlivePanic \/ CheckJobber \/ JobDissed
    \/ JobClose \/ JobPanic \/ ClosePush \/ ConnPush \/ LoopDone

ReaderStep(r) ==
    \/ ReadCall(r) \/ ReadError(r) \/ OnInstruct(r) \/ ReaderPush(r) \/ ReaderClose(r)
    \/ ReaderClosed(r) \/ ReaderRecon(r) \/ ReaderPanic(r)

Next ==
    \/ Tick \/ ConnLost
    \/ TakeEvent \/ TakeTick \/ TakeWrite \/ DialFail \/ DialOk \/ LoopStep
    \/ \E r \in Readers :
         \/ ReadData(r) \/ ReaderStep(r)
         \/ \E f \in {"pong", "okay", "deny", "sign", "left"} : ReadControl(r, f)
    \/ StopBegin \/ StopEnd

Spec == Init /\ [][Next]_vars

\* Time passes; the runtime runs what can run; select is fair to the event
\* queue and to the ticker; and a switch that is dialled again and again
\* answers in the end.
FairSpec ==
    /\ Spec
    /\ WF_vars(Tick)
    /\ SF_vars(TakeEvent) /\ SF_vars(TakeTick)
    /\ SF_vars(LoopStep) /\ WF_vars(DialOk \/ DialFail) /\ SF_vars(DialOk)
    /\ \A r \in Readers : SF_vars(ReaderStep(r))
    /\ WF_vars(StopEnd)

----------------------------------------------------------------------------
(* Properties. *)

EventTypes == {"conned", "closed", "success", "signIn", "reconRead", "reconAlive"}

\* The values of the client, the queue and the program counters; the queue
\* never holds more than its capacity.
TypeOK ==
    /\ conn \in 0 .. conns /\ conns \in 0 .. MaxConns /\ lost \in BOOLEAN
    /\ status \in {"connecting", "connected", "unauth", "auth", "terminal", "closed"}
    /\ heard \in 0 .. MaxFrames
    /\ stop \in {"idle", "push", "end"}
    /\ lock \in {"free", "loop", "reader", "stop"}
    /\ events \in Seq(EventTypes) /\ Len(events) <= EvCap
    /\ event \in EventTypes \cup {"none"} /\ (event # "none" <=> loop = "dispatch")
    /\ jobs \in [Delays -> Nat] /\ batch \in Nat
    /\ heardAge \in 0 .. Timeout /\ reconAge \in 0 .. Timeout
    /\ sleeps \in 0 .. MaxSleeps

Queued(S) == Cardinality({i \in 1 .. Len(events) : events[i] \in S})

\* Somebody reads the connection, or will: a reader that has not failed yet, or
\* that will close whatever connection there is, or an event that starts one.
\* A connection nobody reads would stay silent until the timeout (Loop, Read).
Attended ==
    conn # 0 =>
        \/ loop = "connPush" \/ event = "conned" \/ Queued({"conned"}) > 0
        \/ \E r \in Readers : reader[r] \in {"call", "read", "frame", "push", "close"}

\* Stop is final: whatever events, jobs and readers are left, the point has no
\* connection any more, although connect() resets the status (Stop, connect).
StaysStopped == stop = "end" => conn = 0

\* "already connected after" (olap/socket.go:206): a reader asks for another
\* connection when it has closed the client, so a connection that is there when
\* its request is served is a newer one, and the job gives up.
KeepsNew == [][Dispatch /\ event = "reconRead" /\ conn # 0 => connAfter']_vars

\* A point without a connection gets one, however the tries, the timeouts and
\* the readers of earlier connections interleave (reconnect, checkAlive).
Reconnects ==
    (conn = 0 /\ stop = "idle") ~> (conn # 0 \/ stop # "idle" \/ conns = MaxConns)
=============================================================================
