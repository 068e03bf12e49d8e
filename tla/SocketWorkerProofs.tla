------------------------- MODULE SocketWorkerProofs -------------------------
(***************************************************************************)
(* For every number of connections, frames and writes, every capacity of   *)
(* the event queue and every timeout: the values of the worker's state,    *)
(* that Stop is final, and that a connection has somebody who reads it.    *)
(*                                                                         *)
(* StaysStopped is not inductive.  It holds because of t.lock: the Loop    *)
(* holds it whenever it is about to connect, a reader while it waits to    *)
(* push an event, and Stop while it does (Locked), so that Stop never      *)
(* meets the Loop between its look at the client and the connection that   *)
(* follows (Dialling).  Attended rests on StaysStopped: what is left       *)
(* unread, an event or a frame, is left when the client is gone.           *)
(***************************************************************************)
EXTENDS SocketWorker, FiniteSetTheorems, TLAPS

\* Program counters of the Loop, by who may meet it there.
Unlocked == {"select", "dispatch", "tick", "writePush", "write", "writing", "end"}
Checking == {"alivePush", "keepAlive", "jobs"}
Connecting == {"closePush", "dial", "connPush"}

\* The values of what TypeOK leaves out.
PcOK ==
    /\ loop \in Unlocked \cup Checking \cup Connecting
    /\ reader \in [Readers -> {"none", "call", "read", "frame", "push", "close", "closed", "recon", "end"}]
    /\ reading \in [Readers -> 0 .. MaxConns]
    /\ frame \in [Readers -> EventTypes \cup {"none", "pong", "okay", "deny", "sign", "left"}]
    /\ \A r \in Readers : reader[r] = "push" => frame[r] \in EventTypes
    /\ loop \in Connecting => batch > 0

\* Who holds t.lock: the Loop while it checks and connects (a panic may keep
\* it), the one reader that pushes an event, Stop while it pushes one.
Locked ==
    /\ loop \in Checking \cup Connecting => lock = "loop"
    /\ \A r \in Readers : reader[r] = "push" => lock = "reader"
    /\ \A q, r \in Readers : reader[q] = "push" /\ reader[r] = "push" => q = r
    /\ stop = "push" => lock = "stop"

\* The Loop connects before Stop, and Stop has closed the connection.
Dialling ==
    /\ loop \in Connecting => stop = "idle"
    /\ stop # "idle" => conn = 0

\* The same as Attended, with the position of the event in the queue.
Awaited == \E i \in 1 .. Len(events) : events[i] = "conned"
Readable == {"call", "read", "frame", "push", "close"}
Read ==
    conn # 0 =>
        \/ loop = "connPush" \/ event = "conned" \/ Awaited
        \/ \E r \in Readers : reader[r] \in Readable

Inv == TypeOK /\ PcOK /\ Locked /\ Dialling /\ Read

----------------------------------------------------------------------------
(* The event queue. *)

\* Push keeps the events that wait, and enters its own.
LEMMA PushFacts ==
    ASSUME TypeOK, NEW e \in EventTypes, Len(events) < EvCap, events' = Append(events, e)
    PROVE  /\ events' \in Seq(EventTypes) /\ Len(events') <= EvCap
           /\ Awaited => Awaited'
           /\ e = "conned" => Awaited'
<1>1. events \in Seq(EventTypes) /\ Len(events) \in Nat BY DEF TypeOK
<1>2. /\ events' \in Seq(EventTypes) /\ Len(events') = Len(events) + 1
      /\ events'[Len(events) + 1] = e /\ \A i \in 1 .. Len(events) : events'[i] = events[i]
  BY <1>1
<1>3. Len(events') <= EvCap BY <1>1, <1>2, WorkerAssumption
<1>4. Awaited => Awaited'
  <2> SUFFICES ASSUME NEW i \in 1 .. Len(events), events[i] = "conned" PROVE Awaited'
    BY DEF Awaited
  <2>1. i \in 1 .. Len(events') BY <1>1, <1>2
  <2> QED BY <1>2, <2>1 DEF Awaited
<1>5. e = "conned" => Awaited'
  <2>1. Len(events) + 1 \in 1 .. Len(events') BY <1>1, <1>2
  <2> QED BY <1>2, <2>1 DEF Awaited
<1> QED BY <1>2, <1>3, <1>4, <1>5

\* The Loop takes the first event, and the others wait on.
LEMMA TakeFacts ==
    ASSUME TypeOK, events # <<>>, events' = Tail(events)
    PROVE  /\ events' \in Seq(EventTypes) /\ Len(events') <= EvCap
           /\ Head(events) \in EventTypes
           /\ Awaited => Awaited' \/ Head(events) = "conned"
<1>1. events \in Seq(EventTypes) /\ Len(events) \in Nat \ {0} /\ Len(events) <= EvCap BY DEF TypeOK
<1>2. /\ events' \in Seq(EventTypes) /\ Len(events') = Len(events) - 1
      /\ Head(events) = events[1] /\ Head(events) \in EventTypes
      /\ \A i \in 1 .. Len(events') : events'[i] = events[i + 1]
  BY <1>1
<1>3. Len(events') <= EvCap BY <1>1, <1>2, WorkerAssumption
<1>4. Awaited => Awaited' \/ Head(events) = "conned"
  <2> SUFFICES ASSUME NEW i \in 1 .. Len(events), events[i] = "conned", i # 1 PROVE Awaited'
    BY <1>2 DEF Awaited
  <2>1. i - 1 \in 1 .. Len(events') /\ events'[i - 1] = "conned" BY <1>1, <1>2
  <2> QED BY <2>1 DEF Awaited
<1> QED BY <1>2, <1>3, <1>4

----------------------------------------------------------------------------
(* The values of the variables. *)

Types == TypeOK /\ PcOK

\* A connection is one of those made, or none.
LEMMA ConnRange ==
    ASSUME TypeOK, NEW c, c = conn \/ c = 0
    PROVE  c \in 0 .. conns /\ c \in 0 .. MaxConns
BY WorkerAssumption DEF TypeOK

\* Time, the network and Stop.
LEMMA TypeWorld ==
    ASSUME Types, Tick \/ ConnLost \/ StopBegin \/ StopEnd \/ UNCHANGED vars
    PROVE  Types'
<1> USE WorkerAssumption DEF Types, PcOK, clientVars, loopVars, readerVars, timeVars
<1>1. CASE Tick
  <2>1. heardAge' \in 0 .. Timeout /\ reconAge' \in 0 .. Timeout BY <1>1 DEF Tick, Older, TypeOK
  <2>2. jobs' \in [Delays -> Nat]
    <3>1. jobs \in [Delays -> Nat] BY DEF TypeOK
    <3> QED BY <1>1, <3>1 DEF Tick
  <2> QED BY SMTT(30), <1>1, <2>1, <2>2 DEF Tick, TypeOK
<1>2. CASE ConnLost BY <1>2 DEF ConnLost, TypeOK
<1>3. CASE StopBegin
  <2>1. conn' \in 0 .. conns' BY <1>3, ConnRange DEF StopBegin
  <2>2. TypeOK' BY <1>3, <2>1 DEF StopBegin, TypeOK
  <2> QED BY <1>3, <2>2 DEF StopBegin
<1>4. CASE StopEnd
  <2>1. events' \in Seq(EventTypes) /\ Len(events') <= EvCap
    BY <1>4, PushFacts DEF StopEnd, Push, Room, EventTypes
  <2> QED BY <1>4, <2>1 DEF StopEnd, TypeOK
<1>5. CASE UNCHANGED vars BY <1>5 DEF vars, TypeOK
<1> QED BY <1>1, <1>2, <1>3, <1>4, <1>5

\* The Loop, while it handles an event, a tick or a frame of the tap.
LEMMA TypeLoop ==
    ASSUME Types,
           \/ TakeEvent \/ TakeTick \/ TakeWrite \/ Dispatch \/ DoTicker \/ AlivePush \/ WriteCheck
           \/ WriteMsg \/ KeepAlivePanic \/ LoopDone
    PROVE  Types'
<1> USE WorkerAssumption
    DEF Types, PcOK, clientVars, readerVars, timeVars, Unlocked, Checking, Connecting
<1>1. CASE TakeEvent
  <2>1. /\ events' \in Seq(EventTypes) /\ Len(events') <= EvCap /\ event' \in EventTypes
    BY <1>1, TakeFacts DEF TakeEvent
  <2>2. event' # "none" BY <2>1 DEF EventTypes
  <2> QED BY <1>1, <2>1, <2>2 DEF TakeEvent, TypeOK
<1>2. CASE TakeTick BY <1>2 DEF TakeTick, TypeOK
<1>3. CASE TakeWrite BY <1>3 DEF TakeWrite, TypeOK
<1>4. CASE Dispatch
  <2>1. /\ loop = "dispatch" /\ loop' = "select" /\ event' = "none"
        /\ UNCHANGED <<conn, status, conns, lost, heard, stop, lock, events, batch, reading, frame>>
    BY <1>4 DEF Dispatch
  <2>2. /\ reader' \in [Readers -> {"none", "call", "read", "frame", "push", "close", "closed", "recon", "end"}]
        /\ \A r \in Readers : reader'[r] = "push" => reader[r] = "push"
    <3>1. \/ reader' = reader
          \/ \E r \in Readers : reader' = [reader EXCEPT ![r] = "call"]
      BY <1>4 DEF Dispatch
    <3> QED BY <3>1
  <2>3. /\ jobs' \in [Delays -> Nat] /\ heardAge' \in 0 .. Timeout
        /\ reconAge' \in 0 .. Timeout /\ sleeps' \in 0 .. MaxSleeps
    <3>1. CASE Reconnect
      <4>1. CASE IsStopped BY <3>1, <4>1 DEF Reconnect, TypeOK
      <4>2. CASE ~IsStopped
        <5> DEFINE n == IF sleeps < MaxSleeps THEN sleeps + 1 ELSE sleeps
        <5>1. /\ sleeps' = n /\ reconAge' = 0 /\ heardAge' = heardAge
              /\ jobs' = [jobs EXCEPT ![n * SleepUnit] = @ + 1]
          BY <3>1, <4>2 DEF Reconnect
        <5>2. n \in 0 .. MaxSleeps BY DEF TypeOK
        <5>3. \A k : [jobs EXCEPT ![k] = @ + 1] \in [Delays -> Nat]
          <6>1. jobs \in [Delays -> Nat] BY DEF TypeOK
          <6>2. \A d \in Delays : jobs[d] + 1 \in Nat BY <6>1
          <6> QED BY <6>1, <6>2, Zenon
        <5>4. jobs' \in [Delays -> Nat] BY <5>1, <5>3
        <5> HIDE DEF n
        <5> QED BY <5>1, <5>2, <5>4 DEF TypeOK
      <4> QED BY <4>1, <4>2
    <3>2. CASE UNCHANGED <<jobs, timeVars>> BY <3>2 DEF TypeOK
    <3> QED BY <1>4, <3>1, <3>2 DEF Dispatch
  <2>4. TypeOK' BY <2>1, <2>3 DEF TypeOK
  <2> QED BY <2>1, <2>2, <2>4
<1>5. CASE DoTicker BY <1>5 DEF DoTicker, TypeOK
<1>6. CASE AlivePush
  <2>1. events' \in Seq(EventTypes) /\ Len(events') <= EvCap
    BY <1>6, PushFacts DEF AlivePush, Push, Room, EventTypes
  <2> QED BY <1>6, <2>1 DEF AlivePush, TypeOK
<1>7. CASE WriteCheck BY <1>7 DEF WriteCheck, TypeOK
<1>8. CASE WriteMsg BY <1>8 DEF WriteMsg, TypeOK
<1>9. CASE KeepAlivePanic BY <1>9 DEF KeepAlivePanic, TypeOK
<1>10. CASE LoopDone BY <1>10 DEF LoopDone, TypeOK
<1> QED BY <1>1, <1>2, <1>3, <1>4, <1>5, <1>6, <1>7, <1>8, <1>9, <1>10

\* The Loop, while it calls jobs and connects.
LEMMA TypeConnect ==
    ASSUME Types,
           \/ CheckJobber \/ JobDissed \/ JobClose \/ JobPanic \/ ClosePush \/ DialFail \/ DialOk
           \/ ConnPush
    PROVE  Types'
<1> USE WorkerAssumption
    DEF Types, PcOK, clientVars, readerVars, timeVars, Unlocked, Checking, Connecting, JobsLeft
<1>1. CASE CheckJobber
  <2>1. jobs \in [Delays -> Nat] /\ 0 \in Delays BY DEF TypeOK, Delays
  <2>2. jobs[0] \in Nat /\ jobs' \in [Delays -> Nat] BY <1>1, <2>1 DEF CheckJobber
  <2> QED BY <1>1, <2>2 DEF CheckJobber, TypeOK
<1>2. CASE JobDissed BY <1>2 DEF JobDissed, TypeOK
<1>3. CASE JobClose
  <2>1. conn' \in 0 .. conns' BY <1>3, ConnRange DEF JobClose, ClientClose
  <2>2. TypeOK' BY <1>3, <2>1 DEF JobClose, ClientClose, TypeOK
  <2>3. UNCHANGED <<batch, reader, reading, frame>> /\ loop' \in {"dial", "closePush"} /\ batch > 0
    BY <1>3 DEF JobClose
  <2> QED BY <2>2, <2>3
<1>4. CASE JobPanic BY <1>4 DEF JobPanic, TypeOK
<1>5. CASE ClosePush
  <2>1. events' \in Seq(EventTypes) /\ Len(events') <= EvCap
    BY <1>5, PushFacts DEF ClosePush, Push, Room, EventTypes
  <2> QED BY <1>5, <2>1 DEF ClosePush, TypeOK
<1>6. CASE DialFail BY <1>6 DEF DialFail, TypeOK
<1>7. CASE DialOk BY <1>7 DEF DialOk, TypeOK
<1>8. CASE ConnPush
  <2>1. events' \in Seq(EventTypes) /\ Len(events') <= EvCap
    BY <1>8, PushFacts DEF ConnPush, Push, Room, EventTypes
  <2> QED BY <1>8, <2>1 DEF ConnPush, TypeOK
<1> QED BY <1>1, <1>2, <1>3, <1>4, <1>5, <1>6, <1>7, <1>8

\* The readers.
LEMMA TypeReader ==
    ASSUME Types, NEW r \in Readers,
           \/ ReadData(r) \/ ReaderStep(r)
           \/ \E f \in {"pong", "okay", "deny", "sign", "left"} : ReadControl(r, f)
    PROVE  Types'
<1> USE WorkerAssumption DEF Types, PcOK, clientVars, loopVars, timeVars, Goto, Done
<1>1. CASE ReadData(r) BY <1>1 DEF ReadData, TypeOK
<1>2. ASSUME NEW f \in {"pong", "okay", "deny", "sign", "left"}, ReadControl(r, f) PROVE Types'
  BY <1>2 DEF ReadControl, MayReceive, TypeOK
<1>3. CASE ReadCall(r)
  <2>1. conn \in 0 .. MaxConns BY ConnRange
  <2>2. TypeOK' BY <1>3 DEF ReadCall, TypeOK
  <2> QED BY <1>3, <2>1, <2>2 DEF ReadCall
<1>4. CASE ReadError(r) BY <1>4 DEF ReadError, TypeOK
<1>5. CASE OnInstruct(r)
  <2>1. UNCHANGED <<conns, heard, stop, events, loop, event, batch, jobs, reading, reconAge>>
    BY <1>5 DEF OnInstruct
  <2>2. /\ conn' \in {conn, 0} /\ lost' \in BOOLEAN
        /\ status' \in {status, "unauth", "auth", "terminal", "closed"}
        /\ lock' \in {lock, "reader"} /\ heardAge' \in {heardAge, 0} /\ sleeps' \in {sleeps, 0}
    BY <1>5 DEF OnInstruct, ClientClose, TypeOK
  <2>3. \/ reader' = [reader EXCEPT ![r] = "call"] /\ frame' = [frame EXCEPT ![r] = "none"]
        \/ \E e \in {"success", "signIn", "closed"} :
             reader' = [reader EXCEPT ![r] = "push"] /\ frame' = [frame EXCEPT ![r] = e]
    BY <1>5 DEF OnInstruct
  <2>4. conn' \in 0 .. conns' BY <2>1, <2>2, ConnRange
  <2>5. TypeOK' BY SMTT(30), <2>1, <2>2, <2>4 DEF TypeOK
  <2> QED BY <2>1, <2>3, <2>5 DEF EventTypes
<1>6. CASE ReaderPush(r)
  <2>1. frame[r] \in EventTypes BY <1>6 DEF ReaderPush
  <2>2. events' \in Seq(EventTypes) /\ Len(events') <= EvCap
    BY <1>6, <2>1, PushFacts DEF ReaderPush, Push, Room
  <2> QED BY <1>6, <2>2 DEF ReaderPush, TypeOK
<1>7. CASE ReaderClose(r)
  <2>1. conn' \in 0 .. conns' BY <1>7, ConnRange DEF ReaderClose, ClientClose
  <2>2. TypeOK' BY <1>7, <2>1 DEF ReaderClose, ClientClose, TypeOK
  <2>3. /\ \E pc \in {"recon", "closed"} : reader' = [reader EXCEPT ![r] = pc]
        /\ UNCHANGED <<loop, batch, reading, frame>>
    BY <1>7 DEF ReaderClose
  <2> QED BY <2>2, <2>3
<1>8. CASE ReaderClosed(r)
  <2>1. events' \in Seq(EventTypes) /\ Len(events') <= EvCap
    BY <1>8, PushFacts DEF ReaderClosed, Push, Room, EventTypes
  <2> QED BY SMTT(30), <1>8, <2>1 DEF ReaderClosed, TypeOK
<1>9. CASE ReaderRecon(r)
  <2>1. events' \in Seq(EventTypes) /\ Len(events') <= EvCap
    <3>1. CASE events' = events BY <3>1 DEF TypeOK
    <3>2. CASE Push("reconRead") BY <3>2, PushFacts DEF Push, Room, EventTypes
    <3> QED BY <1>9, <3>1, <3>2 DEF ReaderRecon
  <2> QED BY <1>9, <2>1 DEF ReaderRecon, TypeOK
<1>10. CASE ReaderPanic(r) BY <1>10 DEF ReaderPanic, TypeOK
<1> QED BY <1>1, <1>2, <1>3, <1>4, <1>5, <1>6, <1>7, <1>8, <1>9, <1>10 DEF ReaderStep

LEMMA TypeStep == Types /\ [Next]_vars => Types'
BY TypeWorld, TypeLoop, TypeConnect, TypeReader DEF Next, LoopStep

\* Start is about to dial.
LEMMA TypeInit == Init => Types
<1> SUFFICES ASSUME Init PROVE Types
  OBVIOUS
<1> USE WorkerAssumption DEF Init
<1>1. TypeOK
  <2>1. 0 \in 0 .. MaxConns /\ 0 \in 0 .. MaxFrames /\ 0 \in 0 .. Timeout /\ 0 \in 0 .. MaxSleeps
    OBVIOUS
  <2>2. events \in Seq(EventTypes) /\ Len(events) <= EvCap OBVIOUS
  <2>3. jobs \in [Delays -> Nat] /\ batch \in Nat OBVIOUS
  <2>4. conn \in 0 .. conns OBVIOUS
  <2> QED BY <2>1, <2>2, <2>3, <2>4 DEF TypeOK
<1>2. PcOK BY DEF PcOK, Connecting
<1> QED BY <1>1, <1>2 DEF Types

\* TypeOK is an invariant; in particular the event queue never holds more than
\* its capacity, although the Loop fills it too.
THEOREM TypeCorrect == Spec => []TypeOK
<1>1. Types => TypeOK BY DEF Types
<1> QED BY <1>1, TypeInit, TypeStep, PTL DEF Spec

----------------------------------------------------------------------------
(* The lock, and Stop. *)

\* A step of the Loop that takes the lock when it is free, or has it.
LEMMA LoopLock ==
    ASSUME Types, Locked, Dialling, UNCHANGED <<reader, stop>>,
           \/ UNCHANGED <<lock, loop>>
           \/ loop' \in Unlocked /\ lock' = lock
           \/ loop \in Unlocked /\ loop' \in Checking /\ lock = "free" /\ lock' = "loop"
           \/ loop \in Checking \cup Connecting /\ loop' \in Checking /\ lock' = lock
           \/ loop \in Checking \cup Connecting /\ loop' \in Unlocked /\ lock' = "free"
           \/ loop \in Checking /\ stop # "end" /\ loop' \in Connecting /\ lock' = lock
           \/ loop \in Connecting /\ loop' \in Connecting /\ lock' = lock,
           conn' = conn \/ conn' = 0 \/ loop \in Connecting
    PROVE  Locked' /\ Dialling'
<1> USE DEF Types, Unlocked, Checking, Connecting
<1>1. loop \in Checking \cup Connecting =>
        lock = "loop" /\ stop # "push" /\ \A r \in Readers : reader[r] # "push"
  BY DEF Locked
<1>2. lock = "free" => stop # "push" /\ \A r \in Readers : reader[r] # "push"
  BY DEF Locked
<1>3. stop \in {"idle", "push", "end"} BY DEF TypeOK
<1> QED BY <1>1, <1>2, <1>3 DEF Locked, Dialling

\* A reader goes on without the lock.
LEMMA ReaderUnlocked ==
    ASSUME Types, Locked, Dialling, UNCHANGED <<loop, lock, stop>>,
           NEW r \in Readers, NEW pc, pc # "push", reader' = [reader EXCEPT ![r] = pc],
           conn' = conn \/ conn' = 0
    PROVE  Locked' /\ Dialling'
<1>1. \A q \in Readers : reader'[q] = "push" => reader[q] = "push" BY DEF Types, PcOK
<1> QED BY <1>1 DEF Locked, Dialling

\* The Loop.
LEMMA LockLoop ==
    ASSUME Types, Locked, Dialling,
           TakeEvent \/ TakeTick \/ TakeWrite \/ DialFail \/ DialOk \/ LoopStep
    PROVE  Locked' /\ Dialling'
<1> USE DEF Unlocked, Checking, Connecting, clientVars, readerVars
<1>1. CASE TakeEvent \/ TakeTick \/ TakeWrite
  BY <1>1, LoopLock DEF TakeEvent, TakeTick, TakeWrite
<1>2. CASE Dispatch
  <2>1. /\ loop = "dispatch" /\ loop' = "select"
        /\ UNCHANGED <<conn, stop, lock>>
    BY <1>2 DEF Dispatch
  <2>2. \A r \in Readers : reader'[r] = "push" => reader[r] = "push"
    <3>1. reader' = reader \/ \E r \in Readers : reader' = [reader EXCEPT ![r] = "call"]
      BY <1>2 DEF Dispatch
    <3> QED BY <3>1 DEF Types, PcOK
  <2> QED BY <2>1, <2>2 DEF Locked, Dialling
<1>3. CASE DoTicker BY <1>3, LoopLock DEF DoTicker
<1>4. CASE AlivePush
  <2>1. UNCHANGED <<reader, stop, conn, lock>> BY <1>4 DEF AlivePush
  <2>2. \/ loop = "alivePush" /\ loop' = "keepAlive"
        \/ loop = "writePush" /\ loop' = "write"
    BY <1>4 DEF AlivePush
  <2> QED BY <2>1, <2>2, LoopLock
<1>5. CASE WriteCheck \/ WriteMsg \/ KeepAlivePanic \/ JobPanic \/ LoopDone
  BY <1>5, LoopLock DEF WriteCheck, WriteMsg, KeepAlivePanic, JobPanic, LoopDone
<1>6. CASE CheckJobber \/ JobDissed \/ DialFail \/ ConnPush
  <2>1. loop \in Checking \cup Connecting /\ UNCHANGED <<reader, stop, conn>>
    BY <1>6 DEF CheckJobber, JobDissed, DialFail, ConnPush
  <2>2. (loop' = "select" /\ lock' = "free") \/ (loop' = "jobs" /\ lock' = lock)
    BY <1>6 DEF CheckJobber, JobDissed, DialFail, ConnPush, JobsLeft
  <2> QED BY <2>1, <2>2, LoopLock
<1>7. CASE JobClose
  <2>1. loop = "jobs" /\ stop # "end" /\ UNCHANGED <<reader, stop, lock>>
    BY <1>7 DEF JobClose, ClientNil
  <2>2. loop' \in {"dial", "closePush"} /\ (conn' = conn \/ conn' = 0)
    BY <1>7 DEF JobClose, ClientClose
  <2> QED BY <2>1, <2>2, LoopLock
<1>8. CASE ClosePush \/ DialOk BY <1>8, LoopLock DEF ClosePush, DialOk
<1> QED BY <1>1, <1>2, <1>3, <1>4, <1>5, <1>6, <1>7, <1>8 DEF LoopStep

\* The readers.
LEMMA LockReader ==
    ASSUME Types, Locked, Dialling, NEW r \in Readers,
           \/ ReadData(r) \/ ReaderStep(r)
           \/ \E f \in {"pong", "okay", "deny", "sign", "left"} : ReadControl(r, f)
    PROVE  Locked' /\ Dialling'
<1> USE DEF clientVars, loopVars, Goto, Done
<1>1. CASE ReadData(r) \/ ReadCall(r) \/ ReadError(r)
  BY <1>1, ReaderUnlocked DEF ReadData, ReadCall, ReadError
<1>2. ASSUME NEW f \in {"pong", "okay", "deny", "sign", "left"}, ReadControl(r, f)
      PROVE  Locked' /\ Dialling'
  BY <1>2, ReaderUnlocked DEF ReadControl
<1>3. CASE OnInstruct(r)
  <2>1. lock = "free" /\ UNCHANGED <<loop, stop>> /\ (conn' = conn \/ conn' = 0)
    BY <1>3 DEF OnInstruct, ClientClose
  <2>2. \/ reader' = [reader EXCEPT ![r] = "call"] /\ lock' = lock
        \/ reader' = [reader EXCEPT ![r] = "push"] /\ lock' = "reader"
    BY <1>3 DEF OnInstruct
  <2>3. CASE reader' = [reader EXCEPT ![r] = "call"] /\ lock' = lock
    BY <2>1, <2>3, ReaderUnlocked
  <2>4. CASE reader' = [reader EXCEPT ![r] = "push"] /\ lock' = "reader"
    <3>1. /\ loop \notin Checking \cup Connecting /\ stop # "push"
          /\ \A q \in Readers : reader[q] # "push"
      BY <2>1 DEF Locked
    <3>2. \A q \in Readers : reader'[q] = "push" => q = r BY <2>4, <3>1 DEF Types, PcOK
    <3> QED BY <2>1, <2>4, <3>1, <3>2 DEF Locked, Dialling
  <2> QED BY <2>2, <2>3, <2>4
<1>4. CASE ReaderPush(r)
  <2>1. /\ reader[r] = "push" /\ reader' = [reader EXCEPT ![r] = "call"] /\ lock' = "free"
        /\ UNCHANGED <<conn, loop, stop>>
    BY <1>4 DEF ReaderPush
  <2>2. lock = "reader" /\ \A q \in Readers : reader[q] = "push" => q = r BY <2>1 DEF Locked
  <2>3. loop \notin Checking \cup Connecting /\ stop # "push" BY <2>2 DEF Locked
  <2>4. \A q \in Readers : reader'[q] # "push" BY <2>1, <2>2 DEF Types, PcOK
  <2> QED BY <2>1, <2>3, <2>4 DEF Locked, Dialling
<1>5. CASE ReaderClose(r) BY <1>5, ReaderUnlocked DEF ReaderClose, ClientClose
<1>6. CASE ReaderClosed(r) \/ ReaderRecon(r)
  BY <1>6, ReaderUnlocked DEF ReaderClosed, ReaderRecon
<1>7. CASE ReaderPanic(r)
  <2>1. /\ lock = "free" /\ lock' = "reader" /\ reader' = [reader EXCEPT ![r] = "end"]
        /\ UNCHANGED <<conn, loop, stop>>
    BY <1>7 DEF ReaderPanic
  <2>2. /\ loop \notin Checking \cup Connecting /\ stop # "push"
        /\ \A q \in Readers : reader[q] # "push"
    BY <2>1 DEF Locked
  <2>3. \A q \in Readers : reader'[q] # "push" BY <2>1, <2>2 DEF Types, PcOK
  <2> QED BY <2>1, <2>2, <2>3 DEF Locked, Dialling
<1> QED BY <1>1, <1>2, <1>3, <1>4, <1>5, <1>6, <1>7 DEF ReaderStep

\* The lock protects the Loop's connections from Stop.
LEMMA LockStep == Types /\ Locked /\ Dialling /\ [Next]_vars => Locked' /\ Dialling'
<1> SUFFICES ASSUME Types, Locked, Dialling, [Next]_vars PROVE Locked' /\ Dialling'
  OBVIOUS
<1> USE DEF clientVars, loopVars, readerVars
<1>1. CASE Tick \/ ConnLost \/ UNCHANGED vars
  <2>1. UNCHANGED <<conn, loop, lock, stop, reader>> BY <1>1 DEF Tick, ConnLost, vars
  <2> QED BY <2>1 DEF Locked, Dialling
<1>2. CASE StopBegin
  <2>1. lock = "free" /\ conn' = 0 /\ UNCHANGED <<loop, reader>>
    BY <1>2 DEF StopBegin
  <2>2. (stop' = "end" /\ lock' = "free") \/ (stop' = "push" /\ lock' = "stop")
    BY <1>2, <2>1 DEF StopBegin
  <2>3. /\ loop \notin Checking \cup Connecting
        /\ \A q \in Readers : reader[q] # "push"
    BY <2>1 DEF Locked
  <2> QED BY <2>1, <2>2, <2>3 DEF Locked, Dialling
<1>3. CASE StopEnd
  <2>1. lock = "stop" /\ UNCHANGED <<conn, loop, reader>> /\ stop = "push" /\ stop' = "end"
    BY <1>3 DEF StopEnd, Locked
  <2>2. /\ loop \notin Checking \cup Connecting
        /\ \A q \in Readers : reader[q] # "push"
    BY <2>1 DEF Locked
  <2> QED BY <2>1, <2>2 DEF Locked, Dialling
<1> QED BY <1>1, <1>2, <1>3, LockLoop, LockReader DEF Next

\* Nothing is stopped in the beginning, and Start has the lock.
LEMMA LockInit == Init => Locked /\ Dialling
BY DEF Init, Locked, Dialling

\* Stop is final: no event, job or reader that is left makes a connection
\* (StaysStopped).
THEOREM StopIsFinal == Spec => []StaysStopped
<1>1. Dialling => StaysStopped BY DEF Dialling, StaysStopped
<1>2. Types /\ Locked /\ Dialling /\ [Next]_vars => (Types /\ Locked /\ Dialling)'
  BY TypeStep, LockStep
<1> QED BY <1>1, <1>2, TypeInit, LockInit, PTL DEF Spec

----------------------------------------------------------------------------
(* Readers of the connection. *)

\* Who will read the connection is still there.
LEMMA ReadStep == Types /\ Dialling /\ Read /\ [Next]_vars => Read'
<1> SUFFICES ASSUME Types, Dialling, Read, [Next]_vars, conn' # 0
             PROVE  \/ loop' = "connPush" \/ event' = "conned" \/ Awaited'
                    \/ \E r \in Readers : reader'[r] \in Readable
  BY DEF Read
<1> USE DEF clientVars, loopVars, readerVars
<1>s. ASSUME conn' = conn, loop # "connPush", UNCHANGED <<event, reader>>, Awaited => Awaited'
      PROVE  \/ event' = "conned" \/ Awaited'
             \/ \E r \in Readers : reader'[r] \in Readable
  BY <1>s DEF Read
<1>e. events' = events => (Awaited => Awaited') BY DEF Awaited
<1>p. ASSUME NEW e \in EventTypes, Push(e)
      PROVE  (Awaited => Awaited') /\ (e = "conned" => Awaited')
  <2>1. Len(events) < EvCap /\ events' = Append(events, e) BY <1>p DEF Push, Room
  <2>2. TypeOK BY DEF Types
  <2> QED BY <2>1, <2>2, PushFacts
<1>t. "closed" \in EventTypes /\ "conned" \in EventTypes
      /\ "reconRead" \in EventTypes /\ "reconAlive" \in EventTypes
  BY DEF EventTypes
<1>1. CASE Tick \/ ConnLost \/ UNCHANGED vars
  <2>1. UNCHANGED <<conn, loop, events, event, reader>> BY <1>1 DEF Tick, ConnLost, vars
  <2> QED BY <1>e, <2>1 DEF Read
<1>2. CASE StopBegin BY <1>2 DEF StopBegin
<1>3. CASE StopEnd
  <2>1. UNCHANGED <<conn, loop, event, reader>> BY <1>3 DEF StopEnd
  <2>2. Push("closed") BY <1>3 DEF StopEnd
  <2>3. Awaited => Awaited' BY <1>p, <1>t, <2>2
  <2> QED BY <2>1, <2>3 DEF Read
<1>4. CASE TakeEvent
  <2>1. loop = "select" /\ event' = Head(events) /\ UNCHANGED <<conn, reader>> BY <1>4 DEF TakeEvent
  <2>2. event = "none" BY <2>1 DEF Types, TypeOK
  <2>3. Awaited => Awaited' \/ event' = "conned" BY <1>4, <2>1, TakeFacts DEF TakeEvent, Types
  <2> QED BY <2>1, <2>2, <2>3 DEF Read
<1>5. CASE Dispatch
  <2>1. conn' = conn /\ loop = "dispatch" /\ events' = events BY <1>5 DEF Dispatch
  <2>2. CASE event = "conned"
    <3>1. stop # "end" BY <2>1 DEF Dialling
    <3>2. PICK r \in Readers : reader' = [reader EXCEPT ![r] = "call"]
      BY <1>5, <2>2, <3>1 DEF Dispatch, ClientNil
    <3>3. reader'[r] \in Readable BY <3>2 DEF Types, PcOK, Readable
    <3> QED BY <3>3
  <2>3. CASE event # "conned"
    <3>1. reader' = reader BY <1>5, <2>3 DEF Dispatch
    <3> QED BY <1>e, <2>1, <2>3, <3>1 DEF Read
  <2> QED BY <2>2, <2>3
<1>6. CASE TakeTick \/ TakeWrite \/ DoTicker \/ WriteCheck \/ WriteMsg \/ KeepAlivePanic \/ LoopDone
  BY <1>6, <1>s, <1>e DEF TakeTick, TakeWrite, DoTicker, WriteCheck, WriteMsg, KeepAlivePanic, LoopDone
<1>7. CASE CheckJobber \/ JobDissed \/ JobPanic \/ DialFail
  BY <1>7, <1>s, <1>e DEF CheckJobber, JobDissed, JobPanic, DialFail
<1>8. CASE JobClose
  BY <1>8, <1>s, <1>e DEF JobClose, ClientClose
<1>9. CASE AlivePush \/ ClosePush
  <2>1. conn' = conn /\ loop # "connPush" /\ UNCHANGED <<event, reader>>
    BY <1>9 DEF AlivePush, ClosePush
  <2>2. Push("reconAlive") \/ Push("closed") BY <1>9 DEF AlivePush, ClosePush
  <2>3. Awaited => Awaited' BY <1>p, <1>t, <2>2
  <2> QED BY <1>s, <2>1, <2>3
<1>10. CASE DialOk BY <1>10 DEF DialOk
<1>11. CASE ConnPush
  <2>1. Push("conned") BY <1>11 DEF ConnPush
  <2> QED BY <1>p, <1>t, <2>1
<1>12. ASSUME NEW r \in Readers, NEW pc \in Readable, reader' = [reader EXCEPT ![r] = pc]
       PROVE  \E q \in Readers : reader'[q] \in Readable
  BY <1>12 DEF Types, PcOK
<1>13. ASSUME NEW r \in Readers, ReadData(r) \/ ReadCall(r) \/ ReadError(r)
       PROVE  \E q \in Readers : reader'[q] \in Readable
  BY <1>12, <1>13 DEF ReadData, ReadCall, ReadError, Goto, Readable
<1>14. ASSUME NEW r \in Readers, NEW f, ReadControl(r, f)
       PROVE  \E q \in Readers : reader'[q] \in Readable
  BY <1>12, <1>14 DEF ReadControl, Goto, Readable
<1>15. ASSUME NEW r \in Readers, OnInstruct(r) \/ ReaderPush(r)
       PROVE  \E q \in Readers : reader'[q] \in Readable
  <2>1. \E pc \in {"call", "push"} : reader' = [reader EXCEPT ![r] = pc]
    BY <1>15 DEF OnInstruct, ReaderPush, Done, Goto
  <2> QED BY <1>12, <2>1 DEF Readable
<1>16. ASSUME NEW r \in Readers, ReaderClose(r) PROVE FALSE
  BY <1>16 DEF ReaderClose, ClientClose
<1>17. ASSUME NEW r \in Readers, ReaderPanic(r) PROVE FALSE
  BY <1>17 DEF ReaderPanic, ClientNil, Dialling
<1>18. ASSUME NEW r \in Readers, ReaderClosed(r) \/ ReaderRecon(r)
       PROVE  \/ loop' = "connPush" \/ event' = "conned" \/ Awaited'
              \/ \E q \in Readers : reader'[q] \in Readable
  <2>1. UNCHANGED <<conn, loop, event>> BY <1>18 DEF ReaderClosed, ReaderRecon
  <2>2. \A q \in Readers : reader[q] \in Readable => reader'[q] \in Readable
    BY <1>18 DEF ReaderClosed, ReaderRecon, Goto, Types, PcOK, Readable
  <2>3. events' = events \/ Push("closed") \/ Push("reconRead")
    BY <1>18 DEF ReaderClosed, ReaderRecon
  <2>4. Awaited => Awaited'
    BY <2>3, <1>e, <1>p, <1>t
  <2> QED BY <2>1, <2>2, <2>4 DEF Read
<1> QED BY <1>1, <1>2, <1>3, <1>4, <1>5, <1>6, <1>7, <1>8, <1>9, <1>10, <1>11,
           <1>13, <1>14, <1>15, <1>16, <1>17, <1>18
        DEF Next, LoopStep, ReaderStep

\* An event that waits is one that is counted.
LEMMA AwaitedQueued == TypeOK => (Awaited <=> Queued({"conned"}) > 0)
<1> SUFFICES ASSUME TypeOK PROVE Awaited <=> Queued({"conned"}) > 0
  OBVIOUS
<1> DEFINE At == {i \in 1 .. Len(events) : events[i] \in {"conned"}}
<1>1. Len(events) \in Nat BY DEF TypeOK
<1>2. IsFiniteSet(1 .. Len(events)) BY <1>1, FS_Interval
<1>3. IsFiniteSet(At) BY <1>2, FS_Subset
<1>4. Cardinality(At) \in Nat /\ (Cardinality(At) = 0 <=> At = {})
  BY <1>3, FS_CardinalityType, FS_EmptySet
<1>5. Awaited <=> At # {} BY DEF Awaited
<1>6. Queued({"conned"}) = Cardinality(At) BY DEF Queued
<1> HIDE DEF At
<1> QED BY <1>4, <1>5, <1>6

\* There is no connection in the beginning; afterwards each step keeps one
\* attended.
LEMMA InvAlways == Spec => []Inv
<1>1. Init => Inv BY TypeInit, LockInit DEF Inv, Types, Init, Read
<1>2. Inv /\ [Next]_vars => Inv'
  BY TypeStep, LockStep, ReadStep DEF Inv, Types
<1> QED BY <1>1, <1>2, PTL DEF Spec

\* A connection has a reader that has not failed, one that will close it, or
\* an event that starts one (Attended).
THEOREM ConnAttended == Spec => []Attended
<1>1. Inv => Attended
  BY AwaitedQueued DEF Inv, Read, Readable, Attended
<1> QED BY <1>1, InvAlways, PTL
=============================================================================
