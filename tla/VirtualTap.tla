----------------------------- MODULE VirtualTap -----------------------------
(***************************************************************************)
(* The in-process tap device of a session on the switch                    *)
(* (pkg/network/tap_virtual.go): two bounded queues between the session    *)
(* and the virtual bridge,                                                 *)
(*                                                                         *)
(*    "kern"  Send (bridge, flooding ports)  -->  Read (reader of ReadTap) *)
(*    "virt"  Write (worker of the session)  -->  Recv (port of a bridge)  *)
(*                                                                         *)
(* A producer checks a counter, adds to it and sends to the channel, all   *)
(* with the device's lock held; a consumer checks the flags with the lock, *)
(* receives without it and takes it again to subtract from the counter.    *)
(* What the reader of ReadTap reads goes through one more queue to ReadTap *)
(* itself, which sends it to the point (Switch.ReadTap).  The device is    *)
(* brought up once, and closed by the Loop that closes the client and by   *)
(* ReadTap, whichever is first.                                            *)
(***************************************************************************)
EXTENDS Integers, FiniteSets

CONSTANTS
    Producers,   \* goroutines that call Send or Write
    DirOf,       \* the queue a producer fills
    Buf,         \* KernBuf and VirBuf, the capacities
    TapWr        \* capacity of the queue of ReadTap

Dirs == {"kern", "virt"}
Closers == {"loop", "readTap"}

ASSUME TapAssumption ==
    /\ DirOf \in [Producers -> Dirs]
    /\ Buf \in [Dirs -> Nat]
    /\ TapWr \in Nat

VARIABLES
    up,         \* flag UsUp
    made,       \* have the channels been made
    closed,     \* flag UsClose
    count,      \* kernC and virtC
    queue,      \* number of frames in the channels
    sending,    \* producers inside Send or Write: they hold the lock
    consumer,   \* pc of the goroutine that reads a queue
    closer,     \* pc of the goroutines inside Close
    readTap,    \* pc of ReadTap
    frames      \* number of frames in the queue of ReadTap

readTapVars == <<readTap, frames>>
vars == <<up, made, closed, count, queue, sending, consumer, closer, readTapVars>>

Init ==
    /\ up = FALSE /\ made = FALSE /\ closed = FALSE
    /\ count = [d \in Dirs |-> 0]
    /\ queue = [d \in Dirs |-> 0]
    /\ sending = {}
    /\ consumer = [d \in Dirs |-> "none"]
    /\ closer = [k \in Closers |-> "idle"]
    /\ readTap = "none" /\ frames = 0

Unlocked == sending = {}

\* NewTap brings the device up, and the consumers are started after it.
Up ==
    /\ ~made /\ Unlocked
    /\ count' = [d \in Dirs |-> 0]
    /\ queue' = [d \in Dirs |-> 0]
    /\ made' = TRUE
    /\ up' = TRUE
    /\ consumer' = [d \in Dirs |-> "call"]
    /\ readTap' = "run"
    /\ UNCHANGED <<closed, sending, closer, frames>>

----------------------------------------------------------------------------
(* Send and Write. *)

\* Mutant: one frame more than the channel holds.
RoomOffByOne(d) == count[d] <= Buf[d]

\* The counter, not the channel, tells whether the frame is dropped.
Room(d) == count[d] < Buf[d]

\* A frame is refused when the device is down and dropped when there is no
\* room; otherwise it is counted.
SendBegin(p) ==
    /\ Unlocked /\ up
    /\ Room(DirOf[p])
    /\ count' = [count EXCEPT ![DirOf[p]] = @ + 1]
    /\ sending' = {p}
    /\ UNCHANGED <<up, made, closed, queue, consumer, closer, readTapVars>>

\* The send to the channel blocks, with the lock held, while it is full.
SendEnd(p) ==
    /\ p \in sending
    /\ queue[DirOf[p]] < Buf[DirOf[p]]
    /\ queue' = [queue EXCEPT ![DirOf[p]] = @ + 1]
    /\ sending' = {}
    /\ UNCHANGED <<up, made, closed, count, consumer, closer, readTapVars>>

----------------------------------------------------------------------------
(* Read and Recv, and the loops that call them. *)

Goto(d, pc) == consumer' = [consumer EXCEPT ![d] = pc]

\* The flags are checked with the lock; a device that is down ends the loop
\* of the caller, and the reader of ReadTap tells ReadTap.
ReadCheck(d) ==
    /\ consumer[d] = "call" /\ Unlocked
    /\ Goto(d, IF up THEN "checked" ELSE "end")
    /\ UNCHANGED <<up, made, closed, count, queue, sending, closer, readTapVars>>

\* The field that holds the channel is read without the lock: Down may have
\* set it to nil meanwhile, and a receive from nil never returns.
ReadChannel(d) ==
    /\ consumer[d] = "checked"
    /\ Goto(d, IF up THEN "receive" ELSE "stuck")
    /\ UNCHANGED <<up, made, closed, count, queue, sending, closer, readTapVars>>

\* Mutant: the frame is taken whether it is there or not.
ReceiveFrameUnguarded(d) ==
    /\ consumer[d] = "receive"
    /\ queue' = [queue EXCEPT ![d] = @ - 1]
    /\ Goto(d, "received")
    /\ UNCHANGED <<up, made, closed, count, sending, closer, readTapVars>>

ReceiveFrame(d) ==
    /\ consumer[d] = "receive" /\ queue[d] > 0
    /\ queue' = [queue EXCEPT ![d] = @ - 1]
    /\ Goto(d, "received")
    /\ UNCHANGED <<up, made, closed, count, sending, closer, readTapVars>>

\* Mutant: a closed channel wakes nobody.
ReceiveClosedNever(d) == FALSE /\ UNCHANGED vars

\* An empty channel that is closed yields nil at once: zero bytes are read.
ReceiveClosed(d) ==
    /\ consumer[d] = "receive" /\ queue[d] = 0 /\ ~up
    /\ Goto(d, "nil")
    /\ UNCHANGED <<up, made, closed, count, queue, sending, closer, readTapVars>>

\* What the caller does next: the port hands the frame to the bridge and ends
\* when it has read zero bytes; the reader of ReadTap passes anything on.
After(d) == CASE d = "kern" -> "push"
              [] d = "virt" -> IF consumer[d] = "nil" THEN "end" ELSE "call"

\* Mutant: the counter is left alone.
ReadEndUncounted(d) ==
    /\ consumer[d] \in {"received", "nil"} /\ Unlocked
    /\ Goto(d, After(d))
    /\ UNCHANGED <<up, made, closed, count, queue, sending, closer, readTapVars>>

\* The lock again, to count the frame out.
ReadEnd(d) ==
    /\ consumer[d] \in {"received", "nil"} /\ Unlocked
    /\ count' = [count EXCEPT ![d] = @ - 1]
    /\ Goto(d, After(d))
    /\ UNCHANGED <<up, made, closed, queue, sending, closer, readTapVars>>

\* The reader of ReadTap waits for room in the queue.
ReaderPush ==
    /\ consumer["kern"] = "push" /\ frames < TapWr
    /\ frames' = frames + 1
    /\ Goto("kern", "call")
    /\ UNCHANGED <<up, made, closed, count, queue, sending, closer, readTap>>

\* ReadTap sends a frame to the point.
ReadTapSend ==
    /\ readTap = "run" /\ frames > 0
    /\ frames' = frames - 1
    /\ UNCHANGED <<up, made, closed, count, queue, sending, consumer, closer, readTap>>

\* ReadTap fails to send a frame: its deferred Close is next.
ReadTapFail ==
    /\ readTap = "run" /\ frames > 0
    /\ frames' = frames - 1
    /\ readTap' = "close"
    /\ UNCHANGED <<up, made, closed, count, queue, sending, consumer, closer>>

\* ReadTap takes the done token of its reader.
ReadTapDone ==
    /\ readTap = "run" /\ consumer["kern"] = "end"
    /\ readTap' = "close"
    /\ UNCHANGED <<up, made, closed, count, queue, sending, consumer, closer, frames>>

----------------------------------------------------------------------------
(* Close, by the Loop (cache.Point.Del) and by ReadTap. *)

MayClose(k) == CASE k = "loop" -> made
                 [] k = "readTap" -> readTap = "close"

\* Mutant: the lock is not taken.
DownUnlocked(k) ==
    /\ closer[k] = "idle" /\ MayClose(k)
    /\ up' = FALSE
    /\ closer' = [closer EXCEPT ![k] = "down"]
    /\ UNCHANGED <<made, closed, count, queue, sending, consumer, readTapVars>>

\* Down: the channels are closed and forgotten, unless they are already.
Down(k) ==
    /\ closer[k] = "idle" /\ MayClose(k) /\ Unlocked
    /\ up' = FALSE
    /\ closer' = [closer EXCEPT ![k] = "down"]
    /\ UNCHANGED <<made, closed, count, queue, sending, consumer, readTapVars>>

\* The rest of Close: the first that comes here releases the port of the
\* bridge and the name of the device (VirtualBridge).
CloseEnd(k) ==
    /\ closer[k] = "down" /\ Unlocked
    /\ closed' = TRUE
    /\ closer' = [closer EXCEPT ![k] = "end"]
    /\ UNCHANGED <<up, made, count, queue, sending, consumer, readTapVars>>

----------------------------------------------------------------------------
Consume(d) == \/ ReadCheck(d) \/ ReadChannel(d) \/ ReceiveFrame(d)
              \/ ReceiveClosed(d) \/ ReadEnd(d)

ReadTap == ReadTapSend \/ ReadTapFail \/ ReadTapDone

Next ==
    \/ Up \/ ReaderPush \/ ReadTap
    \/ \E p \in Producers : SendBegin(p) \/ SendEnd(p)
    \/ \E d \in Dirs : Consume(d)
    \/ \E k \in Closers : Down(k) \/ CloseEnd(k)

Spec == Init /\ [][Next]_vars

\* The runtime runs what can run, and a mutex in use is handed on (Go's
\* mutexes switch to starvation mode): a goroutine that asks for the lock
\* again and again gets it.
FairSpec ==
    /\ Spec
    /\ WF_vars(ReaderPush) /\ WF_vars(ReadTap)
    /\ \A p \in Producers : WF_vars(SendEnd(p))
    /\ \A d \in Dirs : SF_vars(Consume(d))
    /\ SF_vars(Down("readTap"))
    /\ \A k \in Closers : SF_vars(CloseEnd(k))

----------------------------------------------------------------------------
(* Properties. *)

ConsumerPcs == {"none", "call", "checked", "receive", "received", "nil", "push", "end", "stuck"}

\* The values of the flags, counters and program counters.
TypeOK ==
    /\ up \in BOOLEAN /\ made \in BOOLEAN /\ closed \in BOOLEAN
    /\ count \in [Dirs -> Int]
    /\ queue \in [Dirs -> Nat]
    /\ sending \in SUBSET Producers
    /\ consumer \in [Dirs -> ConsumerPcs]
    /\ closer \in [Closers -> {"idle", "down", "end"}]
    /\ readTap \in {"none", "run", "close"}
    /\ frames \in Nat

\* A producer that has passed the counter finds room in the channel, so that it
\* never waits with the lock of the device held: a full queue cannot stop the
\* bridge, the session and the close of the device (Send, Write).
NeverBlocksLocked == \A p \in sending : queue[DirOf[p]] < Buf[DirOf[p]]

\* No frame is sent to a channel that Down has closed, which would panic.
NoSendOnClosed == sending # {} => up

\* A producer inside Send or Write leaves with the lock (tap_virtual.go:134-187):
\* it neither waits for room nor sends to a channel that Down has closed.
ProducersSafe == NeverBlocksLocked /\ NoSendOnClosed

\* Frames a consumer has taken out of the channel and not counted out yet.
Taken(d) == IF consumer[d] = "received" THEN 1 ELSE 0

\* Frames a producer has counted in and not sent yet.
Entering(d) == IF \E p \in sending : DirOf[p] = d THEN 1 ELSE 0

\* While the device is up its counter is exact: every free place of a queue
\* can be used again, however reads and writes interleave.
CountExact == up => \A d \in Dirs : count[d] = queue[d] + Taken(d) + Entering(d)

\* A goroutine that Close leaves behind for good: it had checked the flags and
\* then found no channel, or it waits for a ReadTap that has ended.
Abandoned(d) ==
    \/ consumer[d] = "stuck"
    \/ consumer[d] = "push" /\ frames = TapWr /\ readTap = "close"

\* After Down a consumer drains the closed channel and ends, but for the two
\* ways in which it is left behind; none waits on the channel itself.
ConsumersReleased ==
    \A d \in Dirs : (made /\ ~up) ~> (consumer[d] = "end" \/ Abandoned(d))
=============================================================================
