-------------------------- MODULE VirtualTapProofs --------------------------
(***************************************************************************)
(* For every number of producers and every capacity: no producer waits for *)
(* room in a channel with the lock of the device held, none sends to a     *)
(* closed channel, and the counters are exact while the device is up.      *)
(*                                                                         *)
(* NeverBlocksLocked is not inductive: it follows from the counter being   *)
(* exact and bounded, and the counter is exact only because one producer   *)
(* at a time is inside Send or Write, because Down waits for it, and       *)
(* because a consumer that was woken by the close of a channel, and counts *)
(* a frame out that was never counted in, runs when the device is down.    *)
(***************************************************************************)
EXTENDS VirtualTap, TLAPS

\* The lock: one goroutine is inside Send or Write.
OneSender == \A p, q \in sending : p = q

\* The counter never passes the capacity of its queue.
CountBounded == up => \A d \in Dirs : count[d] <= Buf[d]

\* Only a closed channel yields nil.
NilWhenDown == up => \A d \in Dirs : consumer[d] # "nil"

Inv ==
    /\ TypeOK
    /\ OneSender
    /\ NoSendOnClosed
    /\ CountExact
    /\ CountBounded
    /\ NilWhenDown

\* A producer inside Send or Write finds room: its own frame is counted and
\* the counter is at most the capacity.
LEMMA InvNeverBlocks == Inv => NeverBlocksLocked
<1> SUFFICES ASSUME Inv, NEW p \in sending
             PROVE  queue[DirOf[p]] < Buf[DirOf[p]]
    BY DEF NeverBlocksLocked
<1>1. p \in Producers /\ DirOf[p] \in Dirs
    BY TapAssumption DEF Inv, TypeOK
<1> DEFINE d == DirOf[p]
<1>2. up
    BY DEF Inv, NoSendOnClosed
<1>3. count[d] = queue[d] + Taken(d) + Entering(d) /\ count[d] <= Buf[d]
    BY <1>1, <1>2 DEF Inv, CountExact, CountBounded
<1>4. Entering(d) = 1
    BY DEF Entering
<1>5. Taken(d) \in {0, 1}
    BY DEF Taken
<1>6. queue[d] \in Nat /\ Buf[d] \in Nat /\ count[d] \in Int
    BY <1>1, TapAssumption DEF Inv, TypeOK
<1> QED
    BY <1>3, <1>4, <1>5, <1>6

\* The device starts down, with empty queues.
LEMMA InvInit == Init => Inv
<1> SUFFICES ASSUME Init
             PROVE  Inv
    OBVIOUS
<1>1. count \in [Dirs -> Int] /\ queue \in [Dirs -> Nat] /\ frames \in Nat
    BY DEF Init
<1>2. consumer \in [Dirs -> ConsumerPcs] /\ closer \in [Closers -> {"idle", "down", "end"}]
    BY DEF Init, ConsumerPcs
<1>3. TypeOK
    BY <1>1, <1>2 DEF Init, TypeOK
<1> QED
    BY <1>3 DEF Init, Inv, OneSender, NoSendOnClosed, CountExact, CountBounded, NilWhenDown

\* Bringing the device up makes empty channels and resets the counters.
LEMMA UpInv == Inv /\ Up => Inv'
<1> SUFFICES ASSUME Inv, Up
             PROVE  Inv'
    OBVIOUS
<1> USE DEF Up, Unlocked
<1>1. TypeOK'
    BY DEF Inv, TypeOK, Dirs, ConsumerPcs
<1>2. sending' = {}
    OBVIOUS
<1>3. OneSender' /\ NoSendOnClosed'
    BY <1>2 DEF OneSender, NoSendOnClosed
<1>4. ASSUME NEW d \in Dirs
      PROVE  count'[d] = 0 /\ queue'[d] = 0 /\ consumer'[d] = "call"
    BY <1>4
<1>5. CountExact'
    BY <1>2, <1>4 DEF CountExact, Taken, Entering
<1>6. CountBounded'
    BY <1>4, TapAssumption DEF CountBounded
<1>7. NilWhenDown'
    BY <1>4 DEF NilWhenDown
<1> QED
    BY <1>1, <1>3, <1>5, <1>6, <1>7 DEF Inv

\* A producer counts its frame only when the lock is free and there is room.
LEMMA SendBeginInv == ASSUME NEW p \in Producers, Inv, SendBegin(p) PROVE Inv'
<1> USE DEF SendBegin, Unlocked, readTapVars
<1> DEFINE e == DirOf[p]
<1>1. e \in Dirs /\ Buf[e] \in Nat
    BY TapAssumption
<1>2. count \in [Dirs -> Int] /\ queue \in [Dirs -> Nat]
    BY DEF Inv, TypeOK
<1>3. TypeOK'
    BY <1>1 DEF Inv, TypeOK
<1>4. OneSender' /\ NoSendOnClosed'
    BY DEF OneSender, NoSendOnClosed
<1>5. ASSUME NEW d \in Dirs
      PROVE  /\ count'[d] = queue'[d] + Taken(d)' + Entering(d)'
             /\ count'[d] <= Buf[d]
    <2>1. count[d] = queue[d] + Taken(d) /\ count[d] <= Buf[d]
        <3>1. Entering(d) = 0 /\ Taken(d) \in {0, 1}
            BY DEF Entering, Taken
        <3> QED
            BY <3>1, <1>2, <1>5 DEF Inv, CountExact, CountBounded
    <2>2. Taken(d)' = Taken(d) /\ Taken(d) \in {0, 1}
        BY DEF Taken
    <2>3. CASE d = e
        <3>1. Entering(d)' = 1
            BY <2>3 DEF Entering
        <3>2. count'[d] = count[d] + 1 /\ queue'[d] = queue[d]
            BY <1>1, <1>2, <2>3
        <3>3. count[d] < Buf[d]
            BY <2>3 DEF Room
        <3> QED
            BY <1>1, <1>2, <1>5, <2>1, <2>2, <2>3, <3>1, <3>2, <3>3
    <2>4. CASE d # e
        <3>1. Entering(d)' = 0
            BY <2>4 DEF Entering
        <3>2. count'[d] = count[d] /\ queue'[d] = queue[d]
            BY <1>1, <1>2, <1>5, <2>4
        <3> QED
            BY <1>2, <1>5, <2>1, <2>2, <3>1, <3>2
    <2> QED
        BY <2>3, <2>4
<1>6. CountExact' /\ CountBounded'
    BY <1>5 DEF CountExact, CountBounded
<1>7. NilWhenDown'
    BY DEF Inv, NilWhenDown
<1> QED
    BY <1>3, <1>4, <1>6, <1>7 DEF Inv

\* The frame moves from the producer to the channel.
LEMMA SendEndInv == ASSUME NEW p \in Producers, Inv, SendEnd(p) PROVE Inv'
<1> USE DEF SendEnd, readTapVars
<1> DEFINE e == DirOf[p]
<1>1. e \in Dirs
    BY TapAssumption
<1>2. count \in [Dirs -> Int] /\ queue \in [Dirs -> Nat]
    BY DEF Inv, TypeOK
<1>3. TypeOK'
    BY <1>1, <1>2 DEF Inv, TypeOK
<1>4. OneSender' /\ NoSendOnClosed'
    BY DEF OneSender, NoSendOnClosed
<1>5. ASSUME up, NEW d \in Dirs
      PROVE  count'[d] = queue'[d] + Taken(d)' + Entering(d)'
    <2>1. count[d] = queue[d] + Taken(d) + Entering(d)
        BY <1>5 DEF Inv, CountExact
    <2>2. Taken(d)' = Taken(d) /\ Taken(d) \in {0, 1} /\ Entering(d)' = 0
        BY DEF Taken, Entering
    <2>3. CASE d = e
        <3>1. Entering(d) = 1
            BY <2>3 DEF Entering
        <3>2. count'[d] = count[d] /\ queue'[d] = queue[d] + 1
            BY <1>1, <1>2, <2>3
        <3> QED
            BY <1>2, <1>5, <2>1, <2>2, <3>1, <3>2
    <2>4. CASE d # e
        <3>1. Entering(d) = 0
            BY <2>4 DEF Entering, Inv, OneSender
        <3>2. count'[d] = count[d] /\ queue'[d] = queue[d]
            BY <1>1, <1>2, <1>5, <2>4
        <3> QED
            BY <1>2, <1>5, <2>1, <2>2, <3>1, <3>2
    <2> QED
        BY <2>3, <2>4
<1>6. CountExact'
    BY <1>5 DEF CountExact
<1>7. CountBounded' /\ NilWhenDown'
    BY DEF Inv, CountBounded, NilWhenDown
<1> QED
    BY <1>3, <1>4, <1>6, <1>7 DEF Inv

\* A consumer that moves between pcs other than "received" and "nil" changes
\* no count.
LEMMA MoveInv ==
    ASSUME Inv, NEW d \in Dirs, NEW pc \in ConsumerPcs \ {"received", "nil"},
           consumer[d] \notin {"received", "nil"},
           Goto(d, pc),
           UNCHANGED <<up, made, closed, count, queue, sending, closer, readTap>>,
           frames' \in Nat
    PROVE  Inv'
<1> USE DEF Goto
<1>1. consumer \in [Dirs -> ConsumerPcs] /\ count \in [Dirs -> Int] /\ queue \in [Dirs -> Nat]
    BY DEF Inv, TypeOK
<1>2. TypeOK'
    BY <1>1 DEF Inv, TypeOK
<1>3. OneSender' /\ NoSendOnClosed' /\ CountBounded'
    BY DEF Inv, OneSender, NoSendOnClosed, CountBounded
<1>4. NilWhenDown'
    BY <1>1 DEF Inv, NilWhenDown
<1>5. \A e \in Dirs : Taken(e)' = Taken(e) /\ Entering(e)' = Entering(e)
    BY <1>1 DEF Taken, Entering
<1>6. CountExact'
    BY <1>5 DEF Inv, CountExact
<1> QED
    BY <1>2, <1>3, <1>4, <1>6 DEF Inv

\* A frame moves from the channel to the consumer.
LEMMA ReceiveFrameInv == ASSUME NEW d \in Dirs, Inv, ReceiveFrame(d) PROVE Inv'
<1> USE DEF ReceiveFrame, Goto, readTapVars
<1>1. consumer \in [Dirs -> ConsumerPcs] /\ count \in [Dirs -> Int] /\ queue \in [Dirs -> Nat]
    BY DEF Inv, TypeOK
<1>2. TypeOK'
    <2>1. queue' \in [Dirs -> Nat]
        BY <1>1
    <2>2. consumer' \in [Dirs -> ConsumerPcs]
        BY <1>1 DEF ConsumerPcs
    <2> QED
        BY <2>1, <2>2 DEF Inv, TypeOK
<1>3. OneSender' /\ NoSendOnClosed' /\ CountBounded'
    BY DEF Inv, OneSender, NoSendOnClosed, CountBounded
<1>4. NilWhenDown'
    BY <1>1 DEF Inv, NilWhenDown
<1>5. ASSUME up, NEW e \in Dirs
      PROVE  count'[e] = queue'[e] + Taken(e)' + Entering(e)'
    <2>1. count[e] = queue[e] + Taken(e) + Entering(e)
        BY <1>5 DEF Inv, CountExact
    <2>2. Entering(e)' = Entering(e) /\ Entering(e) \in {0, 1}
        BY DEF Entering
    <2>3. CASE e = d
        <3>1. Taken(e) = 0 /\ Taken(e)' = 1 /\ queue'[e] = queue[e] - 1
            BY <1>1, <2>3 DEF Taken
        <3> QED
            BY <1>1, <1>5, <2>1, <2>2, <3>1
    <2>4. CASE e # d
        <3>1. Taken(e)' = Taken(e) /\ queue'[e] = queue[e]
            BY <1>1, <1>5, <2>4 DEF Taken
        <3> QED
            BY <2>1, <2>2, <3>1
    <2> QED
        BY <2>3, <2>4
<1>6. CountExact'
    BY <1>5 DEF CountExact
<1> QED
    BY <1>2, <1>3, <1>4, <1>6 DEF Inv

\* Only a device that is down wakes a consumer without a frame.
LEMMA ReceiveClosedInv == ASSUME NEW d \in Dirs, Inv, ReceiveClosed(d) PROVE Inv'
<1> USE DEF ReceiveClosed, Goto, readTapVars
<1>1. consumer' \in [Dirs -> ConsumerPcs]
    BY DEF Inv, TypeOK, ConsumerPcs
<1>2. TypeOK'
    BY <1>1 DEF Inv, TypeOK
<1> QED
    BY <1>2 DEF Inv, OneSender, NoSendOnClosed, CountExact, CountBounded, NilWhenDown

\* The frame is counted out.
LEMMA ReadEndInv == ASSUME NEW d \in Dirs, Inv, ReadEnd(d) PROVE Inv'
<1> USE DEF ReadEnd, Goto, readTapVars
<1>1. consumer \in [Dirs -> ConsumerPcs] /\ count \in [Dirs -> Int] /\ queue \in [Dirs -> Nat]
    BY DEF Inv, TypeOK
<1>2. After(d) \in {"push", "end", "call"}
    BY DEF After, Dirs
<1>3. count' \in [Dirs -> Int] /\ consumer' \in [Dirs -> ConsumerPcs]
    BY <1>1, <1>2 DEF ConsumerPcs
<1>4. TypeOK'
    BY <1>3 DEF Inv, TypeOK
<1>5. OneSender' /\ NoSendOnClosed'
    BY DEF Inv, OneSender, NoSendOnClosed
<1>6. NilWhenDown'
    BY <1>1, <1>2 DEF Inv, NilWhenDown
<1>7. ASSUME up, NEW e \in Dirs
      PROVE  /\ count'[e] = queue'[e] + Taken(e)' + Entering(e)'
             /\ count'[e] <= Buf[e]
    <2>1. count[e] = queue[e] + Taken(e) + Entering(e) /\ count[e] <= Buf[e]
        BY <1>7 DEF Inv, CountExact, CountBounded
    <2>2. Entering(e)' = Entering(e) /\ Entering(e) \in {0, 1} /\ queue'[e] = queue[e]
        BY DEF Entering
    <2>3. Buf[e] \in Nat
        BY TapAssumption
    <2>4. CASE e = d
        <3>1. consumer[d] = "received"
            BY <1>7 DEF Inv, NilWhenDown
        <3>2. Taken(e) = 1 /\ Taken(e)' = 0 /\ count'[e] = count[e] - 1
            BY <1>1, <1>2, <2>4, <3>1 DEF Taken
        <3> QED
            BY <1>1, <1>7, <2>1, <2>2, <2>3, <3>2
    <2>5. CASE e # d
        <3>1. Taken(e)' = Taken(e) /\ count'[e] = count[e]
            BY <1>1, <1>7, <2>5 DEF Taken
        <3> QED
            BY <2>1, <2>2, <3>1
    <2> QED
        BY <2>4, <2>5
<1>8. CountExact' /\ CountBounded'
    BY <1>7 DEF CountExact, CountBounded
<1> QED
    BY <1>4, <1>5, <1>6, <1>8 DEF Inv

\* The steps of a consumer.
LEMMA ConsumeInv == ASSUME NEW d \in Dirs, Inv, Consume(d) PROVE Inv'
<1>1. CASE ReadCheck(d)
    <2>1. frames' \in Nat /\ (IF up THEN "checked" ELSE "end") \in ConsumerPcs \ {"received", "nil"}
        BY <1>1 DEF ReadCheck, readTapVars, Inv, TypeOK, ConsumerPcs
    <2> QED
        BY <1>1, <2>1, MoveInv DEF ReadCheck, readTapVars
<1>2. CASE ReadChannel(d)
    <2>1. frames' \in Nat /\ (IF up THEN "receive" ELSE "stuck") \in ConsumerPcs \ {"received", "nil"}
        BY <1>2 DEF ReadChannel, readTapVars, Inv, TypeOK, ConsumerPcs
    <2> QED
        BY <1>2, <2>1, MoveInv DEF ReadChannel, readTapVars
<1> QED
    BY <1>1, <1>2, ReceiveFrameInv, ReceiveClosedInv, ReadEndInv DEF Consume

\* ReadTap and its queue touch neither the counters nor the channels.
LEMMA ReadTapInv == Inv /\ (ReaderPush \/ ReadTap) => Inv'
<1> SUFFICES ASSUME Inv, ReaderPush \/ ReadTap
             PROVE  Inv'
    OBVIOUS
<1>1. CASE ReaderPush
    <2>1. frames' \in Nat /\ "call" \in ConsumerPcs \ {"received", "nil"} /\ "kern" \in Dirs
        BY <1>1 DEF ReaderPush, Inv, TypeOK, ConsumerPcs, Dirs
    <2> QED
        BY <1>1, <2>1, MoveInv DEF ReaderPush
<1>2. CASE ReadTap
    <2>1. UNCHANGED <<up, made, closed, count, queue, sending, consumer, closer>>
        BY <1>2 DEF ReadTap, ReadTapSend, ReadTapFail, ReadTapDone
    <2>2. frames' \in Nat /\ readTap' \in {"none", "run", "close"}
        BY <1>2 DEF ReadTap, ReadTapSend, ReadTapFail, ReadTapDone, Inv, TypeOK
    <2> QED
        BY <2>1, <2>2 DEF Inv, TypeOK, OneSender, NoSendOnClosed, CountExact, CountBounded,
                          NilWhenDown, Taken, Entering
<1> QED
    BY <1>1, <1>2

\* Close waits for the producer inside, so that none is left when it returns.
LEMMA CloseInv == ASSUME NEW k \in Closers, Inv, Down(k) \/ CloseEnd(k) PROVE Inv'
<1>1. CASE Down(k)
    BY <1>1 DEF Down, Unlocked, readTapVars, Inv, TypeOK, OneSender, NoSendOnClosed, CountExact,
                CountBounded, NilWhenDown
<1>2. CASE CloseEnd(k)
    BY <1>2 DEF CloseEnd, Unlocked, readTapVars, Inv, TypeOK, OneSender, NoSendOnClosed,
                CountExact, CountBounded, NilWhenDown, Taken, Entering
<1> QED
    BY <1>1, <1>2

\* The invariant is inductive.
LEMMA InvStep == Inv /\ [Next]_vars => Inv'
<1> SUFFICES ASSUME Inv, [Next]_vars
             PROVE  Inv'
    OBVIOUS
<1>1. CASE UNCHANGED vars
    BY <1>1 DEF vars, readTapVars, Inv, TypeOK, OneSender, NoSendOnClosed, CountExact, CountBounded,
                NilWhenDown, Taken, Entering
<1>2. CASE Next
    BY <1>2, UpInv, ReadTapInv, SendBeginInv, SendEndInv, ConsumeInv, CloseInv DEF Next
<1> QED
    BY <1>1, <1>2

\* Type correctness of the device (tap_virtual.go).
THEOREM TypeCorrect == Spec => []TypeOK
<1>1. Inv => TypeOK
    BY DEF Inv
<1> QED
    BY <1>1, InvInit, InvStep, PTL DEF Spec

\* Send and Write never wait for room with the lock held, whatever the
\* capacities and however many ports flood into the device.
THEOREM ProducersNeverBlock == Spec => []NeverBlocksLocked
BY InvNeverBlocks, InvInit, InvStep, PTL DEF Spec

\* Send and Write never send to a closed channel.
THEOREM ProducersNeverPanic == Spec => []NoSendOnClosed
<1>1. Inv => NoSendOnClosed
    BY DEF Inv
<1> QED
    BY <1>1, InvInit, InvStep, PTL DEF Spec

\* kernC and virtC are exact while the device is up.
THEOREM CountersExact == Spec => []CountExact
<1>1. Inv => CountExact
    BY DEF Inv
<1> QED
    BY <1>1, InvInit, InvStep, PTL DEF Spec

\* Send and Write always leave with the lock: the two parts together.
THEOREM ProducersAreSafe == Spec => []ProducersSafe
<1>1. NeverBlocksLocked /\ NoSendOnClosed => ProducersSafe BY DEF ProducersSafe
<1> QED BY <1>1, ProducersNeverBlock, ProducersNeverPanic, PTL
=============================================================================
