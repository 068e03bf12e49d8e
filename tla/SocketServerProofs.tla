------------------------ MODULE SocketServerProofs ------------------------
(***************************************************************************)
(* Proofs about SocketServer, for every finite set of connections, every   *)
(* assignment of remote addresses (reused ones included), every limit      *)
(* maxClient and every capacity of the channels.                           *)
(***************************************************************************)
EXTENDS SocketServer, FiniteSetTheorems, TLAPS

\* What receiving from a channel, a sequence taken at its head, yields.
LEMMA ReceiveFacts ==
    ASSUME NEW S, NEW q \in Seq(S), q # <<>>
    PROVE  /\ 1 \in 1 .. Len(q) /\ Head(q) = q[1] /\ Head(q) \in S
           /\ Tail(q) \in Seq(S) /\ Len(Tail(q)) = Len(q) - 1
           /\ \A i \in 1 .. Len(Tail(q)) : i + 1 \in 1 .. Len(q) /\ Tail(q)[i] = q[i + 1]
OBVIOUS

\* What a channel holds are values of its type.
LEMMA HeldFacts ==
    ASSUME NEW S, NEW q \in Seq(S)
    PROVE  \A i \in 1 .. Len(q) : q[i] \in S
OBVIOUS

\* What sending to a channel, a sequence filled at its end, yields.
LEMMA SendFacts ==
    ASSUME NEW S, NEW q \in Seq(S), NEW x \in S
    PROVE  /\ Append(q, x) \in Seq(S) /\ Len(Append(q, x)) = Len(q) + 1
           /\ \A i \in 1 .. Len(Append(q, x)) :
                \/ Append(q, x)[i] = x
                \/ i \in 1 .. Len(q) /\ Append(q, x)[i] = q[i]
OBVIOUS

\* TypeOK is inductive: no step of the acceptor, the Loop, a reader, a worker
\* or the peers leaves the declared values, and no channel overfills.
LEMMA TypeStep == TypeOK /\ [Next]_vars => TypeOK'
<1> SUFFICES ASSUME TypeOK, [Next]_vars PROVE TypeOK'
  OBVIOUS
<1> USE ClientsAssumption, BoundsAssumption
<1>1. CASE \E c \in Clients : Accept(c)
  BY <1>1 DEF TypeOK, acceptVars, stats, clientVars, Accept, NetStates
<1>2. CASE AcceptorStep
  <2>1. CASE PreAcceptDeny
    BY <2>1 DEF TypeOK, acceptVars, stats, clientVars, PreAcceptDeny, NetStates
  <2>2. CASE PreAcceptAllow
    BY <2>2 DEF TypeOK, acceptVars, stats, clientVars, PreAcceptAllow, NetStates
  <2>3. CASE PushClient
    BY <2>3 DEF TypeOK, acceptVars, stats, clientVars, PushClient
  <2> QED BY <1>2, <2>1, <2>2, <2>3 DEF AcceptorStep
<1>3. CASE LoopStep
  <2>1. CASE DoOnClient
    BY <2>1 DEF TypeOK, acceptVars, stats, clientVars, DoOnClient, SetIfAbsent
  <2>2. CASE DoOffClient
    <3>1. offClients' \in Seq(Clients) /\ Len(offClients') <= OffCap
      BY <2>2 DEF TypeOK, DoOffClient
    <3>2. net' \in [Clients -> NetStates] /\ closing' \in Clients \cup {NoClient} /\ ssClose' \in Int
      <4> PICK c \in Clients : c = Head(offClients)
        BY <2>2 DEF TypeOK, DoOffClient
      <4>1. \/ net' = [net EXCEPT ![c] = "closed"] /\ closing' = c /\ ssClose' = ssClose + 1
            \/ UNCHANGED <<ssClose, net, closing>>
        BY <2>2 DEF DoOffClient
      <4>2. net \in [Clients -> NetStates] /\ closing \in Clients \cup {NoClient} /\ ssClose \in Int
        BY DEF TypeOK
      <4>3. net' \in [Clients -> NetStates]
        BY <4>1, <4>2, Zenon DEF NetStates
      <4> QED BY <4>1, <4>2, <4>3
    <3> QED BY <2>2, <3>1, <3>2 DEF TypeOK, acceptVars, clientVars, DoOffClient
  <2>3. CASE DoOffClientEnd
    BY <2>3 DEF TypeOK, acceptVars, stats, clientVars, DoOffClientEnd
  <2> QED BY <1>3, <2>1, <2>2, <2>3 DEF LoopStep
<1>4. CASE \E c \in Clients : ReaderStep(c)
  <2> PICK c \in Clients : ReaderStep(c) BY <1>4
  <2>1. CASE ReadFrame(c) BY <2>1 DEF TypeOK, acceptVars, stats, clientVars, ReadFrame
  <2>2. CASE PushFrame(c) BY <2>2 DEF TypeOK, acceptVars, stats, clientVars, PushFrame
  <2>3. CASE ReadError(c) BY <2>3 DEF TypeOK, acceptVars, stats, clientVars, ReadError
  <2>4. CASE ReaderOff(c) BY <2>4 DEF TypeOK, acceptVars, stats, clientVars, ReaderOff
  <2> QED BY <2>1, <2>2, <2>3, <2>4 DEF ReaderStep
<1>5. CASE \E c \in Clients : WorkerStep(c)
  <2> PICK c \in Clients : WorkerStep(c) BY <1>5
  <2>1. CASE TakeFrame(c) BY <2>1 DEF TypeOK, acceptVars, stats, clientVars, TakeFrame
  <2>2. CASE ReadAtOk(c) BY <2>2 DEF TypeOK, acceptVars, stats, clientVars, ReadAtOk
  <2>3. CASE ReadAtError(c) BY <2>3 DEF TypeOK, acceptVars, stats, clientVars, ReadAtError
  <2>4. CASE TakeDone(c) BY <2>4 DEF TypeOK, acceptVars, stats, clientVars, TakeDone
  <2> QED BY <2>1, <2>2, <2>3, <2>4 DEF WorkerStep
<1>6. CASE \E c \in Clients : OffClient(c) \/ PeerLost(c)
  <2> PICK c \in Clients : OffClient(c) \/ PeerLost(c) BY <1>6
  <2>1. CASE OffClient(c) BY <2>1 DEF TypeOK, acceptVars, stats, clientVars, OffClient
  <2>2. CASE PeerLost(c) BY <2>2 DEF TypeOK, acceptVars, stats, clientVars, PeerLost, NetStates
  <2> QED BY <2>1, <2>2
<1>7. CASE UNCHANGED vars
  BY <1>7 DEF TypeOK, acceptVars, stats, clientVars, vars
<1> QED BY <1>1, <1>2, <1>3, <1>4, <1>5, <1>6, <1>7 DEF Next

LEMMA TypeInit == Init => TypeOK
BY ClientsAssumption, BoundsAssumption DEF Init, TypeOK, NetStates

\* The state of the server always has its declared type.
THEOREM TypeCorrect == Spec => []TypeOK
BY TypeInit, TypeStep, PTL DEF Spec

----------------------------------------------------------------------------
(***************************************************************************)
(* Slot accounting.  AliveExact is not inductive: releasing a slot needs   *)
(* that whoever reaches doOffClient unclosed holds one (HeldWhere), and    *)
(* the bound needs that the value preAccept compared is still an upper     *)
(* bound when it adds to SsAlive (SeenFresh): only the acceptor adds.      *)
(***************************************************************************)
Accepted == {"open", "lost", "closed"}

HeldWhere ==
    /\ acceptor = "check" => net[conn] = "pending"
    /\ acceptor = "push" => net[conn] \in Accepted
    /\ \A i \in 1 .. Len(onClients) : net[onClients[i]] \in Accepted
    /\ \A i \in 1 .. Len(offClients) : net[offClients[i]] \in Accepted
    /\ \A c \in Clients : reader[c] # "none" => net[c] \in Accepted

SeenFresh ==
    /\ ssAlive <= MaxClient
    /\ acceptor = "check" => ssAlive <= seen

Inv == TypeOK /\ HeldWhere /\ AliveExact /\ SeenFresh /\ StatsBalanced

\* Held is finite, so its cardinality is a number.
LEMMA HeldFinite == IsFiniteSet(Held) /\ Cardinality(Held) \in Nat
<1>1. Held \subseteq Clients BY DEF Held
<1> QED BY <1>1, ClientsAssumption, FS_Subset, FS_CardinalityType

LEMMA InvInit == Init => Inv
<1> SUFFICES ASSUME Init PROVE Inv
  OBVIOUS
<1>1. Held = {} BY DEF Init, Held
<1>2. Cardinality(Held) = 0 BY <1>1, FS_EmptySet
<1> QED BY <1>2, TypeInit, BoundsAssumption
        DEF Inv, Init, HeldWhere, SeenFresh, AliveExact, StatsBalanced, Closing, Checking

\* preAccept lets a connection in: one more client holds a slot.
LEMMA AllowStep == Inv /\ PreAcceptAllow => Cardinality(Held') = Cardinality(Held) + 1
<1> SUFFICES ASSUME Inv, PreAcceptAllow PROVE Cardinality(Held') = Cardinality(Held) + 1
  OBVIOUS
<1>1. conn \in Clients /\ conn \notin Held
  BY DEF Inv, TypeOK, HeldWhere, PreAcceptAllow, Held
<1>2. Held' = Held \cup {conn}
  BY <1>1 DEF Inv, TypeOK, PreAcceptAllow, Held
<1> QED BY <1>1, <1>2, HeldFinite, FS_AddElement

\* doOffClient closes a client: one client less holds a slot.
LEMMA CloseStep ==
    ASSUME Inv, NEW c \in Clients, net[c] \in Accepted, net[c] # "closed",
           net' = [net EXCEPT ![c] = "closed"]
    PROVE  Cardinality(Held') = Cardinality(Held) - 1
<1>1. c \in Held
  BY DEF Held, Accepted
<1>2. Held' = Held \ {c}
  BY DEF Inv, TypeOK, Held
<1> QED BY <1>1, <1>2, HeldFinite, FS_RemoveElement

\* The accounting survives every step.
LEMMA InvStep == Inv /\ [Next]_vars => Inv'
<1> SUFFICES ASSUME Inv, [Next]_vars PROVE Inv'
  OBVIOUS
<1> USE ClientsAssumption, BoundsAssumption
<1>t. TypeOK /\ TypeOK'
  BY TypeStep DEF Inv
<1>h. Cardinality(Held) \in Nat
  BY HeldFinite
<1>1. CASE \E c \in Clients : Accept(c)
  <2> PICK c \in Clients : Accept(c) BY <1>1
  <2>1. Held' = Held BY <1>t DEF TypeOK, Held, Accept
  <2>2. HeldWhere'
    <3>1. \A d \in Clients : net[d] \in Accepted => net'[d] \in Accepted
      BY <1>t DEF TypeOK, Accept, Accepted
    <3>2. net'[c] = "pending" BY <1>t DEF TypeOK, Accept
    <3> QED BY <1>t, <3>1, <3>2 DEF Inv, TypeOK, HeldWhere, Accept, clientVars
  <2>3. AliveExact' BY <2>1 DEF Inv, AliveExact, Closing, Accept
  <2>4. SeenFresh' BY <1>t DEF Inv, TypeOK, SeenFresh, Accept
  <2>5. StatsBalanced' BY <1>t DEF Inv, TypeOK, StatsBalanced, Closing, Checking, Accept
  <2> QED BY <1>t, <2>2, <2>3, <2>4, <2>5 DEF Inv
<1>2. CASE PreAcceptDeny
  <2>1. Held' = Held BY <1>2, <1>t DEF Inv, TypeOK, HeldWhere, Held, PreAcceptDeny
  <2>2. HeldWhere' BY <1>2, <1>t DEF Inv, TypeOK, HeldWhere, PreAcceptDeny, Accepted, clientVars
  <2>3. AliveExact' BY <1>2, <2>1 DEF Inv, AliveExact, Closing, PreAcceptDeny
  <2>4. SeenFresh' BY <1>2, <1>t DEF Inv, TypeOK, SeenFresh, PreAcceptDeny
  <2>5. StatsBalanced' BY <1>2, <1>t DEF Inv, TypeOK, StatsBalanced, Closing, Checking, PreAcceptDeny
  <2> QED BY <1>t, <2>2, <2>3, <2>4, <2>5 DEF Inv
<1>3. CASE PreAcceptAllow
  <2>1. Cardinality(Held') = Cardinality(Held) + 1 BY <1>3, AllowStep
  <2>2. HeldWhere' BY <1>3, <1>t DEF Inv, TypeOK, HeldWhere, PreAcceptAllow, Accepted, clientVars
  <2>3. AliveExact' BY <1>3, <1>t, <1>h, <2>1 DEF Inv, TypeOK, AliveExact, Closing, PreAcceptAllow
  <2>4. SeenFresh' BY <1>3, <1>t DEF Inv, TypeOK, SeenFresh, PreAcceptAllow, Full
  <2>5. StatsBalanced' BY <1>3, <1>t DEF Inv, TypeOK, StatsBalanced, Closing, Checking, PreAcceptAllow
  <2> QED BY <1>t, <2>2, <2>3, <2>4, <2>5 DEF Inv
<1>4. CASE PushClient
  <2>1. Held' = Held BY <1>4 DEF Held, PushClient
  <2>2. HeldWhere'
    BY <1>4, <1>t DEF Inv, TypeOK, HeldWhere, PushClient, Accepted, clientVars
  <2>3. AliveExact' BY <1>4, <2>1 DEF Inv, AliveExact, Closing, PushClient, stats
  <2>4. SeenFresh' BY <1>4, <1>t DEF Inv, TypeOK, SeenFresh, PushClient, stats
  <2>5. StatsBalanced' BY <1>4, <1>t DEF Inv, TypeOK, StatsBalanced, Closing, Checking, PushClient, stats
  <2> QED BY <1>t, <2>2, <2>3, <2>4, <2>5 DEF Inv
<1>5. CASE DoOnClient
  <2>1. Held' = Held BY <1>5 DEF Held, DoOnClient
  <2>2. HeldWhere'
    <3>a. onClients \in Seq(Clients) /\ onClients # <<>> /\ onClients' = Tail(onClients)
      BY <1>5, <1>t DEF TypeOK, DoOnClient
    <3>b. \A i \in 1 .. Len(onClients) : net[onClients[i]] \in Accepted
      BY DEF Inv, HeldWhere
    <3> PICK c \in Clients : c = Head(onClients)
      BY <3>a, ReceiveFacts
    <3>1. net[c] \in Accepted
      BY <3>a, <3>b, ReceiveFacts
    <3>c. reader' = [reader EXCEPT ![c] = "read"]
      BY <1>5 DEF DoOnClient
    <3>2. \A d \in Clients : reader'[d] # "none" => net[d] \in Accepted
      BY <3>1, <3>c, <1>t DEF Inv, TypeOK, HeldWhere
    <3>3. \A i \in 1 .. Len(onClients') : net[onClients'[i]] \in Accepted
      BY <3>a, <3>b, ReceiveFacts
    <3> QED BY <1>5, <3>2, <3>3 DEF Inv, HeldWhere, DoOnClient, acceptVars
  <2>3. AliveExact' BY <1>5, <2>1 DEF Inv, AliveExact, Closing, DoOnClient, stats
  <2>4. SeenFresh' BY <1>5, <1>t DEF Inv, TypeOK, SeenFresh, DoOnClient, stats, acceptVars
  <2>5. StatsBalanced'
    BY <1>5, <1>t DEF Inv, TypeOK, StatsBalanced, Closing, Checking, DoOnClient, stats, acceptVars
  <2> QED BY <1>t, <2>2, <2>3, <2>4, <2>5 DEF Inv
<1>6. CASE DoOffClient
  <2>a. offClients \in Seq(Clients) /\ offClients # <<>> /\ offClients' = Tail(offClients)
    BY <1>6, <1>t DEF TypeOK, DoOffClient
  <2>b. \A i \in 1 .. Len(offClients) : net[offClients[i]] \in Accepted
    BY DEF Inv, HeldWhere
  <2> PICK c \in Clients : c = Head(offClients)
    BY <2>a, ReceiveFacts
  <2>c. net[c] \in Accepted
    BY <2>a, <2>b, ReceiveFacts
  <2>d. \A i \in 1 .. Len(offClients') : offClients'[i] \in Clients /\ net[offClients'[i]] \in Accepted
    BY <2>a, <2>b, ReceiveFacts
  <2>1. CASE Registered(c)
    <3>1. net' = [net EXCEPT ![c] = "closed"] /\ closing' = c /\ ssClose' = ssClose + 1
      BY <1>6, <2>1 DEF DoOffClient
    <3>2. Cardinality(Held') = Cardinality(Held) - 1
      BY <2>1, <2>c, <3>1, CloseStep DEF Registered
    <3>3. HeldWhere'
      <4>1. \A d \in Clients : net[d] \in Accepted => net'[d] \in Accepted
        BY <1>t, <3>1 DEF TypeOK, Accepted
      <4>2. acceptor = "check" => net'[conn] = "pending"
        BY <1>t, <2>c, <3>1 DEF Inv, TypeOK, HeldWhere, Accepted
      <4> QED BY SMTT(30), <1>6, <1>t, <2>d, <4>1, <4>2
              DEF Inv, TypeOK, HeldWhere, DoOffClient, acceptVars, clientVars
    <3>4. AliveExact'
      <4>1. closing = NoClient /\ closing' # NoClient /\ ssAlive' = ssAlive
        BY <1>6, <3>1 DEF DoOffClient
      <4>2. ssAlive = Cardinality(Held) + Closing BY DEF Inv, AliveExact
      <4> QED BY <1>h, <3>2, <4>1, <4>2 DEF AliveExact, Closing
    <3>5. SeenFresh' BY <1>6, <1>t DEF Inv, TypeOK, SeenFresh, DoOffClient, acceptVars
    <3>6. StatsBalanced'
      BY <1>6, <1>t, <3>1 DEF Inv, TypeOK, StatsBalanced, Closing, Checking, DoOffClient, acceptVars
    <3> QED BY <1>t, <3>3, <3>4, <3>5, <3>6 DEF Inv
  <2>2. CASE ~Registered(c)
    <3>1. UNCHANGED <<net, closing, ssClose>>
      BY <1>6, <2>2 DEF DoOffClient
    <3>2. Held' = Held BY <3>1 DEF Held
    <3>3. HeldWhere'
      BY <1>6, <1>t, <3>1 DEF Inv, TypeOK, HeldWhere, DoOffClient, Accepted, acceptVars, clientVars
    <3>4. AliveExact' BY <1>6, <3>1, <3>2 DEF Inv, AliveExact, Closing, DoOffClient
    <3>5. SeenFresh' BY <1>6, <1>t DEF Inv, TypeOK, SeenFresh, DoOffClient, acceptVars
    <3>6. StatsBalanced'
      BY <1>6, <1>t, <3>1 DEF Inv, TypeOK, StatsBalanced, Closing, Checking, DoOffClient, acceptVars
    <3> QED BY <1>t, <3>3, <3>4, <3>5, <3>6 DEF Inv
  <2> QED BY <2>1, <2>2
<1>7. CASE DoOffClientEnd
  <2>1. Held' = Held BY <1>7 DEF Held, DoOffClientEnd
  <2>2. HeldWhere'
    BY <1>7, <1>t DEF Inv, TypeOK, HeldWhere, DoOffClientEnd, Accepted, acceptVars, clientVars
  <2>3. AliveExact' BY <1>7, <1>t, <1>h, <2>1 DEF Inv, TypeOK, AliveExact, Closing, DoOffClientEnd
  <2>4. SeenFresh' BY <1>7, <1>t DEF Inv, TypeOK, SeenFresh, DoOffClientEnd, acceptVars
  <2>5. StatsBalanced'
    BY <1>7, <1>t DEF Inv, TypeOK, StatsBalanced, Closing, Checking, DoOffClientEnd, acceptVars
  <2> QED BY <1>t, <2>2, <2>3, <2>4, <2>5 DEF Inv
<1>8. CASE \E c \in Clients : ReaderStep(c) \/ WorkerStep(c) \/ OffClient(c)
  <2> PICK c \in Clients : ReaderStep(c) \/ WorkerStep(c) \/ OffClient(c) BY <1>8
  <2>1. UNCHANGED <<acceptVars, closing, net, onClients, stats>>
    BY DEF ReaderStep, WorkerStep, ReadFrame, PushFrame, ReadError, ReaderOff,
           TakeFrame, ReadAtOk, ReadAtError, TakeDone, OffClient
  <2>2. HeldWhere'
    <3>1. \A d \in Clients : reader'[d] # "none" => reader[d] # "none"
      BY <1>t DEF TypeOK, ReaderStep, WorkerStep, ReadFrame, PushFrame, ReadError, ReaderOff,
                  TakeFrame, ReadAtOk, ReadAtError, TakeDone, OffClient, clientVars
    <3>2. offClients' = offClients \/ (offClients' = Append(offClients, c) /\ reader[c] # "none")
      BY DEF ReaderStep, WorkerStep, ReadFrame, PushFrame, ReadError, ReaderOff,
             TakeFrame, ReadAtOk, ReadAtError, TakeDone, OffClient, Started
    <3>3. \A i \in 1 .. Len(offClients') : net[offClients'[i]] \in Accepted
      <4>1. CASE offClients' = offClients
        BY <4>1 DEF Inv, HeldWhere
      <4>2. CASE offClients' = Append(offClients, c) /\ reader[c] # "none"
        <5>1. net[c] \in Accepted BY <4>2 DEF Inv, HeldWhere
        <5>2. offClients \in Seq(Clients) BY <1>t DEF TypeOK
        <5>3. \A i \in 1 .. Len(offClients) : net[offClients[i]] \in Accepted
          BY DEF Inv, HeldWhere
        <5> QED BY <4>2, <5>1, <5>2, <5>3, SendFacts
      <4> QED BY <3>2, <4>1, <4>2
    <3> QED BY <2>1, <3>1, <3>3 DEF Inv, HeldWhere, acceptVars
  <2>3. Held' = Held BY <2>1 DEF Held
  <2> QED BY <1>t, <2>1, <2>2, <2>3
          DEF Inv, AliveExact, SeenFresh, StatsBalanced, Closing, Checking, acceptVars, stats
<1>9. CASE \E c \in Clients : PeerLost(c)
  <2> PICK c \in Clients : PeerLost(c) BY <1>9
  <2>1. Held' = Held BY <1>t DEF TypeOK, Held, PeerLost
  <2>2. HeldWhere'
    <3>1. \A d \in Clients : net[d] \in Accepted => net'[d] \in Accepted
      BY <1>t DEF TypeOK, PeerLost, Accepted
    <3>2. acceptor = "check" => net'[conn] = "pending"
      BY <1>t DEF Inv, TypeOK, HeldWhere, PeerLost
    <3>q. onClients \in Seq(Clients) /\ offClients \in Seq(Clients) BY <1>t DEF TypeOK
    <3>3. \A i \in 1 .. Len(onClients) : onClients[i] \in Clients BY <3>q, HeldFacts
    <3>4. \A i \in 1 .. Len(offClients) : offClients[i] \in Clients BY <3>q, HeldFacts
    <3>5. acceptor = "push" => conn \in Clients BY <1>t DEF TypeOK
    <3> QED BY <3>1, <3>2, <3>3, <3>4, <3>5 DEF Inv, HeldWhere, PeerLost, acceptVars, clientVars
  <2> QED BY <1>t, <2>1, <2>2
          DEF PeerLost, Inv, AliveExact, SeenFresh, StatsBalanced, Closing, Checking, acceptVars, stats
<1>10. CASE UNCHANGED vars
  <2>1. Held' = Held BY <1>10 DEF Held, vars
  <2> QED BY <1>10, <1>t, <2>1
          DEF vars, acceptVars, stats, clientVars, Inv, HeldWhere, AliveExact, SeenFresh,
              StatsBalanced, Closing, Checking
<1> QED BY <1>1, <1>2, <1>3, <1>4, <1>5, <1>6, <1>7, <1>8, <1>9, <1>10
        DEF Next, AcceptorStep, LoopStep

LEMMA InvAlways == Spec => []Inv
BY InvInit, InvStep, PTL DEF Spec

\* SsAlive counts exactly the clients that hold a slot, for any number of
\* connections, of repeated OffClient calls and of reused addresses.
THEOREM SlotsExact == Spec => []AliveExact
<1>1. Inv => AliveExact BY DEF Inv
<1> QED BY <1>1, InvAlways, PTL

\* At most maxClient clients hold a slot: the check and the increment of
\* preAccept are two steps, and no decrement between them breaks the limit.
THEOREM SlotsBounded == Spec => []AliveBounded
<1>1. Inv => AliveBounded
  BY HeldFinite, BoundsAssumption DEF Inv, TypeOK, AliveExact, SeenFresh, AliveBounded, Closing
<1> QED BY <1>1, InvAlways, PTL

\* The statistics balance in every state.
THEOREM StatsAlwaysBalance == Spec => []StatsBalanced
<1>1. Inv => StatsBalanced BY DEF Inv
<1> QED BY <1>1, InvAlways, PTL

\* The accounts of the server hold in every state: the three parts together.
THEOREM AccountsKept == Spec => []SlotsAccounted
<1>1. AliveExact /\ AliveBounded /\ StatsBalanced => SlotsAccounted BY DEF SlotsAccounted
<1> QED BY <1>1, SlotsExact, SlotsBounded, StatsAlwaysBalance, PTL

----------------------------------------------------------------------------
(***************************************************************************)
(* Registration.  NoOrphan needs that entries are found under the address  *)
(* of the client they name, so that a client with an address of its own    *)
(* cannot find its place taken, and that the Loop drops the entry of a     *)
(* client it has already closed.                                           *)
(***************************************************************************)
EntriesOwn == \A a \in Addrs : clients[a] # NoClient => AddrOf[clients[a]] = a

ClosingClosed == closing # NoClient => net[closing] = "closed"

RegInv == Inv /\ EntriesOwn /\ ClosingClosed /\ NoOrphan

LEMMA RegInit == Init => RegInv
<1> SUFFICES ASSUME Init PROVE RegInv
  OBVIOUS
<1>1. Held = {} BY DEF Init, Held
<1> QED BY <1>1, InvInit DEF RegInv, Init, EntriesOwn, ClosingClosed, NoOrphan

\* A step that leaves the acceptor, the channel of new clients and the entries
\* alone, and gives nobody a slot, orphans nobody.
LEMMA OrphanFrame ==
    ASSUME NoOrphan, Held' \subseteq Held, UNCHANGED <<acceptor, conn, onClients, clients>>
    PROVE  NoOrphan'
BY DEF NoOrphan, OwnAddr

LEMMA RegStep == RegInv /\ [Next]_vars => RegInv'
<1> SUFFICES ASSUME RegInv, [Next]_vars PROVE RegInv'
  OBVIOUS
<1> USE ClientsAssumption, BoundsAssumption
<1>i. Inv /\ Inv' BY InvStep DEF RegInv
<1>t. TypeOK /\ TypeOK' BY <1>i DEF Inv
<1>o. EntriesOwn /\ ClosingClosed /\ NoOrphan BY DEF RegInv
<1>1. CASE \E c \in Clients : Accept(c)
  <2> PICK c \in Clients : Accept(c) BY <1>1
  <2>1. Held' = Held BY <1>t DEF TypeOK, Held, Accept
  <2>2. EntriesOwn' BY <1>o DEF EntriesOwn, Accept
  <2>3. ClosingClosed' BY <1>t, <1>o DEF TypeOK, ClosingClosed, Accept
  <2>4. NoOrphan'
    <3>1. acceptor = "accept" /\ UNCHANGED <<onClients, clients>> BY DEF Accept
    <3> QED BY <1>o, <2>1, <3>1 DEF NoOrphan, OwnAddr
  <2> QED BY <1>i, <2>2, <2>3, <2>4 DEF RegInv
<1>2. CASE PreAcceptDeny
  <2>1. Held' = Held BY <1>2, <1>t, <1>i DEF Inv, TypeOK, HeldWhere, Held, PreAcceptDeny
  <2>2. EntriesOwn' BY <1>2, <1>o DEF EntriesOwn, PreAcceptDeny
  <2>3. ClosingClosed'
    BY <1>2, <1>t, <1>o, <1>i DEF Inv, HeldWhere, TypeOK, ClosingClosed, PreAcceptDeny
  <2>4. NoOrphan'
    <3>1. acceptor = "check" /\ UNCHANGED <<onClients, clients>> BY <1>2 DEF PreAcceptDeny
    <3> QED BY <1>o, <2>1, <3>1 DEF NoOrphan, OwnAddr
  <2> QED BY <1>i, <2>2, <2>3, <2>4 DEF RegInv
<1>3. CASE PreAcceptAllow
  <2>1. Held' \subseteq Held \cup {conn} BY <1>3, <1>t DEF TypeOK, Held, PreAcceptAllow
  <2>2. EntriesOwn' BY <1>3, <1>o DEF EntriesOwn, PreAcceptAllow
  <2>3. ClosingClosed'
    BY <1>3, <1>t, <1>o, <1>i DEF Inv, HeldWhere, TypeOK, ClosingClosed, PreAcceptAllow
  <2>4. NoOrphan'
    <3>1. acceptor = "check" /\ acceptor' = "push" /\ UNCHANGED <<conn, onClients, clients>>
      BY <1>3 DEF PreAcceptAllow
    <3> QED BY <1>o, <2>1, <3>1 DEF NoOrphan, OwnAddr
  <2> QED BY <1>i, <2>2, <2>3, <2>4 DEF RegInv
<1>4. CASE PushClient
  <2>1. Held' = Held BY <1>4 DEF Held, PushClient
  <2>2. EntriesOwn' BY <1>4, <1>o DEF EntriesOwn, PushClient
  <2>3. ClosingClosed' BY <1>4, <1>o DEF ClosingClosed, PushClient
  <2>4. NoOrphan'
    <3>1. conn \in Clients /\ onClients \in Seq(Clients) BY <1>4, <1>t DEF TypeOK, PushClient
    <3>2. onClients' = Append(onClients, conn) /\ clients' = clients BY <1>4 DEF PushClient
    <3>3. \E i \in 1 .. Len(onClients') : onClients'[i] = conn
      <4>1. Len(onClients) + 1 \in 1 .. Len(onClients') /\ onClients'[Len(onClients) + 1] = conn
        BY <3>1, <3>2
      <4> QED BY <4>1
    <3>4. \A i \in 1 .. Len(onClients) : i \in 1 .. Len(onClients') /\ onClients'[i] = onClients[i]
      BY <3>1, <3>2
    <3> QED BY <1>o, <2>1, <3>2, <3>3, <3>4 DEF NoOrphan, OwnAddr
  <2> QED BY <1>i, <2>2, <2>3, <2>4 DEF RegInv
<1>5. CASE DoOnClient
  <2>a. onClients \in Seq(Clients) /\ onClients # <<>> /\ onClients' = Tail(onClients)
    BY <1>5, <1>t DEF TypeOK, DoOnClient
  <2> PICK d \in Clients : d = Head(onClients)
    BY <2>a, ReceiveFacts
  <2>b. clients' = SetIfAbsent(clients, AddrOf[d], d) BY <1>5 DEF DoOnClient
  <2>c. /\ \A a \in Addrs : a # AddrOf[d] => clients'[a] = clients[a]
        /\ clients[AddrOf[d]] = NoClient => clients'[AddrOf[d]] = d
        /\ clients[AddrOf[d]] # NoClient => clients'[AddrOf[d]] = clients[AddrOf[d]]
    BY <2>b, <1>t DEF SetIfAbsent, TypeOK
  <2>1. Held' = Held BY <1>5 DEF Held, DoOnClient
  <2>2. EntriesOwn' BY <1>o, <2>c DEF EntriesOwn
  <2>3. ClosingClosed' BY <1>5, <1>o DEF ClosingClosed, DoOnClient
  <2>4. NoOrphan'
    <3> SUFFICES ASSUME NEW c \in Held, OwnAddr(c)
                 PROVE  \/ acceptor' = "push" /\ conn' = c
                        \/ \E i \in 1 .. Len(onClients') : onClients'[i] = c
                        \/ clients'[AddrOf[c]] = c
      BY <2>1 DEF NoOrphan, OwnAddr
    <3>1. c \in Clients BY DEF Held
    <3>2. CASE acceptor = "push" /\ conn = c
      BY <1>5, <3>2 DEF DoOnClient, acceptVars
    <3>3. CASE \E i \in 1 .. Len(onClients) : onClients[i] = c
      <4> PICK i \in 1 .. Len(onClients) : onClients[i] = c BY <3>3
      <4>1. CASE i = 1
        <5>1. c = d BY <4>1, <2>a, ReceiveFacts
        <5>2. clients[AddrOf[c]] # NoClient => clients[AddrOf[c]] = c
          <6>1. AddrOf[c] \in Addrs BY <3>1
          <6>2. clients[AddrOf[c]] \in Clients \cup {NoClient} BY <6>1, <1>t DEF TypeOK
          <6> QED BY <6>1, <6>2, <1>o DEF EntriesOwn, OwnAddr
        <5> QED BY <5>1, <5>2, <2>c
      <4>2. CASE i # 1
        <5>1. i - 1 \in 1 .. Len(onClients') /\ onClients'[i - 1] = c
          BY <4>2, <2>a, ReceiveFacts
        <5> QED BY <5>1
      <4> QED BY <4>1, <4>2
    <3>4. CASE clients[AddrOf[c]] = c
      <4>1. AddrOf[c] \in Addrs /\ c # NoClient BY <3>1
      <4> QED BY <3>4, <4>1, <2>c
    <3> QED BY <1>o, <3>2, <3>3, <3>4 DEF NoOrphan
  <2> QED BY <1>i, <2>2, <2>3, <2>4 DEF RegInv
<1>6. CASE DoOffClient
  <2>a. offClients \in Seq(Clients) /\ offClients # <<>>
    BY <1>6, <1>t DEF TypeOK, DoOffClient
  <2> PICK c \in Clients : c = Head(offClients)
    BY <2>a, ReceiveFacts
  <2>b. \/ net' = [net EXCEPT ![c] = "closed"] /\ closing' = c
        \/ UNCHANGED <<net, closing>>
    BY <1>6 DEF DoOffClient
  <2>1. Held' \subseteq Held BY <2>b, <1>t DEF TypeOK, Held
  <2>2. EntriesOwn' BY <1>6, <1>o DEF EntriesOwn, DoOffClient
  <2>3. ClosingClosed'
    <3>1. net \in [Clients -> NetStates] BY <1>t DEF TypeOK
    <3>2. CASE net' = [net EXCEPT ![c] = "closed"] /\ closing' = c
      BY <3>1, <3>2 DEF ClosingClosed
    <3>3. CASE UNCHANGED <<net, closing>> BY <3>3, <1>o DEF ClosingClosed
    <3> QED BY <2>b, <3>2, <3>3
  <2>4. NoOrphan' BY <1>6, <1>o, <2>1, OrphanFrame DEF DoOffClient, acceptVars
  <2> QED BY <1>i, <2>2, <2>3, <2>4 DEF RegInv
<1>7. CASE DoOffClientEnd
  <2>a. closing \in Clients /\ net[closing] = "closed"
    BY <1>7, <1>t, <1>o DEF TypeOK, ClosingClosed, DoOffClientEnd
  <2>b. clients' = [clients EXCEPT ![AddrOf[closing]] = NoClient] /\ UNCHANGED <<acceptVars, onClients>>
    BY <1>7 DEF DoOffClientEnd
  <2>1. Held' = Held BY <1>7 DEF Held, DoOffClientEnd
  <2>2. EntriesOwn' BY <2>b, <1>t, <1>o DEF TypeOK, EntriesOwn
  <2>3. ClosingClosed' BY <1>7 DEF ClosingClosed, DoOffClientEnd
  <2>4. NoOrphan'
    <3> SUFFICES ASSUME NEW c \in Held, OwnAddr(c)
                 PROVE  \/ acceptor' = "push" /\ conn' = c
                        \/ \E i \in 1 .. Len(onClients') : onClients'[i] = c
                        \/ clients'[AddrOf[c]] = c
      BY <2>1 DEF NoOrphan, OwnAddr
    <3>1. c \in Clients /\ c # closing BY <2>a DEF Held
    <3>2. AddrOf[c] # AddrOf[closing] BY <3>1, <2>a DEF OwnAddr
    <3>3. clients'[AddrOf[c]] = clients[AddrOf[c]] BY <3>1, <3>2, <2>b, <1>t DEF TypeOK
    <3> QED BY <3>3, <2>b, <1>o DEF NoOrphan, acceptVars
  <2> QED BY <1>i, <2>2, <2>3, <2>4 DEF RegInv
<1>8. CASE \E c \in Clients : ReaderStep(c) \/ WorkerStep(c) \/ OffClient(c)
  <2>1. UNCHANGED <<acceptVars, closing, net, clients, onClients>>
    BY <1>8 DEF ReaderStep, WorkerStep, ReadFrame, PushFrame, ReadError, ReaderOff,
           TakeFrame, ReadAtOk, ReadAtError, TakeDone, OffClient
  <2>2. Held' = Held BY <2>1 DEF Held
  <2> QED BY <1>i, <1>o, <2>1, <2>2, OrphanFrame DEF RegInv, EntriesOwn, ClosingClosed, acceptVars
<1>9. CASE \E c \in Clients : PeerLost(c)
  <2> PICK c \in Clients : PeerLost(c) BY <1>9
  <2>1. Held' \subseteq Held BY <1>t DEF TypeOK, Held, PeerLost
  <2>a. net[c] = "open" /\ net' = [net EXCEPT ![c] = "lost"] /\ closing' = closing BY DEF PeerLost
  <2>2. ClosingClosed' BY <2>a, <1>t, <1>o DEF TypeOK, ClosingClosed
  <2>3. NoOrphan' BY <1>o, <2>1, OrphanFrame DEF PeerLost, acceptVars
  <2>4. EntriesOwn' BY <1>o DEF EntriesOwn, PeerLost
  <2> QED BY <1>i, <2>2, <2>3, <2>4 DEF RegInv
<1>10. CASE UNCHANGED vars
  <2>1. Held' = Held BY <1>10 DEF Held, vars
  <2> QED BY <1>10, <1>i, <1>o, <2>1, OrphanFrame
          DEF vars, acceptVars, RegInv, EntriesOwn, ClosingClosed
<1> QED BY <1>1, <1>2, <1>3, <1>4, <1>5, <1>6, <1>7, <1>8, <1>9, <1>10
        DEF Next, AcceptorStep, LoopStep

\* A client that holds a slot and has its address to itself is on its way to
\* the Loop or registered, so doOffClient finds it (NoOrphan).
THEOREM NobodyOrphaned == Spec => []NoOrphan
<1>1. RegInv => NoOrphan BY DEF RegInv
<1> QED BY <1>1, RegInit, RegStep, PTL DEF Spec

----------------------------------------------------------------------------
(***************************************************************************)
(* The server implements the pool of slots.                                *)
(***************************************************************************)

\* The initial state is that of an empty pool.
LEMMA PoolInit == Init => Pool!Init
BY DEF Init, Pool!Init, Held

\* Every step of the server is a step of the pool or leaves it alone.
LEMMA PoolStep == Inv /\ [Next]_vars => [Pool!Next]_(Pool!poolVars)
<1> SUFFICES ASSUME Inv, [Next]_vars PROVE [Pool!Next]_(Pool!poolVars)
  OBVIOUS
<1> DEFINE Gone == {c \in Clients : net[c] = "closed"}
           Refused == {c \in Clients : net[c] = "denied"}
<1> USE ClientsAssumption, BoundsAssumption
<1>t. TypeOK BY DEF Inv
<1>h. Cardinality(Held) \in Nat BY HeldFinite
<1>s. Held' = Held /\ Gone' = Gone /\ Refused' = Refused => [Pool!Next]_(Pool!poolVars)
  BY DEF Pool!poolVars
<1>1. CASE \E c \in Clients : Accept(c)
  <2> PICK c \in Clients : Accept(c) BY <1>1
  <2>1. net[c] = "idle" /\ net' = [net EXCEPT ![c] = "pending"] BY DEF Accept
  <2>2. Held' = Held /\ Gone' = Gone /\ Refused' = Refused BY <2>1, <1>t DEF TypeOK, Held
  <2> QED BY <2>2, <1>s
<1>2. CASE PreAcceptDeny
  <2>a. conn \in Clients /\ net[conn] = "pending"
    BY <1>2, <1>t DEF TypeOK, Inv, HeldWhere, PreAcceptDeny
  <2> PICK c \in Clients : c = conn BY <2>a
  <2>1. net[c] = "pending" /\ net' = [net EXCEPT ![c] = "denied"]
    BY <1>2, <2>a DEF PreAcceptDeny
  <2>2. Held' = Held /\ Gone' = Gone /\ Refused' = Refused \cup {c}
    BY <2>1, <1>t DEF TypeOK, Held
  <2>3. c \notin Held \cup Gone \cup Refused BY <2>1 DEF Held
  <2>4. Pool!Refuse(c) BY <2>2, <2>3 DEF Pool!Refuse, Pool!New
  <2> QED BY <2>4 DEF Pool!Next
<1>3. CASE PreAcceptAllow
  <2>a. conn \in Clients /\ net[conn] = "pending"
    BY <1>3, <1>t DEF TypeOK, Inv, HeldWhere, PreAcceptAllow
  <2> PICK c \in Clients : c = conn BY <2>a
  <2>1. net[c] = "pending" /\ net' = [net EXCEPT ![c] = "open"]
    BY <1>3, <2>a DEF PreAcceptAllow
  <2>2. Held' = Held \cup {c} /\ Gone' = Gone /\ Refused' = Refused
    BY <2>1, <1>t DEF TypeOK, Held
  <2>3. c \notin Held \cup Gone \cup Refused BY <2>1 DEF Held
  <2>4. Cardinality(Held) < MaxClient
    BY <1>3, <1>t, <1>h DEF Inv, TypeOK, SeenFresh, AliveExact, Closing, PreAcceptAllow, Full
  <2>5. Pool!New(c) BY <2>3 DEF Pool!New
  <2>6. Pool!Admit(c)
    BY <2>2, <2>4, <2>5, Zenon DEF Pool!Admit, Pool!Cardinality, Cardinality
  <2> QED BY <2>6 DEF Pool!Next
<1>4. CASE PushClient BY <1>4, <1>s DEF PushClient, Held
<1>5. CASE DoOnClient BY <1>5, <1>s DEF DoOnClient, Held
<1>6. CASE DoOffClient
  <2>a. offClients \in Seq(Clients) /\ offClients # <<>>
    BY <1>6, <1>t DEF TypeOK, DoOffClient
  <2>b. \A i \in 1 .. Len(offClients) : net[offClients[i]] \in Accepted
    BY DEF Inv, HeldWhere
  <2> PICK c \in Clients : c = Head(offClients)
    BY <2>a, ReceiveFacts
  <2>c. net[c] \in Accepted
    BY <2>a, <2>b, ReceiveFacts
  <2>1. CASE Registered(c)
    <3>1. net' = [net EXCEPT ![c] = "closed"] BY <1>6, <2>1 DEF DoOffClient
    <3>2. c \in Held BY <2>1, <2>c DEF Registered, Accepted, Held
    <3>3. Held' = Held \ {c} /\ Gone' = Gone \cup {c} /\ Refused' = Refused
      BY <3>1, <3>2, <1>t DEF TypeOK, Held
    <3>4. Pool!Release(c) BY <3>2, <3>3 DEF Pool!Release
    <3> QED BY <3>4 DEF Pool!Next
  <2>2. CASE ~Registered(c)
    <3>1. net' = net BY <1>6, <2>2 DEF DoOffClient
    <3> QED BY <3>1, <1>s DEF Held
  <2> QED BY <2>1, <2>2
<1>7. CASE DoOffClientEnd BY <1>7, <1>s DEF DoOffClientEnd, Held
<1>8. CASE \E c \in Clients : ReaderStep(c) \/ WorkerStep(c) \/ OffClient(c)
  <2>1. net' = net
    BY <1>8 DEF ReaderStep, WorkerStep, ReadFrame, PushFrame, ReadError, ReaderOff,
           TakeFrame, ReadAtOk, ReadAtError, TakeDone, OffClient
  <2> QED BY <2>1, <1>s DEF Held
<1>9. CASE \E c \in Clients : PeerLost(c)
  BY <1>9, <1>t, <1>s DEF TypeOK, Held, PeerLost
<1>10. CASE UNCHANGED vars BY <1>10, <1>s DEF vars, Held
<1> QED BY <1>1, <1>2, <1>3, <1>4, <1>5, <1>6, <1>7, <1>8, <1>9, <1>10
        DEF Next, AcceptorStep, LoopStep

\* The server implements the pool: each connection gets a slot or is refused,
\* at most once, never more than maxClient have one, and each is given back once
\* (preAccept, doOffClient).
THEOREM ServerIsPool == Spec => ImplementsPool
BY PoolInit, PoolStep, InvAlways, PTL DEF Spec, ImplementsPool, Pool!Spec
=============================================================================
