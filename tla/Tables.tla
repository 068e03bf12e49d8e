------------------------------- MODULE Tables -------------------------------
(***************************************************************************)
(* The traffic tables of the switch: the flows (olsw/app/online.go with    *)
(* olsw/cache/online.go) and the neighbours (olsw/app/neighbors.go with    *)
(* olsw/cache/neighbor.go), both kept in a SafeStrMap (libol/safe.go).     *)
(* The workers of the sessions add to them; a request of the HTTP API      *)
(* lists one through a goroutine that holds the read lock of the map while *)
(* it sends to a channel of bounded capacity.                              *)
(*                                                                         *)
(* The flows have a list, a map and the cache behind the lock of Online;   *)
(* the neighbours only the cache, which is looked up and then changed.     *)
(***************************************************************************)
EXTENDS Naturals, Sequences, FiniteSets

CONSTANTS
    Workers,   \* goroutines that call OnFrame
    Listers,   \* requests that list the flows
    Lines,     \* keys of flows
    Ips,       \* addresses of neighbours
    MaxSize,   \* Online.maxSize and the size of its cache
    NbrSize,   \* size of the cache of neighbours
    ChanCap,   \* capacity of the channel of List
    MaxFrames  \* bound: frames in all

VARIABLES
    lineList, lineMap,   \* Online
    lines,       \* the cache of flows: the keys in it
    holder,      \* the worker that has Online.lock, or Nobody
    waiting,     \* the writer that waits for the lock of the cache, or Nobody
    readers,     \* the listers that hold its read lock
    worker,      \* worker -> [at, key]
    frames,      \* frames taken
    lister,      \* lister -> [at, left, chan, got, snap]
    nbrs,        \* the cache of neighbours: the addresses in it
    announced    \* history: addresses some AddNeighbor is done with

tableVars == <<lineList, lineMap, lines, holder, waiting, readers, worker, frames,
               lister, nbrs, announced>>
lineVars == <<lineList, lineMap, lines, holder, waiting>>
listVars == <<readers, lister>>
nbrVars  == <<nbrs, announced>>

Nobody == "nobody"
Rest   == [at |-> "idle", key |-> Nobody]
NoList == [at |-> "idle", left |-> {}, chan |-> <<>>, got |-> <<>>, snap |-> {}]

Init ==
    /\ lineList = <<>> /\ lineMap = {} /\ lines = {}
    /\ holder = Nobody /\ waiting = Nobody /\ readers = {}
    /\ worker = [w \in Workers |-> Rest] /\ frames = 0
    /\ lister = [l \in Listers |-> NoList]
    /\ nbrs = {} /\ announced = {}

Goto(w, pc) == worker' = [worker EXCEPT ![w].at = pc]

(* OnFrame with an IPv4 or an ARP frame. *)
OnFrame(w) ==
    /\ worker[w] = Rest /\ frames < MaxFrames /\ frames' = frames + 1
    /\ \/ \E k \in Lines : worker' = [worker EXCEPT ![w] = [at |-> "line", key |-> k]]
       \/ \E i \in Ips : worker' = [worker EXCEPT ![w] = [at |-> "get", key |-> i]]
    /\ UNCHANGED <<lineVars, listVars, nbrVars>>

-----------------------------------------------------------------------------
(* Online.AddLine. *)

KeepsMap(k) == lineMap

Popped(k) == lineMap \ {k}

(* The lock of Online, and whether the key is known.  For a new key the    *)
(* oldest goes when the list is full; a known one is only touched.         *)
AddLine(w) ==
    /\ worker[w].at = "line" /\ holder = Nobody
    /\ IF worker[w].key \in lineMap
       THEN worker' = [worker EXCEPT ![w] = Rest] /\ UNCHANGED <<lineVars, listVars>>
       ELSE /\ holder' = w
            /\ Goto(w, IF Len(lineList) < MaxSize THEN "set" ELSE "del")
            /\ UNCHANGED <<lineList, lineMap, lines, waiting, listVars>>
    /\ UNCHANGED <<frames, nbrVars>>

(* sync.RWMutex: a writer that has called Lock keeps new readers out, and  *)
(* gets the lock when the others have given it back.  Between Del and Set  *)
(* the lock is free.                                                       *)
Lock(w) ==
    /\ worker[w].at \in {"del", "set"} /\ waiting = Nobody /\ waiting' = w
    /\ UNCHANGED <<lineList, lineMap, lines, holder, worker, frames, listVars, nbrVars>>

IgnoresReaders(w) == waiting = w

WriteLock(w) == waiting = w /\ readers = {}

(* popLine: out of the list, the cache and the map. *)
PopLine(w) ==
    /\ worker[w].at = "del" /\ WriteLock(w)
    /\ LET k == Head(lineList) IN
       /\ lineList' = Tail(lineList) /\ lines' = lines \ {k} /\ lineMap' = Popped(k)
    /\ Goto(w, "set") /\ waiting' = Nobody
    /\ UNCHANGED <<holder, frames, listVars, nbrVars>>

NoLimit(table, k, size) == table \cup {k}

(* SafeStrMap.add: nothing happens to a map that is full. *)
Set(table, k, size) == IF Cardinality(table) >= size THEN table ELSE table \cup {k}

PushLine(w) ==
    /\ worker[w].at = "set" /\ WriteLock(w)
    /\ lineList' = Append(lineList, worker[w].key)
    /\ lineMap' = lineMap \cup {worker[w].key}
    /\ lines' = Set(lines, worker[w].key, MaxSize)
    /\ holder' = Nobody /\ waiting' = Nobody
    /\ worker' = [worker EXCEPT ![w] = Rest]
    /\ UNCHANGED <<frames, listVars, nbrVars>>

-----------------------------------------------------------------------------
(* Neighbors.AddNeighbor: the cache is looked up; a known address is       *)
(* touched, a new one added: looked up again, deleted when it has come     *)
(* meanwhile, and set.  Nothing holds over these steps.                    *)

Known(w) == worker[w].key \in nbrs

Finish(w) ==
    /\ worker' = [worker EXCEPT ![w] = Rest]
    /\ announced' = announced \cup {worker[w].key}

GetNeighbor(w) ==
    /\ worker[w].at = "get"
    /\ IF Known(w) THEN Finish(w) ELSE Goto(w, "add") /\ UNCHANGED announced
    /\ UNCHANGED <<nbrs, lineVars, frames, listVars>>

AddNeighbor(w) ==
    /\ worker[w].at = "add"
    /\ Goto(w, IF Known(w) THEN "replace" ELSE "put")
    /\ UNCHANGED <<nbrVars, lineVars, frames, listVars>>

DelNeighbor(w) ==
    /\ worker[w].at = "replace"
    /\ nbrs' = nbrs \ {worker[w].key}
    /\ Goto(w, "put")
    /\ UNCHANGED <<announced, lineVars, frames, listVars>>

DropsIt(w) == nbrs

Put(w) == Set(nbrs, worker[w].key, NbrSize)

SetNeighbor(w) ==
    /\ worker[w].at = "put"
    /\ nbrs' = Put(w) /\ Finish(w)
    /\ UNCHANGED <<lineVars, frames, listVars>>

-----------------------------------------------------------------------------
(* List: the goroutine takes the read lock and sends every entry, gives it *)
(* back and sends nil; the handler takes entries until nil.                *)

ReadLock == waiting = Nobody

List(l) ==
    /\ lister[l].at = "idle" /\ ReadLock
    /\ readers' = readers \cup {l}
    /\ lister' = [lister EXCEPT ![l] =
                     [NoList EXCEPT !.at = "iter", !.left = lines, !.snap = lines]]
    /\ UNCHANGED <<lineVars, worker, frames, nbrVars>>

Room(l) == Len(lister[l].chan) < ChanCap

Iter(l, k) ==
    /\ lister[l].at = "iter" /\ k \in lister[l].left /\ Room(l)
    /\ lister' = [lister EXCEPT ![l].left = @ \ {k},
                                ![l].chan = Append(@, IF k \in lines THEN k ELSE Nobody)]
    /\ UNCHANGED <<readers, lineVars, worker, frames, nbrVars>>

(* The iteration is over: the lock goes back before nil is sent. *)
IterEnd(l) ==
    /\ lister[l].at = "iter" /\ lister[l].left = {}
    /\ readers' = readers \ {l} /\ lister' = [lister EXCEPT ![l].at = "nil"]
    /\ UNCHANGED <<lineVars, worker, frames, nbrVars>>

SendNil(l) ==
    /\ lister[l].at = "nil" /\ Room(l)
    /\ lister' = [lister EXCEPT ![l].at = "sent", ![l].chan = Append(@, "nil")]
    /\ UNCHANGED <<readers, lineVars, worker, frames, nbrVars>>

(* The handler returns without draining the channel. *)
Leaves(l) == TRUE

(* The handler goes on until it has taken nil. *)
Ended(l) == lister[l].at = "done"

Take(l) ==
    /\ lister[l].chan # <<>> /\ ~Ended(l)
    /\ lister' = [lister EXCEPT ![l].chan = Tail(@),
                     ![l].at  = IF Head(lister[l].chan) = "nil" THEN "done" ELSE @,
                     ![l].got = IF Head(lister[l].chan) = "nil" THEN @
                                ELSE Append(@, Head(lister[l].chan))]
    /\ UNCHANGED <<readers, lineVars, worker, frames, nbrVars>>

(* The response is written and the request over. *)
Respond(l) ==
    /\ lister[l].at = "done" /\ lister' = [lister EXCEPT ![l] = NoList]
    /\ UNCHANGED <<readers, lineVars, worker, frames, nbrVars>>

WorkerStep(w) ==
    \/ AddLine(w) \/ Lock(w) \/ PopLine(w) \/ PushLine(w)
    \/ GetNeighbor(w) \/ AddNeighbor(w) \/ DelNeighbor(w) \/ SetNeighbor(w)

ListerStep(l) ==
    \/ \E k \in Lines : Iter(l, k)
    \/ IterEnd(l) \/ SendNil(l) \/ Take(l) \/ Respond(l)

Next ==
    \/ \E w \in Workers : OnFrame(w) \/ WorkerStep(w)
    \/ \E l \in Listers : List(l) \/ ListerStep(l)

(* Goroutines that can run do. *)
Fairness ==
    /\ \A w \in Workers : WF_tableVars(WorkerStep(w))
    /\ \A l \in Listers : WF_tableVars(ListerStep(l))

Spec == Init /\ [][Next]_tableVars /\ Fairness

-----------------------------------------------------------------------------
Range(f) == {f[x] : x \in DOMAIN f}

(* The program counters and what each part of the tables may hold. *)
TypeOK ==
    /\ Range(lineList) \subseteq Lines /\ lineMap \subseteq Lines /\ lines \subseteq Lines
    /\ holder \in Workers \cup {Nobody} /\ waiting \in {holder, Nobody}
    /\ readers \subseteq Listers
    /\ \A w \in Workers :
         worker[w].at \in {"idle", "line", "del", "set", "get", "add", "replace", "put"}
    /\ \A l \in Listers : Len(lister[l].chan) <= ChanCap
    /\ nbrs \subseteq Ips /\ announced \subseteq Ips /\ Cardinality(nbrs) <= NbrSize

(* app/online.go:64-94: whenever no AddLine is under way, the list, the    *)
(* map and the cache hold the same flows, each once and at most maxSize.   *)
(* A flow the map forgets or keeps too long is never listed or never taken *)
(* out again.                                                              *)
InSync ==
    holder = Nobody =>
        /\ Range(lineList) = lineMap /\ lineMap = lines
        /\ Len(lineList) = Cardinality(lines) /\ Len(lineList) <= MaxSize

(* cache/online.go:39-51: a listing that ends has given each flow that was *)
(* in the table when it began once, and no other, while the workers add    *)
(* and take out flows.                                                     *)
ListsSnapshot ==
    \A l \in Listers : lister[l].at = "done" =>
        /\ Range(lister[l].got) = lister[l].snap
        /\ Len(lister[l].got) = Cardinality(lister[l].snap)

(* app/neighbors.go:44: two sessions that announce an address at the same  *)
(* time look it up, delete it and set it in any order: still every address *)
(* announced is listed when they are done, or the table is full.           *)
NeighborsListed ==
    (\A w \in Workers : worker[w].at \notin {"replace", "put"}) =>
        announced \subseteq nbrs \/ Cardinality(nbrs) = NbrSize

(* A worker that has to change the table gets to it, although listings     *)
(* hold its lock while their channel is full (cache/online.go:42).         *)
WriterServed == \A w \in Workers : worker[w].at \in {"del", "set"} ~> worker[w] = Rest
=============================================================================
