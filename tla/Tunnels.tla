------------------------------- MODULE Tunnels -------------------------------
(***************************************************************************)
(* The IPSec worker (olsw/esp.go) and the VXLAN worker (olsw/vxlan.go)     *)
(* under Switch.Start, Reload and Stop (olsw/switch.go), the kernel's xfrm *)
(* states and policies, links, addresses and routes they program, and the  *)
(* caches the HTTP API lists (olsw/cache/esp.go, models/esp.go).           *)
(*                                                                         *)
(* Reload is called by the handlers of the HTTP server, several at a time  *)
(* and without a lock; each clears the caches and then walks the worker's  *)
(* lists while another may be rebuilding them; two that append to them at  *)
(* once are a data race and lose entries of both.  Stop follows the        *)
(* server's Shutdown, which waits for its handlers.                        *)
(*                                                                         *)
(* The worker's lists are the sets of the keys they hold: adding a key     *)
(* that is there, or deleting one that is not, is an error of the kernel   *)
(* that is only logged.                                                    *)
(***************************************************************************)
EXTENDS Naturals, Sequences, FiniteSets

CONSTANTS
    Members,    \* spec.Members: sequence of [name, spi, known, policies];
                \* known: both addresses resolve; policies: seq of <<src, dst>>
    VxMembers,  \* names of the members of the VXLAN worker
    Handlers,   \* handlers of the HTTP server that may run at once
    MaxReloads, \* bound: calls of Reload
    MaxFaults,  \* bound: netlink calls that fail
    MaxLost     \* bound: entries a racing append loses

VARIABLES
    life,       \* "new", "starting", "up", "stopping", "stopped"
    todo,       \* caller -> what it has still to do; "main" is Start or Stop
    states, policies,   \* EspWorker.states and .policies
    kStates, kPolicies, \* the kernel's, by key
    links, addrs, routes, vxlans,  \* names of the members that have one
    cStates, cPolicies, \* the caches, by key
    raced,      \* callers that appended to the lists while another did, until
                \* one appends alone
    reloads, faults

tunVars == <<life, todo, states, policies, kStates, kPolicies, links, addrs, routes,
             vxlans, cStates, cPolicies, raced, reloads, faults>>
kernelVars == <<kStates, kPolicies, links, addrs, routes, vxlans>>
cacheVars  == <<cStates, cPolicies>>

Callers == Handlers \cup {"main"}

Used == { Members[i] : i \in { j \in DOMAIN Members : Members[j].known } }

(* addState: one state for each direction. *)
StatesOf(m) == {m.spi} \X {"out", "in"}

(* addPolicy: out, and the reverse as fwd and in. *)
PoliciesOf(m) ==
    UNION { LET p == m.policies[i] IN
            { <<p[1], p[2], "out">>, <<p[2], p[1], "fwd">>, <<p[2], p[1], "in">> } :
            i \in DOMAIN m.policies }

AllStates   == UNION { StatesOf(m) : m \in Used }
AllPolicies == UNION { PoliciesOf(m) : m \in Used }
Names       == { Members[i].name : i \in DOMAIN Members }

(* EspState.ID and EspPolicy.ID *)
CachedStates   == { m.spi : m \in Used }
CachedPolicies == UNION { { <<m.spi, m.policies[i]>> : i \in DOMAIN m.policies } : m \in Used }

StartSteps  == << "addStates", "addPolicies", "upMember", "upVxLAN", "started" >>

UpdateFirst == << "clear", "update", "append", "delXfrm", "forget", "addStates", "addPolicies", "upMember" >>

ReloadSteps == << "clear", "delXfrm", "forget", "update", "append", "addStates", "addPolicies", "upMember" >>

NoDelete    == << "downMember", "downVxLAN", "forget", "stopped" >>

StopSteps   == << "downMember", "downVxLAN", "delXfrm", "forget", "stopped" >>

(* Switch.Initialize: EspWorker.Initialize calls updateXfrm. *)
Init ==
    /\ life = "new" /\ todo = [c \in Callers |-> <<>>]
    /\ states = AllStates /\ policies = AllPolicies
    /\ kStates = {} /\ kPolicies = {} /\ links = {} /\ addrs = {} /\ routes = {} /\ vxlans = {}
    /\ cStates = CachedStates /\ cPolicies = CachedPolicies
    /\ raced = {} /\ reloads = 0 /\ faults = 0

-----------------------------------------------------------------------------
(* Switch.Start, Reload and Stop. *)

SwitchStart ==
    /\ life = "new" /\ life' = "starting"
    /\ todo' = [todo EXCEPT !["main"] = StartSteps]
    /\ UNCHANGED <<states, policies, kernelVars, cacheVars, raced, reloads, faults>>

Reload(h) ==
    /\ life = "up" /\ todo[h] = <<>> /\ reloads < MaxReloads
    /\ reloads' = reloads + 1
    /\ todo' = [todo EXCEPT ![h] = ReloadSteps]
    /\ UNCHANGED <<life, states, policies, kernelVars, cacheVars, raced, faults>>

SwitchStop ==
    /\ life = "up" /\ \A h \in Handlers : todo[h] = <<>>
    /\ life' = "stopping"
    /\ todo' = [todo EXCEPT !["main"] = StopSteps]
    /\ UNCHANGED <<states, policies, kernelVars, cacheVars, raced, reloads, faults>>

At(c, what) ==
    /\ todo[c] # <<>> /\ Head(todo[c]) = what
    /\ todo' = [todo EXCEPT ![c] = Tail(@)]

(* Start is over; Stop is over. *)
Done(c) ==
    /\ \/ At(c, "started") /\ life' = "up"
       \/ At(c, "stopped") /\ life' = "stopped"
    /\ UNCHANGED <<states, policies, kernelVars, cacheVars, raced, reloads, faults>>

(* Switch.Reload: EspState.Clear and EspPolicy.Clear. *)
Clear(c) ==
    /\ At(c, "clear") /\ cStates' = {} /\ cPolicies' = {}
    /\ UNCHANGED <<life, states, policies, kernelVars, raced, reloads, faults>>

-----------------------------------------------------------------------------
(* EspWorker. *)

(* delXfrm deletes what the lists hold from the kernel, policies first;    *)
(* then it forgets the lists.                                              *)
delXfrm(c) ==
    /\ At(c, "delXfrm")
    /\ kPolicies' = kPolicies \ policies
    /\ kStates' = kStates \ states
    /\ UNCHANGED <<life, states, policies, links, addrs, routes, vxlans, cacheVars, raced, reloads, faults>>

Forget(c) ==
    /\ At(c, "forget") /\ states' = {} /\ policies' = {}
    /\ UNCHANGED <<life, kernelVars, cacheVars, raced, reloads, faults>>

(* updateXfrm appends to the lists from here ... *)
Appending == { c \in Callers : todo[c] # <<>> /\ Head(todo[c]) = "append" }

beginUpdate(c) ==
    /\ At(c, "update")
    /\ raced' = IF Appending = {} THEN raced ELSE raced \cup Appending \cup {c}
    /\ UNCHANGED <<life, states, policies, kernelVars, cacheVars, reloads, faults>>

(* ... to here; when another did as well, an append of either may have     *)
(* been undone by a write of the other.                                    *)
updateXfrm(c) ==
    /\ At(c, "append")
    /\ \E lost \in SUBSET (AllStates \cup AllPolicies) :
         /\ lost # {} => c \in raced /\ Cardinality(lost) <= MaxLost
         /\ states' = (states \cup AllStates) \ lost
         /\ policies' = (policies \cup AllPolicies) \ lost
    /\ raced' = IF c \in raced THEN raced ELSE {}
    /\ cStates' = cStates \cup CachedStates /\ cPolicies' = cPolicies \cup CachedPolicies
    /\ UNCHANGED <<life, kernelVars, reloads, faults>>

(* addXfrm: one that exists already is an error, which is only logged. *)
addStates(c) ==
    /\ At(c, "addStates") /\ kStates' = kStates \cup states
    /\ UNCHANGED <<life, states, policies, kPolicies, links, addrs, routes, vxlans, cacheVars, raced, reloads, faults>>

addPolicies(c) ==
    /\ At(c, "addPolicies") /\ kPolicies' = kPolicies \cup policies
    /\ UNCHANGED <<life, states, policies, kStates, links, addrs, routes, vxlans, cacheVars, raced, reloads, faults>>

(* UpDummy returns at the first error: when the address is there already   *)
(* (every Reload), the route is not tried.  A fault fails LinkAdd, AddrAdd *)
(* or RouteAdd of one member.                                              *)
NewAddrs  == Names \ addrs

upMember(c) ==
    /\ At(c, "upMember")
    /\ \E link, addr, route \in SUBSET NewAddrs :
         LET failed == (NewAddrs \ link) \cup (link \ addr) \cup (addr \ route) IN
         /\ addr \subseteq link /\ route \subseteq addr
         /\ faults + (IF failed = {} THEN 0 ELSE 1) <= MaxFaults
         /\ faults' = faults + (IF failed = {} THEN 0 ELSE 1)
         /\ links' = links \cup link
         /\ addrs' = addrs \cup addr /\ routes' = routes \cup route
    /\ UNCHANGED <<life, states, policies, kStates, kPolicies, vxlans, cacheVars, raced, reloads>>

(* DownDummy deletes the link; its address and route go with it. *)
downMember(c) ==
    /\ At(c, "downMember")
    /\ links' = links \ Names /\ addrs' = addrs \ Names /\ routes' = routes \ Names
    /\ UNCHANGED <<life, states, policies, kStates, kPolicies, vxlans, cacheVars, raced, reloads, faults>>

-----------------------------------------------------------------------------
(* VxLANWorker: UpVxLAN adds the link unless it exists, DownVxLAN deletes  *)
(* it; Reload does nothing.                                                *)

UpVxLAN(c) ==
    /\ At(c, "upVxLAN") /\ vxlans' = vxlans \cup VxMembers
    /\ UNCHANGED <<life, states, policies, kStates, kPolicies, links, addrs, routes, cacheVars, raced, reloads, faults>>

DownVxLAN(c) ==
    /\ At(c, "downVxLAN") /\ vxlans' = vxlans \ VxMembers
    /\ UNCHANGED <<life, states, policies, kStates, kPolicies, links, addrs, routes, cacheVars, raced, reloads, faults>>

Step(c) ==
    \/ Done(c) \/ Clear(c) \/ delXfrm(c) \/ Forget(c) \/ beginUpdate(c) \/ updateXfrm(c)
    \/ addStates(c) \/ addPolicies(c) \/ upMember(c) \/ downMember(c) \/ UpVxLAN(c) \/ DownVxLAN(c)

Next ==
    \/ SwitchStart \/ SwitchStop
    \/ \E h \in Handlers : Reload(h)
    \/ \E c \in Callers : Step(c)

Spec == Init /\ [][Next]_tunVars

-----------------------------------------------------------------------------
(* Every variable stays in its domain, however the reloads interleave. *)
TypeOK ==
    /\ life \in {"new", "starting", "up", "stopping", "stopped"}
    /\ DOMAIN todo = Callers
    /\ states \cup kStates \subseteq AllStates
    /\ policies \cup kPolicies \subseteq AllPolicies
    /\ links \cup addrs \cup routes \subseteq Names /\ vxlans \subseteq VxMembers
    /\ cStates \subseteq CachedStates /\ cPolicies \subseteq CachedPolicies
    /\ raced \subseteq Handlers /\ reloads \in 0 .. MaxReloads /\ faults \in 0 .. MaxFaults

Resting == life = "up" /\ \A c \in Callers : todo[c] = <<>>

(* olsw/esp.go:382 Reload, called by any number of handlers at once        *)
(* without a lock: when the last has returned, the caches list every state *)
(* and policy, and the kernel and the worker's lists hold all of them, so  *)
(* that they can be deleted; unless two have appended to the lists at the  *)
(* same time and none alone after that.                                    *)
ReloadRestores ==
    Resting =>
        /\ cStates = CachedStates /\ cPolicies = CachedPolicies
        /\ raced = {} =>
             /\ kStates = AllStates /\ states = AllStates
             /\ kPolicies = AllPolicies /\ policies = AllPolicies

(* Stop (olsw/esp.go:351, vxlan.go:128) after any reloads and failures     *)
(* leaves no link, address or route in the kernel, and no state or policy. *)
StopRemoves ==
    life = "stopped" =>
        /\ links \cup addrs \cup routes \cup vxlans = {}
        /\ raced = {} => kStates = {} /\ kPolicies = {}

(* Reload and Stop of both workers: after overlapping Reloads the kernel,  *)
(* the lists and the caches agree, and Stop finds all there is to delete.  *)
TunnelsRestored == ReloadRestores /\ StopRemoves
=============================================================================
