------------------------------- MODULE Fabric -------------------------------
(***************************************************************************)
(* The worker of a fabric network (olsw/fabric.go): the OpenFlow pipeline  *)
(* it programs into an Open vSwitch bridge and the frames that cross it,   *)
(* while Start still adds tunnels and networks and after Stop.             *)
(*                                                                         *)
(* The pipeline, with one variable for the flows of each table:            *)
(*   0  classify   in-port -> tunnel id (kept, or loaded for a patch port) *)
(*                 and table 2 or 4, which set the flag LS or TUN          *)
(*   10 learn      (tunnel id, source) -> in-port, into table 20           *)
(*   20 unicast    a learned destination, else flood                       *)
(*   30 flood      LS: all tunnels; TUN: the patch port of the tunnel id   *)
(*   31 flood      the borders; for LS then table 32                       *)
(*   32 loop       the patch port of the tunnel id                         *)
(* Open vSwitch (external) never outputs to the in-port.                   *)
(***************************************************************************)
EXTENDS Naturals, Sequences, FiniteSets

CONSTANTS
    Tunnels,   \* spec.Tunnels: sequence of [port, border]
    Nets,      \* spec.Networks: sequence of [vni, patch, outputs: set of links]
    Macs,
    NoFlow     \* the flow is not there

VARIABLES
    at,        \* "new", "tunnels", "networks", "up", "ports", "links", "stopped"
    k,         \* the place of Start or Stop in its loop
    tables,    \* are the flows of upTables in the bridge?
    in0,       \* table 0: ports -> [vni, flag]; vni NoFlow keeps it
    fdb,       \* table 20: <<vni, mac>> -> port
    toTun,     \* table 30, LS: NoFlow or the set of tunnels
    toPatch,   \* table 30, TUN: vni -> patch port
    toBorder,  \* table 31: flag -> NoFlow or the set of borders
    loop,      \* table 32: vni -> patch port
    tunnels, borders,   \* FabricWorker.tunnels and .borders
    devs,      \* ports and links that exist in the kernel and the bridge
    last       \* the frame of this step and where it went; else Quiet

fabVars == <<at, k, tables, in0, fdb, toTun, toPatch, toBorder, loop, tunnels,
             borders, devs, last>>
flowVars == <<tables, in0, toTun, toPatch, toBorder, loop>>

Vnis    == { Nets[i].vni : i \in DOMAIN Nets }
TunOf   == { Tunnels[i].port : i \in DOMAIN Tunnels }
PatchOf == { Nets[i].patch : i \in DOMAIN Nets }
Ports   == TunOf \cup PatchOf
Empty   == <<>>

With(f, x, v) == [y \in DOMAIN f \cup {x} |-> IF y = x THEN v ELSE f[y]]

Quiet == [in |-> NoFlow, vni |-> NoFlow, flag |-> NoFlow, flood |-> FALSE, to |-> {}]

Init ==
    /\ at = "new" /\ k = 1 /\ tables = FALSE
    /\ in0 = Empty /\ fdb = Empty /\ toPatch = Empty /\ loop = Empty
    /\ toTun = NoFlow /\ toBorder = [f \in {"LS", "TUN"} |-> NoFlow]
    /\ tunnels = {} /\ borders = {} /\ devs = {} /\ last = Quiet

-----------------------------------------------------------------------------
(* Initialize, Start. *)

(* Initialize: setUp, fail mode secure, upTables. *)
Initialize ==
    /\ at = "new" /\ at' = "tunnels" /\ k' = 1 /\ tables' = TRUE
    /\ UNCHANGED <<in0, fdb, toTun, toPatch, toBorder, loop, tunnels, borders, devs>> /\ last' = Quiet

(* flood2Border rewrites both flows of table 31, flood2Tunnel that of 30. *)
flood2Border(bs) == [f \in {"LS", "TUN"} |-> bs]

FloodsLast(ts) == {Tunnels[k].port}

flood2Tunnel(ts) == ts

AddTunnel ==
    /\ at = "tunnels" /\ k <= Len(Tunnels) /\ k' = k + 1
    /\ LET t == Tunnels[k] IN
       \/ /\ t.border
          /\ in0' = With(in0, t.port, [vni |-> NoFlow, flag |-> "LS"])
          /\ borders' = borders \cup {t.port} /\ devs' = devs \cup {t.port}
          /\ toBorder' = flood2Border(borders')
          /\ UNCHANGED <<tunnels, toTun>>
       \/ /\ ~t.border
          /\ in0' = With(in0, t.port, [vni |-> NoFlow, flag |-> "TUN"])
          /\ tunnels' = tunnels \cup {t.port} /\ devs' = devs \cup {t.port}
          /\ toTun' = flood2Tunnel(tunnels')
          /\ UNCHANGED <<borders, toBorder>>
    /\ UNCHANGED <<at, tables, fdb, toPatch, loop>> /\ last' = Quiet

(* addPort or dumpPort fails: AddTunnel returns. *)
TunnelFails ==
    /\ at = "tunnels" /\ k <= Len(Tunnels) /\ k' = k + 1
    /\ UNCHANGED <<at, flowVars, fdb, tunnels, borders, devs>> /\ last' = Quiet

TunnelsAdded ==
    /\ at = "tunnels" /\ k > Len(Tunnels) /\ at' = "networks" /\ k' = 1
    /\ UNCHANGED <<flowVars, fdb, tunnels, borders, devs>> /\ last' = Quiet

AnyVni(net) == [v \in Vnis |-> net.patch]

PatchFlow(net) == With(toPatch, net.vni, net.patch)

(* UpLink, the three flows, and the outputs whose parent link exists. *)
AddNetwork ==
    /\ at = "networks" /\ k <= Len(Nets) /\ k' = k + 1
    /\ LET net == Nets[k] IN
       /\ in0' = With(in0, net.patch, [vni |-> net.vni, flag |-> "LS"])
       /\ toPatch' = PatchFlow(net)
       /\ loop' = With(loop, net.vni, net.patch)
       /\ \E o \in SUBSET net.outputs : devs' = devs \cup {net.patch} \cup o
    /\ UNCHANGED <<at, tables, fdb, toTun, toBorder, tunnels, borders>> /\ last' = Quiet

NetworksAdded ==
    /\ at = "networks" /\ k > Len(Nets) /\ at' = "up" /\ k' = 1
    /\ UNCHANGED <<flowVars, fdb, tunnels, borders, devs>> /\ last' = Quiet

-----------------------------------------------------------------------------
(* Stop: downTables, DelTunnel, DelOutput and DelNetwork. *)

Stop ==
    /\ at = "up" /\ at' = "ports" /\ k' = 1
    /\ tables' = FALSE /\ in0' = Empty /\ fdb' = Empty /\ toPatch' = Empty
    /\ loop' = Empty /\ toTun' = NoFlow
    /\ toBorder' = [f \in {"LS", "TUN"} |-> NoFlow]
    /\ UNCHANGED <<tunnels, borders, devs>> /\ last' = Quiet

DelTunnel ==
    /\ at = "ports" /\ k <= Len(Tunnels) /\ k' = k + 1
    /\ devs' = devs \ {Tunnels[k].port}
    /\ UNCHANGED <<at, flowVars, fdb, tunnels, borders>> /\ last' = Quiet

TunnelsDeleted ==
    /\ at = "ports" /\ k > Len(Tunnels) /\ at' = "links" /\ k' = 1
    /\ UNCHANGED <<flowVars, fdb, tunnels, borders, devs>> /\ last' = Quiet

PatchOnly(net) == {net.patch}

(* The devices DelOutput and downNetwork delete. *)
Released(net) == {net.patch} \cup net.outputs

DelNetwork ==
    /\ at = "links" /\ k <= Len(Nets) /\ k' = k + 1
    /\ devs' = devs \ Released(Nets[k])
    /\ UNCHANGED <<at, flowVars, fdb, tunnels, borders>> /\ last' = Quiet

Stopped ==
    /\ at = "links" /\ k > Len(Nets) /\ at' = "stopped"
    /\ UNCHANGED <<k, flowVars, fdb, tunnels, borders, devs>> /\ last' = Quiet

-----------------------------------------------------------------------------
(* A frame (external: the data path of Open vSwitch). *)

FlowOf(s) == IF s = NoFlow THEN {} ELSE s

Patch(f, vni) == IF vni \in DOMAIN f THEN {f[vni]} ELSE {}

(* Table 31, then 32 for a frame of the logical switch. *)
FloodToBor(vni, flag) ==
    FlowOf(toBorder[flag])
    \cup IF flag = "LS" /\ toBorder["LS"] # NoFlow THEN Patch(loop, vni) ELSE {}

FloodToAll(vni, flag) ==
    FlowOf(toTun) \cup Patch(toPatch, vni) \cup FloodToBor(vni, flag)

(* Table 30: without a flow the frame is dropped and table 31 not reached. *)
FloodToTun(vni, flag) ==
    CASE flag = "LS"  -> IF toTun = NoFlow THEN {} ELSE toTun \cup FloodToBor(vni, flag)
      [] flag = "TUN" -> IF vni \in DOMAIN toPatch
                         THEN {toPatch[vni]} \cup FloodToBor(vni, flag) ELSE {}

Frame(p, vni, src, dst) ==
    /\ p \in devs /\ p \in DOMAIN in0 /\ tables
    /\ LET id    == IF in0[p].vni = NoFlow THEN vni ELSE in0[p].vni
           flag  == in0[p].flag
           learn == With(fdb, <<id, src>>, p)
           flood == <<id, dst>> \notin DOMAIN learn
           to    == IF flood THEN FloodToTun(id, flag) ELSE {learn[<<id, dst>>]}
       IN /\ fdb' = learn
          /\ last' = [in |-> p, vni |-> id, flag |-> flag, flood |-> flood,
                      to |-> to \ {p}]
    /\ UNCHANGED <<at, k, flowVars, tunnels, borders, devs>>

(* The hard timeout of a learned flow. *)
Expire ==
    /\ fdb # Empty
    /\ \E x \in DOMAIN fdb : fdb' = [y \in DOMAIN fdb \ {x} |-> fdb[y]]
    /\ last' = Quiet
    /\ UNCHANGED <<at, k, flowVars, tunnels, borders, devs>>

Next ==
    \/ Initialize \/ AddTunnel \/ TunnelFails \/ TunnelsAdded
    \/ AddNetwork \/ NetworksAdded
    \/ Stop \/ DelTunnel \/ TunnelsDeleted \/ DelNetwork \/ Stopped
    \/ \E p \in Ports, vni \in Vnis, src, dst \in Macs : src # dst /\ Frame(p, vni, src, dst)
    \/ Expire

Spec == Init /\ [][Next]_fabVars

-----------------------------------------------------------------------------
Range(f) == {f[x] : x \in DOMAIN f}

(* Every table holds flows of its own kind, for ports of the fabric. *)
TypeOK ==
    /\ at \in {"new", "tunnels", "networks", "up", "ports", "links", "stopped"}
    /\ k \in 1 .. Len(Tunnels) + Len(Nets) + 1 /\ tables \in BOOLEAN
    /\ DOMAIN in0 \subseteq Ports
    /\ Range(in0) \subseteq [vni : Vnis \cup {NoFlow}, flag : {"LS", "TUN"}]
    /\ DOMAIN fdb \subseteq Vnis \X Macs /\ Range(fdb) \subseteq Ports
    /\ FlowOf(toTun) \subseteq tunnels
    /\ \A f \in DOMAIN toBorder : FlowOf(toBorder[f]) \subseteq borders
    /\ \A f \in {toPatch, loop} : DOMAIN f \subseteq Vnis /\ Range(f) \subseteq PatchOf
    /\ tunnels \cup borders \subseteq TunOf
    /\ last.to \subseteq Ports

(* fabric.go:287-318: frames of one logical switch never come out of the   *)
(* patch port of another, by flooding, by the loop table or by what was    *)
(* learned, in whatever order networks are added and macs move.            *)
Isolated ==
    \A i \in DOMAIN Nets : Nets[i].patch \in last.to => last.vni = Nets[i].vni

(* fabric.go:298,361: a frame that came from a tunnel is not flooded to    *)
(* the tunnels again (every switch of the fabric has all the tunnels).     *)
SplitHorizon ==
    last.flood /\ last.in \in tunnels => last.to \cap tunnels = {}

(* The whole of the pipeline: once Start is done and a tunnel could be     *)
(* added, a flood from a patch or a border reaches every tunnel, every     *)
(* border and its own logical switch, and one from a tunnel the borders    *)
(* and its logical switch; never the port it came from.                    *)
FloodReaches ==
    at = "up" /\ last.flood /\ tunnels # {} =>
        LET local == {toPatch[last.vni]}
            all   == borders \cup local \cup (IF last.flag = "LS" THEN tunnels ELSE {})
        IN last.to = all \ {last.in}

(* Stop (fabric.go:533) deletes every port and link that Start has made,   *)
(* whichever of Start's calls had failed.                                  *)
StopReleases == at = "stopped" => devs = {}

(* The pipeline of fabric.go as a whole: frames stay in their logical      *)
(* switch and reach all of it, floods of tunnels come back to none, and    *)
(* Stop deletes what Start made; with the four parts above.                *)
FabricForwards == Isolated /\ SplitHorizon /\ FloodReaches /\ StopReleases
=============================================================================
