------------------------------ MODULE Firewall ------------------------------
(***************************************************************************)
(* The rules of the switch (olsw/switch.go: preAcl, preAllow, preNets) and *)
(* the FireWall that keeps them in the kernel (network/firewall.go,        *)
(* network/iptables.go).  Initialize builds one list of chains and one     *)
(* list of rules; Start, the hook that firewalld calls after a reload, and *)
(* Stop then walk the lists under the FireWall's lock, one iptables        *)
(* command at a time.  A reload of firewalld, which is not ordered with    *)
(* any of them, empties the kernel.                                        *)
(*                                                                         *)
(* A rule is its chain, what it matches and where it jumps; the fields of  *)
(* IpRule that are not told apart here are one value.                      *)
(***************************************************************************)
EXTENDS Naturals, Sequences

CONSTANTS
    Flows,       \* cfg.FireWall: sequence of rules, see Rule
    Acls,        \* cfg.Acl: sequence of [name, rules: sequence of [match, action]]
    Nets,        \* cfg.Network: sequence of the records described at NetRules
    MaxStarts,   \* bound: calls of FireWall.Start (Switch.Start, Reload)
    MaxReloads,  \* bound: reloads of firewalld
    EarlyReload  \* may firewalld reload before a hook is registered?

VARIABLES
    chains,   \* FireWall.chains, as Switch.Initialize leaves it
    rules,    \* FireWall.rules, likewise
    kernel,   \* chain -> sequence of <<match, jump>>, for the chains that exist
    holder,   \* who holds FireWall.lock: "none", "start", "hook", "stop"
    step,     \* the next command of the holder
    life,     \* of the Switch: "new", "started", "stopping", "stopped"
    starts,   \* calls of Start
    spawned,  \* goroutines of Start that wait for the lock
    hooks,    \* callbacks registered with OnReloaded
    calls,    \* callbacks that firewalld has still to call
    reloads

wallVars == <<chains, rules, kernel, holder, step, life, starts, spawned, hooks, calls, reloads>>

-----------------------------------------------------------------------------
(* Chains and rules. *)

Target(name, arg)    == <<"target", name, arg>>
BuiltIn(table, hook) == <<table, "built-in", hook>>
OLChain(table, hook) == <<table, "OPENLAN", hook>>
AclChain(name)       == <<"raw", "acl", name>>

Rule(chain, match, jump) ==
    [chain |-> chain, match |-> match, jump |-> jump, order |-> "-A"]

Hooks == << <<"filter", "IN">>, <<"filter", "FWD">>, <<"filter", "OUT">>,
            <<"nat", "PRE">>, <<"nat", "IN">>, <<"nat", "POST">>, <<"nat", "OUT">>,
            <<"mangle", "PRE">>, <<"mangle", "IN">>, <<"mangle", "FWD">>,
            <<"mangle", "POST">>, <<"mangle", "OUT">>,
            <<"raw", "PRE">>, <<"raw", "OUT">> >>

BuiltIns == { BuiltIn(Hooks[i][1], Hooks[i][2]) : i \in DOMAIN Hooks }

addOLC == [ i \in DOMAIN Hooks |-> OLChain(Hooks[i][1], Hooks[i][2]) ]

jumpOLC ==
    [ i \in DOMAIN Hooks |->
        [ Rule(BuiltIn(Hooks[i][1], Hooks[i][2]), "all", OLChain(Hooks[i][1], Hooks[i][2]))
            EXCEPT !.order = "-I" ] ]

Range(f) == {f[x] : x \in DOMAIN f}

(* The lists of ss, one after the other (FlattenSeq of SequencesExt, whose  *)
(* many definitions would be in every proof about the switch).             *)
Joined(ss) ==
    LET upto[i \in 0 .. Len(ss)] == IF i = 0 THEN <<>> ELSE upto[i - 1] \o ss[i]
    IN upto[Len(ss)]

(* The rules that f(e) gives for each element e of s, one after the other. *)
ForEach(s, f(_)) == Joined([ i \in DOMAIN s |-> f(s[i]) ])

enablePort(proto, port) ==
    << Rule(OLChain("filter", "IN"), <<proto, port>>, Target("ACCEPT", "")) >>

enableFwd(input, output, source, prefix) ==
    << Rule(OLChain("filter", "FWD"), <<input, output, source, prefix>>, Target("ACCEPT", "")) >>
    \o IF source = prefix THEN <<>>
       ELSE << Rule(OLChain("filter", "FWD"), <<output, input, prefix, source>>, Target("ACCEPT", "")) >>

enableMasq(source, prefix) ==
    IF source = prefix THEN <<>>
    ELSE << Rule(OLChain("nat", "POST"), <<source, prefix>>, Target("MASQUERADE", "")) >>

enableSnat(source, prefix) ==
    IF source = prefix THEN <<>>
    ELSE << Rule(OLChain("nat", "POST"), <<"", prefix>>, Target("SNAT", source)) >>

enableAcl(acl, input) ==
    IF input = "" \/ acl = "" THEN <<>>
    ELSE << Rule(OLChain("raw", "PRE"), input, AclChain(acl)) >>

(* preAcl: an ACL without a name is skipped. *)
preAclChains ==
    ForEach(Acls, LAMBDA a : IF a.name = "" THEN <<>> ELSE <<AclChain(a.name)>>)

preAcl ==
    ForEach(Acls, LAMBDA a :
        IF a.name = "" THEN <<>>
        ELSE [ i \in DOMAIN a.rules |->
                 Rule(AclChain(a.name), a.rules[i].match, Target(a.rules[i].action, "")) ])

(* preAllow: the ports of the switch, then those of every VPN and its Breed. *)
preAllow ==
    enablePort("udp", "switch") \o enablePort("tcp", "switch")
    \o ForEach(Nets, LAMBDA n :
         ForEach(n.vpns, LAMBDA v : enablePort(v.proto, v.port)))

(***************************************************************************)
(* A network is a record: bridge ("" without one) and its acl, subnet,     *)
(* ifAddr ("" without one), mss, routes (each [prefix, local, multi,       *)
(* snat]) and vpns, the VPN followed by its Breed (each [dev, subnet,      *)
(* routes, proto, port]).  preWorkerVPN extends the routes of a VPN by its *)
(* own subnet, the network's and the network's routes but the default.     *)
(***************************************************************************)
OwnRoutes(n, v) == v.routes

preWorkerVPN(n, v) ==
    v.routes \o <<v.subnet>>
    \o (IF n.subnet = "" THEN <<>> ELSE <<n.subnet>>)
    \o ForEach(n.routes, LAMBDA r :
         IF r.prefix = "0.0.0.0/0" THEN <<>> ELSE <<r.prefix>>)

preWorker(n) ==
    IF n.mss = 0 THEN <<>>
    ELSE << Rule(OLChain("mangle", "POST"), <<n.bridge, "tcp">>, Target("TCPMSS", "")) >>

preNetVPN0(n) ==
    ForEach(n.vpns, LAMBDA v :
        enableAcl(n.acl, v.dev)
        \o ForEach(preWorkerVPN(n, v), LAMBDA p :
             enableFwd(v.dev, "", v.subnet, p) \o enableMasq(v.subnet, p)))

preNetVPN1(n, prefix) ==
    ForEach(n.vpns, LAMBDA v :
        enableFwd("", n.bridge, v.subnet, prefix) \o enableMasq(v.subnet, prefix))

NetRoute(n, r) ==
    preNetVPN1(n, r.prefix)
    \o IF ~r.local THEN <<>>
       ELSE enableFwd(n.bridge, "", n.subnet, r.prefix)
            \o IF r.multi THEN enableSnat(n.ifAddr, r.prefix)
               ELSE IF r.snat THEN enableMasq(n.subnet, r.prefix) ELSE <<>>

NetRules(n) ==
    IF n.bridge = "" THEN <<>>
    ELSE preWorker(n) \o enableAcl(n.acl, n.bridge)
         \o enableFwd(n.bridge, n.bridge, "", "") \o preNetVPN0(n)
         \o IF n.ifAddr = "" THEN <<>>
            ELSE ForEach(n.routes, LAMBDA r : NetRoute(n, r))

preNets == ForEach(Nets, NetRules)

(* FireWall.chains and FireWall.rules after Switch.Initialize, which calls *)
(* preAcl, preAllow, preNets and then FireWall.Initialize.                 *)
InitChains == preAclChains \o addOLC

InitRules == Flows \o preAcl \o preAllow \o preNets \o jumpOLC

-----------------------------------------------------------------------------
(* The commands, and what iptables makes of one (external). *)

OprChains(op) == [ i \in DOMAIN chains |-> [op |-> op, chain |-> chains[i]] ]

OprRules(op) ==
    [ i \in DOMAIN rules |->
        [op |-> IF op = "-D" THEN "-D" ELSE rules[i].order, chain |-> rules[i].chain,
         entry |-> <<rules[i].match, rules[i].jump>>] ]

RulesFirst == OprRules("-A") \o OprChains("-N")

install == OprChains("-N") \o OprRules("-A")

ChainsFirst == OprChains("-X") \o OprRules("-D")

uninstall == OprRules("-D") \o OprChains("-X")

Known(jump) == jump[1] = "target" \/ jump \in DOMAIN kernel

Entries(c) == IF c \in DOMAIN kernel THEN Range(kernel[c]) ELSE {}

Referenced(c) ==
    \E d \in DOMAIN kernel : \E e \in Range(kernel[d]) : e[2] = c

(* IpRule.Opr with -A or -I: nothing when the rule exists already; an     *)
(* error, which install only logs, without the chain or the jump's target. *)
RuleAdded(c, op, e) ==
    IF c \notin DOMAIN kernel \/ ~Known(e[2]) \/ e \in Entries(c) THEN kernel
    ELSE [kernel EXCEPT ![c] = IF op = "-I" THEN <<e>> \o @ ELSE Append(@, e)]

(* -D deletes the first rule that is equal. *)
RemoveFirst(s, e) ==
    LET i == CHOOSE x \in DOMAIN s : s[x] = e /\ \A y \in 1 .. x - 1 : s[y] # e
    IN SubSeq(s, 1, i - 1) \o SubSeq(s, i + 1, Len(s))

RuleDeleted(c, e) ==
    IF e \notin Entries(c) THEN kernel
    ELSE [kernel EXCEPT ![c] = RemoveFirst(@, e)]

ChainAdded(c) ==
    IF c \in DOMAIN kernel THEN kernel
    ELSE [ d \in DOMAIN kernel \cup {c} |-> IF d = c THEN <<>> ELSE kernel[d] ]

(* RemoveExistingChain empties the chain, then deletes it unless some      *)
(* rule jumps to it; its errors are ignored.                               *)
ChainRemoved(c) ==
    IF c \notin DOMAIN kernel THEN kernel
    ELSE IF Referenced(c) THEN [kernel EXCEPT ![c] = <<>>]
    ELSE [ d \in DOMAIN kernel \ {c} |-> kernel[d] ]

Opr(cmd) ==
    CASE cmd.op = "-N" -> ChainAdded(cmd.chain)
      [] cmd.op = "-X" -> ChainRemoved(cmd.chain)
      [] cmd.op = "-D" -> RuleDeleted(cmd.chain, cmd.entry)
      [] OTHER         -> RuleAdded(cmd.chain, cmd.op, cmd.entry)

-----------------------------------------------------------------------------
(* The switch: Start, Reload and Stop (olsw/switch.go). *)

BuiltInOnly == [ c \in BuiltIns |-> <<>> ]

Init ==
    /\ chains = InitChains /\ rules = InitRules
    /\ kernel = BuiltInOnly /\ holder = "none" /\ step = 1 /\ life = "new"
    /\ starts = 0 /\ spawned = 0 /\ hooks = 0 /\ calls = 0 /\ reloads = 0

(* Switch.Start and Switch.Reload: libol.Go(v.firewall.Start). *)
Spawn ==
    /\ life \in {"new", "started"} /\ starts < MaxStarts
    /\ life' = "started" /\ starts' = starts + 1 /\ spawned' = spawned + 1
    /\ UNCHANGED <<chains, rules, kernel, holder, step, hooks, calls, reloads>>

(* Switch.Stop: FireWall.Stop is called and waits for the lock. *)
SwitchStop ==
    /\ life = "started" /\ life' = "stopping"
    /\ UNCHANGED <<chains, rules, kernel, holder, step, starts, spawned, hooks, calls, reloads>>

Free == holder = "none"

(* Start, the hook or Stop takes the lock. *)
Start ==
    /\ Free /\ spawned > 0
    /\ holder' = "start" /\ step' = 1 /\ spawned' = spawned - 1
    /\ UNCHANGED <<chains, rules, kernel, life, starts, hooks, calls, reloads>>

OnReloaded ==
    /\ Free /\ calls > 0
    /\ holder' = "hook" /\ step' = 1 /\ calls' = calls - 1
    /\ UNCHANGED <<chains, rules, kernel, life, starts, spawned, hooks, reloads>>

Stop ==
    /\ Free /\ life = "stopping"
    /\ holder' = "stop" /\ step' = 1
    /\ UNCHANGED <<chains, rules, kernel, life, starts, spawned, hooks, calls, reloads>>

Commands == IF holder = "stop" THEN uninstall ELSE install

(* The holder runs the next command of its list. *)
Command ==
    /\ ~Free /\ step <= Len(Commands)
    /\ kernel' = Opr(Commands[step]) /\ step' = step + 1
    /\ UNCHANGED <<chains, rules, holder, life, starts, spawned, hooks, calls, reloads>>

(* The lists are done.  Start registers one more hook, with the lock still *)
(* held; no hook is ever removed.                                          *)
Unlock ==
    /\ ~Free /\ step > Len(Commands)
    /\ holder' = "none" /\ step' = 1
    /\ hooks' = IF holder = "start" THEN hooks + 1 ELSE hooks
    /\ life' = IF holder = "stop" THEN "stopped" ELSE life
    /\ UNCHANGED <<chains, rules, kernel, starts, spawned, calls, reloads>>

(* firewalld (external) reloads: the kernel is left with the built-in      *)
(* chains, and every registered callback is called, one after the other.   *)
Reloaded ==
    /\ reloads < MaxReloads /\ (EarlyReload \/ hooks > 0)
    /\ kernel' = BuiltInOnly /\ reloads' = reloads + 1 /\ calls' = calls + hooks
    /\ UNCHANGED <<chains, rules, holder, step, life, starts, spawned, hooks>>

Next == \/ Spawn \/ SwitchStop \/ Start \/ OnReloaded \/ Stop
        \/ Command \/ Unlock \/ Reloaded

Spec == Init /\ [][Next]_wallVars

-----------------------------------------------------------------------------
IsRule(i, c, e) == rules[i].chain = c /\ <<rules[i].match, rules[i].jump>> = e

Configured(c) == { <<r.match, r.jump>> : r \in { x \in Range(rules) : x.chain = c } }

(* Every variable stays in its domain, whatever reload, reinstall or stop  *)
(* has happened.                                                           *)
TypeOK ==
    /\ BuiltIns \subseteq DOMAIN kernel
    /\ DOMAIN kernel \subseteq BuiltIns \cup Range(chains)
    /\ \A c \in DOMAIN kernel : Range(kernel[c]) \subseteq Configured(c)
    /\ holder \in {"none", "start", "hook", "stop"}
    /\ step \in 1 .. Len(rules) + Len(chains) + 1
    /\ life \in {"new", "started", "stopping", "stopped"}
    /\ starts \in 0 .. MaxStarts /\ spawned \in 0 .. starts /\ hooks \in 0 .. starts
    /\ reloads \in 0 .. MaxReloads /\ calls \in 0 .. hooks * reloads

Settled == Free /\ life = "started" /\ hooks > 0 /\ calls = 0

Decides(e) == e[2][1] = "target"

(* Rules that decide about a packet stand once, and as they are configured. *)
InOrder(c) ==
    \A x, y \in DOMAIN kernel[c] :
        x < y /\ Decides(kernel[c][x]) /\ Decides(kernel[c][y]) =>
            \A j \in DOMAIN rules : IsRule(j, c, kernel[c][y]) =>
                \E i \in 1 .. j - 1 : IsRule(i, c, kernel[c][x])

(* When no call of the FireWall is under way (network/firewall.go: Start,  *)
(* install), every chain of OpenLAN holds exactly the configured rules,    *)
(* and its jump is in place, wherever firewalld has reloaded between two   *)
(* commands; those that decide are in the configured order (an ACL decides *)
(* by its first match).  Only the jumps to the ACLs of several networks    *)
(* may change places: a hook adds at the end what a reload between two new *)
(* chains left out.                                                        *)
Protected ==
    Settled =>
        /\ \A c \in Range(chains) :
             c \in DOMAIN kernel /\ Entries(c) = Configured(c) /\ InOrder(c)
        /\ \A r \in Range(jumpOLC) : <<r.match, r.jump>> \in Entries(r.chain)

Has(c, match, jump) == <<match, Target(jump, "")>> \in Entries(c)

(* What switch.go's preNets is for: of every network with a bridge, a VPN  *)
(* client can reach the network, its routes and the other prefixes pushed  *)
(* to it, is answered, and is masqueraded outside its own subnet.          *)
VpnServed ==
    Settled =>
        \A n \in { x \in Range(Nets) : x.bridge # "" } : \A v \in Range(n.vpns) :
            \A p \in {n.subnet} \cup { r.prefix : r \in Range(n.routes) } :
                p \notin {"", "0.0.0.0/0", v.subnet} =>
                    /\ Has(OLChain("filter", "FWD"), <<v.dev, "", v.subnet, p>>, "ACCEPT")
                    /\ Has(OLChain("filter", "FWD"), <<"", v.dev, p, v.subnet>>, "ACCEPT")
                    /\ Has(OLChain("nat", "POST"), <<v.subnet, p>>, "MASQUERADE")

(* Stop (network/firewall.go:166) gives the lock back with the kernel as   *)
(* it was before the switch: no rule, jump or chain of OpenLAN is left.    *)
StopEmpties ==
    [][holder = "stop" /\ holder' = "none" => kernel' = BuiltInOnly]_wallVars
=============================================================================
