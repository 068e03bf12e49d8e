---------------------------- MODULE SwitchProofs ----------------------------
(***************************************************************************)
(* The parts of the switch, for every configuration: what the run of       *)
(* MCSwitch checks of one, as theorems about its specification.  A         *)
(* behaviour of it is one of a single part; the lemmas about a part use    *)
(* its own next-state relation.                                            *)
(***************************************************************************)
EXTENDS MCSwitch, FiniteSetTheorems, SequenceTheorems, TLAPS

----------------------------------------------------------------------------
(* Numbers.                                                                *)

\* A set of numbers that is not empty has a least one: induction over data,
\* without a predicate as a parameter.
LEMMA Least ==
    ASSUME NEW T \in SUBSET Nat, T # {}
    PROVE  \E x \in T : \A y \in T : x <= y
<1> DEFINE R == OpToRel(<, Nat)
<1>1. IsWellFoundedOn(R, Nat) BY NatLessThanWellFounded
<1>2. \A x, y \in Nat : <<y, x>> \in R <=> y < x BY DEF OpToRel
<1> HIDE DEF R
<1>3. PICK x \in T : \A y \in T : ~(<<y, x>> \in R) BY <1>1, WFMin
<1>4. ASSUME NEW y \in T PROVE x <= y
  <2>1. y \in Nat /\ x \in Nat OBVIOUS
  <2>2. ~(<<y, x>> \in R) BY <1>3
  <2>3. ~(y < x) BY <1>2, <2>1, <2>2
  <2> QED BY <2>1, <2>3
<1> QED BY <1>4

\* T holds all numbers up to k when it holds 0 and, with i, i + 1.
LEMMA Upto ==
    ASSUME NEW len \in Nat, NEW T, 0 \in T,
           \A i \in 1 .. len : i - 1 \in T => i \in T
    PROVE  \A i \in 0 .. len : i \in T
<1> DEFINE Bad == { i \in 0 .. len : i \notin T }
<1> SUFFICES ASSUME Bad # {} PROVE FALSE OBVIOUS
<1>1. Bad \in SUBSET Nat OBVIOUS
<1>2. PICK x \in Bad : \A y \in Bad : x <= y BY <1>1, Least
<1>3. x \in 0 .. len /\ x \notin T OBVIOUS
<1>4. x # 0 BY <1>3
<1>5. x \in 1 .. len /\ x - 1 \in 0 .. len /\ ~(x <= x - 1) BY <1>3, <1>4
<1>6. x - 1 \notin T BY <1>3, <1>5
<1>7. x - 1 \in Bad BY <1>5, <1>6
<1> QED BY <1>2, <1>5, <1>7

----------------------------------------------------------------------------
(* The IPSec and VXLAN workers (Tunnels).                                  *)
(*                                                                         *)
(* TunnelsRestored speaks of the time when nobody works.  Its invariant    *)
(* says what is owed by those who do, in terms of the number of steps they *)
(* have left: the lists are complete unless somebody has still to append   *)
(* to them (TunLists), the kernel unless somebody has still to add to it   *)
(* (TunKernel).  The last to add finds complete lists, because everybody   *)
(* appends before.                                                         *)

StepNames ==
    {"clear", "delXfrm", "forget", "update", "append", "addStates", "addPolicies", "upMember",
     "upVxLAN", "started", "downMember", "downVxLAN", "stopped"}

\* s is what is left of steps.
LeftOf(s, steps) ==
    /\ s \in Seq(StepNames) /\ Len(s) <= Len(steps)
    /\ \A i \in 1 .. Len(s) : s[i] = steps[Len(steps) - Len(s) + i]

TunShape ==
    /\ DOMAIN todo = Tun!Callers
    /\ todo = [c \in Tun!Callers |-> todo[c]]
    /\ \A h \in Handlers : LeftOf(todo[h], Tun!ReloadSteps)
    /\ \A h \in Handlers : Len(todo[h]) > 0 => tunLife = "up"
    /\ todo["main"] \in Seq(StepNames)
    /\ \/ tunLife \in {"new", "up", "stopped"} /\ Len(todo["main"]) = 0
       \/ tunLife = "starting" /\ LeftOf(todo["main"], Tun!StartSteps) /\ Len(todo["main"]) > 0
       \/ tunLife = "stopping" /\ LeftOf(todo["main"], Tun!StopSteps) /\ Len(todo["main"]) > 0

\* Some handler has that many steps or more left.
TunOwed(rest) == \E h \in Handlers : Len(todo[h]) >= rest

\* Stop has that many steps left or fewer.
TunDown(rest) == tunLife = "stopped" \/ (tunLife = "stopping" /\ Len(todo["main"]) <= rest)

TunLists ==
    /\ tunLife \in {"new", "starting"} => raced = {}
    /\ TunOwed(4) \/ (cStates = Tun!CachedStates /\ cPolicies = Tun!CachedPolicies)
    /\ \/ raced # {} \/ TunOwed(4) \/ TunDown(1)
       \/ states = Tun!AllStates /\ policies = Tun!AllPolicies

TunKernel ==
    /\ \/ raced # {} \/ TunOwed(3) \/ tunLife \in {"new", "stopping", "stopped"}
       \/ tunLife = "starting" /\ Len(todo["main"]) = 5
       \/ kStates = Tun!AllStates
    /\ \/ raced # {} \/ TunOwed(2) \/ tunLife \in {"new", "stopping", "stopped"}
       \/ tunLife = "starting" /\ Len(todo["main"]) >= 4
       \/ kPolicies = Tun!AllPolicies
    /\ TunDown(2) /\ raced = {} => kStates = {} /\ kPolicies = {}
    /\ TunDown(4) => tunLinks \cup addrs \cup tunRoutes = {}
    /\ TunDown(3) => vxlans = {}

TunInv == Tun!TypeOK /\ TunShape /\ TunLists /\ TunKernel

\* A step of a behaviour of this part is one of Tunnels.
LEMMA TunStep == part = "tun" /\ [Next]_vars => part' = "tun" /\ [Tun!Next]_(Tun!tunVars)
<1> SUFFICES ASSUME part = "tun", [Next]_vars PROVE part' = "tun" /\ [Tun!Next]_(Tun!tunVars)
  OBVIOUS
<1>1. CASE TunNext BY <1>1 DEF TunNext, OfTun
<1>2. CASE UNCHANGED vars BY <1>2 DEF vars, tunVars, Tun!tunVars
<1>3. /\ ~WallNext /\ ~LanNext /\ ~FabNext /\ ~VpnNext /\ ~UserNext /\ ~TableNext
      /\ ~WebNext /\ ~DbNext /\ ~PrxNext
  BY DEF WallNext, LanNext, FabNext, VpnNext, UserNext, TableNext, WebNext, DbNext, PrxNext,
         OfWall, OfLan, OfFab, OfVpn, OfUser, OfTable, OfWeb, OfDb, OfPrx
<1> QED BY <1>1, <1>2, <1>3 DEF Next

\* Who takes the first of the steps that are left has one less.
LEMMA Suffix ==
    ASSUME NEW steps, Len(steps) \in Nat, NEW s, LeftOf(s, steps), s # <<>>
    PROVE  /\ Len(s) \in 1 .. Len(steps) /\ Head(s) = steps[Len(steps) + 1 - Len(s)]
           /\ LeftOf(Tail(s), steps) /\ Len(Tail(s)) = Len(s) - 1
<1>1. s \in Seq(StepNames) /\ Len(s) \in Nat /\ Len(s) <= Len(steps) BY DEF LeftOf
<1>2. Len(s) \in 1 .. Len(steps) BY <1>1
<1>3. Head(s) = s[1] /\ s[1] = steps[Len(steps) - Len(s) + 1] BY <1>1, <1>2 DEF LeftOf
<1>4. /\ Tail(s) \in Seq(StepNames) /\ Len(Tail(s)) = Len(s) - 1
      /\ \A i \in 1 .. Len(s) - 1 : Tail(s)[i] = s[i + 1]
  BY <1>1, <1>2
<1>5. ASSUME NEW i \in 1 .. Len(Tail(s))
      PROVE  Tail(s)[i] = steps[Len(steps) - Len(Tail(s)) + i]
  <2>1. i + 1 \in 1 .. Len(s) /\ Tail(s)[i] = s[i + 1] BY <1>1, <1>4
  <2>2. s[i + 1] = steps[Len(steps) - Len(s) + (i + 1)] BY <2>1 DEF LeftOf
  <2>3. Len(steps) - Len(s) + (i + 1) = Len(steps) - Len(Tail(s)) + i BY <1>1, <1>4
  <2> QED BY <2>1, <2>2, <2>3
<1> QED BY <1>1, <1>2, <1>3, <1>4, <1>5 DEF LeftOf

\* How many steps are left before each step of Reload, Start and Stop.
ReloadAt(what, rest) ==
    \/ (what = "clear" /\ rest = 8) \/ (what = "delXfrm" /\ rest = 7)
    \/ (what = "forget" /\ rest = 6) \/ (what = "update" /\ rest = 5)
    \/ (what = "append" /\ rest = 4) \/ (what = "addStates" /\ rest = 3)
    \/ (what = "addPolicies" /\ rest = 2) \/ (what = "upMember" /\ rest = 1)
StartAt(what, rest) ==
    \/ (what = "addStates" /\ rest = 5) \/ (what = "addPolicies" /\ rest = 4)
    \/ (what = "upMember" /\ rest = 3) \/ (what = "upVxLAN" /\ rest = 2)
    \/ (what = "started" /\ rest = 1)
StopAt(what, rest) ==
    \/ (what = "downMember" /\ rest = 5) \/ (what = "downVxLAN" /\ rest = 4)
    \/ (what = "delXfrm" /\ rest = 3) \/ (what = "forget" /\ rest = 2)
    \/ (what = "stopped" /\ rest = 1)

\* The step a handler takes tells how many it has left.
LEMMA TunHandlerAt ==
    ASSUME TunShape, NEW h \in Handlers, NEW what, Tun!At(h, what)
    PROVE  /\ tunLife = "up" /\ Len(todo[h]) \in 1 .. 8
           /\ ReloadAt(what, Len(todo[h]))
           /\ LeftOf(todo'[h], Tun!ReloadSteps) /\ Len(todo'[h]) = Len(todo[h]) - 1
           /\ DOMAIN todo' = Tun!Callers /\ todo' = [c \in Tun!Callers |-> todo'[c]]
           /\ \A c \in Tun!Callers \ {h} : todo'[c] = todo[c]
<1> DEFINE steps == Tun!ReloadSteps
<1>1. Len(steps) = 8 BY DEF Tun!ReloadSteps
<1>2. /\ LeftOf(todo[h], steps) /\ todo[h] # <<>> /\ Head(todo[h]) = what
      /\ todo' = [todo EXCEPT ![h] = Tail(todo[h])]
  BY DEF TunShape, Tun!At
<1>3. h \in Tun!Callers BY DEF Tun!Callers
<1>4. /\ todo'[h] = Tail(todo[h]) /\ DOMAIN todo' = Tun!Callers
      /\ todo' = [c \in Tun!Callers |-> todo'[c]]
      /\ \A c \in Tun!Callers \ {h} : todo'[c] = todo[c]
  BY <1>2, <1>3 DEF TunShape
<1> HIDE DEF steps
<1>5. /\ Len(todo[h]) \in 1 .. 8 /\ Head(todo[h]) = steps[9 - Len(todo[h])]
      /\ LeftOf(Tail(todo[h]), steps) /\ Len(Tail(todo[h])) = Len(todo[h]) - 1
  <2>1. Len(steps) \in Nat BY <1>1
  <2>2. /\ Len(todo[h]) \in 1 .. Len(steps) /\ Head(todo[h]) = steps[Len(steps) + 1 - Len(todo[h])]
        /\ LeftOf(Tail(todo[h]), steps) /\ Len(Tail(todo[h])) = Len(todo[h]) - 1
    BY <2>1, <1>2, Suffix
  <2>3. Len(steps) + 1 - Len(todo[h]) = 9 - Len(todo[h]) BY <1>1, <2>2
  <2> QED BY <1>1, <2>2, <2>3
<1>6. tunLife = "up"
  <2>1. Len(todo[h]) > 0 BY <1>5
  <2> QED BY <2>1 DEF TunShape
<1>7. ReloadAt(what, Len(todo[h]))
  <2>1. what = steps[9 - Len(todo[h])] /\ Len(todo[h]) \in 1 .. 8 BY <1>2, <1>5
  <2>2. \A i \in 1 .. 8 : ReloadAt(steps[i], 9 - i) BY DEF steps, Tun!ReloadSteps, ReloadAt
  <2>3. \A x \in 1 .. 8 : 9 - x \in 1 .. 8 /\ 9 - (9 - x) = x OBVIOUS
  <2> QED BY <2>1, <2>2, <2>3
<1> QED BY <1>2, <1>4, <1>5, <1>6, <1>7 DEF steps

\* The step main takes tells how far Start or Stop has come.
LEMMA TunMainAt ==
    ASSUME TunShape, NEW what, Tun!At("main", what)
    PROVE  /\ Len(todo["main"]) \in 1 .. 5 /\ Len(todo'["main"]) = Len(todo["main"]) - 1
           /\ \/ /\ tunLife = "starting" /\ LeftOf(todo'["main"], Tun!StartSteps)
                 /\ StartAt(what, Len(todo["main"]))
              \/ /\ tunLife = "stopping" /\ LeftOf(todo'["main"], Tun!StopSteps)
                 /\ StopAt(what, Len(todo["main"]))
           /\ DOMAIN todo' = Tun!Callers /\ todo' = [c \in Tun!Callers |-> todo'[c]]
           /\ \A h \in Handlers : todo'[h] = todo[h]
<1>1. /\ todo["main"] # <<>> /\ Head(todo["main"]) = what
      /\ todo' = [todo EXCEPT !["main"] = Tail(todo["main"])]
  BY DEF Tun!At
<1>2. "main" \in Tun!Callers /\ Handlers \subseteq Tun!Callers /\ "main" \notin Handlers
  BY TunAssumption DEF Tun!Callers
<1>3. /\ todo'["main"] = Tail(todo["main"]) /\ DOMAIN todo' = Tun!Callers
      /\ todo' = [c \in Tun!Callers |-> todo'[c]]
      /\ \A h \in Handlers : todo'[h] = todo[h]
  BY <1>1, <1>2 DEF TunShape
<1>4. ASSUME NEW steps, Len(steps) = 5, LeftOf(todo["main"], steps)
      PROVE  /\ Len(todo["main"]) \in 1 .. 5 /\ what = steps[6 - Len(todo["main"])]
             /\ LeftOf(todo'["main"], steps) /\ Len(todo'["main"]) = Len(todo["main"]) - 1
  <2>1. Len(steps) \in Nat BY <1>4
  <2>2. /\ Len(todo["main"]) \in 1 .. Len(steps)
        /\ Head(todo["main"]) = steps[Len(steps) + 1 - Len(todo["main"])]
        /\ LeftOf(Tail(todo["main"]), steps) /\ Len(Tail(todo["main"])) = Len(todo["main"]) - 1
    BY <2>1, <1>1, <1>4, Suffix
  <2>3. Len(steps) + 1 - Len(todo["main"]) = 6 - Len(todo["main"]) BY <1>4, <2>2
  <2> QED BY <1>1, <1>3, <1>4, <2>2, <2>3
<1>5. CASE tunLife = "starting" /\ LeftOf(todo["main"], Tun!StartSteps)
  <2>1. Len(Tun!StartSteps) = 5 BY DEF Tun!StartSteps, StepNames
  <2>2. /\ Len(todo["main"]) \in 1 .. 5 /\ what = Tun!StartSteps[6 - Len(todo["main"])]
        /\ LeftOf(todo'["main"], Tun!StartSteps) /\ Len(todo'["main"]) = Len(todo["main"]) - 1
    BY <1>4, <1>5, <2>1
  <2>3. StartAt(what, Len(todo["main"]))
    <3>1. \A i \in 1 .. 5 : StartAt(Tun!StartSteps[i], 6 - i) BY DEF Tun!StartSteps, StartAt
    <3>2. \A x \in 1 .. 5 : 6 - x \in 1 .. 5 /\ 6 - (6 - x) = x OBVIOUS
    <3> QED BY <2>2, <3>1, <3>2
  <2> QED BY <1>3, <1>5, <2>2, <2>3
<1>6. CASE tunLife = "stopping" /\ LeftOf(todo["main"], Tun!StopSteps)
  <2>1. Len(Tun!StopSteps) = 5 BY DEF Tun!StopSteps, StepNames
  <2>2. /\ Len(todo["main"]) \in 1 .. 5 /\ what = Tun!StopSteps[6 - Len(todo["main"])]
        /\ LeftOf(todo'["main"], Tun!StopSteps) /\ Len(todo'["main"]) = Len(todo["main"]) - 1
    BY <1>4, <1>6, <2>1
  <2>3. StopAt(what, Len(todo["main"]))
    <3>1. \A i \in 1 .. 5 : StopAt(Tun!StopSteps[i], 6 - i) BY DEF Tun!StopSteps, StopAt
    <3>2. \A x \in 1 .. 5 : 6 - x \in 1 .. 5 /\ 6 - (6 - x) = x OBVIOUS
    <3> QED BY <2>2, <3>1, <3>2
  <2> QED BY <1>3, <1>6, <2>2, <2>3
<1>7. Len(todo["main"]) # 0
  <2>1. todo["main"] \in Seq(StepNames) BY DEF TunShape
  <2> QED BY <1>1, <2>1
<1> QED BY <1>5, <1>6, <1>7 DEF TunShape

\* Nobody but a handler appends to the lists while others may.
LEMMA TunAppending == TunShape => Tun!Appending \subseteq Handlers
<1> SUFFICES ASSUME TunShape, todo["main"] # <<>>, Head(todo["main"]) = "append" PROVE FALSE
  BY DEF Tun!Appending, Tun!Callers
<1>1. todo["main"] \in Seq(StepNames) /\ Len(todo["main"]) # 0
  <2>1. todo["main"] \in Seq(StepNames) BY DEF TunShape
  <2> QED BY <2>1
<1>2. Len(Tun!StartSteps) \in Nat /\ Len(Tun!StopSteps) \in Nat BY DEF Tun!StartSteps, Tun!StopSteps
<1>3. CASE LeftOf(todo["main"], Tun!StartSteps)
  <2>1. /\ Len(todo["main"]) \in 1 .. Len(Tun!StartSteps)
        /\ Head(todo["main"]) = Tun!StartSteps[Len(Tun!StartSteps) + 1 - Len(todo["main"])]
    BY <1>2, <1>3, Suffix
  <2> QED BY <2>1 DEF Tun!StartSteps
<1>4. CASE LeftOf(todo["main"], Tun!StopSteps)
  <2>1. /\ Len(todo["main"]) \in 1 .. Len(Tun!StopSteps)
        /\ Head(todo["main"]) = Tun!StopSteps[Len(Tun!StopSteps) + 1 - Len(todo["main"])]
    BY <1>2, <1>4, Suffix
  <2> QED BY <2>1 DEF Tun!StopSteps
<1> QED BY <1>1, <1>3, <1>4 DEF TunShape

\* A step of a handler changes what is owed only if it is the last to owe it.
LEMMA TunHandlerOwes ==
    ASSUME TunShape, NEW h \in Handlers, NEW what, Tun!At(h, what), NEW rest \in Nat
    PROVE  /\ Len(todo[h]) # rest => (TunOwed(rest)' <=> TunOwed(rest))
           /\ Len(todo'[h]) >= rest => TunOwed(rest)'
           /\ ~TunDown(rest) /\ (tunLife' = tunLife => ~TunDown(rest)')
<1>1. /\ tunLife = "up" /\ Len(todo[h]) \in 1 .. 8 /\ Len(todo'[h]) = Len(todo[h]) - 1
      /\ \A c \in Tun!Callers \ {h} : todo'[c] = todo[c]
  BY TunHandlerAt
<1>2. Handlers \subseteq Tun!Callers BY DEF Tun!Callers
<1>3. \A g \in Handlers : g # h => todo'[g] = todo[g] BY <1>1, <1>2
<1>4. Len(todo[h]) # rest => (Len(todo'[h]) >= rest <=> Len(todo[h]) >= rest) BY <1>1
<1> QED BY <1>1, <1>3, <1>4 DEF TunOwed, TunDown

\* What is left to do stays what is left of Start, Reload and Stop.
LEMMA TunShapeStep == TunShape /\ [Tun!Next]_(Tun!tunVars) => TunShape'
<1> SUFFICES ASSUME TunShape, [Tun!Next]_(Tun!tunVars) PROVE TunShape'
  OBVIOUS
<1>h. \A h \in Handlers : h \in Tun!Callers /\ h # "main" BY TunAssumption DEF Tun!Callers
<1>m. "main" \in Tun!Callers BY DEF Tun!Callers
<1>f. /\ LeftOf(Tun!StartSteps, Tun!StartSteps) /\ LeftOf(Tun!StopSteps, Tun!StopSteps)
      /\ LeftOf(Tun!ReloadSteps, Tun!ReloadSteps)
      /\ Len(Tun!StartSteps) = 5 /\ Len(Tun!StopSteps) = 5
  <2>1. Tun!StartSteps \in Seq(StepNames) /\ Len(Tun!StartSteps) = 5 BY DEF Tun!StartSteps, StepNames
  <2>2. Tun!StopSteps \in Seq(StepNames) /\ Len(Tun!StopSteps) = 5 BY DEF Tun!StopSteps, StepNames
  <2>3. Tun!ReloadSteps \in Seq(StepNames) /\ Len(Tun!ReloadSteps) = 8 BY DEF Tun!ReloadSteps, StepNames
  <2> QED BY <2>1, <2>2, <2>3 DEF LeftOf
<1>1. CASE Tun!SwitchStart
  <2>1. /\ tunLife = "new" /\ tunLife' = "starting"
        /\ todo' = [todo EXCEPT !["main"] = Tun!StartSteps]
    BY <1>1 DEF Tun!SwitchStart
  <2>2. /\ todo'["main"] = Tun!StartSteps /\ \A h \in Handlers : todo'[h] = todo[h]
        /\ DOMAIN todo' = Tun!Callers /\ todo' = [c \in Tun!Callers |-> todo'[c]]
    BY <1>h, <1>m, <2>1 DEF TunShape
  <2>3. \A h \in Handlers : ~(Len(todo[h]) > 0) BY <2>1 DEF TunShape
  <2>4. \A h \in Handlers : LeftOf(todo'[h], Tun!ReloadSteps) /\ ~(Len(todo'[h]) > 0)
    BY <2>2, <2>3 DEF TunShape
  <2>5. LeftOf(todo'["main"], Tun!StartSteps) /\ Len(todo'["main"]) = 5 BY <1>f, <2>2
  <2>6. todo'["main"] \in Seq(StepNames) BY <2>5 DEF LeftOf
  <2> QED BY <2>1, <2>2, <2>4, <2>5, <2>6 DEF TunShape
<1>2. CASE Tun!SwitchStop
  <2>1. /\ tunLife = "up" /\ tunLife' = "stopping" /\ \A h \in Handlers : todo[h] = <<>>
        /\ todo' = [todo EXCEPT !["main"] = Tun!StopSteps]
    BY <1>2 DEF Tun!SwitchStop
  <2>2. /\ todo'["main"] = Tun!StopSteps /\ \A h \in Handlers : todo'[h] = todo[h]
        /\ DOMAIN todo' = Tun!Callers /\ todo' = [c \in Tun!Callers |-> todo'[c]]
    BY <1>h, <1>m, <2>1 DEF TunShape
  <2>3. \A h \in Handlers : ~(Len(todo[h]) > 0) BY <2>1
  <2>4. \A h \in Handlers : LeftOf(todo'[h], Tun!ReloadSteps) /\ ~(Len(todo'[h]) > 0)
    BY <2>2, <2>3 DEF TunShape
  <2>5. LeftOf(todo'["main"], Tun!StopSteps) /\ Len(todo'["main"]) = 5 BY <1>f, <2>2
  <2>6. todo'["main"] \in Seq(StepNames) BY <2>5 DEF LeftOf
  <2>7. Len(todo'["main"]) > 0 BY <2>5
  <2> QED BY <2>1, <2>2, <2>4, <2>5, <2>6, <2>7 DEF TunShape
<1>3. ASSUME NEW h \in Handlers, Tun!Reload(h) PROVE TunShape'
  <2>1. /\ tunLife = "up" /\ tunLife' = "up" /\ todo' = [todo EXCEPT ![h] = Tun!ReloadSteps]
    BY <1>3 DEF Tun!Reload
  <2>2. /\ todo'[h] = Tun!ReloadSteps /\ \A c \in Tun!Callers \ {h} : todo'[c] = todo[c]
        /\ DOMAIN todo' = Tun!Callers /\ todo' = [c \in Tun!Callers |-> todo'[c]]
    BY <1>h, <1>m, <2>1 DEF TunShape
  <2>3. todo'["main"] = todo["main"] BY <1>h, <1>m, <2>2
  <2>4. \A g \in Handlers : LeftOf(todo'[g], Tun!ReloadSteps) BY <1>h, <1>f, <2>2 DEF TunShape
  <2> QED BY <2>1, <2>2, <2>3, <2>4 DEF TunShape
<1>4. ASSUME NEW h \in Handlers, Tun!Step(h) PROVE TunShape'
  <2>1. PICK what : Tun!At(h, what) /\ (what \notin {"started", "stopped"} => tunLife' = tunLife)
    BY <1>4 DEF Tun!Step, Tun!Done, Tun!Clear, Tun!delXfrm, Tun!Forget, Tun!beginUpdate,
        Tun!updateXfrm, Tun!addStates, Tun!addPolicies, Tun!upMember, Tun!downMember,
        Tun!UpVxLAN, Tun!DownVxLAN
  <2>2. /\ tunLife = "up" /\ Len(todo[h]) \in 1 .. 8
        /\ ReloadAt(what, Len(todo[h]))
        /\ LeftOf(todo'[h], Tun!ReloadSteps) /\ Len(todo'[h]) = Len(todo[h]) - 1
        /\ DOMAIN todo' = Tun!Callers /\ todo' = [c \in Tun!Callers |-> todo'[c]]
        /\ \A c \in Tun!Callers \ {h} : todo'[c] = todo[c]
    BY <2>1, TunHandlerAt
  <2>3. tunLife' = "up" BY <2>1, <2>2 DEF ReloadAt
  <2>4. todo'["main"] = todo["main"] BY <1>h, <1>m, <2>2
  <2>5. \A g \in Handlers : LeftOf(todo'[g], Tun!ReloadSteps) BY <1>h, <2>2 DEF TunShape
  <2> QED BY <2>2, <2>3, <2>4, <2>5 DEF TunShape
<1>5. CASE Tun!Step("main")
  <2>1. PICK what : /\ Tun!At("main", what)
                    /\ tunLife' = IF what = "started" THEN "up" ELSE
                                  IF what = "stopped" THEN "stopped" ELSE tunLife
    BY <1>5 DEF Tun!Step, Tun!Done, Tun!Clear, Tun!delXfrm, Tun!Forget, Tun!beginUpdate,
        Tun!updateXfrm, Tun!addStates, Tun!addPolicies, Tun!upMember, Tun!downMember,
        Tun!UpVxLAN, Tun!DownVxLAN
  <2>2. /\ Len(todo["main"]) \in 1 .. 5 /\ Len(todo'["main"]) = Len(todo["main"]) - 1
        /\ \/ /\ tunLife = "starting" /\ LeftOf(todo'["main"], Tun!StartSteps)
              /\ StartAt(what, Len(todo["main"]))
           \/ /\ tunLife = "stopping" /\ LeftOf(todo'["main"], Tun!StopSteps)
              /\ StopAt(what, Len(todo["main"]))
        /\ DOMAIN todo' = Tun!Callers /\ todo' = [c \in Tun!Callers |-> todo'[c]]
        /\ \A h \in Handlers : todo'[h] = todo[h]
    BY <2>1, TunMainAt
  <2>3. \A h \in Handlers : ~(Len(todo'[h]) > 0) BY <2>2 DEF TunShape
  <2>4. todo'["main"] \in Seq(StepNames) BY <2>2 DEF LeftOf
  <2>5. /\ what = "started" => tunLife = "starting" /\ Len(todo["main"]) = 1
        /\ what = "stopped" => tunLife = "stopping" /\ Len(todo["main"]) = 1
        /\ Len(todo["main"]) = 1 => what \in {"started", "stopped"}
    BY <2>2 DEF StartAt, StopAt
  <2>6. \A h \in Handlers : LeftOf(todo'[h], Tun!ReloadSteps) BY <2>2 DEF TunShape
  <2>7. CASE Len(todo["main"]) = 1
    <3>1. tunLife' \in {"up", "stopped"} /\ Len(todo'["main"]) = 0 BY <2>1, <2>2, <2>5, <2>7
    <3> QED BY <2>2, <2>3, <2>4, <2>6, <3>1 DEF TunShape
  <2>8. CASE Len(todo["main"]) # 1
    <3>1. tunLife' = tunLife BY <2>1, <2>5, <2>8
    <3>2. Len(todo'["main"]) > 0
      <4>1. \A x \in 1 .. 5 : x # 1 => x - 1 > 0 OBVIOUS
      <4> QED BY <2>2, <2>8, <4>1
    <3> QED BY <2>2, <2>3, <2>4, <2>6, <3>1, <3>2 DEF TunShape
  <2> QED BY <2>7, <2>8
<1>6. CASE UNCHANGED Tun!tunVars BY <1>6 DEF Tun!tunVars, TunShape
<1> QED BY <1>1, <1>2, <1>3, <1>4, <1>5, <1>6 DEF Tun!Next, Tun!Callers

\* The kernel, the lists and the caches hold configured entries only.
LEMMA TunTypeStep == Tun!TypeOK /\ TunShape /\ [Tun!Next]_(Tun!tunVars) => Tun!TypeOK'
<1> SUFFICES ASSUME Tun!TypeOK, TunShape, [Tun!Next]_(Tun!tunVars) PROVE Tun!TypeOK'
  OBVIOUS
<1>d. DOMAIN todo' = Tun!Callers BY TunShapeStep DEF TunShape
<1> USE TunAssumption DEF Tun!kernelVars, Tun!cacheVars
<1>1. CASE Tun!SwitchStart \/ Tun!SwitchStop
  BY <1>1, <1>d DEF Tun!SwitchStart, Tun!SwitchStop, Tun!TypeOK
<1>2. ASSUME NEW h \in Handlers, Tun!Reload(h) PROVE Tun!TypeOK'
  BY <1>2, <1>d DEF Tun!Reload, Tun!TypeOK
<1>3. ASSUME NEW c \in Tun!Callers, Tun!Done(c) \/ Tun!Clear(c) \/ Tun!delXfrm(c) \/ Tun!Forget(c)
      PROVE  Tun!TypeOK'
  BY <1>3, <1>d DEF Tun!Done, Tun!Clear, Tun!delXfrm, Tun!Forget, Tun!TypeOK
<1>4. ASSUME NEW c \in Tun!Callers, Tun!beginUpdate(c) PROVE Tun!TypeOK'
  <2>1. Tun!At(c, "update") /\ raced' \subseteq raced \cup Tun!Appending \cup {c}
    BY <1>4 DEF Tun!beginUpdate
  <2>2. c # "main" BY <2>1, TunMainAt DEF StartAt, StopAt
  <2>3. c \in Handlers BY <2>2 DEF Tun!Callers
  <2>4. raced' \subseteq Handlers BY <2>1, <2>3, TunAppending DEF Tun!TypeOK
  <2> QED BY <1>4, <1>d, <2>4 DEF Tun!beginUpdate, Tun!TypeOK
<1>5. ASSUME NEW c \in Tun!Callers, Tun!updateXfrm(c) PROVE Tun!TypeOK'
  <2>1. /\ states' \subseteq states \cup Tun!AllStates
        /\ policies' \subseteq policies \cup Tun!AllPolicies
        /\ raced' \subseteq raced
    BY <1>5 DEF Tun!updateXfrm
  <2> QED BY <1>5, <1>d, <2>1 DEF Tun!updateXfrm, Tun!TypeOK
<1>6. ASSUME NEW c \in Tun!Callers,
             Tun!addStates(c) \/ Tun!addPolicies(c) \/ Tun!downMember(c) \/ Tun!UpVxLAN(c) \/ Tun!DownVxLAN(c)
      PROVE  Tun!TypeOK'
  BY <1>6, <1>d DEF Tun!addStates, Tun!addPolicies, Tun!downMember, Tun!UpVxLAN, Tun!DownVxLAN,
                    Tun!TypeOK
<1>7. ASSUME NEW c \in Tun!Callers, Tun!upMember(c) PROVE Tun!TypeOK'
  <2>1. PICK link, addr, route \in SUBSET Tun!NewAddrs :
          /\ tunFaults' <= MaxFaults /\ tunFaults' \in {tunFaults, tunFaults + 1}
          /\ tunLinks' = tunLinks \cup link /\ addrs' = addrs \cup addr
          /\ tunRoutes' = tunRoutes \cup route
    BY <1>7 DEF Tun!upMember, Tun!TypeOK
  <2>2. tunFaults' \in 0 .. MaxFaults BY <2>1 DEF Tun!TypeOK
  <2>3. tunLinks' \cup addrs' \cup tunRoutes' \subseteq Tun!Names
    BY <2>1 DEF Tun!NewAddrs, Tun!TypeOK
  <2> QED BY <1>7, <1>d, <2>2, <2>3 DEF Tun!upMember, Tun!TypeOK
<1>8. CASE UNCHANGED Tun!tunVars BY <1>8 DEF Tun!tunVars, Tun!TypeOK
<1> QED BY <1>1, <1>2, <1>3, <1>4, <1>5, <1>6, <1>7, <1>8 DEF Tun!Next, Tun!Step

\* What a handler leaves undone is owed by itself or by another one.
LEMMA TunHandlerStep ==
    ASSUME TunInv, NEW h \in Handlers, Tun!Step(h)
    PROVE  TunLists' /\ TunKernel'
<1> USE DEF TunInv, Tun!kernelVars, Tun!cacheVars
<1>1. PICK what : Tun!At(h, what)
  BY DEF Tun!Step, Tun!Done, Tun!Clear, Tun!delXfrm, Tun!Forget, Tun!beginUpdate, Tun!updateXfrm,
         Tun!addStates, Tun!addPolicies, Tun!upMember, Tun!downMember, Tun!UpVxLAN, Tun!DownVxLAN
<1>2. /\ tunLife = "up" /\ ReloadAt(what, Len(todo[h])) /\ Len(todo[h]) \in 1 .. 8
      /\ Len(todo'[h]) = Len(todo[h]) - 1
  BY <1>1, TunHandlerAt
<1>3. ASSUME NEW rest \in Nat
      PROVE  /\ Len(todo[h]) # rest => (TunOwed(rest)' <=> TunOwed(rest))
             /\ Len(todo[h]) - 1 >= rest => TunOwed(rest)'
  BY <1>1, <1>2, <1>3, TunHandlerOwes
<1>4. what \notin {"started", "stopped", "downMember", "upVxLAN", "downVxLAN"}
  BY <1>2 DEF ReloadAt
<1>5. \A w : Tun!At(h, w) => w = what BY <1>1 DEF Tun!At
<1>6. tunLife' = "up"
  BY <1>2, <1>4, <1>5 DEF Tun!Step, Tun!Done, Tun!Clear, Tun!delXfrm, Tun!Forget, Tun!beginUpdate,
         Tun!updateXfrm, Tun!addStates, Tun!addPolicies, Tun!upMember, Tun!downMember,
         Tun!UpVxLAN, Tun!DownVxLAN
<1>7. CASE Len(todo[h]) >= 5
  <2>1. TunOwed(4)' /\ TunOwed(3)' /\ TunOwed(2)' BY <1>2, <1>3, <1>7
  <2> QED BY <1>6, <2>1 DEF TunLists, TunKernel, TunDown
<1>8. CASE Len(todo[h]) = 4
  <2>1. what = "append" BY <1>2, <1>8 DEF ReloadAt
  <2>2. Tun!updateXfrm(h)
    BY <1>5, <2>1 DEF Tun!Step, Tun!Done, Tun!Clear, Tun!delXfrm, Tun!Forget, Tun!beginUpdate,
         Tun!addStates, Tun!addPolicies, Tun!upMember, Tun!downMember, Tun!UpVxLAN, Tun!DownVxLAN
  <2>3. TunOwed(3)' /\ TunOwed(2)' BY <1>2, <1>3, <1>8
  <2>4. cStates' = Tun!CachedStates /\ cPolicies' = Tun!CachedPolicies
    BY <2>2 DEF Tun!updateXfrm, Tun!TypeOK
  <2>5. raced' # {} \/ (states' = Tun!AllStates /\ policies' = Tun!AllPolicies)
    <3>1. CASE h \in raced BY <2>2, <3>1 DEF Tun!updateXfrm
    <3>2. CASE h \notin raced
      <4>1. states' = states \cup Tun!AllStates /\ policies' = policies \cup Tun!AllPolicies
        BY <2>2, <3>2 DEF Tun!updateXfrm
      <4> QED BY <4>1 DEF Tun!TypeOK
    <3> QED BY <3>1, <3>2
  <2> QED BY <1>6, <2>3, <2>4, <2>5 DEF TunLists, TunKernel, TunDown
<1>9. CASE Len(todo[h]) = 3 \/ Len(todo[h]) = 2 \/ Len(todo[h]) = 1
  <2>1. (what = "addStates" /\ Len(todo[h]) = 3) \/ (what = "addPolicies" /\ Len(todo[h]) = 2)
        \/ (what = "upMember" /\ Len(todo[h]) = 1)
    <3>1. \A x \in 1 .. 3 :
            ReloadAt(what, x) => (what = "addStates" /\ x = 3) \/ (what = "addPolicies" /\ x = 2)
                                 \/ (what = "upMember" /\ x = 1)
      BY DEF ReloadAt
    <3>2. Len(todo[h]) \in 1 .. 3 BY <1>9
    <3> QED BY <1>2, <3>1, <3>2
  <2>2. (Tun!addStates(h) /\ what = "addStates") \/ (Tun!addPolicies(h) /\ what = "addPolicies")
        \/ (Tun!upMember(h) /\ what = "upMember")
    BY <1>5, <2>1 DEF Tun!Step, Tun!Done, Tun!Clear, Tun!delXfrm, Tun!Forget, Tun!beginUpdate,
         Tun!updateXfrm, Tun!addStates, Tun!addPolicies, Tun!upMember, Tun!downMember,
         Tun!UpVxLAN, Tun!DownVxLAN
  <2>3. UNCHANGED <<states, policies, cStates, cPolicies, raced>>
    BY <2>2 DEF Tun!addStates, Tun!addPolicies, Tun!upMember
  <2>4. TunOwed(4)' <=> TunOwed(4)
    <3>1. Len(todo[h]) # 4 BY <1>9
    <3> QED BY <1>3, <3>1
  <2>5. TunLists' BY <1>2, <1>6, <2>3, <2>4 DEF TunLists, TunDown
  <2>6. raced = {} /\ ~TunOwed(4) => states = Tun!AllStates /\ policies = Tun!AllPolicies
    BY <1>2 DEF TunLists, TunDown
  <2>7. TunOwed(4) => TunOwed(3)' /\ TunOwed(2)'
    <3>1. TunOwed(4)' => TunOwed(3)' /\ TunOwed(2)'
      <4>1. \A g \in Handlers : Len(todo'[g]) \in Nat BY TunShapeStep DEF TunShape, LeftOf, Tun!Next, Tun!Callers
      <4> QED BY <4>1 DEF TunOwed
    <3> QED BY <2>4, <3>1
  <2>8. raced' # {} \/ TunOwed(3)' \/ kStates' = Tun!AllStates
    <3>1. CASE Len(todo[h]) = 3
      <4>1. kStates' = kStates \cup states BY <2>1, <2>2, <3>1 DEF Tun!addStates
      <4> QED BY <2>3, <2>6, <2>7, <4>1 DEF Tun!TypeOK
    <3>2. CASE Len(todo[h]) # 3
      <4>1. kStates' = kStates BY <2>1, <2>2, <3>2 DEF Tun!addPolicies, Tun!upMember
      <4>2. TunOwed(3)' <=> TunOwed(3) BY <1>3, <3>2
      <4> QED BY <1>2, <2>3, <4>1, <4>2 DEF TunKernel
    <3> QED BY <3>1, <3>2
  <2>9. raced' # {} \/ TunOwed(2)' \/ kPolicies' = Tun!AllPolicies
    <3>1. CASE Len(todo[h]) = 2
      <4>1. kPolicies' = kPolicies \cup policies BY <2>1, <2>2, <3>1 DEF Tun!addPolicies
      <4> QED BY <2>3, <2>6, <2>7, <4>1 DEF Tun!TypeOK
    <3>2. CASE Len(todo[h]) # 2
      <4>1. kPolicies' = kPolicies BY <2>1, <2>2, <3>2 DEF Tun!addStates, Tun!upMember
      <4>2. TunOwed(2)' <=> TunOwed(2) BY <1>3, <3>2
      <4> QED BY <1>2, <2>3, <4>1, <4>2 DEF TunKernel
    <3> QED BY <3>1, <3>2
  <2> QED BY <1>6, <2>5, <2>8, <2>9 DEF TunKernel, TunDown
<1>10. \A x \in 1 .. 8 : x >= 5 \/ x = 4 \/ x = 3 \/ x = 2 \/ x = 1 OBVIOUS
<1> QED BY <1>2, <1>7, <1>8, <1>9, <1>10

\* Start fills the kernel, and Stop empties it, while no handler works.
LEMMA TunMainStep ==
    ASSUME TunInv, Tun!Step("main")
    PROVE  TunLists' /\ TunKernel'
<1> USE DEF TunInv, Tun!kernelVars, Tun!cacheVars
<1>1. PICK what : Tun!At("main", what)
  BY DEF Tun!Step, Tun!Done, Tun!Clear, Tun!delXfrm, Tun!Forget, Tun!beginUpdate, Tun!updateXfrm,
         Tun!addStates, Tun!addPolicies, Tun!upMember, Tun!downMember, Tun!UpVxLAN, Tun!DownVxLAN
<1>2. /\ Len(todo["main"]) \in 1 .. 5 /\ Len(todo'["main"]) = Len(todo["main"]) - 1
      /\ \/ tunLife = "starting" /\ StartAt(what, Len(todo["main"]))
         \/ tunLife = "stopping" /\ StopAt(what, Len(todo["main"]))
      /\ \A h \in Handlers : todo'[h] = todo[h]
  BY <1>1, TunMainAt
<1>3. \A w : Tun!At("main", w) => w = what BY <1>1 DEF Tun!At
<1>4. ASSUME NEW rest \in 1 .. 8 PROVE ~TunOwed(rest) /\ ~TunOwed(rest)'
  <2>1. \A h \in Handlers : ~(Len(todo[h]) > 0) /\ Len(todo[h]) \in Nat BY <1>2 DEF TunShape, LeftOf
  <2>2. \A h \in Handlers : ~(Len(todo[h]) >= rest) BY <2>1
  <2> QED BY <1>2, <2>2 DEF TunOwed
<1>5. cStates = Tun!CachedStates /\ cPolicies = Tun!CachedPolicies BY <1>4 DEF TunLists
<1>6. CASE tunLife = "starting" /\ StartAt(what, Len(todo["main"]))
  <2>1. /\ raced = {} /\ states = Tun!AllStates /\ policies = Tun!AllPolicies
        /\ Len(todo["main"]) # 5 => kStates = Tun!AllStates
        /\ ~(Len(todo["main"]) >= 4) => kPolicies = Tun!AllPolicies
    BY <1>4, <1>6 DEF TunLists, TunKernel, TunDown
  <2>2. \/ what = "addStates" /\ Tun!addStates("main") /\ Len(todo["main"]) = 5
        \/ what = "addPolicies" /\ Tun!addPolicies("main") /\ Len(todo["main"]) = 4
        \/ what = "upMember" /\ Tun!upMember("main") /\ Len(todo["main"]) = 3
        \/ what = "upVxLAN" /\ Tun!UpVxLAN("main") /\ Len(todo["main"]) = 2
        \/ what = "started" /\ Tun!Done("main") /\ Len(todo["main"]) = 1
    <3>1. /\ what = "addStates" => Tun!addStates("main")
          /\ what = "addPolicies" => Tun!addPolicies("main")
          /\ what = "upMember" => Tun!upMember("main")
          /\ what = "upVxLAN" => Tun!UpVxLAN("main")
          /\ what = "started" => Tun!Done("main")
      BY <1>3 DEF Tun!Step, Tun!Done, Tun!Clear, Tun!delXfrm, Tun!Forget,
         Tun!beginUpdate, Tun!updateXfrm, Tun!addStates, Tun!addPolicies, Tun!upMember,
         Tun!downMember, Tun!UpVxLAN, Tun!DownVxLAN
    <3> QED BY <1>6, <3>1 DEF StartAt
  <2>3. UNCHANGED <<states, policies, cStates, cPolicies, raced>>
    BY <2>2 DEF Tun!addStates, Tun!addPolicies, Tun!upMember, Tun!UpVxLAN, Tun!Done
  <2>4. tunLife' = (IF what = "started" THEN "up" ELSE "starting")
    BY <1>3, <1>6, <2>2 DEF Tun!addStates, Tun!addPolicies, Tun!upMember, Tun!UpVxLAN, Tun!Done
  <2>9. /\ what # "addStates" => kStates = Tun!AllStates
        /\ what \notin {"addStates", "addPolicies"} => kPolicies = Tun!AllPolicies
    <3>1. /\ what # "addStates" => Len(todo["main"]) # 5
          /\ what \notin {"addStates", "addPolicies"} => ~(Len(todo["main"]) >= 4)
      <4>1. \A x \in 1 .. 5 : StartAt(what, x) =>
              /\ what # "addStates" => x # 5
              /\ what \notin {"addStates", "addPolicies"} => ~(x >= 4)
        BY DEF StartAt
      <4> QED BY <1>2, <1>6, <4>1
    <3> QED BY <2>1, <3>1
  <2>10. /\ what = "addStates" => Tun!addStates("main")
         /\ what = "addPolicies" => Tun!addPolicies("main")
         /\ what \notin {"addStates", "addPolicies"} =>
              Tun!upMember("main") \/ Tun!UpVxLAN("main") \/ Tun!Done("main")
    BY <2>2
  <2>5. kStates' = Tun!AllStates
    BY <2>1, <2>9, <2>10 DEF Tun!addStates, Tun!addPolicies, Tun!upMember, Tun!UpVxLAN, Tun!Done, Tun!TypeOK
  <2>6. what # "addStates" => kPolicies' = Tun!AllPolicies
    BY <2>1, <2>9, <2>10 DEF Tun!addPolicies, Tun!upMember, Tun!UpVxLAN, Tun!Done, Tun!TypeOK
  <2>7. what = "addStates" => tunLife' = "starting" /\ Len(todo'["main"]) >= 4 BY <1>2, <2>2, <2>4
  <2>8. TunLists' BY <1>5, <2>1, <2>3 DEF TunLists
  <2> QED BY <2>4, <2>5, <2>6, <2>7, <2>8 DEF TunKernel, TunDown
<1>7. CASE tunLife = "stopping" /\ StopAt(what, Len(todo["main"]))
  <2>1. \/ what = "downMember" /\ Tun!downMember("main") /\ Len(todo["main"]) = 5
        \/ what = "downVxLAN" /\ Tun!DownVxLAN("main") /\ Len(todo["main"]) = 4
        \/ what = "delXfrm" /\ Tun!delXfrm("main") /\ Len(todo["main"]) = 3
        \/ what = "forget" /\ Tun!Forget("main") /\ Len(todo["main"]) = 2
        \/ what = "stopped" /\ Tun!Done("main") /\ Len(todo["main"]) = 1
    BY <1>3, <1>7 DEF StopAt, Tun!Step, Tun!Done, Tun!Clear, Tun!delXfrm, Tun!Forget,
         Tun!beginUpdate, Tun!updateXfrm, Tun!addStates, Tun!addPolicies, Tun!upMember,
         Tun!downMember, Tun!UpVxLAN, Tun!DownVxLAN
  <2>2. UNCHANGED <<cStates, cPolicies, raced>>
    BY <2>1 DEF Tun!downMember, Tun!DownVxLAN, Tun!delXfrm, Tun!Forget, Tun!Done
  <2>3. tunLife' = (IF what = "stopped" THEN "stopped" ELSE "stopping")
    BY <1>3, <1>7, <2>1 DEF Tun!downMember, Tun!DownVxLAN, Tun!delXfrm, Tun!Forget, Tun!Done
  <2>4. /\ raced = {} /\ ~(Len(todo["main"]) <= 1) => states = Tun!AllStates /\ policies = Tun!AllPolicies
        /\ raced = {} /\ Len(todo["main"]) <= 2 => kStates = {} /\ kPolicies = {}
        /\ Len(todo["main"]) <= 4 => tunLinks \cup addrs \cup tunRoutes = {}
        /\ Len(todo["main"]) <= 3 => vxlans = {}
    BY <1>4, <1>7 DEF TunLists, TunKernel, TunDown
  <2>5. TunLists'
    <3>1. CASE what \in {"downMember", "downVxLAN", "delXfrm"}
      <4>1. UNCHANGED <<states, policies>> BY <2>1, <3>1 DEF Tun!downMember, Tun!DownVxLAN, Tun!delXfrm
      <4>2. raced = {} => states = Tun!AllStates /\ policies = Tun!AllPolicies BY <2>1, <2>4, <3>1
      <4> QED BY <1>5, <2>2, <2>3, <4>1, <4>2 DEF TunLists
    <3>2. CASE what \in {"forget", "stopped"}
      <4>2. what = "forget" => Len(todo["main"]) = 2 BY <2>1
      <4>3. what = "forget" => Len(todo'["main"]) <= 1
        <5> SUFFICES ASSUME what = "forget" PROVE Len(todo'["main"]) <= 1
          OBVIOUS
        <5>1. Len(todo'["main"]) = Len(todo["main"]) - 1 BY <1>2
        <5>2. Len(todo["main"]) = 2 BY <4>2
        <5> QED BY <5>1, <5>2
      <4>1. TunDown(1)' BY <2>3, <3>2, <4>3 DEF TunDown
      <4> QED BY <1>5, <2>2, <2>3, <4>1 DEF TunLists
    <3> QED BY <2>1, <3>1, <3>2
  <2>11. /\ what # "downMember" => tunLinks \cup addrs \cup tunRoutes = {}
         /\ what \notin {"downMember", "downVxLAN"} => vxlans = {}
         /\ what \in {"forget", "stopped"} /\ raced = {} => kStates = {} /\ kPolicies = {}
         /\ what = "delXfrm" /\ raced = {} => states = Tun!AllStates /\ policies = Tun!AllPolicies
    <3>1. /\ what # "downMember" => Len(todo["main"]) <= 4
          /\ what \notin {"downMember", "downVxLAN"} => Len(todo["main"]) <= 3
          /\ what \in {"forget", "stopped"} => Len(todo["main"]) <= 2
          /\ what = "delXfrm" => ~(Len(todo["main"]) <= 1)
      <4>1. \A x \in 1 .. 5 : StopAt(what, x) =>
              /\ what # "downMember" => x <= 4
              /\ what \notin {"downMember", "downVxLAN"} => x <= 3
              /\ what \in {"forget", "stopped"} => x <= 2
              /\ what = "delXfrm" => ~(x <= 1)
        BY DEF StopAt
      <4> QED BY <1>2, <1>7, <4>1
    <3> QED BY <2>4, <3>1
  <2>12. /\ what = "downMember" => Tun!downMember("main")
         /\ what = "downVxLAN" => Tun!DownVxLAN("main")
         /\ what = "delXfrm" => Tun!delXfrm("main")
         /\ what \notin {"downMember", "downVxLAN", "delXfrm"} =>
              what \in {"forget", "stopped"} /\ (Tun!Forget("main") \/ Tun!Done("main"))
    BY <2>1
  <2>6. tunLinks' \cup addrs' \cup tunRoutes' = {}
    BY <2>11, <2>12 DEF Tun!downMember, Tun!DownVxLAN, Tun!delXfrm, Tun!Forget, Tun!Done, Tun!TypeOK
  <2>7. what # "downMember" => vxlans' = {}
    BY <2>11, <2>12 DEF Tun!DownVxLAN, Tun!delXfrm, Tun!Forget, Tun!Done, Tun!TypeOK
  <2>8. what = "downMember" => ~TunDown(3)' BY <1>2, <2>1, <2>3 DEF TunDown
  <2>9. what \in {"downMember", "downVxLAN"} => ~TunDown(2)' BY <1>2, <2>1, <2>3 DEF TunDown
  <2>10. what \notin {"downMember", "downVxLAN"} /\ raced = {} => kStates' = {} /\ kPolicies' = {}
    BY <2>11, <2>12 DEF Tun!delXfrm, Tun!Forget, Tun!Done, Tun!TypeOK
  <2> QED BY <2>2, <2>3, <2>5, <2>6, <2>7, <2>8, <2>9, <2>10 DEF TunKernel
<1> QED BY <1>2, <1>6, <1>7

\* TunInv holds in the beginning and after every step.
LEMMA TunInvInit == Tun!Init => TunInv
<1> SUFFICES ASSUME Tun!Init PROVE TunInv
  OBVIOUS
<1> USE TunAssumption DEF Tun!Init
<1>1. Tun!TypeOK BY DEF Tun!TypeOK
<1>2. TunShape
  <2>1. \A c \in Tun!Callers : todo[c] = <<>> OBVIOUS
  <2>2. "main" \in Tun!Callers /\ Handlers \subseteq Tun!Callers BY DEF Tun!Callers
  <2>3. Len(Tun!ReloadSteps) = 8 BY DEF Tun!ReloadSteps
  <2>5. <<>> \in Seq(StepNames) /\ Len(<<>>) = 0 OBVIOUS
  <2>6. LeftOf(<<>>, Tun!ReloadSteps) BY <2>3, <2>5 DEF LeftOf
  <2>4. \A h \in Handlers : LeftOf(todo[h], Tun!ReloadSteps) BY <2>1, <2>2, <2>6
  <2> QED BY <2>1, <2>2, <2>4 DEF TunShape
<1>3. TunLists /\ TunKernel BY DEF TunLists, TunKernel, TunDown
<1> QED BY <1>1, <1>2, <1>3 DEF TunInv

LEMMA TunInvStep == TunInv /\ [Tun!Next]_(Tun!tunVars) => TunInv'
<1> SUFFICES ASSUME TunInv, [Tun!Next]_(Tun!tunVars) PROVE TunInv'
  OBVIOUS
<1> USE DEF TunInv
<1>t. Tun!TypeOK' /\ TunShape' BY TunTypeStep, TunShapeStep
<1>h. \A h \in Handlers : h \in Tun!Callers /\ h # "main" BY TunAssumption DEF Tun!Callers
<1>m. "main" \in Tun!Callers BY DEF Tun!Callers
<1>1. CASE Tun!SwitchStart
  <2>1. /\ tunLife = "new" /\ tunLife' = "starting" /\ todo' = [todo EXCEPT !["main"] = Tun!StartSteps]
        /\ UNCHANGED <<states, policies, cStates, cPolicies, raced>>
    BY <1>1 DEF Tun!SwitchStart, Tun!cacheVars
  <2>2. \A h \in Handlers : todo'[h] = todo[h] BY <1>h, <2>1 DEF TunShape
  <2>3. Len(todo'["main"]) = 5 BY <1>m, <2>1 DEF TunShape, Tun!StartSteps
  <2>4. TunOwed(4)' <=> TunOwed(4) BY <2>2 DEF TunOwed
  <2>5. TunLists' BY <2>1, <2>4 DEF TunLists, TunDown
  <2>6. TunKernel' BY <2>1, <2>3 DEF TunKernel, TunDown
  <2> QED BY <1>t, <2>5, <2>6
<1>2. CASE Tun!SwitchStop
  <2>1. /\ tunLife = "up" /\ tunLife' = "stopping" /\ todo' = [todo EXCEPT !["main"] = Tun!StopSteps]
        /\ UNCHANGED <<states, policies, cStates, cPolicies, raced>>
    BY <1>2 DEF Tun!SwitchStop, Tun!cacheVars
  <2>2. \A h \in Handlers : todo'[h] = todo[h] BY <1>h, <2>1 DEF TunShape
  <2>3. Len(todo'["main"]) = 5 BY <1>m, <2>1 DEF TunShape, Tun!StopSteps
  <2>4. TunOwed(4)' <=> TunOwed(4) BY <2>2 DEF TunOwed
  <2>5. TunLists' BY <2>1, <2>4 DEF TunLists, TunDown
  <2>8. ~(Len(todo'["main"]) <= 2) /\ ~(Len(todo'["main"]) <= 3) /\ ~(Len(todo'["main"]) <= 4)
    BY <2>3
  <2>6. ~TunDown(2)' /\ ~TunDown(3)' /\ ~TunDown(4)' BY <2>1, <2>8 DEF TunDown
  <2>7. TunKernel' BY <2>1, <2>6 DEF TunKernel
  <2> QED BY <1>t, <2>5, <2>7
<1>3. ASSUME NEW h \in Handlers, Tun!Reload(h) PROVE TunInv'
  <2>1. tunLife = "up" /\ tunLife' = "up" /\ todo' = [todo EXCEPT ![h] = Tun!ReloadSteps]
    BY <1>3 DEF Tun!Reload
  <2>2. Len(todo'[h]) = 8 BY <1>h, <2>1 DEF TunShape, Tun!ReloadSteps
  <2>3. TunOwed(4)' /\ TunOwed(3)' /\ TunOwed(2)' BY <2>2 DEF TunOwed
  <2> QED BY <1>t, <2>1, <2>3 DEF TunLists, TunKernel, TunDown
<1>4. ASSUME NEW h \in Handlers, Tun!Step(h) PROVE TunInv'
  BY <1>t, <1>4, TunHandlerStep
<1>5. CASE Tun!Step("main") BY <1>t, <1>5, TunMainStep
<1>6. CASE UNCHANGED Tun!tunVars
  BY <1>t, <1>6 DEF Tun!tunVars, TunLists, TunKernel, TunOwed, TunDown
<1> QED BY <1>1, <1>2, <1>3, <1>4, <1>5, <1>6 DEF Tun!Next, Tun!Callers

\* The invariant of the tunnels holds throughout.
LEMMA TunAlways == Spec => [](part = "tun" => TunInv)
<1> DEFINE I == part = "tun" => TunInv
<1>1. Init => I BY TunInvInit DEF Init, Only
<1>2. I /\ [Next]_vars => I'
  <2> SUFFICES ASSUME I, [Next]_vars, part' = "tun" PROVE TunInv'
    OBVIOUS
  <2>1. part = "tun" BY DEF Next, WallNext, LanNext, FabNext, VpnNext, UserNext, TableNext, WebNext,
         DbNext, PrxNext, TunNext, OfWall, OfLan, OfFab, OfVpn, OfUser, OfTable, OfWeb, OfDb, OfPrx,
         OfTun, vars
  <2> QED BY <2>1, TunStep, TunInvStep
<1> QED BY <1>1, <1>2, PTL DEF Spec

\* When the last of any number of overlapping Reloads has returned, kernel,
\* lists and caches hold every state and policy, and Stop leaves none
\* (TunnelsRestored), for any members, handlers and faults.
THEOREM ReloadsRestore == Spec => []TunnelsRestored
<1>1. (part = "tun" => TunInv) => TunnelsRestored
  <2> SUFFICES ASSUME TunInv PROVE Tun!TunnelsRestored
    BY DEF TunnelsRestored
  <2>1. Tun!ReloadRestores
    <3> SUFFICES ASSUME Tun!Resting
                 PROVE  /\ cStates = Tun!CachedStates /\ cPolicies = Tun!CachedPolicies
                        /\ raced = {} => /\ kStates = Tun!AllStates /\ states = Tun!AllStates
                                         /\ kPolicies = Tun!AllPolicies /\ policies = Tun!AllPolicies
      BY DEF Tun!ReloadRestores
    <3>1. tunLife = "up" /\ \A h \in Handlers : Len(todo[h]) = 0 BY DEF Tun!Resting, Tun!Callers
    <3>2. ~TunOwed(4) /\ ~TunOwed(3) /\ ~TunOwed(2) BY <3>1 DEF TunOwed
    <3> QED BY <3>1, <3>2 DEF TunInv, TunLists, TunKernel, TunDown
  <2>2. Tun!StopRemoves BY DEF TunInv, TunKernel, TunDown, Tun!StopRemoves
  <2> QED BY <2>1, <2>2 DEF Tun!TunnelsRestored
<1> QED BY <1>1, TunAlways, PTL

----------------------------------------------------------------------------
(* The OpenVPN server.                                                     *)
(*                                                                         *)
(* The processes: one has the port until it ends (VpnPort), a live one is  *)
(* named by the pid file unless a process went astray (VpnPids).  The      *)
(* status file: what is in it and what is still to be written has the form *)
(* of a status file from its first line on (Fits), so a scan that has read *)
(* any mixture of old and new lines is at the line its counters say        *)
(* (VpnReader): the header of the clients is only met while it is skipped. *)

LineType ==
    [kind : {"CLIENT LIST", "updated", "header", "client", "ROUTING TABLE", "route",
             "GLOBAL STATS", "max"},
     cols : {1, 2, 4, 5},
     name : Clients \cup {"", "Common Name", "Virtual Address"}]

\* What line i of a status file may be.
LineFits(ln, i) ==
    /\ ln.cols = 5 => i = 3 \/ ln.name \in Clients
    /\ ln.kind = "CLIENT LIST" => i = 1

\* s may be found behind the first lines of a status file.
Fits(s, lead) == s \in Seq(LineType) /\ \A i \in 1 .. Len(s) : LineFits(s[i], lead + i)

VpnPort ==
    /\ port # 0 => proc[port] \in {"run", "killed"}
    /\ port = 0 => pending = <<>>
    /\ \A p \in Vpn!Pids : proc[p] = "run" => port = p
VpnPids ==
    ~astray => \A p \in Vpn!Pids : proc[p] \in Vpn!Live => pidFile = p
VpnFile ==
    /\ Fits(status, 0) /\ pending \in Seq(LineType)
    /\ linked => Fits(pending, Len(status))
ReaderType ==
    [on : BOOLEAN, at : Nat, part : {"header", "common", "routing", "global"}, offset : 0 .. 3,
     found : SUBSET Clients, placed : SUBSET Clients, ended : BOOLEAN]
VpnReader ==
    /\ reader \in ReaderType
    /\ reader.placed \subseteq reader.found
    /\ reader.part = "common" => reader.at + reader.offset >= 3

VpnInv ==
    /\ Vpn!TypeOK /\ VpnPort /\ VpnPids /\ Vpn!StopEndsServer /\ VpnFile /\ VpnReader

\* A step of a behaviour of this part is one of OpenVPN.
LEMMA VpnStep == part = "vpn" /\ [Next]_vars => part' = "vpn" /\ [Vpn!Next]_(Vpn!vpnVars)
<1> SUFFICES ASSUME part = "vpn", [Next]_vars PROVE part' = "vpn" /\ [Vpn!Next]_(Vpn!vpnVars)
  OBVIOUS
<1>1. CASE VpnNext BY <1>1 DEF VpnNext, OfVpn
<1>2. CASE UNCHANGED vars BY <1>2 DEF vars, vpnVars, Vpn!vpnVars
<1>3. /\ ~WallNext /\ ~LanNext /\ ~FabNext /\ ~TunNext /\ ~UserNext /\ ~TableNext
      /\ ~WebNext /\ ~DbNext /\ ~PrxNext
  BY DEF WallNext, LanNext, FabNext, TunNext, UserNext, TableNext, WebNext, DbNext, PrxNext,
         OfWall, OfLan, OfFab, OfTun, OfUser, OfTable, OfWeb, OfDb, OfPrx
<1> QED BY <1>1, <1>2, <1>3 DEF Next

\* The clients of a finite set in some order.
LEMMA ListOf ==
    ASSUME NEW S, IsFiniteSet(S)
    PROVE  Vpn!Listing(S) \in Seq(S)
<1>0. Cardinality(S) = Vpn!Cardinality(S) BY DEF Cardinality, Vpn!Cardinality
<1>1. Cardinality(S) \in Nat /\ ExistsBijection(1 .. Cardinality(S), S) BY FS_CardinalityType
<1>2. PICK f : f \in Bijection(1 .. Cardinality(S), S) BY <1>1 DEF ExistsBijection
<1>3. f \in [1 .. Cardinality(S) -> S] /\ \A i, j \in DOMAIN f : f[i] = f[j] => i = j
  BY <1>2 DEF Bijection, Injection, IsInjective
<1>4. Vpn!Listing(S) \in [1 .. Cardinality(S) -> S] BY <1>0, <1>3 DEF Vpn!Listing
<1> QED BY <1>1, <1>4

\* Lines that fit, and lines that fit behind them, fit together.
LEMMA FitsConcat ==
    ASSUME NEW lead \in Nat, NEW s, NEW t, Fits(s, lead), Fits(t, lead + Len(s))
    PROVE  Fits(s \o t, lead)
<1>1. /\ s \in Seq(LineType) /\ t \in Seq(LineType) /\ s \o t \in Seq(LineType)
      /\ Len(s) \in Nat /\ Len(t) \in Nat /\ Len(s \o t) = Len(s) + Len(t)
  BY DEF Fits
<1>2. ASSUME NEW i \in 1 .. Len(s \o t) PROVE LineFits((s \o t)[i], lead + i)
  <2>1. CASE i <= Len(s)
    <3>1. i \in 1 .. Len(s) /\ (s \o t)[i] = s[i] BY <1>1, <2>1
    <3> QED BY <3>1 DEF Fits
  <2>2. CASE i > Len(s)
    <3>1. i - Len(s) \in 1 .. Len(t) /\ (s \o t)[i] = t[i - Len(s)] BY <1>1, <2>2
    <3>2. lead + Len(s) + (i - Len(s)) = lead + i BY <1>1
    <3> QED BY <3>1, <3>2 DEF Fits
  <2> QED BY <1>1, <2>1, <2>2
<1> QED BY <1>1, <1>2 DEF Fits

LEMMA FitsTwo ==
    ASSUME NEW lead \in Nat, NEW ln \in LineType, LineFits(ln, lead + 1),
           NEW after \in LineType, LineFits(after, lead + 2)
    PROVE  Fits(<<ln, after>>, lead) /\ Len(<<ln, after>>) = 2
<1>1. /\ <<ln, after>> \in Seq(LineType) /\ Len(<<ln, after>>) = 2 /\ <<ln, after>>[1] = ln
      /\ <<ln, after>>[2] = after
  OBVIOUS
<1>2. \A i \in 1 .. 2 : i = 1 \/ i = 2 OBVIOUS
<1> QED BY <1>1, <1>2 DEF Fits

LEMMA FitsThree ==
    ASSUME NEW x \in LineType, LineFits(x, 1), NEW y \in LineType, LineFits(y, 2),
           NEW z \in LineType, LineFits(z, 3)
    PROVE  Fits(<<x, y, z>>, 0)
<1> DEFINE s == <<x, y, z>>
<1>1. s \in Seq(LineType) /\ Len(s) = 3 /\ s[1] = x /\ s[2] = y /\ s[3] = z OBVIOUS
<1>2. \A i \in 1 .. 3 : 0 + i = i /\ (i = 1 \/ i = 2 \/ i = 3) OBVIOUS
<1> HIDE DEF s
<1>3. Fits(s, 0) BY <1>1, <1>2 DEF Fits
<1> QED BY <1>3 DEF s

\* What openvpn writes has the form of a status file.
LEMMA StatusFits == ASSUME NEW S \in SUBSET Clients PROVE Fits(Vpn!StatusOf(S), 0)
<1> DEFINE list == Vpn!Listing(S)
           opening == << Vpn!Line("CLIENT LIST", 1, ""), Vpn!Line("updated", 2, ""),
                         Vpn!Line("header", 5, "Common Name") >>
           clients == [ i \in DOMAIN list |-> Vpn!Line("client", 5, list[i]) ]
           routing == << Vpn!Line("ROUTING TABLE", 1, ""),
                         Vpn!Line("header", 4, "Virtual Address") >>
           routed == [ i \in DOMAIN list |-> Vpn!Line("route", 4, list[i]) ]
           closing == << Vpn!Line("GLOBAL STATS", 1, ""), Vpn!Line("max", 2, "") >>
<1>1. IsFiniteSet(S) BY VpnAssumption, FS_Subset
<1>2. list \in Seq(S) BY <1>1, ListOf
<1>3. DOMAIN list = 1 .. Len(list) /\ Len(list) \in Nat /\ \A i \in 1 .. Len(list) : list[i] \in S
  BY <1>2
<1> HIDE DEF list
<1>a. Vpn!Line("CLIENT LIST", 1, "") \in LineType /\ LineFits(Vpn!Line("CLIENT LIST", 1, ""), 1)
  BY DEF LineType, LineFits, Vpn!Line
<1>b. \A i \in Nat :
             /\ Vpn!Line("updated", 2, "") \in LineType /\ LineFits(Vpn!Line("updated", 2, ""), i)
             /\ Vpn!Line("max", 2, "") \in LineType /\ LineFits(Vpn!Line("max", 2, ""), i)
  BY DEF LineType, LineFits, Vpn!Line
<1>c. /\ Vpn!Line("header", 5, "Common Name") \in LineType
      /\ LineFits(Vpn!Line("header", 5, "Common Name"), 3)
  BY DEF LineType, LineFits, Vpn!Line
<1>d. \A i \in Nat :
             /\ Vpn!Line("ROUTING TABLE", 1, "") \in LineType
             /\ LineFits(Vpn!Line("ROUTING TABLE", 1, ""), i)
             /\ Vpn!Line("GLOBAL STATS", 1, "") \in LineType
             /\ LineFits(Vpn!Line("GLOBAL STATS", 1, ""), i)
             /\ Vpn!Line("header", 4, "Virtual Address") \in LineType
             /\ LineFits(Vpn!Line("header", 4, "Virtual Address"), i)
  BY DEF LineType, LineFits, Vpn!Line
<1>e. ASSUME NEW i \in Nat, NEW c \in Clients
      PROVE  /\ Vpn!Line("client", 5, c) \in LineType /\ LineFits(Vpn!Line("client", 5, c), i)
             /\ Vpn!Line("route", 4, c) \in LineType /\ LineFits(Vpn!Line("route", 4, c), i)
  BY DEF LineType, LineFits, Vpn!Line
<1>4. Fits(opening, 0)
  <2>1. 2 \in Nat OBVIOUS
  <2> QED BY <1>a, <1>b, <1>c, <2>1, FitsThree
<1>5. ASSUME NEW lead \in Nat PROVE Fits(clients, lead)
  <2>1. \A i \in 1 .. Len(list) : clients[i] \in LineType /\ LineFits(clients[i], lead + i)
    BY <1>3, <1>e
  <2>2. clients \in Seq(LineType) /\ Len(clients) = Len(list) BY <1>3, <2>1
  <2> QED BY <2>1, <2>2 DEF Fits
<1>6. ASSUME NEW lead \in Nat PROVE Fits(routing, lead)
  <2>1. lead + 1 \in Nat /\ lead + 2 \in Nat OBVIOUS
  <2> QED BY <1>d, <2>1, FitsTwo
<1>7. ASSUME NEW lead \in Nat PROVE Fits(routed, lead)
  <2>1. \A i \in 1 .. Len(list) : routed[i] \in LineType /\ LineFits(routed[i], lead + i)
    BY <1>3, <1>e
  <2>2. routed \in Seq(LineType) /\ Len(routed) = Len(list) BY <1>3, <2>1
  <2> QED BY <2>1, <2>2 DEF Fits
<1>8. ASSUME NEW lead \in Nat PROVE Fits(closing, lead)
  <2>1. lead + 1 \in Nat /\ lead + 2 \in Nat OBVIOUS
  <2> QED BY <1>b, <1>d, <2>1, FitsTwo
<1> HIDE DEF opening, clients, routing, routed, closing
<1>9. \A s, lead : Fits(s, lead) => Len(s) \in Nat BY DEF Fits
<1>10. Fits(opening \o clients, 0) BY <1>4, <1>5, <1>9, FitsConcat
<1>11. Fits(opening \o clients \o routing, 0) BY <1>6, <1>9, <1>10, FitsConcat
<1>12. Fits(opening \o clients \o routing \o routed, 0) BY <1>7, <1>9, <1>11, FitsConcat
<1>13. Fits(opening \o clients \o routing \o routed \o closing, 0)
  BY <1>8, <1>9, <1>12, FitsConcat
<1> QED BY <1>13 DEF Vpn!StatusOf, list, opening, clients, routing, routed, closing

\* The reader has met a line, which may be a title.
Titled(r, ln) ==
    LET next == [r EXCEPT !.at = @ + 1]
    IN IF Vpn!IsTitle(ln.kind)
       THEN [next EXCEPT !.part = Vpn!Part(ln.kind), !.offset = Vpn!Skip(ln.kind)]
       ELSE next

\* The next line of a file that has the form of a status file leaves a reader
\* with names of clients only.
LEMMA TakenOK ==
    ASSUME VpnReader, NEW ln \in LineType, LineFits(ln, reader.at + 1),
           reader' = Vpn!Taken(Titled(reader, ln), ln)
    PROVE  VpnReader'
<1> DEFINE r == Titled(reader, ln)
<1>1. /\ reader.at \in Nat /\ reader.offset \in 0 .. 3 /\ reader.placed \subseteq reader.found
      /\ reader.part = "common" => reader.at + reader.offset >= 3
      /\ reader.found \subseteq Clients
  BY DEF VpnReader, ReaderType
<1>2. CASE Vpn!IsTitle(ln.kind)
  <2>1. PICK skip \in 1 .. 3, name \in {"common", "routing", "global"} :
          /\ skip = Vpn!Skip(ln.kind) /\ name = Vpn!Part(ln.kind)
          /\ name = "common" => skip = 3
    <3>1. \/ Vpn!Skip(ln.kind) = 3 /\ Vpn!Part(ln.kind) = "common"
          \/ Vpn!Skip(ln.kind) = 2 /\ Vpn!Part(ln.kind) = "routing"
          \/ Vpn!Skip(ln.kind) = 1 /\ Vpn!Part(ln.kind) = "global"
      BY <1>2 DEF Vpn!IsTitle, Vpn!Part, Vpn!Skip
    <3>2. 1 \in 1 .. 3 /\ 2 \in 1 .. 3 /\ 3 \in 1 .. 3 OBVIOUS
    <3> QED BY <3>1, <3>2, Zenon
  <2>2. r = [reader EXCEPT !.at = @ + 1, !.part = name, !.offset = skip]
    BY <1>2, <2>1 DEF Titled, VpnReader, ReaderType
  <2>3. r.offset = skip BY <2>2 DEF VpnReader, ReaderType
  <2>6. r.offset > 0 BY <2>3
  <2>4. reader' = [r EXCEPT !.offset = @ - 1] BY <2>6 DEF Vpn!Taken
  <2>5. reader' = [reader EXCEPT !.at = reader.at + 1, !.part = name, !.offset = skip - 1]
    BY <2>2, <2>4 DEF VpnReader, ReaderType
  <2>7. skip - 1 \in 0 .. 3 /\ reader.at + 1 \in Nat BY <1>1
  <2>8. /\ reader' \in ReaderType /\ reader'.at = reader.at + 1 /\ reader'.part = name
        /\ reader'.offset = skip - 1
        /\ reader'.found = reader.found /\ reader'.placed = reader.placed
    BY <2>5, <2>7 DEF VpnReader, ReaderType
  <2>9. reader'.part = "common" => reader'.at + reader'.offset >= 3
    <3> SUFFICES ASSUME skip = 3 PROVE (reader.at + 1) + (3 - 1) >= 3
      BY <2>1, <2>8
    <3> QED BY <1>1
  <2> QED BY <1>1, <2>8, <2>9 DEF VpnReader
<1>3. CASE ~Vpn!IsTitle(ln.kind)
  <2>1. r = [reader EXCEPT !.at = reader.at + 1] BY <1>3 DEF Titled
  <2>2. r.offset = reader.offset /\ r.part = reader.part /\ r.found = reader.found
    BY <2>1 DEF VpnReader, ReaderType
  <2>3. CASE reader.offset > 0
    <3>1. reader' = [r EXCEPT !.offset = @ - 1] BY <2>2, <2>3 DEF Vpn!Taken
    <3>2. reader' = [reader EXCEPT !.at = reader.at + 1, !.offset = reader.offset - 1]
      BY <2>1, <3>1 DEF VpnReader, ReaderType
    <3>3. reader.offset - 1 \in 0 .. 3 /\ reader.at + 1 \in Nat BY <1>1, <2>3
    <3>4. /\ reader' \in ReaderType /\ reader'.at = reader.at + 1 /\ reader'.part = reader.part
          /\ reader'.offset = reader.offset - 1
          /\ reader'.found = reader.found /\ reader'.placed = reader.placed
      BY <3>2, <3>3 DEF VpnReader, ReaderType
    <3>5. reader'.at + reader'.offset = reader.at + reader.offset BY <1>1, <3>4
    <3> QED BY <1>1, <3>4, <3>5 DEF VpnReader, ReaderType
  <2>4. CASE reader.offset = 0 /\ reader.part = "common" /\ ln.cols = 5
    <3>1. reader' = [r EXCEPT !.found = @ \cup {ln.name}] BY <2>2, <2>4 DEF Vpn!Taken
    <3>2. reader' = [reader EXCEPT !.at = reader.at + 1, !.found = reader.found \cup {ln.name}]
      BY <2>1, <3>1 DEF VpnReader, ReaderType
    <3>3. ln.name \in Clients
      <4>1. reader.at + 1 # 3 BY <1>1, <2>4
      <4> QED BY <2>4, <4>1 DEF LineFits
    <3>4. /\ reader' \in ReaderType /\ reader'.at = reader.at + 1
          /\ reader'.part = reader.part /\ reader'.offset = 0
          /\ reader'.found = reader.found \cup {ln.name} /\ reader'.placed = reader.placed
      <4>1. reader.found \cup {ln.name} \in SUBSET Clients /\ reader.at + 1 \in Nat BY <1>1, <3>3
      <4> QED BY <2>4, <3>2, <4>1 DEF VpnReader, ReaderType
    <3>5. reader'.at + reader'.offset >= 3 BY <1>1, <2>4, <3>4
    <3> QED BY <1>1, <3>4, <3>5 DEF VpnReader, ReaderType
  <2>5. CASE /\ reader.offset = 0 /\ reader.part = "routing"
             /\ ln.cols = 4 /\ ln.name \in reader.found
    <3>1. reader' = [r EXCEPT !.placed = @ \cup {ln.name}] BY <2>2, <2>5 DEF Vpn!Taken
    <3>2. reader' = [reader EXCEPT !.at = reader.at + 1, !.placed = reader.placed \cup {ln.name}]
      BY <2>1, <3>1 DEF VpnReader, ReaderType
    <3>4. /\ reader' \in ReaderType /\ reader'.part = reader.part
          /\ reader'.found = reader.found /\ reader'.placed = reader.placed \cup {ln.name}
      <4>1. reader.placed \cup {ln.name} \in SUBSET Clients /\ reader.at + 1 \in Nat
        BY <1>1, <2>5
      <4> QED BY <3>2, <4>1 DEF VpnReader, ReaderType
    <3> QED BY <1>1, <2>5, <3>4 DEF VpnReader, ReaderType
  <2>6. CASE reader' = r BY <1>1, <2>1, <2>6 DEF VpnReader, ReaderType
  <2>7. reader.offset > 0 \/ reader.offset = 0 BY <1>1
  <2> QED BY <2>2, <2>3, <2>4, <2>5, <2>6, <2>7 DEF Vpn!Taken
<1> QED BY <1>2, <1>3

LEMMA VpnTypeStep == VpnInv /\ [Vpn!Next]_(Vpn!vpnVars) => Vpn!TypeOK' /\ VpnReader'
<1> SUFFICES ASSUME VpnInv, [Vpn!Next]_(Vpn!vpnVars) PROVE Vpn!TypeOK' /\ VpnReader'
  OBVIOUS
<1> USE VpnAssumption DEF VpnInv, Vpn!TypeOK, Vpn!procVars, Vpn!fileVars, Vpn!Pids
<1>1. CASE Vpn!Initialize BY <1>1 DEF Vpn!Initialize, Vpn!Clean, VpnReader, ReaderType
<1>2. CASE Vpn!Start BY <1>2 DEF Vpn!Start, VpnReader, ReaderType
<1>3. CASE Vpn!Stop BY <1>3 DEF Vpn!Stop, Vpn!Clean, Vpn!Killed, VpnReader, ReaderType
<1>4. CASE Vpn!Crash BY <1>4 DEF Vpn!Crash, Vpn!Idle, VpnReader, ReaderType
<1>5. ASSUME NEW p \in Vpn!Pids, Vpn!Starts(p) PROVE Vpn!TypeOK' /\ VpnReader'
  BY <1>5 DEF Vpn!Starts, Vpn!WritePid, VpnReader, ReaderType
<1>6. ASSUME NEW p \in Vpn!Pids, Vpn!Binds(p) PROVE Vpn!TypeOK' /\ VpnReader'
  <2>1. /\ UNCHANGED <<switch, ccd, pidFile, astray, online, writes, reader>>
        /\ (port' = p /\ linked' = TRUE) \/ UNCHANGED <<port, linked>>
        /\ proc' = [proc EXCEPT ![p] = "run"] \/ proc' = [proc EXCEPT ![p] = "dead"]
    BY <1>6 DEF Vpn!Binds
  <2>4. p \in 0 .. MaxProcs OBVIOUS
  <2>2. port' \in 0 .. MaxProcs /\ linked' \in BOOLEAN BY <2>1, <2>4, Zenon
  <2>3. proc' \in [Vpn!Pids -> {"none", "forked", "started", "run", "killed", "dead"}] BY <2>1
  <2> QED BY <2>1, <2>2, <2>3 DEF VpnReader, ReaderType
<1>7. ASSUME NEW p \in Vpn!Pids, Vpn!Exits(p) PROVE Vpn!TypeOK' /\ VpnReader'
  BY <1>7 DEF Vpn!Exits, VpnReader, ReaderType
<1>8. ASSUME NEW c \in Clients, Vpn!Connects(c) PROVE Vpn!TypeOK' /\ VpnReader'
  BY <1>8 DEF Vpn!Connects, VpnReader, ReaderType
<1>9. CASE Vpn!Truncates BY <1>9 DEF Vpn!Truncates, VpnReader, ReaderType
<1>10. CASE Vpn!Writes BY <1>10 DEF Vpn!Writes, VpnReader, ReaderType
<1>11. CASE Vpn!ListClients
  <2>1. /\ UNCHANGED <<switch, ccd, proc, pidFile, port, astray, online, linked, writes>>
        /\ reader' = [on |-> TRUE, at |-> 0, part |-> "header", offset |-> 0, found |-> {},
                      placed |-> {}, ended |-> FALSE]
    BY <1>11 DEF Vpn!ListClients, Vpn!Idle
  <2>2. VpnReader' /\ reader'.part = "header" /\ reader'.offset = 0 BY <2>1 DEF VpnReader, ReaderType
  <2> QED BY <2>1, <2>2
<1>12. CASE Vpn!Scan
  <2>1. UNCHANGED <<switch, ccd, proc, pidFile, port, astray, online, linked, writes>>
    BY <1>12 DEF Vpn!Scan
  <2>2. CASE ~(reader.at < Len(status))
    <3>1. reader' = [reader EXCEPT !.ended = TRUE] BY <1>12, <2>2 DEF Vpn!Scan
    <3> QED BY <2>1, <3>1 DEF VpnReader, ReaderType
  <2>3. CASE reader.at < Len(status)
    <3>1. reader' = Vpn!Taken(Titled(reader, status[reader.at + 1]), status[reader.at + 1])
      BY <1>12, <2>3 DEF Vpn!Scan, Titled
    <3>2. Len(status) \in Nat /\ reader.at \in Nat BY DEF VpnReader, ReaderType, VpnFile, Fits
    <3>3. /\ reader.at + 1 \in 1 .. Len(status) /\ status[reader.at + 1] \in LineType
          /\ LineFits(status[reader.at + 1], 0 + (reader.at + 1))
      BY <2>3, <3>2 DEF VpnFile, Fits
    <3>4. 0 + (reader.at + 1) = reader.at + 1 BY <3>2
    <3>5. VpnReader' BY <3>1, <3>3, <3>4, TakenOK
    <3> QED BY <2>1, <3>5 DEF VpnReader, ReaderType
  <2> QED BY <2>2, <2>3
<1>13. CASE Vpn!Listed BY <1>13 DEF Vpn!Listed, Vpn!Idle, VpnReader, ReaderType
<1>14. CASE UNCHANGED Vpn!vpnVars BY <1>14 DEF Vpn!vpnVars, VpnReader, ReaderType
<1> QED
  BY <1>1, <1>2, <1>3, <1>4, <1>5, <1>6, <1>7, <1>8, <1>9, <1>10, <1>11, <1>12, <1>13, <1>14
  DEF Vpn!Next

LEMMA VpnProcStep ==
    VpnInv /\ [Vpn!Next]_(Vpn!vpnVars) => VpnPort' /\ VpnPids' /\ Vpn!StopEndsServer'
<1> DEFINE Goal == VpnPort' /\ VpnPids' /\ Vpn!StopEndsServer'
<1> SUFFICES ASSUME VpnInv, [Vpn!Next]_(Vpn!vpnVars) PROVE Goal
  OBVIOUS
<1> USE VpnAssumption DEF VpnInv, Vpn!TypeOK, Vpn!procVars, Vpn!fileVars, Vpn!Pids, Vpn!Live,
        VpnPort, VpnPids, Vpn!StopEndsServer
<1>1. CASE Vpn!Initialize BY <1>1 DEF Vpn!Initialize, Vpn!Clean
<1>2. CASE Vpn!Start BY <1>2 DEF Vpn!Start
<1>3. CASE Vpn!Stop
  <2>1. /\ proc' = Vpn!Killed /\ UNCHANGED <<pidFile, port, pending>>
        /\ ~astray' => ~astray /\ \A p \in Vpn!Pids : proc[p] # "forked"
    BY <1>3 DEF Vpn!Stop
  <2>2. ASSUME NEW p \in Vpn!Pids
        PROVE  /\ p = pidFile /\ proc[p] \in {"started", "run"} => proc'[p] = "killed"
               /\ ~(p = pidFile /\ proc[p] \in {"started", "run"}) => proc'[p] = proc[p]
    BY <2>1 DEF Vpn!Killed
  <2>3. VpnPort' BY <2>1, <2>2
  <2>4. VpnPids' BY <2>1, <2>2
  <2>5. Vpn!StopEndsServer' BY <2>1, <2>2
  <2> QED BY <2>3, <2>4, <2>5
<1>4. CASE Vpn!Crash BY <1>4 DEF Vpn!Crash
<1>5. ASSUME NEW p \in Vpn!Pids, Vpn!Starts(p) PROVE Goal
  <2>1. /\ proc[p] = "forked" /\ proc' = [proc EXCEPT ![p] = "started"] /\ pidFile' = p
        /\ ~astray' => ~astray /\ \A q \in Vpn!Pids \ {p} : proc[q] \notin Vpn!Live
        /\ UNCHANGED <<switch, port, pending>>
    BY <1>5 DEF Vpn!Starts, Vpn!WritePid
  <2>2. VpnPort' BY <2>1
  <2>3. VpnPids' BY <2>1
  <2>4. Vpn!StopEndsServer' BY <2>1
  <2> QED BY <2>2, <2>3, <2>4
<1>6. ASSUME NEW p \in Vpn!Pids, Vpn!Binds(p) PROVE Goal
  BY <1>6 DEF Vpn!Binds
<1>7. ASSUME NEW p \in Vpn!Pids, Vpn!Exits(p) PROVE Goal
  BY <1>7 DEF Vpn!Exits
<1>8. ASSUME NEW c \in Clients, Vpn!Connects(c) PROVE Goal
  BY <1>8 DEF Vpn!Connects
<1>9. CASE Vpn!Truncates BY <1>9 DEF Vpn!Truncates
<1>10. CASE Vpn!Writes BY <1>10 DEF Vpn!Writes
<1>11. CASE Vpn!ListClients BY <1>11 DEF Vpn!ListClients
<1>12. CASE Vpn!Scan BY <1>12 DEF Vpn!Scan
<1>13. CASE Vpn!Listed BY <1>13 DEF Vpn!Listed
<1>14. CASE UNCHANGED Vpn!vpnVars BY <1>14 DEF Vpn!vpnVars
<1> QED
  BY <1>1, <1>2, <1>3, <1>4, <1>5, <1>6, <1>7, <1>8, <1>9, <1>10, <1>11, <1>12, <1>13, <1>14
  DEF Vpn!Next

LEMMA VpnFileStep == VpnInv /\ [Vpn!Next]_(Vpn!vpnVars) => VpnFile'
<1> SUFFICES ASSUME VpnInv, [Vpn!Next]_(Vpn!vpnVars) PROVE VpnFile'
  OBVIOUS
<1> USE DEF VpnInv, Vpn!procVars, Vpn!fileVars
<1>e. Fits(<<>>, 0) /\ Len(<<>>) = 0 BY DEF Fits
<1>1. CASE Vpn!Initialize BY <1>1, <1>e DEF Vpn!Initialize, Vpn!Clean, VpnFile
<1>2. CASE Vpn!Start BY <1>2 DEF Vpn!Start, VpnFile
<1>3. CASE Vpn!Stop BY <1>3, <1>e DEF Vpn!Stop, Vpn!Clean, VpnFile
<1>4. CASE Vpn!Crash BY <1>4 DEF Vpn!Crash, VpnFile
<1>5. ASSUME NEW p \in Vpn!Pids, Vpn!Starts(p) PROVE VpnFile'
  BY <1>5 DEF Vpn!Starts, VpnFile
<1>6. ASSUME NEW p \in Vpn!Pids, Vpn!Binds(p) PROVE VpnFile'
  BY <1>6, <1>e DEF Vpn!Binds, VpnFile, VpnPort
<1>7. ASSUME NEW p \in Vpn!Pids, Vpn!Exits(p) PROVE VpnFile'
  <2>1. Fits(<<>>, Len(status)) /\ <<>> \in Seq(LineType) BY DEF Fits
  <2>2. UNCHANGED <<linked, status>> /\ (pending' = <<>> \/ pending' = pending)
    BY <1>7 DEF Vpn!Exits
  <2> QED BY <2>1, <2>2 DEF VpnFile
<1>8. ASSUME NEW c \in Clients, Vpn!Connects(c) PROVE VpnFile'
  BY <1>8 DEF Vpn!Connects, VpnFile
<1>9. CASE Vpn!Truncates
  <2>1. Fits(Vpn!StatusOf(online), 0) BY StatusFits DEF Vpn!TypeOK
  <2>2. status' = <<>> /\ pending' = Vpn!StatusOf(online) BY <1>9 DEF Vpn!Truncates
  <2>3. pending' \in Seq(LineType) BY <2>1, <2>2 DEF Fits
  <2> QED BY <2>1, <2>2, <2>3, <1>e DEF VpnFile
<1>10. CASE Vpn!Writes
  <2>1. /\ pending # <<>> /\ linked' = linked /\ pending' = Tail(pending)
        /\ status' = IF linked THEN Append(status, Head(pending)) ELSE status
    BY <1>10 DEF Vpn!Writes
  <2>2. /\ pending \in Seq(LineType) /\ Tail(pending) \in Seq(LineType) /\ Head(pending) \in LineType
        /\ Len(Tail(pending)) = Len(pending) - 1 /\ Len(pending) \in Nat /\ Len(pending) >= 1
        /\ Head(pending) = pending[1]
        /\ \A i \in 1 .. Len(Tail(pending)) : i + 1 \in 1 .. Len(pending) /\ Tail(pending)[i] = pending[i + 1]
    BY <2>1 DEF VpnFile
  <2>3. CASE ~linked BY <2>1, <2>2, <2>3 DEF VpnFile
  <2>4. CASE linked
    <3>1. status \in Seq(LineType) /\ Len(status) \in Nat BY DEF VpnFile, Fits
    <3>2. /\ status' \in Seq(LineType) /\ Len(status') = Len(status) + 1
          /\ \A i \in 1 .. Len(status') : (i <= Len(status) /\ i \in 1 .. Len(status) /\ status'[i] = status[i])
                               \/ (i = Len(status) + 1 /\ status'[i] = Head(pending))
      BY <2>1, <2>2, <2>4, <3>1
    <3>3. 1 \in 1 .. Len(pending) BY <2>2
    <3>4. LineFits(Head(pending), Len(status) + 1) BY <2>2, <2>4, <3>3 DEF VpnFile, Fits
    <3>5. ASSUME NEW i \in 1 .. Len(status') PROVE LineFits(status'[i], 0 + i)
      BY <3>2, <3>4 DEF VpnFile, Fits
    <3>6. ASSUME NEW i \in 1 .. Len(pending') PROVE LineFits(pending'[i], Len(status') + i)
      <4>1. i + 1 \in 1 .. Len(pending) /\ pending'[i] = pending[i + 1] BY <2>1, <2>2
      <4>2. LineFits(pending[i + 1], Len(status) + (i + 1)) BY <2>4, <4>1 DEF VpnFile, Fits
      <4>3. Len(status) + (i + 1) = Len(status') + i BY <3>1, <3>2
      <4> QED BY <4>1, <4>2, <4>3
    <3> QED BY <2>1, <2>2, <3>2, <3>5, <3>6 DEF VpnFile, Fits
  <2> QED BY <2>3, <2>4
<1>11. CASE Vpn!ListClients BY <1>11 DEF Vpn!ListClients, VpnFile
<1>12. CASE Vpn!Scan BY <1>12 DEF Vpn!Scan, VpnFile
<1>13. CASE Vpn!Listed BY <1>13 DEF Vpn!Listed, VpnFile
<1>14. CASE UNCHANGED Vpn!vpnVars BY <1>14 DEF Vpn!vpnVars, VpnFile
<1> QED
  BY <1>1, <1>2, <1>3, <1>4, <1>5, <1>6, <1>7, <1>8, <1>9, <1>10, <1>11, <1>12, <1>13, <1>14
  DEF Vpn!Next

LEMMA VpnInvInit == Vpn!Init => VpnInv
<1> SUFFICES ASSUME Vpn!Init PROVE VpnInv
  OBVIOUS
<1> USE VpnAssumption DEF Vpn!Init
<1>6. 0 \in 0 .. MaxProcs /\ 0 \in 0 .. MaxWrites /\ 0 \in 0 .. 3 OBVIOUS
<1>7. reader.part = "header" /\ reader.offset = 0 BY DEF Vpn!Idle
<1>1. Vpn!TypeOK BY <1>6, <1>7 DEF Vpn!TypeOK
<1>2. VpnPort /\ VpnPids /\ Vpn!StopEndsServer
  BY DEF VpnPort, VpnPids, Vpn!StopEndsServer, Vpn!Live, Vpn!Pids
<1>3. Fits(<<>>, 0) /\ <<>> \in Seq(LineType) BY DEF Fits
<1>4. VpnFile BY <1>3 DEF VpnFile
<1>5. VpnReader BY DEF VpnReader, ReaderType, Vpn!Idle
<1> QED BY <1>1, <1>2, <1>4, <1>5 DEF VpnInv

\* The invariant of the OpenVPN server holds throughout.
LEMMA VpnAlways == Spec => [](part = "vpn" => VpnInv)
<1> DEFINE I == part = "vpn" => VpnInv
<1>1. Init => I BY VpnInvInit DEF Init, Only
<1>2. I /\ [Next]_vars => I'
  <2> SUFFICES ASSUME I, [Next]_vars, part' = "vpn" PROVE VpnInv'
    OBVIOUS
  <2>1. part = "vpn" BY DEF Next, WallNext, LanNext, FabNext, VpnNext, UserNext, TableNext, WebNext,
         DbNext, PrxNext, TunNext, OfWall, OfLan, OfFab, OfVpn, OfUser, OfTable, OfWeb, OfDb, OfPrx,
         OfTun, vars
  <2>2. VpnInv /\ [Vpn!Next]_(Vpn!vpnVars) BY <2>1, VpnStep
  <2> QED BY <2>2, VpnTypeStep, VpnProcStep, VpnFileStep DEF VpnInv
<1> QED BY <1>1, <1>2, PTL DEF Spec

\* Whatever crashes, restarts and rewrites there are, for any clients: the pid
\* file names the process that has the port, Stop ends it, and a scan of its
\* status file lists clients only (ServerTracked).
THEOREM ServersTracked == Spec => []ServerTracked
<1>1. (part = "vpn" => VpnInv) => ServerTracked
  <2> SUFFICES ASSUME VpnInv PROVE Vpn!ServerTracked
    BY DEF ServerTracked
  <2>1. Vpn!PidNamesServer
    <3> SUFFICES ASSUME port # 0, ~astray PROVE pidFile = port
      BY DEF Vpn!PidNamesServer
    <3>1. port \in Vpn!Pids BY VpnAssumption DEF VpnInv, Vpn!TypeOK, Vpn!Pids
    <3> QED BY <3>1 DEF VpnInv, VpnPort, VpnPids, Vpn!Live
  <2>2. Vpn!ListsClients BY DEF VpnInv, VpnReader, ReaderType, Vpn!ListsClients
  <2> QED BY <2>1, <2>2 DEF VpnInv, Vpn!ServerTracked
<1> QED BY <1>1, VpnAlways, PTL

----------------------------------------------------------------------------
(* The OVS fabric.                                                         *)
(*                                                                         *)
(* The flows of a bridge that has its tables are those of the tunnels,     *)
(* borders and networks added so far (FabPorts, FabTunnels, FabNets), a    *)
(* learned patch port belongs to the network it was learned in (FabFdb),   *)
(* and what Stop has still to delete is what there still is (FabDevs).     *)
(* Frames then go where FabricForwards says.                               *)

FabUp == fabAt \in {"new", "tunnels", "networks", "up"}

\* The networks whose flows are there.
NetsAdded ==
    {j \in DOMAIN Vnets : fabAt = "up" \/ (fabAt = "networks" /\ j < k)}

FabPlace ==
    /\ fabAt \in {"new", "tunnels", "networks", "up", "ports", "links", "stopped"}
    /\ k \in Nat /\ k >= 1 /\ tables \in BOOLEAN
    /\ ~FabUp => ~tables
FabPorts ==
    /\ tunnels \subseteq {p \in Fab!TunOf : \A i \in DOMAIN TunnelPorts :
                            TunnelPorts[i].port = p => ~TunnelPorts[i].border}
    /\ borders \subseteq {p \in Fab!TunOf : \A i \in DOMAIN TunnelPorts :
                            TunnelPorts[i].port = p => TunnelPorts[i].border}
    /\ \A p \in DOMAIN in0 :
         \/ p \in tunnels /\ in0[p].vni = NoFlow /\ in0[p].flag = "TUN"
         \/ p \in borders /\ in0[p].vni = NoFlow /\ in0[p].flag = "LS"
         \/ \E j \in DOMAIN Vnets : /\ p = Vnets[j].patch /\ in0[p].vni = Vnets[j].vni
                                    /\ in0[p].flag = "LS"
FabTunnels ==
    FabUp => /\ toTun = IF tunnels = {} THEN NoFlow ELSE tunnels
             /\ \A f \in {"LS", "TUN"} : toBorder[f] = IF borders = {} THEN NoFlow ELSE borders
NetFlows(f) ==
    /\ DOMAIN f = {Vnets[j].vni : j \in NetsAdded}
    /\ \A j \in NetsAdded : f[Vnets[j].vni] = Vnets[j].patch
FabNets == FabUp => NetFlows(toPatch) /\ NetFlows(loop)
FabFdb ==
    \A x \in DOMAIN fdb : \A j \in DOMAIN Vnets : fdb[x] = Vnets[j].patch => x[1] = Vnets[j].vni
FabDevs ==
    devs \subseteq
      {TunnelPorts[i].port : i \in {i \in DOMAIN TunnelPorts : FabUp \/ (fabAt = "ports" /\ i >= k)}}
      \cup UNION {Fab!Released(Vnets[j]) :
                    j \in {j \in DOMAIN Vnets : fabAt # "stopped" /\ (fabAt = "links" => j >= k)}}

FabInv ==
    /\ FabPlace /\ FabPorts /\ FabTunnels /\ FabNets /\ FabFdb /\ FabDevs
    /\ Fab!Isolated /\ Fab!SplitHorizon /\ Fab!FloodReaches

\* A step of a behaviour of this part is one of Fabric.
LEMMA FabStep == part = "fab" /\ [Next]_vars => part' = "fab" /\ [Fab!Next]_(Fab!fabVars)
<1> SUFFICES ASSUME part = "fab", [Next]_vars PROVE part' = "fab" /\ [Fab!Next]_(Fab!fabVars)
  OBVIOUS
<1>1. CASE FabNext BY <1>1 DEF FabNext, OfFab
<1>2. CASE UNCHANGED vars BY <1>2 DEF vars, fabVars, Fab!fabVars
<1>3. /\ ~WallNext /\ ~LanNext /\ ~VpnNext /\ ~TunNext /\ ~UserNext /\ ~TableNext
      /\ ~WebNext /\ ~DbNext /\ ~PrxNext
  BY DEF WallNext, LanNext, VpnNext, TunNext, UserNext, TableNext, WebNext, DbNext, PrxNext,
         OfWall, OfLan, OfVpn, OfTun, OfUser, OfTable, OfWeb, OfDb, OfPrx
<1> QED BY <1>1, <1>2, <1>3 DEF Next

\* No frame: nothing is said of the last one.
LEMMA QuietStep ==
    last' = Fab!Quiet => Fab!Isolated' /\ Fab!SplitHorizon' /\ Fab!FloodReaches'
BY DEF Fab!Quiet, Fab!Isolated, Fab!SplitHorizon, Fab!FloodReaches

\* The flows of the bridge after a step.
FabRules == FabPlace /\ FabPorts /\ FabTunnels /\ FabNets /\ FabFdb

LEMMA FabAddTunnel == FabInv /\ Fab!AddTunnel => FabRules'
<1> SUFFICES ASSUME FabInv, Fab!AddTunnel PROVE FabRules'
  OBVIOUS
<1> DEFINE t == TunnelPorts[k]
<1>1. k \in DOMAIN TunnelPorts BY FabAssumption DEF Fab!AddTunnel, FabInv, FabPlace
<1>2. t.port \in Fab!TunOf BY <1>1 DEF Fab!TunOf
<1>3. FabPlace' BY DEF Fab!AddTunnel, FabInv, FabPlace, FabUp
<1>4. NetsAdded' = NetsAdded /\ NetsAdded = {} BY DEF Fab!AddTunnel, NetsAdded
<1>5. FabNets' BY <1>4 DEF Fab!AddTunnel, FabInv, FabNets, NetFlows, FabUp
<1>6. FabFdb' BY DEF Fab!AddTunnel, FabInv, FabFdb
<1>a. ASSUME t.border PROVE FabPorts' /\ FabTunnels'
  <2>1. /\ in0' = Fab!With(in0, t.port, [vni |-> NoFlow, flag |-> "LS"])
        /\ borders' = borders \cup {t.port} /\ toBorder' = Fab!flood2Border(borders')
        /\ UNCHANGED <<tunnels, toTun, fabAt>>
    BY <1>a DEF Fab!AddTunnel
  <2>2. \A i \in DOMAIN TunnelPorts : TunnelPorts[i].port = t.port => TunnelPorts[i].border
    BY <1>1, <1>a, FabAssumption
  <2>3. \A p \in DOMAIN in0' : p = t.port \/ (p \in DOMAIN in0 /\ in0'[p] = in0[p])
    BY <2>1 DEF Fab!With
  <2>4. t.port \in DOMAIN in0' => in0'[t.port].vni = NoFlow /\ in0'[t.port].flag = "LS"
    BY <2>1 DEF Fab!With
  <2>5. FabPorts' BY <1>2, <2>1, <2>2, <2>3, <2>4 DEF FabInv, FabPorts
  <2>6. FabTunnels' BY <2>1 DEF FabInv, FabTunnels, FabUp, Fab!flood2Border
  <2> QED BY <2>5, <2>6
<1>b. ASSUME ~t.border PROVE FabPorts' /\ FabTunnels'
  <2>1. /\ in0' = Fab!With(in0, t.port, [vni |-> NoFlow, flag |-> "TUN"])
        /\ tunnels' = tunnels \cup {t.port} /\ toTun' = Fab!flood2Tunnel(tunnels')
        /\ UNCHANGED <<borders, toBorder, fabAt>>
    BY <1>b DEF Fab!AddTunnel
  <2>2. \A i \in DOMAIN TunnelPorts : TunnelPorts[i].port = t.port => ~TunnelPorts[i].border
    BY <1>1, <1>b, FabAssumption
  <2>3. \A p \in DOMAIN in0' : p = t.port \/ (p \in DOMAIN in0 /\ in0'[p] = in0[p])
    BY <2>1 DEF Fab!With
  <2>4. t.port \in DOMAIN in0' => in0'[t.port].vni = NoFlow /\ in0'[t.port].flag = "TUN"
    BY <2>1 DEF Fab!With
  <2>5. FabPorts' BY <1>2, <2>1, <2>2, <2>3, <2>4 DEF FabInv, FabPorts
  <2>6. FabTunnels' BY <2>1 DEF FabInv, FabTunnels, FabUp, Fab!flood2Tunnel
  <2> QED BY <2>5, <2>6
<1>7. FabPorts' /\ FabTunnels' BY <1>a, <1>b
<1> QED BY <1>3, <1>5, <1>6, <1>7 DEF FabRules

LEMMA FabAddNetwork == FabInv /\ Fab!AddNetwork => FabRules'
<1> SUFFICES ASSUME FabInv, Fab!AddNetwork PROVE FabRules'
  OBVIOUS
<1> DEFINE net == Vnets[k]
<1>1. k \in DOMAIN Vnets BY FabAssumption DEF Fab!AddNetwork, FabInv, FabPlace
<1>2. FabPlace' BY DEF Fab!AddNetwork, FabInv, FabPlace, FabUp
<1>3. FabFdb' BY DEF Fab!AddNetwork, FabInv, FabFdb
<1>4. FabTunnels' BY DEF Fab!AddNetwork, FabInv, FabTunnels, FabUp
<1>5. FabPorts'
  <2>1. /\ in0' = Fab!With(in0, net.patch, [vni |-> net.vni, flag |-> "LS"])
        /\ UNCHANGED <<tunnels, borders>>
    BY DEF Fab!AddNetwork
  <2>2. \A p \in DOMAIN in0' : p = net.patch \/ (p \in DOMAIN in0 /\ in0'[p] = in0[p])
    BY <2>1 DEF Fab!With
  <2>3. net.patch \in DOMAIN in0' => in0'[net.patch].vni = net.vni /\ in0'[net.patch].flag = "LS"
    BY <2>1 DEF Fab!With
  <2> QED BY <1>1, <2>1, <2>2, <2>3 DEF FabInv, FabPorts
<1>6. NetsAdded' = NetsAdded \cup {k}
  <2>1. fabAt = "networks" /\ fabAt' = "networks" /\ k' = k + 1 BY DEF Fab!AddNetwork
  <2>2. k \in Nat /\ \A j \in DOMAIN Vnets : j \in Nat BY FabAssumption DEF FabInv, FabPlace
  <2>3. \A j \in Nat : j < k + 1 <=> (j < k \/ j = k) BY <2>2
  <2> QED BY <1>1, <2>1, <2>2, <2>3 DEF NetsAdded
<1>7. ASSUME NEW f, NetFlows(f), NEW g, g = Fab!With(f, net.vni, net.patch)
      PROVE  /\ DOMAIN g = {Vnets[j].vni : j \in NetsAdded'}
             /\ \A j \in NetsAdded' : g[Vnets[j].vni] = Vnets[j].patch
  BY <1>1, <1>6, <1>7, FabAssumption DEF NetFlows, Fab!With, NetsAdded
<1>8. FabNets' BY <1>7 DEF Fab!AddNetwork, Fab!PatchFlow, FabInv, FabNets, NetFlows, FabUp
<1> QED BY <1>2, <1>3, <1>4, <1>5, <1>8 DEF FabRules

\* The steps that move on, and Stop.
LEMMA FabMoves ==
    FabInv /\ (\/ Fab!Initialize \/ Fab!TunnelFails \/ Fab!TunnelsAdded \/ Fab!NetworksAdded
               \/ Fab!Stop \/ Fab!DelTunnel \/ Fab!TunnelsDeleted \/ Fab!DelNetwork \/ Fab!Stopped
               \/ Fab!Expire)
    => FabRules'
<1> SUFFICES ASSUME FabInv PROVE
               (\/ Fab!Initialize \/ Fab!TunnelFails \/ Fab!TunnelsAdded \/ Fab!NetworksAdded
                \/ Fab!Stop \/ Fab!DelTunnel \/ Fab!TunnelsDeleted \/ Fab!DelNetwork \/ Fab!Stopped
                \/ Fab!Expire) => FabRules'
  OBVIOUS
<1> USE DEF FabInv, FabRules, Fab!flowVars
<1>1. CASE Fab!Initialize
  <2>1. NetsAdded' = NetsAdded BY <1>1 DEF Fab!Initialize, NetsAdded
  <2> QED BY <1>1, <2>1 DEF Fab!Initialize, FabPlace, FabPorts, FabTunnels, FabNets, NetFlows, FabFdb, FabUp
<1>2. CASE Fab!TunnelFails
  <2>1. NetsAdded' = NetsAdded BY <1>2 DEF Fab!TunnelFails, NetsAdded
  <2> QED BY <1>2, <2>1 DEF Fab!TunnelFails, FabPlace, FabPorts, FabTunnels, FabNets, NetFlows, FabFdb, FabUp
<1>3. CASE Fab!TunnelsAdded
  <2>1. NetsAdded' = {} /\ NetsAdded = {} BY <1>3, FabAssumption DEF Fab!TunnelsAdded, NetsAdded
  <2> QED BY <1>3, <2>1 DEF Fab!TunnelsAdded, FabPlace, FabPorts, FabTunnels, FabNets, NetFlows, FabFdb, FabUp
<1>4. CASE Fab!NetworksAdded
  <2>1. NetsAdded' = NetsAdded BY <1>4, FabAssumption DEF Fab!NetworksAdded, NetsAdded, FabPlace
  <2> QED BY <1>4, <2>1 DEF Fab!NetworksAdded, FabPlace, FabPorts, FabTunnels, FabNets, NetFlows, FabFdb, FabUp
<1>5. CASE Fab!Stop
  <2>1. DOMAIN Fab!Empty = {} BY DEF Fab!Empty
  <2>2. DOMAIN in0' = {} /\ DOMAIN fdb' = {} BY <1>5, <2>1 DEF Fab!Stop
  <2>3. fabAt' = "ports" /\ k' = 1 /\ tables' = FALSE /\ UNCHANGED <<tunnels, borders>>
    BY <1>5 DEF Fab!Stop
  <2>4. FabPorts' BY <2>2, <2>3 DEF FabPorts
  <2>5. FabFdb' BY <2>2 DEF FabFdb
  <2>6. ~FabUp' BY <2>3 DEF FabUp
  <2>7. k' \in Nat /\ k' >= 1 BY <2>3
  <2>8. FabPlace' BY <2>3, <2>7 DEF FabPlace
  <2> QED BY <2>4, <2>5, <2>6, <2>8 DEF FabTunnels, FabNets
<1>6. CASE Fab!DelTunnel
  BY <1>6 DEF Fab!DelTunnel, FabPlace, FabPorts, FabTunnels, FabNets, FabFdb, FabUp
<1>7. CASE Fab!TunnelsDeleted
  BY <1>7 DEF Fab!TunnelsDeleted, FabPlace, FabPorts, FabTunnels, FabNets, FabFdb, FabUp
<1>8. CASE Fab!DelNetwork
  BY <1>8 DEF Fab!DelNetwork, FabPlace, FabPorts, FabTunnels, FabNets, FabFdb, FabUp
<1>9. CASE Fab!Stopped
  BY <1>9 DEF Fab!Stopped, FabPlace, FabPorts, FabTunnels, FabNets, FabFdb, FabUp
<1>10. CASE Fab!Expire
  <2>1. UNCHANGED <<fabAt, k, tables, in0, toTun, toPatch, toBorder, loop, tunnels, borders>>
    BY <1>10 DEF Fab!Expire
  <2>2. NetsAdded' = NetsAdded BY <2>1 DEF NetsAdded
  <2>3. FabFdb' BY <1>10 DEF Fab!Expire, FabFdb
  <2> QED BY <2>1, <2>2, <2>3 DEF FabPlace, FabPorts, FabTunnels, FabNets, NetFlows, FabUp
<1> QED BY <1>1, <1>2, <1>3, <1>4, <1>5, <1>6, <1>7, <1>8, <1>9, <1>10

\* A port is one of a tunnel, a border or a network.
LEMMA FabApart ==
    ASSUME FabInv
    PROVE  /\ tunnels # NoFlow /\ borders # NoFlow /\ tunnels \cap borders = {}
           /\ \A p \in tunnels \cup borders : \A j \in DOMAIN Vnets : p # Vnets[j].patch
<1>1. /\ tunnels \subseteq Fab!TunOf /\ borders \subseteq Fab!TunOf
      /\ \A p \in tunnels : \A i \in DOMAIN TunnelPorts :
           TunnelPorts[i].port = p => ~TunnelPorts[i].border
      /\ \A p \in borders : \A i \in DOMAIN TunnelPorts :
           TunnelPorts[i].port = p => TunnelPorts[i].border
  BY DEF FabInv, FabPorts
<1>2. tunnels # NoFlow /\ borders # NoFlow BY <1>1, FabAssumption DEF Fab!TunOf
<1>3. tunnels \cap borders = {} BY <1>1 DEF Fab!TunOf
<1>4. ASSUME NEW p \in Fab!TunOf, NEW j \in DOMAIN Vnets PROVE p # Vnets[j].patch
  <2>1. PICK i \in DOMAIN TunnelPorts : p = TunnelPorts[i].port BY DEF Fab!TunOf
  <2> QED BY <2>1, FabAssumption
<1> QED BY <1>1, <1>2, <1>3, <1>4

\* Where a flood goes: the ports are tunnels, borders or the patch of the vni.
LEMMA FloodGoes ==
    ASSUME FabInv, FabUp, NEW id \in Fab!Vnis, NEW flag \in {"LS", "TUN"}
    PROVE  /\ Fab!FloodToTun(id, flag) \subseteq
                tunnels \cup borders \cup {Vnets[j].patch : j \in {j \in DOMAIN Vnets : Vnets[j].vni = id}}
           /\ flag = "TUN" => Fab!FloodToTun(id, flag) \cap tunnels = {}
           /\ fabAt = "up" /\ flag = "TUN" => Fab!FloodToTun(id, flag) = borders \cup {toPatch[id]}
           /\ fabAt = "up" /\ flag = "LS" /\ tunnels # {} =>
                /\ borders # {} => Fab!FloodToTun(id, flag) = tunnels \cup borders \cup {toPatch[id]}
                /\ borders = {} => Fab!FloodToTun(id, flag) = tunnels
<1>1. tunnels # NoFlow /\ borders # NoFlow /\ tunnels \cap borders = {} BY FabApart
<1>2. /\ toTun = IF tunnels = {} THEN NoFlow ELSE tunnels
      /\ Fab!FlowOf(toBorder["LS"]) = borders /\ Fab!FlowOf(toBorder["TUN"]) = borders
      /\ toBorder["LS"] # NoFlow <=> borders # {}
  BY <1>1 DEF FabInv, FabTunnels, Fab!FlowOf
<1>3. \A p \in tunnels \cup borders : \A j \in DOMAIN Vnets : p # Vnets[j].patch BY FabApart
<1>4. ASSUME NEW f, NetFlows(f), id \in DOMAIN f
      PROVE  \E j \in DOMAIN Vnets : Vnets[j].vni = id /\ f[id] = Vnets[j].patch
  BY <1>4 DEF NetFlows, NetsAdded
<1>5. NetFlows(toPatch) /\ NetFlows(loop) BY DEF FabInv, FabNets
<1>6. fabAt = "up" => id \in DOMAIN toPatch /\ id \in DOMAIN loop /\ loop[id] = toPatch[id]
  <2> SUFFICES ASSUME fabAt = "up"
               PROVE  id \in DOMAIN toPatch /\ id \in DOMAIN loop /\ loop[id] = toPatch[id]
    OBVIOUS
  <2>1. PICK j \in DOMAIN Vnets : Vnets[j].vni = id BY DEF Fab!Vnis
  <2>2. j \in NetsAdded BY <2>1 DEF NetsAdded
  <2> QED BY <1>5, <2>1, <2>2 DEF NetFlows
<1>7. CASE flag = "TUN"
  <2>1. Fab!FloodToBor(id, flag) = borders BY <1>2, <1>7 DEF Fab!FloodToBor
  <2>2. Fab!FloodToTun(id, flag) = IF id \in DOMAIN toPatch THEN {toPatch[id]} \cup borders ELSE {}
    BY <1>7, <2>1 DEF Fab!FloodToTun
  <2>3. id \in DOMAIN toPatch => \E j \in DOMAIN Vnets : Vnets[j].vni = id /\ toPatch[id] = Vnets[j].patch
    BY <1>4, <1>5
  <2> QED BY <1>1, <1>3, <1>6, <1>7, <2>2, <2>3
<1>8. CASE flag = "LS"
  <2>1. Fab!FloodToBor(id, flag) = borders \cup (IF borders # {} THEN Fab!Patch(loop, id) ELSE {})
    BY <1>2, <1>8 DEF Fab!FloodToBor
  <2>2. Fab!FloodToTun(id, flag) = IF tunnels = {} THEN {} ELSE tunnels \cup Fab!FloodToBor(id, flag)
    BY <1>1, <1>2, <1>8 DEF Fab!FloodToTun
  <2>3. id \in DOMAIN loop => \E j \in DOMAIN Vnets : Vnets[j].vni = id /\ loop[id] = Vnets[j].patch
    BY <1>4, <1>5
  <2>4. Fab!Patch(loop, id) = IF id \in DOMAIN loop THEN {loop[id]} ELSE {} BY DEF Fab!Patch
  <2> QED BY <1>1, <1>3, <1>6, <1>8, <2>1, <2>2, <2>3, <2>4
<1> QED BY <1>7, <1>8

LEMMA FabFrame ==
    ASSUME FabInv, NEW p \in Fab!Ports, NEW vni \in Fab!Vnis, NEW src \in Macs, NEW dst \in Macs,
           src # dst, Fab!Frame(p, vni, src, dst)
    PROVE  FabRules' /\ Fab!Isolated' /\ Fab!SplitHorizon' /\ Fab!FloodReaches'
<1> DEFINE id == IF in0[p].vni = NoFlow THEN vni ELSE in0[p].vni
           flag == in0[p].flag
           learn == Fab!With(fdb, <<id, src>>, p)
           flood == <<id, dst>> \notin DOMAIN learn
           to == IF flood THEN Fab!FloodToTun(id, flag) ELSE {learn[<<id, dst>>]}
<1>1. /\ p \in DOMAIN in0 /\ tables /\ fdb' = learn
      /\ last' = [in |-> p, vni |-> id, flag |-> flag, flood |-> flood, to |-> to \ {p}]
      /\ UNCHANGED <<fabAt, k, tables, in0, toTun, toPatch, toBorder, loop, tunnels, borders, devs>>
  BY DEF Fab!Frame, Fab!flowVars
<1>2. FabUp /\ NetsAdded' = NetsAdded BY <1>1 DEF FabInv, FabPlace, NetsAdded
<1>3. /\ id \in Fab!Vnis /\ flag \in {"LS", "TUN"}
      /\ p \in tunnels => flag = "TUN"
      /\ \A j \in DOMAIN Vnets : p = Vnets[j].patch => id = Vnets[j].vni /\ flag = "LS"
      /\ flag = "LS" => p \in borders \/ \E j \in DOMAIN Vnets : p = Vnets[j].patch
  <2>1. /\ \A q \in tunnels \cup borders : \A j \in DOMAIN Vnets : q # Vnets[j].patch
        /\ tunnels \cap borders = {}
    BY FabApart
  <2>2. CASE p \in tunnels /\ in0[p].vni = NoFlow /\ flag = "TUN" BY <2>1, <2>2
  <2>3. CASE p \in borders /\ in0[p].vni = NoFlow /\ flag = "LS" BY <2>1, <2>3
  <2>4. ASSUME NEW j \in DOMAIN Vnets, p = Vnets[j].patch, in0[p].vni = Vnets[j].vni, flag = "LS"
        PROVE  /\ id \in Fab!Vnis /\ p \notin tunnels
               /\ \A i \in DOMAIN Vnets : p = Vnets[i].patch => id = Vnets[i].vni
    <3>1. id = Vnets[j].vni BY <2>4, FabAssumption
    <3>2. id \in Fab!Vnis BY <3>1 DEF Fab!Vnis
    <3>3. p \notin tunnels BY <2>1, <2>4
    <3>4. \A i \in DOMAIN Vnets : p = Vnets[i].patch => id = Vnets[i].vni BY <2>4, <3>1, FabAssumption
    <3> QED BY <3>2, <3>3, <3>4
  <2> HIDE DEF id, flag
  <2> QED BY <1>1, <2>2, <2>3, <2>4 DEF FabInv, FabPorts, flag
<1>9. fdb' = learn /\ DOMAIN learn = DOMAIN fdb \cup {<<id, src>>} BY <1>1 DEF Fab!With
<1>10. \A x \in DOMAIN learn : learn[x] = IF x = <<id, src>> THEN p ELSE fdb[x] BY DEF Fab!With
<1>11. <<id, dst>> # <<id, src>> /\ <<id, src>>[1] = id /\ <<id, dst>>[1] = id OBVIOUS
<1>12. /\ last'.in = p /\ last'.vni = id /\ last'.flag = flag /\ last'.flood = flood
       /\ last'.to = to \ {p}
  BY <1>1
<1> HIDE DEF id, flag, learn
<1>4. FabFdb'
  <2> SUFFICES ASSUME NEW x \in DOMAIN learn, NEW j \in DOMAIN Vnets, learn[x] = Vnets[j].patch
               PROVE  x[1] = Vnets[j].vni
    BY <1>9 DEF FabFdb
  <2> QED BY <1>3, <1>9, <1>10, <1>11 DEF FabInv, FabFdb
<1>5. FabRules'
  BY <1>1, <1>2, <1>4 DEF FabRules, FabInv, FabPlace, FabPorts, FabTunnels, FabNets, NetFlows, FabUp
<1>6. Fab!Isolated'
  <2> SUFFICES ASSUME NEW j \in DOMAIN Vnets, Vnets[j].patch \in to PROVE id = Vnets[j].vni
    BY <1>12 DEF Fab!Isolated
  <2>1. CASE flood
    <3>1. Vnets[j].patch \in Fab!FloodToTun(id, flag) BY <2>1
    <3>2. Vnets[j].patch \notin tunnels \cup borders BY FabApart
    <3>3. PICK i \in DOMAIN Vnets : Vnets[i].vni = id /\ Vnets[j].patch = Vnets[i].patch
      BY <1>2, <1>3, <3>1, <3>2, FloodGoes
    <3> QED BY <3>3, FabAssumption
  <2>2. CASE ~flood
    <3>1. <<id, dst>> \in DOMAIN fdb /\ fdb[<<id, dst>>] = Vnets[j].patch
      BY <1>9, <1>10, <1>11, <2>2
    <3> QED BY <1>11, <3>1 DEF FabInv, FabFdb
  <2> QED BY <2>1, <2>2
<1>7. Fab!SplitHorizon'
  <2> SUFFICES ASSUME flood, p \in tunnels PROVE to \cap tunnels = {}
    BY <1>1, <1>12 DEF Fab!SplitHorizon
  <2> QED BY <1>2, <1>3, FloodGoes
<1>8. Fab!FloodReaches'
  <2> SUFFICES ASSUME fabAt = "up", flood, tunnels # {}
               PROVE  to \ {p} = (borders \cup {toPatch[id]} \cup (IF flag = "LS" THEN tunnels ELSE {})) \ {p}
    BY <1>1, <1>12 DEF Fab!FloodReaches
  <2>1. CASE flag = "TUN" BY <1>2, <1>3, <2>1, FloodGoes
  <2>2. CASE flag = "LS" /\ borders # {} BY <1>2, <1>3, <2>2, FloodGoes
  <2>3. CASE flag = "LS" /\ borders = {}
    <3>1. to = tunnels BY <1>2, <1>3, <2>3, FloodGoes
    <3>2. PICK j \in DOMAIN Vnets : p = Vnets[j].patch BY <1>3, <2>3
    <3>3. id = Vnets[j].vni /\ j \in NetsAdded BY <1>3, <3>2 DEF NetsAdded
    <3>4. toPatch[id] = p BY <1>2, <3>2, <3>3 DEF FabInv, FabNets, NetFlows
    <3> QED BY <2>3, <3>1, <3>4
  <2> QED BY <1>3, <2>1, <2>2, <2>3
<1> QED BY <1>5, <1>6, <1>7, <1>8

\* What Stop has still to delete is what there still is.
LEMMA FabDevsStep == FabInv /\ [Fab!Next]_(Fab!fabVars) => FabDevs'
<1> SUFFICES ASSUME FabInv, [Fab!Next]_(Fab!fabVars) PROVE FabDevs'
  OBVIOUS
<1>k. /\ k \in Nat /\ k >= 1
      /\ DOMAIN TunnelPorts = 1 .. Len(TunnelPorts) /\ DOMAIN Vnets = 1 .. Len(Vnets)
      /\ Len(TunnelPorts) \in Nat /\ Len(Vnets) \in Nat
  BY FabAssumption DEF FabInv, FabPlace
<1>d. /\ FabUp => devs \subseteq Fab!TunOf \cup UNION {Fab!Released(Vnets[j]) : j \in DOMAIN Vnets}
      /\ \A x \in devs :
           \/ \E i \in DOMAIN TunnelPorts : x = TunnelPorts[i].port /\ (FabUp \/ (fabAt = "ports" /\ i >= k))
           \/ \E j \in DOMAIN Vnets : /\ x \in Fab!Released(Vnets[j])
                                      /\ fabAt # "stopped" /\ (fabAt = "links" => j >= k)
  BY DEF FabInv, FabDevs, Fab!TunOf
<1>g. ASSUME NEW x \in devs',
             \/ \E i \in DOMAIN TunnelPorts : x = TunnelPorts[i].port /\ (FabUp' \/ (fabAt' = "ports" /\ i >= k'))
             \/ \E j \in DOMAIN Vnets : /\ x \in Fab!Released(Vnets[j])
                                        /\ fabAt' # "stopped" /\ (fabAt' = "links" => j >= k')
      PROVE  x \in {TunnelPorts[i].port :
                      i \in {i \in DOMAIN TunnelPorts : FabUp' \/ (fabAt' = "ports" /\ i >= k')}}
                   \cup UNION {Fab!Released(Vnets[j]) :
                      j \in {j \in DOMAIN Vnets : fabAt' # "stopped" /\ (fabAt' = "links" => j >= k')}}
  BY <1>g
<1> DEFINE Left(x) ==
      \/ \E i \in DOMAIN TunnelPorts : x = TunnelPorts[i].port /\ (FabUp' \/ (fabAt' = "ports" /\ i >= k'))
      \/ \E j \in DOMAIN Vnets : /\ x \in Fab!Released(Vnets[j])
                                 /\ fabAt' # "stopped" /\ (fabAt' = "links" => j >= k')
<1> SUFFICES ASSUME NEW x \in devs' PROVE Left(x)
  BY <1>g DEF FabDevs
<1>1. CASE Fab!Initialize \/ Fab!TunnelFails \/ Fab!TunnelsAdded \/ Fab!NetworksAdded \/ Fab!Expire
           \/ UNCHANGED Fab!fabVars
  <2>1. x \in devs
    BY <1>1 DEF Fab!Initialize, Fab!TunnelFails, Fab!TunnelsAdded, Fab!NetworksAdded, Fab!Expire,
                Fab!fabVars
  <2>2. (FabUp /\ FabUp') \/ UNCHANGED <<fabAt, k>>
    BY <1>1 DEF Fab!Initialize, Fab!TunnelFails, Fab!TunnelsAdded, Fab!NetworksAdded, Fab!Expire,
                Fab!fabVars, FabUp
  <2> QED BY <1>d, <2>1, <2>2 DEF FabUp
<1>9. ASSUME NEW p, NEW vni, NEW src, NEW dst, Fab!Frame(p, vni, src, dst) PROVE Left(x)
  <2>1. UNCHANGED <<fabAt, k, devs>> BY <1>9 DEF Fab!Frame
  <2> QED BY <1>d, <2>1 DEF FabUp
<1>2. CASE Fab!AddTunnel
  <2>1. FabUp /\ FabUp' /\ k \in DOMAIN TunnelPorts /\ (x \in devs \/ x = TunnelPorts[k].port)
    BY <1>2, <1>k DEF Fab!AddTunnel, FabUp
  <2> QED BY <1>d, <2>1 DEF FabUp
<1>3. CASE Fab!AddNetwork
  <2>1. FabUp /\ FabUp' /\ k \in DOMAIN Vnets /\ (x \in devs \/ x \in Fab!Released(Vnets[k]))
    BY <1>3, <1>k DEF Fab!AddNetwork, FabUp, Fab!Released
  <2> QED BY <1>d, <2>1 DEF FabUp
<1>4. CASE Fab!Stop
  <2>1. x \in devs /\ fabAt' = "ports" /\ k' = 1 BY <1>4 DEF Fab!Stop
  <2>2. \A i \in DOMAIN TunnelPorts : i >= 1 BY <1>k
  <2> QED BY <1>d, <2>1, <2>2
<1>5. CASE Fab!DelTunnel
  <2>1. fabAt = "ports" /\ fabAt' = "ports" /\ k' = k + 1 /\ x \in devs /\ x # TunnelPorts[k].port
    BY <1>5 DEF Fab!DelTunnel
  <2>2. \A i \in DOMAIN TunnelPorts : i >= k => i = k \/ i >= k + 1 BY <1>k
  <2> QED BY <1>d, <2>1, <2>2 DEF FabUp
<1>6. CASE Fab!TunnelsDeleted
  <2>1. fabAt = "ports" /\ fabAt' = "links" /\ k' = 1 /\ x \in devs /\ k > Len(TunnelPorts)
    BY <1>6 DEF Fab!TunnelsDeleted
  <2>2. \A i \in DOMAIN TunnelPorts : ~(i >= k) BY <1>k, <2>1
  <2>3. \A j \in DOMAIN Vnets : j >= 1 BY <1>k
  <2> QED BY <1>d, <2>1, <2>2, <2>3 DEF FabUp
<1>7. CASE Fab!DelNetwork
  <2>1. /\ fabAt = "links" /\ fabAt' = "links" /\ k' = k + 1 /\ x \in devs
        /\ x \notin Fab!Released(Vnets[k])
    BY <1>7 DEF Fab!DelNetwork
  <2>2. \A j \in DOMAIN Vnets : j >= k => j = k \/ j >= k + 1 BY <1>k
  <2> QED BY <1>d, <2>1, <2>2 DEF FabUp
<1>8. CASE Fab!Stopped
  <2>1. fabAt = "links" /\ x \in devs /\ k > Len(Vnets) BY <1>8 DEF Fab!Stopped
  <2>2. \A j \in DOMAIN Vnets : ~(j >= k) BY <1>k, <2>1
  <2> QED BY <1>d, <2>1, <2>2 DEF FabUp
<1> QED BY <1>1, <1>2, <1>3, <1>4, <1>5, <1>6, <1>7, <1>8, <1>9 DEF Fab!Next

LEMMA FabInvStep == FabInv /\ [Fab!Next]_(Fab!fabVars) => FabInv'
<1> SUFFICES ASSUME FabInv, [Fab!Next]_(Fab!fabVars) PROVE FabInv'
  OBVIOUS
<1> DEFINE Goal == FabRules' /\ Fab!Isolated' /\ Fab!SplitHorizon' /\ Fab!FloodReaches'
<1>1. CASE Fab!AddTunnel BY <1>1, FabAddTunnel, QuietStep, FabDevsStep
        DEF Fab!AddTunnel, FabInv, FabRules
<1>2. CASE Fab!AddNetwork BY <1>2, FabAddNetwork, QuietStep, FabDevsStep
        DEF Fab!AddNetwork, FabInv, FabRules
<1>3. CASE \/ Fab!Initialize \/ Fab!TunnelFails \/ Fab!TunnelsAdded \/ Fab!NetworksAdded
           \/ Fab!Stop \/ Fab!DelTunnel \/ Fab!TunnelsDeleted \/ Fab!DelNetwork \/ Fab!Stopped
           \/ Fab!Expire
  <2>1. last' = Fab!Quiet
    BY <1>3 DEF Fab!Initialize, Fab!TunnelFails, Fab!TunnelsAdded, Fab!NetworksAdded, Fab!Stop,
         Fab!DelTunnel, Fab!TunnelsDeleted, Fab!DelNetwork, Fab!Stopped, Fab!Expire
  <2> QED BY <1>3, <2>1, FabMoves, QuietStep, FabDevsStep DEF FabInv, FabRules
<1>4. ASSUME NEW p \in Fab!Ports, NEW vni \in Fab!Vnis, NEW src \in Macs, NEW dst \in Macs,
             src # dst, Fab!Frame(p, vni, src, dst)
      PROVE  FabInv'
  BY <1>4, FabFrame, FabDevsStep DEF FabInv, FabRules
<1>5. CASE UNCHANGED Fab!fabVars
  BY <1>5, FabDevsStep DEF Fab!fabVars, FabInv, FabPlace, FabPorts, FabTunnels, FabNets, NetFlows,
     NetsAdded, FabFdb, FabUp, Fab!Isolated, Fab!SplitHorizon, Fab!FloodReaches
<1> QED BY <1>1, <1>2, <1>3, <1>4, <1>5 DEF Fab!Next

LEMMA FabInvInit == Fab!Init => FabInv
<1> SUFFICES ASSUME Fab!Init PROVE FabInv
  OBVIOUS
<1>1. /\ fabAt = "new" /\ k = 1 /\ tables = FALSE /\ toTun = NoFlow /\ tunnels = {} /\ borders = {}
      /\ devs = {} /\ last = Fab!Quiet
      /\ \A f \in {"LS", "TUN"} : toBorder[f] = NoFlow
  BY DEF Fab!Init
<1>2. DOMAIN in0 = {} /\ DOMAIN fdb = {} /\ DOMAIN toPatch = {} /\ DOMAIN loop = {}
  BY DEF Fab!Init, Fab!Empty
<1>10. k \in Nat /\ k >= 1 BY <1>1
<1>3. FabPlace /\ FabUp BY <1>1, <1>10 DEF FabPlace, FabUp
<1>4. FabPorts /\ FabFdb BY <1>1, <1>2 DEF FabPorts, FabFdb
<1>5. FabTunnels BY <1>1 DEF FabTunnels
<1>6. NetsAdded = {} BY <1>1 DEF NetsAdded
<1>7. FabNets BY <1>2, <1>6 DEF FabNets, NetFlows
<1>8. FabDevs BY <1>1 DEF FabDevs
<1>9. Fab!Isolated /\ Fab!SplitHorizon /\ Fab!FloodReaches
  BY <1>1 DEF Fab!Quiet, Fab!Isolated, Fab!SplitHorizon, Fab!FloodReaches
<1> QED BY <1>3, <1>4, <1>5, <1>7, <1>8, <1>9 DEF FabInv

\* The invariant of the fabric holds throughout.
LEMMA FabAlways == Spec => [](part = "fab" => FabInv)
<1> DEFINE I == part = "fab" => FabInv
<1>1. Init => I BY FabInvInit DEF Init, Only
<1>2. I /\ [Next]_vars => I'
  <2> SUFFICES ASSUME I, [Next]_vars, part' = "fab" PROVE FabInv'
    OBVIOUS
  <2>1. part = "fab" BY DEF Next, WallNext, LanNext, FabNext, VpnNext, UserNext, TableNext, WebNext,
         DbNext, PrxNext, TunNext, OfWall, OfLan, OfFab, OfVpn, OfUser, OfTable, OfWeb, OfDb, OfPrx,
         OfTun, vars
  <2> QED BY <2>1, FabStep, FabInvStep
<1> QED BY <1>1, <1>2, PTL DEF Spec

\* For any tunnels and networks, and whichever ports could not be made: frames
\* stay in their logical switch and reach all of it, a flood that came from a
\* tunnel goes to none, and Stop deletes what Start made (FabricForwards).
THEOREM FramesForwarded == Spec => []FabricForwards
<1>1. (part = "fab" => FabInv) => FabricForwards
  <2> SUFFICES ASSUME FabInv PROVE Fab!FabricForwards
    BY DEF FabricForwards
  <2>1. Fab!StopReleases
    <3> SUFFICES ASSUME fabAt = "stopped" PROVE devs = {}
      BY DEF Fab!StopReleases
    <3>1. {i \in DOMAIN TunnelPorts : FabUp \/ (fabAt = "ports" /\ i >= k)} = {} BY DEF FabUp
    <3>2. {j \in DOMAIN Vnets : fabAt # "stopped" /\ (fabAt = "links" => j >= k)} = {} OBVIOUS
    <3> QED BY <3>1, <3>2 DEF FabInv, FabDevs
  <2> QED BY <2>1 DEF FabInv, Fab!FabricForwards
<1> QED BY <1>1, FabAlways, PTL

----------------------------------------------------------------------------
(* The client of the configuration database (Confd).                       *)
(*                                                                         *)
(* RowsFollowed speaks of the time when the handlers have caught up.  Its  *)
(* invariant says of every row that either the last event of it that is    *)
(* still queued carries what the row has now (Says), or none is queued and *)
(* the members agree with the row (DbLinks, DbNames).  A link with an spi  *)
(* of its own keeps its one member because no other is put in its place    *)
(* (MembersFit).                                                           *)

Of(e, table, row) == e.table = table /\ e.row = row

\* The last event of a row in q carries v.
Says(q, table, row, v) ==
    \E i \in 1 .. Len(q) :
        /\ Of(q[i], table, row)
        /\ \A j \in i .. Len(q) : Of(q[j], table, row) => q[j].value = v

Silent(q, table, row) == \A i \in 1 .. Len(q) : ~Of(q[i], table, row)

DbEvent ==
    {e \in [table : {"link", "name", "gone"}, row : Links \cup Hosts, value : Hosts \cup {""} \cup Ips] :
        /\ e.table = "link" => e.row \in Links /\ e.value \in Hosts \cup {""}
        /\ e.table = "name" => e.row \in Hosts /\ e.value \in Ips}
DbMember == [link : EspLinks, spi : Nat, remote : Hosts, ip : Ips \cup {NoIp}]

DbTypes ==
    /\ rows \in [Links -> Hosts \cup {"", "none"}]
    /\ cached \in [Hosts -> Ips \cup {NoIp}] /\ dns \in [Hosts -> Ips \cup {NoIp}]
    /\ queue \in Seq(DbEvent) /\ members \in Seq(DbMember)
    /\ random \in Nat /\ random >= 100 /\ steady \subseteq Hosts
DbEarly ==
    open \in {"no", "connected", "handled"} => queue = <<>> /\ steady = {}

\* The spi of a member is that of its link, or a number of its own.
MembersFit(ms) ==
    /\ \A i \in DOMAIN ms :
         \/ ms[i].spi = SpiOf[ms[i].link]
         \/ SpiOf[ms[i].link] = 0 /\ ms[i].spi >= 100
    /\ \A i, j \in DOMAIN ms : ms[i].spi = ms[j].spi /\ ms[i].spi \in 1 .. 99 => i = j

ServedBy(ms, l, r) == \E i \in DOMAIN ms : ms[i].link = l /\ ms[i].remote = r
DbLinks ==
    open = "monitors" => \A l \in Links : rows[l] \in Hosts =>
        \/ Says(queue, "link", l, rows[l])
        \/ Silent(queue, "link", l) /\ (l \in EspLinks /\ Db!Alone(l) => ServedBy(members, l, rows[l]))
DbNames ==
    open = "monitors" => \A h \in Hosts :
        \/ Says(queue, "name", h, cached[h])
        \/ Silent(queue, "name", h) /\ (h \in steady => dns[h] = cached[h])

\* The members of a steady name have the address the DNS gives it.
DbIps ==
    \A h \in steady :
        /\ dns[h] \in Ips
        /\ \A i \in DOMAIN members :
             members[i].remote = h /\ members[i].link \in Addressed => members[i].ip = dns[h]

DbInv ==
    /\ DbTypes /\ DbEarly /\ MembersFit(members) /\ DbLinks /\ DbNames /\ DbIps /\ Db!StatesFollow

\* A step of a behaviour of this part is one of Confd.
LEMMA DbStep == part = "db" /\ [Next]_vars => part' = "db" /\ [Db!Next]_(Db!confdVars)
<1> SUFFICES ASSUME part = "db", [Next]_vars PROVE part' = "db" /\ [Db!Next]_(Db!confdVars)
  OBVIOUS
<1>1. CASE DbNext BY <1>1 DEF DbNext, OfDb
<1>2. CASE UNCHANGED vars BY <1>2 DEF vars, dbVars, Db!confdVars
<1>3. /\ ~WallNext /\ ~LanNext /\ ~VpnNext /\ ~TunNext /\ ~UserNext /\ ~TableNext
      /\ ~WebNext /\ ~FabNext /\ ~PrxNext
  BY DEF WallNext, LanNext, VpnNext, TunNext, UserNext, TableNext, WebNext, FabNext, PrxNext,
         OfWall, OfLan, OfVpn, OfTun, OfUser, OfTable, OfWeb, OfFab, OfPrx
<1> QED BY <1>1, <1>2, <1>3 DEF Next

\* An event more at the end of the queue.
LEMMA QueueAppend ==
    ASSUME NEW q \in Seq(DbEvent), NEW e \in DbEvent, NEW table, NEW row, NEW v
    PROVE  /\ Append(q, e) \in Seq(DbEvent)
           /\ Of(e, table, row) /\ e.value = v => Says(Append(q, e), table, row, v)
           /\ ~Of(e, table, row) /\ Says(q, table, row, v) => Says(Append(q, e), table, row, v)
           /\ ~Of(e, table, row) /\ Silent(q, table, row) => Silent(Append(q, e), table, row)
<1> DEFINE z == Append(q, e)
           end == Len(q) + 1
<1>1. /\ Len(z) = end /\ end \in Nat /\ z[end] = e /\ Len(q) \in Nat
      /\ \A i \in 1 .. Len(q) : z[i] = q[i] /\ i \in 1 .. end
      /\ \A i \in 1 .. end : i = end \/ i \in 1 .. Len(q)
      /\ end \in 1 .. end /\ (\A j \in end .. end : j = end)
  OBVIOUS
<1>2. ASSUME NEW i \in 1 .. Len(q), NEW j \in i .. end PROVE j = end \/ (j \in i .. Len(q) /\ z[j] = q[j])
  BY <1>1
<1> HIDE DEF z, end
<1>3. Of(e, table, row) /\ e.value = v => Says(z, table, row, v) BY <1>1 DEF Says
<1>4. ASSUME ~Of(e, table, row), Says(q, table, row, v) PROVE Says(z, table, row, v)
  <2>1. PICK i \in 1 .. Len(q) : /\ Of(q[i], table, row)
                                 /\ \A j \in i .. Len(q) : Of(q[j], table, row) => q[j].value = v
    BY <1>4 DEF Says
  <2>2. i \in 1 .. end /\ Of(z[i], table, row) BY <1>1, <2>1
  <2>3. \A j \in i .. end : Of(z[j], table, row) => z[j].value = v BY <1>1, <1>2, <1>4, <2>1
  <2> QED BY <1>1, <2>2, <2>3 DEF Says
<1>5. ~Of(e, table, row) /\ Silent(q, table, row) => Silent(z, table, row) BY <1>1 DEF Silent
<1>6. z \in Seq(DbEvent) BY DEF z
<1> QED BY <1>3, <1>4, <1>5, <1>6 DEF z

\* The first event of the queue has been handled.
LEMMA QueueTail ==
    ASSUME NEW q \in Seq(DbEvent), q # <<>>, NEW table, NEW row, NEW v
    PROVE  /\ Says(q, table, row, v) =>
                \/ Says(Tail(q), table, row, v)
                \/ Silent(Tail(q), table, row) /\ Of(Head(q), table, row) /\ Head(q).value = v
           /\ Silent(q, table, row) => Silent(Tail(q), table, row) /\ ~Of(Head(q), table, row)
<1> DEFINE z == Tail(q)
<1>1. /\ Len(q) \in Nat /\ Len(q) >= 1 /\ Head(q) = q[1] /\ Len(z) = Len(q) - 1 /\ Len(z) \in Nat
      /\ \A i \in 1 .. Len(z) : z[i] = q[i + 1] /\ i + 1 \in 1 .. Len(q)
      /\ \A i \in 1 .. Len(q) : i = 1 \/ (i - 1 \in 1 .. Len(z) /\ z[i - 1] = q[i])
      /\ 1 \in 1 .. Len(q)
  OBVIOUS
<1> HIDE DEF z
<1>2. ASSUME Silent(q, table, row) PROVE Silent(z, table, row) /\ ~Of(Head(q), table, row)
  BY <1>1, <1>2 DEF Silent
<1>3. ASSUME NEW i \in 1 .. Len(q), Of(q[i], table, row),
             \A j \in i .. Len(q) : Of(q[j], table, row) => q[j].value = v, i # 1
      PROVE  Says(z, table, row, v)
  <2>1. i - 1 \in 1 .. Len(z) /\ Of(z[i - 1], table, row) BY <1>1, <1>3
  <2>2. ASSUME NEW j \in i - 1 .. Len(z), Of(z[j], table, row) PROVE z[j].value = v
    <3>1. j \in 1 .. Len(z) /\ j + 1 \in i .. Len(q) /\ z[j] = q[j + 1] BY <1>1, <2>1
    <3> QED BY <1>3, <2>2, <3>1
  <2> QED BY <2>1, <2>2 DEF Says
<1>4. ASSUME Says(q, table, row, v), ~Says(z, table, row, v)
      PROVE  Silent(z, table, row) /\ Of(Head(q), table, row) /\ Head(q).value = v
  <2>1. PICK i \in 1 .. Len(q) : /\ Of(q[i], table, row)
                                 /\ \A j \in i .. Len(q) : Of(q[j], table, row) => q[j].value = v
    BY <1>4 DEF Says
  <2>2. i = 1 BY <1>3, <1>4, <2>1
  <2>3. Of(Head(q), table, row) /\ Head(q).value = v
    <3>1. 1 \in i .. Len(q) BY <1>1, <2>2
    <3> QED BY <1>1, <2>1, <2>2, <3>1
  <2>4. ASSUME NEW j \in 1 .. Len(z), Of(z[j], table, row) PROVE FALSE
    <3>1. j + 1 \in 1 .. Len(q) /\ q[j + 1] = z[j] /\ j + 1 # 1 BY <1>1
    <3>2. \A m \in j + 1 .. Len(q) : m \in i .. Len(q) BY <1>1, <2>2
    <3>3. Says(z, table, row, v)
      <4>1. Of(q[j + 1], table, row) BY <2>4, <3>1
      <4>2. \A m \in j + 1 .. Len(q) : Of(q[m], table, row) => q[m].value = v BY <2>1, <3>2
      <4> QED BY <1>3, <3>1, <4>1, <4>2
    <3> QED BY <1>4, <3>3
  <2>5. Silent(z, table, row) BY <2>4 DEF Silent
  <2> QED BY <2>3, <2>5
<1> QED BY <1>2, <1>4 DEF z

\* Correct: what it leaves of a member.
LEMMA Corrected ==
    ASSUME DbTypes, NEW ms \in Seq(DbMember)
    PROVE  LET cm == Db!Correct(ms) IN
           /\ cm \in Seq(DbMember) /\ DOMAIN cm = DOMAIN ms
           /\ \A i \in DOMAIN ms :
                /\ cm[i].link = ms[i].link /\ cm[i].remote = ms[i].remote
                /\ cm[i].spi = ms[i].spi \/ (ms[i].spi = 0 /\ cm[i].spi = random)
                /\ ms[i].link \in Addressed /\ dns[ms[i].remote] # NoIp => cm[i].ip = dns[ms[i].remote]
           /\ MembersFit(ms) => MembersFit(cm)
<1> DEFINE cm == Db!Correct(ms)
<1>1. DOMAIN cm = DOMAIN ms /\ DOMAIN ms = 1 .. Len(ms) /\ Len(ms) \in Nat BY DEF Db!Correct
<1>2. ASSUME NEW i \in DOMAIN ms
      PROVE  /\ cm[i] \in DbMember /\ cm[i].link = ms[i].link /\ cm[i].remote = ms[i].remote
             /\ cm[i].spi = ms[i].spi \/ (ms[i].spi = 0 /\ cm[i].spi = random)
             /\ ms[i].link \in Addressed /\ dns[ms[i].remote] # NoIp => cm[i].ip = dns[ms[i].remote]
  <2>4. ms[i] \in DbMember OBVIOUS
  <2>5. ms[i].remote \in Hosts BY <2>4 DEF DbMember
  <2>1. ms[i] \in DbMember /\ random \in Nat /\ dns[ms[i].remote] \in Ips \cup {NoIp}
    BY <2>4, <2>5 DEF DbTypes
  <2>2. CASE ms[i].link \notin Addressed
    <3>1. cm[i] = ms[i] BY <2>2 DEF Db!Correct
    <3> QED BY <2>1, <2>2, <3>1
  <2>3. CASE ms[i].link \in Addressed
    <3> DEFINE spi == IF ms[i].spi = 0 THEN random ELSE ms[i].spi
               ip == Db!LookupIP(ms[i])
    <3>1. cm[i] = [ms[i] EXCEPT !.ip = ip, !.spi = spi] BY <2>1, <2>3 DEF Db!Correct, DbMember
    <3>2. spi \in Nat /\ ip \in Ips \cup {NoIp} BY <2>1 DEF DbMember, Db!LookupIP
    <3>3. dns[ms[i].remote] # NoIp => ip = dns[ms[i].remote] BY DEF Db!LookupIP
    <3>4. spi = ms[i].spi \/ (ms[i].spi = 0 /\ spi = random) OBVIOUS
    <3> HIDE DEF spi, ip
    <3>5. /\ cm[i] \in DbMember /\ cm[i].link = ms[i].link /\ cm[i].remote = ms[i].remote
          /\ cm[i].spi = spi /\ cm[i].ip = ip
      BY <2>1, <3>1, <3>2 DEF DbMember
    <3> QED BY <3>3, <3>4, <3>5
  <2> QED BY <2>2, <2>3
<1> HIDE DEF cm
<1>3. cm \in Seq(DbMember)
  <2>1. cm = [i \in 1 .. Len(ms) |-> cm[i]] BY <1>1 DEF cm, Db!Correct
  <2> QED BY <1>1, <1>2, <2>1
<1>4. ASSUME MembersFit(ms) PROVE MembersFit(cm)
  <2>4. \A x \in Nat : x >= 100 => ~(x \in 1 .. 99) OBVIOUS
  <2>1. random >= 100 /\ ~(random \in 1 .. 99) BY <2>4 DEF DbTypes
  <2>2. ASSUME NEW i \in DOMAIN cm
        PROVE  cm[i].spi = SpiOf[cm[i].link] \/ (SpiOf[cm[i].link] = 0 /\ cm[i].spi >= 100)
    <3>1. CASE cm[i].spi = ms[i].spi BY <1>1, <1>2, <1>4, <3>1 DEF MembersFit
    <3>2. CASE ms[i].spi = 0 /\ cm[i].spi = random
      <4>1. ~(0 >= 100) OBVIOUS
      <4> QED BY <1>1, <1>2, <1>4, <2>1, <3>2, <4>1 DEF MembersFit
    <3> QED BY <1>1, <1>2, <3>1, <3>2
  <2>3. ASSUME NEW i \in DOMAIN cm, NEW j \in DOMAIN cm, cm[i].spi = cm[j].spi, cm[i].spi \in 1 .. 99
        PROVE  i = j
    <3>1. cm[i].spi = ms[i].spi /\ cm[j].spi = ms[j].spi BY ZenonT(60), <1>1, <1>2, <2>1, <2>3
    <3> QED BY <1>1, <1>4, <2>3, <3>1 DEF MembersFit
  <2> QED BY <2>2, <2>3 DEF MembersFit
<1> QED BY <1>1, <1>2, <1>3, <1>4 DEF cm

\* AddMember puts the link in the place of the members with its spi, or last.
LEMMA PutMember ==
    ASSUME NEW ms \in Seq(DbMember), MembersFit(ms), NEW l \in EspLinks, NEW r \in Hosts
    PROVE  LET pm == Db!Put(ms, Db!Member(l, SpiOf[l], r, NoIp)) IN
           /\ pm \in Seq(DbMember) /\ MembersFit(pm) /\ ServedBy(pm, l, r)
           /\ \A i \in DOMAIN ms : ms[i].spi # SpiOf[l] => i \in DOMAIN pm /\ pm[i] = ms[i]
<1> DEFINE m == Db!Member(l, SpiOf[l], r, NoIp)
           pm == Db!Put(ms, m)
<1>1. m \in DbMember /\ m.link = l /\ m.spi = SpiOf[l] /\ m.remote = r /\ SpiOf[l] \in 0 .. 99
  <2>1. SpiOf[l] \in 0 .. 99 BY DbAssumption
  <2>3. \A x \in 0 .. 99 : x \in Nat OBVIOUS
  <2>2. SpiOf[l] \in Nat BY <2>1, <2>3
  <2> QED BY <2>1, <2>2 DEF DbMember, Db!Member
<1>2. DOMAIN ms = 1 .. Len(ms) /\ Len(ms) \in Nat OBVIOUS
<1> HIDE DEF m
<1>3. CASE \E i \in DOMAIN ms : ms[i].spi = m.spi
  <2>1. pm = [i \in DOMAIN ms |-> IF ms[i].spi = m.spi THEN m ELSE ms[i]] BY <1>3 DEF Db!Put
  <2>2. DOMAIN pm = DOMAIN ms /\ \A i \in DOMAIN ms : pm[i] = IF ms[i].spi = m.spi THEN m ELSE ms[i]
    BY <2>1
  <2>3. pm \in Seq(DbMember) BY <1>1, <1>2, <2>1
  <2> HIDE DEF pm
  <2>4. \A i \in DOMAIN ms : pm[i].spi = ms[i].spi BY <2>2
  <2>5. ServedBy(pm, l, r) BY <1>1, <1>3, <2>2 DEF ServedBy
  <2>6. MembersFit(pm) BY <1>1, <2>2, <2>4 DEF MembersFit
  <2> QED BY <1>1, <2>2, <2>3, <2>5, <2>6 DEF pm, m
<1>4. CASE ~\E i \in DOMAIN ms : ms[i].spi = m.spi
  <2>1. pm = Append(ms, m) BY <1>4 DEF Db!Put
  <2>2. /\ pm \in Seq(DbMember) /\ DOMAIN pm = 1 .. Len(ms) + 1
        /\ \A i \in DOMAIN ms : i \in DOMAIN pm /\ pm[i] = ms[i]
        /\ pm[Len(ms) + 1] = m /\ Len(ms) + 1 \in DOMAIN pm
        /\ \A i \in DOMAIN pm : i \in DOMAIN ms \/ i = Len(ms) + 1
    BY <1>1, <1>2, <2>1
  <2> HIDE DEF pm
  <2>3. ServedBy(pm, l, r) BY <1>1, <2>2 DEF ServedBy
  <2>4. MembersFit(pm)
    <3>1. ASSUME NEW i \in DOMAIN pm
          PROVE  pm[i].spi = SpiOf[pm[i].link] \/ (SpiOf[pm[i].link] = 0 /\ pm[i].spi >= 100)
      BY <1>1, <2>2 DEF MembersFit
    <3>2. ASSUME NEW i \in DOMAIN pm, NEW j \in DOMAIN pm, pm[i].spi = pm[j].spi, pm[i].spi \in 1 .. 99
          PROVE  i = j
      BY <1>4, <2>2, <3>2 DEF MembersFit
    <3> QED BY <3>1, <3>2 DEF MembersFit
  <2> QED BY <2>2, <2>3, <2>4 DEF pm, m
<1> QED BY <1>3, <1>4

\* A row is written, and its event is queued once the database is monitored.
LEMMA DbWrite ==
    ASSUME DbInv, NEW e \in DbEvent, Db!Event(e),
           UNCHANGED <<open, dns, members, xfrm, random, steady>>,
           rows' \in [Links -> Hosts \cup {"", "none"}], cached' \in [Hosts -> Ips \cup {NoIp}],
           \A l \in Links : rows'[l] \in Hosts =>
               \/ rows'[l] = rows[l] /\ ~Of(e, "link", l)
               \/ Of(e, "link", l) /\ e.value = rows'[l],
           \A h \in Hosts :
               \/ cached'[h] = cached[h] /\ ~Of(e, "name", h)
               \/ Of(e, "name", h) /\ e.value = cached'[h]
    PROVE  DbInv'
<1>5. queue \in Seq(DbEvent) BY DEF DbInv, DbTypes
<1>6. Append(queue, e) \in Seq(DbEvent) BY <1>5, QueueAppend
<1>7. queue' \in Seq(DbEvent) /\ (open # "monitors" => queue' = queue)
  BY <1>5, <1>6 DEF Db!Event
<1>8. DbTypes' BY <1>7 DEF DbInv, DbTypes
<1>9. DbEarly' BY <1>7 DEF DbInv, DbEarly
<1>1. DbTypes' /\ DbEarly' BY <1>8, <1>9
<1>2. MembersFit(members)' /\ DbIps' /\ Db!StatesFollow'
  BY DEF DbInv, DbIps, Db!StatesFollow, MembersFit
<1>q. queue \in Seq(DbEvent) BY DEF DbInv, DbTypes
<1>3. DbLinks'
  <2> SUFFICES ASSUME open = "monitors", NEW l \in Links, rows'[l] \in Hosts
               PROVE  \/ Says(queue', "link", l, rows'[l])
                      \/ /\ Silent(queue', "link", l)
                         /\ l \in EspLinks /\ Db!Alone(l) => ServedBy(members, l, rows'[l])
    BY DEF DbLinks, Db!Alone
  <2>1. queue' = Append(queue, e) BY DEF Db!Event
  <2>2. CASE Of(e, "link", l) /\ e.value = rows'[l] BY <1>q, <2>1, <2>2, QueueAppend
  <2>3. CASE rows'[l] = rows[l] /\ ~Of(e, "link", l)
    <3>1. \/ Says(queue, "link", l, rows[l])
          \/ Silent(queue, "link", l) /\ (l \in EspLinks /\ Db!Alone(l) => ServedBy(members, l, rows[l]))
      BY <2>3 DEF DbInv, DbLinks
    <3> QED BY <1>q, <2>1, <2>3, <3>1, QueueAppend
  <2> QED BY <2>2, <2>3
<1>4. DbNames'
  <2> SUFFICES ASSUME open = "monitors", NEW h \in Hosts
               PROVE  \/ Says(queue', "name", h, cached'[h])
                      \/ Silent(queue', "name", h) /\ (h \in steady => dns[h] = cached'[h])
    BY DEF DbNames
  <2>1. queue' = Append(queue, e) BY DEF Db!Event
  <2>2. CASE Of(e, "name", h) /\ e.value = cached'[h] BY <1>q, <2>1, <2>2, QueueAppend
  <2>3. CASE cached'[h] = cached[h] /\ ~Of(e, "name", h)
    <3>1. \/ Says(queue, "name", h, cached[h])
          \/ Silent(queue, "name", h) /\ (h \in steady => dns[h] = cached[h])
      BY DEF DbInv, DbNames
    <3> QED BY <1>q, <2>1, <2>3, <3>1, QueueAppend
  <2> QED BY <2>2, <2>3
<1> QED BY <1>1, <1>2, <1>3, <1>4 DEF DbInv

LEMMA DbWriteLink ==
    ASSUME DbInv, NEW l \in Links, NEW r \in Db!Remotes, Db!WriteLink(l, r)
    PROVE  DbInv'
<1> DEFINE e == Db!LinkEvent(l, r)
<1>1. /\ rows' = [rows EXCEPT ![l] = r] /\ Db!Event(e)
      /\ UNCHANGED <<open, cached, dns, members, xfrm, random, steady>>
  BY DEF Db!WriteLink
<1>2. r \in Hosts \cup {""} BY DEF Db!Remotes
<1>3. e \in DbEvent /\ e.table = "link" /\ e.row = l /\ e.value = r
  BY <1>2 DEF Db!LinkEvent, DbEvent
<1>4. rows \in [Links -> Hosts \cup {"", "none"}] /\ cached \in [Hosts -> Ips \cup {NoIp}]
  BY DEF DbInv, DbTypes
<1>5. rows' \in [Links -> Hosts \cup {"", "none"}] BY <1>1, <1>2, <1>4
<1>6. rows'[l] = r /\ \A m \in Links \ {l} : rows'[m] = rows[m] BY <1>1, <1>4
<1> HIDE DEF e
<1>7. \A m \in Links : \/ rows'[m] = rows[m] /\ ~Of(e, "link", m)
                       \/ Of(e, "link", m) /\ e.value = rows'[m]
  BY <1>3, <1>6 DEF Of
<1>8. \A h \in Hosts : cached'[h] = cached[h] /\ ~Of(e, "name", h) BY <1>1, <1>3 DEF Of
<1>9. cached' \in [Hosts -> Ips \cup {NoIp}] BY <1>1, <1>4
<1> QED BY <1>1, <1>3, <1>5, <1>7, <1>8, <1>9, DbWrite

LEMMA DbDeleteLink ==
    ASSUME DbInv, NEW l \in Links, Db!DeleteLink(l)
    PROVE  DbInv'
<1> DEFINE e == Db!GoneEvent(l)
<1>1. /\ rows' = [rows EXCEPT ![l] = "none"] /\ Db!Event(e)
      /\ UNCHANGED <<open, cached, dns, members, xfrm, random, steady>>
  BY DEF Db!DeleteLink
<1>3. e \in DbEvent /\ e.table = "gone" BY DEF Db!GoneEvent, DbEvent
<1>4. rows \in [Links -> Hosts \cup {"", "none"}] /\ cached \in [Hosts -> Ips \cup {NoIp}]
  BY DEF DbInv, DbTypes
<1>5. rows' \in [Links -> Hosts \cup {"", "none"}] BY <1>1, <1>4
<1>6. rows'[l] = "none" /\ \A m \in Links \ {l} : rows'[m] = rows[m] BY <1>1, <1>4
<1> HIDE DEF e
<1>7. \A m \in Links : rows'[m] \in Hosts => rows'[m] = rows[m] /\ ~Of(e, "link", m)
  BY <1>3, <1>6, DbAssumption DEF Of
<1>8. \A h \in Hosts : cached'[h] = cached[h] /\ ~Of(e, "name", h) BY <1>1, <1>3 DEF Of
<1>9. cached' \in [Hosts -> Ips \cup {NoIp}] BY <1>1, <1>4
<1> QED BY <1>1, <1>3, <1>5, <1>7, <1>8, <1>9, DbWrite

LEMMA DbWriteName ==
    ASSUME DbInv, NEW h \in Hosts, NEW ip \in Ips, Db!WriteName(h, ip)
    PROVE  DbInv'
<1> DEFINE e == Db!NameEvent(h, ip)
<1>1. /\ cached' = [cached EXCEPT ![h] = ip] /\ Db!Event(e)
      /\ UNCHANGED <<open, rows, dns, members, xfrm, random, steady>>
  BY DEF Db!WriteName
<1>3. e \in DbEvent /\ e.table = "name" /\ e.row = h /\ e.value = ip
  BY DEF Db!NameEvent, DbEvent
<1>4. rows \in [Links -> Hosts \cup {"", "none"}] /\ cached \in [Hosts -> Ips \cup {NoIp}]
  BY DEF DbInv, DbTypes
<1>5. cached' \in [Hosts -> Ips \cup {NoIp}] BY <1>1, <1>4
<1>6. cached'[h] = ip /\ \A x \in Hosts \ {h} : cached'[x] = cached[x] BY <1>1, <1>4
<1> HIDE DEF e
<1>7. \A x \in Hosts : \/ cached'[x] = cached[x] /\ ~Of(e, "name", x)
                       \/ Of(e, "name", x) /\ e.value = cached'[x]
  BY <1>3, <1>6 DEF Of
<1>8. \A l \in Links : rows'[l] = rows[l] /\ ~Of(e, "link", l) BY <1>1, <1>3 DEF Of
<1>9. rows' \in [Links -> Hosts \cup {"", "none"}] BY <1>1, <1>4
<1> QED BY <1>1, <1>3, <1>5, <1>7, <1>8, <1>9, DbWrite

LEMMA DbResolves ==
    ASSUME DbInv, NEW h \in Hosts, NEW ip \in Ips \cup {NoIp}, Db!Resolves(h, ip)
    PROVE  DbInv'
<1>1. /\ dns' = [dns EXCEPT ![h] = ip] /\ steady' = steady \ {h}
      /\ UNCHANGED <<open, rows, cached, queue, members, xfrm, random>>
  BY DEF Db!Resolves
<1>2. DbTypes' /\ DbEarly' BY <1>1 DEF DbInv, DbTypes, DbEarly
<1>3. \A x \in steady' : x \in steady /\ dns'[x] = dns[x] BY <1>1 DEF DbInv, DbTypes
<1>4. DbIps' BY <1>1, <1>3 DEF DbInv, DbIps
<1>5. DbNames' BY <1>1, <1>3 DEF DbInv, DbNames
<1>6. DbLinks' BY <1>1 DEF DbInv, DbLinks, Db!Alone
<1>7. MembersFit(members)' /\ Db!StatesFollow' BY <1>1 DEF DbInv, Db!StatesFollow, MembersFit
<1> QED BY <1>2, <1>4, <1>5, <1>6, <1>7 DEF DbInv

\* The rows there are, in any order.
LEMMA DbRows ==
    ASSUME DbInv, NEW q \in Db!Orders(Db!Rows)
    PROVE  /\ q \in Seq(DbEvent)
           /\ \A l \in Links : rows[l] \in Hosts => Says(q, "link", l, rows[l])
           /\ \A h \in Hosts : Says(q, "name", h, cached[h]) \/ Silent(q, "name", h)
<1> DEFINE L == {l \in Links : rows[l] # "none"}
           H == {h \in Hosts : cached[h] # NoIp}
           EL == {Db!LinkEvent(l, rows[l]) : l \in L}
           EH == {Db!NameEvent(h, cached[h]) : h \in H}
<1>1. Db!Rows = EL \cup EH BY DEF Db!Rows
<1>2. IsFiniteSet(Db!Rows)
  <2>1. IsFiniteSet(L) /\ IsFiniteSet(H) BY DbAssumption, FS_Subset
  <2> DEFINE fl == [l \in L |-> Db!LinkEvent(l, rows[l])]
             fh == [h \in H |-> Db!NameEvent(h, cached[h])]
  <2>2. fl \in Surjection(L, EL) BY DEF Surjection
  <2>3. fh \in Surjection(H, EH) BY DEF Surjection
  <2>4. IsFiniteSet(EL) /\ IsFiniteSet(EH) BY <2>1, <2>2, <2>3, FS_Surjection
  <2> QED BY <1>1, <2>4, FS_Union
<1>3. Cardinality(Db!Rows) \in Nat BY <1>2, FS_CardinalityType
<1>4. /\ q \in [1 .. Cardinality(Db!Rows) -> Db!Rows] /\ Db!Range(q) = Db!Rows
  BY DEF Db!Orders, Cardinality, Db!Cardinality
<1>5. q \in Seq(Db!Rows) /\ DOMAIN q = 1 .. Len(q) /\ Len(q) \in Nat BY <1>3, <1>4
<1>6. /\ \A l \in Links : rows[l] \in Hosts \cup {"", "none"}
      /\ \A h \in Hosts : cached[h] \in Ips \cup {NoIp}
  BY DEF DbInv, DbTypes
<1>7. ASSUME NEW e \in Db!Rows
      PROVE  /\ e \in DbEvent
             /\ e.table = "link" => e.value = rows[e.row]
             /\ e.table = "name" => e.value = cached[e.row] /\ cached[e.row] # NoIp
  <2>1. ASSUME NEW l \in L, e = Db!LinkEvent(l, rows[l])
        PROVE  e \in DbEvent /\ e.table = "link" /\ e.value = rows[e.row]
    BY <1>6, <2>1 DEF Db!LinkEvent, DbEvent
  <2>2. ASSUME NEW h \in H, e = Db!NameEvent(h, cached[h])
        PROVE  /\ e \in DbEvent /\ e.table = "name" /\ e.value = cached[e.row]
               /\ cached[e.row] # NoIp
    BY <1>6, <2>2 DEF Db!NameEvent, DbEvent
  <2> QED BY <1>1, <2>1, <2>2
<1>8. q \in Seq(DbEvent) BY <1>5, <1>7
<1>9. \A i \in 1 .. Len(q) : q[i] \in Db!Rows BY <1>5
<1>10. \A e \in Db!Rows : \E i \in 1 .. Len(q) : q[i] = e BY <1>4, <1>5 DEF Db!Range
<1>a. \A i \in 1 .. Len(q) : \A j \in i .. Len(q) : j \in 1 .. Len(q) BY <1>5
<1>11. ASSUME NEW l \in Links, rows[l] \in Hosts PROVE Says(q, "link", l, rows[l])
  <2>1. l \in L BY <1>11, DbAssumption
  <2>2. Db!LinkEvent(l, rows[l]) \in Db!Rows BY <1>1, <2>1
  <2>3. PICK i \in 1 .. Len(q) : q[i] = Db!LinkEvent(l, rows[l]) BY <1>10, <2>2
  <2>4. Of(q[i], "link", l) BY <2>3 DEF Of, Db!LinkEvent
  <2>5. \A j \in i .. Len(q) : Of(q[j], "link", l) => q[j].value = rows[l] BY <1>7, <1>9, <1>a DEF Of
  <2> QED BY <2>4, <2>5 DEF Says
<1>12. ASSUME NEW h \in Hosts PROVE Says(q, "name", h, cached[h]) \/ Silent(q, "name", h)
  <2>1. CASE cached[h] # NoIp
    <3>1. Db!NameEvent(h, cached[h]) \in Db!Rows BY <1>1, <2>1
    <3>2. PICK i \in 1 .. Len(q) : q[i] = Db!NameEvent(h, cached[h]) BY <1>10, <3>1
    <3>3. Of(q[i], "name", h) BY <3>2 DEF Of, Db!NameEvent
    <3>4. \A j \in i .. Len(q) : Of(q[j], "name", h) => q[j].value = cached[h] BY <1>7, <1>9, <1>a DEF Of
    <3> QED BY <3>3, <3>4 DEF Says
  <2>2. CASE cached[h] = NoIp BY <1>7, <1>9, <2>2 DEF Silent, Of
  <2> QED BY <2>1, <2>2
<1> QED BY <1>8, <1>11, <1>12

\* Open, step by step, and the loss of the connection.
LEMMA DbOpens ==
    DbInv /\ (Db!Connect \/ Db!AddEventHandler \/ Db!MonitorAll \/ Db!Disconnect) => DbInv'
<1> SUFFICES ASSUME DbInv, Db!Connect \/ Db!AddEventHandler \/ Db!MonitorAll \/ Db!Disconnect
             PROVE  DbInv'
  OBVIOUS
<1>1. UNCHANGED <<rows, cached, dns, members, xfrm, random, steady>>
  BY DEF Db!Connect, Db!AddEventHandler, Db!MonitorAll, Db!Disconnect
<1>2. MembersFit(members)' /\ Db!StatesFollow' /\ DbIps'
  BY <1>1 DEF DbInv, Db!StatesFollow, MembersFit, DbIps
<1>3. CASE open' = "monitors"
  <2>1. open = "handled" /\ queue' \in Db!Orders(Db!Rows)
    BY <1>3 DEF Db!Connect, Db!AddEventHandler, Db!MonitorAll, Db!Disconnect, Db!Goes
  <2>2. steady = {} BY <2>1 DEF DbInv, DbEarly
  <2>3. DbTypes' BY <1>1, <2>1, DbRows DEF DbInv, DbTypes
  <2>4. DbEarly' BY <1>3 DEF DbEarly
  <2>5. DbLinks' BY <1>1, <2>1, DbRows DEF DbLinks
  <2>6. DbNames' BY <1>1, <2>1, <2>2, DbRows DEF DbNames
  <2> QED BY <1>2, <2>3, <2>4, <2>5, <2>6 DEF DbInv
<1>4. CASE open' # "monitors"
  <2>1. UNCHANGED queue
    BY <1>4 DEF Db!Connect, Db!AddEventHandler, Db!MonitorAll, Db!Disconnect, Db!Goes
  <2>2. open' \in {"connected", "handled"} => open \in {"no", "connected"}
    BY DEF Db!Connect, Db!AddEventHandler, Db!MonitorAll, Db!Disconnect, Db!Goes
  <2>3. open' # "no"
    BY DEF Db!Connect, Db!AddEventHandler, Db!MonitorAll, Db!Disconnect, Db!Goes
  <2>4. DbTypes' /\ DbEarly' BY <1>1, <2>1, <2>2, <2>3 DEF DbInv, DbTypes, DbEarly
  <2> QED BY <1>2, <1>4, <2>4 DEF DbInv, DbLinks, DbNames
<1> QED BY <1>3, <1>4

\* What the handler of an event does to the members: it puts the link of the
\* event among them, or looks them up again, or leaves them alone.
LEMMA DbHandles ==
    ASSUME DbInv, Db!Handle
    PROVE  LET e == Head(queue) IN
           \/ /\ e.table = "link" /\ e.row \in EspLinks /\ e.value \in Hosts
              /\ members' = Db!Correct(Db!Put(members, Db!Member(e.row, SpiOf[e.row], e.value, NoIp)))
              /\ Db!Reload(members') /\ random' = random + 1
           \/ /\ e.table = "name" /\ members' = Db!Correct(members)
              /\ Db!Reload(members') /\ random' = random + 1
           \/ /\ e.table = "link" => ~(e.row \in EspLinks /\ e.value \in Hosts)
              /\ e.table = "name" => \A i \in DOMAIN members : members[i].remote = e.row => members[i].ip = e.value
              /\ UNCHANGED <<members, xfrm, random>>
<1> DEFINE e == Head(queue)
<1>1. queue # <<>> /\ queue \in Seq(DbEvent) BY DEF Db!Handle, DbInv, DbTypes
<1>2. e \in DbEvent BY <1>1
<1>3. CASE Db!Handle /\ e.table = "link"
  <2>1. Db!AddMember(e.row, e.value) BY <1>3 DEF Db!Handle
  <2>2. e.value \in Hosts \cup {""} /\ "" \notin Hosts BY <1>2, <1>3, DbAssumption DEF DbEvent
  <2> QED BY <1>3, <2>1, <2>2 DEF Db!AddMember, Db!Changed
<1>4. CASE e.table = "name"
  <2>1. Db!UpdateName(e.row, e.value) BY <1>4 DEF Db!Handle
  <2>2. e.value # NoIp BY <1>2, <1>4, DbAssumption DEF DbEvent
  <2>3. \A i \in DOMAIN members : members[i] \in Db!Range(members) BY DEF Db!Range
  <2> QED BY <1>4, <2>1, <2>2, <2>3 DEF Db!UpdateName, Db!Changed
<1>5. CASE e.table \notin {"link", "name"} BY <1>5 DEF Db!Handle
<1> QED BY <1>3, <1>4, <1>5

LEMMA DbHandle == DbInv /\ Db!Handle => DbInv'
<1> SUFFICES ASSUME DbInv, Db!Handle PROVE DbInv'
  OBVIOUS
<1> DEFINE e == Head(queue)
<1>1. /\ queue # <<>> /\ queue' = Tail(queue) /\ UNCHANGED <<open, rows, cached, dns>>
      /\ steady' = IF e.table = "name" /\ dns[e.row] = e.value THEN steady \cup {e.row}
                   ELSE IF e.table = "name" THEN steady \ {e.row} ELSE steady
  BY DEF Db!Handle
<1>q. queue \in Seq(DbEvent) /\ members \in Seq(DbMember) /\ DbTypes BY DEF DbInv, DbTypes
<1>2. e \in DbEvent /\ Tail(queue) \in Seq(DbEvent) BY <1>1, <1>q
<1>e. e.table = "name" => e.row \in Hosts /\ e.value \in Ips BY <1>2 DEF DbEvent
<1> HIDE DEF e
<1>3. /\ members' \in Seq(DbMember) /\ MembersFit(members') /\ random' \in Nat /\ random' >= 100
      /\ Db!StatesFollow'
      /\ \A l \in EspLinks : \A r \in Hosts : Db!Alone(l) /\ ~Of(e, "link", l) /\ ServedBy(members, l, r)
                             => ServedBy(members', l, r)
      /\ \A l \in EspLinks : Of(e, "link", l) /\ e.value \in Hosts => ServedBy(members', l, e.value)
      /\ \A h \in steady' : \A i \in DOMAIN members' :
            members'[i].remote = h /\ members'[i].link \in Addressed /\ dns[h] # NoIp
            => members'[i].ip = dns[h]
  <2>c. ASSUME NEW ms \in Seq(DbMember), MembersFit(ms), members' = Db!Correct(ms),
               Db!Reload(members'), random' = random + 1
        PROVE  /\ members' \in Seq(DbMember) /\ MembersFit(members')
               /\ random' \in Nat /\ random' >= 100 /\ Db!StatesFollow'
               /\ \A l, r : ServedBy(ms, l, r) => ServedBy(members', l, r)
               /\ \A i \in DOMAIN members' : members'[i].link \in Addressed /\ dns[members'[i].remote] # NoIp
                                             => members'[i].ip = dns[members'[i].remote]
    <3>1. /\ members' \in Seq(DbMember) /\ DOMAIN members' = DOMAIN ms /\ MembersFit(members')
          /\ \A i \in DOMAIN ms :
               /\ members'[i].link = ms[i].link /\ members'[i].remote = ms[i].remote
               /\ ms[i].link \in Addressed /\ dns[ms[i].remote] # NoIp
                  => members'[i].ip = dns[ms[i].remote]
      BY <1>q, <2>c, Corrected
    <3>2. Db!StatesFollow' BY <2>c DEF Db!Reload, Db!StatesFollow
    <3>3. \A l, r : ServedBy(ms, l, r) => ServedBy(members', l, r) BY <3>1 DEF ServedBy
    <3>5. random \in Nat /\ random >= 100 BY <1>q DEF DbTypes
    <3>6. \A x \in Nat : x >= 100 => x + 1 \in Nat /\ x + 1 >= 100 OBVIOUS
    <3>4. random' \in Nat /\ random' >= 100 BY <2>c, <3>5, <3>6
    <3> QED BY <3>1, <3>2, <3>3, <3>4
  <2>f. MembersFit(members) BY DEF DbInv
  <2>1. CASE /\ e.table = "link" /\ e.row \in EspLinks /\ e.value \in Hosts
             /\ members' = Db!Correct(Db!Put(members, Db!Member(e.row, SpiOf[e.row], e.value, NoIp)))
             /\ Db!Reload(members') /\ random' = random + 1
    <3> DEFINE ms == Db!Put(members, Db!Member(e.row, SpiOf[e.row], e.value, NoIp))
    <3>1. /\ ms \in Seq(DbMember) /\ MembersFit(ms) /\ ServedBy(ms, e.row, e.value)
          /\ \A i \in DOMAIN members : members[i].spi # SpiOf[e.row] => i \in DOMAIN ms /\ ms[i] = members[i]
      BY <1>q, <2>1, <2>f, PutMember
    <3> HIDE DEF ms
    <3>2. members' = Db!Correct(ms) BY <2>1 DEF ms
    <3>3. ASSUME NEW l \in EspLinks, NEW r \in Hosts, Db!Alone(l), ~Of(e, "link", l), ServedBy(members, l, r)
          PROVE  ServedBy(ms, l, r)
      <4>1. PICK i \in DOMAIN members : members[i].link = l /\ members[i].remote = r
        BY <3>3 DEF ServedBy
      <4>2. members[i].spi = SpiOf[l] BY <2>f, <3>3, <4>1 DEF MembersFit, Db!Alone
      <4>3. SpiOf[e.row] # SpiOf[l] BY <2>1, <3>3 DEF Db!Alone, Of
      <4> QED BY <3>1, <4>1, <4>2, <4>3 DEF ServedBy
    <3>4. /\ members' \in Seq(DbMember) /\ MembersFit(members') /\ random' \in Nat /\ random' >= 100
          /\ Db!StatesFollow' /\ \A l, r : ServedBy(ms, l, r) => ServedBy(members', l, r)
          /\ \A i \in DOMAIN members' : members'[i].link \in Addressed /\ dns[members'[i].remote] # NoIp
                                        => members'[i].ip = dns[members'[i].remote]
      BY <2>1, <2>c, <3>1, <3>2
    <3> QED BY <3>1, <3>3, <3>4 DEF Of
  <2>2. CASE e.table = "name" /\ members' = Db!Correct(members) /\ Db!Reload(members') /\ random' = random + 1
    <3>1. /\ members' \in Seq(DbMember) /\ MembersFit(members') /\ random' \in Nat /\ random' >= 100
          /\ Db!StatesFollow' /\ \A l, r : ServedBy(members, l, r) => ServedBy(members', l, r)
          /\ \A i \in DOMAIN members' : members'[i].link \in Addressed /\ dns[members'[i].remote] # NoIp
                                        => members'[i].ip = dns[members'[i].remote]
      BY <1>q, <2>2, <2>c, <2>f
    <3> QED BY <2>2, <3>1 DEF Of
  <2>3. CASE /\ e.table = "link" => ~(e.row \in EspLinks /\ e.value \in Hosts)
             /\ e.table = "name" => \A i \in DOMAIN members : members[i].remote = e.row => members[i].ip = e.value
             /\ UNCHANGED <<members, xfrm, random>>
    <3>1. Db!StatesFollow' BY <2>3 DEF DbInv, Db!StatesFollow
    <3>2. ASSUME NEW h \in steady', NEW i \in DOMAIN members, members[i].remote = h,
                 members[i].link \in Addressed
          PROVE  members[i].ip = dns[h]
      <4>1. CASE h \in steady BY <3>2, <4>1 DEF DbInv, DbIps
      <4>2. CASE e.table = "name" /\ dns[e.row] = e.value /\ h = e.row BY <2>3, <3>2, <4>2
      <4> QED BY <1>1, <4>1, <4>2
    <3> QED BY <1>q, <2>3, <2>f, <3>1, <3>2 DEF DbTypes, Of
  <2> QED BY <2>1, <2>2, <2>3, DbHandles DEF e
<1>4. DbTypes'
  <2>1. steady' \subseteq Hosts BY <1>1, <1>e, <1>q DEF DbTypes
  <2> QED BY <1>1, <1>2, <1>3, <1>q, <2>1 DEF DbTypes
<1>5. DbEarly' BY <1>1 DEF DbInv, DbEarly
<1>6. DbLinks'
  <2> SUFFICES ASSUME open = "monitors", NEW l \in Links, rows[l] \in Hosts,
                      ~Says(queue', "link", l, rows[l])
               PROVE  /\ Silent(queue', "link", l)
                      /\ l \in EspLinks /\ Db!Alone(l) => ServedBy(members', l, rows[l])
    BY <1>1 DEF DbLinks, Db!Alone
  <2>1. CASE Says(queue, "link", l, rows[l])
    <3>1. Silent(queue', "link", l) /\ Of(e, "link", l) /\ e.value = rows[l]
      BY <1>1, <1>q, <2>1, QueueTail DEF e
    <3> QED BY <1>3, <3>1
  <2>2. CASE /\ Silent(queue, "link", l)
             /\ l \in EspLinks /\ Db!Alone(l) => ServedBy(members, l, rows[l])
    <3>1. Silent(queue', "link", l) /\ ~Of(e, "link", l) BY <1>1, <1>q, <2>2, QueueTail DEF e
    <3> QED BY <1>3, <2>2, <3>1
  <2> QED BY <2>1, <2>2 DEF DbInv, DbLinks
<1>7. DbNames'
  <2> SUFFICES ASSUME open = "monitors", NEW h \in Hosts, ~Says(queue', "name", h, cached[h])
               PROVE  Silent(queue', "name", h) /\ (h \in steady' => dns[h] = cached[h])
    BY <1>1 DEF DbNames
  <2>1. CASE Says(queue, "name", h, cached[h])
    <3>1. Silent(queue', "name", h) /\ Of(e, "name", h) /\ e.value = cached[h]
      BY <1>1, <1>q, <2>1, QueueTail DEF e
    <3> QED BY <1>1, <3>1 DEF Of
  <2>2. CASE Silent(queue, "name", h) /\ (h \in steady => dns[h] = cached[h])
    <3>1. Silent(queue', "name", h) /\ ~Of(e, "name", h) BY <1>1, <1>q, <2>2, QueueTail DEF e
    <3> QED BY <1>1, <2>2, <3>1 DEF Of
  <2> QED BY <2>1, <2>2 DEF DbInv, DbNames
<1>8. DbIps'
  <2>1. \A h \in steady' : dns[h] \in Ips BY <1>1, <1>e DEF DbInv, DbIps
  <2> QED BY <1>1, <1>3, <2>1, DbAssumption DEF DbIps
<1> QED BY <1>3, <1>4, <1>5, <1>6, <1>7, <1>8 DEF DbInv

LEMMA DbInvInit == Db!Init => DbInv
<1> SUFFICES ASSUME Db!Init PROVE DbInv
  OBVIOUS
<1>1. /\ open = "no" /\ queue = <<>> /\ members = <<>> /\ xfrm = {} /\ random = 100 /\ steady = {}
      /\ rows = [l \in Links |-> "none"] /\ cached = [h \in Hosts |-> NoIp]
      /\ dns \in [Hosts -> Ips \cup {NoIp}]
  BY DEF Db!Init
<1>2. <<>> \in Seq(DbEvent) /\ <<>> \in Seq(DbMember) /\ DOMAIN members = {} BY <1>1
<1>3. random \in Nat /\ random >= 100 BY <1>1
<1>4. DbTypes BY <1>1, <1>2, <1>3 DEF DbTypes
<1>5. Db!Range(members) = {} BY <1>2 DEF Db!Range
<1>6. MembersFit(members) BY <1>2 DEF MembersFit
<1>7. Db!StatesFollow BY <1>1, <1>5 DEF Db!StatesFollow
<1> QED BY <1>1, <1>4, <1>6, <1>7 DEF DbInv, DbEarly, DbLinks, DbNames, DbIps

LEMMA DbInvStep == DbInv /\ [Db!Next]_(Db!confdVars) => DbInv'
<1> SUFFICES ASSUME DbInv, [Db!Next]_(Db!confdVars) PROVE DbInv'
  OBVIOUS
<1>1. ASSUME NEW l \in Links, NEW r \in Db!Remotes, Db!WriteLink(l, r) PROVE DbInv'
  BY <1>1, DbWriteLink
<1>2. ASSUME NEW l \in Links, Db!DeleteLink(l) PROVE DbInv' BY <1>2, DbDeleteLink
<1>3. ASSUME NEW h \in Hosts, NEW ip \in Ips, Db!WriteName(h, ip) PROVE DbInv' BY <1>3, DbWriteName
<1>4. ASSUME NEW h \in Hosts, NEW ip \in Ips \cup {NoIp}, Db!Resolves(h, ip) PROVE DbInv'
  BY <1>4, DbResolves
<1>5. CASE Db!Connect \/ Db!AddEventHandler \/ Db!MonitorAll \/ Db!Disconnect BY <1>5, DbOpens
<1>6. CASE Db!Handle BY <1>6, DbHandle
<1>7. CASE UNCHANGED Db!confdVars
  BY <1>7 DEF Db!confdVars, DbInv, DbTypes, DbEarly, DbLinks, DbNames, DbIps, MembersFit,
     Db!StatesFollow, Db!Alone
<1> QED BY <1>1, <1>2, <1>3, <1>4, <1>5, <1>6, <1>7 DEF Db!Next

\* The invariant of the database client holds throughout.
LEMMA DbAlways == Spec => [](part = "db" => DbInv)
<1> DEFINE I == part = "db" => DbInv
<1>1. Init => I BY DbInvInit DEF Init, Only
<1>2. I /\ [Next]_vars => I'
  <2> SUFFICES ASSUME I, [Next]_vars, part' = "db" PROVE DbInv'
    OBVIOUS
  <2>1. part = "db" BY DEF Next, WallNext, LanNext, FabNext, VpnNext, UserNext, TableNext, WebNext,
         DbNext, PrxNext, TunNext, OfWall, OfLan, OfFab, OfVpn, OfUser, OfTable, OfWeb, OfDb, OfPrx,
         OfTun, vars
  <2> QED BY <2>1, DbStep, DbInvStep
<1> QED BY <1>1, <1>2, PTL DEF Spec

\* When the handlers have caught up, each link with an spi of its own is one
\* member, with its remote end, the members of a name have its address, and
\* at any time the kernel has the states of the members (RowsFollowed); for
\* any rows, in any order of the events.
THEOREM MembersFollow == Spec => []RowsFollowed
<1>1. (part = "db" => DbInv) => RowsFollowed
  <2> SUFFICES ASSUME DbInv PROVE Db!RowsFollowed
    BY DEF RowsFollowed
  <2>s. ASSUME Db!Settled
        PROVE  /\ open = "monitors" /\ \A t, row : Silent(queue, t, row)
               /\ \A t, row, v : ~Says(queue, t, row, v)
    <3>1. open = "monitors" /\ queue = <<>> BY <2>s DEF Db!Settled
    <3>2. Len(queue) = 0 /\ 1 .. 0 = {} BY <3>1
    <3> QED BY <3>1, <3>2 DEF Silent, Says
  <2>1. Db!LinksServed
    <3> SUFFICES ASSUME Db!Settled, NEW l \in EspLinks, Db!Alone(l), rows[l] \in Hosts
                 PROVE  /\ \E m \in Db!Range(members) : m.link = l /\ m.remote = rows[l]
                        /\ Db!Cardinality({i \in DOMAIN members : members[i].spi = SpiOf[l]}) = 1
      BY DEF Db!LinksServed
    <3>1. l \in Links BY DbAssumption
    <3>2. PICK i \in DOMAIN members : members[i].link = l /\ members[i].remote = rows[l]
      BY <2>s, <3>1 DEF DbInv, DbLinks, ServedBy
    <3>3. \E m \in Db!Range(members) : m.link = l /\ m.remote = rows[l] BY <3>2 DEF Db!Range
    <3>4. SpiOf[l] \in 1 .. 99
      <4>1. SpiOf[l] \in 0 .. 99 /\ SpiOf[l] # 0 BY <3>1, DbAssumption DEF Db!Alone
      <4>2. \A x \in 0 .. 99 : x # 0 => x \in 1 .. 99 OBVIOUS
      <4> QED BY <4>1, <4>2
    <3>5. members[i].spi = SpiOf[l] BY <3>2 DEF DbInv, MembersFit, Db!Alone
    <3>6. {j \in DOMAIN members : members[j].spi = SpiOf[l]} = {i}
      BY <3>4, <3>5 DEF DbInv, MembersFit
    <3>7. Cardinality({i}) = 1 BY FS_Singleton
    <3>8. \A S : Db!Cardinality(S) = Cardinality(S) BY DEF Cardinality, Db!Cardinality
    <3> QED BY <3>3, <3>6, <3>7, <3>8
  <2>2. Db!NamesFollowed
    <3> SUFFICES ASSUME Db!Settled, NEW h \in steady, NEW m \in Db!Range(members), m.remote = h,
                        m.link \in Addressed
                 PROVE  m.ip = cached[h]
      BY DEF Db!NamesFollowed
    <3>1. h \in Hosts BY DEF DbInv, DbTypes
    <3>2. dns[h] = cached[h] BY <2>s, <3>1 DEF DbInv, DbNames
    <3>3. PICK i \in DOMAIN members : m = members[i] BY DEF Db!Range
    <3> QED BY <3>2, <3>3 DEF DbInv, DbIps
  <2> QED BY <2>1, <2>2 DEF DbInv, Db!RowsFollowed
<1> QED BY <1>1, DbAlways, PTL

----------------------------------------------------------------------------
(* The worker of an OpenLAN network.                                       *)
(*                                                                         *)
(* A point dials what its configuration file says (LanConf); a file goes   *)
(* only when its link is stopped, which kills a listed point first.  After *)
(* a Stop that found every promise kept, the routes that are left are      *)
(* those that UnLoadRoutes has still to delete (LanLeft).                  *)

LanPlace ==
    /\ at = "links" => n <= Len(Conns) + 1
    /\ at = "unroute" => n <= Len(Routes) + 1
    /\ \A u \in Lan!UUIDs : point[u] # "none" => lin >= 1
LanConf == \A u \in Lan!UUIDs : <<u, "conf">> \in files => conf[u] = Conns[u]
LanPeer == ~Peer => ~peer.veth /\ peer.promise = "none"
LanLeft ==
    settled =>
        /\ at \in {"unroute", "unlink", "stopped"}
        /\ (\A r \in Lan!RIds : promise[r] # "try") /\ peer.promise # "try"
        /\ at = "unroute" => \A r \in routes : r >= n
        /\ at # "unroute" => routes = {}
        /\ at = "stopped" => ~peer.veth /\ ~address
LanInv ==
    /\ Lan!TypeOK /\ LanPlace /\ LanConf /\ LanPeer /\ LanLeft /\ Lan!DialsOwn /\ Lan!PidKept

\* A step of a behaviour of this part is one of OpenLANWorker.
LEMMA LanStep == part = "lan" /\ [Next]_vars => part' = "lan" /\ [Lan!Next]_(Lan!oVars)
<1> SUFFICES ASSUME part = "lan", [Next]_vars PROVE part' = "lan" /\ [Lan!Next]_(Lan!oVars)
  OBVIOUS
<1>1. CASE LanNext BY <1>1 DEF LanNext, OfLan
<1>2. CASE UNCHANGED vars BY <1>2 DEF vars, lanVars, Lan!oVars
<1>3. /\ ~WallNext /\ ~DbNext /\ ~VpnNext /\ ~TunNext /\ ~UserNext /\ ~TableNext
      /\ ~WebNext /\ ~FabNext /\ ~PrxNext
  BY DEF WallNext, DbNext, VpnNext, TunNext, UserNext, TableNext, WebNext, FabNext, PrxNext,
         OfWall, OfDb, OfVpn, OfTun, OfUser, OfTable, OfWeb, OfFab, OfPrx
<1> QED BY <1>1, <1>2, <1>3 DEF Next

\* What the assumption says of the places in the sequences.
LEMMA LanSizes ==
    /\ Len(Conns) \in Nat /\ Lan!UUIDs = 1 .. Len(Conns)
    /\ Len(Routes) \in Nat /\ Lan!RIds = 1 .. Len(Routes)
    /\ \A u \in Lan!UUIDs : Conns[u] \in Lan!Range(Conns)
BY LanAssumption DEF Lan!UUIDs, Lan!RIds, Lan!Range

LEMMA LanInvInit == Lan!Init => LanInv
<1> SUFFICES ASSUME Lan!Init PROVE LanInv
  OBVIOUS
<1> USE LanSizes DEF Lan!Init
<1>1. Lan!TypeOK
  <2>1. DOMAIN links = {} /\ Lan!Range(links) = {} BY DEF Lan!Range
  <2>2. at \in Lan!Places /\ n \in 1 .. Len(Conns) + Len(Routes) + 1 /\ lin \in 0 .. Len(Conns)
    BY DEF Lan!Places
  <2>3. /\ conf \in [Lan!UUIDs -> Lan!Range(Conns) \cup {Lan!NoConn}]
        /\ dials \in [Lan!UUIDs -> Lan!Range(Conns) \cup {Lan!NoConn}]
        /\ point \in [Lan!UUIDs -> Lan!Alive \cup {"none", "forked", "exec", "lost", "dead"}]
    BY DEF Lan!NoConn
  <2>4. promise \in [Lan!RIds -> {"none", "try", "done"}] /\ routes \subseteq Lan!RIds OBVIOUS
  <2>5. peer \in [br : BOOLEAN, veth : BOOLEAN, promise : {"none", "try", "done"}] OBVIOUS
  <2>6. left = {} /\ files = {} /\ address = FALSE /\ settled = FALSE OBVIOUS
  <2> QED BY <2>1, <2>2, <2>3, <2>4, <2>5, <2>6 DEF Lan!TypeOK
<1>2. LanPlace /\ LanConf /\ LanPeer /\ LanLeft BY DEF LanPlace, LanConf, LanPeer, LanLeft
<1>3. Lan!DialsOwn /\ Lan!PidKept BY DEF Lan!DialsOwn, Lan!PidKept, Lan!Alive
<1> QED BY <1>1, <1>2, <1>3 DEF LanInv

\* Start: the bridge, the links, the routes.
LEMMA LanStarts ==
    ASSUME LanInv, Lan!UpBridge \/ Lan!AddLink \/ Lan!LoadRoutes
    PROVE  LanInv'
<1> USE LanSizes DEF LanInv
<1>1. CASE Lan!UpBridge
  <2> USE <1>1 DEF Lan!UpBridge, Lan!linkVars, Lan!routeVars
  <2>1. Lan!TypeOK'
    <3>1. at' \in Lan!Places /\ n' \in 1 .. Len(Conns) + Len(Routes) + 1 BY DEF Lan!Places
    <3>2. peer' \in [br : BOOLEAN, veth : BOOLEAN, promise : {"none", "try", "done"}]
      BY DEF Lan!TypeOK
    <3> QED BY <3>1, <3>2 DEF Lan!TypeOK
  <2>2. LanPlace' /\ LanConf' /\ LanPeer' BY DEF LanPlace, LanConf, LanPeer, Lan!TypeOK
  <2>3. LanLeft' BY DEF LanLeft
  <2>4. Lan!DialsOwn' /\ Lan!PidKept' BY DEF Lan!DialsOwn, Lan!PidKept
  <2> QED BY <2>1, <2>2, <2>3, <2>4
<1>2. CASE Lan!AddLink
  <2> USE <1>2 DEF Lan!AddLink, Lan!routeVars
  <2>1. n \in Lan!UUIDs /\ n' = n + 1 /\ lin' = n /\ at = "links" /\ at' = at BY DEF Lan!TypeOK
  <2>2. PICK st \in {"forked", "none"} : point' = [point EXCEPT ![n] = st] OBVIOUS
  <2>3. /\ \A u \in Lan!UUIDs : point'[u] = IF u = n THEN st ELSE point[u]
        /\ \A u \in Lan!UUIDs : conf'[u] = IF u = n THEN Conns[n] ELSE conf[u]
    BY <2>2 DEF Lan!TypeOK
  <2>4. DOMAIN links' \subseteq Lan!Range(Conns) /\ Lan!Range(links') \subseteq Lan!UUIDs
    <3>1. DOMAIN links' = DOMAIN links \cup {Conns[n]} OBVIOUS
    <3>2. \A c \in DOMAIN links' : links'[c] = (IF c = Conns[n] THEN n ELSE links[c]) OBVIOUS
    <3>3. \A c \in DOMAIN links' : links'[c] \in Lan!UUIDs
      BY <2>1, <3>1, <3>2 DEF Lan!TypeOK, Lan!Range
    <3>4. DOMAIN links \subseteq Lan!Range(Conns) BY DEF Lan!TypeOK
    <3>5. DOMAIN links' \subseteq Lan!Range(Conns) BY <2>1, <3>1, <3>4
    <3>6. Lan!Range(links') \subseteq Lan!UUIDs BY <3>3 DEF Lan!Range
    <3> QED BY <3>5, <3>6
  <2>5. Lan!TypeOK'
    <3>1. n' \in 1 .. Len(Conns) + Len(Routes) + 1 /\ lin' \in 0 .. Len(Conns) BY <2>1
    <3>2. point' \in [Lan!UUIDs -> Lan!Alive \cup {"none", "forked", "exec", "lost", "dead"}]
      BY <2>2 DEF Lan!TypeOK
    <3>3. conf' \in [Lan!UUIDs -> Lan!Range(Conns) \cup {Lan!NoConn}] BY <2>1 DEF Lan!TypeOK
    <3>4. files' \subseteq Lan!UUIDs \X {"conf", "pid"} BY <2>1 DEF Lan!TypeOK
    <3> QED BY <2>4, <3>1, <3>2, <3>3, <3>4 DEF Lan!TypeOK
  <2>6. LanPlace' BY <2>1, <2>3 DEF LanPlace
  <2>7. LanConf' BY <2>1, <2>3 DEF LanConf
  <2>8. LanPeer' /\ LanLeft' BY <2>1 DEF LanPeer, LanLeft
  <2>9. Lan!DialsOwn' /\ Lan!PidKept' BY <2>2, <2>3 DEF Lan!DialsOwn, Lan!PidKept, Lan!Alive
  <2> QED BY <2>5, <2>6, <2>7, <2>8, <2>9
<1>3. CASE Lan!LoadRoutes
  <2> USE <1>3 DEF Lan!LoadRoutes, Lan!linkVars
  <2>1. Lan!TypeOK' BY DEF Lan!TypeOK, Lan!Places
  <2>2. LanPlace' /\ LanConf' /\ LanPeer' BY DEF LanPlace, LanConf, LanPeer
  <2>3. LanLeft' BY DEF LanLeft
  <2>4. Lan!DialsOwn' /\ Lan!PidKept' BY DEF Lan!DialsOwn, Lan!PidKept
  <2> QED BY <2>1, <2>2, <2>3, <2>4
<1> QED BY <1>1, <1>2, <1>3

\* The promises and the peer.
LEMMA LanPromises ==
    ASSUME LanInv, (\E r \in Lan!RIds : Lan!RouteAdd(r)) \/ Lan!ConnectPeer \/ Lan!PeerUp
    PROVE  LanInv'
<1> USE LanSizes DEF LanInv
<1>1. ASSUME NEW r \in Lan!RIds, Lan!RouteAdd(r) PROVE LanInv'
  <2> USE <1>1 DEF Lan!RouteAdd, Lan!linkVars
  <2>1. Lan!TypeOK' BY DEF Lan!TypeOK
  <2>2. LanPlace' /\ LanConf' /\ LanPeer' BY DEF LanPlace, LanConf, LanPeer
  <2>3. LanLeft' BY DEF LanLeft
  <2>4. Lan!DialsOwn' /\ Lan!PidKept' BY DEF Lan!DialsOwn, Lan!PidKept
  <2> QED BY <2>1, <2>2, <2>3, <2>4
<1>2. CASE Lan!ConnectPeer
  <2> USE <1>2 DEF Lan!ConnectPeer, Lan!linkVars, Lan!routeVars
  <2>1. Lan!TypeOK' BY DEF Lan!TypeOK
  <2>2. LanPlace' /\ LanConf' /\ LanPeer' BY DEF LanPlace, LanConf, LanPeer
  <2>3. LanLeft' BY DEF LanLeft
  <2>4. Lan!DialsOwn' /\ Lan!PidKept' BY DEF Lan!DialsOwn, Lan!PidKept
  <2> QED BY <2>1, <2>2, <2>3, <2>4
<1>3. CASE Lan!PeerUp
  <2> USE <1>3 DEF Lan!PeerUp, Lan!linkVars, Lan!routeVars
  <2>0. peer'.veth = peer.veth /\ peer'.promise = peer.promise BY DEF Lan!TypeOK
  <2>1. Lan!TypeOK' BY DEF Lan!TypeOK
  <2>2. LanPlace' /\ LanConf' /\ LanPeer' BY <2>0 DEF LanPlace, LanConf, LanPeer
  <2>3. LanLeft' BY <2>0 DEF LanLeft
  <2>4. Lan!DialsOwn' /\ Lan!PidKept' BY DEF Lan!DialsOwn, Lan!PidKept
  <2> QED BY <2>1, <2>2, <2>3, <2>4
<1> QED BY <1>1, <1>2, <1>3

\* The processes of the links.
LEMMA LanProcesses ==
    ASSUME LanInv, NEW u \in Lan!UUIDs,
           Lan!LinkRun(u) \/ Lan!PointLoads(u) \/ Lan!PointLists(u) \/ Lan!PointEnds(u)
    PROVE  LanInv'
<1> USE LanSizes DEF LanInv
<1>1. UNCHANGED <<at, n, lin, links, left, conf, routes, promise, address, peer, settled>>
  BY DEF Lan!LinkRun, Lan!PointLoads, Lan!PointLists, Lan!PointEnds, Lan!routeVars
<1>2. point[u] # "none"
  BY DEF Lan!LinkRun, Lan!PointLoads, Lan!PointLists, Lan!PointEnds
<1>3. lin \in 1 .. Len(Conns) /\ Conns[lin] \in Lan!Range(Conns) BY <1>2 DEF LanPlace, Lan!TypeOK
<1>4. \A v \in Lan!UUIDs : v # u => point'[v] = point[v] /\ dials'[v] = dials[v]
  BY DEF Lan!LinkRun, Lan!PointLoads, Lan!PointLists, Lan!PointEnds, Lan!TypeOK
<1>5. files' = files \/ (files' = files \cup {<<u, "pid">>} /\ point'[u] = "listed")
  BY DEF Lan!LinkRun, Lan!PointLoads, Lan!PointLists, Lan!PointEnds, Lan!TypeOK
<1>6. Lan!TypeOK'
  <2>1. dials' \in [Lan!UUIDs -> Lan!Range(Conns) \cup {Lan!NoConn}]
    <3>1. CASE Lan!LinkRun(u) BY <1>3, <3>1 DEF Lan!LinkRun, Lan!TypeOK
    <3>2. CASE Lan!PointLoads(u)
      <4>1. Lan!Loaded(u) \in Lan!Range(Conns) \cup {Lan!NoConn} BY DEF Lan!Loaded, Lan!TypeOK
      <4> QED BY <3>2, <4>1 DEF Lan!PointLoads, Lan!TypeOK
    <3>3. CASE dials' = dials BY <3>3 DEF Lan!TypeOK
    <3> QED BY <3>1, <3>2, <3>3 DEF Lan!PointLists, Lan!PointEnds
  <2>2. point' \in [Lan!UUIDs -> Lan!Alive \cup {"none", "forked", "exec", "lost", "dead"}]
    <3>1. PICK s \in Lan!Alive \cup {"exec", "lost", "dead"} : point' = [point EXCEPT ![u] = s]
      <4>1. CASE Lan!LinkRun(u) BY <4>1 DEF Lan!LinkRun
      <4>2. CASE Lan!PointLoads(u) BY <4>2 DEF Lan!PointLoads, Lan!Alive
      <4>3. CASE Lan!PointLists(u) BY <4>3 DEF Lan!PointLists, Lan!Alive
      <4>4. CASE Lan!PointEnds(u) BY <4>4 DEF Lan!PointEnds
      <4> QED BY <4>1, <4>2, <4>3, <4>4
    <3>2. point \in [Lan!UUIDs -> Lan!Alive \cup {"none", "forked", "exec", "lost", "dead"}]
      BY DEF Lan!TypeOK
    <3> QED BY <3>1, <3>2
  <2> QED BY <1>1, <1>5, <2>1, <2>2 DEF Lan!TypeOK
<1>7. LanPlace' BY <1>1, <1>3 DEF LanPlace
<1>8. LanConf' BY <1>1, <1>5 DEF LanConf
<1>9. LanPeer' /\ LanLeft' BY <1>1 DEF LanPeer, LanLeft
<1>10. point'[u] \in Lan!Alive => dials'[u] = Conns[u]
  BY DEF Lan!LinkRun, Lan!PointLoads, Lan!PointLists, Lan!PointEnds, Lan!Loaded, Lan!Alive,
         Lan!TypeOK, LanConf, Lan!DialsOwn
<1>11. Lan!DialsOwn' BY <1>4, <1>10 DEF Lan!DialsOwn
<1>12. point'[u] = "listed" => <<u, "pid">> \in files'
  BY DEF Lan!LinkRun, Lan!PointLoads, Lan!PointLists, Lan!PointEnds, Lan!TypeOK, Lan!PidKept
<1>13. Lan!PidKept' BY <1>4, <1>5, <1>12 DEF Lan!PidKept
<1> QED BY <1>6, <1>7, <1>8, <1>9, <1>11, <1>13

\* Stop: the routes, the links, the bridge.
LEMMA LanStops ==
    ASSUME LanInv, \/ Lan!Stop \/ Lan!UnLoadRoute \/ Lan!RoutesUnloaded \/ Lan!DownBridge
                   \/ \E u \in Lan!UUIDs : Lan!LinkStop(u)
    PROVE  LanInv'
<1> USE LanSizes DEF LanInv
<1>1. CASE Lan!Stop
  <2> USE <1>1 DEF Lan!Stop, Lan!linkVars, Lan!routeVars
  <2>1. Lan!TypeOK'
    <3>1. at' \in Lan!Places /\ n' \in 1 .. Len(Conns) + Len(Routes) + 1 BY DEF Lan!Places
    <3>2. settled' \in BOOLEAN BY Zenon
    <3> QED BY Zenon, <3>1, <3>2 DEF Lan!TypeOK
  <2>2. LanPlace' /\ LanConf' /\ LanPeer' BY DEF LanPlace, LanConf, LanPeer
  <2>3. LanLeft'
    <3>1. settled' => (\A r \in Lan!RIds : promise[r] # "try") /\ peer.promise # "try"
      BY DEF Lan!Range, Lan!TypeOK
    <3>2. \A r \in routes : r >= 1 BY DEF Lan!TypeOK
    <3> QED BY <3>1, <3>2 DEF LanLeft
  <2>4. Lan!DialsOwn' /\ Lan!PidKept' BY DEF Lan!DialsOwn, Lan!PidKept
  <2> QED BY <2>1, <2>2, <2>3, <2>4
<1>2. CASE Lan!UnLoadRoute
  <2> USE <1>2 DEF Lan!UnLoadRoute, Lan!linkVars, Lan!Deleted
  <2>0. n \in Nat /\ n' = n + 1 /\ n <= Len(Routes) BY DEF Lan!TypeOK
  <2>1. Lan!TypeOK' BY <2>0 DEF Lan!TypeOK, Lan!Places
  <2>2. LanPlace' /\ LanConf' /\ LanPeer' BY <2>0 DEF LanPlace, LanConf, LanPeer
  <2>3. LanLeft'
    <3>1. ASSUME settled, NEW r \in routes \ {n} PROVE r >= n + 1
      BY <2>0, <3>1 DEF LanLeft, Lan!TypeOK
    <3> QED BY <2>0, <3>1 DEF LanLeft
  <2>4. Lan!DialsOwn' /\ Lan!PidKept' BY DEF Lan!DialsOwn, Lan!PidKept
  <2> QED BY <2>1, <2>2, <2>3, <2>4
<1>3. CASE Lan!RoutesUnloaded
  <2> USE <1>3 DEF Lan!RoutesUnloaded, Lan!routeVars
  <2>1. Lan!TypeOK' BY DEF Lan!TypeOK, Lan!Places
  <2>2. LanPlace' /\ LanConf' /\ LanPeer' BY DEF LanPlace, LanConf, LanPeer
  <2>3. LanLeft'
    <3>1. settled => routes = {} BY DEF LanLeft, Lan!TypeOK
    <3> QED BY <3>1 DEF LanLeft
  <2>4. Lan!DialsOwn' /\ Lan!PidKept' BY DEF Lan!DialsOwn, Lan!PidKept
  <2> QED BY <2>1, <2>2, <2>3, <2>4
<1>4. CASE Lan!DownBridge
  <2> USE <1>4 DEF Lan!DownBridge, Lan!linkVars, Lan!routeVars
  <2>0. peer'.promise = peer.promise /\ ~peer'.veth BY DEF Lan!TypeOK, LanPeer
  <2>1. Lan!TypeOK' BY <2>0 DEF Lan!TypeOK, Lan!Places
  <2>2. LanPlace' /\ LanConf' /\ LanPeer' BY <2>0 DEF LanPlace, LanConf, LanPeer
  <2>3. LanLeft' BY <2>0 DEF LanLeft
  <2>4. Lan!DialsOwn' /\ Lan!PidKept' BY DEF Lan!DialsOwn, Lan!PidKept
  <2> QED BY <2>1, <2>2, <2>3, <2>4
<1>5. ASSUME NEW u \in Lan!UUIDs, Lan!LinkStop(u) PROVE LanInv'
  <2> USE <1>5 DEF Lan!LinkStop, Lan!routeVars
  <2>0. /\ \A v \in Lan!UUIDs : point'[v] = point[v] \/ (point'[v] = "dead" /\ v = u)
        /\ point[u] = "listed" => point'[u] = "dead"
        /\ point' \in [Lan!UUIDs -> Lan!Alive \cup {"none", "forked", "exec", "lost", "dead"}]
        /\ point'[u] # "none" => point[u] # "none"
    BY DEF Lan!Killed, Lan!TypeOK, Lan!PidKept, Lan!Alive
  <2>1. Lan!TypeOK' BY <2>0 DEF Lan!TypeOK, Lan!Places
  <2>2. LanPlace' /\ LanConf' /\ LanPeer' BY <2>0 DEF LanPlace, LanConf, LanPeer
  <2>3. LanLeft' BY DEF LanLeft
  <2>4. Lan!DialsOwn' BY <2>0 DEF Lan!DialsOwn, Lan!Alive
  <2>5. Lan!PidKept' BY <2>0 DEF Lan!PidKept
  <2> QED BY <2>1, <2>2, <2>3, <2>4, <2>5
<1> QED BY <1>1, <1>2, <1>3, <1>4, <1>5

LEMMA LanInvStep == LanInv /\ [Lan!Next]_(Lan!oVars) => LanInv'
<1> SUFFICES ASSUME LanInv, [Lan!Next]_(Lan!oVars) PROVE LanInv'
  OBVIOUS
<1>1. CASE UNCHANGED Lan!oVars
  BY <1>1 DEF Lan!oVars, LanInv, Lan!TypeOK, LanPlace, LanConf, LanPeer, LanLeft,
     Lan!DialsOwn, Lan!PidKept
<1> QED BY <1>1, LanStarts, LanPromises, LanProcesses, LanStops DEF Lan!Next

\* The invariant of this part holds of the switch.
LEMMA LanAlways == Spec => [](part = "lan" => LanInv)
<1> DEFINE I == part = "lan" => LanInv
<1>1. Init => I BY LanInvInit DEF Init, Only
<1>2. I /\ [Next]_vars => I'
  <2> SUFFICES ASSUME I, [Next]_vars, part' = "lan" PROVE LanInv'
    OBVIOUS
  <2>1. part = "lan" BY DEF Next, WallNext, LanNext, FabNext, VpnNext, UserNext, TableNext, WebNext,
         DbNext, PrxNext, TunNext, OfWall, OfLan, OfFab, OfVpn, OfUser, OfTable, OfWeb, OfDb, OfPrx,
         OfTun, vars
  <2> QED BY <2>1, LanStep, LanInvStep
<1> QED BY <1>1, <1>2, PTL DEF Spec

\* openlan.go and link.go: every point of a link dials the connection of its
\* own link and keeps its pid file, whenever the goroutines of the links run
\* and points end, and a Stop that found no promise pending leaves no route, no
\* pair and no address in the kernel; for any links and routes.
THEOREM LinksKept ==
    Spec => [](part = "lan" => Lan!DialsOwn /\ Lan!PidKept /\ Lan!KernelCleared)
<1>1. (part = "lan" => LanInv) => (part = "lan" => Lan!DialsOwn /\ Lan!PidKept /\ Lan!KernelCleared)
  BY DEF LanInv, LanLeft, Lan!KernelCleared
<1> QED BY <1>1, LanAlways, PTL

----------------------------------------------------------------------------
(* The management server.                                                  *)
(*                                                                         *)
(* The file is empty or holds the token written last (WebToken), and the   *)
(* token is not made up or written again once it is saved.  A server that  *)
(* is shut stays shut, so that no request comes in after main has seen     *)
(* none under way (WebStop).  A start makes up one token at most, which    *)
(* keeps the numbers of the tokens in their bounds (WebFresh).             *)

WebToken ==
    /\ tokenFile \in {0, known}
    /\ saved => tokenFile = admin /\ boot \notin {"go", "load", "open", "write"}
WebStop ==
    /\ main \in {"waits", "server", "workers", "stopped"} => server = "shut"
    /\ main \in {"firewall", "shutdown", "waits"} => told \cup missed = Points
WebReq ==
    /\ DOMAIN req = Requests
    /\ \A r \in Requests : "at" \in DOMAIN req[r]
WebFresh ==
    /\ fresh <= webStarts + (IF boot \in {"go", "load"} THEN 1 ELSE 2)
    /\ admin < fresh /\ tokenFile < fresh /\ known < fresh
WebInv ==
    /\ Web!TypeOK /\ WebToken /\ WebStop /\ WebReq /\ WebFresh
    /\ Web!TokenSurvives /\ Web!QuietStop

\* A step of a behaviour of this part is one of HttpServer.
LEMMA WebStep == part = "web" /\ [Next]_vars => part' = "web" /\ [Web!Next]_(Web!webVars)
<1> SUFFICES ASSUME part = "web", [Next]_vars PROVE part' = "web" /\ [Web!Next]_(Web!webVars)
  OBVIOUS
<1>1. CASE WebNext BY <1>1 DEF WebNext, OfWeb
<1>2. CASE UNCHANGED vars
  BY <1>2 DEF vars, webVars, Web!webVars, Web!stopVars, Web!tokenVars
<1>3. /\ ~WallNext /\ ~DbNext /\ ~VpnNext /\ ~TunNext /\ ~UserNext /\ ~TableNext
      /\ ~PrxNext /\ ~FabNext /\ ~LanNext
  BY DEF WallNext, DbNext, VpnNext, TunNext, UserNext, TableNext, PrxNext, FabNext, LanNext,
         OfWall, OfDb, OfVpn, OfTun, OfUser, OfTable, OfPrx, OfFab, OfLan
<1> QED BY <1>1, <1>2, <1>3 DEF Next

LEMMA WebInvInit == Web!Init => WebInv
<1> SUFFICES ASSUME Web!Init PROVE WebInv
  OBVIOUS
<1> USE WebAssumption DEF Web!Init
<1>1. \A r \in Requests : req[r].at = "idle" /\ "at" \in DOMAIN req[r] BY DEF Web!Idle
<1>2. fresh \in {1, 2} /\ admin = 0 /\ tokenFile \in {0, 1} /\ known = tokenFile /\ tokenFile < fresh
  OBVIOUS
<1>3. Web!TypeOK
  <2>1. admin \in Web!Tokens /\ tokenFile \in Web!Tokens /\ known \in Web!Tokens
    BY <1>2 DEF Web!Tokens
  <2>2. fresh \in 1 .. MaxStarts + 2 /\ webStarts \in 1 .. MaxStarts /\ faults \in 0 .. MaxFaults
    BY <1>2
  <2> QED BY <1>1, <2>1, <2>2 DEF Web!TypeOK, Web!Places
<1>4. WebToken /\ WebStop /\ WebReq BY <1>1 DEF WebToken, WebStop, WebReq
<1>5. WebFresh
  <2>1. webStarts = 1 /\ fresh <= 1 + 1 BY <1>2
  <2> QED BY <1>2, <2>1 DEF WebFresh
<1>6. Web!TokenSurvives /\ Web!QuietStop BY DEF Web!TokenSurvives, Web!QuietStop
<1> QED BY <1>3, <1>4, <1>5, <1>6 DEF WebInv

\* The goroutine of Http.Start, up to the token.
LEMMA WebTokens ==
    ASSUME WebInv, \/ Web!NewServer \/ Web!LoadToken \/ Web!OpenToken \/ Web!WriteToken
    PROVE  WebInv'
<1> USE WebAssumption DEF WebInv
<1>0. UNCHANGED <<main, told, missed, webPort, req, webStarts>>
  BY DEF Web!NewServer, Web!LoadToken, Web!OpenToken, Web!WriteToken, Web!stopVars
<1>s. /\ server = "shut" => server' = "shut"
      /\ server' \in {"nil", "new", "serving", "shut"}
  BY DEF Web!NewServer, Web!LoadToken, Web!OpenToken, Web!WriteToken, Web!TypeOK
<1>1. WebStop' /\ WebReq' /\ Web!QuietStop'
  BY <1>0, <1>s DEF WebStop, WebReq, Web!QuietStop, Web!Active
<1>n. /\ fresh \in Nat /\ admin \in Nat /\ tokenFile \in Nat /\ known \in Nat /\ webStarts \in Nat
      /\ webStarts <= MaxStarts
  BY DEF Web!TypeOK, Web!Tokens
<1>t. ASSUME fresh' \in Nat, fresh' >= 1, admin' \in Nat, tokenFile' \in Nat, known' \in Nat, WebFresh',
             saved' \in BOOLEAN, unread' \in BOOLEAN, faults' \in 0 .. MaxFaults,
             boot' \in {"go", "load", "open", "write", "router", "listen", "sleep", "serve", "none"}
      PROVE  Web!TypeOK'
  <2>1. webStarts' = webStarts /\ fresh' <= webStarts + 2 BY <1>0, <1>n, <1>t DEF WebFresh
  <2>2. fresh' \in 1 .. MaxStarts + 2 BY <1>n, <1>t, <2>1
  <2>3. admin' \in Web!Tokens /\ tokenFile' \in Web!Tokens /\ known' \in Web!Tokens
    BY <1>n, <1>t, <2>1 DEF WebFresh, Web!Tokens
  <2> QED BY <1>0, <1>s, <1>t, <2>2, <2>3 DEF Web!TypeOK
<1>2. CASE Web!NewServer
  <2>1. UNCHANGED <<admin, tokenFile, saved, fresh, known, unread, faults>> /\ boot' = "load" /\ boot = "go"
    BY <1>2 DEF Web!NewServer, Web!tokenVars
  <2>2. WebToken' /\ WebFresh' /\ Web!TokenSurvives'
    BY <1>0, <2>1 DEF WebToken, WebFresh, Web!TokenSurvives
  <2>3. Web!TypeOK' BY <1>n, <1>t, <2>1, <2>2 DEF Web!TypeOK
  <2> QED BY <1>1, <2>2, <2>3
<1>3. CASE Web!LoadToken
  <2>1. /\ UNCHANGED <<tokenFile, saved, known>> /\ boot' = "open" /\ boot = "load"
        /\ \/ tokenFile # 0 /\ admin' = tokenFile /\ fresh' = fresh /\ unread' = FALSE
           \/ tokenFile = 0 /\ admin' = fresh /\ fresh' = fresh + 1 /\ unread' = FALSE
           \/ admin' = fresh /\ fresh' = fresh + 1 /\ unread' = TRUE
    BY <1>3 DEF Web!LoadToken, Web!SetToken
  <2>2. faults' \in 0 .. MaxFaults BY <1>3 DEF Web!LoadToken, Web!TypeOK
  <2>3. WebToken' BY <2>1 DEF WebToken
  <2>4. WebFresh'
    <3>1. fresh <= webStarts + 1 BY <2>1 DEF WebFresh
    <3>2. fresh' <= webStarts + 2 /\ admin' < fresh' /\ tokenFile < fresh' /\ known < fresh'
      BY <1>n, <2>1, <3>1 DEF WebFresh
    <3> QED BY <1>0, <2>1, <3>2 DEF WebFresh
  <2>5. Web!TokenSurvives' BY <2>1 DEF Web!TokenSurvives, WebToken
  <2>6. fresh' \in Nat /\ fresh' >= 1 /\ admin' \in Nat BY <1>n, <2>1 DEF Web!TypeOK
  <2>7. Web!TypeOK' BY <1>n, <1>t, <2>1, <2>2, <2>4, <2>6 DEF Web!TypeOK
  <2> QED BY <1>1, <2>3, <2>4, <2>5, <2>7
<1>4. CASE Web!OpenToken
  <2>1. /\ UNCHANGED <<admin, saved, fresh, known, unread>> /\ boot = "open"
        /\ boot' \in {"write", "router"} /\ tokenFile' \in {0, tokenFile}
    BY <1>4 DEF Web!OpenToken
  <2>2. faults' \in 0 .. MaxFaults BY <1>4 DEF Web!OpenToken, Web!TypeOK
  <2>3. WebToken' BY <2>1 DEF WebToken
  <2>4. WebFresh' BY <1>0, <1>n, <2>1 DEF WebFresh
  <2>5. Web!TokenSurvives' BY <2>1 DEF Web!TokenSurvives
  <2>6. Web!TypeOK' BY <1>n, <1>t, <2>1, <2>2, <2>4 DEF Web!TypeOK
  <2> QED BY <1>1, <2>3, <2>4, <2>5, <2>6
<1>5. CASE Web!WriteToken
  <2>1. /\ UNCHANGED <<admin, fresh, unread>> /\ boot = "write" /\ boot' = "router"
        /\ \/ tokenFile' = admin /\ saved' = TRUE /\ known' = admin
           \/ UNCHANGED <<tokenFile, saved, known>>
    BY <1>5 DEF Web!WriteToken
  <2>2. faults' \in 0 .. MaxFaults BY <1>5 DEF Web!WriteToken, Web!TypeOK
  <2>3. WebToken' BY <2>1 DEF WebToken
  <2>4. WebFresh' BY <1>0, <1>n, <2>1 DEF WebFresh
  <2>5. Web!TokenSurvives' BY <2>1 DEF Web!TokenSurvives
  <2>6. saved' \in BOOLEAN /\ tokenFile' \in Nat /\ known' \in Nat BY <1>n, <2>1 DEF Web!TypeOK
  <2>7. Web!TypeOK' BY <1>n, <1>t, <2>1, <2>2, <2>4, <2>6 DEF Web!TypeOK
  <2> QED BY <1>1, <2>3, <2>4, <2>5, <2>7
<1> QED BY <1>2, <1>3, <1>4, <1>5

\* The router, the Promise and the port.
LEMMA WebListens ==
    ASSUME WebInv, Web!LoadRouter \/ Web!Listen \/ Web!Sleep \/ Web!PortFreed
    PROVE  WebInv'
<1> USE DEF WebInv
<1>1. /\ UNCHANGED <<main, told, missed, req, webStarts, admin, tokenFile, saved, fresh, known, unread, faults>>
      /\ server = "shut" => server' = "shut"
      /\ server' \in {"nil", "new", "serving", "shut"} /\ webPort' \in {"free", "taken", "own"}
      /\ boot' = boot \/ (boot' \in {"listen", "serve", "sleep"}
                          /\ boot \in {"router", "listen", "serve", "sleep"})
  BY DEF Web!LoadRouter, Web!Listen, Web!Sleep, Web!PortFreed, Web!stopVars, Web!tokenVars, Web!TypeOK
<1>2. Web!TypeOK' BY <1>1 DEF Web!TypeOK
<1>3. WebToken' /\ WebStop' /\ WebReq' BY <1>1 DEF WebToken, WebStop, WebReq
<1>4. WebFresh' BY <1>1 DEF WebFresh
<1>5. Web!TokenSurvives' /\ Web!QuietStop' BY <1>1 DEF Web!TokenSurvives, Web!QuietStop, Web!Active
<1> QED BY <1>2, <1>3, <1>4, <1>5

\* The requests.
LEMMA WebRequests ==
    ASSUME WebInv, NEW r \in Requests,
           Web!Handler(r) \/ \E p \in Web!Paths, x \in Web!Names : Web!Request(r, p, x)
    PROVE  WebInv'
<1> USE DEF WebInv
<1>1. /\ UNCHANGED <<main, told, missed, boot, server, webPort, webStarts, admin, tokenFile, saved,
                     fresh, known, unread, faults>>
      /\ server = "shut" => Web!Active(r)
  BY DEF Web!Handler, Web!getIndex, Web!Answer, Web!Request, Web!stopVars, Web!tokenVars, Web!Active
<1> DEFINE At == {"idle", "handler", "listing", "denied", "done"}
<1>2. \E x : req' = [req EXCEPT ![r] = x] /\ "at" \in DOMAIN x /\ x.at \in At
  <2>1. ASSUME NEW p \in Web!Paths, NEW x \in Web!Names, Web!Request(r, p, x)
        PROVE  \E y : req' = [req EXCEPT ![r] = y] /\ "at" \in DOMAIN y /\ y.at \in At
    <3>1. CASE Web!IsAuth(p, x)
      <4> DEFINE y == [at |-> IF p = "api" THEN "listing" ELSE "handler",
                       path |-> p, name |-> x, list |-> 1]
      <4>1. req' = [req EXCEPT ![r] = y] BY <2>1, <3>1 DEF Web!Request
      <4>2. "at" \in DOMAIN y /\ y.at \in At OBVIOUS
      <4> HIDE DEF y
      <4> QED BY <4>1, <4>2
    <3>2. CASE ~Web!IsAuth(p, x)
      <4>1. req' = [req EXCEPT ![r] = [at |-> "denied"]] BY <2>1, <3>2 DEF Web!Request
      <4>2. "at" \in DOMAIN [at |-> "denied"] /\ [at |-> "denied"].at \in At OBVIOUS
      <4> QED BY <4>1, <4>2
    <3> QED BY <3>1, <3>2
  <2>d. "at" \in DOMAIN [at |-> "done"] /\ [at |-> "done"].at \in At OBVIOUS
  <2>2. CASE Web!Answer(r) BY <2>2, <2>d DEF Web!Answer
  <2>3. CASE Web!getIndex(r)
    <3> DEFINE y == [req[r] EXCEPT !.list = req[r].list + 1]
    <3>1. req' = [req EXCEPT ![r] = y] \/ req' = [req EXCEPT ![r] = [at |-> "done"]]
      <4>1. req' = [req EXCEPT ![r] = IF req[r].list < Len(Web!Lists) THEN y ELSE [at |-> "done"]]
        BY <2>3 DEF Web!getIndex
      <4> HIDE DEF y
      <4> QED BY <4>1
    <3>2. "at" \in DOMAIN y /\ y.at = req[r].at BY DEF WebReq
    <3>3. req[r].at \in At BY DEF Web!TypeOK
    <3> HIDE DEF y
    <3> QED BY <2>d, <3>1, <3>2, <3>3
  <2> QED BY <2>1, <2>2, <2>3 DEF Web!Handler
<1>3. /\ DOMAIN req' = Requests /\ "at" \in DOMAIN req'[r]
      /\ req'[r].at \in {"idle", "handler", "listing", "denied", "done"}
      /\ \A q \in Requests : q # r => req'[q] = req[q]
  BY <1>2 DEF WebReq
<1>4. Web!TypeOK' BY <1>1, <1>3 DEF Web!TypeOK
<1>5. WebToken' /\ WebStop' /\ WebReq' BY <1>1, <1>3 DEF WebToken, WebStop, WebReq
<1>6. WebFresh' BY <1>1 DEF WebFresh
<1>7. Web!TokenSurvives' BY <1>1 DEF Web!TokenSurvives
<1>8. Web!QuietStop'
  <2>1. main \in {"server", "workers", "stopped"} => server = "shut" /\ ~Web!Active(r)
    BY DEF WebStop, Web!QuietStop
  <2> QED BY <1>1, <2>1 DEF Web!QuietStop
<1> QED BY <1>4, <1>5, <1>6, <1>7, <1>8

\* main: Switch.Stop.
LEMMA WebStops ==
    ASSUME WebInv, Web!StopBegins \/ Web!StopStep
    PROVE  WebInv'
<1> USE DEF WebInv
<1>1. UNCHANGED <<req, webStarts, admin, tokenFile, saved, fresh, known, unread, faults>>
  BY DEF Web!StopBegins, Web!StopStep, Web!leftClient, Web!AllLeft, Web!FirewallStop, Web!Shutdown,
         Web!Waited, Web!ServerClose, Web!WorkersStop, Web!Goes, Web!tokenVars
<1>2. CASE Web!Shutdown
  <2> USE <1>2 DEF Web!Shutdown
  <2>1. Web!TypeOK' BY <1>1 DEF Web!TypeOK, Web!Places
  <2>2. WebToken' /\ WebReq' BY <1>1 DEF WebToken, WebReq
  <2>3. WebFresh'
    <3>1. webStarts \in Nat /\ fresh \in Nat BY DEF Web!TypeOK
    <3> QED BY <1>1, <3>1 DEF WebFresh
  <2>4. WebStop' BY DEF WebStop
  <2>5. Web!TokenSurvives' /\ Web!QuietStop' BY <1>1 DEF Web!TokenSurvives, Web!QuietStop
  <2> QED BY <2>1, <2>2, <2>3, <2>4, <2>5
<1>3. ASSUME NEW p \in Points, Web!leftClient(p) PROVE WebInv'
  <2>1. /\ main = "left" /\ UNCHANGED <<main, boot, server, webPort>>
        /\ told' \subseteq Points /\ missed' \subseteq Points
    BY <1>3 DEF Web!leftClient, Web!TypeOK
  <2>2. Web!TypeOK' BY <1>1, <2>1 DEF Web!TypeOK
  <2>3. WebToken' /\ WebReq' /\ WebFresh' BY <1>1, <2>1 DEF WebToken, WebReq, WebFresh
  <2>4. WebStop' /\ Web!TokenSurvives' /\ Web!QuietStop'
    BY <1>1, <2>1 DEF WebStop, Web!TokenSurvives, Web!QuietStop
  <2> QED BY <2>2, <2>3, <2>4
<1>4. CASE Web!StopBegins \/ Web!AllLeft \/ Web!FirewallStop \/ Web!Waited \/ Web!ServerClose \/ Web!WorkersStop
  <2>1. UNCHANGED <<told, missed, boot, server, webPort>>
    BY <1>4 DEF Web!StopBegins, Web!AllLeft, Web!FirewallStop, Web!Waited, Web!ServerClose,
           Web!WorkersStop, Web!Goes
  <2>2. \/ main = "up" /\ main' = "left"
        \/ main = "left" /\ main' = "firewall" /\ told \cup missed = Points
        \/ main = "firewall" /\ main' = "shutdown"
        \/ main = "waits" /\ main' = "server" /\ Web!Drained
        \/ main = "server" /\ main' = "workers"
        \/ main = "workers" /\ main' = "stopped"
    BY <1>4 DEF Web!StopBegins, Web!AllLeft, Web!FirewallStop, Web!Waited, Web!ServerClose,
           Web!WorkersStop, Web!Goes
  <2>3. Web!TypeOK' BY <1>1, <2>1, <2>2 DEF Web!TypeOK, Web!Places
  <2>4. WebToken' /\ WebReq' /\ WebFresh' BY <1>1, <2>1 DEF WebToken, WebReq, WebFresh
  <2>5. WebStop' BY <2>1, <2>2 DEF WebStop
  <2>6. Web!TokenSurvives' BY <1>1 DEF Web!TokenSurvives
  <2>7. Web!QuietStop' BY <1>1, <2>1, <2>2 DEF Web!QuietStop, WebStop, Web!Drained, Web!Active
  <2> QED BY <2>3, <2>4, <2>5, <2>6, <2>7
<1> QED BY <1>2, <1>3, <1>4 DEF Web!StopStep

\* The process dies and is started again.
LEMMA WebRestarts == ASSUME WebInv, Web!Restart PROVE WebInv'
<1> USE WebAssumption DEF WebInv
<1>0. /\ webStarts < MaxStarts /\ webStarts' = webStarts + 1
      /\ main' = "up" /\ boot' = "go" /\ server' = "nil" /\ told' = {} /\ missed' = {}
      /\ admin' = 0 /\ saved' = FALSE /\ req' = [r \in Requests |-> Web!Idle]
      /\ webPort' \in {webPort, "free"}
      /\ UNCHANGED <<tokenFile, faults, fresh, known, unread>>
  BY DEF Web!Restart
<1>1. \A r \in Requests : req'[r].at = "idle" /\ "at" \in DOMAIN req'[r] BY <1>0 DEF Web!Idle
<1>2. webStarts \in Nat /\ fresh \in Nat /\ webStarts' \in 1 .. MaxStarts BY <1>0 DEF Web!TypeOK
<1>3. WebFresh'
  <2>1. fresh <= webStarts + 2 BY <1>2 DEF WebFresh
  <2>2. fresh' <= webStarts' + 1 /\ 0 < fresh BY <1>0, <1>2, <2>1 DEF Web!TypeOK
  <2> QED BY <1>0, <2>2 DEF WebFresh
<1>4. Web!TypeOK'
  <2>1. admin' \in Web!Tokens BY <1>0 DEF Web!Tokens
  <2>2. webPort' \in {"free", "taken", "own"} BY <1>0 DEF Web!TypeOK
  <2> QED BY <1>0, <1>1, <1>2, <2>1, <2>2 DEF Web!TypeOK, Web!Places
<1>5. WebToken' /\ WebStop' /\ WebReq' BY <1>0, <1>1 DEF WebToken, WebStop, WebReq
<1>6. Web!TokenSurvives' /\ Web!QuietStop' BY <1>0 DEF Web!TokenSurvives, Web!QuietStop
<1> QED BY <1>3, <1>4, <1>5, <1>6

LEMMA WebInvStep == WebInv /\ [Web!Next]_(Web!webVars) => WebInv'
<1> SUFFICES ASSUME WebInv, [Web!Next]_(Web!webVars) PROVE WebInv'
  OBVIOUS
<1>1. CASE UNCHANGED Web!webVars
  BY <1>1 DEF Web!webVars, Web!stopVars, Web!tokenVars, WebInv, Web!TypeOK, WebToken, WebStop, WebReq,
     WebFresh, Web!TokenSurvives, Web!QuietStop, Web!Active
<1> QED BY <1>1, WebTokens, WebListens, WebRequests, WebStops, WebRestarts DEF Web!Next, Web!StartStep

\* The invariant of this part holds of the switch.
LEMMA WebAlways == Spec => [](part = "web" => WebInv)
<1> DEFINE I == part = "web" => WebInv
<1>1. Init => I BY WebInvInit DEF Init, Only
<1>2. I /\ [Next]_vars => I'
  <2> SUFFICES ASSUME I, [Next]_vars, part' = "web" PROVE WebInv'
    OBVIOUS
  <2>1. part = "web" BY DEF Next, WallNext, LanNext, FabNext, VpnNext, UserNext, TableNext, WebNext,
         DbNext, PrxNext, TunNext, OfWall, OfLan, OfFab, OfVpn, OfUser, OfTable, OfWeb, OfDb, OfPrx,
         OfTun, vars
  <2> QED BY <2>1, WebStep, WebInvStep
<1> QED BY <1>1, <1>2, PTL DEF Spec

\* http.go: at whichever steps the process dies and the file fails, a saved
\* token is the one the server accepts and the token outlives the process; no
\* handler runs while the networks are stopped, and the points have been told.
THEOREM TokensSurvive ==
    Spec => [](part = "web" => Web!FileCurrent /\ Web!TokenSurvives /\ Web!QuietStop)
<1>1. (part = "web" => WebInv) => (part = "web" => Web!FileCurrent /\ Web!TokenSurvives /\ Web!QuietStop)
  BY DEF WebInv, WebToken, Web!FileCurrent
<1> QED BY <1>1, WebAlways, PTL

----------------------------------------------------------------------------
(* The traffic tables.                                                     *)
(*                                                                         *)
(* The list, the map and the cache agree at every step (TabLines), because *)
(* the worker that has the lock of Online pops before it pushes onto a     *)
(* full list (TabTurn).  What a listing has given and what is in its       *)
(* channel is what it has read of a table that stands still while it       *)
(* iterates (Listed, TabReads).  For the neighbours the addresses that are *)
(* between their Del and their Set count as listed (Owed): of those in the *)
(* cache and those owed there are as many as it takes, or no announced one *)
(* is missing (TabNbrs).                                                   *)

TabAt == {"idle", "line", "del", "set", "get", "add", "replace", "put"}
TabKeys ==
    /\ worker \in [Workers -> [at : TabAt, key : Lines \cup Ips \cup {"nobody"}]]
    /\ \A w \in Workers :
         /\ worker[w].at \in {"line", "del", "set"} => worker[w].key \in Lines
         /\ worker[w].at \in {"get", "add", "replace", "put"} => worker[w].key \in Ips
TabTurn ==
    \A w \in Workers :
        /\ worker[w].at \in {"del", "set"} <=> lineLock = w
        /\ lineLock = w => worker[w].key \notin lines
        /\ worker[w].at = "set" => Len(lineList) < MaxSize
        /\ worker[w].at = "del" => Len(lineList) = MaxSize
Distinct(q) == \A i, j \in 1 .. Len(q) : i # j => q[i] # q[j]
Elems(q) == {q[i] : i \in 1 .. Len(q)}
TabLines ==
    /\ lineList \in Seq(Lines) /\ Distinct(lineList) /\ Len(lineList) <= MaxSize
    /\ Elems(lineList) = lines /\ lineMap = lines
    /\ IsFiniteSet(lines) /\ Cardinality(lines) = Len(lineList)

Listing == [at : {"idle", "iter", "nil", "sent", "done"}, left : SUBSET Lines,
            chan : Seq(Lines \cup {"nil"}), got : Seq(Lines), snap : SUBSET Lines]
\* The flows in the channel: all of it, but for the nil that was sent.
Body(x) == IF x.at = "sent" THEN Len(x.chan) - 1 ELSE Len(x.chan)
Listed(x) ==
    /\ IsFiniteSet(x.snap) /\ x.left \subseteq x.snap
    /\ x.at # "iter" => x.left = {}
    /\ x.at \in {"idle", "done"} => x.chan = <<>>
    /\ x.at = "sent" => Len(x.chan) >= 1 /\ x.chan[Len(x.chan)] = "nil"
    /\ Elems(x.got) \subseteq x.snap \ x.left /\ Len(x.got) = Cardinality(Elems(x.got))
    /\ \A i \in 1 .. Body(x) : x.chan[i] \in (x.snap \ x.left) \ Elems(x.got)
    /\ \A i, j \in 1 .. Body(x) : i # j => x.chan[i] # x.chan[j]
    /\ \A c \in x.snap \ x.left : c \in Elems(x.got) \/ \E i \in 1 .. Body(x) : x.chan[i] = c
TabReads ==
    /\ lister \in [Listers -> Listing]
    /\ \A l \in Listers :
         /\ Listed(lister[l]) /\ Len(lister[l].chan) <= ChanCap
         /\ l \in readers <=> lister[l].at = "iter"
         /\ lister[l].at = "iter" => lister[l].snap = lines

Owed == nbrs \cup {worker[w].key : w \in {v \in Workers : worker[v].at = "put"}}
TabNbrs ==
    /\ nbrs \subseteq Ips /\ announced \subseteq Ips /\ Cardinality(nbrs) <= NbrSize
    /\ announced \subseteq Owed \/ Cardinality(Owed) >= NbrSize
TabLocks ==
    /\ lineLock \in Workers \cup {"nobody"} /\ waiting \in {lineLock, "nobody"}
    /\ readers \subseteq Listers

TabInv == TabKeys /\ TabLocks /\ TabTurn /\ TabLines /\ TabReads /\ TabNbrs

\* A step of a behaviour of this part is one of Tables.
LEMMA TabStep == part = "table" /\ [Next]_vars => part' = "table" /\ [Table!Next]_(Table!tableVars)
<1> SUFFICES ASSUME part = "table", [Next]_vars PROVE part' = "table" /\ [Table!Next]_(Table!tableVars)
  OBVIOUS
<1>1. CASE TableNext BY <1>1 DEF TableNext, OfTable
<1>2. CASE UNCHANGED vars BY <1>2 DEF vars, tableVars, Table!tableVars
<1>3. /\ ~WallNext /\ ~DbNext /\ ~VpnNext /\ ~TunNext /\ ~UserNext /\ ~WebNext
      /\ ~PrxNext /\ ~FabNext /\ ~LanNext
  BY DEF WallNext, DbNext, VpnNext, TunNext, UserNext, WebNext, PrxNext, FabNext, LanNext,
         OfWall, OfDb, OfVpn, OfTun, OfUser, OfWeb, OfPrx, OfFab, OfLan
<1> QED BY <1>1, <1>2, <1>3 DEF Next

\* The first flow of a list goes, another is put at its end.
LEMMA ElemsTail ==
    ASSUME NEW S, NEW q \in Seq(S), q # <<>>, Distinct(q)
    PROVE  /\ Tail(q) \in Seq(S) /\ Distinct(Tail(q)) /\ Len(Tail(q)) = Len(q) - 1
           /\ Head(q) \in Elems(q) /\ Elems(Tail(q)) = Elems(q) \ {Head(q)}
<1> DEFINE t == Tail(q)
<1>1. /\ t \in Seq(S) /\ Len(q) \in Nat /\ Len(q) >= 1 /\ Head(q) = q[1] /\ Len(t) = Len(q) - 1
      /\ \A i \in 1 .. Len(t) : t[i] = q[i + 1] /\ i + 1 \in 1 .. Len(q) /\ i + 1 # 1
      /\ \A i \in 1 .. Len(q) : i = 1 \/ (i - 1 \in 1 .. Len(t) /\ t[i - 1] = q[i])
      /\ 1 \in 1 .. Len(q)
      /\ \A i, j \in 1 .. Len(t) : i # j => i + 1 # j + 1
  OBVIOUS
<1> HIDE DEF t
<1>2. Distinct(t) BY <1>1 DEF Distinct
<1>3. \A i \in 1 .. Len(t) : q[i + 1] # q[1] BY <1>1 DEF Distinct
<1>4. \A x : x \in Elems(t) <=> x \in Elems(q) /\ x # q[1]
  <2>1. ASSUME NEW x \in Elems(t) PROVE x \in Elems(q) /\ x # q[1] BY <1>1, <1>3 DEF Elems
  <2>2. ASSUME NEW x \in Elems(q), x # q[1] PROVE x \in Elems(t) BY <1>1, <2>2 DEF Elems
  <2> QED BY <2>1, <2>2
<1>5. Elems(t) = Elems(q) \ {Head(q)} BY <1>1, <1>4
<1>6. Head(q) \in Elems(q) BY <1>1 DEF Elems
<1> QED BY <1>1, <1>2, <1>5, <1>6 DEF t

LEMMA ElemsAppend ==
    ASSUME NEW S, NEW q \in Seq(S), NEW x \in S
    PROVE  /\ Append(q, x) \in Seq(S) /\ Len(Append(q, x)) = Len(q) + 1
           /\ Elems(Append(q, x)) = Elems(q) \cup {x}
           /\ Distinct(q) /\ x \notin Elems(q) => Distinct(Append(q, x))
<1> DEFINE z == Append(q, x)
<1>1. /\ z \in Seq(S) /\ Len(q) \in Nat /\ Len(z) = Len(q) + 1 /\ z[Len(q) + 1] = x
      /\ \A i \in 1 .. Len(q) : z[i] = q[i] /\ i \in 1 .. Len(z)
      /\ \A i \in 1 .. Len(z) : i \in 1 .. Len(q) \/ i = Len(q) + 1
      /\ Len(q) + 1 \in 1 .. Len(z)
  OBVIOUS
<1> HIDE DEF z
<1>2. Elems(z) = Elems(q) \cup {x} BY <1>1 DEF Elems
<1>3. ASSUME Distinct(q), x \notin Elems(q) PROVE Distinct(z)
  <2>1. \A i \in 1 .. Len(q) : q[i] # x BY <1>3 DEF Elems
  <2> QED BY <1>1, <1>3, <2>1 DEF Distinct
<1> QED BY <1>1, <1>2, <1>3 DEF z

LEMMA TabInvInit == Table!Init => TabInv
<1> SUFFICES ASSUME Table!Init PROVE TabInv
  OBVIOUS
<1> USE TableAssumption DEF Table!Init
<1>e. /\ Len(<<>>) = 0 /\ <<>> \in Seq(Lines) /\ <<>> \in Seq(Lines \cup {"nil"})
      /\ DOMAIN <<>> = {} /\ (\A i \in 1 .. 0 : FALSE)
      /\ IsFiniteSet({}) /\ Cardinality({}) = 0
  BY FS_EmptySet
<1>1. Elems(<<>>) = {} BY <1>e DEF Elems
<1>2. \A w \in Workers : worker[w].at = "idle" /\ worker[w].key = "nobody"
  BY DEF Table!Rest, Table!Nobody
<1>3. TabKeys BY <1>2 DEF TabKeys, TabAt, Table!Rest, Table!Nobody
<1>4. TabTurn BY <1>2 DEF TabTurn, Table!Nobody
<1>5. TabLines BY <1>e, <1>1 DEF TabLines, Distinct
<1>6. \A l \in Listers : lister[l] = Table!NoList BY DEF Table!NoList
<1>7. Table!NoList \in Listing /\ Listed(Table!NoList) /\ Table!NoList.at = "idle"
      /\ Table!NoList.chan = <<>>
  BY <1>e, <1>1 DEF Table!NoList, Listing, Listed, Body
<1>8. TabReads
  <2>1. lister \in [Listers -> Listing] BY <1>7
  <2> QED BY <1>e, <1>6, <1>7, <2>1 DEF TabReads
<1>9. TabNbrs BY <1>e DEF TabNbrs
<1>10. TabLocks BY DEF TabLocks, Table!Nobody
<1> QED BY <1>3, <1>4, <1>5, <1>8, <1>9, <1>10 DEF TabInv

LEMMA TabTypes == TabInv => Table!TypeOK
<1> SUFFICES ASSUME TabInv PROVE Table!TypeOK
  OBVIOUS
<1>1. \A S : Table!Cardinality(S) = Cardinality(S) BY DEF Cardinality, Table!Cardinality
<1>2. Table!Range(lineList) \subseteq Lines BY DEF TabInv, TabLines, Table!Range
<1>3. \A w \in Workers : worker[w].at \in TabAt BY DEF TabInv, TabKeys
<1>4. lineMap \subseteq Lines /\ lines \subseteq Lines
  BY <1>2 DEF TabInv, TabLines, Elems
<1>5. lineLock \in Workers \cup {Table!Nobody} /\ waiting \in {lineLock, Table!Nobody} /\ readers \subseteq Listers
  BY DEF TabInv, TabLocks, Table!Nobody
<1>6. \A l \in Listers : Len(lister[l].chan) <= ChanCap BY DEF TabInv, TabReads
<1>7. nbrs \subseteq Ips /\ announced \subseteq Ips /\ Table!Cardinality(nbrs) <= NbrSize
  BY <1>1 DEF TabInv, TabNbrs
<1> QED BY <1>2, <1>3, <1>4, <1>5, <1>6, <1>7 DEF TabAt, Table!TypeOK

\* A worker goes on, and comes to rest.
LEMMA TabMoves ==
    ASSUME TabKeys, NEW w \in Workers, NEW pc \in TabAt, worker' = [worker EXCEPT ![w].at = pc]
    PROVE  /\ worker' \in [Workers -> [at : TabAt, key : Lines \cup Ips \cup {"nobody"}]]
           /\ worker'[w].at = pc /\ worker'[w].key = worker[w].key
           /\ \A v \in Workers : v # w => worker'[v] = worker[v]
BY DEF TabKeys

LEMMA TabRests ==
    ASSUME TabKeys, NEW w \in Workers, worker' = [worker EXCEPT ![w] = Table!Rest]
    PROVE  /\ worker' \in [Workers -> [at : TabAt, key : Lines \cup Ips \cup {"nobody"}]]
           /\ worker'[w].at = "idle" /\ \A v \in Workers : v # w => worker'[v] = worker[v]
BY DEF TabKeys, TabAt, Table!Rest, Table!Nobody

\* A step between steps on the neighbours.
LEMMA OwedStands ==
    ASSUME TabNbrs, UNCHANGED <<nbrs, announced>>,
           \A w \in Workers : worker'[w] = worker[w] \/ (worker'[w].at # "put" /\ worker[w].at # "put")
    PROVE  TabNbrs'
<1>1. {worker'[w].key : w \in {v \in Workers : worker'[v].at = "put"}}
      = {worker[w].key : w \in {v \in Workers : worker[v].at = "put"}}
  OBVIOUS
<1>2. Owed' = Owed BY <1>1 DEF Owed
<1> QED BY <1>2 DEF TabNbrs

\* The frame, the look-up in the map, and the lock.
LEMMA TabTakes ==
    ASSUME TabInv, NEW w \in Workers, Table!OnFrame(w) \/ Table!AddLine(w) \/ Table!Lock(w)
    PROVE  TabInv'
<1> USE TableAssumption DEF TabInv, Table!Nobody
<1>1. UNCHANGED <<lineList, lineMap, lines, readers, lister, nbrs, announced>>
  BY DEF Table!OnFrame, Table!AddLine, Table!Lock, Table!lineVars, Table!listVars, Table!nbrVars
<1>2. TabLines' /\ TabReads' BY <1>1 DEF TabLines, TabReads
<1>3. CASE Table!OnFrame(w)
  <2>1. /\ worker[w].at = "idle" /\ UNCHANGED <<lineLock, waiting>>
        /\ \/ \E c \in Lines : worker' = [worker EXCEPT ![w] = [at |-> "line", key |-> c]]
           \/ \E c \in Ips : worker' = [worker EXCEPT ![w] = [at |-> "get", key |-> c]]
    BY <1>3 DEF Table!OnFrame, Table!Rest, Table!lineVars
  <2>2. /\ \A v \in Workers : v # w => worker'[v] = worker[v]
        /\ \/ worker'[w].at = "line" /\ worker'[w].key \in Lines
           \/ worker'[w].at = "get" /\ worker'[w].key \in Ips
        /\ worker' \in [Workers -> [at : TabAt, key : Lines \cup Ips \cup {"nobody"}]]
    BY <2>1 DEF TabKeys, TabAt
  <2>3. TabKeys' BY <2>2 DEF TabKeys
  <2>4. TabLocks' BY <1>1, <2>1 DEF TabLocks
  <2>5. TabTurn' BY <1>1, <2>1, <2>2 DEF TabTurn
  <2>6. TabNbrs' BY <1>1, <2>1, <2>2, OwedStands
  <2> QED BY <1>2, <2>3, <2>4, <2>5, <2>6
<1>4. CASE Table!Lock(w)
  <2>1. worker' = worker /\ lineLock' = lineLock /\ waiting' = w /\ worker[w].at \in {"del", "set"}
    BY <1>4 DEF Table!Lock
  <2>2. TabLocks' BY <1>1, <2>1 DEF TabLocks, TabTurn
  <2>3. TabKeys' /\ TabTurn' BY <1>1, <2>1 DEF TabKeys, TabTurn
  <2>4. TabNbrs' BY <1>1, <2>1, OwedStands
  <2> QED BY <1>2, <2>2, <2>3, <2>4
<1>5. CASE Table!AddLine(w)
  <2>1. worker[w].at = "line" /\ lineLock = "nobody" BY <1>5 DEF Table!AddLine
  <2>2. CASE worker[w].key \in lineMap
    <3>1. worker' = [worker EXCEPT ![w] = Table!Rest] /\ UNCHANGED <<lineLock, waiting>>
      BY <1>5, <2>2 DEF Table!AddLine, Table!lineVars
    <3>2. TabKeys' BY ZenonT(60), <3>1, TabRests DEF TabKeys
    <3>3. TabLocks' BY <1>1, <3>1 DEF TabLocks
    <3>4. TabTurn' BY <1>1, <2>1, <3>1, TabRests DEF TabTurn
    <3>5. TabNbrs' BY <1>1, <2>1, <3>1, TabRests, OwedStands
    <3> QED BY <1>2, <3>2, <3>3, <3>4, <3>5
  <2>3. CASE worker[w].key \notin lineMap
    <3>1. PICK pc \in {"set", "del"} : /\ worker' = [worker EXCEPT ![w].at = pc]
                                       /\ pc = IF Len(lineList) < MaxSize THEN "set" ELSE "del"
      BY <1>5, <2>3 DEF Table!AddLine, Table!Goto
    <3>2. lineLock' = w /\ waiting' = waiting BY <1>5, <2>3 DEF Table!AddLine
    <3>3. /\ worker' \in [Workers -> [at : TabAt, key : Lines \cup Ips \cup {"nobody"}]]
          /\ worker'[w].at = pc /\ worker'[w].key = worker[w].key
          /\ \A v \in Workers : v # w => worker'[v] = worker[v]
      BY <3>1, TabMoves DEF TabAt
    <3>4. TabKeys' BY <2>1, <3>3 DEF TabKeys
    <3>5. TabLocks' BY <1>1, <2>1, <3>2 DEF TabLocks
    <3>6. TabTurn'
      <4>1. \A v \in Workers : worker[v].at \notin {"del", "set"} BY <2>1 DEF TabTurn
      <4>2. worker[w].key \notin lines BY <2>3 DEF TabLines
      <4>3. pc = "del" => Len(lineList) = MaxSize BY <3>1 DEF TabLines
      <4>4. pc = "set" => Len(lineList) < MaxSize BY <3>1
      <4> QED BY <1>1, <3>2, <3>3, <4>1, <4>2, <4>3, <4>4 DEF TabTurn
    <3>7. TabNbrs' BY <1>1, <2>1, <3>1, <3>3, OwedStands
    <3> QED BY <1>2, <3>4, <3>5, <3>6, <3>7
  <2> QED BY <2>2, <2>3
<1> QED BY <1>3, <1>4, <1>5

\* The worker with both locks pops and pushes.
LEMMA TabChanges ==
    ASSUME TabInv, NEW w \in Workers, Table!PopLine(w) \/ Table!PushLine(w)
    PROVE  TabInv'
<1> USE TableAssumption DEF TabInv, Table!Nobody
<1>1. /\ UNCHANGED <<readers, lister, nbrs, announced>> /\ readers = {} /\ lineLock = w
      /\ worker[w].key \in Lines /\ worker[w].key \notin lines /\ waiting' = "nobody"
  BY DEF Table!PopLine, Table!PushLine, Table!WriteLock, Table!listVars, Table!nbrVars, TabTurn, TabKeys
<1>2. TabReads' BY <1>1 DEF TabReads
<1>3. CASE Table!PopLine(w)
  <2>1. /\ worker[w].at = "del" /\ worker' = [worker EXCEPT ![w].at = "set"] /\ lineLock' = lineLock
        /\ lineList' = Tail(lineList) /\ lines' = lines \ {Head(lineList)}
        /\ lineMap' = lineMap \ {Head(lineList)}
    BY <1>3 DEF Table!PopLine, Table!Goto, Table!Popped
  <2>2. Len(lineList) = MaxSize /\ lineList # <<>>
    <3>1. Len(lineList) = MaxSize BY <2>1 DEF TabTurn
    <3> QED BY <3>1
  <2>3. /\ Tail(lineList) \in Seq(Lines) /\ Distinct(Tail(lineList))
        /\ Len(Tail(lineList)) = Len(lineList) - 1
        /\ Head(lineList) \in lines /\ Elems(Tail(lineList)) = lines \ {Head(lineList)}
    BY <2>2, ElemsTail DEF TabLines
  <2>4. IsFiniteSet(lines') /\ Cardinality(lines') = Len(lineList) - 1
    BY <2>1, <2>3, FS_RemoveElement DEF TabLines
  <2>5. TabLines'
    <3>1. Len(lineList) - 1 <= MaxSize BY <2>2
    <3> QED BY <2>1, <2>3, <2>4, <3>1 DEF TabLines
  <2>6. /\ worker' \in [Workers -> [at : TabAt, key : Lines \cup Ips \cup {"nobody"}]]
        /\ worker'[w].at = "set" /\ worker'[w].key = worker[w].key
        /\ \A v \in Workers : v # w => worker'[v] = worker[v]
    BY <2>1, TabMoves DEF TabAt
  <2>7. TabKeys' BY <2>1, <2>6 DEF TabKeys
  <2>8. TabTurn'
    <3>1. Len(lineList') < MaxSize BY <2>1, <2>2, <2>3
    <3>2. \A v \in Workers : v # w => worker[v].at \notin {"del", "set"} BY <1>1 DEF TabTurn
    <3> QED BY <1>1, <2>1, <2>6, <3>1, <3>2 DEF TabTurn
  <2>9. TabNbrs' BY <1>1, <2>1, <2>6, OwedStands
  <2>10. TabLocks' BY <1>1, <2>1 DEF TabLocks
  <2> QED BY <1>2, <2>5, <2>7, <2>8, <2>9, <2>10
<1>4. CASE Table!PushLine(w)
  <2>1. /\ worker[w].at = "set" /\ worker' = [worker EXCEPT ![w] = Table!Rest] /\ lineLock' = "nobody"
        /\ lineList' = Append(lineList, worker[w].key) /\ lineMap' = lineMap \cup {worker[w].key}
        /\ lines' = Table!Set(lines, worker[w].key, MaxSize)
    BY <1>4 DEF Table!PushLine
  <2>2. Len(lineList) < MaxSize /\ Table!Cardinality(lines) = Len(lineList)
    <3>1. Len(lineList) < MaxSize BY <2>1 DEF TabTurn
    <3>2. Table!Cardinality(lines) = Cardinality(lines) BY DEF Cardinality, Table!Cardinality
    <3> QED BY <3>1, <3>2 DEF TabLines
  <2>3. lines' = lines \cup {worker[w].key}
    <3>1. ~(Table!Cardinality(lines) >= MaxSize)
      <4>1. Len(lineList) \in Nat BY DEF TabLines
      <4> QED BY <2>2, <4>1
    <3> QED BY <2>1, <3>1 DEF Table!Set
  <2>4. /\ Append(lineList, worker[w].key) \in Seq(Lines) /\ Len(lineList') = Len(lineList) + 1
        /\ Elems(lineList') = lines \cup {worker[w].key} /\ Distinct(lineList')
    BY <1>1, <2>1, ElemsAppend DEF TabLines
  <2>5. IsFiniteSet(lines') /\ Cardinality(lines') = Len(lineList) + 1
    BY <1>1, <2>3, FS_AddElement DEF TabLines
  <2>6. TabLines'
    <3>1. Len(lineList) + 1 <= MaxSize
      <4>1. Len(lineList) \in Nat BY DEF TabLines
      <4> QED BY <2>2, <4>1
    <3> QED BY <2>1, <2>3, <2>4, <2>5, <3>1 DEF TabLines
  <2>7. TabKeys' BY <2>1, TabRests DEF TabKeys
  <2>8. TabTurn'
    <3>2. \A v \in Workers : v # w => worker[v].at \notin {"del", "set"} BY <1>1 DEF TabTurn
    <3> QED BY <1>1, <2>1, <3>2, TabRests DEF TabTurn
  <2>9. TabNbrs' BY <1>1, <2>1, TabRests, OwedStands
  <2>10. TabLocks' BY <1>1, <2>1 DEF TabLocks
  <2> QED BY <1>2, <2>6, <2>7, <2>8, <2>9, <2>10
<1> QED BY <1>3, <1>4

\* A step of a worker on the neighbours: what is owed stays, and what it
\* announces is listed, or the table is full.
LEMMA TabNeighbors ==
    ASSUME TabInv, NEW w \in Workers,
           Table!GetNeighbor(w) \/ Table!AddNeighbor(w) \/ Table!DelNeighbor(w) \/ Table!SetNeighbor(w)
    PROVE  TabInv'
<1> USE TableAssumption DEF TabInv, Table!Nobody
<1> DEFINE key == worker[w].key
<1>1. /\ UNCHANGED <<lineList, lineMap, lines, lineLock, waiting, readers, lister>>
      /\ worker[w].at \in {"get", "add", "replace", "put"}
  BY DEF Table!GetNeighbor, Table!AddNeighbor, Table!DelNeighbor, Table!SetNeighbor,
         Table!lineVars, Table!listVars
<1>2. key \in Ips /\ lineLock # w BY <1>1 DEF TabKeys, TabTurn
<1>3. TabLines' /\ TabReads' /\ TabLocks' BY <1>1 DEF TabLines, TabReads, TabLocks
<1>4. PICK pc \in {"idle", "add", "replace", "put"} :
        /\ worker' = [worker EXCEPT ![w] = Table!Rest] \/ worker' = [worker EXCEPT ![w].at = pc]
        /\ worker' = [worker EXCEPT ![w] = Table!Rest] => pc = "idle"
        /\ \/ worker[w].at = "get" /\ nbrs' = nbrs /\ pc \in {"idle", "add"}
              /\ (announced' = announced \/ (announced' = announced \cup {key} /\ key \in nbrs))
           \/ worker[w].at = "add" /\ nbrs' = nbrs /\ announced' = announced /\ pc \in {"replace", "put"}
           \/ worker[w].at = "replace" /\ nbrs' = nbrs \ {key} /\ announced' = announced /\ pc = "put"
           \/ worker[w].at = "put" /\ nbrs' = Table!Set(nbrs, key, NbrSize)
              /\ announced' = announced \cup {key} /\ pc = "idle"
  <2> DEFINE Goes(pc) ==
               \/ worker[w].at = "get" /\ nbrs' = nbrs /\ pc \in {"idle", "add"}
                  /\ (announced' = announced \/ (announced' = announced \cup {key} /\ key \in nbrs))
               \/ worker[w].at = "add" /\ nbrs' = nbrs /\ announced' = announced /\ pc \in {"replace", "put"}
               \/ worker[w].at = "replace" /\ nbrs' = nbrs \ {key} /\ announced' = announced /\ pc = "put"
               \/ worker[w].at = "put" /\ nbrs' = Table!Set(nbrs, key, NbrSize)
                  /\ announced' = announced \cup {key} /\ pc = "idle"
             Ends(pc) == /\ worker' = [worker EXCEPT ![w] = Table!Rest] \/ worker' = [worker EXCEPT ![w].at = pc]
                         /\ worker' = [worker EXCEPT ![w] = Table!Rest] => pc = "idle"
  <2>0. ASSUME NEW pc \in {"add", "replace", "put"}, worker' = [worker EXCEPT ![w].at = pc] PROVE Ends(pc)
    <3>1. worker'[w].at = pc BY <2>0 DEF TabKeys
    <3>2. [worker EXCEPT ![w] = Table!Rest][w].at = "idle" BY DEF TabKeys, Table!Rest
    <3> QED BY <2>0, <3>1, <3>2
  <2>a. worker' = [worker EXCEPT ![w] = Table!Rest] => Ends("idle") OBVIOUS
  <2>1. CASE Table!GetNeighbor(w)
    <3>1. CASE key \in nbrs
      <4>1. Ends("idle") BY <2>1, <3>1, <2>a DEF Table!GetNeighbor, Table!Known, Table!Finish
      <4>2. Goes("idle") BY <2>1, <3>1 DEF Table!GetNeighbor, Table!Known, Table!Finish
      <4> QED BY <4>1, <4>2
    <3>2. CASE key \notin nbrs
      <4>1. Ends("add") BY <2>1, <3>2, <2>0 DEF Table!GetNeighbor, Table!Known, Table!Goto
      <4>2. Goes("add") BY <2>1, <3>2 DEF Table!GetNeighbor, Table!Known
      <4> QED BY <4>1, <4>2
    <3> QED BY <3>1, <3>2
  <2>2. CASE Table!AddNeighbor(w)
    <3>1. PICK pc \in {"replace", "put"} : worker' = [worker EXCEPT ![w].at = pc]
      BY <2>2 DEF Table!AddNeighbor, Table!Goto
    <3>2. Ends(pc) BY <2>0, <3>1
    <3>3. Goes(pc) BY <2>2 DEF Table!AddNeighbor, Table!nbrVars
    <3> QED BY <3>2, <3>3
  <2>3. CASE Table!DelNeighbor(w)
    <3>1. Ends("put") BY <2>0, <2>3 DEF Table!DelNeighbor, Table!Goto
    <3>2. Goes("put") BY <2>3 DEF Table!DelNeighbor
    <3> QED BY <3>1, <3>2
  <2>4. CASE Table!SetNeighbor(w)
    <3>1. Ends("idle") BY <2>a, <2>4 DEF Table!SetNeighbor, Table!Finish
    <3>2. Goes("idle") BY <2>4 DEF Table!SetNeighbor, Table!Finish, Table!Put
    <3> QED BY <3>1, <3>2
  <2> QED BY <2>1, <2>2, <2>3, <2>4
<1>5. /\ worker' \in [Workers -> [at : TabAt, key : Lines \cup Ips \cup {"nobody"}]]
      /\ worker'[w].at = pc /\ (pc # "idle" => worker'[w].key = key)
      /\ \A v \in Workers : v # w => worker'[v] = worker[v]
  <2>1. CASE worker' = [worker EXCEPT ![w] = Table!Rest] BY <1>4, <2>1, TabRests
  <2>2. CASE worker' = [worker EXCEPT ![w].at = pc] BY <2>2, TabMoves DEF TabAt
  <2> QED BY <1>4, <2>1, <2>2
<1>6. TabKeys' BY <1>1, <1>2, <1>4, <1>5 DEF TabKeys
<1>7. TabTurn' BY <1>1, <1>2, <1>5 DEF TabTurn
<1>8. \A x : x \in Owed <=> x \in nbrs \/ \E v \in Workers : worker[v].at = "put" /\ worker[v].key = x
  BY DEF Owed
<1>9. \A x : x \in Owed' <=> x \in nbrs' \/ \E v \in Workers : worker'[v].at = "put" /\ worker'[v].key = x
  BY DEF Owed
<1>10. IsFiniteSet(Owed') /\ IsFiniteSet(Owed) /\ IsFiniteSet(nbrs) /\ IsFiniteSet(nbrs')
  <2>1. nbrs' \subseteq Ips BY <1>2, <1>4 DEF TabNbrs, Table!Set
  <2>2. Owed' \subseteq Ips /\ Owed \subseteq Ips BY <1>6, <1>8, <1>9, <2>1 DEF TabKeys, TabNbrs
  <2> QED BY <2>1, <2>2, FS_Subset DEF TabNbrs
<1> DEFINE Full == Cardinality(nbrs) >= NbrSize
<1>11. CASE worker[w].at = "put" /\ Full
  <2>1. nbrs' = nbrs
    <3>1. Table!Cardinality(nbrs) = Cardinality(nbrs) BY DEF Cardinality, Table!Cardinality
    <3> QED BY <1>4, <1>11, <3>1 DEF Table!Set
  <2>2. nbrs \subseteq Owed' BY <1>9, <2>1
  <2>3. Cardinality(Owed') >= NbrSize
    <3>1. Cardinality(nbrs) <= Cardinality(Owed') BY <1>10, <2>2, FS_Subset
    <3>2. Cardinality(nbrs) \in Nat /\ Cardinality(Owed') \in Nat BY <1>10, FS_CardinalityType
    <3> QED BY <1>11, <3>1, <3>2
  <2>4. announced' \subseteq Ips BY <1>2, <1>4, <1>11 DEF TabNbrs
  <2>5. TabNbrs' BY <2>1, <2>3, <2>4 DEF TabNbrs
  <2> QED BY <1>3, <1>6, <1>7, <2>5
<1>12. CASE ~(worker[w].at = "put" /\ Full)
  <2>1. worker[w].at = "put" => nbrs' = nbrs \cup {key}
    <3>1. Table!Cardinality(nbrs) = Cardinality(nbrs) BY DEF Cardinality, Table!Cardinality
    <3> QED BY <1>4, <1>12, <3>1 DEF Table!Set
  <2>2. Owed \subseteq Owed' /\ announced' \subseteq announced \cup Owed'
    <3>1. ASSUME NEW x \in nbrs PROVE x \in Owed' BY <1>4, <1>5, <1>9, <2>1
    <3>2. ASSUME NEW v \in Workers, worker[v].at = "put" PROVE worker[v].key \in Owed'
      <4>1. CASE v = w BY <1>9, <2>1, <3>2, <4>1
      <4>2. CASE v # w BY <1>5, <1>9, <3>2, <4>2
      <4> QED BY <4>1, <4>2
    <3>3. announced' \subseteq announced \cup Owed'
      <4>1. worker[w].at = "put" => key \in Owed' BY <1>9, <2>1
      <4> QED BY <1>4, <3>1, <4>1
    <3> QED BY <1>8, <3>1, <3>2, <3>3
  <2>3. announced' \subseteq Owed' \/ Cardinality(Owed') >= NbrSize
    <3>1. CASE announced \subseteq Owed BY <2>2, <3>1
    <3>2. CASE Cardinality(Owed) >= NbrSize
      <4>1. Cardinality(Owed) <= Cardinality(Owed') BY <1>10, <2>2, FS_Subset
      <4>2. Cardinality(Owed) \in Nat /\ Cardinality(Owed') \in Nat BY <1>10, FS_CardinalityType
      <4>3. Cardinality(Owed') >= NbrSize BY <3>2, <4>1, <4>2
      <4> QED BY <4>3
    <3> QED BY <3>1, <3>2 DEF TabNbrs
  <2>4. nbrs' \subseteq Ips /\ announced' \subseteq Ips
    BY <1>2, <1>4, <2>1 DEF TabNbrs
  <2>5. Cardinality(nbrs') <= NbrSize
    <3>0. Cardinality(nbrs) \in Nat /\ Cardinality(nbrs) <= NbrSize BY <1>10, FS_CardinalityType DEF TabNbrs
    <3>1. CASE worker[w].at = "put"
      <4>1. Cardinality(nbrs) < NbrSize BY <1>12, <3>0, <3>1
      <4>2. Cardinality(nbrs') = Cardinality(nbrs) \/ Cardinality(nbrs') = Cardinality(nbrs) + 1
        BY <1>10, <2>1, <3>1, FS_AddElement
      <4> QED BY <3>0, <4>1, <4>2
    <3>2. CASE worker[w].at # "put"
      <4>1. nbrs' \subseteq nbrs BY <1>4, <3>2
      <4>2. Cardinality(nbrs') <= Cardinality(nbrs) BY <1>10, <4>1, FS_Subset
      <4>3. Cardinality(nbrs') \in Nat BY <1>10, FS_CardinalityType
      <4> QED BY <3>0, <4>2, <4>3
    <3> QED BY <3>1, <3>2
  <2>6. TabNbrs' BY <2>3, <2>4, <2>5 DEF TabNbrs
  <2> QED BY <1>3, <1>6, <1>7, <2>6
<1> QED BY <1>11, <1>12

\* A flow is put into the channel, nil is, and one is taken out of it.
LEMMA ListedIter ==
    ASSUME NEW x \in Listing, Listed(x), x.at = "iter", NEW flow \in x.left, NEW y \in Listing,
           y = [x EXCEPT !.left = @ \ {flow}, !.chan = Append(@, flow)]
    PROVE  Listed(y)
<1> DEFINE len == Len(x.chan)
<1>1. /\ y.at = "iter" /\ y.left = x.left \ {flow} /\ y.chan = Append(x.chan, flow)
      /\ y.got = x.got /\ y.snap = x.snap /\ x.chan \in Seq(Lines \cup {"nil"}) /\ flow \in Lines
  BY DEF Listing
<1>2. /\ len \in Nat /\ Len(y.chan) = len + 1 /\ y.chan[len + 1] = flow /\ len + 1 \in 1 .. (len + 1)
      /\ \A i \in 1 .. len : y.chan[i] = x.chan[i]
      /\ \A i \in 1 .. (len + 1) : i \in 1 .. len \/ i = len + 1
      /\ \A i \in 1 .. len : i \in 1 .. (len + 1)
  BY <1>1
<1>3. Body(x) = len /\ Body(y) = len + 1 BY <1>1, <1>2 DEF Body
<1>4. /\ x.left \subseteq x.snap /\ IsFiniteSet(x.snap) /\ Elems(x.got) \subseteq x.snap \ x.left
      /\ \A i \in 1 .. len : x.chan[i] \in (x.snap \ x.left) \ Elems(x.got)
      /\ \A i, j \in 1 .. len : i # j => x.chan[i] # x.chan[j]
      /\ \A c \in x.snap \ x.left : c \in Elems(x.got) \/ \E i \in 1 .. len : x.chan[i] = c
      /\ Len(x.got) = Cardinality(Elems(x.got))
  BY <1>3 DEF Listed
<1> HIDE DEF len
<1>5. \A i \in 1 .. (len + 1) : y.chan[i] \in (y.snap \ y.left) \ Elems(y.got) BY <1>1, <1>2, <1>4
<1>6. \A i, j \in 1 .. (len + 1) : i # j => y.chan[i] # y.chan[j] BY <1>2, <1>4
<1>7. \A c \in y.snap \ y.left : c \in Elems(y.got) \/ \E i \in 1 .. (len + 1) : y.chan[i] = c
  BY <1>1, <1>2, <1>4
<1>8. /\ IsFiniteSet(y.snap) /\ y.left \subseteq y.snap /\ Elems(y.got) \subseteq y.snap \ y.left
      /\ Len(y.got) = Cardinality(Elems(y.got))
  BY <1>1, <1>4
<1>9. /\ \A i \in 1 .. Body(y) : y.chan[i] \in (y.snap \ y.left) \ Elems(y.got)
      /\ \A i, j \in 1 .. Body(y) : i # j => y.chan[i] # y.chan[j]
      /\ \A c \in y.snap \ y.left : c \in Elems(y.got) \/ \E i \in 1 .. Body(y) : y.chan[i] = c
  <2> HIDE DEF Body
  <2>1. Body(y) = len + 1 BY <1>3
  <2> QED BY ONLY <2>1, <1>5, <1>6, <1>7
<1>10. y.at = "iter" BY <1>1
<1> QED BY <1>8, <1>9, <1>10 DEF Listed

LEMMA ListedNil ==
    ASSUME NEW x \in Listing, Listed(x), x.at = "nil", NEW y \in Listing,
           y = [x EXCEPT !.at = "sent", !.chan = Append(@, "nil")]
    PROVE  Listed(y)
<1> DEFINE len == Len(x.chan)
<1>1. /\ y.at = "sent" /\ y.left = x.left /\ y.chan = Append(x.chan, "nil")
      /\ y.got = x.got /\ y.snap = x.snap /\ x.chan \in Seq(Lines \cup {"nil"})
  BY DEF Listing
<1>2. /\ len \in Nat /\ Len(y.chan) = len + 1 /\ y.chan[len + 1] = "nil" /\ len + 1 >= 1 /\ len + 1 - 1 = len
      /\ \A i \in 1 .. len : y.chan[i] = x.chan[i]
  BY <1>1
<1>3. Body(x) = len /\ Body(y) = len BY <1>1, <1>2 DEF Body
<1> HIDE DEF len
<1>4. \A i \in 1 .. Body(y) : y.chan[i] = x.chan[i] BY <1>2, <1>3
<1> QED BY <1>1, <1>2, <1>3, <1>4 DEF Listed

LEMMA ListedTake ==
    ASSUME NEW x \in Listing, Listed(x), x.chan # <<>>, x.at # "done", Head(x.chan) # "nil",
           NEW y \in Listing, y = [x EXCEPT !.chan = Tail(@), !.got = Append(@, Head(x.chan))]
    PROVE  Listed(y)
<1> DEFINE len == Len(x.chan)
           h == Head(x.chan)
           m == Body(x)
<1>1. /\ y.at = x.at /\ y.left = x.left /\ y.chan = Tail(x.chan) /\ y.got = Append(x.got, h)
      /\ y.snap = x.snap /\ x.chan \in Seq(Lines \cup {"nil"}) /\ x.got \in Seq(Lines)
      /\ x.snap \subseteq Lines
  BY DEF Listing
<1>2. /\ len \in Nat /\ len >= 1 /\ Len(y.chan) = len - 1 /\ h = x.chan[1]
      /\ \A i \in 1 .. (len - 1) : y.chan[i] = x.chan[i + 1]
  BY <1>1
<1>3. x.at # "idle" BY DEF Listed
<1>4. /\ m \in Nat /\ m >= 1 /\ m <= len /\ Body(y) = m - 1 /\ (x.at = "sent" => m = len - 1)
  <2>1. CASE x.at = "sent"
    <3>1. x.chan[len] = "nil" BY <2>1 DEF Listed
    <3>2. len # 1 BY <1>2, <3>1
    <3>3. m = len - 1 /\ Body(y) = (len - 1) - 1 BY <1>1, <1>2, <2>1 DEF Body
    <3> HIDE DEF len, m
    <3>4. len \in Nat /\ len >= 1 BY <1>2
    <3>5. len - 1 \in Nat /\ len - 1 >= 1 /\ len - 1 <= len BY <3>2, <3>4
    <3> QED BY <3>3, <3>5
  <2>2. CASE x.at # "sent"
    <3>1. m = len /\ Body(y) = len - 1 BY <1>1, <1>2, <2>2 DEF Body
    <3> QED BY <1>2, <2>2, <3>1
  <2> QED BY <2>1, <2>2
<1>5. /\ x.left \subseteq x.snap /\ IsFiniteSet(x.snap) /\ Elems(x.got) \subseteq x.snap \ x.left
      /\ \A i \in 1 .. m : x.chan[i] \in (x.snap \ x.left) \ Elems(x.got)
      /\ \A i, j \in 1 .. m : i # j => x.chan[i] # x.chan[j]
      /\ \A c \in x.snap \ x.left : c \in Elems(x.got) \/ \E i \in 1 .. m : x.chan[i] = c
      /\ Len(x.got) = Cardinality(Elems(x.got))
      /\ (x.at # "iter" => x.left = {})
      /\ (x.at = "sent" => x.chan[len] = "nil")
  BY DEF Listed
<1> HIDE DEF len, h, m
<1>6. /\ 1 \in 1 .. m
      /\ \A i \in 1 .. (m - 1) : i \in 1 .. (len - 1) /\ i + 1 \in 1 .. m /\ i + 1 # 1
      /\ \A i \in 1 .. m : i = 1 \/ (i - 1 \in 1 .. (m - 1) /\ (i - 1) + 1 = i)
      /\ \A i, j \in 1 .. (m - 1) : i # j => i + 1 # j + 1
  BY <1>2, <1>4
<1>7. \A i \in 1 .. (m - 1) : y.chan[i] = x.chan[i + 1] BY <1>2, <1>6
<1>8. h \in (x.snap \ x.left) \ Elems(x.got) /\ h \in Lines BY <1>1, <1>2, <1>5, <1>6
<1>9. Elems(y.got) = Elems(x.got) \cup {h} /\ Len(y.got) = Len(x.got) + 1
  BY <1>1, <1>8, ElemsAppend
<1>10. IsFiniteSet(Elems(x.got)) BY <1>5, FS_Subset
<1>11. Len(y.got) = Cardinality(Elems(y.got))
  <2>1. Cardinality(Elems(y.got)) = Cardinality(Elems(x.got)) + 1 BY <1>8, <1>9, <1>10, FS_AddElement
  <2> QED BY <1>5, <1>9, <2>1
<1>12. \A i \in 1 .. (m - 1) : y.chan[i] \in (y.snap \ y.left) \ Elems(y.got)
  <2>1. ASSUME NEW i \in 1 .. (m - 1) PROVE x.chan[i + 1] # h BY <1>2, <1>5, <1>6
  <2>2. ASSUME NEW i \in 1 .. (m - 1) PROVE y.chan[i] \in (y.snap \ y.left) \ Elems(y.got)
    <3>1. y.chan[i] = x.chan[i + 1] /\ x.chan[i + 1] # h BY <1>7, <2>1
    <3>2. x.chan[i + 1] \in (x.snap \ x.left) \ Elems(x.got) BY <1>5, <1>6
    <3> QED BY <1>1, <1>9, <3>1, <3>2
  <2> QED BY <2>2
<1>13. \A i, j \in 1 .. (m - 1) : i # j => y.chan[i] # y.chan[j]
  <2>1. ASSUME NEW i \in 1 .. (m - 1), NEW j \in 1 .. (m - 1), i # j PROVE y.chan[i] # y.chan[j]
    <3>1. i + 1 \in 1 .. m /\ j + 1 \in 1 .. m /\ i + 1 # j + 1 BY <1>6, <2>1
    <3>2. x.chan[i + 1] # x.chan[j + 1] BY <1>5, <3>1
    <3> QED BY <1>7, <3>2
  <2> QED BY <2>1
<1>14. \A c \in y.snap \ y.left : c \in Elems(y.got) \/ \E i \in 1 .. (m - 1) : y.chan[i] = c
  <2>1. ASSUME NEW c \in x.snap \ x.left, c \notin Elems(y.got)
        PROVE \E i \in 1 .. (m - 1) : y.chan[i] = c
    <3>1. PICK i \in 1 .. m : x.chan[i] = c BY <1>5, <1>9, <2>1
    <3>2. i # 1 BY <1>2, <1>9, <2>1, <3>1
    <3>3. i - 1 \in 1 .. (m - 1) /\ (i - 1) + 1 = i BY <1>6, <3>2
    <3>4. y.chan[i - 1] = c BY <1>7, <3>1, <3>3
    <3> QED BY <3>3, <3>4
  <2> QED BY <1>1, <2>1
<1>15. y.at = "sent" => Len(y.chan) >= 1 /\ y.chan[Len(y.chan)] = "nil"
  <2>1. ASSUME y.at = "sent" PROVE Len(y.chan) >= 1 /\ y.chan[Len(y.chan)] = "nil"
    <3>1. m = len - 1 BY <1>1, <1>4, <2>1
    <3>2. len - 1 >= 1 /\ len - 1 \in 1 .. (len - 1) /\ (len - 1) + 1 = len BY <1>2, <1>4, <3>1
    <3>3. y.chan[len - 1] = x.chan[len] BY <1>2, <3>2
    <3> QED BY <1>1, <1>2, <1>5, <2>1, <3>2, <3>3
  <2> QED BY <2>1
<1>16. y.at \notin {"idle", "done"} BY <1>1, <1>3
<1>17. /\ IsFiniteSet(y.snap) /\ y.left \subseteq y.snap /\ Elems(y.got) \subseteq y.snap \ y.left
       /\ (y.at # "iter" => y.left = {})
  BY <1>1, <1>5, <1>8, <1>9
<1>18. Body(y) = m - 1 BY <1>4
<1> HIDE DEF m
<1> QED BY ZenonT(60), <1>11, <1>12, <1>13, <1>14, <1>15, <1>16, <1>17, <1>18 DEF Listed

LEMMA ListedEnd ==
    ASSUME NEW x \in Listing, Listed(x), x.chan # <<>>, x.at # "done", Head(x.chan) = "nil",
           NEW y \in Listing, y = [x EXCEPT !.chan = Tail(@), !.at = "done"]
    PROVE  Listed(y) /\ x.at = "sent"
<1> USE TableAssumption
<1>1. /\ y.at = "done" /\ y.left = x.left /\ y.chan = Tail(x.chan) /\ y.got = x.got
      /\ y.snap = x.snap /\ x.chan \in Seq(Lines \cup {"nil"}) /\ x.snap \subseteq Lines
  BY DEF Listing
<1>2. /\ Len(x.chan) \in Nat /\ Len(x.chan) >= 1 /\ x.chan[1] = "nil" BY <1>1
<1>3. ~(1 \in 1 .. Body(x))
  <2>1. \A i \in 1 .. Body(x) : x.chan[i] \in Lines BY <1>1 DEF Listed
  <2> QED BY <1>2, <2>1
<1>4. x.at = "sent" /\ Len(x.chan) = 1
  <2>1. CASE x.at = "sent"
    <3> DEFINE len == Len(x.chan)
    <3>1. Body(x) = len - 1 BY <2>1 DEF Body
    <3>2. len \in Nat /\ len >= 1 /\ ~(1 \in 1 .. (len - 1)) BY <1>2, <1>3, <3>1
    <3> HIDE DEF len
    <3>3. len = 1 BY <3>2
    <3> QED BY <2>1, <3>3 DEF len
  <2>2. CASE x.at # "sent"
    <3>1. Body(x) = Len(x.chan) BY <2>2 DEF Body
    <3> QED BY <1>2, <1>3, <3>1
  <2> QED BY <2>1, <2>2
<1>5. y.chan = <<>>
  <2>1. Len(y.chan) = 0 /\ y.chan \in Seq(Lines \cup {"nil"}) BY <1>1, <1>4
  <2> QED BY <2>1, EmptySeq
<1>6. Body(x) = 0 /\ Body(y) = 0 /\ (\A i \in 1 .. 0 : FALSE) BY <1>1, <1>4, <1>5 DEF Body
<1> QED BY <1>1, <1>4, <1>5, <1>6 DEF Listed

\* A step of a listing, or of the request it answers.
LEMMA TabLists ==
    ASSUME TabInv, NEW l \in Listers, Table!List(l) \/ Table!ListerStep(l)
    PROVE  TabInv'
<1> USE TableAssumption DEF TabInv, Table!Nobody
<1> DEFINE x == lister[l]
<1>1. UNCHANGED <<lineList, lineMap, lines, lineLock, waiting, worker, nbrs, announced>>
  BY DEF Table!List, Table!ListerStep, Table!Iter, Table!IterEnd, Table!SendNil, Table!Take,
         Table!Respond, Table!lineVars, Table!nbrVars
<1>2. TabLines' /\ TabKeys' BY <1>1 DEF TabLines, TabKeys
<1>3. TabTurn' BY <1>1 DEF TabTurn
<1>4. TabNbrs' BY <1>1, OwedStands
<1>5. /\ x \in Listing /\ Listed(x) /\ lister \in [Listers -> Listing] /\ Len(x.chan) <= ChanCap
      /\ (l \in readers <=> x.at = "iter") /\ (x.at = "iter" => x.snap = lines)
  BY DEF TabReads
<1>6. x.chan \in Seq(Lines \cup {"nil"}) /\ x.got \in Seq(Lines) /\ lines \subseteq Lines
      /\ x.left \subseteq x.snap /\ x.snap \subseteq Lines
  <2>1. lines \subseteq Lines BY DEF TabLines, Elems
  <2> QED BY <1>5, <2>1 DEF Listing, Listed
<1> DEFINE Turns(y) == lister' = [lister EXCEPT ![l] = y]
<1>7. ASSUME NEW y \in Listing, Turns(y), Listed(y), Len(y.chan) <= ChanCap,
             readers' = IF y.at = "iter" THEN readers \cup {l} ELSE readers \ {l},
             y.at = "iter" => y.snap = lines
      PROVE  TabInv'
  <2>1. /\ lister' \in [Listers -> Listing] /\ lister'[l] = y
        /\ \A other \in Listers : other # l => lister'[other] = lister[other]
    BY <1>5, <1>7
  <2>2. \A other \in Listers : other # l => (other \in readers' <=> other \in readers) BY <1>7
  <2>3. l \in readers' <=> y.at = "iter" BY <1>7
  <2>4. TabReads' BY <1>1, <1>7, <2>1, <2>2, <2>3 DEF TabReads
  <2>5. TabLocks' BY <1>1, <1>7 DEF TabLocks
  <2> QED BY <1>2, <1>3, <1>4, <2>4, <2>5
<1>e. /\ Len(<<>>) = 0 /\ <<>> \in Seq(Lines) /\ <<>> \in Seq(Lines \cup {"nil"})
      /\ DOMAIN <<>> = {} /\ (\A i \in 1 .. 0 : FALSE)
      /\ IsFiniteSet({}) /\ Cardinality({}) = 0
  BY FS_EmptySet
<1>n. Elems(<<>>) = {} BY <1>e DEF Elems
<1>8. CASE Table!List(l)
  <2> DEFINE y == [Table!NoList EXCEPT !.at = "iter", !.left = lines, !.snap = lines]
  <2>1. x.at = "idle" /\ readers' = readers \cup {l} /\ Turns(y) BY <1>8 DEF Table!List
  <2>2. Table!NoList \in Listing BY <1>e DEF Table!NoList, Listing
  <2>3. IsFiniteSet(lines) BY DEF TabLines
  <2>4. /\ y.at = "iter" /\ y.left = lines /\ y.chan = <<>> /\ y.got = <<>> /\ y.snap = lines
    BY DEF Table!NoList
  <2>8. y \in Listing BY <1>6, <2>2 DEF Listing
  <2> HIDE DEF y
  <2>5. Body(y) = 0 BY <1>e, <2>4 DEF Body
  <2>6. Listed(y) BY <1>e, <1>n, <2>3, <2>4, <2>5 DEF Listed
  <2>7. Len(y.chan) <= ChanCap BY <1>e, <2>4
  <2> QED BY <1>7, <2>1, <2>8, <2>4, <2>6, <2>7
<1>9. ASSUME NEW flow \in Lines, Table!Iter(l, flow) PROVE TabInv'
  <2> DEFINE y == [x EXCEPT !.left = @ \ {flow}, !.chan = Append(@, flow)]
  <2>1. x.at = "iter" /\ flow \in x.left /\ Len(x.chan) < ChanCap /\ readers' = readers
    BY <1>9 DEF Table!Iter, Table!Room
  <2>2. flow \in lines BY <1>5, <1>6, <2>1
  <2>3. Turns(y) BY <1>5, <1>9, <2>2 DEF Table!Iter
  <2>4. y \in Listing
    <3>1. Append(x.chan, flow) \in Seq(Lines \cup {"nil"}) BY <1>6
    <3>2. x.left \ {flow} \in SUBSET Lines BY <1>6
    <3> QED BY <1>5, <3>1, <3>2 DEF Listing
  <2>5. Listed(y) BY <1>5, <2>1, <2>4, ListedIter
  <2>6. y.at = "iter" /\ y.snap = x.snap /\ y.chan = Append(x.chan, flow) BY <1>5, <2>1 DEF Listing
  <2>7. Len(Append(x.chan, flow)) = Len(x.chan) + 1 /\ Len(x.chan) \in Nat BY <1>6
  <2> HIDE DEF x, y
  <2>8. Len(y.chan) <= ChanCap BY <2>1, <2>6, <2>7
  <2>9. readers' = readers \cup {l} BY <1>5, <2>1
  <2> QED BY <1>5, <1>7, <2>1, <2>3, <2>4, <2>5, <2>6, <2>8, <2>9
<1>10. CASE Table!IterEnd(l)
  <2> DEFINE y == [x EXCEPT !.at = "nil"]
  <2>1. x.at = "iter" /\ x.left = {} /\ readers' = readers \ {l} /\ Turns(y)
    BY <1>5, <1>10 DEF Table!IterEnd
  <2>2. y \in Listing BY <1>5 DEF Listing
  <2>3. y.at = "nil" /\ y.snap = x.snap /\ y.chan = x.chan /\ y.got = x.got /\ y.left = x.left
    BY <1>5 DEF Listing
  <2>4. Body(y) = Body(x) BY <2>1, <2>3 DEF Body
  <2>5. Listed(y) BY <1>5, <2>1, <2>3, <2>4 DEF Listed
  <2> HIDE DEF y
  <2> QED BY <1>5, <1>7, <2>1, <2>2, <2>3, <2>5
<1>11. CASE Table!SendNil(l)
  <2> DEFINE y == [x EXCEPT !.at = "sent", !.chan = Append(@, "nil")]
  <2>1. x.at = "nil" /\ Len(x.chan) < ChanCap /\ readers' = readers /\ Turns(y)
    BY <1>5, <1>11 DEF Table!SendNil, Table!Room
  <2>2. y \in Listing
    <3>1. Append(x.chan, "nil") \in Seq(Lines \cup {"nil"}) BY <1>6
    <3> QED BY <1>5, <3>1 DEF Listing
  <2>3. Listed(y) BY <1>5, <2>1, <2>2, ListedNil
  <2>4. y.at = "sent" /\ y.chan = Append(x.chan, "nil") BY <1>5 DEF Listing
  <2>5. Len(Append(x.chan, "nil")) = Len(x.chan) + 1 /\ Len(x.chan) \in Nat BY <1>6
  <2> HIDE DEF x, y
  <2>6. Len(y.chan) <= ChanCap BY <2>1, <2>4, <2>5
  <2>7. readers' = readers \ {l} BY <1>5, <2>1
  <2> QED BY <1>7, <2>1, <2>2, <2>3, <2>4, <2>6, <2>7
<1>12. CASE Table!Take(l)
  <2>1. x.chan # <<>> /\ x.at # "done" /\ readers' = readers
    BY <1>12 DEF Table!Take, Table!Ended
  <2>2. /\ Tail(x.chan) \in Seq(Lines \cup {"nil"}) /\ Len(Tail(x.chan)) = Len(x.chan) - 1
        /\ Len(x.chan) \in Nat /\ Head(x.chan) \in Lines \cup {"nil"}
    BY <1>6, <2>1
  <2>3. Len(Tail(x.chan)) <= ChanCap
    <3> DEFINE len == Len(x.chan)
    <3>1. len \in Nat /\ len <= ChanCap /\ Len(Tail(x.chan)) = len - 1 BY <1>5, <2>2
    <3> HIDE DEF len
    <3> QED BY <3>1
  <2>4. CASE Head(x.chan) = "nil"
    <3> DEFINE y == [x EXCEPT !.chan = Tail(@), !.at = "done"]
    <3>1. Turns(y)
      <4>1. lister' = [lister EXCEPT ![l].chan = Tail(@), ![l].at = "done", ![l].got = @]
        BY <1>12, <2>4 DEF Table!Take
      <4>2. [x EXCEPT !.chan = Tail(@), !.at = "done", !.got = @] = y BY <1>5 DEF Listing
      <4> QED BY <1>5, <4>1, <4>2
    <3>2. y \in Listing BY <1>5, <2>2 DEF Listing
    <3>3. Listed(y) /\ x.at = "sent" BY <1>5, <2>1, <2>4, <3>2, ListedEnd
    <3>4. y.at = "done" /\ y.chan = Tail(x.chan) BY <1>5 DEF Listing
    <3> HIDE DEF x, y
    <3>5. readers' = readers \ {l} BY <1>5, <2>1, <3>3
    <3> QED BY <1>7, <2>3, <3>1, <3>2, <3>3, <3>4, <3>5
  <2>5. CASE Head(x.chan) # "nil"
    <3> DEFINE y == [x EXCEPT !.chan = Tail(@), !.got = Append(@, Head(x.chan))]
    <3>1. Turns(y)
      <4>1. lister' = [lister EXCEPT ![l].chan = Tail(@), ![l].at = @, ![l].got = Append(@, Head(x.chan))]
        BY <1>12, <2>5 DEF Table!Take
      <4>2. [x EXCEPT !.chan = Tail(@), !.at = @, !.got = Append(@, Head(x.chan))] = y BY <1>5 DEF Listing
      <4> QED BY <1>5, <4>1, <4>2
    <3>2. y \in Listing
      <4>1. Append(x.got, Head(x.chan)) \in Seq(Lines) BY <1>6, <2>2, <2>5
      <4> QED BY <1>5, <2>2, <4>1 DEF Listing
    <3>3. Listed(y) BY <1>5, <2>1, <2>5, <3>2, ListedTake
    <3>4. y.at = x.at /\ y.snap = x.snap /\ y.chan = Tail(x.chan) BY <1>5 DEF Listing
    <3> HIDE DEF x, y
    <3>5. readers' = IF y.at = "iter" THEN readers \cup {l} ELSE readers \ {l} BY <1>5, <2>1, <3>4
    <3> QED BY <1>5, <1>7, <2>3, <3>1, <3>2, <3>3, <3>4, <3>5
  <2> QED BY <2>4, <2>5
<1>13. CASE Table!Respond(l)
  <2> DEFINE y == Table!NoList
  <2>1. x.at = "done" /\ readers' = readers /\ Turns(y) BY <1>13 DEF Table!Respond
  <2>2. y \in Listing /\ Listed(y) /\ y.at = "idle" /\ y.chan = <<>>
    BY <1>e, <1>n DEF Table!NoList, Listing, Listed, Body
  <2>3. readers' = readers \ {l} BY <1>5, <2>1
  <2>4. Len(y.chan) <= ChanCap BY <1>e, <2>2
  <2> HIDE DEF y
  <2> QED BY <1>7, <2>1, <2>2, <2>3, <2>4
<1> QED BY <1>8, <1>9, <1>10, <1>11, <1>12, <1>13 DEF Table!ListerStep

LEMMA TabInvStep == TabInv /\ [Table!Next]_(Table!tableVars) => TabInv'
<1> SUFFICES ASSUME TabInv, [Table!Next]_(Table!tableVars) PROVE TabInv'
  OBVIOUS
<1>1. CASE UNCHANGED Table!tableVars
  <2>1. UNCHANGED <<lineList, lineMap, lines, lineLock, waiting, readers, worker, lister, nbrs, announced>>
    BY <1>1 DEF Table!tableVars
  <2>2. TabNbrs' BY <2>1, OwedStands DEF TabInv
  <2> QED BY <2>1, <2>2 DEF TabInv, TabKeys, TabLocks, TabTurn, TabLines, TabReads
<1>2. ASSUME NEW w \in Workers, Table!OnFrame(w) \/ Table!WorkerStep(w) PROVE TabInv'
  BY <1>2, TabTakes, TabChanges, TabNeighbors DEF Table!WorkerStep
<1> QED BY <1>1, <1>2, TabLists DEF Table!Next

\* The invariant of this part holds of the switch.
LEMMA TabAlways == Spec => [](part = "table" => TabInv)
<1> DEFINE I == part = "table" => TabInv
<1>1. Init => I BY TabInvInit DEF Init, Only
<1>2. I /\ [Next]_vars => I'
  <2> SUFFICES ASSUME I, [Next]_vars, part' = "table" PROVE TabInv'
    OBVIOUS
  <2>1. part = "table" BY DEF Next, WallNext, LanNext, FabNext, VpnNext, UserNext, TableNext, WebNext,
         DbNext, PrxNext, TunNext, OfWall, OfLan, OfFab, OfVpn, OfUser, OfTable, OfWeb, OfDb, OfPrx,
         OfTun, vars
  <2> QED BY <2>1, TabStep, TabInvStep
<1> QED BY <1>1, <1>2, PTL DEF Spec

\* online.go, neighbor.go: the list, the map and the cache of flows agree when
\* no AddLine runs, a listing that ends has given every flow of the table as it
\* was when it began once and no other, and an address somebody is done with
\* announcing is listed, or the cache of neighbours is full; for any number of
\* sessions, listings, flows and addresses, and any sizes of the caches.
THEOREM TablesSound ==
    Spec => [](part = "table" => Table!InSync /\ Table!ListsSnapshot /\ Table!NeighborsListed)
<1>1. ASSUME TabInv PROVE Table!InSync /\ Table!ListsSnapshot /\ Table!NeighborsListed
  <2> USE <1>1 DEF TabInv
  <2>0. \A S : Table!Cardinality(S) = Cardinality(S) BY DEF Cardinality, Table!Cardinality
  <2>1. Table!InSync
    <3>1. Table!Range(lineList) = Elems(lineList) BY DEF TabLines, Elems, Table!Range
    <3>2. Len(lineList) = Table!Cardinality(lines) BY <2>0 DEF TabLines
    <3> QED BY <3>1, <3>2 DEF TabLines, Table!InSync
  <2>2. Table!ListsSnapshot
    <3>1. ASSUME NEW l \in Listers, lister[l].at = "done"
          PROVE  /\ Table!Range(lister[l].got) = lister[l].snap
                 /\ Len(lister[l].got) = Table!Cardinality(lister[l].snap)
      <4> DEFINE x == lister[l]
      <4>1. Listed(x) /\ x \in Listing BY DEF TabReads
      <4>2. x.left = {} /\ x.chan = <<>> /\ x.got \in Seq(Lines) BY <3>1, <4>1 DEF Listed, Listing
      <4>3. Body(x) = 0 BY <3>1, <4>2 DEF Body
      <4>4. Elems(x.got) = x.snap /\ Len(x.got) = Cardinality(Elems(x.got))
        <5>1. Elems(x.got) \subseteq x.snap \ x.left BY <4>1 DEF Listed
        <5>2. \A c \in x.snap : c \in Elems(x.got) \/ \E i \in 1 .. 0 : x.chan[i] = c
          BY <4>1, <4>2, <4>3 DEF Listed
        <5>3. \A i \in 1 .. 0 : FALSE OBVIOUS
        <5>4. x.snap \subseteq Elems(x.got) BY <5>2, <5>3
        <5> QED BY <4>1, <5>1, <5>4 DEF Listed
      <4>5. Table!Range(x.got) = Elems(x.got) BY <4>2 DEF Elems, Table!Range
      <4> QED BY <2>0, <4>4, <4>5
    <3> QED BY <3>1 DEF Table!ListsSnapshot
  <2>3. Table!NeighborsListed
    <3>1. ASSUME \A w \in Workers : worker[w].at \notin {"replace", "put"}
          PROVE  announced \subseteq nbrs \/ Table!Cardinality(nbrs) = NbrSize
      <4>1. Owed = nbrs BY <3>1 DEF Owed
      <4>2. IsFiniteSet(nbrs) BY TableAssumption, FS_Subset DEF TabNbrs
      <4>3. Cardinality(nbrs) \in Nat /\ Cardinality(nbrs) <= NbrSize /\ NbrSize \in Nat
        BY <4>2, FS_CardinalityType, TableAssumption DEF TabNbrs
      <4>4. announced \subseteq nbrs \/ Cardinality(nbrs) >= NbrSize BY <4>1 DEF TabNbrs
      <4>5. announced \subseteq nbrs \/ Cardinality(nbrs) = NbrSize BY <4>3, <4>4
      <4> QED BY <2>0, <4>5
    <3> QED BY <3>1 DEF Table!NeighborsListed
  <2> QED BY <2>1, <2>2, <2>3
<1>2. (part = "table" => TabInv)
      => (part = "table" => Table!InSync /\ Table!ListsSnapshot /\ Table!NeighborsListed)
  BY <1>1
<1> QED BY <1>2, TabAlways, PTL

----------------------------------------------------------------------------
(* The proxies.                                                            *)
(*                                                                         *)
(* The targets dialled for a connection are consecutive, beginning where   *)
(* the turn was when it came (PrxTurn): Turn(b, i) is the target that is   *)
(* the i-th from b.  As many as there are targets are all of them.         *)

Turn(b, i) == IF b + i - 1 < Targets THEN b + i - 1 ELSE b + i - 1 - Targets

PrxTypes ==
    /\ tried \in [Streams -> Seq(0 .. Targets - 1)]
    /\ conn \in [Prx!All -> [at : {"none", "accepted", "tunnel", "failed", "over"},
                             open : SUBSET Prx!Ends, copies : SUBSET Prx!Ends]]
PrxTurn ==
    cur # Prx!NoConn =>
        /\ conn[cur].at = "accepted" /\ Len(tried[cur]) = fail
        /\ \E b \in 0 .. Targets - 1 :
             /\ \A i \in 1 .. fail : tried[cur][i] = Turn(b, i)
             /\ rr % Targets = Turn(b, fail + 1)
PrxInv == Prx!TypeOK /\ PrxTypes /\ PrxTurn /\ Prx!AllTried

\* A step of a behaviour of this part is one of Proxy.
LEMMA PrxStep == part = "prx" /\ [Next]_vars => part' = "prx" /\ [Prx!Next]_(Prx!proxyVars)
<1> SUFFICES ASSUME part = "prx", [Next]_vars PROVE part' = "prx" /\ [Prx!Next]_(Prx!proxyVars)
  OBVIOUS
<1>1. CASE PrxNext BY <1>1 DEF PrxNext, OfPrx
<1>2. CASE UNCHANGED vars
  BY <1>2 DEF vars, prxVars, Prx!proxyVars, Prx!startVars, Prx!loopVars, Prx!targetVars
<1>3. /\ ~WallNext /\ ~DbNext /\ ~VpnNext /\ ~TunNext /\ ~UserNext /\ ~TableNext
      /\ ~WebNext /\ ~FabNext /\ ~LanNext
  BY DEF WallNext, DbNext, VpnNext, TunNext, UserNext, TableNext, WebNext, FabNext, LanNext,
         OfWall, OfDb, OfVpn, OfTun, OfUser, OfTable, OfWeb, OfFab, OfLan
<1> QED BY <1>1, <1>2, <1>3 DEF Next

\* The assumption without the arithmetic of remainders.
LEMMA PrxBounds ==
    /\ Targets \in Nat \ {0} /\ RRSize \in Nat \ {0}
    /\ "none" \notin Streams /\ Streams \cap Requested = {}
BY PrxAssumption

\* The remainder of the next number.
LEMMA NextTurn ==
    ASSUME NEW t \in Nat \ {0}, NEW a \in Nat
    PROVE  /\ a % t \in 0 .. t - 1
           /\ (a + 1) % t = IF (a % t) + 1 = t THEN 0 ELSE (a % t) + 1
<1>1. a % t \in 0 .. t - 1 /\ a = t * (a \div t) + (a % t) /\ a \div t \in Int OBVIOUS
<1>2. \A q \in Int, r \in 0 .. t - 1 : (t * q + r) % t = r OBVIOUS
<1>3. PICK q \in Int, r \in 0 .. t - 1 : q = a \div t /\ r = a % t BY <1>1
<1>4. a = t * q + r BY <1>1, <1>3
<1>5. CASE r + 1 = t
  <2>1. a + 1 = t * (q + 1) + 0 BY <1>4, <1>5
  <2>2. (t * (q + 1) + 0) % t = 0 BY <1>2
  <2> QED BY <1>1, <1>3, <1>5, <2>1, <2>2
<1>6. CASE r + 1 # t
  <2>1. a + 1 = t * q + (r + 1) /\ r + 1 \in 0 .. t - 1 BY <1>4, <1>6
  <2>2. (t * q + (r + 1)) % t = r + 1 BY <1>2, <2>1
  <2> QED BY <1>1, <1>3, <1>6, <2>1, <2>2
<1> QED BY <1>5, <1>6

\* The counter moves the turn on to the next target, also where it wraps.
LEMMA TurnMoves ==
    ASSUME NEW a \in 0 .. RRSize - 1, NEW b \in 0 .. Targets - 1, NEW f \in 0 .. Targets - 1,
           a % Targets = Turn(b, f + 1)
    PROVE  /\ (a + 1) % RRSize \in 0 .. RRSize - 1
           /\ ((a + 1) % RRSize) % Targets = Turn(b, f + 2)
<1> USE PrxBounds DEF Prx!NoConn
<1>1. a \in Nat /\ a + 1 \in Nat /\ a + 1 <= RRSize OBVIOUS
<1>2. (a + 1) % Targets = IF (a % Targets) + 1 = Targets THEN 0 ELSE (a % Targets) + 1
  BY <1>1, NextTurn
<1>3. (a + 1) % Targets = Turn(b, f + 2)
  <2>1. PICK x \in Int : x = a % Targets BY <1>1, NextTurn
  <2>2. x = IF b + f < Targets THEN b + f ELSE b + f - Targets BY <2>1 DEF Turn
  <2>3. Turn(b, f + 2) = IF b + f + 1 < Targets THEN b + f + 1 ELSE b + f + 1 - Targets
    BY DEF Turn
  <2>4. (a + 1) % Targets = IF x + 1 = Targets THEN 0 ELSE x + 1 BY <1>2, <2>1
  <2> QED BY <2>2, <2>3, <2>4
<1>4. CASE a + 1 < RRSize
  <2>1. (a + 1) % RRSize = a + 1 BY <1>1, <1>4
  <2> QED BY <1>1, <1>3, <1>4, <2>1
<1>5. CASE a + 1 = RRSize
  <2>1. RRSize % RRSize = 0 /\ 0 % Targets = 0 OBVIOUS
  <2>2. (a + 1) % Targets = 0 BY <1>5, PrxAssumption
  <2> QED BY <1>3, <1>5, <2>1, <2>2
<1> QED BY <1>1, <1>4, <1>5

\* The targets in turn are targets, no two the same, and all of them.
LEMMA TurnFacts ==
    ASSUME NEW b \in 0 .. Targets - 1
    PROVE  /\ \A i \in 1 .. Targets : Turn(b, i) \in 0 .. Targets - 1
           /\ \A i, j \in 1 .. Targets : i # j => Turn(b, i) # Turn(b, j)
           /\ \A x \in 0 .. Targets - 1 : \E i \in 1 .. Targets : Turn(b, i) = x
<1> USE PrxBounds DEF Prx!NoConn, Turn
<1>1. ASSUME NEW x \in 0 .. Targets - 1 PROVE \E i \in 1 .. Targets : Turn(b, i) = x
  <2>1. CASE x >= b
    <3>1. x - b + 1 \in 1 .. Targets /\ Turn(b, x - b + 1) = x BY <2>1
    <3> QED BY <3>1
  <2>2. CASE x < b
    <3>1. x - b + 1 + Targets \in 1 .. Targets /\ Turn(b, x - b + 1 + Targets) = x BY <2>2
    <3> QED BY <3>1
  <2> QED BY <2>1, <2>2
<1>2. \A i \in 1 .. Targets : Turn(b, i) \in 0 .. Targets - 1 OBVIOUS
<1>3. \A i, j \in 1 .. Targets : i # j => Turn(b, i) # Turn(b, j) OBVIOUS
<1> QED BY <1>1, <1>2, <1>3

LEMMA PrxInvInit == Prx!Init => PrxInv
<1> SUFFICES ASSUME Prx!Init PROVE PrxInv
  OBVIOUS
<1> USE PrxBounds DEF Prx!NoConn, Prx!Init
<1>1. <<>> \in Seq(0 .. Targets - 1) /\ DOMAIN <<>> = {} OBVIOUS
<1>2. Prx!None \in [at : {"none", "accepted", "tunnel", "failed", "over"},
                    open : SUBSET Prx!Ends, copies : SUBSET Prx!Ends]
  BY DEF Prx!None
<1>3. PrxTypes BY <1>1, <1>2 DEF PrxTypes
<1>4. \A c \in Prx!All : conn[c].at = "none" BY DEF Prx!None
<1>5. Prx!TypeOK
  <2>1. start \in 0 .. Len(Prx!Kinds) /\ rr \in 0 .. RRSize - 1 /\ fail \in 0 .. Targets BY DEF Prx!Kinds
  <2> QED BY <1>4, <2>1 DEF Prx!TypeOK
<1>6. Prx!AllTried BY <1>1, <1>4 DEF Prx!AllTried, Prx!All
<1>7. PrxTurn BY DEF PrxTurn
<1> QED BY <1>3, <1>5, <1>6, <1>7 DEF PrxInv

\* Start, Stop and the Promises know nothing of the connections.
LEMMA PrxStarts ==
    ASSUME PrxInv, \/ Prx!Start \/ Prx!Stop
                   \/ \E p \in {"socks", "tcp", "http"} : Prx!Retry(p) \/ Prx!PortFreed(p)
                   \/ \E i \in 0 .. Targets - 1 : Prx!TargetTurns(i)
    PROVE  PrxInv'
<1> USE DEF PrxInv
<1>1. UNCHANGED <<rr, cur, fail, tried, conn>>
  BY DEF Prx!Start, Prx!Stop, Prx!Retry, Prx!PortFreed, Prx!TargetTurns, Prx!loopVars
<1>2. PrxTypes' /\ PrxTurn' /\ Prx!AllTried' BY <1>1 DEF PrxTypes, PrxTurn, Prx!AllTried
<1>3. /\ start' \in 0 .. Len(Prx!Kinds) /\ stopped' \in BOOLEAN
      /\ down' \subseteq 0 .. Targets - 1
      /\ serves' \in [{"socks", "tcp", "http"} -> {"no", "retries", "yes", "shut", "ended"}]
  <2>1. CASE Prx!Start
    <3>1. start \in {0, 1, 2} /\ Len(Prx!Kinds) = 3 BY <2>1 DEF Prx!Start, Prx!Kinds, Prx!TypeOK
    <3>2. Prx!Kinds[start + 1] \in {"socks", "tcp", "http"} BY <3>1 DEF Prx!Kinds
    <3>3. Prx!Tried(Prx!Kinds[start + 1]) \in {"no", "retries", "yes", "shut", "ended"} BY DEF Prx!Tried
    <3>4. start' \in 0 .. 3 BY <2>1, <3>1 DEF Prx!Start
    <3> QED BY <2>1, <3>1, <3>2, <3>3, <3>4 DEF Prx!Start, Prx!TypeOK, Prx!targetVars
  <2>2. CASE Prx!Stop BY <2>2 DEF Prx!Stop, Prx!TypeOK, Prx!targetVars
  <2>3. ASSUME NEW p \in {"socks", "tcp", "http"}, Prx!Retry(p)
        PROVE  serves' \in [{"socks", "tcp", "http"} -> {"no", "retries", "yes", "shut", "ended"}]
    <3>1. Prx!Tried(p) \in {"no", "retries", "yes", "shut", "ended"} BY DEF Prx!Tried
    <3> QED BY <2>3, <3>1 DEF Prx!Retry, Prx!TypeOK
  <2>4. ASSUME NEW p \in {"socks", "tcp", "http"}, Prx!Retry(p) \/ Prx!PortFreed(p)
        PROVE  UNCHANGED <<start, stopped, down>>
    BY <2>4 DEF Prx!Retry, Prx!PortFreed, Prx!targetVars
  <2>5. ASSUME NEW p \in {"socks", "tcp", "http"}, Prx!PortFreed(p) PROVE UNCHANGED serves
    BY <2>5 DEF Prx!PortFreed
  <2>6. ASSUME NEW i \in 0 .. Targets - 1, Prx!TargetTurns(i)
        PROVE  UNCHANGED <<start, stopped, serves>> /\ down' \subseteq 0 .. Targets - 1
    BY <2>6 DEF Prx!TargetTurns, Prx!TypeOK, Prx!startVars
  <2> QED BY <2>1, <2>2, <2>3, <2>4, <2>5, <2>6 DEF Prx!TypeOK
<1>4. Prx!TypeOK' BY <1>1, <1>3 DEF Prx!TypeOK
<1> QED BY <1>2, <1>4

\* The accept loop takes a connection, dials and gives up.
LEMMA PrxLoop ==
    ASSUME PrxInv, Prx!Dial \/ Prx!GiveUp \/ \E c \in Streams : Prx!Accept(c)
    PROVE  PrxInv'
<1> USE PrxBounds DEF Prx!NoConn, PrxInv
<1>0. UNCHANGED <<start, stopped, serves, down>>
  BY DEF Prx!Dial, Prx!GiveUp, Prx!Accept, Prx!startVars, Prx!targetVars
<1>t. ASSUME NEW c \in Streams,
             rr' \in 0 .. RRSize - 1, fail' \in 0 .. Targets, cur' \in Streams \cup {Prx!NoConn},
             conn' \in [Prx!All -> [at : {"none", "accepted", "tunnel", "failed", "over"},
                                    open : SUBSET Prx!Ends, copies : SUBSET Prx!Ends]]
      PROVE  Prx!TypeOK'
  BY <1>0, <1>t DEF Prx!TypeOK
<1>1. ASSUME NEW c \in Streams, Prx!Accept(c) PROVE PrxInv'
  <2> USE <1>1 DEF Prx!Accept
  <2>1. c \in Prx!All BY DEF Prx!All
  <2>2. /\ tried'[c] = <<>> /\ conn'[c].at = "accepted" /\ fail' = 0 /\ cur' = c /\ rr' = rr
        /\ \A d \in Streams : d # c => tried'[d] = tried[d] /\ conn'[d] = conn[d]
    BY <2>1 DEF PrxTypes, Prx!All
  <2>3. tried' \in [Streams -> Seq(0 .. Targets - 1)] BY DEF PrxTypes
  <2>4. conn' \in [Prx!All -> [at : {"none", "accepted", "tunnel", "failed", "over"},
                               open : SUBSET Prx!Ends, copies : SUBSET Prx!Ends]]
    BY <2>1 DEF PrxTypes, Prx!Ends
  <2>5. rr % Targets \in 0 .. Targets - 1
    <3>1. rr \in Nat BY DEF Prx!TypeOK
    <3> QED BY <3>1, NextTurn
  <2>6. rr % Targets = Turn(rr % Targets, 0 + 1)
    <3>1. PICK b \in 0 .. Targets - 1 : b = rr % Targets BY <2>5
    <3>2. b = Turn(b, 0 + 1) BY DEF Turn
    <3> QED BY <3>1, <3>2
  <2>7. PrxTurn'
    <3>1. \A i \in 1 .. 0 : FALSE OBVIOUS
    <3>2. Len(<<>>) = 0 OBVIOUS
    <3> QED BY <2>2, <2>5, <2>6, <3>1, <3>2 DEF PrxTurn
  <2>8. Prx!AllTried'
    <3>1. DOMAIN <<>> = {} OBVIOUS
    <3> QED BY <2>2, <3>1 DEF Prx!AllTried
  <2>9. Prx!TypeOK' BY <1>t, <2>2, <2>4 DEF Prx!TypeOK
  <2> QED BY <2>3, <2>4, <2>7, <2>8, <2>9 DEF PrxTypes
<1>2. CASE Prx!Dial
  <2>1. PICK c \in Streams : c = cur BY <1>2 DEF Prx!Dial, Prx!TypeOK
  <2>2. PICK b \in 0 .. Targets - 1 :
           /\ \A i \in 1 .. fail : tried[c][i] = Turn(b, i)
           /\ rr % Targets = Turn(b, fail + 1)
    BY <1>2, <2>1 DEF Prx!Dial, PrxTurn
  <2>3. /\ conn[c].at = "accepted" /\ Len(tried[c]) = fail /\ fail \in 0 .. Targets - 1
        /\ rr \in 0 .. RRSize - 1 /\ c \in Prx!All
    BY <1>2, <2>1 DEF Prx!Dial, PrxTurn, Prx!MayTry, Prx!TypeOK, Prx!All
  <2>4. PICK t \in 0 .. Targets - 1 : t = rr % Targets /\ t = Turn(b, fail + 1)
    <3>1. rr \in Nat BY <2>3
    <3>2. rr % Targets \in 0 .. Targets - 1 BY <3>1, NextTurn
    <3> QED BY <2>2, <3>2
  <2>5. rr' \in 0 .. RRSize - 1 /\ rr' % Targets = Turn(b, fail + 2)
    BY <1>2, <2>2, <2>3, TurnMoves DEF Prx!Dial
  <2>6. PICK s \in Seq(0 .. Targets - 1) : s = tried[c] BY DEF PrxTypes
  <2>7. /\ tried' = [tried EXCEPT ![c] = Append(s, t)] /\ tried'[c] = Append(s, t)
        /\ \A d \in Streams : d # c => tried'[d] = tried[d]
    BY <1>2, <2>1, <2>4, <2>6 DEF Prx!Dial, PrxTypes
  <2>8. PICK f \in 0 .. Targets - 1 : f = fail /\ Len(s) = f /\ \A i \in 1 .. f : s[i] = Turn(b, i)
    BY <2>2, <2>3, <2>6
  <2>9. /\ Append(s, t) \in Seq(0 .. Targets - 1) /\ Len(Append(s, t)) = f + 1
        /\ \A i \in 1 .. f + 1 : Append(s, t)[i] = Turn(b, i)
    <3>1. Append(s, t) \in Seq(0 .. Targets - 1) /\ Len(Append(s, t)) = f + 1 BY <2>8
    <3>2. ASSUME NEW i \in 1 .. f + 1 PROVE Append(s, t)[i] = Turn(b, i)
      <4>1. CASE i = f + 1 BY <2>4, <2>8, <4>1
      <4>2. CASE i # f + 1
        <5>1. i \in 1 .. f /\ Append(s, t)[i] = s[i] BY <2>8, <4>2
        <5> QED BY <2>8, <5>1
      <4> QED BY <4>1, <4>2
    <3> QED BY <3>1, <3>2
  <2>10. tried' \in [Streams -> Seq(0 .. Targets - 1)] BY <2>7, <2>9 DEF PrxTypes
  <2>11. \A i, j \in DOMAIN tried'[c] : i # j => tried'[c][i] # tried'[c][j]
    <3>1. DOMAIN Append(s, t) = 1 .. f + 1 BY <2>9
    <3>2. \A i \in 1 .. f + 1 : i \in 1 .. Targets BY <2>8
    <3>3. \A i, j \in 1 .. f + 1 : i # j => Turn(b, i) # Turn(b, j) BY <3>2, TurnFacts
    <3>4. \A i, j \in 1 .. f + 1 : i # j => Append(s, t)[i] # Append(s, t)[j]
      BY <2>9, <3>3, Zenon
    <3> QED BY <2>7, <3>1, <3>4
  <2>12. CASE t \in down
    <3>1. fail' = f + 1 /\ cur' = c /\ conn' = conn BY <1>2, <2>1, <2>4, <2>8, <2>12 DEF Prx!Dial
    <3>2. fail' \in 0 .. Targets BY <2>8, <3>1
    <3>3. PrxTurn'
      <4>1. fail' + 1 = fail + 2 BY <2>8, <3>1
      <4>2. conn'[cur'].at = "accepted" BY <2>3, <3>1
      <4>3. Len(tried'[cur']) = fail' /\ \A i \in 1 .. fail' : tried'[cur'][i] = Turn(b, i)
        BY <2>7, <2>9, <3>1
      <4>4. rr' % Targets = Turn(b, fail' + 1) BY <2>5, <4>1
      <4> HIDE <2>1, <2>2, <2>3, <2>4, <2>6, <2>7, <2>8, <2>9
      <4> QED BY <4>2, <4>3, <4>4 DEF PrxTurn
    <3>4. Prx!AllTried' BY <2>3, <2>7, <2>11, <3>1 DEF Prx!AllTried
    <3>5. Prx!TypeOK' BY <1>t, <2>5, <3>1, <3>2 DEF PrxTypes
    <3> QED BY <2>10, <3>1, <3>3, <3>4, <3>5 DEF PrxTypes
  <2>13. CASE t \notin down
    <3>1. fail' = 0 /\ cur' = Prx!NoConn /\ conn' = [conn EXCEPT ![c] = Prx!Tunnel]
      BY <1>2, <2>1, <2>4, <2>13 DEF Prx!Dial
    <3>2. conn'[c].at = "tunnel" /\ \A d \in Streams : d # c => conn'[d] = conn[d]
      BY <2>3, <3>1 DEF PrxTypes, Prx!All, Prx!Tunnel
    <3>3. conn' \in [Prx!All -> [at : {"none", "accepted", "tunnel", "failed", "over"},
                                 open : SUBSET Prx!Ends, copies : SUBSET Prx!Ends]]
      BY <3>1 DEF PrxTypes, Prx!Tunnel
    <3>4. Prx!AllTried' BY <2>7, <2>11, <3>2 DEF Prx!AllTried
    <3>5. Prx!TypeOK' BY <1>t, <2>5, <3>1, <3>3
    <3> QED BY <2>10, <3>1, <3>3, <3>4, <3>5 DEF PrxTypes, PrxTurn
  <2> QED BY <2>12, <2>13
<1>3. CASE Prx!GiveUp
  <2>1. PICK c \in Streams : c = cur BY <1>3 DEF Prx!GiveUp, Prx!TypeOK
  <2>2. PICK b \in 0 .. Targets - 1 : \A i \in 1 .. fail : tried[c][i] = Turn(b, i)
    BY <1>3, <2>1 DEF Prx!GiveUp, PrxTurn
  <2>3. Len(tried[c]) = Targets /\ fail = Targets /\ c \in Prx!All
    BY <1>3, <2>1 DEF Prx!GiveUp, PrxTurn, Prx!MayTry, Prx!TypeOK, Prx!All
  <2>4. /\ conn' = [conn EXCEPT ![c].at = "failed"] /\ cur' = Prx!NoConn /\ fail' = 0 /\ tried' = tried /\ rr' = rr
    BY <1>3, <2>1 DEF Prx!GiveUp
  <2>5. \A d \in Streams : d # c => conn'[d] = conn[d] BY <2>3, <2>4 DEF PrxTypes, Prx!All
  <2>6. conn' \in [Prx!All -> [at : {"none", "accepted", "tunnel", "failed", "over"},
                               open : SUBSET Prx!Ends, copies : SUBSET Prx!Ends]]
    BY <2>4 DEF PrxTypes
  <2>7. {tried[c][i] : i \in DOMAIN tried[c]} = 0 .. Targets - 1
    <3>1. DOMAIN tried[c] = 1 .. Targets BY <2>3 DEF PrxTypes
    <3>2. \A i \in 1 .. Targets : tried[c][i] = Turn(b, i) BY <2>2, <2>3
    <3>3. /\ \A i \in 1 .. Targets : tried[c][i] \in 0 .. Targets - 1
          /\ \A x \in 0 .. Targets - 1 : \E i \in 1 .. Targets : tried[c][i] = x
      <4>1. /\ \A i \in 1 .. Targets : Turn(b, i) \in 0 .. Targets - 1
            /\ \A x \in 0 .. Targets - 1 : \E i \in 1 .. Targets : Turn(b, i) = x
        BY TurnFacts
      <4> QED BY <3>2, <4>1, Zenon
    <3> QED BY <3>1, <3>3, Zenon
  <2>8. Prx!AllTried' BY <2>4, <2>5, <2>7 DEF Prx!AllTried
  <2>9. Prx!TypeOK' BY <1>t, <2>4, <2>6 DEF Prx!TypeOK
  <2> QED BY <2>4, <2>6, <2>8, <2>9 DEF PrxTypes, PrxTurn
<1> QED BY <1>1, <1>2, <1>3

\* A tunnel is none of the connection that the loop is busy with.
LEMMA PrxTunnels ==
    ASSUME PrxInv, \/ \E c \in Requested : Prx!Connect(c)
                   \/ \E c \in Prx!All : \/ Prx!TunnelEnds(c)
                                         \/ \E e \in Prx!Ends : Prx!Hangup(c, e) \/ Prx!CopyEnds(c, e)
    PROVE  PrxInv'
<1> USE PrxBounds DEF Prx!NoConn, PrxInv
<1>0. UNCHANGED <<start, stopped, serves, taken, down, rr, cur, fail>>
  BY DEF Prx!Connect, Prx!TunnelEnds, Prx!Hangup, Prx!CopyEnds, Prx!startVars, Prx!loopVars, Prx!targetVars
<1> DEFINE Q ==
         /\ conn' \in [Prx!All -> [at : {"none", "accepted", "tunnel", "failed", "over"},
                                   open : SUBSET Prx!Ends, copies : SUBSET Prx!Ends]]
         /\ \A d \in Streams : conn[d].at = "accepted" <=> conn'[d].at = "accepted"
         /\ \A d \in Streams : conn'[d].at = "failed" => conn[d].at = "failed"
         /\ \A d \in Streams : tried'[d] = tried[d] \/ (tried'[d] = <<>> /\ conn'[d].at = "over"
                                                        /\ conn[d].at = "tunnel")
         /\ tried' \in [Streams -> Seq(0 .. Targets - 1)]
<1>1. Q
  <2>1. ASSUME NEW c \in Requested, Prx!Connect(c) PROVE Q
    <3>1. c \in Prx!All /\ c \notin Streams BY DEF Prx!All
    <3>2. \A d \in Streams : conn'[d] = conn[d] BY <2>1, <3>1 DEF Prx!Connect, PrxTypes, Prx!All
    <3>3. conn' \in [Prx!All -> [at : {"none", "accepted", "tunnel", "failed", "over"},
                                 open : SUBSET Prx!Ends, copies : SUBSET Prx!Ends]]
      BY <2>1 DEF Prx!Connect, PrxTypes, Prx!Tunnel
    <3>4. tried' = tried BY <2>1 DEF Prx!Connect, Prx!loopVars
    <3> QED BY <3>2, <3>3, <3>4 DEF PrxTypes
  <2>2. ASSUME NEW c \in Prx!All, NEW e \in Prx!Ends, Prx!Hangup(c, e) \/ Prx!CopyEnds(c, e) PROVE Q
    <3>1. \A d \in Streams : conn'[d].at = conn[d].at
      BY <2>2 DEF Prx!Hangup, Prx!CopyEnds, PrxTypes, Prx!All
    <3>2. conn' \in [Prx!All -> [at : {"none", "accepted", "tunnel", "failed", "over"},
                                 open : SUBSET Prx!Ends, copies : SUBSET Prx!Ends]]
      <4>1. /\ conn[c] \in [at : {"none", "accepted", "tunnel", "failed", "over"},
                            open : SUBSET Prx!Ends, copies : SUBSET Prx!Ends]
            /\ conn[c].open \ {e} \in SUBSET Prx!Ends /\ conn[c].copies \ {e} \in SUBSET Prx!Ends
        BY DEF PrxTypes
      <4>2. CASE Prx!Hangup(c, e)
        <5>1. conn' = [conn EXCEPT ![c] = [conn[c] EXCEPT !.open = conn[c].open \ {e}]]
          BY <4>2 DEF Prx!Hangup
        <5> QED BY <4>1, <5>1 DEF PrxTypes
      <4>3. CASE Prx!CopyEnds(c, e)
        <5>1. conn' = [conn EXCEPT ![c] = [conn[c] EXCEPT !.copies = conn[c].copies \ {e}]]
          BY <4>3 DEF Prx!CopyEnds
        <5> QED BY <4>1, <5>1 DEF PrxTypes
      <4> QED BY <2>2, <4>2, <4>3
    <3>3. tried' = tried BY <2>2 DEF Prx!Hangup, Prx!CopyEnds, Prx!loopVars
    <3> QED BY <3>1, <3>2, <3>3 DEF PrxTypes
  <2>3. ASSUME NEW c \in Prx!All, Prx!TunnelEnds(c) PROVE Q
    <3>1. conn' \in [Prx!All -> [at : {"none", "accepted", "tunnel", "failed", "over"},
                                 open : SUBSET Prx!Ends, copies : SUBSET Prx!Ends]]
      BY <2>3 DEF Prx!TunnelEnds, PrxTypes
    <3>2. conn[c].at = "tunnel" /\ conn'[c].at = "over" BY <2>3 DEF Prx!TunnelEnds, PrxTypes
    <3>3. \A d \in Streams : d # c => conn'[d] = conn[d] BY <2>3 DEF Prx!TunnelEnds, PrxTypes, Prx!All
    <3>4. \A d \in Streams : tried'[d] = IF d = c THEN <<>> ELSE tried[d] BY <2>3 DEF Prx!TunnelEnds
    <3>5. tried' \in [Streams -> Seq(0 .. Targets - 1)]
      <4>1. \A d \in Streams : tried[d] \in Seq(0 .. Targets - 1) BY DEF PrxTypes
      <4>2. <<>> \in Seq(0 .. Targets - 1) OBVIOUS
      <4>3. \A d \in Streams : tried'[d] \in Seq(0 .. Targets - 1) BY <3>4, <4>1, <4>2
      <4>4. tried' = [d \in Streams |-> tried'[d]] BY <2>3 DEF Prx!TunnelEnds
      <4> QED BY <4>3, <4>4
    <3> QED BY <3>1, <3>2, <3>3, <3>4, <3>5
  <2> QED BY <2>1, <2>2, <2>3
<1>2. Prx!TypeOK' BY <1>0, <1>1 DEF Prx!TypeOK
<1>3. PrxTurn'
  <2> SUFFICES ASSUME cur' # Prx!NoConn PROVE PrxTurn'
    BY DEF PrxTurn
  <2>1. cur \in Streams /\ cur # Prx!NoConn /\ conn[cur].at = "accepted" BY <1>0 DEF PrxTurn, Prx!TypeOK
  <2>2. tried'[cur] = tried[cur] /\ conn'[cur].at = "accepted" BY <1>1, <2>1
  <2> QED BY <1>0, <2>1, <2>2 DEF PrxTurn
<1>4. Prx!AllTried'
  <2> SUFFICES ASSUME NEW d \in Streams
               PROVE  /\ conn'[d].at = "failed" => {tried'[d][i] : i \in DOMAIN tried'[d]} = 0 .. Targets - 1
                      /\ \A i, j \in DOMAIN tried'[d] : i # j => tried'[d][i] # tried'[d][j]
    BY DEF Prx!AllTried
  <2>1. CASE tried'[d] = tried[d] BY <1>1, <2>1 DEF Prx!AllTried
  <2>2. CASE tried'[d] = <<>> /\ conn'[d].at = "over"
    <3>1. DOMAIN <<>> = {} OBVIOUS
    <3> QED BY <2>2, <3>1
  <2> QED BY <1>1, <2>1, <2>2
<1> QED BY <1>1, <1>2, <1>3, <1>4 DEF PrxTypes

LEMMA PrxInvStep == PrxInv /\ [Prx!Next]_(Prx!proxyVars) => PrxInv'
<1> SUFFICES ASSUME PrxInv, [Prx!Next]_(Prx!proxyVars) PROVE PrxInv'
  OBVIOUS
<1>1. CASE UNCHANGED Prx!proxyVars
  BY <1>1 DEF Prx!proxyVars, Prx!startVars, Prx!loopVars, Prx!targetVars, PrxInv, Prx!TypeOK,
     PrxTypes, PrxTurn, Prx!AllTried
<1> QED BY <1>1, PrxStarts, PrxLoop, PrxTunnels DEF Prx!Next

\* The invariant of this part holds of the switch.
LEMMA PrxAlways == Spec => [](part = "prx" => PrxInv)
<1> DEFINE I == part = "prx" => PrxInv
<1>1. Init => I BY PrxInvInit DEF Init, Only
<1>2. I /\ [Next]_vars => I'
  <2> SUFFICES ASSUME I, [Next]_vars, part' = "prx" PROVE PrxInv'
    OBVIOUS
  <2>1. part = "prx" BY DEF Next, WallNext, LanNext, FabNext, VpnNext, UserNext, TableNext, WebNext,
         DbNext, PrxNext, TunNext, OfWall, OfLan, OfFab, OfVpn, OfUser, OfTable, OfWeb, OfDb, OfPrx,
         OfTun, vars
  <2> QED BY <2>1, PrxStep, PrxInvStep
<1> QED BY <1>1, <1>2, PTL DEF Spec

\* tcp.go, loadBalance: a connection is given up only after every target was
\* dialled for it, and none is dialled twice for one, wherever the turn was and
\* also where its counter wraps; for any targets and connections.
THEOREM TargetsTried == Spec => [](part = "prx" => Prx!AllTried)
<1>1. (part = "prx" => PrxInv) => (part = "prx" => Prx!AllTried) BY DEF PrxInv
<1> QED BY <1>1, PrxAlways, PTL

----------------------------------------------------------------------------
(* The store of users (Users).                                             *)
(*                                                                         *)
(* What Load makes of a file is a recursion over its lines; its value is   *)
(* followed along the lines that Save appends.  UserFile compares the table *)
(* with what a restart would read back, at every point of a Save: who is   *)
(* still to be written (call.left) would be lost, and everybody else would *)
(* be read back as in the table, or, before the file is opened, as in the  *)
(* table of before the call.  UserDoor: a name that was sent on to LDAP is *)
(* not that of a local user, while no other call can add one.              *)

\* Load after i of the lines of f.
LoadStep(f, g, i) ==
    IF i = 0 THEN [m \in Logins |-> NoUser]
    ELSE User!Added(g[i - 1], f[i][1], User!Parsed(f[i]))

Loads(f, len, g) == g = [i \in 0 .. len |-> LoadStep(f, g, i)]

\* The recursion of Load is defined for every file,
LEMMA LoadsExists ==
    ASSUME NEW f, NEW len \in Nat
    PROVE  \E g : Loads(f, len, g)
<1> DEFINE T == { i \in 0 .. len : \E g : Loads(f, i, g) }
<1>1. 0 \in T
  <2> DEFINE g == [i \in 0 .. 0 |-> [m \in Logins |-> NoUser]]
  <2>1. g = [i \in 0 .. 0 |-> LoadStep(f, g, i)] BY DEF LoadStep
  <2>2. Loads(f, 0, g) BY <2>1 DEF Loads
  <2> QED BY <2>2
<1>2. ASSUME NEW i \in 1 .. len, i - 1 \in T PROVE i \in T
  <2>1. PICK g : Loads(f, i - 1, g) BY <1>2
  <2>2. g = [x \in 0 .. i - 1 |-> LoadStep(f, g, x)] BY <2>1 DEF Loads
  <2> DEFINE h == [x \in 0 .. i |-> IF x = i THEN LoadStep(f, g, i) ELSE g[x]]
  <2>3. ASSUME NEW x \in 0 .. i PROVE h[x] = LoadStep(f, h, x)
    <3>1. CASE x = 0 BY <3>1, <2>2 DEF LoadStep
    <3>2. CASE x = i
      <4>1. x - 1 \in 0 .. i /\ x - 1 # i /\ x # 0 BY <3>2
      <4>2. h[x - 1] = g[x - 1] BY <4>1
      <4> HIDE DEF h
      <4>3. LoadStep(f, h, x) = LoadStep(f, g, x) BY <4>1, <4>2 DEF LoadStep
      <4> QED BY <4>3, <3>2 DEF h
    <3>3. CASE x # 0 /\ x # i
      <4>1. x - 1 \in 0 .. i /\ x - 1 # i /\ x \in 0 .. i - 1 BY <3>3
      <4>2. h[x - 1] = g[x - 1] /\ h[x] = g[x] BY <4>1, <3>3
      <4>3. g[x] = LoadStep(f, g, x) BY <2>2, <4>1
      <4> HIDE DEF h
      <4>4. LoadStep(f, h, x) = LoadStep(f, g, x) BY <3>3, <4>2 DEF LoadStep
      <4> QED BY <4>2, <4>3, <4>4
    <3> QED BY <3>1, <3>2, <3>3
  <2>4. h = [x \in 0 .. i |-> h[x]] OBVIOUS
  <2> HIDE DEF h
  <2>5. Loads(f, i, h) BY <2>3, <2>4 DEF Loads
  <2> QED BY <2>5
<1> HIDE DEF T
<1>3. \A i \in 0 .. len : i \in T BY <1>1, <1>2, Upto
<1>4. len \in T BY <1>3
<1> QED BY <1>4 DEF T

\* its value depends on the lines read so far only,
LEMMA LoadsAgree ==
    ASSUME NEW f, NEW g, NEW e, NEW h, NEW len \in Nat, NEW long \in Nat, len <= long,
           Loads(f, len, g), Loads(e, long, h), \A i \in 1 .. len : f[i] = e[i]
    PROVE  g[len] = h[len]
<1> DEFINE T == { i \in 0 .. len : g[i] = h[i] }
<1>1. g = [x \in 0 .. len |-> LoadStep(f, g, x)] BY DEF Loads
<1>2. h = [x \in 0 .. long |-> LoadStep(e, h, x)] BY DEF Loads
<1>3. 0 \in T
  <2>1. 0 \in 0 .. len /\ 0 \in 0 .. long OBVIOUS
  <2>2. g[0] = LoadStep(f, g, 0) /\ h[0] = LoadStep(e, h, 0) BY <1>1, <1>2, <2>1
  <2> QED BY <2>1, <2>2 DEF LoadStep
<1>4. ASSUME NEW i \in 1 .. len, i - 1 \in T PROVE i \in T
  <2>1. i \in 0 .. len /\ i \in 0 .. long /\ i # 0 OBVIOUS
  <2>2. g[i] = LoadStep(f, g, i) /\ h[i] = LoadStep(e, h, i) BY <1>1, <1>2, <2>1
  <2>3. g[i - 1] = h[i - 1] BY <1>4
  <2>4. f[i] = e[i] OBVIOUS
  <2>5. LoadStep(f, g, i) = LoadStep(e, h, i) BY <2>1, <2>3, <2>4 DEF LoadStep
  <2> QED BY <2>1, <2>2, <2>5
<1> HIDE DEF T
<1>5. \A i \in 0 .. len : i \in T BY <1>3, <1>4, Upto
<1>6. len \in T BY <1>5
<1> QED BY <1>6 DEF T

\* and it ends in what Loaded returns.
LEMMA LoadedIs ==
    ASSUME NEW f, Len(f) \in Nat
    PROVE  \E g : Loads(f, Len(f), g) /\ User!Loaded(f) = g[Len(f)]
<1> DEFINE g == CHOOSE h : Loads(f, Len(f), h)
<1>1. Loads(f, Len(f), g) BY LoadsExists
<1>2. User!Loaded(f) = g[Len(f)] BY DEF User!Loaded, Loads, LoadStep
<1> QED BY <1>1, <1>2

\* An empty file has no user, and one line more adds one entry.
LEMMA LoadedEmpty == User!Loaded(<<>>) = [m \in Logins |-> NoUser]
<1>1. Len(<<>>) = 0 OBVIOUS
<1>2. PICK g : Loads(<<>>, 0, g) /\ User!Loaded(<<>>) = g[0] BY <1>1, LoadedIs
<1>3. g = [i \in 0 .. 0 |-> LoadStep(<<>>, g, i)] BY <1>2 DEF Loads
<1>4. g[0] = LoadStep(<<>>, g, 0) BY <1>3
<1> QED BY <1>2, <1>4 DEF LoadStep

\* A line at the end of the file is one entry more.
LEMMA LoadedAppend ==
    ASSUME NEW S, NEW f \in Seq(S), NEW l \in S
    PROVE  User!Loaded(Append(f, l)) = User!Added(User!Loaded(f), l[1], User!Parsed(l))
<1> DEFINE e == Append(f, l)
           len == Len(f)
<1>1. len \in Nat /\ Len(e) = len + 1 /\ e[len + 1] = l /\ \A i \in 1 .. len : f[i] = e[i]
  OBVIOUS
<1> HIDE DEF e, len
<1>2. PICK g : Loads(f, len, g) /\ User!Loaded(f) = g[len] BY <1>1, LoadedIs DEF len
<1>3. PICK h : Loads(e, len + 1, h) /\ User!Loaded(e) = h[len + 1]
  <2>1. Len(e) \in Nat BY <1>1
  <2> QED BY <1>1, <2>1, LoadedIs
<1>4. g[len] = h[len]
  <2> DEFINE long == len + 1
  <2>1. len \in Nat /\ long \in Nat /\ len <= long BY <1>1
  <2>2. Loads(f, len, g) /\ Loads(e, long, h) /\ \A i \in 1 .. len : f[i] = e[i]
    BY <1>1, <1>2, <1>3
  <2> HIDE DEF long
  <2> QED BY ONLY <2>1, <2>2, LoadsAgree
<1>5. h[len + 1] = LoadStep(e, h, len + 1)
  <2>1. len + 1 \in 0 .. len + 1 BY <1>1
  <2>2. h = [i \in 0 .. len + 1 |-> LoadStep(e, h, i)] BY <1>3 DEF Loads
  <2> QED BY <2>1, <2>2
<1>6. len + 1 # 0 /\ (len + 1) - 1 = len BY <1>1
<1>7. LoadStep(e, h, len + 1) = User!Added(h[len], l[1], User!Parsed(l))
  BY <1>1, <1>6 DEF LoadStep
<1> QED BY <1>2, <1>3, <1>4, <1>5, <1>7 DEF e

\* Passwords and entries of the table, also those that are read back from a
\* line with too many fields, and the lines of the file.
Secrets == Passes \cup {NoPass} \cup {<<x>> : x \in PassFields}
Entry == [pass : Secrets, role : Roles \cup PassFields \cup {"ldap"}, lease : Leases]
UserLines == { User!Line(m, u) : m \in Logins, u \in Entry }

UserShape ==
    /\ users \in [Logins -> Entry \cup {NoUser}]
    /\ before \in [Logins -> Entry \cup {NoUser}]
    /\ file \in Seq(UserLines)
    /\ call \in [at : {"idle", "open", "save", "ldap"}, name : Logins \cup {NoUser},
                 pass : Passes \cup {NoPass}, left : SUBSET Logins]
    /\ torn \in BOOLEAN /\ userCalls \in 0 .. MaxCalls
    /\ accepted.by \in {"no", "local", "ldap"}

\* t is what the file keeps of u.
Keeps(u, t) ==
    IF User!IsLocal(u) THEN t # NoUser /\ (User!Plain(u) => t = u) ELSE t = NoUser

UserFile(t) ==
    /\ \A m \in Logins : t[m] = NoUser \/ (t[m] \in Entry /\ t[m].role # "ldap")
    /\ call.at \in {"idle", "ldap"} /\ ~torn => \A m \in Logins : Keeps(users[m], t[m])
    /\ call.at = "open" /\ ~torn => \A m \in Logins : Keeps(before[m], t[m])
    /\ call.at = "save" =>
         /\ \A m \in call.left : users[m] # NoUser /\ t[m] = NoUser
         /\ ~torn => \A m \in Logins \ call.left : Keeps(users[m], t[m])

UserDoor ==
    /\ call.at = "ldap" => call.name \in Logins /\ User!MayAsk(users[call.name])
    /\ User!OneDoor

UserInv == UserShape /\ UserFile(User!Loaded(file)) /\ UserDoor

\* A step of a behaviour of this part is one of Users.
LEMMA UserStep == part = "user" /\ [Next]_vars => part' = "user" /\ [User!Next]_(User!userVars)
<1> SUFFICES ASSUME part = "user", [Next]_vars PROVE part' = "user" /\ [User!Next]_(User!userVars)
  OBVIOUS
<1>1. CASE UserNext BY <1>1 DEF UserNext, OfUser
<1>2. CASE UNCHANGED vars BY <1>2 DEF vars, userVars, User!userVars
<1>3. /\ ~WallNext /\ ~LanNext /\ ~VpnNext /\ ~TunNext /\ ~DbNext /\ ~TableNext
      /\ ~WebNext /\ ~FabNext /\ ~PrxNext
  BY DEF WallNext, LanNext, VpnNext, TunNext, DbNext, TableNext, WebNext, FabNext, PrxNext,
         OfWall, OfLan, OfVpn, OfTun, OfDb, OfTable, OfWeb, OfFab, OfPrx
<1> QED BY <1>1, <1>2, <1>3 DEF Next

\* A password is a sequence of fields; its first one alone is a password.
LEMMA SecretParts ==
    ASSUME NEW p \in Secrets
    PROVE  /\ p \in Seq({p[i] : i \in DOMAIN p}) /\ Len(p) \in Nat \ {0}
           /\ <<p[1]>> \in Secrets
           /\ Len(p) > 1 => p[2] \in PassFields /\ p[2] # "ldap"
<1>1. ASSUME NEW x \in PassFields, p = <<x>>
      PROVE  p \in Seq({p[i] : i \in DOMAIN p}) /\ Len(p) = 1 /\ <<p[1]>> = p
  <2>1. DOMAIN p = {1} /\ p[1] = x /\ Len(p) = 1 BY <1>1
  <2>2. \A i \in 1 .. Len(p) : p[i] \in {p[j] : j \in DOMAIN p} BY <2>1
  <2>3. p = [i \in 1 .. Len(p) |-> p[i]] BY <1>1
  <2> QED BY <1>1, <2>1, <2>2, <2>3
<1>2. CASE \E x \in PassFields : p = <<x>> BY <1>1, <1>2
<1>3. CASE p \in Passes
  <2>1. p \in Seq({p[i] : i \in DOMAIN p}) /\ p # <<>> BY <1>3, UserAssumption
  <2>2. DOMAIN p = 1 .. Len(p) /\ Len(p) \in Nat \ {0} BY <2>1
  <2>3. p[1] \in PassFields BY <1>3, <2>2 DEF PassFields
  <2>4. <<p[1]>> \in Secrets BY <2>3 DEF Secrets
  <2>5. ASSUME Len(p) > 1 PROVE p[2] \in PassFields /\ p[2] # "ldap"
    <3>1. 2 \in DOMAIN p BY <2>2, <2>5
    <3> QED BY <1>3, <2>5, <3>1, UserAssumption DEF PassFields
  <2> QED BY <2>1, <2>2, <2>4, <2>5
<1>4. CASE p = NoPass
  <2>1. p \in Seq({p[i] : i \in DOMAIN p}) /\ Len(p) = 1 BY <1>4, UserAssumption
  <2>2. p = <<p[1]>> BY <2>1
  <2> QED BY <1>4, <2>1, <2>2 DEF Secrets
<1> QED BY <1>2, <1>3, <1>4 DEF Secrets

\* What Load makes of the line that Save wrote.
LEMMA LineCells ==
    ASSUME NEW S, NEW p \in Seq(S), Len(p) \in Nat \ {0}, NEW m \in S, NEW r \in S, NEW h \in S
    PROVE  LET l == <<m>> \o p \o <<r, h>>
           IN  /\ Len(l) = Len(p) + 3 /\ l[1] = m /\ l[2] = p[1]
               /\ l[3] = IF Len(p) = 1 THEN r ELSE p[2]
               /\ Len(p) = 1 => l[4] = h
<1>1. <<m>> \in Seq(S) /\ <<r, h>> \in Seq(S) /\ Len(<<m>>) = 1 /\ Len(<<r, h>>) = 2
      /\ <<m>>[1] = m /\ <<r, h>>[1] = r /\ <<r, h>>[2] = h
  OBVIOUS
<1> DEFINE a == <<m>> \o p
           b == <<r, h>>
<1>2. a \in Seq(S) /\ Len(a) = Len(p) + 1 /\ a[1] = m /\ \A i \in 1 .. Len(p) : a[i + 1] = p[i]
  <2>1. a \in Seq(S) /\ Len(a) = Len(p) + 1 BY <1>1
  <2>2. a[1] = m BY <1>1
  <2>3. ASSUME NEW i \in 1 .. Len(p) PROVE a[i + 1] = p[i] BY <1>1, <2>3
  <2> QED BY <2>1, <2>2, <2>3
<1>3. /\ Len(a \o b) = Len(a) + 2 /\ (a \o b)[Len(a) + 1] = r /\ (a \o b)[Len(a) + 2] = h
      /\ \A i \in 1 .. Len(a) : (a \o b)[i] = a[i]
  <2> HIDE DEF a
  <2>0. b \in Seq(S) /\ Len(b) = 2 BY <1>1
  <2>1. Len(a \o b) = Len(a) + 2 BY <1>1, <1>2, <2>0
  <2>2. (a \o b)[Len(a) + 1] = r BY <1>1, <1>2, <2>0
  <2>3. (a \o b)[Len(a) + 2] = h BY <1>1, <1>2, <2>0
  <2>4. ASSUME NEW i \in 1 .. Len(a) PROVE (a \o b)[i] = a[i] BY <1>2, <2>0, <2>4
  <2> QED BY <2>1, <2>2, <2>3, <2>4
<1> HIDE DEF a, b
<1>4. (a \o b)[1] = m /\ (a \o b)[2] = p[1]
  <2>1. 1 \in 1 .. Len(a) /\ 2 \in 1 .. Len(a) /\ 1 \in 1 .. Len(p) /\ 1 + 1 = 2 BY <1>2
  <2> QED BY <1>2, <1>3, <2>1
<1>5. CASE Len(p) = 1
  <2>1. Len(a) + 1 = 3 /\ Len(a) + 2 = 4 BY <1>2, <1>5
  <2> QED BY <1>2, <1>3, <1>4, <1>5, <2>1 DEF a, b
<1>6. CASE Len(p) # 1
  <2>a. \A len \in Nat \ {0} : len # 1 => len \in Nat /\ len > 1 OBVIOUS
  <2>0. Len(p) \in Nat /\ Len(p) > 1 BY <1>6, <2>a
  <2>1. 3 \in 1 .. Len(a) /\ 2 \in 1 .. Len(p) /\ 2 + 1 = 3 BY <1>2, <2>0
  <2>2. (a \o b)[3] = p[2] BY <1>2, <1>3, <2>1
  <2> QED BY <1>2, <1>3, <1>4, <1>6, <2>2 DEF a, b
<1> QED BY <1>5, <1>6

\* What is read back of a user is its entry, but for a password of many fields.
LEMMA LineRead ==
    ASSUME NEW m \in Logins, NEW u \in Entry, u.role # "ldap"
    PROVE  LET l == User!Line(m, u)
           IN  /\ l[1] = m /\ User!Parsed(l) \in Entry /\ User!Parsed(l).role # "ldap"
               /\ User!Plain(u) => User!Parsed(l) = u
<1> DEFINE l == User!Line(m, u)
           p == u.pass
           S == {p[i] : i \in DOMAIN p} \cup {m, u.role, u.lease}
<1>1. p \in Secrets /\ u.role \in Roles \cup PassFields \cup {"ldap"} /\ u.lease \in Leases
  BY DEF Entry
<1>2. /\ p \in Seq({p[i] : i \in DOMAIN p}) /\ Len(p) \in Nat \ {0}
      /\ <<p[1]>> \in Secrets
      /\ Len(p) > 1 => p[2] \in PassFields /\ p[2] # "ldap"
  BY <1>1, SecretParts
<1>3. p \in Seq(S) BY <1>2
<1>4. m \in S /\ u.role \in S /\ u.lease \in S OBVIOUS
<1> HIDE DEF S, p
<1>5. /\ Len(l) = Len(p) + 3 /\ l[1] = m /\ l[2] = p[1]
      /\ l[3] = IF Len(p) = 1 THEN u.role ELSE p[2]
      /\ Len(p) = 1 => l[4] = u.lease
  BY <1>2, <1>3, <1>4, LineCells DEF User!Line, p
<1> HIDE DEF l
<1> DEFINE x == IF Len(l) = 4 THEN l[4] ELSE 0
<1>6. User!Parsed(l) = [pass |-> <<l[2]>>, role |-> l[3], lease |-> x]
  BY DEF User!Parsed, User!User
<1>7. Len(l) = 4 <=> Len(p) = 1
  <2>1. \A len \in Nat : len + 3 = 4 <=> len = 1 OBVIOUS
  <2>2. Len(p) \in Nat /\ Len(l) = Len(p) + 3 BY <1>2, <1>5
  <2> QED BY <2>1, <2>2
<1>8. x \in Leases BY <1>1, <1>5, <1>7, UserAssumption
<1>9. l[3] \in Roles \cup PassFields \cup {"ldap"} /\ l[3] # "ldap"
  <2>1. CASE Len(p) = 1 BY <1>1, <1>5, <2>1
  <2>2. CASE Len(p) # 1
    <3>1. Len(p) > 1 BY <1>2, <2>2
    <3> QED BY <1>2, <1>5, <2>2, <3>1
  <2> QED BY <2>1, <2>2
<1>10. <<l[2]>> \in Secrets BY <1>2, <1>5
<1>11. User!Parsed(l) \in Entry /\ User!Parsed(l).role # "ldap"
  BY <1>6, <1>8, <1>9, <1>10 DEF Entry
<1>12. ASSUME User!Plain(u) PROVE User!Parsed(l) = u
  <2>1. Len(p) = 1 BY <1>12 DEF User!Plain, p
  <2>2. x = u.lease /\ l[3] = u.role BY <1>5, <1>7, <2>1
  <2>3. p = <<p[1]>> BY <1>3, <2>1
  <2>4. <<l[2]>> = u.pass BY <1>5, <2>3 DEF p
  <2>5. u = [pass |-> u.pass, role |-> u.role, lease |-> u.lease] BY DEF Entry
  <2> QED BY <1>6, <2>2, <2>4, <2>5
<1> QED BY <1>5, <1>11, <1>12 DEF l

\* No entry is nobody.
LEMMA EntryNobody == NoUser \notin Entry
BY UserAssumption DEF Entry, Secrets

\* user.Add keeps the entries entries.
LEMMA AddedTable ==
    ASSUME NEW t \in [Logins -> Entry \cup {NoUser}], NEW m \in Logins, NEW u \in Entry
    PROVE  /\ User!Added(t, m, u) \in [Logins -> Entry \cup {NoUser}]
           /\ \A o \in Logins \ {m} : User!Added(t, m, u)[o] = t[o]
           /\ t[m] = NoUser => User!Added(t, m, u)[m] = u
           /\ User!Added(t, m, u)[m] # NoUser
           /\ t[m] # NoUser /\ u.role = "ldap" => User!Added(t, m, u)[m].role = "ldap"
<1> DEFINE e == [pass  |-> IF u.pass = NoPass THEN t[m].pass ELSE u.pass,
                 role  |-> IF u.role = "" THEN t[m].role ELSE u.role,
                 lease |-> IF u.lease = 0 THEN t[m].lease ELSE u.lease]
<1>1. User!Added(t, m, u) = [t EXCEPT ![m] = IF t[m] = NoUser THEN u ELSE e]
  BY DEF User!Added
<1>2. ASSUME t[m] # NoUser PROVE e \in Entry
  <2>1. t[m] \in Entry BY <1>2
  <2> QED BY <2>1 DEF Entry
<1>3. u.role = "ldap" => e.role = "ldap" OBVIOUS
<1> HIDE DEF e
<1>4. (IF t[m] = NoUser THEN u ELSE e) \in Entry BY <1>2
<1> QED BY <1>1, <1>3, <1>4, EntryNobody

\* The switch begins with nobody and an empty file.
LEMMA UserInvInit == User!Init => UserInv
<1> SUFFICES ASSUME User!Init PROVE UserInv
  OBVIOUS
<1> DEFINE t == [m \in Logins |-> NoUser]
<1>1. /\ users = t /\ before = t /\ file = <<>> /\ call = User!Idle
      /\ torn = FALSE /\ userCalls = 0 /\ accepted = User!Nobody
  BY DEF User!Init
<1>2. User!Loaded(file) = t BY <1>1, LoadedEmpty
<1>3. UserShape
  <2>1. file \in Seq(UserLines) BY <1>1
  <2>2. t \in [Logins -> Entry \cup {NoUser}] OBVIOUS
  <2>3. call \in [at : {"idle", "open", "save", "ldap"}, name : Logins \cup {NoUser},
                  pass : Passes \cup {NoPass}, left : SUBSET Logins]
    BY <1>1 DEF User!Idle
  <2>4. accepted.by = "no" BY <1>1 DEF User!Nobody
  <2>5. userCalls \in 0 .. MaxCalls BY <1>1, UserAssumption
  <2> QED BY <1>1, <2>1, <2>2, <2>3, <2>4, <2>5 DEF UserShape
<1>4. call.at = "idle" /\ accepted.by = "no" BY <1>1 DEF User!Idle, User!Nobody
<1>5. \A m \in Logins : t[m] = NoUser /\ users[m] = NoUser BY <1>1
<1>6. UserFile(t) BY <1>4, <1>5 DEF UserFile, Keeps, User!IsLocal
<1> QED BY <1>2, <1>3, <1>4, <1>6 DEF UserInv, UserDoor, User!OneDoor

\* Add and Del.
LEMMA UserBegins ==
    ASSUME UserInv, NEW table \in [Logins -> Entry \cup {NoUser}], User!Begin(table)
    PROVE  UserInv'
<1>1. /\ call = User!Idle /\ call' = [User!Idle EXCEPT !.at = "open"]
      /\ userCalls < MaxCalls /\ userCalls' = userCalls + 1
      /\ users' = table /\ before' = users /\ accepted' = User!Nobody
      /\ file' = file /\ torn' = torn
  BY DEF User!Begin
<1>2. call.at = "idle" /\ call'.at = "open" /\ accepted'.by = "no"
  BY <1>1 DEF User!Idle, User!Nobody
<1>3. UserShape'
  <2>1. call' \in [at : {"idle", "open", "save", "ldap"}, name : Logins \cup {NoUser},
                   pass : Passes \cup {NoPass}, left : SUBSET Logins]
    BY <1>1 DEF User!Idle
  <2>2. userCalls + 1 \in 0 .. MaxCalls
    <3>1. userCalls \in 0 .. MaxCalls BY DEF UserInv, UserShape
    <3> QED BY <1>1, <3>1, UserAssumption
  <2> QED BY <1>1, <1>2, <2>1, <2>2 DEF UserInv, UserShape
<1>4. UserFile(User!Loaded(file))' 
  <2> DEFINE t == User!Loaded(file)
  <2>1. UserFile(t) /\ t' = t BY <1>1 DEF UserInv
  <2> HIDE DEF t
  <2>2. ~torn => \A m \in Logins : Keeps(users[m], t[m]) BY <1>2, <2>1 DEF UserFile
  <2>3. ~torn' => \A m \in Logins : Keeps(before'[m], t[m]) BY <1>1, <2>2
  <2>4. \A m \in Logins : t[m] = NoUser \/ (t[m] \in Entry /\ t[m].role # "ldap")
    BY <2>1 DEF UserFile
  <2>5. UserFile(t)' BY <1>2, <2>1, <2>3, <2>4 DEF UserFile
  <2> QED BY <2>5 DEF t
<1>5. UserDoor' BY <1>2 DEF UserDoor, User!OneDoor
<1> QED BY <1>3, <1>4, <1>5 DEF UserInv

\* Add and Del of the HTTP API.
LEMMA UserChanges ==
    ASSUME UserInv, NEW m \in Logins,
           \/ \E pass \in Passes \cup {NoPass}, role \in Roles, lease \in Leases :
                User!Add(m, User!User(pass, role, lease))
           \/ User!Del(m)
    PROVE  UserInv'
<1>1. users \in [Logins -> Entry \cup {NoUser}] BY DEF UserInv, UserShape
<1>2. CASE User!Del(m)
  <2>1. [users EXCEPT ![m] = NoUser] \in [Logins -> Entry \cup {NoUser}] BY <1>1
  <2> QED BY <1>2, <2>1, UserBegins DEF User!Del
<1>3. ASSUME NEW pass \in Passes \cup {NoPass}, NEW role \in Roles, NEW lease \in Leases,
             User!Add(m, User!User(pass, role, lease))
      PROVE  UserInv'
  <2>1. User!User(pass, role, lease) \in Entry BY DEF User!User, Entry, Secrets
  <2>2. User!Added(users, m, User!User(pass, role, lease)) \in [Logins -> Entry \cup {NoUser}]
    BY <1>1, <2>1, AddedTable
  <2> QED BY <1>3, <2>2, UserBegins DEF User!Add
<1> QED BY <1>2, <1>3

\* Save opens the file.
LEMMA UserOpens == ASSUME UserInv, User!SaveOpen PROVE UserInv'
<1>0. call \in [at : {"idle", "open", "save", "ldap"}, name : Logins \cup {NoUser},
                pass : Passes \cup {NoPass}, left : SUBSET Logins]
  BY DEF UserInv, UserShape
<1>1. /\ call.at = "open" /\ users' = users /\ before' = before
      /\ userCalls' = userCalls /\ accepted' = accepted
  BY DEF User!SaveOpen
<1>2. CASE file' = file /\ torn' = TRUE /\ call' = User!Idle
  <2>1. call'.at = "idle" /\ call' \in [at : {"idle", "open", "save", "ldap"},
          name : Logins \cup {NoUser}, pass : Passes \cup {NoPass}, left : SUBSET Logins]
    BY <1>2 DEF User!Idle
  <2>2. UserShape' BY <1>1, <1>2, <2>1 DEF UserInv, UserShape
  <2>3. UserFile(User!Loaded(file))'
    <3> DEFINE t == User!Loaded(file)
    <3>1. UserFile(t) /\ t' = t BY <1>2 DEF UserInv
    <3> HIDE DEF t
    <3>2. UserFile(t)' BY <1>2, <2>1, <3>1 DEF UserFile
    <3> QED BY <3>2 DEF t
  <2>4. UserDoor' BY <1>1, <2>1 DEF UserInv, UserDoor, User!OneDoor, User!IsLocal
  <2> QED BY <2>2, <2>3, <2>4 DEF UserInv
<1>3. CASE /\ file' = <<>> /\ torn' = FALSE
           /\ call' = [call EXCEPT !.at = "save", !.left = {m \in Logins : users[m] # NoUser}]
  <2>1. call'.at = "save" /\ call'.left = {m \in Logins : users[m] # NoUser}
    BY <1>0, <1>3
  <2>2. call' \in [at : {"idle", "open", "save", "ldap"},
          name : Logins \cup {NoUser}, pass : Passes \cup {NoPass}, left : SUBSET Logins]
    BY <1>0, <1>3
  <2>3. file' \in Seq(UserLines) BY <1>3
  <2>4. UserShape' BY <1>1, <1>3, <2>2, <2>3 DEF UserInv, UserShape
  <2>5. User!Loaded(file)' = [m \in Logins |-> NoUser] BY <1>3, LoadedEmpty
  <2>6. UserFile(User!Loaded(file))'
    <3> DEFINE t == User!Loaded(file)
    <3>1. \A m \in Logins : t'[m] = NoUser BY <2>5
    <3> HIDE DEF t
    <3>2. \A m \in Logins \ call'.left : users'[m] = NoUser BY <1>1, <2>1
    <3>3. \A m \in call'.left : m \in Logins /\ users'[m] # NoUser BY <1>1, <2>1
    <3>4. \A m \in Logins \ call'.left : Keeps(users'[m], t'[m])
      BY <3>1, <3>2 DEF Keeps, User!IsLocal
    <3>5. UserFile(t)' BY <2>1, <3>1, <3>3, <3>4 DEF UserFile
    <3> QED BY <3>5 DEF t
  <2>7. UserDoor' BY <1>1, <2>1 DEF UserInv, UserDoor, User!OneDoor, User!IsLocal
  <2> QED BY <2>4, <2>6, <2>7 DEF UserInv
<1> QED BY <1>2, <1>3 DEF User!SaveOpen, User!OpenTrunk

\* Load makes an entry, or nobody, of every name.
LEMMA LoadedDomain ==
    ASSUME NEW S, NEW f \in Seq(S)
    PROVE  User!Loaded(f) = [m \in Logins |-> User!Loaded(f)[m]]
<1> DEFINE len == Len(f)
<1>1. len \in Nat OBVIOUS
<1>2. PICK g : Loads(f, len, g) /\ User!Loaded(f) = g[len] BY <1>1, LoadedIs
<1>3. g = [i \in 0 .. len |-> LoadStep(f, g, i)] BY <1>2 DEF Loads
<1> DEFINE T == { i \in 0 .. len : g[i] = [m \in Logins |-> g[i][m]] }
<1>4. 0 \in T
  <2>1. 0 \in 0 .. len BY <1>1
  <2>2. g[0] = LoadStep(f, g, 0) BY <1>3, <2>1
  <2> QED BY <2>1, <2>2 DEF LoadStep
<1>5. ASSUME NEW i \in 1 .. len, i - 1 \in T PROVE i \in T
  <2>1. i \in 0 .. len /\ i # 0 BY <1>1
  <2>2. g[i] = LoadStep(f, g, i) BY <1>3, <2>1
  <2>3. g[i - 1] = [m \in Logins |-> g[i - 1][m]] BY <1>5
  <2> DEFINE h == g[i - 1]
  <2>4. g[i] = User!Added(h, f[i][1], User!Parsed(f[i])) BY <2>1, <2>2 DEF LoadStep
  <2> HIDE DEF h
  <2>5. \A x, v : [h EXCEPT ![x] = v] = [m \in Logins |-> [h EXCEPT ![x] = v][m]] BY <2>3 DEF h
  <2>6. g[i] = [m \in Logins |-> g[i][m]] BY <2>4, <2>5 DEF User!Added
  <2> QED BY <2>1, <2>6
<1> HIDE DEF T, len
<1>6. \A i \in 0 .. len : i \in T BY <1>1, <1>4, <1>5, Upto
<1>7. len \in T BY <1>1, <1>6
<1> QED BY <1>2, <1>7 DEF T

\* Save writes one user, or fails to.
LEMMA UserSaves ==
    ASSUME UserInv, NEW m \in Logins, User!SaveLine(m)
    PROVE  UserInv'
<1> DEFINE t == User!Loaded(file)
           u == users[m]
           Calls == [at : {"idle", "open", "save", "ldap"}, name : Logins \cup {NoUser},
                     pass : Passes \cup {NoPass}, left : SUBSET Logins]
<1>1. /\ call.at = "save" /\ m \in call.left /\ call' = [call EXCEPT !.left = call.left \ {m}]
      /\ users' = users /\ before' = before /\ userCalls' = userCalls /\ accepted' = accepted
      /\ \/ /\ file' = IF u.role # "ldap" THEN Append(file, User!Line(m, u)) ELSE file
            /\ torn' = torn
         \/ torn' = TRUE /\ file' = file
  BY DEF User!SaveLine, User!Written
<1>2. /\ users \in [Logins -> Entry \cup {NoUser}] /\ file \in Seq(UserLines) /\ call \in Calls
      /\ torn \in BOOLEAN
  BY DEF UserInv, UserShape
<1>3. call'.at = "save" /\ call'.left = call.left \ {m} /\ call' \in Calls BY <1>1, <1>2
<1>4. UserFile(t) BY DEF UserInv
<1>5. /\ \A o \in Logins : t[o] = NoUser \/ (t[o] \in Entry /\ t[o].role # "ldap")
      /\ \A o \in call.left : users[o] # NoUser /\ t[o] = NoUser
      /\ ~torn => \A o \in Logins \ call.left : Keeps(users[o], t[o])
  BY <1>1, <1>4 DEF UserFile
<1>6. u \in Entry /\ t[m] = NoUser /\ u # NoUser BY <1>1, <1>2, <1>5
<1>7. CASE file' = file /\ (torn' = TRUE \/ (torn' = torn /\ u.role = "ldap"))
  <2>1. t' = t /\ torn' \in BOOLEAN BY <1>2, <1>7
  <2> HIDE DEF t
  <2>2. UserShape' BY <1>1, <1>3, <1>7, <2>1 DEF UserInv, UserShape
  <2>3. ASSUME ~torn', NEW o \in Logins \ call'.left PROVE Keeps(users'[o], t'[o])
    <3>1. ~torn /\ u.role = "ldap" BY <1>7, <2>3
    <3>2. CASE o = m BY <1>1, <1>6, <2>1, <3>1, <3>2 DEF Keeps, User!IsLocal
    <3>3. CASE o # m
      <4>1. o \in Logins \ call.left BY <1>3, <3>3
      <4> QED BY <1>1, <1>5, <2>1, <3>1, <4>1
    <3> QED BY <3>2, <3>3
  <2>4. UserFile(t)' BY <1>1, <1>3, <1>5, <2>1, <2>3 DEF UserFile
  <2>5. UserDoor' BY <1>1, <1>3 DEF UserInv, UserDoor, User!OneDoor, User!IsLocal
  <2> QED BY <2>2, <2>4, <2>5 DEF UserInv, t
<1>8. CASE file' = Append(file, User!Line(m, u)) /\ torn' = torn /\ u.role # "ldap"
  <2> DEFINE l == User!Line(m, u)
             p == User!Parsed(l)
  <2>1. l \in UserLines BY <1>6 DEF UserLines
  <2>2. /\ l[1] = m /\ p \in Entry /\ p.role # "ldap" /\ (User!Plain(u) => p = u)
    BY <1>6, <1>8, LineRead
  <2>3. t' = User!Added(t, m, p)
    <3>1. User!Loaded(Append(file, l)) = User!Added(t, l[1], p) BY <1>2, <2>1, LoadedAppend
    <3> QED BY <1>8, <2>2, <3>1
  <2>4. file' \in Seq(UserLines) BY <1>2, <1>8, <2>1
  <2> HIDE DEF l, p
  <2>5. UserShape' BY <1>1, <1>3, <1>8, <2>4 DEF UserInv, UserShape
  <2>6. t'[m] = p /\ \A o \in Logins \ {m} : t'[o] = t[o]
    <3>1. t'= [t EXCEPT ![m] = p] BY <1>6, <2>3 DEF User!Added
    <3>2. DOMAIN t = Logins BY LoadedDomain, <1>2
    <3> HIDE DEF t
    <3> QED BY <3>1, <3>2
  <2> HIDE DEF t
  <2>7. ASSUME ~torn', NEW o \in Logins \ call'.left PROVE Keeps(users'[o], t'[o])
    <3>1. ~torn BY <1>8, <2>7
    <3>2. CASE o = m
      <4>1. p # NoUser BY <2>2, EntryNobody
      <4>2. User!IsLocal(u) BY <1>6, <1>8 DEF User!IsLocal
      <4> QED BY <1>1, <2>2, <2>6, <3>2, <4>1, <4>2 DEF Keeps
    <3>3. CASE o # m
      <4>1. o \in Logins \ call.left BY <1>3, <3>3
      <4> QED BY <1>1, <1>5, <2>6, <3>1, <3>3, <4>1
    <3> QED BY <3>2, <3>3
  <2>8. \A o \in Logins : t'[o] = NoUser \/ (t'[o] \in Entry /\ t'[o].role # "ldap")
    BY <1>5, <2>2, <2>6
  <2>9. \A o \in call'.left : users'[o] # NoUser /\ t'[o] = NoUser
    <3> TAKE o \in call'.left
    <3>1. o \in call.left /\ o # m /\ o \in Logins BY <1>2, <1>3
    <3> QED BY <1>1, <1>5, <2>6, <3>1
  <2>10. UserFile(t)' BY <1>3, <2>7, <2>8, <2>9 DEF UserFile
  <2>11. UserDoor' BY <1>1, <1>3 DEF UserInv, UserDoor, User!OneDoor, User!IsLocal
  <2> QED BY <2>5, <2>10, <2>11 DEF UserInv, t
<1> QED BY <1>1, <1>7, <1>8

\* Save returns.
LEMMA UserSaved == ASSUME UserInv, User!Saved PROVE UserInv'
<1> DEFINE t == User!Loaded(file)
<1>1. /\ call.at = "save" /\ call.left = {} /\ call' = User!Idle /\ before' = users
      /\ users' = users /\ file' = file /\ torn' = torn /\ userCalls' = userCalls
      /\ accepted' = accepted
  BY DEF User!Saved
<1>2. call'.at = "idle" /\ call' \in [at : {"idle", "open", "save", "ldap"},
        name : Logins \cup {NoUser}, pass : Passes \cup {NoPass}, left : SUBSET Logins]
  BY <1>1 DEF User!Idle
<1>3. UserShape' BY <1>1, <1>2 DEF UserInv, UserShape
<1>4. UserFile(t) /\ t' = t BY <1>1 DEF UserInv
<1> HIDE DEF t
<1>5. UserFile(t)' BY <1>1, <1>2, <1>4 DEF UserFile
<1>6. UserDoor' BY <1>1, <1>2 DEF UserInv, UserDoor, User!OneDoor, User!IsLocal
<1> QED BY <1>3, <1>5, <1>6 DEF UserInv, t

\* A login by password.
LEMMA UserChecks ==
    ASSUME UserInv, NEW m \in Logins, NEW pass \in Passes, User!Check(m, pass)
    PROVE  UserInv'
<1> DEFINE t == User!Loaded(file)
           u == users[m]
<1>1. /\ call = User!Idle /\ users' = users /\ file' = file /\ before' = before
      /\ torn' = torn /\ userCalls' = userCalls
  BY DEF User!Check
<1>2. /\ accepted'.by \in {"no", "local"}
      /\ \/ call' = call
         \/ /\ call' = [User!Idle EXCEPT !.at = "ldap", !.name = m, !.pass = pass]
            /\ User!MayAsk(u)
  <2> DEFINE mine == u # NoUser /\ u.role \in {"", "admin", "guest"} /\ u.pass = pass
  <2>1. IF mine
        THEN /\ \E ok \in User!InDate(u) :
                   accepted' = IF ok THEN [by |-> "local", was |-> u] ELSE User!Nobody
             /\ call' = call
        ELSE IF User!MayAsk(u)
        THEN /\ call' = [User!Idle EXCEPT !.at = "ldap", !.name = m, !.pass = pass]
             /\ accepted' = User!Nobody
        ELSE call' = call /\ accepted' = User!Nobody
    BY DEF User!Check
  <2>2. User!Nobody.by = "no" BY DEF User!Nobody
  <2> HIDE DEF mine, u
  <2>3. CASE mine
    <3>1. PICK ok \in User!InDate(u) :
              accepted' = IF ok THEN [by |-> "local", was |-> u] ELSE User!Nobody
      BY <2>1, <2>3
    <3>2. [by |-> "local", was |-> u].by = "local" OBVIOUS
    <3>3. accepted' = [by |-> "local", was |-> u] \/ accepted' = User!Nobody BY <3>1
    <3>4. accepted'.by \in {"no", "local"} BY <2>2, <3>2, <3>3
    <3> QED BY <2>1, <2>3, <3>4
  <2>4. CASE ~mine BY <2>1, <2>2, <2>4
  <2> QED BY <2>3, <2>4
<1>3. call.at = "idle" BY <1>1 DEF User!Idle
<1>4. /\ call'.at \in {"idle", "ldap"}
      /\ call'.at = "ldap" => call'.name = m /\ User!MayAsk(u)
      /\ call' \in [at : {"idle", "open", "save", "ldap"},
           name : Logins \cup {NoUser}, pass : Passes \cup {NoPass}, left : SUBSET Logins]
  <2>1. CASE call' = call BY <1>1, <2>1 DEF User!Idle
  <2>2. CASE /\ call' = [User!Idle EXCEPT !.at = "ldap", !.name = m, !.pass = pass]
             /\ User!MayAsk(u)
    <3> HIDE DEF u
    <3>1. /\ call'.at = "ldap" /\ call'.name = m
          /\ call' \in [at : {"idle", "open", "save", "ldap"},
               name : Logins \cup {NoUser}, pass : Passes \cup {NoPass}, left : SUBSET Logins]
      BY <2>2 DEF User!Idle
    <3> QED BY <2>2, <3>1
  <2> QED BY <1>2, <2>1, <2>2
<1>5. UserShape' BY <1>1, <1>2, <1>4 DEF UserInv, UserShape
<1>6. UserFile(t) /\ t' = t BY <1>1 DEF UserInv
<1> HIDE DEF t
<1>7. UserFile(t)' BY <1>1, <1>3, <1>4, <1>6 DEF UserFile
<1>8. UserDoor' BY <1>1, <1>2, <1>4 DEF UserDoor, User!OneDoor, User!MayAsk
<1> QED BY <1>5, <1>7, <1>8 DEF UserInv, t

\* A login that LDAP answers.
LEMMA UserLogsIn == ASSUME UserInv, User!LdapLogin PROVE UserInv'
<1> DEFINE t == User!Loaded(file)
           Calls == [at : {"idle", "open", "save", "ldap"}, name : Logins \cup {NoUser},
                     pass : Passes \cup {NoPass}, left : SUBSET Logins]
           m == call.name
           u == User!User(call.pass, "ldap", 0)
<1>1. /\ call.at = "ldap" /\ call' = User!Idle /\ file' = file /\ before' = before
      /\ torn' = torn /\ userCalls' = userCalls
      /\ \/ users' = User!Added(users, m, u) /\ accepted' = [by |-> "ldap", was |-> users[m]]
         \/ users' = users /\ accepted' = accepted
  BY DEF User!LdapLogin
<1>2. users \in [Logins -> Entry \cup {NoUser}] /\ call \in Calls BY DEF UserInv, UserShape
<1>3. m \in Logins /\ (users[m] = NoUser \/ users[m].role = "ldap")
  BY <1>1 DEF UserInv, UserDoor, User!MayAsk
<1>4. u \in Entry /\ u.role = "ldap" BY <1>2, UserAssumption DEF Entry, Secrets, User!User
<1>5. call'.at = "idle" /\ call' \in Calls BY <1>1 DEF User!Idle
<1> HIDE DEF m, u
<1>6. /\ users' \in [Logins -> Entry \cup {NoUser}]
      /\ \A o \in Logins : User!IsLocal(users'[o]) <=> User!IsLocal(users[o])
      /\ \A o \in Logins : User!IsLocal(users[o]) => users'[o] = users[o]
  <2>1. CASE users' = users BY <1>2, <2>1
  <2>2. CASE users' = User!Added(users, m, u)
    <3>1. /\ users' \in [Logins -> Entry \cup {NoUser}]
          /\ \A o \in Logins \ {m} : users'[o] = users[o]
          /\ users[m] = NoUser => users'[m] = u
          /\ users'[m] # NoUser
          /\ users[m] # NoUser /\ u.role = "ldap" => users'[m].role = "ldap"
      BY <1>2, <1>3, <1>4, <2>2, AddedTable
    <3>2. ~User!IsLocal(users[m]) BY <1>3 DEF User!IsLocal
    <3>3. users'[m].role = "ldap" BY <1>3, <1>4, <3>1
    <3>4. ~User!IsLocal(users'[m]) BY <3>3 DEF User!IsLocal
    <3> QED BY <3>1, <3>2, <3>4
  <2> QED BY <1>1, <2>1, <2>2
<1>7. accepted'.by \in {"no", "local", "ldap"} BY <1>1 DEF UserInv, UserShape
<1>8. UserShape' BY <1>1, <1>5, <1>6, <1>7 DEF UserInv, UserShape
<1>9. UserFile(t) /\ t' = t BY <1>1 DEF UserInv
<1> HIDE DEF t
<1>10. ASSUME ~torn', NEW o \in Logins PROVE Keeps(users'[o], t'[o])
  <2>1. Keeps(users[o], t[o]) BY <1>1, <1>9, <1>10 DEF UserFile
  <2> QED BY <1>6, <1>9, <2>1 DEF Keeps
<1>11. UserFile(t)' BY <1>5, <1>9, <1>10 DEF UserFile
<1>12. UserDoor'
  <2>1. User!OneDoor' BY <1>1, <1>3 DEF UserInv, UserDoor, User!OneDoor, User!IsLocal
  <2> QED BY <1>5, <2>1 DEF UserDoor
<1> QED BY <1>8, <1>11, <1>12 DEF UserInv, t

\* A crash and the Load after it.
LEMMA UserRestarts == ASSUME UserInv, User!Restart PROVE UserInv'
<1> DEFINE t == User!Loaded(file)
<1>1. /\ users' = t /\ before' = users' /\ call' = User!Idle
      /\ torn' = FALSE /\ accepted' = User!Nobody /\ file' = file /\ userCalls' = userCalls
  BY DEF User!Restart
<1>2. call'.at = "idle" /\ accepted'.by = "no" /\ call' \in [at : {"idle", "open", "save", "ldap"},
        name : Logins \cup {NoUser}, pass : Passes \cup {NoPass}, left : SUBSET Logins]
  BY <1>1 DEF User!Idle, User!Nobody
<1>3. UserFile(t) /\ t' = t BY <1>1 DEF UserInv
<1>4. \A m \in Logins : t[m] = NoUser \/ (t[m] \in Entry /\ t[m].role # "ldap")
  BY <1>3 DEF UserFile
<1>5. t = [m \in Logins |-> t[m]]
  <2>1. file \in Seq(UserLines) BY DEF UserInv, UserShape
  <2> QED BY <2>1, LoadedDomain
<1> HIDE DEF t
<1>6. t \in [Logins -> Entry \cup {NoUser}] BY <1>4, <1>5
<1>7. UserShape' BY <1>1, <1>2, <1>6 DEF UserInv, UserShape
<1>8. \A m \in Logins : Keeps(users'[m], t'[m])
  BY <1>1, <1>3, <1>4 DEF Keeps, User!IsLocal
<1>9. UserFile(t)' BY <1>2, <1>3, <1>4, <1>8 DEF UserFile
<1>10. UserDoor' BY <1>2 DEF UserDoor, User!OneDoor
<1> QED BY <1>7, <1>9, <1>10 DEF UserInv, t

\* Every step of Users keeps the invariant.
LEMMA UserInvStep == UserInv /\ [User!Next]_(User!userVars) => UserInv'
<1> SUFFICES ASSUME UserInv, [User!Next]_(User!userVars) PROVE UserInv'
  OBVIOUS
<1>1. CASE UNCHANGED User!userVars
  BY <1>1 DEF User!userVars, UserInv, UserShape, UserFile, UserDoor, User!OneDoor, User!IsLocal,
              User!MayAsk
<1>2. ASSUME NEW m \in Logins,
             \/ \E pass \in Passes \cup {NoPass}, role \in Roles, lease \in Leases :
                  User!Add(m, User!User(pass, role, lease))
             \/ User!Del(m)
      PROVE  UserInv'
  BY <1>2, UserChanges
<1>3. ASSUME NEW m \in Logins, User!SaveLine(m) PROVE UserInv' BY <1>3, UserSaves
<1>4. ASSUME NEW m \in Logins, NEW pass \in Passes, User!Check(m, pass) PROVE UserInv'
  BY <1>4, UserChecks
<1> QED
  BY <1>1, <1>2, <1>3, <1>4, UserOpens, UserSaved, UserLogsIn, UserRestarts DEF User!Next

\* The invariant of the store of users holds throughout.
LEMMA UserAlways == Spec => [](part = "user" => UserInv)
<1> DEFINE I == part = "user" => UserInv
<1>1. Init => I BY UserInvInit DEF Init, Only
<1>2. I /\ [Next]_vars => I'
  <2> SUFFICES ASSUME I, [Next]_vars, part' = "user" PROVE UserInv'
    OBVIOUS
  <2>1. part = "user"
    BY DEF Next, WallNext, LanNext, FabNext, TunNext, VpnNext, UserNext, TableNext, WebNext,
           DbNext, PrxNext, OfWall, OfLan, OfFab, OfTun, OfVpn, OfUser, OfTable, OfWeb, OfDb,
           OfPrx, vars
  <2> QED BY <2>1, UserStep, UserInvStep
<1> QED BY <1>1, <1>2, PTL DEF Spec

\* For any names, passwords, roles and leases, and a crash at any step: what was
\* saved is read back, a torn file mixes nobody up, and a login by LDAP never
\* takes the place of a local user (cache/user.go; UsersKept).
THEOREM UsersAreKept == Spec => []UsersKept
<1>1. ASSUME UserInv PROVE User!UsersKept
  <2> DEFINE t == User!Loaded(file)
  <2>1. UserFile(t) /\ UserDoor BY <1>1 DEF UserInv
  <2>2. call.at \in {"idle", "open", "save", "ldap"} /\ call.left \subseteq Logins
    BY <1>1 DEF UserInv, UserShape
  <2> HIDE DEF t
  <2>3. User!Persisted BY <2>1, <2>2 DEF User!Persisted, UserFile, Keeps, t
  <2>4. User!CrashKeepsWhole
    <3> SUFFICES ASSUME ~torn, NEW m \in Logins, t[m] # NoUser
                 PROVE  \E u \in {users[m], before[m]} :
                            User!IsLocal(u) /\ (User!Plain(u) => t[m] = u)
      BY DEF User!CrashKeepsWhole, t
    <3>1. Keeps(users[m], t[m]) \/ Keeps(before[m], t[m])
      <4>1. CASE call.at \in {"idle", "ldap"} BY <2>1, <4>1 DEF UserFile
      <4>2. CASE call.at = "open" BY <2>1, <4>2 DEF UserFile
      <4>3. CASE call.at = "save"
        <5>1. m \notin call.left BY <2>1, <4>3 DEF UserFile
        <5> QED BY <2>1, <4>3, <5>1 DEF UserFile
      <4> QED BY <2>2, <4>1, <4>2, <4>3
    <3> QED BY <3>1 DEF Keeps
  <2> QED BY <2>1, <2>3, <2>4 DEF User!UsersKept, UserDoor
<1>2. (part = "user" => UserInv) => UsersKept BY <1>1 DEF UsersKept
<1> QED BY <1>2, UserAlways, PTL

----------------------------------------------------------------------------
(* The firewall (Firewall).                                                *)
(*                                                                         *)
(* The lists of chains and rules are what InitChains and InitRules make of *)
(* the configuration (ListFacts to VpnRules): the rules are about chains that *)
(* there are (FitRules), and those a VPN client needs are among them.      *)
(*                                                                         *)
(* The kernel has no rule twice and none that is not configured (KernelOK). *)
(* An install runs its commands one by one, and firewalld may empty the    *)
(* kernel between any two of them.  A chain that is there has all the deciding *)
(* rules before the next command, and none of the later ones unless it has *)
(* all (InTurn), so they stand in their order.  Put: unless a reload has   *)
(* still to be answered, the commands before the next one have had their   *)
(* effect.  Gone: the same of Stop.                                        *)

\* What a list is made of.
LEMMA ListFacts ==
    ASSUME NEW s, IsList(s)
    PROVE  Len(s) \in Nat /\ DOMAIN s = 1 .. Len(s) /\ s = [i \in 1 .. Len(s) |-> s[i]]
BY DEF IsList

\* A function on 1 .. len is a list.
LEMMA ListIs ==
    ASSUME NEW len \in Nat, NEW s, s = [i \in 1 .. len |-> s[i]]
    PROVE  IsList(s) /\ Len(s) = len /\ DOMAIN s = 1 .. len
<1> DEFINE S == {s[i] : i \in DOMAIN s}
<1>1. DOMAIN s = 1 .. len OBVIOUS
<1>2. \A i \in 1 .. len : s[i] \in S BY <1>1
<1> HIDE DEF S
<1>3. s \in Seq(S) BY <1>2
<1>4. Len(s) = len BY <1>1, <1>3
<1> QED BY <1>1, <1>3, <1>4 DEF IsList, S

\* The empty list.
LEMMA ListNone == IsList(<<>>) /\ Wall!Range(<<>>) = {}
<1>1. <<>> = [i \in 1 .. 0 |-> <<>>[i]] OBVIOUS
<1>2. DOMAIN <<>> = {} OBVIOUS
<1> QED BY <1>1, <1>2, ListIs DEF Wall!Range

\* A list of one.
LEMMA ListOne ==
    ASSUME NEW e
    PROVE  IsList(<<e>>) /\ \A x : x \in Wall!Range(<<e>>) <=> x = e
<1>1. DOMAIN <<e>> = {1} /\ <<e>>[1] = e /\ Len(<<e>>) = 1 OBVIOUS
<1>2. <<e>> = [i \in 1 .. 1 |-> <<e>>[i]] OBVIOUS
<1>3. IsList(<<e>>) BY <1>2, ListIs
<1> QED BY <1>1, <1>3 DEF Wall!Range

\* Two lists, one after the other, hold what they hold.
LEMMA ListCat ==
    ASSUME NEW s, NEW t, IsList(s), IsList(t)
    PROVE  /\ IsList(s \o t) /\ Len(s \o t) = Len(s) + Len(t)
           /\ \A i \in 1 .. Len(s) : (s \o t)[i] = s[i]
           /\ \A i \in 1 .. Len(t) : (s \o t)[Len(s) + i] = t[i]
           /\ \A x : x \in Wall!Range(s \o t) <=> x \in Wall!Range(s) \/ x \in Wall!Range(t)
<1> DEFINE S == {s[i] : i \in DOMAIN s} \cup {t[i] : i \in DOMAIN t}
           c == s \o t
<1>1. s \in Seq(S) /\ t \in Seq(S) BY DEF IsList
<1>2. /\ Len(s) \in Nat /\ Len(t) \in Nat /\ DOMAIN s = 1 .. Len(s) /\ DOMAIN t = 1 .. Len(t)
  BY ListFacts
<1> HIDE DEF S
<1>3. c \in Seq(S) /\ Len(c) = Len(s) + Len(t) BY <1>1
<1>4. \A i \in 1 .. Len(s) : c[i] = s[i] BY <1>1
<1>5. ASSUME NEW i \in 1 .. Len(t) PROVE c[Len(s) + i] = t[i] BY <1>1, <1>5
<1> HIDE DEF c
<1>6. c = [i \in 1 .. Len(s) + Len(t) |-> c[i]] BY <1>3
<1>7. IsList(c) /\ DOMAIN c = 1 .. Len(s) + Len(t)
  <2>1. Len(s) + Len(t) \in Nat BY <1>2
  <2> QED BY <1>6, <2>1, ListIs
<1>8. ASSUME NEW x \in Wall!Range(c) PROVE x \in Wall!Range(s) \/ x \in Wall!Range(t)
  <2>1. PICK i \in 1 .. Len(s) + Len(t) : x = c[i] BY <1>7 DEF Wall!Range
  <2>2. CASE i \in 1 .. Len(s) BY <1>2, <1>4, <2>1, <2>2 DEF Wall!Range
  <2>3. CASE i \notin 1 .. Len(s)
    <3>1. PICK o \in 1 .. Len(t) : i = Len(s) + o
      <4>1. i - Len(s) \in 1 .. Len(t) /\ i = Len(s) + (i - Len(s)) BY <1>2, <2>3
      <4> QED BY <4>1
    <3>2. x = t[o] BY <1>5, <2>1, <3>1
    <3> QED BY <1>2, <3>2 DEF Wall!Range
  <2> QED BY <2>2, <2>3
<1>9. ASSUME NEW x \in Wall!Range(s) PROVE x \in Wall!Range(c)
  <2>1. PICK i \in 1 .. Len(s) : x = s[i] BY <1>2 DEF Wall!Range
  <2>2. i \in 1 .. Len(s) + Len(t) BY <1>2
  <2> QED BY <1>4, <1>7, <2>1, <2>2 DEF Wall!Range
<1>10. ASSUME NEW x \in Wall!Range(t) PROVE x \in Wall!Range(c)
  <2>1. PICK i \in 1 .. Len(t) : x = t[i] BY <1>2 DEF Wall!Range
  <2>2. Len(s) + i \in 1 .. Len(s) + Len(t) BY <1>2
  <2> QED BY <1>5, <1>7, <2>1, <2>2 DEF Wall!Range
<1> QED BY <1>3, <1>4, <1>5, <1>7, <1>8, <1>9, <1>10 DEF c

FlatStep(ss, g, i) == IF i = 0 THEN <<>> ELSE g[i - 1] \o ss[i]

\* The recursion of Joined is defined for every list of lists.
LEMMA FlatExists ==
    ASSUME NEW ss, NEW len \in Nat
    PROVE  \E g : g = [i \in 0 .. len |-> FlatStep(ss, g, i)]
<1> DEFINE T == { i \in 0 .. len : \E g : g = [x \in 0 .. i |-> FlatStep(ss, g, x)] }
<1>1. 0 \in T
  <2> DEFINE g == [x \in 0 .. 0 |-> <<>>]
  <2>1. \A x \in 0 .. 0 : FlatStep(ss, g, x) = <<>> BY DEF FlatStep
  <2>2. g = [x \in 0 .. 0 |-> FlatStep(ss, g, x)] BY <2>1
  <2> HIDE DEF g
  <2>3. \E f : f = [x \in 0 .. 0 |-> FlatStep(ss, f, x)] BY <2>2
  <2>4. 0 \in 0 .. len OBVIOUS
  <2> QED BY <2>3, <2>4
<1>2. ASSUME NEW i \in 1 .. len, i - 1 \in T PROVE i \in T
  <2>1. PICK g : g = [x \in 0 .. i - 1 |-> FlatStep(ss, g, x)] BY <1>2
  <2> DEFINE h == [x \in 0 .. i |-> IF x = i THEN FlatStep(ss, g, i) ELSE g[x]]
  <2>2. ASSUME NEW x \in 0 .. i PROVE h[x] = FlatStep(ss, h, x)
    <3>1. CASE x = 0
      <4>1. x # i /\ x \in 0 .. i - 1 BY <3>1
      <4>2. h[x] = g[x] /\ g[x] = FlatStep(ss, g, x) BY <2>1, <4>1
      <4> HIDE DEF h
      <4> QED BY <3>1, <4>2 DEF FlatStep
    <3>2. CASE x # 0
      <4>1. x - 1 \in 0 .. i /\ x - 1 # i BY <3>2
      <4>2. h[x - 1] = g[x - 1] BY <4>1
      <4>3. h[x] = FlatStep(ss, g, x)
        <5>1. CASE x = i BY <5>1
        <5>2. CASE x # i
          <6>1. x \in 0 .. i - 1 BY <5>2
          <6> QED BY <2>1, <5>2, <6>1
        <5> QED BY <5>1, <5>2
      <4> HIDE DEF h
      <4> QED BY <3>2, <4>2, <4>3 DEF FlatStep
    <3> QED BY <3>1, <3>2
  <2>3. h = [x \in 0 .. i |-> h[x]] OBVIOUS
  <2> HIDE DEF h
  <2>4. h = [x \in 0 .. i |-> FlatStep(ss, h, x)] BY <2>2, <2>3
  <2> QED BY <2>4
<1> HIDE DEF T
<1>3. \A i \in 0 .. len : i \in T BY <1>1, <1>2, Upto
<1>4. len \in T BY <1>3
<1> QED BY <1>4 DEF T

\* A list of lists, one after the other, holds what they hold.
LEMMA ListFlat ==
    ASSUME NEW ss, IsList(ss), \A i \in DOMAIN ss : IsList(ss[i])
    PROVE  /\ IsList(Wall!Joined(ss))
           /\ \A x : x \in Wall!Range(Wall!Joined(ss)) <=>
                       \E i \in DOMAIN ss : x \in Wall!Range(ss[i])
<1> DEFINE len == Len(ss)
<1>1. len \in Nat /\ DOMAIN ss = 1 .. len BY ListFacts
<1> DEFINE g == CHOOSE h : h = [i \in 0 .. len |-> FlatStep(ss, h, i)]
<1>2. g = [i \in 0 .. len |-> FlatStep(ss, g, i)] BY <1>1, FlatExists
<1>3. Wall!Joined(ss) = g[len] BY DEF Wall!Joined, FlatStep
<1> HIDE DEF g, len
<1> DEFINE Holds(i) == /\ IsList(g[i])
                       /\ \A x : x \in Wall!Range(g[i]) <=>
                                   \E o \in 1 .. i : x \in Wall!Range(ss[o])
           T == { i \in 0 .. len : Holds(i) }
<1>4. 0 \in T
  <2>1. 0 \in 0 .. len BY <1>1
  <2>2. g[0] = <<>> BY <1>2, <2>1 DEF FlatStep
  <2>3. 1 .. 0 = {} OBVIOUS
  <2>4. Holds(0) BY <2>2, <2>3, ListNone
  <2> QED BY <2>1, <2>4
<1>5. ASSUME NEW i \in 1 .. len, i - 1 \in T PROVE i \in T
  <2>1. i \in 0 .. len /\ i # 0 /\ 1 .. i = (1 .. i - 1) \cup {i} BY <1>1
  <2>2. g[i] = g[i - 1] \o ss[i] BY <1>2, <2>1 DEF FlatStep
  <2>3. Holds(i - 1) BY <1>5
  <2>4. /\ IsList(g[i])
        /\ \A x : x \in Wall!Range(g[i]) <=> x \in Wall!Range(g[i - 1]) \/ x \in Wall!Range(ss[i])
    BY <1>1, <2>2, <2>3, ListCat
  <2>5. Holds(i) BY <2>1, <2>3, <2>4
  <2> QED BY <2>1, <2>5
<1> HIDE DEF T
<1>6. \A i \in 0 .. len : i \in T BY <1>1, <1>4, <1>5, Upto
<1>7. len \in T BY <1>1, <1>6
<1>8. Holds(len) BY <1>7 DEF T
<1> QED BY <1>1, <1>3, <1>8

\* The chains of the switch, and the rules that are about chains there are.
WallChains == Wall!Range(Wall!InitChains)

FitRule(r) ==
    /\ r.chain \in Wall!BuiltIns \cup WallChains
    /\ r.jump[1] = "target" \/ r.jump \in WallChains
    /\ r.order = "-A" \/ (r.order = "-I" /\ r.chain \in Wall!BuiltIns)

FitRules(s) == IsList(s) /\ \A r \in Wall!Range(s) : FitRule(r)

\* No rules fit,
LEMMA FitNone == FitRules(<<>>)
BY ListNone DEF FitRules

\* one that fits does,
LEMMA FitOne == ASSUME NEW r, FitRule(r) PROVE FitRules(<<r>>)
BY ListOne DEF FitRules

\* and so do two lists of rules that fit.
LEMMA FitCat == ASSUME NEW s, NEW t, FitRules(s), FitRules(t) PROVE FitRules(s \o t)
<1>1. IsList(s) /\ IsList(t) BY DEF FitRules
<1>2. /\ IsList(s \o t)
      /\ \A x : x \in Wall!Range(s \o t) <=> x \in Wall!Range(s) \/ x \in Wall!Range(t)
  BY <1>1, ListCat
<1> QED BY <1>2 DEF FitRules

\* A list with another thing in each place.
LEMMA ListMap ==
    ASSUME NEW s, IsList(s), NEW ss, ss = [i \in DOMAIN s |-> ss[i]]
    PROVE  IsList(ss) /\ DOMAIN ss = DOMAIN s
<1>1. Len(s) \in Nat /\ DOMAIN s = 1 .. Len(s) BY ListFacts
<1>2. ss = [i \in 1 .. Len(s) |-> ss[i]] BY <1>1
<1> QED BY <1>1, <1>2, ListIs

\* Rules made of each thing in a list.
LEMMA FitEach ==
    ASSUME NEW s, IsList(s), NEW ss, ss = [i \in DOMAIN s |-> ss[i]],
           \A i \in DOMAIN s : FitRules(ss[i])
    PROVE  FitRules(Wall!Joined(ss))
<1>1. IsList(ss) /\ DOMAIN ss = DOMAIN s BY ListMap
<1>2. \A i \in DOMAIN ss : IsList(ss[i]) BY <1>1 DEF FitRules
<1>3. /\ IsList(Wall!Joined(ss))
      /\ \A x : x \in Wall!Range(Wall!Joined(ss)) <=>
                  \E i \in DOMAIN ss : x \in Wall!Range(ss[i])
  BY <1>1, <1>2, ListFlat
<1> QED BY <1>1, <1>3 DEF FitRules

\* The chains of the ACLs (preAclChains).
LEMMA AclList ==
    /\ IsList(Wall!preAclChains)
    /\ \A x : x \in Wall!Range(Wall!preAclChains) <=>
                \E i \in DOMAIN Acls : Acls[i].name # "" /\ x = Wall!AclChain(Acls[i].name)
<1> DEFINE One(a) == IF a.name = "" THEN <<>> ELSE <<Wall!AclChain(a.name)>>
           ss == [i \in DOMAIN Acls |-> One(Acls[i])]
<1>1. Wall!preAclChains = Wall!Joined(ss) BY DEF Wall!preAclChains, Wall!ForEach
<1>2. ASSUME NEW a
      PROVE  /\ IsList(One(a))
             /\ \A x : x \in Wall!Range(One(a)) <=> a.name # "" /\ x = Wall!AclChain(a.name)
  <2>1. CASE a.name = "" BY <2>1, ListNone
  <2>2. CASE a.name # "" BY <2>2, ListOne
  <2> QED BY <2>1, <2>2
<1> HIDE DEF One
<1>3. IsList(Acls) BY WallAssumption
<1>4. IsList(ss) /\ DOMAIN ss = DOMAIN Acls /\ \A i \in DOMAIN Acls : ss[i] = One(Acls[i])
  BY <1>3, ListMap
<1> HIDE DEF ss
<1>5. \A i \in DOMAIN ss : IsList(ss[i]) BY <1>2, <1>4
<1>6. /\ IsList(Wall!Joined(ss))
      /\ \A x : x \in Wall!Range(Wall!Joined(ss)) <=>
                  \E i \in DOMAIN ss : x \in Wall!Range(ss[i])
  BY <1>4, <1>5, ListFlat
<1>7. \A i \in DOMAIN Acls : \A x : x \in Wall!Range(ss[i]) <=>
          Acls[i].name # "" /\ x = Wall!AclChain(Acls[i].name)
  BY <1>2, <1>4
<1> QED BY <1>1, <1>4, <1>6, <1>7

\* The chains of the kernel that the switch hooks into.
LEMMA HookList ==
    /\ Len(Wall!Hooks) = 14 /\ DOMAIN Wall!Hooks = 1 .. 14 /\ IsList(Wall!Hooks)
    /\ Wall!Hooks[1] = <<"filter", "IN">> /\ Wall!Hooks[2] = <<"filter", "FWD">>
    /\ Wall!Hooks[6] = <<"nat", "POST">> /\ Wall!Hooks[11] = <<"mangle", "POST">>
    /\ Wall!Hooks[13] = <<"raw", "PRE">>
<1>1. Len(Wall!Hooks) = 14 /\ DOMAIN Wall!Hooks = 1 .. 14 BY DEF Wall!Hooks
<1>2. Wall!Hooks = [i \in 1 .. 14 |-> Wall!Hooks[i]] BY DEF Wall!Hooks
<1>3. IsList(Wall!Hooks) BY <1>2, ListIs
<1> QED BY <1>1, <1>3 DEF Wall!Hooks

\* The chains of the switch are those of its ACLs and of its hooks.
LEMMA ChainList ==
    /\ IsList(Wall!InitChains)
    /\ \A x : x \in WallChains <=>
         \/ \E i \in DOMAIN Acls : Acls[i].name # "" /\ x = Wall!AclChain(Acls[i].name)
         \/ \E i \in DOMAIN Wall!Hooks : x = Wall!OLChain(Wall!Hooks[i][1], Wall!Hooks[i][2])
<1> DEFINE f == [i \in DOMAIN Wall!Hooks |-> Wall!OLChain(Wall!Hooks[i][1], Wall!Hooks[i][2])]
<1>1. Wall!InitChains = Wall!preAclChains \o f BY DEF Wall!InitChains, Wall!addOLC
<1>2. IsList(f) /\ DOMAIN f = DOMAIN Wall!Hooks
  <2>1. f = [i \in DOMAIN Wall!Hooks |-> f[i]] OBVIOUS
  <2> HIDE DEF f
  <2> QED BY <2>1, HookList, ListMap
<1>3. \A x : x \in Wall!Range(f) <=>
        \E i \in DOMAIN Wall!Hooks : x = Wall!OLChain(Wall!Hooks[i][1], Wall!Hooks[i][2])
  BY <1>2 DEF Wall!Range
<1> HIDE DEF f
<1>4. /\ IsList(Wall!preAclChains \o f)
      /\ \A x : x \in Wall!Range(Wall!preAclChains \o f) <=>
           x \in Wall!Range(Wall!preAclChains) \/ x \in Wall!Range(f)
  BY <1>2, AclList, ListCat
<1> QED BY <1>1, <1>3, <1>4, AclList DEF WallChains

\* No chain of the switch is one of the kernel.
LEMMA ChainsApart == WallChains \cap Wall!BuiltIns = {}
<1> SUFFICES ASSUME NEW c \in WallChains, c \in Wall!BuiltIns PROVE FALSE OBVIOUS
<1>1. c[2] = "built-in"
  <2>1. PICK i \in DOMAIN Wall!Hooks : c = <<Wall!Hooks[i][1], "built-in", Wall!Hooks[i][2]>>
    BY DEF Wall!BuiltIns, Wall!BuiltIn
  <2> QED BY <2>1
<1>2. c[2] \in {"acl", "OPENLAN"}
  <2>1. CASE \E i \in DOMAIN Acls : c = <<"raw", "acl", Acls[i].name>> BY <2>1
  <2>2. CASE \E i \in DOMAIN Wall!Hooks : c = <<Wall!Hooks[i][1], "OPENLAN", Wall!Hooks[i][2]>>
    BY <2>2
  <2> QED BY <2>1, <2>2, ChainList DEF Wall!AclChain, Wall!OLChain
<1> QED BY <1>1, <1>2

\* The chains that the rules of the networks are for are among them.
LEMMA HookChains ==
    /\ Wall!OLChain("filter", "IN") \in WallChains /\ Wall!OLChain("filter", "FWD") \in WallChains
    /\ Wall!OLChain("nat", "POST") \in WallChains /\ Wall!OLChain("mangle", "POST") \in WallChains
    /\ Wall!OLChain("raw", "PRE") \in WallChains
<1>1. 1 \in 1 .. 14 /\ 2 \in 1 .. 14 /\ 6 \in 1 .. 14 /\ 11 \in 1 .. 14 /\ 13 \in 1 .. 14 OBVIOUS
<1>2. \A i \in 1 .. 14 : Wall!OLChain(Wall!Hooks[i][1], Wall!Hooks[i][2]) \in WallChains
  BY HookList, ChainList
<1>3. \A s, t : <<s, t>>[1] = s /\ <<s, t>>[2] = t OBVIOUS
<1> QED BY <1>1, <1>2, <1>3, HookList

\* A rule made by Rule fits.
LEMMA PlainRule ==
    ASSUME NEW c \in WallChains, NEW m, NEW j, j[1] = "target" \/ j \in WallChains
    PROVE  FitRule(Wall!Rule(c, m, j))
BY DEF FitRule, Wall!Rule

\* A target is no chain.
LEMMA TargetIs == \A a, b : Wall!Target(a, b)[1] = "target"
BY DEF Wall!Target

\* enableFwd,
LEMMA FitFwd ==
    ASSUME NEW input, NEW output, NEW source, NEW prefix
    PROVE  FitRules(Wall!enableFwd(input, output, source, prefix))
<1> DEFINE c == Wall!OLChain("filter", "FWD")
           t == Wall!Target("ACCEPT", "")
           r == Wall!Rule(c, <<input, output, source, prefix>>, t)
           e == Wall!Rule(c, <<output, input, prefix, source>>, t)
           b == IF source = prefix THEN <<>> ELSE <<e>>
<1>1. c \in WallChains BY HookChains
<1>2. t[1] = "target" BY TargetIs
<1>3. Wall!enableFwd(input, output, source, prefix) = <<r>> \o b BY DEF Wall!enableFwd
<1> HIDE DEF c, t
<1>4. FitRule(r) /\ FitRule(e) BY <1>1, <1>2, PlainRule
<1> HIDE DEF r, e
<1>5. FitRules(<<r>>) /\ FitRules(<<e>>) BY <1>4, FitOne
<1>6. FitRules(b) BY <1>5, FitNone
<1> HIDE DEF b
<1> QED BY <1>3, <1>5, <1>6, FitCat

\* enableMasq,
LEMMA FitMasq ==
    ASSUME NEW source, NEW prefix
    PROVE  /\ FitRules(Wall!enableMasq(source, prefix))
           /\ FitRules(Wall!enableSnat(source, prefix))
<1> DEFINE c == Wall!OLChain("nat", "POST")
           t == Wall!Target("MASQUERADE", "")
           u == Wall!Target("SNAT", source)
           m == <<"", prefix>>
           r == Wall!Rule(c, <<source, prefix>>, t)
           e == Wall!Rule(c, m, u)
<1>1. c \in WallChains BY HookChains
<1>2. t[1] = "target" /\ u[1] = "target" BY TargetIs
<1>3. /\ Wall!enableMasq(source, prefix) = IF source = prefix THEN <<>> ELSE <<r>>
      /\ Wall!enableSnat(source, prefix) = IF source = prefix THEN <<>> ELSE <<e>>
  BY DEF Wall!enableMasq, Wall!enableSnat
<1> HIDE DEF c, t, u, m
<1>4. FitRule(r) /\ FitRule(e) BY <1>1, <1>2, PlainRule
<1> HIDE DEF r, e
<1>5. FitRules(<<r>>) /\ FitRules(<<e>>) BY <1>4, FitOne
<1> QED BY <1>3, <1>5, FitNone

\* enableAcl,
LEMMA FitAcl ==
    ASSUME NEW o \in DOMAIN Nets, NEW input
    PROVE  FitRules(Wall!enableAcl(Nets[o].acl, input))
<1> DEFINE acl == Nets[o].acl
           c == Wall!OLChain("raw", "PRE")
           r == Wall!Rule(c, input, Wall!AclChain(acl))
<1>1. CASE input = "" \/ acl = "" BY <1>1, FitNone DEF Wall!enableAcl
<1>2. CASE ~(input = "" \/ acl = "")
  <2>1. Wall!enableAcl(acl, input) = <<r>> BY <1>2 DEF Wall!enableAcl
  <2>2. PICK j \in DOMAIN Acls : Acls[j].name = acl BY <1>2, WallAssumption
  <2>3. Wall!AclChain(acl) \in WallChains BY <1>2, <2>2, ChainList
  <2>4. c \in WallChains BY HookChains
  <2>5. FitRule(r) BY <2>3, <2>4, PlainRule
  <2> HIDE DEF r
  <2> QED BY <2>1, <2>5, FitOne
<1> QED BY <1>1, <1>2

\* enablePort,
LEMMA FitPort == ASSUME NEW proto, NEW port_ PROVE FitRules(Wall!enablePort(proto, port_))
<1> DEFINE c == Wall!OLChain("filter", "IN")
           t == Wall!Target("ACCEPT", "")
           r == Wall!Rule(c, <<proto, port_>>, t)
<1>1. c \in WallChains BY HookChains
<1>2. t[1] = "target" BY TargetIs
<1>3. Wall!enablePort(proto, port_) = <<r>> BY DEF Wall!enablePort
<1> HIDE DEF c, t
<1>4. FitRule(r) BY <1>1, <1>2, PlainRule
<1> HIDE DEF r
<1> QED BY <1>3, <1>4, FitOne

\* and preAcl make rules that fit.
LEMMA FitAcls == FitRules(Wall!preAcl)
<1> DEFINE Named(a) ==
               [ i \in DOMAIN a.rules |->
                   Wall!Rule(Wall!AclChain(a.name), a.rules[i].match,
                             Wall!Target(a.rules[i].action, "")) ]
           One(a) == IF a.name = "" THEN <<>> ELSE Named(a)
           ss == [i \in DOMAIN Acls |-> One(Acls[i])]
<1>1. Wall!preAcl = Wall!Joined(ss) BY DEF Wall!preAcl, Wall!ForEach
<1>2. ASSUME NEW i \in DOMAIN Acls PROVE FitRules(One(Acls[i]))
  <2>1. CASE Acls[i].name = "" BY <2>1, FitNone
  <2>2. CASE Acls[i].name # ""
    <3> DEFINE a == Acls[i]
               b == Named(a)
    <3>1. IsList(a.rules) BY WallAssumption
    <3>2. Wall!AclChain(a.name) \in WallChains BY <2>2, ChainList
    <3>3. \A o \in DOMAIN a.rules : FitRule(b[o])
      <4> TAKE o \in DOMAIN a.rules
      <4>1. b[o] = Wall!Rule(Wall!AclChain(a.name), a.rules[o].match,
                             Wall!Target(a.rules[o].action, ""))
        OBVIOUS
      <4>2. Wall!Target(a.rules[o].action, "")[1] = "target" BY TargetIs
      <4> HIDE DEF a, b
      <4> QED BY <3>2, <4>1, <4>2, PlainRule
    <3>4. b = [o \in DOMAIN a.rules |-> b[o]] OBVIOUS
    <3> HIDE DEF a, b
    <3>5. IsList(b) /\ DOMAIN b = DOMAIN a.rules BY <3>1, <3>4, ListMap
    <3>6. FitRules(b) BY <3>3, <3>5 DEF FitRules, Wall!Range
    <3> QED BY <2>2, <3>6 DEF a, b
  <2> QED BY <2>1, <2>2
<1> HIDE DEF One, Named
<1>3. IsList(Acls) BY WallAssumption
<1>4. ss = [i \in DOMAIN Acls |-> ss[i]] /\ \A i \in DOMAIN Acls : FitRules(ss[i])
  BY <1>2
<1> HIDE DEF ss
<1> QED BY <1>1, <1>3, <1>4, FitEach

\* The jumps into the chains of the switch go in front.
LEMMA JumpFacts ==
    /\ IsList(Wall!jumpOLC)
    /\ \A i \in DOMAIN Wall!jumpOLC :
         LET r == Wall!jumpOLC[i]
         IN  r.chain \in Wall!BuiltIns /\ r.jump \in WallChains /\ r.order = "-I"
<1> DEFINE J(i) == [ Wall!Rule(Wall!BuiltIn(Wall!Hooks[i][1], Wall!Hooks[i][2]), "all",
                               Wall!OLChain(Wall!Hooks[i][1], Wall!Hooks[i][2]))
                       EXCEPT !.order = "-I" ]
<1>1. Wall!jumpOLC = [i \in DOMAIN Wall!Hooks |-> J(i)] BY DEF Wall!jumpOLC
<1>2. Wall!jumpOLC = [i \in DOMAIN Wall!Hooks |-> Wall!jumpOLC[i]] BY <1>1
<1>3. IsList(Wall!jumpOLC) /\ DOMAIN Wall!jumpOLC = DOMAIN Wall!Hooks
  BY <1>2, HookList, ListMap
<1>4. ASSUME NEW i \in DOMAIN Wall!Hooks
      PROVE  J(i).chain \in Wall!BuiltIns /\ J(i).jump \in WallChains /\ J(i).order = "-I"
  <2>1. /\ J(i).chain = Wall!BuiltIn(Wall!Hooks[i][1], Wall!Hooks[i][2])
        /\ J(i).jump = Wall!OLChain(Wall!Hooks[i][1], Wall!Hooks[i][2])
        /\ J(i).order = "-I"
    BY DEF Wall!Rule
  <2> QED BY <2>1, ChainList DEF Wall!BuiltIns
<1> HIDE DEF J
<1> QED BY <1>1, <1>3, <1>4

\* They fit,
LEMMA FitJumps == FitRules(Wall!jumpOLC)
BY JumpFacts DEF FitRules, FitRule, Wall!Range

\* and so do the rules of the configuration file.
LEMMA FitFlows == FitRules(Flows)
BY WallAssumption DEF FitRules, FitRule, Wall!Range, WallChains

\* A list of lists of rules: the rules of each are rules of it.
LEMMA EachHas ==
    ASSUME NEW s, IsList(s), NEW ss, ss = [i \in DOMAIN s |-> ss[i]],
           \A i \in DOMAIN s : IsList(ss[i]), NEW i \in DOMAIN s, NEW x \in Wall!Range(ss[i])
    PROVE  x \in Wall!Range(Wall!Joined(ss))
<1>1. IsList(ss) /\ DOMAIN ss = DOMAIN s BY ListMap
<1>2. \A o \in DOMAIN ss : IsList(ss[o]) BY <1>1
<1>3. \A y : y \in Wall!Range(Wall!Joined(ss)) <=> \E o \in DOMAIN ss : y \in Wall!Range(ss[o])
  BY <1>1, <1>2, ListFlat
<1> QED BY <1>1, <1>3

\* Lists of lists of anything are lists.
LEMMA EachList ==
    ASSUME NEW s, IsList(s), NEW ss, ss = [i \in DOMAIN s |-> ss[i]],
           \A i \in DOMAIN s : IsList(ss[i])
    PROVE  IsList(Wall!Joined(ss))
<1>1. IsList(ss) /\ DOMAIN ss = DOMAIN s BY ListMap
<1>2. \A o \in DOMAIN ss : IsList(ss[o]) BY <1>1
<1> QED BY <1>1, <1>2, ListFlat

\* The routes and servers of a network.
LEMMA NetLists ==
    ASSUME NEW o \in DOMAIN Nets
    PROVE  IsList(Nets[o].routes) /\ IsList(Nets[o].vpns)
           /\ \A i \in DOMAIN Nets[o].vpns : IsList(Nets[o].vpns[i].routes)
BY WallAssumption

\* The prefixes that are pushed to the clients of a VPN.
LEMMA Pushed ==
    ASSUME NEW o \in DOMAIN Nets, NEW i \in DOMAIN Nets[o].vpns
    PROVE  LET net == Nets[o]
               ps == Wall!preWorkerVPN(net, net.vpns[i])
           IN  /\ IsList(ps)
               /\ net.subnet # "" => net.subnet \in Wall!Range(ps)
               /\ \A k_ \in DOMAIN net.routes :
                    net.routes[k_].prefix # "0.0.0.0/0" =>
                        net.routes[k_].prefix \in Wall!Range(ps)
<1> DEFINE net == Nets[o]
           v == net.vpns[i]
           One(r) == IF r.prefix = "0.0.0.0/0" THEN <<>> ELSE <<r.prefix>>
           ss == [k_ \in DOMAIN net.routes |-> One(net.routes[k_])]
           own == v.routes
           its == IF net.subnet = "" THEN <<>> ELSE <<net.subnet>>
           far == Wall!Joined(ss)
           ps == Wall!preWorkerVPN(net, v)
<1>1. ps = ((own \o <<v.subnet>>) \o its) \o far BY DEF Wall!preWorkerVPN, Wall!ForEach
<1>2. IsList(own) BY NetLists
<1>3. IsList(<<v.subnet>>) BY ListOne
<1>4. IsList(its) /\ (net.subnet # "" => net.subnet \in Wall!Range(its)) BY ListOne, ListNone
<1>5. IsList(net.routes) BY NetLists
<1>6. \A r : IsList(One(r)) /\ (r.prefix # "0.0.0.0/0" => r.prefix \in Wall!Range(One(r)))
  BY ListOne, ListNone
<1> HIDE DEF One
<1>7. ss = [k_ \in DOMAIN net.routes |-> ss[k_]] /\ \A k_ \in DOMAIN net.routes : ss[k_] = One(net.routes[k_])
  OBVIOUS
<1> HIDE DEF net, v, ss, own, its, ps
<1>8. \A k_ \in DOMAIN net.routes : IsList(ss[k_]) BY <1>6, <1>7
<1>9. IsList(far) BY <1>5, <1>7, <1>8, EachList
<1>10. \A k_ \in DOMAIN net.routes : net.routes[k_].prefix # "0.0.0.0/0" =>
           net.routes[k_].prefix \in Wall!Range(far)
  <2> TAKE k_ \in DOMAIN net.routes
  <2>1. ASSUME net.routes[k_].prefix # "0.0.0.0/0"
        PROVE  net.routes[k_].prefix \in Wall!Range(ss[k_])
    BY <1>6, <1>7, <2>1
  <2> QED BY <1>5, <1>7, <1>8, <2>1, EachHas
<1> HIDE DEF far
<1> DEFINE a == own \o <<v.subnet>>
<1>11. IsList(a) BY <1>2, <1>3, ListCat
<1> HIDE DEF a
<1> DEFINE b == a \o its
<1>12. IsList(b) /\ \A x : x \in Wall!Range(its) => x \in Wall!Range(b) BY <1>4, <1>11, ListCat
<1> HIDE DEF b
<1>13. /\ IsList(b \o far)
       /\ \A x : x \in Wall!Range(b) \/ x \in Wall!Range(far) => x \in Wall!Range(b \o far)
  BY <1>9, <1>12, ListCat
<1>14. ps = b \o far BY <1>1 DEF a, b
<1> QED BY <1>4, <1>10, <1>12, <1>13, <1>14 DEF net, ps, v

\* preAllow,
LEMMA FitAllow == FitRules(Wall!preAllow)
<1> DEFINE RulesOf(net) == [i \in DOMAIN net.vpns |->
                          Wall!enablePort(net.vpns[i].proto, net.vpns[i].port)]
           ss == [o \in DOMAIN Nets |-> Wall!Joined(RulesOf(Nets[o]))]
           a == Wall!enablePort("udp", "switch")
           b == Wall!enablePort("tcp", "switch")
<1>1. Wall!preAllow = (a \o b) \o Wall!Joined(ss) BY DEF Wall!preAllow, Wall!ForEach
<1>2. ASSUME NEW o \in DOMAIN Nets PROVE FitRules(Wall!Joined(RulesOf(Nets[o])))
  <2> DEFINE net == Nets[o]
             f == RulesOf(net)
  <2>1. f = [i \in DOMAIN net.vpns |-> f[i]] OBVIOUS
  <2>2. \A i \in DOMAIN net.vpns : FitRules(f[i]) BY FitPort
  <2>3. IsList(net.vpns) BY NetLists
  <2> HIDE DEF f, net
  <2>4. FitRules(Wall!Joined(f)) BY <2>1, <2>2, <2>3, FitEach
  <2> QED BY <2>4 DEF f, net
<1> HIDE DEF RulesOf
<1>3. IsList(Nets) BY WallAssumption
<1>4. ss = [o \in DOMAIN Nets |-> ss[o]] /\ \A o \in DOMAIN Nets : FitRules(ss[o]) BY <1>2
<1> HIDE DEF ss
<1>5. FitRules(Wall!Joined(ss)) BY <1>3, <1>4, FitEach
<1>6. FitRules(a \o b) BY FitPort, FitCat
<1> HIDE DEF a, b
<1> QED BY <1>1, <1>5, <1>6, FitCat

\* The forwards and the masquerades of a VPN are rules, and there for every
\* prefix that is pushed.
LEMMA FitVpn0 ==
    ASSUME NEW o \in DOMAIN Nets
    PROVE  /\ FitRules(Wall!preNetVPN0(Nets[o]))
           /\ \A i \in DOMAIN Nets[o].vpns :
                LET v == Nets[o].vpns[i]
                IN  \A p \in Wall!Range(Wall!preWorkerVPN(Nets[o], v)) : \A x :
                      \/ x \in Wall!Range(Wall!enableFwd(v.dev, "", v.subnet, p))
                      \/ x \in Wall!Range(Wall!enableMasq(v.subnet, p))
                      => x \in Wall!Range(Wall!preNetVPN0(Nets[o]))
<1> DEFINE net == Nets[o]
           Pair(v, p) == Wall!enableFwd(v.dev, "", v.subnet, p) \o Wall!enableMasq(v.subnet, p)
           RulesOf(v) == [j \in DOMAIN Wall!preWorkerVPN(net, v) |->
                         Pair(v, Wall!preWorkerVPN(net, v)[j])]
           One(v) == Wall!enableAcl(net.acl, v.dev) \o Wall!Joined(RulesOf(v))
           ss == [i \in DOMAIN net.vpns |-> One(net.vpns[i])]
<1>1. Wall!preNetVPN0(net) = Wall!Joined(ss) BY DEF Wall!preNetVPN0, Wall!ForEach
<1>2. \A v, p : /\ FitRules(Pair(v, p))
                /\ \A x : \/ x \in Wall!Range(Wall!enableFwd(v.dev, "", v.subnet, p))
                          \/ x \in Wall!Range(Wall!enableMasq(v.subnet, p))
                          => x \in Wall!Range(Pair(v, p))
  <2> TAKE v, p
  <2> DEFINE f == Wall!enableFwd(v.dev, "", v.subnet, p)
             m == Wall!enableMasq(v.subnet, p)
  <2>1. FitRules(f) /\ FitRules(m) BY FitFwd, FitMasq
  <2> HIDE DEF f, m
  <2>2. IsList(f) /\ IsList(m) BY <2>1 DEF FitRules
  <2>3. FitRules(f \o m) BY <2>1, FitCat
  <2>4. \A x : x \in Wall!Range(f) \/ x \in Wall!Range(m) => x \in Wall!Range(f \o m)
    BY <2>2, ListCat
  <2> QED BY <2>3, <2>4 DEF f, m
<1> HIDE DEF Pair
<1>3. ASSUME NEW i \in DOMAIN net.vpns
      PROVE  /\ FitRules(One(net.vpns[i]))
             /\ \A p \in Wall!Range(Wall!preWorkerVPN(net, net.vpns[i])) :
                \A x \in Wall!Range(Pair(net.vpns[i], p)) : x \in Wall!Range(One(net.vpns[i]))
  <2> DEFINE v == net.vpns[i]
             ps == Wall!preWorkerVPN(net, v)
             f == RulesOf(v)
             a == Wall!enableAcl(net.acl, v.dev)
  <2>1. IsList(ps) BY Pushed
  <2>2. FitRules(a) BY FitAcl
  <2>3. f = [j \in DOMAIN ps |-> f[j]] /\ \A j \in DOMAIN ps : f[j] = Pair(v, ps[j]) OBVIOUS
  <2>4. One(v) = a \o Wall!Joined(f) OBVIOUS
  <2> HIDE DEF ps, f, a, v, One, net
  <2>5. \A j \in DOMAIN ps : FitRules(f[j]) BY <1>2, <2>3
  <2>6. \A j \in DOMAIN ps : IsList(f[j]) BY <2>5 DEF FitRules
  <2>7. FitRules(Wall!Joined(f)) BY <2>1, <2>3, <2>5, FitEach
  <2>8. FitRules(One(v)) BY <2>2, <2>4, <2>7, FitCat
  <2>9. \A x \in Wall!Range(Wall!Joined(f)) : x \in Wall!Range(One(v))
    <3>1. IsList(a) /\ IsList(Wall!Joined(f)) BY <2>2, <2>7 DEF FitRules
    <3> QED BY <2>4, <3>1, ListCat
  <2>10. ASSUME NEW p \in Wall!Range(ps), NEW x \in Wall!Range(Pair(v, p))
         PROVE  x \in Wall!Range(One(v))
    <3>1. PICK j \in DOMAIN ps : p = ps[j] BY DEF Wall!Range
    <3>2. x \in Wall!Range(f[j]) BY <2>3, <3>1
    <3>3. x \in Wall!Range(Wall!Joined(f)) BY <2>1, <2>3, <2>6, <3>2, EachHas
    <3> QED BY <2>9, <3>3
  <2> QED BY <2>8, <2>10 DEF v, ps
<1> HIDE DEF One, RulesOf
<1>4. IsList(net.vpns) BY NetLists
<1>5. ss = [i \in DOMAIN net.vpns |-> ss[i]] /\ \A i \in DOMAIN net.vpns : ss[i] = One(net.vpns[i])
  OBVIOUS
<1> HIDE DEF ss, net
<1>6. \A i \in DOMAIN net.vpns : FitRules(ss[i]) BY <1>3, <1>5
<1>7. \A i \in DOMAIN net.vpns : IsList(ss[i]) BY <1>6 DEF FitRules
<1>8. FitRules(Wall!Joined(ss)) BY <1>4, <1>5, <1>6, FitEach
<1>9. ASSUME NEW i \in DOMAIN net.vpns,
             NEW p \in Wall!Range(Wall!preWorkerVPN(net, net.vpns[i])), NEW x,
             x \in Wall!Range(Pair(net.vpns[i], p))
      PROVE  x \in Wall!Range(Wall!Joined(ss))
  <2>1. x \in Wall!Range(ss[i]) BY <1>3, <1>5, <1>9
  <2> QED BY <1>4, <1>5, <1>7, <2>1, EachHas
<1> QED BY <1>1, <1>2, <1>8, <1>9 DEF net

\* preNetVPN1,
LEMMA FitVpn1 ==
    ASSUME NEW o \in DOMAIN Nets, NEW prefix
    PROVE  FitRules(Wall!preNetVPN1(Nets[o], prefix))
<1> DEFINE net == Nets[o]
           One(v) == Wall!enableFwd("", net.bridge, v.subnet, prefix)
                     \o Wall!enableMasq(v.subnet, prefix)
           ss == [i \in DOMAIN net.vpns |-> One(net.vpns[i])]
<1>1. Wall!preNetVPN1(net, prefix) = Wall!Joined(ss) BY DEF Wall!preNetVPN1, Wall!ForEach
<1>2. \A v : FitRules(One(v)) BY FitFwd, FitMasq, FitCat
<1> HIDE DEF One
<1>3. IsList(net.vpns) BY NetLists
<1>4. ss = [i \in DOMAIN net.vpns |-> ss[i]] /\ \A i \in DOMAIN net.vpns : FitRules(ss[i])
  BY <1>2
<1> HIDE DEF ss, net
<1>5. FitRules(Wall!Joined(ss)) BY <1>3, <1>4, FitEach
<1> QED BY <1>1, <1>5 DEF net

\* NetRoute,
LEMMA FitRoute ==
    ASSUME NEW o \in DOMAIN Nets, NEW r
    PROVE  FitRules(Wall!NetRoute(Nets[o], r))
<1> DEFINE net == Nets[o]
           a == Wall!preNetVPN1(net, r.prefix)
           b == Wall!enableFwd(net.bridge, "", net.subnet, r.prefix)
           s == Wall!enableSnat(net.ifAddr, r.prefix)
           m == Wall!enableMasq(net.subnet, r.prefix)
           c == IF r.multi THEN s ELSE IF r.snat THEN m ELSE <<>>
           d == IF ~r.local THEN <<>> ELSE b \o c
<1>1. Wall!NetRoute(net, r) = a \o d BY DEF Wall!NetRoute
<1>2. FitRules(a) /\ FitRules(b) /\ FitRules(s) /\ FitRules(m)
  BY FitVpn1, FitFwd, FitMasq
<1> HIDE DEF a, b, s, m
<1>3. FitRules(c) BY <1>2, FitNone
<1> HIDE DEF c
<1>4. FitRules(b \o c) BY <1>2, <1>3, FitCat
<1>5. FitRules(d) BY <1>4, FitNone
<1> HIDE DEF d
<1> QED BY <1>1, <1>2, <1>5, FitCat

\* NetRules, which holds what the clients of its server need,
LEMMA FitNet ==
    ASSUME NEW o \in DOMAIN Nets
    PROVE  /\ FitRules(Wall!NetRules(Nets[o]))
           /\ Nets[o].bridge # "" =>
                \A x \in Wall!Range(Wall!preNetVPN0(Nets[o])) :
                    x \in Wall!Range(Wall!NetRules(Nets[o]))
<1> DEFINE net == Nets[o]
           c == Wall!OLChain("mangle", "POST")
           t == Wall!Target("TCPMSS", "")
           r == Wall!Rule(c, <<net.bridge, "tcp">>, t)
           w == Wall!preWorker(net)
           a == Wall!enableAcl(net.acl, net.bridge)
           f == Wall!enableFwd(net.bridge, net.bridge, "", "")
           v == Wall!preNetVPN0(net)
           One(q) == Wall!NetRoute(net, q)
           ss == [i \in DOMAIN net.routes |-> One(net.routes[i])]
           s == Wall!Joined(ss)
           e == IF net.ifAddr = "" THEN <<>> ELSE s
           all == Wall!NetRules(net)
<1>1. all = IF net.bridge = "" THEN <<>> ELSE (((w \o a) \o f) \o v) \o e
  BY DEF Wall!NetRules, Wall!ForEach
<1>2. FitRules(w)
  <2>1. c \in WallChains /\ t[1] = "target" BY HookChains, TargetIs
  <2>2. w = IF net.mss = 0 THEN <<>> ELSE <<r>> BY DEF Wall!preWorker
  <2> HIDE DEF c, t, w
  <2>3. FitRule(r) BY <2>1, PlainRule
  <2> HIDE DEF r
  <2> QED BY <2>2, <2>3, FitOne, FitNone
<1>3. FitRules(a) /\ FitRules(f) /\ FitRules(v) BY FitAcl, FitFwd, FitVpn0
<1>4. FitRules(e)
  <2>1. IsList(net.routes) BY NetLists
  <2>2. \A q : FitRules(One(q)) BY FitRoute
  <2> HIDE DEF One
  <2>3. ss = [i \in DOMAIN net.routes |-> ss[i]] /\ \A i \in DOMAIN net.routes : FitRules(ss[i])
    BY <2>2
  <2> HIDE DEF ss, net
  <2>4. FitRules(s) BY <2>1, <2>3, FitEach
  <2> HIDE DEF s
  <2> QED BY <2>4, FitNone
<1> HIDE DEF w, a, f, v, e, all, s, ss, One
<1> DEFINE b == (w \o a) \o f
<1>5. FitRules(b)
  <2>1. FitRules(w \o a) BY <1>2, <1>3, FitCat
  <2> QED BY <1>3, <2>1, FitCat
<1> HIDE DEF b
<1> DEFINE d == b \o v
<1>6. FitRules(d) BY <1>3, <1>5, FitCat
<1>7. \A x \in Wall!Range(v) : x \in Wall!Range(d)
  <2>1. IsList(b) /\ IsList(v) BY <1>3, <1>5 DEF FitRules
  <2> QED BY <2>1, ListCat
<1> HIDE DEF d
<1>8. FitRules(d \o e) BY <1>4, <1>6, FitCat
<1>9. \A x \in Wall!Range(d) : x \in Wall!Range(d \o e)
  <2>1. IsList(d) /\ IsList(e) BY <1>4, <1>6 DEF FitRules
  <2> QED BY <2>1, ListCat
<1>10. all = IF net.bridge = "" THEN <<>> ELSE d \o e BY <1>1 DEF b, d
<1>11. FitRules(all) BY <1>8, <1>10, FitNone
<1>12. ASSUME net.bridge # "", NEW x \in Wall!Range(v) PROVE x \in Wall!Range(all)
  <2>1. all = d \o e BY <1>10, <1>12
  <2>2. x \in Wall!Range(d \o e) BY <1>7, <1>9, <1>12
  <2> QED BY <2>1, <2>2
<1> QED BY <1>11, <1>12 DEF all, v

\* and preNets make rules that fit, and lose none of a network.
LEMMA FitNets ==
    /\ FitRules(Wall!preNets)
    /\ \A o \in DOMAIN Nets : \A x \in Wall!Range(Wall!NetRules(Nets[o])) :
           x \in Wall!Range(Wall!preNets)
<1> DEFINE ss == [o \in DOMAIN Nets |-> Wall!NetRules(Nets[o])]
<1>1. Wall!preNets = Wall!Joined(ss) BY DEF Wall!preNets, Wall!ForEach
<1>2. IsList(Nets) BY WallAssumption
<1>3. ss = [o \in DOMAIN Nets |-> ss[o]] /\ \A o \in DOMAIN Nets : ss[o] = Wall!NetRules(Nets[o])
  OBVIOUS
<1> HIDE DEF ss
<1>4. \A o \in DOMAIN Nets : FitRules(ss[o]) BY <1>3, FitNet
<1>5. \A o \in DOMAIN Nets : IsList(ss[o]) BY <1>4 DEF FitRules
<1>6. FitRules(Wall!Joined(ss)) BY <1>2, <1>3, <1>4, FitEach
<1>7. ASSUME NEW o \in DOMAIN Nets, NEW x \in Wall!Range(Wall!NetRules(Nets[o]))
      PROVE  x \in Wall!Range(Wall!Joined(ss))
  <2>1. x \in Wall!Range(ss[o]) BY <1>3, <1>7
  <2> QED BY <1>2, <1>3, <1>5, <2>1, EachHas
<1> QED BY <1>1, <1>6, <1>7

\* The rules of the switch fit, and lose none of its networks.
LEMMA RuleList ==
    /\ FitRules(Wall!InitRules)
    /\ \A x : x \in Wall!Range(Wall!preNets) \/ x \in Wall!Range(Wall!jumpOLC) =>
           x \in Wall!Range(Wall!InitRules)
<1> DEFINE a == Flows \o Wall!preAcl
           b == a \o Wall!preAllow
           c == b \o Wall!preNets
           d == c \o Wall!jumpOLC
<1>1. Wall!InitRules = d BY DEF Wall!InitRules
<1>2. FitRules(a) BY FitFlows, FitAcls, FitCat
<1> HIDE DEF a
<1>3. FitRules(b) BY <1>2, FitAllow, FitCat
<1> HIDE DEF b
<1>4. FitRules(c) BY <1>3, FitNets, FitCat
<1>5. \A x : x \in Wall!Range(Wall!preNets) => x \in Wall!Range(c)
  <2>1. IsList(b) /\ IsList(Wall!preNets) BY <1>3, FitNets DEF FitRules
  <2> QED BY <2>1, ListCat
<1> HIDE DEF c
<1>6. FitRules(d) BY <1>4, FitJumps, FitCat
<1>7. \A x : x \in Wall!Range(c) \/ x \in Wall!Range(Wall!jumpOLC) => x \in Wall!Range(d)
  <2>1. IsList(c) /\ IsList(Wall!jumpOLC) BY <1>4, FitJumps DEF FitRules
  <2> QED BY <2>1, ListCat
<1> QED BY <1>1, <1>5, <1>6, <1>7

\* The forward and the masquerade that a client of a server needs are configured.
LEMMA VpnRules ==
    ASSUME NEW net \in Wall!Range(Nets), net.bridge # "", NEW v \in Wall!Range(net.vpns),
           NEW p \in {net.subnet} \cup { r.prefix : r \in Wall!Range(net.routes) },
           p \notin {"", "0.0.0.0/0", v.subnet}
    PROVE  /\ Wall!Rule(Wall!OLChain("filter", "FWD"), <<v.dev, "", v.subnet, p>>,
                        Wall!Target("ACCEPT", "")) \in Wall!Range(Wall!InitRules)
           /\ Wall!Rule(Wall!OLChain("filter", "FWD"), <<"", v.dev, p, v.subnet>>,
                        Wall!Target("ACCEPT", "")) \in Wall!Range(Wall!InitRules)
           /\ Wall!Rule(Wall!OLChain("nat", "POST"), <<v.subnet, p>>,
                        Wall!Target("MASQUERADE", "")) \in Wall!Range(Wall!InitRules)
<1>1. PICK o \in DOMAIN Nets : net = Nets[o] BY DEF Wall!Range
<1>2. PICK i \in DOMAIN net.vpns : v = net.vpns[i] BY DEF Wall!Range
<1>3. p \in Wall!Range(Wall!preWorkerVPN(net, v))
  <2> DEFINE ps == Wall!preWorkerVPN(net, v)
  <2>1. /\ net.subnet # "" => net.subnet \in Wall!Range(ps)
        /\ \A k_ \in DOMAIN net.routes : net.routes[k_].prefix # "0.0.0.0/0" =>
             net.routes[k_].prefix \in Wall!Range(ps)
    BY <1>1, <1>2, Pushed
  <2> HIDE DEF ps
  <2>0. p # "" /\ p # "0.0.0.0/0" OBVIOUS
  <2>2. CASE p = net.subnet BY <2>0, <2>1, <2>2 DEF ps
  <2>3. CASE p # net.subnet
    <3>1. PICK k_ \in DOMAIN net.routes : p = net.routes[k_].prefix BY <2>3 DEF Wall!Range
    <3> QED BY <2>0, <2>1, <3>1 DEF ps
  <2> QED BY <2>2, <2>3 DEF ps
<1> DEFINE f == Wall!enableFwd(v.dev, "", v.subnet, p)
           m == Wall!enableMasq(v.subnet, p)
<1>4. \A x : x \in Wall!Range(f) \/ x \in Wall!Range(m) => x \in Wall!Range(Wall!preNetVPN0(net))
  BY <1>1, <1>2, <1>3, FitVpn0
<1>5. \A x : x \in Wall!Range(f) \/ x \in Wall!Range(m) => x \in Wall!Range(Wall!InitRules)
  <2>1. \A x \in Wall!Range(Wall!preNetVPN0(net)) : x \in Wall!Range(Wall!NetRules(net))
    BY <1>1, FitNet
  <2>2. \A x \in Wall!Range(Wall!NetRules(net)) : x \in Wall!Range(Wall!preNets)
    BY <1>1, FitNets
  <2> HIDE DEF f, m
  <2> QED BY <1>4, <2>1, <2>2, RuleList
<1> DEFINE t == Wall!Target("ACCEPT", "")
           u == Wall!Target("MASQUERADE", "")
           x1 == Wall!Rule(Wall!OLChain("filter", "FWD"), <<v.dev, "", v.subnet, p>>, t)
           x2 == Wall!Rule(Wall!OLChain("filter", "FWD"), <<"", v.dev, p, v.subnet>>, t)
           x3 == Wall!Rule(Wall!OLChain("nat", "POST"), <<v.subnet, p>>, u)
<1>6. v.subnet # p OBVIOUS
<1>7. f = <<x1>> \o <<x2>> /\ m = <<x3>> BY <1>6 DEF Wall!enableFwd, Wall!enableMasq
<1> HIDE DEF x1, x2, x3, f, m
<1>8. x1 \in Wall!Range(f) /\ x2 \in Wall!Range(f) /\ x3 \in Wall!Range(m)
  <2>1. IsList(<<x1>>) /\ IsList(<<x2>>) BY ListOne
  <2>2. \A x : x \in Wall!Range(f) <=> x \in Wall!Range(<<x1>>) \/ x \in Wall!Range(<<x2>>)
    BY <1>7, <2>1, ListCat
  <2> QED BY <1>7, <2>2, ListOne
<1>9. /\ x1 \in Wall!Range(Wall!InitRules) /\ x2 \in Wall!Range(Wall!InitRules)
      /\ x3 \in Wall!Range(Wall!InitRules)
  BY <1>5, <1>8
<1> QED BY <1>9 DEF x1, x2, x3

\* The configured entries of a chain, and the places of the chains and the rules.
WallConf(c) ==
    { <<r.match, r.jump>> : r \in { x \in Wall!Range(Wall!InitRules) : x.chain = c } }

NumChains == Len(Wall!InitChains)
NumRules == Len(Wall!InitRules)
ChainAt(i) == Wall!InitChains[i]
RuleAt(i) == Wall!InitRules[i]
EntryAt(i) == <<Wall!InitRules[i].match, Wall!InitRules[i].jump>>

Once(s) == \A x, y \in DOMAIN s : s[x] = s[y] => x = y

KernelOK(K) ==
    /\ K = [c \in DOMAIN K |-> K[c]]
    /\ Wall!BuiltIns \subseteq DOMAIN K /\ DOMAIN K \subseteq Wall!BuiltIns \cup WallChains
    /\ \A c \in DOMAIN K :
         IsList(K[c]) /\ Once(K[c]) /\ Wall!Range(K[c]) \subseteq WallConf(c)

In(K, c) == IF c \in DOMAIN K THEN Wall!Range(K[c]) ELSE {}

\* The places of the chains and the rules in their lists.
LEMMA WallSizes ==
    /\ NumChains \in Nat /\ NumRules \in Nat
    /\ DOMAIN Wall!InitChains = 1 .. NumChains /\ DOMAIN Wall!InitRules = 1 .. NumRules
    /\ \A i \in 1 .. NumChains : ChainAt(i) \in WallChains
    /\ \A c \in WallChains : \E i \in 1 .. NumChains : c = ChainAt(i)
    /\ \A i \in 1 .. NumRules : FitRule(RuleAt(i)) /\ EntryAt(i) \in WallConf(RuleAt(i).chain)
    /\ \A c : \A e \in WallConf(c) : \E i \in 1 .. NumRules : RuleAt(i).chain = c /\ e = EntryAt(i)
<1>1. IsList(Wall!InitChains) /\ IsList(Wall!InitRules)
      /\ \A r \in Wall!Range(Wall!InitRules) : FitRule(r)
  BY ChainList, RuleList DEF FitRules
<1>2. /\ NumChains \in Nat /\ NumRules \in Nat
      /\ DOMAIN Wall!InitChains = 1 .. NumChains /\ DOMAIN Wall!InitRules = 1 .. NumRules
  BY <1>1, ListFacts DEF NumChains, NumRules
<1>3. \A i \in 1 .. NumRules : RuleAt(i) \in Wall!Range(Wall!InitRules)
  BY <1>2 DEF Wall!Range, RuleAt
<1>4. \A i \in 1 .. NumRules : FitRule(RuleAt(i)) /\ EntryAt(i) \in WallConf(RuleAt(i).chain)
  BY <1>1, <1>3 DEF WallConf, EntryAt, RuleAt
<1>5. ASSUME NEW c, NEW e \in WallConf(c)
      PROVE  \E i \in 1 .. NumRules : RuleAt(i).chain = c /\ e = EntryAt(i)
  <2>1. PICK r \in Wall!Range(Wall!InitRules) : r.chain = c /\ e = <<r.match, r.jump>>
    BY DEF WallConf
  <2>2. PICK i \in 1 .. NumRules : r = Wall!InitRules[i] BY <1>2 DEF Wall!Range
  <2> QED BY <2>1, <2>2 DEF RuleAt, EntryAt
<1>6. /\ \A i \in 1 .. NumChains : ChainAt(i) \in WallChains
      /\ \A c \in WallChains : \E i \in 1 .. NumChains : c = ChainAt(i)
  BY <1>2 DEF WallChains, Wall!Range, ChainAt
<1> QED BY <1>2, <1>4, <1>5, <1>6

\* What the command for a chain makes of the kernel.
ChainPut(K, c) ==
    IF c \in DOMAIN K THEN K
    ELSE [d \in DOMAIN K \cup {c} |-> IF d = c THEN <<>> ELSE K[d]]

\* A new chain is empty and changes no other.
LEMMA KernelChain ==
    ASSUME NEW K, KernelOK(K), NEW c \in WallChains, NEW L,
           L = ChainPut(K, c)
    PROVE  /\ KernelOK(L) /\ DOMAIN L = DOMAIN K \cup {c}
           /\ \A d \in DOMAIN K : L[d] = K[d]
           /\ c \notin DOMAIN K => Wall!Range(L[c]) = {} /\ DOMAIN L[c] = {}
           /\ \A d : In(L, d) = In(K, d)
<1>1. CASE c \in DOMAIN K
  <2>1. L = K BY <1>1 DEF ChainPut
  <2> QED BY <1>1, <2>1
<1>2. CASE c \notin DOMAIN K
  <2>1. L = [d \in DOMAIN K \cup {c} |-> IF d = c THEN <<>> ELSE K[d]]
    BY <1>2 DEF ChainPut
  <2>2. /\ DOMAIN L = DOMAIN K \cup {c} /\ L[c] = <<>>
        /\ \A d \in DOMAIN K : L[d] = K[d]
    BY <1>2, <2>1
  <2>3. DOMAIN <<>> = {} OBVIOUS
  <2>4. Wall!Range(<<>>) = {} /\ IsList(<<>>) BY ListNone
  <2>5. L = [d \in DOMAIN L |-> L[d]] BY <2>1
  <2>6. IsList(L[c]) /\ Once(L[c]) /\ Wall!Range(L[c]) \subseteq WallConf(c)
    BY <2>2, <2>3, <2>4 DEF Once
  <2>7. KernelOK(L) BY <2>2, <2>5, <2>6 DEF KernelOK
  <2>8. \A d : In(L, d) = In(K, d) BY <1>2, <2>2, <2>4 DEF In
  <2> QED BY <2>2, <2>3, <2>4, <2>7, <2>8
<1> QED BY <1>1, <1>2

Changed(K, c, s) == [K EXCEPT ![c] = s]

\* A rule that is not there yet goes to the end, or, with -I, to the front.
LEMMA KernelRule ==
    ASSUME NEW K, KernelOK(K), NEW c \in DOMAIN K, NEW e \in WallConf(c), e \notin In(K, c),
           NEW s, s = Append(K[c], e) \/ s = <<e>> \o K[c], NEW L, L = Changed(K, c, s)
    PROVE  /\ KernelOK(L) /\ DOMAIN L = DOMAIN K /\ L[c] = s
           /\ \A d \in DOMAIN K \ {c} : L[d] = K[d]
           /\ In(L, c) = In(K, c) \cup {e} /\ \A d : d # c => In(L, d) = In(K, d)
<1>1. IsList(K[c]) /\ Once(K[c]) /\ Wall!Range(K[c]) \subseteq WallConf(c)
      /\ K = [d \in DOMAIN K |-> K[d]]
  BY DEF KernelOK
<1>2. DOMAIN L = DOMAIN K /\ L[c] = s /\ \A d \in DOMAIN K \ {c} : L[d] = K[d]
  BY <1>1 DEF Changed
<1> DEFINE t == K[c]
<1>3. e \notin Wall!Range(t) BY DEF In
<1> HIDE DEF t
<1>4. Len(t) \in Nat /\ DOMAIN t = 1 .. Len(t) BY <1>1, ListFacts DEF t
<1>5. ASSUME NEW a, NEW b, IsList(a), IsList(b), Once(a), Once(b),
             \A x \in Wall!Range(a) : x \notin Wall!Range(b)
      PROVE  Once(a \o b)
  <2>1. /\ Len(a) \in Nat /\ DOMAIN a = 1 .. Len(a) /\ Len(b) \in Nat /\ DOMAIN b = 1 .. Len(b)
    BY <1>5, ListFacts
  <2> DEFINE q == a \o b
  <2>2. /\ IsList(q) /\ Len(q) = Len(a) + Len(b)
        /\ \A i \in 1 .. Len(a) : q[i] = a[i]
        /\ \A i \in 1 .. Len(b) : q[Len(a) + i] = b[i]
    BY <1>5, ListCat
  <2> HIDE DEF q
  <2>3. DOMAIN q = 1 .. Len(a) + Len(b) BY <2>2, ListFacts
  <2>4. \A i \in 1 .. Len(a) + Len(b) : i \notin 1 .. Len(a) =>
            i - Len(a) \in 1 .. Len(b) /\ i = Len(a) + (i - Len(a))
    BY <2>1
  <2>5. \A i \in 1 .. Len(a) + Len(b) : i \notin 1 .. Len(a) => q[i] = b[i - Len(a)]
    BY <2>2, <2>4
  <2>6. ASSUME NEW x \in DOMAIN q, NEW y \in DOMAIN q, q[x] = q[y] PROVE x = y
    <3>1. x \in 1 .. Len(a) + Len(b) /\ y \in 1 .. Len(a) + Len(b) BY <2>3
    <3>2. CASE x \in 1 .. Len(a) /\ y \in 1 .. Len(a)
      BY <1>5, <2>1, <2>2, <2>6, <3>2 DEF Once
    <3>3. CASE x \notin 1 .. Len(a) /\ y \notin 1 .. Len(a)
      <4>1. b[x - Len(a)] = b[y - Len(a)] BY <2>5, <2>6, <3>1, <3>3
      <4>2. x - Len(a) = y - Len(a) BY <1>5, <2>1, <2>4, <3>1, <3>3, <4>1 DEF Once
      <4> QED BY <2>1, <3>1, <4>2
    <3>4. ASSUME NEW i \in 1 .. Len(a), NEW j \in 1 .. Len(a) + Len(b), j \notin 1 .. Len(a)
          PROVE  q[i] # q[j]
      <4>1. q[i] \in Wall!Range(a) BY <2>1, <2>2 DEF Wall!Range
      <4>2. q[j] \in Wall!Range(b) BY <2>1, <2>4, <2>5, <3>4 DEF Wall!Range
      <4> QED BY <1>5, <4>1, <4>2
    <3> QED BY <2>6, <3>1, <3>2, <3>3, <3>4
  <2> QED BY <2>6 DEF q, Once
<1>6. /\ IsList(<<e>>) /\ Once(<<e>>) /\ \A x : x \in Wall!Range(<<e>>) <=> x = e
  <2>1. DOMAIN <<e>> = {1} OBVIOUS
  <2> QED BY <2>1, ListOne DEF Once
<1>7. Append(t, e) = t \o <<e>>
  <2>1. t \in Seq({t[i] : i \in DOMAIN t} \cup {e}) BY <1>1 DEF IsList, t
  <2> QED BY <2>1
<1>8. /\ IsList(s) /\ Once(s) /\ \A x : x \in Wall!Range(s) <=> x \in Wall!Range(t) \/ x = e
  <2>1. CASE s = t \o <<e>>
    <3>1. Once(t \o <<e>>) BY <1>1, <1>3, <1>5, <1>6 DEF t
    <3>2. /\ IsList(t \o <<e>>)
          /\ \A x : x \in Wall!Range(t \o <<e>>) <=> x \in Wall!Range(t) \/ x \in Wall!Range(<<e>>)
      BY <1>1, <1>6, ListCat DEF t
    <3> QED BY <1>6, <2>1, <3>1, <3>2
  <2>2. CASE s = <<e>> \o t
    <3>1. Once(<<e>> \o t) BY <1>1, <1>3, <1>5, <1>6 DEF t
    <3>2. /\ IsList(<<e>> \o t)
          /\ \A x : x \in Wall!Range(<<e>> \o t) <=> x \in Wall!Range(<<e>>) \/ x \in Wall!Range(t)
      BY <1>1, <1>6, ListCat DEF t
    <3> QED BY <1>6, <2>2, <3>1, <3>2
  <2> QED BY <1>7, <2>1, <2>2 DEF t
<1>9. Wall!Range(s) \subseteq WallConf(c) BY <1>1, <1>8 DEF t
<1>10. L = [d \in DOMAIN L |-> L[d]] BY <1>1 DEF Changed
<1>11. KernelOK(L)
  <2>1. \A d \in DOMAIN L : IsList(L[d]) /\ Once(L[d]) /\ Wall!Range(L[d]) \subseteq WallConf(d)
    BY <1>2, <1>8, <1>9 DEF KernelOK
  <2> QED BY <1>2, <1>10, <2>1 DEF KernelOK
<1>12. In(L, c) = In(K, c) \cup {e} BY <1>2, <1>8 DEF In, t
<1>13. \A d : d # c => In(L, d) = In(K, d) BY <1>2 DEF In
<1> QED BY <1>2, <1>11, <1>12, <1>13

\* The first occurrence of a rule that stands once is its only one.
LEMMA RemoveOnce ==
    ASSUME NEW s, IsList(s), Once(s), NEW e \in Wall!Range(s)
    PROVE  LET q == Wall!RemoveFirst(s, e)
           IN  IsList(q) /\ Once(q) /\ Wall!Range(q) = Wall!Range(s) \ {e}
<1>1. Len(s) \in Nat /\ DOMAIN s = 1 .. Len(s) BY ListFacts
<1> DEFINE len == Len(s)
<1>2. PICK o \in 1 .. len : s[o] = e BY <1>1 DEF Wall!Range
<1> DEFINE q == SubSeq(s, 1, o - 1) \o SubSeq(s, o + 1, len)
<1>3. Wall!RemoveFirst(s, e) = q
  <2> DEFINE First(x) == s[x] = e /\ \A y \in 1 .. x - 1 : s[y] # e
  <2>1. \A x \in DOMAIN s : s[x] = e <=> x = o BY <1>1, <1>2 DEF Once
  <2>2. \A y \in 1 .. o - 1 : y \in DOMAIN s /\ y # o BY <1>1
  <2>3. o \in DOMAIN s /\ First(o) BY <1>1, <1>2, <2>1, <2>2
  <2>4. \A x \in DOMAIN s : First(x) => x = o BY <2>1
  <2> HIDE DEF First
  <2>5. (CHOOSE x \in DOMAIN s : First(x)) = o BY <2>3, <2>4
  <2> QED BY <2>5 DEF Wall!RemoveFirst, First
<1> DEFINE S == {s[i] : i \in DOMAIN s}
           a == SubSeq(s, 1, o - 1)
           b == SubSeq(s, o + 1, len)
<1>4. s \in Seq(S) BY DEF IsList
<1> HIDE DEF S
<1>5. a \in Seq(S) /\ Len(a) = o - 1 /\ \A i \in 1 .. o - 1 : a[i] = s[i]
  <2>1. a \in Seq(S) BY <1>1, <1>4
  <2>2. Len(a) = o - 1 BY <1>1, <1>4
  <2>3. \A i \in 1 .. o - 1 : a[i] = s[i] BY <1>1, <1>4
  <2> QED BY <2>1, <2>2, <2>3
<1>6. b \in Seq(S) /\ Len(b) = len - o /\ \A i \in 1 .. len - o : b[i] = s[i + o]
  <2>1. b \in Seq(S) BY <1>1, <1>4
  <2>2. Len(b) = len - o
    <3>1. Len(b) = IF o + 1 <= len THEN (len - (o + 1)) + 1 ELSE 0 BY <1>1, <1>4
    <3>2. \A x, y \in Nat : y <= x => (IF y + 1 <= x THEN (x - (y + 1)) + 1 ELSE 0) = x - y
      OBVIOUS
    <3>3. len \in Nat /\ o \in Nat /\ o <= len BY <1>1
    <3>4. (IF o + 1 <= len THEN (len - (o + 1)) + 1 ELSE 0) = len - o BY <3>2, <3>3
    <3> QED BY <3>1, <3>4
  <2>3. ASSUME NEW i \in 1 .. len - o PROVE b[i] = s[i + o]
    <3>1. i \in 1 .. (len - (o + 1)) + 1 /\ (o + 1) + i - 1 = i + o BY <1>1
    <3> QED BY <1>1, <1>4, <3>1
  <2> QED BY <2>1, <2>2, <2>3
<1>7. q = a \o b OBVIOUS
<1> HIDE DEF a, b, q
<1> DEFINE At(i) == IF i < o THEN i ELSE i + 1
<1>8. /\ q \in Seq(S) /\ Len(q) = len - 1
      /\ \A i \in 1 .. len - 1 : q[i] = s[At(i)]
  <2>1. q \in Seq(S) /\ Len(q) = (o - 1) + (len - o)
    <3>1. q \in Seq(S) BY <1>5, <1>6, <1>7
    <3>2. a \in Seq(S) /\ b \in Seq(S) BY <1>5, <1>6
    <3>3. Len(a \o b) = Len(a) + Len(b) BY ONLY <3>2
    <3> QED BY <1>5, <1>6, <1>7, <3>1, <3>3
  <2>2. (o - 1) + (len - o) = len - 1 BY <1>1
  <2>3. ASSUME NEW i \in 1 .. len - 1 PROVE q[i] = s[At(i)]
    <3>1. CASE i < o
      <4>1. i \in 1 .. o - 1 BY <1>1, <3>1
      <4>2. q[i] = a[i] BY <1>5, <1>6, <1>7, <4>1
      <4> QED BY <1>5, <3>1, <4>1, <4>2
    <3>2. CASE ~(i < o)
      <4>1. /\ i - (o - 1) \in 1 .. len - o /\ i = (o - 1) + (i - (o - 1))
            /\ (i - (o - 1)) + o = i + 1
        BY <1>1, <3>2
      <4>2. q[(o - 1) + (i - (o - 1))] = b[i - (o - 1)] BY <1>5, <1>6, <1>7, <4>1
      <4>3. b[i - (o - 1)] = s[(i - (o - 1)) + o] BY <1>6, <4>1
      <4> QED BY <3>2, <4>1, <4>2, <4>3
    <3> QED BY <3>1, <3>2
  <2> QED BY <2>1, <2>2, <2>3
<1>9. len - 1 \in Nat /\ \A i \in 1 .. len - 1 : At(i) \in 1 .. len /\ At(i) # o
  BY <1>1
<1>10. \A i \in 1 .. len : i # o => \E j \in 1 .. len - 1 : At(j) = i
  <2> TAKE i \in 1 .. len
  <2>1. CASE i < o
    <3>1. i \in 1 .. len - 1 /\ At(i) = i BY <1>1, <2>1
    <3> QED BY <3>1
  <2>2. CASE i > o
    <3>1. i - 1 \in 1 .. len - 1 /\ At(i - 1) = i BY <1>1, <2>2
    <3> QED BY <3>1
  <2>3. i = o \/ i < o \/ i > o BY <1>1
  <2> QED BY <2>1, <2>2, <2>3
<1>11. \A i, j \in 1 .. len - 1 : At(i) = At(j) => i = j BY <1>1
<1> HIDE DEF At, len
<1>12. DOMAIN q = 1 .. len - 1 /\ q = [i \in 1 .. len - 1 |-> q[i]] BY <1>8, <1>9
<1>13. IsList(q) BY <1>9, <1>12, ListIs
<1>14. Once(q)
  <2> SUFFICES ASSUME NEW x \in DOMAIN q, NEW y \in DOMAIN q, q[x] = q[y] PROVE x = y
    BY DEF Once
  <2>1. s[At(x)] = s[At(y)] /\ x \in 1 .. len - 1 /\ y \in 1 .. len - 1 BY <1>8, <1>12
  <2>2. At(x) \in DOMAIN s /\ At(y) \in DOMAIN s BY <1>1, <1>9, <2>1 DEF len
  <2>3. At(x) = At(y) BY <2>1, <2>2 DEF Once
  <2> QED BY <1>11, <2>1, <2>3
<1>15. ASSUME NEW x \in Wall!Range(q) PROVE x \in Wall!Range(s) \ {e}
  <2>1. PICK i \in 1 .. len - 1 : x = s[At(i)] BY <1>8, <1>12 DEF Wall!Range
  <2>2. At(i) \in DOMAIN s /\ o \in DOMAIN s /\ At(i) # o BY <1>1, <1>9 DEF len
  <2>3. x # s[o] BY <2>1, <2>2 DEF Once
  <2> QED BY <1>2, <2>1, <2>2, <2>3 DEF Wall!Range
<1>16. ASSUME NEW x \in Wall!Range(s), x # e PROVE x \in Wall!Range(q)
  <2>1. PICK i \in 1 .. len : x = s[i] BY <1>1 DEF Wall!Range, len
  <2>2. i # o BY <1>2, <1>16, <2>1
  <2>3. PICK j \in 1 .. len - 1 : At(j) = i BY <1>10, <2>2
  <2>4. q[j] = x BY <1>8, <2>1, <2>3
  <2> QED BY <1>12, <2>4 DEF Wall!Range
<1>17. Wall!Range(q) = Wall!Range(s) \ {e} BY <1>15, <1>16
<1> QED BY <1>3, <1>13, <1>14, <1>17

\* The rules of a chain that decide about a packet.
Deciding(i, c) == RuleAt(i).chain = c /\ Wall!Decides(EntryAt(i))

\* They stand in the order of the configuration.
Ordered(K, c) ==
    \A x, y \in DOMAIN K[c] :
        x < y /\ Wall!Decides(K[c][x]) /\ Wall!Decides(K[c][y]) =>
            \A j \in 1 .. NumRules : RuleAt(j).chain = c /\ EntryAt(j) = K[c][y] =>
                \E i \in 1 .. NumRules :
                    i < j /\ RuleAt(i).chain = c /\ EntryAt(i) = K[c][x]

\* Command s is the next of an install: the deciding rules before it are in the
\* chain, and, unless all are, no other is.
Behind(K, c, s) == \A i \in 1 .. NumRules : Deciding(i, c) /\ NumChains + i < s => EntryAt(i) \in In(K, c)
Full(K, c) == \A i \in 1 .. NumRules : Deciding(i, c) => EntryAt(i) \in In(K, c)
SoFar(K, c, s) ==
    \A e \in In(K, c) : Wall!Decides(e) =>
        \E i \in 1 .. NumRules : NumChains + i < s /\ RuleAt(i).chain = c /\ EntryAt(i) = e

InTurn(K, s) ==
    \A c \in WallChains \cap DOMAIN K :
        /\ Ordered(K, c) /\ Behind(K, c, s)
        /\ \/ Full(K, c)
           \/ SoFar(K, c, s)

\* The commands of an install before s have had their effect.
Put(K, s) ==
    /\ \A i \in 1 .. NumChains : i < s => ChainAt(i) \in DOMAIN K
    /\ \A i \in 1 .. NumRules : NumChains + i < s => EntryAt(i) \in In(K, RuleAt(i).chain)

\* The commands of an uninstall before s have had theirs.
Gone(K, s) ==
    /\ \A i \in 1 .. NumRules : i < s => EntryAt(i) \notin In(K, RuleAt(i).chain)
    /\ \A i \in 1 .. NumChains : NumRules + i < s => ChainAt(i) \notin DOMAIN K

AllRun == NumChains + NumRules + 1
NextOf(h, s) == IF h \in {"start", "hook"} THEN s ELSE AllRun
PutTo(h, s, o) == IF h = "none" \/ (h = "start" /\ o > 0) THEN AllRun ELSE s

WallCounts ==
    /\ step \in 1 .. AllRun
    /\ starts \in 0 .. MaxStarts /\ spawned \in Nat /\ hooks \in Nat
    /\ spawned + hooks + (IF holder = "start" THEN 1 ELSE 0) <= starts
    /\ reloads \in 0 .. MaxReloads /\ calls \in Nat /\ calls <= hooks * reloads

WallInv ==
    /\ chains = Wall!InitChains /\ rules = Wall!InitRules /\ KernelOK(kernel)
    /\ holder \in {"none", "start", "hook", "stop"}
    /\ life \in {"new", "started", "stopping", "stopped"}
    /\ holder = "stop" => life = "stopping" /\ Gone(kernel, step)
    /\ WallCounts
    /\ life \in {"new", "started"} => InTurn(kernel, NextOf(holder, step))
    /\ EarlyReload = FALSE /\ life \in {"new", "started"} /\ calls = 0
       /\ (hooks > 0 \/ holder # "none") => Put(kernel, PutTo(holder, step, hooks))

\* The lists of commands: chains before rules, or after.
LEMMA CommandLists ==
    ASSUME chains = Wall!InitChains, rules = Wall!InitRules
    PROVE  /\ Len(Wall!install) = NumChains + NumRules
           /\ \A i \in 1 .. NumChains : Wall!install[i] = [op |-> "-N", chain |-> ChainAt(i)]
           /\ \A i \in 1 .. NumRules : Wall!install[NumChains + i] =
                [op |-> RuleAt(i).order, chain |-> RuleAt(i).chain, entry |-> EntryAt(i)]
           /\ Len(Wall!uninstall) = NumRules + NumChains
           /\ \A i \in 1 .. NumRules : Wall!uninstall[i] =
                [op |-> "-D", chain |-> RuleAt(i).chain, entry |-> EntryAt(i)]
           /\ \A i \in 1 .. NumChains :
                Wall!uninstall[NumRules + i] = [op |-> "-X", chain |-> ChainAt(i)]
<1>1. /\ NumChains \in Nat /\ NumRules \in Nat
      /\ DOMAIN chains = 1 .. NumChains /\ DOMAIN rules = 1 .. NumRules
  BY WallSizes
<1>2. ASSUME NEW op
      PROVE  /\ IsList(Wall!OprChains(op)) /\ Len(Wall!OprChains(op)) = NumChains
             /\ \A i \in 1 .. NumChains :
                  Wall!OprChains(op)[i] = [op |-> op, chain |-> ChainAt(i)]
  <2> DEFINE f == Wall!OprChains(op)
  <2>1. f = [i \in 1 .. NumChains |-> [op |-> op, chain |-> ChainAt(i)]]
    BY <1>1 DEF Wall!OprChains, ChainAt
  <2>2. f = [i \in 1 .. NumChains |-> f[i]] /\ \A i \in 1 .. NumChains :
                  f[i] = [op |-> op, chain |-> ChainAt(i)]
    BY <2>1
  <2> HIDE DEF f
  <2>3. IsList(f) /\ Len(f) = NumChains BY <1>1, <2>2, ListIs
  <2> QED BY <2>2, <2>3 DEF f
<1>3. ASSUME NEW op
      PROVE  /\ IsList(Wall!OprRules(op)) /\ Len(Wall!OprRules(op)) = NumRules
             /\ \A i \in 1 .. NumRules :
                  Wall!OprRules(op)[i] = [op |-> IF op = "-D" THEN "-D" ELSE RuleAt(i).order,
                                          chain |-> RuleAt(i).chain, entry |-> EntryAt(i)]
  <2> DEFINE f == Wall!OprRules(op)
             C(i) == [op |-> IF op = "-D" THEN "-D" ELSE RuleAt(i).order,
                      chain |-> RuleAt(i).chain, entry |-> EntryAt(i)]
  <2>1. f = [i \in 1 .. NumRules |-> C(i)]
    BY <1>1 DEF Wall!OprRules, RuleAt, EntryAt
  <2> HIDE DEF C
  <2>2. f = [i \in 1 .. NumRules |-> f[i]] /\ \A i \in 1 .. NumRules : f[i] = C(i)
    BY <2>1
  <2> HIDE DEF f
  <2>3. IsList(f) /\ Len(f) = NumRules BY <1>1, <2>2, ListIs
  <2> QED BY <2>2, <2>3 DEF f, C
<1>4. ASSUME NEW s, NEW t, IsList(s), IsList(t), NEW a \in Nat, NEW b \in Nat,
             Len(s) = a, Len(t) = b
      PROVE  /\ Len(s \o t) = a + b
             /\ \A i \in 1 .. a : (s \o t)[i] = s[i]
             /\ \A i \in 1 .. b : (s \o t)[a + i] = t[i]
  BY <1>4, ListCat
<1>5. /\ Len(Wall!install) = NumChains + NumRules
      /\ \A i \in 1 .. NumChains : Wall!install[i] = Wall!OprChains("-N")[i]
      /\ \A i \in 1 .. NumRules : Wall!install[NumChains + i] = Wall!OprRules("-A")[i]
  <2>1. IsList(Wall!OprChains("-N")) /\ Len(Wall!OprChains("-N")) = NumChains BY <1>2
  <2>2. IsList(Wall!OprRules("-A")) /\ Len(Wall!OprRules("-A")) = NumRules BY <1>3
  <2> QED BY <1>1, <1>4, <2>1, <2>2 DEF Wall!install
<1>6. /\ Len(Wall!uninstall) = NumRules + NumChains
      /\ \A i \in 1 .. NumRules : Wall!uninstall[i] = Wall!OprRules("-D")[i]
      /\ \A i \in 1 .. NumChains : Wall!uninstall[NumRules + i] = Wall!OprChains("-X")[i]
  <2>1. IsList(Wall!OprChains("-X")) /\ Len(Wall!OprChains("-X")) = NumChains BY <1>2
  <2>2. IsList(Wall!OprRules("-D")) /\ Len(Wall!OprRules("-D")) = NumRules BY <1>3
  <2> QED BY <1>1, <1>4, <2>1, <2>2 DEF Wall!uninstall
<1>7. "-A" # "-D" OBVIOUS
<1>8. /\ \A i \in 1 .. NumChains : Wall!install[i] = [op |-> "-N", chain |-> ChainAt(i)]
      /\ \A i \in 1 .. NumChains :
                Wall!uninstall[NumRules + i] = [op |-> "-X", chain |-> ChainAt(i)]
  BY <1>2, <1>5, <1>6
<1>9. \A i \in 1 .. NumRules : Wall!install[NumChains + i] =
                [op |-> RuleAt(i).order, chain |-> RuleAt(i).chain, entry |-> EntryAt(i)]
  BY <1>3, <1>5, <1>7
<1>10. \A i \in 1 .. NumRules : Wall!uninstall[i] =
                [op |-> "-D", chain |-> RuleAt(i).chain, entry |-> EntryAt(i)]
  BY <1>3, <1>6
<1> QED BY <1>5, <1>6, <1>8, <1>9, <1>10

\* What the command for a rule makes of the kernel.
Blocked(K, i) ==
    \/ RuleAt(i).chain \notin DOMAIN K
    \/ ~(RuleAt(i).jump[1] = "target" \/ RuleAt(i).jump \in DOMAIN K)
    \/ EntryAt(i) \in In(K, RuleAt(i).chain)

RulePut(K, i) ==
    IF Blocked(K, i) THEN K
    ELSE [K EXCEPT ![RuleAt(i).chain] =
            IF RuleAt(i).order = "-I" THEN <<EntryAt(i)>> \o K[RuleAt(i).chain]
            ELSE Append(K[RuleAt(i).chain], EntryAt(i))]

\* The jump of an entry.
LEMMA EntryJump ==
    ASSUME NEW i
    PROVE  EntryAt(i)[2] = RuleAt(i).jump /\ (Wall!Decides(EntryAt(i)) <=> RuleAt(i).jump[1] = "target")
BY DEF EntryAt, RuleAt, Wall!Decides

\* The commands of an install are those for the chains, then for the rules.
LEMMA PutCommands ==
    ASSUME chains = Wall!InitChains, rules = Wall!InitRules
    PROVE  /\ \A i \in 1 .. NumChains : Wall!Opr(Wall!install[i]) = ChainPut(kernel, ChainAt(i))
           /\ \A i \in 1 .. NumRules : Wall!Opr(Wall!install[NumChains + i]) = RulePut(kernel, i)
<1>1. ASSUME NEW i \in 1 .. NumChains
      PROVE  Wall!Opr(Wall!install[i]) = ChainPut(kernel, ChainAt(i))
  <2>1. Wall!install[i] = [op |-> "-N", chain |-> ChainAt(i)] BY CommandLists
  <2>2. Wall!install[i].op = "-N" /\ Wall!install[i].chain = ChainAt(i) BY <2>1
  <2> QED BY <2>2 DEF Wall!Opr, Wall!ChainAdded, ChainPut
<1>2. ASSUME NEW i \in 1 .. NumRules
      PROVE  Wall!Opr(Wall!install[NumChains + i]) = RulePut(kernel, i)
  <2> DEFINE cmd == Wall!install[NumChains + i]
             c == RuleAt(i).chain
             e == EntryAt(i)
  <2>1. cmd = [op |-> RuleAt(i).order, chain |-> c, entry |-> e] BY CommandLists
  <2>2. cmd.op = RuleAt(i).order /\ cmd.chain = c /\ cmd.entry = e BY <2>1
  <2> HIDE DEF cmd
  <2>3. RuleAt(i).order = "-A" \/ RuleAt(i).order = "-I" BY WallSizes DEF FitRule
  <2>4. "-A" # "-N" /\ "-A" # "-X" /\ "-A" # "-D" /\ "-I" # "-N" /\ "-I" # "-X" /\ "-I" # "-D"
    OBVIOUS
  <2>5. Wall!Opr(cmd) = Wall!RuleAdded(c, RuleAt(i).order, e)
    BY <2>2, <2>3, <2>4 DEF Wall!Opr
  <2>6. e[2] = RuleAt(i).jump BY EntryJump
  <2>7. Wall!Entries(c) = In(kernel, c) BY DEF Wall!Entries, In
  <2>8. Blocked(kernel, i) <=> c \notin DOMAIN kernel \/ ~Wall!Known(e[2]) \/ e \in Wall!Entries(c)
    BY <2>6, <2>7 DEF Blocked, Wall!Known
  <2>9. Wall!RuleAdded(c, RuleAt(i).order, e) = RulePut(kernel, i)
    BY <2>8 DEF Wall!RuleAdded, RulePut
  <2> QED BY <2>5, <2>9 DEF cmd
<1> QED BY <1>1, <1>2

Grows(K, L) == DOMAIN K \subseteq DOMAIN L /\ \A c : In(K, c) \subseteq In(L, c)

\* What was put stays put while the kernel grows.
LEMMA PutGrows ==
    ASSUME NEW K, NEW L, Grows(K, L), NEW s, Put(K, s)
    PROVE  Put(L, s)
BY DEF Grows, Put

\* One new chain.
LEMMA ChainStep ==
    ASSUME NEW K, KernelOK(K), NEW s \in 1 .. NumChains, NEW L, L = ChainPut(K, ChainAt(s))
    PROVE  /\ KernelOK(L) /\ Grows(K, L)
           /\ InTurn(K, s) => InTurn(L, s + 1)
           /\ Put(K, s) => Put(L, s + 1)
<1> DEFINE c == ChainAt(s)
<1>1. NumChains \in Nat /\ NumRules \in Nat /\ c \in WallChains BY WallSizes
<1>2. /\ KernelOK(L) /\ DOMAIN L = DOMAIN K \cup {c}
      /\ \A d \in DOMAIN K : L[d] = K[d]
      /\ c \notin DOMAIN K => Wall!Range(L[c]) = {} /\ DOMAIN L[c] = {}
      /\ \A d : In(L, d) = In(K, d)
  BY <1>1, KernelChain
<1>3. Grows(K, L) BY <1>2 DEF Grows
<1>4. /\ \A i \in 1 .. NumRules : ~(NumChains + i < s + 1) /\ ~(NumChains + i < s)
      /\ \A i \in 1 .. NumChains : i < s + 1 => i < s \/ i = s
  BY <1>1
<1>5. ASSUME InTurn(K, s) PROVE InTurn(L, s + 1)
  <2> SUFFICES ASSUME NEW d \in WallChains \cap DOMAIN L
               PROVE  /\ Ordered(L, d) /\ Behind(L, d, s + 1)
                      /\ \/ Full(L, d)
                         \/ SoFar(L, d, s + 1)
    BY DEF InTurn
  <2>1. Behind(L, d, s + 1) BY <1>4 DEF Behind
  <2>2. CASE d \in DOMAIN K
    <3>1. L[d] = K[d] /\ In(L, d) = In(K, d) BY <1>2, <2>2
    <3>2. Ordered(K, d) /\ (Full(K, d) \/ SoFar(K, d, s)) BY <1>5, <2>2 DEF InTurn
    <3>3. Ordered(L, d) BY <3>1, <3>2 DEF Ordered
    <3>4. Full(K, d) => Full(L, d) BY <3>1 DEF Full
    <3>5. SoFar(K, d, s) => SoFar(L, d, s + 1) BY <1>4, <3>1 DEF SoFar
    <3> QED BY <2>1, <3>2, <3>3, <3>4, <3>5
  <2>3. CASE d \notin DOMAIN K
    <3>1. d = c /\ DOMAIN L[d] = {} /\ In(L, d) = {} BY <1>2, <2>3 DEF In
    <3>2. Ordered(L, d) BY <3>1 DEF Ordered
    <3>3. SoFar(L, d, s + 1) BY <3>1 DEF SoFar
    <3> QED BY <2>1, <3>2, <3>3
  <2> QED BY <2>2, <2>3
<1>6. ASSUME Put(K, s) PROVE Put(L, s + 1)
  <2>1. ASSUME NEW i \in 1 .. NumChains, i < s + 1 PROVE ChainAt(i) \in DOMAIN L
    BY <1>2, <1>4, <1>6, <2>1 DEF Put
  <2> QED BY <1>4, <2>1 DEF Put
<1> QED BY <1>2, <1>3, <1>5, <1>6

\* What is added to a chain comes after all that decided before it.
LEMMA OrderedMore ==
    ASSUME NEW K, NEW c \in DOMAIN K, IsList(K[c]), Ordered(K, c), NEW s \in Nat,
           Behind(K, c, s), SoFar(K, c, s), NEW o \in 1 .. NumRules,
           EntryAt(o) \notin In(K, c), NEW L, L[c] = Append(K[c], EntryAt(o))
    PROVE  Ordered(L, c)
<1> DEFINE t == K[c]
           len == Len(t)
<1>1. len \in Nat /\ DOMAIN t = 1 .. len BY ListFacts
<1>2. /\ DOMAIN L[c] = 1 .. len + 1 /\ L[c][len + 1] = EntryAt(o)
      /\ \A x \in 1 .. len : L[c][x] = t[x]
  <2>1. t \in Seq({t[i] : i \in DOMAIN t} \cup {EntryAt(o)}) BY DEF IsList
  <2> HIDE DEF t
  <2>2. DOMAIN Append(t, EntryAt(o)) = 1 .. len + 1 BY <2>1
  <2>3. Append(t, EntryAt(o))[len + 1] = EntryAt(o) BY <2>1
  <2>4. \A x \in 1 .. len : Append(t, EntryAt(o))[x] = t[x] BY <2>1
  <2> QED BY <2>2, <2>3, <2>4 DEF t
<1> SUFFICES ASSUME NEW x \in DOMAIN L[c], NEW y \in DOMAIN L[c], x < y,
                    Wall!Decides(L[c][x]), Wall!Decides(L[c][y]),
                    NEW j \in 1 .. NumRules, RuleAt(j).chain = c, EntryAt(j) = L[c][y]
             PROVE  \E i \in 1 .. NumRules : i < j /\ RuleAt(i).chain = c /\ EntryAt(i) = L[c][x]
  BY DEF Ordered
<1>3. x \in 1 .. len /\ (y \in 1 .. len \/ y = len + 1) BY <1>1, <1>2
<1>4. L[c][x] = t[x] BY <1>2, <1>3
<1>5. CASE y \in 1 .. len
  <2>1. L[c][y] = t[y] /\ x \in DOMAIN K[c] /\ y \in DOMAIN K[c] BY <1>1, <1>2, <1>3, <1>5
  <2> QED BY <1>4, <2>1 DEF Ordered
<1>6. CASE y = len + 1
  <2>1. t[x] \in In(K, c) BY <1>1, <1>3 DEF In, Wall!Range
  <2>2. PICK i \in 1 .. NumRules : NumChains + i < s /\ RuleAt(i).chain = c /\ EntryAt(i) = t[x]
    BY <1>4, <2>1 DEF SoFar
  <2>3. EntryAt(j) = EntryAt(o) BY <1>2, <1>6
  <2>4. Deciding(j, c) BY <1>6 DEF Deciding
  <2>5. ~(NumChains + j < s) BY <2>3, <2>4 DEF Behind
  <2>6. i < j
    <3>1. NumChains \in Nat /\ NumRules \in Nat BY WallSizes
    <3> QED BY <2>2, <2>5, <3>1
  <2> QED BY <1>4, <2>2, <2>6
<1> QED BY <1>3, <1>5, <1>6

\* One rule more leaves the kernel in its form and takes nothing away.
LEMMA RulePutFacts ==
    ASSUME NEW K, KernelOK(K), NEW o \in 1 .. NumRules, NEW L, L = RulePut(K, o)
    PROVE  /\ KernelOK(L) /\ Grows(K, L) /\ DOMAIN L = DOMAIN K
           /\ \A d \in DOMAIN K : d # RuleAt(o).chain => L[d] = K[d]
           /\ Blocked(K, o) => L = K
           /\ ~Blocked(K, o) =>
                /\ EntryAt(o) \in In(L, RuleAt(o).chain)
                /\ EntryAt(o) \notin In(K, RuleAt(o).chain)
                /\ RuleAt(o).chain \in DOMAIN K
                /\ \A e \in In(L, RuleAt(o).chain) :
                     e \in In(K, RuleAt(o).chain) \/ e = EntryAt(o)
                /\ RuleAt(o).chain \in WallChains =>
                     L[RuleAt(o).chain] = Append(K[RuleAt(o).chain], EntryAt(o))
<1> DEFINE c == RuleAt(o).chain
           e == EntryAt(o)
           q == IF RuleAt(o).order = "-I" THEN <<e>> \o K[c] ELSE Append(K[c], e)
<1>1. FitRule(RuleAt(o)) /\ e \in WallConf(c) BY WallSizes
<1>2. CASE Blocked(K, o)
  <2>1. L = K BY <1>2 DEF RulePut
  <2> QED BY <1>2, <2>1 DEF Grows
<1>3. CASE ~Blocked(K, o)
  <2>1. c \in DOMAIN K /\ e \notin In(K, c) BY <1>3 DEF Blocked
  <2>2. L = Changed(K, c, q) BY <1>3 DEF RulePut, Changed
  <2>3. q = Append(K[c], e) \/ q = <<e>> \o K[c] OBVIOUS
  <2>4. c \in WallChains => q = Append(K[c], e)
    <3>1. "-A" # "-I" OBVIOUS
    <3> QED BY <1>1, <3>1, ChainsApart DEF FitRule
  <2> HIDE DEF c, e, q
  <2>5. e \in WallConf(c) BY <1>1
  <2>6. KernelOK(K) OBVIOUS
  <2>7. /\ KernelOK(L) /\ DOMAIN L = DOMAIN K /\ L[c] = q
        /\ \A d \in DOMAIN K \ {c} : L[d] = K[d]
        /\ In(L, c) = In(K, c) \cup {e} /\ \A d : d # c => In(L, d) = In(K, d)
    BY ONLY <2>1, <2>2, <2>3, <2>5, <2>6, KernelRule
  <2>8. Grows(K, L) BY <2>7 DEF Grows
  <2>9. e \in In(L, c) /\ \A x \in In(L, c) : x \in In(K, c) \/ x = e BY <2>7
  <2>10. \A d \in DOMAIN K : d # c => L[d] = K[d] BY <2>7
  <2>11. c \in WallChains => L[c] = Append(K[c], e) BY <2>4, <2>7
  <2> QED BY <1>3, <2>1, <2>7, <2>8, <2>9, <2>10, <2>11 DEF c, e
<1> QED BY <1>2, <1>3

\* Once all chains are there nothing blocks a rule but that it is there.
LEMMA RulePlaced ==
    ASSUME NEW K, KernelOK(K), NEW o \in 1 .. NumRules, NEW L, L = RulePut(K, o),
           \A c \in WallChains : c \in DOMAIN K
    PROVE  EntryAt(o) \in In(L, RuleAt(o).chain)
<1>1. FitRule(RuleAt(o)) BY WallSizes
<1>2. RuleAt(o).chain \in DOMAIN K BY <1>1 DEF FitRule, KernelOK
<1>3. RuleAt(o).jump[1] = "target" \/ RuleAt(o).jump \in DOMAIN K BY <1>1 DEF FitRule
<1>4. CASE Blocked(K, o)
  <2>1. EntryAt(o) \in In(K, RuleAt(o).chain) BY <1>2, <1>3, <1>4 DEF Blocked
  <2>2. Grows(K, L) BY RulePutFacts
  <2> QED BY <2>1, <2>2 DEF Grows
<1>5. CASE ~Blocked(K, o) BY <1>5, RulePutFacts
<1> QED BY <1>4, <1>5

\* One command for a rule moves the install on by one.
LEMMA RuleStep ==
    ASSUME NEW K, KernelOK(K), NEW o \in 1 .. NumRules, NEW s, s = NumChains + o,
           NEW L, L = RulePut(K, o)
    PROVE  /\ KernelOK(L) /\ Grows(K, L)
           /\ InTurn(K, s) => InTurn(L, s + 1)
           /\ Put(K, s) => Put(L, s + 1)
<1> DEFINE b == RuleAt(o).chain
           e == EntryAt(o)
<1>1. NumChains \in Nat /\ NumRules \in Nat /\ s \in Nat BY WallSizes
<1>2. /\ KernelOK(L) /\ Grows(K, L) /\ DOMAIN L = DOMAIN K
      /\ \A d \in DOMAIN K : d # b => L[d] = K[d]
      /\ Blocked(K, o) => L = K
      /\ ~Blocked(K, o) =>
           /\ e \in In(L, b) /\ e \notin In(K, b) /\ b \in DOMAIN K
           /\ \A x \in In(L, b) : x \in In(K, b) \/ x = e
           /\ b \in WallChains => L[b] = Append(K[b], e)
  <2>1. KernelOK(K) /\ L = RulePut(K, o) OBVIOUS
  <2> QED BY ONLY <2>1, RulePutFacts
<1>3. /\ \A i \in 1 .. NumRules : NumChains + i < s + 1 => NumChains + i < s \/ i = o
      /\ \A i \in 1 .. NumRules : NumChains + i < s => NumChains + i < s + 1
      /\ NumChains + o < s + 1
      /\ \A i \in 1 .. NumChains : i < s + 1 /\ i < s
  BY <1>1
<1>4. ASSUME InTurn(K, s), NEW d \in WallChains \cap DOMAIN L
      PROVE  /\ Ordered(L, d) /\ Behind(L, d, s + 1)
             /\ \/ Full(L, d)
                \/ SoFar(L, d, s + 1)
  <2>1. Ordered(K, d) /\ Behind(K, d, s) /\ (Full(K, d) \/ SoFar(K, d, s))
    BY <1>2, <1>4 DEF InTurn
  <2>2. In(K, d) \subseteq In(L, d) BY <1>2 DEF Grows
  <2>3. Full(K, d) => Full(L, d) BY <2>2 DEF Full
  <2>4. d \in DOMAIN K /\ d \in WallChains BY <1>2, <1>4
  <2>5. CASE d # b \/ Blocked(K, o)
    <3>1. L[d] = K[d] /\ In(L, d) = In(K, d) BY <1>2, <2>4, <2>5 DEF In
    <3>2. Ordered(L, d) BY <2>1, <3>1 DEF Ordered
    <3>3. SoFar(K, d, s) => SoFar(L, d, s + 1) BY <1>3, <3>1 DEF SoFar
    <3>4. Deciding(o, d) => e \in In(K, d)
      <4> SUFFICES ASSUME Deciding(o, d) PROVE e \in In(K, d) OBVIOUS
      <4>1. d = b /\ RuleAt(o).jump[1] = "target" BY EntryJump DEF Deciding
      <4> QED BY <2>4, <2>5, <4>1 DEF Blocked
    <3>5. Behind(L, d, s + 1)
      <4> SUFFICES ASSUME NEW i \in 1 .. NumRules, Deciding(i, d), NumChains + i < s + 1
                   PROVE  EntryAt(i) \in In(L, d)
        BY DEF Behind
      <4>1. NumChains + i < s \/ i = o BY <1>3
      <4>2. CASE NumChains + i < s BY <2>1, <3>1, <4>2 DEF Behind
      <4>3. CASE i = o BY <3>1, <3>4, <4>3
      <4> QED BY <4>1, <4>2, <4>3
    <3> QED BY <2>1, <2>3, <3>2, <3>3, <3>5
  <2>6. CASE d = b /\ ~Blocked(K, o)
    <3>1. /\ e \in In(L, d) /\ e \notin In(K, d)
          /\ \A x \in In(L, d) : x \in In(K, d) \/ x = e
          /\ L[d] = Append(K[d], e)
      BY <1>2, <2>4, <2>6
    <3>2. Behind(L, d, s + 1)
      <4> SUFFICES ASSUME NEW i \in 1 .. NumRules, Deciding(i, d), NumChains + i < s + 1
                   PROVE  EntryAt(i) \in In(L, d)
        BY DEF Behind
      <4>1. NumChains + i < s \/ i = o BY <1>3
      <4>2. CASE NumChains + i < s BY <2>1, <2>2, <4>2 DEF Behind
      <4>3. CASE i = o BY <3>1, <4>3
      <4> QED BY <4>1, <4>2, <4>3
    <3>3. SoFar(K, d, s) => SoFar(L, d, s + 1)
      <4> SUFFICES ASSUME SoFar(K, d, s), NEW x \in In(L, d), Wall!Decides(x)
                   PROVE  \E i \in 1 .. NumRules : /\ NumChains + i < s + 1
                                                   /\ RuleAt(i).chain = d /\ EntryAt(i) = x
        BY DEF SoFar
      <4>1. CASE x \in In(K, d) BY <1>3, <4>1 DEF SoFar
      <4>2. CASE x = e BY <1>3, <2>6, <4>2
      <4> QED BY <3>1, <4>1, <4>2
    <3>4. IsList(K[d]) BY <2>4 DEF KernelOK
    <3>5. CASE Wall!Decides(e)
      <4>1. Deciding(o, d) BY <2>6, <3>5 DEF Deciding
      <4>2. ~Full(K, d) BY <3>1, <4>1 DEF Full
      <4>3. SoFar(K, d, s) BY <2>1, <4>2
      <4>4. Ordered(L, d) BY <1>1, <2>1, <2>4, <3>1, <3>4, <4>3, OrderedMore
      <4> QED BY <3>2, <3>3, <4>3, <4>4
    <3>6. CASE ~Wall!Decides(e)
      <4> DEFINE t == K[d]
                 len == Len(t)
      <4>1. len \in Nat /\ DOMAIN t = 1 .. len BY <3>4, ListFacts
      <4>2. /\ DOMAIN L[d] = 1 .. len + 1 /\ L[d][len + 1] = e
            /\ \A x \in 1 .. len : L[d][x] = t[x]
        <5>1. t \in Seq({t[i] : i \in DOMAIN t} \cup {e}) BY <3>4 DEF IsList
        <5> HIDE DEF t
        <5>2. DOMAIN Append(t, e) = 1 .. len + 1 BY <5>1
        <5>3. Append(t, e)[len + 1] = e BY <5>1
        <5>4. \A x \in 1 .. len : Append(t, e)[x] = t[x] BY <5>1
        <5> QED BY <3>1, <5>2, <5>3, <5>4 DEF t
      <4>3. ASSUME NEW x \in DOMAIN L[d], Wall!Decides(L[d][x])
            PROVE  x \in DOMAIN K[d] /\ L[d][x] = K[d][x]
        <5>1. x # len + 1 BY <3>6, <4>2, <4>3
        <5>2. x \in 1 .. len BY <4>1, <4>2, <5>1
        <5> QED BY <4>1, <4>2, <5>2
      <4>4. Ordered(L, d) BY <2>1, <4>3 DEF Ordered
      <4> QED BY <2>1, <2>3, <3>2, <3>3, <4>4
    <3> QED BY <3>5, <3>6
  <2> QED BY <2>5, <2>6
<1>5. ASSUME Put(K, s) PROVE Put(L, s + 1)
  <2>1. \A i \in 1 .. NumChains : ChainAt(i) \in DOMAIN K BY <1>3, <1>5 DEF Put
  <2>2. \A c \in WallChains : c \in DOMAIN K BY <2>1, WallSizes
  <2>3. e \in In(L, b) BY <2>2, RulePlaced
  <2>4. ASSUME NEW i \in 1 .. NumRules, NumChains + i < s + 1
        PROVE  EntryAt(i) \in In(L, RuleAt(i).chain)
    <3>1. NumChains + i < s \/ i = o BY <1>3, <2>4
    <3>2. CASE NumChains + i < s BY <1>2, <1>5, <3>2 DEF Put, Grows
    <3>3. CASE i = o BY <2>3, <3>3
    <3> QED BY <3>1, <3>2, <3>3
  <2> QED BY <1>2, <2>1, <2>4 DEF Put
<1> QED BY <1>2, <1>4, <1>5 DEF InTurn

\* What the commands that take a rule and a chain away make of the kernel.
RuleCut(K, i) ==
    IF EntryAt(i) \notin In(K, RuleAt(i).chain) THEN K
    ELSE Changed(K, RuleAt(i).chain, Wall!RemoveFirst(K[RuleAt(i).chain], EntryAt(i)))

ChainCut(K, c) ==
    IF c \notin DOMAIN K THEN K
    ELSE IF \E d \in DOMAIN K : \E e \in Wall!Range(K[d]) : e[2] = c THEN Changed(K, c, <<>>)
    ELSE [d \in DOMAIN K \ {c} |-> K[d]]

\* The commands of an uninstall are those for the rules, then for the chains.
LEMMA CutCommands ==
    ASSUME chains = Wall!InitChains, rules = Wall!InitRules
    PROVE  /\ \A i \in 1 .. NumRules : Wall!Opr(Wall!uninstall[i]) = RuleCut(kernel, i)
           /\ \A i \in 1 .. NumChains :
                Wall!Opr(Wall!uninstall[NumRules + i]) = ChainCut(kernel, ChainAt(i))
<1>0. "-D" # "-N" /\ "-D" # "-X" /\ "-X" # "-N" OBVIOUS
<1>1. ASSUME NEW i \in 1 .. NumRules
      PROVE  Wall!Opr(Wall!uninstall[i]) = RuleCut(kernel, i)
  <2> DEFINE cmd == Wall!uninstall[i]
             c == RuleAt(i).chain
             e == EntryAt(i)
  <2>1. cmd = [op |-> "-D", chain |-> c, entry |-> e] BY CommandLists
  <2>2. cmd.op = "-D" /\ cmd.chain = c /\ cmd.entry = e BY <2>1
  <2> HIDE DEF cmd
  <2>3. Wall!Opr(cmd) = Wall!RuleDeleted(c, e) BY <1>0, <2>2 DEF Wall!Opr
  <2>4. Wall!Entries(c) = In(kernel, c) BY DEF Wall!Entries, In
  <2>5. Wall!RuleDeleted(c, e) = RuleCut(kernel, i)
    BY <2>4 DEF Wall!RuleDeleted, RuleCut, Changed
  <2> QED BY <2>3, <2>5 DEF cmd
<1>2. ASSUME NEW i \in 1 .. NumChains
      PROVE  Wall!Opr(Wall!uninstall[NumRules + i]) = ChainCut(kernel, ChainAt(i))
  <2>1. Wall!uninstall[NumRules + i] = [op |-> "-X", chain |-> ChainAt(i)] BY CommandLists
  <2>2. /\ Wall!uninstall[NumRules + i].op = "-X"
        /\ Wall!uninstall[NumRules + i].chain = ChainAt(i)
    BY <2>1
  <2>3. Wall!Opr(Wall!uninstall[NumRules + i]) = Wall!ChainRemoved(ChainAt(i))
    BY <1>0, <2>2 DEF Wall!Opr
  <2> QED BY <2>3 DEF Wall!ChainRemoved, Wall!Referenced, ChainCut, Changed
<1> QED BY <1>1, <1>2

\* One rule is taken away,
LEMMA RuleCutStep ==
    ASSUME NEW K, KernelOK(K), NEW s \in 1 .. NumRules, NEW L, L = RuleCut(K, s), Gone(K, s)
    PROVE  KernelOK(L) /\ Gone(L, s + 1)
<1> DEFINE c == RuleAt(s).chain
           e == EntryAt(s)
<1>1. NumChains \in Nat /\ NumRules \in Nat BY WallSizes
<1>2. /\ KernelOK(L) /\ DOMAIN L = DOMAIN K /\ e \notin In(L, c)
      /\ \A d : In(L, d) \subseteq In(K, d)
  <2>1. CASE e \notin In(K, c)
    <3>1. L = K BY <2>1 DEF RuleCut
    <3> QED BY <2>1, <3>1
  <2>2. CASE e \in In(K, c)
    <3> DEFINE q == Wall!RemoveFirst(K[c], e)
    <3>1. L = Changed(K, c, q) BY <2>2 DEF RuleCut
    <3>2. c \in DOMAIN K /\ e \in Wall!Range(K[c]) BY <2>2 DEF In
    <3>3. IsList(K[c]) /\ Once(K[c]) /\ K = [d \in DOMAIN K |-> K[d]]
          /\ Wall!Range(K[c]) \subseteq WallConf(c)
      BY <3>2 DEF KernelOK
    <3>4. IsList(q) /\ Once(q) /\ Wall!Range(q) = Wall!Range(K[c]) \ {e}
      BY <3>2, <3>3, RemoveOnce
    <3> HIDE DEF c, e, q
    <3>5. /\ DOMAIN L = DOMAIN K /\ L[c] = q /\ \A d \in DOMAIN K \ {c} : L[d] = K[d]
          /\ L = [d \in DOMAIN L |-> L[d]]
      BY <3>1, <3>2, <3>3 DEF Changed
    <3>6. \A d \in DOMAIN L : IsList(L[d]) /\ Once(L[d]) /\ Wall!Range(L[d]) \subseteq WallConf(d)
      BY <3>3, <3>4, <3>5 DEF KernelOK
    <3>7. KernelOK(L) BY <3>5, <3>6 DEF KernelOK
    <3>8. e \notin In(L, c) BY <3>2, <3>4, <3>5 DEF In
    <3>9. \A d : In(L, d) \subseteq In(K, d) BY <3>4, <3>5 DEF In
    <3> QED BY <3>5, <3>7, <3>8, <3>9 DEF c, e
  <2> QED BY <2>1, <2>2
<1>3. /\ \A i \in 1 .. NumRules : i < s + 1 => i < s \/ i = s
      /\ \A i \in 1 .. NumChains : ~(NumRules + i < s + 1)
  BY <1>1
<1>4. ASSUME NEW i \in 1 .. NumRules, i < s + 1
      PROVE  EntryAt(i) \notin In(L, RuleAt(i).chain)
  <2>1. CASE i < s BY <1>2, <2>1 DEF Gone
  <2>2. CASE i = s BY <1>2, <2>2
  <2> QED BY <1>3, <1>4, <2>1, <2>2
<1> QED BY <1>2, <1>3, <1>4 DEF Gone

\* When all rules are taken away every chain is empty.
LEMMA Emptied ==
    ASSUME NEW K, KernelOK(K), NEW s, Gone(K, s), \A i \in 1 .. NumRules : i < s
    PROVE  \A c \in DOMAIN K : Wall!Range(K[c]) = {} /\ K[c] = <<>>
<1> TAKE c \in DOMAIN K
<1>1. Wall!Range(K[c]) = {}
  <2> SUFFICES ASSUME NEW e \in Wall!Range(K[c]) PROVE FALSE OBVIOUS
  <2>1. e \in WallConf(c) BY DEF KernelOK
  <2>2. PICK i \in 1 .. NumRules : RuleAt(i).chain = c /\ e = EntryAt(i) BY <2>1, WallSizes
  <2>3. EntryAt(i) \notin In(K, c) BY <2>2 DEF Gone
  <2> QED BY <2>2, <2>3 DEF In
<1>2. IsList(K[c]) BY DEF KernelOK
<1> DEFINE t == K[c]
<1>3. Len(t) \in Nat /\ DOMAIN t = 1 .. Len(t) /\ t = [i \in 1 .. Len(t) |-> t[i]]
  BY <1>2, ListFacts
<1>4. DOMAIN t = {} BY <1>1 DEF Wall!Range
<1> HIDE DEF t
<1>5. Len(t) = 0 BY <1>3, <1>4
<1>6. t \in Seq({t[i] : i \in DOMAIN t}) BY <1>2 DEF IsList, t
<1>7. t = <<>> BY <1>5, <1>6
<1> QED BY <1>1, <1>7 DEF t

\* one chain is taken away: the uninstall moves on by one.
LEMMA ChainCutStep ==
    ASSUME NEW K, KernelOK(K), NEW o \in 1 .. NumChains, NEW s, s = NumRules + o,
           NEW L, L = ChainCut(K, ChainAt(o)), Gone(K, s)
    PROVE  KernelOK(L) /\ Gone(L, s + 1)
<1> DEFINE c == ChainAt(o)
<1>1. NumChains \in Nat /\ NumRules \in Nat /\ c \in WallChains BY WallSizes
<1>2. /\ \A i \in 1 .. NumRules : i < s
      /\ \A i \in 1 .. NumChains : NumRules + i < s + 1 => NumRules + i < s \/ i = o
  BY <1>1
<1>3. \A d \in DOMAIN K : Wall!Range(K[d]) = {} /\ K[d] = <<>> BY <1>2, Emptied
<1>4. /\ KernelOK(L) /\ DOMAIN L = DOMAIN K \ {c}
      /\ \A d \in DOMAIN L : L[d] = K[d]
  <2>1. CASE c \notin DOMAIN K
    <3>1. L = K BY <2>1 DEF ChainCut
    <3> QED BY <2>1, <3>1
  <2>2. CASE c \in DOMAIN K
    <3>1. ~\E d \in DOMAIN K : \E e \in Wall!Range(K[d]) : e[2] = c BY <1>3
    <3>2. L = [d \in DOMAIN K \ {c} |-> K[d]] BY <2>2, <3>1 DEF ChainCut
    <3>3. /\ DOMAIN L = DOMAIN K \ {c} /\ L = [d \in DOMAIN L |-> L[d]]
          /\ \A d \in DOMAIN L : L[d] = K[d]
      BY <3>2
    <3>4. c \notin Wall!BuiltIns BY <1>1, ChainsApart
    <3>5. KernelOK(L) BY <3>3, <3>4 DEF KernelOK
    <3> QED BY <3>3, <3>5
  <2> QED BY <2>1, <2>2
<1>5. \A d : In(L, d) = {} BY <1>3, <1>4 DEF In
<1>6. ASSUME NEW i \in 1 .. NumChains, NumRules + i < s + 1 PROVE ChainAt(i) \notin DOMAIN L
  <2>1. CASE NumRules + i < s BY <1>4, <2>1 DEF Gone
  <2>2. CASE i = o BY <1>4, <2>2
  <2> QED BY <1>2, <1>6, <2>1, <2>2
<1> QED BY <1>4, <1>5, <1>6 DEF Gone

\* Nothing is left after the last command of an uninstall.
LEMMA GoneAll ==
    ASSUME NEW K, KernelOK(K), Gone(K, AllRun)
    PROVE  K = Wall!BuiltInOnly
<1>1. NumChains \in Nat /\ NumRules \in Nat BY WallSizes
<1>2. /\ \A i \in 1 .. NumRules : i < AllRun
      /\ \A i \in 1 .. NumChains : NumRules + i < AllRun
  BY <1>1 DEF AllRun
<1>3. \A c \in DOMAIN K : K[c] = <<>> BY <1>2, Emptied
<1>4. \A c \in WallChains : c \notin DOMAIN K BY <1>2, WallSizes DEF Gone
<1>5. DOMAIN K = Wall!BuiltIns BY <1>4 DEF KernelOK
<1>6. K = [c \in DOMAIN K |-> K[c]] BY DEF KernelOK
<1> QED BY <1>3, <1>5, <1>6 DEF Wall!BuiltInOnly

\* firewalld has just reloaded, or the switch not begun.
LEMMA Bare ==
    ASSUME NEW K, K = Wall!BuiltInOnly
    PROVE  KernelOK(K) /\ \A s : InTurn(K, s) /\ Gone(K, s)
<1>1. DOMAIN K = Wall!BuiltIns /\ \A c \in DOMAIN K : K[c] = <<>> BY DEF Wall!BuiltInOnly
<1>2. K = [c \in DOMAIN K |-> K[c]] BY DEF Wall!BuiltInOnly
<1>3. DOMAIN <<>> = {} OBVIOUS
<1>4. \A c \in DOMAIN K : IsList(K[c]) /\ Once(K[c]) /\ Wall!Range(K[c]) = {}
  BY <1>1, <1>3, ListNone DEF Once
<1>5. KernelOK(K) BY <1>1, <1>2, <1>4 DEF KernelOK
<1>6. \A c \in WallChains : c \notin DOMAIN K BY <1>1, ChainsApart
<1>7. \A c : In(K, c) = {} BY <1>4 DEF In
<1>8. \A s : InTurn(K, s) BY <1>6 DEF InTurn
<1>9. \A i \in 1 .. NumChains : ChainAt(i) \notin DOMAIN K BY <1>6, WallSizes
<1>10. \A s : Gone(K, s) BY <1>7, <1>9 DEF Gone
<1> QED BY <1>5, <1>8, <1>10

\* A new install begins with what the last has left.
LEMMA Again ==
    ASSUME NEW K, InTurn(K, AllRun)
    PROVE  InTurn(K, 1)
<1>1. NumChains \in Nat /\ NumRules \in Nat BY WallSizes
<1>2. /\ \A i \in 1 .. NumRules : NumChains + i < AllRun /\ ~(NumChains + i < 1)
  BY <1>1 DEF AllRun
<1>3. ASSUME NEW c \in WallChains \cap DOMAIN K
      PROVE  Ordered(K, c) /\ Behind(K, c, 1) /\ Full(K, c)
  <2>1. Ordered(K, c) /\ Behind(K, c, AllRun) BY DEF InTurn
  <2> QED BY <1>2, <2>1 DEF Behind, Full
<1> QED BY <1>3 DEF InTurn

\* A step of a behaviour of this part is one of Firewall.
LEMMA WallStep == part = "wall" /\ [Next]_vars => part' = "wall" /\ [Wall!Next]_(Wall!wallVars)
<1> SUFFICES ASSUME part = "wall", [Next]_vars PROVE part' = "wall" /\ [Wall!Next]_(Wall!wallVars)
  OBVIOUS
<1>1. CASE WallNext BY <1>1 DEF WallNext, OfWall
<1>2. CASE UNCHANGED vars BY <1>2 DEF vars, wallVars, Wall!wallVars
<1>3. /\ ~TunNext /\ ~LanNext /\ ~FabNext /\ ~VpnNext /\ ~UserNext /\ ~TableNext
      /\ ~WebNext /\ ~DbNext /\ ~PrxNext
  BY DEF TunNext, LanNext, FabNext, VpnNext, UserNext, TableNext, WebNext, DbNext, PrxNext,
         OfTun, OfLan, OfFab, OfVpn, OfUser, OfTable, OfWeb, OfDb, OfPrx
<1> QED BY <1>1, <1>2, <1>3 DEF Next

\* The bounds are numbers.
LEMMA WallBounds == MaxStarts \in Nat /\ MaxReloads \in Nat
BY WallAssumption

\* The kernel has its own chains only.
LEMMA WallInvInit == Wall!Init => WallInv
<1> SUFFICES ASSUME Wall!Init PROVE WallInv OBVIOUS
<1>1. /\ chains = Wall!InitChains /\ rules = Wall!InitRules /\ kernel = Wall!BuiltInOnly
      /\ holder = "none" /\ step = 1 /\ life = "new" /\ starts = 0 /\ spawned = 0 /\ hooks = 0
      /\ calls = 0 /\ reloads = 0
  BY DEF Wall!Init
<1>2. KernelOK(kernel) /\ InTurn(kernel, NextOf(holder, step)) BY <1>1, Bare
<1>3. NumChains \in Nat /\ NumRules \in Nat BY WallSizes
<1>4. WallCounts
  <2>1. step \in 1 .. AllRun BY <1>1, <1>3 DEF AllRun
  <2>2. holder # "start" BY <1>1
  <2>3. calls <= hooks * reloads BY <1>1
  <2>4. starts \in 0 .. MaxStarts /\ reloads \in 0 .. MaxReloads BY <1>1, WallBounds
  <2> QED BY <1>1, <2>1, <2>2, <2>3, <2>4 DEF WallCounts
<1>5. /\ holder # "stop" /\ ~(hooks > 0 \/ holder # "none")
      /\ holder \in {"none", "start", "hook", "stop"}
      /\ life \in {"new", "started", "stopping", "stopped"}
  BY <1>1
<1> QED BY <1>1, <1>2, <1>4, <1>5 DEF WallInv

\* Calls of the switch and of firewalld that take no command.
LEMMA WallCalls ==
    ASSUME WallInv, Wall!Spawn \/ Wall!SwitchStop \/ Wall!Start \/ Wall!OnReloaded \/ Wall!Stop
    PROVE  WallInv'
<1>1. NumChains \in Nat /\ NumRules \in Nat /\ AllRun \in Nat /\ 1 \in 1 .. AllRun
  BY WallSizes DEF AllRun
<1>2. /\ chains = Wall!InitChains /\ rules = Wall!InitRules /\ KernelOK(kernel)
      /\ holder \in {"none", "start", "hook", "stop"}
      /\ life \in {"new", "started", "stopping", "stopped"}
      /\ holder = "stop" => life = "stopping" /\ Gone(kernel, step)
      /\ WallCounts
      /\ life \in {"new", "started"} => InTurn(kernel, NextOf(holder, step))
      /\ EarlyReload = FALSE /\ life \in {"new", "started"} /\ calls = 0
         /\ (hooks > 0 \/ holder # "none") => Put(kernel, PutTo(holder, step, hooks))
  BY DEF WallInv
<1>3. chains' = chains /\ rules' = rules /\ kernel' = kernel /\ hooks' = hooks /\ reloads' = reloads
  BY DEF Wall!Spawn, Wall!SwitchStop, Wall!Start, Wall!OnReloaded, Wall!Stop
<1>4. CASE Wall!Spawn
  <2>1. /\ life \in {"new", "started"} /\ starts < MaxStarts /\ life' = "started"
        /\ starts' = starts + 1 /\ spawned' = spawned + 1
        /\ holder' = holder /\ step' = step /\ calls' = calls
    BY <1>4 DEF Wall!Spawn
  <2>2. WallCounts'
    <3>1. starts' \in 0 .. MaxStarts BY <1>2, <2>1, WallBounds DEF WallCounts
    <3>2. spawned' + hooks' + (IF holder' = "start" THEN 1 ELSE 0) <= starts' /\ spawned' \in Nat
      BY <1>2, <1>3, <2>1 DEF WallCounts
    <3> QED BY <1>2, <1>3, <2>1, <3>1, <3>2 DEF WallCounts
  <2>3. life' \in {"new", "started", "stopping", "stopped"} /\ holder # "stop" BY <1>2, <2>1
  <2> QED BY <1>2, <1>3, <2>1, <2>2, <2>3 DEF WallInv
<1>5. CASE Wall!SwitchStop
  <2>1. /\ life = "started" /\ life' = "stopping" /\ holder' = holder /\ step' = step
        /\ starts' = starts /\ spawned' = spawned /\ calls' = calls
    BY <1>5 DEF Wall!SwitchStop
  <2>2. WallCounts' BY <1>2, <1>3, <2>1 DEF WallCounts
  <2>3. /\ life' \notin {"new", "started"} /\ holder # "stop"
        /\ life' \in {"new", "started", "stopping", "stopped"}
    BY <1>2, <2>1
  <2> QED BY <1>2, <1>3, <2>1, <2>2, <2>3 DEF WallInv
<1>6. CASE Wall!Start
  <2>1. /\ holder = "none" /\ spawned > 0 /\ holder' = "start" /\ step' = 1
        /\ spawned' = spawned - 1 /\ life' = life /\ starts' = starts /\ calls' = calls
    BY <1>6 DEF Wall!Start, Wall!Free
  <2>2. WallCounts'
    <3>1. spawned' \in Nat /\ spawned' + hooks' + 1 <= starts'
      BY <1>2, <1>3, <2>1 DEF WallCounts
    <3> QED BY <1>1, <1>2, <1>3, <2>1, <3>1 DEF WallCounts
  <2>3. life' \in {"new", "started"} => InTurn(kernel', NextOf(holder', step'))
    <3>1. NextOf(holder, step) = AllRun BY <2>1 DEF NextOf
    <3>2. NextOf(holder', step') = 1 BY <2>1 DEF NextOf
    <3> QED BY <1>2, <1>3, <2>1, <3>1, <3>2, Again
  <2>4. ASSUME EarlyReload = FALSE, life \in {"new", "started"}, calls = 0
        PROVE  Put(kernel, PutTo(holder', step', hooks))
    <3>1. hooks \in Nat BY <1>2 DEF WallCounts
    <3>2. CASE hooks > 0
      <4>1. PutTo(holder', step', hooks) = AllRun BY <2>1, <3>2 DEF PutTo
      <4>2. PutTo(holder, step, hooks) = AllRun BY <2>1 DEF PutTo
      <4> QED BY <1>2, <2>4, <3>2, <4>1, <4>2
    <3>3. CASE ~(hooks > 0)
      <4>1. PutTo(holder', step', hooks) = 1 BY <2>1, <3>3 DEF PutTo
      <4>2. /\ \A i \in 1 .. NumChains : ~(i < 1)
            /\ \A i \in 1 .. NumRules : ~(NumChains + i < 1)
        BY <1>1
      <4> QED BY <4>1, <4>2 DEF Put
    <3> QED BY <3>2, <3>3
  <2>5. holder' # "stop" /\ holder' \in {"none", "start", "hook", "stop"} BY <2>1
  <2> QED BY <1>2, <1>3, <2>1, <2>2, <2>3, <2>4, <2>5 DEF WallInv
<1>7. CASE Wall!OnReloaded
  <2>1. /\ holder = "none" /\ calls > 0 /\ holder' = "hook" /\ step' = 1
        /\ calls' = calls - 1 /\ life' = life /\ starts' = starts /\ spawned' = spawned
    BY <1>7 DEF Wall!OnReloaded, Wall!Free
  <2>2. WallCounts'
    <3>1. calls \in Nat /\ calls <= hooks * reloads /\ hooks \in Nat /\ reloads \in Nat
      BY <1>2, WallBounds DEF WallCounts
    <3> DEFINE bound == hooks * reloads
    <3>2. bound \in Nat BY <3>1
    <3> HIDE DEF bound
    <3>3. calls' \in Nat /\ calls' <= bound BY <2>1, <3>1, <3>2 DEF bound
    <3>4. holder' # "start" /\ holder # "start" BY <2>1
    <3> QED BY <1>1, <1>2, <1>3, <2>1, <3>3, <3>4 DEF WallCounts, bound
  <2>3. life' \in {"new", "started"} => InTurn(kernel', NextOf(holder', step'))
    <3>1. NextOf(holder, step) = AllRun BY <2>1 DEF NextOf
    <3>2. NextOf(holder', step') = 1 BY <2>1 DEF NextOf
    <3> QED BY <1>2, <1>3, <2>1, <3>1, <3>2, Again
  <2>4. Put(kernel', PutTo(holder', step', hooks'))
    <3>1. PutTo(holder', step', hooks') = 1 BY <2>1 DEF PutTo
    <3>2. /\ \A i \in 1 .. NumChains : ~(i < 1)
          /\ \A i \in 1 .. NumRules : ~(NumChains + i < 1)
      BY <1>1
    <3> QED BY <3>1, <3>2 DEF Put
  <2>5. holder' # "stop" /\ holder' \in {"none", "start", "hook", "stop"} BY <2>1
  <2> QED BY <1>2, <1>3, <2>1, <2>2, <2>3, <2>4, <2>5 DEF WallInv
<1>8. CASE Wall!Stop
  <2>1. /\ holder = "none" /\ life = "stopping" /\ holder' = "stop" /\ step' = 1
        /\ calls' = calls /\ life' = life /\ starts' = starts /\ spawned' = spawned
    BY <1>8 DEF Wall!Stop, Wall!Free
  <2>2. WallCounts'
    <3>1. holder' # "start" /\ holder # "start" BY <2>1
    <3> QED BY <1>1, <1>2, <1>3, <2>1, <3>1 DEF WallCounts
  <2>3. Gone(kernel', step')
    <3>1. /\ \A i \in 1 .. NumRules : ~(i < 1)
          /\ \A i \in 1 .. NumChains : ~(NumRules + i < 1)
      BY <1>1
    <3> QED BY <2>1, <3>1 DEF Gone
  <2>4. /\ life' \notin {"new", "started"} /\ holder' \in {"none", "start", "hook", "stop"}
        /\ life' = "stopping"
    BY <2>1
  <2> QED BY <1>2, <1>3, <2>1, <2>2, <2>3, <2>4 DEF WallInv
<1> QED BY <1>4, <1>5, <1>6, <1>7, <1>8

\* One command of an install.
LEMMA InstallStep ==
    ASSUME chains = Wall!InitChains, rules = Wall!InitRules, KernelOK(kernel),
           step \in 1 .. NumChains + NumRules, NEW L, L = Wall!Opr(Wall!install[step])
    PROVE  /\ KernelOK(L) /\ Grows(kernel, L)
           /\ InTurn(kernel, step) => InTurn(L, step + 1)
           /\ Put(kernel, step) => Put(L, step + 1)
<1>1. NumChains \in Nat /\ NumRules \in Nat BY WallSizes
<1>2. CASE step \in 1 .. NumChains
  <2>1. L = ChainPut(kernel, ChainAt(step)) BY <1>2, PutCommands
  <2> QED BY <1>2, <2>1, ChainStep
<1>3. CASE step \notin 1 .. NumChains
  <2> DEFINE o == step - NumChains
  <2>1. o \in 1 .. NumRules /\ step = NumChains + o BY <1>1, <1>3
  <2> HIDE DEF o
  <2>2. L = RulePut(kernel, o) BY <2>1, PutCommands
  <2> QED BY <2>1, <2>2, RuleStep
<1> QED BY <1>2, <1>3

\* One command of an uninstall.
LEMMA UninstallStep ==
    ASSUME chains = Wall!InitChains, rules = Wall!InitRules, KernelOK(kernel), Gone(kernel, step),
           step \in 1 .. NumChains + NumRules, NEW L, L = Wall!Opr(Wall!uninstall[step])
    PROVE  KernelOK(L) /\ Gone(L, step + 1)
<1>1. NumChains \in Nat /\ NumRules \in Nat BY WallSizes
<1>2. CASE step \in 1 .. NumRules
  <2>1. L = RuleCut(kernel, step) BY <1>2, CutCommands
  <2> QED BY <1>2, <2>1, RuleCutStep
<1>3. CASE step \notin 1 .. NumRules
  <2> DEFINE o == step - NumRules
  <2>1. o \in 1 .. NumChains /\ step = NumRules + o BY <1>1, <1>3
  <2> HIDE DEF o
  <2>2. L = ChainCut(kernel, ChainAt(o)) BY <2>1, CutCommands
  <2> QED BY <2>1, <2>2, ChainCutStep
<1> QED BY <1>2, <1>3

\* A command under the lock.
LEMMA WallCommand == ASSUME WallInv, Wall!Command PROVE WallInv'
<1>1. NumChains \in Nat /\ NumRules \in Nat /\ AllRun = NumChains + NumRules + 1
  BY WallSizes DEF AllRun
<1>2. /\ chains = Wall!InitChains /\ rules = Wall!InitRules /\ KernelOK(kernel)
      /\ holder \in {"none", "start", "hook", "stop"}
      /\ life \in {"new", "started", "stopping", "stopped"}
      /\ holder = "stop" => life = "stopping" /\ Gone(kernel, step)
      /\ WallCounts
      /\ life \in {"new", "started"} => InTurn(kernel, NextOf(holder, step))
      /\ EarlyReload = FALSE /\ life \in {"new", "started"} /\ calls = 0
         /\ (hooks > 0 \/ holder # "none") => Put(kernel, PutTo(holder, step, hooks))
  BY DEF WallInv
<1>3. /\ chains' = chains /\ rules' = rules /\ hooks' = hooks /\ reloads' = reloads
      /\ holder' = holder /\ life' = life /\ starts' = starts /\ spawned' = spawned
      /\ calls' = calls /\ step' = step + 1 /\ holder # "none"
      /\ step <= Len(Wall!Commands) /\ kernel' = Wall!Opr(Wall!Commands[step])
  BY DEF Wall!Command, Wall!Free
<1>4. Len(Wall!Commands) = NumChains + NumRules
  <2>1. /\ Len(Wall!install) = NumChains + NumRules /\ Len(Wall!uninstall) = NumRules + NumChains
    BY <1>2, CommandLists
  <2>2. Wall!Commands = Wall!install \/ Wall!Commands = Wall!uninstall BY DEF Wall!Commands
  <2>3. NumRules + NumChains = NumChains + NumRules BY <1>1
  <2> QED BY <2>1, <2>2, <2>3
<1>5. step \in 1 .. NumChains + NumRules /\ step + 1 \in 1 .. AllRun
  <2>1. step \in 1 .. AllRun BY <1>2 DEF WallCounts
  <2> QED BY <1>1, <1>3, <1>4, <2>1
<1>6. WallCounts' BY <1>2, <1>3, <1>5 DEF WallCounts
<1>7. CASE holder = "stop"
  <2>1. kernel' = Wall!Opr(Wall!uninstall[step]) BY <1>3, <1>7 DEF Wall!Commands
  <2>2. KernelOK(kernel') /\ Gone(kernel', step + 1) BY <1>2, <1>5, <1>7, <2>1, UninstallStep
  <2>3. life' = "stopping" /\ life' \notin {"new", "started"} BY <1>2, <1>3, <1>7
  <2> QED BY <1>2, <1>3, <1>6, <1>7, <2>2, <2>3 DEF WallInv
<1>8. CASE holder # "stop"
  <2>1. kernel' = Wall!Opr(Wall!install[step]) BY <1>3, <1>8 DEF Wall!Commands
  <2>2. holder \in {"start", "hook"} BY <1>2, <1>3, <1>8
  <2>3. /\ KernelOK(kernel') /\ Grows(kernel, kernel')
        /\ InTurn(kernel, step) => InTurn(kernel', step + 1)
        /\ Put(kernel, step) => Put(kernel', step + 1)
    BY <1>2, <1>5, <2>1, InstallStep
  <2>4. life' \in {"new", "started"} => InTurn(kernel', NextOf(holder', step'))
    <3>1. NextOf(holder, step) = step /\ NextOf(holder', step') = step + 1
      BY <1>3, <2>2 DEF NextOf
    <3> QED BY <1>2, <1>3, <2>3, <3>1
  <2>5. ASSUME EarlyReload = FALSE, life' \in {"new", "started"}, calls' = 0
        PROVE  Put(kernel', PutTo(holder', step', hooks'))
    <3>1. Put(kernel, PutTo(holder, step, hooks)) BY <1>2, <1>3, <2>5
    <3>2. CASE holder = "start" /\ hooks > 0
      <4>1. PutTo(holder, step, hooks) = AllRun /\ PutTo(holder', step', hooks') = AllRun
        BY <1>3, <3>2 DEF PutTo
      <4> QED BY <2>3, <3>1, <4>1, PutGrows
    <3>3. CASE ~(holder = "start" /\ hooks > 0)
      <4>1. PutTo(holder, step, hooks) = step /\ PutTo(holder', step', hooks') = step + 1
        BY <1>3, <3>3 DEF PutTo
      <4> QED BY <2>3, <3>1, <4>1
    <3> QED BY <3>2, <3>3
  <2> QED BY <1>2, <1>3, <1>6, <1>8, <2>3, <2>4, <2>5 DEF WallInv
<1> QED BY <1>7, <1>8

\* The products that bound the calls of the hooks.
LEMMA Products ==
    ASSUME NEW a \in Nat, NEW b \in Nat
    PROVE  a * b \in Nat /\ a * (b + 1) = a * b + a /\ (a + 1) * b = a * b + b
OBVIOUS

\* A call returns, and the next one may follow.
LEMMA WallUnlock == ASSUME WallInv, Wall!Unlock PROVE WallInv'
<1>1. NumChains \in Nat /\ NumRules \in Nat /\ AllRun = NumChains + NumRules + 1
  BY WallSizes DEF AllRun
<1>2. /\ chains = Wall!InitChains /\ rules = Wall!InitRules /\ KernelOK(kernel)
      /\ holder \in {"none", "start", "hook", "stop"}
      /\ life \in {"new", "started", "stopping", "stopped"}
      /\ holder = "stop" => life = "stopping" /\ Gone(kernel, step)
      /\ WallCounts
      /\ life \in {"new", "started"} => InTurn(kernel, NextOf(holder, step))
      /\ EarlyReload = FALSE /\ life \in {"new", "started"} /\ calls = 0
         /\ (hooks > 0 \/ holder # "none") => Put(kernel, PutTo(holder, step, hooks))
  BY DEF WallInv
<1>3. /\ chains' = chains /\ rules' = rules /\ kernel' = kernel /\ reloads' = reloads
      /\ starts' = starts /\ spawned' = spawned /\ calls' = calls
      /\ holder # "none" /\ holder' = "none" /\ step' = 1 /\ step > Len(Wall!Commands)
      /\ hooks' = (IF holder = "start" THEN hooks + 1 ELSE hooks)
      /\ life' = IF holder = "stop" THEN "stopped" ELSE life
  BY DEF Wall!Unlock, Wall!Free
<1>4. Len(Wall!Commands) = NumChains + NumRules
  <2>1. /\ Len(Wall!install) = NumChains + NumRules /\ Len(Wall!uninstall) = NumRules + NumChains
    BY <1>2, CommandLists
  <2>2. Wall!Commands = Wall!install \/ Wall!Commands = Wall!uninstall BY DEF Wall!Commands
  <2>3. NumRules + NumChains = NumChains + NumRules BY <1>1
  <2> QED BY <2>1, <2>2, <2>3
<1>5. step = AllRun /\ 1 \in 1 .. AllRun
  <2>1. step \in 1 .. AllRun BY <1>2 DEF WallCounts
  <2> QED BY <1>1, <1>3, <1>4, <2>1
<1>6. WallCounts'
  <2>1. /\ spawned \in Nat /\ hooks \in Nat /\ reloads \in Nat /\ calls \in Nat
        /\ calls <= hooks * reloads /\ starts \in Nat
        /\ spawned + hooks + (IF holder = "start" THEN 1 ELSE 0) <= starts
    BY <1>2, WallBounds DEF WallCounts
  <2>2. hooks' \in Nat /\ spawned' + hooks' + 0 <= starts' BY <1>3, <2>1
  <2>3. calls' <= hooks' * reloads'
    <3> DEFINE a == hooks * reloads
    <3>1. a \in Nat /\ (hooks + 1) * reloads = a + reloads BY <2>1, Products
    <3>2. calls <= a BY <2>1
    <3>3. hooks' * reloads' = a \/ hooks' * reloads' = a + reloads BY <1>3, <3>1
    <3> HIDE DEF a
    <3>4. calls <= a + reloads BY <2>1, <3>1, <3>2
    <3> QED BY <1>3, <3>2, <3>3, <3>4
  <2>4. holder' # "start" BY <1>3
  <2> QED BY <1>2, <1>3, <1>5, <2>2, <2>3, <2>4 DEF WallCounts
<1>7. life' \in {"new", "started"} => InTurn(kernel', NextOf(holder', step'))
  <2>1. NextOf(holder, step) = AllRun /\ NextOf(holder', step') = AllRun
    BY <1>3, <1>5 DEF NextOf
  <2>2. life' \in {"new", "started"} => life \in {"new", "started"} BY <1>3
  <2> QED BY <1>2, <1>3, <2>1, <2>2
<1>8. ASSUME EarlyReload = FALSE, life' \in {"new", "started"}, calls' = 0
      PROVE  Put(kernel', PutTo(holder', step', hooks'))
  <2>1. PutTo(holder, step, hooks) = AllRun /\ PutTo(holder', step', hooks') = AllRun
    BY <1>3, <1>5 DEF PutTo
  <2>2. life \in {"new", "started"} BY <1>3, <1>8
  <2> QED BY <1>2, <1>3, <1>8, <2>1, <2>2
<1>9. /\ holder' # "stop" /\ holder' \in {"none", "start", "hook", "stop"}
      /\ life' \in {"new", "started", "stopping", "stopped"}
  BY <1>2, <1>3
<1> QED BY <1>2, <1>3, <1>6, <1>7, <1>8, <1>9 DEF WallInv

\* firewalld reloads: the rules are gone, and the hooks are called.
LEMMA WallReloaded == ASSUME WallInv, Wall!Reloaded PROVE WallInv'
<1>2. /\ chains = Wall!InitChains /\ rules = Wall!InitRules
      /\ holder \in {"none", "start", "hook", "stop"}
      /\ life \in {"new", "started", "stopping", "stopped"}
      /\ holder = "stop" => life = "stopping"
      /\ WallCounts
  BY DEF WallInv
<1>3. /\ chains' = chains /\ rules' = rules /\ hooks' = hooks /\ holder' = holder
      /\ step' = step /\ life' = life /\ starts' = starts /\ spawned' = spawned
      /\ reloads < MaxReloads /\ (EarlyReload \/ hooks > 0) /\ kernel' = Wall!BuiltInOnly
      /\ reloads' = reloads + 1 /\ calls' = calls + hooks
  BY DEF Wall!Reloaded
<1>4. hooks \in Nat /\ reloads \in Nat /\ calls \in Nat /\ calls <= hooks * reloads
      /\ reloads \in 0 .. MaxReloads
  BY <1>2, WallBounds DEF WallCounts
<1>5. WallCounts'
  <2>1. reloads' \in 0 .. MaxReloads BY <1>3, <1>4, WallBounds
  <2>2. calls' \in Nat /\ calls' <= hooks' * reloads'
    <3> DEFINE a == hooks * reloads
    <3>1. a \in Nat /\ hooks * (reloads + 1) = a + hooks BY <1>4, Products
    <3>2. calls <= a BY <1>4
    <3>3. hooks' * reloads' = a + hooks BY <1>3, <3>1
    <3> HIDE DEF a
    <3>4. calls + hooks \in Nat /\ calls + hooks <= a + hooks BY <1>4, <3>1, <3>2
    <3> QED BY <1>3, <3>3, <3>4
  <2> QED BY <1>2, <1>3, <2>1, <2>2 DEF WallCounts
<1>6. KernelOK(kernel') /\ \A s : InTurn(kernel', s) /\ Gone(kernel', s) BY <1>3, Bare
<1>7. EarlyReload = FALSE => calls' # 0 BY <1>3, <1>4
<1> QED BY <1>2, <1>3, <1>5, <1>6, <1>7 DEF WallInv

\* Every step of Firewall keeps the invariant.
LEMMA WallInvStep == WallInv /\ [Wall!Next]_(Wall!wallVars) => WallInv'
<1> SUFFICES ASSUME WallInv, [Wall!Next]_(Wall!wallVars) PROVE WallInv'
  OBVIOUS
<1>1. CASE Wall!Spawn \/ Wall!SwitchStop \/ Wall!Start \/ Wall!OnReloaded \/ Wall!Stop
  BY <1>1, WallCalls
<1>2. CASE Wall!Command BY <1>2, WallCommand
<1>3. CASE Wall!Unlock BY <1>3, WallUnlock
<1>4. CASE Wall!Reloaded BY <1>4, WallReloaded
<1>5. CASE UNCHANGED Wall!wallVars BY <1>5 DEF Wall!wallVars, WallInv, WallCounts
<1> QED BY <1>1, <1>2, <1>3, <1>4, <1>5 DEF Wall!Next

\* The invariant of the firewall holds throughout.
LEMMA WallAlways == Spec => [](part = "wall" => WallInv)
<1> DEFINE I == part = "wall" => WallInv
<1>1. Init => I BY WallInvInit DEF Init, Only
<1>2. I /\ [Next]_vars => I'
  <2> SUFFICES ASSUME I, [Next]_vars, part' = "wall" PROVE WallInv'
    OBVIOUS
  <2>1. part = "wall"
    BY DEF Next, WallNext, LanNext, FabNext, TunNext, VpnNext, UserNext, TableNext, WebNext,
           DbNext, PrxNext, OfWall, OfLan, OfFab, OfTun, OfVpn, OfUser, OfTable, OfWeb, OfDb,
           OfPrx, vars
  <2> QED BY <2>1, WallStep, WallInvStep
<1> QED BY <1>1, <1>2, PTL DEF Spec

\* It has the type of the firewall in it.
LEMMA WallTypes == WallInv => Wall!TypeOK
<1> SUFFICES ASSUME WallInv PROVE Wall!TypeOK OBVIOUS
<1>1. /\ chains = Wall!InitChains /\ rules = Wall!InitRules /\ KernelOK(kernel)
      /\ holder \in {"none", "start", "hook", "stop"}
      /\ life \in {"new", "started", "stopping", "stopped"} /\ WallCounts
  BY DEF WallInv
<1>2. /\ NumChains \in Nat /\ NumRules \in Nat /\ Len(chains) = NumChains
      /\ Len(rules) = NumRules
  BY <1>1, WallSizes DEF NumChains, NumRules
<1>3. step \in 1 .. Len(rules) + Len(chains) + 1
  <2>1. step \in 1 .. AllRun BY <1>1 DEF WallCounts
  <2> QED BY <1>2, <2>1 DEF AllRun
<1>4. starts \in 0 .. MaxStarts /\ spawned \in 0 .. starts /\ hooks \in 0 .. starts
      /\ reloads \in 0 .. MaxReloads
  BY <1>1, WallBounds DEF WallCounts
<1>5. calls \in 0 .. hooks * reloads
  <2>1. hooks \in Nat /\ reloads \in Nat /\ calls \in Nat /\ calls <= hooks * reloads
    BY <1>1, WallBounds DEF WallCounts
  <2> DEFINE a == hooks * reloads
  <2>2. a \in Nat /\ calls <= a BY <2>1, Products
  <2> HIDE DEF a
  <2>3. calls \in 0 .. a BY <2>1, <2>2
  <2> QED BY <2>3 DEF a
<1>6. Wall!BuiltIns \subseteq DOMAIN kernel /\ DOMAIN kernel \subseteq Wall!BuiltIns \cup Wall!Range(chains)
  BY <1>1 DEF KernelOK, WallChains
<1>7. \A c \in DOMAIN kernel : Wall!Range(kernel[c]) \subseteq Wall!Configured(c)
  BY <1>1 DEF KernelOK, WallConf, Wall!Configured
<1> QED BY <1>1, <1>3, <1>4, <1>5, <1>6, <1>7 DEF Wall!TypeOK

\* When no call is under way every command of an install has had its effect,
\* and what decides came in turn.
LEMMA WallSettled ==
    ASSUME EarlyReload = FALSE, WallInv, Wall!Settled
    PROVE  Wall!Protected /\ Wall!VpnServed
<1>1. /\ chains = Wall!InitChains /\ rules = Wall!InitRules /\ KernelOK(kernel)
      /\ InTurn(kernel, NextOf(holder, step))
      /\ Put(kernel, PutTo(holder, step, hooks))
  BY DEF WallInv, Wall!Settled, Wall!Free
<1>2. Put(kernel, AllRun)
  <2>1. PutTo(holder, step, hooks) = AllRun BY DEF PutTo, Wall!Settled, Wall!Free
  <2> QED BY <1>1, <2>1
<1>3. NumChains \in Nat /\ NumRules \in Nat /\ DOMAIN rules = 1 .. NumRules BY <1>1, WallSizes
<1>4. /\ \A i \in 1 .. NumChains : ChainAt(i) \in DOMAIN kernel
      /\ \A i \in 1 .. NumRules : EntryAt(i) \in In(kernel, RuleAt(i).chain)
  BY <1>2, <1>3 DEF Put, AllRun
<1>5. \A c : Wall!Entries(c) = In(kernel, c) BY DEF Wall!Entries, In
<1>6. \A r \in Wall!Range(Wall!InitRules) : <<r.match, r.jump>> \in Wall!Entries(r.chain)
  <2> TAKE r \in Wall!Range(Wall!InitRules)
  <2>1. PICK i \in 1 .. NumRules : r = Wall!InitRules[i] BY <1>1, <1>3 DEF Wall!Range
  <2>2. EntryAt(i) \in In(kernel, RuleAt(i).chain) BY <1>4
  <2> QED BY <1>5, <2>1, <2>2 DEF EntryAt, RuleAt
<1>7. Wall!Protected
  <2>1. ASSUME NEW c \in WallChains
        PROVE  c \in DOMAIN kernel /\ Wall!Entries(c) = Wall!Configured(c) /\ Wall!InOrder(c)
    <3>1. PICK o \in 1 .. NumChains : c = ChainAt(o) BY WallSizes
    <3>2. c \in DOMAIN kernel BY <1>4, <3>1
    <3>3. In(kernel, c) \subseteq WallConf(c) BY <1>1, <3>2 DEF KernelOK, In
    <3>4. WallConf(c) \subseteq In(kernel, c)
      <4> SUFFICES ASSUME NEW e \in WallConf(c) PROVE e \in In(kernel, c) OBVIOUS
      <4>1. PICK i \in 1 .. NumRules : RuleAt(i).chain = c /\ e = EntryAt(i) BY WallSizes
      <4> QED BY <1>4, <4>1
    <3>5. Wall!Configured(c) = WallConf(c) BY <1>1 DEF WallConf, Wall!Configured
    <3>6. Ordered(kernel, c) BY <1>1, <3>2 DEF InTurn
    <3>7. Wall!InOrder(c)
      <4> SUFFICES ASSUME NEW x \in DOMAIN kernel[c], NEW y \in DOMAIN kernel[c], x < y,
                          Wall!Decides(kernel[c][x]), Wall!Decides(kernel[c][y]),
                          NEW j \in DOMAIN rules, Wall!IsRule(j, c, kernel[c][y])
                   PROVE  \E i \in 1 .. j - 1 : Wall!IsRule(i, c, kernel[c][x])
        BY DEF Wall!InOrder
      <4>1. \A i \in 1 .. NumRules : \A e :
              Wall!IsRule(i, c, e) <=> RuleAt(i).chain = c /\ EntryAt(i) = e
        BY <1>1 DEF Wall!IsRule, RuleAt, EntryAt
      <4>2. PICK i \in 1 .. NumRules :
                   i < j /\ RuleAt(i).chain = c /\ EntryAt(i) = kernel[c][x]
        BY <1>3, <3>6, <4>1 DEF Ordered
      <4>3. i \in 1 .. j - 1 BY <1>3, <4>2
      <4> QED BY <4>1, <4>2, <4>3
    <3> QED BY <1>5, <3>2, <3>3, <3>4, <3>5, <3>7
  <2>2. \A r \in Wall!Range(Wall!jumpOLC) : <<r.match, r.jump>> \in Wall!Entries(r.chain)
    BY <1>6, RuleList
  <2>3. Wall!Range(chains) = WallChains BY <1>1 DEF WallChains
  <2> QED BY <2>1, <2>2, <2>3 DEF Wall!Protected
<1>8. Wall!VpnServed
  <2> SUFFICES ASSUME NEW net \in Wall!Range(Nets), net.bridge # "", NEW v \in Wall!Range(net.vpns),
                      NEW p \in {net.subnet} \cup { r.prefix : r \in Wall!Range(net.routes) },
                      p \notin {"", "0.0.0.0/0", v.subnet}
               PROVE  /\ Wall!Has(Wall!OLChain("filter", "FWD"), <<v.dev, "", v.subnet, p>>, "ACCEPT")
                      /\ Wall!Has(Wall!OLChain("filter", "FWD"), <<"", v.dev, p, v.subnet>>, "ACCEPT")
                      /\ Wall!Has(Wall!OLChain("nat", "POST"), <<v.subnet, p>>, "MASQUERADE")
    BY DEF Wall!VpnServed
  <2>1. ASSUME NEW c, NEW match, NEW jump,
               Wall!Rule(c, match, Wall!Target(jump, "")) \in Wall!Range(Wall!InitRules)
        PROVE  Wall!Has(c, match, jump)
    <3> DEFINE r == Wall!Rule(c, match, Wall!Target(jump, ""))
    <3>1. r.chain = c /\ r.match = match /\ r.jump = Wall!Target(jump, "") BY DEF Wall!Rule
    <3> HIDE DEF r
    <3>2. r \in Wall!Range(Wall!InitRules) BY <2>1 DEF r
    <3> QED BY <1>6, <3>1, <3>2 DEF Wall!Has
  <2> QED BY <2>1, VpnRules
<1> QED BY <1>7, <1>8

\* The lock comes back from Stop with the last command done.
LEMMA WallStops ==
    ASSUME WallInv, [Wall!Next]_(Wall!wallVars), holder = "stop", holder' = "none"
    PROVE  kernel' = Wall!BuiltInOnly
<1>1. Wall!Unlock
  BY DEF Wall!Next, Wall!Spawn, Wall!SwitchStop, Wall!Start, Wall!OnReloaded, Wall!Stop,
         Wall!Command, Wall!Reloaded, Wall!wallVars
<1>2. step > Len(Wall!uninstall) /\ kernel' = kernel BY <1>1 DEF Wall!Unlock, Wall!Commands
<1>3. chains = Wall!InitChains /\ rules = Wall!InitRules /\ KernelOK(kernel)
      /\ Gone(kernel, step) /\ step \in 1 .. AllRun
  BY DEF WallInv, WallCounts
<1>4. Len(Wall!uninstall) = NumRules + NumChains /\ NumRules \in Nat /\ NumChains \in Nat
  BY <1>3, CommandLists, WallSizes
<1>5. step = AllRun BY <1>2, <1>3, <1>4 DEF AllRun
<1> QED BY <1>2, <1>3, <1>5, GoneAll

\* Firewall (network/firewall.go): when no call is under way the kernel holds
\* the configured rules, those that decide in their order, and what the clients
\* of the OpenVPN servers need, whatever reloads of firewalld came between two
\* commands, as long as none comes before a hook is registered; Stop leaves no
\* rule and no chain.
THEOREM RulesAreKept ==
    ASSUME EarlyReload = FALSE
    PROVE  Spec => RulesKept
<1> DEFINE I == part = "wall" => WallInv
           P == part = "wall" => Wall!Protected /\ Wall!VpnServed
           A == part = "wall" /\ holder = "stop" /\ holder' = "none" => kernel' = Wall!BuiltInOnly
<1>1. I => P
  <2> SUFFICES ASSUME WallInv PROVE Wall!Protected /\ Wall!VpnServed OBVIOUS
  <2>1. CASE Wall!Settled BY <2>1, WallSettled
  <2>2. CASE ~Wall!Settled BY <2>2 DEF Wall!Protected, Wall!VpnServed
  <2> QED BY <2>1, <2>2
<1>2. I /\ [Next]_vars => [A]_vars
  <2> SUFFICES ASSUME I, [Next]_vars, part = "wall", holder = "stop", holder' = "none"
               PROVE  kernel' = Wall!BuiltInOnly
    OBVIOUS
  <2> QED BY WallStep, WallStops
<1>3. Spec => []I BY WallAlways
<1>4. Spec => []P BY <1>1, <1>3, PTL
<1>5. Spec => [][A]_vars BY <1>2, <1>3, PTL DEF Spec
<1> QED BY <1>4, <1>5 DEF RulesKept

----------------------------------------------------------------------------
(* The types of all parts.                                                 *)

\* The tables of the fabric hold flows of their own kind.
FlowsOf(f, S, T) == DOMAIN f \subseteq S /\ Fab!Range(f) \subseteq T

\* A flow more in a table keeps its kind.
LEMMA FabWith ==
    ASSUME NEW f, NEW S, NEW T, FlowsOf(f, S, T), NEW x, x \in S, NEW v, v \in T
    PROVE  FlowsOf(Fab!With(f, x, v), S, T)
<1> DEFINE h == Fab!With(f, x, v)
<1>0. DOMAIN f \subseteq S /\ Fab!Range(f) \subseteq T BY DEF FlowsOf
<1>1. DOMAIN h = DOMAIN f \cup {x} BY DEF Fab!With
<1>2. \A y \in DOMAIN f \cup {x} : h[y] = IF y = x THEN v ELSE f[y] BY DEF Fab!With
<1> HIDE DEF h
<1>3. \A y \in DOMAIN h : h[y] \in T
  <2> TAKE y \in DOMAIN h
  <2>1. CASE y = x BY <1>1, <1>2, <2>1
  <2>2. CASE y # x
    <3>1. y \in DOMAIN f /\ h[y] = f[y] BY <1>1, <1>2, <2>2
    <3> QED BY <1>0, <3>1 DEF Fab!Range
  <2> QED BY <2>1, <2>2
<1>4. Fab!Range(h) \subseteq T BY <1>3 DEF Fab!Range
<1>5. FlowsOf(h, S, T) BY <1>0, <1>1, <1>4 DEF FlowsOf
<1> QED BY <1>5 DEF h

FabFlow == [vni : Fab!Vnis \cup {NoFlow}, flag : {"LS", "TUN"}]

FabTypes == Fab!TypeOK /\ DOMAIN toBorder = {"LS", "TUN"}

\* A frame is learned from and goes to ports of the fabric.
LEMMA FabTypeFrame ==
    ASSUME FabTypes, NEW p \in Fab!Ports, NEW v \in Fab!Vnis, NEW src \in Macs, NEW dst \in Macs,
           Fab!Frame(p, v, src, dst)
    PROVE  FabTypes'
<1> USE DEF FabTypes
<1> DEFINE id == IF in0[p].vni = NoFlow THEN v ELSE in0[p].vni
           flag == in0[p].flag
           learn == Fab!With(fdb, <<id, src>>, p)
           flood == <<id, dst>> \notin DOMAIN learn
           to == IF flood THEN Fab!FloodToTun(id, flag) ELSE {learn[<<id, dst>>]}
<1>1. /\ p \in DOMAIN in0 /\ fdb' = learn /\ last'.to = to \ {p}
      /\ fabAt' = fabAt /\ k' = k /\ tables' = tables /\ in0' = in0 /\ toTun' = toTun
      /\ toPatch' = toPatch /\ toBorder' = toBorder /\ loop' = loop /\ tunnels' = tunnels
      /\ borders' = borders /\ devs' = devs
  BY DEF Fab!Frame, Fab!flowVars
<1>2. in0[p] \in FabFlow BY <1>1 DEF Fab!TypeOK, Fab!Range, FabFlow
<1>3. in0[p].vni \in Fab!Vnis \cup {NoFlow} /\ flag \in {"LS", "TUN"} BY <1>2 DEF FabFlow
<1>4. id \in Fab!Vnis BY <1>3
<1> HIDE DEF id, flag
<1>5. <<id, src>> \in Fab!Vnis \X Macs BY <1>4
<1>6. DOMAIN learn \subseteq Fab!Vnis \X Macs /\ Fab!Range(learn) \subseteq Fab!Ports
  <2> DEFINE x == <<id, src>>
             S == Fab!Vnis \X Macs
  <2>1. FlowsOf(fdb, S, Fab!Ports) BY DEF Fab!TypeOK, FlowsOf
  <2>2. x \in S BY <1>5
  <2>3. p \in Fab!Ports OBVIOUS
  <2>4. learn = Fab!With(fdb, x, p) OBVIOUS
  <2> HIDE DEF x, S, learn
  <2>5. FlowsOf(learn, S, Fab!Ports) BY ONLY <2>1, <2>2, <2>3, <2>4, FabWith
  <2> QED BY <2>5 DEF S, FlowsOf
<1> HIDE DEF learn
<1>7. /\ Fab!FlowOf(toTun) \subseteq Fab!Ports
      /\ \A f \in DOMAIN toBorder : Fab!FlowOf(toBorder[f]) \subseteq Fab!Ports
  BY DEF Fab!TypeOK, Fab!Ports
<1>8. Fab!Patch(toPatch, id) \subseteq Fab!Ports /\ Fab!Patch(loop, id) \subseteq Fab!Ports
  BY DEF Fab!TypeOK, Fab!Patch, Fab!Range, Fab!Ports
<1>t. DOMAIN toBorder = {"LS", "TUN"} BY DEF Fab!TypeOK
<1>9. Fab!FloodToBor(id, flag) \subseteq Fab!Ports
  BY <1>3, <1>7, <1>8, <1>t DEF Fab!FloodToBor
<1>10. Fab!FloodToTun(id, flag) \subseteq Fab!Ports
  <2>1. CASE flag = "LS"
    <3>1. Fab!FloodToTun(id, flag) = IF toTun = NoFlow THEN {} ELSE toTun \cup Fab!FloodToBor(id, flag)
      BY <2>1 DEF Fab!FloodToTun
    <3> QED BY <1>7, <1>9, <3>1 DEF Fab!FlowOf
  <2>2. CASE flag = "TUN"
    <3>0. "LS" # "TUN" OBVIOUS
    <3>1. Fab!FloodToTun(id, flag) =
            IF id \in DOMAIN toPatch THEN {toPatch[id]} \cup Fab!FloodToBor(id, flag) ELSE {}
      BY <2>2, <3>0 DEF Fab!FloodToTun
    <3> QED BY <1>8, <1>9, <3>1 DEF Fab!Patch
  <2> QED BY <1>3, <2>1, <2>2
<1>11. to \subseteq Fab!Ports BY <1>6, <1>10 DEF Fab!Range
<1>12. last'.to \subseteq Fab!Ports BY <1>1, <1>11
<1> QED BY <1>1, <1>6, <1>12 DEF Fab!TypeOK

\* Every step of the fabric keeps the kinds of its flows.
LEMMA FabTypeStep == FabTypes /\ [Fab!Next]_(Fab!fabVars) => FabTypes'
<1> SUFFICES ASSUME FabTypes, [Fab!Next]_(Fab!fabVars) PROVE FabTypes'
  OBVIOUS
<1> USE DEF FabTypes
<1>0. Len(TunnelPorts) \in Nat /\ Len(Vnets) \in Nat /\ DOMAIN TunnelPorts = 1 .. Len(TunnelPorts)
      /\ DOMAIN Vnets = 1 .. Len(Vnets)
  BY FabAssumption
<1>1. CASE Fab!AddTunnel
  <2>1. PICK i \in DOMAIN TunnelPorts : i = k BY <1>0, <1>1 DEF Fab!AddTunnel, Fab!TypeOK
  <2> DEFINE t == TunnelPorts[i]
  <2>2. t.port \in Fab!TunOf /\ t.port \in Fab!Ports BY DEF Fab!TunOf, Fab!Ports
  <2>3. [vni |-> NoFlow, flag |-> "LS"] \in FabFlow /\ [vni |-> NoFlow, flag |-> "TUN"] \in FabFlow
    BY DEF FabFlow
  <2>4. /\ DOMAIN in0' \subseteq Fab!Ports /\ Fab!Range(in0') \subseteq FabFlow
        /\ tunnels' \subseteq Fab!TunOf /\ borders' \subseteq Fab!TunOf
        /\ tunnels \subseteq tunnels' /\ borders \subseteq borders'
        /\ (toTun' = toTun \/ toTun' = tunnels')
        /\ (toBorder' = toBorder \/ toBorder' = [f \in {"LS", "TUN"} |-> borders'])
    <3>1. FlowsOf(in0, Fab!Ports, FabFlow) BY DEF Fab!TypeOK, FabFlow, FlowsOf
    <3>2. tunnels \subseteq Fab!TunOf /\ borders \subseteq Fab!TunOf BY DEF Fab!TypeOK
    <3>3. CASE /\ in0' = Fab!With(in0, t.port, [vni |-> NoFlow, flag |-> "LS"])
               /\ borders' = borders \cup {t.port} /\ toBorder' = Fab!flood2Border(borders')
               /\ UNCHANGED <<tunnels, toTun>>
      <4>1. FlowsOf(in0', Fab!Ports, FabFlow)
        BY <2>2, <2>3, <3>1, <3>3, FabWith
      <4> QED BY <2>2, <3>2, <3>3, <4>1 DEF Fab!flood2Border, FlowsOf
    <3>4. CASE /\ in0' = Fab!With(in0, t.port, [vni |-> NoFlow, flag |-> "TUN"])
               /\ tunnels' = tunnels \cup {t.port} /\ toTun' = Fab!flood2Tunnel(tunnels')
               /\ UNCHANGED <<borders, toBorder>>
      <4>1. FlowsOf(in0', Fab!Ports, FabFlow)
        BY <2>2, <2>3, <3>1, <3>4, FabWith
      <4> QED BY <2>2, <3>2, <3>4, <4>1 DEF Fab!flood2Tunnel, FlowsOf
    <3> QED BY <1>1, <2>1, <3>3, <3>4 DEF Fab!AddTunnel
  <2>5. k' \in 1 .. Len(TunnelPorts) + Len(Vnets) + 1
    BY <1>0, <1>1 DEF Fab!AddTunnel, Fab!TypeOK
  <2>6. Fab!FlowOf(toTun') \subseteq tunnels' BY <2>4 DEF Fab!TypeOK, Fab!FlowOf
  <2>7. /\ DOMAIN toBorder' = {"LS", "TUN"}
        /\ \A f \in DOMAIN toBorder' : Fab!FlowOf(toBorder'[f]) \subseteq borders'
    BY <2>4 DEF Fab!TypeOK, Fab!FlowOf
  <2>8. /\ fabAt' = fabAt /\ tables' = tables /\ fdb' = fdb /\ toPatch' = toPatch
        /\ loop' = loop /\ last'.to = {}
    BY <1>1 DEF Fab!AddTunnel, Fab!Quiet
  <2> QED BY <2>4, <2>5, <2>6, <2>7, <2>8 DEF Fab!TypeOK, FabFlow
<1>2. CASE Fab!AddNetwork
  <2>1. PICK j \in DOMAIN Vnets : j = k BY <1>0, <1>2 DEF Fab!AddNetwork, Fab!TypeOK
  <2> DEFINE net == Vnets[j]
  <2>2. net.vni \in Fab!Vnis /\ net.patch \in Fab!PatchOf /\ net.patch \in Fab!Ports
    BY DEF Fab!Vnis, Fab!PatchOf, Fab!Ports
  <2>3. [vni |-> net.vni, flag |-> "LS"] \in FabFlow BY <2>2 DEF FabFlow
  <2>4. /\ in0' = Fab!With(in0, net.patch, [vni |-> net.vni, flag |-> "LS"])
        /\ toPatch' = Fab!With(toPatch, net.vni, net.patch)
        /\ loop' = Fab!With(loop, net.vni, net.patch)
        /\ fabAt' = fabAt /\ tables' = tables /\ fdb' = fdb /\ toTun' = toTun
        /\ toBorder' = toBorder /\ tunnels' = tunnels /\ borders' = borders /\ last' = Fab!Quiet
    BY <1>2, <2>1 DEF Fab!AddNetwork, Fab!PatchFlow
  <2> HIDE DEF net
  <2>5. DOMAIN in0' \subseteq Fab!Ports /\ Fab!Range(in0') \subseteq FabFlow
    <3>1. FlowsOf(in0, Fab!Ports, FabFlow) BY DEF Fab!TypeOK, FabFlow, FlowsOf
    <3>2. FlowsOf(in0', Fab!Ports, FabFlow) BY ONLY <2>2, <2>3, <2>4, <3>1, FabWith
    <3> QED BY <3>2 DEF FlowsOf
  <2>6. \A f \in {toPatch', loop'} : DOMAIN f \subseteq Fab!Vnis /\ Fab!Range(f) \subseteq Fab!PatchOf
    <3>1. FlowsOf(toPatch, Fab!Vnis, Fab!PatchOf) /\ FlowsOf(loop, Fab!Vnis, Fab!PatchOf)
      BY DEF Fab!TypeOK, FlowsOf
    <3>2. FlowsOf(toPatch', Fab!Vnis, Fab!PatchOf) BY ONLY <2>2, <2>4, <3>1, FabWith
    <3>3. FlowsOf(loop', Fab!Vnis, Fab!PatchOf) BY ONLY <2>2, <2>4, <3>1, FabWith
    <3> QED BY <3>2, <3>3 DEF FlowsOf
  <2>7. k' \in 1 .. Len(TunnelPorts) + Len(Vnets) + 1
    BY <1>0, <1>2 DEF Fab!AddNetwork, Fab!TypeOK
  <2>8. last'.to = {} BY <2>4 DEF Fab!Quiet
  <2> QED BY <2>4, <2>5, <2>6, <2>7, <2>8 DEF Fab!TypeOK, FabFlow
<1>3. CASE Fab!Stop
  <2>1. /\ fabAt' = "ports" /\ k' = 1 /\ tables' = FALSE /\ toTun' = NoFlow
        /\ toBorder' = [f \in {"LS", "TUN"} |-> NoFlow]
        /\ tunnels' = tunnels /\ borders' = borders /\ last'.to = {}
        /\ in0' = <<>> /\ fdb' = <<>> /\ toPatch' = <<>> /\ loop' = <<>>
    BY <1>3 DEF Fab!Stop, Fab!Quiet, Fab!Empty
  <2>2. DOMAIN <<>> = {} /\ Fab!Range(<<>>) = {} BY DEF Fab!Range
  <2>3. 1 \in 1 .. Len(TunnelPorts) + Len(Vnets) + 1 BY <1>0
  <2>4. Fab!FlowOf(NoFlow) = {} BY DEF Fab!FlowOf
  <2> QED BY <2>1, <2>2, <2>3, <2>4 DEF Fab!TypeOK
<1>4. CASE \/ Fab!Initialize \/ Fab!TunnelFails \/ Fab!TunnelsAdded \/ Fab!NetworksAdded
           \/ Fab!DelTunnel \/ Fab!TunnelsDeleted \/ Fab!DelNetwork \/ Fab!Stopped
  <2>1. /\ in0' = in0 /\ fdb' = fdb /\ toTun' = toTun /\ toPatch' = toPatch
        /\ toBorder' = toBorder /\ loop' = loop /\ tunnels' = tunnels /\ borders' = borders
        /\ last'.to = {} /\ (tables' = tables \/ tables' = TRUE)
    BY <1>4 DEF Fab!Initialize, Fab!TunnelFails, Fab!TunnelsAdded, Fab!NetworksAdded,
       Fab!DelTunnel, Fab!TunnelsDeleted, Fab!DelNetwork, Fab!Stopped, Fab!flowVars, Fab!Quiet
  <2>2. fabAt' \in {"new", "tunnels", "networks", "up", "ports", "links", "stopped"}
    BY <1>4 DEF Fab!Initialize, Fab!TunnelFails, Fab!TunnelsAdded, Fab!NetworksAdded,
       Fab!DelTunnel, Fab!TunnelsDeleted, Fab!DelNetwork, Fab!Stopped, Fab!TypeOK
  <2>3. \/ k' = k \/ k' = 1
        \/ (k <= Len(TunnelPorts) \/ k <= Len(Vnets)) /\ k' = k + 1
    BY <1>4 DEF Fab!Initialize, Fab!TunnelFails, Fab!TunnelsAdded, Fab!NetworksAdded,
       Fab!DelTunnel, Fab!TunnelsDeleted, Fab!DelNetwork, Fab!Stopped
  <2>4. k' \in 1 .. Len(TunnelPorts) + Len(Vnets) + 1 BY <1>0, <2>3 DEF Fab!TypeOK
  <2>5. tables' \in BOOLEAN BY <2>1 DEF Fab!TypeOK
  <2> QED BY <2>1, <2>2, <2>4, <2>5 DEF Fab!TypeOK
<1>5. ASSUME NEW p \in Fab!Ports, NEW v \in Fab!Vnis, NEW src \in Macs, NEW dst \in Macs,
             Fab!Frame(p, v, src, dst)
      PROVE  FabTypes'
  BY <1>5, FabTypeFrame
<1>6. CASE Fab!Expire
  <2>1. PICK x \in DOMAIN fdb : fdb' = [y \in DOMAIN fdb \ {x} |-> fdb[y]]
    BY <1>6 DEF Fab!Expire
  <2>2. DOMAIN fdb' \subseteq Fab!Vnis \X Macs /\ Fab!Range(fdb') \subseteq Fab!Ports
    BY <2>1 DEF Fab!TypeOK, Fab!Range
  <2>3. /\ fabAt' = fabAt /\ k' = k /\ tables' = tables /\ in0' = in0 /\ toTun' = toTun
        /\ toPatch' = toPatch /\ toBorder' = toBorder /\ loop' = loop /\ tunnels' = tunnels
        /\ borders' = borders /\ last'.to = {}
    BY <1>6 DEF Fab!Expire, Fab!flowVars, Fab!Quiet
  <2> QED BY <2>2, <2>3 DEF Fab!TypeOK
<1>7. CASE UNCHANGED Fab!fabVars BY <1>7 DEF Fab!fabVars, Fab!TypeOK
<1> QED BY <1>1, <1>2, <1>3, <1>4, <1>5, <1>6, <1>7 DEF Fab!Next

\* The invariant of the fabric's flows holds throughout.
LEMMA FabTypesAlways == Spec => [](part = "fab" => FabTypes)
<1> DEFINE I == part = "fab" => FabTypes
<1>1. Init => I
  <2> SUFFICES ASSUME Fab!Init PROVE FabTypes
    BY DEF Init, Only
  <2>1. /\ fabAt = "new" /\ k = 1 /\ tables = FALSE /\ toTun = NoFlow /\ tunnels = {} /\ borders = {}
        /\ last = Fab!Quiet /\ toBorder = [f \in {"LS", "TUN"} |-> NoFlow]
    BY DEF Fab!Init
  <2>2. /\ DOMAIN in0 = {} /\ DOMAIN fdb = {} /\ DOMAIN toPatch = {} /\ DOMAIN loop = {}
        /\ last.to = {}
    BY <2>1 DEF Fab!Init, Fab!Empty, Fab!Quiet
  <2>3. 1 \in 1 .. Len(TunnelPorts) + Len(Vnets) + 1
    <3>1. Len(TunnelPorts) \in Nat /\ Len(Vnets) \in Nat BY FabAssumption
    <3> QED BY <3>1
  <2> QED BY <2>1, <2>2, <2>3 DEF FabTypes, Fab!TypeOK, Fab!FlowOf, Fab!Range
<1>2. I /\ [Next]_vars => I'
  <2> SUFFICES ASSUME I, [Next]_vars, part' = "fab" PROVE FabTypes'
    OBVIOUS
  <2>1. part = "fab" BY DEF Next, WallNext, LanNext, FabNext, VpnNext, UserNext, TableNext, WebNext,
         DbNext, PrxNext, TunNext, OfWall, OfLan, OfFab, OfVpn, OfUser, OfTable, OfWeb, OfDb, OfPrx,
         OfTun, vars
  <2> QED BY <2>1, FabStep, FabTypeStep
<1> QED BY <1>1, <1>2, PTL DEF Spec

\* How far Open has come, and how many changes there were.
DbRest ==
    /\ open \in {"no", "connected", "handled", "monitors", "failed", "lost"}
    /\ changes \in 0 .. MaxChanges

\* That is so throughout.
LEMMA DbRestAlways == Spec => [](part = "db" => DbRest)
<1> DEFINE I == part = "db" => DbRest
<1>0. MaxChanges \in Nat BY DbAssumption
<1>1. Init => I
  <2>1. 0 \in 0 .. MaxChanges BY <1>0
  <2> QED BY <2>1 DEF Init, Only, Db!Init, DbRest
<1>2. I /\ [Next]_vars => I'
  <2> SUFFICES ASSUME I, [Next]_vars, part' = "db" PROVE DbRest'
    OBVIOUS
  <2>1. part = "db" BY DEF Next, WallNext, LanNext, FabNext, VpnNext, UserNext, TableNext, WebNext,
         DbNext, PrxNext, TunNext, OfWall, OfLan, OfFab, OfVpn, OfUser, OfTable, OfWeb, OfDb, OfPrx,
         OfTun, vars
  <2>2. DbRest /\ [Db!Next]_(Db!confdVars) BY <2>1, DbStep
  <2>3. CASE Db!Change /\ UNCHANGED open
    <3>1. changes < MaxChanges /\ changes' = changes + 1 BY <2>3 DEF Db!Change
    <3>2. changes' \in 0 .. MaxChanges BY <1>0, <2>2, <3>1 DEF DbRest
    <3> QED BY <2>2, <2>3, <3>2 DEF DbRest
  <2>4. CASE UNCHANGED changes /\ (UNCHANGED open \/ open' \in {"connected", "handled", "monitors", "failed", "lost"})
    BY <2>2, <2>4 DEF DbRest
  <2>5. ASSUME NEW l \in Links, NEW r \in Db!Remotes, Db!WriteLink(l, r) PROVE DbRest'
    BY <2>3, <2>5 DEF Db!WriteLink
  <2>6. ASSUME NEW l \in Links, Db!DeleteLink(l) PROVE DbRest' BY <2>3, <2>6 DEF Db!DeleteLink
  <2>7. ASSUME NEW h \in Hosts, NEW ip \in Ips, Db!WriteName(h, ip) PROVE DbRest'
    BY <2>3, <2>7 DEF Db!WriteName
  <2>8. ASSUME NEW h \in Hosts, NEW ip \in Ips \cup {NoIp}, Db!Resolves(h, ip) PROVE DbRest'
    BY <2>3, <2>8 DEF Db!Resolves
  <2>9. CASE Db!Connect \/ Db!AddEventHandler \/ Db!MonitorAll \/ Db!Disconnect
    BY <2>4, <2>9 DEF Db!Connect, Db!AddEventHandler, Db!MonitorAll, Db!Disconnect, Db!Goes
  <2>10. CASE Db!Handle BY <2>4, <2>10 DEF Db!Handle
  <2>11. CASE UNCHANGED Db!confdVars BY <2>4, <2>11 DEF Db!confdVars
  <2> QED BY <2>2, <2>5, <2>6, <2>7, <2>8, <2>9, <2>10, <2>11 DEF Db!Next
<1> QED BY <1>1, <1>2, PTL DEF Spec

\* The kernel has states of members that resolve only.
LEMMA DbOK == DbInv /\ DbRest => Db!TypeOK
<1> SUFFICES ASSUME DbInv, DbRest PROVE Db!TypeOK
  OBVIOUS
<1>1. /\ rows \in [Links -> Db!Remotes \cup {"none"}]
      /\ cached \in [Hosts -> Ips \cup {NoIp}] /\ dns \in [Hosts -> Ips \cup {NoIp}]
      /\ steady \subseteq Hosts
  BY DEF DbInv, DbTypes, Db!Remotes
<1>2. queue \in Seq(DbEvent) /\ members \in Seq(DbMember) BY DEF DbInv, DbTypes
<1>3. \A e \in Db!Range(queue) : e.table \in {"link", "name", "gone"}
  <2> SUFFICES ASSUME NEW i \in DOMAIN queue PROVE queue[i].table \in {"link", "name", "gone"}
    BY DEF Db!Range
  <2>1. queue[i] \in DbEvent BY <1>2
  <2> QED BY <2>1 DEF DbEvent
<1>4. \A m \in Db!Range(members) : m.remote \in Hosts /\ m.ip \in Ips \cup {NoIp}
  <2> SUFFICES ASSUME NEW i \in DOMAIN members
               PROVE  members[i].remote \in Hosts /\ members[i].ip \in Ips \cup {NoIp}
    BY DEF Db!Range
  <2>1. members[i] \in DbMember BY <1>2
  <2> QED BY <2>1 DEF DbMember
<1>5. \A s \in xfrm : s.ip \in Ips
  <2> SUFFICES ASSUME NEW s \in xfrm PROVE s.ip \in Ips
    OBVIOUS
  <2>1. PICK m \in {x \in Db!Range(members) : x.ip # NoIp} : s = [spi |-> m.spi, ip |-> m.ip]
    BY DEF DbInv, Db!StatesFollow
  <2> QED BY <1>4, <2>1
<1> QED BY <1>1, <1>3, <1>4, <1>5 DEF DbRest, Db!TypeOK

\* An entry of the table of users has its three fields.
LEMMA UserOK == UserInv => User!TypeOK
<1> SUFFICES ASSUME UserInv PROVE User!TypeOK
  OBVIOUS
<1>1. users \in [Logins -> Entry \cup {NoUser}] BY DEF UserInv, UserShape
<1>2. ASSUME NEW m \in Logins, users[m] # NoUser
      PROVE  DOMAIN users[m] = {"pass", "role", "lease"} /\ users[m].lease \in Leases
  <2>1. users[m] \in Entry BY <1>1, <1>2
  <2> QED BY <2>1 DEF Entry
<1>3. call.at \in {"idle", "open", "save", "ldap"} /\ call.left \subseteq Logins
  BY DEF UserInv, UserShape
<1> QED BY <1>1, <1>2, <1>3 DEF UserInv, UserShape, User!TypeOK

\* Every part of the switch keeps its types, for any configuration and any
\* values of the bounds (TypeOK).
THEOREM PartsTyped == Spec => []TypeOK
<1>1. /\ (part = "wall" => WallInv) => (part = "wall" => Wall!TypeOK)
      /\ (part = "user" => UserInv) => (part = "user" => User!TypeOK)
      /\ (part = "table" => TabInv) => (part = "table" => Table!TypeOK)
  BY WallTypes, UserOK, TabTypes
<1>2. /\ (part = "lan" => LanInv) => (part = "lan" => Lan!TypeOK)
      /\ (part = "tun" => TunInv) => (part = "tun" => Tun!TypeOK)
      /\ (part = "vpn" => VpnInv) => (part = "vpn" => Vpn!TypeOK)
      /\ (part = "web" => WebInv) => (part = "web" => Web!TypeOK)
      /\ (part = "prx" => PrxInv) => (part = "prx" => Prx!TypeOK)
      /\ (part = "fab" => FabTypes) => (part = "fab" => Fab!TypeOK)
  BY DEF LanInv, TunInv, VpnInv, WebInv, PrxInv, FabTypes
<1>3. (part = "db" => DbInv) /\ (part = "db" => DbRest) => (part = "db" => Db!TypeOK)
  BY DbOK
<1>4. /\ (part = "wall" => Wall!TypeOK) /\ (part = "lan" => Lan!TypeOK)
      /\ (part = "fab" => Fab!TypeOK) /\ (part = "tun" => Tun!TypeOK)
      /\ (part = "vpn" => Vpn!TypeOK) /\ (part = "user" => User!TypeOK)
      /\ (part = "table" => Table!TypeOK) /\ (part = "web" => Web!TypeOK)
      /\ (part = "db" => Db!TypeOK) /\ (part = "prx" => Prx!TypeOK)
      => TypeOK
  BY DEF TypeOK
<1> QED
  BY <1>1, <1>2, <1>3, <1>4, WallAlways, LanAlways, FabTypesAlways, TunAlways, VpnAlways,
     UserAlways, TabAlways, WebAlways, DbAlways, DbRestAlways, PrxAlways, PTL
=============================================================================
