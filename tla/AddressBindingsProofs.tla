------------------------ MODULE AddressBindingsProofs ------------------------
(***************************************************************************)
(* Proofs about AddressBindings: the locks and the pause of an address     *)
(* operation, the routes, the finality of a removal, and the write-ahead   *)
(* ledger that the transactions implement (AddressLedger).                 *)
(***************************************************************************)
EXTENDS AddressBindings, TLAPS

(***************************************************************************)
(* The inductive invariant.                                                *)
(***************************************************************************)

SessionOps == {"mode", "refresh", "cleanup", "start", "select"}

Locals ==
    [pc : PCs, op : AllOps \cup {"modeRemove", "reloadStart"},
     addr : Addrs \cup {None}, sub : Subnets \cup {None}, nic : Nics \cup {None},
     mode : Modes, prev : Addrs \cup {None}, fresh : BOOLEAN, good : BOOLEAN,
     intent : BOOLEAN, todo : SUBSET Pair, own : SUBSET Pair,
     cur : Pair \cup {<<None, None>>}, plan : [Subnets -> Plans], after : PCs,
     pass : {"none", "probe", "prepared"}, more : BOOLEAN]

Settings == [row : [Subnets -> Row \cup {None}], subnets : [Subnets -> Addrs \cup {None}],
             pending : SUBSET Pair, mode : Modes, nic : Nics]

DataType ==
    /\ saved \in Settings
    /\ os \subseteq Pair /\ mine \subseteq os
    /\ up \in BOOLEAN /\ dhcp \in BOOLEAN /\ doubt \in BOOLEAN
    /\ routes \in [Subnets -> Addrs \cup {None}]

ControlType ==
    /\ session \in BOOLEAN /\ paused \in BOOLEAN
    /\ discovery \in Users \cup {Nobody} /\ work \in Actors \cup {Nobody}
    /\ proc \in [Actors -> Locals]

\* A row is filed under the /24 of its address; one that no adapter owns comes
\* from an old file and is wanted; an address is recorded once.
RowsFiled ==
    /\ \A s \in Subnets : saved.row[s] # None =>
         /\ SubnetOf[saved.row[s].addr] = s
         /\ saved.row[s].owner = None =>
              saved.row[s].desired = "present" /\ saved.row[s].addr \in LegacyAddrs
    /\ \A x \in saved.pending : ~Owned(x)

\* The sections of an operation that holds address_work, and the ones of a user
\* and of the adopter.
WorkPcs == {"swept", "begin", "temp", "tempSeen", "rows", "row", "rowsDone", "target",
            "look", "native", "observe", "forget", "status", "mode", "primary",
            "setMode", "refresh"}
UserPcs == WorkPcs \cup {"idle", "op", "stop", "join", "sweep", "work", "start", "end"}
AdopterPcs == {"off", "wait", "admit", "prepare", "reserve", "recheck", "bind", "probe",
               "final", "ready", "fail", "commit", "publish", "pass", "identify", "handed",
               "temp", "tempSeen", "end"}

InTemp(p) == proc[p].pc \in {"temp", "tempSeen"}

\* discovery_op is held from the first section to the last one, address_work by
\* the sections that touch addresses.
UserLocks(u) ==
    /\ proc[u].pc \in UserPcs
    /\ discovery = u <=> proc[u].pc \notin {"idle", "op"}
    /\ proc[u].pc \in WorkPcs => work = u
    /\ work = u => proc[u].pc \in WorkPcs \cup {"end"}
    /\ proc[u].pc # "idle" =>
         proc[u].addr \in Addrs /\ proc[u].sub \in Subnets /\ proc[u].nic \in Nics

\* Which request is in which section: only the operations that joined the
\* adoption loop reconcile what it left, and it stays off while they work.
UserSections(u) ==
    /\ proc[u].pc = "op" => proc[u].op # "modeRemove"
    /\ proc[u].pc \in {"target", "look"} => proc[u].op # "reloadStart"
    /\ proc[u].pc \in {"mode", "primary"} => proc[u].op = "mode"
    /\ InTemp(u) => proc[u].after \in {"end", "rows", "swept"}
    /\ \/ proc[u].pc \in {"stop", "join", "sweep", "swept", "start"}
       \/ InTemp(u) /\ proc[u].after = "swept"
       => proc[u].op \in SessionOps
    /\ proc[u].op = "select" =>
         \/ proc[u].pc \in {"idle", "op", "stop", "join", "sweep", "swept", "end"}
         \/ InTemp(u) /\ proc[u].after = "swept"
    /\ /\ proc[u].op \in SessionOps \cup {"modeRemove"}
       /\ proc[u].pc \notin {"idle", "op", "stop", "join", "end"}
       => proc[Adopter].pc = "off"

\* A saved intent has its row until the operation ends.
UserIntent(u) ==
    /\ proc[u].intent =>
         /\ proc[u].op # "reloadStart"
         /\ proc[u].pc \in {"look", "row", "status", "setMode", "temp", "tempSeen",
                            "rows", "rowsDone", "start"}
         /\ InTemp(u) => proc[u].after = "rows"
         /\ proc[u].pc \in {"look", "status"} => saved.row[proc[u].sub] # None
    /\ proc[u].pc = "status" => proc[u].intent
    /\ proc[u].pc = "forget" =>
         saved.row[proc[u].sub] # None /\ saved.row[proc[u].sub].owner = None

\* What a plan says of its row still holds when it is carried out.
PlanSound(p, s) ==
    LET plan == proc[p].plan[s]
        row == saved.row[s]
    IN plan # "none" =>
         /\ proc[p].pc = "row" /\ row # None
         /\ plan \notin {"hold", "unavailable"} => row.owner \in {None, saved.nic}
         /\ plan = "add" => row.desired = "present"
         /\ plan = "absent" => <<saved.nic, row.addr>> \notin mine

UserInv(u) ==
    /\ UserLocks(u) /\ UserSections(u) /\ UserIntent(u)
    /\ \A s \in Subnets : PlanSound(u, s)

\* The adapter was changed and its old routes and loop are not retired yet.
Selecting == \E u \in Users : proc[u].op = "select" /\ proc[u].pc \notin {"idle", "op", "end"}

AdopterLocks ==
    /\ A.pc \in AdopterPcs
    /\ work = Adopter <=> A.pc \notin {"off", "wait", "admit"}
    /\ InTemp(Adopter) => A.after \in {"end", "pass", "handed", "final", "fail"}
    /\ A.pc # "off" => A.nic \in Nics /\ (A.nic = saved.nic \/ Selecting)

\* An adoption works on one /24 without a route.
Adopting ==
    \/ A.pc \in {"prepare", "reserve", "recheck", "bind", "probe", "final", "ready",
                 "commit", "publish", "identify"}
    \/ InTemp(Adopter) /\ A.after = "final"

AdopterWork ==
    /\ Adopting => /\ A.sub \in Subnets /\ routes[A.sub] = None
                   /\ A.pass # "probe" => A.addr \in Addrs /\ SubnetOf[A.addr] = A.sub
    /\ Adopting /\ A.pc \notin {"prepare", "publish", "identify"} => saved.row[A.sub] = None
    /\ Adopting /\ A.pass = "probe" => A.pc \notin {"probe", "final", "commit", "publish"}
                                       /\ ~InTemp(Adopter)
    /\ A.pc \in {"prepare", "reserve", "recheck", "bind", "probe", "ready", "identify"} =>
         A.cur \in Pair
    /\ A.pc \in {"recheck", "bind"} => A.cur \in saved.pending
    /\ A.pc = "recheck" => A.cur \notin mine
    /\ A.pc = "publish" =>
         saved.row[A.sub] = [desired |-> "present", applied |-> TRUE, err |-> FALSE,
                             addr |-> A.addr, owner |-> A.nic]

PauseHeld == paused => \E u \in Users : discovery = u /\ proc[u].op # "select"

RouteLive(s) ==
    LET row == saved.row[s]
    IN routes[s] # None =>
         /\ row # None /\ row.desired = "present" /\ row.applied /\ ~row.err
         /\ row.addr = routes[s] /\ row.owner = saved.nic

RoutesLive == ~Selecting => \A s \in Subnets : RouteLive(s)

ControlInv ==
    /\ ControlType
    /\ \A u \in Users : UserInv(u)
    /\ AdopterLocks /\ AdopterWork /\ PauseHeld

AddressInv == DataType /\ RowsFiled /\ ControlInv /\ RoutesLive

-----------------------------------------------------------------------------
(***************************************************************************)
(* The operators of the model.                                             *)
(***************************************************************************)

LEMMA ActorsApart ==
    /\ Adopter \in Actors /\ Users \subseteq Actors
    /\ \A u \in Users : u # Adopter /\ u # Nobody
    /\ Adopter # Nobody
  BY ConstantsAssumption DEF Actors

LEMMA IdleLocals ==
    /\ Idle \in Locals
    /\ Idle.pc = "idle" /\ Idle.op = "add" /\ ~Idle.intent /\ Idle.todo = {}
    /\ \A s \in Subnets : Idle.plan[s] = "none"
  BY DEF Idle, Locals, PCs, AllOps, AddressOps, Modes, Plans

LEMMA RowTyped ==
    ASSUME NEW sv \in Settings, NEW s \in Subnets, sv.row[s] # None
    PROVE  sv.row[s] \in Row
  BY DEF Settings

LEMMA SetBindingFacts ==
    ASSUME NEW sv \in Settings, NEW s \in Subnets, NEW row \in Row
    PROVE  /\ SetBinding(sv, s, row) \in Settings
           /\ SetBinding(sv, s, row).row = [sv.row EXCEPT ![s] = row]
           /\ SetBinding(sv, s, row).pending =
                IF row.desired = "present" /\ row.applied /\ ~row.err
                THEN sv.pending \ {<<row.owner, row.addr>>} ELSE sv.pending
           /\ SetBinding(sv, s, row).nic = sv.nic
  BY DEF SetBinding, Settings, Row

LEMMA RemovalFacts ==
    ASSUME NEW sv \in Settings, NEW s \in Subnets, NEW row \in Row, row.desired = "removed"
    PROVE  /\ SetBinding(sv, s, row) \in Settings
           /\ SetBinding(sv, s, row).row = [sv.row EXCEPT ![s] = row]
           /\ SetBinding(sv, s, row).pending = sv.pending
           /\ SetBinding(sv, s, row).nic = sv.nic
  BY DEF SetBinding, Settings, Row

LEMMA LiveFacts ==
    ASSUME NEW sv \in Settings, NEW s \in Subnets, NEW row \in Row,
           row.desired = "present", row.applied, ~row.err
    PROVE  /\ SetBinding(sv, s, row) \in Settings
           /\ SetBinding(sv, s, row).row = [sv.row EXCEPT ![s] = row]
           /\ SetBinding(sv, s, row).pending = sv.pending \ {<<row.owner, row.addr>>}
           /\ SetBinding(sv, s, row).nic = sv.nic
  BY DEF SetBinding, Settings, Row

LEMMA ForgetFacts ==
    ASSUME NEW sv \in Settings
    PROVE  /\ \A s \in Subnets : /\ ForgetRow(sv, s) \in Settings
                                 /\ ForgetRow(sv, s).row = [sv.row EXCEPT ![s] = None]
                                 /\ ForgetRow(sv, s).pending = sv.pending
                                 /\ ForgetRow(sv, s).nic = sv.nic
           /\ \A x : /\ ForgetTemporary(sv, x) \in Settings
                     /\ ForgetTemporary(sv, x).row = sv.row
                     /\ ForgetTemporary(sv, x).pending = sv.pending \ {x}
                     /\ ForgetTemporary(sv, x).nic = sv.nic
  BY DEF ForgetRow, ForgetTemporary, Settings

LEMMA ClaimedFacts ==
    ASSUME NEW sv \in Settings, NEW a \in Addrs
    PROVE  /\ Claimed(sv, a) \in Settings
           /\ Claimed(sv, a).row = [s \in Subnets |->
                IF s \in ClaimedRows(sv, a) THEN None ELSE sv.row[s]]
           /\ Claimed(sv, a).pending = sv.pending \ {<<sv.nic, a>>}
           /\ Claimed(sv, a).nic = sv.nic
  BY DEF Claimed, Without, Settings

\* A status keeps the intent and the address of its row.  It changes the owner
\* only to the adapter on which a wanted address was observed, and confirms a
\* removal only on an observed absence.
LEMMA ApplyFacts ==
    ASSUME NEW row \in Row, NEW plan, NEW seen \in BOOLEAN, saved.nic \in Nics
    PROVE  /\ ApplyBinding(row, plan, seen) \in Row
           /\ ApplyBinding(row, plan, seen).desired = row.desired
           /\ ApplyBinding(row, plan, seen).addr = row.addr
           /\ \/ ApplyBinding(row, plan, seen).owner = row.owner
              \/ /\ row.desired = "present" /\ plan \notin {"hold", "unavailable"}
                 /\ ApplyBinding(row, plan, seen).owner = saved.nic
                 /\ ApplyBinding(row, plan, seen).applied
                 /\ ~ApplyBinding(row, plan, seen).err
           /\ LET new == ApplyBinding(row, plan, seen)
              IN /\ new.applied /\ ~new.err /\ new.desired = "present" => new.owner = saved.nic
                 /\ RemovalComplete(new) =>
                      \/ RemovalComplete(row)
                      \/ plan = "absent"
                      \/ /\ plan \notin {"hold", "unavailable", "present"}
                         /\ ~OnNic(row.addr)
<1> DEFINE new == ApplyBinding(row, plan, seen)
           last == IF seen THEN OnNic(row.addr) ELSE row.desired = "removed"
           applied == CASE plan = "unavailable" -> row.applied
                        [] plan = "present" -> TRUE
                        [] plan \in {"hold", "absent"} -> FALSE
                        [] OTHER -> last
           err == \/ plan \in {"unavailable", "hold", "failed"}
                  \/ plan = "issued" /\ (~seen \/ last # (row.desired = "present"))
           owner == IF applied /\ ~err /\ row.desired = "present" THEN saved.nic ELSE row.owner
<1>1. last \in BOOLEAN /\ err \in BOOLEAN
  <2>1. last \in BOOLEAN
    <3>1. CASE seen
      <4>1. last = (<<saved.nic, row.addr>> \in os)
        BY <3>1 DEF OnNic
      <4>2. (<<saved.nic, row.addr>> \in os) \in BOOLEAN
        OBVIOUS
      <4> QED BY <4>1, <4>2
    <3>2. CASE ~seen
      BY <3>2, Zenon
    <3> QED BY <3>1, <3>2
  <2>2. err \in BOOLEAN
    BY Zenon
  <2> QED BY <2>1, <2>2
<1>2. applied \in BOOLEAN
  <2>1. row.applied \in BOOLEAN
    BY DEF Row
  <2> HIDE DEF last
  <2>2. CASE plan = "unavailable"
    BY <2>1, <2>2
  <2>3. CASE plan # "unavailable"
    BY <1>1, <2>3
  <2> QED BY <2>2, <2>3
<1>3. owner \in Nics \cup {None}
  BY DEF Row
<1>4. CASE plan = "unavailable" /\ RemovalComplete(row)
  <2>1. new = row
    BY <1>4 DEF ApplyBinding
  <2> QED BY <1>4, <2>1 DEF RemovalComplete
<1>5. CASE ~(plan = "unavailable" /\ RemovalComplete(row))
  <2>1. new = [row EXCEPT !.applied = applied, !.err = err, !.owner = owner]
    BY <1>5 DEF ApplyBinding
  <2> HIDE DEF new, applied, err, owner
  <2>2. /\ new \in Row /\ new.desired = row.desired /\ new.addr = row.addr
        /\ new.applied = applied /\ new.err = err /\ new.owner = owner
    BY <1>1, <1>2, <1>3, <2>1 DEF Row
  <2>3. \/ new.owner = row.owner
        \/ /\ row.desired = "present" /\ plan \notin {"hold", "unavailable"}
           /\ new.owner = saved.nic /\ new.applied /\ ~new.err
    BY <2>2 DEF owner, err
  <2>4. new.applied /\ ~new.err /\ new.desired = "present" => new.owner = saved.nic
    BY <2>2 DEF owner
  <2>5. RemovalComplete(new) => plan = "absent" \/ (plan \notin {"hold", "unavailable", "present"}
                                                     /\ ~OnNic(row.addr))
    BY <2>2 DEF RemovalComplete, applied, err
  <2> QED BY <2>2, <2>3, <2>4, <2>5 DEF new
<1> QED BY <1>4, <1>5

-----------------------------------------------------------------------------
(***************************************************************************)
(* Who may be where.                                                       *)
(***************************************************************************)

\* The locals of p except its section.
SameLocals(p) ==
    /\ proc'[p].op = proc[p].op /\ proc'[p].addr = proc[p].addr
    /\ proc'[p].sub = proc[p].sub /\ proc'[p].nic = proc[p].nic
    /\ proc'[p].mode = proc[p].mode /\ proc'[p].prev = proc[p].prev
    /\ proc'[p].fresh = proc[p].fresh /\ proc'[p].good = proc[p].good
    /\ proc'[p].intent = proc[p].intent /\ proc'[p].todo = proc[p].todo
    /\ proc'[p].own = proc[p].own /\ proc'[p].cur = proc[p].cur
    /\ proc'[p].plan = proc[p].plan /\ proc'[p].after = proc[p].after
    /\ proc'[p].pass = proc[p].pass /\ proc'[p].more = proc[p].more

Others(p) == \A q \in Actors : q # p => proc'[q] = proc[q]

LEMMA GotoFacts ==
    ASSUME ControlType, NEW p \in Actors, NEW pc \in PCs, Goto(p, pc)
    PROVE  /\ proc' \in [Actors -> Locals] /\ Others(p)
           /\ proc'[p].pc = pc /\ SameLocals(p)
<1> DEFINE l == [proc[p] EXCEPT !.pc = pc]
<1>1. proc[p] \in Locals /\ proc' = [proc EXCEPT ![p] = l]
  BY DEF ControlType, Goto
<1>2. l \in Locals /\ l.pc = pc
  BY <1>1 DEF Locals
<1>3. proc' \in [Actors -> Locals] /\ Others(p) /\ proc'[p] = l
  BY <1>1, <1>2 DEF ControlType, Others
<1>4. SameLocals(p)
  BY <1>1, <1>3 DEF SameLocals, Locals
<1> QED BY <1>2, <1>3, <1>4

\* An operation replaces its locals.
LEMMA MovedFacts ==
    ASSUME ControlType, NEW p \in Actors, NEW l \in Locals,
           proc' = [proc EXCEPT ![p] = l]
    PROVE  proc' \in [Actors -> Locals] /\ Others(p) /\ proc'[p] = l
  BY DEF ControlType, Others

\* Without discovery_op a user has neither locks nor plans.
LEMMA OutsideFacts ==
    ASSUME AddressInv, NEW u \in Users, discovery # u
    PROVE  /\ proc[u].pc \in {"idle", "op"} /\ work # u
           /\ ~proc[u].intent /\ \A s \in Subnets : proc[u].plan[s] = "none"
  BY DEF AddressInv, ControlInv, UserInv, UserLocks, UserIntent, PlanSound, WorkPcs

\* A user who holds discovery_op leaves the others alone.
LEMMA Bystanders ==
    ASSUME AddressInv, NEW u \in Users, discovery \in {u, Nobody},
           discovery' \in {u, Nobody}, work' \in {work, u, Adopter, Nobody},
           NEW v \in Users, v # u, proc'[v] = proc[v]
    PROVE  UserInv(v)'
<1>1. /\ proc[v].pc \in {"idle", "op"} /\ work # v
      /\ ~proc[v].intent /\ \A s \in Subnets : proc[v].plan[s] = "none"
  BY OutsideFacts, ActorsApart
<1>2. discovery' # v /\ work' # v
  BY <1>1, ActorsApart
<1>3. UserLocks(v)'
  BY <1>1, <1>2 DEF UserLocks, AddressInv, ControlInv, UserInv, UserPcs, WorkPcs
<1>4. UserSections(v)'
  BY <1>1 DEF UserSections, InTemp, AddressInv, ControlInv, UserInv
<1>5. UserIntent(v)'
  BY <1>1 DEF UserIntent
<1>6. \A s \in Subnets : PlanSound(v, s)'
  BY <1>1 DEF PlanSound
<1> QED BY <1>3, <1>4, <1>5, <1>6 DEF UserInv

\* The adapter is being changed by the holder of discovery_op only.
LEMMA SelectingFacts ==
    ASSUME AddressInv
    PROVE  /\ discovery = Nobody => ~Selecting
           /\ \A u \in Users : discovery = u =>
                (Selecting <=> proc[u].op = "select" /\ proc[u].pc # "end")
  BY OutsideFacts, ActorsApart DEF Selecting, AddressInv, ControlInv, UserInv, UserLocks

\* While a user works on addresses the adoption loop has none in hand.
LEMMA AdopterAway ==
    ASSUME AddressInv, work # Adopter, proc'[Adopter].pc = A.pc, proc'[Adopter].nic = A.nic,
           work' # Adopter, A.pc # "off" => saved'.nic = saved.nic /\ (Selecting => Selecting')
    PROVE  AdopterLocks' /\ AdopterWork'
<1>1. A.pc \in {"off", "wait", "admit"}
  BY DEF AddressInv, ControlInv, AdopterLocks
<1>2. AdopterLocks'
  BY <1>1 DEF AdopterLocks, AddressInv, ControlInv, InTemp, A
<1>3. AdopterWork'
  BY <1>1 DEF AdopterWork, Adopting, InTemp, A
<1> QED BY <1>2, <1>3

\* The adoption loop is where it was; at most its fence fell.
AdopterSame == A' \in {A, [A EXCEPT !.fresh = FALSE]}

LEMMA PauseFacts ==
    ASSUME ControlType, NEW u \in Users, NEW pc \in PCs, Pause(u, pc)
    PROVE  /\ proc' \in [Actors -> Locals] /\ proc'[u].pc = pc /\ SameLocals(u)
           /\ \A v \in Users : v # u => proc'[v] = proc[v]
           /\ AdopterSame /\ A'.pc = A.pc /\ paused' = TRUE
<1> DEFINE l == [proc[u] EXCEPT !.pc = pc]
           a == [A EXCEPT !.fresh = FALSE]
<1>1. proc[u] \in Locals /\ A \in Locals
  BY ActorsApart DEF ControlType, A
<1>2. /\ proc' = [proc EXCEPT ![u] = l, ![Adopter] = a]
  BY <1>1, ActorsApart DEF Pause, ControlType, A
<1>3. l \in Locals /\ l.pc = pc /\ a \in Locals /\ a.pc = A.pc
  <2>1. l \in Locals /\ l.pc = pc
    BY <1>1 DEF Locals
  <2>2. a \in Locals /\ a.pc = A.pc
    <3>1. PICK f \in BOOLEAN : f = FALSE
      OBVIOUS
    <3>2. a = [A EXCEPT !.fresh = f]
      BY <3>1
    <3> QED BY <1>1, <3>2 DEF Locals
  <2> QED BY <2>1, <2>2
<1>4. /\ proc' \in [Actors -> Locals] /\ proc'[u] = l /\ A' = a
      /\ \A v \in Users : v # u => proc'[v] = proc[v]
  BY <1>2, <1>3, ActorsApart DEF ControlType, A
<1>5. SameLocals(u)
  BY <1>1, <1>4 DEF SameLocals, Locals
<1> QED BY <1>3, <1>4, <1>5 DEF Pause, AdopterSame

\* An adoption in progress does not notice a step that leaves its data alone.
LEMMA AdopterStays ==
    ASSUME AddressInv, routes' = routes, mine' \subseteq mine,
           saved'.row = saved.row, saved'.pending = saved.pending, AdopterSame,
           work' = Adopter <=> work = Adopter,
           A.pc # "off" => Selecting' \/ (saved'.nic = saved.nic /\ ~Selecting)
    PROVE  AdopterLocks' /\ AdopterWork'
<1>1. /\ A'.pc = A.pc /\ A'.nic = A.nic /\ A'.sub = A.sub /\ A'.addr = A.addr
      /\ A'.cur = A.cur /\ A'.after = A.after /\ A'.pass = A.pass
  BY ActorsApart DEF AdopterSame, AddressInv, ControlInv, ControlType, Locals, A
<1>2. AdopterLocks'
  BY <1>1 DEF AdopterLocks, AddressInv, ControlInv, InTemp, A
<1>3. AdopterWork'
  BY <1>1 DEF AdopterWork, AddressInv, ControlInv, Adopting, InTemp, A
<1> QED BY <1>2, <1>3

\* A step inside address_work.
LEMMA WorkControl ==
    ASSUME AddressInv, NEW u \in Users, proc[u].pc \in WorkPcs,
           proc' \in [Actors -> Locals], Others(u), UNCHANGED locks,
           saved'.nic = saved.nic, UserInv(u)',
           proc'[u].op = "select" => proc[u].op = "select"
    PROVE  ControlInv'
<1>1. discovery = u /\ work = u
  BY DEF AddressInv, ControlInv, UserInv, UserLocks, WorkPcs
<1>2. ControlType'
  BY DEF ControlType, AddressInv, ControlInv, locks
<1>3. \A v \in Users : UserInv(v)'
  BY <1>1, Bystanders, ActorsApart DEF Others, locks
<1>4. A.pc # "off" => ~Selecting
  BY <1>1, SelectingFacts DEF AddressInv, ControlInv, UserInv, UserSections, SessionOps, WorkPcs, A
<1>5. AdopterLocks' /\ AdopterWork'
  BY <1>1, <1>4, AdopterAway, ActorsApart DEF Others, locks, A
<1>6. PauseHeld'
  BY <1>1 DEF PauseHeld, AddressInv, ControlInv, locks
<1> QED BY <1>2, <1>3, <1>5, <1>6 DEF ControlInv

\* The end of an operation.
LEMMA ReturnControl ==
    ASSUME AddressInv, NEW u \in Users, discovery = u, ~Selecting, Return(u),
           saved'.nic = saved.nic,
           work = Adopter => UNCHANGED <<saved, mine, routes>>
    PROVE  ControlInv' /\ ~Selecting'
<1>1. /\ proc' \in [Actors -> Locals] /\ Others(u) /\ proc'[u] = Idle
      /\ discovery' = Nobody /\ paused' = FALSE /\ session' = session
      /\ work' = IF work = u THEN Nobody ELSE work
  BY MovedFacts, IdleLocals, ActorsApart DEF Return, AddressInv, ControlInv
<1>2. ControlType'
  BY <1>1 DEF ControlType, AddressInv, ControlInv
<1>3. UserInv(u)'
  BY <1>1, IdleLocals, ActorsApart
     DEF UserInv, UserLocks, UserSections, UserIntent, PlanSound, InTemp, UserPcs, WorkPcs
<1>4. \A v \in Users : UserInv(v)'
  BY <1>1, <1>3, Bystanders, ActorsApart DEF Others
<1>5. AdopterLocks' /\ AdopterWork'
  <2>1. CASE work = Adopter
    BY <1>1, <2>1, AdopterStays, ActorsApart DEF Others, AdopterSame, A
  <2>2. CASE work # Adopter
    BY <1>1, <2>2, AdopterAway, ActorsApart DEF Others, A
  <2> QED BY <2>1, <2>2
<1>6. PauseHeld'
  BY <1>1 DEF PauseHeld
<1>7. ~Selecting'
  <2>1. \A v \in Users : v # u => proc'[v].pc \in {"idle", "op"}
    BY <1>1, OutsideFacts, ActorsApart DEF Others
  <2> QED BY <1>1, <2>1, IdleLocals DEF Selecting
<1> QED BY <1>2, <1>4, <1>5, <1>6, <1>7 DEF ControlInv

\* A removal nested in a mode change, or an operation, is over.
LEMMA DoneControl ==
    ASSUME AddressInv, NEW u \in Users, proc[u].pc \in WorkPcs, proc[u].op # "select",
           \A s \in Subnets : proc[u].plan[s] = "none",
           NEW good, Done(u, good), saved'.nic = saved.nic
    PROVE  ControlInv' /\ ~Selecting'
<1>1. discovery = u /\ work = u /\ ~Selecting
  BY SelectingFacts DEF AddressInv, ControlInv, UserInv, UserLocks, WorkPcs
<1>2. CASE proc[u].op # "modeRemove"
  BY <1>1, <1>2, ReturnControl, ActorsApart DEF Done
<1>3. CASE proc[u].op = "modeRemove"
  <2> DEFINE pc == IF good THEN "setMode" ELSE "temp"
             l == [proc[u] EXCEPT !.op = "mode", !.pc = pc, !.todo = saved.pending, !.after = "rows"]
  <2>1. proc' = [proc EXCEPT ![u] = l] /\ UNCHANGED locks
    BY <1>3 DEF Done
  <2>2. proc[u] \in Locals /\ saved.pending \in SUBSET Pair
    BY ActorsApart DEF AddressInv, DataType, ControlInv, ControlType, Settings
  <2>a. pc \in {"setMode", "temp"} /\ pc \in PCs /\ "rows" \in PCs /\ "mode" \in AllOps
    BY DEF PCs, AllOps
  <2> HIDE DEF pc
  <2>3. /\ l \in Locals /\ l.pc \in {"setMode", "temp"} /\ l.op = "mode" /\ l.after = "rows"
        /\ l.intent = proc[u].intent /\ l.addr = proc[u].addr /\ l.sub = proc[u].sub
        /\ l.nic = proc[u].nic /\ l.plan = proc[u].plan
    BY <2>2, <2>a, ZenonT(60) DEF Locals
  <2> HIDE DEF l
  <2>4. proc' \in [Actors -> Locals] /\ Others(u) /\ proc'[u] = l
    BY <2>1, <2>3, MovedFacts, ActorsApart DEF AddressInv, ControlInv
  <2>5. A.pc = "off" /\ proc'[Adopter] = proc[Adopter]
    BY <1>3, <2>4, ActorsApart DEF AddressInv, ControlInv, UserInv, UserSections, WorkPcs, A, Others
  <2>6. UserLocks(u)'
    BY <1>1, <2>1, <2>3, <2>4 DEF UserLocks, AddressInv, ControlInv, UserInv, UserPcs, WorkPcs, locks
  <2>7. UserSections(u)'
    BY <2>3, <2>4, <2>5 DEF UserSections, InTemp, SessionOps, A
  <2>8. UserIntent(u)' /\ \A s \in Subnets : PlanSound(u, s)'
    BY <2>3, <2>4 DEF UserIntent, PlanSound, InTemp
  <2>9. ControlInv'
    BY <2>1, <2>3, <2>4, <2>6, <2>7, <2>8, WorkControl DEF UserInv
  <2>10. ~Selecting'
    <3>1. \A v \in Users : v # u => proc'[v].pc \in {"idle", "op"}
      BY <1>1, <2>4, OutsideFacts, ActorsApart DEF Others
    <3> QED BY <2>3, <2>4, <3>1 DEF Selecting
  <2> QED BY <2>9, <2>10
<1> QED BY <1>2, <1>3

-----------------------------------------------------------------------------
(***************************************************************************)
(* Steps of the ledger.                                                    *)
(***************************************************************************)

LedgerStep == [Ledger!Next]_(Ledger!vars)

\* A removal stays, was confirmed, or gives way to the user's claim.
RemovalKept(s) ==
    saved.row[s] # None /\ saved.row[s].desired = "removed" =>
        \/ saved'.row[s] # None /\ saved'.row[s].desired = "removed"
        \/ RemovalComplete(saved.row[s]) /\ <<saved.nic, saved.row[s].addr>> \notin os
        \/ \E u \in Users : proc[u].pc \in {"observe", "primary"} /\ work = u
             /\ proc[u].addr = saved.row[s].addr

\* What every step has to do.
StepKeeps == AddressInv' /\ LedgerStep /\ \A s \in Subnets : RemovalKept(s)

\* The pair that a row answers for.
RowPair(s) == <<saved.row[s].owner, saved.row[s].addr>>
Answers(s) == saved.row[s] # None /\ ~RemovalComplete(saved.row[s]) /\ saved.row[s].owner # None

LEMMA RecordedFacts ==
    Recorded = saved.pending \cup {RowPair(s) : s \in {r \in Subnets : Answers(r)}}
  BY DEF Recorded, RowPair, Answers

LEMMA RecordedNext ==
    Recorded' = saved'.pending \cup {RowPair(s)' : s \in {r \in Subnets : Answers(r)'}}
  BY DEF Recorded, RowPair, Answers

LEMMA LedgerSame ==
    ASSUME Recorded' = Recorded, mine' = mine
    PROVE  LedgerStep
<1>1. Ours' = Ours
  BY DEF Ours
<1> QED BY <1>1 DEF LedgerStep, Ledger!vars

LEMMA LedgerRecord ==
    ASSUME NEW X \in SUBSET Pair, Recorded' = Recorded \cup X, mine' = mine
    PROVE  LedgerStep
<1> DEFINE S == {x \in X : x[2] \notin LegacyAddrs}
<1>1. Ours' = Ours /\ S \in SUBSET {x \in Pair : x[2] \notin LegacyAddrs}
  BY DEF Ours
<1>2. {x \in Recorded' : x[2] \notin LegacyAddrs} = {x \in Recorded : x[2] \notin LegacyAddrs} \cup S
  OBVIOUS
<1>3. Ledger!Record(S)
  BY <1>1, <1>2 DEF Ledger!Record
<1> QED BY <1>1, <1>3 DEF LedgerStep, Ledger!Next

LEMMA LedgerForget ==
    ASSUME NEW X \in SUBSET Pair, X \cap mine = {}, Recorded' = Recorded \ X, mine' = mine
    PROVE  LedgerStep
<1> DEFINE S == {x \in X : x[2] \notin LegacyAddrs}
<1>1. Ours' = Ours /\ S \in SUBSET {x \in Pair : x[2] \notin LegacyAddrs} /\ S \cap Ours = {}
  BY DEF Ours
<1>2. {x \in Recorded' : x[2] \notin LegacyAddrs} = {x \in Recorded : x[2] \notin LegacyAddrs} \ S
  OBVIOUS
<1>3. Ledger!Forget(S)
  BY <1>1, <1>2 DEF Ledger!Forget
<1> QED BY <1>1, <1>3 DEF LedgerStep, Ledger!Next

LEMMA LedgerWithdraw ==
    ASSUME mine \subseteq Pair, Recorded' = Recorded, mine' \subseteq mine
    PROVE  LedgerStep
<1> DEFINE S == {x \in mine \ mine' : x[2] \notin LegacyAddrs}
<1>1. S \in SUBSET {x \in Pair : x[2] \notin LegacyAddrs} /\ Ours' = Ours \ S
  BY DEF Ours
<1>2. Ledger!Withdraw(S)
  BY <1>1 DEF Ledger!Withdraw
<1> QED BY <1>1, <1>2 DEF LedgerStep, Ledger!Next

LEMMA LedgerAssign ==
    ASSUME NEW x \in Pair, x \in Recorded \/ x[2] \in LegacyAddrs,
           Recorded' = Recorded, mine' = mine \cup {x}
    PROVE  LedgerStep
<1>1. CASE x[2] \in LegacyAddrs
  <2>1. Ours' = Ours
    BY <1>1 DEF Ours
  <2> QED BY <2>1 DEF LedgerStep, Ledger!vars
<1>2. CASE x[2] \notin LegacyAddrs
  <2>1. Ours' = Ours \cup {x} /\ x \in {y \in Pair : y[2] \notin LegacyAddrs}
    BY <1>2 DEF Ours
  <2>2. Ledger!Assign(x)
    BY <1>2, <2>1 DEF Ledger!Assign
  <2> QED BY <2>1, <2>2 DEF LedgerStep, Ledger!Next
<1> QED BY <1>1, <1>2

LEMMA LedgerClaim ==
    ASSUME NEW x \in Pair, Recorded' = Recorded \ {x}, mine' = mine \ {x}
    PROVE  LedgerStep
<1> DEFINE S == {y \in {x} : y[2] \notin LegacyAddrs}
<1>1. S \in SUBSET {y \in Pair : y[2] \notin LegacyAddrs} /\ Ours' = Ours \ S
  BY DEF Ours
<1>2. {y \in Recorded' : y[2] \notin LegacyAddrs} = {y \in Recorded : y[2] \notin LegacyAddrs} \ S
  OBVIOUS
<1>3. Ledger!Claim(S)
  BY <1>1, <1>2 DEF Ledger!Claim
<1> QED BY <1>1, <1>3 DEF LedgerStep, Ledger!Next

\* A step that leaves the file and Windows alone owes nothing to the ledger.
LEMMA FileSame ==
    ASSUME saved'.row = saved.row, saved'.pending = saved.pending
    PROVE  Recorded' = Recorded /\ \A s \in Subnets : RemovalKept(s)
  BY DEF Recorded, RemovalKept, RemovalComplete

-----------------------------------------------------------------------------
(***************************************************************************)
(* Steps that move an operation only.                                      *)
(***************************************************************************)

LEMMA QuietStep ==
    ASSUME AddressInv, UNCHANGED <<saved, windows, routes>>, ControlInv',
           Selecting => Selecting'
    PROVE  StepKeeps
<1>1. DataType' /\ RowsFiled'
  BY DEF AddressInv, DataType, RowsFiled, Owned, RowsOf, windows
<1>2. RoutesLive'
  BY DEF AddressInv, RoutesLive, RouteLive
<1>3. LedgerStep /\ \A s \in Subnets : RemovalKept(s)
  BY FileSame, LedgerSame DEF windows
<1> QED BY <1>1, <1>2, <1>3 DEF StepKeeps, AddressInv

\* A user whose locals, locks and rows do not change.
LEMMA UserStays ==
    ASSUME AddressInv, NEW v \in Users, proc'[v] = proc[v],
           saved'.row = saved.row, saved'.nic = saved.nic, mine' \subseteq mine, discovery' = v <=> discovery = v, work' = v <=> work = v,
           proc'[Adopter].pc = A.pc \/ proc'[Adopter].pc = "off" \/ A.pc # "off"
    PROVE  UserInv(v)'
<1>1. UserLocks(v)' /\ UserIntent(v)'
  BY DEF AddressInv, ControlInv, UserInv, UserLocks, UserIntent, InTemp
<1>2. UserSections(v)'
  BY DEF AddressInv, ControlInv, UserInv, UserSections, InTemp, A
<1>3. \A s \in Subnets : PlanSound(v, s)'
  BY DEF AddressInv, ControlInv, UserInv, PlanSound
<1> QED BY <1>1, <1>2, <1>3 DEF UserInv

LEMMA RequestStep ==
    ASSUME AddressInv, NEW u \in Users, Request(u)
    PROVE  StepKeeps
<1>1. PICK op \in Ops, a \in Addrs, n \in Nics, m \in Modes :
        /\ proc[u].pc = "idle" /\ Spend("requests")
        /\ op \in {"mode", "select", "refresh"} => ~doubt
        /\ op = "select" => n # saved.nic
        /\ op # "select" => n = saved.nic
        /\ op # "mode" => m = saved.mode
        /\ proc' = [proc EXCEPT ![u] = [Idle EXCEPT !.pc = "op", !.op = op, !.addr = a,
                        !.sub = SubnetOf[a], !.nic = n, !.mode = m]]
        /\ UNCHANGED <<saved, windows, routes, locks>>
  BY Zenon DEF Request
<1> DEFINE l == [Idle EXCEPT !.pc = "op", !.op = op, !.addr = a,
                             !.sub = SubnetOf[a], !.nic = n, !.mode = m]
<1>2. "op" \in PCs /\ op \in AllOps /\ SubnetOf[a] \in Subnets
  BY ConstantsAssumption DEF PCs
<1>3. /\ l \in Locals /\ l.pc = "op" /\ l.op = op /\ l.addr = a /\ l.sub = SubnetOf[a] /\ l.nic = n
      /\ l.intent = Idle.intent /\ l.plan = Idle.plan
  BY <1>2, IdleLocals DEF Locals
<1> HIDE DEF l
<1>4. proc' \in [Actors -> Locals] /\ Others(u) /\ proc'[u] = l
  BY <1>1, <1>3, MovedFacts, ActorsApart DEF AddressInv, ControlInv, l
<1>5. UserInv(u)'
  <2>1. discovery' # u /\ work' # u
    BY <1>1 DEF AddressInv, ControlInv, UserInv, UserLocks, WorkPcs, locks
  <2> QED BY <1>2, <1>3, <1>4, <2>1, IdleLocals
          DEF UserInv, UserLocks, UserSections, UserIntent, PlanSound, InTemp, UserPcs, WorkPcs,
              AllOps, AddressOps
<1>6. \A v \in Users : UserInv(v)'
  <2> SUFFICES ASSUME NEW v \in Users, v # u PROVE UserInv(v)'
    BY <1>5
  <2> QED BY <1>1, <1>4, UserStays, ActorsApart DEF Others, locks, windows, A
<1>7. Selecting' <=> Selecting
  BY <1>1, <1>3, <1>4, ActorsApart DEF Selecting, Others
<1>8. AdopterLocks' /\ AdopterWork'
  BY <1>1, <1>4, <1>7, AdopterStays, ActorsApart DEF Others, locks, windows, AdopterSame, A
<1>9. PauseHeld'
  BY <1>1, <1>4, ActorsApart
     DEF AddressInv, ControlInv, UserInv, UserLocks, PauseHeld, Others, locks
<1>10. ControlType'
  BY <1>1, <1>4 DEF AddressInv, ControlInv, ControlType, locks
<1>11. ControlInv'
  BY <1>6, <1>8, <1>9, <1>10 DEF ControlInv
<1> QED BY <1>1, <1>7, <1>11, QuietStep

\* A step of the user who holds, takes or drops discovery_op.
LEMMA HolderControl ==
    ASSUME AddressInv, NEW u \in Users, discovery \in {u, Nobody}, discovery' \in {u, Nobody},
           work' \in {work, u, Nobody}, session' \in BOOLEAN, paused' \in BOOLEAN,
           proc' \in [Actors -> Locals], \A v \in Users : v # u => proc'[v] = proc[v],
           UserInv(u)', AdopterLocks', AdopterWork', PauseHeld'
    PROVE  ControlInv'
<1>1. \A v \in Users : UserInv(v)'
  BY Bystanders
<1>2. ControlType'
  BY ActorsApart DEF ControlType, AddressInv, ControlInv
<1> QED BY <1>1, <1>2 DEF ControlInv

LEMMA TakeOpStep ==
    ASSUME AddressInv, NEW u \in Users, TakeOp(u)
    PROVE  StepKeeps
<1>1. /\ proc[u].pc = "op" /\ discovery = Nobody /\ discovery' = u /\ ~Selecting
      /\ UNCHANGED <<windows, routes, session, work>>
  BY SelectingFacts DEF TakeOp
<1>a. u \in Actors /\ ControlType /\ {"stop", "work", "end"} \subseteq PCs /\ saved \in Settings
  BY ActorsApart DEF AddressInv, ControlInv, PCs, DataType
<1>b. ~paused
  BY <1>1, ActorsApart DEF AddressInv, ControlInv, PauseHeld
<1>c. /\ proc[u].addr \in Addrs /\ proc[u].sub \in Subnets /\ proc[u].nic \in Nics
      /\ work # u /\ ~proc[u].intent /\ \A s \in Subnets : proc[u].plan[s] = "none"
  BY <1>1, OutsideFacts, ActorsApart DEF AddressInv, ControlInv, UserInv, UserLocks
\* The section that follows depends on the request.
<1>2. \/ /\ proc[u].op = "select" /\ saved' = [saved EXCEPT !.nic = proc[u].nic]
         /\ Goto(u, "stop") /\ UNCHANGED paused
      \/ UNCHANGED <<saved, paused>> /\ Goto(u, "end")
      \/ proc[u].op \in {"mode", "refresh"} /\ UNCHANGED saved /\ Pause(u, "stop")
      \/ /\ proc[u].op \in AddressOps \cup {"reload", "reloadStart"}
         /\ UNCHANGED saved /\ Pause(u, "work")
      \/ /\ proc[u].op \in SessionOps /\ proc[u].op # "select"
         /\ UNCHANGED <<saved, paused>> /\ Goto(u, "stop")
  <2>0. proc[u].op \in SessionOps \cup AddressOps \cup {"reload", "reloadStart"}
    BY <1>1, <1>a DEF ControlType, Locals, SessionOps, AllOps, AddressInv, ControlInv,
                      UserInv, UserSections
  <2>1. CASE proc[u].op = "select"
    BY <2>1 DEF TakeOp, Persist
  <2>2. CASE proc[u].op = "mode"
    BY <2>2 DEF TakeOp, AddressOps
  <2>3. CASE proc[u].op \in AddressOps \cup {"reload", "reloadStart"}
    BY <2>3 DEF TakeOp, AddressOps
  <2>4. CASE proc[u].op = "refresh"
    BY <2>4 DEF TakeOp, AddressOps
  <2>5. CASE proc[u].op \in {"cleanup", "start"}
    BY <2>5 DEF TakeOp, AddressOps, SessionOps
  <2> QED BY <2>0, <2>1, <2>2, <2>3, <2>4, <2>5 DEF SessionOps
<1>3. \/ SameLocals(u) /\ proc'[u].pc \in {"stop", "work", "end"} /\ saved' = saved
         /\ (proc'[u].pc = "stop" => proc[u].op \in SessionOps \ {"select"})
         /\ (proc'[u].pc = "work" => proc[u].op \notin SessionOps \cup {"modeRemove"})
         /\ (paused' => proc[u].op # "select")
      \/ /\ SameLocals(u) /\ proc[u].op = "select" /\ proc'[u].pc = "stop" /\ paused' = paused
         /\ saved' = [saved EXCEPT !.nic = proc[u].nic]
  BY <1>2, <1>a, <1>b, GotoFacts, PauseFacts DEF SessionOps, AddressOps
<1>4. /\ proc' \in [Actors -> Locals] /\ AdopterSame /\ paused' \in BOOLEAN
      /\ A'.pc = A.pc /\ \A v \in Users : v # u => proc'[v] = proc[v]
  BY <1>2, <1>a, GotoFacts, PauseFacts, ActorsApart DEF ControlType, Others, AdopterSame, A
<1>5. /\ saved'.row = saved.row /\ saved'.pending = saved.pending /\ saved' \in Settings
      /\ Selecting' \/ saved' = saved
  <2>1. CASE saved' = saved
    BY <1>a, <2>1
  <2>2. CASE /\ saved' = [saved EXCEPT !.nic = proc[u].nic] /\ SameLocals(u)
             /\ proc[u].op = "select" /\ proc'[u].pc = "stop"
    BY <1>a, <1>c, <2>2 DEF Settings, Selecting, SameLocals
  <2> QED BY <1>3, <2>1, <2>2
<1>6. UserInv(u)'
  <2>1. /\ SameLocals(u) /\ proc'[u].pc \in {"stop", "work", "end"}
        /\ (proc'[u].pc = "stop" => proc[u].op \in SessionOps)
        /\ (proc'[u].pc = "work" => proc[u].op \notin SessionOps \cup {"modeRemove"})
    BY <1>3 DEF SessionOps
  <2>2. UserLocks(u)'
    BY <1>1, <1>c, <2>1 DEF UserLocks, UserPcs, WorkPcs, SameLocals
  <2>3. UserSections(u)'
    BY <2>1 DEF UserSections, InTemp, SameLocals, SessionOps
  <2>4. UserIntent(u)' /\ \A s \in Subnets : PlanSound(u, s)'
    BY <1>c, <2>1 DEF UserIntent, PlanSound, SameLocals
  <2> QED BY <2>2, <2>3, <2>4 DEF UserInv
<1>7. AdopterLocks' /\ AdopterWork'
  BY <1>1, <1>4, <1>5, AdopterStays DEF windows
<1>8. PauseHeld'
  BY <1>1, <1>3, <1>b DEF PauseHeld, SameLocals
<1>9. ControlInv'
  BY <1>1, <1>a, <1>4, <1>6, <1>7, <1>8, HolderControl DEF ControlType
<1>10. DataType' /\ RowsFiled'
  BY <1>1, <1>5 DEF AddressInv, DataType, RowsFiled, Owned, RowsOf, windows
<1>11. RoutesLive'
  BY <1>1, <1>5 DEF AddressInv, RoutesLive, RouteLive
<1>12. LedgerStep /\ \A s \in Subnets : RemovalKept(s)
  BY <1>1, <1>5, FileSame, LedgerSame DEF windows
<1> QED BY <1>9, <1>10, <1>11, <1>12 DEF StepKeeps, AddressInv

\* The holder of discovery_op goes on to another section.
LEMMA HolderMove ==
    ASSUME AddressInv, NEW u \in Users, discovery = u,
           UNCHANGED <<saved, windows, routes, paused, discovery>>, session' \in BOOLEAN,
           work' \in {work, u, Nobody}, work' = Adopter <=> work = Adopter,
           proc' \in [Actors -> Locals], Others(u), UserInv(u)',
           proc'[u].pc \notin {"idle", "op"},
           \/ proc'[u].op = proc[u].op /\ (proc'[u].pc = "end" => ~Selecting)
           \/ "select" \notin {proc[u].op, proc'[u].op}
    PROVE  StepKeeps
<1>1. /\ AdopterSame /\ proc'[Adopter] = proc[Adopter]
      /\ \A v \in Users : v # u => proc'[v] = proc[v]
  BY ActorsApart DEF Others, AdopterSame, A
<1>2. Selecting => Selecting'
  BY SelectingFacts DEF Selecting
<1>3. Selecting' \/ ~Selecting
  BY <1>2
<1>4. AdopterLocks' /\ AdopterWork'
  BY <1>1, <1>3, AdopterStays DEF windows
<1>5. PauseHeld'
  BY DEF AddressInv, ControlInv, PauseHeld
<1>6. ControlInv'
  BY <1>1, <1>4, <1>5, HolderControl DEF AddressInv, ControlInv, ControlType
<1> QED BY <1>2, <1>6, QuietStep

\* A move keeps the request, whose plans are not made or all done.
SameRequest(u) ==
    /\ proc'[u].addr = proc[u].addr /\ proc'[u].sub = proc[u].sub
    /\ proc'[u].nic = proc[u].nic /\ proc'[u].intent = proc[u].intent
    /\ proc'[u].plan = proc[u].plan

LEMMA UserMoves ==
    ASSUME AddressInv, NEW u \in Users, discovery = u, discovery' = u, SameRequest(u),
           \A s \in Subnets : proc[u].plan[s] = "none",
           proc'[u].pc \in UserPcs \ {"idle", "op"},
           proc'[u].pc \in WorkPcs => work' = u,
           work' = u => proc'[u].pc \in WorkPcs \cup {"end"},
           UserSections(u)', UserIntent(u)'
    PROVE  UserInv(u)'
<1>1. proc[u].pc # "idle"
  BY DEF AddressInv, ControlInv, UserInv, UserLocks
<1>2. UserLocks(u)'
  BY <1>1 DEF AddressInv, ControlInv, UserInv, UserLocks, SameRequest
<1>3. \A s \in Subnets : PlanSound(u, s)'
  BY DEF PlanSound, SameRequest
<1> QED BY <1>2, <1>3 DEF UserInv

LEMMA NoPlans ==
    ASSUME AddressInv, NEW u \in Users, proc[u].pc # "row"
    PROVE  \A s \in Subnets : proc[u].plan[s] = "none"
  BY DEF AddressInv, ControlInv, UserInv, PlanSound

LEMMA StopStep ==
    ASSUME AddressInv, NEW u \in Users, Stop(u)
    PROVE  StepKeeps
<1>1. /\ proc[u].pc = "stop" /\ discovery = u /\ session' = FALSE /\ work # u
      /\ UNCHANGED <<saved, windows, routes, paused, discovery, work, spent>>
  BY DEF Stop, AddressInv, ControlInv, UserInv, UserLocks, WorkPcs
<1>2. proc' \in [Actors -> Locals] /\ Others(u) /\ proc'[u].pc = "join" /\ SameLocals(u)
  BY GotoFacts, ActorsApart DEF Stop, AddressInv, ControlInv, PCs
<1>3. UserSections(u)' /\ UserIntent(u)'
  BY <1>1, <1>2 DEF AddressInv, ControlInv, UserInv, UserSections, UserIntent, InTemp, SameLocals
<1>4. UserInv(u)'
  BY <1>1, <1>2, <1>3, UserMoves, NoPlans DEF SameRequest, SameLocals, UserPcs, WorkPcs
<1> QED BY <1>1, <1>2, <1>4, HolderMove, ActorsApart DEF SameLocals

LEMMA TakeWorkStep ==
    ASSUME AddressInv, NEW u \in Users, TakeWork(u)
    PROVE  StepKeeps
<1>1. /\ proc[u].pc = "work" /\ discovery = u /\ work = Nobody /\ work' = u
      /\ session' \in BOOLEAN
      /\ UNCHANGED <<saved, windows, routes, session, paused, discovery, spent>>
  BY DEF TakeWork, AddressInv, ControlInv, ControlType, UserInv, UserLocks
<1>2. proc' \in [Actors -> Locals] /\ Others(u) /\ proc'[u].pc = "begin" /\ SameLocals(u)
  BY GotoFacts, ActorsApart DEF TakeWork, AddressInv, ControlInv, PCs
<1>3. proc'[Adopter] = proc[Adopter]
  BY <1>2, ActorsApart DEF Others
<1>4. UserSections(u)' /\ UserIntent(u)'
  BY <1>1, <1>2, <1>3 DEF AddressInv, ControlInv, UserInv, UserSections, UserIntent, InTemp,
                          SameLocals
<1>5. UserInv(u)'
  BY <1>1, <1>2, <1>4, UserMoves, NoPlans DEF SameRequest, SameLocals, UserPcs, WorkPcs
<1> QED BY <1>1, <1>2, <1>5, HolderMove, ActorsApart DEF SameLocals

\* The reconciliation of a set of temporary addresses begins.
ToTemp(p, todo, after) ==
    proc' = [proc EXCEPT ![p].pc = "temp", ![p].todo = todo, ![p].after = after]

LEMMA TempFacts ==
    ASSUME ControlType, NEW p \in Actors, NEW todo \in SUBSET Pair, NEW after \in PCs,
           ToTemp(p, todo, after)
    PROVE  /\ proc' \in [Actors -> Locals] /\ Others(p) /\ SameRequest(p)
           /\ proc'[p].pc = "temp" /\ proc'[p].after = after /\ proc'[p].op = proc[p].op
           /\ proc'[p].pass = proc[p].pass /\ proc'[p].cur = proc[p].cur
<1> DEFINE l == [proc[p] EXCEPT !.pc = "temp", !.todo = todo, !.after = after]
<1>1. proc[p] \in Locals /\ proc' = [proc EXCEPT ![p] = l] /\ "temp" \in PCs
  BY DEF ControlType, PCs, ToTemp
<1>2. /\ l \in Locals /\ l.pc = "temp" /\ l.after = after
      /\ l.op = proc[p].op /\ l.addr = proc[p].addr /\ l.sub = proc[p].sub
      /\ l.nic = proc[p].nic /\ l.intent = proc[p].intent /\ l.plan = proc[p].plan
      /\ l.pass = proc[p].pass /\ l.cur = proc[p].cur
  BY <1>1 DEF Locals
<1> HIDE DEF l
<1> QED BY <1>1, <1>2, MovedFacts DEF SameRequest

LEMMA SweepStep ==
    ASSUME AddressInv, NEW u \in Users, Sweep(u)
    PROVE  StepKeeps
<1>1. /\ proc[u].pc = "sweep" /\ discovery = u /\ work = Nobody /\ work' = u
      /\ session' \in BOOLEAN
      /\ UNCHANGED <<saved, windows, routes, session, paused, discovery, spent>>
  BY DEF Sweep, AddressInv, ControlInv, ControlType, UserInv, UserLocks
<1>2. saved.pending \in SUBSET Pair /\ "swept" \in PCs
  BY DEF AddressInv, DataType, Settings, PCs
<1>3. /\ proc' \in [Actors -> Locals] /\ Others(u) /\ SameRequest(u)
      /\ proc'[u].pc = "temp" /\ proc'[u].after = "swept" /\ proc'[u].op = proc[u].op
  <2>1. ToTemp(u, saved.pending, "swept")
    BY DEF Sweep, ToTemp
  <2> QED BY <1>2, <2>1, TempFacts, ActorsApart DEF AddressInv, ControlInv
<1>4. proc'[Adopter] = proc[Adopter]
  BY <1>3, ActorsApart DEF Others
<1>5. UserSections(u)' /\ UserIntent(u)'
  BY <1>1, <1>3, <1>4 DEF AddressInv, ControlInv, UserInv, UserSections, UserIntent, InTemp,
                          SameRequest
<1>6. UserInv(u)'
  BY <1>1, <1>3, <1>5, UserMoves, NoPlans DEF UserPcs, WorkPcs
<1> QED BY <1>1, <1>3, <1>6, HolderMove, ActorsApart

\* A user without an operation.
LEMMA IdleUser ==
    ASSUME NEW u \in Users, proc'[u] = Idle, discovery' # u, work' # u
    PROVE  UserInv(u)'
  BY IdleLocals
     DEF UserInv, UserLocks, UserSections, UserIntent, PlanSound, InTemp, UserPcs, WorkPcs

\* The adoption loop, stopped or about to begin.
LEMMA FreshAdopter ==
    ASSUME A'.pc \in {"off", "wait"}, A'.pc = "wait" => A'.nic \in Nics /\ A'.nic = saved'.nic,
           work' # Adopter
    PROVE  AdopterLocks' /\ AdopterWork'
<1>1. AdopterLocks'
  BY DEF AdopterLocks, AdopterPcs, InTemp, A
<1>2. AdopterWork'
  BY DEF AdopterWork, Adopting, InTemp, A
<1> QED BY <1>1, <1>2

\* The locals of the loop when it is off or waits.
LEMMA LoopLocals ==
    ASSUME NEW pc \in PCs, NEW n \in Nics \cup {None}
    PROVE  /\ [Idle EXCEPT !.pc = pc] \in Locals /\ [Idle EXCEPT !.pc = pc].pc = pc
           /\ [Idle EXCEPT !.pc = pc, !.nic = n] \in Locals
           /\ [Idle EXCEPT !.pc = pc, !.nic = n].pc = pc
           /\ [Idle EXCEPT !.pc = pc, !.nic = n].nic = n
  BY IdleLocals DEF Locals

LEMMA JoinStep ==
    ASSUME AddressInv, NEW u \in Users, Join(u)
    PROVE  StepKeeps
<1>1. /\ proc[u].pc = "join" /\ discovery = u /\ work # u
      /\ work' = IF work = Adopter THEN Nobody ELSE work
      /\ UNCHANGED <<saved, windows, routes, session, paused, discovery, spent>>
  BY DEF Join, AddressInv, ControlInv, UserInv, UserLocks, WorkPcs
<1> DEFINE l == [proc[u] EXCEPT !.pc = "sweep"]
           a == [Idle EXCEPT !.pc = "off"]
<1>2. proc[u] \in Locals /\ "sweep" \in PCs /\ "off" \in PCs
  BY ActorsApart DEF AddressInv, ControlInv, ControlType, PCs
<1>3. /\ l \in Locals /\ l.pc = "sweep" /\ l.op = proc[u].op /\ l.addr = proc[u].addr
      /\ l.sub = proc[u].sub /\ l.nic = proc[u].nic /\ l.intent = proc[u].intent
      /\ l.plan = proc[u].plan
  BY <1>2 DEF Locals
<1>4. a \in Locals /\ a.pc = "off"
  BY <1>2, LoopLocals
<1>5. proc' = [proc EXCEPT ![u] = l, ![Adopter] = a]
  BY ActorsApart DEF Join, AddressInv, ControlInv, ControlType
<1> HIDE DEF l, a
<1>6. /\ proc' \in [Actors -> Locals] /\ proc'[u] = l /\ proc'[Adopter] = a
      /\ \A v \in Users : v # u => proc'[v] = proc[v]
  BY <1>3, <1>4, <1>5, ActorsApart DEF AddressInv, ControlInv, ControlType
<1>7. UserSections(u)' /\ UserIntent(u)'
  BY <1>1, <1>3, <1>4, <1>6 DEF AddressInv, ControlInv, UserInv, UserSections, UserIntent, InTemp
<1>8. UserInv(u)'
  BY <1>1, <1>3, <1>6, <1>7, UserMoves, NoPlans, ActorsApart DEF SameRequest, UserPcs, WorkPcs
<1>9. AdopterLocks' /\ AdopterWork'
  BY <1>1, <1>4, <1>6, FreshAdopter, ActorsApart DEF A
<1>10. PauseHeld'
  BY <1>1, <1>3, <1>6 DEF PauseHeld, AddressInv, ControlInv
<1>11. ControlInv'
  BY <1>1, <1>6, <1>8, <1>9, <1>10, HolderControl DEF AddressInv, ControlInv, ControlType
<1>12. Selecting => Selecting'
  BY <1>1, <1>3, <1>6, SelectingFacts DEF Selecting
<1> QED BY <1>1, <1>11, <1>12, QuietStep

LEMMA StartSessionStep ==
    ASSUME AddressInv, NEW u \in Users, StartSession(u)
    PROVE  StepKeeps
<1> DEFINE on == saved.mode # "manual" /\ up
           a == IF on THEN [Idle EXCEPT !.pc = "wait", !.nic = saved.nic] ELSE A
<1>1. /\ proc[u].pc = "start" /\ discovery = u /\ discovery' = Nobody /\ paused' = FALSE
      /\ session' = on /\ proc' = [proc EXCEPT ![u] = Idle, ![Adopter] = a]
      /\ UNCHANGED <<saved, windows, routes, work, spent>>
  BY ActorsApart DEF StartSession, A, AddressInv, ControlInv, ControlType
<1>2. A.pc = "off" /\ work # Adopter /\ work # u /\ ~Selecting
  BY <1>1, SelectingFacts DEF AddressInv, ControlInv, UserInv, UserSections, UserLocks, AdopterLocks,
             SessionOps, WorkPcs, InTemp, A
<1>3. saved.nic \in Nics /\ "wait" \in PCs /\ A \in Locals
  BY ActorsApart DEF AddressInv, DataType, Settings, PCs, ControlInv, ControlType, A
<1>4. a \in Locals /\ a.pc \in {"off", "wait"} /\ (a.pc = "wait" => a.nic = saved.nic)
  <2> DEFINE w == [Idle EXCEPT !.pc = "wait", !.nic = saved.nic]
  <2>1. w \in Locals /\ w.pc = "wait" /\ w.nic = saved.nic
    BY <1>3, LoopLocals
  <2>2. a = w \/ a = A
    OBVIOUS
  <2> HIDE DEF w, a
  <2> QED BY <1>2, <1>3, <2>1, <2>2
<1> HIDE DEF a
<1>5. /\ proc' \in [Actors -> Locals] /\ proc'[u] = Idle /\ proc'[Adopter] = a
      /\ \A v \in Users : v # u => proc'[v] = proc[v]
  BY <1>1, <1>4, IdleLocals, ActorsApart DEF AddressInv, ControlInv, ControlType
<1>6. UserInv(u)'
  BY <1>1, <1>2, <1>5, IdleUser, ActorsApart
<1>7. AdopterLocks' /\ AdopterWork'
  BY <1>1, <1>2, <1>3, <1>4, <1>5, FreshAdopter, ActorsApart DEF A
<1>8. PauseHeld'
  BY <1>1 DEF PauseHeld
<1>9. session' \in BOOLEAN
  <2>1. on \in BOOLEAN
    OBVIOUS
  <2> QED BY <1>1, <2>1
<1>10. ControlInv'
  BY <1>1, <1>5, <1>6, <1>7, <1>8, <1>9, HolderControl, ActorsApart
<1> QED BY <1>1, <1>2, <1>10, QuietStep

LEMMA EndStep ==
    ASSUME AddressInv, NEW u \in Users, End(u)
    PROVE  StepKeeps
<1>1. /\ proc[u].pc = "end" /\ discovery = u /\ Return(u) /\ UNCHANGED <<saved, windows, routes>>
  BY DEF End, AddressInv, ControlInv, UserInv, UserLocks
<1>2. ~Selecting
  BY <1>1, SelectingFacts
<1>3. ControlInv'
  BY <1>1, <1>2, ReturnControl DEF windows
<1> QED BY <1>1, <1>2, <1>3, QuietStep

LEMMA TimeoutStep ==
    ASSUME AddressInv, NEW u \in Users, Timeout(u)
    PROVE  StepKeeps
<1>1. /\ proc[u].op # "select" /\ proc[u].pc \in {"op", "work"} /\ Return(u)
      /\ UNCHANGED <<saved, windows, routes>>
  BY DEF Timeout, AddressOps
<1>2. CASE proc[u].pc = "work"
  <2>1. discovery = u
    BY <1>2 DEF AddressInv, ControlInv, UserInv, UserLocks
  <2>2. ~Selecting
    BY <1>1, <2>1, SelectingFacts
  <2>3. ControlInv'
    BY <1>1, <2>1, <2>2, ReturnControl DEF windows
  <2> QED BY <1>1, <2>2, <2>3, QuietStep
<1>3. CASE proc[u].pc = "op"
  <2>1. discovery # u /\ work # u
    BY <1>3 DEF AddressInv, ControlInv, UserInv, UserLocks, WorkPcs
  <2>2. /\ proc' \in [Actors -> Locals] /\ Others(u) /\ proc'[u] = Idle /\ UNCHANGED locks
    BY <1>1, <2>1, MovedFacts, IdleLocals, ActorsApart DEF Return, AddressInv, ControlInv, locks
  <2>3. UserInv(u)'
    BY <2>1, <2>2, IdleUser DEF locks
  <2>4. \A v \in Users : UserInv(v)'
    BY <1>1, <2>2, <2>3, UserStays, ActorsApart DEF Others, locks, windows, A
  <2>5. Selecting' <=> Selecting
    BY <1>1, <1>3, <2>2, IdleLocals, ActorsApart DEF Selecting, Others
  <2>6. AdopterLocks' /\ AdopterWork'
    BY <1>1, <2>2, <2>5, AdopterStays, ActorsApart DEF Others, locks, windows, AdopterSame, A
  <2>7. PauseHeld'
    BY <2>1, <2>2, ActorsApart DEF AddressInv, ControlInv, PauseHeld, Others, locks
  <2>8. ControlInv'
    BY <2>2, <2>4, <2>6, <2>7 DEF AddressInv, ControlInv, ControlType, locks
  <2> QED BY <1>1, <2>5, <2>8, QuietStep
<1> QED BY <1>1, <1>2, <1>3

LEMMA SweptStep ==
    ASSUME AddressInv, NEW u \in Users, Swept(u)
    PROVE  StepKeeps
<1>1. /\ proc[u].pc = "swept" /\ discovery = u /\ work = u /\ work' = Nobody
      /\ session' \in BOOLEAN
      /\ UNCHANGED <<saved, windows, session, spent>>
  BY DEF Swept, AddressInv, ControlInv, ControlType, UserInv, UserLocks, WorkPcs
<1>2. /\ A.pc = "off" /\ work # Adopter /\ ~proc[u].intent /\ proc[u].op \in SessionOps
      /\ \A s \in Subnets : proc[u].plan[s] = "none"
  BY <1>1, NoPlans, ActorsApart
     DEF AddressInv, ControlInv, UserInv, UserSections, UserIntent, SessionOps, A
<1>3. u \in Actors /\ ControlType /\ {"work", "start", "op"} \subseteq PCs
  BY ActorsApart DEF AddressInv, ControlInv, PCs
<1>4. ASSUME NEW pc \in {"work", "start"}, Goto(u, pc), UNCHANGED <<routes, paused, discovery>>,
             proc[u].op # "select"
      PROVE  StepKeeps
  <2>1. proc' \in [Actors -> Locals] /\ Others(u) /\ proc'[u].pc = pc /\ SameLocals(u)
    BY <1>3, <1>4, GotoFacts
  <2>2. proc'[Adopter] = proc[Adopter]
    BY <2>1, ActorsApart DEF Others
  <2>3. UserSections(u)' /\ UserIntent(u)'
    BY <1>2, <1>4, <2>1, <2>2 DEF UserSections, UserIntent, InTemp, SameLocals, A
  <2>4. UserInv(u)'
    BY <1>1, <1>2, <1>4, <2>1, <2>3, UserMoves, ActorsApart
       DEF SameRequest, SameLocals, UserPcs, WorkPcs
  <2> QED BY <1>1, <1>2, <1>4, <2>1, <2>4, HolderMove, ActorsApart DEF SameLocals
<1>5. CASE proc[u].op \in {"mode", "refresh"}
  BY <1>1, <1>4, <1>5 DEF Swept
<1>6. CASE proc[u].op = "cleanup"
  <2>1. Pause(u, "work") /\ UNCHANGED <<routes, discovery>>
    BY <1>6 DEF Swept
  <2>2. /\ proc' \in [Actors -> Locals] /\ proc'[u].pc = "work" /\ SameLocals(u)
        /\ \A v \in Users : v # u => proc'[v] = proc[v]
        /\ AdopterSame /\ A'.pc = A.pc /\ paused' = TRUE
    BY <1>3, <2>1, PauseFacts
  <2>3. UserSections(u)' /\ UserIntent(u)'
    BY <1>2, <1>6, <2>2 DEF UserSections, UserIntent, InTemp, SameLocals, A
  <2>4. UserInv(u)'
    BY <1>1, <1>2, <2>1, <2>2, <2>3, UserMoves, ActorsApart
       DEF SameRequest, SameLocals, UserPcs, WorkPcs
  <2>5. AdopterLocks' /\ AdopterWork'
    BY <1>1, <1>2, <2>2, FreshAdopter, ActorsApart
  <2>6. PauseHeld'
    BY <1>1, <1>6, <2>1, <2>2 DEF PauseHeld, SameLocals
  <2>7. ControlInv'
    BY <1>1, <2>1, <2>2, <2>4, <2>5, <2>6, HolderControl
  <2> QED BY <1>1, <1>6, <2>1, <2>7, SelectingFacts, QuietStep
<1>7. CASE proc[u].op = "start"
  BY <1>1, <1>4, <1>7 DEF Swept
<1>8. CASE proc[u].op = "select"
  <2> DEFINE l == [proc[u] EXCEPT !.op = "reloadStart", !.pc = "op"]
  <2>1. /\ routes' = [s \in Subnets |-> None] /\ discovery' = Nobody /\ paused' = paused
        /\ proc' = [proc EXCEPT ![u] = l]
    BY <1>3, <1>8 DEF Swept, RoutesRetired, ControlType
  <2>2. /\ l \in Locals /\ l.pc = "op" /\ l.op = "reloadStart" /\ l.intent = proc[u].intent
        /\ l.addr = proc[u].addr /\ l.sub = proc[u].sub /\ l.nic = proc[u].nic
        /\ l.plan = proc[u].plan
    <3>1. proc[u] \in Locals /\ "op" \in PCs
      BY <1>3 DEF ControlType
    <3> QED BY <3>1 DEF Locals
  <2> HIDE DEF l
  <2>3. proc' \in [Actors -> Locals] /\ Others(u) /\ proc'[u] = l
    BY <1>3, <2>1, <2>2, MovedFacts
  <2>4. ~paused
    BY <1>1, <1>8 DEF AddressInv, ControlInv, PauseHeld
  <2>5. UserInv(u)'
    <3>1. UserLocks(u)'
      BY <1>1, <2>1, <2>2, <2>3, ActorsApart
         DEF AddressInv, ControlInv, UserInv, UserLocks, UserPcs, WorkPcs
    <3>2. UserSections(u)'
      BY <2>2, <2>3 DEF UserSections, InTemp, SessionOps
    <3>3. UserIntent(u)' /\ \A s \in Subnets : PlanSound(u, s)'
      BY <1>2, <2>2, <2>3 DEF UserIntent, PlanSound
    <3> QED BY <3>1, <3>2, <3>3 DEF UserInv
  <2>6. AdopterLocks' /\ AdopterWork'
    BY <1>1, <1>2, <2>3, FreshAdopter, ActorsApart DEF Others, A
  <2>7. PauseHeld'
    BY <2>1, <2>4 DEF PauseHeld
  <2>8. ControlInv'
    BY <1>1, <1>3, <2>1, <2>3, <2>5, <2>6, <2>7, HolderControl, ActorsApart
       DEF Others, ControlType
  <2>9. DataType' /\ RowsFiled'
    BY <1>1, <2>1 DEF AddressInv, DataType, RowsFiled, Owned, RowsOf, windows
  <2>10. RoutesLive'
    BY <2>1 DEF RoutesLive, RouteLive
  <2>11. LedgerStep /\ \A s \in Subnets : RemovalKept(s)
    BY <1>1, FileSame, LedgerSame DEF windows
  <2> QED BY <2>8, <2>9, <2>10, <2>11 DEF StepKeeps, AddressInv
<1> QED BY <1>2, <1>5, <1>6, <1>7, <1>8 DEF SessionOps

\* What every operation holds in address_work, outside the reconciliation that
\* a change of the adapter shares.
LEMMA WorkFacts ==
    ASSUME AddressInv, NEW u \in Users, proc[u].pc \in WorkPcs \ {"swept", "temp", "tempSeen"}
    PROVE  /\ discovery = u /\ work = u /\ work # Adopter /\ proc[u].op # "select" /\ ~Selecting
           /\ A.pc \in {"off", "wait", "admit"} /\ u \in Actors /\ ControlType /\ DataType
           /\ proc[u] \in Locals /\ saved \in Settings /\ saved.pending \in SUBSET Pair
           /\ proc[u].addr \in Addrs /\ proc[u].sub \in Subnets
           /\ \A s \in Subnets : RouteLive(s)
<1>1. discovery = u /\ work = u /\ proc[u].addr \in Addrs /\ proc[u].sub \in Subnets
  BY DEF AddressInv, ControlInv, UserInv, UserLocks, WorkPcs
<1>2. proc[u].op # "select"
  BY DEF AddressInv, ControlInv, UserInv, UserSections, WorkPcs, InTemp
<1>3. ~Selecting
  BY <1>1, <1>2, SelectingFacts
<1>4. A.pc \in {"off", "wait", "admit"} /\ work # Adopter
  BY <1>1, ActorsApart DEF AddressInv, ControlInv, AdopterLocks
<1> QED BY <1>1, <1>2, <1>3, <1>4, ActorsApart
        DEF AddressInv, ControlInv, ControlType, DataType, Settings, RoutesLive

LEMMA BeginStep ==
    ASSUME AddressInv, NEW u \in Users, Begin(u)
    PROVE  StepKeeps
<1>1. proc[u].pc = "begin" /\ UNCHANGED <<saved, windows, routes, locks>>
  BY DEF Begin
<1>2. /\ discovery = u /\ work = u /\ work # Adopter /\ proc[u].op # "select" /\ ~Selecting
      /\ u \in Actors /\ ControlType /\ saved.pending \in SUBSET Pair
  BY <1>1, WorkFacts DEF WorkPcs
<1>3. /\ ~proc[u].intent /\ \A s \in Subnets : proc[u].plan[s] = "none"
  BY <1>1, NoPlans DEF AddressInv, ControlInv, UserInv, UserIntent
<1>a. {"end", "rows", "target", "mode", "refresh"} \subseteq PCs
  BY DEF PCs
<1>4. /\ proc' \in [Actors -> Locals] /\ Others(u) /\ SameRequest(u)
      /\ proc'[u].op = proc[u].op
      /\ proc'[u].pc \in {"temp", "end", "target", "mode", "refresh"}
      /\ proc'[u].pc = "temp" => proc'[u].after \in {"end", "rows"}
      /\ proc'[u].pc = "target" => proc[u].op # "reloadStart"
      /\ proc'[u].pc = "mode" => proc[u].op = "mode"
  <2>1. CASE proc[u].op \in {"reload", "reloadStart", "cleanup"}
    <3>1. PICK after \in {"end", "rows"} : ToTemp(u, saved.pending, after)
      BY <2>1 DEF Begin, ToTemp, AddressOps
    <3> QED BY <1>2, <1>a, <3>1, TempFacts
  <2>2. CASE ~(proc[u].op \in {"reload", "reloadStart", "cleanup"})
    <3>1. \E pc \in {"end", "target", "mode", "refresh"} :
            Goto(u, pc) /\ (pc = "mode" => proc[u].op = "mode")
      BY <2>2 DEF Begin
    <3> QED BY <1>2, <1>a, <2>2, <3>1, GotoFacts DEF SameLocals, SameRequest
  <2> QED BY <2>1, <2>2
<1>5. proc'[Adopter] = proc[Adopter]
  BY <1>4, ActorsApart DEF Others
<1>6. UserSections(u)' /\ UserIntent(u)'
  BY <1>1, <1>2, <1>3, <1>4, <1>5
     DEF AddressInv, ControlInv, UserInv, UserSections, UserIntent, InTemp, SameRequest
<1>7. UserInv(u)'
  BY <1>1, <1>2, <1>3, <1>4, <1>6, UserMoves DEF UserPcs, WorkPcs, locks
<1> QED BY <1>1, <1>2, <1>4, <1>7, HolderMove DEF locks, ControlType

\* The end of a reload or of a mode change drops address_work and the pause.
LEMMA FinishStep ==
    ASSUME AddressInv, NEW u \in Users, Finish(u)
    PROVE  StepKeeps
<1>1. /\ proc[u].pc = "rowsDone" /\ work' = Nobody /\ paused' = FALSE
      /\ UNCHANGED <<saved, windows, routes, session>>
  BY DEF Finish
<1>2. /\ discovery = u /\ work = u /\ work # Adopter /\ proc[u].op # "select" /\ ~Selecting
      /\ u \in Actors /\ ControlType /\ proc[u] \in Locals
      /\ A.pc \in {"off", "wait", "admit"}
  BY <1>1, WorkFacts DEF WorkPcs
<1>3. \A s \in Subnets : proc[u].plan[s] = "none"
  BY <1>1, NoPlans
<1>4. /\ proc' \in [Actors -> Locals] /\ Others(u) /\ discovery' \in {u, Nobody} /\ UserInv(u)'
  <2>1. CASE proc[u].op = "mode"
    <3>1. Goto(u, "start") /\ UNCHANGED discovery
      BY <2>1 DEF Finish
    <3>2. proc' \in [Actors -> Locals] /\ Others(u) /\ proc'[u].pc = "start" /\ SameLocals(u)
      BY <1>2, <3>1, GotoFacts DEF PCs
    <3>3. proc'[Adopter] = proc[Adopter]
      BY <3>2, ActorsApart DEF Others
    <3>4. UserSections(u)' /\ UserIntent(u)'
      BY <1>1, <2>1, <3>2, <3>3
         DEF AddressInv, ControlInv, UserInv, UserSections, UserIntent, InTemp, SameLocals, SessionOps
    <3>5. UserInv(u)'
      BY <1>1, <1>2, <1>3, <3>1, <3>2, <3>4, UserMoves, ActorsApart
         DEF SameRequest, SameLocals, UserPcs, WorkPcs
    <3> QED BY <1>2, <3>1, <3>2, <3>5
  <2>2. CASE proc[u].op = "reloadStart"
    <3> DEFINE l == [proc[u] EXCEPT !.op = "start", !.pc = "op"]
    <3>1. proc' = [proc EXCEPT ![u] = l] /\ discovery' = Nobody
      BY <1>2, <2>2 DEF Finish, ControlType
    <3>2. "op" \in PCs /\ "start" \in AllOps
      BY DEF PCs, AllOps
    <3>3. /\ l \in Locals /\ l.pc = "op" /\ l.op = "start" /\ l.intent = proc[u].intent
          /\ l.addr = proc[u].addr /\ l.sub = proc[u].sub /\ l.nic = proc[u].nic
          /\ l.plan = proc[u].plan
      BY <1>2, <3>2 DEF Locals
    <3> HIDE DEF l
    <3>4. proc' \in [Actors -> Locals] /\ Others(u) /\ proc'[u] = l
      BY <1>2, <3>1, <3>3, MovedFacts
    <3>5. UserLocks(u)'
      BY <1>1, <3>1, <3>3, <3>4, ActorsApart
         DEF AddressInv, ControlInv, UserInv, UserLocks, UserPcs, WorkPcs
    <3>6. UserSections(u)'
      BY <3>3, <3>4 DEF UserSections, InTemp
    <3>7. UserIntent(u)' /\ \A s \in Subnets : PlanSound(u, s)'
      BY <1>3, <2>2, <3>3, <3>4
         DEF UserIntent, PlanSound, AddressInv, ControlInv, UserInv
    <3> QED BY <3>1, <3>4, <3>5, <3>6, <3>7 DEF UserInv
  <2>3. CASE proc[u].op \notin {"mode", "reloadStart"}
    <3>1. proc' = [proc EXCEPT ![u] = Idle] /\ discovery' = Nobody
      BY <2>3 DEF Finish
    <3>2. proc' \in [Actors -> Locals] /\ Others(u) /\ proc'[u] = Idle
      BY <1>2, <3>1, MovedFacts, IdleLocals
    <3> QED BY <1>1, <3>1, <3>2, IdleUser, ActorsApart
  <2> QED BY <2>1, <2>2, <2>3
<1>5. AdopterLocks' /\ AdopterWork'
  BY <1>1, <1>2, <1>4, AdopterStays, ActorsApart DEF Others, AdopterSame, A, windows
<1>6. PauseHeld'
  BY <1>1 DEF PauseHeld
<1>7. ControlInv'
  BY <1>1, <1>2, <1>4, <1>5, <1>6, HolderControl, ActorsApart DEF Others, ControlType
<1> QED BY <1>1, <1>2, <1>7, QuietStep

\* An operation ends without having changed anything.
LEMMA QuietDone ==
    ASSUME AddressInv, NEW u \in Users, proc[u].pc \in WorkPcs \ {"swept", "temp", "tempSeen"},
           \A s \in Subnets : proc[u].plan[s] = "none",
           NEW good, Done(u, good), UNCHANGED <<saved, windows, routes>>
    PROVE  StepKeeps
<1>1. proc[u].op # "select" /\ ~Selecting
  BY WorkFacts
<1>2. ControlInv'
  BY <1>1, DoneControl
<1> QED BY <1>1, <1>2, QuietStep

\* An operation goes on to a section that needs neither intent nor plans.
LEMMA QuietGoto ==
    ASSUME AddressInv, NEW u \in Users, proc[u].pc \in WorkPcs \ {"swept", "temp", "tempSeen"},
           \A s \in Subnets : proc[u].plan[s] = "none",
           NEW pc \in WorkPcs \cup {"end"}, Goto(u, pc), UNCHANGED <<saved, windows, routes, locks>>,
           pc \notin {"temp", "tempSeen", "swept", "mode", "primary"},
           pc \in {"target", "look"} => proc[u].op # "reloadStart",
           pc \in {"status", "forget", "row"} => UserIntent(u)',
           proc[u].intent => pc \in {"rowsDone", "status"}
    PROVE  StepKeeps
<1>1. /\ discovery = u /\ work = u /\ work # Adopter /\ proc[u].op # "select" /\ ~Selecting
      /\ u \in Actors /\ ControlType
  BY WorkFacts
<1>2. proc' \in [Actors -> Locals] /\ Others(u) /\ proc'[u].pc = pc /\ SameLocals(u)
  <2>1. pc \in PCs
    BY DEF WorkPcs, PCs
  <2> QED BY <1>1, <2>1, GotoFacts
<1>3. proc'[Adopter] = proc[Adopter]
  BY <1>2, ActorsApart DEF Others
<1>4. UserSections(u)'
  BY <1>1, <1>2, <1>3 DEF AddressInv, ControlInv, UserInv, UserSections, InTemp, SameLocals, WorkPcs
<1>5. UserIntent(u)'
  BY <1>1, <1>2 DEF AddressInv, ControlInv, UserInv, UserIntent, InTemp, SameLocals
<1>6. UserInv(u)'
  BY <1>1, <1>2, <1>4, <1>5, UserMoves DEF SameRequest, SameLocals, UserPcs, WorkPcs, locks
<1> QED BY <1>1, <1>2, <1>6, HolderMove DEF locks, ControlType, SameLocals, WorkPcs

LEMMA RowsEndStep ==
    ASSUME AddressInv, NEW u \in Users, RowsEnd(u)
    PROVE  StepKeeps
<1>1. /\ proc[u].pc = "row" /\ UNCHANGED <<saved, windows, routes>>
      /\ \A s \in Subnets : proc[u].plan[s] = "none"
      /\ \/ Goto(u, "rowsDone") /\ UNCHANGED locks
         \/ Done(u, proc[u].good)
  BY DEF RowsEnd
<1>2. CASE Done(u, proc[u].good)
  BY <1>1, <1>2, QuietDone DEF WorkPcs
<1>3. CASE Goto(u, "rowsDone") /\ UNCHANGED locks
  BY <1>1, <1>3, QuietGoto DEF WorkPcs
<1> QED BY <1>1, <1>2, <1>3

-----------------------------------------------------------------------------
(***************************************************************************)
(* Saved rows.                                                             *)
(***************************************************************************)

\* What a plan says of the row it was made for.
LEMMA BindingFacts ==
    ASSUME DataType, NEW s \in Subnets, saved.row[s] # None, NEW seen \in BOOLEAN
    PROVE  LET row == saved.row[s]
               plan == BindingAction(s, row, seen)
           IN /\ plan \in Plans \ {"none"}
              /\ plan \notin {"hold", "unavailable"} => row.owner \in {None, saved.nic}
              /\ plan = "add" => row.desired = "present"
              /\ plan = "absent" => <<saved.nic, row.addr>> \notin mine
<1>1. saved.row[s] \in Row
  BY RowTyped DEF DataType
<1> QED BY <1>1 DEF BindingAction, Plans, OnNic, DataType, Row

LEMMA RowsBeginStep ==
    ASSUME AddressInv, NEW u \in Users, RowsBegin(u)
    PROVE  StepKeeps
<1>1. proc[u].pc = "rows" /\ UNCHANGED <<saved, windows, routes, locks>>
  BY DEF RowsBegin
<1>2. /\ discovery = u /\ work = u /\ work # Adopter /\ proc[u].op # "select" /\ ~Selecting
      /\ u \in Actors /\ ControlType /\ proc[u] \in Locals /\ DataType
  BY <1>1, WorkFacts DEF WorkPcs
<1>3. CASE Goto(u, "rowsDone")
  BY <1>1, <1>3, NoPlans, QuietGoto DEF WorkPcs
<1>4. CASE ~Goto(u, "rowsDone")
  <2> DEFINE plan(seen) == [s \in Subnets |-> IF saved.row[s] = None THEN "none"
                                              ELSE BindingAction(s, saved.row[s], seen)]
  <2>1. PICK seen \in BOOLEAN :
          proc' = [proc EXCEPT ![u].pc = "row", ![u].after = "rowsDone", ![u].plan = plan(seen)]
    BY <1>4 DEF RowsBegin
  <2> DEFINE f == plan(seen)
             l == [proc[u] EXCEPT !.pc = "row", !.after = "rowsDone", !.plan = f]
  <2>2. f \in [Subnets -> Plans]
    BY <1>2, BindingFacts DEF Plans
  <2>3. \A s \in Subnets : f[s] # "none" =>
          /\ saved.row[s] # None
          /\ f[s] \notin {"hold", "unavailable"} => saved.row[s].owner \in {None, saved.nic}
          /\ f[s] = "add" => saved.row[s].desired = "present"
          /\ f[s] = "absent" => <<saved.nic, saved.row[s].addr>> \notin mine
    BY <1>2, BindingFacts
  <2>4. proc' = [proc EXCEPT ![u] = l]
    BY <1>2, <2>1 DEF ControlType
  <2> HIDE DEF f
  <2>5. /\ l \in Locals /\ l.pc = "row" /\ l.plan = f /\ l.op = proc[u].op
        /\ l.addr = proc[u].addr /\ l.sub = proc[u].sub /\ l.nic = proc[u].nic
        /\ l.intent = proc[u].intent
    <3>1. "row" \in PCs /\ "rowsDone" \in PCs
      BY DEF PCs
    <3> QED BY <1>2, <2>2, <3>1 DEF Locals
  <2> HIDE DEF l
  <2>6. proc' \in [Actors -> Locals] /\ Others(u) /\ proc'[u] = l
    BY <1>2, <2>4, <2>5, MovedFacts
  <2>7. proc'[Adopter] = proc[Adopter]
    BY <2>6, ActorsApart DEF Others
  <2>8. UserLocks(u)'
    BY <1>1, <1>2, <2>5, <2>6
       DEF AddressInv, ControlInv, UserInv, UserLocks, UserPcs, WorkPcs, locks
  <2>9. UserSections(u)' /\ UserIntent(u)'
    BY <1>1, <1>2, <2>5, <2>6, <2>7
       DEF AddressInv, ControlInv, UserInv, UserSections, UserIntent, InTemp
  <2>10. \A s \in Subnets : PlanSound(u, s)'
    BY <1>1, <2>3, <2>5, <2>6 DEF PlanSound, windows
  <2> QED BY <1>1, <1>2, <2>5, <2>6, <2>8, <2>9, <2>10, HolderMove DEF UserInv, locks, ControlType
<1> QED BY <1>3, <1>4

\* A native command: what leaves Windows leaves the history too, and only an
\* automatic addition enters it.
LEMMA CommandFacts ==
    ASSUME DataType, NEW want \in SUBSET Pair, NEW auto \in BOOLEAN, NEW applied \in BOOLEAN,
           NEW ok \in BOOLEAN, Command(want, auto, applied, ok)
    PROVE  /\ os' \subseteq Pair /\ mine' \subseteq os' /\ doubt' \in BOOLEAN /\ up' = up
           /\ ~auto => mine' \subseteq mine
           /\ \A x : want = os \cup {x} => mine' \subseteq mine \cup {x} /\ mine \subseteq mine'
<1>1. doubt' \in BOOLEAN
  BY DEF Command, DataType
<1> QED BY <1>1 DEF Command, DataType

\* A step that changes Windows only.
LEMMA NativeStep ==
    ASSUME AddressInv, UNCHANGED <<saved, routes>>, Selecting => Selecting',
           os' \subseteq Pair, mine' \subseteq os', up' \in BOOLEAN, dhcp' \in BOOLEAN,
           doubt' \in BOOLEAN, ControlInv',
           \/ mine' \subseteq mine
           \/ \E x \in Pair : /\ mine' = mine \cup {x}
                              /\ x \in Recorded \/ x[2] \in LegacyAddrs
    PROVE  StepKeeps
<1>1. DataType' /\ RowsFiled'
  BY DEF AddressInv, DataType, RowsFiled, Owned, RowsOf
<1>2. RoutesLive'
  BY DEF AddressInv, RoutesLive, RouteLive
<1>3. Recorded' = Recorded /\ \A s \in Subnets : RemovalKept(s)
  BY FileSame
<1>4. LedgerStep
  <2>1. CASE mine' \subseteq mine
    BY <1>3, <2>1, LedgerWithdraw DEF AddressInv, DataType
  <2>2. ASSUME NEW x \in Pair, mine' = mine \cup {x}, x \in Recorded \/ x[2] \in LegacyAddrs
        PROVE  LedgerStep
    BY <1>3, <2>2, LedgerAssign
  <2> QED BY <2>1, <2>2
<1> QED BY <1>1, <1>2, <1>3, <1>4 DEF StepKeeps, AddressInv

LEMMA RowCommandStep ==
    ASSUME AddressInv, NEW u \in Users, RowCommand(u)
    PROVE  StepKeeps
<1>1. PICK s \in Subnets, applied \in BOOLEAN, ok \in BOOLEAN :
        LET plan == proc[u].plan[s]
            x == <<saved.nic, saved.row[s].addr>>
        IN /\ plan \in {"add", "remove"}
           /\ IF doubt THEN ~ok /\ ~applied /\ UNCHANGED <<os, mine, up, doubt, spent>>
              ELSE Command(IF plan = "add" THEN os \cup {x} ELSE os \ {x},
                           plan = "add", applied, ok)
           /\ proc' = [proc EXCEPT ![u].plan[s] = IF ok THEN "issued" ELSE "failed"]
  BY DEF RowCommand
<1> DEFINE plan == proc[u].plan[s]
           x == <<saved.nic, saved.row[s].addr>>
           next == IF ok THEN "issued" ELSE "failed"
           f == [proc[u].plan EXCEPT ![s] = next]
           l == [proc[u] EXCEPT !.plan = f]
<1>2. proc[u].pc = "row" /\ UNCHANGED <<saved, dhcp, routes, locks>>
  BY DEF RowCommand
<1>3. /\ discovery = u /\ work = u /\ work # Adopter /\ proc[u].op # "select" /\ ~Selecting
      /\ u \in Actors /\ ControlType /\ proc[u] \in Locals /\ DataType /\ saved \in Settings
  BY <1>2, WorkFacts DEF WorkPcs
<1>4. /\ saved.row[s] # None /\ saved.row[s].owner \in {None, saved.nic}
      /\ plan = "add" => saved.row[s].desired = "present"
  BY <1>1 DEF AddressInv, ControlInv, UserInv, PlanSound
<1>5. x \in Pair /\ saved.row[s] \in Row
  BY <1>3, <1>4, RowTyped DEF Pair, Row, Settings
<1>6. proc' = [proc EXCEPT ![u] = l] /\ next \in {"issued", "failed"}
  BY <1>1, <1>3 DEF ControlType
<1> HIDE DEF next
<1>7. /\ l \in Locals /\ l.pc = "row" /\ l.op = proc[u].op /\ l.addr = proc[u].addr
      /\ l.sub = proc[u].sub /\ l.nic = proc[u].nic /\ l.intent = proc[u].intent
      /\ l.after = proc[u].after
  <2>1. f \in [Subnets -> Plans]
    BY <1>3, <1>6 DEF Locals, Plans
  <2> HIDE DEF f
  <2> QED BY <1>2, <1>3, <2>1 DEF Locals
<1>8. \A r \in Subnets : l.plan[r] = IF r = s THEN next ELSE proc[u].plan[r]
  BY <1>3 DEF Locals
<1> HIDE DEF l
<1>9. proc' \in [Actors -> Locals] /\ Others(u) /\ proc'[u] = l
  BY <1>3, <1>6, <1>7, MovedFacts
\* Windows.
<1>10. /\ os' \subseteq Pair /\ mine' \subseteq os' /\ doubt' \in BOOLEAN /\ up' = up
       /\ \/ mine' \subseteq mine
          \/ plan = "add" /\ mine' \subseteq mine \cup {x} /\ mine \subseteq mine'
  <2>1. CASE doubt
    BY <1>1, <1>3, <2>1 DEF DataType
  <2>2. CASE ~doubt /\ plan = "add"
    <3>1. PICK auto \in BOOLEAN : auto /\ Command(os \cup {x}, auto, applied, ok)
      BY <1>1, <2>2
    <3>2. os \cup {x} \in SUBSET Pair
      BY <1>3, <1>5 DEF DataType
    <3> QED BY <1>3, <2>2, <3>1, <3>2, CommandFacts
  <2>3. CASE ~doubt /\ plan # "add"
    <3>1. PICK auto \in BOOLEAN : ~auto /\ Command(os \ {x}, auto, applied, ok)
      BY <1>1, <2>3
    <3>2. os \ {x} \in SUBSET Pair
      BY <1>3 DEF DataType
    <3> QED BY <1>3, <3>1, <3>2, CommandFacts
  <2> QED BY <2>1, <2>2, <2>3
<1>11. mine' \subseteq mine \cup {x}
  BY <1>10
<1>12. UserInv(u)'
  <2>1. UserLocks(u)'
    BY <1>2, <1>3, <1>7, <1>9
       DEF AddressInv, ControlInv, UserInv, UserLocks, UserPcs, WorkPcs, locks
  <2>2. proc'[Adopter] = proc[Adopter]
    BY <1>9, ActorsApart DEF Others
  <2>3. UserSections(u)' /\ UserIntent(u)'
    BY <1>2, <1>3, <1>7, <1>9, <2>2
       DEF AddressInv, ControlInv, UserInv, UserSections, UserIntent, InTemp
  <2>4. ASSUME NEW r \in Subnets PROVE PlanSound(u, r)'
    <3>1. CASE r = s
      BY <1>2, <1>4, <1>6, <1>7, <1>8, <1>9, <3>1 DEF PlanSound
    <3>2. CASE r # s
      <4>1. saved.row[r] # None => saved.row[r].addr # saved.row[s].addr
        BY <1>4, <3>2 DEF AddressInv, RowsFiled
      <4>2. saved.row[r] # None => <<saved.nic, saved.row[r].addr>> # x
        BY <4>1
      <4>3. PlanSound(u, r)
        BY DEF AddressInv, ControlInv, UserInv
      <4> QED BY <1>2, <1>7, <1>8, <1>9, <1>11, <3>2, <4>2, <4>3 DEF PlanSound
    <3> QED BY <3>1, <3>2
  <2> QED BY <2>1, <2>3, <2>4 DEF UserInv
<1>13. ControlInv'
  BY <1>2, <1>3, <1>7, <1>9, <1>12, WorkControl DEF WorkPcs
<1>14. \/ mine' \subseteq mine
       \/ mine' = mine \cup {x} /\ (x \in Recorded \/ x[2] \in LegacyAddrs)
  <2>1. plan = "add" => x \in Recorded \/ x[2] \in LegacyAddrs
    <3> SUFFICES ASSUME plan = "add" PROVE x \in Recorded \/ x[2] \in LegacyAddrs
      OBVIOUS
    <3>1. CASE saved.row[s].owner = None
      BY <1>4, <3>1 DEF AddressInv, RowsFiled
    <3>2. CASE saved.row[s].owner = saved.nic /\ saved.row[s].owner # None
      <4>1. Answers(s) /\ x = RowPair(s)
        BY <1>4, <3>2 DEF Answers, RowPair, RemovalComplete
      <4> QED BY <4>1, RecordedFacts
    <3> QED BY <1>4, <3>1, <3>2
  <2>2. mine' \subseteq mine \/ (plan = "add" /\ mine' = mine \cup {x})
    BY <1>10
  <2> QED BY <2>1, <2>2
<1> QED BY <1>2, <1>3, <1>5, <1>10, <1>13, <1>14, NativeStep DEF DataType

\* Two rows never name the same address.
LEMMA OneRow ==
    ASSUME AddressInv, NEW r \in Subnets, NEW s \in Subnets, r # s,
           saved.row[r] # None, saved.row[s] # None
    PROVE  RowPair(r) # RowPair(s) /\ saved.row[r].addr # saved.row[s].addr
  BY DEF AddressInv, RowsFiled, RowPair

\* A new status of a row: what the file, the routes and the ledger make of it.
LEMMA StatusFacts ==
    ASSUME AddressInv, \A r \in Subnets : RouteLive(r),
           NEW s \in Subnets, saved.row[s] # None, NEW row \in Row, NEW ok \in BOOLEAN,
           NEW seen \in BOOLEAN, Publish(s, row, ok, seen), UNCHANGED windows,
           row.desired = saved.row[s].desired, row.addr = saved.row[s].addr,
           \/ row.owner = saved.row[s].owner
           \/ /\ row.desired = "present" /\ row.applied /\ ~row.err
              /\ row.owner = saved.nic /\ saved.row[s].owner \in {None, saved.nic},
           row.applied /\ ~row.err /\ row.desired = "present" => row.owner = saved.nic,
           RemovalComplete(row) => \/ RemovalComplete(saved.row[s])
                                   \/ RowPair(s) \notin mine
    PROVE  /\ DataType' /\ RowsFiled' /\ LedgerStep
           /\ saved'.nic = saved.nic /\ saved'.row[s] # None
           /\ \A r \in Subnets : r # s => saved'.row[r] = saved.row[r]
           /\ \A r \in Subnets : RouteLive(r)' /\ RemovalKept(r)
<1>1. saved \in Settings /\ saved.row[s] \in Row /\ saved.nic \in Nics /\ None \notin Nics
      /\ row # None /\ None \notin Addrs
  BY RowTyped, ConstantsAssumption DEF AddressInv, DataType, Settings
<1> DEFINE live == row.desired = "present" /\ row.applied /\ ~row.err
<1>2. ~Refused(saved, s, row)
  BY DEF Refused
<1>3. \/ /\ saved' = SetBinding(saved, s, row)
         /\ routes' = [routes EXCEPT ![s] = IF live THEN row.addr ELSE None]
      \/ saved' = saved /\ routes' = [routes EXCEPT ![s] = None]
  BY <1>2 DEF Publish
<1>4. CASE saved' = saved /\ routes' = [routes EXCEPT ![s] = None]
  <2>1. DataType' /\ RowsFiled'
    BY <1>4 DEF AddressInv, DataType, RowsFiled, Owned, RowsOf, windows
  <2>2. LedgerStep /\ \A r \in Subnets : RemovalKept(r)
    BY <1>4, FileSame, LedgerSame DEF windows
  <2>3. \A r \in Subnets : RouteLive(r)'
    BY <1>4 DEF RouteLive, AddressInv, DataType
  <2> QED BY <1>4, <2>1, <2>2, <2>3
<1>5. CASE /\ saved' = SetBinding(saved, s, row)
           /\ routes' = [routes EXCEPT ![s] = IF live THEN row.addr ELSE None]
  <2>1. /\ saved' \in Settings /\ saved'.nic = saved.nic /\ saved'.row[s] = row
        /\ \A r \in Subnets : r # s => saved'.row[r] = saved.row[r]
        /\ saved'.pending = IF live THEN saved.pending \ {<<row.owner, row.addr>>} ELSE saved.pending
    <3>1. /\ saved' \in Settings /\ saved'.nic = saved.nic
          /\ saved'.row = [saved.row EXCEPT ![s] = row]
          /\ saved'.pending = IF live THEN saved.pending \ {<<row.owner, row.addr>>}
                             ELSE saved.pending
      BY <1>1, <1>5, SetBindingFacts
    <3>2. saved.row \in [Subnets -> Row \cup {None}]
      BY <1>1 DEF Settings
    <3> QED BY <3>1, <3>2
  <2>2. routes' \in [Subnets -> Addrs \cup {None}]
    BY <1>5 DEF AddressInv, DataType, Row
  <2>3. DataType'
    BY <2>1, <2>2 DEF AddressInv, DataType, windows
  <2>4. \A r \in Subnets : RouteLive(r)' /\ RemovalKept(r)
    <3>1. \A r \in Subnets : RemovalKept(r)
      BY <1>1, <2>1 DEF RemovalKept
    <3>2. \A r \in Subnets : r # s => RouteLive(r)'
      BY <1>5, <2>1 DEF RouteLive, AddressInv, DataType
    <3>3. RouteLive(s)'
      BY <1>1, <1>5, <2>1 DEF RouteLive, AddressInv, DataType
    <3> QED BY <3>1, <3>2, <3>3
  <2>5. RowsFiled'
    <3>1. ASSUME NEW r \in Subnets, saved'.row[r] # None
          PROVE  /\ SubnetOf[saved'.row[r].addr] = r
                 /\ saved'.row[r].owner = None =>
                      saved'.row[r].desired = "present" /\ saved'.row[r].addr \in LegacyAddrs
      BY <1>1, <2>1, <3>1 DEF AddressInv, RowsFiled
    <3>2. ASSUME NEW x \in saved'.pending PROVE ~Owned(x)'
      <4>1. x \in saved.pending /\ ~Owned(x)
        BY <2>1 DEF AddressInv, RowsFiled
      <4>2. \A r \in Subnets : ~(saved.row[r] # None /\ saved.row[r].addr = x[2]
                                                     /\ saved.row[r].owner = x[1])
        BY <4>1 DEF Owned, RowsOf
      <4>3. x \in Pair
        BY <1>1, <4>1 DEF Settings
      <4>4. ~(row.addr = x[2] /\ row.owner = x[1])
        <5>1. CASE row.owner = saved.row[s].owner
          BY <4>2, <5>1
        <5>2. CASE live
          BY <2>1, <4>3, <5>2 DEF Pair
        <5> QED BY <5>1, <5>2
      <4> QED BY <2>1, <4>2, <4>4 DEF Owned, RowsOf
    <3> QED BY <3>1, <3>2 DEF RowsFiled
  <2>6. LedgerStep
    <3>1. \A r \in Subnets : r # s => (Answers(r)' <=> Answers(r)) /\ RowPair(r)' = RowPair(r)
      BY <2>1 DEF Answers, RowPair, RemovalComplete
    <3>2. mine' = mine
      BY DEF windows
    <3>3. Answers(s) => RowPair(s) \notin saved.pending /\ RowPair(s) \in Pair
      <4>1. Answers(s) => Owned(RowPair(s)) /\ RowPair(s) \in Pair
        BY <1>1 DEF Answers, RowPair, Owned, RowsOf, Pair, Row
      <4> QED BY <4>1 DEF AddressInv, RowsFiled
    <3>4. Answers(s)' => RowPair(s)' \in Pair
      BY <1>1, <2>1 DEF Answers, RowPair, Pair, Row
    <3>5. live => Answers(s)' /\ RowPair(s)' = <<row.owner, row.addr>>
      BY <1>1, <2>1 DEF Answers, RowPair, RemovalComplete
    <3>6. saved'.pending \subseteq saved.pending /\ saved.pending \subseteq Recorded'
      BY <2>1, <3>5, RecordedNext
    <3>7. CASE Answers(s)'
      <4>1. Answers(s) => RowPair(s)' = RowPair(s)
        BY <2>1 DEF Answers, RowPair
      <4>2. Recorded' = Recorded \cup {RowPair(s)'}
        BY <3>1, <3>6, <3>7, <4>1, RecordedFacts, RecordedNext
      <4>3. {RowPair(s)'} \in SUBSET Pair
        BY <3>4, <3>7
      <4> QED BY <3>2, <4>2, <4>3, LedgerRecord
    <3>8. CASE ~Answers(s)' /\ ~Answers(s)
      <4>1. Recorded' = Recorded
        BY <3>1, <3>5, <3>6, <3>8, <2>1, RecordedFacts, RecordedNext
      <4> QED BY <3>2, <4>1, LedgerSame
    <3>9. CASE ~Answers(s)' /\ Answers(s)
      <4>1. RowPair(s) \notin mine
        <5>1. RemovalComplete(row) /\ ~RemovalComplete(saved.row[s])
          BY <1>1, <2>1, <3>9 DEF Answers
        <5> QED BY <5>1
      <4>2. \A r \in Subnets : Answers(r) /\ r # s => RowPair(r) # RowPair(s)
        BY <3>9, OneRow DEF Answers
      <4>3. Recorded' = Recorded \ {RowPair(s)}
        BY <3>1, <3>3, <3>5, <3>9, <4>2, <2>1, RecordedFacts, RecordedNext
      <4>4. {RowPair(s)} \in SUBSET Pair /\ {RowPair(s)} \cap mine = {}
        BY <3>3, <3>9, <4>1
      <4> QED BY <3>2, <4>3, <4>4, LedgerForget
    <3> QED BY <3>7, <3>8, <3>9
  <2> QED BY <1>1, <2>1, <2>3, <2>4, <2>5, <2>6
<1> QED BY <1>3, <1>4, <1>5

LEMMA RowPublishStep ==
    ASSUME AddressInv, NEW u \in Users, RowPublish(u)
    PROVE  StepKeeps
<1>1. PICK s \in Subnets, seen \in BOOLEAN, ok \in BOOLEAN :
        LET plan == proc[u].plan[s]
            row == ApplyBinding(saved.row[s], plan, seen)
        IN /\ plan \notin {"none", "add", "remove"}
           /\ seen \/ plan \in {"issued", "failed"}
           /\ Publish(s, row, ok, seen)
           /\ proc' = [proc EXCEPT ![u].plan[s] = "none",
                                   ![u].good = ok /\ ~row.applied /\ ~row.err]
  BY DEF RowPublish
<1> DEFINE plan == proc[u].plan[s]
           row == ApplyBinding(saved.row[s], plan, seen)
           f == [proc[u].plan EXCEPT ![s] = "none"]
<1>2. proc[u].pc = "row" /\ UNCHANGED <<windows, locks>>
  BY DEF RowPublish
<1>3. /\ discovery = u /\ work = u /\ work # Adopter /\ proc[u].op # "select" /\ ~Selecting
      /\ u \in Actors /\ ControlType /\ proc[u] \in Locals /\ DataType /\ saved \in Settings
      /\ \A r \in Subnets : RouteLive(r)
  BY <1>2, WorkFacts DEF WorkPcs
<1>4. /\ saved.row[s] # None
      /\ plan \notin {"hold", "unavailable"} => saved.row[s].owner \in {None, saved.nic}
      /\ plan = "absent" => <<saved.nic, saved.row[s].addr>> \notin mine
  BY <1>1 DEF AddressInv, ControlInv, UserInv, PlanSound
<1>5. saved.row[s] \in Row /\ saved.nic \in Nics
  BY <1>3, <1>4, RowTyped DEF Settings
<1>6. /\ row \in Row /\ row.desired = saved.row[s].desired /\ row.addr = saved.row[s].addr
      /\ \/ row.owner = saved.row[s].owner
         \/ /\ row.desired = "present" /\ row.applied /\ ~row.err
            /\ row.owner = saved.nic /\ saved.row[s].owner \in {None, saved.nic}
      /\ row.applied /\ ~row.err /\ row.desired = "present" => row.owner = saved.nic
      /\ RemovalComplete(row) =>
           \/ RemovalComplete(saved.row[s]) \/ plan = "absent"
           \/ plan \notin {"hold", "unavailable", "present"} /\ ~OnNic(saved.row[s].addr)
  BY <1>4, <1>5, ApplyFacts
<1>7. Publish(s, row, ok, seen)
  BY <1>1
<1>8. PICK b \in BOOLEAN : proc' = [proc EXCEPT ![u].plan[s] = "none", ![u].good = b]
  <2>1. (ok /\ ~row.applied /\ ~row.err) \in BOOLEAN
    OBVIOUS
  <2> QED BY <1>1, <2>1, Zenon
<1> HIDE DEF row
<1>9. RemovalComplete(row) => RemovalComplete(saved.row[s]) \/ RowPair(s) \notin mine
  <2> SUFFICES ASSUME RemovalComplete(row), ~RemovalComplete(saved.row[s])
               PROVE  RowPair(s) \notin mine
    OBVIOUS
  <2>1. saved.row[s].owner \in {None, saved.nic} /\ <<saved.nic, saved.row[s].addr>> \notin mine
    BY <1>3, <1>4, <1>6 DEF OnNic, DataType
  <2>2. saved.row[s].owner # None
    BY <1>4, <1>6 DEF AddressInv, RowsFiled, RemovalComplete
  <2> QED BY <2>1, <2>2 DEF RowPair
<1>10. /\ DataType' /\ RowsFiled' /\ LedgerStep
       /\ saved'.nic = saved.nic /\ saved'.row[s] # None
       /\ \A r \in Subnets : r # s => saved'.row[r] = saved.row[r]
       /\ \A r \in Subnets : RouteLive(r)' /\ RemovalKept(r)
  BY <1>2, <1>3, <1>4, <1>6, <1>7, <1>9, StatusFacts
<1> DEFINE l == [proc[u] EXCEPT !.plan = f, !.good = b]
<1>11. proc' = [proc EXCEPT ![u] = l]
  BY <1>3, <1>8 DEF ControlType
<1>12. /\ l \in Locals /\ l.pc = "row" /\ l.op = proc[u].op /\ l.addr = proc[u].addr
       /\ l.sub = proc[u].sub /\ l.nic = proc[u].nic /\ l.intent = proc[u].intent
       /\ l.after = proc[u].after
  <2>1. f \in [Subnets -> Plans]
    BY <1>3 DEF Locals, Plans
  <2> HIDE DEF f
  <2> QED BY <1>2, <1>3, <2>1 DEF Locals
<1>13. \A r \in Subnets : l.plan[r] = IF r = s THEN "none" ELSE proc[u].plan[r]
  BY <1>3 DEF Locals
<1> HIDE DEF l
<1>14. proc' \in [Actors -> Locals] /\ Others(u) /\ proc'[u] = l
  BY <1>3, <1>11, <1>12, MovedFacts
<1>15. UserInv(u)'
  <2>1. UserLocks(u)'
    BY <1>2, <1>3, <1>12, <1>14
       DEF AddressInv, ControlInv, UserInv, UserLocks, UserPcs, WorkPcs, locks
  <2>2. proc'[Adopter] = proc[Adopter]
    BY <1>14, ActorsApart DEF Others
  <2>3. UserSections(u)' /\ UserIntent(u)'
    BY <1>2, <1>3, <1>12, <1>14, <2>2
       DEF AddressInv, ControlInv, UserInv, UserSections, UserIntent, InTemp
  <2>4. \A r \in Subnets : PlanSound(u, r)'
    BY <1>2, <1>10, <1>12, <1>13, <1>14
       DEF AddressInv, ControlInv, UserInv, PlanSound, windows
  <2> QED BY <2>1, <2>3, <2>4 DEF UserInv
<1>16. ControlInv'
  BY <1>2, <1>3, <1>10, <1>12, <1>14, <1>15, WorkControl DEF WorkPcs
<1> QED BY <1>10, <1>16 DEF StepKeeps, AddressInv, RoutesLive

LEMMA StatusStep ==
    ASSUME AddressInv, NEW u \in Users, Status(u)
    PROVE  StepKeeps
<1>0. /\ proc[u].pc = "status" /\ UNCHANGED windows
  BY DEF Status
<1> DEFINE s == proc[u].sub
<1>1. PICK ok \in BOOLEAN, t \in BOOLEAN, g \in BOOLEAN :
        t /\ Publish(s, [saved.row[s] EXCEPT !.err = t], ok, t) /\ Done(u, g)
  <2>1. PICK t \in BOOLEAN, g \in BOOLEAN : t = TRUE /\ g = FALSE
    OBVIOUS
  <2> QED BY <2>1 DEF Status
<1> DEFINE row == [saved.row[s] EXCEPT !.err = t]
<1>2. /\ discovery = u /\ work = u /\ proc[u].op # "select" /\ ~Selecting
      /\ saved \in Settings /\ s \in Subnets /\ \A r \in Subnets : RouteLive(r)
  BY <1>0, WorkFacts DEF WorkPcs
<1>3. saved.row[s] # None
  BY <1>0 DEF AddressInv, ControlInv, UserInv, UserIntent
<1>4. saved.row[s] \in Row
  BY <1>2, <1>3, RowTyped
<1>5. /\ row \in Row /\ row.desired = saved.row[s].desired /\ row.addr = saved.row[s].addr
      /\ row.owner = saved.row[s].owner /\ row.err
  BY <1>1, <1>4 DEF Row
<1>6. ~RemovalComplete(row)
  BY <1>5 DEF RemovalComplete
<1>7. Publish(s, row, ok, t)
  BY <1>1
<1> HIDE DEF row
<1>8. /\ DataType' /\ RowsFiled' /\ LedgerStep /\ saved'.nic = saved.nic
      /\ \A r \in Subnets : RouteLive(r)' /\ RemovalKept(r)
  BY <1>0, <1>2, <1>3, <1>5, <1>6, <1>7, StatusFacts
<1>9. ControlInv'
  BY <1>0, <1>1, <1>2, <1>8, NoPlans, DoneControl DEF WorkPcs
<1> QED BY <1>8, <1>9 DEF StepKeeps, AddressInv, RoutesLive

-----------------------------------------------------------------------------
(***************************************************************************)
(* Address operations.                                                     *)
(***************************************************************************)

\* The intent of a removal is saved before any command.
LEMMA RemovalSaved ==
    ASSUME AddressInv, \A r \in Subnets : RouteLive(r),
           NEW s \in Subnets, NEW row \in Row, row.desired = "removed", row.err,
           row.owner # None, SubnetOf[row.addr] = s,
           saved.row[s] # None => row.addr = saved.row[s].addr /\ row.owner = saved.row[s].owner,
           saved.row[s] = None => <<row.owner, row.addr>> \notin saved.pending,
           saved' = SetBinding(saved, s, row), routes' = [routes EXCEPT ![s] = None],
           UNCHANGED windows
    PROVE  /\ DataType' /\ RowsFiled' /\ LedgerStep
           /\ saved'.nic = saved.nic /\ saved'.row[s] = row /\ saved'.row[s] # None
           /\ \A r \in Subnets : RouteLive(r)' /\ RemovalKept(r)
<1>1. saved \in Settings /\ row # None /\ None \notin Addrs
  BY ConstantsAssumption DEF AddressInv, DataType
<1>2. /\ saved' \in Settings /\ saved'.nic = saved.nic /\ saved'.pending = saved.pending
      /\ saved'.row = [saved.row EXCEPT ![s] = row]
  BY <1>1, RemovalFacts
<1>3. saved.row \in [Subnets -> Row \cup {None}]
  BY <1>1 DEF Settings
<1>4. saved'.row[s] = row /\ \A r \in Subnets : r # s => saved'.row[r] = saved.row[r]
  BY <1>2, <1>3
<1>5. DataType'
  BY <1>2 DEF AddressInv, DataType, windows
<1>6. RowsFiled'
  <2>1. ASSUME NEW r \in Subnets, saved'.row[r] # None
        PROVE  /\ SubnetOf[saved'.row[r].addr] = r
               /\ saved'.row[r].owner = None =>
                    saved'.row[r].desired = "present" /\ saved'.row[r].addr \in LegacyAddrs
    BY <1>4, <2>1 DEF AddressInv, RowsFiled
  <2>2. ASSUME NEW x \in saved'.pending PROVE ~Owned(x)'
    <3>1. x \in saved.pending /\ ~Owned(x) /\ x \in Pair
      BY <1>1, <1>2 DEF AddressInv, RowsFiled, Settings
    <3>2. \A r \in Subnets : ~(saved.row[r] # None /\ saved.row[r].addr = x[2]
                                                   /\ saved.row[r].owner = x[1])
      BY <3>1 DEF Owned, RowsOf
    <3>3. ~(row.addr = x[2] /\ row.owner = x[1])
      BY <3>1, <3>2 DEF Pair
    <3> QED BY <1>4, <3>2, <3>3 DEF Owned, RowsOf
  <2> QED BY <2>1, <2>2 DEF RowsFiled
<1>7. \A r \in Subnets : RouteLive(r)' /\ RemovalKept(r)
  BY <1>1, <1>2, <1>4 DEF RouteLive, RemovalKept, AddressInv, DataType
<1>8. LedgerStep
  <2>1. \A r \in Subnets : r # s => (Answers(r)' <=> Answers(r)) /\ RowPair(r)' = RowPair(r)
    BY <1>4 DEF Answers, RowPair, RemovalComplete
  <2>2. Answers(s)' /\ RowPair(s)' \in Pair /\ (Answers(s) => RowPair(s)' = RowPair(s))
    BY <1>1, <1>4 DEF Answers, RowPair, RemovalComplete, Pair, Row
  <2>3. Recorded' = Recorded \cup {RowPair(s)'}
    BY <1>2, <2>1, <2>2, RecordedFacts, RecordedNext
  <2>4. {RowPair(s)'} \in SUBSET Pair /\ mine' = mine
    BY <2>2 DEF windows
  <2> QED BY <2>3, <2>4, LedgerRecord
<1> QED BY <1>1, <1>2, <1>4, <1>5, <1>6, <1>7, <1>8

LEMMA TheRowFacts ==
    ASSUME AddressInv, NEW u \in Users, proc[u].sub \in Subnets, TheRow(u) # None
    PROVE  /\ TheRow(u) \in Subnets /\ saved.row[TheRow(u)] # None
           /\ proc[u].op = "removeSaved" => TheRow(u) = proc[u].sub
  BY DEF TheRow, RowsOf

LEMMA TargetStep ==
    ASSUME AddressInv, NEW u \in Users, Target(u)
    PROVE  StepKeeps
<1> DEFINE s == TheRow(u)
<1>1. proc[u].pc = "target" /\ UNCHANGED windows
  BY DEF Target
<1>2. /\ discovery = u /\ work = u /\ work # Adopter /\ proc[u].op # "select" /\ ~Selecting
      /\ u \in Actors /\ ControlType /\ proc[u] \in Locals /\ DataType /\ saved \in Settings
      /\ proc[u].sub \in Subnets /\ \A r \in Subnets : RouteLive(r)
  BY <1>1, WorkFacts DEF WorkPcs
<1>3. /\ ~proc[u].intent /\ \A r \in Subnets : proc[u].plan[r] = "none"
      /\ proc[u].op # "reloadStart"
  BY <1>1, NoPlans DEF AddressInv, ControlInv, UserInv, UserIntent, UserSections
<1>4. CASE proc[u].op = "add" \/ (proc[u].op # "removeSaved" /\ s = None)
  <2>1. Goto(u, "look") /\ UNCHANGED <<saved, routes, locks>>
    BY <1>4 DEF Target
  <2> QED BY <1>1, <1>3, <2>1, QuietGoto DEF WorkPcs
<1>5. CASE proc[u].op = "removeSaved" /\ s = None
  <2>1. PICK g \in BOOLEAN : Done(u, g) /\ UNCHANGED <<saved, routes>>
    BY <1>5 DEF Target
  <2> QED BY <1>1, <1>3, <2>1, QuietDone DEF WorkPcs
<1>6. CASE proc[u].op # "add" /\ s # None /\ saved.row[s].owner = None
  <2>1. s \in Subnets /\ saved.row[s] # None /\ (proc[u].op = "removeSaved" => s = proc[u].sub)
    BY <1>2, <1>6, TheRowFacts
  <2>2. UNCHANGED <<saved, routes>>
    BY <1>6 DEF Target
  <2>3. CASE proc[u].op = "removeSaved"
    <3>1. Goto(u, "forget") /\ UNCHANGED locks
      BY <1>6, <2>3 DEF Target
    <3>2. proc'[u].pc = "forget" /\ SameLocals(u)
      BY <1>2, <3>1, GotoFacts DEF PCs
    <3>3. UserIntent(u)'
      BY <1>3, <1>6, <2>1, <2>2, <2>3, <3>2 DEF UserIntent, SameLocals
    <3> QED BY <1>1, <1>3, <2>2, <3>1, <3>3, QuietGoto DEF WorkPcs
  <2>4. CASE proc[u].op # "removeSaved"
    <3>1. PICK g \in BOOLEAN : Done(u, g)
      BY <1>6, <2>4 DEF Target
    <3> QED BY <1>1, <1>3, <2>2, <3>1, QuietDone DEF WorkPcs
  <2> QED BY <2>3, <2>4
<1>7. CASE proc[u].op # "add" /\ s # None /\ saved.row[s].owner # None
  <2>1. s \in Subnets /\ saved.row[s] # None
    BY <1>2, <1>7, TheRowFacts
  <2>2. saved.row[s] \in Row
    BY <1>2, <2>1, RowTyped
  <2> DEFINE row == PendingRemoval(saved.row[s])
  <2>3. /\ row \in Row /\ row.desired = "removed" /\ row.err /\ row.addr = saved.row[s].addr
        /\ row.owner = saved.row[s].owner
    <3>1. PICK t \in BOOLEAN : t = TRUE
      OBVIOUS
    <3>2. row = [saved.row[s] EXCEPT !.desired = "removed", !.err = t]
      BY <3>1 DEF PendingRemoval
    <3> HIDE DEF row
    <3> QED BY <2>2, <3>1, <3>2 DEF Row
  <2>4. PICK ok \in BOOLEAN :
          /\ Persist(SetBinding(saved, s, row), ok)
          /\ routes' = IF ok THEN [routes EXCEPT ![s] = None] ELSE routes
          /\ IF ok
             THEN /\ proc' = [proc EXCEPT ![u].pc = "look", ![u].intent = TRUE,
                                    ![u].sub = s, ![u].addr = saved.row[s].addr]
                  /\ UNCHANGED locks
             ELSE Done(u, FALSE)
    BY <1>7 DEF Target
  <2> HIDE DEF row
  <2>5. CASE ok
    <3>1. /\ saved' = SetBinding(saved, s, row) /\ routes' = [routes EXCEPT ![s] = None]
          /\ UNCHANGED locks
      BY <2>4, <2>5 DEF Persist
    <3>2. SubnetOf[row.addr] = s
      BY <2>1, <2>3 DEF AddressInv, RowsFiled
    <3>3. /\ DataType' /\ RowsFiled' /\ LedgerStep
          /\ saved'.nic = saved.nic /\ saved'.row[s] # None
          /\ \A r \in Subnets : RouteLive(r)' /\ RemovalKept(r)
      BY <1>1, <1>2, <1>7, <2>1, <2>3, <3>1, <3>2, RemovalSaved
    <3>4. PICK t \in BOOLEAN : proc' = [proc EXCEPT ![u] =
            [proc[u] EXCEPT !.pc = "look", !.intent = t, !.sub = s, !.addr = saved.row[s].addr]]
      BY <1>2, <2>4, <2>5 DEF ControlType
    <3> DEFINE l == [proc[u] EXCEPT !.pc = "look", !.intent = t, !.sub = s,
                                    !.addr = saved.row[s].addr]
    <3>5. /\ l \in Locals /\ l.pc = "look" /\ l.op = proc[u].op /\ l.sub = s
          /\ l.addr \in Addrs /\ l.nic = proc[u].nic /\ l.plan = proc[u].plan
      <4>1. "look" \in PCs /\ saved.row[s].addr \in Addrs
        BY <2>2 DEF PCs, Row
      <4> QED BY <1>2, <2>1, <4>1 DEF Locals
    <3> HIDE DEF l
    <3>6. proc' \in [Actors -> Locals] /\ Others(u) /\ proc'[u] = l
      BY <1>2, <3>4, <3>5, MovedFacts DEF l
    <3>7. proc'[Adopter] = proc[Adopter]
      BY <3>6, ActorsApart DEF Others
    <3>8. UserLocks(u)' /\ UserSections(u)'
      BY <1>1, <1>2, <2>1, <3>1, <3>5, <3>6, <3>7
         DEF AddressInv, ControlInv, UserInv, UserLocks, UserSections, InTemp, UserPcs, WorkPcs, locks
    <3>9. UserIntent(u)' /\ \A r \in Subnets : PlanSound(u, r)'
      BY <1>3, <3>3, <3>5, <3>6 DEF UserIntent, PlanSound, InTemp
    <3>10. ControlInv'
      BY <1>1, <1>2, <3>1, <3>3, <3>5, <3>6, <3>8, <3>9, WorkControl DEF WorkPcs, UserInv
    <3> QED BY <3>3, <3>10 DEF StepKeeps, AddressInv, RoutesLive
  <2>6. CASE ~ok
    <3>1. PICK g \in BOOLEAN : Done(u, g)
      BY <2>4, <2>6
    <3>2. UNCHANGED <<saved, routes>>
      BY <2>4, <2>6 DEF Persist
    <3> QED BY <1>1, <1>3, <3>1, <3>2, QuietDone DEF WorkPcs
  <2> QED BY <2>5, <2>6
<1> QED BY <1>4, <1>5, <1>6, <1>7

\* What a step inside address_work has to show.
LEMMA WorkKeeps ==
    ASSUME DataType', RowsFiled', ControlInv', \A r \in Subnets : RouteLive(r)' /\ RemovalKept(r),
           LedgerStep
    PROVE  StepKeeps
  BY DEF StepKeeps, AddressInv, RoutesLive

LEMMA FailStep ==
    ASSUME AddressInv, NEW u \in Users, proc[u].pc = "look", Fail(u),
           UNCHANGED <<saved, windows, routes>>
    PROVE  StepKeeps
<1>1. \A s \in Subnets : proc[u].plan[s] = "none"
  BY NoPlans
<1>2. CASE proc[u].intent
  <2>1. Goto(u, "status") /\ UNCHANGED locks
    BY <1>2 DEF Fail
  <2>2. proc'[u].pc = "status" /\ SameLocals(u)
    BY <2>1, GotoFacts, ActorsApart DEF AddressInv, ControlInv, PCs
  <2>3. UserIntent(u)'
    BY <1>2, <2>2 DEF AddressInv, ControlInv, UserInv, UserIntent, SameLocals, InTemp
  <2> QED BY <1>1, <2>1, <2>3, QuietGoto DEF WorkPcs
<1>3. CASE ~proc[u].intent
  <2>1. PICK g \in BOOLEAN : Done(u, g)
    BY <1>3 DEF Fail
  <2> QED BY <1>1, <2>1, QuietDone DEF WorkPcs
<1> QED BY <1>2, <1>3

\* The plan of the one row that a removal is about.
PlanRow(u, s, plan, intent) ==
    proc' = [proc EXCEPT ![u] = [proc[u] EXCEPT !.pc = "row", !.after = "end",
                !.intent = intent, !.sub = s, !.plan = [proc[u].plan EXCEPT ![s] = plan]]]

LEMMA PlanMade ==
    ASSUME AddressInv, NEW u \in Users, proc[u].pc = "look", NEW s \in Subnets,
           NEW plan \in Plans \ {"none"}, NEW intent \in BOOLEAN, UNCHANGED locks,
           PlanRow(u, s, plan, intent),
           saved'.nic = saved.nic, saved'.row[s] # None,
           plan \notin {"hold", "unavailable"} => saved'.row[s].owner \in {None, saved.nic},
           plan = "add" => saved'.row[s].desired = "present",
           plan = "absent" => <<saved.nic, saved'.row[s].addr>> \notin mine'
    PROVE  ControlInv'
<1>1. /\ discovery = u /\ work = u /\ work # Adopter /\ proc[u].op # "select" /\ ~Selecting
      /\ u \in Actors /\ ControlType /\ proc[u] \in Locals /\ proc[u].addr \in Addrs
  BY WorkFacts DEF WorkPcs
<1>2. \A r \in Subnets : proc[u].plan[r] = "none"
  BY NoPlans
<1> DEFINE f == [proc[u].plan EXCEPT ![s] = plan]
           l == [proc[u] EXCEPT !.pc = "row", !.after = "end", !.intent = intent, !.sub = s,
                                !.plan = f]
<1>3. f \in [Subnets -> Plans] /\ \A r \in Subnets : f[r] = IF r = s THEN plan ELSE "none"
  BY <1>1, <1>2 DEF Locals
<1> HIDE DEF f
<1>4. /\ l \in Locals /\ l.pc = "row" /\ l.plan = f /\ l.op = proc[u].op /\ l.sub = s
      /\ l.addr = proc[u].addr /\ l.nic = proc[u].nic
  <2>1. "row" \in PCs /\ "end" \in PCs
    BY DEF PCs
  <2> QED BY <1>1, <1>3, <2>1 DEF Locals
<1>5. proc' = [proc EXCEPT ![u] = l]
  BY DEF f, PlanRow
<1> HIDE DEF l
<1>6. proc' \in [Actors -> Locals] /\ Others(u) /\ proc'[u] = l
  BY <1>1, <1>4, <1>5, MovedFacts
<1>7. proc'[Adopter] = proc[Adopter]
  BY <1>6, ActorsApart DEF Others
<1>8. UserLocks(u)'
  BY <1>1, <1>4, <1>6
     DEF AddressInv, ControlInv, UserInv, UserLocks, UserPcs, WorkPcs, locks
<1>9. UserSections(u)' /\ UserIntent(u)'
  BY <1>1, <1>4, <1>6, <1>7
     DEF AddressInv, ControlInv, UserInv, UserSections, UserIntent, InTemp
<1>10. \A r \in Subnets : PlanSound(u, r)'
  BY <1>3, <1>4, <1>6 DEF PlanSound
<1> QED BY <1>1, <1>4, <1>6, <1>8, <1>9, <1>10, WorkControl DEF UserInv, WorkPcs

LEMMA LookStep ==
    ASSUME AddressInv, NEW u \in Users, Look(u)
    PROVE  StepKeeps
<1> DEFINE a == proc[u].addr
           s == SubnetOf[a]
           add == proc[u].op = "add"
           refuse == IF add THEN ~up \/ dhcp \/ saved.mode = "dhcp"
                                 \/ \E n \in Nics \ {saved.nic} : <<n, a>> \in os
                     ELSE <<saved.nic, a>> \in saved.pending
           new == PendingRemoval([desired |-> "present", applied |-> TRUE, err |-> FALSE,
                                  addr |-> a, owner |-> saved.nic])
<1>1. proc[u].pc = "look" /\ UNCHANGED windows
  BY DEF Look
<1>2. /\ proc[u].op # "select" /\ u \in Actors /\ ControlType /\ proc[u] \in Locals /\ DataType
      /\ saved \in Settings /\ proc[u].addr \in Addrs /\ proc[u].sub \in Subnets
      /\ \A r \in Subnets : RouteLive(r)
  BY <1>1, WorkFacts DEF WorkPcs
<1>3. /\ \A r \in Subnets : proc[u].plan[r] = "none"
      /\ proc[u].intent => saved.row[proc[u].sub] # None
  BY <1>1, NoPlans DEF AddressInv, ControlInv, UserInv, UserIntent
<1>4. \/ Fail(u) /\ UNCHANGED <<saved, routes>>
      \/ /\ proc[u].intent
         /\ proc' = [proc EXCEPT ![u].pc = "row", ![u].after = "end", ![u].plan =
                [@ EXCEPT ![proc[u].sub] =
                    BindingAction(proc[u].sub, saved.row[proc[u].sub], TRUE)]]
         /\ UNCHANGED <<saved, routes, locks>>
      \/ /\ ~refuse /\ ~proc[u].intent /\ ~add /\ saved.row[s] = None
         /\ \E ok \in BOOLEAN :
              /\ Persist(SetBinding(saved, s, new), ok)
              /\ IF ok
                 THEN /\ proc' = [proc EXCEPT ![u].pc = "row", ![u].after = "end",
                            ![u].intent = TRUE, ![u].sub = s, ![u].plan = [@ EXCEPT ![s] = "remove"]]
                      /\ UNCHANGED locks
                 ELSE Done(u, FALSE)
         /\ UNCHANGED routes
      \/ ~proc[u].intent /\ Goto(u, "native") /\ UNCHANGED <<saved, routes, locks>>
  BY Zenon DEF Look
<1>5. CASE Fail(u) /\ UNCHANGED <<saved, routes>>
  BY <1>1, <1>5, FailStep
<1>6. CASE /\ proc[u].intent
           /\ proc' = [proc EXCEPT ![u].pc = "row", ![u].after = "end", ![u].plan =
                  [@ EXCEPT ![proc[u].sub] =
                      BindingAction(proc[u].sub, saved.row[proc[u].sub], TRUE)]]
           /\ UNCHANGED <<saved, routes, locks>>
  <2>1. PICK seen \in BOOLEAN : seen = TRUE
    OBVIOUS
  <2> DEFINE r == proc[u].sub
             plan == BindingAction(r, saved.row[r], seen)
             i == proc[u].intent
  <2>2. /\ plan \in Plans \ {"none"}
        /\ plan \notin {"hold", "unavailable"} => saved.row[r].owner \in {None, saved.nic}
        /\ plan = "add" => saved.row[r].desired = "present"
        /\ plan = "absent" => <<saved.nic, saved.row[r].addr>> \notin mine
    BY <1>2, <1>3, <1>6, BindingFacts
  <2>3. proc' = [proc EXCEPT ![u] = [proc[u] EXCEPT !.pc = "row", !.after = "end",
                   !.plan = [proc[u].plan EXCEPT ![r] = plan]]]
    BY <1>2, <1>6, <2>1 DEF ControlType
  <2> HIDE DEF plan
  <2>4. [proc[u] EXCEPT !.pc = "row", !.after = "end", !.plan = [proc[u].plan EXCEPT ![r] = plan]]
        = [proc[u] EXCEPT !.pc = "row", !.after = "end", !.intent = i, !.sub = r,
                          !.plan = [proc[u].plan EXCEPT ![r] = plan]]
    BY <1>2 DEF Locals
  <2>5. i \in BOOLEAN
    BY <1>2 DEF Locals
  <2>6. PlanRow(u, r, plan, i)
    BY <2>3, <2>4 DEF PlanRow
  <2>7. ControlInv'
    BY <1>1, <1>2, <1>3, <1>6, <2>2, <2>5, <2>6, PlanMade DEF windows
  <2> QED BY <1>1, <1>6, <2>7, QuietStep, WorkFacts DEF WorkPcs
<1>7. ASSUME ~refuse, ~proc[u].intent, ~add, saved.row[s] = None, UNCHANGED routes,
             NEW ok \in BOOLEAN, Persist(SetBinding(saved, s, new), ok),
             IF ok
             THEN /\ proc' = [proc EXCEPT ![u].pc = "row", ![u].after = "end",
                        ![u].intent = TRUE, ![u].sub = s, ![u].plan = [@ EXCEPT ![s] = "remove"]]
                  /\ UNCHANGED locks
             ELSE Done(u, FALSE)
      PROVE  StepKeeps
  <2>1. CASE ~ok
    <3>1. PICK g \in BOOLEAN : Done(u, g)
      BY <1>7, <2>1
    <3>2. UNCHANGED <<saved, routes>>
      BY <1>7, <2>1 DEF Persist
    <3> QED BY <1>1, <1>3, <3>1, <3>2, QuietDone DEF WorkPcs
  <2>2. CASE ok
    <3>1. /\ saved' = SetBinding(saved, s, new) /\ UNCHANGED locks
      BY <1>7, <2>2 DEF Persist
    <3>2. /\ new \in Row /\ new.desired = "removed" /\ new.err /\ new.addr = a
          /\ new.owner = saved.nic /\ saved.nic \in Nics
      <4>1. PICK t \in BOOLEAN, f \in BOOLEAN : t = TRUE /\ f = FALSE
        OBVIOUS
      <4>2. new = [[desired |-> "present", applied |-> t, err |-> f, addr |-> a,
                    owner |-> saved.nic] EXCEPT !.desired = "removed", !.err = t]
        BY <4>1 DEF PendingRemoval
      <4> HIDE DEF new
      <4> QED BY <1>2, <4>1, <4>2 DEF Row, Settings
    <3> HIDE DEF new
    <3>3. s \in Subnets /\ new.owner # None /\ <<new.owner, new.addr>> \notin saved.pending
      BY <1>2, <1>7, <3>2, ConstantsAssumption
    <3>4. routes' = [routes EXCEPT ![s] = None]
      BY <1>2, <1>7, <3>3 DEF RouteLive, DataType
    <3>5. /\ DataType' /\ RowsFiled' /\ LedgerStep
          /\ saved'.nic = saved.nic /\ saved'.row[s] = new /\ saved'.row[s] # None
          /\ \A r \in Subnets : RouteLive(r)' /\ RemovalKept(r)
      BY <1>1, <1>2, <1>7, <3>1, <3>2, <3>3, <3>4, RemovalSaved
    <3>6. PICK t \in BOOLEAN : PlanRow(u, s, "remove", t)
      BY <1>2, <1>7, <2>2 DEF ControlType, PlanRow
    <3>7. "remove" \in Plans
      BY DEF Plans
    <3>8. ControlInv'
      BY <1>1, <3>1, <3>2, <3>3, <3>5, <3>6, <3>7, PlanMade
    <3> QED BY <3>5, <3>8, WorkKeeps
  <2> QED BY <2>1, <2>2
<1>8. CASE ~proc[u].intent /\ Goto(u, "native") /\ UNCHANGED <<saved, routes, locks>>
  BY <1>1, <1>3, <1>8, QuietGoto DEF WorkPcs
<1> QED BY <1>4, <1>5, <1>6, <1>7, <1>8

LEMMA NativeUserStep ==
    ASSUME AddressInv, NEW u \in Users, Native(u)
    PROVE  StepKeeps
<1> DEFINE x == <<saved.nic, proc[u].addr>>
           want == IF proc[u].op = "add" THEN os \cup {x} ELSE os \ {x}
<1>1. proc[u].pc = "native" /\ UNCHANGED <<saved, dhcp, routes, locks>>
  BY DEF Native
<1>2. /\ discovery = u /\ work = u /\ proc[u].op # "select" /\ ~Selecting /\ u \in Actors
      /\ ControlType /\ proc[u] \in Locals /\ DataType /\ saved \in Settings
      /\ proc[u].addr \in Addrs
  BY <1>1, WorkFacts DEF WorkPcs
<1>3. /\ ~proc[u].intent /\ \A r \in Subnets : proc[u].plan[r] = "none"
  BY <1>1, NoPlans DEF AddressInv, ControlInv, UserInv, UserIntent
<1>4. PICK applied \in BOOLEAN, ok \in BOOLEAN, auto \in BOOLEAN :
        /\ ~auto
        /\ \/ UNCHANGED <<os, mine, up, doubt>> \/ Command(want, auto, applied, ok)
        /\ proc' = [proc EXCEPT ![u].pc = "observe", ![u].good = ok]
  BY DEF Native
<1>5. want \in SUBSET Pair
  BY <1>2 DEF DataType, Settings, Pair
<1> HIDE DEF want
<1>6. /\ os' \subseteq Pair /\ mine' \subseteq os' /\ doubt' \in BOOLEAN /\ up' = up
      /\ mine' \subseteq mine
  <2>1. CASE UNCHANGED <<os, mine, up, doubt>>
    BY <1>2, <2>1 DEF DataType
  <2>2. CASE Command(want, auto, applied, ok)
    BY <1>2, <1>4, <1>5, <2>2, CommandFacts
  <2> QED BY <1>4, <2>1, <2>2
<1> DEFINE l == [proc[u] EXCEPT !.pc = "observe", !.good = ok]
<1>7. proc' = [proc EXCEPT ![u] = l]
  BY <1>2, <1>4 DEF ControlType
<1>8. /\ l \in Locals /\ l.pc = "observe" /\ l.op = proc[u].op /\ l.addr = proc[u].addr
      /\ l.sub = proc[u].sub /\ l.nic = proc[u].nic /\ l.intent = proc[u].intent
      /\ l.plan = proc[u].plan
  <2>1. "observe" \in PCs
    BY DEF PCs
  <2> QED BY <1>2, <2>1 DEF Locals
<1> HIDE DEF l
<1>9. proc' \in [Actors -> Locals] /\ Others(u) /\ proc'[u] = l
  BY <1>2, <1>7, <1>8, MovedFacts
<1>10. proc'[Adopter] = proc[Adopter]
  BY <1>9, ActorsApart DEF Others
<1>11. UserSections(u)' /\ UserIntent(u)'
  BY <1>1, <1>2, <1>3, <1>8, <1>9, <1>10
     DEF AddressInv, ControlInv, UserInv, UserSections, UserIntent, InTemp
<1>12. UserInv(u)'
  BY <1>1, <1>2, <1>3, <1>8, <1>9, <1>11, UserMoves DEF SameRequest, UserPcs, WorkPcs, locks
<1>13. ControlInv'
  BY <1>1, <1>2, <1>8, <1>9, <1>12, WorkControl DEF WorkPcs
<1> QED BY <1>1, <1>2, <1>6, <1>13, NativeStep DEF DataType

\* The user takes an address over: its records go with the history entry.
LEMMA ClaimStep ==
    ASSUME AddressInv, \A r \in Subnets : RouteLive(r), NEW a \in Addrs,
           NEW u \in Users, proc[u].pc \in {"observe", "primary"}, work = u, proc[u].addr = a,
           saved' = Claimed(saved, a), mine' = mine \ {<<saved.nic, a>>},
           routes' = Without(routes, ClaimedRows(saved, a)), UNCHANGED <<os, up, dhcp, doubt>>
    PROVE  /\ DataType' /\ RowsFiled' /\ LedgerStep /\ saved'.nic = saved.nic
           /\ \A r \in Subnets : RouteLive(r)' /\ RemovalKept(r)
<1> DEFINE x == <<saved.nic, a>>
           C == ClaimedRows(saved, a)
<1>1. saved \in Settings /\ saved.nic \in Nics
  BY DEF AddressInv, DataType, Settings
<1>2. /\ saved' \in Settings /\ saved'.nic = saved.nic /\ saved'.pending = saved.pending \ {x}
      /\ \A r \in Subnets : saved'.row[r] = IF r \in C THEN None ELSE saved.row[r]
  <2>1. /\ Claimed(saved, a) \in Settings /\ Claimed(saved, a).nic = saved.nic
        /\ Claimed(saved, a).pending = saved.pending \ {x}
        /\ Claimed(saved, a).row = [r \in Subnets |-> IF r \in C THEN None ELSE saved.row[r]]
    BY <1>1, ClaimedFacts, Zenon
  <2> HIDE DEF C
  <2> QED BY <2>1
<1>3. \A r \in Subnets : r \in C <=> /\ saved.row[r] # None /\ saved.row[r].addr = a
                                     /\ saved.row[r].owner \in {None, saved.nic}
  BY DEF ClaimedRows, RowsOf
<1> HIDE DEF C
<1>4. routes' = [r \in Subnets |-> IF r \in C THEN None ELSE routes[r]]
  BY DEF Without, C
<1>5. DataType'
  BY <1>2, <1>4 DEF AddressInv, DataType
<1>6. RowsFiled'
  <2>1. ASSUME NEW r \in Subnets, saved'.row[r] # None
        PROVE  /\ SubnetOf[saved'.row[r].addr] = r
               /\ saved'.row[r].owner = None =>
                    saved'.row[r].desired = "present" /\ saved'.row[r].addr \in LegacyAddrs
    BY <1>2, <2>1 DEF AddressInv, RowsFiled
  <2>2. ASSUME NEW y \in saved'.pending PROVE ~Owned(y)'
    <3>1. y \in saved.pending /\ ~Owned(y)
      BY <1>2 DEF AddressInv, RowsFiled
    <3> QED BY <1>2, <3>1 DEF Owned, RowsOf
  <2> QED BY <2>1, <2>2 DEF RowsFiled
<1>7. \A r \in Subnets : RouteLive(r)'
  BY <1>2, <1>4 DEF RouteLive
<1>8. \A r \in Subnets : RemovalKept(r)
  BY <1>2, <1>3 DEF RemovalKept
<1>9. LedgerStep
  <2>1. x \in Pair
    BY <1>1 DEF Pair
  <2>2. \A r \in Subnets : Answers(r)' <=> Answers(r) /\ r \notin C
    BY <1>2 DEF Answers, RemovalComplete
  <2>3. \A r \in Subnets : r \notin C => RowPair(r)' = RowPair(r)
    BY <1>2 DEF RowPair
  <2>4. \A r \in Subnets : Answers(r) => (r \in C <=> RowPair(r) = x)
    BY <1>1, <1>3, ConstantsAssumption DEF Answers, RowPair
  <2>5. Recorded' = Recorded \ {x}
    BY <1>2, <2>2, <2>3, <2>4, RecordedFacts, RecordedNext
  <2> QED BY <2>1, <2>5, LedgerClaim
<1> QED BY <1>2, <1>5, <1>6, <1>7, <1>8, <1>9

LEMMA ObserveStep ==
    ASSUME AddressInv, NEW u \in Users, Observe(u)
    PROVE  StepKeeps
<1> DEFINE a == proc[u].addr
<1>1. proc[u].pc = "observe" /\ UNCHANGED <<os, up, dhcp, doubt>>
  BY DEF Observe
<1>2. /\ work = u /\ proc[u].op # "select" /\ a \in Addrs /\ \A r \in Subnets : RouteLive(r)
      /\ saved \in Settings
  BY <1>1, WorkFacts DEF WorkPcs
<1>3. \A r \in Subnets : proc[u].plan[r] = "none"
  BY <1>1, NoPlans
<1>4. PICK good \in BOOLEAN : Done(u, good)
  <2>1. \/ Done(u, FALSE) \/ Done(u, proc[u].good)
        \/ Done(u, proc[u].good /\ (OnNic(a) <=> proc[u].op = "add"))
    BY DEF Observe
  <2>2. /\ FALSE \in BOOLEAN /\ proc[u].good \in BOOLEAN
        /\ (proc[u].good /\ (OnNic(a) <=> proc[u].op = "add")) \in BOOLEAN
    BY ActorsApart DEF AddressInv, ControlInv, ControlType, Locals
  <2> QED BY <2>1, <2>2, Zenon
<1>5. \/ UNCHANGED <<saved, mine, routes>>
      \/ /\ saved' = Claimed(saved, a) /\ mine' = mine \ {<<saved.nic, a>>}
         /\ routes' = Without(routes, ClaimedRows(saved, a))
  BY DEF Observe, Persist
<1>6. CASE UNCHANGED <<saved, mine, routes>>
  BY <1>1, <1>3, <1>4, <1>6, QuietDone DEF WorkPcs, windows
<1>7. CASE /\ saved' = Claimed(saved, a) /\ mine' = mine \ {<<saved.nic, a>>}
           /\ routes' = Without(routes, ClaimedRows(saved, a))
  <2>1. /\ DataType' /\ RowsFiled' /\ LedgerStep /\ saved'.nic = saved.nic
        /\ \A r \in Subnets : RouteLive(r)' /\ RemovalKept(r)
    BY <1>1, <1>2, <1>7, ClaimStep
  <2>2. ControlInv'
    BY <1>1, <1>2, <1>3, <1>4, <2>1, DoneControl DEF WorkPcs
  <2> QED BY <2>1, <2>2, WorkKeeps
<1> QED BY <1>5, <1>6, <1>7

\* A row that answers for nothing is dropped.
LEMMA RowForgotten ==
    ASSUME AddressInv, NEW s \in Subnets, saved.row[s] # None,
           \/ saved.row[s].owner = None
           \/ RemovalComplete(saved.row[s]) /\ <<saved.nic, saved.row[s].addr>> \notin os,
           saved' = ForgetRow(saved, s), routes' = [routes EXCEPT ![s] = None],
           UNCHANGED windows
    PROVE  /\ DataType' /\ RowsFiled' /\ LedgerStep
           /\ saved'.nic = saved.nic /\ saved'.pending = saved.pending
           /\ saved'.row[s] = None /\ \A r \in Subnets : r # s => saved'.row[r] = saved.row[r]
           /\ \A r \in Subnets : RemovalKept(r) /\ (RouteLive(r) => RouteLive(r)')
<1>1. saved \in Settings /\ saved.row \in [Subnets -> Row \cup {None}]
  BY DEF AddressInv, DataType, Settings
<1>2. /\ saved' \in Settings /\ saved'.nic = saved.nic /\ saved'.pending = saved.pending
      /\ saved'.row[s] = None /\ \A r \in Subnets : r # s => saved'.row[r] = saved.row[r]
  BY <1>1, ForgetFacts
<1>3. DataType'
  BY <1>2 DEF AddressInv, DataType, windows
<1>4. RowsFiled'
  <2>1. ASSUME NEW r \in Subnets, saved'.row[r] # None
        PROVE  /\ SubnetOf[saved'.row[r].addr] = r
               /\ saved'.row[r].owner = None =>
                    saved'.row[r].desired = "present" /\ saved'.row[r].addr \in LegacyAddrs
    BY <1>2, <2>1 DEF AddressInv, RowsFiled
  <2>2. ASSUME NEW y \in saved'.pending PROVE ~Owned(y)'
    <3>1. y \in saved.pending /\ ~Owned(y)
      BY <1>2 DEF AddressInv, RowsFiled
    <3> QED BY <1>2, <3>1 DEF Owned, RowsOf
  <2> QED BY <2>1, <2>2 DEF RowsFiled
<1>5. \A r \in Subnets : RouteLive(r) => RouteLive(r)'
  BY <1>2 DEF RouteLive, AddressInv, DataType
<1>6. \A r \in Subnets : RemovalKept(r)
  <2>1. saved.row[s].desired = "removed" =>
          RemovalComplete(saved.row[s]) /\ <<saved.nic, saved.row[s].addr>> \notin os
    BY DEF AddressInv, RowsFiled
  <2> QED BY <1>2, <2>1 DEF RemovalKept
<1>7. LedgerStep
  <2>1. /\ ~Answers(s)' /\ ~Answers(s)
        /\ \A r \in Subnets : r # s => (Answers(r)' <=> Answers(r)) /\ RowPair(r)' = RowPair(r)
    BY <1>2 DEF Answers, RowPair, RemovalComplete
  <2>2. Recorded' = Recorded
    BY <1>2, <2>1, RecordedFacts, RecordedNext
  <2> QED BY <2>2, LedgerSame DEF windows
<1> QED BY <1>2, <1>3, <1>4, <1>5, <1>6, <1>7

LEMMA ForgetStep ==
    ASSUME AddressInv, NEW u \in Users, Forget(u)
    PROVE  StepKeeps
<1> DEFINE s == proc[u].sub
<1>1. proc[u].pc = "forget" /\ UNCHANGED windows
  BY DEF Forget
<1>2. /\ proc[u].op # "select" /\ s \in Subnets /\ \A r \in Subnets : RouteLive(r)
      /\ saved.row[s] # None /\ saved.row[s].owner = None
  BY <1>1, WorkFacts DEF WorkPcs, AddressInv, ControlInv, UserInv, UserIntent
<1>3. \A r \in Subnets : proc[u].plan[r] = "none"
  BY <1>1, NoPlans
<1>4. PICK good \in BOOLEAN : Done(u, good)
  BY DEF Forget
<1>5. \/ UNCHANGED <<saved, routes>>
      \/ saved' = ForgetRow(saved, s) /\ routes' = [routes EXCEPT ![s] = None]
  BY DEF Forget, Persist
<1>6. CASE UNCHANGED <<saved, routes>>
  BY <1>1, <1>3, <1>4, <1>6, QuietDone DEF WorkPcs
<1>7. CASE saved' = ForgetRow(saved, s) /\ routes' = [routes EXCEPT ![s] = None]
  <2>1. /\ DataType' /\ RowsFiled' /\ LedgerStep /\ saved'.nic = saved.nic
        /\ \A r \in Subnets : RouteLive(r)' /\ RemovalKept(r)
    BY <1>1, <1>2, <1>7, RowForgotten
  <2>2. ControlInv'
    BY <1>1, <1>2, <1>3, <1>4, <2>1, DoneControl DEF WorkPcs
  <2> QED BY <2>1, <2>2, WorkKeeps
<1> QED BY <1>5, <1>6, <1>7

-----------------------------------------------------------------------------
(***************************************************************************)
(* The mode transition and the refresh.                                    *)
(***************************************************************************)

LEMMA ObserveControl ==
    ASSUME AddressInv, NEW u \in Users, proc[u].pc \in {"mode", "primary", "setMode"},
           ObserveAll(u), UNCHANGED locks, saved'.nic = saved.nic
    PROVE  ControlInv' /\ ~Selecting'
<1>1. /\ discovery = u /\ work = u /\ proc[u].op # "select" /\ ~Selecting
      /\ u \in Actors /\ ControlType /\ saved.pending \in SUBSET Pair
  BY WorkFacts DEF WorkPcs
<1>2. \A s \in Subnets : proc[u].plan[s] = "none"
  BY NoPlans
<1>3. ToTemp(u, saved.pending, "rows") /\ "rows" \in PCs
  BY DEF ObserveAll, ToTemp, PCs
<1>4. /\ proc' \in [Actors -> Locals] /\ Others(u) /\ SameRequest(u)
      /\ proc'[u].pc = "temp" /\ proc'[u].after = "rows" /\ proc'[u].op = proc[u].op
  BY <1>1, <1>3, TempFacts
<1>5. proc'[Adopter] = proc[Adopter]
  BY <1>4, ActorsApart DEF Others
<1>6. UserSections(u)' /\ UserIntent(u)'
  BY <1>1, <1>4, <1>5
     DEF AddressInv, ControlInv, UserInv, UserSections, UserIntent, InTemp, SameRequest
<1>7. UserInv(u)'
  BY <1>1, <1>2, <1>4, <1>6, UserMoves DEF UserPcs, WorkPcs, locks
<1>8. ControlInv'
  BY <1>1, <1>4, <1>7, WorkControl DEF WorkPcs
<1>9. ~Selecting'
  <2>1. \A v \in Users : v # u => proc'[v].pc \in {"idle", "op"}
    BY <1>1, <1>4, OutsideFacts, ActorsApart DEF Others
  <2> QED BY <1>1, <1>4, <2>1 DEF Selecting
<1> QED BY <1>8, <1>9

LEMMA ModeCommandStep ==
    ASSUME AddressInv, NEW u \in Users, ModeCommand(u)
    PROVE  StepKeeps
<1> DEFINE x == <<saved.nic, proc[u].addr>>
           toDhcp == proc[u].mode = "dhcp"
           want == IF toDhcp THEN {y \in os : y[1] # saved.nic} ELSE os \cup {x}
<1>1. proc[u].pc = "mode" /\ UNCHANGED <<saved, routes, locks>>
  BY DEF ModeCommand
<1>2. /\ discovery = u /\ work = u /\ proc[u].op # "select" /\ ~Selecting /\ u \in Actors
      /\ ControlType /\ proc[u] \in Locals /\ DataType /\ saved \in Settings
      /\ proc[u].addr \in Addrs
  BY <1>1, WorkFacts DEF WorkPcs
<1>3. /\ ~proc[u].intent /\ \A r \in Subnets : proc[u].plan[r] = "none"
  BY <1>1, NoPlans DEF AddressInv, ControlInv, UserInv, UserIntent
<1>4. \/ ObserveAll(u) /\ UNCHANGED windows
      \/ \E applied, ok \in BOOLEAN, prev \in {None} \cup Addrs :
           /\ Command(want, FALSE, applied, ok)
           /\ dhcp' = IF applied THEN toDhcp ELSE dhcp
           /\ IF ~ok THEN ObserveAll(u)
              ELSE proc' = [proc EXCEPT ![u].prev = prev,
                             ![u].pc = IF toDhcp THEN "setMode" ELSE "primary"]
  BY DEF ModeCommand
<1>5. CASE ObserveAll(u) /\ UNCHANGED windows
  <2>1. ControlInv'
    BY <1>1, <1>5, ObserveControl
  <2> QED BY <1>1, <1>2, <1>5, <2>1, QuietStep
<1>6. ASSUME NEW applied \in BOOLEAN, NEW ok \in BOOLEAN, NEW prev \in {None} \cup Addrs,
             Command(want, FALSE, applied, ok),
             dhcp' = IF applied THEN toDhcp ELSE dhcp,
             IF ~ok THEN ObserveAll(u)
             ELSE proc' = [proc EXCEPT ![u].prev = prev,
                            ![u].pc = IF toDhcp THEN "setMode" ELSE "primary"]
      PROVE  StepKeeps
  <2>1. want \in SUBSET Pair
    BY <1>2 DEF DataType, Settings, Pair
  <2>2. dhcp' \in BOOLEAN
    <3>1. toDhcp \in BOOLEAN /\ dhcp \in BOOLEAN
      BY <1>2 DEF DataType
    <3> HIDE DEF toDhcp
    <3> QED BY <1>6, <3>1
  <2> HIDE DEF want
  <2>3. /\ os' \subseteq Pair /\ mine' \subseteq os' /\ doubt' \in BOOLEAN /\ up' = up
        /\ mine' \subseteq mine
    <3>1. PICK auto \in BOOLEAN : ~auto /\ Command(want, auto, applied, ok)
      BY <1>6
    <3> QED BY <1>2, <2>1, <3>1, CommandFacts
  <2>4. ControlInv'
    <3>1. CASE ~ok
      BY <1>1, <1>6, <3>1, ObserveControl
    <3>2. CASE ok
      <4> DEFINE pc == IF toDhcp THEN "setMode" ELSE "primary"
                 l == [proc[u] EXCEPT !.prev = prev, !.pc = pc]
      <4>1. proc' = [proc EXCEPT ![u] = l] /\ pc \in {"setMode", "primary"}
        BY <1>2, <1>6, <3>2 DEF ControlType
      <4> HIDE DEF pc
      <4>2. /\ l \in Locals /\ l.pc = pc /\ l.op = proc[u].op /\ l.addr = proc[u].addr
            /\ l.sub = proc[u].sub /\ l.nic = proc[u].nic /\ l.intent = proc[u].intent
            /\ l.plan = proc[u].plan
        <5>1. pc \in PCs
          BY <4>1 DEF PCs
        <5> QED BY <1>2, <1>6, <5>1 DEF Locals
      <4> HIDE DEF l
      <4>3. proc' \in [Actors -> Locals] /\ Others(u) /\ proc'[u] = l
        BY <1>2, <4>1, <4>2, MovedFacts
      <4>4. proc'[Adopter] = proc[Adopter]
        BY <4>3, ActorsApart DEF Others
      <4>5. UserSections(u)' /\ UserIntent(u)'
        BY <1>1, <1>2, <1>3, <4>1, <4>2, <4>3, <4>4
           DEF AddressInv, ControlInv, UserInv, UserSections, UserIntent, InTemp
      <4>6. UserInv(u)'
        BY <1>1, <1>2, <1>3, <4>1, <4>2, <4>3, <4>5, UserMoves
           DEF SameRequest, UserPcs, WorkPcs, locks
      <4> QED BY <1>1, <1>2, <4>2, <4>3, <4>6, WorkControl DEF WorkPcs
    <3> QED BY <3>1, <3>2
  <2> QED BY <1>1, <1>2, <2>2, <2>3, <2>4, NativeStep DEF DataType
<1> QED BY <1>4, <1>5, <1>6

LEMMA PrimaryStep ==
    ASSUME AddressInv, NEW u \in Users, Primary(u)
    PROVE  StepKeeps
<1> DEFINE a == proc[u].addr
           prev == proc[u].prev
<1>1. proc[u].pc = "primary" /\ UNCHANGED <<os, up, dhcp, doubt, locks>>
  BY DEF Primary
<1>2. /\ discovery = u /\ work = u /\ proc[u].op # "select" /\ ~Selecting /\ u \in Actors
      /\ ControlType /\ proc[u] \in Locals /\ a \in Addrs /\ proc[u].sub \in Subnets
      /\ \A r \in Subnets : RouteLive(r)
  BY <1>1, WorkFacts DEF WorkPcs
<1>3. /\ ~proc[u].intent /\ (\A r \in Subnets : proc[u].plan[r] = "none") /\ proc[u].op = "mode"
  BY <1>1, NoPlans DEF AddressInv, ControlInv, UserInv, UserIntent, UserSections
<1>4. CASE ObserveAll(u) /\ UNCHANGED <<saved, mine, routes>>
  <2>1. ControlInv'
    BY <1>1, <1>4, ObserveControl
  <2> QED BY <1>1, <1>2, <1>4, <2>1, QuietStep DEF windows
<1>5. CASE ~(ObserveAll(u) /\ UNCHANGED <<saved, mine, routes>>)
  <2>1. /\ saved' = Claimed(saved, a) /\ mine' = mine \ {<<saved.nic, a>>}
        /\ routes' = Without(routes, ClaimedRows(saved, a))
        /\ proc' = IF prev \in {None, a} THEN [proc EXCEPT ![u].pc = "setMode"]
                   ELSE [proc EXCEPT ![u].pc = "target", ![u].op = "modeRemove",
                                     ![u].addr = prev]
    BY <1>5 DEF Primary, Persist
  <2>2. /\ DataType' /\ RowsFiled' /\ LedgerStep /\ saved'.nic = saved.nic
        /\ \A r \in Subnets : RouteLive(r)' /\ RemovalKept(r)
    BY <1>1, <1>2, <2>1, ClaimStep
  <2> DEFINE l == IF prev \in {None, a} THEN [proc[u] EXCEPT !.pc = "setMode"]
                  ELSE [proc[u] EXCEPT !.pc = "target", !.op = "modeRemove", !.addr = prev]
  <2>3. proc' = [proc EXCEPT ![u] = l]
    BY <1>2, <2>1 DEF ControlType
  <2>4. /\ l \in Locals /\ l.addr \in Addrs /\ l.sub = proc[u].sub /\ l.nic = proc[u].nic
        /\ l.intent = proc[u].intent /\ l.plan = proc[u].plan
        /\ \/ l.pc = "setMode" /\ l.op = "mode"
           \/ l.pc = "target" /\ l.op = "modeRemove"
    <3>1. "setMode" \in PCs /\ "target" \in PCs /\ prev \in Addrs \cup {None}
      BY <1>2 DEF PCs, Locals
    <3>2. CASE prev \in {None, a}
      BY <1>2, <1>3, <3>1, <3>2 DEF Locals
    <3>3. CASE prev \notin {None, a}
      BY <1>2, <3>1, <3>3 DEF Locals
    <3> QED BY <3>2, <3>3
  <2> HIDE DEF l
  <2>5. proc' \in [Actors -> Locals] /\ Others(u) /\ proc'[u] = l
    BY <1>2, <2>3, <2>4, MovedFacts
  <2>6. proc'[Adopter] = proc[Adopter]
    BY <2>5, ActorsApart DEF Others
  <2>7. UserLocks(u)'
    BY <1>1, <1>2, <2>4, <2>5 DEF AddressInv, ControlInv, UserInv, UserLocks, UserPcs, WorkPcs, locks
  <2>8. UserSections(u)'
    BY <1>1, <1>3, <2>4, <2>5, <2>6
       DEF AddressInv, ControlInv, UserInv, UserSections, InTemp, SessionOps
  <2>9. UserIntent(u)' /\ \A r \in Subnets : PlanSound(u, r)'
    BY <1>3, <2>4, <2>5 DEF UserIntent, PlanSound
  <2>10. ControlInv'
    BY <1>1, <1>2, <2>2, <2>4, <2>5, <2>7, <2>8, <2>9, WorkControl DEF UserInv, WorkPcs
  <2> QED BY <2>2, <2>10, WorkKeeps
<1> QED BY <1>4, <1>5

LEMMA SetModeStep ==
    ASSUME AddressInv, NEW u \in Users, SetMode(u)
    PROVE  StepKeeps
<1>1. proc[u].pc = "setMode" /\ ObserveAll(u) /\ UNCHANGED <<windows, routes, locks>>
  BY DEF SetMode
<1>2. proc[u] \in Locals /\ saved \in Settings /\ \A r \in Subnets : RouteLive(r)
  BY <1>1, WorkFacts DEF WorkPcs
<1>3. saved' = saved \/ saved' = [saved EXCEPT !.mode = proc[u].mode]
  BY DEF SetMode, Persist
<1>4. /\ saved' \in Settings /\ saved'.nic = saved.nic /\ saved'.row = saved.row
      /\ saved'.pending = saved.pending
  BY <1>2, <1>3 DEF Settings, Locals
<1>5. ControlInv'
  BY <1>1, <1>4, ObserveControl
<1>6. DataType' /\ RowsFiled'
  BY <1>1, <1>4 DEF AddressInv, DataType, RowsFiled, Owned, RowsOf, windows
<1>7. LedgerStep /\ \A r \in Subnets : RemovalKept(r)
  BY <1>1, <1>4, FileSame, LedgerSame DEF windows
<1>8. \A r \in Subnets : RouteLive(r)'
  BY <1>1, <1>2, <1>4 DEF RouteLive
<1> QED BY <1>5, <1>6, <1>7, <1>8, WorkKeeps

LEMMA RefreshStep ==
    ASSUME AddressInv, NEW u \in Users, Refresh(u)
    PROVE  StepKeeps
<1>1. proc[u].pc = "refresh" /\ Goto(u, "end") /\ UNCHANGED <<saved, dhcp, routes, locks>>
  BY DEF Refresh
<1>2. /\ discovery = u /\ work = u /\ proc[u].op # "select" /\ ~Selecting /\ u \in Actors
      /\ ControlType /\ DataType
  BY <1>1, WorkFacts DEF WorkPcs
<1>3. \A r \in Subnets : proc[u].plan[r] = "none"
  BY <1>1, NoPlans
<1>4. /\ os' \subseteq Pair /\ mine' \subseteq os' /\ doubt' \in BOOLEAN /\ up' = up
      /\ mine' \subseteq mine
  <2>1. CASE UNCHANGED <<os, mine, up, doubt>>
    BY <1>2, <2>1 DEF DataType
  <2>2. CASE ~UNCHANGED <<os, mine, up, doubt>>
    <3>1. os \in SUBSET Pair
      BY <1>2 DEF DataType
    <3>2. PICK auto \in BOOLEAN, applied \in BOOLEAN, ok \in BOOLEAN :
            ~auto /\ Command(os, auto, applied, ok)
      <4>1. PICK auto \in BOOLEAN, applied \in BOOLEAN : auto = FALSE /\ applied = TRUE
        OBVIOUS
      <4> QED BY <2>2, <4>1 DEF Refresh
    <3>3. PICK want \in SUBSET Pair : Command(want, auto, applied, ok)
      BY <3>1, <3>2
    <3> QED BY <1>2, <3>2, <3>3, CommandFacts
  <2> QED BY <2>1, <2>2
<1>5. proc' \in [Actors -> Locals] /\ Others(u) /\ proc'[u].pc = "end" /\ SameLocals(u)
  BY <1>1, <1>2, GotoFacts DEF PCs
<1>6. proc'[Adopter] = proc[Adopter]
  BY <1>5, ActorsApart DEF Others
<1>7. UserSections(u)' /\ UserIntent(u)'
  BY <1>1, <1>2, <1>5, <1>6
     DEF AddressInv, ControlInv, UserInv, UserSections, UserIntent, InTemp, SameLocals
<1>8. UserInv(u)'
  BY <1>1, <1>2, <1>3, <1>5, <1>7, UserMoves DEF SameRequest, SameLocals, UserPcs, WorkPcs, locks
<1>9. ControlInv'
  BY <1>1, <1>2, <1>5, <1>8, WorkControl DEF WorkPcs, SameLocals
<1> QED BY <1>1, <1>2, <1>4, <1>9, NativeStep DEF DataType

-----------------------------------------------------------------------------
(***************************************************************************)
(* Temporary addresses.                                                    *)
(***************************************************************************)

\* A step of the adoption loop: the users stay where they are.  Rows change only
\* under address_work.
LEMMA AdopterControl ==
    ASSUME AddressInv, A.pc # "off", proc' \in [Actors -> Locals], Others(Adopter),
           session' \in BOOLEAN, UNCHANGED <<paused, discovery>>,
           work' \in {work, Adopter, Nobody}, work \in {Adopter, Nobody} \/ work' = work,
           saved'.nic = saved.nic,
           \/ work = Adopter
           \/ saved'.row = saved.row /\ mine' \subseteq mine,
           AdopterLocks', AdopterWork'
    PROVE  ControlInv' /\ (Selecting' <=> Selecting)
<1>1. \A v \in Users : proc'[v] = proc[v] /\ (work' = v <=> work = v)
  BY ActorsApart DEF Others
<1>2. ASSUME NEW v \in Users PROVE UserInv(v)'
  <2>1. CASE saved'.row = saved.row /\ mine' \subseteq mine
    BY <1>1, <2>1, UserStays
  <2>2. CASE work = Adopter
    <3>1. proc[v].pc \notin WorkPcs
      BY <2>2, ActorsApart DEF AddressInv, ControlInv, UserInv, UserLocks
    <3>2. UserLocks(v)'
      BY <1>1 DEF AddressInv, ControlInv, UserInv, UserLocks
    <3>3. UserSections(v)'
      BY <1>1 DEF AddressInv, ControlInv, UserInv, UserSections, InTemp, A
    <3>4. UserIntent(v)'
      BY <1>1, <3>1 DEF AddressInv, ControlInv, UserInv, UserIntent, InTemp, WorkPcs
    <3>5. \A s \in Subnets : PlanSound(v, s)'
      BY <1>1, <3>1, NoPlans DEF PlanSound, WorkPcs
    <3> QED BY <3>2, <3>3, <3>4, <3>5 DEF UserInv
  <2> QED BY <2>1, <2>2
<1>3. ControlType'
  BY ActorsApart DEF AddressInv, ControlInv, ControlType
<1>4. PauseHeld'
  BY <1>1 DEF AddressInv, ControlInv, PauseHeld
<1>5. Selecting' <=> Selecting
  BY <1>1 DEF Selecting
<1> QED BY <1>2, <1>3, <1>4, <1>5 DEF ControlInv

\* A step of the reconciliation leaves the request alone, and goes on with its
\* work or to the section that follows it.
LEMMA TempControl ==
    ASSUME AddressInv, NEW p \in Actors, InTemp(p), proc' \in [Actors -> Locals], Others(p),
           UNCHANGED <<routes, locks>>, saved'.row = saved.row, saved'.nic = saved.nic,
           mine' \subseteq mine, SameRequest(p), proc'[p].op = proc[p].op,
           proc'[p].after = proc[p].after, proc'[p].pass = proc[p].pass,
           proc'[p].pc \in {"temp", "tempSeen", proc[p].after}
    PROVE  ControlInv' /\ (Selecting => Selecting')
<1>1. CASE p \in Users
  <2>1. discovery = p /\ work = p /\ proc[p].pc \in WorkPcs /\ proc[p].after \in {"end", "rows", "swept"}
    BY <1>1 DEF AddressInv, ControlInv, UserInv, UserLocks, UserSections, InTemp, WorkPcs
  <2>2. \A s \in Subnets : proc[p].plan[s] = "none"
    BY <1>1, NoPlans DEF InTemp
  <2>3. proc'[Adopter] = proc[Adopter]
    BY <1>1, ActorsApart DEF Others
  <2>4. UserSections(p)'
    BY <1>1, <2>1, <2>3 DEF AddressInv, ControlInv, UserInv, UserSections, InTemp
  <2>5. UserIntent(p)'
    BY <1>1, <2>1 DEF AddressInv, ControlInv, UserInv, UserIntent, InTemp, SameRequest
  <2>6. UserInv(p)'
    BY <1>1, <2>1, <2>2, <2>4, <2>5, UserMoves DEF UserPcs, WorkPcs, locks
  <2>7. ControlInv'
    BY <1>1, <2>1, <2>6, WorkControl
  <2>8. Selecting => Selecting'
    BY <1>1, <2>1, SelectingFacts
       DEF Selecting, AddressInv, ControlInv, UserInv, UserSections, InTemp
  <2> QED BY <2>7, <2>8
<1>2. CASE p = Adopter
  <2>1. work = Adopter /\ A.pc # "off" /\ InTemp(Adopter)
    BY <1>2 DEF AddressInv, ControlInv, AdopterLocks, InTemp, A
  <2>2. /\ A'.nic = A.nic /\ A'.sub = A.sub /\ A'.addr = A.addr /\ A'.after = A.after
        /\ A'.pass = A.pass /\ A'.pc \in {"temp", "tempSeen", A.after}
    BY <1>2 DEF SameRequest, A
  <2>3. Selecting' <=> Selecting
    BY <1>2, ActorsApart DEF Selecting, Others
  <2>4. AdopterLocks'
    BY <2>1, <2>2, <2>3, ActorsApart
       DEF AddressInv, ControlInv, AdopterLocks, AdopterPcs, InTemp, A, locks
  <2>5. AdopterWork'
    BY <2>1, <2>2 DEF AddressInv, ControlInv, AdopterLocks, AdopterWork, Adopting, InTemp, A
  <2>6. ControlInv'
    BY <1>2, <2>1, <2>4, <2>5, AdopterControl DEF locks, AddressInv, ControlInv, ControlType
  <2> QED BY <2>3, <2>6
<1> QED BY <1>1, <1>2 DEF Actors

\* A temporary record is dropped for an address that is not ours any more.
LEMMA TempForgotten ==
    ASSUME AddressInv, NEW x, x \notin mine, saved' = ForgetTemporary(saved, x),
           UNCHANGED <<windows, routes>>
    PROVE  /\ DataType' /\ RowsFiled' /\ LedgerStep /\ \A r \in Subnets : RemovalKept(r)
           /\ saved'.row = saved.row /\ saved'.nic = saved.nic
           /\ saved'.pending = saved.pending \ {x}
<1>1. saved \in Settings /\ saved.pending \subseteq Pair
  BY DEF AddressInv, DataType, Settings
<1>2. /\ saved' \in Settings /\ saved'.row = saved.row /\ saved'.nic = saved.nic
      /\ saved'.pending = saved.pending \ {x}
  BY <1>1, ForgetFacts
<1>3. DataType'
  BY <1>2 DEF AddressInv, DataType, windows
<1>4. RowsFiled'
  BY <1>2 DEF AddressInv, RowsFiled, Owned, RowsOf
<1>5. \A r \in Subnets : RemovalKept(r)
  BY <1>2 DEF RemovalKept
<1>6. LedgerStep
  <2> DEFINE X == {x} \cap saved.pending
  <2>1. X \in SUBSET Pair /\ X \cap mine = {} /\ mine' = mine
    BY <1>1 DEF windows
  <2>2. \A r \in Subnets : (Answers(r)' <=> Answers(r)) /\ RowPair(r)' = RowPair(r)
    BY <1>2 DEF Answers, RowPair
  <2>3. \A r \in Subnets : Answers(r) => RowPair(r) \notin saved.pending
    <3> SUFFICES ASSUME NEW r \in Subnets, Answers(r) PROVE RowPair(r) \notin saved.pending
      OBVIOUS
    <3>1. Owned(RowPair(r))
      BY DEF Answers, RowPair, Owned, RowsOf
    <3> QED BY <3>1 DEF AddressInv, RowsFiled
  <2>4. Recorded' = Recorded \ X
    BY <1>2, <2>2, <2>3, RecordedFacts, RecordedNext
  <2> HIDE DEF X
  <2> QED BY <2>1, <2>4, LedgerForget
<1> QED BY <1>2, <1>3, <1>4, <1>5, <1>6

\* A step that keeps the rows, the selection and the routes keeps them live.
LEMMA RowsSame ==
    ASSUME AddressInv, ControlInv', Selecting => Selecting', DataType', RowsFiled', LedgerStep,
           \A r \in Subnets : RemovalKept(r),
           saved'.row = saved.row, saved'.nic = saved.nic, routes' = routes
    PROVE  StepKeeps
<1>1. RoutesLive'
  BY DEF AddressInv, RoutesLive, RouteLive
<1> QED BY <1>1 DEF StepKeeps, AddressInv

LEMMA TempLeaveStep ==
    ASSUME AddressInv, NEW p \in Actors, TempLeave(p)
    PROVE  StepKeeps
<1>1. /\ proc[p].pc = "temp" /\ UNCHANGED <<saved, windows, routes, locks>> /\ InTemp(p)
      /\ ControlType /\ proc[p] \in Locals
  BY DEF TempLeave, InTemp, AddressInv, ControlInv, ControlType
<1>2. PICK f \in BOOLEAN : proc' = [proc EXCEPT ![p] =
        [proc[p] EXCEPT !.pc = proc[p].after, !.todo = {}, !.cur = Idle.cur, !.good = f]]
  BY <1>1 DEF TempLeave, ControlType
<1> DEFINE c == Idle.cur
           next == proc[p].after
           nothing == {}
           l == [proc[p] EXCEPT !.pc = next, !.todo = nothing, !.cur = c, !.good = f]
<1>3. c \in Pair \cup {<<None, None>>} /\ next \in PCs /\ nothing \in SUBSET Pair
  BY <1>1, IdleLocals DEF Locals
<1> HIDE DEF c, next, nothing
<1>4. /\ l \in Locals /\ l.pc = next /\ l.after = proc[p].after /\ l.op = proc[p].op
      /\ l.addr = proc[p].addr /\ l.sub = proc[p].sub /\ l.nic = proc[p].nic
      /\ l.intent = proc[p].intent /\ l.plan = proc[p].plan /\ l.pass = proc[p].pass
  BY <1>1, <1>3, ZenonT(60) DEF Locals
<1>5. proc' = [proc EXCEPT ![p] = l]
  BY <1>2 DEF c, next, nothing
<1> HIDE DEF l
<1>6. proc' \in [Actors -> Locals] /\ Others(p) /\ proc'[p] = l
  BY <1>1, <1>4, <1>5, MovedFacts
<1>7. ControlInv' /\ (Selecting => Selecting')
  BY <1>1, <1>4, <1>6, TempControl DEF SameRequest, windows, next
<1> QED BY <1>1, <1>7, QuietStep

LEMMA TempForgetStep ==
    ASSUME AddressInv, NEW p \in Actors, TempForget(p)
    PROVE  StepKeeps
<1>1. /\ proc[p].pc = "temp" /\ UNCHANGED <<windows, routes, locks>> /\ InTemp(p)
      /\ ControlType /\ proc[p] \in Locals /\ mine \subseteq os
  BY DEF TempForget, InTemp, AddressInv, ControlInv, ControlType, DataType
<1>2. PICK x \in proc[p].todo :
        /\ proc' = [proc EXCEPT ![p].todo = @ \ {x}]
        /\ \/ saved' = saved
           \/ x \notin mine /\ saved' = ForgetTemporary(saved, x)
  BY <1>1 DEF TempForget, Persist, AddressInv, RowsFiled
<1> DEFINE t == proc[p].todo \ {x}
           l == [proc[p] EXCEPT !.todo = t]
<1>3. t \in SUBSET Pair /\ proc' = [proc EXCEPT ![p] = l]
  BY <1>1, <1>2 DEF Locals, ControlType
<1> HIDE DEF t
<1>4. /\ l \in Locals /\ l.pc = "temp" /\ l.after = proc[p].after /\ l.op = proc[p].op
      /\ l.addr = proc[p].addr /\ l.sub = proc[p].sub /\ l.nic = proc[p].nic
      /\ l.intent = proc[p].intent /\ l.plan = proc[p].plan /\ l.pass = proc[p].pass
  BY <1>1, <1>3 DEF Locals
<1> HIDE DEF l
<1>5. proc' \in [Actors -> Locals] /\ Others(p) /\ proc'[p] = l
  BY <1>1, <1>3, <1>4, MovedFacts
<1>6. CASE saved' = saved
  <2>1. ControlInv' /\ (Selecting => Selecting')
    BY <1>1, <1>4, <1>5, <1>6, TempControl DEF SameRequest, windows
  <2> QED BY <1>1, <1>6, <2>1, QuietStep
<1>7. CASE x \notin mine /\ saved' = ForgetTemporary(saved, x)
  <2>1. /\ DataType' /\ RowsFiled' /\ LedgerStep /\ \A r \in Subnets : RemovalKept(r)
        /\ saved'.row = saved.row /\ saved'.nic = saved.nic
    BY <1>1, <1>7, TempForgotten
  <2>2. ControlInv' /\ (Selecting => Selecting')
    BY <1>1, <1>4, <1>5, <2>1, TempControl DEF SameRequest, windows
  <2> QED BY <1>1, <2>1, <2>2, RowsSame
<1> QED BY <1>2, <1>6, <1>7

LEMMA TempRemoveStep ==
    ASSUME AddressInv, NEW p \in Actors, TempRemove(p)
    PROVE  StepKeeps
<1>1. /\ proc[p].pc = "temp" /\ UNCHANGED <<saved, dhcp, routes, locks>> /\ InTemp(p)
      /\ ControlType /\ proc[p] \in Locals /\ DataType
  BY DEF TempRemove, InTemp, AddressInv, ControlInv, ControlType
<1>2. PICK x \in proc[p].todo \cap saved.pending \cap os, applied \in BOOLEAN, ok \in BOOLEAN,
           auto \in BOOLEAN :
        /\ ~auto /\ Command(os \ {x}, auto, applied, ok)
        /\ proc' = [proc EXCEPT ![p].todo = @ \ {x}, ![p].cur = x, ![p].good = ok,
                                ![p].pc = "tempSeen"]
  <2>1. PICK auto \in BOOLEAN : auto = FALSE
    OBVIOUS
  <2> QED BY <2>1 DEF TempRemove
<1>3. os \ {x} \in SUBSET Pair
  BY <1>1 DEF DataType
<1>4. /\ os' \subseteq Pair /\ mine' \subseteq os' /\ doubt' \in BOOLEAN /\ up' = up
      /\ mine' \subseteq mine
  BY <1>1, <1>2, <1>3, CommandFacts
<1> DEFINE t == proc[p].todo \ {x}
           l == [proc[p] EXCEPT !.todo = t, !.cur = x, !.good = ok, !.pc = "tempSeen"]
<1>5. t \in SUBSET Pair /\ x \in Pair /\ "tempSeen" \in PCs /\ proc' = [proc EXCEPT ![p] = l]
  BY <1>1, <1>2 DEF Locals, ControlType, PCs, DataType
<1> HIDE DEF t
<1>6. /\ l \in Locals /\ l.pc = "tempSeen" /\ l.after = proc[p].after /\ l.op = proc[p].op
      /\ l.addr = proc[p].addr /\ l.sub = proc[p].sub /\ l.nic = proc[p].nic
      /\ l.intent = proc[p].intent /\ l.plan = proc[p].plan /\ l.pass = proc[p].pass
  BY <1>1, <1>5, ZenonT(60) DEF Locals
<1> HIDE DEF l
<1>7. proc' \in [Actors -> Locals] /\ Others(p) /\ proc'[p] = l
  BY <1>1, <1>5, <1>6, MovedFacts
<1>8. ControlInv' /\ (Selecting => Selecting')
  BY <1>1, <1>4, <1>6, <1>7, TempControl DEF SameRequest
<1> QED BY <1>1, <1>4, <1>8, NativeStep DEF DataType

LEMMA TempConfirmStep ==
    ASSUME AddressInv, NEW p \in Actors, TempConfirm(p)
    PROVE  StepKeeps
<1>1. /\ proc[p].pc = "tempSeen" /\ UNCHANGED <<windows, routes, locks>> /\ InTemp(p)
      /\ ControlType /\ mine \subseteq os /\ Goto(p, "temp")
  BY DEF TempConfirm, InTemp, AddressInv, ControlInv, ControlType, DataType
<1> DEFINE x == proc[p].cur
<1>2. saved' = saved \/ (x \notin mine /\ saved' = ForgetTemporary(saved, x))
  BY <1>1 DEF TempConfirm, Persist
<1>3. proc' \in [Actors -> Locals] /\ Others(p) /\ proc'[p].pc = "temp" /\ SameLocals(p)
  BY <1>1, GotoFacts DEF PCs
<1>4. CASE saved' = saved
  <2>1. ControlInv' /\ (Selecting => Selecting')
    BY <1>1, <1>3, <1>4, TempControl DEF SameRequest, SameLocals, windows
  <2> QED BY <1>1, <1>4, <2>1, QuietStep
<1>5. CASE x \notin mine /\ saved' = ForgetTemporary(saved, x)
  <2>1. /\ DataType' /\ RowsFiled' /\ LedgerStep /\ \A r \in Subnets : RemovalKept(r)
        /\ saved'.row = saved.row /\ saved'.nic = saved.nic
    BY <1>1, <1>5, TempForgotten
  <2>2. ControlInv' /\ (Selecting => Selecting')
    BY <1>1, <1>3, <2>1, TempControl DEF SameRequest, SameLocals, windows
  <2> QED BY <1>1, <2>1, <2>2, RowsSame
<1> QED BY <1>2, <1>4, <1>5

-----------------------------------------------------------------------------
(***************************************************************************)
(* The adoption loop.                                                      *)
(***************************************************************************)

LEMMA AdopterHolds ==
    ASSUME AddressInv, A.pc # "off"
    PROVE  /\ A.pc \notin {"wait", "admit"} => work = Adopter
           /\ A.pc \in {"wait", "admit"} => work # Adopter
           /\ A \in Locals /\ A.nic \in Nics /\ ControlType /\ Adopter \in Actors
           /\ session \in BOOLEAN
           /\ A.nic = saved.nic \/ Selecting
  BY ActorsApart DEF AddressInv, ControlInv, ControlType, AdopterLocks, A

LEMMA AdopterMoved ==
    ASSUME AddressInv, NEW l \in Locals, proc' = [proc EXCEPT ![Adopter] = l]
    PROVE  proc' \in [Actors -> Locals] /\ Others(Adopter) /\ A' = l
  BY MovedFacts, ActorsApart DEF AddressInv, ControlInv, A

LEMMA AdopterGoto ==
    ASSUME AddressInv, NEW pc \in PCs, Goto(Adopter, pc)
    PROVE  /\ proc' \in [Actors -> Locals] /\ Others(Adopter) /\ A' \in Locals
           /\ A'.pc = pc /\ A'.nic = A.nic /\ A'.sub = A.sub /\ A'.addr = A.addr
           /\ A'.cur = A.cur /\ A'.after = A.after /\ A'.pass = A.pass /\ A'.own = A.own
  BY GotoFacts, ActorsApart DEF AddressInv, ControlInv, SameLocals, A

LEMMA UsersSelect ==
    ASSUME Others(Adopter)
    PROVE  Selecting' <=> Selecting
  BY ActorsApart DEF Selecting, Others

\* The loop keeps its adapter, and holds address_work in its sections.
LEMMA AdopterKeepsLocks ==
    ASSUME AddressInv, A.pc # "off", Others(Adopter), saved'.nic = saved.nic,
           A'.nic = A.nic, A'.pc \in AdopterPcs,
           work' = Adopter <=> A'.pc \notin {"off", "wait", "admit"},
           A'.pc \in {"temp", "tempSeen"} => A'.after \in {"end", "pass", "handed", "final", "fail"}
    PROVE  AdopterLocks'
<1>1. Selecting' <=> Selecting
  BY UsersSelect
<1> QED BY <1>1, AdopterHolds DEF AdopterLocks, InTemp, A

LEMMA QuietAdopter ==
    ASSUME AddressInv, A.pc # "off", proc' \in [Actors -> Locals], Others(Adopter),
           UNCHANGED <<saved, windows, routes, session, paused, discovery>>,
           work' \in {work, Adopter, Nobody}, work \in {Adopter, Nobody} \/ work' = work,
           A'.nic = A.nic, A'.pc \in AdopterPcs,
           work' = Adopter <=> A'.pc \notin {"off", "wait", "admit"},
           A'.pc \in {"temp", "tempSeen"} => A'.after \in {"end", "pass", "handed", "final", "fail"},
           AdopterWork'
    PROVE  StepKeeps
<1>1. AdopterLocks'
  BY AdopterKeepsLocks
<1>2. ControlInv' /\ (Selecting' <=> Selecting)
  BY <1>1, AdopterControl, AdopterHolds DEF windows
<1> QED BY <1>2, QuietStep

\* The round ends: the locals are fresh, address_work is free.
LEMMA ReleaseControl ==
    ASSUME AddressInv, A.pc # "off", NEW pc \in {"wait", "off"}, Release(pc),
           saved'.nic = saved.nic,
           \/ work = Adopter
           \/ saved'.row = saved.row /\ mine' \subseteq mine
    PROVE  ControlInv' /\ (Selecting' <=> Selecting)
<1> DEFINE n == A.nic
           l == [Idle EXCEPT !.pc = pc, !.nic = n]
<1>1. /\ proc' = [proc EXCEPT ![Adopter] = l] /\ UNCHANGED <<session, paused, discovery>>
      /\ work' = IF work = Adopter THEN Nobody ELSE work
  BY DEF Release
<1>2. n \in Nics /\ session \in BOOLEAN /\ pc \in PCs
  BY AdopterHolds DEF PCs
<1> HIDE DEF n
<1>3. l \in Locals /\ l.pc = pc /\ l.nic = n
  BY <1>2, IdleLocals DEF Locals
<1> HIDE DEF l
<1>4. proc' \in [Actors -> Locals] /\ Others(Adopter) /\ A' = l
  BY <1>1, <1>3, AdopterMoved
<1>5. AdopterLocks'
  BY <1>1, <1>3, <1>4, AdopterKeepsLocks, ActorsApart DEF AdopterPcs, n
<1>6. AdopterWork'
  BY <1>3, <1>4 DEF AdopterWork, Adopting, InTemp, A
<1> QED BY <1>1, <1>2, <1>4, <1>5, <1>6, AdopterControl

LEMMA ReleaseStep ==
    ASSUME AddressInv, A.pc # "off", NEW pc \in {"wait", "off"}, Release(pc),
           UNCHANGED <<saved, windows, routes>>
    PROVE  StepKeeps
<1>1. ControlInv' /\ (Selecting' <=> Selecting)
  BY ReleaseControl DEF windows
<1> QED BY <1>1, QuietStep

LEMMA RestStep ==
    ASSUME AddressInv, AdStop \/ AdSkip \/ AdEnd \/ PassEnd
    PROVE  StepKeeps
<1>1. A.pc # "off" /\ UNCHANGED <<saved, windows, routes>> /\ \E pc \in {"wait", "off"} : Release(pc)
  BY DEF AdStop, AdSkip, AdEnd, PassEnd
<1> QED BY <1>1, ReleaseStep

LEMMA AdWaitStep ==
    ASSUME AddressInv, AdWait
    PROVE  StepKeeps
<1> DEFINE f == ~paused
           l == [A EXCEPT !.pc = "admit", !.fresh = f]
<1>1. A.pc = "wait" /\ UNCHANGED <<saved, windows, routes, locks>>
  BY DEF AdWait
<1>2. A \in Locals /\ work # Adopter /\ ControlType /\ Adopter \in Actors
  BY <1>1, AdopterHolds
<1>3. f \in BOOLEAN /\ "admit" \in PCs /\ proc' = [proc EXCEPT ![Adopter] = l]
  BY <1>2 DEF AdWait, A, ControlType, PCs
<1> HIDE DEF f
<1>4. l \in Locals /\ l.pc = "admit" /\ l.nic = A.nic
  BY <1>2, <1>3, ZenonT(60) DEF Locals
<1> HIDE DEF l
<1>5. proc' \in [Actors -> Locals] /\ Others(Adopter) /\ A' = l
  BY <1>3, <1>4, AdopterMoved
<1>6. AdopterWork'
  BY <1>4, <1>5 DEF AdopterWork, Adopting, InTemp, A
<1> QED BY <1>1, <1>2, <1>4, <1>5, <1>6, QuietAdopter DEF AdopterPcs, locks

\* A round begins with a /24 that has no route.
LEMMA RoundStep ==
    ASSUME AddressInv, Round, UNCHANGED <<saved, windows, routes>>, NEW l \in Locals,
           proc' = [proc EXCEPT ![Adopter] = l], l.pc = "prepare", l.nic = A.nic,
           l.sub \in Subnets, routes[l.sub] = None, l.cur \in Pair,
           l.pass # "probe" => l.addr \in Addrs /\ SubnetOf[l.addr] = l.sub
    PROVE  StepKeeps
<1>1. /\ A.pc \in {"admit", "pass"} /\ work \in {Adopter, Nobody} /\ work' = Adopter
      /\ UNCHANGED <<session, paused, discovery>>
  BY AdopterHolds DEF Round
<1>2. proc' \in [Actors -> Locals] /\ Others(Adopter) /\ A' = l
  BY AdopterMoved
<1>3. AdopterWork'
  BY <1>2 DEF AdopterWork, Adopting, InTemp, A
<1> QED BY <1>1, <1>2, <1>3, QuietAdopter DEF AdopterPcs

LEMMA PassStep ==
    ASSUME AddressInv, PrCache \/ PrFast
    PROVE  StepKeeps
<1>1. PICK x \in Addrs, more \in BOOLEAN : routes[SubnetOf[x]] = None /\ Probe(x, more)
  BY DEF PrCache, PrFast, Quiet, Foreign
<1>2. Round /\ UNCHANGED <<saved, windows, routes>>
  BY DEF PrCache, PrFast
<1>3. A \in Locals /\ A.nic \in Nics /\ ControlType /\ Adopter \in Actors
  BY <1>2, AdopterHolds DEF Round
<1> DEFINE c == <<A.nic, x>>
           s == SubnetOf[x]
           nothing == {}
           l == [A EXCEPT !.pc = "prepare", !.sub = s, !.cur = c, !.own = nothing,
                          !.pass = "probe", !.more = more]
<1>4. c \in Pair /\ s \in Subnets /\ nothing \in SUBSET Pair /\ "prepare" \in PCs
  BY <1>3, ConstantsAssumption DEF Pair, PCs
<1>5. proc' = [proc EXCEPT ![Adopter] = l]
  BY <1>1, <1>3 DEF Probe, A, ControlType
<1>6. routes[s] = None
  BY <1>1
<1> HIDE DEF c, s, nothing
<1>7. /\ l \in Locals /\ l.pc = "prepare" /\ l.nic = A.nic /\ l.sub = s /\ l.cur = c
      /\ l.pass = "probe"
  BY <1>3, <1>4 DEF Locals
<1> HIDE DEF l
<1> QED BY <1>2, <1>4, <1>5, <1>6, <1>7, RoundStep

LEMMA AdAdmitStep ==
    ASSUME AddressInv, AdAdmit
    PROVE  StepKeeps
<1>1. PICK x \in Addrs, y \in Addrs :
        /\ routes[SubnetOf[y]] = None
        /\ proc' = [proc EXCEPT ![Adopter].pc = "prepare", ![Adopter].sub = SubnetOf[y],
                        ![Adopter].addr = y, ![Adopter].cur = <<A.nic, x>>,
                        ![Adopter].pass = "none", ![Adopter].own = {}]
  BY DEF AdAdmit, Foreign
<1>2. Round /\ UNCHANGED <<saved, windows, routes>>
  BY DEF AdAdmit
<1>3. A \in Locals /\ A.nic \in Nics /\ ControlType /\ Adopter \in Actors
  BY <1>2, AdopterHolds DEF Round
<1> DEFINE c == <<A.nic, x>>
           s == SubnetOf[y]
           nothing == {}
           l == [A EXCEPT !.pc = "prepare", !.sub = s, !.addr = y, !.cur = c,
                          !.pass = "none", !.own = nothing]
<1>4. c \in Pair /\ s \in Subnets /\ nothing \in SUBSET Pair /\ "prepare" \in PCs
  BY <1>3, ConstantsAssumption DEF Pair, PCs
<1>5. proc' = [proc EXCEPT ![Adopter] = l]
  BY <1>1, <1>3 DEF A, ControlType
<1>6. routes[s] = None /\ SubnetOf[y] = s
  BY <1>1
<1> HIDE DEF c, s, nothing
<1>7. /\ l \in Locals /\ l.pc = "prepare" /\ l.nic = A.nic /\ l.sub = s /\ l.cur = c
      /\ l.addr = y
  BY <1>3, <1>4 DEF Locals
<1> HIDE DEF l
<1> QED BY <1>2, <1>4, <1>5, <1>6, <1>7, RoundStep

\* The loop goes on to another of its sections.
LEMMA HoldingMove ==
    ASSUME AddressInv, A.pc \notin {"off", "wait", "admit"}, NEW l \in Locals,
           proc' = [proc EXCEPT ![Adopter] = l], UNCHANGED <<saved, windows, routes, locks>>,
           l.nic = A.nic, l.pc \in AdopterPcs \ {"off", "wait", "admit"},
           l.pc \in {"temp", "tempSeen"} => l.after \in {"end", "pass", "handed", "final", "fail"},
           AdopterWork'
    PROVE  StepKeeps
<1>1. proc' \in [Actors -> Locals] /\ Others(Adopter) /\ A' = l
  BY AdopterMoved
<1> QED BY <1>1, AdopterHolds, QuietAdopter DEF locks

LEMMA HoldingGoto ==
    ASSUME AddressInv, A.pc \notin {"off", "wait", "admit"},
           NEW pc \in AdopterPcs \ {"off", "wait", "admit", "temp", "tempSeen"},
           Goto(Adopter, pc), UNCHANGED <<saved, windows, routes, locks>>, AdopterWork'
    PROVE  StepKeeps
<1>1. pc \in PCs
  BY DEF PCs, AdopterPcs
<1>2. proc' \in [Actors -> Locals] /\ Others(Adopter) /\ A'.pc = pc /\ A'.nic = A.nic
  BY <1>1, AdopterGoto
<1> QED BY <1>2, AdopterHolds, QuietAdopter DEF locks

LEMMA AdProbeStep ==
    ASSUME AddressInv, AdProbe
    PROVE  StepKeeps
<1>1. A.pc = "probe" /\ UNCHANGED <<saved, windows, routes, locks>>
  BY DEF AdProbe
<1>2. A \in Locals /\ ControlType /\ Adopter \in Actors /\ work = Adopter
  BY <1>1, AdopterHolds
<1>3. PICK next \in {"final", "fail"} :
        proc' = [proc EXCEPT ![Adopter].pc = "temp", ![Adopter].todo = {A.cur},
                             ![Adopter].after = next]
  BY DEF AdProbe
<1> DEFINE t == {A.cur}
           l == [A EXCEPT !.pc = "temp", !.todo = t, !.after = next]
<1>4. t \in SUBSET Pair /\ "temp" \in PCs /\ next \in PCs
  BY <1>1 DEF AddressInv, ControlInv, AdopterWork, PCs
<1>5. proc' = [proc EXCEPT ![Adopter] = l]
  BY <1>2, <1>3 DEF A, ControlType
<1> HIDE DEF t
<1>6. /\ l \in Locals /\ l.pc = "temp" /\ l.after = next /\ l.nic = A.nic /\ l.sub = A.sub
      /\ l.addr = A.addr /\ l.pass = A.pass
  BY <1>2, <1>4 DEF Locals
<1> HIDE DEF l
<1>7. A' = l
  BY <1>5, <1>6, AdopterMoved
<1>8. AdopterWork'
  BY <1>1, <1>6, <1>7 DEF AddressInv, ControlInv, AdopterWork, Adopting, InTemp, A
<1> QED BY <1>1, <1>5, <1>6, <1>8, HoldingMove DEF AdopterPcs

LEMMA AdFinalStep ==
    ASSUME AddressInv, AdFinal
    PROVE  StepKeeps
<1>1. A.pc = "final" /\ UNCHANGED <<saved, windows, routes, locks>>
  BY DEF AdFinal
<1>2. A \in Locals /\ ControlType /\ Adopter \in Actors /\ work = Adopter /\ A.nic \in Nics
  BY <1>1, AdopterHolds
<1>3. A.pass # "probe" /\ A.addr \in Addrs
  BY <1>1 DEF AddressInv, ControlInv, AdopterWork, Adopting
<1> DEFINE c == <<A.nic, A.addr>>
           pc == IF session THEN "reserve" ELSE "fail"
           l == [A EXCEPT !.cur = c, !.pc = pc]
<1>4. c \in Pair /\ pc \in PCs /\ pc \in {"reserve", "fail"}
  BY <1>2, <1>3 DEF Pair, PCs
<1>5. proc' = [proc EXCEPT ![Adopter] = l]
  BY <1>2 DEF AdFinal, A, ControlType
<1> HIDE DEF c, pc
<1>6. /\ l \in Locals /\ l.pc = pc /\ l.cur = c /\ l.nic = A.nic /\ l.sub = A.sub
      /\ l.addr = A.addr /\ l.pass = A.pass
  BY <1>2, <1>4 DEF Locals
<1> HIDE DEF l
<1>7. A' = l
  BY <1>5, <1>6, AdopterMoved
<1>8. AdopterWork'
  BY <1>1, <1>3, <1>4, <1>6, <1>7 DEF AddressInv, ControlInv, AdopterWork, Adopting, InTemp, A
<1> QED BY <1>1, <1>4, <1>5, <1>6, <1>8, HoldingMove DEF AdopterPcs

LEMMA AdReadyStep ==
    ASSUME AddressInv, AdReady
    PROVE  StepKeeps
<1>1. A.pc = "ready" /\ UNCHANGED <<saved, windows, routes, locks>>
  BY DEF AdReady
<1>2. PICK pc \in {"fail", "identify", "commit"} :
        Goto(Adopter, pc) /\ (pc = "commit" => A.pass # "probe")
  BY DEF AdReady
<1>3. pc \in PCs
  BY DEF PCs
<1>4. /\ A'.pc = pc /\ A'.sub = A.sub /\ A'.addr = A.addr /\ A'.cur = A.cur /\ A'.pass = A.pass
  BY <1>2, <1>3, AdopterGoto
<1>5. AdopterWork'
  BY <1>1, <1>2, <1>4 DEF AddressInv, ControlInv, AdopterWork, Adopting, InTemp, A
<1> QED BY <1>1, <1>2, <1>5, HoldingGoto DEF AdopterPcs

LEMMA AdTimeoutStep ==
    ASSUME AddressInv, AdTimeout
    PROVE  StepKeeps
<1>1. A.pc \notin {"off", "wait", "admit"} /\ UNCHANGED <<saved, windows, routes, locks>>
      /\ Goto(Adopter, "fail")
  BY DEF AdTimeout
<1>2. A'.pc = "fail"
  BY <1>1, AdopterGoto DEF PCs
<1>3. AdopterWork'
  BY <1>2 DEF AdopterWork, Adopting, InTemp, A
<1> QED BY <1>1, <1>3, HoldingGoto DEF AdopterPcs

LEMMA AdFailStep ==
    ASSUME AddressInv, AdFail
    PROVE  StepKeeps
<1>1. A.pc = "fail" /\ UNCHANGED <<saved, windows, routes, locks>>
  BY DEF AdFail, RollBack
<1>2. A \in Locals /\ ControlType /\ Adopter \in Actors
  BY <1>1, AdopterHolds
<1>3. Onward \in {"pass", "handed", "end"}
  BY DEF Onward
<1> DEFINE on == Onward
           todo == A.own
           own == IF on = "handed" THEN A.own ELSE {}
           c == Idle.cur
           l == [A EXCEPT !.pc = "temp", !.todo = todo, !.after = on, !.cur = c,
                          !.addr = None, !.sub = None, !.own = own]
<1>4. /\ on \in PCs /\ todo \in SUBSET Pair /\ own \in SUBSET Pair /\ "temp" \in PCs
      /\ c \in Pair \cup {<<None, None>>}
  BY <1>2, <1>3, IdleLocals DEF PCs, Locals
<1>5. proc' = [proc EXCEPT ![Adopter] = l]
  <2>1. proc' = [proc EXCEPT ![Adopter].pc = "temp", ![Adopter].todo = todo,
                             ![Adopter].after = on, ![Adopter].cur = c,
                             ![Adopter].addr = None, ![Adopter].sub = None,
                             ![Adopter].own = IF on = "handed" THEN @ ELSE {}]
    BY DEF AdFail, RollBack
  <2> HIDE DEF on, c
  <2> QED BY <1>2, <2>1 DEF A, ControlType
<1>6. on \in {"pass", "handed", "end"}
  BY <1>3
<1> HIDE DEF on, todo, own, c
<1>7. l \in Locals /\ l.pc = "temp" /\ l.after = on /\ l.nic = A.nic
  BY <1>2, <1>4 DEF Locals
<1> HIDE DEF l
<1>8. A' = l
  BY <1>5, <1>7, AdopterMoved
<1>9. AdopterWork'
  BY <1>6, <1>7, <1>8 DEF AdopterWork, Adopting, InTemp, A
<1> QED BY <1>1, <1>5, <1>6, <1>7, <1>9, HoldingMove DEF AdopterPcs

LEMMA PrHandedStep ==
    ASSUME AddressInv, PrHanded
    PROVE  StepKeeps
<1>1. A.pc = "handed" /\ UNCHANGED <<saved, windows, routes, locks>>
  BY DEF PrHanded
<1>2. A \in Locals /\ ControlType /\ Adopter \in Actors
  BY <1>1, AdopterHolds
<1> DEFINE todo == A.own
           nothing == {}
           l == [A EXCEPT !.pc = "temp", !.todo = todo, !.after = "pass", !.own = nothing,
                          !.pass = "none"]
<1>3. /\ "pass" \in PCs /\ "temp" \in PCs /\ todo \in SUBSET Pair /\ nothing \in SUBSET Pair
  BY <1>2 DEF PCs, Locals
<1>4. proc' = [proc EXCEPT ![Adopter] = l]
  BY <1>2 DEF PrHanded, A, ControlType
<1> HIDE DEF todo, nothing
<1>5. l \in Locals /\ l.pc = "temp" /\ l.after = "pass" /\ l.nic = A.nic
  BY <1>2, <1>3 DEF Locals
<1> HIDE DEF l
<1>6. A' = l
  BY <1>4, <1>5, AdopterMoved
<1>7. AdopterWork'
  BY <1>5, <1>6 DEF AdopterWork, Adopting, InTemp, A
<1> QED BY <1>1, <1>4, <1>5, <1>7, HoldingMove DEF AdopterPcs

LEMMA PrResolveStep ==
    ASSUME AddressInv, PrResolve
    PROVE  StepKeeps
<1>1. A.pc = "identify" /\ UNCHANGED <<saved, windows, routes, locks>>
  BY DEF PrResolve
<1>2. A \in Locals /\ ControlType /\ Adopter \in Actors
  BY <1>1, AdopterHolds
<1>3. CASE Goto(Adopter, "fail")
  <2>1. A'.pc = "fail"
    BY <1>3, AdopterGoto DEF PCs
  <2>2. AdopterWork'
    BY <2>1 DEF AdopterWork, Adopting, InTemp, A
  <2> QED BY <1>1, <1>3, <2>2, HoldingGoto DEF AdopterPcs
<1>4. CASE ~Goto(Adopter, "fail")
  <2>1. PICK y \in Addrs :
          /\ SubnetOf[y] = A.sub
          /\ proc' = [proc EXCEPT ![Adopter].pc = "prepare", ![Adopter].addr = y,
                                  ![Adopter].pass = "prepared"]
    BY <1>4 DEF PrResolve, Candidates
  <2> DEFINE l == [A EXCEPT !.pc = "prepare", !.addr = y, !.pass = "prepared"]
  <2>2. "prepare" \in PCs /\ proc' = [proc EXCEPT ![Adopter] = l]
    BY <1>2, <2>1 DEF PCs, A, ControlType
  <2>3. /\ l \in Locals /\ l.pc = "prepare" /\ l.addr = y /\ l.nic = A.nic /\ l.sub = A.sub
        /\ l.cur = A.cur
    BY <1>2, <2>2 DEF Locals
  <2> HIDE DEF l
  <2>4. A' = l
    BY <2>2, <2>3, AdopterMoved
  <2>5. AdopterWork'
    BY <1>1, <2>1, <2>3, <2>4 DEF AddressInv, ControlInv, AdopterWork, Adopting, InTemp, A
  <2> QED BY <1>1, <2>2, <2>3, <2>5, HoldingMove DEF AdopterPcs
<1> QED BY <1>3, <1>4

\* What a step of the loop that changes the file or the routes has to show.
LEMMA AdopterStep1 ==
    ASSUME AddressInv, work = Adopter, A.pc # "off", proc' \in [Actors -> Locals],
           Others(Adopter), UNCHANGED locks, saved'.nic = saved.nic, A'.nic = A.nic,
           A'.pc \in AdopterPcs \ {"off", "wait", "admit", "temp", "tempSeen"}, AdopterWork',
           DataType', RowsFiled', LedgerStep,
           \A r \in Subnets : RemovalKept(r) /\ (~Selecting /\ RouteLive(r) => RouteLive(r)')
    PROVE  StepKeeps
<1>1. AdopterLocks'
  BY AdopterKeepsLocks DEF locks
<1>2. ControlInv' /\ (Selecting' <=> Selecting)
  BY <1>1, AdopterControl, AdopterHolds DEF locks
<1>3. RoutesLive'
  BY <1>2 DEF AddressInv, RoutesLive
<1> QED BY <1>2, <1>3 DEF StepKeeps, AddressInv

LEMMA AdPrepareStep ==
    ASSUME AddressInv, AdPrepare
    PROVE  StepKeeps
<1> DEFINE row == saved.row[A.sub]
<1>1. A.pc = "prepare" /\ UNCHANGED windows
  BY DEF AdPrepare
<1>2. /\ A \in Locals /\ ControlType /\ work = Adopter /\ A.sub \in Subnets
      /\ routes[A.sub] = None /\ A.cur \in Pair
      /\ A.pass # "probe" => A.addr \in Addrs /\ SubnetOf[A.addr] = A.sub
  BY <1>1, AdopterHolds DEF AddressInv, ControlInv, AdopterWork, Adopting
<1>3. \/ row = None /\ Prepared /\ UNCHANGED <<saved, routes>>
      \/ Deferred /\ UNCHANGED <<saved, routes>>
      \/ /\ row # None /\ RemovalComplete(row) /\ <<saved.nic, row.addr>> \notin os
         /\ saved' = ForgetRow(saved, A.sub) /\ routes' = [routes EXCEPT ![A.sub] = None]
         /\ Prepared
  BY DEF AdPrepare, MayRetire, RetireContext, Persist, OnNic
<1>4. CASE Deferred /\ UNCHANGED <<saved, routes>>
  <2>1. CASE Release("wait")
    BY <1>1, <1>4, <2>1, ReleaseStep
  <2>2. CASE ~Release("wait")
    <3>1. Goto(Adopter, "fail") /\ UNCHANGED locks
      BY <1>4, <2>2 DEF Deferred
    <3>2. A'.pc = "fail"
      BY <3>1, AdopterGoto DEF PCs
    <3>3. AdopterWork'
      BY <3>2 DEF AdopterWork, Adopting, InTemp, A
    <3> QED BY <1>1, <1>4, <3>1, <3>3, HoldingGoto DEF AdopterPcs
  <2> QED BY <2>1, <2>2
<1>5. ASSUME Prepared, saved'.row[A.sub] = None, routes'[A.sub] = None
      PROVE  /\ proc' \in [Actors -> Locals] /\ Others(Adopter) /\ UNCHANGED locks
             /\ A'.nic = A.nic /\ A'.pc \in {"probe", "reserve"} /\ AdopterWork'
             /\ Goto(Adopter, A'.pc)
  <2>1. PICK pc \in {"probe", "reserve"} : /\ Goto(Adopter, pc) /\ UNCHANGED locks
                                           /\ pc = "probe" => A.pass = "prepared"
    BY <1>5 DEF Prepared
  <2>2. pc \in PCs
    BY DEF PCs
  <2>3. /\ proc' \in [Actors -> Locals] /\ Others(Adopter)
        /\ A'.pc = pc /\ A'.nic = A.nic /\ A'.sub = A.sub /\ A'.addr = A.addr
        /\ A'.cur = A.cur /\ A'.pass = A.pass
    BY <2>1, <2>2, AdopterGoto
  <2>4. AdopterWork'
    BY <1>2, <1>5, <2>1, <2>3 DEF AdopterWork, Adopting, InTemp, A
  <2> QED BY <2>1, <2>3, <2>4
<1>6. CASE row = None /\ Prepared /\ UNCHANGED <<saved, routes>>
  <2>1. AdopterWork' /\ UNCHANGED locks /\ A'.pc \in {"probe", "reserve"} /\ Goto(Adopter, A'.pc)
    BY <1>2, <1>5, <1>6
  <2> QED BY <1>1, <1>6, <2>1, HoldingGoto DEF AdopterPcs
<1>7. CASE /\ row # None /\ RemovalComplete(row) /\ <<saved.nic, row.addr>> \notin os
           /\ saved' = ForgetRow(saved, A.sub) /\ routes' = [routes EXCEPT ![A.sub] = None]
           /\ Prepared
  <2>1. /\ DataType' /\ RowsFiled' /\ LedgerStep
        /\ saved'.nic = saved.nic /\ saved'.row[A.sub] = None
        /\ \A r \in Subnets : RemovalKept(r) /\ (RouteLive(r) => RouteLive(r)')
    BY <1>1, <1>2, <1>7, RowForgotten
  <2>2. routes'[A.sub] = None
    BY <1>2, <1>7 DEF AddressInv, DataType
  <2>3. /\ proc' \in [Actors -> Locals] /\ Others(Adopter) /\ UNCHANGED locks
        /\ A'.nic = A.nic /\ A'.pc \in {"probe", "reserve"} /\ AdopterWork'
    BY <1>5, <1>7, <2>1, <2>2
  <2> QED BY <1>1, <1>2, <2>1, <2>3, AdopterStep1 DEF AdopterPcs
<1> QED BY <1>3, <1>4, <1>6, <1>7

\* The file answers for the address before the bind command.
LEMMA AdReserveStep ==
    ASSUME AddressInv, AdReserve
    PROVE  StepKeeps
<1> DEFINE x == A.cur
           clean == ForgetTemporary(saved, x)
<1>1. A.pc = "reserve" /\ UNCHANGED <<windows, routes, locks>>
  BY DEF AdReserve
<1>2. /\ A \in Locals /\ ControlType /\ work = Adopter /\ Adopter \in Actors /\ x \in Pair
      /\ saved \in Settings /\ mine \subseteq os /\ A.sub \in Subnets /\ saved.row[A.sub] = None
      /\ routes[A.sub] = None
      /\ A.pass # "probe" => A.addr \in Addrs /\ SubnetOf[A.addr] = A.sub
  BY <1>1, AdopterHolds DEF AddressInv, ControlInv, AdopterWork, Adopting, DataType
<1>3. PICK pc \in {"recheck", "fail"} :
        /\ proc' = [proc EXCEPT ![Adopter].pc = pc, ![Adopter].own = @ \cup {x}]
        /\ \/ /\ pc = "recheck" /\ x \notin os /\ RowsOf(clean, x[2]) = {}
              /\ saved' = [clean EXCEPT !.pending = @ \cup {x}]
           \/ pc = "fail" /\ saved' = saved
           \/ pc = "fail" /\ x \notin os /\ saved' = clean
  BY DEF AdReserve, Persist, MayReserve
<1> DEFINE own == A.own \cup {x}
           l == [A EXCEPT !.pc = pc, !.own = own]
<1>4. own \in SUBSET Pair /\ pc \in PCs /\ proc' = [proc EXCEPT ![Adopter] = l]
  BY <1>2, <1>3, ZenonT(60) DEF Locals, PCs, A, ControlType
<1> HIDE DEF own
<1>5. /\ l \in Locals /\ l.pc = pc /\ l.nic = A.nic /\ l.sub = A.sub /\ l.addr = A.addr
      /\ l.cur = x /\ l.pass = A.pass
  BY <1>2, <1>4 DEF Locals
<1> HIDE DEF l
<1>6. proc' \in [Actors -> Locals] /\ Others(Adopter) /\ A' = l
  BY <1>4, <1>5, AdopterMoved
<1>7. pc = "fail" => AdopterWork'
  BY <1>5, <1>6 DEF AdopterWork, Adopting, InTemp, A
<1>8. CASE pc = "fail" /\ saved' = saved
  BY <1>1, <1>4, <1>5, <1>7, <1>8, HoldingMove DEF AdopterPcs
<1>9. CASE pc = "fail" /\ x \notin os /\ saved' = clean
  <2>1. x \notin mine
    BY <1>2, <1>9
  <2>2. /\ DataType' /\ RowsFiled' /\ LedgerStep /\ \A r \in Subnets : RemovalKept(r)
        /\ saved'.row = saved.row /\ saved'.nic = saved.nic
    BY <1>1, <1>9, <2>1, TempForgotten
  <2>3. \A r \in Subnets : RouteLive(r) => RouteLive(r)'
    BY <1>1, <2>2 DEF RouteLive
  <2> QED BY <1>1, <1>2, <1>5, <1>6, <1>7, <1>9, <2>2, <2>3, AdopterStep1 DEF AdopterPcs
<1>10. CASE /\ pc = "recheck" /\ x \notin os /\ RowsOf(clean, x[2]) = {}
            /\ saved' = [clean EXCEPT !.pending = @ \cup {x}]
  <2>1. clean \in Settings /\ clean.row = saved.row /\ clean.pending = saved.pending \ {x}
        /\ clean.nic = saved.nic
    BY <1>2, ForgetFacts
  <2> HIDE DEF clean
  <2>2. /\ saved' \in Settings /\ saved'.row = saved.row /\ saved'.nic = saved.nic
        /\ saved'.pending = saved.pending \cup {x}
    BY <1>2, <1>10, <2>1 DEF Settings
  <2>3. DataType'
    BY <1>1, <2>2 DEF AddressInv, DataType, windows
  <2>4. RowsFiled'
    <3>1. \A r \in Subnets : ~(saved'.row[r] # None /\ saved'.row[r].addr = x[2])
      BY <1>10, <2>1, <2>2 DEF RowsOf
    <3>2. ASSUME NEW y \in saved'.pending PROVE ~Owned(y)'
      <4>1. CASE y = x
        BY <3>1, <4>1 DEF Owned, RowsOf
      <4>2. CASE y # x
        <5>1. y \in saved.pending /\ ~Owned(y)
          BY <2>2, <4>2 DEF AddressInv, RowsFiled
        <5> QED BY <2>2, <5>1 DEF Owned, RowsOf
      <4> QED BY <4>1, <4>2
    <3> QED BY <2>2, <3>2 DEF AddressInv, RowsFiled
  <2>5. LedgerStep
    <3>1. Recorded' = Recorded \cup {x} /\ mine' = mine
      BY <1>1, <2>2 DEF Recorded, windows
    <3>2. {x} \in SUBSET Pair
      BY <1>2
    <3> QED BY <3>1, <3>2, LedgerRecord
  <2>6. \A r \in Subnets : RemovalKept(r) /\ (RouteLive(r) => RouteLive(r)')
    BY <1>1, <2>2 DEF RemovalKept, RouteLive
  <2>7. AdopterWork'
    BY <1>1, <1>2, <1>5, <1>6, <1>10, <2>2 DEF AdopterWork, Adopting, InTemp, A, windows
  <2> QED BY <1>1, <1>2, <1>5, <1>6, <1>10, <2>2, <2>3, <2>4, <2>5, <2>6, <2>7, AdopterStep1
          DEF AdopterPcs
<1> QED BY <1>3, <1>8, <1>9, <1>10

LEMMA AdRecheckStep ==
    ASSUME AddressInv, AdRecheck
    PROVE  StepKeeps
<1> DEFINE x == A.cur
<1>1. A.pc = "recheck" /\ UNCHANGED <<windows, routes, locks>>
  BY DEF AdRecheck
<1>2. /\ work = Adopter /\ x \in Pair /\ x \notin mine /\ x \in saved.pending
      /\ A.sub \in Subnets /\ saved.row[A.sub] = None /\ routes[A.sub] = None
      /\ A.pass # "probe" => A.addr \in Addrs /\ SubnetOf[A.addr] = A.sub
  BY <1>1, AdopterHolds DEF AddressInv, ControlInv, AdopterWork, Adopting
<1>3. PICK pc \in {"bind", "fail"} :
        /\ Goto(Adopter, pc)
        /\ saved' = saved \/ (pc = "fail" /\ saved' = ForgetTemporary(saved, x))
  BY DEF AdRecheck, Persist
<1>4. pc \in PCs
  BY DEF PCs
<1>5. /\ proc' \in [Actors -> Locals] /\ Others(Adopter) /\ A'.pc = pc /\ A'.nic = A.nic
      /\ A'.sub = A.sub /\ A'.addr = A.addr /\ A'.cur = x /\ A'.pass = A.pass
  BY <1>3, <1>4, AdopterGoto
<1>6. CASE saved' = saved
  <2>1. AdopterWork'
    BY <1>1, <1>2, <1>5, <1>6 DEF AdopterWork, Adopting, InTemp, A
  <2> QED BY <1>1, <1>3, <1>6, <2>1, HoldingGoto DEF AdopterPcs
<1>7. CASE pc = "fail" /\ saved' = ForgetTemporary(saved, x)
  <2>1. AdopterWork'
    BY <1>5, <1>7 DEF AdopterWork, Adopting, InTemp, A
  <2>2. /\ DataType' /\ RowsFiled' /\ LedgerStep /\ \A r \in Subnets : RemovalKept(r)
        /\ saved'.row = saved.row /\ saved'.nic = saved.nic
    BY <1>1, <1>2, <1>7, TempForgotten
  <2>3. \A r \in Subnets : RouteLive(r) => RouteLive(r)'
    BY <1>1, <2>2 DEF RouteLive
  <2> QED BY <1>1, <1>2, <1>5, <1>7, <2>1, <2>2, <2>3, AdopterStep1 DEF AdopterPcs
<1> QED BY <1>3, <1>6, <1>7

LEMMA AdBindStep ==
    ASSUME AddressInv, AdBind
    PROVE  StepKeeps
<1> DEFINE x == A.cur
<1>1. A.pc = "bind" /\ UNCHANGED <<saved, dhcp, routes, locks>>
  BY DEF AdBind
<1>2. /\ work = Adopter /\ x \in Pair /\ x \in saved.pending /\ DataType
      /\ A.sub \in Subnets /\ saved.row[A.sub] = None /\ routes[A.sub] = None
      /\ A.pass # "probe" => A.addr \in Addrs /\ SubnetOf[A.addr] = A.sub
  BY <1>1, AdopterHolds DEF AddressInv, ControlInv, AdopterWork, Adopting
<1>3. PICK applied \in BOOLEAN, ok \in BOOLEAN, auto \in BOOLEAN, pc \in {"fail", "probe", "ready"} :
        /\ \/ UNCHANGED <<os, mine, up, doubt>>
           \/ Command(os \cup {x}, auto, applied, ok)
        /\ Goto(Adopter, pc) /\ (pc = "probe" => A.pass = "none")
  <2>1. PICK auto \in BOOLEAN : auto = TRUE
    OBVIOUS
  <2> QED BY <2>1 DEF AdBind
<1>4. /\ os' \subseteq Pair /\ mine' \subseteq os' /\ doubt' \in BOOLEAN /\ up' = up
      /\ mine' \subseteq mine \cup {x} /\ (mine \subseteq mine' \/ mine' \subseteq mine)
  <2>1. CASE UNCHANGED <<os, mine, up, doubt>>
    BY <1>2, <2>1 DEF DataType
  <2>2. CASE Command(os \cup {x}, auto, applied, ok)
    <3>1. os \cup {x} \in SUBSET Pair
      BY <1>2 DEF DataType
    <3> QED BY <1>2, <2>2, <3>1, CommandFacts
  <2> QED BY <1>3, <2>1, <2>2
<1>5. pc \in PCs
  BY DEF PCs
<1>6. /\ proc' \in [Actors -> Locals] /\ Others(Adopter) /\ A'.pc = pc /\ A'.nic = A.nic
      /\ A'.sub = A.sub /\ A'.addr = A.addr /\ A'.cur = x /\ A'.pass = A.pass
  BY <1>3, <1>5, AdopterGoto
<1>7. AdopterWork'
  BY <1>1, <1>2, <1>3, <1>6 DEF AdopterWork, Adopting, InTemp, A
<1>8. AdopterLocks'
  BY <1>1, <1>2, <1>6, AdopterKeepsLocks DEF AdopterPcs, locks
<1>9. ControlInv' /\ (Selecting' <=> Selecting)
  BY <1>1, <1>2, <1>6, <1>7, <1>8, AdopterControl, AdopterHolds DEF locks
<1>10. x \in Recorded
  BY <1>2, RecordedFacts
<1>11. mine' \subseteq mine \/ mine' = mine \cup {x}
  BY <1>4
<1> QED BY <1>1, <1>2, <1>4, <1>9, <1>10, <1>11, NativeStep DEF DataType

\* One save makes the row and drops the temporary record.
LEMMA AdCommitStep ==
    ASSUME AddressInv, AdCommit
    PROVE  StepKeeps
<1> DEFINE s == A.sub
           row == [desired |-> "present", applied |-> TRUE, err |-> FALSE,
                   addr |-> A.addr, owner |-> A.nic]
           x == <<A.nic, A.addr>>
<1>1. A.pc = "commit" /\ UNCHANGED <<windows, routes, locks>>
  BY DEF AdCommit
<1>2. /\ work = Adopter /\ A.pass # "probe" /\ A.addr \in Addrs /\ SubnetOf[A.addr] = s
      /\ s \in Subnets /\ saved.row[s] = None /\ routes[s] = None /\ A.nic \in Nics
      /\ saved \in Settings
  BY <1>1, AdopterHolds DEF AddressInv, ControlInv, AdopterWork, Adopting, DataType
<1>3. \/ saved' = SetBinding(saved, s, row) /\ Goto(Adopter, "publish")
      \/ saved' = saved /\ Goto(Adopter, "fail")
  BY DEF AdCommit, Persist
<1>4. CASE saved' = saved /\ Goto(Adopter, "fail")
  <2>1. A'.pc = "fail"
    BY <1>4, AdopterGoto DEF PCs
  <2>2. AdopterWork'
    BY <2>1 DEF AdopterWork, Adopting, InTemp, A
  <2> QED BY <1>1, <1>4, <2>2, HoldingGoto DEF AdopterPcs
<1>5. CASE saved' = SetBinding(saved, s, row) /\ Goto(Adopter, "publish")
  <2>1. /\ row \in Row /\ row.desired = "present" /\ row.applied /\ ~row.err
        /\ row.addr = A.addr /\ row.owner = A.nic /\ row # None
    <3>1. PICK t \in BOOLEAN, f \in BOOLEAN : t = TRUE /\ f = FALSE
      OBVIOUS
    <3>2. row = [desired |-> "present", applied |-> t, err |-> f, addr |-> A.addr,
                 owner |-> A.nic]
      BY <3>1
    <3> HIDE DEF row
    <3>3. row \in Row
      BY <1>2, <3>2 DEF Row
    <3>4. row # None
      BY <3>3, ConstantsAssumption
    <3> QED BY <3>1, <3>2, <3>3, <3>4
  <2>2. /\ proc' \in [Actors -> Locals] /\ Others(Adopter) /\ A'.pc = "publish" /\ A'.nic = A.nic
        /\ A'.sub = s /\ A'.addr = A.addr /\ A'.pass = A.pass
    BY <1>5, AdopterGoto DEF PCs
  <2>3. /\ saved' \in Settings /\ saved'.nic = saved.nic /\ saved'.row[s] = row
        /\ \A r \in Subnets : r # s => saved'.row[r] = saved.row[r]
        /\ saved'.pending = saved.pending \ {x}
    <3> HIDE DEF row
    <3>1. /\ saved' \in Settings /\ saved'.nic = saved.nic
          /\ saved'.row = [saved.row EXCEPT ![s] = row]
          /\ saved'.pending = saved.pending \ {<<row.owner, row.addr>>}
      BY <1>2, <1>5, <2>1, LiveFacts
    <3>2. saved.row \in [Subnets -> Row \cup {None}]
      BY <1>2 DEF Settings
    <3> QED BY <1>2, <2>1, <3>1, <3>2
  <2>4. AdopterWork'
    BY <1>1, <1>2, <2>2, <2>3 DEF AdopterWork, Adopting, InTemp, A
  <2> HIDE DEF row
  <2>5. DataType'
    BY <1>1, <2>3 DEF AddressInv, DataType, windows
  <2>6. RowsFiled'
    <3>1. ASSUME NEW r \in Subnets, saved'.row[r] # None
          PROVE  /\ SubnetOf[saved'.row[r].addr] = r
                 /\ saved'.row[r].owner = None =>
                      saved'.row[r].desired = "present" /\ saved'.row[r].addr \in LegacyAddrs
      BY <1>2, <2>1, <2>3, <3>1, ConstantsAssumption DEF AddressInv, RowsFiled
    <3>2. ASSUME NEW y \in saved'.pending PROVE ~Owned(y)'
      <4>1. y \in saved.pending /\ y # x /\ ~Owned(y) /\ y \in Pair
        BY <1>2, <2>3 DEF AddressInv, RowsFiled, Settings
      <4>2. ~(row.addr = y[2] /\ row.owner = y[1])
        BY <2>1, <4>1 DEF Pair
      <4>3. \A r \in Subnets : ~(saved.row[r] # None /\ saved.row[r].addr = y[2]
                                                     /\ saved.row[r].owner = y[1])
        BY <4>1 DEF Owned, RowsOf
      <4> QED BY <2>3, <4>2, <4>3 DEF Owned, RowsOf
    <3> QED BY <3>1, <3>2 DEF RowsFiled
  <2>7. LedgerStep
    <3>1. \A r \in Subnets : r # s => (Answers(r)' <=> Answers(r)) /\ RowPair(r)' = RowPair(r)
      BY <2>3 DEF Answers, RowPair, RemovalComplete
    <3>2. ~Answers(s)
      BY <1>2 DEF Answers
    <3>3. saved'.row[s] # None /\ ~RemovalComplete(saved'.row[s]) /\ saved'.row[s].owner # None
      BY <1>2, <2>1, <2>3, ConstantsAssumption DEF RemovalComplete
    <3>4. <<saved'.row[s].owner, saved'.row[s].addr>> = x
      BY <2>1, <2>3
    <3>5. Recorded' = Recorded \cup {x}
      <4>1. Recorded' = saved'.pending \cup {RowPair(r)' : r \in {q \in Subnets : Answers(q)'}}
        BY RecordedNext
      <4>2. \A q \in Subnets : q = s => Answers(q)' /\ RowPair(q)' = x
        BY <3>3, <3>4 DEF Answers, RowPair
      <4> QED BY <1>2, <2>3, <3>1, <3>2, <4>1, <4>2, RecordedFacts
    <3>6. {x} \in SUBSET Pair /\ mine' = mine
      BY <1>1, <1>2 DEF Pair, windows
    <3> QED BY <3>5, <3>6, LedgerRecord
  <2>8. \A r \in Subnets : RemovalKept(r) /\ (RouteLive(r) => RouteLive(r)')
    BY <1>1, <1>2, <2>3 DEF RemovalKept, RouteLive
  <2> QED BY <1>1, <1>2, <2>2, <2>3, <2>4, <2>5, <2>6, <2>7, <2>8, AdopterStep1 DEF AdopterPcs
<1> QED BY <1>3, <1>4, <1>5

LEMMA AdPublishStep ==
    ASSUME AddressInv, AdPublish
    PROVE  StepKeeps
<1> DEFINE s == A.sub
<1>1. A.pc = "publish" /\ UNCHANGED <<saved, windows>> /\ routes' = [routes EXCEPT ![s] = A.addr]
  BY DEF AdPublish
<1>2. /\ work = Adopter /\ A \in Locals /\ ControlType /\ Adopter \in Actors
      /\ A.nic = saved.nic \/ Selecting
      /\ A.pass # "probe" /\ s \in Subnets /\ A.addr \in Addrs
  BY <1>1, AdopterHolds DEF AddressInv, ControlInv, AdopterWork, Adopting
<1>3. /\ saved.row[s].desired = "present" /\ saved.row[s].applied /\ ~saved.row[s].err
      /\ saved.row[s].addr = A.addr /\ saved.row[s].owner = A.nic /\ saved.row[s] # None
  <2> DEFINE row == saved.row[s]
             n == A.nic
             a == A.addr
  <2>1. row = [desired |-> "present", applied |-> TRUE, err |-> FALSE, addr |-> a, owner |-> n]
    BY <1>1 DEF AddressInv, ControlInv, AdopterWork
  <2>2. n \in Nics /\ a \in Addrs
    BY <1>1, <1>2, AdopterHolds
  <2> HIDE DEF row, n, a
  <2>3. PICK t \in BOOLEAN, f \in BOOLEAN : t = TRUE /\ f = FALSE
    OBVIOUS
  <2>4. row = [desired |-> "present", applied |-> t, err |-> f, addr |-> a, owner |-> n]
    BY <2>1, <2>3
  <2>5. row \in Row
    BY <2>2, <2>4 DEF Row
  <2>6. row # None
    BY <2>5, ConstantsAssumption
  <2>7. row.desired = "present" /\ row.applied /\ ~row.err /\ row.addr = a /\ row.owner = n
    BY <2>3, <2>4
  <2> QED BY <2>6, <2>7 DEF row, n, a
<1>4. DataType' /\ RowsFiled'
  BY <1>1, <1>2 DEF AddressInv, DataType, RowsFiled, Owned, RowsOf, windows
<1>5. LedgerStep /\ \A r \in Subnets : RemovalKept(r)
  BY <1>1, FileSame, LedgerSame DEF windows
<1>6. \A r \in Subnets : ~Selecting /\ RouteLive(r) => RouteLive(r)'
  BY <1>1, <1>2, <1>3 DEF RouteLive, AddressInv, DataType
<1>7. CASE Release("wait")
  <2>1. ControlInv' /\ (Selecting' <=> Selecting)
    BY <1>1, <1>2, <1>7, ReleaseControl
  <2>2. RoutesLive'
    BY <1>6, <2>1 DEF AddressInv, RoutesLive
  <2> QED BY <1>4, <1>5, <2>1, <2>2 DEF StepKeeps, AddressInv
<1>8. CASE ~Release("wait")
  <2> DEFINE own == A.own \ {A.cur}
             l == [A EXCEPT !.pc = "handed", !.own = own, !.addr = None, !.sub = None]
  <2>1. /\ proc' = [proc EXCEPT ![Adopter].pc = "handed", ![Adopter].own = @ \ {A.cur},
                        ![Adopter].addr = None, ![Adopter].sub = None]
        /\ UNCHANGED locks
    BY <1>8 DEF AdPublish
  <2>2. own \in SUBSET Pair /\ "handed" \in PCs /\ proc' = [proc EXCEPT ![Adopter] = l]
    BY <1>2, <2>1 DEF Locals, PCs, A, ControlType
  <2> HIDE DEF own
  <2>3. l \in Locals /\ l.pc = "handed" /\ l.nic = A.nic
    BY <1>2, <2>2 DEF Locals
  <2> HIDE DEF l
  <2>4. proc' \in [Actors -> Locals] /\ Others(Adopter) /\ A' = l
    BY <2>2, <2>3, AdopterMoved
  <2>5. AdopterWork'
    BY <2>3, <2>4 DEF AdopterWork, Adopting, InTemp, A
  <2> QED BY <1>1, <1>2, <1>4, <1>5, <1>6, <2>1, <2>3, <2>4, <2>5, AdopterStep1 DEF AdopterPcs
<1> QED BY <1>7, <1>8

-----------------------------------------------------------------------------
(***************************************************************************)
(* The environment.                                                        *)
(***************************************************************************)

LEMMA StillControl ==
    ASSUME AddressInv, UNCHANGED <<saved, routes, locks, proc>>, mine' \subseteq mine
    PROVE  ControlInv' /\ (Selecting' <=> Selecting)
<1>1. \A v \in Users : UserInv(v)'
  BY UserStays, ActorsApart DEF locks, A
<1>2. Selecting' <=> Selecting
  BY DEF Selecting
<1>3. AdopterLocks' /\ AdopterWork'
  BY <1>2, AdopterStays DEF AdopterSame, A, locks
<1>4. ControlType' /\ PauseHeld'
  BY DEF AddressInv, ControlInv, ControlType, PauseHeld, locks
<1> QED BY <1>1, <1>2, <1>3, <1>4 DEF ControlInv

LEMMA ExternalStep ==
    ASSUME AddressInv, External \/ ClearDoubt
    PROVE  StepKeeps
<1>1. /\ UNCHANGED <<saved, dhcp, routes, locks, proc>> /\ mine' \subseteq mine
      /\ os' \subseteq Pair /\ mine' \subseteq os' /\ doubt' \in BOOLEAN
  BY DEF External, ClearDoubt, AddressInv, DataType
<1>2. up' \in BOOLEAN
  <2>1. (~up) \in BOOLEAN /\ up \in BOOLEAN
    BY DEF AddressInv, DataType
  <2>2. up' = up \/ up' = ~up
    BY DEF External, ClearDoubt
  <2> QED BY <2>1, <2>2, Zenon
<1>3. ControlInv' /\ (Selecting' <=> Selecting)
  BY <1>1, StillControl
<1> QED BY <1>1, <1>2, <1>3, NativeStep DEF AddressInv, DataType

LEMMA CrashStep ==
    ASSUME AddressInv, Crash
    PROVE  StepKeeps
<1> DEFINE off == [Idle EXCEPT !.pc = "off"]
<1>1. /\ proc' = [p \in Actors |-> IF p = Adopter THEN off ELSE Idle]
      /\ routes' = [s \in Subnets |-> None] /\ session' = FALSE /\ paused' = FALSE
      /\ discovery' = Nobody /\ work' = Nobody /\ doubt' \in BOOLEAN
      /\ UNCHANGED <<saved, os, mine, up, dhcp>>
  BY DEF Crash
<1>2. off \in Locals /\ off.pc = "off"
  <2>1. "off" \in PCs
    BY DEF PCs
  <2> QED BY <2>1, LoopLocals
<1> HIDE DEF off
<1>3. /\ proc' \in [Actors -> Locals] /\ proc'[Adopter] = off
      /\ \A v \in Users : proc'[v] = Idle
  BY <1>1, <1>2, IdleLocals, ActorsApart
<1>4. \A v \in Users : UserInv(v)'
  BY <1>1, <1>3, IdleUser, ActorsApart
<1>5. AdopterLocks' /\ AdopterWork'
  BY <1>1, <1>2, <1>3, FreshAdopter, ActorsApart DEF A
<1>6. ControlType' /\ PauseHeld'
  BY <1>1, <1>3 DEF ControlType, PauseHeld
<1>7. ControlInv'
  BY <1>4, <1>5, <1>6 DEF ControlInv
<1>8. DataType' /\ RowsFiled'
  BY <1>1 DEF AddressInv, DataType, RowsFiled, Owned, RowsOf
<1>9. RoutesLive'
  BY <1>1 DEF RoutesLive, RouteLive
<1>10. LedgerStep /\ \A s \in Subnets : RemovalKept(s)
  BY <1>1, FileSame, LedgerSame
<1> QED BY <1>7, <1>8, <1>9, <1>10 DEF StepKeeps, AddressInv

LEMMA StutterStep ==
    ASSUME AddressInv, UNCHANGED vars
    PROVE  StepKeeps
<1>1. UNCHANGED <<saved, windows, routes, locks, proc>>
  BY DEF vars, windows, locks
<1>2. ControlInv' /\ (Selecting' <=> Selecting)
  BY <1>1, StillControl DEF windows
<1> QED BY <1>1, <1>2, QuietStep

-----------------------------------------------------------------------------
(***************************************************************************)
(* The specification.                                                      *)
(***************************************************************************)

LEMMA InitHolds ==
    ASSUME Init
    PROVE  AddressInv /\ Ledger!Init
<1> DEFINE old == [s \in Subnets |->
                     IF \E a \in LegacyAddrs : SubnetOf[a] = s
                     THEN CHOOSE a \in LegacyAddrs : SubnetOf[a] = s ELSE None]
<1>1. PICK n \in Nics :
        /\ saved = [row |-> [s \in Subnets |-> IF old[s] = None THEN None ELSE LegacyRow(old[s])],
                    subnets |-> old, pending |-> {}, mode |-> "auto", nic |-> n]
        /\ os = {} /\ mine = {} /\ up = TRUE /\ dhcp = FALSE /\ doubt = FALSE
        /\ routes = [s \in Subnets |-> None]
        /\ session = TRUE /\ paused = FALSE /\ discovery = Nobody /\ work = Nobody
        /\ proc = [p \in Actors |-> IF p = Adopter
                                    THEN [Idle EXCEPT !.pc = "wait", !.nic = n] ELSE Idle]
  BY Zenon DEF Init
\* The rows of the old file.
<1>2. \A s \in Subnets : old[s] # None => old[s] \in LegacyAddrs /\ SubnetOf[old[s]] = s
  OBVIOUS
<1> HIDE DEF old
<1>3. \A a \in Addrs : /\ LegacyRow(a) \in Row /\ LegacyRow(a).desired = "present"
                       /\ LegacyRow(a).addr = a /\ LegacyRow(a).owner = None
  <2>1. PICK f \in BOOLEAN : f = FALSE
    OBVIOUS
  <2>2. \A a : LegacyRow(a) = [desired |-> "present", applied |-> f, err |-> f,
                               addr |-> a, owner |-> None]
    BY <2>1 DEF LegacyRow
  <2> QED BY <2>2 DEF Row
<1>4. \A s \in Subnets : old[s] # None => old[s] \in Addrs
  BY <1>2, ConstantsAssumption
<1> DEFINE rows == [s \in Subnets |-> IF old[s] = None THEN None ELSE LegacyRow(old[s])]
<1>5. rows \in [Subnets -> Row \cup {None}]
  BY <1>3, <1>4
<1>6. \A s \in Subnets : rows[s] # None =>
        /\ SubnetOf[rows[s].addr] = s /\ rows[s].owner = None /\ rows[s].desired = "present"
        /\ rows[s].addr \in LegacyAddrs
  BY <1>2, <1>3, <1>4
<1>7. old \in [Subnets -> Addrs \cup {None}]
  <2>1. old = [s \in Subnets |-> old[s]]
    BY DEF old
  <2> QED BY <1>4, <2>1
<1>8. saved.row = rows /\ saved.subnets = old /\ saved.pending = {} /\ saved.nic = n /\ saved \in Settings
  <2>1. saved = [row |-> rows, subnets |-> old, pending |-> {}, mode |-> "auto", nic |-> n]
    BY <1>1
  <2> HIDE DEF rows
  <2> QED BY <1>5, <1>7, <2>1 DEF Settings, Modes
<1> HIDE DEF rows
<1>9. DataType
  <2>1. TRUE \in BOOLEAN /\ FALSE \in BOOLEAN
    OBVIOUS
  <2>2. up \in BOOLEAN /\ dhcp \in BOOLEAN /\ doubt \in BOOLEAN
    BY <1>1, <2>1
  <2> QED BY <1>1, <1>8, <2>2 DEF DataType
<1>10. RowsFiled
  BY <1>6, <1>8 DEF RowsFiled
<1> DEFINE wait == [Idle EXCEPT !.pc = "wait", !.nic = n]
<1>11. wait \in Locals /\ wait.pc = "wait" /\ wait.nic = n
  <2>1. "wait" \in PCs
    BY DEF PCs
  <2> QED BY <2>1, LoopLocals
<1>12. proc = [p \in Actors |-> IF p = Adopter THEN wait ELSE Idle]
  BY <1>1
<1> HIDE DEF wait
<1>13. proc \in [Actors -> Locals] /\ A = wait /\ \A u \in Users : proc[u] = Idle
  BY <1>11, <1>12, IdleLocals, ActorsApart DEF A
<1>14. ControlType
  <2>1. session \in BOOLEAN /\ paused \in BOOLEAN
    BY <1>1
  <2> QED BY <1>1, <1>13, <2>1 DEF ControlType
<1>15. \A u \in Users : UserInv(u)
  BY <1>1, <1>13, IdleLocals, ActorsApart
     DEF UserInv, UserLocks, UserSections, UserIntent, PlanSound, InTemp, UserPcs, WorkPcs
<1>16. AdopterLocks /\ AdopterWork
  BY <1>1, <1>8, <1>11, <1>13, ActorsApart
     DEF AdopterLocks, AdopterWork, Adopting, AdopterPcs, InTemp, A
<1>17. PauseHeld /\ RoutesLive
  BY <1>1 DEF PauseHeld, RoutesLive, RouteLive
<1>18. Ledger!Init
  <2>1. Recorded = {}
    BY <1>6, <1>8 DEF Recorded
  <2> QED BY <1>1, <2>1 DEF Ledger!Init, Ours
<1> QED BY <1>9, <1>10, <1>14, <1>15, <1>16, <1>17, <1>18 DEF AddressInv, ControlInv

LEMMA UserStepKeeps ==
    ASSUME AddressInv, NEW u \in Users, Request(u) \/ Timeout(u) \/ UserStep(u)
    PROVE  StepKeeps
  BY RequestStep, TimeoutStep, TakeOpStep, StopStep, JoinStep, SweepStep, SweptStep,
     TakeWorkStep, StartSessionStep, EndStep, RowsBeginStep, RowCommandStep, RowPublishStep,
     RowsEndStep, FinishStep, BeginStep, TargetStep, StatusStep, LookStep, NativeUserStep,
     ObserveStep, ForgetStep, ModeCommandStep, PrimaryStep, SetModeStep, RefreshStep
  DEF UserStep

LEMMA AdopterStepKeeps ==
    ASSUME AddressInv, AdopterStep \/ AdTimeout
    PROVE  StepKeeps
  BY AdWaitStep, RestStep, PassStep, AdAdmitStep, AdPrepareStep, AdReserveStep, AdRecheckStep,
     AdBindStep, AdProbeStep, AdFinalStep, AdReadyStep, AdFailStep, AdCommitStep,
     AdPublishStep, PrResolveStep, PrHandedStep, AdTimeoutStep
  DEF AdopterStep

LEMMA NextKeeps ==
    ASSUME AddressInv, [Next]_vars
    PROVE  StepKeeps
<1>1. ASSUME NEW u \in Users, Request(u) \/ Timeout(u) \/ UserStep(u) PROVE StepKeeps
  BY <1>1, UserStepKeeps
<1>2. ASSUME NEW p \in Actors, TempStep(p) PROVE StepKeeps
  BY <1>2, TempLeaveStep, TempForgetStep, TempRemoveStep, TempConfirmStep DEF TempStep
<1>3. CASE AdopterStep \/ AdTimeout
  BY <1>3, AdopterStepKeeps
<1>4. CASE External \/ ClearDoubt
  BY <1>4, ExternalStep
<1>5. CASE Crash
  BY <1>5, CrashStep
<1>6. CASE UNCHANGED vars
  BY <1>6, StutterStep
<1> QED BY <1>1, <1>2, <1>3, <1>4, <1>5, <1>6 DEF Next

\* The invariant of the address transactions: locks belong to their sections, the
\* adoption loop is off while a session operation works, plans are sound, rows
\* are filed once, and routes are live unless the adapter is being changed.
THEOREM AddressesInvariant == Spec => []AddressInv
<1>1. Init => AddressInv
  BY InitHolds
<1>2. AddressInv /\ [Next]_vars => AddressInv'
  BY NextKeeps DEF StepKeeps
<1> QED BY <1>1, <1>2, PTL DEF Spec

\* TypeOK holds in every behaviour; in particular a saved row is filed under the
\* /24 of its address, whatever order the saves of the rows come in.
THEOREM AddressesTyped == Spec => []TypeOK
<1>1. AddressInv => TypeOK
  <2> SUFFICES ASSUME AddressInv PROVE TypeOK
    OBVIOUS
  <2>1. /\ saved \in [row : [Subnets -> Row \cup {None}], subnets : [Subnets -> Addrs \cup {None}],
                      pending : SUBSET Pair, mode : Modes, nic : Nics]
        /\ os \subseteq Pair /\ mine \subseteq os /\ routes \in [Subnets -> Addrs \cup {None}]
    BY DEF AddressInv, DataType, Settings
  <2>2. up \in BOOLEAN /\ dhcp \in BOOLEAN /\ doubt \in BOOLEAN /\ session \in BOOLEAN
        /\ paused \in BOOLEAN
    BY DEF AddressInv, DataType, ControlInv, ControlType
  <2>3. {up, dhcp, doubt, session, paused} \subseteq BOOLEAN
    BY <2>2, Zenon
  <2>4. /\ discovery \in Users \cup {Nobody} /\ work \in Actors \cup {Nobody}
        /\ \A p \in Actors : proc[p].pc \in PCs /\ proc[p].plan \in [Subnets -> Plans]
    BY DEF AddressInv, ControlInv, ControlType, Locals
  <2>5. \A s \in Subnets : saved.row[s] # None => SubnetOf[saved.row[s].addr] = s
    BY DEF AddressInv, RowsFiled
  <2> QED BY <2>1, <2>3, <2>4, <2>5 DEF TypeOK
<1> QED BY <1>1, AddressesInvariant, PTL

\* PauseOwned: a pause and the user's hold on address_work always belong to an
\* operation that still holds discovery_op (address_operation, AddressPause), for
\* any number of callers, adapters and faults.
THEOREM PauseHasOwner == Spec => []PauseOwned
<1>1. AddressInv => PauseOwned
  BY ActorsApart DEF AddressInv, ControlInv, PauseHeld, UserInv, UserLocks, PauseOwned, WorkPcs
<1> QED BY <1>1, AddressesInvariant, PTL

\* RoutesTrue: with no operation under way a route is a saved, applied row of the
\* selected adapter (publish_binding, publish_adoption, resolve_adapter_locked).
THEOREM RoutesAreTrue == Spec => []RoutesTrue
<1>1. AddressInv => RoutesTrue
  <2> SUFFICES ASSUME AddressInv, discovery = Nobody, work = Nobody,
                      NEW s \in Subnets, routes[s] # None
               PROVE  /\ saved.row[s] # None /\ saved.row[s].desired = "present"
                      /\ saved.row[s].applied /\ ~saved.row[s].err
                      /\ saved.row[s].addr = routes[s] /\ saved.row[s].owner = saved.nic
    BY DEF RoutesTrue
  <2>1. ~Selecting
    BY SelectingFacts
  <2> QED BY <2>1 DEF AddressInv, RoutesLive, RouteLive
<1> QED BY <1>1, AddressesInvariant, PTL

\* RemovalFinal: a removal that the user asked for is never turned back into a
\* wanted row, and is dropped only when it is confirmed or the user claims the
\* address (set_binding_intent, forget_completed_removal_with, claim_binding_with).
THEOREM RemovalStays == Spec => RemovalFinal
<1>1. AddressInv /\ [Next]_vars => \A s \in Subnets : RemovalKept(s)
  BY NextKeeps DEF StepKeeps
<1>2. (\A s \in Subnets : RemovalKept(s)) =>
        [\A s \in Subnets :
            saved.row[s] # None /\ saved.row[s].desired = "removed" =>
                \/ saved'.row[s] # None /\ saved'.row[s].desired = "removed"
                \/ RemovalComplete(saved.row[s]) /\ <<saved.nic, saved.row[s].addr>> \notin os
                \/ \E u \in Users : proc[u].pc \in {"observe", "primary"} /\ work = u
                     /\ proc[u].addr = saved.row[s].addr]_vars
  BY DEF RemovalKept
<1> QED BY <1>1, <1>2, AddressesInvariant, PTL DEF Spec, RemovalFinal

\* OwnershipDurable: the address transactions implement the write-ahead ledger of
\* AddressLedger, across failed saves, failed or half applied native commands,
\* changes made outside the application, and crashes.
THEOREM TransactionsImplementLedger == Spec => OwnershipDurable
<1>1. Init => Ledger!Init
  BY InitHolds
<1>2. AddressInv /\ [Next]_vars => [Ledger!Next]_(Ledger!vars)
  BY NextKeeps DEF StepKeeps, LedgerStep
<1> QED BY <1>1, <1>2, AddressesInvariant, PTL DEF Spec, OwnershipDurable, Ledger!Spec

\* What the ledger is for: nothing assigned is ever unknown to the file, whatever
\* is recorded, assigned, withdrawn, forgotten and claimed, in any order.
LEMMA LedgerCovers ==
    ASSUME Ledger!Covered, [Ledger!Next]_(Ledger!vars)
    PROVE  Ledger!Covered'
<1> DEFINE Items == {x \in Pair : x[2] \notin LegacyAddrs}
<1>1. ASSUME NEW S \in SUBSET Items, Ledger!Record(S) PROVE Ledger!Covered'
  BY <1>1 DEF Ledger!Record, Ledger!Covered
<1>2. ASSUME NEW S \in SUBSET Items, Ledger!Withdraw(S) PROVE Ledger!Covered'
  BY <1>2 DEF Ledger!Withdraw, Ledger!Covered
<1>3. ASSUME NEW S \in SUBSET Items, Ledger!Forget(S) PROVE Ledger!Covered'
  BY <1>3 DEF Ledger!Forget, Ledger!Covered
<1>4. ASSUME NEW S \in SUBSET Items, Ledger!Claim(S) PROVE Ledger!Covered'
  BY <1>4 DEF Ledger!Claim, Ledger!Covered
<1>5. ASSUME NEW x \in Items, Ledger!Assign(x) PROVE Ledger!Covered'
  BY <1>5 DEF Ledger!Assign, Ledger!Covered
<1>6. CASE UNCHANGED Ledger!vars
  BY <1>6 DEF Ledger!vars, Ledger!Covered
<1> QED BY <1>1, <1>2, <1>3, <1>4, <1>5, <1>6 DEF Ledger!Next

\* The crash safety the ledger is there for: at no moment, a crash included, is
\* there an address that automatic work put on an adapter (PendingAdoptOps::add,
\* apply_binding) and that neither a saved row nor a temporary address on
\* file answers for.
THEOREM AssignedIsOnFile == Spec => []Ledger!Covered
<1>1. Ledger!Init => Ledger!Covered
  BY DEF Ledger!Init, Ledger!Covered
<1>2. Ledger!Spec => []Ledger!Covered
  BY <1>1, LedgerCovers, PTL DEF Ledger!Spec
<1> QED BY <1>2, TransactionsImplementLedger, PTL DEF OwnershipDurable
==============================================================================
