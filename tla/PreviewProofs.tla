---------------------------- MODULE PreviewProofs ----------------------------
(***************************************************************************)
(* Proofs about the preview: PlaybackService, and the child window of      *)
(* VideoSurface it is rendered into.  A Stop that returned is final, the   *)
(* one UDP port has one owner and a reserved recording has its branch on   *)
(* the stored pipeline, for any number of users and however many requests, *)
(* faults and changes of the network interleave; the window in use is never*)
(* destroyed or moved through another incarnation's token, and no window is*)
(* forgotten, for any number of handle values, commands, windows and       *)
(* closures.                                                               *)
(***************************************************************************)
EXTENDS PlaybackService, VideoSurface, FiniteSetTheorems, TLAPS

-----------------------------------------------------------------------------
(***************************************************************************)
(* The inductive invariant.                                                *)
(***************************************************************************)
UserPcs == {"idle", "start", "retry", "clear", "wait", "retire", "teardown",
            "unclaim", "attach", "detach", "recorded", "mute"}
StepPcs == {"idle", "current", "select", "ready", "update", "check", "retire",
            "teardown", "decide", "attempt", "final", "store"}

\* Where a request or the step holds playback_lifecycle.
LockedPcs == {"retire", "teardown", "unclaim", "attach", "detach", "recorded"}
               \cup (StepPcs \ {"idle"})

\* A Stop under way, and one whose first section is done.
Stopping == {"clear", "wait", "retire", "teardown", "unclaim"}
Cleared == Stopping \ {"clear"}

Paths == [adapter : Nat, addr : 0..1]
Keys == [health : Epochs, gen : Nat]
Instances == [epoch : Epochs, gen : Nat]
Locals == [pc : UserPcs \cup StepPcs,
           op : {"start", "retry", "stop", "record", "mute", "step"},
           epoch : Epochs, health : Epochs, src : Sources, path : Paths,
           snap : PlaybackHealth, pipe : Keys, gone : BOOLEAN]
Slots == [set : BOOLEAN, src : Sources, health : Epochs, intent : Epochs,
          adapter : Nat, ready : Paths, claim : Protocols \cup {"none"},
          instance : Instances, pipe : Keys, rec : BOOLEAN]
Pipelines == [epoch : Epochs, health : Epochs, gen : Nat, proto : Protocols,
              muted : BOOLEAN, on : BOOLEAN, open : BOOLEAN, rec : BOOLEAN]

\* The shape of the state, locals included.
PlaybackType ==
    /\ epoch \in Epochs /\ stopped \in Nat
    /\ slot \in Slots
    /\ health \in [Epochs -> PlaybackHealth]
    /\ live \subseteq Pipelines
    /\ proc \in [Procs -> Locals]
    /\ config \in Sources
    /\ net \in [adapter : Nat, addr : 0..1, up : BOOLEAN]
    /\ relay \in [desired : BOOLEAN, server : BOOLEAN]

\* A guard of the lifecycle lock is held exactly in the sections under it.
LockHeld ==
    /\ \A t \in Procs : proc[t].pc \in LockedPcs <=> lifecycle = t
    /\ lifecycle \in Procs \cup {Nobody}
    /\ \A u \in Users : proc[u].pc \in UserPcs
    /\ proc[S].pc \in StepPcs

\* No epoch is newer than the one claimed last.
EpochsOrdered ==
    /\ stopped <= epoch /\ slot.intent <= epoch /\ slot.instance.epoch <= epoch
    /\ slot.health <= epoch /\ slot.pipe.health <= epoch
    /\ \A t \in Procs : proc[t].epoch <= epoch /\ proc[t].health <= epoch
    /\ slot.set <=> slot.intent # 0
    /\ proc[S].pc # "idle" => proc[S].epoch # 0

\* The epoch a Stop claimed is nobody's intent, and after the Stop's first
\* section the intent, if there is one, is newer.
StopsDistinct ==
    \A u \in Users : proc[u].pc \in Stopping =>
        /\ proc[u].epoch # 0 /\ proc[u].epoch # slot.intent
        /\ proc[u].epoch # slot.instance.epoch /\ proc[u].epoch # proc[S].epoch
        /\ proc[u].pc \in Cleared /\ slot.set => slot.intent > proc[u].epoch

\* An attempt that is begun has another key than the stored pipeline.
Attempting == proc[S].pc \in {"attempt", "final", "store"}
AttemptsNew ==
    /\ slot.pipe.gen <= health[slot.pipe.health].gen
    /\ Attempting => slot.pipe # Mine /\ Mine.gen > 0

\* A pipeline exists in the slot, in the step that builds it, or in the hands
\* of whoever tears it down.
Building(p) ==
    /\ proc[S].pc \in {"final", "store"}
    /\ Key(p) = Mine /\ p.epoch = proc[S].epoch
Falling(p) == \E t \in Procs : proc[t].pc = "teardown" /\ Key(p) = proc[t].pipe
PipelinesOwned ==
    /\ \A p \in live : Key(p) = slot.pipe \/ Building(p) \/ Falling(p)
    /\ \A p \in live : Key(p) = slot.pipe => p.epoch = slot.instance.epoch
    /\ \A p \in live : p.gen > 0
    /\ \A p, q \in live : Key(p) = Key(q) => p = q
    /\ slot.pipe # NoPipe => \E p \in live : Key(p) = slot.pipe
    /\ proc[S].pc \in {"final", "store"} => \E p \in live : Key(p) = Mine
    /\ \A t \in Procs : proc[t].pc = "teardown" => slot.pipe = NoPipe
    /\ \A u \in Users : proc[u].pc = "unclaim" => \A p \in live : p.epoch > proc[u].epoch

\* A branch that writes a file is on the stored pipeline or one that is being
\* torn down; the sections of a recording request know which pipeline is theirs.
BranchesOwned ==
    /\ slot.rec => slot.pipe # NoPipe
    /\ \A p \in live : p.rec => (slot.rec /\ Key(p) = slot.pipe) \/ Falling(p)
    /\ \A u \in Users : /\ proc[u].pc = "attach" => slot.rec
                        /\ proc[u].pc \in {"attach", "detach"} => proc[u].pipe = slot.pipe
                        /\ proc[u].pc \in {"attach", "recorded"} => \A p \in live : ~p.rec

PlaybackInv ==
    /\ PlaybackType /\ LockHeld /\ EpochsOrdered /\ StopsDistinct
    /\ AttemptsNew /\ PipelinesOwned /\ BranchesOwned
    /\ StopIsFinal /\ OneClaim

-----------------------------------------------------------------------------
(***************************************************************************)
(* Operators of the model.                                                 *)
(***************************************************************************)

\* Epochs are natural numbers, and 0 is one.
LEMMA EpochsNat == Epochs \subseteq Nat /\ 0 \in Epochs
  BY PlaybackAssumption DEF Epochs

\* Only begin_attempt changes the attempt a health record is at.
LEMMA HealthOps ==
    ASSUME NEW h \in PlaybackHealth
    PROVE  /\ BeginAttempt(h) \in PlaybackHealth /\ BeginAttempt(h).gen = h.gen + 1
           /\ \A g : ObserveBuffer(h, g) \in PlaybackHealth /\ ObserveBuffer(h, g).gen = h.gen
           /\ \A g, r : RecordFault(h, g, r) \in PlaybackHealth /\ RecordFault(h, g, r).gen = h.gen
           /\ ScheduleRecovery(h) \in PlaybackHealth /\ ScheduleRecovery(h).gen = h.gen
           /\ WakeReady(h) \in PlaybackHealth /\ WakeReady(h).gen = h.gen
           /\ RetryNow(h) \in PlaybackHealth /\ RetryNow(h).gen = h.gen
           /\ Retired(h) \in PlaybackHealth /\ Retired(h).gen = h.gen
<1>1. BeginAttempt(h) \in PlaybackHealth /\ BeginAttempt(h).gen = h.gen + 1
  <2>1. PICK n \in Nat : n = h.gen + 1
    BY DEF PlaybackHealth
  <2>2. BeginAttempt(h) = [h EXCEPT !.gen = n, !.active = TRUE, !.retry = "none"]
    BY <2>1 DEF BeginAttempt
  <2> QED BY <2>1, <2>2 DEF PlaybackHealth
<1>2. \A g : ObserveBuffer(h, g) \in PlaybackHealth /\ ObserveBuffer(h, g).gen = h.gen
  BY DEF PlaybackHealth, ObserveBuffer
<1>3. \A g, r : RecordFault(h, g, r) \in PlaybackHealth /\ RecordFault(h, g, r).gen = h.gen
  BY DEF PlaybackHealth, RecordFault
<1>4. ScheduleRecovery(h) \in PlaybackHealth /\ ScheduleRecovery(h).gen = h.gen
  BY DEF PlaybackHealth, ScheduleRecovery
<1>5. WakeReady(h) \in PlaybackHealth /\ WakeReady(h).gen = h.gen
  BY DEF PlaybackHealth, WakeReady
<1>6. RetryNow(h) \in PlaybackHealth /\ RetryNow(h).gen = h.gen
  BY DEF PlaybackHealth, RetryNow
<1>7. Retired(h) \in PlaybackHealth /\ Retired(h).gen = h.gen
  BY DEF PlaybackHealth, Retired
<1> QED BY <1>1, <1>2, <1>3, <1>4, <1>5, <1>6, <1>7

\* A fault that is recorded ends no attempt but its own, and begins none.
LEMMA FaultRecorded ==
    ASSUME health \in [Epochs -> PlaybackHealth], NEW e, NEW g, NEW r,
           health' = [health EXCEPT ![e] = RecordFault(@, g, r)]
    PROVE  /\ health' \in [Epochs -> PlaybackHealth]
           /\ \A x \in Epochs : health'[x].gen = health[x].gen
<1>1. \A x \in Epochs : /\ health'[x] \in PlaybackHealth
                        /\ health'[x].gen = health[x].gen
  <2> TAKE x \in Epochs
  <2>1. health'[x] = health[x] \/ health'[x] = RecordFault(health[x], g, r)
    OBVIOUS
  <2>2. health[x] \in PlaybackHealth
    OBVIOUS
  <2> QED BY <2>1, <2>2, HealthOps
<1> QED BY <1>1

\* A task that is over has the locals of one that has not begun.
LEMMA IdleLocals ==
    /\ Idle \in Locals /\ Idle.pc = "idle" /\ Idle.epoch = 0 /\ Idle.health = 0
    /\ NoSource \in Sources /\ NoPath \in Paths /\ NoPipe \in Keys /\ NoInstance \in Instances
    /\ NewHealth \in PlaybackHealth /\ NewHealth.gen = 0
    /\ NoInstance.epoch = 0 /\ NoPipe.health = 0 /\ NoPipe.gen = 0
  BY EpochsNat DEF Idle, Locals, NewHealth, PlaybackHealth, NoSource, Sources,
        Protocols, NoPath, Paths, NoPipe, Keys, NoInstance, Instances, UserPcs

\* Only task t goes on, with locals r.
Moves(t, r) == proc' = [proc EXCEPT ![t] = r]

LEMMA Moving ==
    ASSUME PlaybackType, NEW t \in Procs, NEW r \in Locals, Moves(t, r)
    PROVE  /\ proc' \in [Procs -> Locals]
           /\ proc'[t] = r
           /\ \A s \in Procs : s # t => proc'[s] = proc[s]
  BY DEF PlaybackType, Moves

\* A task leaves: its locals and its lock are dropped.
LEMMA Leaving ==
    ASSUME PlaybackType, NEW t \in Procs, Leave(t)
    PROVE  /\ proc' \in [Procs -> Locals]
           /\ proc'[t] = Idle
           /\ \A s \in Procs : s # t => proc'[s] = proc[s]
           /\ lifecycle' = IF lifecycle = t THEN Nobody ELSE lifecycle
<1>1. Moves(t, Idle)
  BY DEF Leave, Moves
<1> QED BY <1>1, Moving, IdleLocals DEF Leave

\* A task goes on to its next section and keeps the rest of its locals.
LEMMA Going ==
    ASSUME PlaybackType, NEW t \in Procs, NEW pc \in UserPcs \cup StepPcs, Goto(t, pc)
    PROVE  /\ proc' \in [Procs -> Locals]
           /\ proc'[t] = [proc[t] EXCEPT !.pc = pc]
           /\ proc'[t].pc = pc /\ proc'[t].epoch = proc[t].epoch
           /\ proc'[t].health = proc[t].health /\ proc'[t].pipe = proc[t].pipe
           /\ \A s \in Procs : s # t => proc'[s] = proc[s]
           /\ lifecycle' = lifecycle
  BY DEF PlaybackType, Goto, Locals

\* The supervisor is no user.
LEMMA SupervisorApart == S \in Procs /\ S \notin Users /\ Users \subseteq Procs
  BY PlaybackAssumption DEF S, Procs

\* The supervisor's health record, once it has one.
LEMMA SettingHealth ==
    ASSUME PlaybackType, NEW h \in PlaybackHealth, SetHealth(h)
    PROVE  /\ health' \in [Epochs -> PlaybackHealth]
           /\ health'[proc[S].health] = h
           /\ \A e \in Epochs : e # proc[S].health => health'[e] = health[e]
           /\ proc[S].health \in Epochs
  BY SupervisorApart DEF PlaybackType, SetHealth, Locals

LEMMA MyHealthType ==
    ASSUME PlaybackType PROVE MyHealth \in PlaybackHealth /\ proc[S] \in Locals
  BY SupervisorApart DEF PlaybackType, MyHealth, Locals

-----------------------------------------------------------------------------
(***************************************************************************)
(* The shape of the state.                                                 *)
(***************************************************************************)

\* Initially nothing is desired, built or under way.
LEMMA InitPlayback == Init => PlaybackInv
<1> SUFFICES ASSUME Init PROVE PlaybackInv
  OBVIOUS
<1> USE EpochsNat, IdleLocals, SupervisorApart DEF Init
<1>1. PlaybackType
  <2>1. slot \in Slots
    BY DEF Slots
  <2>2. config \in Sources
    OBVIOUS
  <2>3. /\ net \in [adapter : Nat, addr : 0..1, up : BOOLEAN]
        /\ relay \in [desired : BOOLEAN, server : BOOLEAN]
    OBVIOUS
  <2> QED BY <2>1, <2>2, <2>3 DEF PlaybackType
<1>2. \A t \in Procs : proc[t].pc = "idle" /\ proc[t].epoch = 0 /\ proc[t].health = 0
  OBVIOUS
<1>3. LockHeld /\ EpochsOrdered
  BY <1>2, PlaybackAssumption DEF LockHeld, EpochsOrdered, LockedPcs, StepPcs, UserPcs,
        Procs
<1>4. StopsDistinct /\ BranchesOwned
  BY <1>2 DEF StopsDistinct, BranchesOwned, Stopping
<1>5. AttemptsNew
  <2>1. slot.pipe = NoPipe /\ health[NoPipe.health] = NewHealth /\ ~Attempting
    BY <1>2 DEF Attempting
  <2> QED BY <2>1 DEF AttemptsNew
<1>6. PipelinesOwned
  BY <1>2 DEF PipelinesOwned
<1>7. StopIsFinal /\ OneClaim
  BY DEF StopIsFinal, OneClaim, RelayClaims
<1> QED BY <1>1, <1>3, <1>4, <1>5, <1>6, <1>7 DEF PlaybackInv

\* The shape after a section of a tear-down.
LEMMA TearingType ==
    ASSUME PlaybackType, NEW t \in Procs, Tearing(t)
    PROVE  PlaybackType'
<1>0. proc[t] \in Locals /\ slot \in Slots
  BY DEF PlaybackType
<1> USE EpochsNat, IdleLocals
<1>1. CASE RetirePlayback(t)
  <2>1. slot' \in Slots /\ slot.pipe \in Keys
    BY <1>0, <1>1 DEF RetirePlayback, Slots
  <2>2. Moves(t, [proc[t] EXCEPT !.pc = "teardown", !.pipe = slot.pipe])
    BY <1>1 DEF RetirePlayback, Moves, PlaybackType
  <2>3. [proc[t] EXCEPT !.pc = "teardown", !.pipe = slot.pipe] \in Locals
    BY <1>0, <2>1 DEF Locals, UserPcs
  <2> QED BY <1>1, <2>1, <2>2, <2>3, Moving DEF RetirePlayback, World, PlaybackType
<1>2. CASE Teardown(t)
  <2>1. PICK pc \in {"decide", "unclaim"} :
           proc' = [proc EXCEPT ![t].pc = pc, ![t].gone = TRUE]
    BY <1>2 DEF Teardown
  <2>2. Moves(t, [proc[t] EXCEPT !.pc = pc, !.gone = TRUE])
    BY <2>1 DEF Moves, PlaybackType
  <2>3. [proc[t] EXCEPT !.pc = pc, !.gone = TRUE] \in Locals
    BY <1>0 DEF Locals, UserPcs, StepPcs
  <2> QED BY <1>2, <2>2, <2>3, Moving DEF Teardown, World, PlaybackType
<1> QED BY <1>1, <1>2 DEF Tearing

\* The shape after a user's step.
LEMMA UserType ==
    ASSUME PlaybackType, NEW u \in Users, Asks(u) \/ Proceeds(u)
    PROVE  PlaybackType'
<1> USE EpochsNat, IdleLocals, SupervisorApart
<1>0. /\ u \in Procs /\ proc[u] \in Locals /\ slot \in Slots
      /\ epoch \in Epochs /\ config \in Sources
  BY DEF PlaybackType
<1>1. ASSUME NEW op \in {"start", "retry"}, Request(u, op) PROVE PlaybackType'
  <2>1. Moves(u, [Idle EXCEPT !.pc = op, !.op = op, !.epoch = epoch, !.src = config])
    BY <1>1 DEF Request, Moves
  <2>2. [Idle EXCEPT !.pc = op, !.op = op, !.epoch = epoch, !.src = config] \in Locals
    BY <1>0 DEF Locals, UserPcs
  <2> QED BY <1>0, <1>1, <2>1, <2>2, Moving DEF Request, World, PlaybackType
<1>2. CASE StopRequest(u)
  <2>1. /\ Moves(u, [Idle EXCEPT !.pc = "clear", !.op = "stop", !.epoch = epoch + 1])
        /\ epoch + 1 \in Epochs
    BY <1>2 DEF StopRequest, Moves
  <2>2. [Idle EXCEPT !.pc = "clear", !.op = "stop", !.epoch = epoch + 1] \in Locals
    BY <2>1 DEF Locals, UserPcs
  <2> QED BY <1>0, <1>2, <2>1, <2>2, Moving DEF StopRequest, World, PlaybackType
<1>3. ASSUME NEW pc \in {"attach", "detach"},
             Moves(u, [Idle EXCEPT !.pc = pc, !.op = "record", !.pipe = slot.pipe]),
             slot' \in Slots, UNCHANGED <<epoch, health, live, stopped, config, net, relay>>
      PROVE  PlaybackType'
  <2>1. slot.pipe \in Keys
    BY <1>0 DEF Slots
  <2>2. [Idle EXCEPT !.pc = pc, !.op = "record", !.pipe = slot.pipe] \in Locals
    BY <2>1 DEF Locals, UserPcs
  <2> QED BY <1>0, <1>3, <2>2, Moving DEF PlaybackType
<1>4. CASE RecordReserve(u)
  <2>1. slot' \in Slots
    BY <1>0, <1>4 DEF RecordReserve, Slots
  <2> QED BY <1>3, <1>4, <2>1 DEF RecordReserve, Moves, World
<1>5. CASE RecordFind(u)
  BY <1>0, <1>3, <1>5 DEF RecordFind, Moves, World
<1>6. CASE MuteRequest(u)
  <2>1. PICK b \in BOOLEAN : b = ~config.muted
    OBVIOUS
  <2>2. config' = [config EXCEPT !.muted = b]
    BY <1>6, <2>1 DEF MuteRequest
  <2>3. config' \in Sources
    BY <1>0, <2>2 DEF Sources
  <2>4. Moves(u, [Idle EXCEPT !.pc = "mute", !.op = "mute", !.src = config'])
    BY <1>6 DEF MuteRequest, Moves
  <2>5. [Idle EXCEPT !.pc = "mute", !.op = "mute", !.src = config'] \in Locals
    BY <2>3 DEF Locals, UserPcs
  <2> QED BY <1>0, <1>6, <2>3, <2>4, <2>5, Moving DEF MuteRequest, PlaybackType
<1>7. ASSUME NEW e \in Epochs, Replace(e) PROVE epoch' \in Epochs /\ health' \in [Epochs -> PlaybackHealth]
  BY <1>7, HealthOps DEF Replace, PlaybackType
<1>8. CASE StartPublish(u)
  <2>1. proc' \in [Procs -> Locals] /\ UNCHANGED <<live, stopped, config, net, relay>>
    BY <1>0, <1>8, Leaving DEF StartPublish, World
  <2>2. CASE UNCHANGED <<epoch, slot, health>>
    BY <2>1, <2>2 DEF PlaybackType
  <2>3. CASE ~UNCHANGED <<epoch, slot, health>>
    <3> DEFINE e == proc[u].epoch + 1
               src == proc[u].src
    <3>1. /\ Replace(e)
          /\ slot' = [slot EXCEPT !.set = TRUE, !.src = src, !.health = e, !.intent = e,
                        !.adapter = 0, !.ready = NoPath, !.claim = src.proto]
      BY <1>8, <2>3 DEF StartPublish
    <3>2. e \in Epochs
      BY <3>1 DEF Replace
    <3>3. src \in Sources /\ src.proto \in Protocols
      BY <1>0 DEF Locals, Sources
    <3> HIDE DEF e, src
    <3>4. slot' \in Slots
      BY <1>0, <3>1, <3>2, <3>3 DEF Slots
    <3> QED BY <1>7, <2>1, <3>1, <3>2, <3>4 DEF PlaybackType
  <2> QED BY <2>2, <2>3
<1>9. CASE RetryPublish(u)
  <2>1. proc' \in [Procs -> Locals] /\ UNCHANGED <<live, stopped, config, net, relay>>
    BY <1>0, <1>9, Leaving DEF RetryPublish, World
  <2> DEFINE e == proc[u].epoch + 1
             desired == [slot.src EXCEPT !.cred = proc[u].src.cred]
  <2>2. \/ UNCHANGED <<epoch, slot, health>>
        \/ Replace(e) /\ slot' = [slot EXCEPT !.src = desired, !.health = e, !.intent = e]
        \/ /\ \E manual \in BOOLEAN :
                health' = [health EXCEPT ![slot.health] =
                             IF manual THEN RetryNow(@) ELSE WakeReady(@)]
           /\ UNCHANGED <<epoch, slot>>
    BY <1>9 DEF RetryPublish
  <2>3. desired \in Sources
    BY <1>0 DEF Slots, Locals, Sources
  <2>4. CASE Replace(e) /\ slot' = [slot EXCEPT !.src = desired, !.health = e, !.intent = e]
    <3>1. e \in Epochs
      BY <2>4 DEF Replace
    <3> HIDE DEF e, desired
    <3>2. slot' \in Slots
      BY <1>0, <2>3, <2>4, <3>1 DEF Slots
    <3> QED BY <1>7, <2>1, <2>4, <3>1, <3>2 DEF PlaybackType
  <2>5. ASSUME NEW manual \in BOOLEAN,
               health' = [health EXCEPT ![slot.health] =
                            IF manual THEN RetryNow(@) ELSE WakeReady(@)],
               UNCHANGED <<epoch, slot>>
        PROVE  PlaybackType'
    <3>1. health' \in [Epochs -> PlaybackHealth]
      BY <2>5, HealthOps DEF PlaybackType
    <3> QED BY <2>1, <2>5, <3>1 DEF PlaybackType
  <2>6. CASE UNCHANGED <<epoch, slot, health>>
    BY <2>1, <2>6 DEF PlaybackType
  <2> QED BY <2>2, <2>4, <2>5, <2>6
<1>10. CASE StopClear(u)
  <2>1. proc' \in [Procs -> Locals] /\ UNCHANGED <<epoch, live, stopped, config, net, relay>>
    BY <1>0, <1>10, Going DEF StopClear, World, UserPcs
  <2>2. health' \in [Epochs -> PlaybackHealth]
    BY <1>10, HealthOps DEF StopClear, PlaybackType
  <2>3. slot' \in Slots
    BY <1>0, <1>10 DEF StopClear, Slots
  <2> QED BY <2>1, <2>2, <2>3 DEF PlaybackType
<1>11. CASE StopTake(u)
  <2>1. PICK pc \in {"retire", "unclaim"} : proc' = [proc EXCEPT ![u].pc = pc]
    BY <1>11 DEF StopTake
  <2>2. proc' \in [Procs -> Locals]
    BY <1>0, <2>1 DEF PlaybackType, Locals, UserPcs
  <2> QED BY <1>11, <2>2 DEF StopTake, World, PlaybackType
<1>12. CASE StopReturn(u)
  <2>1. proc' \in [Procs -> Locals]
    BY <1>0, <1>12, Leaving DEF StopReturn
  <2>2. slot' \in Slots
    BY <1>0, <1>12 DEF StopReturn, Slots
  <2>3. stopped' \in Nat
    BY <1>0, <1>12 DEF StopReturn, Locals, PlaybackType
  <2> QED BY <1>12, <2>1, <2>2, <2>3 DEF StopReturn, World, PlaybackType
<1>13. ASSUME NEW k, NEW on \in BOOLEAN PROVE Branch(k, on) \subseteq Pipelines
  BY DEF Branch, PlaybackType, Pipelines
<1>14. CASE RecordAttach(u)
  <2>1. proc' \in [Procs -> Locals]
    BY <1>0, <1>14, Leaving DEF RecordAttach
  <2>2. slot' \in Slots
    BY <1>0, <1>14 DEF RecordAttach, Slots
  <2>3. live' \subseteq Pipelines
    BY <1>13, <1>14, ZenonT(60) DEF RecordAttach, PlaybackType
  <2> QED BY <1>14, <2>1, <2>2, <2>3 DEF RecordAttach, World, PlaybackType
<1>15. CASE RecordDetach(u)
  <2>1. proc' \in [Procs -> Locals]
    BY <1>0, <1>15, Leaving, Going DEF RecordDetach, UserPcs
  <2>2. live' \subseteq Pipelines
    <3>1. live' = live \/ live' = Branch(proc[u].pipe, FALSE)
      BY <1>15 DEF RecordDetach
    <3>2. Branch(proc[u].pipe, FALSE) \subseteq Pipelines
      BY <1>13
    <3> QED BY <3>1, <3>2 DEF PlaybackType
  <2> QED BY <1>15, <2>1, <2>2 DEF RecordDetach, World, PlaybackType
<1>16. CASE RecordClear(u)
  <2>1. proc' \in [Procs -> Locals]
    BY <1>0, <1>16, Leaving DEF RecordClear
  <2>2. slot' \in Slots
    BY <1>0, <1>16 DEF RecordClear, Slots
  <2> QED BY <1>16, <2>1, <2>2 DEF RecordClear, World, PlaybackType
<1>17. CASE MuteApply(u)
  <2>1. proc' \in [Procs -> Locals]
    BY <1>0, <1>17, Leaving DEF MuteApply
  <2>2. proc[u].src.muted \in BOOLEAN /\ slot.src \in Sources
    BY <1>0 DEF Locals, Sources, Slots
  <2>3. slot' \in Slots
    <3>1. [slot.src EXCEPT !.muted = proc[u].src.muted] \in Sources
      BY <2>2 DEF Sources
    <3>2. slot' = slot \/ slot' = [slot EXCEPT !.src = [slot.src EXCEPT !.muted = proc[u].src.muted]]
      BY <1>17 DEF MuteApply
    <3> QED BY <1>0, <3>1, <3>2 DEF Slots
  <2>4. live' \subseteq Pipelines
    BY <1>17, <2>2 DEF MuteApply, PlaybackType, Pipelines
  <2> QED BY <1>17, <2>1, <2>3, <2>4 DEF MuteApply, World, PlaybackType
<1>18. CASE Tearing(u)
  BY <1>0, <1>18, TearingType
<1> QED BY <1>1, <1>2, <1>4, <1>5, <1>6, <1>8, <1>9, <1>10, <1>11, <1>12, <1>14,
           <1>15, <1>16, <1>17, <1>18
        DEF Asks, Proceeds, StartRequest, RetryRequest

\* The shape after a section of the supervisor's step.
LEMMA StepType ==
    ASSUME PlaybackType, Step
    PROVE  PlaybackType'
<1> USE EpochsNat, IdleLocals, SupervisorApart, MyHealthType
<1>0. slot \in Slots /\ epoch \in Epochs /\ health \in [Epochs -> PlaybackHealth]
  BY DEF PlaybackType
<1>1. \A src : PathOf(src) \in Paths
  BY DEF PathOf, Paths, PlaybackType
<1>2. CASE StepBegin
  <2>1. Moves(S, [Idle EXCEPT !.pc = "current", !.op = "step", !.epoch = slot.intent,
                    !.health = slot.health, !.src = slot.src])
    BY <1>2 DEF StepBegin, Moves
  <2>2. [Idle EXCEPT !.pc = "current", !.op = "step", !.epoch = slot.intent,
           !.health = slot.health, !.src = slot.src] \in Locals
    BY <1>0 DEF Slots, Locals, StepPcs
  <2> QED BY <1>2, <2>1, <2>2, Moving DEF StepBegin, World, PlaybackType
<1>3. CASE StepCurrent
  <2>1. CASE Leave(S)
    BY <1>3, <2>1, Leaving DEF StepCurrent, World, PlaybackType
  <2>2. CASE ~Leave(S)
    <3>1. PICK pc \in {"check", "select"} :
             proc' = [proc EXCEPT ![S].path.adapter = net.adapter, ![S].pc = pc]
      BY <1>3, <2>2 DEF StepCurrent
    <3>2. [proc[S].path EXCEPT !.adapter = net.adapter] \in Paths
      BY DEF Locals, Paths, PlaybackType
    <3>3. Moves(S, [proc[S] EXCEPT !.path = [proc[S].path EXCEPT !.adapter = net.adapter],
                                   !.pc = pc])
      BY <3>1 DEF Moves, PlaybackType, Locals
    <3>4. [proc[S] EXCEPT !.path = [proc[S].path EXCEPT !.adapter = net.adapter],
                          !.pc = pc] \in Locals
      BY <3>2 DEF Locals, StepPcs
    <3> QED BY <1>3, <3>3, <3>4, Moving DEF StepCurrent, World, PlaybackType
  <2> QED BY <2>1, <2>2
<1>4. CASE StepSelect
  <2>1. UNCHANGED <<live, stopped, config, net, relay>>
    BY <1>4 DEF StepSelect, World
  <2> DEFINE e == proc[S].epoch
             id == proc[S].path.adapter
  <2>2. id \in Nat /\ e \in Epochs
    BY DEF Locals, Paths
  <2>3. CASE Leave(S) /\ UNCHANGED <<epoch, slot, health>>
    BY <2>1, <2>3, Leaving DEF PlaybackType
  <2>4. CASE /\ epoch' = e + 1 /\ e + 1 \in Epochs
             /\ slot' = [slot EXCEPT !.intent = e + 1, !.adapter = id]
             /\ SetHealth(RecordFault(MyHealth, MyHealth.gen, TRUE))
             /\ proc' = [proc EXCEPT ![S].pc = "ready", ![S].epoch = e + 1]
    <3> HIDE DEF e, id
    <3>1. slot' \in Slots
      BY <1>0, <2>2, <2>4 DEF Slots
    <3>2. Moves(S, [proc[S] EXCEPT !.pc = "ready", !.epoch = e + 1])
      BY <2>4 DEF Moves, PlaybackType
    <3>3. [proc[S] EXCEPT !.pc = "ready", !.epoch = e + 1] \in Locals
      BY <2>4 DEF Locals, StepPcs
    <3>4. health' \in [Epochs -> PlaybackHealth]
      BY <2>4, HealthOps, SettingHealth
    <3> QED BY <2>1, <2>4, <3>1, <3>2, <3>3, <3>4, Moving DEF PlaybackType
  <2>5. CASE slot' = [slot EXCEPT !.adapter = id] /\ Goto(S, "ready") /\ UNCHANGED <<epoch, health>>
    <3>1. slot' \in Slots
      BY <1>0, <2>2, <2>5 DEF Slots
    <3> QED BY <2>1, <2>5, <3>1, Going DEF PlaybackType, StepPcs
  <2> QED BY <1>4, <2>3, <2>4, <2>5 DEF StepSelect
<1>5. CASE StepReady
  <2>1. UNCHANGED <<epoch, slot, health, live, stopped, config, net, relay>>
    BY <1>5 DEF StepReady, World
  <2>2. CASE Leave(S)
    BY <2>1, <2>2, Leaving DEF PlaybackType
  <2>3. CASE Goto(S, "check")
    BY <2>1, <2>3, Going DEF PlaybackType, StepPcs
  <2>4. CASE proc' = [proc EXCEPT ![S].pc = "update", ![S].path = PathOf(proc[S].src)]
    <3>1. Moves(S, [proc[S] EXCEPT !.pc = "update", !.path = PathOf(proc[S].src)])
      BY <2>4 DEF Moves, PlaybackType
    <3>2. [proc[S] EXCEPT !.pc = "update", !.path = PathOf(proc[S].src)] \in Locals
      BY <1>1 DEF Locals, StepPcs
    <3> QED BY <2>1, <3>1, <3>2, Moving DEF PlaybackType
  <2> QED BY <1>5, <2>2, <2>3, <2>4 DEF StepReady
<1>6. CASE StepUpdate
  <2>1. slot' \in Slots
    BY <1>0, <1>6 DEF StepUpdate, Slots, Locals
  <2>2. PICK h \in PlaybackHealth : SetHealth(h)
    BY <1>6, HealthOps DEF StepUpdate
  <2>3. health' \in [Epochs -> PlaybackHealth]
    BY <2>2, SettingHealth
  <2>4. proc' \in [Procs -> Locals]
    BY <1>6, Going DEF StepUpdate, StepPcs
  <2> QED BY <1>6, <2>1, <2>3, <2>4 DEF StepUpdate, World, PlaybackType
<1>7. CASE StepCheck
  <2>1. health' \in [Epochs -> PlaybackHealth]
    <3>1. health' = health \/ \E p \in Stored :
             health' = [health EXCEPT ![p.health] = RecordFault(@, p.gen, TRUE)]
      BY <1>7 DEF StepCheck
    <3> QED BY <1>0, <3>1, FaultRecorded
  <2>2. PICK pc \in {"retire", "decide"} :
           proc' = [proc EXCEPT ![S].snap = health'[proc[S].health], ![S].pc = pc]
    BY <1>7 DEF StepCheck
  <2>3. Moves(S, [proc[S] EXCEPT !.snap = health'[proc[S].health], !.pc = pc])
    BY <2>2 DEF Moves, PlaybackType
  <2>4. [proc[S] EXCEPT !.snap = health'[proc[S].health], !.pc = pc] \in Locals
    BY <2>1 DEF Locals, StepPcs
  <2> QED BY <1>7, <2>1, <2>3, <2>4, Moving DEF StepCheck, World, PlaybackType
<1>8. CASE Tearing(S)
  BY <1>8, TearingType
<1>9. CASE StepDecide
  <2>1. proc' \in [Procs -> Locals]
    BY <1>9, Leaving, Going DEF StepDecide, StepPcs
  <2>2. health' = health \/ \E h \in PlaybackHealth : SetHealth(h)
    BY <1>9, HealthOps DEF StepDecide
  <2>3. health' \in [Epochs -> PlaybackHealth]
    BY <1>0, <2>2, SettingHealth
  <2> QED BY <1>9, <2>1, <2>3 DEF StepDecide, World, PlaybackType
<1>10. \A r : ScheduleRecovery(Faulted(r)) \in PlaybackHealth /\ Faulted(r) \in PlaybackHealth
  BY HealthOps DEF Faulted
<1>11. Build \in Pipelines
  <2>1. MyHealth.gen \in Nat
    BY DEF PlaybackHealth
  <2> QED BY <2>1 DEF Build, Mine, Pipelines, Locals, Sources
<1>12. CASE StepAttempt
  <2>1. live' \subseteq Pipelines
    BY <1>11, <1>12 DEF StepAttempt, PlaybackType
  <2>2. health' = health \/ \E h \in PlaybackHealth : SetHealth(h)
    BY <1>10, <1>12 DEF StepAttempt
  <2>3. health' \in [Epochs -> PlaybackHealth]
    BY <1>0, <2>2, SettingHealth
  <2>4. Leave(S) \/ proc' = [proc EXCEPT ![S].pc = "final", ![S].path = PathOf(proc[S].src)]
    BY <1>12 DEF StepAttempt
  <2>5. proc' \in [Procs -> Locals]
    <3>1. [proc[S] EXCEPT !.pc = "final", !.path = PathOf(proc[S].src)] \in Locals
      BY <1>1 DEF Locals, StepPcs
    <3>2. CASE proc' = [proc EXCEPT ![S].pc = "final", ![S].path = PathOf(proc[S].src)]
      <4>1. Moves(S, [proc[S] EXCEPT !.pc = "final", !.path = PathOf(proc[S].src)])
        BY <3>2 DEF Moves, PlaybackType
      <4> QED BY <3>1, <4>1, Moving
    <3> QED BY <2>4, <3>2, Leaving
  <2> QED BY <1>12, <2>1, <2>3, <2>5 DEF StepAttempt, World, PlaybackType
<1>13. ASSUME Discard
       PROVE  /\ health' \in [Epochs -> PlaybackHealth] /\ live' \subseteq Pipelines
              /\ proc' \in [Procs -> Locals]
  BY <1>10, <1>13, Leaving, SettingHealth DEF Discard, PlaybackType
<1>14. CASE StepFinal
  <2>1. CASE Discard
    BY <1>13, <1>14, <2>1 DEF StepFinal, World, PlaybackType
  <2>2. CASE ~Discard
    <3>1. /\ live' = {[p EXCEPT !.on = @ \/ Key(p) = Mine] : p \in live}
          /\ Goto(S, "store")
          /\ health' = health \/ SetHealth(Faulted(FALSE))
      BY <1>14, <2>2 DEF StepFinal
    <3>2. \A p \in live : [p EXCEPT !.on = @ \/ Key(p) = Mine] \in Pipelines
      <4> TAKE p \in live
      <4>1. PICK b \in BOOLEAN : b = (p.on \/ Key(p) = Mine)
        OBVIOUS
      <4>2. [p EXCEPT !.on = b] \in Pipelines
        BY DEF PlaybackType, Pipelines
      <4>3. [p EXCEPT !.on = @ \/ Key(p) = Mine] = [p EXCEPT !.on = b]
        BY <4>1
      <4> QED BY <4>2, <4>3
    <3>3. live' \subseteq Pipelines
      BY <3>1, <3>2
    <3>4. health' \in [Epochs -> PlaybackHealth]
      BY <1>0, <1>10, <3>1, SettingHealth
    <3> QED BY <1>14, <3>1, <3>3, <3>4, Going DEF StepFinal, StepPcs, World, PlaybackType
  <2> QED BY <2>1, <2>2
<1>15. CASE StepStore
  <2>1. CASE Discard /\ UNCHANGED slot
    BY <1>13, <1>15, <2>1 DEF StepStore, World, PlaybackType
  <2>2. CASE /\ Leave(S) /\ live' = live \ Stored /\ UNCHANGED health
             /\ slot' = [slot EXCEPT !.pipe = Mine,
                           !.instance = [epoch |-> proc[S].epoch, gen |-> Mine.gen]]
    <3>1. Mine \in Keys /\ [epoch |-> proc[S].epoch, gen |-> Mine.gen] \in Instances
      BY DEF Mine, Keys, Instances, Locals, PlaybackHealth
    <3>2. slot' \in Slots
      BY <1>0, <2>2, <3>1 DEF Slots
    <3> QED BY <1>15, <2>2, <3>2, Leaving DEF StepStore, World, PlaybackType
  <2> QED BY <1>15, <2>1, <2>2 DEF StepStore
<1> QED BY <1>2, <1>3, <1>4, <1>5, <1>6, <1>7, <1>8, <1>9, <1>12, <1>14, <1>15 DEF Step

\* The shape after a step of a pipeline, of time, of the network or the relay.
\* None of them changes the attempt a health record is at.
LEMMA EnvironmentType ==
    ASSUME PlaybackType, Environment
    PROVE  /\ PlaybackType'
           /\ UNCHANGED <<epoch, slot, lifecycle, proc, stopped>>
           /\ \A e \in Epochs : health'[e].gen = health[e].gen
<1> USE EpochsNat
<1>0. health \in [Epochs -> PlaybackHealth] /\ slot \in Slots
  BY DEF PlaybackType
<1>1. UNCHANGED <<epoch, slot, lifecycle, proc, stopped>>
  BY DEF Environment, Pipeline, Connect, Frame, BusFault, Timer, NetChange, NetReturns,
        Edit, RelayStarts, RelayProceeds, Quiet
<1>2. /\ health' \in [Epochs -> PlaybackHealth]
      /\ \A e \in Epochs : health'[e].gen = health[e].gen
  <2>1. CASE health' = health
    BY <1>0, <2>1
  <2>2. ASSUME NEW p \in live, Frame(p) PROVE <1>2
    <3>1. \A e \in Epochs : /\ health'[e] \in PlaybackHealth
                            /\ health'[e].gen = health[e].gen
      <4> TAKE e \in Epochs
      <4>1. health'[e] = health[e] \/ health'[e] = ObserveBuffer(health[e], p.gen)
        BY <1>0, <2>2 DEF Frame
      <4>2. health[e] \in PlaybackHealth
        BY <1>0
      <4> QED BY <4>1, <4>2, HealthOps
    <3> QED BY <1>0, <2>2, <3>1 DEF Frame
  <2>3. ASSUME NEW p \in live, Connect(p) \/ BusFault(p) PROVE <1>2
    <3>1. health' = health \/ \E r \in BOOLEAN :
             health' = [health EXCEPT ![p.health] = RecordFault(@, p.gen, r)]
      BY <2>3 DEF Connect, BusFault
    <3> QED BY <1>0, <3>1, FaultRecorded
  <2>4. CASE Timer
    <3>1. PICK h \in Epochs : health' = [health EXCEPT ![h].retry = "due"]
      BY <1>0, <2>4 DEF Timer, Slots
    <3>2. [health[h] EXCEPT !.retry = "due"] \in PlaybackHealth
          /\ [health[h] EXCEPT !.retry = "due"].gen = health[h].gen
      BY <1>0 DEF PlaybackHealth
    <3> QED BY <1>0, <3>1, <3>2
  <2> QED BY <2>1, <2>2, <2>3, <2>4 DEF Environment, Pipeline, NetChange, NetReturns,
                Edit, RelayStarts, RelayProceeds
<1>3. live' \subseteq Pipelines
  <2>1. ASSUME NEW p \in live PROVE [p EXCEPT !.open = TRUE] \in Pipelines
    BY DEF PlaybackType, Pipelines
  <2>2. live' = live \/ \E p \in live : live' = (live \ {p}) \cup {[p EXCEPT !.open = TRUE]}
    BY DEF Environment, Pipeline, Connect, Frame, BusFault, Timer, NetChange, NetReturns,
          Edit, RelayStarts, RelayProceeds
  <2> QED BY <2>1, <2>2 DEF PlaybackType
<1>4. net' \in [adapter : Nat, addr : 0..1, up : BOOLEAN]
  <2>0. net \in [adapter : Nat, addr : 0..1, up : BOOLEAN]
    BY DEF PlaybackType
  <2>1. \/ net' = net \/ net' = [net EXCEPT !.adapter = @ + 1]
        \/ net' = [net EXCEPT !.addr = 1 - @] \/ net' = [net EXCEPT !.up = FALSE]
        \/ net' = [net EXCEPT !.up = TRUE]
    BY DEF Environment, Pipeline, Connect, Frame, BusFault, Timer, NetChange, NetReturns,
          Edit, RelayStarts, RelayProceeds, World
  <2>2. net.adapter + 1 \in Nat /\ 1 - net.addr \in 0..1
    BY <2>0
  <2>3. /\ [net EXCEPT !.adapter = @ + 1] \in [adapter : Nat, addr : 0..1, up : BOOLEAN]
        /\ [net EXCEPT !.addr = 1 - @] \in [adapter : Nat, addr : 0..1, up : BOOLEAN]
    BY <2>0, <2>2
  <2>4. /\ [net EXCEPT !.up = FALSE] \in [adapter : Nat, addr : 0..1, up : BOOLEAN]
        /\ [net EXCEPT !.up = TRUE] \in [adapter : Nat, addr : 0..1, up : BOOLEAN]
    BY <2>0
  <2> QED BY <2>0, <2>1, <2>3, <2>4
<1>5. config' \in Sources
  <2>0. config \in Sources
    BY DEF PlaybackType
  <2>1. \/ config' = config \/ config' = [config EXCEPT !.cred = 1 - @]
        \/ config' = [config EXCEPT !.proto = IF @ = "udp" THEN "rtsp" ELSE "udp"]
    BY DEF Environment, Pipeline, Connect, Frame, BusFault, Timer, NetChange, NetReturns,
          Edit, RelayStarts, RelayProceeds, World
  <2> QED BY <2>0, <2>1 DEF Sources, Protocols
<1>6. relay' \in [desired : BOOLEAN, server : BOOLEAN]
  <2>0. relay \in [desired : BOOLEAN, server : BOOLEAN]
    BY DEF PlaybackType
  <2>1. relay' = relay \/ \E b \in BOOLEAN :
          relay' = [relay EXCEPT !.desired = b] \/ relay' = [relay EXCEPT !.server = b]
    BY DEF Environment, Pipeline, Connect, Frame, BusFault, Timer, NetChange, NetReturns,
          Edit, RelayStarts, RelayProceeds, World
  <2> QED BY <2>0, <2>1
<1> QED BY <1>1, <1>2, <1>3, <1>4, <1>5, <1>6 DEF PlaybackType

-----------------------------------------------------------------------------
(***************************************************************************)
(* What a step leaves alone.                                               *)
(***************************************************************************)

\* A task takes the lock, leaves it, or goes on without a change of hands.
LEMMA LockKept ==
    ASSUME PlaybackType, LockHeld, NEW t \in Procs,
           \A s \in Procs : s # t => proc'[s] = proc[s],
           t \in Users => proc'[t].pc \in UserPcs,
           t = S => proc'[t].pc \in StepPcs,
           \/ lifecycle' = lifecycle /\ (proc'[t].pc \in LockedPcs <=> proc[t].pc \in LockedPcs)
           \/ lifecycle = Nobody /\ lifecycle' = t /\ proc'[t].pc \in LockedPcs
           \/ /\ lifecycle' = IF lifecycle = t THEN Nobody ELSE lifecycle
              /\ proc'[t].pc = "idle"
    PROVE  LockHeld'
<1>1. Nobody \notin Procs /\ "idle" \notin LockedPcs
  BY PlaybackAssumption DEF Procs, LockedPcs, StepPcs
<1>2. \A s \in Procs : proc'[s].pc \in LockedPcs <=> lifecycle' = s
  BY <1>1 DEF LockHeld
<1>3. lifecycle' \in Procs \cup {Nobody}
  BY DEF LockHeld
<1>4. (\A u \in Users : proc'[u].pc \in UserPcs) /\ proc'[S].pc \in StepPcs
  BY SupervisorApart DEF LockHeld
<1> QED BY <1>2, <1>3, <1>4 DEF LockHeld

\* Whoever is under the lock is alone under it.
LEMMA LockAlone ==
    ASSUME LockHeld, NEW t \in Procs, lifecycle \in {t, Nobody}
    PROVE  \A s \in Procs : s # t => proc[s].pc \notin LockedPcs
  BY PlaybackAssumption DEF LockHeld, Procs

\* The step's attempt depends on its own locals and its own health record.
LEMMA MineKept ==
    ASSUME PlaybackType, proc'[S] = proc[S],
           health'[proc[S].health].gen = health[proc[S].health].gen
    PROVE  Mine' = Mine
  BY DEF Mine, MyHealth

\* The pipelines that exist keep their epoch, attempt and owner.
Relabelled(F) ==
    /\ F \in [live -> Pipelines] /\ live' = {F[p] : p \in live}
    /\ \A p \in live : Key(F[p]) = Key(p) /\ F[p].epoch = p.epoch /\ F[p].gen = p.gen
Unbranched(F) == \A p \in live : F[p].rec => p.rec

LEMMA SameRelabelled ==
    ASSUME PlaybackType, live' = live
    PROVE  \E F : Relabelled(F) /\ Unbranched(F)
<1> DEFINE F == [p \in live |-> p]
<1>1. Relabelled(F) /\ Unbranched(F)
  BY DEF Relabelled, Unbranched, PlaybackType
<1> QED BY <1>1

\* The key of a pipeline that exists is the key of an attempt.
LEMMA KeyNamed == ASSUME NEW p \in Pipelines, p.gen > 0 PROVE Key(p) # NoPipe
<1>1. Key(p).gen = p.gen /\ NoPipe.gen = 0 /\ p.gen \in Nat
  BY DEF Key, NoPipe, Pipelines
<1> QED BY <1>1

\* Tear-downs under way, and a build under way, go on as they were.
TearingKept ==
    \A t \in Procs : /\ proc'[t].pc = "teardown" <=> proc[t].pc = "teardown"
                     /\ proc[t].pc = "teardown" => proc'[t].pipe = proc[t].pipe
BuildingKept ==
    /\ proc'[S].pc \in {"final", "store"} <=> proc[S].pc \in {"final", "store"}
    /\ proc[S].pc \in {"final", "store"} => Mine' = Mine /\ proc'[S].epoch = proc[S].epoch
SlotKept == slot'.pipe = slot.pipe /\ slot'.instance = slot.instance

LEMMA PipelinesKept ==
    ASSUME PipelinesOwned, NEW F, Relabelled(F), TearingKept, BuildingKept, SlotKept,
           \A u \in Users : proc'[u].pc = "unclaim" => \A p \in live : p.epoch > proc'[u].epoch
    PROVE  PipelinesOwned'
<1>1. \A q \in live' : \E p \in live : /\ q = F[p] /\ Key(q) = Key(p) /\ q.epoch = p.epoch
                                       /\ q.gen = p.gen
  BY DEF Relabelled
<1>2. \A p \in live : F[p] \in live' /\ Key(F[p]) = Key(p)
  BY DEF Relabelled
<1>3. \A p \in live : Falling(p) => \E t \in Procs : proc'[t].pc = "teardown" /\ Key(p) = proc'[t].pipe
  BY DEF Falling, TearingKept
<1>4. \A p \in live : Building(p) => /\ proc'[S].pc \in {"final", "store"}
                                     /\ Key(p) = Mine' /\ p.epoch = proc'[S].epoch
  BY DEF Building, BuildingKept
<1>5. \A q \in live' : \/ Key(q) = slot'.pipe
                       \/ proc'[S].pc \in {"final", "store"} /\ Key(q) = Mine' /\ q.epoch = proc'[S].epoch
                       \/ \E t \in Procs : proc'[t].pc = "teardown" /\ Key(q) = proc'[t].pipe
  <2> TAKE q \in live'
  <2>1. PICK p \in live : q = F[p] /\ Key(q) = Key(p) /\ q.epoch = p.epoch
    BY <1>1
  <2>2. Key(p) = slot.pipe \/ Building(p) \/ Falling(p)
    BY DEF PipelinesOwned
  <2> QED BY <1>3, <1>4, <2>1, <2>2 DEF SlotKept
<1>6. \A q \in live' : (Key(q) = slot'.pipe => q.epoch = slot'.instance.epoch) /\ q.gen > 0
  BY <1>1 DEF SlotKept, PipelinesOwned
<1>7. \A q, r \in live' : Key(q) = Key(r) => q = r
  <2> TAKE q, r \in live'
  <2>1. PICK p \in live : q = F[p] /\ Key(q) = Key(p)
    BY <1>1
  <2>2. PICK o \in live : r = F[o] /\ Key(r) = Key(o)
    BY <1>1
  <2> QED BY <2>1, <2>2 DEF PipelinesOwned
<1>8. slot'.pipe # NoPipe => \E q \in live' : Key(q) = slot'.pipe
  BY <1>2 DEF SlotKept, PipelinesOwned
<1>9. proc'[S].pc \in {"final", "store"} => \E q \in live' : Key(q) = Mine'
  BY <1>2 DEF BuildingKept, PipelinesOwned
<1>10. \A t \in Procs : proc'[t].pc = "teardown" => slot'.pipe = NoPipe
  BY DEF TearingKept, SlotKept, PipelinesOwned
<1>11. \A u \in Users : proc'[u].pc = "unclaim" => \A q \in live' : q.epoch > proc'[u].epoch
  BY <1>1
<1> QED BY <1>5, <1>6, <1>7, <1>8, <1>9, <1>10, <1>11
        DEF PipelinesOwned, Building, Falling, Key

LEMMA BranchesKept ==
    ASSUME BranchesOwned, NEW F, Relabelled(F), Unbranched(F), TearingKept,
           slot'.pipe = slot.pipe, slot'.rec = slot.rec,
           \A u \in Users : proc'[u].pc \in {"attach", "detach", "recorded"} =>
                              proc'[u].pc = proc[u].pc /\ proc'[u].pipe = proc[u].pipe
    PROVE  BranchesOwned'
<1>1. \A q \in live' : \E p \in live : Key(q) = Key(p) /\ (q.rec => p.rec)
  BY DEF Relabelled, Unbranched
<1>2. \A p \in live : Falling(p) => \E t \in Procs : proc'[t].pc = "teardown" /\ Key(p) = proc'[t].pipe
  BY DEF Falling, TearingKept
<1>3. \A q \in live' : q.rec => \/ slot'.rec /\ Key(q) = slot'.pipe
                                \/ \E t \in Procs : proc'[t].pc = "teardown" /\ Key(q) = proc'[t].pipe
  BY <1>1, <1>2 DEF BranchesOwned
<1>4. \A u \in Users : /\ proc'[u].pc = "attach" => slot'.rec
                       /\ proc'[u].pc \in {"attach", "detach"} => proc'[u].pipe = slot'.pipe
                       /\ proc'[u].pc \in {"attach", "recorded"} => \A q \in live' : ~q.rec
  BY <1>1 DEF BranchesOwned
<1>5. slot'.rec => slot'.pipe # NoPipe
  BY DEF BranchesOwned
<1> QED BY <1>3, <1>4, <1>5 DEF BranchesOwned, Falling, Key

\* The attempt of the step and the one of the stored pipeline stay apart.
LEMMA AttemptsKept ==
    ASSUME AttemptsNew, slot'.pipe = slot.pipe,
           health'[slot.pipe.health].gen = health[slot.pipe.health].gen,
           Attempting' => Attempting /\ Mine' = Mine
    PROVE  AttemptsNew'
  BY DEF AttemptsNew

-----------------------------------------------------------------------------
(***************************************************************************)
(* Requests.                                                               *)
(***************************************************************************)
Plain == {"idle", "start", "retry", "mute"}

\* A user's step outside a Stop and a recording, that leaves the pipelines and
\* the slot's hold on them alone.
LEMMA PlainStep ==
    ASSUME PlaybackInv, PlaybackType', NEW u \in Users,
           \A t \in Procs : t # u => proc'[t] = proc[t],
           proc[u].pc \in Plain, proc'[u].pc \in Plain,
           proc'[u].epoch <= epoch, proc'[u].health <= epoch,
           \A e \in Epochs : health'[e].gen = health[e].gen,
           NEW F, Relabelled(F), Unbranched(F),
           SlotKept, slot'.rec = slot.rec, slot'.set = slot.set, slot'.intent = slot.intent,
           slot'.health = slot.health, slot'.claim = slot.claim,
           UNCHANGED <<epoch, lifecycle, stopped, relay>>
    PROVE  PlaybackInv'
<1> USE EpochsNat, SupervisorApart DEF PlaybackInv
<1>0. slot \in Slots /\ proc[S] \in Locals /\ proc'[S] = proc[S]
  BY DEF PlaybackType
<1>1. LockHeld'
  <2>1. \A pc \in Plain : pc \in UserPcs /\ pc \notin LockedPcs
    BY DEF Plain, UserPcs, LockedPcs, StepPcs
  <2> QED BY <2>1, LockKept
<1>2. EpochsOrdered'
  BY DEF EpochsOrdered, SlotKept
<1>3. StopsDistinct'
  BY <1>0 DEF StopsDistinct, SlotKept, Stopping, Plain, Cleared
<1>4. Mine' = Mine
  BY <1>0, MineKept DEF Locals
<1>5. AttemptsNew'
  <2>1. slot.pipe.health \in Epochs
    BY <1>0 DEF Slots, Keys
  <2> QED BY <1>0, <1>4, <2>1, AttemptsKept DEF SlotKept, Attempting
<1>6. TearingKept /\ BuildingKept
  BY <1>0, <1>4 DEF TearingKept, BuildingKept, Plain
<1>7. PipelinesOwned'
  <2>1. \A v \in Users : proc'[v].pc = "unclaim" => \A p \in live : p.epoch > proc'[v].epoch
    BY DEF PipelinesOwned, Plain
  <2> QED BY <1>6, <2>1, PipelinesKept
<1>8. BranchesOwned'
  <2>1. \A v \in Users : proc'[v].pc \in {"attach", "detach", "recorded"} =>
                           proc'[v].pc = proc[v].pc /\ proc'[v].pipe = proc[v].pipe
    BY DEF Plain
  <2> QED BY <1>6, <2>1, BranchesKept DEF SlotKept
<1>9. StopIsFinal'
  BY DEF StopIsFinal, Relabelled
<1>10. OneClaim'
  BY DEF OneClaim, RelayClaims
<1> QED BY <1>1, <1>2, <1>3, <1>5, <1>7, <1>8, <1>9, <1>10

\* A new intent has a new epoch and a new health record.
LEMMA PublishStep ==
    ASSUME PlaybackInv, PlaybackType', NEW u \in Users, proc[u].pc \in Plain, Leave(u),
           Replace(epoch + 1),
           slot'.intent = epoch + 1, slot'.health = epoch + 1, slot'.set = TRUE,
           SlotKept, slot'.rec = slot.rec,
           slot'.claim = "udp" => slot.claim = "udp" \/ ~RelayClaims,
           UNCHANGED <<live, stopped, relay>>
    PROVE  PlaybackInv'
<1> USE EpochsNat, SupervisorApart, IdleLocals DEF PlaybackInv
<1>0. /\ slot \in Slots /\ proc[S] \in Locals /\ epoch \in Nat /\ stopped \in Nat
      /\ epoch' = epoch + 1
      /\ proc'[u] = Idle /\ \A t \in Procs : t # u => proc'[t] = proc[t]
      /\ lifecycle' = IF lifecycle = u THEN Nobody ELSE lifecycle
  BY Leaving DEF PlaybackType, Replace
<1>a. \A t \in Procs : proc[t].epoch \in Nat /\ proc[t].health \in Nat
  BY DEF PlaybackType, Locals
<1>b. /\ slot.intent \in Nat /\ slot.health \in Nat
      /\ slot.instance.epoch \in Nat /\ slot.pipe.health \in Epochs
      /\ slot.pipe.health \in Nat
  BY <1>0 DEF Slots, Instances, Keys
<1>1. LockHeld'
  BY <1>0, LockKept DEF UserPcs
<1>2. EpochsOrdered'
  <2>1. \A t \in Procs : proc'[t].epoch <= epoch' /\ proc'[t].health <= epoch'
    BY <1>0, <1>a DEF EpochsOrdered
  <2>2. slot'.set <=> slot'.intent # 0
    BY <1>0
  <2>3. slot'.instance.epoch <= epoch' /\ slot'.pipe.health <= epoch' /\ stopped' <= epoch'
    BY <1>0, <1>b DEF EpochsOrdered, SlotKept
  <2> QED BY <1>0, <2>1, <2>2, <2>3 DEF EpochsOrdered
<1>3. StopsDistinct'
  BY <1>0, <1>a, <1>b DEF StopsDistinct, EpochsOrdered, SlotKept, Stopping
<1>4. \A e \in Epochs : e # epoch + 1 => health'[e].gen = health[e].gen
  <2> TAKE e \in Epochs
  <2>1. health[e] \in PlaybackHealth
    BY DEF PlaybackType
  <2>2. e # epoch + 1 => health'[e] = health[e] \/ health'[e] = Retired(health[e])
    BY DEF Replace
  <2> QED BY <2>1, <2>2, HealthOps
<1>5. Mine' = Mine
  <2>1. proc[S].health \in Epochs /\ proc[S].health # epoch + 1
    BY <1>0, <1>a DEF Locals, EpochsOrdered
  <2> QED BY <1>0, <1>4, <2>1, MineKept
<1>6. AttemptsNew'
  <2>1. slot.pipe.health # epoch + 1
    BY <1>0, <1>b DEF EpochsOrdered
  <2> QED BY <1>0, <1>b, <1>4, <1>5, <2>1, AttemptsKept DEF SlotKept, Attempting
<1>7. TearingKept /\ BuildingKept
  BY <1>0, <1>5 DEF TearingKept, BuildingKept, Plain
<1>8. PICK F : Relabelled(F) /\ Unbranched(F)
  BY SameRelabelled
<1>9. PipelinesOwned'
  <2>1. \A v \in Users : proc'[v].pc = "unclaim" => \A p \in live : p.epoch > proc'[v].epoch
    BY <1>0 DEF PipelinesOwned
  <2> QED BY <1>7, <1>8, <2>1, PipelinesKept
<1>10. BranchesOwned'
  <2>1. \A v \in Users : proc'[v].pc \in {"attach", "detach", "recorded"} =>
                           proc'[v].pc = proc[v].pc /\ proc'[v].pipe = proc[v].pipe
    BY <1>0
  <2> QED BY <1>7, <1>8, <2>1, BranchesKept DEF SlotKept
<1>11. StopIsFinal'
  BY <1>0 DEF StopIsFinal, EpochsOrdered
<1>12. OneClaim'
  BY DEF OneClaim, RelayClaims
<1> QED BY <1>1, <1>2, <1>3, <1>6, <1>9, <1>10, <1>11, <1>12

\* Start, Retry and the mute preference.
LEMMA RequestStep ==
    ASSUME PlaybackInv, NEW u \in Users,
           \/ StartRequest(u) \/ RetryRequest(u) \/ MuteRequest(u)
           \/ StartPublish(u) \/ RetryPublish(u) \/ MuteApply(u)
    PROVE  PlaybackInv'
<1> USE EpochsNat, SupervisorApart, IdleLocals
<1>0. /\ u \in Procs /\ PlaybackType /\ slot \in Slots /\ proc[u] \in Locals
      /\ epoch \in Nat /\ health \in [Epochs -> PlaybackHealth]
  BY DEF PlaybackInv, PlaybackType
<1>1. PlaybackType'
  BY <1>0, UserType DEF Asks, Proceeds
<1>2. ASSUME NEW r \in Locals, Moves(u, r), proc[u].pc = "idle",
             r.pc \in Plain, r.epoch <= epoch, r.health <= epoch,
             UNCHANGED <<epoch, slot, health, live, lifecycle, stopped, relay>>
      PROVE  PlaybackInv'
  <2>1. proc'[u] = r /\ \A t \in Procs : t # u => proc'[t] = proc[t]
    BY <1>0, <1>2, Moving
  <2>2. PICK F : Relabelled(F) /\ Unbranched(F)
    BY <1>0, <1>2, SameRelabelled
  <2> QED BY <1>1, <1>2, <2>1, <2>2, PlainStep DEF Plain, SlotKept
<1>3. ASSUME NEW op \in {"start", "retry"}, Request(u, op) PROVE PlaybackInv'
  <2> DEFINE r == [Idle EXCEPT !.pc = op, !.op = op, !.epoch = epoch, !.src = config]
  <2>1. r \in Locals /\ r.pc = op /\ r.epoch = epoch /\ r.health = 0
    BY DEF Locals, UserPcs, PlaybackInv, PlaybackType
  <2>2. Moves(u, r)
    BY <1>3 DEF Request, Moves
  <2> HIDE DEF r
  <2> QED BY <1>0, <1>2, <1>3, <2>1, <2>2 DEF Request, World, Plain
<1>4. CASE MuteRequest(u)
  <2> DEFINE r == [Idle EXCEPT !.pc = "mute", !.op = "mute", !.src = config']
  <2>1. r \in Locals /\ r.pc = "mute" /\ r.epoch = 0 /\ r.health = 0
    BY <1>1 DEF Locals, UserPcs, PlaybackType
  <2>2. Moves(u, r)
    BY <1>4 DEF MuteRequest, Moves
  <2> HIDE DEF r
  <2> QED BY <1>0, <1>2, <1>4, <2>1, <2>2 DEF MuteRequest, Plain
<1>5. ASSUME Leave(u), proc[u].pc \in Plain
      PROVE  /\ proc'[u].pc \in Plain /\ proc'[u].epoch <= epoch /\ proc'[u].health <= epoch
             /\ \A t \in Procs : t # u => proc'[t] = proc[t]
             /\ lifecycle' = lifecycle
  <2>1. lifecycle # u
    BY <1>0, <1>5 DEF PlaybackInv, LockHeld, Plain, LockedPcs, StepPcs
  <2> QED BY <1>0, <1>5, <2>1, Leaving DEF Plain
<1>6. ASSUME Leave(u), proc[u].pc \in Plain, UNCHANGED <<epoch, slot, live, stopped, relay>>,
             \A e \in Epochs : health'[e].gen = health[e].gen
      PROVE  PlaybackInv'
  <2>1. PICK F : Relabelled(F) /\ Unbranched(F)
    BY <1>0, <1>6, SameRelabelled
  <2> QED BY <1>1, <1>5, <1>6, <2>1, PlainStep DEF SlotKept
<1>7. CASE StartPublish(u)
  <2>1. Leave(u) /\ proc[u].pc \in Plain /\ UNCHANGED <<live, stopped, relay>>
    BY <1>7 DEF StartPublish, World, Plain
  <2>2. CASE UNCHANGED <<epoch, slot, health>>
    BY <1>6, <2>1, <2>2
  <2>3. CASE ~UNCHANGED <<epoch, slot, health>>
    <3> DEFINE e == epoch + 1
               src == proc[u].src
    <3>1. /\ Replace(e) /\ Admits(src)
          /\ slot' = [slot EXCEPT !.set = TRUE, !.src = src, !.health = e, !.intent = e,
                        !.adapter = 0, !.ready = NoPath, !.claim = src.proto]
      BY <1>7, <2>3 DEF StartPublish
    <3> HIDE DEF e, src
    <3>2. /\ slot'.intent = e /\ slot'.health = e /\ slot'.set = TRUE /\ SlotKept
          /\ slot'.rec = slot.rec /\ slot'.claim = src.proto
      BY <1>0, <3>1 DEF Slots, SlotKept
    <3>3. slot'.claim = "udp" => ~RelayClaims
      BY <3>1, <3>2 DEF Admits
    <3> QED BY <1>1, <2>1, <3>1, <3>2, <3>3, PublishStep DEF e
  <2> QED BY <2>2, <2>3
<1>8. CASE RetryPublish(u)
  <2>1. Leave(u) /\ proc[u].pc \in Plain /\ UNCHANGED <<live, stopped, relay>>
    BY <1>8 DEF RetryPublish, World, Plain
  <2> DEFINE e == epoch + 1
             desired == [slot.src EXCEPT !.cred = proc[u].src.cred]
  <2>2. \/ UNCHANGED <<epoch, slot, health>>
        \/ /\ Replace(e) /\ slot.set
           /\ slot' = [slot EXCEPT !.src = desired, !.health = e, !.intent = e]
        \/ /\ \E manual \in BOOLEAN :
                health' = [health EXCEPT ![slot.health] =
                             IF manual THEN RetryNow(@) ELSE WakeReady(@)]
           /\ UNCHANGED <<epoch, slot>>
    BY <1>8 DEF RetryPublish
  <2>3. CASE UNCHANGED <<epoch, slot, health>>
    BY <1>6, <2>1, <2>3
  <2>4. CASE /\ Replace(e) /\ slot.set
             /\ slot' = [slot EXCEPT !.src = desired, !.health = e, !.intent = e]
    <3> HIDE DEF e, desired
    <3>1. /\ slot'.intent = e /\ slot'.health = e /\ slot'.set = slot.set /\ SlotKept
          /\ slot'.rec = slot.rec /\ slot'.claim = slot.claim
      BY <1>0, <2>4 DEF Slots, SlotKept
    <3>2. slot'.set = TRUE
      BY <1>0, <2>4, <3>1 DEF Slots
    <3> QED BY <1>1, <2>1, <2>4, <3>1, <3>2, PublishStep DEF e
  <2>5. ASSUME NEW manual \in BOOLEAN,
               health' = [health EXCEPT ![slot.health] =
                            IF manual THEN RetryNow(@) ELSE WakeReady(@)],
               UNCHANGED <<epoch, slot>>
        PROVE  PlaybackInv'
    <3>1. \A x \in Epochs : health'[x].gen = health[x].gen
      <4> TAKE x \in Epochs
      <4>1. health[x] \in PlaybackHealth
        BY <1>0
      <4>2. health'[x] \in {health[x], RetryNow(health[x]), WakeReady(health[x])}
        BY <1>0, <2>5
      <4> QED BY <4>1, <4>2, HealthOps
    <3> QED BY <1>6, <2>1, <2>5, <3>1
  <2> QED BY <2>2, <2>3, <2>4, <2>5
<1>9. CASE MuteApply(u)
  <2>1. Leave(u) /\ proc[u].pc \in Plain /\ UNCHANGED <<epoch, health, stopped, relay>>
    BY <1>9 DEF MuteApply, World, Plain
  <2>2. slot' = slot \/ slot' = [slot EXCEPT !.src = [slot.src EXCEPT !.muted = proc[u].src.muted]]
    BY <1>9 DEF MuteApply
  <2>3. /\ SlotKept /\ slot'.rec = slot.rec /\ slot'.set = slot.set
        /\ slot'.intent = slot.intent /\ slot'.health = slot.health /\ slot'.claim = slot.claim
    BY <1>0, <2>2 DEF Slots, SlotKept
  <2> DEFINE f(p) == [p EXCEPT !.muted = IF p \in Stored THEN proc[u].src.muted ELSE @]
             F == [p \in live |-> f(p)]
  <2>4. \A p \in live : /\ f(p) \in Pipelines /\ Key(f(p)) = Key(p) /\ f(p).epoch = p.epoch
                        /\ f(p).gen = p.gen /\ f(p).rec = p.rec
    BY <1>0 DEF PlaybackType, Pipelines, Key, Locals, Sources
  <2>5. live' = {f(p) : p \in live}
    BY <1>9 DEF MuteApply
  <2> HIDE DEF f
  <2>6. Relabelled(F) /\ Unbranched(F)
    BY <2>4, <2>5 DEF Relabelled, Unbranched
  <2> QED BY <1>1, <1>5, <2>1, <2>3, <2>6, PlainStep
<1> QED BY <1>3, <1>4, <1>7, <1>8, <1>9 DEF StartRequest, RetryRequest

-----------------------------------------------------------------------------
(***************************************************************************)
(* Stop, and the tear-down it shares with the supervisor.                  *)
(***************************************************************************)

\* A step of a Stop that leaves the pipelines and their owners alone.
LEMMA StoppingStep ==
    ASSUME PlaybackInv, PlaybackType', NEW u \in Users,
           \A t \in Procs : t # u => proc'[t] = proc[t],
           proc[u].pc \notin {"attach", "detach", "recorded", "teardown"},
           proc'[u].pc \notin {"attach", "detach", "recorded", "teardown"},
           proc'[u].pc = "unclaim" => \A p \in live : p.epoch > proc'[u].epoch,
           \A e \in Epochs : health'[e].gen = health[e].gen,
           SlotKept, slot'.rec = slot.rec, UNCHANGED live
    PROVE  AttemptsNew' /\ PipelinesOwned' /\ BranchesOwned'
<1> USE EpochsNat, SupervisorApart DEF PlaybackInv
<1>0. slot \in Slots /\ proc[S] \in Locals /\ proc'[S] = proc[S]
  BY DEF PlaybackType
<1>1. Mine' = Mine
  BY <1>0, MineKept DEF Locals
<1>2. AttemptsNew'
  <2>1. slot.pipe.health \in Epochs
    BY <1>0 DEF Slots, Keys
  <2> QED BY <1>0, <1>1, <2>1, AttemptsKept DEF SlotKept, Attempting
<1>3. TearingKept /\ BuildingKept
  BY <1>0, <1>1 DEF TearingKept, BuildingKept
<1>4. PICK F : Relabelled(F) /\ Unbranched(F)
  BY SameRelabelled
<1>5. PipelinesOwned'
  <2>1. \A v \in Users : proc'[v].pc = "unclaim" => \A p \in live : p.epoch > proc'[v].epoch
    BY DEF PipelinesOwned
  <2> QED BY <1>3, <1>4, <2>1, PipelinesKept
<1>6. BranchesOwned'
  <2>1. \A v \in Users : proc'[v].pc \in {"attach", "detach", "recorded"} =>
                           proc'[v].pc = proc[v].pc /\ proc'[v].pipe = proc[v].pipe
    OBVIOUS
  <2> QED BY <1>3, <1>4, <2>1, BranchesKept DEF SlotKept
<1> QED BY <1>2, <1>5, <1>6

\* The sections of stop_playback.
LEMMA StopStep ==
    ASSUME PlaybackInv, NEW u \in Users,
           StopRequest(u) \/ StopClear(u) \/ StopTake(u) \/ StopReturn(u)
    PROVE  PlaybackInv'
<1> USE EpochsNat, SupervisorApart, IdleLocals DEF PlaybackInv
<1>0. /\ u \in Procs /\ slot \in Slots /\ proc[u] \in Locals /\ proc[S] \in Locals
      /\ epoch \in Nat /\ stopped \in Nat /\ health \in [Epochs -> PlaybackHealth]
  BY DEF PlaybackType
<1>a. \A t \in Procs : proc[t].epoch \in Nat /\ proc[t].health \in Nat
  BY DEF PlaybackType, Locals
<1>b. /\ slot.intent \in Nat /\ slot.health \in Nat
      /\ slot.instance.epoch \in Nat /\ slot.pipe.health \in Nat
  BY <1>0 DEF Slots, Instances, Keys
<1>1. PlaybackType'
  BY <1>0, UserType DEF Asks, Proceeds
<1>2. CASE StopRequest(u)
  <2> DEFINE r == [Idle EXCEPT !.pc = "clear", !.op = "stop", !.epoch = epoch + 1]
  <2>1. /\ UNCHANGED <<slot, health, live, lifecycle, stopped, relay>>
        /\ epoch' = epoch + 1 /\ epoch + 1 \in Epochs /\ Moves(u, r) /\ proc[u].pc = "idle"
    BY <1>2 DEF StopRequest, World, Moves
  <2>2. r \in Locals /\ r.pc = "clear" /\ r.epoch = epoch + 1 /\ r.health = 0
    BY <2>1 DEF Locals, UserPcs
  <2> HIDE DEF r
  <2>3. /\ proc'[u].pc = "clear" /\ proc'[u].epoch = epoch + 1 /\ proc'[u].health = 0
        /\ \A t \in Procs : t # u => proc'[t] = proc[t]
    BY <1>0, <2>1, <2>2, Moving
  <2>4. LockHeld'
    BY <1>0, <2>1, <2>3, LockKept DEF UserPcs, LockedPcs, StepPcs
  <2>5. EpochsOrdered'
    BY <1>0, <1>a, <1>b, <2>1, <2>3 DEF EpochsOrdered
  <2>6. StopsDistinct'
    BY <1>0, <1>a, <1>b, <2>1, <2>3 DEF EpochsOrdered, StopsDistinct, Stopping, Cleared
  <2>7. AttemptsNew' /\ PipelinesOwned' /\ BranchesOwned'
    BY <1>1, <2>1, <2>3, StoppingStep DEF SlotKept
  <2>8. StopIsFinal' /\ OneClaim'
    BY <2>1 DEF StopIsFinal, OneClaim, RelayClaims
  <2> QED BY <1>1, <2>4, <2>5, <2>6, <2>7, <2>8
<1>3. CASE StopClear(u)
  <2>1. /\ UNCHANGED <<epoch, live, stopped, relay>> /\ Goto(u, "wait") /\ proc[u].pc = "clear"
    BY <1>3 DEF StopClear, World
  <2>2. /\ proc'[u].pc = "wait" /\ proc'[u].epoch = proc[u].epoch
        /\ proc'[u].health = proc[u].health
        /\ \A t \in Procs : t # u => proc'[t] = proc[t]
        /\ lifecycle' = lifecycle
    BY <1>0, <2>1, Going DEF UserPcs
  <2>3. \A e \in Epochs : health'[e].gen = health[e].gen
    <3> TAKE e \in Epochs
    <3>1. health'[e] = health[e] \/ health'[e] = Retired(health[e])
      BY <1>0, <1>3 DEF StopClear
    <3>2. health[e] \in PlaybackHealth
      BY <1>0
    <3> QED BY <3>1, <3>2, HealthOps
  <2>4. /\ SlotKept /\ slot'.rec = slot.rec /\ slot'.claim = slot.claim
        /\ \/ slot' = slot /\ slot.intent >= proc[u].epoch
           \/ slot'.set = FALSE /\ slot'.intent = 0 /\ slot'.health = 0
    <3>1. CASE slot.intent < proc[u].epoch
      <4>1. slot' = [slot EXCEPT !.set = FALSE, !.src = NoSource, !.health = 0,
                       !.intent = 0, !.adapter = 0, !.ready = NoPath]
        BY <1>3, <3>1 DEF StopClear
      <4> QED BY <1>0, <4>1 DEF SlotKept, Slots
    <3>2. CASE ~(slot.intent < proc[u].epoch)
      BY <1>0, <1>a, <1>b, <1>3, <3>2 DEF StopClear, SlotKept
    <3> QED BY <3>1, <3>2
  <2>5. LockHeld'
    BY <1>0, <2>1, <2>2, LockKept DEF UserPcs, LockedPcs, StepPcs
  <2>6. EpochsOrdered'
    <3>1. \A t \in Procs : proc'[t].epoch <= epoch' /\ proc'[t].health <= epoch'
      BY <2>1, <2>2 DEF EpochsOrdered
    <3>2. slot'.intent <= epoch /\ slot'.health <= epoch /\ (slot'.set <=> slot'.intent # 0)
      BY <1>0, <2>4 DEF EpochsOrdered
    <3>3. proc'[S] = proc[S]
      BY <2>2
    <3> QED BY <2>1, <2>4, <3>1, <3>2, <3>3 DEF EpochsOrdered, SlotKept
  <2>7. StopsDistinct'
    <3> SUFFICES ASSUME NEW v \in Users, proc'[v].pc \in Stopping
                 PROVE  /\ proc'[v].epoch # 0 /\ proc'[v].epoch # slot'.intent
                        /\ proc'[v].epoch # slot'.instance.epoch
                        /\ proc'[v].epoch # proc'[S].epoch
                        /\ proc'[v].pc \in Cleared /\ slot'.set => slot'.intent > proc'[v].epoch
      BY DEF StopsDistinct
    <3>1. /\ proc[v].pc \in Stopping /\ proc'[v].epoch = proc[v].epoch
          /\ proc'[S].epoch = proc[S].epoch
          /\ v # u => proc'[v].pc = proc[v].pc
      BY <2>1, <2>2 DEF Stopping
    <3>2. /\ proc[v].epoch # 0 /\ proc[v].epoch # slot.intent
          /\ proc[v].epoch # slot.instance.epoch /\ proc[v].epoch # proc[S].epoch
          /\ proc[v].pc \in Cleared /\ slot.set => slot.intent > proc[v].epoch
      BY <3>1 DEF StopsDistinct
    <3>3. slot'.set /\ v = u => slot'.intent > proc'[v].epoch
      BY <1>0, <1>a, <1>b, <2>4, <3>1, <3>2
    <3> QED BY <2>4, <3>1, <3>2, <3>3 DEF SlotKept
  <2>8. AttemptsNew' /\ PipelinesOwned' /\ BranchesOwned'
    BY <1>1, <2>1, <2>2, <2>3, <2>4, StoppingStep
  <2>9. StopIsFinal' /\ OneClaim'
    BY <2>1, <2>4 DEF StopIsFinal, OneClaim, RelayClaims
  <2> QED BY <1>1, <2>5, <2>6, <2>7, <2>8, <2>9
<1>4. CASE StopTake(u)
  <2>1. /\ UNCHANGED <<epoch, slot, health, live, stopped, relay>>
        /\ lifecycle = Nobody /\ lifecycle' = u /\ proc[u].pc = "wait"
    BY <1>4 DEF StopTake, World
  <2>2. PICK pc \in {"retire", "unclaim"} :
           /\ proc' = [proc EXCEPT ![u].pc = pc]
           /\ pc = "unclaim" => ~(slot.instance.epoch < proc[u].epoch)
    BY <1>4 DEF StopTake
  <2>3. /\ proc'[u].pc = pc /\ proc'[u].epoch = proc[u].epoch
        /\ proc'[u].health = proc[u].health
        /\ \A t \in Procs : t # u => proc'[t] = proc[t]
    BY <1>0, <2>2 DEF PlaybackType, Locals
  <2>4. LockHeld'
    BY <1>0, <2>1, <2>3, LockKept DEF UserPcs, LockedPcs
  <2>5. EpochsOrdered'
    BY <2>1, <2>3 DEF EpochsOrdered
  <2>6. StopsDistinct'
    BY <2>1, <2>3 DEF StopsDistinct, Stopping, Cleared
  <2>7. pc = "unclaim" => \A p \in live : p.epoch > proc[u].epoch
    <3>1. \A t \in Procs : proc[t].pc \notin {"teardown", "final", "store"}
      BY <2>1, PlaybackAssumption DEF LockHeld, LockedPcs, StepPcs, Procs
    <3>2. \A p \in live : p.epoch = slot.instance.epoch
      BY <3>1 DEF PipelinesOwned, Falling, Building
    <3>3. slot.instance.epoch # proc[u].epoch
      BY <2>1 DEF StopsDistinct, Stopping
    <3> QED BY <1>0, <1>a, <1>b, <2>2, <3>2, <3>3
  <2>8. AttemptsNew' /\ PipelinesOwned' /\ BranchesOwned'
    BY <1>1, <2>1, <2>3, <2>7, StoppingStep DEF SlotKept
  <2>9. StopIsFinal' /\ OneClaim'
    BY <2>1 DEF StopIsFinal, OneClaim, RelayClaims
  <2> QED BY <1>1, <2>4, <2>5, <2>6, <2>8, <2>9
<1>5. CASE StopReturn(u)
  <2>1. /\ UNCHANGED <<epoch, health, live, relay>> /\ Leave(u) /\ proc[u].pc = "unclaim"
        /\ stopped' = IF proc[u].epoch > stopped THEN proc[u].epoch ELSE stopped
        /\ slot' = IF slot.set THEN slot ELSE [slot EXCEPT !.claim = "none"]
    BY <1>5 DEF StopReturn, World
  <2>2. /\ proc'[u] = Idle /\ \A t \in Procs : t # u => proc'[t] = proc[t]
        /\ lifecycle' = IF lifecycle = u THEN Nobody ELSE lifecycle
    BY <1>0, <2>1, Leaving
  <2>3. /\ SlotKept /\ slot'.rec = slot.rec /\ slot'.set = slot.set
        /\ slot'.intent = slot.intent /\ slot'.health = slot.health
        /\ slot'.claim \in {slot.claim, "none"}
    BY <1>0, <2>1 DEF SlotKept, Slots
  <2>4. LockHeld'
    BY <1>0, <2>2, LockKept DEF UserPcs
  <2>5. EpochsOrdered'
    BY <1>0, <1>a, <2>1, <2>2, <2>3 DEF EpochsOrdered, SlotKept
  <2>6. StopsDistinct'
    BY <2>2, <2>3 DEF StopsDistinct, SlotKept, Stopping
  <2>7. AttemptsNew' /\ PipelinesOwned' /\ BranchesOwned'
    BY <1>1, <2>1, <2>2, <2>3, StoppingStep
  <2>8. StopIsFinal'
    <3>1. slot.set => slot.intent > proc[u].epoch
      BY <2>1 DEF StopsDistinct, Stopping, Cleared
    <3>2. \A p \in live : p.epoch > proc[u].epoch
      BY <2>1 DEF PipelinesOwned
    <3> QED BY <2>1, <2>3, <3>1, <3>2 DEF StopIsFinal
  <2>9. OneClaim'
    BY <2>1, <2>3 DEF OneClaim, RelayClaims
  <2> QED BY <1>1, <2>4, <2>5, <2>6, <2>7, <2>8, <2>9
<1> QED BY <1>2, <1>3, <1>4, <1>5

\* The sections of retire_playback: the pipeline leaves the slot with its
\* recording, and nothing exists when it is gone.
LEMMA TearingStep ==
    ASSUME PlaybackInv, NEW t \in Procs, Tearing(t)
    PROVE  PlaybackInv'
<1> USE EpochsNat, SupervisorApart, IdleLocals DEF PlaybackInv
<1>0. /\ slot \in Slots /\ proc[t] \in Locals /\ proc[S] \in Locals
      /\ epoch \in Nat /\ health \in [Epochs -> PlaybackHealth]
  BY DEF PlaybackType
<1>1. PlaybackType'
  BY TearingType
<1>2. proc[t].pc \in {"retire", "teardown"} /\ UNCHANGED <<epoch, health, lifecycle, stopped, relay>>
  BY DEF Tearing, RetirePlayback, Teardown, World
<1>3. lifecycle = t /\ \A s \in Procs : s # t => proc[s].pc \notin LockedPcs
  <2>1. lifecycle = t
    BY <1>2 DEF LockHeld, LockedPcs
  <2> QED BY <2>1, LockAlone
<1>4. CASE RetirePlayback(t)
  <2>1. /\ slot' = [slot EXCEPT !.rec = FALSE, !.instance = NoInstance, !.pipe = NoPipe]
        /\ proc' = [proc EXCEPT ![t].pc = "teardown", ![t].pipe = slot.pipe]
        /\ live' = live /\ proc[t].pc = "retire"
    BY <1>4 DEF RetirePlayback
  <2>2. /\ slot'.rec = FALSE /\ slot'.instance = NoInstance /\ slot'.pipe = NoPipe
        /\ slot'.set = slot.set /\ slot'.intent = slot.intent /\ slot'.health = slot.health
        /\ slot'.claim = slot.claim
    BY <1>0, <2>1 DEF Slots
  <2>3. /\ proc'[t].pc = "teardown" /\ proc'[t].pipe = slot.pipe
        /\ proc'[t].epoch = proc[t].epoch /\ proc'[t].health = proc[t].health
        /\ \A s \in Procs : s # t => proc'[s] = proc[s]
    BY <1>0, <2>1 DEF PlaybackType, Locals
  <2>4. \A s \in Procs : proc'[s].pc \in LockedPcs => s = t
    BY <1>3, <2>3
  <2>5. LockHeld'
    BY <1>2, <2>1, <2>3, LockKept DEF UserPcs, StepPcs, LockedPcs
  <2>6. EpochsOrdered'
    BY <1>0, <1>2, <2>2, <2>3 DEF EpochsOrdered
  <2>7. StopsDistinct'
    <3>1. \A s \in Procs : /\ proc'[s].epoch = proc[s].epoch
                           /\ proc'[s].pc \in Cleared <=> proc[s].pc \in Cleared
                           /\ proc'[s].pc \in Stopping <=> proc[s].pc \in Stopping
      BY <2>1, <2>3 DEF Stopping, Cleared
    <3> QED BY <2>2, <3>1 DEF StopsDistinct
  <2>8. AttemptsNew'
    <3>1. ~Attempting'
      BY <1>3, <2>3 DEF Attempting, LockedPcs, StepPcs
    <3>2. health'[0].gen \in Nat /\ NoPipe.gen <= health'[0].gen
      BY <1>0, <1>2 DEF PlaybackHealth
    <3> QED BY <2>2, <3>1, <3>2 DEF AttemptsNew
  <2>9. \A p \in live : Key(p) = slot.pipe /\ Key(p) # NoPipe
    <3>1. \A p \in live : ~Building(p) /\ ~Falling(p)
      BY <1>3, <2>1 DEF Building, Falling, LockedPcs, StepPcs
    <3> QED BY <3>1, KeyNamed DEF PipelinesOwned, PlaybackType
  <2>10. PipelinesOwned'
    <3>1. \A p \in live' : \E s \in Procs : proc'[s].pc = "teardown" /\ Key(p) = proc'[s].pipe
      BY <2>1, <2>3, <2>9
    <3>2. \A p \in live' : Key(p) # slot'.pipe /\ p.gen > 0
      BY <2>1, <2>2, <2>9 DEF PipelinesOwned
    <3>3. \A p, q \in live' : Key(p) = Key(q) => p = q
      BY <2>1 DEF PipelinesOwned
    <3>4. proc'[S].pc \notin {"final", "store"} /\ \A u \in Users : proc'[u].pc # "unclaim"
      BY <2>3, <2>4 DEF LockedPcs, StepPcs
    <3> QED BY <2>2, <3>1, <3>2, <3>3, <3>4 DEF PipelinesOwned, Falling
  <2>11. BranchesOwned'
    <3>1. \A p \in live' : \E s \in Procs : proc'[s].pc = "teardown" /\ Key(p) = proc'[s].pipe
      BY <2>1, <2>3, <2>9
    <3>2. \A u \in Users : proc'[u].pc \notin {"attach", "detach", "recorded"}
      BY <2>3, <2>4 DEF LockedPcs
    <3> QED BY <2>2, <3>1, <3>2 DEF BranchesOwned, Falling
  <2>12. StopIsFinal' /\ OneClaim'
    BY <1>2, <2>1, <2>2 DEF StopIsFinal, OneClaim, RelayClaims
  <2> QED BY <1>1, <2>5, <2>6, <2>7, <2>8, <2>10, <2>11, <2>12
<1>5. CASE Teardown(t)
  <2>1. PICK pc \in {"decide", "unclaim"} :
           /\ proc' = [proc EXCEPT ![t].pc = pc, ![t].gone = TRUE]
           /\ pc = "decide" <=> t = S
    BY <1>5 DEF Teardown, S
  <2>2. /\ UNCHANGED slot /\ live' = {p \in live : Key(p) # proc[t].pipe}
        /\ proc[t].pc = "teardown"
    BY <1>5 DEF Teardown
  <2>3. /\ proc'[t].pc = pc /\ proc'[t].epoch = proc[t].epoch /\ proc'[t].health = proc[t].health
        /\ \A s \in Procs : s # t => proc'[s] = proc[s]
    BY <1>0, <2>1 DEF PlaybackType, Locals
  <2>4. \A s \in Procs : proc'[s].pc \in LockedPcs => s = t
    BY <1>3, <2>3
  <2>5. LockHeld'
    <3>1. pc \in LockedPcs /\ proc[t].pc \in LockedPcs
      BY <2>2 DEF LockedPcs, StepPcs
    <3>2. (t \in Users => pc \in UserPcs) /\ (t = S => pc \in StepPcs)
      BY <2>1 DEF UserPcs, StepPcs
    <3> QED BY <1>2, <2>3, <3>1, <3>2, LockKept
  <2>6. EpochsOrdered'
    BY <1>2, <2>2, <2>3 DEF EpochsOrdered
  <2>7. StopsDistinct'
    <3>1. \A u \in Users : /\ proc'[u].pc \in Cleared <=> proc[u].pc \in Cleared
                           /\ proc'[u].pc \in Stopping <=> proc[u].pc \in Stopping
      BY <2>1, <2>2, <2>3 DEF Stopping, Cleared
    <3>2. \A s \in Procs : proc'[s].epoch = proc[s].epoch
      BY <2>3
    <3> QED BY <2>2, <3>1, <3>2 DEF StopsDistinct
  <2>8. slot.pipe = NoPipe /\ live' = {}
    <3>1. slot.pipe = NoPipe
      BY <2>2 DEF PipelinesOwned
    <3>2. \A p \in live : Key(p) # NoPipe /\ ~Building(p)
      BY <1>3, <2>2, KeyNamed DEF PipelinesOwned, PlaybackType, Building, LockedPcs, StepPcs
    <3>3. \A p \in live : Key(p) = proc[t].pipe
      BY <1>3, <3>1, <3>2 DEF PipelinesOwned, Falling, LockedPcs
    <3> QED BY <2>2, <3>1, <3>3
  <2>9. AttemptsNew'
    <3>1. ~Attempting'
      BY <2>1, <2>3, <2>4 DEF Attempting, LockedPcs, StepPcs
    <3> QED BY <1>2, <2>2, <3>1 DEF AttemptsNew
  <2>10. PipelinesOwned' /\ BranchesOwned'
    <3>1. \A s \in Procs : proc'[s].pc \notin {"teardown", "final", "store", "attach", "detach", "recorded"}
      BY <2>1, <2>3, <2>4 DEF LockedPcs, StepPcs
    <3> QED BY <2>2, <2>8, <3>1 DEF PipelinesOwned, BranchesOwned
  <2>11. StopIsFinal' /\ OneClaim'
    BY <1>2, <2>2, <2>8 DEF StopIsFinal, OneClaim, RelayClaims
  <2> QED BY <1>1, <2>5, <2>6, <2>7, <2>9, <2>10, <2>11
<1> QED BY <1>4, <1>5 DEF Tearing

-----------------------------------------------------------------------------
(***************************************************************************)
(* Recordings.                                                             *)
(***************************************************************************)

\* A section of a recording request changes nothing but the reservation and
\* the branches.
LEMMA RecordFrame ==
    ASSUME PlaybackInv, PlaybackType', NEW u \in Users,
           \A t \in Procs : t # u => proc'[t] = proc[t],
           proc[u].pc \in {"idle", "attach", "detach", "recorded"},
           proc'[u].pc \in {"idle", "attach", "detach", "recorded"},
           proc'[u].epoch <= epoch, proc'[u].health <= epoch,
           \/ lifecycle' = lifecycle /\ lifecycle = u /\ proc'[u].pc # "idle"
           \/ lifecycle = Nobody /\ lifecycle' = u /\ proc'[u].pc # "idle"
           \/ lifecycle' = (IF lifecycle = u THEN Nobody ELSE lifecycle) /\ proc'[u].pc = "idle",
           NEW F, Relabelled(F), SlotKept, slot'.set = slot.set, slot'.intent = slot.intent,
           slot'.health = slot.health, slot'.claim = slot.claim,
           UNCHANGED <<epoch, health, stopped, relay>>
    PROVE  /\ LockHeld' /\ EpochsOrdered' /\ StopsDistinct' /\ AttemptsNew'
           /\ PipelinesOwned' /\ StopIsFinal' /\ OneClaim'
<1> USE EpochsNat, SupervisorApart DEF PlaybackInv
<1>0. slot \in Slots /\ proc[S] \in Locals /\ proc'[S] = proc[S]
  BY DEF PlaybackType
<1>1. LockHeld'
  <2>1. \A pc \in {"attach", "detach", "recorded"} : pc \in UserPcs /\ pc \in LockedPcs
    BY DEF UserPcs, LockedPcs
  <2>2. "idle" \in UserPcs
    BY DEF UserPcs
  <2>3. lifecycle = u => proc[u].pc \in LockedPcs
    BY DEF LockHeld
  <2> QED BY <2>1, <2>2, <2>3, LockKept
<1>2. EpochsOrdered'
  BY DEF EpochsOrdered, SlotKept
<1>3. StopsDistinct'
  BY <1>0 DEF StopsDistinct, SlotKept, Stopping, Cleared
<1>4. Mine' = Mine
  BY <1>0, MineKept DEF Locals
<1>5. AttemptsNew'
  BY <1>0, <1>4, AttemptsKept DEF SlotKept, Attempting
<1>6. TearingKept /\ BuildingKept
  BY <1>0, <1>4 DEF TearingKept, BuildingKept
<1>7. PipelinesOwned'
  <2>1. \A v \in Users : proc'[v].pc = "unclaim" => \A p \in live : p.epoch > proc'[v].epoch
    BY DEF PipelinesOwned
  <2> QED BY <1>6, <2>1, PipelinesKept
<1>8. StopIsFinal' /\ OneClaim'
  BY DEF StopIsFinal, Relabelled, OneClaim, RelayClaims
<1> QED BY <1>1, <1>2, <1>3, <1>5, <1>7, <1>8

\* The branch of one pipeline is attached, or detached.
LEMMA BranchRelabels ==
    ASSUME PlaybackType, NEW k, NEW on \in BOOLEAN, live' = Branch(k, on)
    PROVE  \E F : /\ Relabelled(F)
                  /\ \A p \in live : F[p].rec => (Key(p) = k /\ on) \/ (Key(p) # k /\ p.rec)
<1> DEFINE f(p) == [p EXCEPT !.rec = IF Key(p) = k THEN on ELSE @]
           F == [p \in live |-> f(p)]
<1>1. \A p \in live : /\ f(p) \in Pipelines /\ Key(f(p)) = Key(p) /\ f(p).epoch = p.epoch
                      /\ f(p).gen = p.gen
                      /\ f(p).rec => (Key(p) = k /\ on) \/ (Key(p) # k /\ p.rec)
  BY DEF PlaybackType, Pipelines, Key
<1>2. live' = {f(p) : p \in live}
  BY DEF Branch
<1> HIDE DEF f
<1>3. /\ Relabelled(F)
      /\ \A p \in live : F[p].rec => (Key(p) = k /\ on) \/ (Key(p) # k /\ p.rec)
  BY <1>1, <1>2 DEF Relabelled
<1> QED BY <1>3

\* start_recording and stop_recording.
LEMMA RecordStep ==
    ASSUME PlaybackInv, NEW u \in Users,
           \/ RecordReserve(u) \/ RecordAttach(u)
           \/ RecordFind(u) \/ RecordDetach(u) \/ RecordClear(u)
    PROVE  PlaybackInv'
<1> USE EpochsNat, SupervisorApart, IdleLocals DEF PlaybackInv
<1>0. u \in Procs /\ slot \in Slots /\ proc[u] \in Locals /\ epoch \in Nat
  BY DEF PlaybackType
<1>1. PlaybackType'
  BY <1>0, UserType DEF Asks, Proceeds
<1>2. UNCHANGED <<epoch, health, stopped, relay>>
  BY DEF RecordReserve, RecordAttach, RecordFind, RecordDetach, RecordClear, World
<1>3. /\ SlotKept /\ slot'.set = slot.set /\ slot'.intent = slot.intent
      /\ slot'.health = slot.health /\ slot'.claim = slot.claim
  <2>1. slot' = slot \/ \E b \in BOOLEAN : slot' = [slot EXCEPT !.rec = b]
    BY DEF RecordReserve, RecordAttach, RecordFind, RecordDetach, RecordClear
  <2> QED BY <1>0, <2>1 DEF Slots, SlotKept
<1>4. ASSUME proc[u].pc \in {"idle", "attach", "detach", "recorded"}, lifecycle \in {u, Nobody}
      PROVE  /\ \A t \in Procs : t # u => proc[t].pc \notin LockedPcs
             /\ \A t \in Procs : proc[t].pc # "teardown"
  <2>1. \A t \in Procs : t # u => proc[t].pc \notin LockedPcs
    BY <1>0, <1>4, LockAlone
  <2> QED BY <1>4, <2>1 DEF LockedPcs
<1>5. ASSUME proc[u].pc \in {"attach", "detach", "recorded"} PROVE lifecycle = u
  BY <1>0, <1>5 DEF LockHeld, LockedPcs
\* The request takes the lock and reserves or finds its pipeline.
<1>6. ASSUME NEW pc \in {"attach", "detach"}, proc[u].pc = "idle", lifecycle = Nobody,
             lifecycle' = u, live' = live,
             Moves(u, [Idle EXCEPT !.pc = pc, !.op = "record", !.pipe = slot.pipe]),
             pc = "attach" => slot'.rec /\ ~slot.rec, slot.rec => slot'.rec, slot.pipe # NoPipe
      PROVE  PlaybackInv'
  <2>1. slot.pipe \in Keys
    BY <1>0 DEF Slots
  <2> DEFINE r == [Idle EXCEPT !.pc = pc, !.op = "record", !.pipe = slot.pipe]
  <2>2. r \in Locals /\ r.pc = pc /\ r.epoch = 0 /\ r.health = 0 /\ r.pipe = slot.pipe
    BY <2>1 DEF Locals, UserPcs
  <2> HIDE DEF r
  <2>3. /\ proc'[u].pc = pc /\ proc'[u].epoch = 0 /\ proc'[u].health = 0
        /\ proc'[u].pipe = slot.pipe
        /\ \A t \in Procs : t # u => proc'[t] = proc[t]
    BY <1>0, <1>6, <2>2, Moving DEF r
  <2>4. PICK F : Relabelled(F)
    BY <1>6, SameRelabelled
  <2>5. /\ LockHeld' /\ EpochsOrdered' /\ StopsDistinct' /\ AttemptsNew'
        /\ PipelinesOwned' /\ StopIsFinal' /\ OneClaim'
    BY <1>0, <1>1, <1>2, <1>3, <1>6, <2>3, <2>4, RecordFrame
  <2>6. \A p \in live' : p.rec => slot'.rec /\ Key(p) = slot'.pipe
    BY <1>3, <1>4, <1>6 DEF BranchesOwned, Falling, SlotKept
  <2>7. \A v \in Users : /\ proc'[v].pc = "attach" => slot'.rec
                         /\ proc'[v].pc \in {"attach", "detach"} => proc'[v].pipe = slot'.pipe
                         /\ proc'[v].pc \in {"attach", "recorded"} => \A p \in live' : ~p.rec
    <3> TAKE v \in Users
    <3>1. CASE v # u
      BY <1>4, <1>6, <2>3, <3>1 DEF LockedPcs
    <3>2. CASE v = u
      BY <1>3, <1>4, <1>6, <2>3, <3>2 DEF BranchesOwned, Falling, SlotKept
    <3> QED BY <3>1, <3>2
  <2>8. slot'.rec => slot'.pipe # NoPipe
    BY <1>3, <1>6 DEF SlotKept
  <2> QED BY <1>1, <2>5, <2>6, <2>7, <2>8 DEF BranchesOwned
<1>7. CASE RecordReserve(u)
  <2>1. slot'.rec = TRUE /\ ~slot.rec
    BY <1>0, <1>7 DEF RecordReserve, Slots
  <2> QED BY <1>6, <1>7, <2>1 DEF RecordReserve, Moves
<1>8. CASE RecordFind(u)
  BY <1>6, <1>8 DEF RecordFind, Moves
\* What the branches are after a section, when the request leaves or goes on to
\* clear the reservation.
<1>9. ASSUME proc[u].pc \in {"attach", "detach", "recorded"},
             Leave(u) \/ Goto(u, "recorded"), NEW F, Relabelled(F),
             \A p \in live' : p.rec => slot'.rec /\ Key(p) = slot.pipe,
             proc'[u].pc = "recorded" => \A p \in live' : ~p.rec,
             slot'.rec => slot.rec
      PROVE  PlaybackInv'
  <2>1. /\ \A t \in Procs : t # u => proc'[t] = proc[t]
        /\ \/ /\ proc'[u].pc = "idle" /\ proc'[u].epoch = 0 /\ proc'[u].health = 0
              /\ lifecycle' = IF lifecycle = u THEN Nobody ELSE lifecycle
           \/ /\ proc'[u].pc = "recorded" /\ proc'[u].epoch = proc[u].epoch
              /\ proc'[u].health = proc[u].health
              /\ lifecycle' = lifecycle
    BY <1>0, <1>9, Leaving, Going DEF UserPcs
  <2>2. proc'[u].epoch <= epoch /\ proc'[u].health <= epoch
    BY <1>0, <2>1 DEF EpochsOrdered
  <2>3. /\ LockHeld' /\ EpochsOrdered' /\ StopsDistinct' /\ AttemptsNew'
        /\ PipelinesOwned' /\ StopIsFinal' /\ OneClaim'
    BY <1>1, <1>2, <1>3, <1>5, <1>9, <2>1, <2>2, RecordFrame
  <2>4. \A v \in Users : /\ proc'[v].pc \notin {"attach", "detach"}
                         /\ proc'[v].pc = "recorded" => \A p \in live' : ~p.rec
    <3> TAKE v \in Users
    <3>1. CASE v # u
      BY <1>4, <1>5, <1>9, <2>1, <3>1 DEF LockedPcs
    <3>2. CASE v = u
      BY <1>9, <2>1, <3>2
    <3> QED BY <3>1, <3>2
  <2>5. slot'.rec => slot'.pipe # NoPipe
    BY <1>3, <1>9 DEF SlotKept, BranchesOwned
  <2> QED BY <1>1, <1>3, <1>9, <2>3, <2>4, <2>5 DEF BranchesOwned, SlotKept
<1>10. ASSUME proc[u].pc \in {"attach", "detach", "recorded"}
       PROVE  \A p \in live : p.rec => slot.rec /\ Key(p) = slot.pipe
  BY <1>4, <1>5, <1>10 DEF BranchesOwned, Falling
<1>11. CASE RecordAttach(u)
  <2>1. proc[u].pc = "attach" /\ Leave(u)
    BY <1>11 DEF RecordAttach
  <2>2. slot.rec /\ proc[u].pipe = slot.pipe /\ \A p \in live : ~p.rec
    BY <2>1 DEF BranchesOwned
  <2>3. proc'[u].pc = "idle"
    BY <1>0, <2>1, Leaving
  <2>4. CASE live' = Branch(proc[u].pipe, TRUE) /\ slot' = slot
    <3>0. PICK on \in BOOLEAN : live' = Branch(proc[u].pipe, on)
      BY <2>4
    <3>1. PICK F : /\ Relabelled(F)
                   /\ \A p \in live : F[p].rec => \/ Key(p) = proc[u].pipe /\ on
                                                  \/ Key(p) # proc[u].pipe /\ p.rec
      BY <3>0, BranchRelabels
    <3>2. \A p \in live : F[p].rec => Key(p) = slot.pipe
      BY <2>2, <3>1
    <3>3. \A q \in live' : q.rec => slot'.rec /\ Key(q) = slot.pipe
      <4> TAKE q \in live'
      <4>1. PICK p \in live : q = F[p] /\ Key(F[p]) = Key(p)
        BY <3>1 DEF Relabelled
      <4> QED BY <2>2, <2>4, <3>2, <4>1
    <3> QED BY <1>9, <2>1, <2>3, <2>4, <3>1, <3>3
  <2>5. CASE live' = live /\ slot' = [slot EXCEPT !.rec = FALSE]
    <3>1. PICK F : Relabelled(F)
      BY <2>5, SameRelabelled
    <3> QED BY <1>9, <2>1, <2>2, <2>3, <2>5, <3>1
  <2> QED BY <1>11, <2>4, <2>5 DEF RecordAttach
<1>12. CASE RecordDetach(u)
  <2>1. proc[u].pc = "detach" /\ slot' = slot /\ (Leave(u) \/ Goto(u, "recorded"))
    BY <1>12 DEF RecordDetach
  <2>2. proc[u].pipe = slot.pipe
    BY <2>1 DEF BranchesOwned
  <2>3. CASE live' = Branch(proc[u].pipe, FALSE)
    <3>0. PICK on \in BOOLEAN : on = FALSE /\ live' = Branch(proc[u].pipe, on)
      BY <2>3
    <3>1. PICK F : /\ Relabelled(F)
                   /\ \A p \in live : F[p].rec => \/ Key(p) = proc[u].pipe /\ on
                                                  \/ Key(p) # proc[u].pipe /\ p.rec
      BY <3>0, BranchRelabels
    <3>2. \A p \in live : ~F[p].rec
      BY <1>10, <3>0, <2>1, <2>2, <3>1
    <3>3. \A q \in live' : ~q.rec
      BY <3>1, <3>2 DEF Relabelled
    <3> QED BY <1>9, <2>1, <3>1, <3>3
  <2>4. CASE live' = live /\ Leave(u)
    <3>1. PICK F : Relabelled(F)
      BY <2>4, SameRelabelled
    <3>2. proc'[u].pc = "idle"
      BY <1>0, <2>4, Leaving
    <3> QED BY <1>9, <1>10, <2>1, <2>4, <3>1, <3>2
  <2> QED BY <1>12, <2>3, <2>4 DEF RecordDetach
<1>13. CASE RecordClear(u)
  <2>1. /\ proc[u].pc = "recorded" /\ Leave(u) /\ live' = live
        /\ slot' = [slot EXCEPT !.rec = FALSE]
    BY <1>13 DEF RecordClear
  <2>2. \A p \in live : ~p.rec
    BY <2>1 DEF BranchesOwned
  <2>3. PICK F : Relabelled(F)
    BY <2>1, SameRelabelled
  <2>4. slot'.rec = FALSE
    BY <1>0, <2>1 DEF Slots
  <2> QED BY <1>9, <2>1, <2>2, <2>3, <2>4
<1> QED BY <1>7, <1>8, <1>11, <1>12, <1>13

-----------------------------------------------------------------------------
(***************************************************************************)
(* The supervisor's step.                                                  *)
(***************************************************************************)

\* A section of the step that leaves the pipelines and their owners alone.
LEMMA SupervisorFrame ==
    ASSUME PlaybackInv, PlaybackType',
           \A t \in Procs : t # S => proc'[t] = proc[t],
           proc'[S].pc \in StepPcs,
           \/ lifecycle = Nobody /\ lifecycle' = S /\ proc'[S].pc # "idle"
           \/ lifecycle' = lifecycle /\ proc[S].pc # "idle" /\ proc'[S].pc # "idle"
           \/ lifecycle' = (IF lifecycle = S THEN Nobody ELSE lifecycle) /\ proc'[S].pc = "idle",
           proc[S].pc # "teardown", proc'[S].pc # "teardown", BuildingKept,
           proc'[S].health <= epoch', proc'[S].pc # "idle" => proc'[S].epoch # 0,
           slot.intent <= slot'.intent, slot'.intent <= epoch',
           slot.intent = 0 <=> slot'.intent = 0,
           epoch <= epoch',
           \/ slot'.intent = slot.intent /\ proc'[S].epoch \in {0, slot.intent, proc[S].epoch}
           \/ slot'.intent = epoch + 1 /\ proc'[S].epoch = epoch + 1 /\ epoch' = epoch + 1,
           NEW F, Relabelled(F), Unbranched(F), SlotKept, slot'.rec = slot.rec,
           slot'.set = slot.set, slot'.health = slot.health, slot'.claim = slot.claim,
           UNCHANGED <<stopped, relay>>
    PROVE  /\ LockHeld' /\ EpochsOrdered' /\ StopsDistinct' /\ PipelinesOwned'
           /\ BranchesOwned' /\ StopIsFinal' /\ OneClaim'
<1> USE EpochsNat, SupervisorApart DEF PlaybackInv
<1>0. /\ slot \in Slots /\ proc[S] \in Locals /\ proc'[S] \in Locals
      /\ epoch \in Nat /\ epoch' \in Nat /\ stopped \in Nat /\ slot' \in Slots
  BY DEF PlaybackType
<1>a. \A t \in Procs : proc[t].epoch \in Nat /\ proc[t].health \in Nat
  BY DEF PlaybackType, Locals
<1>b. /\ slot.intent \in Nat /\ slot.health \in Nat /\ slot'.intent \in Nat
      /\ slot.instance.epoch \in Nat /\ slot.pipe.health \in Nat
  BY <1>0 DEF Slots, Instances, Keys
<1>1. LockHeld'
  <2>1. \A pc \in StepPcs : pc # "idle" => pc \in LockedPcs
    BY DEF LockedPcs
  <2>2. proc[S].pc \in StepPcs
    BY DEF LockHeld
  <2> QED BY <2>1, <2>2, LockKept
<1>2. EpochsOrdered'
  <2>1. \A t \in Procs : proc'[t].epoch <= epoch' /\ proc'[t].health <= epoch'
    BY <1>0, <1>a, <1>b DEF EpochsOrdered
  <2>2. slot'.set <=> slot'.intent # 0
    BY DEF EpochsOrdered
  <2>3. /\ slot'.instance.epoch <= epoch' /\ slot'.pipe.health <= epoch'
        /\ stopped' <= epoch' /\ slot'.health <= epoch'
    BY <1>0, <1>b DEF EpochsOrdered, SlotKept
  <2> QED BY <2>1, <2>2, <2>3 DEF EpochsOrdered
<1>3. StopsDistinct'
  <2> SUFFICES ASSUME NEW u \in Users, proc[u].pc \in Stopping
               PROVE  /\ proc[u].epoch # 0 /\ proc[u].epoch # slot'.intent
                      /\ proc[u].epoch # slot.instance.epoch
                      /\ proc[u].epoch # proc'[S].epoch
                      /\ proc[u].pc \in Cleared /\ slot.set => slot'.intent > proc[u].epoch
    BY DEF StopsDistinct, SlotKept
  <2>1. /\ proc[u].epoch # 0 /\ proc[u].epoch # slot.intent
        /\ proc[u].epoch # slot.instance.epoch /\ proc[u].epoch # proc[S].epoch
        /\ proc[u].pc \in Cleared /\ slot.set => slot.intent > proc[u].epoch
    BY DEF StopsDistinct
  <2>2. proc[u].epoch <= epoch /\ proc[u].epoch \in Nat
    BY <1>a DEF EpochsOrdered
  <2> QED BY <1>0, <1>b, <2>1, <2>2
<1>4. TearingKept
  BY DEF TearingKept
<1>5. PipelinesOwned'
  <2>1. \A v \in Users : proc'[v].pc = "unclaim" => \A p \in live : p.epoch > proc'[v].epoch
    BY DEF PipelinesOwned
  <2> QED BY <1>4, <2>1, PipelinesKept
<1>6. BranchesOwned'
  <2>1. \A v \in Users : proc'[v].pc \in {"attach", "detach", "recorded"} =>
                           proc'[v].pc = proc[v].pc /\ proc'[v].pipe = proc[v].pipe
    OBVIOUS
  <2> QED BY <1>4, <2>1, BranchesKept DEF SlotKept
<1>7. StopIsFinal'
  <2>1. slot'.set => slot'.intent > stopped'
    BY <1>0, <1>b DEF StopIsFinal
  <2> QED BY <2>1 DEF StopIsFinal, Relabelled
<1>8. OneClaim'
  BY DEF OneClaim, RelayClaims
<1> QED BY <1>1, <1>2, <1>3, <1>5, <1>6, <1>7, <1>8

\* The step up to its attempt: it reads, it marks faults, and it decides.
Early == {"idle", "current", "select", "ready", "update", "check", "retire", "decide"}

LEMMA EarlyStep ==
    ASSUME PlaybackInv,
           \/ StepBegin \/ StepCurrent \/ StepSelect \/ StepReady
           \/ StepUpdate \/ StepCheck \/ StepDecide
    PROVE  PlaybackInv'
<1> USE EpochsNat, SupervisorApart, IdleLocals DEF PlaybackInv
<1>0. /\ slot \in Slots /\ proc[S] \in Locals /\ epoch \in Nat
      /\ health \in [Epochs -> PlaybackHealth]
  BY DEF PlaybackType
<1>a. /\ slot.intent \in Nat /\ slot.health \in Nat /\ slot.pipe.health \in Epochs
      /\ proc[S].epoch \in Nat /\ proc[S].health \in Epochs /\ proc[S].health \in Nat
  BY <1>0 DEF Slots, Keys, Locals
<1>b. proc[S].pc # "idle" => proc[S].epoch # 0
  BY DEF EpochsOrdered
<1>1. PlaybackType'
  BY StepType DEF Step
<1>2. UNCHANGED <<live, stopped, relay>> /\ proc[S].pc \in Early
  BY DEF StepBegin, StepCurrent, StepSelect, StepReady, StepUpdate, StepCheck, StepDecide,
        World, Early
<1>3. PICK F : Relabelled(F) /\ Unbranched(F)
  BY <1>2, SameRelabelled
\* A section of which the attempts are as they were.
<1>4. ASSUME \A t \in Procs : t # S => proc'[t] = proc[t],
             proc'[S].pc \in Early,
             \/ lifecycle = Nobody /\ lifecycle' = S /\ proc'[S].pc # "idle"
             \/ lifecycle' = lifecycle /\ proc[S].pc # "idle" /\ proc'[S].pc # "idle"
             \/ lifecycle' = (IF lifecycle = S THEN Nobody ELSE lifecycle) /\ proc'[S].pc = "idle",
             proc'[S].health \in {0, proc[S].health, slot.health},
             proc'[S].pc # "idle" => proc'[S].epoch # 0,
             \/ slot'.intent = slot.intent /\ proc'[S].epoch \in {0, slot.intent, proc[S].epoch}
                /\ epoch' = epoch
             \/ slot'.intent = epoch + 1 /\ proc'[S].epoch = epoch + 1 /\ epoch' = epoch + 1
                /\ slot.set,
             SlotKept, slot'.rec = slot.rec, slot'.set = slot.set,
             slot'.health = slot.health, slot'.claim = slot.claim,
             \A e \in Epochs : health'[e].gen = health[e].gen
      PROVE  PlaybackInv'
  <2>1. BuildingKept /\ ~Attempting'
    BY <1>2, <1>4 DEF BuildingKept, Early, Attempting
  <2>2. proc'[S].pc \in StepPcs /\ proc[S].pc # "teardown" /\ proc'[S].pc # "teardown"
    BY <1>2, <1>4 DEF Early, StepPcs
  <2>3. /\ slot.intent <= slot'.intent /\ slot'.intent <= epoch' /\ epoch <= epoch'
        /\ slot.intent = 0 <=> slot'.intent = 0
        /\ proc'[S].health <= epoch'
    BY <1>0, <1>a, <1>4 DEF EpochsOrdered
  <2>4. /\ LockHeld' /\ EpochsOrdered' /\ StopsDistinct' /\ PipelinesOwned'
        /\ BranchesOwned' /\ StopIsFinal' /\ OneClaim'
    BY <1>1, <1>2, <1>3, <1>4, <2>1, <2>2, <2>3, SupervisorFrame
  <2>5. AttemptsNew'
    BY <1>a, <1>4, <2>1, AttemptsKept DEF SlotKept
  <2> QED BY <1>1, <2>4, <2>5
<1>5. CASE StepBegin
  <2> DEFINE r == [Idle EXCEPT !.pc = "current", !.op = "step", !.epoch = slot.intent,
                     !.health = slot.health, !.src = slot.src]
  <2>1. /\ UNCHANGED <<epoch, slot, health>> /\ Moves(S, r)
        /\ lifecycle = Nobody /\ lifecycle' = S
    BY <1>5 DEF StepBegin, Moves
  <2>2. r \in Locals /\ r.pc = "current" /\ r.epoch = slot.intent /\ r.health = slot.health
    BY <1>0 DEF Slots, Locals, StepPcs
  <2> HIDE DEF r
  <2>3. /\ proc'[S].pc = "current" /\ proc'[S].epoch = slot.intent
        /\ proc'[S].health = slot.health /\ \A t \in Procs : t # S => proc'[t] = proc[t]
    BY <2>1, <2>2, Moving
  <2>4. slot.intent # 0
    BY <1>5 DEF StepBegin, EpochsOrdered
  <2> QED BY <1>4, <2>1, <2>3, <2>4 DEF Early, SlotKept
<1>6. ASSUME Leave(S), UNCHANGED <<epoch, slot>>, \A e \in Epochs : health'[e].gen = health[e].gen
      PROVE  PlaybackInv'
  <2>1. /\ proc'[S].pc = "idle" /\ proc'[S].epoch = 0 /\ proc'[S].health = 0
        /\ \A t \in Procs : t # S => proc'[t] = proc[t]
        /\ lifecycle' = IF lifecycle = S THEN Nobody ELSE lifecycle
    BY <1>6, Leaving
  <2> QED BY <1>4, <1>6, <2>1 DEF Early, SlotKept
<1>7. CASE StepCurrent
  <2>1. UNCHANGED <<epoch, slot, health>> /\ proc[S].pc = "current"
    BY <1>7 DEF StepCurrent
  <2>2. CASE Leave(S)
    BY <1>6, <2>1, <2>2
  <2>3. CASE ~Leave(S)
    <3>1. PICK pc \in {"check", "select"} :
             /\ proc' = [proc EXCEPT ![S].path.adapter = net.adapter, ![S].pc = pc]
             /\ UNCHANGED lifecycle
      BY <1>7, <2>3 DEF StepCurrent
    <3>2. /\ proc'[S].pc = pc /\ proc'[S].epoch = proc[S].epoch
          /\ proc'[S].health = proc[S].health /\ \A t \in Procs : t # S => proc'[t] = proc[t]
      BY <1>0, <3>1 DEF PlaybackType, Locals, Paths
    <3> QED BY <1>b, <1>4, <2>1, <3>1, <3>2 DEF Early, SlotKept
  <2> QED BY <2>2, <2>3
<1>8. \A g, r : SetHealth(RecordFault(MyHealth, g, r)) =>
                  \A e \in Epochs : health'[e].gen = health[e].gen
  <2> TAKE g, r
  <2> HAVE SetHealth(RecordFault(MyHealth, g, r))
  <2>1. /\ RecordFault(MyHealth, g, r) \in PlaybackHealth
        /\ RecordFault(MyHealth, g, r).gen = health[proc[S].health].gen
    BY HealthOps, MyHealthType DEF MyHealth
  <2> QED BY <2>1, SettingHealth
<1>9. CASE StepSelect
  <2> DEFINE e == proc[S].epoch
             id == proc[S].path.adapter
  <2>0. proc[S].pc = "select"
    BY <1>9 DEF StepSelect
  <2>1. CASE Leave(S) /\ UNCHANGED <<epoch, slot, health>>
    BY <1>6, <2>1
  <2>2. CASE /\ epoch = e /\ slot.intent = e /\ epoch' = e + 1
             /\ slot' = [slot EXCEPT !.intent = e + 1, !.adapter = id]
             /\ SetHealth(RecordFault(MyHealth, MyHealth.gen, TRUE))
             /\ proc' = [proc EXCEPT ![S].pc = "ready", ![S].epoch = e + 1]
             /\ UNCHANGED lifecycle
    <3> HIDE DEF e, id
    <3>1. /\ slot'.intent = e + 1 /\ SlotKept /\ slot'.rec = slot.rec /\ slot'.set = slot.set
          /\ slot'.health = slot.health /\ slot'.claim = slot.claim
      BY <1>0, <2>2 DEF Slots, SlotKept
    <3>2. /\ proc'[S].pc = "ready" /\ proc'[S].epoch = e + 1
          /\ proc'[S].health = proc[S].health /\ \A t \in Procs : t # S => proc'[t] = proc[t]
      BY <1>0, <2>2 DEF PlaybackType, Locals
    <3>3. slot.set /\ e + 1 # 0
      BY <1>a, <1>b, <2>0, <2>2 DEF EpochsOrdered, e
    <3> QED BY <1>4, <1>8, <2>0, <2>2, <3>1, <3>2, <3>3 DEF Early
  <2>3. CASE slot' = [slot EXCEPT !.adapter = id] /\ Goto(S, "ready") /\ UNCHANGED <<epoch, health>>
    <3> HIDE DEF e, id
    <3>1. /\ slot'.intent = slot.intent /\ SlotKept /\ slot'.rec = slot.rec /\ slot'.set = slot.set
          /\ slot'.health = slot.health /\ slot'.claim = slot.claim
      BY <1>0, <2>3 DEF Slots, SlotKept
    <3>2. /\ proc'[S].pc = "ready" /\ proc'[S].epoch = proc[S].epoch
          /\ proc'[S].health = proc[S].health /\ \A t \in Procs : t # S => proc'[t] = proc[t]
          /\ lifecycle' = lifecycle
      BY <2>3, Going DEF StepPcs
    <3> QED BY <1>b, <1>4, <2>0, <2>3, <3>1, <3>2 DEF Early
  <2> QED BY <1>9, <2>1, <2>2, <2>3 DEF StepSelect
<1>10. ASSUME NEW pc \in Early \ {"idle"}, Goto(S, pc), proc[S].pc # "idle", UNCHANGED epoch,
              slot'.intent = slot.intent, SlotKept, slot'.rec = slot.rec, slot'.set = slot.set,
              slot'.health = slot.health, slot'.claim = slot.claim,
              \A e \in Epochs : health'[e].gen = health[e].gen
       PROVE  PlaybackInv'
  <2>1. /\ proc'[S].pc = pc /\ proc'[S].epoch = proc[S].epoch
        /\ proc'[S].health = proc[S].health /\ \A t \in Procs : t # S => proc'[t] = proc[t]
        /\ lifecycle' = lifecycle
    <3>1. pc \in UserPcs \cup StepPcs
      BY DEF Early, StepPcs
    <3> QED BY <1>10, <3>1, Going
  <2>2. proc[S].epoch # 0
    BY <1>10 DEF EpochsOrdered
  <2> QED BY <1>4, <1>10, <2>1, <2>2
<1>11. CASE StepReady
  <2>1. UNCHANGED <<epoch, slot, health>> /\ proc[S].pc = "ready"
    BY <1>11 DEF StepReady
  <2>2. CASE Leave(S)
    BY <1>6, <2>1, <2>2
  <2>3. CASE Goto(S, "check")
    BY <1>10, <2>1, <2>3 DEF Early, SlotKept
  <2>4. CASE /\ proc' = [proc EXCEPT ![S].pc = "update", ![S].path = PathOf(proc[S].src)]
             /\ UNCHANGED lifecycle
    <3>1. /\ proc'[S].pc = "update" /\ proc'[S].epoch = proc[S].epoch
          /\ proc'[S].health = proc[S].health /\ \A t \in Procs : t # S => proc'[t] = proc[t]
      BY <1>0, <2>4 DEF PlaybackType, Locals
    <3> QED BY <1>b, <1>4, <2>1, <2>4, <3>1 DEF Early, SlotKept
  <2> QED BY <1>11, <2>2, <2>3, <2>4 DEF StepReady
<1>12. CASE StepUpdate
  <2>1. proc[S].pc = "update" /\ Goto(S, "check") /\ UNCHANGED epoch
        /\ slot' = [slot EXCEPT !.ready = proc[S].path]
    BY <1>12 DEF StepUpdate
  <2>2. /\ slot'.intent = slot.intent /\ SlotKept /\ slot'.rec = slot.rec /\ slot'.set = slot.set
        /\ slot'.health = slot.health /\ slot'.claim = slot.claim
    BY <1>0, <2>1 DEF Slots, SlotKept
  <2>3. \A e \in Epochs : health'[e].gen = health[e].gen
    <3>1. PICK w \in {MyHealth, WakeReady(MyHealth)}, r \in BOOLEAN :
             SetHealth(w) \/ SetHealth(RecordFault(w, w.gen, r))
      BY <1>12 DEF StepUpdate
    <3>2. w \in PlaybackHealth /\ w.gen = MyHealth.gen
      BY MyHealthType, HealthOps
    <3>3. RecordFault(w, w.gen, r) \in PlaybackHealth /\ RecordFault(w, w.gen, r).gen = MyHealth.gen
      BY <3>2, HealthOps
    <3> QED BY <3>1, <3>2, <3>3, SettingHealth DEF MyHealth
  <2> QED BY <1>10, <2>1, <2>2, <2>3 DEF Early
<1>13. CASE StepCheck
  <2>1. proc[S].pc = "check" /\ UNCHANGED <<epoch, slot, lifecycle>>
    BY <1>13 DEF StepCheck
  <2>2. \A e \in Epochs : health'[e].gen = health[e].gen
    <3>1. health' = health \/ \E p \in Stored, r \in BOOLEAN :
             health' = [health EXCEPT ![p.health] = RecordFault(@, p.gen, r)]
      BY <1>13 DEF StepCheck
    <3>2. ASSUME NEW p \in Stored, NEW r \in BOOLEAN,
                 health' = [health EXCEPT ![p.health] = RecordFault(@, p.gen, r)]
          PROVE  \A e \in Epochs : health'[e].gen = health[e].gen
      BY <1>0, <3>2, FaultRecorded
    <3> QED BY <3>1, <3>2
  <2>3. PICK pc \in {"retire", "decide"} :
           proc' = [proc EXCEPT ![S].snap = health'[proc[S].health], ![S].pc = pc]
    BY <1>13 DEF StepCheck
  <2>4. /\ proc'[S].pc = pc /\ proc'[S].epoch = proc[S].epoch
        /\ proc'[S].health = proc[S].health /\ \A t \in Procs : t # S => proc'[t] = proc[t]
    BY <1>0, <2>3 DEF PlaybackType, Locals
  <2> QED BY <1>b, <1>4, <2>1, <2>2, <2>4 DEF Early, SlotKept
<1>14. CASE StepDecide
  <2>1. UNCHANGED <<epoch, slot>> /\ proc[S].pc = "decide"
    BY <1>14 DEF StepDecide
  <2>2. MyHealth \in PlaybackHealth /\ MyHealth = health[proc[S].health]
    BY MyHealthType DEF MyHealth
  <2>3. PICK planned \in {MyHealth, ScheduleRecovery(MyHealth)} :
           \/ Leave(S) /\ UNCHANGED health
           \/ Leave(S) /\ SetHealth(planned)
           \/ SetHealth(BeginAttempt(planned)) /\ Goto(S, "attempt")
    BY <1>14 DEF StepDecide
  <2>4. planned \in PlaybackHealth /\ planned.gen = MyHealth.gen
    BY <2>2, HealthOps
  <2>5. CASE Leave(S) /\ UNCHANGED health
    BY <1>6, <2>1, <2>5
  <2>6. CASE Leave(S) /\ SetHealth(planned)
    <3>1. \A e \in Epochs : health'[e].gen = health[e].gen
      BY <2>2, <2>4, <2>6, SettingHealth
    <3> QED BY <1>6, <2>1, <2>6, <3>1
  <2>7. CASE SetHealth(BeginAttempt(planned)) /\ Goto(S, "attempt")
    <3>1. /\ proc'[S].pc = "attempt" /\ proc'[S].epoch = proc[S].epoch
          /\ proc'[S].health = proc[S].health /\ \A t \in Procs : t # S => proc'[t] = proc[t]
          /\ lifecycle' = lifecycle
      BY <2>7, Going DEF StepPcs
    <3>2. BuildingKept
      BY <2>1, <3>1 DEF BuildingKept
    <3>3. /\ LockHeld' /\ EpochsOrdered' /\ StopsDistinct' /\ PipelinesOwned'
          /\ BranchesOwned' /\ StopIsFinal' /\ OneClaim'
      BY <1>0, <1>a, <1>1, <1>2, <1>3, <2>1, <3>1, <3>2, SupervisorFrame
         DEF EpochsOrdered, SlotKept, StepPcs
    <3>4. /\ health'[proc[S].health].gen = health[proc[S].health].gen + 1
          /\ \A e \in Epochs : e # proc[S].health => health'[e] = health[e]
      BY <2>2, <2>4, <2>7, HealthOps, SettingHealth
    <3>5. \A e \in Epochs : health[e].gen \in Nat
      BY <1>0 DEF PlaybackHealth
    <3>6. slot.pipe.gen \in Nat /\ slot.pipe.gen <= health[slot.pipe.health].gen
      BY <1>0 DEF AttemptsNew, Slots, Keys
    <3>7. slot'.pipe.gen <= health'[slot'.pipe.health].gen
      <4>1. slot' = slot /\ health[slot.pipe.health].gen \in Nat
        BY <1>a, <2>1, <3>5
      <4>2. CASE slot.pipe.health = proc[S].health
        BY <3>4, <3>6, <4>1, <4>2
      <4>3. CASE slot.pipe.health # proc[S].health
        BY <1>a, <3>4, <3>6, <4>1, <4>3
      <4> QED BY <4>2, <4>3
    <3>8. Mine'.health = proc[S].health /\ Mine'.gen = health[proc[S].health].gen + 1
      BY <3>1, <3>4 DEF Mine, MyHealth
    <3>9. slot'.pipe # Mine' /\ Mine'.gen > 0
      BY <1>a, <2>1, <3>5, <3>6, <3>8
    <3> QED BY <1>1, <3>3, <3>7, <3>9 DEF AttemptsNew
  <2> QED BY <2>3, <2>5, <2>6, <2>7
<1> QED BY <1>5, <1>7, <1>9, <1>11, <1>12, <1>13, <1>14

\* The attempt: a pipeline is built, started and stored, or dropped.
LEMMA AttemptStep ==
    ASSUME PlaybackInv, StepAttempt \/ StepFinal \/ StepStore
    PROVE  PlaybackInv'
<1> USE EpochsNat, SupervisorApart, IdleLocals DEF PlaybackInv
<1>0. /\ slot \in Slots /\ proc[S] \in Locals /\ epoch \in Nat /\ live \subseteq Pipelines
      /\ health \in [Epochs -> PlaybackHealth] /\ MyHealth \in PlaybackHealth
  BY MyHealthType DEF PlaybackType
<1>a. /\ slot.intent \in Nat /\ slot.health \in Nat /\ slot.pipe.health \in Epochs
      /\ proc[S].epoch \in Nat /\ proc[S].health \in Epochs /\ proc[S].health \in Nat
  BY <1>0 DEF Slots, Keys, Locals
<1>1. PlaybackType'
  BY StepType DEF Step
<1>2. /\ UNCHANGED <<epoch, stopped, relay>> /\ proc[S].pc \in {"attempt", "final", "store"}
      /\ Attempting
  BY DEF StepAttempt, StepFinal, StepStore, World, Attempting
<1>3. lifecycle = S /\ \A t \in Procs : t # S => proc[t].pc \notin LockedPcs
  <2>1. lifecycle = S
    BY <1>2 DEF LockHeld, LockedPcs, StepPcs
  <2> QED BY <2>1, LockAlone
<1>4. \A p \in live : ~Falling(p) /\ (Key(p) = slot.pipe \/ Building(p))
  BY <1>2, <1>3 DEF PipelinesOwned, Falling, LockedPcs
<1>5. slot.pipe # Mine /\ Mine.gen > 0 /\ proc[S].epoch # 0
  BY <1>2 DEF AttemptsNew, EpochsOrdered
<1>6. ASSUME NEW h \in {MyHealth} \cup {Faulted(r) : r \in BOOLEAN}
                           \cup {ScheduleRecovery(Faulted(r)) : r \in BOOLEAN},
             SetHealth(h) \/ UNCHANGED health
      PROVE  \A e \in Epochs : health'[e].gen = health[e].gen
  <2>0. \A g, r : /\ RecordFault(MyHealth, g, r) \in PlaybackHealth
                  /\ RecordFault(MyHealth, g, r).gen = MyHealth.gen
    BY <1>0, HealthOps, Zenon
  <2>1. \A r \in BOOLEAN : Faulted(r) \in PlaybackHealth /\ Faulted(r).gen = MyHealth.gen
    BY <2>0, Zenon DEF Faulted
  <2>2. \A r \in BOOLEAN : /\ ScheduleRecovery(Faulted(r)) \in PlaybackHealth
                           /\ ScheduleRecovery(Faulted(r)).gen = MyHealth.gen
    BY <2>1, HealthOps
  <2>3. h \in PlaybackHealth /\ h.gen = health[proc[S].health].gen
    BY <1>0, <2>1, <2>2 DEF MyHealth
  <2> QED BY <1>6, <2>3, SettingHealth
\* The step ends without a pipeline of its own.
<1>7. ASSUME Leave(S), slot' = slot, live' = {p \in live : Key(p) = slot.pipe},
             \A e \in Epochs : health'[e].gen = health[e].gen
      PROVE  PlaybackInv'
  <2>1. /\ proc'[S].pc = "idle" /\ proc'[S].epoch = 0 /\ proc'[S].health = 0
        /\ \A t \in Procs : t # S => proc'[t] = proc[t]
        /\ lifecycle' = IF lifecycle = S THEN Nobody ELSE lifecycle
    BY <1>7, Leaving
  <2>2. \A t \in Procs : proc'[t].pc \notin LockedPcs
    BY <1>3, <2>1 DEF LockedPcs, StepPcs
  <2>3. LockHeld'
    BY <2>1, LockKept DEF StepPcs
  <2>4. EpochsOrdered'
    BY <1>0, <1>2, <1>7, <2>1 DEF EpochsOrdered
  <2>5. StopsDistinct'
    BY <1>7, <2>1 DEF StopsDistinct
  <2>6. AttemptsNew'
    BY <1>a, <1>7, <2>1, AttemptsKept DEF Attempting
  <2>7. PipelinesOwned' /\ BranchesOwned'
    <3>1. \A t \in Procs : proc'[t].pc \notin {"teardown", "final", "store", "unclaim",
                                               "attach", "detach", "recorded"}
      BY <2>2 DEF LockedPcs, StepPcs
    <3>2. PipelinesOwned'
      BY <1>7, <3>1 DEF PipelinesOwned
    <3>3. \A p \in live' : p.rec => slot'.rec /\ Key(p) = slot'.pipe
      BY <1>4, <1>7 DEF BranchesOwned
    <3>4. BranchesOwned'
      BY <1>7, <3>1, <3>3 DEF BranchesOwned
    <3> QED BY <3>2, <3>4
  <2>8. StopIsFinal' /\ OneClaim'
    BY <1>2, <1>7 DEF StopIsFinal, OneClaim, RelayClaims
  <2> QED BY <1>1, <2>3, <2>4, <2>5, <2>6, <2>7, <2>8
<1>8. ASSUME Discard, slot' = slot PROVE PlaybackInv'
  <2>1. Leave(S) /\ live' = {p \in live : Key(p) # Mine} /\ \E r \in BOOLEAN : SetHealth(ScheduleRecovery(Faulted(r)))
    BY <1>8 DEF Discard
  <2>2. live' = {p \in live : Key(p) = slot.pipe}
    BY <1>4, <1>5, <2>1 DEF Building
  <2>3. \A e \in Epochs : health'[e].gen = health[e].gen
    BY <1>6, <2>1
  <2> QED BY <1>7, <1>8, <2>1, <2>2, <2>3
<1>9. CASE StepAttempt
  <2>1. slot' = slot /\ proc[S].pc = "attempt"
    BY <1>9 DEF StepAttempt
  <2>2. \A p \in live : Key(p) = slot.pipe
    BY <1>4, <2>1 DEF Building
  <2>3. \/ /\ Leave(S) /\ live' = live
           /\ \/ UNCHANGED health
              \/ \E r \in BOOLEAN : SetHealth(Faulted(r)) \/ SetHealth(ScheduleRecovery(Faulted(r)))
        \/ /\ IsCurrent(S) /\ live' = live \cup {Build}
           /\ proc' = [proc EXCEPT ![S].pc = "final", ![S].path = PathOf(proc[S].src)]
           /\ UNCHANGED <<health, lifecycle>>
    BY <1>9 DEF StepAttempt
  <2>4. CASE /\ Leave(S) /\ live' = live
             /\ \/ UNCHANGED health
                \/ \E r \in BOOLEAN : SetHealth(Faulted(r)) \/ SetHealth(ScheduleRecovery(Faulted(r)))
    <3>1. \A e \in Epochs : health'[e].gen = health[e].gen
      BY <1>6, <2>4
    <3>2. live' = {p \in live : Key(p) = slot.pipe}
      BY <2>2, <2>4
    <3> QED BY <1>7, <2>1, <2>4, <3>1, <3>2
  <2>5. CASE /\ IsCurrent(S) /\ live' = live \cup {Build}
             /\ proc' = [proc EXCEPT ![S].pc = "final", ![S].path = PathOf(proc[S].src)]
             /\ UNCHANGED <<health, lifecycle>>
    <3>1. /\ proc'[S].pc = "final" /\ proc'[S].epoch = proc[S].epoch
          /\ proc'[S].health = proc[S].health /\ \A t \in Procs : t # S => proc'[t] = proc[t]
      BY <1>0, <2>5 DEF PlaybackType, Locals
    <3>2. Mine' = Mine
      BY <2>5, <3>1 DEF Mine, MyHealth
    <3>3. /\ Key(Build) = Mine /\ Build.epoch = proc[S].epoch /\ Build.gen = Mine.gen
          /\ Build.rec = FALSE
      BY DEF Build, Mine, Key
    <3>4. LockHeld'
      BY <1>2, <2>1, <2>5, <3>1, LockKept DEF StepPcs, LockedPcs
    <3>5. EpochsOrdered'
      BY <1>2, <1>5, <2>1, <3>1 DEF EpochsOrdered
    <3>6. StopsDistinct'
      BY <2>1, <3>1 DEF StopsDistinct
    <3>7. AttemptsNew'
      BY <1>2, <2>1, <2>5, <3>2, AttemptsKept
    <3>8. \A t \in Procs : proc'[t].pc \notin {"teardown", "unclaim", "attach", "detach", "recorded"}
      BY <1>3, <3>1 DEF LockedPcs
    <3>9. PipelinesOwned'
      <4>1. \A p \in live' : Key(p) = slot'.pipe \/ (Key(p) = Mine' /\ p.epoch = proc'[S].epoch)
        BY <2>1, <2>2, <2>5, <3>1, <3>2, <3>3
      <4>2. \A p \in live' : (Key(p) = slot'.pipe => p.epoch = slot'.instance.epoch) /\ p.gen > 0
        BY <1>5, <2>1, <2>5, <3>3 DEF PipelinesOwned
      <4>3. \A p, q \in live' : Key(p) = Key(q) => p = q
        BY <1>5, <2>2, <2>5, <3>3 DEF PipelinesOwned
      <4>4. slot'.pipe # NoPipe => \E p \in live' : Key(p) = slot'.pipe
        BY <2>1, <2>5 DEF PipelinesOwned
      <4>5. \E p \in live' : Key(p) = Mine'
        BY <2>5, <3>2, <3>3
      <4> QED BY <3>1, <3>8, <4>1, <4>2, <4>3, <4>4, <4>5 DEF PipelinesOwned, Building
    <3>10. BranchesOwned'
      <4>1. \A p \in live' : p.rec => slot'.rec /\ Key(p) = slot'.pipe
        BY <1>4, <2>1, <2>5, <3>3 DEF BranchesOwned
      <4> QED BY <2>1, <3>8, <4>1 DEF BranchesOwned
    <3>11. StopIsFinal'
      <4>1. slot.set /\ slot.intent = proc[S].epoch
        BY <2>5 DEF IsCurrent
      <4> QED BY <1>2, <2>1, <2>5, <3>3, <4>1 DEF StopIsFinal
    <3>12. OneClaim'
      BY <1>2, <2>1 DEF OneClaim, RelayClaims
    <3> QED BY <1>1, <3>4, <3>5, <3>6, <3>7, <3>9, <3>10, <3>11, <3>12
  <2> QED BY <2>3, <2>4, <2>5
<1>10. CASE StepFinal
  <2>1. slot' = slot /\ proc[S].pc = "final"
    BY <1>10 DEF StepFinal
  <2>2. CASE Discard
    BY <1>8, <2>1, <2>2
  <2>3. CASE ~Discard
    <3> DEFINE f(p) == [p EXCEPT !.on = @ \/ Key(p) = Mine]
               F == [p \in live |-> f(p)]
    <3>1. /\ live' = {f(p) : p \in live} /\ Goto(S, "store")
          /\ UNCHANGED health \/ \E r \in BOOLEAN : SetHealth(Faulted(r))
      BY <1>10, <2>3 DEF StepFinal
    <3>2. \A p \in live : /\ f(p) \in Pipelines /\ Key(f(p)) = Key(p) /\ f(p).epoch = p.epoch
                          /\ f(p).gen = p.gen /\ f(p).rec = p.rec
      <4> TAKE p \in live
      <4>1. PICK b \in BOOLEAN : b = (p.on \/ Key(p) = Mine)
        OBVIOUS
      <4>2. f(p) = [p EXCEPT !.on = b]
        BY <4>1
      <4> HIDE DEF f
      <4> QED BY <1>0, <4>2 DEF Pipelines, Key
    <3> HIDE DEF f
    <3>3. Relabelled(F) /\ Unbranched(F)
      BY <3>1, <3>2 DEF Relabelled, Unbranched
    <3>4. \A e \in Epochs : health'[e].gen = health[e].gen
      BY <1>6, <3>1
    <3>5. /\ proc'[S].pc = "store" /\ proc'[S].epoch = proc[S].epoch
          /\ proc'[S].health = proc[S].health /\ \A t \in Procs : t # S => proc'[t] = proc[t]
          /\ lifecycle' = lifecycle
      BY <3>1, Going DEF StepPcs
    <3>6. Mine' = Mine
      BY <1>a, <3>4, <3>5 DEF Mine, MyHealth
    <3>7. BuildingKept
      BY <2>1, <3>5, <3>6 DEF BuildingKept
    <3>8. /\ LockHeld' /\ EpochsOrdered' /\ StopsDistinct' /\ PipelinesOwned'
          /\ BranchesOwned' /\ StopIsFinal' /\ OneClaim'
      BY <1>0, <1>a, <1>1, <1>2, <1>5, <2>1, <3>3, <3>5, <3>7, SupervisorFrame
         DEF EpochsOrdered, SlotKept, StepPcs
    <3>9. AttemptsNew'
      BY <1>a, <1>2, <2>1, <3>4, <3>6, AttemptsKept
    <3> QED BY <1>1, <3>8, <3>9
  <2> QED BY <2>2, <2>3
<1>11. CASE StepStore
  <2>1. CASE Discard /\ UNCHANGED slot
    BY <1>8, <2>1
  <2>2. CASE /\ Leave(S) /\ live' = live \ Stored /\ UNCHANGED health
             /\ slot' = [slot EXCEPT !.pipe = Mine,
                           !.instance = [epoch |-> proc[S].epoch, gen |-> Mine.gen]]
    <3>1. /\ slot'.pipe = Mine /\ slot'.instance.epoch = proc[S].epoch
          /\ slot'.set = slot.set /\ slot'.intent = slot.intent /\ slot'.health = slot.health
          /\ slot'.rec = slot.rec /\ slot'.claim = slot.claim
      BY <1>0, <2>2 DEF Slots
    <3>2. /\ proc'[S].pc = "idle" /\ proc'[S].epoch = 0 /\ proc'[S].health = 0
          /\ \A t \in Procs : t # S => proc'[t] = proc[t]
          /\ lifecycle' = IF lifecycle = S THEN Nobody ELSE lifecycle
      BY <2>2, Leaving
    <3>3. \A t \in Procs : proc'[t].pc \notin LockedPcs
      BY <1>3, <3>2 DEF LockedPcs, StepPcs
    <3>4. LockHeld'
      BY <3>2, LockKept DEF StepPcs
    <3>5. EpochsOrdered'
      BY <1>0, <1>a, <1>2, <3>1, <3>2 DEF EpochsOrdered, Mine
    <3>6. StopsDistinct'
      BY <3>1, <3>2 DEF StopsDistinct
    <3>7. AttemptsNew'
      <4>1. Mine.gen <= health'[Mine.health].gen
        BY <1>0, <2>2 DEF Mine, MyHealth, PlaybackHealth
      <4> QED BY <3>1, <3>2, <4>1 DEF AttemptsNew, Attempting
    <3>8. \A t \in Procs : proc'[t].pc \notin {"teardown", "final", "store", "unclaim",
                                               "attach", "detach", "recorded"}
      BY <3>3 DEF LockedPcs, StepPcs
    <3>9. \A p \in live' : p \in live /\ Key(p) = Mine /\ p.epoch = proc[S].epoch
      BY <1>4, <2>2 DEF Building, Stored
    <3>10. PipelinesOwned'
      <4>1. \A p \in live' : /\ Key(p) = slot'.pipe /\ p.epoch = slot'.instance.epoch
                             /\ p.gen > 0
        BY <3>1, <3>9 DEF PipelinesOwned
      <4>2. \A p, q \in live' : Key(p) = Key(q) => p = q
        BY <3>9 DEF PipelinesOwned
      <4>3. \E p \in live' : Key(p) = slot'.pipe
        <5>1. PICK p \in live : Key(p) = Mine
          BY <1>11 DEF PipelinesOwned, StepStore
        <5> QED BY <1>5, <2>2, <3>1, <5>1 DEF Stored
      <4> QED BY <3>8, <4>1, <4>2, <4>3 DEF PipelinesOwned
    <3>11. BranchesOwned'
      <4>1. \A p \in live' : ~p.rec
        BY <1>4, <1>5, <3>9 DEF BranchesOwned
      <4>2. slot'.pipe # NoPipe
        BY <1>5, <3>1 DEF NoPipe
      <4> QED BY <3>8, <4>1, <4>2 DEF BranchesOwned
    <3>12. StopIsFinal' /\ OneClaim'
      BY <1>2, <2>2, <3>1 DEF StopIsFinal, OneClaim, RelayClaims
    <3> QED BY <1>1, <3>4, <3>5, <3>6, <3>7, <3>10, <3>11, <3>12
  <2> QED BY <1>11, <2>1, <2>2 DEF StepStore
<1> QED BY <1>9, <1>10, <1>11

-----------------------------------------------------------------------------
(***************************************************************************)
(* The environment, and the invariant.                                     *)
(***************************************************************************)

\* Pipelines, time, the network, the settings and the relay.
LEMMA EnvironmentStep ==
    ASSUME PlaybackInv, Environment
    PROVE  PlaybackInv'
<1> USE EpochsNat, SupervisorApart DEF PlaybackInv
<1>0. slot \in Slots /\ proc[S] \in Locals /\ live \subseteq Pipelines
  BY DEF PlaybackType
<1>1. /\ PlaybackType' /\ UNCHANGED <<epoch, slot, lifecycle, proc, stopped>>
      /\ \A e \in Epochs : health'[e].gen = health[e].gen
  BY EnvironmentType
<1>2. PICK F : Relabelled(F) /\ Unbranched(F)
  <2>1. CASE live' = live
    BY <2>1, SameRelabelled
  <2>2. ASSUME NEW p \in live, live' = (live \ {p}) \cup {[p EXCEPT !.open = TRUE]}
        PROVE  \E F : Relabelled(F) /\ Unbranched(F)
    <3> DEFINE F == [q \in live |-> IF q = p THEN [p EXCEPT !.open = TRUE] ELSE q]
    <3>1. LET o == [p EXCEPT !.open = TRUE] IN
          /\ o \in Pipelines /\ Key(o) = Key(p) /\ o.epoch = p.epoch /\ o.gen = p.gen
          /\ o.rec = p.rec
      BY <1>0 DEF Pipelines, Key
    <3>2. live' = {F[q] : q \in live}
      BY <2>2
    <3>3. Relabelled(F) /\ Unbranched(F)
      BY <1>0, <3>1, <3>2 DEF Relabelled, Unbranched
    <3> QED BY <3>3
  <2>3. live' = live \/ \E p \in live : live' = (live \ {p}) \cup {[p EXCEPT !.open = TRUE]}
    BY DEF Environment, Pipeline, Connect, Frame, BusFault, Timer, NetChange, NetReturns,
          Edit, RelayStarts, RelayProceeds
  <2> QED BY <2>1, <2>2, <2>3
<1>3. LockHeld' /\ EpochsOrdered' /\ StopsDistinct'
  BY <1>1 DEF LockHeld, EpochsOrdered, StopsDistinct
<1>4. Mine' = Mine
  BY <1>0, <1>1, MineKept DEF Locals
<1>5. AttemptsNew'
  <2>1. slot.pipe.health \in Epochs
    BY <1>0 DEF Slots, Keys
  <2> QED BY <1>1, <1>4, <2>1, AttemptsKept DEF Attempting
<1>6. PipelinesOwned' /\ BranchesOwned'
  <2>1. TearingKept /\ BuildingKept /\ SlotKept
    BY <1>1, <1>4 DEF TearingKept, BuildingKept, SlotKept
  <2>2. PipelinesOwned'
    BY <1>1, <1>2, <2>1, PipelinesKept DEF PipelinesOwned
  <2>3. BranchesOwned'
    BY <1>1, <1>2, <2>1, BranchesKept
  <2> QED BY <2>2, <2>3
<1>7. StopIsFinal'
  BY <1>1, <1>2 DEF StopIsFinal, Relabelled
<1>8. OneClaim'
  <2>1. \/ relay' = relay
        \/ RelayAdmits
        \/ relay.desired /\ relay' = [relay EXCEPT !.server = TRUE]
        \/ relay' = [relay EXCEPT !.desired = FALSE]
        \/ relay' = [relay EXCEPT !.server = FALSE]
    BY DEF Environment, Pipeline, Connect, Frame, BusFault, Timer, NetChange, NetReturns,
          Edit, RelayStarts, RelayProceeds, World
  <2> QED BY <1>1, <2>1 DEF OneClaim, RelayClaims, RelayAdmits, PlaybackType
<1> QED BY <1>1, <1>3, <1>5, <1>6, <1>7, <1>8

\* Whatever the users, the supervisor and the environment do.
LEMMA PlaybackStep == PlaybackInv /\ [Next]_vars => PlaybackInv'
<1> SUFFICES ASSUME PlaybackInv, [Next]_vars PROVE PlaybackInv'
  OBVIOUS
<1>1. ASSUME NEW u \in Users, Asks(u) \/ Proceeds(u) PROVE PlaybackInv'
  <2>1. u \in Procs
    BY SupervisorApart
  <2> QED BY <1>1, <2>1, RequestStep, StopStep, RecordStep, TearingStep DEF Asks, Proceeds
<1>2. CASE Step
  BY <1>2, SupervisorApart, EarlyStep, AttemptStep, TearingStep DEF Step
<1>3. CASE Environment
  BY <1>3, EnvironmentStep
<1>4. CASE UNCHANGED vars
  BY <1>4 DEF vars, PlaybackInv, PlaybackType, LockHeld, EpochsOrdered, StopsDistinct,
        AttemptsNew, Attempting, Mine, MyHealth, PipelinesOwned, Building, Falling,
        BranchesOwned, StopIsFinal, OneClaim, RelayClaims
<1> QED BY <1>1, <1>2, <1>3, <1>4 DEF Next

LEMMA PlaybackInvariant == Spec => []PlaybackInv
  BY InitPlayback, PlaybackStep, PTL DEF Spec

-----------------------------------------------------------------------------
(***************************************************************************)
(* The branch of a recording.                                              *)
(***************************************************************************)

\* An attempt that runs has no retry pending.
AttemptsPlain == \A e \in Epochs : health[e].active => health[e].retry = "none"

\* What the step's snapshot found retired is not running again: only the step
\* itself begins an attempt.
SnapTells ==
    proc[S].pc \in {"retire", "teardown", "decide"} /\ ~proc[S].snap.active =>
        ~MyHealth.active

\* A reserved recording has its branch, or a request is about to attach it or
\* to clear the slot.
BranchHeld ==
    slot.rec /\ ~unowned =>
        \/ \E u \in Users : proc[u].pc \in {"attach", "recorded"}
        \/ \E p \in live : Key(p) = slot.pipe /\ p.rec

\* The step that keeps the pipeline of a recording begins no attempt.
StepKeeps ==
    slot.rec /\ ~unowned =>
        /\ ~Attempting
        /\ Deciding => MyHealth.retry = "none"

RecordingInv == AttemptsPlain /\ SnapTells /\ BranchHeld /\ StepKeeps

\* A record that changes from h to k is calm: it does not run unless it ran, and
\* then has no retry pending; and it is quiet: no retry is scheduled.
CalmReport(h, k) == k.active => h.active /\ k.retry = "none"
QuietReport(h, k) == h.retry = "none" => k.retry = "none"

\* No report to a health record starts it again; only retry_now and
\* schedule_recovery give a retry to one that has none.
LEMMA ReportsCalm ==
    ASSUME NEW h \in PlaybackHealth, h.active => h.retry = "none"
    PROVE  /\ CalmReport(h, h) /\ QuietReport(h, h)
           /\ \A g : CalmReport(h, ObserveBuffer(h, g)) /\ QuietReport(h, ObserveBuffer(h, g))
           /\ \A g, r : CalmReport(h, RecordFault(h, g, r)) /\ QuietReport(h, RecordFault(h, g, r))
           /\ CalmReport(h, WakeReady(h)) /\ QuietReport(h, WakeReady(h))
           /\ CalmReport(h, RetryNow(h))
           /\ CalmReport(h, Retired(h)) /\ QuietReport(h, Retired(h))
           /\ \A k : CalmReport(k, NewHealth)
           /\ \A r : ~RecordFault(h, h.gen, r).active
<1> USE DEF PlaybackHealth, CalmReport, QuietReport
<1>1. \A g : CalmReport(h, ObserveBuffer(h, g)) /\ QuietReport(h, ObserveBuffer(h, g))
  BY DEF ObserveBuffer
<1>2. \A g, r : CalmReport(h, RecordFault(h, g, r)) /\ QuietReport(h, RecordFault(h, g, r))
  BY DEF RecordFault
<1>3. CalmReport(h, WakeReady(h)) /\ QuietReport(h, WakeReady(h))
  BY DEF WakeReady
<1>4. CalmReport(h, RetryNow(h))
  BY DEF RetryNow
<1>5. CalmReport(h, Retired(h)) /\ QuietReport(h, Retired(h))
  BY DEF Retired
<1>6. \A k : CalmReport(k, NewHealth)
  BY DEF NewHealth
<1>7. CalmReport(h, h) /\ QuietReport(h, h)
  OBVIOUS
<1>8. \A r : ~RecordFault(h, h.gen, r).active
  BY DEF RecordFault
<1> HIDE DEF PlaybackHealth, CalmReport, QuietReport
<1> QED BY <1>1, <1>2, <1>3, <1>4, <1>5, <1>6, <1>7, <1>8, Zenon

\* The branch stays where it is, or where a request was about to put it.
LEMMA BranchStays ==
    ASSUME BranchHeld, slot'.rec => slot.rec, ~unowned' => ~unowned, slot'.pipe = slot.pipe,
           \A p \in live : Key(p) = slot.pipe /\ p.rec =>
             \E q \in live' : Key(q) = slot.pipe /\ q.rec,
           \A u \in Users : proc[u].pc \in {"attach", "recorded"} =>
             proc'[u].pc \in {"attach", "recorded"}
    PROVE  BranchHeld'
  BY DEF BranchHeld

\* Initially nothing is recorded.
LEMMA InitRecording == Init => RecordingInv
<1> SUFFICES ASSUME Init PROVE RecordingInv
  OBVIOUS
<1>1. AttemptsPlain
  BY DEF Init, AttemptsPlain, NewHealth
<1>2. proc[S].pc = "idle"
  BY SupervisorApart, IdleLocals DEF Init
<1>3. SnapTells /\ BranchHeld /\ StepKeeps
  BY <1>2 DEF Init, SnapTells, BranchHeld, StepKeeps
<1> QED BY <1>1, <1>3 DEF RecordingInv

\* No record runs that did not run before.
Calm == \A e \in Epochs : CalmReport(health[e], health'[e])

\* A user leaves the records calm, and those of a step that records too.
LEMMA UserCalm ==
    ASSUME PlaybackInv, AttemptsPlain, NEW u \in Users, Asks(u) \/ Proceeds(u)
    PROVE  /\ Calm /\ proc'[S] = proc[S]
           /\ slot'.rec /\ ~unowned' /\ lifecycle = S =>
                /\ slot.rec /\ ~unowned
                /\ Deciding /\ MyHealth.retry = "none" => MyHealth'.retry = "none"
<1> USE EpochsNat, SupervisorApart DEF PlaybackInv
<1>0. /\ slot \in Slots /\ health \in [Epochs -> PlaybackHealth] /\ proc \in [Procs -> Locals]
      /\ proc[u] \in Locals /\ proc[S] \in Locals /\ u # S /\ u \in Procs /\ u # Nobody
  BY PlaybackAssumption DEF PlaybackType, Procs
<1>a. /\ slot.health \in Epochs /\ proc[S].health \in Epochs /\ proc[u].epoch \in Epochs
  BY <1>0 DEF Slots, Locals
<1>b. epoch \in Nat /\ proc[S].health <= epoch
  BY DEF PlaybackType, EpochsOrdered
<1>1. proc'[S] = proc[S]
  <2>1. proc' = proc \/ \E l : proc' = [proc EXCEPT ![u] = l]
    BY <1>0 DEF Asks, Proceeds, StartRequest, RetryRequest, Request, StopRequest, RecordReserve,
          RecordFind, MuteRequest, StartPublish, RetryPublish, StopClear, StopTake, Tearing,
          RetirePlayback, Teardown, StopReturn, RecordAttach, RecordDetach, RecordClear,
          MuteApply, Leave, Goto
  <2> QED BY <1>0, <2>1
<1>2. \A e \in Epochs : health[e] \in PlaybackHealth /\ (health[e].active => health[e].retry = "none")
  BY <1>0 DEF AttemptsPlain
<1>3. MyHealth = health[proc[S].health] /\ MyHealth' = health'[proc[S].health]
  BY <1>1 DEF MyHealth
\* A request publishes an intent, or hastens a retry.
<1>4. CASE StartPublish(u) \/ RetryPublish(u)
  <2>1. \/ health' = health
        \/ epoch = proc[u].epoch /\ Replace(proc[u].epoch + 1)
        \/ health' = [health EXCEPT ![slot.health] = RetryNow(@)]
           /\ unowned' = (unowned \/ (Deciding /\ slot.rec /\ health' # health))
        \/ health' = [health EXCEPT ![slot.health] = WakeReady(@)]
    BY <1>4 DEF StartPublish, RetryPublish
  <2>2. slot'.rec = slot.rec
    BY <1>0, <1>4 DEF StartPublish, RetryPublish, Slots
  <2>3. ~unowned' => ~unowned
    BY <1>4 DEF StartPublish, RetryPublish
  <2>4. CASE health' = health
    BY <1>1, <1>2, <1>3, <2>2, <2>3, <2>4, ReportsCalm DEF Calm
  <2>5. CASE epoch = proc[u].epoch /\ Replace(proc[u].epoch + 1)
    <3>1. \A e \in Epochs : \/ health'[e] = NewHealth /\ e = epoch + 1
                            \/ health'[e] = Retired(health[e])
                            \/ health'[e] = health[e]
      BY <2>5 DEF Replace
    <3>2. Calm
      BY <1>2, <3>1, ReportsCalm DEF Calm
    <3>3. QuietReport(MyHealth, MyHealth')
      <4>1. proc[S].health # epoch + 1
        BY <1>a, <1>b
      <4> QED BY <1>a, <1>2, <1>3, <3>1, <4>1, ReportsCalm
    <3> QED BY <1>1, <2>2, <2>3, <3>2, <3>3 DEF QuietReport
  <2>6. CASE /\ health' = [health EXCEPT ![slot.health] = RetryNow(@)]
             /\ unowned' = (unowned \/ (Deciding /\ slot.rec /\ health' # health))
    <3>1. Calm
      <4>1. \A e \in Epochs : health'[e] = health[e] \/ health'[e] = RetryNow(health[e])
        BY <1>0, <2>6
      <4> QED BY <1>2, <4>1, ReportsCalm DEF Calm
    <3>2. slot'.rec /\ ~unowned' /\ Deciding => health' = health
      BY <2>2, <2>6
    <3> QED BY <1>1, <1>3, <2>2, <2>3, <3>1, <3>2
  <2>7. CASE health' = [health EXCEPT ![slot.health] = WakeReady(@)]
    <3>1. \A e \in Epochs : health'[e] = health[e] \/ health'[e] = WakeReady(health[e])
      BY <1>0, <2>7
    <3>2. Calm /\ QuietReport(MyHealth, MyHealth')
      BY <1>a, <1>2, <1>3, <3>1, ReportsCalm DEF Calm
    <3> QED BY <1>1, <2>2, <2>3, <3>2 DEF QuietReport
  <2> QED BY <2>1, <2>4, <2>5, <2>6, <2>7
<1>5. CASE StopClear(u)
  <2>1. health' = health \/ health' = [health EXCEPT ![slot.health] = Retired(@)]
    BY <1>5 DEF StopClear
  <2>2. \A e \in Epochs : health'[e] = health[e] \/ health'[e] = Retired(health[e])
    BY <1>0, <2>1
  <2>3. Calm /\ QuietReport(MyHealth, MyHealth')
    BY <1>a, <1>2, <1>3, <2>2, ReportsCalm DEF Calm
  <2>4. slot'.rec = slot.rec /\ unowned' = unowned
    BY <1>0, <1>5 DEF StopClear, Slots
  <2> QED BY <1>1, <2>3, <2>4 DEF QuietReport
\* The rest leaves the records alone; a recording is reserved, and its slot and
\* its branch are given up, under the lifecycle lock.
<1>6. CASE ~(StartPublish(u) \/ RetryPublish(u) \/ StopClear(u))
  <2>1. health' = health
    BY <1>6 DEF Asks, Proceeds, StartRequest, RetryRequest, Request, StopRequest, RecordReserve,
          RecordFind, MuteRequest, StopTake, Tearing, RetirePlayback, Teardown, StopReturn,
          RecordAttach, RecordDetach, RecordClear, MuteApply
  <2>2. Calm
    BY <1>2, <2>1, ReportsCalm DEF Calm
  <2>3. ASSUME lifecycle = S, slot'.rec, ~unowned' PROVE slot.rec /\ ~unowned
    <3>1. proc[u].pc \notin {"attach", "detach", "recorded", "retire", "teardown"}
      BY <1>0, <2>3 DEF LockHeld, LockedPcs
    <3>2. ~RecordReserve(u)
      BY <2>3, PlaybackAssumption DEF RecordReserve, Procs
    <3>3. slot'.rec = slot.rec /\ unowned' = unowned
      BY <1>0, <1>6, <3>1, <3>2 DEF Asks, Proceeds, StartRequest, RetryRequest, Request,
            StopRequest, RecordFind, MuteRequest, StopTake, Tearing, RetirePlayback, Teardown,
            StopReturn, RecordAttach, RecordDetach, RecordClear, MuteApply, Slots
    <3> QED BY <2>3, <3>3
  <2> QED BY <1>1, <1>3, <2>1, <2>2, <2>3
<1> QED BY <1>4, <1>5, <1>6

\* What a user does to the branch.
LEMMA UserBranch ==
    ASSUME PlaybackInv, BranchHeld, NEW u \in Users, Asks(u) \/ Proceeds(u)
    PROVE  BranchHeld'
<1> USE SupervisorApart DEF PlaybackInv
<1>0. /\ slot \in Slots /\ proc \in [Procs -> Locals] /\ proc[u] \in Locals
      /\ live \subseteq Pipelines /\ u \in Procs
  BY DEF PlaybackType
<1>1. ASSUME slot'.rec => slot.rec, ~unowned' => ~unowned, slot'.pipe = slot.pipe,
             \A p \in live : \E q \in live' : Key(q) = Key(p) /\ q.rec = p.rec,
             proc[u].pc \notin {"attach", "recorded"},
             \E l : proc' = [proc EXCEPT ![u] = l]
      PROVE  BranchHeld'
  <2>1. \A v \in Users : v # u => proc'[v] = proc[v]
    BY <1>0, <1>1
  <2> QED BY <1>1, <2>1, BranchStays
<1>2. CASE StartPublish(u) \/ RetryPublish(u) \/ StopClear(u) \/ StopReturn(u)
  <2>1. slot'.rec = slot.rec /\ slot'.pipe = slot.pipe /\ live' = live
    BY <1>0, <1>2 DEF StartPublish, RetryPublish, StopClear, StopReturn, Slots
  <2>2. proc[u].pc \notin {"attach", "recorded"}
    BY <1>2 DEF StartPublish, RetryPublish, StopClear, StopReturn
  <2>3. ~unowned' => ~unowned
    BY <1>2 DEF StartPublish, RetryPublish, StopClear, StopReturn
  <2>4. \E l : proc' = [proc EXCEPT ![u] = l]
    BY <1>2 DEF StartPublish, RetryPublish, StopClear, StopReturn, Leave, Goto
  <2> QED BY <1>1, <2>1, <2>2, <2>3, <2>4
<1>3. CASE Request(u, "start") \/ Request(u, "retry") \/ StopRequest(u) \/ StopTake(u)
           \/ RecordFind(u) \/ MuteRequest(u)
  <2>1. UNCHANGED <<slot, live, unowned>> /\ proc[u].pc \notin {"attach", "recorded"}
    BY <1>3 DEF Request, StopRequest, StopTake, RecordFind, MuteRequest
  <2>2. \E l : proc' = [proc EXCEPT ![u] = l]
    BY <1>3 DEF Request, StopRequest, StopTake, RecordFind, MuteRequest
  <2> QED BY <1>1, <2>1, <2>2
<1>4. CASE RetirePlayback(u) \/ RecordClear(u)
  BY <1>0, <1>4 DEF RetirePlayback, RecordClear, Slots, BranchHeld
<1>5. CASE Teardown(u)
  BY <1>0, <1>5 DEF Teardown, PipelinesOwned, BranchesOwned, BranchHeld
<1>6. CASE RecordReserve(u)
  <2>1. proc'[u].pc = "attach"
    BY <1>0, <1>6 DEF RecordReserve, Idle
  <2> QED BY <2>1 DEF BranchHeld
<1>7. CASE RecordAttach(u)
  <2>1. CASE live' = Branch(proc[u].pipe, TRUE) /\ slot' = slot
    <3>1. PICK p \in live : Key(p) = slot.pipe
      BY <1>7 DEF RecordAttach, PipelinesOwned, BranchesOwned
    <3>2. proc[u].pipe = Key(p)
      BY <1>7, <3>1 DEF RecordAttach, BranchesOwned
    <3>3. [p EXCEPT !.rec = TRUE] \in live'
      BY <2>1, <3>2 DEF Branch
    <3>4. Key([p EXCEPT !.rec = TRUE]) = slot.pipe /\ [p EXCEPT !.rec = TRUE].rec
      BY <1>0, <3>1 DEF Pipelines, Key
    <3> QED BY <2>1, <3>3, <3>4 DEF BranchHeld
  <2>2. CASE slot' = [slot EXCEPT !.rec = FALSE]
    BY <1>0, <2>2 DEF Slots, BranchHeld
  <2> QED BY <1>7, <2>1, <2>2 DEF RecordAttach
<1>8. CASE RecordDetach(u)
  <2>1. proc[u].pc = "detach" /\ slot' = slot
    BY <1>8 DEF RecordDetach
  <2>2. CASE Goto(u, "recorded")
    <3>1. proc'[u].pc = "recorded"
      BY <1>0, <2>2, Going DEF UserPcs
    <3> QED BY <3>1 DEF BranchHeld
  <2>3. CASE unowned' = TRUE
    BY <2>3 DEF BranchHeld
  <2>4. CASE UNCHANGED <<live, unowned>> /\ Leave(u)
    BY <1>1, <2>1, <2>4 DEF Leave
  <2> QED BY <1>8, <2>2, <2>3, <2>4 DEF RecordDetach
<1>9. CASE MuteApply(u)
  <2> DEFINE f(p) == [p EXCEPT !.muted = IF p \in Stored THEN proc[u].src.muted ELSE @]
  <2>1. slot'.rec = slot.rec /\ slot'.pipe = slot.pipe /\ unowned' = unowned
    BY <1>0, <1>9 DEF MuteApply, Slots
  <2>2. \A p \in live : f(p) \in live' /\ Key(f(p)) = Key(p) /\ f(p).rec = p.rec
    BY <1>0, <1>9 DEF MuteApply, Pipelines, Key
  <2> HIDE DEF f
  <2>3. proc[u].pc \notin {"attach", "recorded"} /\ Leave(u)
    BY <1>9 DEF MuteApply
  <2> QED BY <1>1, <2>1, <2>2, <2>3 DEF Leave
<1> QED BY <1>2, <1>3, <1>4, <1>5, <1>6, <1>7, <1>8, <1>9
        DEF Asks, Proceeds, StartRequest, RetryRequest, Tearing

\* A user's step keeps the invariant of recordings.
LEMMA UserRecording ==
    ASSUME PlaybackInv, RecordingInv, NEW u \in Users, Asks(u) \/ Proceeds(u)
    PROVE  RecordingInv'
<1> USE DEF RecordingInv
<1>0. proc[S].health \in Epochs /\ (proc[S].pc # "idle" => lifecycle = S)
  BY SupervisorApart DEF PlaybackInv, PlaybackType, Locals, LockHeld, LockedPcs
<1>1. Calm /\ proc'[S] = proc[S]
  BY UserCalm
<1>2. AttemptsPlain'
  BY <1>1 DEF Calm, CalmReport, AttemptsPlain
<1>3. SnapTells'
  BY <1>0, <1>1 DEF Calm, CalmReport, SnapTells, MyHealth
<1>4. BranchHeld'
  BY UserBranch
<1>5. StepKeeps'
  <2> SUFFICES ASSUME slot'.rec, ~unowned', Attempting' \/ Deciding'
               PROVE  ~Attempting' /\ (Deciding' => MyHealth'.retry = "none")
    BY DEF StepKeeps
  <2>1. (Attempting' <=> Attempting) /\ (Deciding' <=> Deciding)
    BY <1>1 DEF Attempting, Deciding, S
  <2>2. lifecycle = S
    BY <1>0, <2>1 DEF Attempting, Deciding, S
  <2>3. slot.rec /\ ~unowned /\ (Deciding /\ MyHealth.retry = "none" => MyHealth'.retry = "none")
    BY <2>2, UserCalm
  <2>4. ~Attempting /\ (Deciding => MyHealth.retry = "none")
    BY <2>3 DEF StepKeeps
  <2> QED BY <2>1, <2>3, <2>4
<1> QED BY <1>2, <1>3, <1>4, <1>5

\* Pipelines, time and the network schedule no retry for an attempt, and leave
\* the branch where it is.
LEMMA EnvironmentRecording ==
    ASSUME PlaybackInv, RecordingInv, Environment
    PROVE  RecordingInv'
<1> USE EpochsNat, SupervisorApart DEF PlaybackInv, RecordingInv
<1>0. /\ health \in [Epochs -> PlaybackHealth] /\ live \subseteq Pipelines
      /\ slot.health \in Epochs /\ proc[S].health \in Epochs
  BY DEF PlaybackType, Slots, Locals
<1>1. UNCHANGED <<slot, proc, unowned>>
  BY DEF Environment, Pipeline, Connect, Frame, BusFault, Timer, NetChange, NetReturns,
        Edit, RelayStarts, RelayProceeds, Quiet
<1>2. \A e \in Epochs : health[e] \in PlaybackHealth /\ (health[e].active => health[e].retry = "none")
  BY <1>0 DEF AttemptsPlain
<1>3. \A e \in Epochs : CalmReport(health[e], health'[e]) /\ QuietReport(health[e], health'[e])
  <2>1. \/ health' = health
        \/ \E p \in live : health' = [health EXCEPT ![p.health] = ObserveBuffer(@, p.gen)]
        \/ \E p \in live, r \in BOOLEAN :
             health' = [health EXCEPT ![p.health] = RecordFault(@, p.gen, r)]
        \/ /\ health[slot.health].retry = "later"
           /\ health' = [health EXCEPT ![slot.health].retry = "due"]
    BY DEF Environment, Pipeline, Connect, Frame, BusFault, Timer, NetChange, NetReturns,
          Edit, RelayStarts, RelayProceeds
  <2>2. CASE health' = health
    BY <1>2, <2>2, ReportsCalm
  <2>3. ASSUME NEW p \in live, health' = [health EXCEPT ![p.health] = ObserveBuffer(@, p.gen)]
        PROVE  <1>3
    <3>1. \A e \in Epochs : health'[e] = health[e] \/ health'[e] = ObserveBuffer(health[e], p.gen)
      BY <1>0, <2>3
    <3> QED BY <1>2, <3>1, ReportsCalm
  <2>4. ASSUME NEW p \in live, NEW r \in BOOLEAN,
               health' = [health EXCEPT ![p.health] = RecordFault(@, p.gen, r)]
        PROVE  <1>3
    <3>1. \A e \in Epochs : health'[e] = health[e] \/ health'[e] = RecordFault(health[e], p.gen, r)
      BY <1>0, <2>4
    <3> QED BY <1>2, <3>1, ReportsCalm
  <2>5. CASE /\ health[slot.health].retry = "later"
             /\ health' = [health EXCEPT ![slot.health].retry = "due"]
    <3> TAKE e \in Epochs
    <3>1. CASE e # slot.health
      <4>1. health'[e] = health[e]
        BY <1>0, <2>5, <3>1
      <4> QED BY <1>2, <4>1, ReportsCalm
    <3>2. CASE e = slot.health
      <4>1. health[e].retry = "later" /\ ~health[e].active
        BY <1>2, <2>5, <3>2
      <4>2. health'[e].active = health[e].active
        BY <1>0, <2>5, <3>2 DEF PlaybackHealth
      <4> QED BY <4>1, <4>2 DEF CalmReport, QuietReport
    <3> QED BY <3>1, <3>2
  <2> QED BY <2>1, <2>2, <2>3, <2>4, <2>5
<1>4. AttemptsPlain'
  BY <1>3 DEF CalmReport, AttemptsPlain
<1>5. SnapTells'
  BY <1>0, <1>1, <1>3 DEF CalmReport, SnapTells, MyHealth
<1>6. BranchHeld'
  <2>1. live' = live \/ \E p \in live : live' = (live \ {p}) \cup {[p EXCEPT !.open = TRUE]}
    BY DEF Environment, Pipeline, Connect, Frame, BusFault, Timer, NetChange, NetReturns,
          Edit, RelayStarts, RelayProceeds
  <2>2. \A p \in live : LET o == [p EXCEPT !.open = TRUE] IN Key(o) = Key(p) /\ o.rec = p.rec
    BY <1>0 DEF Pipelines, Key
  <2>3. \A p \in live : \E q \in live' : Key(q) = Key(p) /\ q.rec = p.rec
    BY <2>1, <2>2
  <2> QED BY <1>1, <2>3, BranchStays
<1>7. StepKeeps'
  <2>1. MyHealth.retry = "none" => MyHealth'.retry = "none"
    BY <1>0, <1>1, <1>3 DEF QuietReport, MyHealth
  <2> QED BY <1>1, <2>1 DEF StepKeeps, Attempting, Deciding, S
<1> QED BY <1>4, <1>5, <1>6, <1>7

\* The step keeps the pipeline of a recording unless a fault has retired it,
\* and then the recording ends with it.
LEMMA StepRecording ==
    ASSUME PlaybackInv, RecordingInv, Step
    PROVE  RecordingInv'
<1> USE EpochsNat, SupervisorApart, IdleLocals DEF PlaybackInv, RecordingInv
<1>0. /\ health \in [Epochs -> PlaybackHealth] /\ live \subseteq Pipelines /\ slot \in Slots
      /\ proc[S] \in Locals /\ MyHealth \in PlaybackHealth /\ proc[S].health \in Epochs
      /\ MyHealth = health[proc[S].health] /\ proc \in [Procs -> Locals]
  BY MyHealthType DEF PlaybackType, Locals, MyHealth
<1>2. \A e \in Epochs : health[e] \in PlaybackHealth /\ (health[e].active => health[e].retry = "none")
  BY <1>0 DEF AttemptsPlain
<1>3. MyHealth.active => MyHealth.retry = "none"
  BY <1>0, <1>2
\* While the step holds the lifecycle no request of a recording is half done.
<1>4. /\ proc[S].pc # "idle" => \A u \in Users : proc[u].pc \notin {"attach", "recorded"}
      /\ slot.rec /\ ~unowned /\ proc[S].pc # "idle" =>
           \E p \in live : Key(p) = slot.pipe /\ p.rec
  <2>1. proc[S].pc # "idle" => \A u \in Users : proc[u].pc \notin {"attach", "recorded"}
    BY DEF LockHeld, LockedPcs
  <2> QED BY <2>1 DEF BranchHeld
<1>5. CASE StepBegin
  <2>1. UNCHANGED <<slot, health, live, unowned>> /\ proc[S].pc = "idle"
    BY <1>5 DEF StepBegin
  <2>2. proc'[S].pc = "current" /\ \A u \in Users : proc'[u] = proc[u]
    BY <1>0, <1>5 DEF StepBegin, Idle
  <2> QED BY <2>1, <2>2, BranchStays DEF AttemptsPlain, SnapTells, StepKeeps, Deciding, Attempting, S
\* The slot and the branch stay, and the step is not about to replace anything.
<1>6. ASSUME slot'.rec = slot.rec, slot'.pipe = slot.pipe, UNCHANGED <<live, unowned>>,
             \A u \in Users : proc'[u] = proc[u],
             proc'[S].pc \in {"idle", "ready", "select", "check", "update"},
             AttemptsPlain'
      PROVE  RecordingInv'
  BY <1>6, BranchStays DEF SnapTells, StepKeeps, Deciding, Attempting, S
<1>7. \A pc \in StepPcs : Goto(S, pc) => proc'[S].pc = pc /\ \A u \in Users : proc'[u] = proc[u]
  BY Going
<1>8. Leave(S) => proc'[S].pc = "idle" /\ \A u \in Users : proc'[u] = proc[u]
  BY Leaving
<1>9. UNCHANGED health => AttemptsPlain'
  BY DEF AttemptsPlain
<1>10. \A h \in PlaybackHealth : SetHealth(h) /\ (h.active => h.retry = "none") => AttemptsPlain'
  BY <1>2, SettingHealth DEF AttemptsPlain
<1>11. \A h \in PlaybackHealth : \A g, r : (h.active => h.retry = "none") =>
         /\ RecordFault(h, g, r) \in PlaybackHealth
         /\ RecordFault(h, g, r).active => RecordFault(h, g, r).retry = "none"
  BY HealthOps, ReportsCalm DEF CalmReport
<1>12. CASE StepCurrent \/ StepSelect \/ StepReady \/ StepUpdate
  <2>1. UNCHANGED <<live, unowned>> /\ slot'.rec = slot.rec /\ slot'.pipe = slot.pipe
    BY <1>0, <1>12 DEF StepCurrent, StepSelect, StepReady, StepUpdate, Slots
  <2>2. /\ proc'[S].pc \in {"idle", "ready", "select", "check", "update"}
        /\ \A u \in Users : proc'[u] = proc[u]
    <3>1. CASE StepCurrent
      <4>1. PICK pc \in {"check", "select"} :
              Leave(S) \/ proc' = [proc EXCEPT ![S].path.adapter = net.adapter, ![S].pc = pc]
        BY <3>1 DEF StepCurrent
      <4> QED BY <1>0, <1>8, <4>1 DEF Locals, Paths
    <3>2. CASE StepSelect
      <4>1. \/ Leave(S) \/ Goto(S, "ready")
            \/ proc' = [proc EXCEPT ![S].pc = "ready", ![S].epoch = proc[S].epoch + 1]
        BY <3>2 DEF StepSelect
      <4> QED BY <1>0, <1>7, <1>8, <4>1 DEF Locals, StepPcs
    <3>3. CASE StepReady
      <4>1. \/ Leave(S) \/ Goto(S, "check")
            \/ proc' = [proc EXCEPT ![S].pc = "update", ![S].path = PathOf(proc[S].src)]
        BY <3>3 DEF StepReady
      <4> QED BY <1>0, <1>7, <1>8, <4>1 DEF Locals, StepPcs
    <3>4. CASE StepUpdate
      BY <1>7, <3>4 DEF StepUpdate, StepPcs
    <3> QED BY <1>12, <3>1, <3>2, <3>3, <3>4
  <2>3. AttemptsPlain'
    <3>1. \/ UNCHANGED health
          \/ \E w \in {MyHealth, WakeReady(MyHealth)}, r \in BOOLEAN :
               SetHealth(w) \/ SetHealth(RecordFault(w, w.gen, r))
      BY <1>12 DEF StepCurrent, StepSelect, StepReady, StepUpdate
    <3>2. \A w \in {MyHealth, WakeReady(MyHealth)} :
             w \in PlaybackHealth /\ (w.active => w.retry = "none")
      <4>1. WakeReady(MyHealth) \in PlaybackHealth /\ CalmReport(MyHealth, WakeReady(MyHealth))
        BY <1>0, <1>3, HealthOps, ReportsCalm
      <4>2. WakeReady(MyHealth).active => WakeReady(MyHealth).retry = "none"
        BY <4>1 DEF CalmReport
      <4> QED BY <1>0, <1>3, <4>1, <4>2
    <3> QED BY <1>9, <1>10, <1>11, <3>1, <3>2
  <2> QED BY <1>6, <2>1, <2>2, <2>3
<1>13. CASE StepCheck
  <2>1. UNCHANGED <<slot, live, unowned>>
    BY <1>13 DEF StepCheck
  <2>2. PICK pc \in {"retire", "decide"} :
          /\ proc' = [proc EXCEPT ![S].snap = health'[proc[S].health], ![S].pc = pc]
          /\ pc = "decide" => slot.pipe = NoPipe \/ Keeps(health'[proc[S].health])
    BY <1>13 DEF StepCheck
  <2>3. /\ proc'[S].pc = pc /\ proc'[S].snap = health'[proc[S].health]
        /\ proc'[S].health = proc[S].health /\ \A u \in Users : proc'[u] = proc[u]
    BY <1>0, <2>2 DEF Locals
  <2>4. AttemptsPlain'
    <3>1. health' = health \/ \E p \in Stored :
             health' = [health EXCEPT ![p.health] = RecordFault(@, p.gen, TRUE)]
      BY <1>13 DEF StepCheck
    <3>2. ASSUME NEW p \in Stored,
                 health' = [health EXCEPT ![p.health] = RecordFault(@, p.gen, TRUE)]
          PROVE  AttemptsPlain'
      <4>1. \A e \in Epochs : \/ health'[e] = health[e]
                              \/ health'[e] = RecordFault(health[e], p.gen, TRUE)
        BY <1>0, <3>2
      <4> SUFFICES ASSUME NEW e \in Epochs PROVE health'[e].active => health'[e].retry = "none"
        BY DEF AttemptsPlain
      <4>2. CASE health'[e] = health[e]
        BY <1>2, <4>2
      <4>3. CASE health'[e] = RecordFault(health[e], p.gen, TRUE)
        <5>1. CalmReport(health[e], health'[e])
          BY <1>2, <4>3, ReportsCalm
        <5> QED BY <5>1 DEF CalmReport
      <4> QED BY <4>1, <4>2, <4>3
    <3> QED BY <1>9, <3>1, <3>2
  <2>5. MyHealth' = proc'[S].snap
    BY <2>3 DEF MyHealth
  <2>6. SnapTells'
    BY <2>5 DEF SnapTells
  <2>7. BranchHeld'
    BY <2>1, <2>3, BranchStays
  <2>8. StepKeeps'
    <3>1. slot.rec /\ pc = "decide" => MyHealth'.active
      BY <2>2, <2>3, <2>5 DEF BranchesOwned, Keeps
    <3>2. MyHealth'.active => MyHealth'.retry = "none"
      BY <1>0, <2>3, <2>4 DEF AttemptsPlain, MyHealth
    <3> QED BY <2>1, <2>3, <3>1, <3>2 DEF StepKeeps, Attempting, Deciding, S
  <2> QED BY <2>4, <2>6, <2>7, <2>8
<1>14. CASE Tearing(S)
  <2>1. UNCHANGED <<health, unowned>> /\ proc[S].pc \in {"retire", "teardown"}
    BY <1>14 DEF Tearing, RetirePlayback, Teardown
  <2>2. /\ proc'[S].pc \in {"teardown", "decide"} /\ proc'[S].snap = proc[S].snap
        /\ proc'[S].health = proc[S].health
    <3>1. CASE RetirePlayback(S)
      BY <1>0, <3>1 DEF RetirePlayback, Locals
    <3>2. CASE Teardown(S)
      BY <1>0, <3>2 DEF Teardown, Locals, S
    <3> QED BY <1>14, <3>1, <3>2 DEF Tearing
  <2>3. ~slot'.rec
    BY <1>0, <1>14 DEF Tearing, RetirePlayback, Teardown, Slots, PipelinesOwned, BranchesOwned
  <2>4. AttemptsPlain' /\ MyHealth' = MyHealth
    BY <1>9, <2>1, <2>2 DEF MyHealth
  <2>5. SnapTells'
    BY <2>1, <2>2, <2>4 DEF SnapTells
  <2> QED BY <2>3, <2>4, <2>5 DEF BranchHeld, StepKeeps
<1>15. CASE StepDecide
  <2>1. UNCHANGED <<slot, live, unowned>> /\ proc[S].pc = "decide"
    BY <1>15 DEF StepDecide
  <2>2. PICK planned \in {MyHealth, ScheduleRecovery(MyHealth)} :
          /\ planned = ScheduleRecovery(MyHealth) => ~proc[S].snap.active \/ planned = MyHealth
          /\ \/ Leave(S) /\ UNCHANGED health
             \/ Leave(S) /\ SetHealth(planned)
             \/ planned.retry = "due" /\ SetHealth(BeginAttempt(planned)) /\ Goto(S, "attempt")
    BY <1>15 DEF StepDecide
  <2>3. planned \in PlaybackHealth /\ (planned.active => planned.retry = "none")
    BY <1>0, <1>3, <2>1, <2>2, HealthOps DEF SnapTells, ScheduleRecovery, PlaybackHealth
  <2>4. MyHealth.retry = "none" => planned.retry # "due"
    BY <1>0, <2>2 DEF ScheduleRecovery, PlaybackHealth
  <2>5. CASE Leave(S) /\ (UNCHANGED health \/ SetHealth(planned))
    BY <1>6, <1>8, <1>9, <1>10, <2>1, <2>3, <2>5
  <2>6. CASE planned.retry = "due" /\ SetHealth(BeginAttempt(planned)) /\ Goto(S, "attempt")
    <3>1. BeginAttempt(planned) \in PlaybackHealth /\ BeginAttempt(planned).retry = "none"
      BY <2>3, HealthOps DEF BeginAttempt, PlaybackHealth
    <3>2. AttemptsPlain'
      BY <1>10, <2>6, <3>1
    <3>3. proc'[S].pc = "attempt"
      BY <1>7, <2>6 DEF StepPcs
    <3>4. slot.rec => unowned
      BY <2>1, <2>4, <2>6 DEF StepKeeps, Deciding, S
    <3> QED BY <2>1, <3>2, <3>3, <3>4 DEF SnapTells, BranchHeld, StepKeeps
  <2> QED BY <2>2, <2>5, <2>6
<1>16. CASE StepAttempt \/ StepFinal \/ StepStore
  <2>1. slot'.rec = slot.rec /\ unowned' = unowned /\ Attempting
    BY <1>0, <1>16 DEF StepAttempt, StepFinal, StepStore, Discard, Attempting, Slots
  <2>2. slot.rec => unowned
    BY <2>1 DEF StepKeeps
  <2>3. \/ Leave(S) \/ Goto(S, "store")
        \/ proc' = [proc EXCEPT ![S].pc = "final", ![S].path = PathOf(proc[S].src)]
    BY <1>16 DEF StepAttempt, StepFinal, StepStore, Discard
  <2>4. proc'[S].pc \in {"idle", "store", "final"}
    BY <1>0, <1>7, <1>8, <2>3 DEF StepPcs, Locals
  <2>5. AttemptsPlain'
    <3>1. \/ UNCHANGED health
          \/ \E r \in BOOLEAN : SetHealth(Faulted(r)) \/ SetHealth(ScheduleRecovery(Faulted(r)))
      BY <1>16 DEF StepAttempt, StepFinal, StepStore, Discard
    <3>2. \A r \in BOOLEAN : Faulted(r) \in PlaybackHealth /\ ~Faulted(r).active
      <4>1. Mine.gen = MyHealth.gen
        BY DEF Mine
      <4> QED BY <1>0, <1>3, <4>1, HealthOps, ReportsCalm DEF Faulted
    <3>3. \A r \in BOOLEAN : /\ ScheduleRecovery(Faulted(r)) \in PlaybackHealth
                             /\ ~ScheduleRecovery(Faulted(r)).active
      BY <3>2, HealthOps DEF ScheduleRecovery, PlaybackHealth
    <3> QED BY <1>9, <1>10, <3>1, <3>2, <3>3
  <2> QED BY <2>1, <2>2, <2>4, <2>5 DEF SnapTells, BranchHeld, StepKeeps
<1> QED BY <1>5, <1>12, <1>13, <1>14, <1>15, <1>16 DEF Step

\* Whatever the users, the supervisor and the environment do.
LEMMA RecordingStep == PlaybackInv /\ RecordingInv /\ [Next]_vars => RecordingInv'
<1> SUFFICES ASSUME PlaybackInv, RecordingInv, [Next]_vars PROVE RecordingInv'
  OBVIOUS
<1>1. CASE UNCHANGED vars
  BY <1>1 DEF vars, RecordingInv, AttemptsPlain, SnapTells, BranchHeld, StepKeeps, MyHealth,
        Attempting, Deciding, S
<1> QED BY <1>1, UserRecording, StepRecording, EnvironmentRecording DEF Next

LEMMA RecordingInvariant == Spec => []RecordingInv
  BY InitRecording, RecordingStep, PlaybackInvariant, PTL DEF Spec

\* A recording follows from its parts: at most one branch, on the stored
\* pipeline when nobody is at work on it.
LEMMA RecordingFromInvariant == PlaybackInv /\ RecordingInv => RecordingOwned
<1> SUFFICES ASSUME PlaybackInv, RecordingInv PROVE RecordingOwned
  OBVIOUS
<1> USE DEF PlaybackInv
<1>1. ASSUME lifecycle = Nobody
      PROVE  /\ slot.rec => Stored # {} /\ (unowned \/ \E p \in Stored : p.rec)
             /\ \A p \in live : p.rec => slot.rec /\ p \in Stored
  <2>1. \A t \in Procs : proc[t].pc \notin LockedPcs
    BY <1>1, PlaybackAssumption DEF LockHeld, Procs
  <2>2. \A p \in live : ~Falling(p)
    BY <2>1 DEF LockedPcs, Falling
  <2>3. \A p \in live : p.rec => slot.rec /\ p \in Stored
    BY <2>2 DEF BranchesOwned, Stored
  <2>4. slot.rec => Stored # {}
    BY DEF BranchesOwned, PipelinesOwned, Stored
  <2>5. slot.rec /\ ~unowned => \E p \in Stored : p.rec
    BY <2>1, SupervisorApart DEF RecordingInv, BranchHeld, LockedPcs, Stored
  <2> QED BY <2>3, <2>4, <2>5
<1>2. \A p, q \in {p \in live : p.rec} : p = q
  <2> SUFFICES ASSUME NEW p \in live, NEW q \in live, p.rec, q.rec PROVE p = q
    OBVIOUS
  <2>1. Key(p) = Key(q)
    <3>1. CASE \E t \in Procs : proc[t].pc = "teardown"
      <4>1. PICK t \in Procs : proc[t].pc = "teardown"
        BY <3>1
      <4>2. slot.pipe = NoPipe /\ ~slot.rec
        BY <4>1 DEF PipelinesOwned, BranchesOwned
      <4>3. \A s \in Procs : proc[s].pc = "teardown" => s = t
        BY <4>1 DEF LockHeld, LockedPcs
      <4> QED BY <4>2, <4>3 DEF BranchesOwned, Falling
    <3>2. CASE \A t \in Procs : proc[t].pc # "teardown"
      BY <3>2 DEF BranchesOwned, Falling
    <3> QED BY <3>1, <3>2
  <2> QED BY <2>1 DEF PipelinesOwned
<1>3. Cardinality({p \in live : p.rec}) <= 1
  <2>1. CASE {p \in live : p.rec} = {}
    BY <2>1, FS_EmptySet
  <2>2. ASSUME NEW p \in {p \in live : p.rec} PROVE Cardinality({q \in live : q.rec}) <= 1
    <3>1. {q \in live : q.rec} = {p}
      BY <1>2
    <3>2. Cardinality({p}) = 1
      BY FS_Singleton
    <3>3. Cardinality({q \in live : q.rec}) = 1
      BY <3>1, <3>2, Zenon
    <3> QED BY <3>3
  <2> QED BY <2>1, <2>2
<1> QED BY <1>1, <1>3 DEF RecordingOwned

-----------------------------------------------------------------------------
\* What a returned Stop has stopped stays stopped: the epoch claimed before
\* stop_playback waits, and the lifecycle lock it waits for, leave no intent
\* and no pipeline older than it.
THEOREM StoppedStays == Spec => []StopIsFinal
<1>1. PlaybackInv => StopIsFinal
  BY DEF PlaybackInv
<1> QED BY <1>1, PlaybackInvariant, PTL

\* The UDP port has one claimant.  Whenever nobody is at work on the pipeline a
\* reserved recording is written by the one branch there is, on the stored
\* pipeline: no replacement, fault or late request leaves the slot reserved
\* without its branch but the two that RecordingOwned names.
THEOREM ClaimsAreHeld == Spec => []ClaimsHeld
<1>1. PlaybackInv /\ RecordingInv => ClaimsHeld
  BY RecordingFromInvariant DEF PlaybackInv, ClaimsHeld
<1> QED BY <1>1, PlaybackInvariant, RecordingInvariant, PTL

-----------------------------------------------------------------------------
(***************************************************************************)
(* The video surface                                                       *)
(***************************************************************************)

\* At the handle of the surface in use lives its own window or none: this is
\* what makes the incarnation in a token tell the truth about its handle.
OwnHandle ==
  current # None =>
    windows[current.hwnd] \in {0, current.generation}

SurfaceInv == SurfaceTypeOK /\ SurfaceIntact /\ OwnHandle /\ MovesOwn

-----------------------------------------------------------------------------
\* None is no token.
LEMMA NoneIsNoToken == None \notin Tokens
  BY SurfaceAssumption DEF Tokens

\* The steps of the specification keep every variable in its type.
LEMMA TypeStep == SurfaceTypeOK /\ [SurfaceNext]_surfaceVars => SurfaceTypeOK'
<1> SUFFICES ASSUME SurfaceTypeOK, [SurfaceNext]_surfaceVars PROVE SurfaceTypeOK'
  OBVIOUS
<1> USE NoneIsNoToken DEF SurfaceTypeOK
<1>1. CASE Create
  <2>1. [do |-> "create", token |-> None] \in Work
    BY DEF Work
  <2>2. queue' \in Seq(Work)
    BY <1>1, <2>1 DEF Create, Enqueue
  <2> QED BY <1>1, <2>2 DEF Create
<1>2. ASSUME NEW c \in Callers, Capture(c) PROVE SurfaceTypeOK'
  BY <1>2 DEF Capture
<1>3. ASSUME NEW c \in Callers, Release(c) PROVE SurfaceTypeOK'
  <2>1. caller[c] \in Tokens
    BY <1>3 DEF Release
  <2>2. [do |-> "destroy", token |-> caller[c]] \in Work
    BY <2>1 DEF Work
  <2> DEFINE w == [do |-> "destroy", token |-> caller[c]]
  <2>3. queue' = queue \/ queue' = Append(queue, w)
    BY <1>3 DEF Release, Enqueue
  <2>4. w \in Work /\ queue \in Seq(Work)
    BY <2>2
  <2> HIDE DEF w
  <2>5. queue' \in Seq(Work)
    BY <2>3, <2>4, SMTT(30)
  <2>6. lost' \subseteq Nat
    BY <1>3, <2>1 DEF Release, Tokens
  <2> QED BY <1>3, <2>5, <2>6 DEF Release
<1>4. ASSUME NEW c \in Callers, Keep(c) PROVE SurfaceTypeOK'
  BY <1>4 DEF Keep
<1>5. ASSUME NEW c \in Callers, Move(c) PROVE SurfaceTypeOK'
  <2>1. [do |-> "move", token |-> caller[c]] \in Work
    BY <1>5 DEF Move, Work
  <2>2. queue' \in Seq(Work)
    BY <1>5, <2>1 DEF Move, Enqueue
  <2> QED BY <1>5, <2>2 DEF Move
<1>6. CASE RunCreate
  <2>1. queue' \in Seq(Work)
    BY <1>6 DEF RunCreate, Created
  <2>2. Cleaned \in [Hwnds -> Nat]
    BY DEF Cleaned, Tokens
  <2>3. current' \in Tokens \cup {None} /\ windows' \in [Hwnds -> Nat] /\ generation' \in Nat
    BY <1>6, <2>2 DEF RunCreate, Created, Tokens
  <2> QED BY <1>6, <2>1, <2>3 DEF RunCreate, Created
<1>7. CASE RunDestroy
  <2>1. queue' \in Seq(Work)
    BY <1>7 DEF RunDestroy
  <2>2. windows' \in [Hwnds -> Nat]
    BY <1>7 DEF RunDestroy
  <2> QED BY <1>7, <2>1, <2>2 DEF RunDestroy
<1>8. CASE RunMove
  <2>1. queue' \in Seq(Work)
    BY <1>8 DEF RunMove
  <2>2. Head(queue) \in Work
    BY <1>8 DEF RunMove
  <2>3. Head(queue).token \in Tokens
    BY <1>8, <2>2 DEF RunMove, Work
  <2>4. moved' \in [token : Tokens \cup {None}, window : Nat]
    BY <1>8, <2>3 DEF RunMove, Tokens
  <2> QED BY <1>8, <2>1, <2>4 DEF RunMove
<1>9. ASSUME NEW h \in Hwnds, WindowDies(h) PROVE SurfaceTypeOK'
  BY <1>9 DEF WindowDies
<1>10. CASE UNCHANGED surfaceVars
  BY <1>10 DEF surfaceVars
<1> QED BY <1>1, <1>2, <1>3, <1>4, <1>5, <1>6, <1>7, <1>8, <1>9, <1>10 DEF SurfaceNext

\* The inductive step: each action keeps the window in use and what the last
\* move touched.
LEMMA SurfaceStep == SurfaceInv /\ [SurfaceNext]_surfaceVars => SurfaceInv'
<1> SUFFICES ASSUME SurfaceInv, [SurfaceNext]_surfaceVars PROVE SurfaceInv'
  OBVIOUS
<1> USE NoneIsNoToken
<1>0. SurfaceTypeOK /\ SurfaceTypeOK'
  BY TypeStep DEF SurfaceInv
<1> SUFFICES SurfaceIntact' /\ OwnHandle' /\ MovesOwn'
  BY <1>0 DEF SurfaceInv
<1>1. CASE Create
  BY <1>1 DEF Create, SurfaceInv, SurfaceIntact, OwnHandle, MovesOwn
<1>2. ASSUME NEW c \in Callers, Capture(c) \/ Keep(c) \/ Move(c)
      PROVE SurfaceIntact' /\ OwnHandle' /\ MovesOwn'
  BY <1>2 DEF Capture, Keep, Move, SurfaceInv, SurfaceIntact, OwnHandle, MovesOwn
<1>3. ASSUME NEW c \in Callers, Release(c)
      PROVE SurfaceIntact' /\ OwnHandle' /\ MovesOwn'
  BY <1>3 DEF Release, SurfaceInv, SurfaceIntact, OwnHandle, MovesOwn
<1>4. CASE RunCreate
  <2>1. MovesOwn'
    BY <1>4 DEF RunCreate, SurfaceInv, MovesOwn
  <2>2. CASE current' = None
    BY <2>1, <2>2 DEF SurfaceIntact, OwnHandle
  <2>3. CASE current' # None
    <3>1. PICK h \in Hwnds :
            /\ windows' = [Cleaned EXCEPT ![h] = generation + 1]
            /\ current' = [hwnd |-> h, generation |-> generation + 1]
      BY <1>4, <2>3 DEF RunCreate, Created
    <3>2. Cleaned \in [Hwnds -> Nat]
      BY <1>0 DEF SurfaceTypeOK, Cleaned, Tokens
    <3>3. windows'[current'.hwnd] = current'.generation
      BY <3>1, <3>2
    <3> QED BY <2>1, <3>3 DEF SurfaceIntact, OwnHandle
  <2> QED BY <2>2, <2>3
<1>5. CASE RunDestroy
  <2>1. current' = current /\ moved' = moved /\ died' = died
    BY <1>5 DEF RunDestroy
  <2>2. ASSUME current # None PROVE windows'[current.hwnd] = windows[current.hwnd]
    <3>1. current.hwnd \in Hwnds
      BY <1>0, <2>2 DEF SurfaceTypeOK, Tokens
    <3> QED BY <1>0, <1>5, <2>2, <3>1 DEF RunDestroy, Recycled, SurfaceTypeOK
  <2> QED BY <2>1, <2>2 DEF SurfaceInv, SurfaceIntact, OwnHandle, MovesOwn
<1>6. CASE RunMove
  <2> DEFINE t == Head(queue).token
  <2>1. current' = current /\ windows' = windows /\ died' = died
    BY <1>6 DEF RunMove
  <2>2. moved' = moved \/ (current = t /\ moved' = [token |-> t, window |-> windows[t.hwnd]])
    BY <1>6 DEF RunMove, SameSurface
  <2>3. MovesOwn'
    BY <2>2 DEF SurfaceInv, OwnHandle, MovesOwn
  <2> QED BY <2>1, <2>3 DEF SurfaceInv, SurfaceIntact, OwnHandle
<1>7. ASSUME NEW h \in Hwnds, WindowDies(h)
      PROVE SurfaceIntact' /\ OwnHandle' /\ MovesOwn'
  <2>1. current' = current /\ moved' = moved
    BY <1>7 DEF WindowDies
  <2>2. ASSUME current # None
        PROVE /\ windows'[current.hwnd] \in {0, current.generation}
              /\ current.generation \notin died' =>
                   windows'[current.hwnd] = current.generation
    <3>1. current.hwnd \in Hwnds
      BY <1>0, <2>2 DEF SurfaceTypeOK, Tokens
    <3>2. CASE current.hwnd = h
      BY <1>0, <1>7, <2>2, <3>2 DEF WindowDies, SurfaceTypeOK, SurfaceInv, SurfaceIntact
    <3>3. CASE current.hwnd # h
      BY <1>0, <1>7, <2>2, <3>1, <3>3
         DEF WindowDies, SurfaceTypeOK, SurfaceInv, SurfaceIntact, OwnHandle
    <3> QED BY <3>2, <3>3
  <2> QED BY <2>1, <2>2 DEF SurfaceInv, SurfaceIntact, OwnHandle, MovesOwn
<1>8. CASE UNCHANGED surfaceVars
  BY <1>8 DEF surfaceVars, SurfaceInv, SurfaceIntact, OwnHandle, MovesOwn
<1> QED BY <1>1, <1>2, <1>3, <1>4, <1>5, <1>6, <1>7, <1>8 DEF SurfaceNext

LEMMA SurfaceInitInv == SurfaceInit => SurfaceInv
  BY NoneIsNoToken DEF SurfaceInit, SurfaceInv, SurfaceTypeOK, SurfaceIntact, OwnHandle, MovesOwn

\* The window in use is never destroyed by work queued for another one: the
\* check of the handle in release's closure is enough.
THEOREM SurfaceStaysIntact == SurfaceSpec => []SurfaceIntact
<1>1. SurfaceInv => SurfaceIntact
  BY DEF SurfaceInv
<1> QED BY <1>1, SurfaceInitInv, SurfaceStep, PTL DEF SurfaceSpec

\* No queued move or show touches the window of another incarnation.
THEOREM MovesStayOwn == SurfaceSpec => []MovesOwn
<1>1. SurfaceInv => MovesOwn
  BY DEF SurfaceInv
<1> QED BY <1>1, SurfaceInitInv, SurfaceStep, PTL DEF SurfaceSpec

-----------------------------------------------------------------------------
\* A destruction queued for handle h.
Due(q, h) == \E i \in 1..Len(q) : q[i].do = "destroy" /\ q[i].token.hwnd = h

\* A closure added to the queue leaves the destructions that were due.
LEMMA DueAppend ==
  ASSUME NEW q \in Seq(Work), NEW w \in Work, NEW h, Due(q, h)
  PROVE  Due(Append(q, w), h)
  BY DEF Due

\* A destruction just queued is due.
LEMMA DueQueued ==
  ASSUME NEW q \in Seq(Work), NEW w \in Work, w.do = "destroy"
  PROVE  Due(Append(q, w), w.token.hwnd)
  BY DEF Due

\* Running the first closure leaves the destructions that are due, but for its
\* own.
LEMMA DueTail ==
  ASSUME NEW q \in Seq(Work), q # <<>>, NEW h, Due(q, h),
         ~(Head(q).do = "destroy" /\ Head(q).token.hwnd = h)
  PROVE  Due(Tail(q), h)
<1>1. PICK i \in 1..Len(q) : q[i].do = "destroy" /\ q[i].token.hwnd = h
  BY DEF Due
<1>2. i # 1
  BY <1>1
<1>3. i - 1 \in 1..Len(Tail(q)) /\ Tail(q)[i - 1] = q[i]
  BY <1>2
<1> QED BY <1>1, <1>3 DEF Due

\* Incarnations are numbered upwards, and that of the surface in use lives at
\* no other handle.
Numbered ==
  /\ \A h \in Hwnds : windows[h] <= generation
  /\ current # None =>
       /\ current.generation \in 1..generation
       /\ \A h \in Hwnds : windows[h] = current.generation => h = current.hwnd

LEMMA NumberedStep == SurfaceTypeOK /\ Numbered /\ [SurfaceNext]_surfaceVars => Numbered'
<1> SUFFICES ASSUME SurfaceTypeOK, Numbered, [SurfaceNext]_surfaceVars PROVE Numbered'
  OBVIOUS
<1> USE NoneIsNoToken
<1>1. CASE Create
  BY <1>1 DEF Create, Numbered
<1>2. ASSUME NEW c \in Callers, Capture(c) \/ Keep(c) \/ Move(c) PROVE Numbered'
  BY <1>2 DEF Capture, Keep, Move, Numbered
<1>3. ASSUME NEW c \in Callers, Release(c) PROVE Numbered'
  BY <1>3 DEF Release, Numbered
<1>4. CASE RunCreate
  <2>1. Cleaned \in [Hwnds -> Nat] /\ \A h \in Hwnds : Cleaned[h] <= generation
    BY DEF SurfaceTypeOK, Cleaned, Tokens, Numbered
  <2>2. CASE windows' = Cleaned /\ current' = None /\ generation' = generation
    BY <2>1, <2>2 DEF Numbered
  <2>3. ASSUME NEW k \in Hwnds,
               windows' = [Cleaned EXCEPT ![k] = generation + 1],
               current' = [hwnd |-> k, generation |-> generation + 1],
               generation' = generation + 1
        PROVE  Numbered'
    <3>1. \A h \in Hwnds : h # k => windows'[h] <= generation
      BY <2>1, <2>3
    <3>2. windows'[k] = generation + 1
      BY <2>1, <2>3
    <3>3. windows' \in [Hwnds -> Nat] /\ generation \in Nat
      BY <2>1, <2>3 DEF SurfaceTypeOK
    <3> QED BY <2>3, <3>1, <3>2, <3>3 DEF Numbered
  <2> QED BY <1>4, <2>2, <2>3 DEF RunCreate, Created
<1>5. CASE RunDestroy
  <2>1. \A h \in Hwnds : windows'[h] \in {0, windows[h]}
    BY <1>5 DEF RunDestroy, SurfaceTypeOK
  <2>2. current' = current /\ generation' = generation
    BY <1>5 DEF RunDestroy
  <2> QED BY <2>1, <2>2 DEF Numbered, SurfaceTypeOK
<1>6. CASE RunMove
  BY <1>6 DEF RunMove, Numbered
<1>7. ASSUME NEW k \in Hwnds, WindowDies(k) PROVE Numbered'
  <2>1. \A h \in Hwnds : windows'[h] \in {0, windows[h]}
    BY <1>7 DEF WindowDies, SurfaceTypeOK
  <2>2. current' = current /\ generation' = generation
    BY <1>7 DEF WindowDies
  <2> QED BY <2>1, <2>2 DEF Numbered, SurfaceTypeOK
<1>8. CASE UNCHANGED surfaceVars
  BY <1>8 DEF surfaceVars, Numbered
<1> QED BY <1>1, <1>2, <1>3, <1>4, <1>5, <1>6, <1>7, <1>8 DEF SurfaceNext

\* What NoWindowLeaks says of one handle.
Accounted(h) ==
  \/ windows[h] \in {0} \cup lost
  \/ current # None /\ current.generation = windows[h]
  \/ Due(queue, h)

LEMMA LeaksMeansAccounted == NoWindowLeaks <=> \A h \in Hwnds : Accounted(h)
  BY DEF NoWindowLeaks, Accounted, Due

\* The inductive step.  The window of the surface in use lives at its handle
\* and nowhere else, so releasing or replacing the surface accounts for it.
LEMMA LeakStep ==
  SurfaceInv /\ Numbered /\ NoWindowLeaks /\ [SurfaceNext]_surfaceVars => NoWindowLeaks'
<1> SUFFICES ASSUME SurfaceInv, Numbered, NoWindowLeaks, [SurfaceNext]_surfaceVars,
                    NEW h \in Hwnds
             PROVE  Accounted(h)'
  BY DEF NoWindowLeaks, Accounted, Due
<1> USE NoneIsNoToken
<1>0. SurfaceTypeOK /\ SurfaceTypeOK'
  BY TypeStep DEF SurfaceInv
<1>a. Accounted(h)
  BY LeaksMeansAccounted
<1>1. CASE Create
  <2>1. [do |-> "create", token |-> None] \in Work
    BY DEF Work
  <2>2. Due(queue, h) => Due(queue', h)
    BY <1>0, <1>1, <2>1, DueAppend DEF Create, Enqueue, SurfaceTypeOK
  <2> QED BY <1>a, <1>1, <2>2 DEF Create, Accounted
<1>2. ASSUME NEW c \in Callers, Capture(c) \/ Keep(c) PROVE Accounted(h)'
  BY <1>a, <1>2 DEF Capture, Keep, Accounted
<1>3. ASSUME NEW c \in Callers, Move(c) PROVE Accounted(h)'
  <2>1. [do |-> "move", token |-> caller[c]] \in Work
    BY <1>0, <1>3 DEF Move, Work, SurfaceTypeOK
  <2>2. Due(queue, h) => Due(queue', h)
    BY <1>0, <1>3, <2>1, DueAppend DEF Move, Enqueue, SurfaceTypeOK
  <2> QED BY <1>a, <1>3, <2>2 DEF Move, Accounted
<1>4. ASSUME NEW c \in Callers, Release(c) PROVE Accounted(h)'
  <2> DEFINE w == [do |-> "destroy", token |-> caller[c]]
  <2>1. caller[c] \in Tokens
    BY <1>0, <1>4 DEF Release, SurfaceTypeOK
  <2>2. w \in Work /\ w.do = "destroy" /\ w.token = caller[c]
    BY <2>1 DEF Work
  <2>3. windows' = windows
    BY <1>4 DEF Release
  <2>4. CASE UNCHANGED <<current, queue, lost>>
    BY <1>a, <2>3, <2>4 DEF Accounted
  <2>5. CASE current = caller[c] /\ queue' = Append(queue, w) /\ lost' = lost
    <3> HIDE DEF w
    <3>1. Due(queue, h) => Due(queue', h)
      BY <1>0, <2>2, <2>5, DueAppend DEF SurfaceTypeOK
    <3>2. Due(queue', current.hwnd)
      BY <1>0, <2>2, <2>5, DueQueued DEF SurfaceTypeOK
    <3>3. current # None /\ current.generation = windows[h] => h = current.hwnd
      BY DEF Numbered
    <3> QED BY <1>a, <2>3, <2>5, <3>1, <3>2, <3>3 DEF Accounted
  <2>6. CASE current = caller[c] /\ lost' = lost \cup {caller[c].generation}
             /\ queue' = queue
    BY <1>a, <2>3, <2>6 DEF Accounted
  <2> QED BY <1>4, <2>4, <2>5, <2>6 DEF Release, Releases, Enqueue
<1>5. CASE RunCreate
  <2>1. Due(queue, h) => Due(queue', h)
    BY <1>0, <1>5, DueTail DEF RunCreate, SurfaceTypeOK
  <2>2. lost' = lost
    BY <1>5 DEF RunCreate, Created
  <2>3. Cleaned \in [Hwnds -> Nat] /\ Cleaned[h] \in {0, windows[h]}
    BY <1>0 DEF SurfaceTypeOK, Cleaned, Tokens
  <2>4. current # None /\ current.generation = windows[h] => Cleaned[h] = 0
    BY <1>0 DEF Numbered, SurfaceTypeOK, Cleaned, Tokens
  <2>5. CASE windows' = Cleaned /\ current' = None
    BY <1>a, <2>1, <2>2, <2>3, <2>5, <2>4 DEF Accounted
  <2>6. ASSUME NEW k \in Hwnds,
               windows' = [Cleaned EXCEPT ![k] = generation + 1],
               current' = [hwnd |-> k, generation |-> generation + 1]
        PROVE  Accounted(h)'
    <3>1. windows'[h] = IF h = k THEN generation + 1 ELSE Cleaned[h]
      BY <2>3, <2>6
    <3>2. current' # None
      BY <2>6, <1>0 DEF SurfaceTypeOK, Tokens
    <3> QED BY <1>a, <2>1, <2>2, <2>3, <2>6, <2>4, <3>1, <3>2 DEF Accounted
  <2> QED BY <1>5, <2>5, <2>6 DEF RunCreate, Created
<1>6. CASE RunDestroy
  <2> DEFINE t == Head(queue).token
  <2>1. current' = current /\ lost' = lost
    BY <1>6 DEF RunDestroy
  <2>2. CASE t.hwnd # h
    <3>1. Due(queue, h) => Due(queue', h)
      BY <1>0, <1>6, <2>2, DueTail DEF RunDestroy, SurfaceTypeOK
    <3>2. windows'[h] = windows[h]
      BY <1>0, <1>6, <2>2 DEF RunDestroy, SurfaceTypeOK
    <3> QED BY <1>a, <2>1, <3>1, <3>2 DEF Accounted
  <2>3. CASE t.hwnd = h
    <3>1. CASE Recycled(t)
      <4>1. windows' = windows
        BY <1>6, <3>1 DEF RunDestroy
      <4>2. windows[h] \in {0, current.generation}
        BY <2>3, <3>1 DEF Recycled, SurfaceInv, OwnHandle
      <4> QED BY <2>1, <3>1, <4>1, <4>2 DEF Accounted, Recycled
    <3>2. CASE ~Recycled(t)
      BY <1>0, <1>6, <2>3, <3>2 DEF RunDestroy, SurfaceTypeOK, Accounted
    <3> QED BY <3>1, <3>2
  <2> QED BY <2>2, <2>3
<1>7. CASE RunMove
  <2>1. Due(queue, h) => Due(queue', h)
    BY <1>0, <1>7, DueTail DEF RunMove, SurfaceTypeOK
  <2> QED BY <1>a, <1>7, <2>1 DEF RunMove, Accounted
<1>8. ASSUME NEW k \in Hwnds, WindowDies(k) PROVE Accounted(h)'
  <2>1. windows'[h] \in {0, windows[h]}
    BY <1>0, <1>8 DEF WindowDies, SurfaceTypeOK
  <2> QED BY <1>a, <1>8, <2>1 DEF WindowDies, Accounted
<1>9. CASE UNCHANGED surfaceVars
  BY <1>a, <1>9 DEF surfaceVars, Accounted
<1> QED BY <1>1, <1>2, <1>3, <1>4, <1>5, <1>6, <1>7, <1>8, <1>9 DEF SurfaceNext

\* No window is forgotten: replaced, released or failed over, each is
\* destroyed or due for it, unless the main thread refused the work.
THEOREM WindowsAccountedFor == SurfaceSpec => []NoWindowLeaks
<1>1. SurfaceInit => NoWindowLeaks
  BY DEF SurfaceInit, NoWindowLeaks
<1>2. SurfaceInit => Numbered
  BY DEF SurfaceInit, Numbered
<1>3. SurfaceInv /\ Numbered /\ NoWindowLeaks /\ [SurfaceNext]_surfaceVars
        => (SurfaceInv /\ Numbered /\ NoWindowLeaks)'
  <2>1. SurfaceInv => SurfaceTypeOK
    BY DEF SurfaceInv
  <2> QED BY <2>1, SurfaceStep, NumberedStep, LeakStep
<1> QED BY <1>1, <1>2, <1>3, SurfaceInitInv, PTL DEF SurfaceSpec
=============================================================================
