-------------------------- MODULE RelayMediaProofs --------------------------
(***************************************************************************)
(* One relay generation, for any number of clients, listener instances,    *)
(* ticks and troubles: what was retired stays retired, silence is noticed  *)
(* and the backoff's reset is earned.  MediaInv adds what ties the pieces  *)
(* together: the listener and the probe belong to the record's instance,   *)
(* an accepted fault leaves no active data generation, and, while the      *)
(* supervisor is awake, the record's timers agree with the delivery.       *)
(***************************************************************************)
EXTENDS RelayMedia, TLAPS

Pcs == {"idle", "accept", "retire", "schedule", "backoff", "build", "bound"}
Awake == {"idle", "accept", "bound"}
Rebuilding == {"schedule", "backoff", "build"}

MediaEvents == {RetryEvent} \cup {FaultEvent(f) : f \in Faults}

\* Types, and that every pipeline belongs to an instance begun and was given a
\* data generation.
Typed ==
    /\ h \in Health /\ h.inst # 0
    /\ listener \in [inst : Nat, loop : BOOLEAN]
    /\ probe \in [1..h.inst -> [data : Nat, playing : BOOLEAN]]
    /\ media \subseteq [inst : 1..h.inst, data : Nat \ {0}]
    /\ conf \in [inst : 0..h.inst, data : Nat]
    /\ conf.data # 0 => conf.inst # 0
    /\ events \in Seq(MediaEvents) /\ sup \in [pc : Pcs, ev : MediaEvents]
    /\ now \in Nat /\ flow \in [from : Int, last : Int] /\ flow.from <= now
    /\ polled \in BOOLEAN /\ fatal \in BOOLEAN

\* A listener is the newest instance; while the supervisor rebuilds there is none.
ListenerCurrent ==
    /\ listener.loop => listener.inst = h.inst
    /\ listener.inst \in {0, h.inst}
    /\ sup.pc \in Rebuilding => listener = NoServer

\* Until a fault is recorded the probe of the newest instance names the record's
\* active data generation, and a client that plays has armed it.
ProbeTrue ==
    /\ \A i \in 1..h.inst : probe[i].playing => probe[i].data # 0
    /\ ~Faulted(h) => /\ probe[h.inst].data # 0 => h.active = probe[h.inst].data
                      /\ probe[h.inst].playing => h.armed # Never \/ h.last # Never

\* An accepted fault ends the media that failed, and a permanent one ends the
\* generation.
Retired ==
    /\ sup.pc \in {"retire"} \cup Rebuilding /\ sup.ev.kind = "fault" => h.active = 0
    /\ sup.pc = "retire" /\ sup.ev.kind = "fault" => Faulted(h)
    /\ fatal => /\ PermanentFailure(h) /\ h.state = "Failed"
                /\ sup.pc \in {"idle", "accept", "retire"}

\* The healthy window began no earlier than the uninterrupted delivery.  (After a
\* permanent fault the supervisor may wake up with an older window: the state is
\* then Failed for good.)
FlowTrue ==
    sup.pc \in Awake /\ h.healthy # Never /\ ~(Faulted(h) /\ h.state = "Failed") =>
        flow.last # Never /\ flow.from <= h.healthy

\* A healthy window is open only while the last buffer is less than a stall
\* window old at every poll.
Recent ==
    sup.pc \in Awake /\ h.healthy # Never /\ ~Faulted(h) =>
        /\ h.active # 0 /\ h.last # Never /\ flow.last = h.last /\ ~h.warned
        /\ now - h.last < 2
        /\ polled => now - h.last < 1

\* At a poll no deadline of the active media is overdue.
Polled ==
    sup.pc \in Awake /\ polled /\ ~Faulted(h) /\ h.active # 0 =>
        /\ h.last # Never => now - h.last < StallConfirmation
        /\ h.last = Never /\ h.armed # Never => now - h.armed < FirstBufferTimeout

Timers == Ingest = "rtsp" => FlowTrue /\ Recent /\ Polled

MediaInv == Typed /\ ListenerCurrent /\ ProbeTrue /\ Retired /\ Timers

(***************************************************************************)
(* The health record's methods                                             *)
(***************************************************************************)

\* y is x but for its state, fault, loop and counters.
SameMedia(x, y) ==
    /\ y.inst = x.inst /\ y.data = x.data /\ y.active = x.active /\ y.armed = x.armed
    /\ y.last = x.last /\ y.healthy = x.healthy /\ y.warned = x.warned

\* y is x but for its first-buffer deadline and its state.
SameButArmed(x, y) ==
    /\ y.inst = x.inst /\ y.active = x.active /\ y.last = x.last /\ y.healthy = x.healthy
    /\ y.warned = x.warned /\ y.fault = x.fault /\ y.attempt = x.attempt

Cleared(y) == y.active = 0 /\ y.armed = Never /\ y.last = Never /\ y.healthy = Never

LEMMA FieldTypes ==
    ASSUME NEW x \in Health
    PROVE  /\ x.inst \in Nat /\ x.data \in Nat /\ x.active \in Nat /\ x.attempt \in Nat
           /\ x.armed \in Int /\ x.last \in Int /\ x.healthy \in Int
           /\ x.state \in States /\ x.fault \in Faults /\ x.bindFailures \in Nat
BY DEF Health

LEMMA ClearFields ==
    ASSUME NEW x \in Health
    PROVE  /\ Clear(x) \in Health /\ Cleared(Clear(x)) /\ Clear(x).inst = x.inst
           /\ Clear(x).fault = x.fault /\ Clear(x).data = x.data
           /\ Clear(x).state = x.state /\ Clear(x).attempt = x.attempt
<1>1. Never \in Int /\ 0 \in Nat /\ FALSE \in BOOLEAN
  BY DEF Never
<1>2. Clear(x) \in Health
  BY <1>1, Zenon DEF Clear, Health
<1> QED BY <1>2 DEF Clear, Health, Cleared

\* A new instance starts without media and without a fault.
LEMMA BeginInstance ==
    ASSUME NEW x \in Health, NEW r \in BOOLEAN
    PROVE  /\ BeginServerInstance(x, r) \in Health
           /\ BeginServerInstance(x, r).inst = x.inst + 1
           /\ ~Faulted(BeginServerInstance(x, r))
           /\ Cleared(BeginServerInstance(x, r))
           /\ BeginServerInstance(x, r).state # "Streaming"
           /\ BeginServerInstance(x, r).attempt = x.attempt
<1> DEFINE y == Clear(x)
<1>1. y \in Health /\ y.inst = x.inst /\ Cleared(y) /\ y.attempt = x.attempt
  BY ClearFields
<1> HIDE DEF y
<1>2. BeginServerInstance(x, r) =
        [y EXCEPT !.inst = y.inst + 1, !.fault = NoFault, !.alive = FALSE,
                  !.state = IF r THEN "Recovering" ELSE "Starting"]
  BY DEF BeginServerInstance, y
<1>3. /\ y.inst + 1 \in Nat /\ NoFault \in Faults /\ FALSE \in BOOLEAN
      /\ (IF r THEN "Recovering" ELSE "Starting") \in States
  BY <1>1 DEF Health, Faults, States
<1>4. BeginServerInstance(x, r) \in Health
  BY <1>1, <1>2, <1>3, Zenon DEF Health
<1> QED BY <1>1, <1>2, <1>4 DEF Health, Faulted, Cleared

\* A new data generation of an instance without a fault.
LEMMA BeginData ==
    ASSUME NEW x \in Health, NEW i, MayBeginData(x, i)
    PROVE  /\ BeginDataGeneration(x, i) \in Health
           /\ BeginDataGeneration(x, i).inst = x.inst
           /\ BeginDataGeneration(x, i).fault = x.fault
           /\ BeginDataGeneration(x, i).attempt = x.attempt
           /\ BeginDataGeneration(x, i).state = "Starting"
           /\ BeginDataGeneration(x, i).active = BeginDataGeneration(x, i).data
           /\ BeginDataGeneration(x, i).data \in Nat \ {0}
           /\ BeginDataGeneration(x, i).armed = Never
           /\ BeginDataGeneration(x, i).last = Never
           /\ BeginDataGeneration(x, i).healthy = Never
<1> DEFINE y == Clear(x)
<1>1. /\ y \in Health /\ y.inst = x.inst /\ y.fault = x.fault /\ y.data = x.data
      /\ Cleared(y) /\ y.attempt = x.attempt
  BY ClearFields
<1> HIDE DEF y
<1>2. BeginDataGeneration(x, i) =
        [y EXCEPT !.data = y.data + 1, !.active = x.data + 1, !.state = "Starting"]
  BY DEF BeginDataGeneration, y
<1>3. y.data + 1 \in Nat /\ x.data + 1 \in Nat /\ x.data \in Nat /\ "Starting" \in States
  BY <1>1, FieldTypes DEF States
<1>4. BeginDataGeneration(x, i) \in Health
  BY <1>1, <1>2, <1>3, Zenon DEF Health
<1> QED BY <1>1, <1>2, <1>3, <1>4 DEF Health, Cleared

LEMMA EndData ==
    ASSUME NEW x \in Health, NEW i, NEW d
    PROVE  /\ EndDataGeneration(x, i, d) \in Health
           /\ EndDataGeneration(x, i, d).inst = x.inst
           /\ EndDataGeneration(x, i, d).fault = x.fault
           /\ EndDataGeneration(x, i, d).attempt = x.attempt
           /\ IF IsCurrentData(x, i, d) THEN Cleared(EndDataGeneration(x, i, d))
              ELSE EndDataGeneration(x, i, d) = x
           /\ EndDataGeneration(x, i, d).state \in {x.state, "Listening"}
<1> DEFINE y == Clear(x)
<1>1. /\ y \in Health /\ y.inst = x.inst /\ y.fault = x.fault /\ Cleared(y)
      /\ y.attempt = x.attempt /\ y.state = x.state
  BY ClearFields
<1> HIDE DEF y
<1>2. EndDataGeneration(x, i, d) =
        IF IsCurrentData(x, i, d)
        THEN [y EXCEPT !.state = IF y.state \notin {"Recovering", "Failed"} /\ x.alive
                                 THEN "Listening" ELSE y.state]
        ELSE x
  BY DEF EndDataGeneration, y
<1>3. y.state \in States /\ "Listening" \in States
  BY <1>1 DEF Health, States
<1> QED BY <1>1, <1>2, <1>3 DEF Health, Cleared

LEMMA BuildFailed ==
    ASSUME NEW x \in Health, NEW i, NEW b \in BOOLEAN
    PROVE  /\ MarkBuildFailed(x, i, b) \in Health
           /\ SameMedia(x, MarkBuildFailed(x, i, b))
           /\ MarkBuildFailed(x, i, b).fault = x.fault
           /\ MarkBuildFailed(x, i, b).attempt = x.attempt
           /\ MarkBuildFailed(x, i, b).state \in {x.state, "Failed"}
<1>1. "Failed" \in States /\ x.bindFailures + 1 \in Nat /\ 0 \in Nat /\ FALSE \in BOOLEAN
  BY FieldTypes DEF States
<1>2. MarkBuildFailed(x, i, b) \in Health
  BY <1>1, Zenon DEF MarkBuildFailed, Health
<1> QED BY <1>2 DEF MarkBuildFailed, Health, SameMedia

LEMMA ListenerBound ==
    ASSUME NEW x \in Health, NEW i
    PROVE  /\ MarkListenerBound(x, i) \in Health
           /\ SameMedia(x, MarkListenerBound(x, i))
           /\ MarkListenerBound(x, i).fault = x.fault
           /\ MarkListenerBound(x, i).attempt = x.attempt
           /\ MarkListenerBound(x, i).state \in {x.state, "Listening"}
           /\ Faulted(x) => MarkListenerBound(x, i).state = x.state
<1>1. "Listening" \in States /\ 0 \in Nat /\ x.state \in States
  BY FieldTypes DEF States
<1>2. MarkListenerBound(x, i) \in Health
  BY <1>1, Zenon DEF MarkListenerBound, Health
<1> QED BY <1>2 DEF MarkListenerBound, Health, SameMedia

LEMMA LoopRuns ==
    ASSUME NEW x \in Health, NEW i
    PROVE  /\ LoopStarted(x, i) \in Health
           /\ SameMedia(x, LoopStarted(x, i))
           /\ LoopStarted(x, i).fault = x.fault
           /\ LoopStarted(x, i).attempt = x.attempt
           /\ LoopStarted(x, i).state = x.state
<1>1. (x.alive \/ x.inst = i) \in BOOLEAN
  OBVIOUS
<1> QED BY <1>1 DEF LoopStarted, Health, SameMedia

\* The supervisor's own marks: the next attempt, its state and its failure.
LEMMA Marks ==
    ASSUME NEW x \in Health,
           NEW y \in {ScheduleRecoveryAttempt(x), MarkRecoveryInProgress(x),
                      MarkResolutionFailed(x), ForceMaxBackoff(x)}
    PROVE  /\ y \in Health /\ SameMedia(x, y) /\ y.fault = x.fault
           /\ y.attempt >= x.attempt
           /\ y.state \in {x.state, "Recovering", "Failed"}
<1>1. /\ x.attempt \in Nat /\ {"Recovering", "Failed"} \subseteq States
      /\ FALSE \in BOOLEAN /\ x.attempt + 1 \in Nat /\ RecoveryStages \in Nat
      /\ (IF x.attempt < RecoveryStages THEN RecoveryStages ELSE x.attempt) \in Nat
  BY FieldTypes DEF States, RecoveryStages
<1>2. CASE y = ScheduleRecoveryAttempt(x)
  BY <1>1, <1>2 DEF ScheduleRecoveryAttempt, Health, SameMedia
<1>3. CASE y = MarkRecoveryInProgress(x)
  BY <1>1, <1>3 DEF MarkRecoveryInProgress, Health, SameMedia
<1>4. CASE y = MarkResolutionFailed(x)
  <2>1. y \in Health
    BY <1>1, <1>4, Zenon DEF MarkResolutionFailed, Health
  <2> QED BY <1>1, <1>4, <2>1 DEF MarkResolutionFailed, Health, SameMedia
<1>5. CASE y = ForceMaxBackoff(x)
  <2>1. y \in Health
    BY <1>1, <1>5, Zenon DEF ForceMaxBackoff, Health
  <2> QED BY <1>1, <1>5, <2>1 DEF ForceMaxBackoff, Health, SameMedia
<1> QED BY <1>2, <1>3, <1>4, <1>5

\* Arming and disarming move the first-buffer deadline only, and only before the
\* first buffer.
LEMMA ArmFields ==
    ASSUME NEW x \in Health, NEW i, NEW d, NEW t \in Nat
    PROVE  /\ ArmFirstBuffer(x, i, d, t) \in Health
           /\ SameButArmed(x, ArmFirstBuffer(x, i, d, t))
           /\ ArmFirstBuffer(x, i, d, t).state \in {x.state, "Starting"}
           /\ IF IsCurrentData(x, i, d) /\ x.last = Never
              THEN ArmFirstBuffer(x, i, d, t).armed = t
              ELSE ArmFirstBuffer(x, i, d, t) = x
<1>1. t \in Int /\ x.state \in States /\ "Starting" \in States
  BY FieldTypes DEF States
<1>2. ArmFirstBuffer(x, i, d, t) \in Health
  BY <1>1, Zenon DEF ArmFirstBuffer, Health
<1> QED BY <1>2 DEF ArmFirstBuffer, Health, SameButArmed

LEMMA DisarmFields ==
    ASSUME NEW x \in Health, NEW i, NEW d
    PROVE  /\ DisarmFirstBuffer(x, i, d) \in Health
           /\ SameButArmed(x, DisarmFirstBuffer(x, i, d))
           /\ DisarmFirstBuffer(x, i, d).state = x.state
           /\ DisarmFirstBuffer(x, i, d).armed \in {x.armed, Never}
           /\ ~(IsCurrentData(x, i, d) /\ x.last = Never) => DisarmFirstBuffer(x, i, d) = x
<1>1. Never \in Int
  BY DEF Never
<1>2. DisarmFirstBuffer(x, i, d) \in Health
  BY <1>1, Zenon DEF DisarmFirstBuffer, Health
<1> QED BY <1>2 DEF DisarmFirstBuffer, Health, SameButArmed

LEMMA BufferFields ==
    ASSUME NEW x \in Health, NEW i, NEW d, NEW t \in Nat
    PROVE  /\ ObserveBuffer(x, i, d, t) \in Health
           /\ ~IsCurrentData(x, i, d) => ObserveBuffer(x, i, d, t) = x
           /\ IsCurrentData(x, i, d) =>
                /\ ObserveBuffer(x, i, d, t).inst = x.inst
                /\ ObserveBuffer(x, i, d, t).active = x.active
                /\ ObserveBuffer(x, i, d, t).armed = x.armed
                /\ ObserveBuffer(x, i, d, t).fault = x.fault
                /\ ObserveBuffer(x, i, d, t).attempt = x.attempt
                /\ ObserveBuffer(x, i, d, t).last = t
                /\ ~ObserveBuffer(x, i, d, t).warned
                /\ ObserveBuffer(x, i, d, t).healthy =
                     IF x.healthy = Never THEN t ELSE x.healthy
<1>1. /\ t \in Int /\ x.healthy \in Int /\ x.state \in States /\ "Streaming" \in States
      /\ FALSE \in BOOLEAN
  BY FieldTypes DEF States
<1>2. ObserveBuffer(x, i, d, t) \in Health
  BY <1>1, Zenon DEF ObserveBuffer, Health
<1> QED BY <1>2 DEF ObserveBuffer, Health

\* Recording a fault touches nothing but the fault, and keeps an earlier one.
LEMMA RecordFields ==
    ASSUME NEW x \in Health, NEW k \in FaultKinds, NEW d \in Nat
    PROVE  /\ RecordFault(x, k, d) \in Health
           /\ SameMedia(x, RecordFault(x, k, d)) /\ Faulted(RecordFault(x, k, d))
           /\ Faulted(x) => RecordFault(x, k, d) = x
           /\ RecordFault(x, k, d).attempt = x.attempt
           /\ RecordFault(x, k, d).state = x.state
<1>1. [kind |-> k, data |-> d] \in Faults /\ [kind |-> k, data |-> d] # NoFault
  BY DEF Faults, FaultKinds, NoFault
<1> QED BY <1>1 DEF RecordFault, Faulted, Health, SameMedia

LEMMA ReportFields ==
    ASSUME NEW x \in Health, NEW k \in FaultKinds, NEW i, NEW d \in Nat
    PROVE  /\ ReportFault(x, i, d, k) \in Health
           /\ SameMedia(x, ReportFault(x, i, d, k))
           /\ Faulted(x) => ReportFault(x, i, d, k) = x
           /\ IsCurrentData(x, i, d) => Faulted(ReportFault(x, i, d, k))
           /\ ReportFault(x, i, d, k).attempt = x.attempt
           /\ ReportFault(x, i, d, k).state = x.state
BY RecordFields DEF ReportFault, SameMedia

LEMMA LoopEnds ==
    ASSUME NEW x \in Health, NEW i, NEW b \in BOOLEAN
    PROVE  /\ LoopExited(x, i, b) \in Health
           /\ SameMedia(x, LoopExited(x, i, b))
           /\ Faulted(x) => LoopExited(x, i, b).fault = x.fault
           /\ b => LoopExited(x, i, b).fault = x.fault
           /\ LoopExited(x, i, b).attempt = x.attempt
           /\ LoopExited(x, i, b).state = x.state
<1> DEFINE dead == [x EXCEPT !.alive = FALSE]
           d == IF x.active # 0 THEN x.active ELSE x.data
<1>1. /\ dead \in Health /\ SameMedia(x, dead) /\ dead.fault = x.fault
      /\ dead.attempt = x.attempt /\ dead.state = x.state
      /\ d \in Nat /\ "MainLoopExited" \in FaultKinds
  BY DEF Health, FaultKinds, SameMedia
<1>2. LoopExited(x, i, b) =
        IF x.inst # i THEN x ELSE IF b THEN dead ELSE RecordFault(dead, "MainLoopExited", d)
  BY DEF LoopExited
<1> HIDE DEF dead, d
<1>3. /\ RecordFault(dead, "MainLoopExited", d) \in Health
      /\ SameMedia(dead, RecordFault(dead, "MainLoopExited", d))
      /\ Faulted(dead) => RecordFault(dead, "MainLoopExited", d) = dead
      /\ RecordFault(dead, "MainLoopExited", d).attempt = x.attempt
      /\ RecordFault(dead, "MainLoopExited", d).state = x.state
  BY <1>1, RecordFields
<1>4. Faulted(dead) <=> Faulted(x)
  BY <1>1 DEF Faulted
<1> QED BY <1>1, <1>2, <1>3, <1>4 DEF SameMedia

LEMMA AcceptFields ==
    ASSUME NEW x \in Health, NEW f \in Faults
    PROVE  /\ AcceptFault(x, f) \in Health
           /\ AcceptFault(x, f).inst = x.inst /\ AcceptFault(x, f).fault = x.fault
           /\ AcceptFault(x, f).active = 0 /\ AcceptFault(x, f).attempt = x.attempt
           /\ AcceptFault(x, f).state =
                IF f.kind = "PermanentGstError" THEN "Failed" ELSE "Recovering"
<1>1. /\ {"Failed", "Recovering"} \subseteq States /\ Never \in Int /\ 0 \in Nat
  BY DEF States, Never
<1>2. AcceptFault(x, f) \in Health
  BY <1>1, Zenon DEF AcceptFault, Health
<1> QED BY <1>2 DEF AcceptFault, Health

\* What the watchdog may do to a record: the reset, the warning and the deadlines.
WatchdogResult(x, rtsp, t, y) ==
    /\ y \in Health
    /\ y.inst = x.inst /\ y.data = x.data /\ y.active = x.active
    /\ y.armed = x.armed /\ y.last = x.last /\ y.state = x.state
    /\ \/ y.healthy = Never
       \/ y.healthy = x.healthy /\ y.warned = x.warned
    /\ Faulted(x) => y.fault = x.fault
    /\ \/ y.attempt = x.attempt
       \/ /\ x.state = "Streaming" /\ x.healthy # Never
          /\ t - x.healthy >= HealthyResetWindow
    /\ rtsp /\ ~Faulted(y) /\ x.active # 0 =>
         /\ x.last # Never => t - x.last < StallConfirmation
         /\ x.last = Never /\ x.armed # Never => t - x.armed < FirstBufferTimeout
         /\ x.last # Never /\ t - x.last >= 1 /\ ~x.warned => y.healthy = Never

LEMMA WatchdogFields ==
    ASSUME NEW x \in Health, NEW rtsp \in BOOLEAN, NEW t \in Nat
    PROVE  WatchdogResult(x, rtsp, t, EvaluateWatchdog(x, rtsp, t))
<1> DEFINE healed == /\ x.state = "Streaming" /\ x.healthy # Never
                     /\ Overdue(x.healthy, HealthyResetWindow, t)
           reset == IF healed THEN [x EXCEPT !.attempt = 0] ELSE x
           stalled == Overdue(x.last, StallWindow, t) /\ ~x.warned
           warned == IF stalled THEN Warn(reset) ELSE reset
           y == EvaluateWatchdog(x, rtsp, t)
           exempt == ~rtsp \/ Faulted(x) \/ x.active = 0 \/ (x.armed = Never /\ x.last = Never)
<1>1. /\ x.last \in Int /\ x.armed \in Int /\ x.healthy \in Int /\ x.active \in Nat
      /\ {"FirstBufferTimeout", "BufferStall"} \subseteq FaultKinds
  BY FieldTypes DEF FaultKinds
<1>2. /\ reset \in Health /\ SameMedia(x, reset) /\ reset.fault = x.fault
      /\ reset.state = x.state /\ (reset.attempt = x.attempt \/ healed)
  BY DEF Health, SameMedia
<1>3. y = IF exempt THEN reset
          ELSE IF x.last = Never
          THEN IF Overdue(x.armed, FirstBufferTimeout, t)
               THEN RecordFault(reset, "FirstBufferTimeout", x.active) ELSE reset
          ELSE IF Overdue(x.last, StallConfirmation, t)
               THEN RecordFault(warned, "BufferStall", x.active) ELSE warned
  BY DEF EvaluateWatchdog
<1>4. healed => x.state = "Streaming" /\ x.healthy # Never
                /\ t - x.healthy >= HealthyResetWindow
  BY DEF Overdue
<1> HIDE DEF reset, healed
<1>5. /\ warned \in Health /\ warned.inst = x.inst /\ warned.data = x.data
      /\ warned.active = x.active /\ warned.armed = x.armed /\ warned.last = x.last
      /\ warned.state = x.state /\ warned.fault = x.fault
      /\ warned.attempt = reset.attempt
      /\ IF stalled THEN warned.healthy = Never ELSE warned = reset
  <2>1. Never \in Int
    BY DEF Never
  <2> QED BY <1>2, <2>1 DEF Warn, Health, SameMedia
<1>6. stalled <=> t - x.last >= 1 /\ ~x.warned
  BY DEF Overdue, StallWindow
<1> SUFFICES WatchdogResult(x, rtsp, t, y)
  OBVIOUS
<1> HIDE DEF warned, y, stalled
<1>7. Faulted(reset) <=> Faulted(x)
  BY <1>2 DEF Faulted
<1>8. Faulted(warned) <=> Faulted(x)
  BY <1>5 DEF Faulted
<1>9. CASE exempt
  <2>1. y = reset
    BY <1>3, <1>9
  <2>2. ~(rtsp /\ ~Faulted(y) /\ x.active # 0) \/ (x.armed = Never /\ x.last = Never)
    BY <1>7, <1>9, <2>1
  <2> QED BY <1>2, <1>4, <2>1, <2>2 DEF WatchdogResult, SameMedia
<1>10. CASE ~exempt /\ x.last = Never
  <2>1. CASE Overdue(x.armed, FirstBufferTimeout, t)
    <3>1. y = RecordFault(reset, "FirstBufferTimeout", x.active)
      BY <1>3, <1>10, <2>1
    <3>2. y \in Health /\ SameMedia(reset, y) /\ Faulted(y) /\ y.attempt = reset.attempt
          /\ y.state = reset.state
      BY <1>1, <1>2, <3>1, RecordFields
    <3> QED BY <1>2, <1>4, <1>10, <3>2 DEF WatchdogResult, SameMedia
  <2>2. CASE ~Overdue(x.armed, FirstBufferTimeout, t)
    <3>1. y = reset
      BY <1>3, <1>10, <2>2
    <3>2. t - x.armed < FirstBufferTimeout
      BY <1>1, <2>2 DEF Overdue, FirstBufferTimeout
    <3> QED BY <1>2, <1>4, <1>10, <3>1, <3>2 DEF WatchdogResult, SameMedia
  <2> QED BY <2>1, <2>2
<1>11. CASE ~exempt /\ x.last # Never
  <2>1. CASE Overdue(x.last, StallConfirmation, t)
    <3>1. y = RecordFault(warned, "BufferStall", x.active)
      BY <1>3, <1>11, <2>1
    <3>2. y \in Health /\ SameMedia(warned, y) /\ Faulted(y) /\ y.attempt = warned.attempt
          /\ y.state = warned.state
      BY <1>1, <1>5, <3>1, RecordFields
    <3> QED BY <1>2, <1>4, <1>5, <1>11, <3>2 DEF WatchdogResult, SameMedia
  <2>2. CASE ~Overdue(x.last, StallConfirmation, t)
    <3>1. y = warned
      BY <1>3, <1>11, <2>2
    <3>2. t - x.last < StallConfirmation
      BY <1>1, <2>2 DEF Overdue, StallConfirmation
    <3> QED BY <1>2, <1>4, <1>5, <1>6, <1>11, <3>1, <3>2 DEF WatchdogResult, SameMedia
  <2> QED BY <2>1, <2>2
<1> QED BY <1>9, <1>10, <1>11

(***************************************************************************)
(* What the actions share                                                  *)
(***************************************************************************)

\* What a step may not do, as RetiredStays and ResetEarned say.
RetiredStep ==
    /\ /\ sup.pc \in {"retire", "schedule", "backoff", "build"}
       /\ sup.ev.kind = "fault" /\ h'.inst = h.inst
       => ~(h'.state = "Streaming" /\ h.state # "Streaming")
    /\ fatal => h'.inst = h.inst

ResetStep ==
    Ingest = "rtsp" /\ h.attempt > 0 /\ h'.attempt = 0
        => flow.last # Never /\ now - flow.from >= HealthyResetWindow

\* A step that neither starts to stream nor resets.
LEMMA PlainStep ==
    ASSUME h \in Health, h' \in Health, h'.inst = h.inst, h'.attempt >= h.attempt,
           h'.state = "Streaming" => h.state = "Streaming"
    PROVE  RetiredStep /\ ResetStep
<1>1. h.attempt \in Nat /\ h'.attempt \in Nat
  BY FieldTypes
<1>2. RetiredStep
  BY DEF RetiredStep
<1>3. ResetStep
  BY <1>1 DEF ResetStep
<1> QED BY <1>2, <1>3

\* A step that touches neither the timers nor the probe: it may record a fault,
\* keep one, and change the state but for a relay that failed with a fault.
LEMMA NotedKeeps ==
    ASSUME MediaInv, h' \in Health, SameMedia(h, h'), Faulted(h) => h'.fault = h.fault,
           Faulted(h) /\ h.state = "Failed" => h'.state = "Failed",
           UNCHANGED <<probe, now, polled, flow, fatal>>,
           sup' = sup \/ (sup.pc \in Awake /\ sup'.pc \in {"idle", "accept"})
    PROVE  ProbeTrue' /\ Retired' /\ Timers'
<1>1. Faulted(h) => Faulted(h)'
  BY DEF Faulted
<1>2. ProbeTrue'
  BY <1>1 DEF MediaInv, ProbeTrue, SameMedia
<1>3. Retired'
  <2>1. CASE sup' = sup
    BY <1>1, <2>1 DEF MediaInv, Retired, SameMedia, PermanentFailure, Faulted, NoFault
  <2>2. CASE sup.pc \in Awake /\ sup'.pc \in {"idle", "accept"}
    BY <1>1, <2>2 DEF MediaInv, Retired, SameMedia, PermanentFailure, Faulted, NoFault,
                      Rebuilding
  <2> QED BY <2>1, <2>2
<1>4. sup'.pc \in Awake => sup.pc \in Awake
  BY DEF Awake
<1>5. Timers'
  <2> SUFFICES ASSUME Ingest = "rtsp" PROVE FlowTrue' /\ Recent' /\ Polled'
    BY DEF Timers
  <2>1. FlowTrue /\ Recent /\ Polled
    BY DEF MediaInv, Timers
  <2>2. FlowTrue'
    BY <1>1, <1>4, <2>1 DEF FlowTrue, SameMedia
  <2>3. Recent'
    BY <1>1, <1>4, <2>1 DEF Recent, SameMedia
  <2>4. Polled'
    BY <1>1, <1>4, <2>1 DEF Polled, SameMedia
  <2> QED BY <2>2, <2>3, <2>4
<1> QED BY <1>2, <1>3, <1>5

\* Events join the supervisor's channel.
LEMMA EventsTyped ==
    ASSUME events \in Seq(MediaEvents), NEW f \in Faults
    PROVE  /\ Append(events, RetryEvent) \in Seq(MediaEvents)
           /\ Append(events, FaultEvent(f)) \in Seq(MediaEvents)
BY DEF MediaEvents

\* The pieces of Typed that callbacks leave alone.
LEMMA TypedKeeps ==
    ASSUME Typed, h' \in Health, h'.inst = h.inst,
           UNCHANGED <<now, polled, fatal>>,
           listener' \in [inst : Nat, loop : BOOLEAN],
           probe' \in [1..h.inst -> [data : Nat, playing : BOOLEAN]],
           media' \subseteq [inst : 1..h.inst, data : Nat \ {0}],
           conf' \in [inst : 0..h.inst, data : Nat], conf'.data # 0 => conf'.inst # 0,
           events' \in Seq(MediaEvents), sup' \in [pc : Pcs, ev : MediaEvents],
           flow' \in [from : Int, last : Int], flow'.from <= now
    PROVE  Typed'
BY DEF Typed

\* The parts of Typed, for citing.
LEMMA TypedParts ==
    ASSUME Typed
    PROVE  /\ h \in Health /\ h.inst \in Nat /\ h.inst # 0 /\ h.inst \in 1..h.inst
           /\ listener \in [inst : Nat, loop : BOOLEAN]
           /\ probe \in [1..h.inst -> [data : Nat, playing : BOOLEAN]]
           /\ media \subseteq [inst : 1..h.inst, data : Nat \ {0}]
           /\ conf \in [inst : 0..h.inst, data : Nat] /\ (conf.data # 0 => conf.inst # 0)
           /\ events \in Seq(MediaEvents) /\ sup \in [pc : Pcs, ev : MediaEvents]
           /\ now \in Nat /\ flow \in [from : Int, last : Int] /\ flow.from <= now
<1>1. h.inst \in Nat
  BY FieldTypes DEF Typed
<1> QED BY <1>1 DEF Typed

\* A callback that only notes something in the record.
LEMMA CallbackNotes ==
    ASSUME MediaInv, h' \in Health, SameMedia(h, h'), Faulted(h) => h'.fault = h.fault,
           h'.attempt = h.attempt, h'.state \in {h.state, "Failed"},
           events' \in Seq(MediaEvents),
           media' \subseteq [inst : 1..h.inst, data : Nat \ {0}],
           conf' \in [inst : 0..h.inst, data : Nat], conf'.data # 0 => conf'.inst # 0,
           UNCHANGED <<probe, flow>>, Supervising
    PROVE  MediaInv' /\ RetiredStep /\ ResetStep
<1>1. UNCHANGED <<listener, sup, now, polled, fatal>> /\ h'.inst = h.inst /\ h \in Health
  BY DEF Supervising, SameMedia, MediaInv, Typed
<1>2. ProbeTrue' /\ Retired' /\ Timers'
  BY <1>1, NotedKeeps
<1>3. Typed'
  BY <1>1, TypedKeeps, TypedParts DEF MediaInv
<1>4. ListenerCurrent'
  BY <1>1 DEF MediaInv, ListenerCurrent
<1>5. h.attempt \in Nat
  BY <1>1, FieldTypes
<1>6. RetiredStep /\ ResetStep
  BY <1>1, <1>5, PlainStep
<1> QED BY <1>2, <1>3, <1>4, <1>6 DEF MediaInv

(***************************************************************************)
(* Callbacks                                                               *)
(***************************************************************************)

\* media-constructed: the probe and the record take the same data generation,
\* and only while nothing has failed.
LEMMA ConstructKeeps ==
    ASSUME MediaInv, Construct
    PROVE  MediaInv' /\ RetiredStep /\ ResetStep
<1> DEFINE i == listener.inst
           begun == BeginDataGeneration(h, i)
<1>1. /\ Typed /\ ListenerCurrent /\ ProbeTrue /\ Retired /\ Timers
  BY DEF MediaInv
<1>2. listener.loop /\ i = h.inst /\ i \in 1..h.inst
  BY <1>1, TypedParts DEF Construct, ListenerCurrent
<1>3. UNCHANGED <<media, listener, sup, now, polled, fatal>>
  BY DEF Construct
<1>4. CASE MayBeginData(h, i)
  <2>1. /\ probe' = [probe EXCEPT ![i] = [data |-> begun.data, playing |-> FALSE]]
        /\ conf' = [inst |-> i, data |-> begun.data] /\ flow' = NoFlow
        /\ (h' = begun /\ UNCHANGED <<events, trouble>>) \/ Unfit(begun)
    BY <1>4 DEF Construct
  <2>2. /\ begun \in Health /\ begun.inst = h.inst /\ begun.fault = h.fault
        /\ begun.attempt = h.attempt /\ begun.state = "Starting"
        /\ begun.active = begun.data /\ begun.data \in Nat \ {0}
        /\ begun.armed = Never /\ begun.last = Never /\ begun.healthy = Never
    BY <1>1, <1>4, BeginData, TypedParts
  <2> DEFINE bad == ReportFault(begun, begun.inst, begun.data, "GstError")
  <2> HIDE DEF begun
  <2>3. /\ bad \in Health /\ SameMedia(begun, bad) /\ bad.attempt = begun.attempt
        /\ bad.state = begun.state /\ (Faulted(begun) => bad = begun)
        /\ Faulted(bad) /\ bad.fault \in Faults
    <3>1. "GstError" \in FaultKinds
      BY DEF FaultKinds
    <3>2. /\ bad \in Health /\ SameMedia(begun, bad) /\ bad.attempt = begun.attempt
          /\ bad.state = begun.state /\ (Faulted(begun) => bad = begun)
          /\ (IsCurrentData(begun, begun.inst, begun.data) => Faulted(bad))
      BY <2>2, <3>1, ReportFields
    <3>3. Faulted(bad)
      BY <2>2, <3>2 DEF IsCurrentData
    <3> QED BY <3>2, <3>3, FieldTypes
  <2>4. Unfit(begun) => h' = bad /\ events' = Append(events, FaultEvent(bad.fault))
    BY DEF Unfit
  <2> HIDE DEF bad
  <2>5. /\ h' \in Health /\ h'.inst = h.inst /\ h'.attempt = h.attempt
        /\ h'.state = "Starting" /\ h'.active = begun.data
        /\ h'.armed = Never /\ h'.last = Never /\ h'.healthy = Never
    BY <2>1, <2>2, <2>3, <2>4 DEF SameMedia
  <2>6. events' \in Seq(MediaEvents)
    BY <1>1, <2>1, <2>3, <2>4, EventsTyped, TypedParts
  <2>7. ~Faulted(h)
    BY <1>4 DEF MayBeginData
  <2>8. probe' \in [1..h.inst -> [data : Nat, playing : BOOLEAN]]
        /\ probe'[h.inst] = [data |-> begun.data, playing |-> FALSE]
        /\ \A j \in 1..h.inst : j # h.inst => probe'[j] = probe[j]
    <3>1. [data |-> begun.data, playing |-> FALSE] \in [data : Nat, playing : BOOLEAN]
      BY <2>2
    <3>2. probe \in [1..h.inst -> [data : Nat, playing : BOOLEAN]]
      BY <1>1, TypedParts
    <3> QED BY <1>2, <2>1, <3>1, <3>2
  <2>9. flow' \in [from : Int, last : Int] /\ flow'.from <= now
    BY <1>1, <2>1, TypedParts DEF NoFlow, Never
  <2>10. conf' \in [inst : 0..h.inst, data : Nat] /\ conf'.data # 0 /\ conf'.inst # 0
    BY <1>1, <1>2, <2>1, <2>2, TypedParts
  <2>11. Typed'
    BY <1>1, <1>3, <2>5, <2>6, <2>8, <2>9, <2>10, TypedKeeps, TypedParts
  <2>12. ListenerCurrent'
    BY <1>1, <1>3, <2>5 DEF ListenerCurrent
  <2>13. ProbeTrue'
    BY <1>1, <2>2, <2>5, <2>8 DEF ProbeTrue
  <2>14. sup.pc \notin Rebuilding /\ ~(sup.pc = "retire" /\ sup.ev.kind = "fault") /\ ~fatal
    BY <1>1, <1>2, <2>7 DEF ListenerCurrent, Retired, NoServer, PermanentFailure, Faulted, NoFault
  <2>15. Retired'
    BY <1>3, <2>14 DEF Retired
  <2>16. Timers'
    BY <1>3, <2>5 DEF Timers, FlowTrue, Recent, Polled
  <2>17. RetiredStep /\ ResetStep
    BY <1>1, <2>5, PlainStep, TypedParts, FieldTypes
  <2> QED BY <2>11, <2>12, <2>13, <2>15, <2>16, <2>17 DEF MediaInv
<1>5. CASE ~MayBeginData(h, i)
  <2>1. conf' = [inst |-> i, data |-> 0] /\ UNCHANGED <<h, probe, flow, events>>
    BY <1>5 DEF Construct
  <2>2. conf' \in [inst : 0..h.inst, data : Nat] /\ conf'.data = 0
    BY <1>1, <1>2, <2>1, TypedParts
  <2>3. Typed'
    BY <1>1, <1>3, <2>1, <2>2, TypedKeeps, TypedParts
  <2>4. ProbeTrue' /\ Retired' /\ Timers'
    BY <1>1, <1>3, <2>1, NotedKeeps, TypedParts DEF SameMedia
  <2>5. ListenerCurrent'
    BY <1>1, <1>3, <2>1 DEF ListenerCurrent
  <2>6. RetiredStep /\ ResetStep
    BY <1>1, <2>1, PlainStep, TypedParts, FieldTypes
  <2> QED BY <2>3, <2>4, <2>5, <2>6 DEF MediaInv
<1> QED BY <1>4, <1>5

\* media-configure and before-send: the guard may refuse the upstream.
LEMMA GuardKeeps ==
    ASSUME MediaInv, Configure \/ \E m \in media : BeforeSend(m)
    PROVE  MediaInv' /\ RetiredStep /\ ResetStep
<1>1. Typed
  BY DEF MediaInv
<1>2. ASSUME NEW i, Refuse(i)
      PROVE  /\ h' \in Health /\ SameMedia(h, h') /\ h'.fault = h.fault
             /\ h'.attempt = h.attempt /\ h'.state \in {h.state, "Failed"}
             /\ events' \in Seq(MediaEvents)
  <2>1. FALSE \in BOOLEAN /\ NoFault \in Faults
    BY DEF Faults
  <2> QED BY <1>1, <1>2, <2>1, BuildFailed, EventsTyped, TypedParts DEF Refuse
<1>3. ASSUME UNCHANGED <<h, events>>
      PROVE  /\ h' \in Health /\ SameMedia(h, h') /\ h'.fault = h.fault
             /\ h'.attempt = h.attempt /\ h'.state \in {h.state, "Failed"}
             /\ events' \in Seq(MediaEvents)
  BY <1>1, <1>3, TypedParts DEF SameMedia
<1>4. CASE Configure
  <2>1. /\ conf' = NoPipe /\ UNCHANGED <<probe, flow>> /\ Supervising
        /\ media' = IF conf.data = 0 THEN media ELSE media \cup {conf}
        /\ UNCHANGED <<h, events>> \/ Refuse(conf.inst)
    BY <1>4 DEF Configure
  <2>2. media' \subseteq [inst : 1..h.inst, data : Nat \ {0}]
    <3>1. conf.data # 0 => conf \in [inst : 1..h.inst, data : Nat \ {0}]
      BY <1>1, TypedParts
    <3> QED BY <1>1, <2>1, <3>1, TypedParts
  <2>3. conf' \in [inst : 0..h.inst, data : Nat] /\ conf'.data = 0
    BY <1>1, <2>1, TypedParts DEF NoPipe
  <2> QED BY <1>2, <1>3, <2>1, <2>2, <2>3, CallbackNotes
<1>5. CASE \E m \in media : BeforeSend(m)
  <2>1. PICK m \in media : BeforeSend(m)
    BY <1>5
  <2>2. Refuse(m.inst) /\ UNCHANGED <<probe, media, conf, flow>> /\ Supervising
    BY <2>1 DEF BeforeSend
  <2> QED BY <1>1, <1>2, <2>2, CallbackNotes, TypedParts
<1> QED BY <1>4, <1>5

\* A pipeline's error or end of stream, and the end of the loop.
LEMMA FaultKeeps ==
    ASSUME MediaInv, LoopDies \/ \E m \in media, kind \in FaultKinds : Message(m, kind)
    PROVE  MediaInv' /\ RetiredStep /\ ResetStep
<1>1. Typed
  BY DEF MediaInv
<1>2. ASSUME NEW new \in Health, Report(new)
      PROVE  h' = new /\ events' \in Seq(MediaEvents)
  BY <1>1, <1>2, EventsTyped, TypedParts, FieldTypes DEF Report
<1>3. CASE LoopDies
  <2> DEFINE new == LoopExited(h, listener.inst, FALSE)
  <2>1. /\ listener' = [listener EXCEPT !.loop = FALSE] /\ Report(new)
        /\ UNCHANGED <<probe, media, conf, sup, now, polled, flow, fatal>>
    BY <1>3 DEF LoopDies
  <2>2. /\ new \in Health /\ SameMedia(h, new) /\ (Faulted(h) => new.fault = h.fault)
        /\ new.attempt = h.attempt /\ new.state = h.state
    BY <1>1, LoopEnds, TypedParts
  <2> HIDE DEF new
  <2>3. h' = new /\ events' \in Seq(MediaEvents) /\ h'.inst = h.inst
    BY <1>2, <2>1, <2>2 DEF SameMedia
  <2>4. ProbeTrue' /\ Retired' /\ Timers'
    BY <2>1, <2>2, <2>3, NotedKeeps
  <2>5. /\ listener' \in [inst : Nat, loop : BOOLEAN] /\ listener'.inst = listener.inst
        /\ ~listener'.loop
    BY <1>1, <2>1, TypedParts
  <2>6. Typed'
    BY <1>1, <2>1, <2>2, <2>3, <2>5, TypedKeeps, TypedParts
  <2>7. ListenerCurrent'
    <3>1. sup.pc \in Rebuilding => listener' = listener
      BY <2>1 DEF MediaInv, ListenerCurrent, NoServer
    <3> QED BY <2>1, <2>3, <2>5, <3>1 DEF MediaInv, ListenerCurrent
  <2>8. RetiredStep /\ ResetStep
    BY <1>1, <2>2, <2>3, PlainStep, TypedParts, FieldTypes
  <2> QED BY <2>4, <2>6, <2>7, <2>8 DEF MediaInv
<1>4. CASE \E m \in media, kind \in FaultKinds : Message(m, kind)
  <2>1. PICK m \in media, kind \in FaultKinds : Message(m, kind)
    BY <1>4
  <2> DEFINE new == ReportFault(h, m.inst, m.data, kind)
  <2>2. Report(new) /\ UNCHANGED <<probe, media, conf, flow>> /\ Supervising
    BY <2>1 DEF Message
  <2>3. /\ new \in Health /\ SameMedia(h, new) /\ (Faulted(h) => new = h)
        /\ new.attempt = h.attempt /\ new.state = h.state
    <3>1. m.data \in Nat
      BY <1>1, TypedParts
    <3> QED BY <1>1, <3>1, ReportFields, TypedParts
  <2> HIDE DEF new
  <2>4. h' = new /\ events' \in Seq(MediaEvents)
    BY <1>2, <2>2, <2>3
  <2> QED BY <1>1, <2>2, <2>3, <2>4, CallbackNotes, TypedParts
<1> QED BY <1>3, <1>4

\* A pipeline the probe names is the record's media, unless a fault was recorded.
LEMMA CurrentPipeline ==
    ASSUME MediaInv, NEW m \in media
    PROVE  /\ m.inst \in 1..h.inst /\ m.data \in Nat /\ m.data # 0
           /\ WithCurrent(m) /\ m.inst = h.inst /\ ~Faulted(h) => IsCurrentData(h, m.inst, m.data)
<1>1. m.inst \in 1..h.inst /\ m.data \in Nat /\ m.data # 0
  BY DEF MediaInv, Typed
<1>2. WithCurrent(m) /\ m.inst = h.inst /\ ~Faulted(h) => h.active = m.data
  BY <1>1 DEF MediaInv, ProbeTrue, WithCurrent
<1> QED BY <1>1, <1>2 DEF IsCurrentData

\* target-state and prepared: the deadline is armed at this instant, or taken back.
LEMMA ArmKeeps ==
    ASSUME MediaInv,
           \E m \in media : Prepared(m) \/ \E playing \in BOOLEAN : TargetState(m, playing)
    PROVE  MediaInv' /\ RetiredStep /\ ResetStep
<1>1. /\ Typed /\ ListenerCurrent /\ ProbeTrue /\ Retired /\ Timers
  BY DEF MediaInv
<1>2. PICK m \in media : Prepared(m) \/ \E playing \in BOOLEAN : TargetState(m, playing)
  OBVIOUS
<1>3. /\ WithCurrent(m) /\ UNCHANGED <<media, conf, events, flow>> /\ Supervising
      /\ \E playing \in BOOLEAN :
           /\ probe' = [probe EXCEPT ![m.inst].playing = playing]
              \/ (probe' = probe /\ playing)
           /\ h' = IF playing THEN ArmFirstBuffer(h, m.inst, m.data, now)
                   ELSE DisarmFirstBuffer(h, m.inst, m.data)
  BY <1>2, Zenon DEF Prepared, TargetState
<1>4. UNCHANGED <<listener, sup, now, polled, fatal>>
  BY <1>3 DEF Supervising
<1>5. PICK playing \in BOOLEAN :
           /\ probe' = [probe EXCEPT ![m.inst].playing = playing]
              \/ (probe' = probe /\ playing)
           /\ h' = IF playing THEN ArmFirstBuffer(h, m.inst, m.data, now)
                   ELSE DisarmFirstBuffer(h, m.inst, m.data)
  BY <1>3
<1>6. /\ m.inst \in 1..h.inst /\ m.data \in Nat /\ m.data # 0
      /\ m.inst = h.inst /\ ~Faulted(h) => IsCurrentData(h, m.inst, m.data)
  BY <1>3, CurrentPipeline
<1>7. /\ h \in Health /\ now \in Nat
      /\ probe \in [1..h.inst -> [data : Nat, playing : BOOLEAN]]
  BY <1>1, TypedParts
<1>8. /\ h' \in Health /\ SameButArmed(h, h') /\ h'.state \in {h.state, "Starting"}
      /\ ~(IsCurrentData(h, m.inst, m.data) /\ h.last = Never) => h' = h
      /\ h'.armed \in {h.armed, Never, now}
      /\ playing /\ IsCurrentData(h, m.inst, m.data) /\ h.last = Never => h'.armed = now
  BY <1>5, <1>7, ArmFields, DisarmFields
<1>9. Faulted(h) => h' = h
  BY <1>8 DEF IsCurrentData
<1>10. /\ probe' \in [1..h.inst -> [data : Nat, playing : BOOLEAN]]
       /\ \A j \in 1..h.inst : probe'[j].data = probe[j].data
       /\ \A j \in 1..h.inst : j # m.inst => probe'[j] = probe[j]
       /\ probe'[m.inst].playing => playing
  <2>1. CASE probe' = [probe EXCEPT ![m.inst].playing = playing]
    BY <1>6, <1>7, <2>1
  <2>2. CASE probe' = probe /\ playing
    BY <1>7, <2>2
  <2> QED BY <1>5, <2>1, <2>2
<1>11. Typed'
  BY <1>1, <1>3, <1>4, <1>8, <1>10, TypedKeeps, TypedParts DEF SameButArmed
<1>12. ListenerCurrent'
  BY <1>1, <1>4, <1>8 DEF ListenerCurrent, SameButArmed
<1>13. ProbeTrue'
  <2>1. ASSUME NEW j \in 1..h.inst, probe'[j].playing PROVE probe'[j].data # 0
    <3>1. CASE j = m.inst
      BY <1>3, <1>6, <1>10, <3>1 DEF WithCurrent
    <3>2. CASE j # m.inst
      BY <1>1, <1>10, <2>1, <3>2 DEF ProbeTrue
    <3> QED BY <3>1, <3>2
  <2>2. ASSUME ~Faulted(h)
        PROVE  probe'[h.inst].data # 0 => h'.active = probe'[h.inst].data
    BY <1>1, <1>8, <1>10, <2>2, TypedParts DEF ProbeTrue, SameButArmed
  <2>3. ASSUME ~Faulted(h), probe'[h.inst].playing
        PROVE  h'.armed # Never \/ h'.last # Never
    <3>1. CASE m.inst = h.inst
      <4>1. playing /\ IsCurrentData(h, m.inst, m.data)
        BY <1>6, <1>10, <2>3, <3>1
      <4>2. now # Never
        BY <1>7 DEF Never
      <4> QED BY <1>8, <4>1, <4>2 DEF SameButArmed
    <3>2. CASE m.inst # h.inst
      <4>1. h' = h
        BY <1>8, <3>2 DEF IsCurrentData
      <4> QED BY <1>1, <1>10, <2>3, <3>2, <4>1, TypedParts DEF ProbeTrue
    <3> QED BY <3>1, <3>2
  <2> QED BY <1>8, <2>1, <2>2, <2>3 DEF ProbeTrue, SameButArmed, Faulted
<1>14. Retired'
  BY <1>1, <1>4, <1>8, <1>9 DEF Retired, SameButArmed, PermanentFailure, Faulted, NoFault
<1>15. Timers'
  <2> SUFFICES ASSUME Ingest = "rtsp" PROVE FlowTrue' /\ Recent' /\ Polled'
    BY DEF Timers
  <2>1. FlowTrue /\ Recent /\ Polled
    BY <1>1 DEF Timers
  <2>2. FlowTrue' /\ Recent'
    <3>1. Faulted(h)' <=> Faulted(h)
      BY <1>8 DEF SameButArmed, Faulted
    <3>2. FlowTrue'
      BY <1>3, <1>4, <1>8, <1>9, <2>1, <3>1 DEF FlowTrue, SameButArmed
    <3>3. Recent'
      BY <1>3, <1>4, <1>8, <2>1, <3>1 DEF Recent, SameButArmed
    <3> QED BY <3>2, <3>3
  <2>3. Polled'
    <3>1. now - now < FirstBufferTimeout
      BY <1>7 DEF FirstBufferTimeout
    <3> QED BY <1>4, <1>8, <2>1, <3>1 DEF Polled, SameButArmed, Faulted
  <2> QED BY <2>2, <2>3
<1>16. RetiredStep /\ ResetStep
  BY <1>7, <1>8, PlainStep, FieldTypes DEF SameButArmed
<1> QED BY <1>11, <1>12, <1>13, <1>14, <1>15, <1>16 DEF MediaInv

\* The payloader sees a buffer: the window goes on only while the delivery does.
LEMMA BufferKeeps ==
    ASSUME MediaInv, \E m \in media : Buffer(m)
    PROVE  MediaInv' /\ RetiredStep /\ ResetStep
<1>1. /\ Typed /\ ListenerCurrent /\ ProbeTrue /\ Retired /\ Timers
  BY DEF MediaInv
<1>2. PICK m \in media : Buffer(m)
  OBVIOUS
<1>3. /\ h' = ObserveBuffer(h, m.inst, m.data, now)
      /\ flow' = IF ~IsCurrentData(h, m.inst, m.data) THEN flow
                 ELSE [from |-> IF flow.last # Never /\ now - flow.last <= StallWindow
                                THEN flow.from ELSE now,
                       last |-> now]
      /\ UNCHANGED <<probe, media, conf, events>> /\ Supervising
  BY <1>2 DEF Buffer
<1>4. UNCHANGED <<listener, sup, now, polled, fatal>>
  BY <1>3 DEF Supervising
<1>5. h \in Health /\ now \in Nat /\ flow \in [from : Int, last : Int] /\ flow.from <= now
  BY <1>1, TypedParts
<1>6. CASE ~IsCurrentData(h, m.inst, m.data)
  <2>1. h' = h /\ UNCHANGED flow
    BY <1>3, <1>5, <1>6, BufferFields
  <2> QED BY <1>1, <1>3, <2>1, CallbackNotes, TypedParts DEF SameMedia
<1>7. CASE IsCurrentData(h, m.inst, m.data)
  <2>1. /\ h' \in Health /\ h'.inst = h.inst /\ h'.active = h.active /\ h'.armed = h.armed
        /\ h'.fault = h.fault /\ h'.attempt = h.attempt /\ h'.last = now /\ ~h'.warned
        /\ h'.healthy = IF h.healthy = Never THEN now ELSE h.healthy
    BY <1>3, <1>5, <1>7, BufferFields
  <2>2. /\ flow' = [from |-> IF flow.last # Never /\ now - flow.last <= StallWindow
                             THEN flow.from ELSE now,
                    last |-> now]
    BY <1>3, <1>7
  <2>3. flow' \in [from : Int, last : Int] /\ flow'.from <= now /\ flow'.last = now
    BY <1>5, <2>2
  <2>4. Typed'
    BY <1>1, <1>3, <1>4, <2>1, <2>3, TypedKeeps, TypedParts
  <2>5. ListenerCurrent'
    BY <1>1, <1>4, <2>1 DEF ListenerCurrent
  <2>6. now # Never /\ h.active # 0 /\ ~Faulted(h) /\ (Faulted(h)' <=> Faulted(h))
    BY <1>5, <1>7, <2>1 DEF Never, IsCurrentData, Faulted
  <2>7. ProbeTrue'
    BY <1>1, <1>3, <2>1, <2>6 DEF ProbeTrue
  <2>8. ~fatal /\ ~(sup.pc \in {"retire"} \cup Rebuilding /\ sup.ev.kind = "fault")
    BY <1>1, <2>6 DEF Retired, PermanentFailure, Faulted, NoFault
  <2>9. Retired'
    BY <1>4, <2>8 DEF Retired
  <2>10. Timers'
    <3> SUFFICES ASSUME Ingest = "rtsp", sup.pc \in Awake PROVE FlowTrue' /\ Recent' /\ Polled'
      BY <1>4 DEF Timers, FlowTrue, Recent, Polled
    <3>1. FlowTrue /\ Recent /\ Polled
      BY <1>1 DEF Timers
    <3>2. h.healthy # Never => flow'.from = flow.from /\ flow.from <= h.healthy
      <4>1. h.healthy # Never =>
              flow.last # Never /\ flow.from <= h.healthy /\ flow.last = h.last /\ now - h.last < 2
        BY <2>6, <3>1 DEF FlowTrue, Recent
      <4>2. h.last \in Int
        BY <1>5, FieldTypes
      <4>3. h.healthy # Never => now - flow.last <= StallWindow
        BY <1>5, <4>1, <4>2 DEF StallWindow
      <4> QED BY <2>2, <4>1, <4>3
    <3>3. flow'.from <= h'.healthy
      BY <1>5, <2>1, <2>3, <3>2
    <3>4. FlowTrue'
      BY <2>3, <2>6, <3>3 DEF FlowTrue
    <3>5. now - now < 1 /\ now - now < 2
      BY <1>5
    <3>6. Recent'
      BY <1>4, <2>1, <2>3, <2>6, <3>5 DEF Recent
    <3>7. Polled'
      BY <1>4, <2>1, <2>6, <3>5 DEF Polled, StallConfirmation
    <3> QED BY <3>4, <3>6, <3>7
  <2>11. RetiredStep /\ ResetStep
    <3>1. h.attempt \in Nat
      BY <1>5, FieldTypes
    <3> QED BY <2>1, <2>8, <3>1 DEF RetiredStep, ResetStep, Rebuilding
  <2> QED BY <2>4, <2>5, <2>7, <2>9, <2>10, <2>11 DEF MediaInv
<1> QED BY <1>6, <1>7

\* unprepared: the media that ends is the record's, or none of it is.
LEMMA UnpreparedKeeps ==
    ASSUME MediaInv, \E m \in media : Unprepared(m)
    PROVE  MediaInv' /\ RetiredStep /\ ResetStep
<1>1. /\ Typed /\ ListenerCurrent /\ ProbeTrue /\ Retired /\ Timers
  BY DEF MediaInv
<1>2. PICK m \in media : Unprepared(m)
  OBVIOUS
<1>3. /\ media' = media \ {m} /\ UNCHANGED <<conf, events, flow>> /\ Supervising
      /\ IF WithCurrent(m)
         THEN /\ probe' = [probe EXCEPT ![m.inst] = NoMedia]
              /\ h' = EndDataGeneration(h, m.inst, m.data)
         ELSE UNCHANGED <<probe, h>>
  BY <1>2 DEF Unprepared
<1>4. UNCHANGED <<listener, sup, now, polled, fatal>>
  BY <1>3 DEF Supervising
<1>5. media' \subseteq [inst : 1..h.inst, data : Nat \ {0}]
  BY <1>1, <1>3, TypedParts
<1>6. CASE ~WithCurrent(m)
  BY <1>1, <1>3, <1>5, <1>6, CallbackNotes, TypedParts DEF SameMedia
<1>7. CASE WithCurrent(m)
  <2>1. probe' = [probe EXCEPT ![m.inst] = NoMedia] /\ h' = EndDataGeneration(h, m.inst, m.data)
    BY <1>3, <1>7
  <2>2. /\ m.inst \in 1..h.inst
        /\ m.inst = h.inst /\ ~Faulted(h) => IsCurrentData(h, m.inst, m.data)
    BY <1>7, CurrentPipeline
  <2>3. /\ h' \in Health /\ h'.inst = h.inst /\ h'.fault = h.fault /\ h'.attempt = h.attempt
        /\ IF IsCurrentData(h, m.inst, m.data) THEN Cleared(h') ELSE h' = h
        /\ h'.state \in {h.state, "Listening"}
    BY <1>1, <2>1, EndData, TypedParts, SMTT(30)
  <2>4. /\ probe' \in [1..h.inst -> [data : Nat, playing : BOOLEAN]]
        /\ probe'[m.inst] = NoMedia
        /\ \A j \in 1..h.inst : j # m.inst => probe'[j] = probe[j]
    <3>1. NoMedia \in [data : Nat, playing : BOOLEAN]
      BY DEF NoMedia
    <3>2. probe \in [1..h.inst -> [data : Nat, playing : BOOLEAN]]
      BY <1>1, TypedParts
    <3> QED BY <2>1, <2>2, <3>1, <3>2
  <2>5. Typed'
    BY <1>1, <1>3, <1>4, <1>5, <2>3, <2>4, TypedKeeps, TypedParts
  <2>6. ListenerCurrent'
    BY <1>1, <1>4, <2>3 DEF ListenerCurrent
  <2>7. NoMedia.data = 0 /\ ~NoMedia.playing
    BY DEF NoMedia
  <2>8. Faulted(h)' <=> Faulted(h)
    BY <2>3 DEF Faulted
  <2>9. ProbeTrue'
    <3>1. \A j \in 1..h.inst : probe'[j].playing => probe'[j].data # 0
      BY <1>1, <2>4, <2>7 DEF ProbeTrue
    <3>2. CASE m.inst = h.inst
      BY <2>3, <2>4, <2>7, <3>1, <3>2 DEF ProbeTrue
    <3>3. CASE m.inst # h.inst
      <4>1. h' = h
        BY <2>3, <3>3 DEF IsCurrentData
      <4>2. probe'[h.inst] = probe[h.inst]
        BY <1>1, <2>4, <3>3, TypedParts
      <4> QED BY <1>1, <3>1, <4>1, <4>2 DEF ProbeTrue
    <3> QED BY <3>2, <3>3
  <2>10. Retired' /\ Timers' /\ RetiredStep /\ ResetStep
    <3>1. RetiredStep /\ ResetStep
      BY <1>1, <2>3, PlainStep, TypedParts, FieldTypes, SMTT(30)
    <3>2. CASE IsCurrentData(h, m.inst, m.data)
      <4>1. ~Faulted(h)
        BY <3>2 DEF IsCurrentData
      <4>2. ~fatal /\ ~(sup.pc = "retire" /\ sup.ev.kind = "fault")
        BY <1>1, <4>1 DEF Retired, PermanentFailure, Faulted, NoFault
      <4>3. Retired'
        BY <1>1, <1>4, <2>3, <3>2, <4>2 DEF Retired, Cleared
      <4>4. Timers'
        BY <2>3, <3>2 DEF Timers, FlowTrue, Recent, Polled, Cleared
      <4> QED BY <3>1, <4>3, <4>4
    <3>3. CASE ~IsCurrentData(h, m.inst, m.data)
      <4>1. h' = h
        BY <2>3, <3>3
      <4>2. Retired'
        BY <1>1, <1>4, <4>1 DEF Retired
      <4>3. Timers'
        BY <1>1, <1>3, <1>4, <4>1 DEF Timers, FlowTrue, Recent, Polled
      <4> QED BY <3>1, <4>2, <4>3
    <3> QED BY <3>2, <3>3
  <2> QED BY <2>5, <2>6, <2>9, <2>10 DEF MediaInv
<1> QED BY <1>6, <1>7

(***************************************************************************)
(* The supervisor                                                          *)
(***************************************************************************)

LEMMA PcsTyped ==
    ASSUME Typed
    PROVE  /\ sup.pc \in Pcs /\ sup.ev \in MediaEvents
           /\ \A pc \in Pcs : [sup EXCEPT !.pc = pc] \in [pc : Pcs, ev : MediaEvents]
           /\ \A pc \in Pcs : [sup EXCEPT !.pc = pc].pc = pc /\ [sup EXCEPT !.pc = pc].ev = sup.ev
           /\ Idle \in [pc : Pcs, ev : MediaEvents] /\ Idle.pc = "idle"
           /\ \A ev \in MediaEvents : [pc |-> "accept", ev |-> ev] \in [pc : Pcs, ev : MediaEvents]
BY TypedParts DEF Idle, Pcs, MediaEvents

\* The supervisor takes an event, or has marked the listener bound.
LEMMA ReceiveKeeps ==
    ASSUME MediaInv, Receive \/ Bound
    PROVE  MediaInv' /\ RetiredStep /\ ResetStep
<1>1. Typed /\ ListenerCurrent
  BY DEF MediaInv
<1>2. CASE Receive
  <2>1. /\ sup.pc = "idle" /\ events # <<>>
        /\ sup' = [pc |-> "accept", ev |-> Head(events)] /\ events' = Tail(events)
        /\ UNCHANGED <<h, listener, probe, media, conf, polled, now, flow, fatal>>
    BY <1>2 DEF Receive, Calm
  <2>2. Head(events) \in MediaEvents /\ events' \in Seq(MediaEvents)
    BY <1>1, <2>1, TypedParts
  <2>3. sup' \in [pc : Pcs, ev : MediaEvents] /\ sup'.pc = "accept"
    BY <1>1, <2>1, <2>2, PcsTyped
  <2>4. Typed'
    BY <1>1, <2>1, <2>2, <2>3, TypedKeeps, TypedParts
  <2>5. ProbeTrue' /\ Retired' /\ Timers'
    BY <1>1, <2>1, <2>3, NotedKeeps, TypedParts DEF SameMedia, Awake
  <2>6. ListenerCurrent'
    BY <1>1, <2>1, <2>3 DEF ListenerCurrent, Rebuilding
  <2>7. RetiredStep /\ ResetStep
    BY <1>1, <2>1, PlainStep, TypedParts, FieldTypes
  <2> QED BY <2>4, <2>5, <2>6, <2>7 DEF MediaInv
<1>3. CASE Bound
  <2>1. /\ sup.pc = "bound" /\ h' = MarkListenerBound(h, listener.inst) /\ sup' = Idle
        /\ UNCHANGED <<listener, probe, media, conf, events, polled, now, flow, fatal>>
    BY <1>3 DEF Bound, Calm
  <2>2. /\ h' \in Health /\ SameMedia(h, h') /\ h'.fault = h.fault /\ h'.attempt = h.attempt
        /\ h'.state \in {h.state, "Listening"} /\ (Faulted(h) => h'.state = h.state)
    BY <1>1, <2>1, ListenerBound, TypedParts
  <2>3. sup' \in [pc : Pcs, ev : MediaEvents] /\ sup'.pc = "idle" /\ h'.inst = h.inst
    BY <1>1, <2>1, <2>2, PcsTyped DEF SameMedia
  <2>4. Typed'
    BY <1>1, <2>1, <2>2, <2>3, TypedKeeps, TypedParts
  <2>5. ProbeTrue' /\ Retired' /\ Timers'
    BY <2>1, <2>2, <2>3, NotedKeeps DEF Awake
  <2>6. ListenerCurrent'
    BY <1>1, <2>1, <2>3 DEF ListenerCurrent, Rebuilding
  <2>7. RetiredStep /\ ResetStep
    BY <1>1, <2>2, <2>3, PlainStep, TypedParts, FieldTypes
  <2> QED BY <2>4, <2>5, <2>6, <2>7 DEF MediaInv
<1> QED BY <1>2, <1>3

\* accept_fault: what is accepted has no active media afterwards, and a permanent
\* fault fails the generation.
LEMMA AcceptKeeps ==
    ASSUME MediaInv, Accept
    PROVE  MediaInv' /\ RetiredStep /\ ResetStep
<1> DEFINE e == sup.ev
           fault == e.kind = "fault"
           taken == IF fault THEN Accepts(h, e.fault) ELSE h.state \in {"Failed", "Recovering"}
<1>1. /\ Typed /\ ListenerCurrent /\ ProbeTrue /\ Retired /\ Timers
  BY DEF MediaInv
<1>2. /\ sup.pc = "accept"
      /\ h' = IF fault /\ taken THEN AcceptFault(h, e.fault) ELSE h
      /\ IF taken THEN SupGoto("retire") ELSE sup' = Idle
      /\ fatal' = (fatal \/ (taken /\ e.fault.kind = "PermanentGstError"))
      /\ UNCHANGED <<listener, probe, media, conf, events, now, polled, flow>>
  BY DEF Accept
<1>3. e \in MediaEvents /\ h \in Health /\ fatal \in BOOLEAN
  BY <1>1, PcsTyped DEF Typed
<1>4. /\ fault => e.fault \in Faults
      /\ ~fault => e.fault = NoFault
  BY <1>3 DEF MediaEvents, RetryEvent, FaultEvent
<1> HIDE DEF e, taken
<1>6. CASE ~taken
  <2>1. h' = h /\ sup' = Idle /\ fatal' = fatal
    BY <1>2, <1>3, <1>6
  <2>2. sup' \in [pc : Pcs, ev : MediaEvents] /\ sup'.pc = "idle"
    BY <1>1, <2>1, PcsTyped
  <2>3. Typed'
    BY <1>1, <1>2, <2>1, <2>2, TypedKeeps, TypedParts
  <2>4. ProbeTrue' /\ Retired' /\ Timers'
    BY <1>2, <1>3, <2>1, <2>2, NotedKeeps DEF SameMedia, Awake
  <2>5. ListenerCurrent'
    BY <1>1, <1>2, <2>1, <2>2 DEF ListenerCurrent, Rebuilding
  <2>6. RetiredStep /\ ResetStep
    BY <1>3, <2>1, PlainStep, FieldTypes
  <2> QED BY <2>3, <2>4, <2>5, <2>6 DEF MediaInv
<1>7. CASE taken
  <2>1. sup' = [sup EXCEPT !.pc = "retire"]
    BY <1>2, <1>7 DEF SupGoto
  <2>2. sup' \in [pc : Pcs, ev : MediaEvents] /\ sup'.pc = "retire" /\ sup'.ev = e
    BY <1>1, <2>1, PcsTyped DEF Pcs, e
  <2>3. /\ h' \in Health /\ h'.inst = h.inst /\ h'.fault = h.fault /\ h'.attempt = h.attempt
        /\ fault => /\ Faulted(h) /\ h.fault = e.fault /\ h'.active = 0
                    /\ h'.state = IF e.fault.kind = "PermanentGstError" THEN "Failed"
                                  ELSE "Recovering"
        /\ ~fault => h' = h
    BY <1>2, <1>3, <1>4, <1>7, AcceptFields DEF taken, Accepts
  <2>4. fatal' \in BOOLEAN
    BY <1>2, Zenon
  <2>5. Typed'
    BY <1>1, <1>2, <2>2, <2>3, <2>4 DEF Typed
  <2>6. ListenerCurrent'
    BY <1>1, <1>2, <2>2, <2>3 DEF ListenerCurrent, Rebuilding
  <2>7. ProbeTrue'
    BY <1>1, <1>2, <2>3 DEF ProbeTrue, Faulted
  <2>8. fatal' => fatal \/ (fault /\ e.fault.kind = "PermanentGstError")
    <3>1. fatal' => fatal \/ e.fault.kind = "PermanentGstError"
      BY <1>2, Zenon
    <3>2. ~fault => e.fault.kind # "PermanentGstError"
      BY <1>4 DEF NoFault
    <3> QED BY <3>1, <3>2, Zenon
  <2>9. Retired'
    <3>1. fatal => PermanentFailure(h) /\ h.state = "Failed"
      BY <1>1 DEF Retired
    <3>2. fatal' => PermanentFailure(h)' /\ h'.state = "Failed"
      BY <2>3, <2>8, <3>1 DEF PermanentFailure
    <3> QED BY <2>2, <2>3, <3>2 DEF Retired, Faulted
  <2>10. Timers'
    BY <2>2 DEF Timers, FlowTrue, Recent, Polled, Awake
  <2>11. RetiredStep /\ ResetStep
    BY <1>3, <2>3, PlainStep, FieldTypes
  <2> QED BY <2>5, <2>6, <2>7, <2>9, <2>10, <2>11 DEF MediaInv
<1> QED BY <1>6, <1>7

\* Without a listener there is no instance to shut down.
LEMMA ListenerOrNone ==
    ASSUME MediaInv
    PROVE  listener = NoServer \/ listener.inst = h.inst
<1>1. /\ listener \in [inst : Nat, loop : BOOLEAN] /\ h.inst # 0
      /\ listener.loop => listener.inst = h.inst
      /\ listener.inst \in {0, h.inst}
  BY TypedParts DEF MediaInv, ListenerCurrent
<1>2. CASE listener.inst = 0
  <2>1. ~listener.loop /\ listener = [inst |-> listener.inst, loop |-> listener.loop]
    BY <1>1, <1>2
  <2> QED BY <1>1, <1>2, <2>1 DEF NoServer
<1> QED BY <1>1, <1>2

\* shutdown: the retired instance's media ends with it, unless its loop is leaked;
\* only a permanent failure ends the recovery.
LEMMA RetireKeeps ==
    ASSUME MediaInv, Retire
    PROVE  MediaInv' /\ RetiredStep /\ ResetStep
<1> DEFINE i == listener.inst
           ended == IF listener = NoServer THEN h ELSE EndDataGeneration(h, i, probe[i].data)
<1>1. /\ Typed /\ ListenerCurrent /\ ProbeTrue /\ Retired /\ Timers
  BY DEF MediaInv
<1>2. /\ sup.pc = "retire" /\ listener' = NoServer
      /\ \/ /\ media' \subseteq media
            /\ probe' = [j \in DOMAIN probe |-> IF j = i THEN NoMedia ELSE probe[j]]
            /\ h' = LoopExited(ended, i, TRUE)
         \/ UNCHANGED <<media, probe, h>>
      /\ IF Terminal THEN sup' = Idle ELSE sup' = [sup EXCEPT !.pc = "schedule"]
      /\ UNCHANGED <<conf, events, polled, now, flow, fatal>>
  BY DEF Retire, Calm, SupGoto
<1>3. /\ h \in Health /\ h.inst \in Nat /\ h.inst # 0 /\ h.inst \in 1..h.inst
      /\ probe \in [1..h.inst -> [data : Nat, playing : BOOLEAN]] /\ DOMAIN probe = 1..h.inst
      /\ media \subseteq [inst : 1..h.inst, data : Nat \ {0}]
  BY <1>1, TypedParts
<1>4. /\ ended \in Health /\ ended.inst = h.inst /\ ended.fault = h.fault
      /\ ended.attempt = h.attempt /\ (ended = h \/ Cleared(ended))
      /\ ended.state \in {h.state, "Listening"} /\ (Faulted(h) => ended = h)
  BY <1>3, EndData DEF IsCurrentData
<1> HIDE DEF ended
<1>5. LET y == LoopExited(ended, i, TRUE)
      IN  /\ y \in Health /\ SameMedia(ended, y) /\ y.fault = h.fault
          /\ y.attempt = h.attempt /\ y.state = ended.state
  BY <1>4, LoopEnds
<1>6. /\ h' \in Health /\ h'.inst = h.inst /\ h'.fault = h.fault /\ h'.attempt = h.attempt
      /\ h'.state \in {h.state, "Listening"} /\ (Faulted(h) => h'.state = h.state)
      /\ h'.active \in {h.active, 0}
  BY <1>2, <1>3, <1>4, <1>5 DEF SameMedia, Cleared
<1>7. probe' \in [1..h.inst -> [data : Nat, playing : BOOLEAN]]
      /\ \A j \in 1..h.inst : probe'[j] \in {probe[j], NoMedia}
  <2>1. NoMedia \in [data : Nat, playing : BOOLEAN]
    BY DEF NoMedia
  <2> QED BY <1>2, <1>3, <2>1, ZenonT(60)
<1>8. NoMedia.data = 0 /\ ~NoMedia.playing
  BY DEF NoMedia
<1>9. ProbeTrue'
  <2>1. \A j \in 1..h.inst : probe'[j].playing => probe'[j].data # 0
    BY <1>1, <1>7, <1>8 DEF ProbeTrue
  <2>2. CASE probe'[h.inst] = NoMedia
    BY <1>6, <1>8, <2>1, <2>2 DEF ProbeTrue
  <2>3. CASE h' = h /\ probe'[h.inst] = probe[h.inst]
    BY <1>1, <2>1, <2>3 DEF ProbeTrue
  <2>4. CASE listener = NoServer
    <3>1. i = 0 /\ ended = h
      BY <2>4 DEF NoServer, ended
    <3>2. LoopExited(ended, i, TRUE) = h
      BY <1>3, <3>1 DEF LoopExited
    <3> QED BY <1>2, <1>3, <2>2, <2>3, <3>1, <3>2
  <2>5. CASE i = h.inst
    BY <1>2, <1>3, <2>2, <2>3, <2>5
  <2> QED BY <2>4, <2>5, ListenerOrNone
<1>10. /\ sup' \in [pc : Pcs, ev : MediaEvents]
       /\ IF Terminal THEN sup'.pc = "idle" ELSE sup'.pc = "schedule" /\ sup'.ev = sup.ev
  BY <1>1, <1>2, PcsTyped DEF Pcs
<1>11. NoServer \in [inst : Nat, loop : BOOLEAN] /\ ~NoServer.loop /\ NoServer.inst = 0
  BY DEF NoServer
<1>12. Typed'
  BY <1>1, <1>2, <1>3, <1>6, <1>7, <1>10, <1>11, TypedKeeps, TypedParts
<1>13. ListenerCurrent'
  BY <1>2, <1>11 DEF ListenerCurrent
<1>14. Terminal => Faulted(h)' /\ h'.state = "Failed"
  BY <1>6 DEF Terminal, PermanentFailure, Faulted, NoFault
<1>15. fatal => Terminal /\ PermanentFailure(h)' /\ h'.state = "Failed"
  BY <1>1, <1>6, <1>14 DEF Retired, Terminal, PermanentFailure
<1>16. Retired'
  <2>1. sup.ev.kind = "fault" => h'.active = 0
    BY <1>1, <1>2, <1>6 DEF Retired
  <2> QED BY <1>2, <1>10, <1>15, <2>1 DEF Retired, Rebuilding
<1>17. Timers'
  BY <1>10, <1>14 DEF Timers, FlowTrue, Recent, Polled, Awake
<1>18. RetiredStep /\ ResetStep
  BY <1>3, <1>6, PlainStep, FieldTypes
<1> QED BY <1>9, <1>12, <1>13, <1>16, <1>17, <1>18 DEF MediaInv

\* The supervisor's marks between shutdown and the next attempt.
LEMMA MarkKeeps ==
    ASSUME MediaInv, sup.pc \in Rebuilding, h' \in Health, SameMedia(h, h'),
           h'.fault = h.fault, h'.attempt >= h.attempt,
           h'.state \in {h.state, "Recovering", "Failed"},
           \E pc \in Rebuilding : sup' = [sup EXCEPT !.pc = pc],
           UNCHANGED <<listener, probe, media, conf, events, now, polled, flow, fatal>>
    PROVE  MediaInv' /\ RetiredStep /\ ResetStep
<1>1. /\ Typed /\ ListenerCurrent /\ ProbeTrue /\ Retired
  BY DEF MediaInv
<1>2. /\ sup' \in [pc : Pcs, ev : MediaEvents] /\ sup'.pc \in Rebuilding /\ sup'.ev = sup.ev
  BY <1>1, PcsTyped DEF Rebuilding, Pcs
<1>3. h'.inst = h.inst /\ (Faulted(h)' <=> Faulted(h))
  BY DEF SameMedia, Faulted
<1>4. Typed'
  BY <1>1, <1>2, <1>3, TypedKeeps, TypedParts
<1>5. ListenerCurrent'
  BY <1>1, <1>2, <1>3 DEF ListenerCurrent
<1>6. ProbeTrue'
  BY <1>1, <1>3 DEF ProbeTrue, SameMedia
<1>7. ~fatal
  BY <1>1 DEF Retired, Rebuilding
<1>8. Retired'
  BY <1>1, <1>2, <1>7 DEF Retired, SameMedia, Rebuilding
<1>9. Timers'
  BY <1>2 DEF Timers, FlowTrue, Recent, Polled, Awake, Rebuilding
<1>10. RetiredStep /\ ResetStep
  BY <1>1, <1>3, PlainStep, TypedParts
<1> QED BY <1>4, <1>5, <1>6, <1>8, <1>9, <1>10 DEF MediaInv

\* A new listener instance has a probe of its own; the older ones keep theirs.
LEMMA InstanceAdds ==
    ASSUME Typed, NewProbe, h' \in Health, h'.inst = h.inst + 1
    PROVE  /\ h'.inst \in Nat /\ h'.inst # 0
           /\ probe' \in [1..h'.inst -> [data : Nat, playing : BOOLEAN]]
           /\ probe'[h'.inst] = NoMedia
           /\ \A j \in 1..h'.inst : probe'[j] = NoMedia \/ (j \in 1..h.inst /\ probe'[j] = probe[j])
           /\ media \subseteq [inst : 1..h'.inst, data : Nat \ {0}]
           /\ conf \in [inst : 0..h'.inst, data : Nat]
<1>1. /\ h.inst \in Nat /\ probe \in [1..h.inst -> [data : Nat, playing : BOOLEAN]]
      /\ DOMAIN probe = 1..h.inst
      /\ media \subseteq [inst : 1..h.inst, data : Nat \ {0}]
      /\ conf \in [inst : 0..h.inst, data : Nat]
  BY TypedParts
<1>2. /\ h.inst + 1 \in Nat /\ h.inst + 1 # 0 /\ h.inst + 1 \in 1..h'.inst
      /\ h.inst + 1 \notin 1..h.inst
      /\ 1..h.inst \subseteq 1..h'.inst /\ 0..h.inst \subseteq 0..h'.inst
  BY <1>1
<1>3. NoMedia \in [data : Nat, playing : BOOLEAN]
  BY DEF NoMedia
<1>4. probe' = [j \in 1..h'.inst |-> IF j \in 1..h.inst THEN probe[j] ELSE NoMedia]
  BY <1>1 DEF NewProbe
<1>5. media \subseteq [inst : 1..h'.inst, data : Nat \ {0}] /\ conf \in [inst : 0..h'.inst, data : Nat]
  BY <1>1, <1>2
<1>6. probe' \in [1..h'.inst -> [data : Nat, playing : BOOLEAN]]
  BY <1>1, <1>3, <1>4
<1>7. \A j \in 1..h'.inst : probe'[j] = NoMedia \/ (j \in 1..h.inst /\ probe'[j] = probe[j])
  BY <1>4
<1> QED BY <1>2, <1>4, <1>5, <1>6, <1>7

\* What a new instance needs to keep the invariant: clean media and no fault, and
\* a supervisor that is not at a fault it accepted.
LEMMA NewInstanceKeeps ==
    ASSUME MediaInv, sup.pc \in Rebuilding, NewProbe, h' \in Health, h'.inst = h.inst + 1,
           Cleared(h'), ~Faulted(h'), h'.attempt = h.attempt,
           listener' \in [inst : Nat, loop : BOOLEAN],
           \/ sup' = [sup EXCEPT !.pc = "schedule"] /\ listener' = NoServer
           \/ sup' = [sup EXCEPT !.pc = "bound"] /\ listener'.inst = h'.inst,
           UNCHANGED <<media, conf, events, now, polled, flow, fatal>>
    PROVE  MediaInv' /\ RetiredStep /\ ResetStep
<1>1. /\ Typed /\ ListenerCurrent /\ ProbeTrue /\ Retired
  BY DEF MediaInv
<1>2. /\ h'.inst \in Nat /\ h'.inst # 0
      /\ probe' \in [1..h'.inst -> [data : Nat, playing : BOOLEAN]]
      /\ probe'[h'.inst] = NoMedia
      /\ \A j \in 1..h'.inst : probe'[j] = NoMedia \/ (j \in 1..h.inst /\ probe'[j] = probe[j])
      /\ media \subseteq [inst : 1..h'.inst, data : Nat \ {0}]
      /\ conf \in [inst : 0..h'.inst, data : Nat]
  BY <1>1, InstanceAdds
<1>3. /\ sup' \in [pc : Pcs, ev : MediaEvents] /\ sup'.pc \in {"schedule", "bound"}
      /\ sup'.ev = sup.ev /\ (sup'.pc = "schedule" => listener' = NoServer)
      /\ (listener' = NoServer \/ listener'.inst = h'.inst)
  BY <1>1, PcsTyped DEF Pcs
<1>4. NoMedia.data = 0 /\ ~NoMedia.playing /\ ~NoServer.loop /\ NoServer.inst = 0
  BY DEF NoMedia, NoServer
<1>5. Typed'
  BY <1>1, <1>2, <1>3 DEF Typed
<1>6. ListenerCurrent'
  BY <1>3, <1>4 DEF ListenerCurrent, Rebuilding
<1>7. ProbeTrue'
  BY <1>1, <1>2, <1>4 DEF ProbeTrue
<1>8. ~fatal /\ ~fatal'
  BY <1>1 DEF Retired, Rebuilding
<1>9. Retired'
  BY <1>3, <1>8 DEF Retired, Cleared
<1>10. Timers'
  BY DEF Timers, FlowTrue, Recent, Polled, Cleared
<1>11. h.inst \in Nat /\ h.attempt \in Nat /\ h'.inst # h.inst
  BY <1>1, FieldTypes, TypedParts
<1>12. RetiredStep /\ ResetStep
  BY <1>8, <1>11 DEF RetiredStep, ResetStep
<1> QED BY <1>5, <1>6, <1>7, <1>9, <1>10, <1>12 DEF MediaInv

\* The delay, and an attempt that fails before or after it began an instance.
LEMMA RebuildKeeps ==
    ASSUME MediaInv, Schedule \/ Wake \/ BuildFails
    PROVE  MediaInv' /\ RetiredStep /\ ResetStep
<1>1. Typed /\ h \in Health /\ ListenerCurrent
  BY TypedParts DEF MediaInv
<1>2. CASE Schedule \/ Wake
  <2>1. /\ sup.pc \in Rebuilding
        /\ h' \in {ScheduleRecoveryAttempt(h), MarkRecoveryInProgress(h)}
        /\ \E pc \in Rebuilding : sup' = [sup EXCEPT !.pc = pc]
        /\ UNCHANGED <<listener, probe, media, conf, events, now, polled, flow, fatal>>
    BY <1>2 DEF Schedule, Wake, SupGoto, Calm, Rebuilding
  <2>2. /\ h' \in Health /\ SameMedia(h, h') /\ h'.fault = h.fault /\ h'.attempt >= h.attempt
        /\ h'.state \in {h.state, "Recovering", "Failed"}
    BY <1>1, <2>1, Marks
  <2> QED BY <2>1, <2>2, MarkKeeps
<1>3. CASE BuildFails
  <2>1. /\ sup.pc = "build" /\ sup.pc \in Rebuilding /\ Attempt(h') /\ NewProbe
        /\ sup' = [sup EXCEPT !.pc = "schedule"] /\ "schedule" \in Rebuilding
        /\ UNCHANGED <<listener, media, conf, events, now, polled, flow, fatal>>
    BY <1>3 DEF BuildFails, SupGoto, Calm, Rebuilding
  <2> DEFINE unresolved == MarkResolutionFailed(h)
  <2>2. /\ unresolved \in Health /\ SameMedia(h, unresolved) /\ unresolved.fault = h.fault
        /\ unresolved.attempt >= h.attempt
        /\ unresolved.state \in {h.state, "Recovering", "Failed"}
    BY <1>1, Marks
  <2> HIDE DEF unresolved
  <2>3. CASE h' \in {unresolved, ForceMaxBackoff(unresolved)}
    <3>1. /\ ForceMaxBackoff(unresolved) \in Health
          /\ SameMedia(unresolved, ForceMaxBackoff(unresolved))
          /\ ForceMaxBackoff(unresolved).fault = unresolved.fault
          /\ ForceMaxBackoff(unresolved).attempt >= unresolved.attempt
          /\ ForceMaxBackoff(unresolved).state = unresolved.state
      <4>1. ForceMaxBackoff(unresolved).state = unresolved.state
        BY <2>2 DEF ForceMaxBackoff, Health
      <4> QED BY <2>2, <4>1, Marks
    <3>2. h.attempt \in Nat /\ unresolved.attempt \in Nat /\ ForceMaxBackoff(unresolved).attempt \in Nat
      BY <1>1, <2>2, <3>1, FieldTypes
    <3>3. h' \in Health /\ SameMedia(h, h') /\ h'.fault = h.fault
      BY <2>2, <2>3, <3>1 DEF SameMedia
    <3>4. h'.attempt >= h.attempt /\ h'.state \in {h.state, "Recovering", "Failed"}
      BY <2>2, <2>3, <3>1, <3>2
    <3>5. UNCHANGED probe
      <4>1. h'.inst = h.inst /\ probe \in [1..h.inst -> [data : Nat, playing : BOOLEAN]]
        BY <1>1, <3>3, TypedParts DEF SameMedia
      <4> QED BY <2>1, <4>1 DEF NewProbe
    <3> QED BY <2>1, <3>3, <3>4, <3>5, MarkKeeps
  <2>4. CASE \E bind \in BOOLEAN :
               h' = MarkBuildFailed(BeginServerInstance(h, TRUE), h.inst + 1, bind)
    <3> DEFINE begun == BeginServerInstance(h, TRUE)
    <3>1. /\ begun \in Health /\ begun.inst = h.inst + 1 /\ ~Faulted(begun) /\ Cleared(begun)
          /\ begun.attempt = h.attempt
      BY <1>1, BeginInstance
    <3> HIDE DEF begun
    <3>2. PICK bind \in BOOLEAN : h' = MarkBuildFailed(begun, h.inst + 1, bind)
      BY <2>4 DEF begun
    <3>3. /\ h' \in Health /\ SameMedia(begun, h') /\ h'.fault = begun.fault
          /\ h'.attempt = begun.attempt
      BY <3>1, <3>2, BuildFailed
    <3>4. h'.inst = h.inst + 1 /\ Cleared(h') /\ ~Faulted(h') /\ h'.attempt = h.attempt
      BY <3>1, <3>3 DEF SameMedia, Cleared, Faulted
    <3>5. listener' = NoServer /\ listener' \in [inst : Nat, loop : BOOLEAN]
      BY <1>1, <2>1, TypedParts DEF ListenerCurrent
    <3> QED BY <2>1, <3>3, <3>4, <3>5, NewInstanceKeeps
  <2> QED BY <2>1, <2>3, <2>4 DEF Attempt, unresolved
<1> QED BY <1>2, <1>3

\* The listener is built and its loop runs.
LEMMA BuildKeeps ==
    ASSUME MediaInv, Build
    PROVE  MediaInv' /\ RetiredStep /\ ResetStep
<1> DEFINE begun == BeginServerInstance(h, TRUE)
<1>1. /\ h \in Health /\ h.inst \in Nat
  BY TypedParts DEF MediaInv
<1>2. /\ begun \in Health /\ begun.inst = h.inst + 1 /\ ~Faulted(begun) /\ Cleared(begun)
      /\ begun.attempt = h.attempt
  BY <1>1, BeginInstance
<1> HIDE DEF begun
<1>3. /\ sup.pc \in Rebuilding /\ h' = LoopStarted(begun, h.inst + 1)
      /\ listener' = [inst |-> h.inst + 1, loop |-> TRUE] /\ NewProbe
      /\ sup' = [sup EXCEPT !.pc = "bound"]
      /\ UNCHANGED <<media, conf, events, now, polled, flow, fatal>>
  BY DEF Build, Attached, SupGoto, Calm, begun, Rebuilding
<1>4. /\ h' \in Health /\ SameMedia(begun, h') /\ h'.fault = begun.fault
      /\ h'.attempt = begun.attempt
  BY <1>2, <1>3, LoopRuns
<1>5. h'.inst = h.inst + 1 /\ Cleared(h') /\ ~Faulted(h') /\ h'.attempt = h.attempt
  BY <1>2, <1>4 DEF SameMedia, Cleared, Faulted
<1>6. listener' \in [inst : Nat, loop : BOOLEAN] /\ listener'.inst = h'.inst
  BY <1>1, <1>3, <1>5
<1> QED BY <1>3, <1>4, <1>5, <1>6, NewInstanceKeeps

\* The clock moves on only after a poll while the supervisor is awake.
LEMMA TickKeeps ==
    ASSUME MediaInv, Tick
    PROVE  MediaInv' /\ RetiredStep /\ ResetStep
<1>1. /\ Typed /\ ListenerCurrent /\ ProbeTrue /\ Retired /\ Timers
  BY DEF MediaInv
<1>2. /\ sup.pc = "idle" => polled
      /\ sup.pc # "idle" => sup.pc \in {"retire", "backoff", "build"}
      /\ now' = now + 1 /\ polled' = FALSE
      /\ UNCHANGED <<h, listener, probe, media, conf, events, sup, flow, fatal>>
  BY DEF Tick
<1>3. now \in Nat /\ h \in Health /\ flow \in [from : Int, last : Int] /\ flow.from <= now
  BY <1>1, TypedParts
<1>4. now + 1 \in Nat /\ flow.from <= now + 1
  BY <1>3
<1>5. polled' \in BOOLEAN
  BY <1>2
<1>6. Typed'
  BY <1>1, <1>2, <1>4, <1>5 DEF Typed
<1>7. ListenerCurrent' /\ ProbeTrue' /\ Retired'
  BY <1>1, <1>2 DEF ListenerCurrent, ProbeTrue, Retired
<1>8. Timers'
  <2> SUFFICES ASSUME Ingest = "rtsp" PROVE FlowTrue' /\ Recent' /\ Polled'
    BY DEF Timers
  <2>1. FlowTrue /\ Recent
    BY <1>1 DEF Timers
  <2>2. FlowTrue'
    BY <1>2, <2>1 DEF FlowTrue
  <2>3. h.last \in Int
    BY <1>3, FieldTypes
  <2>4. sup.pc \in Awake => sup.pc = "idle" /\ polled
    BY <1>2 DEF Awake
  <2>5. Recent'
    BY <1>2, <1>3, <2>1, <2>3, <2>4 DEF Recent
  <2>6. Polled'
    BY <1>2 DEF Polled
  <2> QED BY <2>2, <2>5, <2>6
<1>9. RetiredStep /\ ResetStep
  BY <1>2, <1>3, PlainStep, FieldTypes
<1> QED BY <1>6, <1>7, <1>8, <1>9 DEF MediaInv

\* A poll: afterwards no deadline is overdue, and a reset follows a whole window of
\* uninterrupted delivery.
LEMMA PollKeeps ==
    ASSUME MediaInv, Poll
    PROVE  MediaInv' /\ RetiredStep /\ ResetStep
<1> DEFINE rtsp == Ingest = "rtsp"
<1>1. /\ Typed /\ ListenerCurrent /\ ProbeTrue /\ Retired /\ Timers
  BY DEF MediaInv
<1>2. /\ sup.pc = "idle" /\ polled' = TRUE
      /\ UNCHANGED <<listener, probe, media, conf, events, now, flow, fatal>>
      /\ sup' = IF Faulted(h') /\ ~Faulted(h)
                THEN [pc |-> "accept", ev |-> FaultEvent(h'.fault)] ELSE sup
      /\ \/ h' = EvaluateWatchdog(h, rtsp, now)
         \/ \E m \in media : /\ m.inst = listener.inst /\ WithCurrent(m)
                             /\ h' = ReportFault(h, m.inst, m.data, "MediaStatusError")
  BY DEF Poll, Calm
<1>3. /\ h \in Health /\ now \in Nat /\ h.inst # 0 /\ flow \in [from : Int, last : Int]
      /\ h.attempt \in Nat /\ h.healthy \in Int /\ h.last \in Int
  BY <1>1, TypedParts, FieldTypes
<1>4. WatchdogResult(h, rtsp, now, h') \/ (/\ h' \in Health /\ SameMedia(h, h') /\ Faulted(h')
                                           /\ (Faulted(h) => h' = h)
                                           /\ h'.attempt = h.attempt /\ h'.state = h.state)
  <2>1. CASE h' = EvaluateWatchdog(h, rtsp, now)
    <3>1. rtsp \in BOOLEAN
      BY Zenon
    <3> HIDE DEF rtsp
    <3> QED BY <1>3, <2>1, <3>1, WatchdogFields
  <2>2. ASSUME NEW m \in media, m.inst = listener.inst, WithCurrent(m),
               h' = ReportFault(h, m.inst, m.data, "MediaStatusError")
        PROVE  /\ h' \in Health /\ SameMedia(h, h') /\ Faulted(h') /\ (Faulted(h) => h' = h)
               /\ h'.attempt = h.attempt /\ h'.state = h.state
    <3>1. /\ m.inst \in 1..h.inst /\ m.data \in Nat
          /\ m.inst = h.inst /\ ~Faulted(h) => IsCurrentData(h, m.inst, m.data)
      BY <2>2, CurrentPipeline
    <3>2. m.inst = h.inst
      BY <1>1, <2>2, <3>1 DEF ListenerCurrent
    <3>3. "MediaStatusError" \in FaultKinds
      BY DEF FaultKinds
    <3> QED BY <1>3, <2>2, <3>1, <3>2, <3>3, ReportFields
  <2> QED BY <1>2, <2>1, <2>2
<1>5. /\ h' \in Health /\ h'.inst = h.inst /\ h'.active = h.active /\ h'.armed = h.armed
      /\ h'.last = h.last /\ h'.state = h.state /\ (Faulted(h) => h'.fault = h.fault)
      /\ h'.healthy = Never \/ (h'.healthy = h.healthy /\ h'.warned = h.warned)
  BY <1>4 DEF WatchdogResult, SameMedia
<1>6. Faulted(h) => Faulted(h)'
  BY <1>5 DEF Faulted
<1>7. sup' \in [pc : Pcs, ev : MediaEvents] /\ sup'.pc \in {"idle", "accept"}
  <2>1. FaultEvent(h'.fault) \in MediaEvents
    BY <1>5, FieldTypes DEF MediaEvents
  <2> QED BY <1>1, <1>2, <2>1, PcsTyped, TypedParts
<1>8. polled' \in BOOLEAN
  BY <1>2
<1>9. Typed'
  BY <1>1, <1>2, <1>5, <1>7, <1>8 DEF Typed
<1>10. ListenerCurrent'
  BY <1>1, <1>2, <1>5, <1>7 DEF ListenerCurrent, Rebuilding
<1>11. ProbeTrue'
  BY <1>1, <1>2, <1>5, <1>6 DEF ProbeTrue
<1>12. Retired'
  BY <1>1, <1>2, <1>5, <1>7 DEF Retired, Rebuilding, PermanentFailure, Faulted, NoFault
<1>13. Timers'
  <2> SUFFICES ASSUME rtsp PROVE FlowTrue' /\ Recent' /\ Polled'
    BY DEF Timers
  <2>1. FlowTrue /\ Recent /\ Polled /\ sup.pc \in Awake
    BY <1>1, <1>2 DEF Timers, Awake
  <2>2. FlowTrue'
    BY <1>2, <1>5, <1>6, <2>1 DEF FlowTrue
  <2>3. ~Faulted(h') => WatchdogResult(h, rtsp, now, h')
    BY <1>4
  <2>4. Recent'
    <3> SUFFICES ASSUME h'.healthy # Never, ~Faulted(h')
                 PROVE  /\ h'.active # 0 /\ h'.last # Never /\ flow.last = h'.last /\ ~h'.warned
                        /\ now - h'.last < 2 /\ now - h'.last < 1
      BY <1>2 DEF Recent
    <3>1. /\ h.active # 0 /\ h.last # Never /\ flow.last = h.last /\ ~h.warned
          /\ h'.warned = h.warned /\ now - h.last < 2
      BY <1>5, <1>6, <2>1 DEF Recent
    <3>2. ~(now - h.last >= 1)
      BY <2>3, <3>1 DEF WatchdogResult
    <3>3. now - h.last < 1
      BY <1>3, <3>2
    <3> QED BY <1>5, <3>1, <3>3
  <2>5. Polled'
    BY <1>2, <1>5, <2>3 DEF Polled, WatchdogResult
  <2> QED BY <2>2, <2>4, <2>5
<1>14. RetiredStep
  BY <1>5 DEF RetiredStep
<1>15. ResetStep
  <2> SUFFICES ASSUME rtsp, h.attempt > 0, h'.attempt = 0
               PROVE  flow.last # Never /\ now - flow.from >= HealthyResetWindow
    BY DEF ResetStep
  <2>1. h.state = "Streaming" /\ h.healthy # Never /\ now - h.healthy >= HealthyResetWindow
    BY <1>3, <1>4 DEF WatchdogResult
  <2>2. flow.last # Never /\ flow.from <= h.healthy
    BY <1>1, <1>2, <2>1 DEF Timers, FlowTrue, Awake
  <2> QED BY <1>3, <2>1, <2>2 DEF HealthyResetWindow
<1> QED BY <1>9, <1>10, <1>11, <1>12, <1>13, <1>14, <1>15 DEF MediaInv

(***************************************************************************)
(* The generation                                                          *)
(***************************************************************************)

LEMMA InitHolds == Init => MediaInv
<1> SUFFICES ASSUME Init PROVE MediaInv
  OBVIOUS
<1> DEFINE begun == BeginServerInstance(NewHealth, FALSE)
           runs == LoopStarted(begun, 1)
<1>1. NewHealth \in Health /\ NewHealth.inst = 0
  <2>1. Never \in Int /\ 0 \in Nat /\ FALSE \in BOOLEAN /\ "Starting" \in States /\ NoFault \in Faults
    BY DEF Never, States, Faults
  <2> QED BY <2>1, Zenon DEF NewHealth, Health
<1>2. begun \in Health /\ begun.inst = 1 /\ ~Faulted(begun) /\ Cleared(begun)
  <2>1. FALSE \in BOOLEAN
    OBVIOUS
  <2>2. begun \in Health /\ begun.inst = NewHealth.inst + 1 /\ ~Faulted(begun) /\ Cleared(begun)
    BY <1>1, <2>1, BeginInstance, Zenon
  <2> HIDE DEF begun
  <2> QED BY <1>1, <2>2
<1> HIDE DEF begun
<1>3. runs \in Health /\ SameMedia(begun, runs) /\ runs.fault = begun.fault
  BY <1>2, LoopRuns
<1> HIDE DEF runs
<1>4. /\ h = MarkListenerBound(runs, 1) /\ listener = [inst |-> 1, loop |-> TRUE]
      /\ probe = <<NoMedia>> /\ media = {} /\ conf = NoPipe /\ events = <<>> /\ sup = Idle
      /\ now = 0 /\ polled = FALSE /\ flow = NoFlow /\ fatal = FALSE
  BY DEF Init, runs, begun
<1>5. h \in Health /\ SameMedia(runs, h) /\ h.fault = runs.fault
  BY <1>3, <1>4, ListenerBound
<1>6. h.inst = 1 /\ Cleared(h)
  BY <1>2, <1>3, <1>5 DEF SameMedia, Cleared
<1>7. /\ probe \in [1..h.inst -> [data : Nat, playing : BOOLEAN]]
      /\ \A j \in 1..h.inst : probe[j] = NoMedia
  <2>1. NoMedia \in [data : Nat, playing : BOOLEAN]
    BY DEF NoMedia
  <2> QED BY <1>4, <1>6, <2>1
<1>8. /\ sup \in [pc : Pcs, ev : MediaEvents] /\ sup.pc = "idle"
  BY <1>4 DEF Idle, Pcs, MediaEvents
<1>9. Typed
  <2>1. flow \in [from : Int, last : Int] /\ flow.from <= now /\ now \in Nat
    BY <1>4 DEF NoFlow, Never
  <2>2. polled \in BOOLEAN /\ fatal \in BOOLEAN /\ listener \in [inst : Nat, loop : BOOLEAN]
    <3>1. 1 \in Nat /\ TRUE \in BOOLEAN /\ FALSE \in BOOLEAN
      OBVIOUS
    <3> QED BY <1>4, <3>1, Zenon
  <2>3. /\ media \subseteq [inst : 1..h.inst, data : Nat \ {0}]
        /\ conf \in [inst : 0..h.inst, data : Nat] /\ conf.data = 0
        /\ events \in Seq(MediaEvents)
    BY <1>4, <1>6 DEF NoPipe
  <2> QED BY <1>5, <1>6, <1>7, <1>8, <2>1, <2>2, <2>3 DEF Typed
<1>10. ListenerCurrent
  BY <1>4, <1>6, <1>8 DEF ListenerCurrent, Rebuilding
<1>11. NoMedia.data = 0 /\ ~NoMedia.playing /\ 1 \in 1..h.inst
  BY <1>6 DEF NoMedia
<1>12. ProbeTrue
  BY <1>6, <1>7, <1>11 DEF ProbeTrue
<1>13. Retired
  BY <1>4, <1>8 DEF Retired, Rebuilding
<1>14. Timers
  BY <1>6 DEF Timers, FlowTrue, Recent, Polled, Cleared
<1> QED BY <1>9, <1>10, <1>12, <1>13, <1>14 DEF MediaInv

\* Every step keeps the invariant, resets nothing unearned and revives nothing retired.
LEMMA NextKeeps ==
    ASSUME MediaInv, Next
    PROVE  MediaInv' /\ RetiredStep /\ ResetStep
<1>1. CASE Callback
  <2>1. CASE Construct
    BY <2>1, ConstructKeeps
  <2>2. CASE LoopDies
    BY <2>2, FaultKeeps
  <2>3. ASSUME NEW m \in media,
               \/ BeforeSend(m) \/ Prepared(m) \/ Buffer(m) \/ Unprepared(m)
               \/ \E playing \in BOOLEAN : TargetState(m, playing)
               \/ \E kind \in FaultKinds : Message(m, kind)
        PROVE  MediaInv' /\ RetiredStep /\ ResetStep
    <3>1. CASE BeforeSend(m)
      BY <3>1, GuardKeeps
    <3>2. CASE Prepared(m) \/ \E playing \in BOOLEAN : TargetState(m, playing)
      BY <3>2, ArmKeeps
    <3>3. CASE Buffer(m)
      BY <3>3, BufferKeeps
    <3>4. CASE Unprepared(m)
      BY <3>4, UnpreparedKeeps
    <3>5. CASE \E kind \in FaultKinds : Message(m, kind)
      BY <3>5, FaultKeeps
    <3> QED BY <2>3, <3>1, <3>2, <3>3, <3>4, <3>5
  <2> QED BY <1>1, <2>1, <2>2, <2>3 DEF Callback
<1>2. CASE Configure
  BY <1>2, GuardKeeps
<1>3. CASE Supervise
  BY <1>3, ReceiveKeeps, AcceptKeeps, RetireKeeps, RebuildKeeps, BuildKeeps DEF Supervise
<1>4. CASE Poll
  BY <1>4, PollKeeps
<1>5. CASE Tick
  BY <1>5, TickKeeps
<1> QED BY <1>1, <1>2, <1>3, <1>4, <1>5 DEF Next

LEMMA StutterKeeps ==
    ASSUME MediaInv, UNCHANGED vars
    PROVE  MediaInv' /\ RetiredStep /\ ResetStep
<1>1. MediaInv'
  BY DEF vars, MediaInv, Typed, ListenerCurrent, ProbeTrue, Retired, Timers, FlowTrue, Recent, Polled
<1>2. h' = h /\ h \in Health /\ h.attempt \in Nat
  BY TypedParts, FieldTypes DEF vars, MediaInv
<1> QED BY <1>1, <1>2, PlainStep

\* The inductive invariant of the generation.
THEOREM MediaInvariant == Spec => []MediaInv
<1>1. MediaInv /\ [Next]_vars => MediaInv'
  BY NextKeeps, StutterKeeps
<1> QED BY <1>1, InitHolds, PTL DEF Spec

\* No camera pipeline that plays stays silent past its deadline: at every poll the
\* supervisor has recorded a fault, or output or the first-buffer deadline is still
\* recent, whatever the clients, listeners and faults before it.
THEOREM SilenceIsNoticed == Spec => []SilenceNoticed
<1>1. MediaInv => SilenceNoticed
  <2> SUFFICES ASSUME MediaInv, Ingest = "rtsp", sup.pc = "idle", polled, ~Faulted(h),
                      probe[h.inst].playing
               PROVE  \/ h.armed # Never /\ now - h.armed < FirstBufferTimeout
                      \/ h.last # Never /\ now - h.last < StallConfirmation
    BY DEF SilenceNoticed
  <2>1. h.inst \in 1..h.inst
    BY TypedParts DEF MediaInv
  <2>2. probe[h.inst].data # 0 /\ h.active = probe[h.inst].data
        /\ (h.armed # Never \/ h.last # Never)
    BY <2>1 DEF MediaInv, ProbeTrue
  <2>3. Polled /\ sup.pc \in Awake
    BY DEF MediaInv, Timers, Awake
  <2> QED BY <2>2, <2>3 DEF Polled
<1> QED BY <1>1, MediaInvariant, PTL

\* After a fault was accepted no callback of the old media makes the relay stream
\* before the next listener instance, and after a permanent one there is none.
THEOREM RetiredMediaStays == Spec => RetiredStays
<1>1. MediaInv /\ [Next]_vars =>
        [/\ /\ sup.pc \in {"retire", "schedule", "backoff", "build"}
            /\ sup.ev.kind = "fault" /\ h'.inst = h.inst
            => ~(h'.state = "Streaming" /\ h.state # "Streaming")
         /\ fatal => h'.inst = h.inst]_vars
  BY NextKeeps DEF RetiredStep
<1> QED BY <1>1, MediaInvariant, PTL DEF Spec, RetiredStays

\* With a camera ingest the backoff starts over only after output has flowed without
\* interruption for the whole window.  (A UDP ingest is exempt from the stall warning
\* that interrupts it.)
THEOREM ResetIsEarned ==
    ASSUME Ingest = "rtsp"
    PROVE  Spec => ResetEarned
<1>1. MediaInv /\ [Next]_vars =>
        [h.attempt > 0 /\ h'.attempt = 0
           => flow.last # Never /\ now - flow.from >= HealthyResetWindow]_vars
  BY NextKeeps DEF ResetStep
<1> QED BY <1>1, MediaInvariant, PTL DEF Spec, ResetEarned
=============================================================================
