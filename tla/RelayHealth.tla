---------------------------- MODULE RelayHealth ----------------------------
(***************************************************************************)
(* RelayRuntimeHealth (streaming/relay.rs): the record shared by GStreamer *)
(* callbacks, the relay supervisor and the relay service.  Every method    *)
(* takes the record's mutex once and never awaits, so each is one function *)
(* from record to record.  Instants are ticks of five seconds, the grain   *)
(* of the stall window; Never stands for None.                             *)
(***************************************************************************)
EXTENDS Integers

Never == -1
FirstBufferTimeout == 3     \* 15 s
StallWindow == 1            \*  5 s
StallConfirmation == 2      \* 10 s
HealthyResetWindow == 6     \* 30 s
RecoveryStages == 6         \* RECOVERY_DELAYS.len()
ReresolveAfter == 3         \* consecutive bind failures

States == {"Stopped", "Listening", "Starting", "Streaming", "Recovering", "Failed"}
FaultKinds == {"GstError", "PermanentGstError", "Eos", "MediaStatusError", "Capability",
               "FirstBufferTimeout", "BufferStall", "MainLoopExited"}

\* RelayFault without its text; the generation is the record's own.
NoFault == [kind |-> "none", data |-> 0]
Faults == [kind : FaultKinds, data : Nat] \cup {NoFault}

Health == [inst : Nat,            \* server_instance
           state : States,
           data : Nat,            \* data_generation
           active : Nat,          \* active_data_generation, 0 for None
           armed : Int,           \* first_buffer_armed_at
           last : Int,            \* last_buffer_at
           healthy : Int,         \* healthy_since
           warned : BOOLEAN,      \* stall_warning_emitted
           fault : Faults,        \* first_fault
           alive : BOOLEAN,       \* loop_alive
           bindFailures : Nat,    \* consecutive_bind_failures
           attempt : Nat]         \* recovery_attempt

\* RelayRuntimeHealth::new
NewHealth == [inst |-> 0, state |-> "Starting", data |-> 0, active |-> 0,
              armed |-> Never, last |-> Never, healthy |-> Never,
              warned |-> FALSE, fault |-> NoFault, alive |-> FALSE,
              bindFailures |-> 0, attempt |-> 0]

Faulted(h) == h.fault # NoFault
PermanentFailure(h) == h.fault.kind = "PermanentGstError"
UpstreamAllowed(h) == h.state # "Stopped" /\ ~Faulted(h)
LoopAliveFor(h, inst) == h.inst = inst /\ h.alive
ShouldReresolve(h) == h.bindFailures >= ReresolveAfter

\* The media of a new instance or data generation starts with clean timers.
Clear(h) == [h EXCEPT !.active = 0, !.armed = Never, !.last = Never,
                      !.healthy = Never, !.warned = FALSE]

(***************************************************************************)
(* Listener instances.                                                     *)
(***************************************************************************)

BeginServerInstance(h, recovering) ==
    [Clear(h) EXCEPT !.inst = @ + 1, !.fault = NoFault, !.alive = FALSE,
                     !.state = IF recovering THEN "Recovering" ELSE "Starting"]

LoopStarted(h, inst) == [h EXCEPT !.alive = @ \/ h.inst = inst]

MarkListenerBound(h, inst) ==
    IF h.inst # inst THEN h
    ELSE [h EXCEPT !.bindFailures = 0,
                   !.state = IF Faulted(h) \/ h.active # 0 THEN @ ELSE "Listening"]

MarkBuildFailed(h, inst, bindFailure) ==
    IF h.inst # inst THEN h
    ELSE [h EXCEPT !.alive = FALSE, !.state = "Failed",
                   !.bindFailures = IF bindFailure THEN @ + 1 ELSE 0]

ScheduleRecoveryAttempt(h) == [h EXCEPT !.attempt = @ + 1]
MarkRecoveryInProgress(h) == [h EXCEPT !.state = "Recovering"]
MarkResolutionFailed(h) == [h EXCEPT !.alive = FALSE, !.state = "Failed"]
ForceMaxBackoff(h) ==
    [h EXCEPT !.attempt = IF @ < RecoveryStages THEN RecoveryStages ELSE @]

Stop(h) == [Clear(h) EXCEPT !.warned = h.warned, !.fault = NoFault,
                            !.alive = FALSE, !.state = "Stopped"]

(***************************************************************************)
(* Media of one instance.                                                  *)
(***************************************************************************)

\* The caller also learns whether a data generation was given out.
MayBeginData(h, inst) == h.inst = inst /\ ~Faulted(h)
BeginDataGeneration(h, inst) ==
    IF MayBeginData(h, inst)
    THEN [Clear(h) EXCEPT !.data = @ + 1, !.active = h.data + 1,
                          !.state = "Starting"]
    ELSE h

IsCurrentData(h, inst, data) ==
    h.inst = inst /\ h.active = data /\ data # 0 /\ ~Faulted(h)

ArmFirstBuffer(h, inst, data, now) ==
    IF IsCurrentData(h, inst, data) /\ h.last = Never
    THEN [h EXCEPT !.armed = now,
                   !.state = IF @ = "Listening" THEN "Starting" ELSE @]
    ELSE h

DisarmFirstBuffer(h, inst, data) ==
    IF IsCurrentData(h, inst, data) /\ h.last = Never
    THEN [h EXCEPT !.armed = Never] ELSE h

EndDataGeneration(h, inst, data) ==
    IF IsCurrentData(h, inst, data)
    THEN [Clear(h) EXCEPT !.state =
            IF @ \notin {"Recovering", "Failed"} /\ h.alive THEN "Listening" ELSE @]
    ELSE h

ObserveBuffer(h, inst, data, now) ==
    IF IsCurrentData(h, inst, data)
    THEN [h EXCEPT !.last = now, !.warned = FALSE,
                   !.healthy = IF @ = Never THEN now ELSE @,
                   !.state = IF @ \in {"Starting", "Recovering", "Listening"}
                             THEN "Streaming" ELSE @]
    ELSE h

\* An eager source that is exempt from the silence watchdog is healthy as
\* soon as its output pipeline plays.
ReportStreaming(h, inst, data, now) ==
    IF IsCurrentData(h, inst, data)
    THEN [h EXCEPT !.armed = Never, !.state = "Streaming",
                   !.healthy = IF @ = Never THEN now ELSE @]
    ELSE h

(***************************************************************************)
(* Faults.  A caller sends an event exactly when the record goes from no   *)
(* fault to one (record_fault_locked returns Some).                        *)
(***************************************************************************)

RecordFault(h, kind, data) ==
    IF Faulted(h) THEN h ELSE [h EXCEPT !.fault = [kind |-> kind, data |-> data]]

ReportFault(h, inst, data, kind) ==
    IF IsCurrentData(h, inst, data) THEN RecordFault(h, kind, data) ELSE h

LoopExited(h, inst, intentional) ==
    IF h.inst # inst THEN h
    ELSE LET dead == [h EXCEPT !.alive = FALSE]
         IN IF intentional THEN dead
            ELSE RecordFault(dead, "MainLoopExited",
                             IF h.active # 0 THEN h.active ELSE h.data)

Accepts(h, fault) == Faulted(h) /\ h.fault = fault

\* A bug: an accepted fault no longer fences the media that failed.
AcceptForgetting(h, fault) ==
    [h EXCEPT !.fault = NoFault, !.healthy = Never, !.state = "Recovering"]

AcceptFault(h, fault) ==
    [h EXCEPT !.active = 0, !.armed = Never, !.healthy = Never,
              !.state = IF fault.kind = "PermanentGstError"
                        THEN "Failed" ELSE "Recovering"]

\* A bug: a window is over only after its last instant.
OverdueLate(since, window, now) == now - since > window

Overdue(since, window, now) == now - since >= window

\* A bug: the warning does not interrupt the healthy window.
WarnOnly(h) == [h EXCEPT !.warned = TRUE]

\* The first silent window of a stall interrupts the healthy window.
Warn(h) == [h EXCEPT !.warned = TRUE, !.healthy = Never]

\* evaluate_watchdog: the healthy reset, then the deadlines of an RTSP ingest.
EvaluateWatchdog(h, rtsp, now) ==
    LET healed == /\ h.state = "Streaming" /\ h.healthy # Never
                  /\ Overdue(h.healthy, HealthyResetWindow, now)
        reset == IF healed THEN [h EXCEPT !.attempt = 0] ELSE h
        stalled == Overdue(h.last, StallWindow, now) /\ ~h.warned
        warned == IF stalled THEN Warn(reset) ELSE reset
    IN IF ~rtsp \/ Faulted(h) \/ h.active = 0 \/ (h.armed = Never /\ h.last = Never)
       THEN reset
       ELSE IF h.last = Never
       THEN IF Overdue(h.armed, FirstBufferTimeout, now)
            THEN RecordFault(reset, "FirstBufferTimeout", h.active) ELSE reset
       ELSE IF Overdue(h.last, StallConfirmation, now)
            THEN RecordFault(warned, "BufferStall", h.active) ELSE warned
=============================================================================
