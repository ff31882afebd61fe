----------------------------- MODULE RelayMedia -----------------------------
(***************************************************************************)
(* The media side of one relay generation: the RTSP listener's clients and *)
(* their pipelines, which report through RtspRuntimeProbe to the health    *)
(* record (streaming/rtsp_server.rs, streaming/relay.rs), and the relay    *)
(* supervisor that polls the watchdog once a second and rebuilds the       *)
(* listener (streaming/relay_service.rs).  User requests and the topology  *)
(* are left to RelayService: here the generation stays current.            *)
(***************************************************************************)
EXTENDS RelayHealth, Sequences, FiniteSets

CONSTANTS
    Ingest,         \* RelayIngestKind: "rtsp" or "udp"
    Identified,     \* the spec names its bind interface by identity
    MaxTime,        \* bound: ticks of five seconds
    MaxMedia,       \* bound: clients that need a pipeline
    MaxTrouble      \* bound: what goes wrong by itself

ASSUME MediaAssumption ==
    /\ Ingest \in {"rtsp", "udp"} /\ Identified \in BOOLEAN
    /\ {MaxTime, MaxMedia, MaxTrouble} \subseteq Nat

VARIABLES
    h,          \* RelayRuntimeHealth
    listener,   \* the RtspRestreamer: its instance and whether its loop runs
    probe,      \* RtspRuntimeProbe.active of every listener instance
    media,      \* pipelines that may still call back
    conf,       \* the pipeline between media-constructed and media-configure
    events,     \* channel to the supervisor
    sup,        \* the supervisor: where it is, the event it handles
    now, polled,    \* the clock; the watchdog has been polled at this instant
    clients, trouble,   \* what MaxMedia and MaxTrouble have used up
    flow,       \* history: uninterrupted delivery of the current media
    fatal       \* history: a permanent fault was accepted

vars == <<h, listener, probe, media, conf, events, sup, now, polled, clients,
          trouble, flow, fatal>>

NoServer == [inst |-> 0, loop |-> FALSE]
NoPipe == [inst |-> 0, data |-> 0]
NoMedia == [data |-> 0, playing |-> FALSE]
NoFlow == [from |-> Never, last |-> Never]
RetryEvent == [kind |-> "retry", fault |-> NoFault]
FaultEvent(f) == [kind |-> "fault", fault |-> f]
Idle == [pc |-> "idle", ev |-> RetryEvent]

Trouble == /\ trouble < MaxTrouble /\ trouble' = trouble + 1

(***************************************************************************)
(* Callbacks.  A pipeline keeps the instance and data generation it was    *)
(* constructed with and reports with them until it is gone.                *)
(***************************************************************************)

\* RtspRuntimeProbe::with_current
WithCurrent(m) == probe[m.inst].data = m.data

\* The health record after a callback, and the event it may send.
Report(new) ==
    /\ h' = new
    /\ events' = IF Faulted(new) /\ ~Faulted(h)
                 THEN Append(events, FaultEvent(new.fault)) ELSE events

Supervising == UNCHANGED <<listener, sup, now, polled, clients, fatal>>

\* emit_media_fault: the new pipeline has no bin, payloader or source pad.
Unfit(begun) ==
    LET bad == ReportFault(begun, begun.inst, begun.data, "GstError")
    IN Trouble /\ h' = bad /\ events' = Append(events, FaultEvent(bad.fault))

\* media-constructed: no data generation is given out after a fault.
Construct ==
    LET i == listener.inst
        begun == BeginDataGeneration(h, i)
    IN /\ listener.loop /\ conf = NoPipe
       /\ clients < MaxMedia /\ clients' = clients + 1
       /\ \/ /\ MayBeginData(h, i)
             /\ probe' = [probe EXCEPT ![i] = [data |-> begun.data, playing |-> FALSE]]
             /\ conf' = [inst |-> i, data |-> begun.data]
             /\ flow' = NoFlow
             /\ (h' = begun /\ UNCHANGED <<events, trouble>>) \/ Unfit(begun)
          \/ /\ ~MayBeginData(h, i)
             /\ conf' = [inst |-> i, data |-> 0]
             /\ UNCHANGED <<h, probe, flow, events, trouble>>
       /\ UNCHANGED <<media, listener, sup, now, polled, fatal>>

\* start_from_rtsp: the factory of a camera ingest opens an upstream behind a
\* guard; that of a UDP ingest has none to refuse.
Guarded == Ingest = "rtsp"

\* The upstream guard of an instance: its loop is alive, no fault is recorded,
\* and the camera path is ready.
Ready(i) == LoopAliveFor(h, i) /\ UpstreamAllowed(h)

\* A bug: a refused upstream is only recorded.
RefuseSilently(i) == h' = MarkBuildFailed(h, i, FALSE) /\ UNCHANGED events

\* The guard's error path: record the failure and ask for a rebuild.
Refuse(i) ==
    /\ h' = MarkBuildFailed(h, i, FALSE)
    /\ events' = Append(events, RetryEvent)

\* media-configure, right after media-constructed on the client's thread; the
\* pipeline then exists with the callbacks it was given, if any.
Configure ==
    /\ conf # NoPipe /\ conf' = NoPipe
    /\ media' = IF conf.data = 0 THEN media ELSE media \cup {conf}
    /\ \/ /\ Guarded => Ready(conf.inst)
          /\ UNCHANGED <<h, events, trouble>>
       \/ /\ Guarded /\ ~Ready(conf.inst)
          /\ Refuse(conf.inst) /\ UNCHANGED trouble
       \/ /\ Guarded /\ Ready(conf.inst)
          /\ Refuse(conf.inst) /\ Trouble
    /\ UNCHANGED <<probe, flow>> /\ Supervising

\* before-send: the same guard at every request a pipeline sends the camera.
BeforeSend(m) ==
    /\ Guarded /\ Refuse(m.inst) /\ Trouble
    /\ UNCHANGED <<probe, media, conf, flow>> /\ Supervising

\* target-state and new-state: the client asks to play or to pause.
TargetState(m, playing) ==
    /\ WithCurrent(m)
    /\ probe' = [probe EXCEPT ![m.inst].playing = playing]
    /\ h' = IF playing THEN ArmFirstBuffer(h, m.inst, m.data, now)
            ELSE DisarmFirstBuffer(h, m.inst, m.data)
    /\ UNCHANGED <<media, conf, events, trouble, flow>> /\ Supervising

Prepared(m) ==
    /\ WithCurrent(m) /\ probe[m.inst].playing
    /\ h' = ArmFirstBuffer(h, m.inst, m.data, now)
    /\ UNCHANGED <<probe, media, conf, events, trouble, flow>> /\ Supervising

\* The payloader's pad probe sees a buffer.
Buffer(m) ==
    /\ h' = ObserveBuffer(h, m.inst, m.data, now)
    /\ flow' = IF ~IsCurrentData(h, m.inst, m.data) THEN flow
               ELSE [from |-> IF flow.last # Never /\ now - flow.last <= StallWindow
                              THEN flow.from ELSE now,
                     last |-> now]
    /\ UNCHANGED <<probe, media, conf, events, trouble>> /\ Supervising

Unprepared(m) ==
    /\ media' = media \ {m}
    /\ IF WithCurrent(m)
       THEN /\ probe' = [probe EXCEPT ![m.inst] = NoMedia]
            /\ h' = EndDataGeneration(h, m.inst, m.data)
       ELSE UNCHANGED <<probe, h>>
    /\ UNCHANGED <<conf, events, trouble, flow>> /\ Supervising

\* A bus message; end of stream counts only while the client plays.
Message(m, kind) ==
    /\ kind \in {"GstError", "PermanentGstError", "Eos"} /\ Trouble
    /\ WithCurrent(m) /\ (kind = "Eos" => probe[m.inst].playing)
    /\ Report(ReportFault(h, m.inst, m.data, kind))
    /\ UNCHANGED <<probe, media, conf, flow>> /\ Supervising

\* The listener's GLib loop ends by itself.
LoopDies ==
    /\ listener.loop /\ Trouble
    /\ listener' = [listener EXCEPT !.loop = FALSE]
    /\ Report(LoopExited(h, listener.inst, FALSE))
    /\ UNCHANGED <<probe, media, conf, sup, now, polled, clients, flow, fatal>>

(***************************************************************************)
(* The supervisor.                                                         *)
(***************************************************************************)

SupGoto(pc) == sup' = [sup EXCEPT !.pc = pc]
Calm == UNCHANGED <<conf, now, clients, flow, fatal>>

\* run_relay_supervisor receives an event ...
Receive ==
    /\ sup.pc = "idle" /\ events # <<>>
    /\ sup' = [pc |-> "accept", ev |-> Head(events)]
    /\ events' = Tail(events)
    /\ UNCHANGED <<h, listener, probe, media, polled, trouble>> /\ Calm

\* ... or its interval ticks: poll_relay_fault asks the probe for the status of
\* the active pipeline, then evaluates the watchdog.
Poll ==
    /\ sup.pc = "idle" /\ polled' = TRUE
    /\ \/ /\ h' = EvaluateWatchdog(h, Ingest = "rtsp", now) /\ UNCHANGED trouble
       \/ /\ \E m \in media :
               /\ m.inst = listener.inst /\ WithCurrent(m)
               /\ h' = ReportFault(h, m.inst, m.data, "MediaStatusError")
          /\ Trouble
    /\ sup' = IF Faulted(h') /\ ~Faulted(h)
              THEN [pc |-> "accept", ev |-> FaultEvent(h'.fault)] ELSE sup
    /\ UNCHANGED <<listener, probe, media, events>> /\ Calm

\* accept_fault, or the state check of a retry.
Accept ==
    LET e == sup.ev
        fault == e.kind = "fault"
        taken == IF fault THEN Accepts(h, e.fault) ELSE h.state \in {"Failed", "Recovering"}
    IN /\ sup.pc = "accept"
       /\ h' = IF fault /\ taken THEN AcceptFault(h, e.fault) ELSE h
       /\ IF taken THEN SupGoto("retire") ELSE sup' = Idle
       /\ fatal' = (fatal \/ (taken /\ e.fault.kind = "PermanentGstError"))
       /\ UNCHANGED <<listener, probe, media, conf, events, now, polled, clients,
                      trouble, flow>>

\* A permanent media error is terminal until an explicit Start.
Terminal == h.state = "Failed" /\ PermanentFailure(h)

\* RtspRestreamer::shutdown: sessions are removed while the loop still
\* dispatches; a loop that does not exit within three seconds is leaked with
\* its pipelines.
Retire ==
    LET mine == {m \in media : m.inst = listener.inst}
        ended == IF listener = NoServer THEN h
                 ELSE EndDataGeneration(h, listener.inst, probe[listener.inst].data)
    IN /\ sup.pc = "retire"
       /\ listener' = NoServer
       /\ \/ /\ conf.inst # listener.inst \/ conf = NoPipe
             /\ media' = media \ mine /\ UNCHANGED trouble
             /\ probe' = [i \in DOMAIN probe |->
                            IF i = listener.inst THEN NoMedia ELSE probe[i]]
             /\ h' = LoopExited(ended, listener.inst, TRUE)
          \/ Trouble /\ UNCHANGED <<media, probe, h>>
       /\ IF Terminal THEN sup' = Idle ELSE SupGoto("schedule")
       /\ UNCHANGED <<events, polled>> /\ Calm

Schedule ==
    /\ sup.pc = "schedule"
    /\ h' = ScheduleRecoveryAttempt(h) /\ SupGoto("backoff")
    /\ UNCHANGED <<listener, probe, media, events, polled, trouble>> /\ Calm

\* The delay has passed or the supervisor was woken.
Wake ==
    /\ sup.pc = "backoff"
    /\ h' = MarkRecoveryInProgress(h) /\ SupGoto("build")
    /\ UNCHANGED <<listener, probe, media, events, polled, trouble>> /\ Calm

\* The attempt fails: an interface that does not resolve, a preflight, a
\* camera path that is not ready, or the build itself.
Attempt(failed) ==
    \/ /\ Identified \/ ShouldReresolve(h)
       /\ failed = ForceMaxBackoff(MarkResolutionFailed(h))
    \/ failed = MarkResolutionFailed(h)
    \/ \E bind \in BOOLEAN :
         failed = MarkBuildFailed(BeginServerInstance(h, TRUE), h.inst + 1, bind)

\* Every listener instance has a probe of its own.
NewProbe == probe' = [i \in 1..h'.inst |-> IF i \in DOMAIN probe THEN probe[i] ELSE NoMedia]

BuildFails ==
    /\ sup.pc = "build" /\ Trouble
    /\ Attempt(h') /\ NewProbe /\ SupGoto("schedule")
    /\ UNCHANGED <<listener, media, events, polled>> /\ Calm

\* attach_and_run: the socket is bound and the loop thread starts.
Attached(r) == LoopStarted(BeginServerInstance(r, TRUE), r.inst + 1)

\* start_from_rtsp, start_from_udp: the loop runs, and may serve clients, before
\* mark_listener_bound.
Build ==
    /\ sup.pc = "build"
    /\ h' = Attached(h)
    /\ listener' = [inst |-> h.inst + 1, loop |-> TRUE] /\ NewProbe
    /\ SupGoto("bound")
    /\ UNCHANGED <<media, events, polled, trouble>> /\ Calm

Bound ==
    /\ sup.pc = "bound"
    /\ h' = MarkListenerBound(h, listener.inst) /\ sup' = Idle
    /\ UNCHANGED <<listener, probe, media, events, polled, trouble>> /\ Calm

(***************************************************************************)
(* The system, from the listener an explicit Start has bound.              *)
(***************************************************************************)

Init ==
    /\ h = MarkListenerBound(LoopStarted(BeginServerInstance(NewHealth, FALSE), 1), 1)
    /\ listener = [inst |-> 1, loop |-> TRUE] /\ probe = <<NoMedia>> /\ media = {}
    /\ conf = NoPipe /\ events = <<>> /\ sup = Idle
    /\ now = 0 /\ polled = FALSE /\ clients = 0 /\ trouble = 0
    /\ flow = NoFlow /\ fatal = FALSE

\* The interval polls several times per tick whenever the supervisor is free;
\* it is away for longer only to wait for the gate, a delay or a resolution.
Tick ==
    /\ now < MaxTime
    /\ IF sup.pc = "idle" THEN polled ELSE sup.pc \in {"retire", "backoff", "build"}
    /\ now' = now + 1 /\ polled' = FALSE
    /\ UNCHANGED <<h, listener, probe, media, conf, events, sup, clients, trouble, flow,
                   fatal>>

\* attach_media_observers, and the loop thread.
Callback ==
    \/ Construct \/ LoopDies
    \/ \E m \in media :
         \/ BeforeSend(m) \/ Prepared(m) \/ Buffer(m) \/ Unprepared(m)
         \/ \E playing \in BOOLEAN : TargetState(m, playing)
         \/ \E kind \in FaultKinds : Message(m, kind)

Supervise ==
    \/ Receive \/ Accept \/ Retire \/ Schedule \/ Wake \/ BuildFails
    \/ Build \/ Bound

Next == Callback \/ Configure \/ Supervise \/ Poll \/ Tick

\* The client's thread goes on to media-configure, and the supervisor task is
\* scheduled; recovery awaits have deadlines.
Fairness == WF_vars(Supervise) /\ WF_vars(Configure)

Spec == Init /\ [][Next]_vars /\ Fairness

(***************************************************************************)
(* Properties.                                                             *)
(***************************************************************************)

Event == [kind : {"retry", "fault"}, fault : Faults]

\* Types of the record, the adapters and the supervisor; no instant is in the
\* future.
TypeOK ==
    /\ h \in Health /\ {h.armed, h.last, h.healthy} \subseteq Never..now
    /\ listener \in [inst : Nat, loop : BOOLEAN]
    /\ probe \in [1..h.inst -> [data : Nat, playing : BOOLEAN]]
    /\ media \subseteq [inst : Nat, data : Nat]
    /\ conf \in [inst : Nat, data : Nat] /\ events \in Seq(Event)
    /\ sup \in [pc : {"idle", "accept", "retire", "schedule", "backoff", "build", "bound"},
                ev : Event]
    /\ now \in 0..MaxTime /\ polled \in BOOLEAN
    /\ clients \in 0..MaxMedia /\ trouble \in 0..MaxTrouble
    /\ flow \in [from : Never..now, last : Never..now] /\ fatal \in BOOLEAN

Serves ==
    /\ listener.loop /\ LoopAliveFor(h, listener.inst) /\ ~Faulted(h)
    /\ h.state \in {"Listening", "Starting", "Streaming"}

\* A refusal that came between the start of the loop and mark_listener_bound has
\* cleared loop_alive, and the mark then overwrote its Failed: the retry finds a
\* healthy state and is dropped.
Deaf == listener.loop /\ ~h.alive /\ ~Faulted(h) /\ h.state = "Listening"

\* The backoff starts over only after output has flowed without interruption
\* for HEALTHY_RESET_WINDOW.
ResetEarned ==
    [][h.attempt > 0 /\ h'.attempt = 0
         => flow.last # Never /\ now - flow.from >= HealthyResetWindow]_vars

\* What was retired stays retired: once a fault is accepted no late buffer makes
\* the relay look healthy before the next listener instance, and after a
\* permanent media error only an explicit Start builds one.
RetiredStays ==
    [][/\ /\ sup.pc \in {"retire", "schedule", "backoff", "build"}
          /\ sup.ev.kind = "fault" /\ h'.inst = h.inst
          => ~(h'.state = "Streaming" /\ h.state # "Streaming")
       /\ fatal => h'.inst = h.inst]_vars

\* A client that plays and gets no output is noticed: between two polls no
\* camera pipeline stays silent longer than the first-buffer deadline.
SilenceNoticed ==
    Ingest = "rtsp" /\ sup.pc = "idle" /\ polled /\ ~Faulted(h) /\ probe[h.inst].playing
        => \/ h.armed # Never /\ now - h.armed < FirstBufferTimeout
           \/ h.last # Never /\ now - h.last < StallConfirmation

\* A relay that failed for any other reason serves again with its upstream gate
\* open.  The one exception is a deaf one: it stays so until another client is
\* refused and thereby asks for a rebuild.
Recovered ==
    Faulted(h) \/ h.state \in {"Failed", "Recovering"}
        ~> Serves \/ PermanentFailure(h) \/ Deaf
=============================================================================
