--------------------------- MODULE PlaybackService ---------------------------
(***************************************************************************)
(* The preview: its intent, pipeline, recording and supervisor             *)
(* (streaming/playback.rs), the health record pipelines report to          *)
(* (streaming/relay.rs, PlaybackHealth) and UDP admission against the      *)
(* relay (streaming/udp.rs).  Requests publish their intent under the      *)
(* mutex of the common state and leave the pipeline to the supervisor,     *)
(* which holds playback_lifecycle for a whole step; Stop and the recording *)
(* requests take that lock too.  Stop claims an epoch before it waits for  *)
(* anything, so whatever is in flight finds out at its next check.         *)
(* An action is what runs under one lock of the mutex, with the            *)
(* synchronous calls up to the next await.  Taking the lifecycle lock is   *)
(* joined with the first section that runs under it.                       *)
(***************************************************************************)
EXTENDS Integers, FiniteSets

CONSTANTS
    Users,          \* tasks serving the commands of the window
    Supervisor,     \* run_playback_supervisor
    Requests,       \* kinds of request users make in this instance
    MaxRequests,    \* bound: requests made by all users together
    MaxChanges,     \* bound: faults, failed calls, changes of the network and
                    \* of the settings, UDP starts of the relay
    MaxWaits        \* bound: retries while the camera has no path

Nobody == "nobody"

ASSUME PlaybackAssumption ==
    /\ Supervisor \notin Users /\ Nobody \notin Users \cup {Supervisor}
    /\ Requests \subseteq {"start", "retry", "stop", "record", "mute"}
    /\ {MaxRequests, MaxChanges, MaxWaits} \subseteq Nat

Procs == Users \cup {Supervisor}
Protocols == {"udp", "rtsp"}

\* Bound: epochs, 0 for None.  Every epoch is claimed by a request or after a
\* change of the adapter, so the bounds on those are reached before this one.
Epochs == 0..(MaxRequests + MaxChanges)

\* The part of AppSettings playback uses: one UDP port, one camera with two
\* sets of credentials, and the mute preference.
Sources == [proto : Protocols, cred : 0..1, muted : BOOLEAN]
NoSource == [proto |-> "rtsp", cred |-> 0, muted |-> FALSE]
NoPipe == [health |-> 0, gen |-> 0]
NoInstance == [epoch |-> 0, gen |-> 0]
NoPath == [adapter |-> 0, addr |-> 0]

VARIABLES
    epoch,      \* playback_epoch
    slot,       \* PlaybackData
    health,     \* PlaybackHealth records, by the epoch that created them
    live,       \* pipelines that exist, stored in the slot or not
    lifecycle,  \* holder of playback_lifecycle
    proc,       \* locals of each request and of the supervisor's step
    config,     \* saved settings
    net,        \* selected adapter, its address, and whether the camera is ready
    relay,      \* RelayData: a desired UDP spec, a stored UDP server
    stopped,    \* history: newest epoch of a Stop that returned
    unowned,    \* history: the reserved recording may have lost its branch
    spent       \* what the bounds have used up

vars == <<epoch, slot, health, live, lifecycle, proc, config, net, relay,
          stopped, unowned, spent>>

Bounds == [requests |-> MaxRequests, changes |-> MaxChanges,
           waits |-> MaxWaits]

\* The environment uses up one unit of bound b.
Spend(b) == /\ spent[b] < Bounds[b]
            /\ spent' = [spent EXCEPT ![b] = @ + 1]

(***************************************************************************)
(* PlaybackHealth.  Instants are abstracted: a retry is not scheduled, due *)
(* later or due now.  A callback names the attempt of its pipeline, and    *)
(* the first fault of an attempt retires it.                               *)
(***************************************************************************)
PlaybackHealth == [state : {"Starting", "Playing", "Recovering", "Failed", "Stopped"},
                   gen : Nat, active : BOOLEAN, retry : {"none", "later", "due"}]

NewHealth == [state |-> "Starting", gen |-> 0, active |-> FALSE, retry |-> "due"]

BeginAttempt(h) == [h EXCEPT !.gen = @ + 1, !.active = TRUE, !.retry = "none"]

ObserveBuffer(h, g) ==
    IF h.active /\ h.gen = g THEN [h EXCEPT !.state = "Playing"] ELSE h

RecordFault(h, g, retryable) ==
    IF h.active /\ h.gen = g
    THEN [h EXCEPT !.active = FALSE, !.retry = "none",
                   !.state = IF retryable THEN "Recovering" ELSE "Failed"]
    ELSE h

ScheduleRecovery(h) ==
    IF h.state = "Recovering" /\ h.retry = "none"
    THEN [h EXCEPT !.retry = "later"] ELSE h

WakeReady(h) ==
    IF h.state = "Recovering" /\ h.retry # "none"
    THEN [h EXCEPT !.retry = "due"] ELSE h

RetryNow(h) ==
    IF h.state \in {"Failed", "Recovering"}
    THEN [h EXCEPT !.state = "Recovering", !.active = FALSE, !.retry = "due"]
    ELSE h

Retired(h) == [h EXCEPT !.active = FALSE, !.state = "Stopped", !.retry = "none"]

(***************************************************************************)
(* Locals, locks and authority.                                            *)
(***************************************************************************)
Idle == [pc |-> "idle", op |-> "start", epoch |-> 0, health |-> 0,
         src |-> NoSource, path |-> NoPath, snap |-> NewHealth,
         pipe |-> NoPipe, gone |-> FALSE]

Key(p) == [health |-> p.health, gen |-> p.gen]
Stored == {p \in live : Key(p) = slot.pipe}

\* The task is over: its lifecycle guard and its locals are dropped.
Leave(t) ==
    /\ proc' = [proc EXCEPT ![t] = Idle]
    /\ lifecycle' = IF lifecycle = t THEN Nobody ELSE lifecycle

Goto(t, pc) ==
    /\ proc' = [proc EXCEPT ![t].pc = pc]
    /\ UNCHANGED lifecycle

\* playback_is_current
IsCurrent(t) ==
    /\ epoch = proc[t].epoch
    /\ slot.intent = proc[t].epoch
    /\ slot.health = proc[t].health
    /\ slot.set

\* same_playback_source
SameSource(a, b) == a.proto = b.proto /\ a.cred = b.cred

\* preflight_target: UDP is exempt, an RTSP camera needs a bound Ethernet path.
Reachable(src) == src.proto = "udp" \/ net.up
PathOf(src) == IF src.proto = "udp" \/ ~net.up THEN NoPath
               ELSE [adapter |-> net.adapter, addr |-> net.addr]

\* ReadyPath.fence.is_stale: the network session of the path is over.
Stale(path) == path # NoPath /\ path.adapter # net.adapter

\* udp::guard_playback looks at the desired spec and at the stored server.
RelayClaims == relay.desired \/ relay.server

World == UNCHANGED <<config, net, relay>>

(***************************************************************************)
(* Start and Retry.                                                        *)
(***************************************************************************)

\* A request reads the settings and the epoch before it waits for the mutex.
Request(u, op) ==
    /\ proc[u].pc = "idle" /\ op \in Requests
    /\ Spend("requests")
    /\ proc' = [proc EXCEPT ![u] = [Idle EXCEPT !.pc = op, !.op = op,
                                      !.epoch = epoch, !.src = config]]
    /\ UNCHANGED <<epoch, slot, health, live, lifecycle, stopped, unowned>> /\ World

StartRequest(u) == Request(u, "start")
RetryRequest(u) == Request(u, "retry")

\* lock_for_start
Admits(src) == src.proto = "udp" => ~RelayClaims

\* A new intent with a health record of its own; the old record is retired.
Replace(e) ==
    /\ epoch' = e /\ e \in Epochs
    /\ health' = [h \in Epochs |-> IF h = e THEN NewHealth
                                   ELSE IF h = slot.health /\ h # 0 THEN Retired(health[h])
                                   ELSE health[h]]

\* start_playback under the mutex: refused by the port, already so, superseded
\* by a Stop, or published.
StartPublish(u) ==
    /\ proc[u].pc = "start"
    /\ Leave(u)
    /\ LET src == proc[u].src
           kept == ~Admits(src) \/ (slot.set /\ SameSource(slot.src, src))
           e == proc[u].epoch + 1
       IN  IF kept \/ epoch # proc[u].epoch
           THEN UNCHANGED <<epoch, slot, health>>
           ELSE /\ Replace(e)
                /\ slot' = [slot EXCEPT !.set = TRUE, !.src = src, !.health = e,
                              !.intent = e, !.adapter = 0, !.ready = NoPath,
                              !.claim = src.proto]
    /\ UNCHANGED <<live, stopped, unowned, spent>> /\ World

\* The supervisor's step has looked at the stored pipeline, by a snapshot, and
\* not yet at what is due.
Deciding == proc[Supervisor].pc = "decide"

\* retry_playback: a manual one applies corrected credentials and an unchanged
\* source is retried at once; the other only hastens a scheduled retry.
RetryPublish(u) ==
    /\ proc[u].pc = "retry"
    /\ Leave(u)
    /\ \E manual \in BOOLEAN :
         LET desired == [slot.src EXCEPT !.cred = proc[u].src.cred]
             e == proc[u].epoch + 1
         IN  IF epoch # proc[u].epoch \/ ~slot.set
             THEN UNCHANGED <<epoch, slot, health, unowned>>
             ELSE IF manual /\ ~SameSource(slot.src, desired)
             THEN /\ Replace(e)
                  /\ slot' = [slot EXCEPT !.src = desired, !.health = e, !.intent = e]
                  /\ UNCHANGED unowned
             ELSE /\ health' = [health EXCEPT ![slot.health] =
                                  IF manual THEN RetryNow(@) ELSE WakeReady(@)]
                  /\ unowned' = (unowned \/ (manual /\ Deciding /\ slot.rec /\ health' # health))
                  /\ UNCHANGED <<epoch, slot>>
    /\ UNCHANGED <<live, stopped, spent>> /\ World

(***************************************************************************)
(* Tear-down, shared by Stop and by the supervisor.                        *)
(***************************************************************************)

\* retire_playback up to the unlock.
RetirePlayback(t) ==
    /\ proc[t].pc = "retire"
    /\ slot' = [slot EXCEPT !.rec = FALSE, !.instance = NoInstance, !.pipe = NoPipe]
    /\ proc' = [proc EXCEPT ![t].pc = "teardown", ![t].pipe = slot.pipe]
    /\ UNCHANGED <<epoch, health, live, lifecycle, stopped, unowned, spent>> /\ World

\* The recording is detached, whatever comes of it, and the pipeline is set to
\* Null and dropped.
Teardown(t) ==
    /\ proc[t].pc = "teardown"
    /\ live' = {p \in live : Key(p) # proc[t].pipe}
    /\ proc' = [proc EXCEPT ![t].pc = IF t = Supervisor THEN "decide" ELSE "unclaim",
                            ![t].gone = TRUE]
    /\ UNCHANGED <<epoch, slot, health, lifecycle, stopped, unowned, spent>> /\ World

(***************************************************************************)
(* Stop.                                                                   *)
(***************************************************************************)

\* The epoch is claimed before the request waits for any lock.
StopRequest(u) ==
    /\ proc[u].pc = "idle" /\ "stop" \in Requests
    /\ Spend("requests")
    /\ epoch' = epoch + 1 /\ epoch + 1 \in Epochs
    /\ proc' = [proc EXCEPT ![u] = [Idle EXCEPT !.pc = "clear", !.op = "stop",
                                      !.epoch = epoch + 1]]
    /\ UNCHANGED <<slot, health, live, lifecycle, stopped, unowned>> /\ World

\* An intent newer than this Stop is left alone.
StopClear(u) ==
    /\ proc[u].pc = "clear"
    /\ Goto(u, "wait")
    /\ IF slot.intent < proc[u].epoch
       THEN /\ health' = IF slot.health = 0 THEN health
                         ELSE [health EXCEPT ![slot.health] = Retired(@)]
            /\ slot' = [slot EXCEPT !.set = FALSE, !.src = NoSource, !.health = 0,
                          !.intent = 0, !.adapter = 0, !.ready = NoPath]
       ELSE UNCHANGED <<slot, health>>
    /\ UNCHANGED <<epoch, live, stopped, unowned, spent>> /\ World

\* A bug: Stop does not wait for a step that is building a pipeline.
StopTakeUnlocked(u) ==
    /\ proc[u].pc = "wait"
    /\ Goto(u, IF slot.instance.epoch < proc[u].epoch THEN "retire" ELSE "unclaim")
    /\ UNCHANGED <<epoch, slot, health, live, stopped, unowned, spent>> /\ World

\* Under the lifecycle lock a pipeline of an older epoch is torn down.
StopTake(u) ==
    /\ proc[u].pc = "wait" /\ lifecycle = Nobody
    /\ lifecycle' = u
    /\ proc' = [proc EXCEPT ![u].pc = IF slot.instance.epoch < proc[u].epoch
                                      THEN "retire" ELSE "unclaim"]
    /\ UNCHANGED <<epoch, slot, health, live, stopped, unowned, spent>> /\ World

\* The port is given up with the intent.
StopReturn(u) ==
    /\ proc[u].pc = "unclaim"
    /\ Leave(u)
    /\ slot' = IF slot.set THEN slot ELSE [slot EXCEPT !.claim = "none"]
    /\ stopped' = IF proc[u].epoch > stopped THEN proc[u].epoch ELSE stopped
    /\ UNCHANGED <<epoch, health, live, unowned, spent>> /\ World

(***************************************************************************)
(* Recording and the mute preference.                                      *)
(***************************************************************************)

\* start_recording: the slot is reserved before the branch is attached.
RecordReserve(u) ==
    /\ proc[u].pc = "idle" /\ "record" \in Requests
    /\ Spend("requests")
    /\ lifecycle = Nobody /\ lifecycle' = u
    /\ ~slot.rec /\ slot.pipe # NoPipe
    /\ slot.health # 0 /\ health[slot.health].state = "Playing"
    /\ slot' = [slot EXCEPT !.rec = TRUE]
    /\ proc' = [proc EXCEPT ![u] = [Idle EXCEPT !.pc = "attach", !.op = "record",
                                      !.pipe = slot.pipe]]
    /\ unowned' = FALSE
    /\ UNCHANGED <<epoch, health, live, stopped>> /\ World

Branch(k, on) == {[p EXCEPT !.rec = IF Key(p) = k THEN on ELSE @] : p \in live}

RecordAttach(u) ==
    /\ proc[u].pc = "attach"
    /\ Leave(u)
    /\ \/ /\ live' = Branch(proc[u].pipe, TRUE)
          /\ UNCHANGED <<slot, spent>>
       \/ /\ Spend("changes")
          /\ slot' = [slot EXCEPT !.rec = FALSE]
          /\ UNCHANGED live
    /\ UNCHANGED <<epoch, health, stopped, unowned>> /\ World

\* stop_recording: the state is cleared only after the branch is finalized.
RecordFind(u) ==
    /\ proc[u].pc = "idle" /\ "record" \in Requests
    /\ Spend("requests")
    /\ lifecycle = Nobody /\ lifecycle' = u
    /\ slot.rec /\ slot.pipe # NoPipe
    /\ proc' = [proc EXCEPT ![u] = [Idle EXCEPT !.pc = "detach", !.op = "record",
                                      !.pipe = slot.pipe]]
    /\ UNCHANGED <<epoch, slot, health, live, stopped, unowned>> /\ World

\* detach_recording may fail before or after the branch is unlinked.
RecordDetach(u) ==
    /\ proc[u].pc = "detach"
    /\ \/ /\ live' = Branch(proc[u].pipe, FALSE)
          /\ Goto(u, "recorded")
          /\ UNCHANGED <<unowned, spent>>
       \/ /\ Spend("changes")
          /\ \/ UNCHANGED <<live, unowned>>
             \/ live' = Branch(proc[u].pipe, FALSE) /\ unowned' = TRUE
          /\ Leave(u)
    /\ UNCHANGED <<epoch, slot, health, stopped>> /\ World

RecordClear(u) ==
    /\ proc[u].pc = "recorded"
    /\ Leave(u)
    /\ slot' = [slot EXCEPT !.rec = FALSE]
    /\ UNCHANGED <<epoch, health, live, stopped, unowned, spent>> /\ World

\* The command saves the preference first.
MuteRequest(u) ==
    /\ proc[u].pc = "idle" /\ "mute" \in Requests
    /\ Spend("requests")
    /\ config' = [config EXCEPT !.muted = ~@]
    /\ proc' = [proc EXCEPT ![u] = [Idle EXCEPT !.pc = "mute", !.op = "mute",
                                      !.src = config']]
    /\ UNCHANGED <<epoch, slot, health, live, lifecycle, stopped, unowned, net, relay>>

\* set_audio_muted: the desired settings and the stored pipeline, if any.
MuteApply(u) ==
    /\ proc[u].pc = "mute"
    /\ Leave(u)
    /\ slot' = IF slot.set THEN [slot EXCEPT !.src.muted = proc[u].src.muted] ELSE slot
    /\ live' = {[p EXCEPT !.muted = IF p \in Stored THEN proc[u].src.muted ELSE @]
                  : p \in live}
    /\ UNCHANGED <<epoch, health, stopped, unowned, spent>> /\ World

(***************************************************************************)
(* The supervisor's step.  It holds the lifecycle lock throughout, so the  *)
(* stored pipeline is its own to change.                                   *)
(***************************************************************************)
S == Supervisor
MyHealth == health[proc[S].health]
SetHealth(h) == health' = [health EXCEPT ![proc[S].health] = h]

\* A tick or a wake.  Without intent the step returns at once.
StepBegin ==
    /\ proc[S].pc = "idle" /\ lifecycle = Nobody /\ slot.set
    /\ lifecycle' = S
    /\ proc' = [proc EXCEPT ![S] = [Idle EXCEPT !.pc = "current", !.op = "step",
                  !.epoch = slot.intent, !.health = slot.health, !.src = slot.src]]
    /\ UNCHANGED <<epoch, slot, health, live, stopped, unowned, spent>> /\ World

\* The first check; then the selected adapter is read.
StepCurrent ==
    /\ proc[S].pc = "current"
    /\ IF ~IsCurrent(S) THEN Leave(S)
       ELSE /\ proc' = [proc EXCEPT ![S].path.adapter = net.adapter,
                          ![S].pc = IF proc[S].src.proto = "udp" THEN "check" ELSE "select"]
            /\ UNCHANGED lifecycle
    /\ UNCHANGED <<epoch, slot, health, live, stopped, unowned, spent>> /\ World

\* Another adapter than the last step's ends everything built on the old one.
StepSelect ==
    /\ proc[S].pc = "select"
    /\ LET id == proc[S].path.adapter
           e == proc[S].epoch
       IN  IF epoch # e \/ slot.intent # e
           THEN Leave(S) /\ UNCHANGED <<epoch, slot, health>>
           ELSE IF slot.adapter \notin {0, id}
           THEN /\ epoch' = e + 1 /\ e + 1 \in Epochs
                /\ slot' = [slot EXCEPT !.intent = e + 1, !.adapter = id]
                /\ SetHealth(RecordFault(MyHealth, MyHealth.gen, TRUE))
                /\ proc' = [proc EXCEPT ![S].pc = "ready", ![S].epoch = e + 1]
                /\ UNCHANGED lifecycle
           ELSE /\ slot' = [slot EXCEPT !.adapter = id]
                /\ Goto(S, "ready")
                /\ UNCHANGED <<epoch, health>>
    /\ UNCHANGED <<live, stopped, unowned, spent>> /\ World

\* Readiness is looked up, unless playback has failed for good.
StepReady ==
    /\ proc[S].pc = "ready"
    /\ IF MyHealth.state = "Failed" THEN Goto(S, "check")
       ELSE IF ~IsCurrent(S) THEN Leave(S)
       ELSE /\ proc' = [proc EXCEPT ![S].pc = "update", ![S].path = PathOf(proc[S].src)]
            /\ UNCHANGED lifecycle
    /\ UNCHANGED <<epoch, slot, health, live, stopped, unowned, spent>> /\ World

\* A path that appears or moves hastens the retry (update_playback_readiness);
\* one that is lost or has moved ends the running pipeline.
StepUpdate ==
    /\ proc[S].pc = "update"
    /\ LET path == proc[S].path
           changed == path # NoPath /\ slot.ready # path
           lost == \/ path = NoPath
                   \/ changed /\ slot.ready # NoPath
           woken == IF changed THEN WakeReady(MyHealth) ELSE MyHealth
       IN  /\ slot' = [slot EXCEPT !.ready = path]
           /\ SetHealth(IF lost /\ slot.pipe # NoPipe
                        THEN RecordFault(woken, woken.gen, TRUE) ELSE woken)
    /\ Goto(S, "check")
    /\ UNCHANGED <<epoch, live, stopped, unowned, spent>> /\ World

\* A bug: a pipeline that a fault has retired is kept until its retry.
KeepsFaulted(snap) == slot.instance = [epoch |-> proc[S].epoch, gen |-> snap.gen]

\* The stored pipeline is of this epoch and attempt, and no fault retired it.
Keeps(snap) ==
    /\ slot.instance = [epoch |-> proc[S].epoch, gen |-> snap.gen]
    /\ snap.active

\* The watchdog of the stored pipeline may find it silent; then the snapshot
\* the rest of the step goes by.
StepCheck ==
    /\ proc[S].pc = "check"
    /\ \/ UNCHANGED <<health, spent>>
       \/ \E p \in Stored :
            /\ health[p.health].active /\ Spend("changes")
            /\ health' = [health EXCEPT ![p.health] = RecordFault(@, p.gen, TRUE)]
    /\ LET snap == health'[proc[S].health]
       IN  proc' = [proc EXCEPT ![S].snap = snap,
                      ![S].pc = IF slot.pipe # NoPipe /\ ~Keeps(snap)
                                THEN "retire" ELSE "decide"]
    /\ UNCHANGED <<epoch, slot, live, lifecycle, stopped, unowned>> /\ World

\* A bug: a faulted attempt is not scheduled again.
DecideUnscheduled ==
    /\ proc[S].pc = "decide"
    /\ IF (proc[S].gone /\ ~IsCurrent(S)) \/ proc[S].snap.state = "Failed"
          \/ MyHealth.retry # "due"
       THEN Leave(S) /\ UNCHANGED health
       ELSE /\ SetHealth(BeginAttempt(MyHealth)) /\ Goto(S, "attempt")
    /\ UNCHANGED <<epoch, slot, live, stopped, unowned, spent>> /\ World

\* A fault is given its next retry; a retry that is due begins an attempt.
StepDecide ==
    /\ proc[S].pc = "decide"
    /\ LET snap == proc[S].snap
           planned == IF ~snap.active /\ snap.retry = "none"
                      THEN ScheduleRecovery(MyHealth) ELSE MyHealth
       IN  IF (proc[S].gone /\ ~IsCurrent(S)) \/ snap.state = "Failed"
           THEN Leave(S) /\ UNCHANGED health
           ELSE IF planned.retry # "due"
           THEN Leave(S) /\ SetHealth(planned)
           ELSE SetHealth(BeginAttempt(planned)) /\ Goto(S, "attempt")
    /\ UNCHANGED <<epoch, slot, live, stopped, unowned, spent>> /\ World

\* The attempt of this step: only the step itself begins one.
Mine == [health |-> proc[S].health, gen |-> MyHealth.gen]
Faulted(retryable) == RecordFault(MyHealth, Mine.gen, retryable)

\* A pipeline for the settings the step captured; it does not run yet.
Build == [epoch |-> proc[S].epoch, health |-> Mine.health, gen |-> Mine.gen,
          proto |-> proc[S].src.proto, muted |-> proc[S].src.muted,
          on |-> FALSE, open |-> FALSE, rec |-> FALSE]

\* No path, no authority any more, a pipeline that cannot be built, or one
\* that can.
StepAttempt ==
    /\ proc[S].pc = "attempt"
    /\ \/ /\ ~Reachable(proc[S].src)
          /\ SetHealth(ScheduleRecovery(Faulted(TRUE)))
          /\ Leave(S) /\ UNCHANGED <<live, spent>>
       \/ /\ Reachable(proc[S].src) /\ ~IsCurrent(S)
          /\ Leave(S) /\ UNCHANGED <<health, live, spent>>
       \/ /\ Reachable(proc[S].src) /\ IsCurrent(S) /\ Spend("changes")
          /\ SetHealth(Faulted(FALSE))
          /\ Leave(S) /\ UNCHANGED live
       \/ /\ Reachable(proc[S].src) /\ IsCurrent(S)
          /\ live' = live \cup {Build}
          /\ proc' = [proc EXCEPT ![S].pc = "final", ![S].path = PathOf(proc[S].src)]
          /\ UNCHANGED <<health, lifecycle, spent>>
    /\ UNCHANGED <<epoch, slot, stopped, unowned>> /\ World

\* The new pipeline is dropped and the attempt scheduled again.
Discard ==
    /\ SetHealth(ScheduleRecovery(Faulted(TRUE)))
    /\ live' = {p \in live : Key(p) # Mine}
    /\ Leave(S)

\* The last check before anything connects; then the pipeline plays, or its
\* state change fails and the fault is left to the next step.
StepFinal ==
    /\ proc[S].pc = "final"
    /\ IF ~IsCurrent(S) \/ Stale(proc[S].path) \/ ~Reachable(proc[S].src)
       THEN Discard /\ UNCHANGED spent
       ELSE /\ live' = {[p EXCEPT !.on = @ \/ Key(p) = Mine] : p \in live}
            /\ Goto(S, "store")
            /\ \/ UNCHANGED <<health, spent>>
               \/ Spend("changes") /\ SetHealth(Faulted(FALSE))
    /\ UNCHANGED <<epoch, slot, stopped, unowned>> /\ World

\* The intent and the session the pipeline was built for are still the ones.
Stores == /\ epoch = proc[S].epoch
          /\ slot.intent = proc[S].epoch
          /\ ~Stale(proc[S].path)

\* A pipeline that is still in the slot is replaced, and dropped with its last
\* reference (PlaybackPipeline::drop).
StepStore ==
    /\ proc[S].pc = "store"
    /\ \/ Stores /\ Leave(S) /\ live' = live \ Stored /\ UNCHANGED health
          /\ slot' = [slot EXCEPT !.pipe = Mine,
                        !.instance = [epoch |-> proc[S].epoch, gen |-> Mine.gen]]
       \/ ~Stores /\ Discard /\ UNCHANGED slot
    /\ UNCHANGED <<epoch, stopped, unowned, spent>> /\ World

(***************************************************************************)
(* Pipelines, time, the network, the saved settings and the relay.         *)
(***************************************************************************)
Quiet == UNCHANGED <<epoch, slot, lifecycle, proc, stopped, unowned>>

\* The camera connection is opened on the pipeline's own thread, and only for
\* the epoch it was built for (bind_rtsp_transport).
Connect(p) ==
    /\ p.on /\ ~p.open
    /\ IF p.proto = "udp" \/ (epoch = p.epoch /\ net.up)
       THEN /\ live' = (live \ {p}) \cup {[p EXCEPT !.open = TRUE]}
            /\ UNCHANGED health
       ELSE /\ health' = [health EXCEPT ![p.health] = RecordFault(@, p.gen, TRUE)]
            /\ UNCHANGED live
    /\ UNCHANGED spent /\ Quiet /\ World

\* The buffer probe on the tee.
Frame(p) ==
    /\ p.open
    /\ health' = [health EXCEPT ![p.health] = ObserveBuffer(@, p.gen)]
    /\ UNCHANGED <<live, spent>> /\ Quiet /\ World

\* An error or an end of stream on the bus.
BusFault(p) ==
    /\ p.on /\ Spend("changes")
    /\ \E retryable \in BOOLEAN :
         health' = [health EXCEPT ![p.health] = RecordFault(@, p.gen, retryable)]
    /\ UNCHANGED live /\ Quiet /\ World

Pipeline == \E p \in live : Connect(p) \/ Frame(p) \/ BusFault(p)

\* recovery_delay is over.
Timer ==
    /\ slot.set /\ health[slot.health].retry = "later"
    /\ health' = [health EXCEPT ![slot.health].retry = "due"]
    /\ IF Reachable(slot.src) THEN UNCHANGED spent ELSE Spend("waits")
    /\ UNCHANGED live /\ Quiet /\ World

\* Another adapter is selected, the address changes, the camera becomes
\* unreachable; it comes back.
NetChange ==
    /\ Spend("changes")
    /\ net' \in {[net EXCEPT !.adapter = @ + 1], [net EXCEPT !.addr = 1 - @],
                 [net EXCEPT !.up = FALSE]} \ {net}
    /\ UNCHANGED <<health, live, config, relay>> /\ Quiet

NetReturns ==
    /\ ~net.up /\ net' = [net EXCEPT !.up = TRUE]
    /\ UNCHANGED <<health, live, config, relay, spent>> /\ Quiet

Edit ==
    /\ Spend("changes")
    /\ config' \in {[config EXCEPT !.cred = 1 - @],
                    [config EXCEPT !.proto = IF @ = "udp" THEN "rtsp" ELSE "udp"]}
    /\ UNCHANGED <<health, live, net, relay>> /\ Quiet

\* A bug: a stopping preview's port is free once it is not desired.
RelayAdmitsUndesired == slot.claim = "udp" => ~slot.set

\* udp::guard_relay
RelayAdmits == slot.claim # "udp"

\* A UDP relay from the outside: desired once admitted, then a stored server;
\* a Stop withdraws the intent first and the server after, and a recovery takes
\* the server out of its slot too.
RelayStarts ==
    /\ config.proto = "udp" /\ ~relay.desired /\ Spend("changes")
    /\ RelayAdmits
    /\ relay' = [relay EXCEPT !.desired = TRUE]
    /\ UNCHANGED <<health, live, config, net>> /\ Quiet

RelayProceeds ==
    /\ \/ relay.desired /\ ~relay.server /\ relay' = [relay EXCEPT !.server = TRUE]
       \/ relay.desired /\ relay' = [relay EXCEPT !.desired = FALSE]
       \/ relay.server /\ relay' = [relay EXCEPT !.server = FALSE]
    /\ UNCHANGED <<health, live, config, net, spent>> /\ Quiet

(***************************************************************************)
(* The specification.                                                      *)
(***************************************************************************)
Init ==
    /\ epoch = 0
    /\ slot = [set |-> FALSE, src |-> NoSource, health |-> 0, intent |-> 0,
               adapter |-> 0, ready |-> NoPath, claim |-> "none",
               instance |-> NoInstance, pipe |-> NoPipe, rec |-> FALSE]
    /\ health = [h \in Epochs |-> NewHealth]
    /\ live = {}
    /\ lifecycle = Nobody
    /\ proc = [t \in Procs |-> Idle]
    /\ config \in {c \in Sources : c.cred = 0 /\ ~c.muted}
    /\ net = [adapter |-> 1, addr |-> 0, up |-> TRUE]
    /\ relay = [desired |-> FALSE, server |-> FALSE]
    /\ stopped = 0 /\ unowned = FALSE
    /\ spent = [b \in DOMAIN Bounds |-> 0]

Tearing(t) == RetirePlayback(t) \/ Teardown(t)

\* A new request of user u, and the next step of one that is under way.
Asks(u) == \/ StartRequest(u) \/ RetryRequest(u) \/ StopRequest(u)
           \/ RecordReserve(u) \/ RecordFind(u) \/ MuteRequest(u)
Proceeds(u) == \/ StartPublish(u) \/ RetryPublish(u) \/ StopClear(u)
               \/ StopTake(u) \/ Tearing(u) \/ StopReturn(u)
               \/ RecordAttach(u) \/ RecordDetach(u) \/ RecordClear(u)
               \/ MuteApply(u)

Step == \/ StepBegin \/ StepCurrent \/ StepSelect \/ StepReady \/ StepUpdate
        \/ StepCheck \/ Tearing(S) \/ StepDecide \/ StepAttempt \/ StepFinal
        \/ StepStore

Environment == \/ Pipeline \/ Timer \/ NetChange \/ NetReturns \/ Edit
               \/ RelayStarts \/ RelayProceeds

Next == \/ \E u \in Users : Asks(u) \/ Proceeds(u)
        \/ Step \/ Environment

\* Requests under way go on and get the lifecycle lock in turn (a tokio Mutex
\* is fair); the supervisor ticks every second; delays end.
Spec == /\ Init /\ [][Next]_vars
        /\ \A u \in Users : SF_vars(Proceeds(u))
        /\ SF_vars(Step)
        /\ WF_vars(Timer)

(***************************************************************************)
(* Properties.                                                             *)
(***************************************************************************)

\* Every part of the state has its shape: the slot names an intent and its
\* health record together, and instance and pipeline together.
TypeOK ==
    /\ epoch \in Epochs /\ stopped \in 0..epoch /\ unowned \in BOOLEAN
    /\ slot \in [set : BOOLEAN, src : Sources, health : Epochs, intent : Epochs,
                 adapter : Nat, ready : [adapter : Nat, addr : 0..1],
                 claim : Protocols \cup {"none"},
                 instance : [epoch : Epochs, gen : Nat],
                 pipe : [health : Epochs, gen : Nat], rec : BOOLEAN]
    /\ (slot.intent # 0) = slot.set /\ (slot.health # 0) = slot.set
    /\ (slot.pipe # NoPipe) = (slot.instance # NoInstance)
    /\ health \in [Epochs -> PlaybackHealth]
    /\ live \subseteq [epoch : Epochs, health : Epochs, gen : Nat,
                       proto : Protocols, muted : BOOLEAN, on : BOOLEAN,
                       open : BOOLEAN, rec : BOOLEAN]
    /\ lifecycle \in Procs \cup {Nobody}
    /\ \A t \in Procs : proc[t].epoch \in Epochs
    /\ config \in Sources
    /\ net \in [adapter : Nat, addr : 0..1, up : BOOLEAN]
    /\ relay \in [desired : BOOLEAN, server : BOOLEAN]
    /\ \A b \in DOMAIN Bounds : spent[b] \in 0..Bounds[b]

\* What a returned Stop has stopped stays stopped (stop_playback): no intent
\* and no pipeline, stored or still being built, is older than it.
StopIsFinal ==
    /\ slot.set => slot.intent > stopped
    /\ \A p \in live : p.epoch > stopped

\* A recording ends with its pipeline and never follows a replacement
\* (retire_playback): when nobody is at work on the pipeline, a reserved slot is
\* written by a branch of the stored pipeline, and such a branch is the reported
\* one.  Two exceptions are the code's: a detach that failed after unlinking the
\* branch leaves the slot reserved (stop_recording); and so does a manual Retry,
\* after a fault, that meets a step which has just kept the pipeline: the step
\* then replaces it (playback_step).  No other fault, Retry or failure does.
RecordingOwned ==
    /\ lifecycle = Nobody =>
         /\ slot.rec => Stored # {} /\ (unowned \/ \E p \in Stored : p.rec)
         /\ \A p \in live : p.rec => slot.rec /\ p \in Stored
    /\ Cardinality({p \in live : p.rec}) <= 1

\* Admission is atomic with the publication of the intent (udp.rs): preview and
\* relay never both claim the one UDP port.
OneClaim == ~(slot.claim = "udp" /\ RelayClaims)

\* What the playback slot has reserved is really held: the UDP port by one of
\* two competitors, a recording by the branch that writes it.
ClaimsHeld == OneClaim /\ RecordingOwned

\* Playback settles (run_playback_supervisor): in the end every pipeline of a
\* stopped preview is gone, and a desired one whose camera is reachable runs
\* the pipeline of its current attempt or has failed for good.
Settled ==
    IF slot.set
    THEN Reachable(slot.src) =>
           \/ health[slot.health].state = "Failed"
           \/ \E p \in Stored : /\ p.epoch = slot.intent /\ p.health = slot.health
                                /\ health[p.health].active
                                /\ health[p.health].gen = p.gen
    ELSE live = {}
Settles == <>[]Settled

=============================================================================
