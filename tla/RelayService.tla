---------------------------- MODULE RelayService ----------------------------
(***************************************************************************)
(* The re-stream service (streaming/relay_service.rs).  User requests      *)
(* (Start, Stop, Apply settings, Switch protocol), the supervisor that     *)
(* rebuilds a failed listener and the topology watcher share one RelayData *)
(* record behind an async mutex.  A request first claims an epoch with an  *)
(* atomic add, so that it supersedes whatever is in flight, then publishes *)
(* its intent under the mutex, and only then waits for the two gates:      *)
(* restream_transaction (one user transaction at a time) and               *)
(* relay_lifecycle (one builder or tear-down of a listener at a time).     *)
(* An action is what runs under one lock of the mutex, or one awaited call *)
(* on a listener or on Windows policy.                                     *)
(***************************************************************************)
EXTENDS RelayHealth, Sequences, FiniteSets

CONSTANTS
    Users,          \* tasks serving the commands of the window
    Supervisor,     \* run_relay_supervisor
    Requests,       \* kinds of request users make in this instance
    Saved,          \* protocols the saved settings may select at first
    MaxRequests,    \* bound: requests made by all users together
    MaxFailures,    \* bound: failed builds, resolutions, saves and Windows policy calls
    MaxRebinds,     \* bound: saved interfaces that moved or cannot be resolved
    MaxMedia,       \* bound: media started by clients of a listener
    MaxChanges,     \* bound: changes of the interface inventory and faults reported
                    \* by listeners (0: neither, and no watcher)
    MaxEvents       \* bound: all of these together

Procs == Users \cup {Supervisor}
Nobody == "nobody"
Watcher == "watcher"

ASSUME RelayAssumption ==
    /\ Supervisor \notin Users /\ {Nobody, Watcher} \cap Procs = {}
    /\ Requests \subseteq {"start", "stop", "apply", "switch"}
    /\ Saved \subseteq {"rtsp", "srt"}
    /\ {MaxRequests, MaxFailures, MaxRebinds, MaxMedia, MaxChanges,
        MaxEvents} \subseteq Nat

Protocols == {"rtsp", "srt"}
Gens == 1..MaxRequests          \* one start_restream_server_inner per request
Unknown == -1                   \* BindScope::Unknown
Scopes == Nat \cup {Unknown}    \* topology_revision of a resolved scope

\* The part of the settings a listener is built from: the selected protocol
\* and that protocol's section.
Settings == [enabled : BOOLEAN, protocol : Protocols, section : 0..1]
NoSpec == [cfg |-> [enabled |-> FALSE, protocol |-> "rtsp", section |-> 0],
           scope |-> Unknown, set |-> FALSE]
NoListener == [gen |-> 0, inst |-> 0, role |-> "rtsp"]
NoLease == [gen |-> 0, role |-> "rtsp"]
NoIntent == [epoch |-> 0, target |-> 0, fw |-> 0, was |-> FALSE]

VARIABLES
    epoch,      \* restream_epoch
    generation, \* restream_generation
    slot,       \* RelayData: desired, spec, health, intent, server
    lease,      \* RelayData.firewall_generation
    health,     \* RelayRuntimeHealth of every generation
    live,       \* listeners that exist, stored in the slot or not
    rule,       \* Windows: the program rule of a protocol is enabled
    gate,       \* holder of restream_transaction
    lifecycle,  \* holder of relay_lifecycle
    events,     \* channel to the supervisor
    config,     \* persisted settings
    revision,   \* bindings::revision()
    proc,       \* locals of each request and of the supervisor
    watch,      \* locals of binding_topology_changed
    spent       \* what the bounds have used up

vars == <<epoch, generation, slot, lease, health, live, rule, gate, lifecycle,
          events, config, revision, proc, watch, spent>>

Pcs == {"idle", "publish", "gate", "resolve", "cancel", "install", "lifecycle",
        "take", "check", "preflight", "firewall", "recheck", "build", "store",
        "unpublish", "finish", "capture", "claim", "validate", "commit",
        "restart", "retire", "backoff", "mark"}

Idle == [pc |-> "idle", op |-> "start", epoch |-> 0, preserve |-> FALSE,
         gen |-> 0, scope |-> Unknown, want |-> NoSpec.cfg, upd |-> NoSpec.cfg,
         intent |-> NoIntent]
IdleWatch == [pc |-> "idle", rev |-> 0, known |-> TRUE, gen |-> 0, inst |-> 0]

Bounds == [requests |-> MaxRequests, failures |-> MaxFailures,
           rebinds |-> MaxRebinds,
           media |-> MaxMedia, changes |-> MaxChanges]

\* What is used up leaves one unit of bound b.
Within(used, b) ==
    /\ used[b] < Bounds[b]
    /\ used.requests + used.failures + used.rebinds + used.media + used.changes < MaxEvents

\* The environment uses up one unit of bound b.
Spend(b) == Within(spent, b) /\ spent' = [spent EXCEPT ![b] = @ + 1]

(***************************************************************************)
(* Authority: what a process re-checks after every await.                  *)
(***************************************************************************)

\* RetryRequested and the Fault event of a generation.
Retry(g) == [kind |-> "retry", gen |-> g, fault |-> NoFault]
FaultEvent(g, f) == [kind |-> "fault", gen |-> g, fault |-> f]

\* relay_state_is_generation
IsGeneration(g) == g # 0 /\ slot.desired /\ slot.health = g

\* relay_is_current
IsCurrent(p) ==
    /\ epoch = proc[p].epoch
    /\ slot.intent = proc[p].epoch
    /\ IsGeneration(proc[p].gen)

\* restream_intent_is_current
IntentIsCurrent(p) ==
    /\ epoch = proc[p].epoch
    /\ slot.desired /\ slot.intent = proc[p].epoch

\* current_relay_context
InContext(g) == IsGeneration(g) /\ slot.intent = epoch

\* scope_revision(bind_scope) = bindings::revision()
Fresh(p) == proc[p].scope \in {Unknown, revision}

\* resolved_start_is_healthy_noop
HealthyNoop(p) ==
    /\ slot.desired /\ slot.spec.set /\ slot.spec.cfg = proc[p].want
    /\ slot.health # 0 /\ slot.server.gen = slot.health
    /\ health[slot.health].state \in {"Listening", "Streaming"}
    /\ LoopAliveFor(health[slot.health], slot.server.inst)

\* The request is over: its guards and locals are dropped.
Leave(p) ==
    /\ proc' = [proc EXCEPT ![p] = Idle]
    /\ gate' = IF gate = p THEN Nobody ELSE gate
    /\ lifecycle' = IF lifecycle = p THEN Nobody ELSE lifecycle

Goto(p, pc) ==
    /\ proc' = [proc EXCEPT ![p].pc = pc]
    /\ UNCHANGED <<gate, lifecycle>>

Send(e) == events' = Append(events, e)

Cleared(s) == [s EXCEPT !.desired = FALSE, !.spec = NoSpec, !.health = 0,
                        !.intent = 0]

\* RestreamServer::shutdown: sessions are removed, which unprepares the media,
\* then the loop exits; the listener is gone when the call returns.
ShutDown(hs, l) ==
    IF l = NoListener THEN hs
    ELSE [hs EXCEPT ![l.gen] =
            LoopExited(EndDataGeneration(@, l.inst, @.active), l.inst, TRUE)]

\* retire_firewall for the generations gs: a lease of one of them is given
\* back only when Windows reports the rule disabled.
RetireFirewall(gs, used) ==
    IF lease.gen \in gs \ {0}
    THEN \/ /\ lease' = NoLease /\ rule' = [rule EXCEPT ![lease.role] = FALSE]
            /\ spent' = used
         \/ /\ Within(used, "failures")
            /\ \E on \in BOOLEAN : rule' = [rule EXCEPT ![lease.role] = @ /\ on]
            /\ UNCHANGED lease
            /\ spent' = [used EXCEPT !.failures = @ + 1]
    ELSE UNCHANGED <<lease, rule>> /\ spent' = used

(***************************************************************************)
(* Start.                                                                  *)
(***************************************************************************)

\* start_restream_server up to the claim of begin_restream_start_intent.
StartRequest(u) ==
    /\ proc[u].pc = "idle" /\ "start" \in Requests
    /\ config.enabled
    /\ Spend("requests")
    /\ epoch' = epoch + 1
    /\ proc' = [proc EXCEPT ![u] = [Idle EXCEPT !.pc = "publish", !.op = "start",
                                                !.epoch = epoch + 1]]
    /\ UNCHANGED <<generation, slot, lease, health, live, rule, gate, lifecycle,
                   events, config, revision, watch>>

\* A bug: a superseded request still reasserts desired state.
PublishStale(u) ==
    /\ proc[u].pc = "publish"
    /\ slot' = [slot EXCEPT !.desired = TRUE, !.intent = proc[u].epoch]
    /\ proc' = [proc EXCEPT
                  ![u].pc = IF gate = u THEN "resolve" ELSE "gate",
                  ![u].preserve = slot.desired /\ slot.spec.set /\ slot.health # 0]
    /\ UNCHANGED <<gate, lifecycle>>
    /\ UNCHANGED <<epoch, generation, lease, health, live, rule, events, config,
                   revision, watch, spent>>

\* A bug: the restart of a transaction waits for the gate it holds.
PublishWaiting(u) ==
    /\ proc[u].pc = "publish"
    /\ \/ /\ epoch # proc[u].epoch
          /\ Leave(u) /\ UNCHANGED slot
       \/ /\ epoch = proc[u].epoch
          /\ slot' = [slot EXCEPT !.desired = TRUE, !.intent = epoch]
          /\ proc' = [proc EXCEPT
                        ![u].pc = "gate",
                        ![u].preserve = slot.desired /\ slot.spec.set /\ slot.health # 0]
          /\ UNCHANGED <<gate, lifecycle>>
    /\ UNCHANGED <<epoch, generation, lease, health, live, rule, events, config,
                   revision, watch, spent>>

\* publish_restream_start_intent.  A restart inside a transaction already
\* holds the gate.
StartPublish(u) ==
    /\ proc[u].pc = "publish"
    /\ \/ /\ epoch # proc[u].epoch
          /\ Leave(u) /\ UNCHANGED slot
       \/ /\ epoch = proc[u].epoch
          /\ slot' = [slot EXCEPT !.desired = TRUE, !.intent = epoch]
          /\ proc' = [proc EXCEPT
                        ![u].pc = IF gate = u THEN "resolve" ELSE "gate",
                        ![u].preserve = slot.desired /\ slot.spec.set /\ slot.health # 0]
          /\ UNCHANGED <<gate, lifecycle>>
    /\ UNCHANGED <<epoch, generation, lease, health, live, rule, events, config,
                   revision, watch, spent>>

\* The gate is ours: re-check the intent and re-read the settings.
StartGate(u) ==
    /\ proc[u].pc = "gate" /\ proc[u].op = "start"
    /\ gate = Nobody
    /\ \/ ~IntentIsCurrent(u) /\ Leave(u)
       \/ /\ IntentIsCurrent(u)
          /\ gate' = u
          /\ proc' = [proc EXCEPT
                        ![u].pc = IF config.enabled THEN "resolve" ELSE "cancel",
                        ![u].preserve = @ /\ config.enabled,
                        ![u].want = config]
          /\ UNCHANGED lifecycle
    /\ UNCHANGED <<epoch, generation, slot, lease, health, live, rule, events,
                   config, revision, watch, spent>>

\* bindings::resolve: a scope carries the topology revision read before the
\* inventory, so that a change during the read makes it stale; a wildcard bind
\* whose inventory cannot be read is Unknown.
Resolved == {revision, Unknown}

\* Settings that cannot start, a camera that is not ready, or an interface
\* that does not resolve end the request.
Resolve(u) ==
    /\ proc[u].pc = "resolve" /\ u # Supervisor
    /\ \/ Spend("failures") /\ Goto(u, "cancel")
       \/ \E s \in Resolved :
            /\ proc' = [proc EXCEPT ![u].pc = "install", ![u].scope = s]
            /\ IF s = Unknown THEN Spend("failures") ELSE UNCHANGED spent
            /\ UNCHANGED <<gate, lifecycle>>
    /\ UNCHANGED <<epoch, generation, slot, lease, health, live, rule, events,
                   config, revision, watch>>

\* cancel_restream_start_intent, then the error is returned.
CancelStart(u) ==
    LET mine == epoch = proc[u].epoch /\ slot.intent = proc[u].epoch
        g == slot.health
        ailing == g # 0 /\ health[g].state \in {"Failed", "Recovering"}
    IN /\ proc[u].pc = "cancel"
       /\ \/ ~mine /\ UNCHANGED <<slot, health, events>>
          \/ /\ mine /\ proc[u].preserve
             /\ events' = IF ailing THEN Append(events, Retry(g)) ELSE events
             /\ UNCHANGED <<slot, health>>
          \/ /\ mine /\ ~proc[u].preserve
             /\ slot' = Cleared(slot)
             /\ health' = IF g = 0 THEN health ELSE [health EXCEPT ![g] = Stop(@)]
             /\ UNCHANGED events
       /\ Leave(u)
       /\ UNCHANGED <<epoch, generation, lease, live, rule, config, revision,
                      watch, spent>>

\* The locked block of start_restream_server_inner: no-op on a healthy
\* endpoint, refusal by the UDP guard, or a new generation.
Install(u) ==
    /\ proc[u].pc = "install"
    /\ \/ /\ epoch # proc[u].epoch \/ HealthyNoop(u)
          /\ Leave(u) /\ UNCHANGED <<generation, slot, health, spent>>
       \/ /\ epoch = proc[u].epoch /\ ~HealthyNoop(u)
          /\ Spend("failures") /\ Goto(u, "cancel")
          /\ UNCHANGED <<generation, slot, health>>
       \/ /\ epoch = proc[u].epoch /\ ~HealthyNoop(u)
          /\ generation' = generation + 1
          /\ health' = [health EXCEPT ![generation + 1] = NewHealth]
          /\ slot' = [slot EXCEPT
                        !.spec = [cfg |-> proc[u].want, scope |-> proc[u].scope,
                                  set |-> TRUE],
                        !.health = generation + 1]
          /\ proc' = [proc EXCEPT ![u].pc = "lifecycle", ![u].gen = generation + 1]
          /\ UNCHANGED <<gate, lifecycle, spent>>
    /\ UNCHANGED <<epoch, lease, live, rule, events, config, revision, watch>>

StartLifecycle(u) ==
    /\ proc[u].pc = "lifecycle" /\ u # Supervisor
    /\ lifecycle = Nobody
    /\ \/ ~IsCurrent(u) /\ Leave(u)
       \/ /\ IsCurrent(u)
          /\ lifecycle' = u
          /\ proc' = [proc EXCEPT ![u].pc = "take"]
          /\ UNCHANGED gate
    /\ UNCHANGED <<epoch, generation, slot, lease, health, live, rule, events,
                   config, revision, watch, spent>>

\* A bug: Start replaces only a listener of its own generation.
PreviousOfGeneration(g) == IF slot.server.gen = g THEN slot.server ELSE NoListener

\* The listener generation g replaces: whatever is in the slot.
Previous(g) == slot.server

\* Take the previous listener out of the slot, shut it down, retire its rule.
TakeOld(u) ==
    LET mine == IsGeneration(proc[u].gen) /\ slot.intent = proc[u].epoch
        old == Previous(proc[u].gen)
    IN /\ proc[u].pc = "take"
       /\ \/ /\ ~mine /\ Leave(u)
             /\ UNCHANGED <<slot, live, health, lease, rule, spent>>
          \/ /\ mine
             /\ slot' = [slot EXCEPT !.server = IF @ = old THEN NoListener ELSE @]
             /\ live' = live \ {old}
             /\ health' = ShutDown(health, old)
             /\ RetireFirewall({old.gen}, spent)
             /\ Goto(u, "check")
       /\ UNCHANGED <<epoch, generation, events, config, revision, watch>>

(***************************************************************************)
(* Building a listener: the tail of start_restream_server_inner and of     *)
(* recover_relay_generation, both under relay_lifecycle.  A Start that     *)
(* fails leaves the rebuild to the supervisor; the supervisor tries again. *)
(***************************************************************************)

Recovers(p) == p = Supervisor

\* Give up this attempt with the failure recorded in health.
GiveUp(p) ==
    IF Recovers(p)
    THEN /\ proc' = [proc EXCEPT ![p].pc = "backoff"]
         /\ lifecycle' = Nobody
         /\ UNCHANGED <<gate, events>>
    ELSE Leave(p) /\ Send(Retry(proc[p].gen))

Check(p) ==
    /\ proc[p].pc = "check"
    /\ IF IsCurrent(p) THEN Goto(p, "preflight") ELSE Leave(p)
    /\ UNCHANGED <<epoch, generation, slot, lease, health, live, rule, events,
                   config, revision, watch, spent>>

\* preflight_restream: the elements or the source policy are missing; or the
\* camera path is not ready, which is recorded against a new instance.
Unprepared(p) ==
    LET r == health[proc[p].gen]
    IN {MarkBuildFailed(BeginServerInstance(r, Recovers(p)), r.inst + 1, FALSE),
        MarkResolutionFailed(r)}

\* GStreamer elements, the camera path, and the age of the resolved scope.
Preflight(p) ==
    LET g == proc[p].gen
        authorised == Recovers(p) => IsCurrent(p)
    IN /\ proc[p].pc = "preflight"
       /\ \/ /\ Spend("failures") /\ GiveUp(p)
             /\ \E h \in Unprepared(p) :
                   health' = [health EXCEPT ![g] = h]
          \/ ~authorised /\ Leave(p) /\ UNCHANGED <<health, events, spent>>
          \/ /\ authorised /\ ~Fresh(p)
             /\ GiveUp(p)
             /\ health' = IF Recovers(p) THEN health
                          ELSE [health EXCEPT ![g] = MarkResolutionFailed(@)]
             /\ UNCHANGED spent
          \/ /\ authorised /\ Fresh(p)
             /\ Goto(p, "firewall") /\ UNCHANGED <<health, events, spent>>
       /\ UNCHANGED <<epoch, generation, slot, lease, live, rule, config,
                      revision, watch>>

\* A bug: the rule is enabled first and the lease recorded only on success.
ApplyAfterDispatch(p) ==
    LET role == proc[p].want.protocol
    IN /\ proc[p].pc = "firewall"
       /\ \/ /\ lease' = [gen |-> proc[p].gen, role |-> role]
             /\ rule' = [rule EXCEPT ![role] = TRUE]
             /\ UNCHANGED spent
          \/ /\ rule' = [rule EXCEPT ![role] = TRUE]
             /\ UNCHANGED lease /\ Spend("failures")
       /\ Goto(p, "recheck")
       /\ UNCHANGED <<epoch, generation, slot, health, live, events, config,
                      revision, watch>>

\* apply_firewall: a lease that cannot be retired stays and no rule is
\* enabled; otherwise the lease is installed before Windows is called, and an
\* ensure that does not succeed may or may not have enabled the rule.
ApplyFirewall(p) ==
    LET role == proc[p].want.protocol
        off == [r \in Protocols |-> rule[r] /\ ~(lease.gen # 0 /\ r = lease.role)]
    IN /\ proc[p].pc = "firewall"
       /\ \/ /\ lease.gen # 0 /\ Spend("failures") /\ UNCHANGED lease
             /\ rule' \in {rule, off}
          \/ /\ ~IsGeneration(proc[p].gen)
             /\ lease' = NoLease /\ rule' = off /\ UNCHANGED spent
          \/ /\ IsGeneration(proc[p].gen)
             /\ lease' = [gen |-> proc[p].gen, role |-> role]
             /\ \/ rule' = [off EXCEPT ![role] = TRUE] /\ UNCHANGED spent
                \/ /\ \E on \in BOOLEAN : rule' = [off EXCEPT ![role] = on]
                   /\ Spend("failures")
       /\ Goto(p, "recheck")
       /\ UNCHANGED <<epoch, generation, slot, health, live, events, config,
                      revision, watch>>

\* Still authorised and still resolved against the current topology?
Recheck(p) ==
    LET g == proc[p].gen
    IN /\ proc[p].pc = "recheck"
       /\ \/ /\ IsCurrent(p) /\ Fresh(p)
             /\ Goto(p, "build")
             /\ UNCHANGED <<lease, rule, spent, health, events>>
          \/ /\ ~(IsCurrent(p) /\ Fresh(p))
             /\ RetireFirewall({g}, spent)
             /\ IF Recovers(p) \/ epoch # proc[p].epoch
                THEN /\ IF Recovers(p)
                        THEN GiveUp(p) ELSE Leave(p) /\ UNCHANGED events
                     /\ UNCHANGED health
                ELSE /\ health' = [health EXCEPT ![g] = MarkResolutionFailed(@)]
                     /\ GiveUp(p)
       /\ UNCHANGED <<epoch, generation, slot, live, config, revision, watch>>

\* build_restream_server.  An RTSP listener waits for clients; SRT starts its
\* media with the listener.
Build(p) ==
    LET g == proc[p].gen
        begun == BeginServerInstance(health[g], Recovers(p))
        up == LoopStarted(IF proc[p].want.protocol = "srt"
                          THEN BeginDataGeneration(begun, begun.inst) ELSE begun,
                          begun.inst)
    IN /\ proc[p].pc = "build"
       /\ \/ /\ Within(spent, "failures")
             /\ health' = [health EXCEPT ![g] = MarkBuildFailed(begun, begun.inst, FALSE)]
             /\ RetireFirewall({g}, [spent EXCEPT !.failures = @ + 1])
             /\ GiveUp(p) /\ UNCHANGED live
          \/ /\ health' = [health EXCEPT ![g] = MarkListenerBound(up, begun.inst)]
             /\ live' = live \cup {[gen |-> g, inst |-> begun.inst,
                                   role |-> proc[p].want.protocol]}
             /\ Goto(p, "store")
             /\ UNCHANGED <<lease, rule, events, spent>>
       /\ UNCHANGED <<epoch, generation, slot, config, revision, watch>>

\* The listener p has bound and not yet stored or shut down.
Candidate(p) == [gen |-> proc[p].gen, inst |-> health[proc[p].gen].inst,
                 role |-> proc[p].want.protocol]

\* The publication check of a bound candidate, under the state mutex.
Stores(p) == IsCurrent(p) /\ Fresh(p)

\* Store the candidate, or shut it down.
Store(p) ==
    LET g == proc[p].gen
        cand == Candidate(p)
        shut == ShutDown(health, cand)
    IN /\ proc[p].pc = "store"
       /\ \/ /\ Stores(p)
             /\ slot' = [slot EXCEPT !.server = cand,
                          !.spec = IF Recovers(p)
                                   THEN [cfg |-> proc[p].want,
                                         scope |-> proc[p].scope, set |-> TRUE]
                                   ELSE @]
             /\ live' = live \ {slot.server}       \* a listener left there is dropped
             /\ Leave(p)
             /\ UNCHANGED <<lease, rule, spent, health, events>>
          \/ /\ ~Stores(p)
             /\ live' = live \ {cand}
             /\ RetireFirewall({g}, spent)
             /\ IF epoch = proc[p].epoch
                THEN /\ health' = [shut EXCEPT ![g] = MarkResolutionFailed(@)]
                     /\ GiveUp(p)
                ELSE health' = shut /\ Leave(p) /\ UNCHANGED events
             /\ UNCHANGED slot
       /\ UNCHANGED <<epoch, generation, config, revision, watch>>

(***************************************************************************)
(* Stop, and the stop half of a settings transaction.                      *)
(***************************************************************************)

StopRequest(u) ==
    /\ proc[u].pc = "idle" /\ "stop" \in Requests
    /\ Spend("requests")
    /\ epoch' = epoch + 1
    /\ proc' = [proc EXCEPT ![u] = [Idle EXCEPT !.pc = "unpublish", !.op = "stop",
                                                !.epoch = epoch + 1]]
    /\ UNCHANGED <<generation, slot, lease, health, live, rule, gate, lifecycle,
                   events, config, revision, watch>>

\* restream_stop_target, or the retained lease when there is no listener.
StopTarget ==
    IF slot.server.gen # 0 /\ (slot.desired \/ slot.server.gen # slot.health)
    THEN slot.server.gen ELSE lease.gen

\* publish_restream_stop_intent.  A superseded Stop still waits its turn at
\* the gate; a superseded transaction is refused.
StopPublish(u) ==
    LET g == slot.health
    IN /\ proc[u].pc = "unpublish"
       /\ \/ /\ epoch # proc[u].epoch
             /\ IF proc[u].op = "stop" THEN Goto(u, "gate") ELSE Leave(u)
             /\ UNCHANGED <<slot, health>>
          \/ /\ epoch = proc[u].epoch
             /\ slot' = IF slot.desired THEN Cleared(slot) ELSE slot
             /\ health' = IF slot.desired /\ g # 0
                          THEN [health EXCEPT ![g] = Stop(@)] ELSE health
             /\ proc' = [proc EXCEPT
                           ![u].pc = IF gate = u THEN "finish" ELSE "gate",
                           ![u].intent = [epoch |-> epoch, target |-> StopTarget,
                                          fw |-> lease.gen, was |-> slot.desired]]
             /\ UNCHANGED <<gate, lifecycle>>
       /\ UNCHANGED <<epoch, generation, lease, live, rule, events, config,
                      revision, watch, spent>>

StopGate(u) ==
    /\ proc[u].pc = "gate" /\ proc[u].op = "stop"
    /\ gate = Nobody
    /\ \/ proc[u].intent = NoIntent /\ Leave(u)
       \/ /\ proc[u].intent # NoIntent
          /\ gate' = u
          /\ proc' = [proc EXCEPT ![u].pc = "finish"]
          /\ UNCHANGED lifecycle
    /\ UNCHANGED <<epoch, generation, slot, lease, health, live, rule, events,
                   config, revision, watch, spent>>

\* finish_restream_stop: relay_lifecycle is taken and released inside.
FinishStop(u) ==
    LET i == proc[u].intent
        mine == slot.server.gen # 0 /\ slot.server.gen = i.target
        gone == IF mine THEN slot.server ELSE NoListener
    IN /\ proc[u].pc = "finish"
       /\ lifecycle = Nobody
       /\ slot' = IF mine THEN [slot EXCEPT !.server = NoListener] ELSE slot
       /\ live' = live \ {gone}
       /\ health' = ShutDown(health, gone)
       /\ RetireFirewall({i.target, i.fw}, spent)
       /\ IF proc[u].op = "stop" THEN Leave(u) ELSE Goto(u, "commit")
       /\ UNCHANGED <<epoch, generation, events, config, revision, watch>>

(***************************************************************************)
(* Apply settings and Switch protocol: stop, commit, start again as one    *)
(* transaction, or restore the old output when a step fails.               *)
(***************************************************************************)

\* prospective_restream_settings, or the settings with the protocol replaced.
Prospective(u, c) ==
    IF proc[u].op = "apply"
    THEN [c EXCEPT !.enabled = proc[u].upd.enabled, !.section = proc[u].upd.section]
    ELSE [c EXCEPT !.protocol = proc[u].upd.protocol]

\* Whether settings c must give up the running output for the update.
MustStop(u, c, desired) ==
    LET new == Prospective(u, c)
    IN IF proc[u].op = "apply"
       THEN desired /\ (new.section # c.section \/ ~new.enabled)
       ELSE new.protocol # c.protocol

\* The request with the settings it first read.
TxRequest(u) ==
    /\ proc[u].pc = "idle"
    /\ Spend("requests")
    /\ \E op \in Requests \cap {"apply", "switch"}, upd \in Settings :
         /\ IF op = "apply" THEN upd.protocol = config.protocol
            ELSE upd.enabled = config.enabled /\ upd.section = config.section
         /\ proc' = [proc EXCEPT ![u] = [Idle EXCEPT !.pc = "capture", !.op = op,
                                           !.upd = upd, !.want = config]]
    /\ UNCHANGED <<epoch, generation, slot, lease, health, live, rule, gate,
                   lifecycle, events, config, revision, watch>>

\* current_restream_epoch_and_desired; a live switch needs Enable.
TxCapture(u) ==
    /\ proc[u].pc = "capture"
    /\ \/ /\ proc[u].op = "switch" /\ slot.desired /\ ~proc[u].want.enabled
          /\ Leave(u)
       \/ /\ ~(proc[u].op = "switch" /\ slot.desired /\ ~proc[u].want.enabled)
          /\ proc' = [proc EXCEPT ![u].epoch = epoch,
                        ![u].pc = IF MustStop(u, proc[u].want, slot.desired)
                                  THEN "claim" ELSE "gate"]
          /\ UNCHANGED <<gate, lifecycle>>
    /\ UNCHANGED <<epoch, generation, slot, lease, health, live, rule, events,
                   config, revision, watch, spent>>

\* A bug: the transaction claims an epoch whatever happened since it looked.
ClaimAnyway(u) == TRUE

\* compare_exchange of begin_restream_{stop,start}_intent_if_current.
Claims(u) == epoch = proc[u].epoch

TxClaim(u) ==
    /\ proc[u].pc \in {"claim", "restart"}
    /\ \/ /\ ~Claims(u) /\ Leave(u) /\ UNCHANGED epoch
       \/ /\ Claims(u)
          /\ epoch' = epoch + 1
          /\ proc' = [proc EXCEPT ![u].epoch = epoch + 1,
                        ![u].pc = IF @ = "claim" THEN "unpublish" ELSE "publish"]
          /\ UNCHANGED <<gate, lifecycle>>
    /\ UNCHANGED <<generation, slot, lease, health, live, rule, events, config,
                   revision, watch, spent>>

TxGate(u) ==
    /\ proc[u].pc = "gate" /\ proc[u].op \in {"apply", "switch"}
    /\ gate = Nobody
    /\ \/ epoch # proc[u].epoch /\ Leave(u)
       \/ /\ epoch = proc[u].epoch
          /\ gate' = u
          /\ proc' = [proc EXCEPT ![u].pc = "validate"]
          /\ UNCHANGED lifecycle
    /\ UNCHANGED <<epoch, generation, slot, lease, health, live, rule, events,
                   config, revision, watch, spent>>

\* A bug: a failed commit does not bring the old output back.
RestoreNothing(u) == Leave(u)

\* restore_restream_after_transaction_error with the settings still in force.
Restore(u) ==
    IF proc[u].intent.was
    THEN /\ proc' = [proc EXCEPT ![u].pc = "restart", ![u].want = config]
         /\ UNCHANGED <<gate, lifecycle>>
    ELSE Leave(u)

\* validate_restream_switch_target: a running output cannot be switched while
\* Enable is off.
Unfit(u, was) == proc[u].op = "switch" /\ was /\ ~config.enabled

\* Rebase the update on what the previous holder of the gate committed.
TxValidate(u) ==
    LET was == IF proc[u].intent # NoIntent THEN proc[u].intent.was ELSE slot.desired
        unfit == Unfit(u, was)
    IN /\ proc[u].pc = "validate"
       /\ \/ unfit /\ Restore(u) /\ UNCHANGED spent
          \/ ~unfit /\ Spend("failures") /\ Restore(u)
          \/ /\ ~unfit
             /\ Goto(u, IF proc[u].intent # NoIntent THEN "finish"
                        ELSE IF MustStop(u, config, was) THEN "claim" ELSE "commit")
             /\ UNCHANGED spent
       /\ UNCHANGED <<epoch, generation, slot, lease, health, live, rule, events,
                      config, revision, watch>>

\* A switch to the protocol that is selected by now.
Reasserts(u) == proc[u].op = "switch" /\ Prospective(u, config) = config

\* The output is started again when it was desired and the new settings allow
\* it.
StartsAgain(u) ==
    LET i == proc[u].intent
    IN IF i = NoIntent THEN Reasserts(u) /\ slot.desired
       ELSE i.was /\ (proc[u].op = "apply" => Prospective(u, config).enabled)

\* Persist the update and restart what was desired.  A switch that reasserts
\* the output persists nothing.
TxCommit(u) ==
    LET new == Prospective(u, config)
    IN /\ proc[u].pc = "commit"
       /\ \/ ~Reasserts(u) /\ Spend("failures") /\ Restore(u) /\ UNCHANGED config
          \/ /\ config' = new
             /\ UNCHANGED spent
             /\ IF StartsAgain(u)
                THEN /\ proc' = [proc EXCEPT ![u].pc = "restart", ![u].want = new]
                     /\ UNCHANGED <<gate, lifecycle>>
                ELSE Leave(u)
       /\ UNCHANGED <<epoch, generation, slot, lease, health, live, rule, events,
                      revision, watch>>

(***************************************************************************)
(* The supervisor: one event at a time, recovery included.                 *)
(***************************************************************************)

HonoursRetry(h) == h.state \in {"Failed", "Recovering"}

\* run_relay_supervisor: an event of a generation that is no longer current,
\* or whose intent is being replaced, is dropped.
SupEvent ==
    LET e == Head(events)
        h == health[e.gen]
        taken == /\ InContext(e.gen)
                 /\ IF e.kind = "fault" THEN Accepts(h, e.fault) ELSE HonoursRetry(h)
    IN /\ proc[Supervisor].pc = "idle"
       /\ events # <<>>
       /\ events' = Tail(events)
       /\ \/ ~taken /\ UNCHANGED <<proc, health>>
          \/ /\ taken
             /\ health' = IF e.kind = "fault"
                          THEN [health EXCEPT ![e.gen] = AcceptFault(@, e.fault)]
                          ELSE health
             /\ proc' = [proc EXCEPT ![Supervisor] =
                           [Idle EXCEPT !.pc = "retire", !.epoch = epoch, !.gen = e.gen]]
       /\ UNCHANGED <<epoch, generation, slot, lease, live, rule, gate, lifecycle,
                      config, revision, watch, spent>>

\* The stored listener, when it is of the generation under recovery.
Own(g) == IF slot.server.gen = g THEN slot.server ELSE NoListener

\* recover_relay_generation retires the failed listener before any backoff.
\* A permanent media error is terminal until an explicit Start.
SupRetire ==
    LET g == proc[Supervisor].gen
        gone == Own(g)
        terminal == PermanentFailure(health[g]) /\ health[g].state = "Failed"
    IN /\ proc[Supervisor].pc = "retire"
       /\ lifecycle = Nobody
       /\ \/ /\ ~IsCurrent(Supervisor)
             /\ Leave(Supervisor)
             /\ UNCHANGED <<slot, live, health, lease, rule, spent>>
          \/ /\ IsCurrent(Supervisor)
             /\ slot' = [slot EXCEPT !.server = IF @ = gone THEN NoListener ELSE @]
             /\ live' = live \ {gone}
             /\ health' = ShutDown(health, gone)
             /\ RetireFirewall({g}, spent)
             /\ IF terminal THEN Leave(Supervisor) ELSE Goto(Supervisor, "backoff")
       /\ UNCHANGED <<epoch, generation, events, config, revision, watch>>

\* wait_relay_backoff: the delay passed or a newer intent woke the supervisor.
SupWake ==
    /\ proc[Supervisor].pc = "backoff"
    /\ IF IsCurrent(Supervisor) THEN Goto(Supervisor, "mark") ELSE Leave(Supervisor)
    /\ UNCHANGED <<epoch, generation, slot, lease, health, live, rule, events,
                   config, revision, watch, spent>>

\* mark_recovery_in_progress, then read the desired specification.
SupMark ==
    /\ proc[Supervisor].pc = "mark"
    /\ health' = [health EXCEPT ![proc[Supervisor].gen] = MarkRecoveryInProgress(@)]
    /\ \/ ~slot.spec.set /\ Leave(Supervisor)
       \/ /\ slot.spec.set
          /\ proc' = [proc EXCEPT ![Supervisor].pc = "resolve",
                                  ![Supervisor].want = slot.spec.cfg]
          /\ UNCHANGED <<gate, lifecycle>>
    /\ UNCHANGED <<epoch, generation, slot, lease, live, rule, events, config,
                   revision, watch, spent>>

SupResolve ==
    LET g == proc[Supervisor].gen
    IN /\ proc[Supervisor].pc = "resolve"
       /\ \/ /\ Spend("failures") /\ Goto(Supervisor, "backoff")
             /\ health' = [health EXCEPT ![g] = MarkResolutionFailed(@)]
          \/ \E s \in Resolved :
               /\ proc' = [proc EXCEPT ![Supervisor].pc = "lifecycle",
                                       ![Supervisor].scope = s]
               /\ IF s = Unknown THEN Spend("failures") ELSE UNCHANGED spent
               /\ UNCHANGED <<health, gate, lifecycle>>
       /\ UNCHANGED <<epoch, generation, slot, lease, live, rule, events, config,
                      revision, watch>>

\* The rebuild takes the gate and empties the slot once more.
SupLifecycle ==
    LET g == proc[Supervisor].gen
        prior == Own(g)
    IN /\ proc[Supervisor].pc = "lifecycle"
       /\ lifecycle = Nobody
       /\ \/ /\ ~IsCurrent(Supervisor)
             /\ Leave(Supervisor) /\ UNCHANGED <<slot, live, health>>
          \/ /\ IsCurrent(Supervisor)
             /\ lifecycle' = Supervisor
             /\ proc' = [proc EXCEPT ![Supervisor].pc = "check"]
             /\ slot' = [slot EXCEPT !.server = IF @ = prior THEN NoListener ELSE @]
             /\ live' = live \ {prior}
             /\ health' = ShutDown(health, prior)
             /\ UNCHANGED gate
       /\ UNCHANGED <<epoch, generation, lease, rule, events, config, revision,
                      watch, spent>>

(***************************************************************************)
(* Callbacks of a listener's media threads.                                *)
(***************************************************************************)

\* guard_relay_upstream, and for RTSP the instance check wrapped around it.
UpstreamOpen(l) ==
    /\ generation = l.gen /\ UpstreamAllowed(health[l.gen])
    /\ l.role = "rtsp" => LoopAliveFor(health[l.gen], l.inst)

Media(l, h) ==
    /\ h # health[l.gen]
    /\ health' = [health EXCEPT ![l.gen] = h]
    /\ UNCHANGED <<epoch, generation, slot, lease, live, rule, gate, lifecycle,
                   config, revision, proc, watch>>

\* media-constructed of a client's pipeline.
MediaBegins(l) ==
    /\ l.role = "rtsp" /\ Spend("media")
    /\ Media(l, BeginDataGeneration(health[l.gen], l.inst)) /\ UNCHANGED events

MediaPlays(l) ==
    LET h == health[l.gen]
    IN Media(l, ReportStreaming(h, l.inst, h.active, Never)) /\ UNCHANGED <<events, spent>>

MediaEnds(l) ==
    LET h == health[l.gen]
    IN /\ l.role = "rtsp"
       /\ Media(l, EndDataGeneration(h, l.inst, h.active)) /\ UNCHANGED <<events, spent>>

\* A bus error, a stall or the exit of the main loop, with its event.
MediaFaults(l) ==
    LET h == health[l.gen]
    IN \E f \in {ReportFault(h, l.inst, h.active, "GstError"),
                 ReportFault(h, l.inst, h.active, "PermanentGstError"),
                 LoopExited(h, l.inst, FALSE)} :
         /\ ~Faulted(h) /\ Faulted(f)
         /\ Spend("changes") /\ Media(l, f) /\ Send(FaultEvent(l.gen, f.fault))

\* The RTSP upstream guard refuses a client: the gate is closed or the camera
\* path is not ready.  The refusal itself asks for a rebuild.
MediaRefused(l) ==
    /\ l.role = "rtsp" /\ Spend("media")
    /\ Media(l, MarkBuildFailed(health[l.gen], l.inst, FALSE))
    /\ Send(Retry(l.gen))

Callback ==
    \E l \in live : \/ MediaBegins(l) \/ MediaPlays(l) \/ MediaEnds(l)
                    \/ MediaFaults(l) \/ MediaRefused(l)

(***************************************************************************)
(* The topology watcher: binding_topology_changed.                         *)
(***************************************************************************)

Observe(known) ==
    /\ watch.pc = "idle"
    /\ watch' = [IdleWatch EXCEPT !.pc = "observe", !.rev = revision', !.known = known]
    /\ UNCHANGED <<epoch, generation, slot, lease, health, live, rule, gate,
                   lifecycle, events, config, proc>>

\* bindings::refresh reads an inventory: the recorded one, or, after a failed
\* read, one that is new by definition.  The watcher's timer repeats it.
TopologyPolled ==
    /\ MaxChanges > 0
    /\ revision' = IF watch.known THEN revision ELSE revision + 1
    /\ Observe(TRUE) /\ UNCHANGED spent

\* The inventory changed, or cannot be read: a failure is reported once, and
\* retires the recorded inventory.
TopologyChanged ==
    /\ watch.known /\ Spend("changes")
    /\ revision' = revision + 1
    /\ \E known \in BOOLEAN : Observe(known)

\* binding_topology_changed returns; what it recorded stays.
WatchDone == watch' = [IdleWatch EXCEPT !.known = watch.known]

\* A bug: only a scope that was known is compared with the observation.
DueIfKnown ==
    /\ slot.desired /\ slot.spec.set /\ slot.health # 0
    /\ slot.spec.scope \notin {Unknown, watch.rev}

\* A desired relay whose scope is unknown, or not the one observed.
Due == /\ slot.desired /\ slot.spec.set /\ slot.health # 0
       /\ ~watch.known \/ slot.spec.scope # watch.rev

\* Capture the listener instance the observation is about.
WatchCapture ==
    /\ watch.pc = "observe"
    /\ IF Due THEN watch' = [watch EXCEPT !.pc = "apply", !.gen = slot.health,
                                          !.inst = health[slot.health].inst]
       ELSE WatchDone
    /\ UNCHANGED <<epoch, generation, slot, lease, health, live, rule, gate,
                   lifecycle, events, config, revision, proc, spent>>

\* The captured instance is still the one that runs.
AboutInstance ==
    IsGeneration(watch.gen) /\ health[watch.gen].inst = watch.inst

\* Apply the observation under relay_lifecycle.  A saved interface that moved,
\* or that cannot be resolved, retires the resolved scope and rebinds; a
\* wildcard bind only takes over the observed scope.
WatchApply ==
    /\ watch.pc = "apply"
    /\ lifecycle = Nobody
    /\ \/ /\ revision # watch.rev \/ ~AboutInstance
          /\ WatchDone /\ UNCHANGED <<slot, lifecycle, spent>>
       \/ /\ revision = watch.rev /\ AboutInstance
          /\ \/ /\ Spend("rebinds")
                /\ slot' = [slot EXCEPT !.spec.scope = Unknown]
                /\ watch' = [watch EXCEPT !.pc = "mark"] /\ lifecycle' = Watcher
             \/ /\ slot' = [slot EXCEPT !.spec.scope =
                               IF watch.known THEN revision ELSE Unknown]
                /\ WatchDone /\ UNCHANGED <<lifecycle, spent>>
    /\ UNCHANGED <<epoch, generation, lease, health, live, rule, gate, events,
                   config, revision, proc>>

WatchMark ==
    /\ watch.pc = "mark"
    /\ health' = [health EXCEPT ![watch.gen] = MarkResolutionFailed(@)]
    /\ Send(Retry(watch.gen))
    /\ WatchDone /\ lifecycle' = Nobody
    /\ UNCHANGED <<epoch, generation, slot, lease, live, rule, gate, config,
                   revision, proc, spent>>

(***************************************************************************)
(* The system.                                                             *)
(***************************************************************************)

Init ==
    /\ epoch = 0 /\ generation = 0
    /\ revision = 1                         \* the first observation is recorded
    /\ slot = [desired |-> FALSE, spec |-> NoSpec, health |-> 0, intent |-> 0,
               server |-> NoListener]
    /\ lease = NoLease
    /\ health = [g \in Gens |-> NewHealth]
    /\ live = {}
    /\ rule = [r \in Protocols |-> FALSE]
    /\ gate = Nobody /\ lifecycle = Nobody
    /\ events = <<>>
    /\ config \in [enabled : {TRUE}, protocol : Saved, section : {0}]
    /\ proc = [p \in Procs |-> Idle]
    /\ watch = IdleWatch
    /\ spent = [b \in DOMAIN Bounds |-> 0]

Request(u) == StartRequest(u) \/ StopRequest(u) \/ TxRequest(u)

Builder(p) ==
    \/ Check(p) \/ Preflight(p) \/ ApplyFirewall(p) \/ Recheck(p) \/ Build(p) \/ Store(p)

Progress(u) ==
    \/ StartPublish(u) \/ StartGate(u) \/ Resolve(u) \/ CancelStart(u)
    \/ Install(u) \/ StartLifecycle(u) \/ TakeOld(u)
    \/ StopPublish(u) \/ StopGate(u) \/ FinishStop(u)
    \/ TxCapture(u) \/ TxClaim(u) \/ TxGate(u) \/ TxValidate(u) \/ TxCommit(u)
    \/ Builder(u)

Supervise ==
    \/ SupEvent \/ SupRetire \/ SupWake \/ SupMark \/ SupResolve \/ SupLifecycle
    \/ Builder(Supervisor)

Watch == WatchCapture \/ WatchApply \/ WatchMark

Next ==
    \/ \E u \in Users : Request(u) \/ Progress(u)
    \/ Supervise
    \/ Callback
    \/ TopologyPolled \/ TopologyChanged
    \/ Watch

\* The watcher polls every few seconds.  Both gates are tokio mutexes, which
\* are FIFO; every await under them is bounded (listener shutdown 3 s, native
\* calls 30 s).
Fairness ==
    /\ \A u \in Users : SF_vars(Progress(u))
    /\ SF_vars(Supervise) /\ SF_vars(Watch) /\ WF_vars(TopologyPolled)

Spec == Init /\ [][Next]_vars /\ Fairness

(***************************************************************************)
(* Properties.                                                             *)
(***************************************************************************)

Proc == [pc : Pcs, op : {"start", "stop", "apply", "switch"}, epoch : Nat,
         preserve : BOOLEAN, gen : 0..MaxRequests, scope : Scopes,
         want : Settings, upd : Settings,
         intent : [epoch : Nat, target : Nat, fw : Nat, was : BOOLEAN]]

Listener == [gen : 0..MaxRequests, inst : Nat, role : Protocols]

\* Types of the shared record, the gates, the channel and every local.
TypeOK ==
    /\ epoch \in Nat /\ generation \in 0..MaxRequests /\ revision \in Nat
    /\ slot \in [desired : BOOLEAN,
                 spec : [cfg : Settings, scope : Scopes, set : BOOLEAN],
                 health : 0..MaxRequests, intent : Nat, server : Listener]
    /\ lease \in [gen : 0..MaxRequests, role : Protocols]
    /\ health \in [Gens -> Health]
    /\ live \subseteq Listener
    /\ rule \in [Protocols -> BOOLEAN]
    /\ gate \in Users \cup {Nobody}
    /\ lifecycle \in Procs \cup {Nobody, Watcher}
    /\ events \in Seq([kind : {"retry", "fault"}, gen : Gens, fault : Faults])
    /\ config \in Settings
    /\ proc \in [Procs -> Proc]
    /\ watch \in [pc : {"idle", "observe", "apply", "mark"}, rev : Nat, known : BOOLEAN,
                  gen : 0..MaxRequests, inst : Nat]
    /\ spent \in [DOMAIN Bounds -> Nat]

\* Every listener that exists is the one RelayData holds or the candidate a
\* builder is about to store or to shut down: a Stop, a replacement or a failed
\* start never loses one that nobody could shut down any more.  No generation
\* ever has two listeners alive, and a Start binds its own only when no other
\* exists.  (A recovery may bind beside a listener of an older generation: it
\* removes only its own generation's, and the Start that installed the newer
\* generation may not have had the lifecycle yet.)
OneListener ==
    /\ \A l \in live :
          \/ l = slot.server
          \/ \E p \in Procs : proc[p].pc = "store" /\ l = Candidate(p)
    /\ \A l, m \in live : l.gen = m.gen => l = m
    /\ \A u \in Users : proc[u].pc = "store" => live = {Candidate(u)}

\* A Windows rule is enabled only while RelayData holds the lease that Stop,
\* replacement and recovery use to disable it.
RuleLeased == \A r \in Protocols : rule[r] => lease.gen # 0 /\ lease.role = r

\* A Stop that is still the newest intent when it returns leaves no listener
\* and no lease, unless Windows refused to give the rule back.
StopCompletes ==
    [][\A u \in Users :
         /\ proc[u].op = "stop" /\ proc[u].pc = "finish" /\ proc'[u].pc = "idle"
         /\ epoch = proc[u].epoch
         => /\ ~slot'.desired /\ live' = {}
            /\ lease' = NoLease \/ spent'.failures > spent.failures]_vars

\* A settings transaction that stopped a running output ends with the output
\* desired again or disabled, whichever step of it failed, unless the restart
\* itself failed or a newer intent took over.
NoOutputLost ==
    [][\A u \in Users :
         /\ proc[u].intent.was /\ proc[u].op # "stop"
         /\ proc[u].pc # "cancel" /\ proc'[u].pc = "idle"
         /\ epoch = proc[u].epoch
         => slot'.desired \/ ~config'.enabled]_vars

\* A settings transaction brings the output back only as the very next intent
\* after its own stop: a Stop or Start claimed in between prevails.
RestartFollowsOwnStop ==
    [][\A u \in Users :
         /\ proc[u].pc = "publish" /\ proc[u].intent # NoIntent
         /\ slot'.desired /\ ~slot.desired /\ proc'[u].pc # "publish"
         => proc[u].epoch = proc[u].intent.epoch + 1]_vars

\* Once Stop has published its intent, the stored listener may not open the
\* camera again.  The one exception is an SRT listener that the topology watcher
\* or the supervisor was about to mark: the late mark replaces Stopped by Failed
\* or Recovering, and an SRT upstream is guarded by that state alone.
UpstreamFenced ==
    slot.server # NoListener /\ ~slot.desired =>
        \/ ~UpstreamOpen(slot.server)
        \/ slot.server.role = "srt" /\ health[slot.server.gen].state \in {"Failed", "Recovering"}

\* Nothing is opened to the network or to the camera without its owner:
\* neither an inbound rule without the lease that takes it back, nor an
\* upstream behind a published Stop.
OpeningsOwned == RuleLeased /\ UpstreamFenced

\* The scope published for a running listener follows the inventory: it does
\* not stay stale or Unknown for good, however observations, requests, failures
\* and rebuilds race, unless the listener goes.
ScopeRepaired ==
    []<>(slot.desired /\ slot.server # NoListener => slot.spec.scope = revision)

\* Every request returns: it gets the transaction gate and the lifecycle in
\* turn although requests, the supervisor and the watcher contend for them, and
\* whatever supersedes a request or fails in it, it keeps none of them.
RequestsReturn == \A u \in Users : []<>(proc[u].pc = "idle")
=============================================================================
