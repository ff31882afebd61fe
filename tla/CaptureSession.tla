--------------------------- MODULE CaptureSession ---------------------------
(***************************************************************************)
(* The persistent packet-capture listener, the discovery session above it  *)
(* and the session's health watchdog.                                      *)
(*                                                                         *)
(* One capture thread at a time may hold the fixed-name native session.    *)
(* Its handle sits in a slot; the join of a thread that was told to stop   *)
(* is parked until a later start has seen it exit.  Lifecycle operations   *)
(* (start, resume, stop) run one at a time under discovery_op.  The        *)
(* watchdog of a discovery session runs beside them: it restarts a deaf    *)
(* capture, scoped and then unscoped, before it reports degradation.       *)
(*                                                                         *)
(* A capture thread may take any time to start and to exit, or never do    *)
(* so; every wait for it is bounded by a timeout.  Lock acquisitions that  *)
(* meet no contention are not separate steps.                              *)
(***************************************************************************)
EXTENDS Naturals, FiniteSets

CONSTANTS
  MaxThreads,   \* bound: capture threads referred to at one time
  None,         \* no thread, no adapter, no data source
  Adapters,     \* wired adapters that can be selected
  MaxRestarts,  \* LADDER_MAX_RESTARTS
  MaxQuiet,     \* MAX_QUIET_WINDOWS
  MaxOps,       \* bound: lifecycle operations begun
  MaxChurn      \* bound: link changes and re-created data sources

Threads == 1 .. MaxThreads

ASSUME CaptureAssumption ==
  /\ None \notin Nat \cup Adapters
  /\ MaxThreads \in Nat
  /\ MaxRestarts \in Nat /\ MaxQuiet \in Nat \ {0}
  /\ MaxOps \in Nat /\ MaxChurn \in Nat

VARIABLES
  thread,    \* each capture thread: state, shutdown, lifecycle flag, scope
  slot,      \* arp_listener_handle
  parked,    \* prior_capture_joins
  dropped,   \* threads whose join handle was dropped before they exited
  identity,  \* capture_identity: adapter, data source, incarnation
  signal,    \* capture_signal: active, and the last outcome
  session,   \* discovery_active
  dog,       \* the watchdog task
  op,        \* the lifecycle operation that holds discovery_op
  selected,  \* the committed adapter selection
  wire,      \* the selected port: link, and the native data-source id
  count      \* what the bounds are spent on

vars == <<thread, slot, parked, dropped, identity, signal, session, dog, op,
          selected, wire, count>>
envVars == <<wire, count>>

Outcomes == {"selected", "by_name", "unscoped"}
NoThread == [st |-> "gone", shutdown |-> FALSE, flag |-> FALSE,
             on |-> None, forced |-> FALSE, rx |-> "none"]
NoIdentity == [on |-> None, source |-> None, inc |-> None]
NoDog == [pc |-> "off", stop |-> FALSE, used |-> 0, quiet |-> 0,
          hand |-> None, fresh |-> FALSE]
NoOp == [pc |-> "idle", kind |-> "none", on |-> None, up |-> FALSE,
         preserve |-> FALSE, full |-> FALSE]

TypeOK ==
  /\ thread \in [Threads -> [st : {"starting", "active", "gone"},
                             shutdown : BOOLEAN, flag : BOOLEAN,
                             on : Adapters \cup {None}, forced : BOOLEAN,
                             rx : Outcomes \cup {"none", "error"}]]
  /\ slot \in Threads \cup {None}
  /\ parked \subseteq Threads /\ dropped \subseteq Threads
  /\ identity \in [on : Adapters \cup {None}, source : {None, 1, 2},
                   inc : Threads \cup {None}]
  /\ signal \in [active : BOOLEAN, outcome : Outcomes \cup {None}]
  /\ session \in BOOLEAN
  /\ dog \in [pc : {"off", "window", "joining", "draining", "activating",
                    "polling"},
              stop : BOOLEAN, used : 0 .. MaxRestarts, quiet : 0 .. MaxQuiet,
              hand : Threads \cup {None}, fresh : BOOLEAN]
  /\ op \in [pc : {"idle", "stop_session", "wait_dog", "stop_capture",
                   "ensure", "drain", "activating", "gate"},
             kind : {"none", "start", "resume", "stop"},
             on : Adapters \cup {None}, up : BOOLEAN, preserve : BOOLEAN,
             full : BOOLEAN]
  /\ selected \in Adapters \cup {None}
  /\ wire \in [up : BOOLEAN, source : {1, 2}]
  /\ count \in [ops : 0 .. MaxOps, churn : 0 .. MaxChurn]

Init ==
  /\ thread = [t \in Threads |-> NoThread]
  /\ slot = None /\ parked = {} /\ dropped = {}
  /\ identity = NoIdentity
  /\ signal = [active |-> FALSE, outcome |-> None]
  /\ session = FALSE
  /\ dog = NoDog /\ op = NoOp
  /\ selected = None
  /\ wire \in [up : BOOLEAN, source : {1}]
  /\ count = [ops |-> 0, churn |-> 0]

-----------------------------------------------------------------------------
(***************************************************************************)
(* Handles, joins and incarnation flags                                    *)
(***************************************************************************)

Living == {t \in Threads : thread[t].st # "gone"}

\* The number of the next thread: the least that nothing refers to, once the
\* parked joins are drained.
Fresh ==
  LET free == {t \in Threads \ Living : t \notin {slot, dog.hand, identity.inc}}
  IN {t \in free : \A u \in free : t <= u}

\* stop_into_join: shutdown is sent; the thread itself runs on.
Signalled(th, t) ==
  IF t = None THEN th ELSE [th EXCEPT ![t].shutdown = TRUE]

\* A bug: the flag of the old incarnation is left set.
RetiredNot(th, t) == th

\* identity.active.store(false).
Retired(th, t) == IF t = None THEN th ELSE [th EXCEPT ![t].flag = FALSE]

\* park_capture_handle: the slot's handle becomes a parked join.
Parked == parked \cup ({slot} \ {None})

\* drain_prior_capture: every parked thread has exited.
Drained == parked \cap Living = {}

\* start_listener after the drain: the blocking thread is spawned.
Spawned(th, t, adapter, unscoped) ==
  [th EXCEPT ![t] = [st |-> "starting", shutdown |-> FALSE, flag |-> TRUE,
                     on |-> adapter, forced |-> unscoped, rx |-> "none"]]

-----------------------------------------------------------------------------
(***************************************************************************)
(* The blocking capture thread                                             *)
(***************************************************************************)

\* enumerate_and_join: the one source with the adapter's MAC, or else the one
\* with its name.
Joined == {"selected", "by_name"}

\* CaptureSession::start: PreferScoped falls back to a fresh unscoped session;
\* ForcedUnscoped skips the scoped attempt.
Opened(forced) == {"unscoped"} \cup IF forced THEN {} ELSE Joined

\* The native session opens and its outcome is reported.
ThreadActivate(t) ==
  /\ thread[t].st = "starting"
  /\ \E o \in Opened(thread[t].forced) :
       thread' = [thread EXCEPT ![t].st = "active", ![t].rx = o]
  /\ UNCHANGED <<slot, parked, dropped, identity, signal, session, dog, op,
                 selected, envVars>>

\* Opening fails, scoped and unscoped; or the thread dies before reporting.
ThreadFail(t) ==
  /\ thread[t].st = "starting"
  /\ thread' = [thread EXCEPT ![t] = [NoThread EXCEPT !.flag = thread[t].flag,
                                                        !.rx = "error"]]
  /\ dropped' = dropped \ {t}
  /\ UNCHANGED <<slot, parked, identity, signal, session, dog, op, selected,
                 envVars>>

\* The shutdown flip is seen; the native session is torn down.
ThreadExit(t) ==
  /\ thread[t].st = "active" /\ thread[t].shutdown
  /\ thread' = [thread EXCEPT ![t] = [NoThread EXCEPT !.flag = thread[t].flag]]
  /\ dropped' = dropped \ {t}
  /\ UNCHANGED <<slot, parked, identity, signal, session, dog, op, selected,
                 envVars>>

-----------------------------------------------------------------------------
(***************************************************************************)
(* Lifecycle operations, under discovery_op                                *)
(***************************************************************************)

Begin(o) ==
  /\ op.pc = "idle" /\ count.ops < MaxOps
  /\ op' = o
  /\ count' = [count EXCEPT !.ops = @ + 1]

\* start_arp_discovery, refresh and mode changes: resolve_adapter_locked
\* retires the incarnation and stops everything when the selection changed.
BeginStart(a, preserve) ==
  /\ Begin([pc |-> "stop_session", kind |-> "start", on |-> a,
            up |-> wire.up, preserve |-> preserve, full |-> a # selected])
  /\ thread' = IF a # selected THEN Retired(thread, identity.inc) ELSE thread
  /\ UNCHANGED <<slot, parked, dropped, identity, signal, session, dog,
                 selected, wire>>

\* resume_discovery: no session runs on the selected adapter, and a port that
\* is down is not already being listened to.  The capture is preserved.
ResumeAllowed ==
  /\ selected # None /\ ~session
  /\ wire.up \/ ~signal.active
BeginResume ==
  /\ ResumeAllowed
  /\ Begin([pc |-> "stop_session", kind |-> "resume", on |-> selected,
            up |-> wire.up, preserve |-> TRUE, full |-> FALSE])
  /\ UNCHANGED <<thread, slot, parked, dropped, identity, signal, session,
                 dog, selected, wire>>

\* stop_arp_discovery, a change to Static Manual, exit.
BeginStop ==
  /\ Begin([NoOp EXCEPT !.pc = "stop_session", !.kind = "stop",
                        !.on = selected, !.full = TRUE])
  /\ UNCHANGED <<thread, slot, parked, dropped, identity, signal, session,
                 dog, selected, wire>>

AfterSession == IF op.full THEN "stop_capture" ELSE "ensure"

\* stop_session_locked: the fence goes stale first, then the watchdog is asked
\* to stop.
StopSession ==
  /\ op.pc = "stop_session"
  /\ session' = FALSE
  /\ dog' = IF dog.pc = "off" THEN dog ELSE [dog EXCEPT !.stop = TRUE]
  /\ op' = [op EXCEPT !.pc = IF dog.pc = "off" THEN AfterSession
                                               ELSE "wait_dog"]
  /\ UNCHANGED <<thread, slot, parked, dropped, identity, signal, selected,
                 envVars>>

DogStopped ==
  /\ op.pc = "wait_dog" /\ dog.pc = "off"
  /\ op' = [op EXCEPT !.pc = AfterSession]
  /\ UNCHANGED <<thread, slot, parked, dropped, identity, signal, session,
                 dog, selected, envVars>>

\* WATCHDOG_STOP_TIMEOUT: the task is aborted.  Only a join or a drain keeps
\* it from seeing the shutdown in time.  A drain joins in place, so its
\* handles stay parked; the join of a torn-down session is dropped.
DogAborted ==
  /\ op.pc = "wait_dog" /\ dog.pc \in {"joining", "draining"}
  /\ dropped' = dropped \cup ({dog.hand} \cap Living)
  /\ dog' = NoDog
  /\ op' = [op EXCEPT !.pc = AfterSession]
  /\ UNCHANGED <<thread, slot, parked, identity, signal, session, selected,
                 envVars>>

\* stop_capture_locked; a start commits the new selection after it.
StopCapture ==
  /\ op.pc = "stop_capture"
  /\ thread' = Signalled(Retired(thread, identity.inc), slot)
  /\ identity' = NoIdentity
  /\ signal' = [signal EXCEPT !.active = FALSE]
  /\ parked' = Parked /\ slot' = None
  /\ selected' = op.on
  /\ op' = IF op.kind = "stop" THEN NoOp ELSE [op EXCEPT !.pc = "ensure"]
  /\ UNCHANGED <<dropped, session, dog, envVars>>

\* The adapter is gone, is not wired or has no usable index.  A retained
\* listener is left alone.
StartRefused ==
  /\ op.pc = "ensure"
  /\ op' = NoOp
  /\ UNCHANGED <<thread, slot, parked, dropped, identity, signal, session,
                 dog, selected, envVars>>

\* listener_action and mode_capture_action: keep an active listener of the
\* same adapter unless an enumeration shows another data source; an unscoped
\* one is kept only when the caller preserves it.
Keeps(live) ==
  /\ slot # None /\ identity.inc # None
  /\ thread[identity.inc].flag
  /\ identity.on = op.on
  /\ \/ live = None
     \/ identity.source = live
     \/ identity.source = None /\ op.preserve

\* live_source_id_for: a fresh enumeration, or a failed one.
Probed == {None, wire.source}

EnsureKeep ==
  /\ op.pc = "ensure" /\ op.on # None
  /\ \E live \in Probed : Keeps(live)
  /\ signal.outcome # None
  /\ op' = [op EXCEPT !.pc = "gate"]
  /\ UNCHANGED <<thread, slot, parked, dropped, identity, signal, session,
                 dog, selected, envVars>>

\* Attach or replace: the old incarnation is retired before it is torn down.
EnsureReplace ==
  /\ op.pc = "ensure" /\ op.on # None
  /\ \/ signal.outcome = None
     \/ \E live \in Probed : ~Keeps(live)
  /\ thread' = Signalled(Retired(thread, identity.inc), slot)
  /\ identity' = NoIdentity
  /\ signal' = [signal EXCEPT !.active = FALSE]
  /\ parked' = Parked /\ slot' = None
  /\ op' = [op EXCEPT !.pc = "drain"]
  /\ UNCHANGED <<dropped, session, dog, selected, envVars>>

EnsureStart ==
  /\ op.pc = "drain" /\ Drained
  /\ parked' = {}
  /\ \E t \in Fresh :
       /\ thread' = Spawned(thread, t, op.on, FALSE)
       /\ slot' = t
  /\ op' = [op EXCEPT !.pc = "activating"]
  /\ UNCHANGED <<dropped, identity, signal, session, dog, selected, envVars>>

\* A bug: the drain waits for the previous threads without a bound.
EnsureDrainForever ==
  op.pc = "drain" /\ ~Drained /\ UNCHANGED vars

\* CAPTURE_JOIN_TIMEOUT: a previous thread still lives; nothing is started.
EnsureDrainTimeout ==
  /\ op.pc = "drain" /\ ~Drained
  /\ parked' = parked \cap Living
  /\ op' = NoOp
  /\ UNCHANGED <<thread, slot, dropped, identity, signal, session, dog,
                 selected, envVars>>

\* The source id an outcome carries.
SourceOf(o) == IF o = "unscoped" THEN None ELSE wire.source

\* On a port that is down only a MAC-scoped session may listen.
PreAttachRefused(o) == ~op.up /\ o # "selected"

EnsureActivated ==
  /\ op.pc = "activating" /\ thread[slot].rx \in Outcomes
  /\ ~PreAttachRefused(thread[slot].rx)
  /\ identity' = [on |-> op.on, source |-> SourceOf(thread[slot].rx),
                  inc |-> slot]
  /\ signal' = [active |-> TRUE, outcome |-> thread[slot].rx]
  /\ op' = [op EXCEPT !.pc = "gate"]
  /\ UNCHANGED <<thread, slot, parked, dropped, session, dog, selected,
                 envVars>>

\* The attach did not come up, did not confirm within the bound, or heard
\* more than the port it was meant for: retired and parked.
EnsureAbandoned ==
  /\ op.pc = "activating"
  /\ \/ thread[slot].st = "starting"
     \/ thread[slot].rx = "error"
     \/ thread[slot].rx \in Outcomes /\ PreAttachRefused(thread[slot].rx)
  /\ thread' = Signalled(Retired(thread, slot), slot)
  /\ parked' = Parked /\ slot' = None
  /\ op' = NoOp
  /\ UNCHANGED <<dropped, identity, signal, session, dog, selected, envVars>>

\* The up-gate: a port that is down keeps the listener and fails the start.
GateDown ==
  /\ op.pc = "gate" /\ ~op.up
  /\ op' = NoOp
  /\ UNCHANGED <<thread, slot, parked, dropped, identity, signal, session, dog,
                 selected, envVars>>

\* DiscoverySession::start: a new session begins with its own watchdog.
Gate ==
  /\ op.pc = "gate" /\ op.up
  /\ session' = TRUE
  /\ dog' = [NoDog EXCEPT !.pc = "window"]
  /\ op' = NoOp
  /\ UNCHANGED <<thread, slot, parked, dropped, identity, signal, selected,
                 envVars>>

-----------------------------------------------------------------------------
(***************************************************************************)
(* The watchdog                                                            *)
(***************************************************************************)

\* next_ladder_step: a dead session is restarted while the ladder has a rung,
\* the first time scoped and then unscoped.
RestartLeft == dog.used < MaxRestarts
ForcedUnscoped == dog.used # 0

\* Exhaust: degraded is reported, and a session that is left is polled.
Exhausted(s) ==
  IF s = None THEN NoDog
              ELSE [dog EXCEPT !.pc = "polling", !.hand = None]

\* A shutdown signal ends every wait that watches it.
DogEnds ==
  /\ dog.pc \in {"window", "activating", "polling"} /\ dog.stop
  /\ dog' = NoDog
  /\ UNCHANGED <<thread, slot, parked, dropped, identity, signal, session, op,
                 selected, envVars>>

\* note_solicitation: the fences hold and a listener counts the answers.
Counted == session /\ slot # None

\* provoke_sweep: targets on the selected adapter are probed in the current
\* session (a sweep of an earlier one finds its fence stale and returns); only
\* then does a checkpoint window run.
Solicit ==
  /\ Counted /\ dog.pc = "window" /\ ~dog.fresh
  /\ dog' = [dog EXCEPT !.fresh = TRUE]
  /\ UNCHANGED <<thread, slot, parked, dropped, identity, signal, session, op,
                 selected, envVars>>

Window == dog.pc = "window" /\ dog.fresh /\ ~dog.stop /\ slot # None

\* Payload frames were counted by the installed session.
WindowHealthy ==
  /\ Window /\ thread[slot].st = "active"
  /\ dog' = NoDog
  /\ UNCHANGED <<thread, slot, parked, dropped, identity, signal, session, op,
                 selected, envVars>>

HoldExpires == dog.quiet + 1 >= MaxQuiet

\* Nothing either way: hold, up to MaxQuiet windows.
WindowQuiet ==
  /\ Window /\ ~HoldExpires
  /\ dog' = [dog EXCEPT !.quiet = @ + 1, !.fresh = FALSE]
  /\ UNCHANGED <<thread, slot, parked, dropped, identity, signal, session, op,
                 selected, envVars>>

\* The hold expires while the link is down or cannot be read.
WindowQuietEnds ==
  /\ Window /\ HoldExpires
  /\ dog' = NoDog
  /\ UNCHANGED <<thread, slot, parked, dropped, identity, signal, session, op,
                 selected, envVars>>

\* Own frames only, or a hold that expires with the link up.
WindowDead ==
  /\ Window
  /\ thread[slot].st = "active" \/ (HoldExpires /\ wire.up)

\* The ladder still has a restart: retire, signal off, tear down, join.
RestartTeardown ==
  /\ WindowDead /\ RestartLeft
  /\ thread' = Signalled(Retired(thread, identity.inc), slot)
  /\ signal' = [signal EXCEPT !.active = FALSE]
  /\ dog' = [dog EXCEPT !.pc = "joining", !.hand = slot, !.quiet = 0,
                        !.fresh = FALSE]
  /\ slot' = None
  /\ UNCHANGED <<parked, dropped, identity, session, op, selected, envVars>>

LadderExhausted ==
  /\ WindowDead /\ ~RestartLeft
  /\ dog' = Exhausted(slot)
  /\ UNCHANGED <<thread, slot, parked, dropped, identity, signal, session, op,
                 selected, envVars>>

RestartJoined ==
  /\ dog.pc = "joining" /\ dog.hand \notin Living
  /\ dog' = [dog EXCEPT !.pc = "draining", !.hand = None]
  /\ UNCHANGED <<thread, slot, parked, dropped, identity, signal, session, op,
                 selected, envVars>>

\* A bug: the wedged thread's join is forgotten instead of parked.
RestartJoinForgotten ==
  /\ dog.pc = "joining" /\ dog.hand \in Living
  /\ dog' = Exhausted(slot)
  /\ UNCHANGED <<thread, slot, parked, dropped, identity, signal, session, op,
                 selected, envVars>>

\* CAPTURE_JOIN_TIMEOUT: the wedged thread is parked; the ladder gives up.
RestartJoinTimeout ==
  /\ dog.pc = "joining" /\ dog.hand \in Living
  /\ parked' = parked \cup {dog.hand}
  /\ dog' = Exhausted(slot)
  /\ UNCHANGED <<thread, slot, dropped, identity, signal, session, op,
                 selected, envVars>>

\* The replacement is started once nothing parked lives (while a session holds
\* the slot nothing is parked), and installed, unless the session ended meanwhile: then it
\* belongs to nobody, and is retired and parked.
RestartStart ==
  /\ dog.pc = "draining" /\ Drained
  /\ \E t \in Fresh :
       LET th == Spawned(thread, t, identity.on, ForcedUnscoped) IN
       IF session
       THEN /\ thread' = th
            /\ slot' = t /\ parked' = {}
            /\ identity' = IF identity = NoIdentity THEN identity
                           ELSE [identity EXCEPT !.inc = t, !.source = None]
            /\ dog' = [dog EXCEPT !.pc = "activating", !.used = @ + 1]
       ELSE /\ thread' = Signalled(Retired(th, t), t)
            /\ parked' = {t}
            /\ dog' = NoDog
            /\ UNCHANGED <<slot, identity>>
  /\ UNCHANGED <<dropped, signal, session, op, selected, envVars>>

\* The restarted session confirmed; a stale watchdog just ends.
RestartActivated ==
  /\ dog.pc = "activating" /\ ~dog.stop /\ thread[slot].rx \in Outcomes
  /\ IF session
     THEN /\ identity' = [identity EXCEPT !.source = SourceOf(thread[slot].rx)]
          /\ signal' = [active |-> TRUE, outcome |-> thread[slot].rx]
          /\ dog' = [dog EXCEPT !.pc = "window", !.quiet = 0]
     ELSE dog' = NoDog /\ UNCHANGED <<identity, signal>>
  /\ UNCHANGED <<thread, slot, parked, dropped, session, op, selected,
                 envVars>>

\* The restarted session failed: its handle stays in the slot.
RestartFailed ==
  /\ dog.pc = "activating" /\ thread[slot].rx = "error"
  /\ dog' = Exhausted(slot)
  /\ UNCHANGED <<thread, slot, parked, dropped, identity, signal, session, op,
                 selected, envVars>>

\* CAPTURE_ACTIVATION_TIMEOUT: parked, with its flag still set.
RestartUnconfirmed ==
  /\ dog.pc = "activating" /\ thread[slot].st = "starting"
  /\ thread' = Signalled(thread, slot)
  /\ parked' = Parked /\ slot' = None
  /\ dog' = NoDog
  /\ UNCHANGED <<dropped, identity, signal, session, op, selected, envVars>>

\* The bounded poll after degradation: recovered, or given up.
PollEnds ==
  /\ dog.pc = "polling"
  /\ dog' = NoDog
  /\ UNCHANGED <<thread, slot, parked, dropped, identity, signal, session, op,
                 selected, envVars>>

-----------------------------------------------------------------------------
(***************************************************************************)
(* The wire                                                                *)
(***************************************************************************)

\* The link changes, or the driver re-creates the port's data source.
WireChanges ==
  /\ count.churn < MaxChurn
  /\ count' = [count EXCEPT !.churn = @ + 1]
  /\ \/ wire' = [wire EXCEPT !.up = ~@]
     \/ wire' = [wire EXCEPT !.source = 3 - @]
  /\ UNCHANGED <<thread, slot, parked, dropped, identity, signal, session, dog,
                 op, selected>>

ThreadStep == \E t \in Threads : ThreadActivate(t) \/ ThreadFail(t) \/ ThreadExit(t)

OpStep ==
  \/ StopSession \/ DogStopped \/ DogAborted \/ StopCapture
  \/ StartRefused \/ EnsureKeep \/ EnsureReplace
  \/ EnsureStart \/ EnsureDrainTimeout \/ EnsureActivated \/ EnsureAbandoned
  \/ GateDown \/ Gate

DogStep ==
  \/ DogEnds \/ Solicit
  \/ WindowHealthy \/ WindowQuiet \/ WindowQuietEnds
  \/ RestartTeardown \/ LadderExhausted
  \/ RestartJoined \/ RestartJoinTimeout \/ RestartStart
  \/ RestartActivated \/ RestartFailed
  \/ RestartUnconfirmed \/ PollEnds

Next ==
  \/ \E a \in Adapters \cup {None} : \E preserve \in {FALSE, a = selected} :
       BeginStart(a, preserve)
  \/ BeginResume \/ BeginStop
  \/ OpStep \/ DogStep \/ ThreadStep \/ WireChanges

\* Timers fire and tasks are scheduled; a capture thread owes nothing.
Fairness == WF_vars(OpStep) /\ WF_vars(DogEnds)

Spec == Init /\ [][Next]_vars /\ Fairness

-----------------------------------------------------------------------------
(***************************************************************************)
(* Properties                                                              *)
(***************************************************************************)

\* "The session name is fixed, so two live sessions must never overlap":
\* capture threads other than those whose join an abort dropped are never
\* alive together, whichever of them wedges.
OneSession == Cardinality(Living \ dropped) <= 1

\* At most one living capture thread may merge frames into the registry, even
\* beside a wedged predecessor, and only for the adapter that is selected.
OneVoice ==
  LET voices == {t \in Living : thread[t].flag} IN
  /\ Cardinality(voices) <= 1
  /\ \A t \in voices : thread[t].on = selected

\* Start, resume and stop return, whatever the capture threads do: every wait
\* for one is bounded.
OpReturns == op.pc # "idle" ~> op.pc = "idle"
=============================================================================
