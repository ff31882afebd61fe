----------------------------- MODULE SrtServer -----------------------------
(***************************************************************************)
(* The SRT listener (streaming/srt_server.rs): the staged start of one     *)
(* pipeline per listener instance, its admission, demux, output and        *)
(* before-send callbacks, the bus thread, and the two-part shutdown.  The  *)
(* service above it, which begins instances and marks a failed build, is   *)
(* RelayService; the srtsink and the callers' handshakes are external and  *)
(* follow the contract the callbacks are written for.                      *)
(***************************************************************************)
EXTENDS CallerRegistry, RelayHealth, Sequences

CONSTANTS
    MaxInstances,   \* bound: listener instances
    MaxNow,         \* bound: clock ticks
    MaxTrouble      \* bound: failures of the pipeline, the camera and the plugin

ASSUME SrtAssumption == {MaxInstances, MaxNow, MaxTrouble} \subseteq Nat

VARIABLES
    h,          \* RelayRuntimeHealth
    srv,        \* the SrtRestreamer being built or running
    stop,       \* shutdown_requested of every instance
    bus,        \* the bus thread of every instance
    fault,      \* SrtRuntimeProbe.pending and the channel: instances whose fault was sent
    linked,     \* video_linked: a demux pad was taken
    peer,       \* external: the callers' connections
    asked,      \* external: when a caller's handshake was last accepted
    now, trouble

srtVars == <<registry, h, srv, stop, bus, fault, linked, peer, asked, now, trouble>>

NoServer == [st |-> "none", inst |-> 0, data |-> 0, ingest |-> "rtsp"]
Stages == {"none", "built", "playing", "bound", "up", "closing"}
Quietly == UNCHANGED <<reserved, active, verdict, peer, asked>>

Trouble == trouble < MaxTrouble /\ trouble' = trouble + 1

(***************************************************************************)
(* Faults                                                                  *)
(***************************************************************************)

\* A bug: the event is sent whenever the fault was seen.
PublishAlways(i, new) == fault' = fault \cup {i}

\* SrtRuntimeProbe::publish, called with the event the record returned.
Publish(i, new) ==
    fault' = IF Faulted(new) /\ ~Faulted(h) THEN fault \cup {i} ELSE fault

\* SrtCallbackContext::emit_fault
Emit(i, kind) ==
    LET new == IF stop[i] THEN h ELSE ReportFault(h, i, srv.data, kind)
    IN h' = new /\ Publish(i, new)

(***************************************************************************)
(* Start                                                                   *)
(***************************************************************************)

\* stop_candidate, then the end of the data generation; the service records the
\* failed build.
StopCandidate(i) == stop' = [stop EXCEPT ![i] = TRUE] /\ ClearRegistry
                    /\ peer' = [c \in Callers |-> "away"] /\ asked' = [c \in Callers |-> NoTime]
Abandon(i, bind) ==
    /\ StopCandidate(i)
    /\ h' = MarkBuildFailed(EndDataGeneration(h, i, srv.data), i, bind)
    /\ srv' = NoServer

\* start_from_rtsp, start_from_udp up to start_prepared: readiness, preflight,
\* pipeline, sink, handlers and probe.  What fails before the data generation
\* leaves nothing; a demux or probe that fails afterwards ends it.
Start(ingest) ==
    /\ srv = NoServer /\ h.inst < MaxInstances
    /\ linked' = FALSE
    /\ LET i == h.inst + 1
           begun == BeginServerInstance(h, i > 1)
           data == BeginDataGeneration(begun, i)
       IN /\ stop' = Append(stop, FALSE) /\ bus' = Append(bus, "none")
          /\ ClearRegistry
          /\ \/ /\ h' = data /\ UNCHANGED trouble
                /\ srv' = [st |-> "built", inst |-> i, data |-> data.data, ingest |-> ingest]
             \/ /\ Trouble /\ UNCHANGED srv
                /\ \/ h' = MarkBuildFailed(begun, i, FALSE)
                   \/ h' = MarkBuildFailed(EndDataGeneration(data, i, data.data), i, FALSE)
    /\ UNCHANGED <<fault, peer, asked, now>>

StartFromRtsp == Start("rtsp")
StartFromUdp == Start("udp")

\* start_prepared: arm the first-buffer deadline and play.  From here callbacks
\* run.  A failure is a bind failure exactly when the port stays taken.
Play ==
    /\ srv.st = "built"
    /\ \/ /\ h' = ArmFirstBuffer(h, srv.inst, srv.data, now)
          /\ srv' = [srv EXCEPT !.st = "playing"]
          /\ Quietly /\ UNCHANGED <<stop, trouble>>
       \/ Trouble /\ \E bind \in BOOLEAN : Abandon(srv.inst, bind)
    /\ UNCHANGED <<bus, fault, linked, now>>

Bind ==
    LET bound == MarkListenerBound(h, srv.inst)
    IN /\ srv.st = "playing"
       /\ h' = IF srv.ingest = "udp" THEN ReportStreaming(bound, srv.inst, srv.data, now)
               ELSE bound
       /\ srv' = [srv EXCEPT !.st = "bound"]
       /\ Quietly /\ UNCHANGED <<stop, bus, fault, linked, now, trouble>>

\* spawn_bus_thread: the thread has a second to say it runs.  When it is late
\* the start fails, and the thread finds the shutdown flag whenever it gets to
\* run; when it could not be created there is none.
Spawn ==
    /\ srv.st = "bound" /\ bus[srv.inst] = "none"
    /\ \/ /\ bus' = [bus EXCEPT ![srv.inst] = "spawned"]
          /\ Quietly /\ UNCHANGED <<h, srv, stop, trouble>>
       \/ Trouble /\ Abandon(srv.inst, FALSE) /\ UNCHANGED bus
    /\ UNCHANGED <<fault, linked, now>>

\* The start waits for the thread's first sign, or gives up.
Await ==
    /\ srv.st = "bound" /\ bus[srv.inst] # "none"
    /\ \/ /\ bus[srv.inst] # "spawned"
          /\ srv' = [srv EXCEPT !.st = "up"]
          /\ Quietly /\ UNCHANGED <<h, stop, trouble>>
       \/ bus[srv.inst] = "spawned" /\ Trouble /\ Abandon(srv.inst, FALSE)
    /\ UNCHANGED <<bus, fault, linked, now>>

(***************************************************************************)
(* The bus thread of an instance                                           *)
(***************************************************************************)

BusStart(i) ==
    /\ bus[i] = "spawned"
    /\ bus' = [bus EXCEPT ![i] = "run"]
    /\ h' = LoopStarted(h, i)
    /\ Quietly /\ UNCHANGED <<srv, stop, fault, linked, now, trouble>>

\* The first error or end of stream is reported and ends the loop.
BusMessage(i, kind) ==
    /\ bus[i] = "run" /\ ~stop[i] /\ Trouble
    /\ kind \in {"GstError", "PermanentGstError", "Eos"}
    /\ Emit(i, kind)
    /\ bus' = [bus EXCEPT ![i] = "exit"]
    /\ Quietly /\ UNCHANGED <<srv, stop, linked, now>>

BusStop(i) ==
    /\ bus[i] = "run" /\ stop[i]
    /\ bus' = [bus EXCEPT ![i] = "exit"]
    /\ Quietly /\ UNCHANGED <<h, srv, stop, fault, linked, now, trouble>>

\* loop_exited: intended when the flag is set by then.
Exited(i) == LoopExited(h, i, stop[i])

BusExit(i) ==
    /\ bus[i] = "exit"
    /\ bus' = [bus EXCEPT ![i] = "done"]
    /\ h' = Exited(i) /\ Publish(i, Exited(i))
    /\ Quietly /\ UNCHANGED <<srv, stop, linked, now, trouble>>

(***************************************************************************)
(* Callbacks of the playing pipeline                                       *)
(***************************************************************************)

Live == srv.st \in {"playing", "bound", "up"} /\ ~stop[srv.inst]
Elsewhere == UNCHANGED <<srv, stop, bus, now>>

\* An admission callback whose verdict is a fault reports it.
Admit ==
    IF verdict' = "fault" THEN Emit(srv.inst, "Capability") ELSE UNCHANGED <<h, fault>>

\* caller-connecting.  The listener asks for every handshake it sees, repeated
\* ones included.
Connecting(c, matches) ==
    /\ Live /\ CallerConnecting(c, matches, now) /\ Admit
    /\ IF verdict' = "accept" /\ peer[c] # "linked"
       THEN /\ peer' = [peer EXCEPT ![c] = "asking"]
            /\ asked' = [asked EXCEPT ![c] = now]
       ELSE UNCHANGED <<peer, asked>>
    /\ UNCHANGED <<linked, trouble>> /\ Elsewhere

\* caller-added: a handshake completes before its reservation expires.
Added(c) ==
    /\ Live /\ peer[c] = "asking" /\ now - asked[c] < PendingTtl
    /\ CallerAdded(c) /\ Admit
    /\ peer' = [peer EXCEPT ![c] = "linked"]
    /\ UNCHANGED <<asked, linked, trouble>> /\ Elsewhere

\* A handshake that fails says nothing.
GivesUp(c) ==
    /\ Live /\ peer[c] = "asking"
    /\ peer' = [peer EXCEPT ![c] = "away"]
    /\ UNCHANGED <<registry, h, fault, asked, linked, trouble>> /\ Elsewhere

\* caller-removed
Removed(c) ==
    /\ Live /\ peer[c] = "linked"
    /\ CallerRemoved(c) /\ Admit
    /\ peer' = [peer EXCEPT ![c] = "away"] /\ asked' = [asked EXCEPT ![c] = NoTime]
    /\ UNCHANGED <<linked, trouble>> /\ Elsewhere

\* A callback of a plugin that breaks the contract.
Malformed ==
    /\ Live /\ Trouble /\ CallerMalformed /\ Admit
    /\ UNCHANGED <<peer, asked, linked>> /\ Elsewhere

\* before-send: the camera path is checked before every request.
BeforeSend ==
    /\ Live /\ srv.ingest = "rtsp" /\ Trouble
    /\ Emit(srv.inst, "GstError")
    /\ Quietly /\ UNCHANGED linked /\ Elsewhere

\* pad-added: the first H.264 pad is taken, and may fail to link.
PadAdded ==
    /\ Live /\ srv.ingest = "udp" /\ ~linked /\ linked' = TRUE
    /\ \/ UNCHANGED <<h, fault, trouble>>
       \/ Trouble /\ Emit(srv.inst, "Capability")
    /\ Quietly /\ Elsewhere

\* no-more-pads
NoMorePads ==
    /\ Live /\ srv.ingest = "udp" /\ ~linked /\ Trouble
    /\ Emit(srv.inst, "Capability")
    /\ Quietly /\ UNCHANGED linked /\ Elsewhere

\* The output probe sees a buffer.
Buffer ==
    /\ Live /\ (srv.ingest = "udp" => linked)
    /\ h' = ObserveBuffer(h, srv.inst, srv.data, now)
    /\ Quietly /\ UNCHANGED <<fault, linked, trouble>> /\ Elsewhere

(***************************************************************************)
(* Shutdown                                                                *)
(***************************************************************************)

\* begin_shutdown, also from Drop.
BeginShutdown ==
    /\ srv.st = "up"
    /\ StopCandidate(srv.inst)
    /\ srv' = [srv EXCEPT !.st = "closing"]
    /\ UNCHANGED <<h, bus, fault, linked, now, trouble>>

\* The thread is joined, or leaked after three seconds.
FinishShutdown ==
    /\ srv.st = "closing"
    /\ \/ bus[srv.inst] = "done" /\ UNCHANGED trouble
       \/ bus[srv.inst] # "done" /\ Trouble
    /\ ClearRegistry
    /\ h' = EndDataGeneration(h, srv.inst, srv.data)
    /\ srv' = NoServer
    /\ UNCHANGED <<stop, bus, fault, linked, peer, asked, now>>

Tick == now < MaxNow /\ now' = now + 1
        /\ UNCHANGED <<registry, h, srv, stop, bus, fault, linked, peer, asked, trouble>>

SrtInit ==
    /\ RegInit /\ h = NewHealth /\ srv = NoServer /\ stop = <<>> /\ bus = <<>>
    /\ fault = {} /\ linked = FALSE /\ now = 0 /\ trouble = 0
    /\ peer = [c \in Callers |-> "away"] /\ asked = [c \in Callers |-> NoTime]

SrtCallback ==
    \/ \E c \in Callers :
         \/ \E matches \in BOOLEAN : Connecting(c, matches)
         \/ Added(c) \/ GivesUp(c) \/ Removed(c)
    \/ Malformed \/ BeforeSend \/ PadAdded \/ NoMorePads \/ Buffer

Thread ==
    \E i \in DOMAIN bus :
      \/ BusStart(i) \/ BusStop(i) \/ BusExit(i)
      \/ \E kind \in FaultKinds : BusMessage(i, kind)

SrtNext ==
    \/ StartFromRtsp \/ StartFromUdp
    \/ Play \/ Bind \/ Spawn \/ Await \/ SrtCallback \/ Thread
    \/ BeginShutdown \/ FinishShutdown \/ Tick

SrtSpec == SrtInit /\ [][SrtNext]_srtVars

(***************************************************************************)
(* Properties                                                              *)
(***************************************************************************)

\* Types.
SrtTypeOK ==
    /\ RegistryType /\ h \in Health
    /\ srv \in [st : Stages, inst : Nat, data : Nat, ingest : {"rtsp", "udp"}]
    /\ stop \in [1..h.inst -> BOOLEAN]
    /\ bus \in [1..h.inst -> {"none", "spawned", "run", "exit", "done"}]
    /\ fault \subseteq 1..h.inst /\ linked \in BOOLEAN
    /\ peer \in [Callers -> {"away", "asking", "linked"}]
    /\ asked \in [Callers -> Nat \cup {NoTime}]

\* The number of callers shown is the number connected, and every slot taken
\* belongs to a caller connected or accepted within PENDING_CALLER_TTL: slots
\* of handshakes that failed come back, so a caller is turned away for
\* capacity only at the limit.
SlotsEarned ==
    Live => /\ active = {c \in Callers : peer[c] = "linked"}
            /\ Held(Pruned(now)) \subseteq
                 {c \in Callers : asked[c] # NoTime /\ now - asked[c] < PendingTtl}

\* A listener that keeps the callback contract is never reported as broken:
\* repeated handshakes, retries of a handshake that failed and expiries at the
\* limit raise no capability fault.
ContractKept == verdict = "fault" => trouble > 0

\* Whenever the bus thread of the current instance ended without being asked,
\* the supervisor was sent a fault of this instance; and it is sent no event
\* for an instance that recorded none.
EndNoticed ==
    /\ \A i \in DOMAIN bus : bus[i] = "done" /\ ~stop[i] /\ h.inst = i => i \in fault
    /\ h.inst \in fault => Faulted(h)

=============================================================================
