-------------------------- MODULE RestreamProofs --------------------------
(***************************************************************************)
(* The two parts of the Restream relay that are one process each side of   *)
(* a listener: the SRT listener with its caller registry, and the relay    *)
(* service that starts, replaces and closes listeners.                     *)
(*                                                                         *)
(* SRT, for every set of callers, every limit and every number of          *)
(* instances: the registry comes first (Capacity and the types are         *)
(* inductive together under any order of callbacks, and the work is in     *)
(* the cardinalities).  The listener's steps are registry steps, so        *)
(* Capacity carries over; SrtInv ties the registry to the callers' real    *)
(* connections, the server to the current instance, and the fault record   *)
(* to the events that were sent.                                           *)
(*                                                                         *)
(* The relay service, for every set of jobs and commands and every bound:  *)
(* RelayInv is one invariant whose parts lean on each other (who holds     *)
(* which lock, who owns which intent, which listener belongs to which      *)
(* generation); the safety invariants and the action properties of the     *)
(* runs follow from it.  One lemma per action of Next preserves it.        *)
(***************************************************************************)
EXTENDS RelayService, SrtServer, FiniteSetTheorems, TLAPS

(***************************************************************************)
(* The caller registry                                                     *)
(***************************************************************************)

\* Occupancy counts the union of two disjoint finite sets.
LEMMA OccupancyIsUnion ==
    ASSUME NEW r \in [Callers -> Nat \cup {NoTime}], NEW a \in SUBSET Callers,
           Held(r) \cap a = {}
    PROVE  /\ IsFiniteSet(Held(r) \cup a)
           /\ Occupancy(r, a) = Cardinality(Held(r) \cup a)
           /\ Occupancy(r, a) \in Nat
<1>1. IsFiniteSet(Held(r)) /\ IsFiniteSet(a)
  BY FS_Subset, RegistryAssumption DEF Held
<1>2. IsFiniteSet({})  /\ Cardinality({}) = 0
  BY FS_EmptySet
<1>3. Cardinality(Held(r) \cup a) = Cardinality(Held(r)) + Cardinality(a) - Cardinality(Held(r) \cap a)
  BY <1>1, FS_Union
<1>4. Cardinality(Held(r)) \in Nat /\ Cardinality(a) \in Nat
  BY <1>1, FS_CardinalityType
<1>5. IsFiniteSet(Held(r) \cup a)
  BY <1>1, FS_Union
<1> QED BY <1>2, <1>3, <1>4, <1>5 DEF Occupancy

\* A registry whose callers are among those of one within the limit is within
\* the limit: what pruning, removal and promotion rely on.
LEMMA FewerCallers ==
    ASSUME NEW r \in [Callers -> Nat \cup {NoTime}], NEW a \in SUBSET Callers,
           NEW s \in [Callers -> Nat \cup {NoTime}], NEW b \in SUBSET Callers,
           Held(r) \cap a = {}, Held(s) \cap b = {},
           Held(s) \cup b \subseteq Held(r) \cup a,
           Occupancy(r, a) <= MaxCallers
    PROVE  Occupancy(s, b) <= MaxCallers
<1>1. IsFiniteSet(Held(r) \cup a) /\ Occupancy(r, a) = Cardinality(Held(r) \cup a)
      /\ Occupancy(r, a) \in Nat
  BY OccupancyIsUnion
<1>2. Occupancy(s, b) = Cardinality(Held(s) \cup b) /\ Occupancy(s, b) \in Nat
  BY OccupancyIsUnion
<1>3. Cardinality(Held(s) \cup b) <= Cardinality(Held(r) \cup a)
  BY <1>1, FS_Subset
<1> QED BY <1>1, <1>2, <1>3, RegistryAssumption

\* One more caller takes at most one more slot.
LEMMA OneMoreCaller ==
    ASSUME NEW r \in [Callers -> Nat \cup {NoTime}], NEW a \in SUBSET Callers,
           NEW s \in [Callers -> Nat \cup {NoTime}], NEW c \in Callers,
           Held(s) = Held(r) \cup {c}
    PROVE  /\ Occupancy(s, a) <= Occupancy(r, a) + 1
           /\ c \in Held(r) => Occupancy(s, a) = Occupancy(r, a)
<1>1. IsFiniteSet(Held(r)) /\ IsFiniteSet(a)
  BY FS_Subset, RegistryAssumption DEF Held
<1>2. /\ Cardinality(Held(r)) \in Nat /\ Cardinality(a) \in Nat
      /\ Cardinality(Held(r) \cup {c}) = IF c \in Held(r) THEN Cardinality(Held(r))
                                         ELSE Cardinality(Held(r)) + 1
  BY <1>1, FS_CardinalityType, FS_AddElement
<1> QED BY <1>2 DEF Occupancy

\* Pruning keeps the type and only releases slots.
LEMMA PruneReleases ==
    ASSUME NEW t \in Nat, RegistryType, Capacity
    PROVE  /\ Pruned(t) \in [Callers -> Nat \cup {NoTime}]
           /\ Held(Pruned(t)) \subseteq Held(reserved)
           /\ Held(Pruned(t)) \cap active = {}
           /\ Occupancy(Pruned(t), active) <= MaxCallers
<1>1. Pruned(t) \in [Callers -> Nat \cup {NoTime}]
  BY DEF Pruned, RegistryType, NoTime
<1>2. Held(Pruned(t)) \subseteq Held(reserved)
  BY DEF Pruned, Held, RegistryType
<1>3. Held(Pruned(t)) \cap active = {}
  BY <1>2 DEF Capacity
<1>4. Occupancy(Pruned(t), active) <= MaxCallers
  BY <1>1, <1>2, <1>3, FewerCallers DEF Capacity, RegistryType
<1> QED BY <1>1, <1>2, <1>3, <1>4

\* The registry holds its capacity under every callback.
LEMMA StepKeepsCapacity ==
    ASSUME RegistryType, Capacity, [RegNext]_registry
    PROVE  RegistryType' /\ Capacity'
<1>1. ASSUME NEW c \in Callers, NEW matches \in BOOLEAN, NEW t \in Nat,
             CallerConnecting(c, matches, t)
      PROVE  RegistryType' /\ Capacity'
  <2> DEFINE r == Pruned(t)
             answer == Admission(r, c, matches)
  <2>1. /\ r \in [Callers -> Nat \cup {NoTime}] /\ Held(r) \cap active = {}
        /\ Occupancy(r, active) <= MaxCallers
    BY PruneReleases
  <2>2. verdict' = answer /\ active' = active
        /\ reserved' = IF answer = "accept" /\ c \notin active THEN [r EXCEPT ![c] = t] ELSE r
    BY <1>1 DEF CallerConnecting, Reserve
  <2>3. active \in SUBSET Callers
    BY DEF RegistryType
  <2>4. answer \in {"fault", "stream id", "accept", "capacity"}
    BY DEF Admission
  <2> HIDE DEF r
  <2>5. CASE answer = "accept" /\ c \notin active
    <3>1. c \in Held(r) \/ Occupancy(r, active) < MaxCallers
      BY <2>5 DEF Admission, Room
    <3> DEFINE s == [r EXCEPT ![c] = t]
    <3>2. s = [r EXCEPT ![c] = t] /\ reserved' = s /\ c \notin active
          /\ s \in [Callers -> Nat \cup {NoTime}]
      BY <2>1, <2>2, <2>5
    <3> HIDE DEF s
    <3>3. Held(s) = Held(r) \cup {c}
      BY <2>1, <3>2 DEF Held, NoTime
    <3>4. /\ Occupancy(s, active) <= Occupancy(r, active) + 1
          /\ c \in Held(r) => Occupancy(s, active) = Occupancy(r, active)
      BY <2>1, <2>3, <3>2, <3>3, OneMoreCaller
    <3>5. Occupancy(r, active) \in Nat
      BY <2>1, <2>3, OccupancyIsUnion
    <3>6. Held(s) \cap active = {}
      BY <2>1, <2>5, <3>3
    <3>7. Occupancy(s, active) \in Nat
      BY <3>2, <3>6, <2>3, OccupancyIsUnion
    <3>8. Occupancy(s, active) <= MaxCallers
      BY <3>1, <3>4, <3>5, <3>7, <2>1, RegistryAssumption
    <3>9. Capacity'
      BY <3>2, <3>6, <3>8, <2>2 DEF Capacity, Held, Occupancy
    <3> QED BY <3>2, <3>3, <3>9, <2>2, <2>3, <2>4 DEF RegistryType
  <2>6. CASE ~(answer = "accept" /\ c \notin active)
    <3>1. reserved' = r
      BY <2>2, <2>6
    <3>2. Capacity'
      BY <3>1, <2>1, <2>2 DEF Capacity, Held, Occupancy
    <3> QED BY <3>1, <3>2, <2>1, <2>2, <2>3, <2>4 DEF RegistryType
  <2> QED BY <2>5, <2>6
<1>2. ASSUME NEW c \in Callers, CallerAdded(c)
      PROVE  RegistryType' /\ Capacity'
  <2>1. CASE reserved[c] = NoTime \/ Inconsistent(reserved, c)
    BY <1>2, <2>1 DEF CallerAdded, RegistryType, Capacity, Held, Occupancy
  <2>2. CASE ~(reserved[c] = NoTime \/ Inconsistent(reserved, c))
    <3> DEFINE s == [reserved EXCEPT ![c] = NoTime]
               b == active \cup {c}
    <3>1. reserved' = s /\ active' = b /\ verdict' = "added"
      BY <1>2, <2>2 DEF CallerAdded
    <3>2. s \in [Callers -> Nat \cup {NoTime}] /\ b \in SUBSET Callers
      BY DEF RegistryType
    <3>3. c \in Held(reserved) /\ Held(s) = Held(reserved) \ {c}
      BY <2>2 DEF Held, RegistryType
    <3>4. Held(s) \cap b = {} /\ Held(s) \cup b \subseteq Held(reserved) \cup active
      BY <3>3 DEF Capacity
    <3> HIDE DEF s, b
    <3>5. Occupancy(s, b) <= MaxCallers
      BY <3>2, <3>4, FewerCallers DEF Capacity, RegistryType
    <3>6. Capacity'
      BY <3>1, <3>4, <3>5 DEF Capacity, Held, Occupancy
    <3> QED BY <3>1, <3>2, <3>6 DEF RegistryType
  <2> QED BY <2>1, <2>2
<1>3. ASSUME NEW c \in Callers, CallerRemoved(c)
      PROVE  RegistryType' /\ Capacity'
  <2> DEFINE b == active \ {c}
  <2>1. active' = b /\ reserved' = reserved /\ verdict' \in {"removed", "fault"}
    BY <1>3 DEF CallerRemoved
  <2>2. b \in SUBSET Callers /\ Held(reserved) \cap b = {}
        /\ Held(reserved) \cup b \subseteq Held(reserved) \cup active
    BY DEF RegistryType, Capacity
  <2> HIDE DEF b
  <2>3. Occupancy(reserved, b) <= MaxCallers
    BY <2>2, FewerCallers DEF Capacity, RegistryType
  <2>4. Capacity'
    BY <2>1, <2>2, <2>3 DEF Capacity, Held, Occupancy
  <2> QED BY <2>1, <2>2, <2>4 DEF RegistryType
<1>4. ASSUME CallerMalformed PROVE RegistryType' /\ Capacity'
  BY <1>4 DEF CallerMalformed, RegistryType, Capacity, Held, Occupancy
<1>5. ASSUME ClearRegistry PROVE RegistryType' /\ Capacity'
  <2>1. reserved' \in [Callers -> Nat \cup {NoTime}] /\ Held(reserved') = {} /\ active' = {}
        /\ verdict' = "none"
    BY <1>5 DEF ClearRegistry, Held
  <2>2. Cardinality({}) = 0
    BY FS_EmptySet
  <2>3. Capacity'
    BY <2>1, <2>2, RegistryAssumption DEF Capacity, Occupancy
  <2> QED BY <2>1, <2>3 DEF RegistryType
<1>6. ASSUME UNCHANGED registry PROVE RegistryType' /\ Capacity'
  BY <1>6 DEF registry, RegistryType, Capacity, Held, Occupancy
<1> QED BY <1>1, <1>2, <1>3, <1>4, <1>5, <1>6 DEF RegNext

\* Whatever callbacks the SRT listener makes, in whatever order, the registry
\* (caller_registry.rs) never holds more than MAX_SRT_CALLERS callers and never
\* one in both states.
THEOREM RegistryCapacity == RegSpec => []Capacity
<1>1. RegInit => RegistryType /\ Capacity
  <2> SUFFICES ASSUME RegInit PROVE RegistryType /\ Capacity
    OBVIOUS
  <2>1. reserved \in [Callers -> Nat \cup {NoTime}] /\ Held(reserved) = {} /\ active = {}
        /\ verdict = "none"
    BY DEF RegInit, Held
  <2>2. Cardinality({}) = 0
    BY FS_EmptySet
  <2>3. Capacity
    BY <2>1, <2>2, RegistryAssumption DEF Capacity, Occupancy
  <2> QED BY <2>1, <2>3 DEF RegistryType
<1>2. RegistryType /\ Capacity /\ [RegNext]_registry => RegistryType' /\ Capacity'
  BY StepKeepsCapacity
<1> QED BY <1>1, <1>2, PTL DEF RegSpec

(***************************************************************************)
(* The listener's inductive invariant                                      *)
(***************************************************************************)

BusStates == {"none", "spawned", "run", "exit", "done"}

\* One shutdown flag and one thread for every instance begun.
Threads ==
    /\ h \in Health
    /\ stop \in Seq(BOOLEAN) /\ Len(stop) = h.inst
    /\ bus \in Seq(BusStates) /\ Len(bus) = h.inst
    /\ linked \in BOOLEAN /\ now \in Nat /\ trouble \in Nat

\* The server belongs to the newest instance, and its flag is set only once it
\* is being closed.
ServerCurrent ==
    /\ srv \in [st : Stages, inst : Nat, data : Nat, ingest : {"rtsp", "udp"}]
    /\ srv.st # "none" => srv.inst = h.inst /\ srv.inst # 0
    /\ srv.st \in {"built", "playing", "bound", "up"} => ~stop[srv.inst]

\* The record has a fault exactly when the supervisor was sent one of this
\* instance.
FaultSent ==
    /\ fault \subseteq 1..h.inst
    /\ Faulted(h) <=> h.inst \in fault

\* A thread of the current instance that ended by itself left its fault.
EndSent ==
    \A i \in 1..h.inst : bus[i] = "done" /\ ~stop[i] /\ h.inst = i => i \in fault

\* The registry and the callers' connections agree: a caller is active exactly
\* when it is connected, a reservation dates from the caller's last accepted
\* request, and a handshake that may still complete has its reservation.
CallsAgree ==
    /\ peer \in [Callers -> {"away", "asking", "linked"}]
    /\ asked \in [Callers -> Nat \cup {NoTime}]
    /\ active = {c \in Callers : peer[c] = "linked"}
    /\ \A c \in Callers : reserved[c] # NoTime => reserved[c] = asked[c]
    /\ \A c \in Callers :
         peer[c] = "asking" /\ now - asked[c] < PendingTtl => reserved[c] # NoTime

\* Without a playing pipeline there are no callers.
NobodyCalls ==
    srv.st \notin {"playing", "bound", "up"} =>
        \A c \in Callers : peer[c] = "away" /\ asked[c] = NoTime

SrtInv == /\ Threads /\ RegistryType /\ Capacity /\ ServerCurrent
          /\ FaultSent /\ EndSent /\ CallsAgree /\ NobodyCalls /\ ContractKept

(***************************************************************************)
(* The health record's methods as the listener uses them: each keeps the   *)
(* record's type and its instance, none but BeginServerInstance clears a   *)
(* fault, and only the reports record one.                                 *)
(***************************************************************************)

LEMMA ClearHealth ==
    ASSUME NEW x \in Health
    PROVE  /\ Clear(x) \in Health /\ Clear(x).inst = x.inst /\ Clear(x).fault = x.fault
           /\ Clear(x).data = x.data /\ Clear(x).alive = x.alive
           /\ Clear(x).state = x.state /\ Clear(x).bindFailures = x.bindFailures
           /\ Clear(x).attempt = x.attempt
<1>1. Never \in Int /\ 0 \in Nat /\ FALSE \in BOOLEAN
  BY DEF Never
<1>2. Clear(x) \in Health
  BY <1>1, Zenon DEF Clear, Health
<1> QED BY <1>2 DEF Clear, Health

LEMMA BeginInstance ==
    ASSUME NEW x \in Health, NEW r \in BOOLEAN
    PROVE  /\ BeginServerInstance(x, r) \in Health
           /\ BeginServerInstance(x, r).inst = x.inst + 1
           /\ ~Faulted(BeginServerInstance(x, r))
<1> DEFINE y == Clear(x)
<1>1. y \in Health /\ y.inst = x.inst
  BY ClearHealth
<1> HIDE DEF y
<1>2. BeginServerInstance(x, r) =
        [y EXCEPT !.inst = y.inst + 1, !.fault = NoFault, !.alive = FALSE,
                  !.state = IF r THEN "Recovering" ELSE "Starting"]
  BY DEF BeginServerInstance, y
<1>3. /\ y.inst + 1 \in Nat /\ NoFault \in Faults /\ FALSE \in BOOLEAN
      /\ (IF r THEN "Recovering" ELSE "Starting") \in States
  BY <1>1 DEF Health, Faults, States
<1>4. BeginServerInstance(x, r) \in Health
  BY <1>1, <1>2, <1>3, Zenon DEF Health
<1> QED BY <1>1, <1>2, <1>4 DEF Health, Faulted

LEMMA BeginData ==
    ASSUME NEW x \in Health, NEW i \in Nat
    PROVE  /\ BeginDataGeneration(x, i) \in Health
           /\ BeginDataGeneration(x, i).inst = x.inst
           /\ BeginDataGeneration(x, i).fault = x.fault
<1> DEFINE y == Clear(x)
<1>1. /\ y \in Health /\ y.inst = x.inst /\ y.fault = x.fault /\ y.data = x.data
  BY ClearHealth
<1> HIDE DEF y
<1>2. BeginDataGeneration(x, i) =
        IF MayBeginData(x, i)
        THEN [y EXCEPT !.data = y.data + 1, !.active = x.data + 1, !.state = "Starting"]
        ELSE x
  BY DEF BeginDataGeneration, y
<1>3. y.data + 1 \in Nat /\ x.data + 1 \in Nat /\ "Starting" \in States
  BY <1>1 DEF Health, States
<1>4. BeginDataGeneration(x, i) \in Health
  BY <1>1, <1>2, <1>3, Zenon DEF Health
<1> QED BY <1>1, <1>2, <1>4 DEF Health

LEMMA EndData ==
    ASSUME NEW x \in Health, NEW i, NEW d
    PROVE  /\ EndDataGeneration(x, i, d) \in Health
           /\ EndDataGeneration(x, i, d).inst = x.inst
           /\ EndDataGeneration(x, i, d).fault = x.fault
<1> DEFINE y == Clear(x)
<1>1. /\ y \in Health /\ y.inst = x.inst /\ y.fault = x.fault
  BY ClearHealth
<1> HIDE DEF y
<1>2. EndDataGeneration(x, i, d) =
        IF IsCurrentData(x, i, d)
        THEN [y EXCEPT !.state = IF y.state \notin {"Recovering", "Failed"} /\ x.alive
                                 THEN "Listening" ELSE y.state]
        ELSE x
  BY DEF EndDataGeneration, y
<1>3. y.state \in States /\ "Listening" \in States
  BY <1>1 DEF Health, States
<1> QED BY <1>1, <1>2, <1>3 DEF Health

LEMMA BuildFailed ==
    ASSUME NEW x \in Health, NEW i, NEW b \in BOOLEAN
    PROVE  /\ MarkBuildFailed(x, i, b) \in Health
           /\ MarkBuildFailed(x, i, b).inst = x.inst
           /\ MarkBuildFailed(x, i, b).fault = x.fault
<1>1. "Failed" \in States /\ x.bindFailures + 1 \in Nat /\ 0 \in Nat
      /\ FALSE \in BOOLEAN
  BY DEF Health, States
<1>2. MarkBuildFailed(x, i, b) \in Health
  BY <1>1, Zenon DEF MarkBuildFailed, Health
<1> QED BY <1>2 DEF MarkBuildFailed, Health

LEMMA Armed ==
    ASSUME NEW x \in Health, NEW i, NEW d, NEW t \in Nat
    PROVE  /\ ArmFirstBuffer(x, i, d, t) \in Health
           /\ ArmFirstBuffer(x, i, d, t).inst = x.inst
           /\ ArmFirstBuffer(x, i, d, t).fault = x.fault
<1>1. t \in Int /\ x.state \in States /\ "Starting" \in States
  BY DEF Health, States
<1>2. ArmFirstBuffer(x, i, d, t) \in Health
  BY <1>1, Zenon DEF ArmFirstBuffer, Health
<1> QED BY <1>2 DEF ArmFirstBuffer, Health

LEMMA ListenerBound ==
    ASSUME NEW x \in Health, NEW i
    PROVE  /\ MarkListenerBound(x, i) \in Health
           /\ MarkListenerBound(x, i).inst = x.inst
           /\ MarkListenerBound(x, i).fault = x.fault
BY DEF MarkListenerBound, Health, States

LEMMA StreamingReported ==
    ASSUME NEW x \in Health, NEW i, NEW d, NEW t \in Nat
    PROVE  /\ ReportStreaming(x, i, d, t) \in Health
           /\ ReportStreaming(x, i, d, t).inst = x.inst
           /\ ReportStreaming(x, i, d, t).fault = x.fault
<1>1. t \in Int /\ Never \in Int /\ x.healthy \in Int /\ "Streaming" \in States
  BY DEF Health, States, Never
<1>2. ReportStreaming(x, i, d, t) \in Health
  BY <1>1, Zenon DEF ReportStreaming, Health
<1> QED BY <1>2 DEF ReportStreaming, Health

LEMMA BufferObserved ==
    ASSUME NEW x \in Health, NEW i, NEW d, NEW t \in Nat
    PROVE  /\ ObserveBuffer(x, i, d, t) \in Health
           /\ ObserveBuffer(x, i, d, t).inst = x.inst
           /\ ObserveBuffer(x, i, d, t).fault = x.fault
<1>1. t \in Int /\ x.healthy \in Int /\ x.state \in States /\ "Streaming" \in States
      /\ FALSE \in BOOLEAN
  BY DEF Health, States
<1>2. ObserveBuffer(x, i, d, t) \in Health
  BY <1>1, Zenon DEF ObserveBuffer, Health
<1> QED BY <1>2 DEF ObserveBuffer, Health

LEMMA LoopRuns ==
    ASSUME NEW x \in Health, NEW i
    PROVE  /\ LoopStarted(x, i) \in Health
           /\ LoopStarted(x, i).inst = x.inst
           /\ LoopStarted(x, i).fault = x.fault
<1>1. (x.alive \/ x.inst = i) \in BOOLEAN
  OBVIOUS
<1> QED BY <1>1 DEF LoopStarted, Health

\* A fault is recorded once, and an earlier one stays.
LEMMA Recorded ==
    ASSUME NEW x \in Health, NEW k \in FaultKinds, NEW d \in Nat
    PROVE  /\ RecordFault(x, k, d) \in Health
           /\ RecordFault(x, k, d).inst = x.inst
           /\ Faulted(RecordFault(x, k, d))
<1>1. [kind |-> k, data |-> d] \in Faults /\ [kind |-> k, data |-> d] # NoFault
  BY DEF Faults, FaultKinds, NoFault
<1> QED BY <1>1 DEF RecordFault, Faulted, Health

LEMMA FaultReported ==
    ASSUME NEW x \in Health, NEW i, NEW d \in Nat, NEW k \in FaultKinds
    PROVE  /\ ReportFault(x, i, d, k) \in Health
           /\ ReportFault(x, i, d, k).inst = x.inst
           /\ Faulted(x) => Faulted(ReportFault(x, i, d, k))
           /\ Faulted(ReportFault(x, i, d, k)) /\ ~Faulted(x) => x.inst = i
BY Recorded DEF ReportFault, IsCurrentData

LEMMA LoopEnds ==
    ASSUME NEW x \in Health, NEW i, NEW b \in BOOLEAN
    PROVE  /\ LoopExited(x, i, b) \in Health
           /\ LoopExited(x, i, b).inst = x.inst
           /\ Faulted(x) => Faulted(LoopExited(x, i, b))
           /\ Faulted(LoopExited(x, i, b)) /\ ~Faulted(x) => x.inst = i
           /\ x.inst = i /\ ~b => Faulted(LoopExited(x, i, b))
<1> DEFINE dead == [x EXCEPT !.alive = FALSE]
           d == IF x.active # 0 THEN x.active ELSE x.data
<1>1. dead \in Health /\ dead.inst = x.inst /\ dead.fault = x.fault /\ d \in Nat
      /\ "MainLoopExited" \in FaultKinds
  BY DEF Health, FaultKinds
<1>2. LoopExited(x, i, b) =
        IF x.inst # i THEN x ELSE IF b THEN dead ELSE RecordFault(dead, "MainLoopExited", d)
  BY DEF LoopExited
<1> HIDE DEF dead, d
<1>3. /\ RecordFault(dead, "MainLoopExited", d) \in Health
      /\ RecordFault(dead, "MainLoopExited", d).inst = x.inst
      /\ Faulted(RecordFault(dead, "MainLoopExited", d))
  BY <1>1, Recorded
<1>4. Faulted(dead) <=> Faulted(x)
  BY <1>1 DEF Faulted
<1> QED BY <1>1, <1>2, <1>3, <1>4

(***************************************************************************)
(* What the actions share                                                  *)
(***************************************************************************)

\* The server's instance has a flag and a thread.
LEMMA ServerIndexed ==
    ASSUME SrtInv
    PROVE  /\ h.inst \in Nat
           /\ srv.st # "none" => srv.inst \in 1..h.inst
           /\ DOMAIN stop = 1..h.inst /\ DOMAIN bus = 1..h.inst
           /\ \A i \in 1..h.inst : stop[i] \in BOOLEAN /\ bus[i] \in BusStates
           /\ srv.st # "none" => srv.data \in Nat /\ srv.inst = h.inst
BY DEF SrtInv, Threads, ServerCurrent, Health

\* A step that leaves the callers alone.
LEMMA QuietKeeps ==
    ASSUME SrtInv, Quietly, now' = now, trouble' \in Nat, trouble' >= trouble
    PROVE  RegistryType' /\ Capacity' /\ CallsAgree' /\ ContractKept'
<1>1. [RegNext]_registry
  BY DEF Quietly, registry
<1>2. RegistryType' /\ Capacity'
  BY <1>1, StepKeepsCapacity DEF SrtInv
<1>3. CallsAgree'
  BY DEF SrtInv, CallsAgree, Quietly
<1>4. ContractKept'
  BY DEF SrtInv, ContractKept, Quietly, Threads
<1> QED BY <1>2, <1>3, <1>4

\* Stopping a candidate sends every caller away and empties the registry.
LEMMA StopKeeps ==
    ASSUME SrtInv, NEW i \in 1..h.inst, StopCandidate(i)
    PROVE  /\ RegistryType' /\ Capacity' /\ CallsAgree' /\ ContractKept'
           /\ \A c \in Callers : peer'[c] = "away" /\ asked'[c] = NoTime
           /\ stop' \in Seq(BOOLEAN) /\ Len(stop') = Len(stop)
           /\ \A j \in 1..h.inst : stop'[j] \/ stop'[j] = stop[j]
           /\ stop'[i]
<1>1. ClearRegistry /\ [RegNext]_registry
  BY DEF StopCandidate, RegNext
<1>2. RegistryType' /\ Capacity'
  BY <1>1, StepKeepsCapacity DEF SrtInv
<1>3. \A c \in Callers : peer'[c] = "away" /\ asked'[c] = NoTime
  BY DEF StopCandidate
<1>4. CallsAgree'
  BY <1>1, <1>3 DEF StopCandidate, ClearRegistry, CallsAgree
<1>5. ContractKept'
  BY <1>1 DEF ClearRegistry, ContractKept
<1>6. stop \in Seq(BOOLEAN) /\ Len(stop) = h.inst /\ i \in 1..Len(stop)
  BY DEF SrtInv, Threads
<1>7. stop' = [stop EXCEPT ![i] = TRUE]
  BY DEF StopCandidate
<1>8. stop' \in Seq(BOOLEAN) /\ Len(stop') = Len(stop)
  BY <1>6, <1>7
<1>9. stop'[i]
  BY <1>6, <1>7
<1>10. ASSUME NEW j \in 1..h.inst PROVE stop'[j] \/ stop'[j] = stop[j]
  <2>1. DOMAIN stop = 1..h.inst
    BY <1>6
  <2>2. CASE j = i
    BY <1>9, <2>2
  <2>3. CASE j # i
    BY <1>7, <2>1, <2>3, Zenon
  <2> QED BY <2>2, <2>3
<1> QED BY <1>2, <1>3, <1>4, <1>5, <1>8, <1>9, <1>10

\* A step that reports nothing: the fault stays, a flag is only set, and no
\* thread ends.
LEMMA FaultKeeps ==
    ASSUME SrtInv, h'.inst = h.inst, h'.fault = h.fault, UNCHANGED fault,
           \A j \in 1..h.inst : stop'[j] \/ stop'[j] = stop[j],
           \A j \in 1..h.inst : bus'[j] = "done" => bus[j] = "done"
    PROVE  FaultSent' /\ EndSent'
<1>1. FaultSent'
  BY DEF SrtInv, FaultSent, Faulted
<1>2. EndSent'
  BY DEF SrtInv, EndSent
<1> QED BY <1>1, <1>2

\* Publish sends the event exactly when the record went from no fault to one.
LEMMA PublishKeeps ==
    ASSUME SrtInv, NEW i \in 1..h.inst, NEW new \in Health, h' = new, Publish(i, new),
           new.inst = h.inst, Faulted(h) => Faulted(new),
           Faulted(new) /\ ~Faulted(h) => h.inst = i
    PROVE  FaultSent' /\ fault \subseteq fault'
<1>1. fault' = IF Faulted(new) /\ ~Faulted(h) THEN fault \cup {i} ELSE fault
  BY DEF Publish
<1>2. Faulted(h)' <=> Faulted(new)
  BY DEF Faulted
<1>3. FaultSent
  BY DEF SrtInv
<1>4. fault' \subseteq 1..h'.inst
  BY <1>1, <1>3 DEF FaultSent
<1>5. Faulted(new) <=> h.inst \in fault'
  BY <1>1, <1>3 DEF FaultSent
<1> QED BY <1>1, <1>2, <1>4, <1>5 DEF FaultSent

\* A callback or the bus reports a fault.
LEMMA EmitKeeps ==
    ASSUME SrtInv, NEW i \in 1..h.inst, NEW kind \in FaultKinds, Emit(i, kind),
           UNCHANGED stop,
           \A j \in 1..h.inst : bus'[j] = "done" => bus[j] = "done"
    PROVE  h' \in Health /\ h'.inst = h.inst /\ FaultSent' /\ EndSent'
<1> DEFINE new == IF stop[i] THEN h ELSE ReportFault(h, i, srv.data, kind)
<1>1. h' = new /\ Publish(i, new)
  BY DEF Emit
<1>2. h \in Health /\ srv.data \in Nat
  BY DEF SrtInv, Threads, ServerCurrent
<1>3. /\ new \in Health /\ new.inst = h.inst
      /\ Faulted(h) => Faulted(new)
      /\ Faulted(new) /\ ~Faulted(h) => h.inst = i
  BY <1>2, FaultReported
<1> HIDE DEF new
<1>4. FaultSent' /\ fault \subseteq fault'
  BY <1>1, <1>3, PublishKeeps
<1>5. EndSent'
  BY <1>1, <1>3, <1>4 DEF SrtInv, EndSent
<1> QED BY <1>1, <1>3, <1>4, <1>5

\* The server after a step that keeps it, or moves it to another open stage.
LEMMA ServerKeeps ==
    ASSUME SrtInv, UNCHANGED <<srv, stop>>, h'.inst = h.inst
    PROVE  ServerCurrent'
BY DEF SrtInv, ServerCurrent

LEMMA ServerAdvances ==
    ASSUME SrtInv, NEW st \in {"playing", "bound", "up"}, srv' = [srv EXCEPT !.st = st],
           srv.st \in {"built", "playing", "bound"}, UNCHANGED stop, h'.inst = h.inst
    PROVE  ServerCurrent'
BY DEF SrtInv, ServerCurrent, Stages

\* A build that is given up.
LEMMA AbandonKeeps ==
    ASSUME SrtInv, srv.st \in {"built", "playing", "bound"}, NEW bind \in BOOLEAN,
           Abandon(srv.inst, bind), Trouble, UNCHANGED <<bus, fault, linked, now>>
    PROVE  SrtInv'
<1>1. srv.inst \in 1..h.inst /\ h \in Health
  BY ServerIndexed DEF SrtInv, Threads
<1>2. /\ StopCandidate(srv.inst)
      /\ h' = MarkBuildFailed(EndDataGeneration(h, srv.inst, srv.data), srv.inst, bind)
      /\ srv' = NoServer
  BY DEF Abandon
<1>3. /\ RegistryType' /\ Capacity' /\ CallsAgree' /\ ContractKept'
      /\ \A c \in Callers : peer'[c] = "away" /\ asked'[c] = NoTime
      /\ stop' \in Seq(BOOLEAN) /\ Len(stop') = Len(stop)
      /\ \A j \in 1..h.inst : stop'[j] \/ stop'[j] = stop[j]
  BY <1>1, <1>2, StopKeeps
<1>4. h' \in Health /\ h'.inst = h.inst /\ h'.fault = h.fault
  BY <1>1, <1>2, EndData, BuildFailed
<1>5. FaultSent' /\ EndSent'
  BY <1>3, <1>4, FaultKeeps
<1>6. trouble' \in Nat
  BY DEF Trouble, SrtInv, Threads
<1>7. Threads'
  BY <1>3, <1>4, <1>6 DEF SrtInv, Threads
<1>8. ServerCurrent'
  BY <1>2 DEF ServerCurrent, NoServer, Stages
<1>9. NobodyCalls'
  BY <1>3 DEF NobodyCalls
<1> QED BY <1>3, <1>5, <1>7, <1>8, <1>9 DEF SrtInv

(***************************************************************************)
(* One lemma per action or group of actions                                *)
(***************************************************************************)

\* StartFromRtsp and StartFromUdp: the new instance has no fault and no callers.
LEMMA StartKeeps ==
    ASSUME SrtInv, NEW ingest \in {"rtsp", "udp"}, Start(ingest)
    PROVE  SrtInv'
<1> DEFINE i == h.inst + 1
           begun == BeginServerInstance(h, i > 1)
           data == BeginDataGeneration(begun, i)
<1>1. /\ srv = NoServer /\ linked' = FALSE
      /\ stop' = Append(stop, FALSE) /\ bus' = Append(bus, "none") /\ ClearRegistry
      /\ \/ /\ h' = data /\ UNCHANGED trouble
            /\ srv' = [st |-> "built", inst |-> i, data |-> data.data, ingest |-> ingest]
         \/ /\ Trouble /\ UNCHANGED srv
            /\ \/ h' = MarkBuildFailed(begun, i, FALSE)
               \/ h' = MarkBuildFailed(EndDataGeneration(data, i, data.data), i, FALSE)
      /\ UNCHANGED <<fault, peer, asked, now>>
  BY DEF Start
<1>2. /\ h \in Health /\ h.inst \in Nat /\ i \in Nat /\ (i > 1) \in BOOLEAN
      /\ stop \in Seq(BOOLEAN) /\ Len(stop) = h.inst
      /\ bus \in Seq(BusStates) /\ Len(bus) = h.inst
      /\ trouble \in Nat /\ now \in Nat
  BY ServerIndexed DEF SrtInv, Threads
<1>3. begun \in Health /\ begun.inst = i /\ ~Faulted(begun)
  BY <1>2, BeginInstance
<1> HIDE DEF begun
<1>4. data \in Health /\ data.inst = i /\ ~Faulted(data) /\ data.data \in Nat
  BY <1>2, <1>3, BeginData DEF Faulted, Health
<1> HIDE DEF data
<1>5. /\ MarkBuildFailed(begun, i, FALSE) \in Health
      /\ MarkBuildFailed(begun, i, FALSE).inst = i
      /\ ~Faulted(MarkBuildFailed(begun, i, FALSE))
  BY <1>3, BuildFailed DEF Faulted
<1>6. /\ MarkBuildFailed(EndDataGeneration(data, i, data.data), i, FALSE) \in Health
      /\ MarkBuildFailed(EndDataGeneration(data, i, data.data), i, FALSE).inst = i
      /\ ~Faulted(MarkBuildFailed(EndDataGeneration(data, i, data.data), i, FALSE))
  <2> DEFINE ended == EndDataGeneration(data, i, data.data)
  <2>1. ended \in Health /\ ended.inst = i /\ ended.fault = data.fault
    BY <1>4, EndData
  <2> HIDE DEF ended
  <2>2. /\ MarkBuildFailed(ended, i, FALSE) \in Health
        /\ MarkBuildFailed(ended, i, FALSE).inst = i
        /\ MarkBuildFailed(ended, i, FALSE).fault = data.fault
    BY <2>1, BuildFailed
  <2> QED BY <1>4, <2>2 DEF Faulted, ended
<1>7. h' \in Health /\ h'.inst = i /\ ~Faulted(h)'
  BY <1>1, <1>3, <1>4, <1>5, <1>6 DEF Faulted
<1>8. /\ stop' \in Seq(BOOLEAN) /\ Len(stop') = i /\ stop'[i] = FALSE
      /\ bus' \in Seq(BusStates) /\ Len(bus') = i /\ bus'[i] = "none"
  BY <1>1, <1>2 DEF BusStates
<1>9. Threads'
  <2>1. (trouble' = trouble \/ trouble' = trouble + 1) /\ now' = now /\ linked' = FALSE
    BY <1>1, Zenon DEF Trouble
  <2>2. trouble' \in Nat /\ now' \in Nat
    BY <1>2, <2>1
  <2>3. linked' \in BOOLEAN
    BY <2>1, Zenon
  <2> QED BY <1>7, <1>8, <2>2, <2>3 DEF Threads
<1>10. [RegNext]_registry
  BY <1>1 DEF RegNext
<1>11. RegistryType' /\ Capacity'
  BY <1>10, StepKeepsCapacity DEF SrtInv
<1>12. ServerCurrent'
  <2>1. CASE srv' = [st |-> "built", inst |-> i, data |-> data.data, ingest |-> ingest]
    BY <2>1, <1>2, <1>4, <1>7, <1>8 DEF ServerCurrent, Stages
  <2>2. CASE srv' = NoServer
    BY <2>2 DEF ServerCurrent, NoServer, Stages
  <2> QED BY <1>1, <2>1, <2>2
<1>13. FaultSent'
  BY <1>1, <1>2, <1>7 DEF SrtInv, FaultSent
<1>14. EndSent'
  BY <1>7, <1>8 DEF EndSent
<1>15. \A c \in Callers : peer'[c] = "away" /\ asked'[c] = NoTime
  BY <1>1 DEF SrtInv, NobodyCalls, NoServer
<1>16. CallsAgree'
  BY <1>1, <1>15 DEF SrtInv, CallsAgree, ClearRegistry
<1>17. NobodyCalls' /\ ContractKept'
  BY <1>1, <1>15 DEF NobodyCalls, ContractKept, ClearRegistry
<1> QED BY <1>9, <1>11, <1>12, <1>13, <1>14, <1>16, <1>17 DEF SrtInv

\* Play, Bind, Spawn and Await: the start goes on or is abandoned.
LEMMA StagesKeep ==
    ASSUME SrtInv, Play \/ Bind \/ Spawn \/ Await
    PROVE  SrtInv'
<1>1. /\ h \in Health /\ now \in Nat /\ trouble \in Nat /\ h.inst \in Nat
      /\ srv.st # "none" => srv.inst \in 1..h.inst
      /\ bus \in Seq(BusStates) /\ Len(bus) = h.inst
  BY ServerIndexed DEF SrtInv, Threads
<1>2. ASSUME NEW st \in {"playing", "bound", "up"}, srv.st \in {"built", "playing", "bound"},
             srv' = [srv EXCEPT !.st = st], h' \in Health, h'.inst = h.inst, h'.fault = h.fault,
             Quietly, UNCHANGED <<stop, bus, fault, linked, now, trouble>>
      PROVE  SrtInv'
  <2>1. RegistryType' /\ Capacity' /\ CallsAgree' /\ ContractKept'
    BY <1>1, <1>2, QuietKeeps
  <2>2. ServerCurrent'
    BY <1>2, ServerAdvances
  <2>3. FaultSent' /\ EndSent'
    BY <1>2, FaultKeeps
  <2>4. Threads'
    BY <1>2 DEF SrtInv, Threads
  <2>5. srv'.st = st
    BY <1>2 DEF SrtInv, ServerCurrent
  <2>6. NobodyCalls'
    BY <1>2, <2>5 DEF NobodyCalls
  <2> QED BY <2>1, <2>2, <2>3, <2>4, <2>6 DEF SrtInv
<1>3. CASE Play
  <2>1. CASE /\ h' = ArmFirstBuffer(h, srv.inst, srv.data, now)
             /\ srv' = [srv EXCEPT !.st = "playing"]
             /\ Quietly /\ UNCHANGED <<stop, trouble>>
    BY <1>1, <1>2, <1>3, <2>1, Armed DEF Play
  <2>2. CASE Trouble /\ \E bind \in BOOLEAN : Abandon(srv.inst, bind)
    BY <1>3, <2>2, AbandonKeeps DEF Play
  <2> QED BY <1>3, <2>1, <2>2 DEF Play
<1>4. CASE Bind
  <2> DEFINE bound == MarkListenerBound(h, srv.inst)
  <2>1. bound \in Health /\ bound.inst = h.inst /\ bound.fault = h.fault
    BY <1>1, ListenerBound
  <2>2. h' = IF srv.ingest = "udp" THEN ReportStreaming(bound, srv.inst, srv.data, now)
             ELSE bound
    BY <1>4 DEF Bind
  <2> HIDE DEF bound
  <2>3. h' \in Health /\ h'.inst = h.inst /\ h'.fault = h.fault
    BY <1>1, <2>1, <2>2, StreamingReported
  <2> QED BY <1>2, <1>4, <2>3 DEF Bind
<1>5. CASE Spawn
  <2>1. CASE /\ bus' = [bus EXCEPT ![srv.inst] = "spawned"]
             /\ Quietly /\ UNCHANGED <<h, srv, stop, trouble>>
    <3>1. UNCHANGED <<fault, linked, now>> /\ srv.inst \in 1..h.inst /\ srv.st = "bound"
      BY <1>1, <1>5 DEF Spawn
    <3>2. RegistryType' /\ Capacity' /\ CallsAgree' /\ ContractKept'
      BY <1>1, <2>1, <3>1, QuietKeeps
    <3>3. /\ bus' \in Seq(BusStates) /\ Len(bus') = h.inst
          /\ \A j \in 1..h.inst : bus'[j] = "done" => bus[j] = "done"
      BY <1>1, <2>1, <3>1 DEF BusStates
    <3>4. FaultSent' /\ EndSent'
      BY <2>1, <3>1, <3>3, FaultKeeps
    <3>5. Threads'
      BY <2>1, <3>1, <3>3 DEF SrtInv, Threads
    <3>6. ServerCurrent' /\ NobodyCalls'
      BY <2>1, <3>1, ServerKeeps DEF NobodyCalls
    <3> QED BY <3>2, <3>4, <3>5, <3>6 DEF SrtInv
  <2>2. CASE Trouble /\ Abandon(srv.inst, FALSE) /\ UNCHANGED bus
    BY <1>5, <2>2, AbandonKeeps DEF Spawn
  <2> QED BY <1>5, <2>1, <2>2 DEF Spawn
<1>6. CASE Await
  <2>1. CASE /\ srv' = [srv EXCEPT !.st = "up"]
             /\ Quietly /\ UNCHANGED <<h, stop, trouble>>
    BY <1>1, <1>2, <1>6, <2>1 DEF Await
  <2>2. CASE Trouble /\ Abandon(srv.inst, FALSE)
    BY <1>6, <2>2, AbandonKeeps DEF Await
  <2> QED BY <1>6, <2>1, <2>2 DEF Await
<1> QED BY <1>3, <1>4, <1>5, <1>6

\* The bus thread of any instance, the current one or one that was leaked.
LEMMA ThreadKeeps ==
    ASSUME SrtInv, Thread
    PROVE  SrtInv'
<1>1. PICK i \in DOMAIN bus : \/ BusStart(i) \/ BusStop(i) \/ BusExit(i)
                              \/ \E kind \in FaultKinds : BusMessage(i, kind)
  BY DEF Thread
<1>2. /\ h \in Health /\ now \in Nat /\ trouble \in Nat /\ i \in 1..h.inst
      /\ bus \in Seq(BusStates) /\ Len(bus) = h.inst /\ stop[i] \in BOOLEAN
  BY ServerIndexed DEF SrtInv, Threads
<1>3. ASSUME NEW st \in BusStates, bus' = [bus EXCEPT ![i] = st], h' \in Health,
             h'.inst = h.inst, FaultSent', EndSent', Quietly,
             UNCHANGED <<srv, stop, linked, now>>, trouble' \in Nat, trouble' >= trouble
      PROVE  SrtInv'
  <2>1. RegistryType' /\ Capacity' /\ CallsAgree' /\ ContractKept'
    BY <1>3, QuietKeeps
  <2>2. bus' \in Seq(BusStates) /\ Len(bus') = h.inst
    BY <1>2, <1>3
  <2>3. Threads'
    BY <1>3, <2>2 DEF SrtInv, Threads
  <2>4. ServerCurrent'
    BY <1>3, ServerKeeps
  <2>5. NobodyCalls'
    BY <1>3 DEF SrtInv, NobodyCalls, Quietly
  <2> QED BY <1>3, <2>1, <2>3, <2>4, <2>5 DEF SrtInv
<1>4. ASSUME NEW st \in BusStates, st # "done", bus' = [bus EXCEPT ![i] = st]
      PROVE  \A j \in 1..h.inst : bus'[j] = "done" => bus[j] = "done"
  BY <1>2, <1>4
<1>5. {"run", "exit", "done"} \subseteq BusStates
  BY DEF BusStates
<1>6. CASE BusStart(i)
  <2>1. h' \in Health /\ h'.inst = h.inst /\ h'.fault = h.fault
    BY <1>2, <1>6, LoopRuns DEF BusStart
  <2>2. /\ bus' = [bus EXCEPT ![i] = "run"] /\ Quietly
        /\ UNCHANGED <<srv, stop, fault, linked, now, trouble>>
    BY <1>6 DEF BusStart
  <2>3. FaultSent' /\ EndSent'
    BY <1>4, <1>5, <2>1, <2>2, FaultKeeps
  <2>4. trouble' \in Nat /\ trouble' >= trouble
    BY <1>2, <2>2
  <2> QED BY <1>3, <1>5, <2>1, <2>2, <2>3, <2>4
<1>7. CASE BusStop(i)
  <2>1. /\ bus' = [bus EXCEPT ![i] = "exit"] /\ Quietly
        /\ UNCHANGED <<h, srv, stop, fault, linked, now, trouble>>
    BY <1>7 DEF BusStop
  <2>2. FaultSent' /\ EndSent'
    BY <1>4, <1>5, <2>1, FaultKeeps
  <2>3. trouble' \in Nat /\ trouble' >= trouble
    BY <1>2, <2>1
  <2>4. h' \in Health /\ h'.inst = h.inst
    BY <1>2, <2>1
  <2> QED BY <1>3, <1>5, <2>1, <2>2, <2>3, <2>4
<1>8. CASE \E kind \in FaultKinds : BusMessage(i, kind)
  <2>1. PICK kind \in FaultKinds : BusMessage(i, kind)
    BY <1>8
  <2>2. /\ bus' = [bus EXCEPT ![i] = "exit"] /\ Quietly /\ Emit(i, kind) /\ Trouble
        /\ UNCHANGED <<srv, stop, linked, now>>
    BY <2>1 DEF BusMessage
  <2>3. h' \in Health /\ h'.inst = h.inst /\ FaultSent' /\ EndSent'
    BY <1>2, <1>4, <1>5, <2>2, EmitKeeps
  <2>4. trouble' \in Nat /\ trouble' >= trouble
    BY <1>2, <2>2 DEF Trouble
  <2> QED BY <1>3, <1>5, <2>2, <2>3, <2>4
<1>9. CASE BusExit(i)
  <2> DEFINE new == Exited(i)
  <2>1. /\ bus' = [bus EXCEPT ![i] = "done"] /\ Quietly /\ h' = new /\ Publish(i, new)
        /\ UNCHANGED <<srv, stop, linked, now, trouble>>
    BY <1>9 DEF BusExit
  <2>2. /\ new \in Health /\ new.inst = h.inst
        /\ Faulted(h) => Faulted(new)
        /\ Faulted(new) /\ ~Faulted(h) => h.inst = i
        /\ h.inst = i /\ ~stop[i] => Faulted(new)
    BY <1>2, LoopEnds DEF Exited
  <2> HIDE DEF new
  <2>3. FaultSent' /\ fault \subseteq fault'
    BY <1>2, <2>1, <2>2, PublishKeeps
  <2>4. h.inst = i /\ ~stop[i] => i \in fault'
    BY <2>1, <2>2, <2>3 DEF FaultSent
  <2>5. \A j \in 1..h.inst : j # i => bus'[j] = bus[j]
    BY <1>2, <2>1
  <2>6. EndSent'
    <3> SUFFICES ASSUME NEW j \in 1..h.inst, bus'[j] = "done", ~stop[j], h.inst = j
                 PROVE  j \in fault'
      BY <2>1, <2>2 DEF EndSent
    <3>1. CASE j = i
      BY <2>4, <3>1
    <3>2. CASE j # i
      BY <2>3, <2>5, <3>2 DEF SrtInv, EndSent
    <3> QED BY <3>1, <3>2
  <2>7. trouble' \in Nat /\ trouble' >= trouble
    BY <1>2, <2>1
  <2> QED BY <1>3, <1>5, <2>1, <2>2, <2>3, <2>6, <2>7
<1> QED BY <1>1, <1>6, <1>7, <1>8, <1>9

\* BeginShutdown, FinishShutdown and the clock.
LEMMA ShutdownKeeps ==
    ASSUME SrtInv, BeginShutdown \/ FinishShutdown \/ Tick
    PROVE  SrtInv'
<1>1. /\ h \in Health /\ now \in Nat /\ trouble \in Nat
      /\ srv.st # "none" => srv.inst \in 1..h.inst
  BY ServerIndexed DEF SrtInv, Threads
<1>2. CASE BeginShutdown
  <2>1. /\ srv.st = "up" /\ StopCandidate(srv.inst)
        /\ srv' = [srv EXCEPT !.st = "closing"]
        /\ UNCHANGED <<h, bus, fault, linked, now, trouble>>
    BY <1>2 DEF BeginShutdown
  <2>2. /\ RegistryType' /\ Capacity' /\ CallsAgree' /\ ContractKept'
        /\ \A c \in Callers : peer'[c] = "away" /\ asked'[c] = NoTime
        /\ stop' \in Seq(BOOLEAN) /\ Len(stop') = Len(stop)
        /\ \A j \in 1..h.inst : stop'[j] \/ stop'[j] = stop[j]
    BY <1>1, <2>1, StopKeeps
  <2>3. FaultSent' /\ EndSent'
    BY <2>1, <2>2, FaultKeeps
  <2>4. Threads'
    BY <2>1, <2>2 DEF SrtInv, Threads
  <2>5. ServerCurrent'
    BY <2>1 DEF SrtInv, ServerCurrent, Stages
  <2>6. NobodyCalls'
    BY <2>2 DEF NobodyCalls
  <2> QED BY <2>2, <2>3, <2>4, <2>5, <2>6 DEF SrtInv
<1>3. CASE FinishShutdown
  <2>1. /\ srv.st = "closing" /\ ClearRegistry /\ srv' = NoServer
        /\ (UNCHANGED trouble \/ Trouble)
        /\ h' = EndDataGeneration(h, srv.inst, srv.data)
        /\ UNCHANGED <<stop, bus, fault, linked, peer, asked, now>>
    BY <1>3 DEF FinishShutdown
  <2>2. h' \in Health /\ h'.inst = h.inst /\ h'.fault = h.fault
    BY <1>1, <2>1, EndData
  <2>3. FaultSent' /\ EndSent'
    BY <2>1, <2>2, FaultKeeps
  <2>4. trouble' \in Nat
    BY <1>1, <2>1 DEF Trouble
  <2>5. Threads'
    BY <2>1, <2>2, <2>4 DEF SrtInv, Threads
  <2>6. RegistryType' /\ Capacity'
    BY <2>1, StepKeepsCapacity DEF SrtInv, RegNext
  <2>7. \A c \in Callers : peer'[c] = "away" /\ asked'[c] = NoTime
    BY <2>1 DEF SrtInv, NobodyCalls
  <2>8. CallsAgree'
    BY <2>1, <2>7 DEF SrtInv, CallsAgree, ClearRegistry
  <2>9. ServerCurrent'
    BY <2>1 DEF ServerCurrent, NoServer, Stages
  <2>10. NobodyCalls' /\ ContractKept'
    BY <2>1, <2>7 DEF NobodyCalls, ContractKept, ClearRegistry
  <2> QED BY <2>3, <2>5, <2>6, <2>8, <2>9, <2>10 DEF SrtInv
<1>4. CASE Tick
  <2>1. /\ now' = now + 1
        /\ UNCHANGED <<registry, h, srv, stop, bus, fault, linked, peer, asked, trouble>>
    BY <1>4 DEF Tick
  <2>2. RegistryType' /\ Capacity'
    BY <2>1, StepKeepsCapacity DEF SrtInv
  <2>3. FaultSent' /\ EndSent' /\ ServerCurrent'
    BY <2>1, FaultKeeps, ServerKeeps
  <2>4. now' \in Nat
    BY <1>1, <2>1
  <2>5. Threads'
    BY <2>1, <2>4 DEF SrtInv, Threads
  <2>6. CallsAgree'
    BY <1>1, <2>1, RegistryAssumption DEF SrtInv, CallsAgree, registry, NoTime
  <2>7. NobodyCalls' /\ ContractKept'
    BY <2>1 DEF SrtInv, NobodyCalls, ContractKept, registry
  <2> QED BY <2>2, <2>3, <2>5, <2>6, <2>7 DEF SrtInv
<1> QED BY <1>2, <1>3, <1>4

\* What a callback of the playing pipeline leaves to show: its registry part.
LEMMA CallbackRest ==
    ASSUME SrtInv, Live, Elsewhere, h' \in Health, h'.inst = h.inst, linked' \in BOOLEAN,
           trouble' \in Nat
    PROVE  Threads' /\ ServerCurrent' /\ NobodyCalls'
<1>1. Threads'
  BY DEF SrtInv, Threads, Elsewhere
<1>2. ServerCurrent'
  BY ServerKeeps DEF Elsewhere
<1>3. NobodyCalls'
  BY DEF NobodyCalls, Live, Elsewhere
<1> QED BY <1>1, <1>2, <1>3

\* A live server has its instance's flag and thread.
LEMMA LiveIndexed ==
    ASSUME SrtInv, Live
    PROVE  srv.inst \in 1..h.inst /\ "Capability" \in FaultKinds /\ "GstError" \in FaultKinds
BY ServerIndexed DEF Live, FaultKinds

\* An admission callback reports its verdict when that is a fault.
LEMMA AdmitKeeps ==
    ASSUME SrtInv, Live, Elsewhere, Admit
    PROVE  h' \in Health /\ h'.inst = h.inst /\ FaultSent' /\ EndSent'
<1>1. UNCHANGED <<stop, bus>>
  BY DEF Elsewhere
<1>2. CASE verdict' = "fault"
  BY <1>1, <1>2, LiveIndexed, EmitKeeps DEF Admit
<1>3. CASE verdict' # "fault"
  BY <1>1, <1>3, FaultKeeps DEF Admit, SrtInv, Threads
<1> QED BY <1>2, <1>3

\* caller-connecting: the registry is consistent, so the answer is never a fault,
\* and an accepted caller's reservation dates from this request.
LEMMA ConnectingKeeps ==
    ASSUME SrtInv, NEW c \in Callers, NEW matches \in BOOLEAN, Connecting(c, matches)
    PROVE  SrtInv'
<1> DEFINE r == Pruned(now)
           answer == Admission(r, c, matches)
<1>1. /\ Live /\ CallerConnecting(c, matches, now) /\ Admit /\ Elsewhere
      /\ UNCHANGED <<linked, trouble>>
      /\ IF verdict' = "accept" /\ peer[c] # "linked"
         THEN /\ peer' = [peer EXCEPT ![c] = "asking"]
              /\ asked' = [asked EXCEPT ![c] = now]
         ELSE UNCHANGED <<peer, asked>>
  BY DEF Connecting
<1>2. /\ RegistryType /\ Capacity /\ CallsAgree /\ ContractKept /\ now \in Nat
      /\ linked \in BOOLEAN /\ trouble \in Nat /\ now' = now
  BY <1>1 DEF SrtInv, Threads, Elsewhere
<1>3. RegistryType' /\ Capacity'
  BY <1>1, <1>2, StepKeepsCapacity DEF RegNext
<1>4. h' \in Health /\ h'.inst = h.inst /\ FaultSent' /\ EndSent'
  BY <1>1, AdmitKeeps
<1>5. Threads' /\ ServerCurrent' /\ NobodyCalls'
  BY <1>1, <1>2, <1>4, CallbackRest
<1>6. /\ r \in [Callers -> Nat \cup {NoTime}] /\ Held(r) \cap active = {}
      /\ Occupancy(r, active) <= MaxCallers
  BY <1>2, PruneReleases
<1>7. /\ verdict' = answer /\ active' = active
      /\ reserved' = IF answer = "accept" /\ c \notin active THEN [r EXCEPT ![c] = now] ELSE r
  BY <1>1 DEF CallerConnecting, Reserve
<1>8. ~Inconsistent(r, c)
  <2> HIDE DEF r
  <2>1. Occupancy(r, active) \in Nat
    BY <1>2, <1>6, OccupancyIsUnion DEF RegistryType
  <2>2. c \notin Held(r) \/ c \notin active
    BY <1>6
  <2> QED BY <1>6, <2>1, <2>2, RegistryAssumption DEF Inconsistent
<1>9. answer \in {"stream id", "accept", "capacity"}
  BY <1>8 DEF Admission
<1>10. ContractKept'
  BY <1>7, <1>9 DEF ContractKept
<1>11. \A d \in Callers : r[d] # NoTime => r[d] = reserved[d] /\ reserved[d] # NoTime
  BY DEF Pruned
<1>12. \A d \in Callers :
         reserved[d] # NoTime /\ now - reserved[d] < PendingTtl => r[d] = reserved[d]
  <2> SUFFICES ASSUME NEW d \in Callers, reserved[d] # NoTime, now - reserved[d] < PendingTtl
               PROVE  r[d] = reserved[d]
    OBVIOUS
  <2>1. reserved[d] \in Nat \cup {NoTime}
    BY <1>2, Zenon DEF RegistryType
  <2>2. ~(now - reserved[d] >= PendingTtl)
    BY <1>2, <2>1, RegistryAssumption DEF NoTime
  <2> QED BY <2>2 DEF Pruned
<1>13. c \in active <=> peer[c] = "linked"
  BY <1>2 DEF CallsAgree
<1> HIDE DEF r, answer
<1>14. CallsAgree'
  <2>1. CASE answer = "accept" /\ c \notin active
    <3>1. /\ peer' = [peer EXCEPT ![c] = "asking"] /\ asked' = [asked EXCEPT ![c] = now]
          /\ reserved' = [r EXCEPT ![c] = now] /\ active' = active
      BY <1>1, <1>7, <1>13, <2>1
    <3>2. /\ peer' \in [Callers -> {"away", "asking", "linked"}]
          /\ asked' \in [Callers -> Nat \cup {NoTime}]
      BY <1>2, <3>1 DEF CallsAgree
    <3>3. active' = {d \in Callers : peer'[d] = "linked"}
      BY <1>2, <1>13, <2>1, <3>1 DEF CallsAgree
    <3>4. \A d \in Callers : reserved'[d] # NoTime => reserved'[d] = asked'[d]
      BY <1>2, <1>6, <1>11, <3>1 DEF CallsAgree
    <3>5. \A d \in Callers :
            peer'[d] = "asking" /\ now - asked'[d] < PendingTtl => reserved'[d] # NoTime
      BY <1>2, <1>6, <1>12, <3>1 DEF CallsAgree, NoTime
    <3> QED BY <1>2, <3>2, <3>3, <3>4, <3>5 DEF CallsAgree
  <2>2. CASE ~(answer = "accept" /\ c \notin active)
    <3>1. UNCHANGED <<peer, asked, active>> /\ reserved' = r
      BY <1>1, <1>7, <1>13, <2>2
    <3>2. \A d \in Callers : reserved'[d] # NoTime => reserved'[d] = asked[d]
      BY <1>2, <1>11, <3>1 DEF CallsAgree
    <3>3. \A d \in Callers :
            peer[d] = "asking" /\ now - asked[d] < PendingTtl => reserved'[d] # NoTime
      BY <1>2, <1>12, <3>1 DEF CallsAgree
    <3> QED BY <1>2, <3>1, <3>2, <3>3 DEF CallsAgree
  <2> QED BY <2>1, <2>2
<1> QED BY <1>3, <1>4, <1>5, <1>10, <1>14 DEF SrtInv

\* caller-added and caller-removed: the caller is the one the registry expects.
LEMMA AddedKeeps ==
    ASSUME SrtInv, NEW c \in Callers, Added(c) \/ Removed(c)
    PROVE  SrtInv'
<1>1. /\ Live /\ Admit /\ Elsewhere /\ UNCHANGED <<linked, trouble>>
      /\ CallerAdded(c) \/ CallerRemoved(c)
  BY DEF Added, Removed
<1>2. /\ RegistryType /\ Capacity /\ CallsAgree /\ ContractKept /\ now \in Nat
      /\ linked \in BOOLEAN /\ trouble \in Nat /\ now' = now
  BY <1>1 DEF SrtInv, Threads, Elsewhere
<1>3. RegistryType' /\ Capacity'
  BY <1>1, <1>2, StepKeepsCapacity DEF RegNext
<1>4. h' \in Health /\ h'.inst = h.inst /\ FaultSent' /\ EndSent'
  BY <1>1, AdmitKeeps
<1>5. Threads' /\ ServerCurrent' /\ NobodyCalls'
  BY <1>1, <1>2, <1>4, CallbackRest
<1>6. CASE Added(c)
  <2>1. /\ peer[c] = "asking" /\ now - asked[c] < PendingTtl /\ CallerAdded(c)
        /\ peer' = [peer EXCEPT ![c] = "linked"] /\ UNCHANGED asked
    BY <1>6 DEF Added
  <2>2. reserved[c] # NoTime
    BY <1>2, <2>1 DEF CallsAgree
  <2>3. ~Inconsistent(reserved, c)
    <3>1. Occupancy(reserved, active) \in Nat
      BY <1>2, OccupancyIsUnion DEF RegistryType, Capacity
    <3>2. c \notin Held(reserved) \/ c \notin active
      BY <1>2 DEF Capacity
    <3> QED BY <1>2, <3>1, <3>2, RegistryAssumption DEF Inconsistent, Capacity
  <2>4. /\ reserved' = [reserved EXCEPT ![c] = NoTime] /\ active' = active \cup {c}
        /\ verdict' = "added"
    BY <2>1, <2>2, <2>3 DEF CallerAdded
  <2>5. CallsAgree'
    BY <1>2, <2>1, <2>4 DEF CallsAgree, RegistryType
  <2>6. ContractKept'
    BY <2>4 DEF ContractKept
  <2> QED BY <1>3, <1>4, <1>5, <2>5, <2>6 DEF SrtInv
<1>7. CASE Removed(c)
  <2>1. /\ peer[c] = "linked" /\ CallerRemoved(c)
        /\ peer' = [peer EXCEPT ![c] = "away"] /\ asked' = [asked EXCEPT ![c] = NoTime]
    BY <1>7 DEF Removed
  <2>2. c \in active /\ c \notin Held(reserved)
    BY <1>2, <2>1 DEF CallsAgree, Capacity
  <2>3. reserved[c] = NoTime
    BY <2>2 DEF Held
  <2>4. active' = active \ {c} /\ reserved' = reserved /\ verdict' = "removed"
    BY <2>1, <2>2 DEF CallerRemoved
  <2>5. CallsAgree'
    BY <1>2, <2>1, <2>3, <2>4 DEF CallsAgree
  <2>6. ContractKept'
    BY <2>4 DEF ContractKept
  <2> QED BY <1>3, <1>4, <1>5, <2>5, <2>6 DEF SrtInv
<1> QED BY <1>6, <1>7

\* The other callbacks: a handshake that fails, a broken call, the camera path,
\* the demultiplexer's pads, a buffer.
LEMMA OthersKeep ==
    ASSUME SrtInv,
           \/ \E c \in Callers : GivesUp(c)
           \/ Malformed \/ BeforeSend \/ PadAdded \/ NoMorePads \/ Buffer
    PROVE  SrtInv'
<1>1. /\ h \in Health /\ now \in Nat /\ trouble \in Nat /\ linked \in BOOLEAN
      /\ RegistryType /\ CallsAgree
  BY DEF SrtInv, Threads
<1>2. CASE \E c \in Callers : GivesUp(c)
  <2>1. PICK c \in Callers : GivesUp(c)
    BY <1>2
  <2>2. /\ Live /\ Elsewhere /\ peer' = [peer EXCEPT ![c] = "away"] /\ peer[c] = "asking"
        /\ UNCHANGED <<registry, h, fault, asked, linked, trouble>>
    BY <2>1 DEF GivesUp
  <2>3. FaultSent' /\ EndSent'
    BY <2>2, FaultKeeps DEF Elsewhere
  <2>4. Threads' /\ ServerCurrent' /\ NobodyCalls'
    BY <1>1, <2>2, CallbackRest
  <2>5. RegistryType' /\ Capacity'
    BY <2>2, StepKeepsCapacity DEF SrtInv
  <2>6. CallsAgree'
    BY <1>1, <2>2 DEF CallsAgree, registry, Elsewhere
  <2>7. ContractKept'
    BY <2>2 DEF SrtInv, ContractKept, registry
  <2> QED BY <2>3, <2>4, <2>5, <2>6, <2>7 DEF SrtInv
<1>3. CASE Malformed
  <2>1. Live /\ Elsewhere /\ Trouble /\ CallerMalformed /\ Admit /\ UNCHANGED <<peer, asked, linked>>
    BY <1>3 DEF Malformed
  <2>2. h' \in Health /\ h'.inst = h.inst /\ FaultSent' /\ EndSent'
    BY <2>1, AdmitKeeps
  <2>3. trouble' \in Nat /\ trouble' > 0
    BY <1>1, <2>1 DEF Trouble
  <2>4. linked' \in BOOLEAN
    BY <1>1, <2>1
  <2>5. Threads' /\ ServerCurrent' /\ NobodyCalls'
    BY <2>1, <2>2, <2>3, <2>4, CallbackRest
  <2>6. RegistryType' /\ Capacity'
    BY <2>1, StepKeepsCapacity DEF SrtInv, RegNext
  <2>7. CallsAgree'
    BY <1>1, <2>1 DEF CallsAgree, CallerMalformed, Elsewhere
  <2>8. ContractKept'
    BY <2>3 DEF ContractKept
  <2> QED BY <2>2, <2>5, <2>6, <2>7, <2>8 DEF SrtInv
<1>4. ASSUME Live, Elsewhere, Quietly, h' \in Health, h'.inst = h.inst, FaultSent', EndSent',
             linked' \in BOOLEAN, trouble' = trouble \/ Trouble
      PROVE  SrtInv'
  <2>1. trouble' \in Nat /\ trouble' >= trouble
    BY <1>1, <1>4 DEF Trouble
  <2>2. RegistryType' /\ Capacity' /\ CallsAgree' /\ ContractKept'
    BY <1>4, <2>1, QuietKeeps DEF Elsewhere
  <2>3. Threads' /\ ServerCurrent' /\ NobodyCalls'
    BY <1>4, <2>1, CallbackRest
  <2> QED BY <1>4, <2>2, <2>3 DEF SrtInv
<1>5. ASSUME NEW kind \in {"Capability", "GstError"}, Live, Elsewhere, Emit(srv.inst, kind)
      PROVE  h' \in Health /\ h'.inst = h.inst /\ FaultSent' /\ EndSent'
  BY <1>5, LiveIndexed, EmitKeeps DEF Elsewhere
<1>6. ASSUME Elsewhere, UNCHANGED <<h, fault>>
      PROVE  h' \in Health /\ h'.inst = h.inst /\ FaultSent' /\ EndSent'
  BY <1>1, <1>6, FaultKeeps DEF Elsewhere
<1>7. CASE BeforeSend
  BY <1>1, <1>4, <1>5, <1>7 DEF BeforeSend
<1>8. CASE PadAdded
  <2>1. /\ Live /\ Elsewhere /\ Quietly /\ linked' = TRUE
        /\ UNCHANGED <<h, fault, trouble>> \/ (Trouble /\ Emit(srv.inst, "Capability"))
    BY <1>8 DEF PadAdded
  <2>2. h' \in Health /\ h'.inst = h.inst /\ FaultSent' /\ EndSent'
    BY <1>5, <1>6, <2>1
  <2>3. linked' \in BOOLEAN
    BY <2>1, Zenon
  <2> QED BY <1>4, <2>1, <2>2, <2>3
<1>9. CASE NoMorePads
  BY <1>1, <1>4, <1>5, <1>9 DEF NoMorePads
<1>10. CASE Buffer
  <2>1. /\ Live /\ Elsewhere /\ Quietly /\ UNCHANGED <<fault, linked, trouble>>
        /\ h' = ObserveBuffer(h, srv.inst, srv.data, now)
    BY <1>10 DEF Buffer
  <2>2. h' \in Health /\ h'.inst = h.inst /\ h'.fault = h.fault
    BY <1>1, <2>1, BufferObserved
  <2>3. FaultSent' /\ EndSent'
    BY <2>1, <2>2, FaultKeeps DEF Elsewhere
  <2> QED BY <1>1, <1>4, <2>1, <2>2, <2>3
<1> QED BY <1>2, <1>3, <1>7, <1>8, <1>9, <1>10

(***************************************************************************)
(* The theorems                                                            *)
(***************************************************************************)

LEMMA SrtInitHolds == SrtInit => SrtInv
<1> SUFFICES ASSUME SrtInit PROVE SrtInv
  OBVIOUS
<1>1. NewHealth \in Health
  <2>1. /\ 0 \in Nat /\ "Starting" \in States /\ Never \in Int /\ FALSE \in BOOLEAN
        /\ NoFault \in Faults
    BY DEF States, Never, Faults
  <2> QED BY <2>1, Zenon DEF NewHealth, Health
<1>2. h = NewHealth /\ h.inst = 0 /\ ~Faulted(h)
  BY DEF SrtInit, NewHealth, Faulted
<1>3. Threads
  <2>1. linked \in BOOLEAN
    BY Zenon DEF SrtInit
  <2> QED BY <1>1, <1>2, <2>1 DEF SrtInit, Threads
<1>4. RegistryType /\ Capacity
  <2>1. reserved \in [Callers -> Nat \cup {NoTime}] /\ Held(reserved) = {} /\ active = {}
        /\ verdict = "none"
    BY DEF SrtInit, RegInit, Held
  <2>2. Cardinality({}) = 0
    BY FS_EmptySet
  <2>3. Capacity
    BY <2>1, <2>2, RegistryAssumption DEF Capacity, Occupancy
  <2> QED BY <2>1, <2>3 DEF RegistryType
<1>5. ServerCurrent
  BY DEF SrtInit, ServerCurrent, NoServer, Stages
<1>6. FaultSent /\ EndSent
  BY <1>2 DEF SrtInit, FaultSent, EndSent
<1>7. CallsAgree
  BY DEF SrtInit, RegInit, CallsAgree, NoTime
<1>8. NobodyCalls /\ ContractKept
  BY DEF SrtInit, RegInit, NobodyCalls, ContractKept
<1> QED BY <1>3, <1>4, <1>5, <1>6, <1>7, <1>8 DEF SrtInv

\* SrtInv is an invariant of the listener, for any number of instances,
\* callers, ticks and troubles.
THEOREM ListenerInvariant == SrtSpec => []SrtInv
<1>1. SrtInv /\ [SrtNext]_srtVars => SrtInv'
  <2> SUFFICES ASSUME SrtInv, [SrtNext]_srtVars PROVE SrtInv'
    OBVIOUS
  <2>1. CASE StartFromRtsp \/ StartFromUdp
    BY <2>1, StartKeeps DEF StartFromRtsp, StartFromUdp
  <2>2. CASE Play \/ Bind \/ Spawn \/ Await
    BY <2>2, StagesKeep
  <2>3. CASE SrtCallback
    BY <2>3, ConnectingKeeps, AddedKeeps, OthersKeep DEF SrtCallback
  <2>4. CASE Thread
    BY <2>4, ThreadKeeps
  <2>5. CASE BeginShutdown \/ FinishShutdown \/ Tick
    BY <2>5, ShutdownKeeps
  <2>6. CASE UNCHANGED srtVars
    <3>1. RegistryType' /\ Capacity'
      BY <2>6, StepKeepsCapacity DEF srtVars, SrtInv
    <3>2. Threads' /\ ServerCurrent' /\ NobodyCalls'
      BY <2>6 DEF srtVars, SrtInv, Threads, ServerCurrent, NobodyCalls
    <3>3. FaultSent' /\ EndSent'
      BY <2>6, FaultKeeps DEF srtVars
    <3>4. CallsAgree' /\ ContractKept'
      BY <2>6 DEF srtVars, registry, SrtInv, CallsAgree, ContractKept
    <3> QED BY <3>1, <3>2, <3>3, <3>4 DEF SrtInv
  <2> QED BY <2>1, <2>2, <2>3, <2>4, <2>5, <2>6 DEF SrtNext
<1> QED BY <1>1, SrtInitHolds, PTL DEF SrtSpec

\* Capacity: the listener (srt_server.rs) never holds more callers, connected
\* and reserved, than MAX_SRT_CALLERS, and none twice.
THEOREM ListenerCapacity == SrtSpec => []Capacity
<1>1. SrtInv => Capacity
  BY DEF SrtInv
<1> QED BY <1>1, ListenerInvariant, PTL

\* SlotsEarned: while the pipeline plays, the registry's callers are exactly the
\* connected ones and every slot taken is one accepted within the expiry.
THEOREM SlotsAreEarned == SrtSpec => []SlotsEarned
<1>1. SrtInv => SlotsEarned
  <2> SUFFICES ASSUME SrtInv PROVE SlotsEarned
    OBVIOUS
  <2>1. active = {c \in Callers : peer[c] = "linked"}
    BY DEF SrtInv, CallsAgree
  <2>2. ASSUME NEW c \in Held(Pruned(now))
        PROVE  c \in Callers /\ asked[c] # NoTime /\ now - asked[c] < PendingTtl
    <3>1. /\ c \in Callers /\ Pruned(now)[c] # NoTime
      BY <2>2 DEF Held
    <3>2. reserved[c] # NoTime /\ ~(now - reserved[c] >= PendingTtl)
      BY <3>1 DEF Pruned
    <3>3. reserved[c] = asked[c] /\ asked[c] \in Nat \cup {NoTime} /\ now \in Nat
      BY <3>1, <3>2 DEF SrtInv, CallsAgree, Threads
    <3> QED BY <3>1, <3>2, <3>3, RegistryAssumption DEF NoTime
  <2> QED BY <2>1, <2>2 DEF SlotsEarned
<1> QED BY <1>1, ListenerInvariant, PTL

\* ContractKept: a listener that keeps the callback contract is never reported
\* as broken by the registry (CallerRegistryFault).
THEOREM ContractIsKept == SrtSpec => []ContractKept
<1>1. SrtInv => ContractKept
  BY DEF SrtInv
<1> QED BY <1>1, ListenerInvariant, PTL

\* EndNoticed: a bus thread of the current instance that ended without being
\* asked left its fault with the supervisor, and no event is sent for an instance
\* that recorded none (loop_exited, SrtRuntimeProbe::publish).
THEOREM EndIsNoticed == SrtSpec => []EndNoticed
<1>1. SrtInv => EndNoticed
  <2> SUFFICES ASSUME SrtInv PROVE EndNoticed
    OBVIOUS
  <2>1. DOMAIN bus = 1..h.inst
    BY ServerIndexed
  <2> QED BY <2>1 DEF SrtInv, EndSent, FaultSent, EndNoticed
<1> QED BY <1>1, ListenerInvariant, PTL


(***************************************************************************)
(* The relay service's inductive invariant                                 *)
(***************************************************************************)

Building == {"check", "preflight", "firewall", "recheck", "build", "store"}
Placed == Building \cup {"lifecycle", "take"}
Recovery == {"idle", "retire", "backoff", "mark", "resolve", "lifecycle"} \cup Building
Transactions == {"apply", "switch"}

\* Every generation the shared record refers to has been installed, and the
\* current one is the newest.
Installed ==
    /\ slot.health \in {0, generation} /\ slot.server.gen <= generation
    /\ slot.server.gen = 0 => slot.server = NoListener
    /\ lease.gen <= generation /\ (lease.gen = 0 => lease = NoLease)
    /\ \A l \in live : l.gen # 0 /\ l.gen <= generation

\* Requests that may still install a generation.
Pending == {u \in Users : proc[u].pc \notin Placed \cup {"idle", "cancel"}}

\* A request installs at most one generation.
Counted ==
    /\ IsFiniteSet(Pending)
    /\ generation + Cardinality(Pending) <= spent.requests
    /\ spent.requests <= MaxRequests

\* Every listener is stored or the candidate of a builder.
Accounted ==
    \A l \in live :
        \/ l = slot.server
        \/ \E p \in Procs : proc[p].pc = "store" /\ l = Candidate(p)

\* A record behind whose listener a Stop was published: no loop runs, and an SRT
\* listener has no media.
Quieted(r) == r.active = 0 /\ r.state \in {"Stopped", "Failed", "Recovering"}
Shut(r, role) == ~r.alive /\ (role = "srt" => Quieted(r))

\* Without a current generation the stored listener's record is shut.
Fenced ==
    /\ ~slot.desired => slot.health = 0
    /\ slot.server.gen # 0 /\ slot.server.gen = generation /\ slot.health = 0
       => Shut(health[generation], slot.server.role)

\* u has claimed its epoch for itself; it has published its start; its stop.
Claimant(u) ==
    \/ proc[u].pc \in Placed \cup {"publish", "unpublish", "resolve", "cancel", "install"}
    \/ proc[u].pc \in {"gate", "finish"} /\ proc[u].op \in {"start", "stop"}
Started(u) ==
    \/ proc[u].pc \in Placed \cup {"resolve", "cancel", "install"}
    \/ proc[u].pc = "gate" /\ proc[u].op = "start"
Stopped(u) == proc[u].op = "stop" /\ proc[u].pc \in {"gate", "finish"}

\* No two claimants share an epoch.
Unshared ==
    \A u, v \in Users :
        Claimant(u) /\ Claimant(v) /\ proc[u].epoch = proc[v].epoch => u = v

\* The watcher marks under relay_lifecycle, and about a generation.
Watching ==
    /\ watch.gen <= generation
    /\ watch.pc \in {"apply", "mark"} => watch.gen # 0
    /\ watch.pc = "mark" => lifecycle = Watcher

\* The generation a process works for.
GenKnown(p) ==
    /\ proc[p].gen <= generation
    /\ p \in Users => proc[p].pc \notin {"retire", "backoff", "mark"}
    /\ p = Supervisor => proc[p].pc \in Recovery
    /\ proc[p].pc \in (IF p = Supervisor THEN Recovery \ {"idle"} ELSE Placed)
       => proc[p].gen # 0

\* A listener is built and torn down by the holder of relay_lifecycle only, and a
\* transaction that has stopped the output keeps the gate until it has it back.
Holding(p) ==
    /\ proc[p].pc \in Building \cup {"take"} => lifecycle = p
    /\ /\ p \in Users /\ proc[p].op \in Transactions
       /\ proc[p].pc \in {"validate", "finish", "commit", "restart", "publish"}
       => gate = p

\* What a builder finds in the slot: nothing of its generation, and nothing at
\* all when it is a Start.  Its candidate exists.
Alone(p) ==
    /\ proc[p].pc \in Building =>
         /\ slot.server.gen # proc[p].gen
         /\ p \in Users => slot.server = NoListener
    /\ proc[p].pc = "store" => Candidate(p) \in live

\* While its epoch is the newest, a start that was published keeps the output
\* desired, and a stop keeps it from coming back with another listener or lease.
Prevails(p) ==
    p \in Users =>
        /\ proc[p].epoch <= epoch
        /\ Started(p) /\ proc[p].epoch = epoch => slot.desired
        /\ Stopped(p) /\ proc[p].epoch = epoch =>
             /\ ~slot.desired
             /\ slot.server.gen \in {0, proc[p].intent.target}
             /\ lease.gen \in {0, proc[p].intent.target, proc[p].intent.fw}

\* A transaction works under the epoch of its own stop and restarts under the
\* next one; a start carries no stop, and a stop never starts.
OwnStop(p) ==
    p \in Users =>
        /\ /\ proc[p].intent # NoIntent /\ proc[p].op \in Transactions
           /\ proc[p].pc \in {"gate", "validate", "finish", "commit", "restart", "publish"}
           => proc[p].epoch = proc[p].intent.epoch + (IF proc[p].pc = "publish" THEN 1 ELSE 0)
        /\ proc[p].op = "start" =>
             /\ proc[p].intent = NoIntent
             /\ proc[p].pc \notin {"unpublish", "finish", "capture", "claim", "validate",
                                   "commit", "restart"}
        /\ proc[p].op = "stop" => proc[p].pc \in {"unpublish", "gate", "finish"}
        /\ proc[p].pc \in {"idle", "capture", "claim"} => proc[p].intent = NoIntent

InOrder(p) == GenKnown(p) /\ Holding(p) /\ Alone(p) /\ Prevails(p) /\ OwnStop(p)

RelayInv ==
    /\ TypeOK /\ Installed /\ Counted /\ Accounted /\ RuleLeased /\ Fenced
    /\ Unshared /\ Watching /\ \A p \in Procs : InOrder(p)

(***************************************************************************)
(* The health record's methods as the service uses them                    *)
(***************************************************************************)

\* y is a record of x's instance whose loop does not run if x's did not; a mild
\* change also leaves a quiet record quiet.
Same(x, y) == y \in Health /\ y.inst = x.inst /\ (y.alive => x.alive)
Mild(x, y) == Same(x, y) /\ (Quieted(x) => Quieted(y))

LEMMA MildRefl ==
    ASSUME NEW x \in Health
    PROVE  Mild(x, x)
BY DEF Mild, Same

LEMMA MildTrans ==
    ASSUME NEW x, NEW y, NEW z, Mild(x, y), Mild(y, z)
    PROVE  Mild(x, z)
BY DEF Mild, Same

LEMMA StopMild ==
    ASSUME NEW x \in Health
    PROVE  Mild(x, Stop(x)) /\ Shut(Stop(x), "srt")
<1> DEFINE y == Clear(x)
<1>1. y \in Health /\ y.inst = x.inst /\ y.active = 0
  BY ClearHealth DEF Clear, Health
<1> HIDE DEF y
<1>2. Stop(x) = [y EXCEPT !.warned = x.warned, !.fault = NoFault,
                          !.alive = FALSE, !.state = "Stopped"]
  BY DEF Stop, y
<1>3. /\ NoFault \in Faults /\ FALSE \in BOOLEAN /\ "Stopped" \in States
      /\ x.warned \in BOOLEAN
  BY DEF Health, Faults, States
<1>4. Stop(x) \in Health
  BY <1>1, <1>2, <1>3, Zenon DEF Health
<1> QED BY <1>1, <1>2, <1>4 DEF Health, Mild, Same, Quieted, Shut

LEMMA MarksMild ==
    ASSUME NEW x \in Health
    PROVE  Mild(x, MarkRecoveryInProgress(x)) /\ Mild(x, MarkResolutionFailed(x))
<1>1. {"Recovering", "Failed"} \subseteq States /\ FALSE \in BOOLEAN
  BY DEF States
<1>2. MarkRecoveryInProgress(x) \in Health
  BY <1>1, Zenon DEF MarkRecoveryInProgress, Health
<1>3. MarkResolutionFailed(x) \in Health
  BY <1>1, Zenon DEF MarkResolutionFailed, Health
<1> QED BY <1>2, <1>3 DEF MarkRecoveryInProgress, MarkResolutionFailed, Health, Mild,
                         Same, Quieted

LEMMA BuildFailedMild ==
    ASSUME NEW x \in Health, NEW i
    PROVE  Mild(x, MarkBuildFailed(x, i, FALSE))
<1>1. MarkBuildFailed(x, i, FALSE) \in Health
  BY BuildFailed
<1> QED BY <1>1 DEF MarkBuildFailed, Health, Mild, Same, Quieted

LEMMA AcceptMild ==
    ASSUME NEW x \in Health, NEW f
    PROVE  Mild(x, AcceptFault(x, f))
<1>1. {"Failed", "Recovering"} \subseteq States /\ Never \in Int /\ 0 \in Nat
  BY DEF States, Never
<1>2. AcceptFault(x, f) \in Health
  BY <1>1, Zenon DEF AcceptFault, Health
<1> QED BY <1>2 DEF AcceptFault, Health, Mild, Same, Quieted

\* What the record's own media does to it.
LEMMA EndMild ==
    ASSUME NEW x \in Health, NEW i
    PROVE  Mild(x, EndDataGeneration(x, i, x.active))
<1>1. EndDataGeneration(x, i, x.active) \in Health
      /\ EndDataGeneration(x, i, x.active).inst = x.inst
  BY EndData
<1>2. EndDataGeneration(x, i, x.active).alive = x.alive
  BY DEF EndDataGeneration, Clear, Health
<1>3. x.active = 0 => EndDataGeneration(x, i, x.active) = x
  BY DEF EndDataGeneration, IsCurrentData
<1> QED BY <1>1, <1>2, <1>3 DEF Mild, Same, Quieted

LEMMA PlaysMild ==
    ASSUME NEW x \in Health, NEW i
    PROVE  Mild(x, ReportStreaming(x, i, x.active, Never))
<1>1. Never \in Int /\ x.healthy \in Int /\ "Streaming" \in States
  BY DEF Health, States, Never
<1>2. ReportStreaming(x, i, x.active, Never) \in Health
  BY <1>1, Zenon DEF ReportStreaming, Health
<1>3. x.active = 0 => ReportStreaming(x, i, x.active, Never) = x
  BY DEF ReportStreaming, IsCurrentData
<1>4. ReportStreaming(x, i, x.active, Never).inst = x.inst
      /\ ReportStreaming(x, i, x.active, Never).alive = x.alive
  BY DEF ReportStreaming, Health
<1> QED BY <1>2, <1>3, <1>4 DEF Mild, Same, Quieted

LEMMA RecordMild ==
    ASSUME NEW x \in Health, NEW k \in FaultKinds, NEW d \in Nat
    PROVE  Mild(x, RecordFault(x, k, d))
<1>1. RecordFault(x, k, d) \in Health
  BY Recorded
<1> QED BY <1>1 DEF RecordFault, Health, Mild, Same, Quieted

LEMMA ExitMild ==
    ASSUME NEW x \in Health, NEW i, NEW b \in BOOLEAN
    PROVE  Mild(x, LoopExited(x, i, b))
<1> DEFINE dead == [x EXCEPT !.alive = FALSE]
           d == IF x.active # 0 THEN x.active ELSE x.data
<1>1. dead \in Health /\ Mild(x, dead) /\ d \in Nat /\ "MainLoopExited" \in FaultKinds
  BY DEF Health, FaultKinds, Mild, Same, Quieted
<1>2. LoopExited(x, i, b) =
        IF x.inst # i THEN x ELSE IF b THEN dead ELSE RecordFault(dead, "MainLoopExited", d)
  BY DEF LoopExited
<1> HIDE DEF dead, d
<1> QED BY <1>1, <1>2, RecordMild, MildRefl, MildTrans

LEMMA FaultsMild ==
    ASSUME NEW x \in Health, NEW i, NEW k \in FaultKinds
    PROVE  Mild(x, ReportFault(x, i, x.active, k))
<1>1. x.active \in Nat
  BY DEF Health
<1> QED BY <1>1, RecordMild, MildRefl DEF ReportFault

LEMMA BeginSame ==
    ASSUME NEW x \in Health, NEW i \in Nat
    PROVE  Same(x, BeginDataGeneration(x, i))
<1>1. BeginDataGeneration(x, i).alive = x.alive
  BY DEF BeginDataGeneration, Clear, Health
<1> QED BY <1>1, BeginData DEF Same

\* A listener that is shut down is noticed by its own record only.
LEMMA ShutDownMild ==
    ASSUME NEW hs \in [Gens -> Health], NEW l
    PROVE  /\ ShutDown(hs, l) \in [Gens -> Health]
           /\ \A g \in Gens : Mild(hs[g], ShutDown(hs, l)[g])
           /\ \A g \in Gens : g # l.gen => ShutDown(hs, l)[g] = hs[g]
<1>1. CASE l = NoListener
  BY <1>1, MildRefl DEF ShutDown
<1>2. CASE l # NoListener
  <2> DEFINE e(x) == EndDataGeneration(x, l.inst, x.active)
             c(x) == LoopExited(e(x), l.inst, TRUE)
  <2>1. ShutDown(hs, l) = [hs EXCEPT ![l.gen] = c(hs[l.gen])]
    BY <1>2 DEF ShutDown
  <2>2. ASSUME NEW x \in Health PROVE c(x) \in Health /\ Mild(x, c(x))
    <3>1. e(x) \in Health /\ Mild(x, e(x))
      BY EndMild DEF Mild, Same
    <3> HIDE DEF e
    <3>2. Mild(e(x), c(x))
      BY <3>1, ExitMild
    <3> QED BY <3>1, <3>2, MildTrans DEF Mild, Same
  <2> HIDE DEF c
  <2> QED BY <2>1, <2>2, MildRefl
<1> QED BY <1>1, <1>2

(***************************************************************************)
(* What the actions share                                                  *)
(***************************************************************************)

SpecRec == [cfg : Settings, scope : Scopes, set : BOOLEAN]
IntentRec == [epoch : Nat, target : Nat, fw : Nat, was : BOOLEAN]
Event == [kind : {"retry", "fault"}, gen : Gens, fault : Faults]

\* A step of process p: nobody else's locals change, and no lock of another.
Others(p) ==
    /\ proc' \in [Procs -> Proc]
    /\ \A q \in Procs : q # p => proc'[q] = proc[q]

Locks(p) ==
    /\ \A q \in Procs \cup {Watcher} : q # p /\ lifecycle = q => lifecycle' = q
    /\ \A q \in Users : q # p /\ gate = q => gate' = q

\* What others rely on is left alone: the slot's listener and the candidates, unless
\* p holds the lifecycle or nobody does; the intent and what a Stop captured,
\* unless p's intent is the newest.
Respects(p) ==
    /\ \/ lifecycle \in {p, Nobody}
       \/ /\ slot'.server = slot.server /\ live \subseteq live'
          /\ \A g \in Gens : g <= generation => health'[g].inst = health[g].inst
    /\ \/ slot'.desired = slot.desired
       \/ p \in Users /\ Claimant(p) /\ proc[p].epoch = epoch
    /\ slot'.server.gen \in {0, slot.server.gen} \/ slot.desired
    /\ lease'.gen \in {0, lease.gen} \/ slot.desired

LEMMA ProcFields ==
    ASSUME TypeOK, NEW p \in Procs
    PROVE  /\ proc[p] \in Proc /\ proc[p].pc \in Pcs /\ proc[p].gen \in 0..MaxRequests
           /\ proc[p].gen \in Nat /\ proc[p].epoch \in Nat /\ proc[p].scope \in Scopes
           /\ proc[p].want \in Settings /\ proc[p].upd \in Settings
           /\ proc[p].intent \in IntentRec /\ proc[p].preserve \in BOOLEAN
           /\ proc[p].want.protocol \in Protocols
           /\ proc[p].op \in {"start", "stop", "apply", "switch"}
<1>1. proc[p] \in Proc /\ MaxRequests \in Nat
  BY RelayAssumption DEF TypeOK
<1> QED BY <1>1 DEF Proc, IntentRec, Settings

LEMMA SharedFields ==
    ASSUME TypeOK
    PROVE  /\ epoch \in Nat /\ generation \in Nat /\ revision \in Nat /\ MaxRequests \in Nat
           /\ generation <= MaxRequests
           /\ slot.desired \in BOOLEAN /\ slot.health \in 0..MaxRequests
           /\ slot.intent \in Nat /\ slot.server \in Listener /\ slot.spec \in SpecRec
           /\ slot.server.gen \in Nat /\ slot.server.role \in Protocols
           /\ slot.server.inst \in Nat /\ slot.server.gen \in 0..MaxRequests
           /\ lease.gen \in Nat /\ lease.role \in Protocols
           /\ \A l \in live : l.gen \in Nat /\ l.inst \in Nat /\ l.role \in Protocols
           /\ \A g \in Gens : health[g] \in Health
           /\ spent.requests \in Nat
<1>1. MaxRequests \in Nat
  BY RelayAssumption
<1>2. /\ epoch \in Nat /\ generation \in 0..MaxRequests /\ revision \in Nat
      /\ slot \in [desired : BOOLEAN, spec : SpecRec, health : 0..MaxRequests,
                   intent : Nat, server : Listener]
      /\ lease \in [gen : 0..MaxRequests, role : Protocols]
      /\ health \in [Gens -> Health] /\ live \subseteq Listener
  BY DEF TypeOK, SpecRec
<1>3. spent.requests \in Nat
  BY DEF TypeOK, Bounds
<1>4. \A l \in Listener : l.gen \in 0..MaxRequests /\ l.inst \in Nat /\ l.role \in Protocols
  BY DEF Listener
<1>5. slot.server \in Listener
  BY <1>2
<1> QED BY <1>1, <1>2, <1>3, <1>4, <1>5

\* p's step leaves every other process in order.
LEMMA OthersInOrder ==
    ASSUME RelayInv, TypeOK', NEW p \in Procs, Others(p), Locks(p), Respects(p),
           epoch' >= epoch, generation' >= generation
    PROVE  \A q \in Procs : q # p => InOrder(q)'
<1> SUFFICES ASSUME NEW q \in Procs, q # p PROVE InOrder(q)'
  OBVIOUS
<1>1. proc'[q] = proc[q] /\ InOrder(q)
  BY DEF Others, RelayInv
<1>2. /\ proc[q].gen \in Nat /\ proc[q].epoch \in Nat /\ epoch \in Nat /\ generation \in Nat
      /\ epoch' \in Nat /\ generation' \in Nat /\ Nobody # q
      /\ proc[q].gen \in 0..MaxRequests
  <2>1. TypeOK /\ Nobody # q
    BY RelayAssumption DEF RelayInv
  <2>2. epoch' \in Nat /\ generation' \in 0..MaxRequests
    BY DEF TypeOK
  <2> QED BY <2>1, <2>2, ProcFields, SharedFields
<1>3. GenKnown(q)'
  BY <1>1, <1>2 DEF InOrder, GenKnown
<1>4. Holding(q)'
  BY <1>1 DEF InOrder, Holding, Locks
<1>5. Alone(q)'
  <2>1. CASE lifecycle \in {p, Nobody}
    <3>1. proc[q].pc \notin Building
      BY <1>1, <1>2, <2>1 DEF InOrder, Holding
    <3> QED BY <1>1, <3>1 DEF Alone, Building
  <2>2. CASE /\ slot'.server = slot.server /\ live \subseteq live'
             /\ \A g \in Gens : g <= generation => health'[g].inst = health[g].inst
    <3>1. proc[q].pc \in Building => proc[q].gen \in Gens
      BY <1>1, <1>2, RelayAssumption
      DEF InOrder, GenKnown, Gens, Placed, Recovery, Building
    <3>2. proc[q].pc \in Building => Candidate(q)' = Candidate(q)
      BY <1>1, <2>2, <3>1 DEF InOrder, GenKnown, Candidate
    <3>3. "store" \in Building
      BY DEF Building
    <3> QED BY <1>1, <2>2, <3>2, <3>3 DEF InOrder, Alone
  <2> QED BY <2>1, <2>2 DEF Respects
<1>6. Prevails(q)'
  <2> SUFFICES ASSUME q \in Users PROVE Prevails(q)'
    BY DEF Prevails
  <2>1. (Started(q)' <=> Started(q)) /\ (Stopped(q)' <=> Stopped(q))
    BY <1>1 DEF Started, Stopped
  <2>2. CASE epoch' # epoch
    BY <1>1, <1>2, <2>2 DEF InOrder, Prevails
  <2>3. CASE epoch' = epoch /\ slot'.desired = slot.desired
    BY <1>1, <1>2, <2>1, <2>3 DEF InOrder, Prevails, Respects
  <2>4. CASE epoch' = epoch /\ slot'.desired # slot.desired
    <3>1. p \in Users /\ Claimant(p) /\ proc[p].epoch = epoch
      BY <2>4 DEF Respects
    <3>2. ~(Claimant(q) /\ proc[q].epoch = epoch)
      BY <3>1 DEF RelayInv, Unshared
    <3>3. Started(q) \/ Stopped(q) => Claimant(q)
      BY DEF Started, Stopped, Claimant
    <3> QED BY <1>1, <1>2, <2>1, <2>4, <3>2, <3>3 DEF InOrder, Prevails
  <2> QED BY <2>2, <2>3, <2>4
<1>7. OwnStop(q)'
  BY <1>1 DEF InOrder, OwnStop
<1> QED BY <1>3, <1>4, <1>5, <1>6, <1>7 DEF InOrder

\* No step but a claim makes a claimant.
LEMMA UnsharedKeeps ==
    ASSUME RelayInv, NEW p \in Procs, Others(p),
           p \in Users /\ Claimant(p)' =>
               \/ Claimant(p) /\ proc'[p].epoch = proc[p].epoch
               \/ proc'[p].epoch = epoch + 1
    PROVE  Unshared'
<1> SUFFICES ASSUME NEW u \in Users, NEW v \in Users, Claimant(u)', Claimant(v)',
                    proc'[u].epoch = proc'[v].epoch, u # v
             PROVE  FALSE
  BY DEF Unshared
<1>1. \A q \in Users : q # p => proc'[q] = proc[q] /\ (Claimant(q)' <=> Claimant(q))
  BY DEF Others, Claimant, Procs
<1>2. \A q \in Users : proc[q].epoch \in Nat /\ proc[q].epoch <= epoch /\ epoch \in Nat
  BY ProcFields, SharedFields DEF RelayInv, InOrder, Prevails, Procs
<1> QED BY <1>1, <1>2 DEF RelayInv, Unshared

\* A step by which no request joins those that may install.
LEMMA CountedKeeps ==
    ASSUME TypeOK, Counted, NEW p \in Procs, Others(p), generation' = generation, spent'.requests = spent.requests,
           p \in Users /\ proc[p].pc \in Placed \cup {"idle", "cancel"}
             => proc'[p].pc \in Placed \cup {"idle", "cancel"}
    PROVE  Counted'
<1>1. Pending' \subseteq Pending
  BY DEF Pending, Others, Procs
<1>2. /\ IsFiniteSet(Pending') /\ Cardinality(Pending') <= Cardinality(Pending)
      /\ Cardinality(Pending) \in Nat /\ Cardinality(Pending') \in Nat
  BY <1>1, FS_Subset, FS_CardinalityType DEF Counted
<1>4. generation \in Nat /\ MaxRequests \in Nat /\ spent.requests \in Nat
  BY SharedFields
<1> QED BY <1>2, <1>4 DEF Counted

\* The types of everything but the slot, the lease, the rules and the listeners.
LEMMA TypeKeeps ==
    ASSUME TypeOK, NEW p \in Procs, Others(p), epoch' \in Nat,
           generation' \in 0..MaxRequests, gate' \in Users \cup {Nobody}, lifecycle' \in Procs \cup {Nobody, Watcher},
           events' \in Seq(Event), config' \in Settings, spent' \in [DOMAIN Bounds -> Nat],
           health' \in [Gens -> Health], UNCHANGED <<revision, watch>>,
           slot' \in [desired : BOOLEAN, spec : SpecRec, health : 0..MaxRequests,
                      intent : Nat, server : Listener],
           lease' \in [gen : 0..MaxRequests, role : Protocols],
           rule' \in [Protocols -> BOOLEAN], live' \subseteq Listener
    PROVE  TypeOK'
<1>1. /\ epoch' \in Nat /\ generation' \in 0..MaxRequests /\ revision' \in Nat
      /\ slot' \in [desired : BOOLEAN, spec : SpecRec, health : 0..MaxRequests,
                    intent : Nat, server : Listener]
      /\ lease' \in [gen : 0..MaxRequests, role : Protocols]
      /\ health' \in [Gens -> Health] /\ live' \subseteq Listener
      /\ rule' \in [Protocols -> BOOLEAN]
  BY DEF TypeOK
<1>2. /\ gate' \in Users \cup {Nobody} /\ lifecycle' \in Procs \cup {Nobody, Watcher}
      /\ events' \in Seq([kind : {"retry", "fault"}, gen : Gens, fault : Faults])
      /\ config' \in Settings /\ proc' \in [Procs -> Proc]
      /\ spent' \in [DOMAIN Bounds -> Nat]
  BY DEF Others, Event
<1>3. watch' \in [pc : {"idle", "observe", "apply", "mark"}, rev : Nat, known : BOOLEAN,
                  gen : 0..MaxRequests, inst : Nat]
  BY DEF TypeOK
<1> QED BY <1>1, <1>2, <1>3, Zenon DEF TypeOK, SpecRec

\* The types of what does not change, as TypeKeeps asks for them.
LEMMA TypeParts ==
    ASSUME TypeOK
    PROVE  /\ epoch \in Nat /\ generation \in 0..MaxRequests /\ gate \in Users \cup {Nobody}
           /\ lifecycle \in Procs \cup {Nobody, Watcher}
           /\ events \in Seq(Event) /\ config \in Settings
           /\ spent \in [DOMAIN Bounds -> Nat] /\ health \in [Gens -> Health]
           /\ slot \in [desired : BOOLEAN, spec : SpecRec, health : 0..MaxRequests,
                        intent : Nat, server : Listener]
           /\ lease \in [gen : 0..MaxRequests, role : Protocols]
           /\ rule \in [Protocols -> BOOLEAN] /\ live \subseteq Listener
           /\ proc \in [Procs -> Proc]
BY Zenon DEF TypeOK, SpecRec, Event

\* What the bounds keep track of.
LEMMA SpendFacts ==
    ASSUME TypeOK, NEW b \in DOMAIN Bounds, Spend(b)
    PROVE  /\ spent' \in [DOMAIN Bounds -> Nat]
           /\ b # "requests" => spent'.requests = spent.requests
           /\ b = "requests" => spent'.requests = spent.requests + 1
                                /\ spent'.requests <= MaxRequests
<1>1. spent \in [DOMAIN Bounds -> Nat] /\ MaxRequests \in Nat
  BY RelayAssumption DEF TypeOK
<1>2. "requests" \in DOMAIN Bounds /\ Bounds["requests"] = MaxRequests
  BY DEF Bounds
<1>3. spent[b] < Bounds[b] /\ spent' = [spent EXCEPT ![b] = spent[b] + 1]
  BY DEF Spend, Within
<1>4. spent["requests"] = spent.requests /\ spent'["requests"] = spent'.requests
  OBVIOUS
<1> QED BY <1>1, <1>2, <1>3, <1>4

LEMMA IdleTyped == Idle \in Proc
<1>1. NoSpec.cfg \in Settings /\ NoIntent \in IntentRec /\ Unknown \in Scopes
      /\ "idle" \in Pcs /\ 0 \in 0..MaxRequests /\ "start" \in {"start", "stop", "apply", "switch"}
  BY RelayAssumption DEF NoSpec, Settings, Protocols, NoIntent, IntentRec, Scopes, Pcs
<1> QED BY <1>1, Zenon DEF Idle, Proc, IntentRec

LEMMA LeaveFacts ==
    ASSUME TypeOK, NEW p \in Procs, Leave(p)
    PROVE  /\ Others(p) /\ Locks(p) /\ proc'[p] = Idle
           /\ gate' \in Users \cup {Nobody} /\ lifecycle' \in Procs \cup {Nobody, Watcher}
<1>1. proc' = [proc EXCEPT ![p] = Idle] /\ proc \in [Procs -> Proc]
  BY TypeParts DEF Leave
<1>2. Others(p) /\ proc'[p] = Idle
  BY <1>1, IdleTyped DEF Others
<1>3. Locks(p)
  BY DEF Leave, Locks
<1>4. gate' \in Users \cup {Nobody} /\ lifecycle' \in Procs \cup {Nobody, Watcher}
  BY TypeParts DEF Leave
<1> QED BY <1>2, <1>3, <1>4

\* The process's locals after it moved to pc.
At(r, pc) == [r EXCEPT !.pc = pc]

LEMMA AtFields ==
    ASSUME NEW r \in Proc, NEW pc \in Pcs
    PROVE  /\ At(r, pc) \in Proc /\ At(r, pc).pc = pc /\ At(r, pc).op = r.op
           /\ At(r, pc).epoch = r.epoch /\ At(r, pc).gen = r.gen
           /\ At(r, pc).scope = r.scope /\ At(r, pc).want = r.want
           /\ At(r, pc).upd = r.upd /\ At(r, pc).intent = r.intent
           /\ At(r, pc).preserve = r.preserve
BY DEF At, Proc

LEMMA GotoFacts ==
    ASSUME TypeOK, NEW p \in Procs, NEW pc \in Pcs, Goto(p, pc)
    PROVE  /\ Others(p) /\ Locks(p) /\ proc'[p] = At(proc[p], pc)
           /\ gate' \in Users \cup {Nobody} /\ lifecycle' \in Procs \cup {Nobody, Watcher}
           /\ gate' = gate /\ lifecycle' = lifecycle
<1>1. proc' = [proc EXCEPT ![p] = At(proc[p], pc)] /\ proc \in [Procs -> Proc]
  BY TypeParts DEF Goto, At
<1>2. At(proc[p], pc) \in Proc
  BY <1>1, AtFields
<1>3. Others(p) /\ proc'[p] = At(proc[p], pc)
  BY <1>1, <1>2 DEF Others
<1> QED BY <1>3, TypeParts DEF Goto, Locks

\* A process that is idle is in order.
LEMMA IdleInOrder ==
    ASSUME TypeOK', NEW p \in Procs, proc'[p] = Idle
    PROVE  InOrder(p)' /\ ~Claimant(p)' /\ proc'[p].pc = "idle"
<1>1. epoch' \in Nat /\ generation' \in Nat
  <2>1. epoch' \in Nat /\ generation' \in 0..MaxRequests /\ MaxRequests \in Nat
    BY RelayAssumption DEF TypeOK
  <2> QED BY <2>1
<1>2. /\ proc'[p].pc = "idle" /\ proc'[p].gen = 0 /\ proc'[p].op = "start"
      /\ proc'[p].epoch = 0 /\ proc'[p].intent = NoIntent
  BY DEF Idle
<1>3. GenKnown(p)'
  BY <1>1, <1>2 DEF GenKnown, Recovery, Placed, Building
<1>4. Holding(p)' /\ Alone(p)'
  BY <1>2 DEF Holding, Alone, Building, Transactions
<1>5. Prevails(p)' /\ OwnStop(p)' /\ ~Claimant(p)'
  BY <1>1, <1>2 DEF Prevails, OwnStop, Started, Stopped, Placed, Building, Transactions,
                    Claimant
<1> QED BY <1>2, <1>3, <1>4, <1>5 DEF InOrder

\* A step of p that installs nothing and claims nothing leaves the processes, the
\* watcher and the count of requests in order when it leaves p in order.
LEMMA StepKeeps ==
    ASSUME RelayInv, TypeOK', NEW p \in Procs, Others(p), Locks(p), Respects(p),
           InOrder(p)', UNCHANGED <<epoch, generation, watch>>,
           spent'.requests = spent.requests,
           p \in Users /\ Claimant(p)' => Claimant(p) /\ proc'[p].epoch = proc[p].epoch,
           p \in Users /\ proc[p].pc \in Placed \cup {"idle", "cancel"}
             => proc'[p].pc \in Placed \cup {"idle", "cancel"}
    PROVE  Counted' /\ Unshared' /\ Watching' /\ \A q \in Procs : InOrder(q)'
<1>1. epoch \in Nat /\ generation \in Nat /\ TypeOK
  BY SharedFields DEF RelayInv
<1>2. \A q \in Procs : q # p => InOrder(q)'
  BY <1>1, OthersInOrder
<1>3. Unshared'
  BY UnsharedKeeps
<1>4. Counted'
  BY <1>1, CountedKeeps DEF RelayInv
<1>5. Watching'
  <2>1. p # Watcher
    BY RelayAssumption
  <2> QED BY <2>1 DEF RelayInv, Watching, Locks
<1> QED BY <1>2, <1>3, <1>4, <1>5

LEMMA InstalledKeeps ==
    ASSUME TypeOK, Installed, generation' = generation,
           slot'.health \in {0, slot.health},
           \/ slot'.server \in {slot.server, NoListener}
           \/ slot'.server.gen \in Gens /\ slot'.server.gen <= generation,
           \/ lease' \in {lease, NoLease}
           \/ lease'.gen \in Gens /\ lease'.gen <= generation,
           \A l \in live' : l \in live \/ (l.gen \in Gens /\ l.gen <= generation)
    PROVE  Installed'
<1>1. generation \in Nat /\ MaxRequests \in Nat
  BY SharedFields
<1>2. slot'.health \in {0, generation'}
  BY DEF Installed
<1>3. slot'.server.gen <= generation' /\ (slot'.server.gen = 0 => slot'.server = NoListener)
  BY <1>1 DEF Installed, NoListener, Gens
<1>4. lease'.gen <= generation' /\ (lease'.gen = 0 => lease' = NoLease)
  BY <1>1 DEF Installed, NoLease, Gens
<1>5. \A l \in live' : l.gen # 0 /\ l.gen <= generation'
  BY <1>1 DEF Installed, Gens
<1> QED BY <1>2, <1>3, <1>4, <1>5 DEF Installed

\* Listeners may go; the stored one stays stored, and candidates stay candidates.
LEMMA AccountedKeeps ==
    ASSUME RelayInv, NEW p \in Procs, Others(p), live' \subseteq live,
           \A l \in live' : l = slot.server => l = slot'.server,
           proc[p].pc # "store",
           \/ lifecycle \in {p, Nobody}
           \/ \A g \in Gens : g <= generation => health'[g].inst = health[g].inst
    PROVE  Accounted'
<1> SUFFICES ASSUME NEW l \in live', l # slot'.server
             PROVE  \E q \in Procs : proc'[q].pc = "store" /\ l = Candidate(q)'
  BY DEF Accounted
<1>1. PICK q \in Procs : proc[q].pc = "store" /\ l = Candidate(q)
  BY DEF RelayInv, Accounted
<1>2. q # p /\ q # Nobody /\ proc'[q] = proc[q] /\ InOrder(q) /\ proc[q].gen \in 0..MaxRequests
  BY <1>1, ProcFields, RelayAssumption DEF Others, RelayInv
<1>3. lifecycle = q
  BY <1>1, <1>2 DEF InOrder, Holding, Building
<1>4. \A g \in Gens : g <= generation => health'[g].inst = health[g].inst
  BY <1>2, <1>3
<1>5. proc[q].gen \in Gens /\ proc[q].gen <= generation
  <2>1. proc[q].gen # 0 /\ proc[q].gen <= generation
    BY <1>1, <1>2 DEF InOrder, GenKnown, Placed, Recovery, Building
  <2> QED BY <1>2, <2>1, RelayAssumption DEF Gens
<1>6. Candidate(q)' = Candidate(q)
  BY <1>2, <1>4, <1>5 DEF Candidate
<1> QED BY <1>1, <1>2, <1>6

\* The fence holds while the stored listener's record only changes mildly.
LEMMA FencedKeeps ==
    ASSUME RelayInv, generation' = generation, slot'.desired \/ ~slot.desired,
           slot'.health = slot.health, slot'.server \in {slot.server, NoListener},
           \/ slot'.server = NoListener
           \/ Mild(health[slot.server.gen], health'[slot.server.gen])
           \/ /\ Same(health[slot.server.gen], health'[slot.server.gen])
              /\ slot.server.role # "srt"
    PROVE  Fenced'
<1>1. Fenced /\ NoListener.gen = 0
  BY DEF RelayInv, NoListener
<1>2. ~slot'.desired => slot'.health = 0
  BY <1>1 DEF Fenced
<1>3. ASSUME slot'.server.gen # 0, slot'.server.gen = generation', slot'.health = 0
      PROVE  Shut(health'[generation'], slot'.server.role)
  <2>1. slot'.server = slot.server /\ slot'.server # NoListener
    BY <1>1, <1>3
  <2>2. Shut(health[generation], slot.server.role)
    BY <1>1, <1>3, <2>1 DEF Fenced
  <2> QED BY <1>3, <2>1, <2>2 DEF Shut, Mild, Same
<1> QED BY <1>2, <1>3 DEF Fenced

\* A step that leaves the listeners, the slot, the lease and the rules alone.
LEMMA WalkKeeps ==
    ASSUME RelayInv, TypeOK', NEW p \in Procs, Others(p), Locks(p), InOrder(p)',
           UNCHANGED <<epoch, generation, slot, lease, live, rule, watch>>,
           \A g \in Gens : Mild(health[g], health'[g]),
           spent'.requests = spent.requests, proc[p].pc # "store",
           p \in Users /\ Claimant(p)' => Claimant(p) /\ proc'[p].epoch = proc[p].epoch,
           p \in Users /\ proc[p].pc \in Placed \cup {"idle", "cancel"}
             => proc'[p].pc \in Placed \cup {"idle", "cancel"}
    PROVE  RelayInv'
<1>1. \A g \in Gens : health'[g].inst = health[g].inst
  BY DEF Mild, Same
<1>2. Respects(p)
  BY <1>1 DEF Respects
<1>3. Counted' /\ Unshared' /\ Watching' /\ \A q \in Procs : InOrder(q)'
  BY <1>2, StepKeeps
<1>4. Installed'
  BY DEF RelayInv, Installed
<1>5. Accounted'
  BY <1>1, AccountedKeeps
<1>6. RuleLeased'
  BY DEF RelayInv, RuleLeased
<1>7. Fenced'
  <2>1. slot.server.gen # 0 => slot.server.gen \in Gens
    BY SharedFields DEF RelayInv, Gens
  <2>2. slot.server.gen = 0 => slot.server = NoListener
    BY DEF RelayInv, Installed
  <2> QED BY <2>1, <2>2, FencedKeeps
<1> QED BY <1>3, <1>4, <1>5, <1>6, <1>7 DEF RelayInv

(***************************************************************************)
(* Steps that walk on                                                      *)
(***************************************************************************)

\* Nothing that processes share changes, but for mild marks in health records.
Calm ==
    /\ UNCHANGED <<epoch, generation, slot, lease, live, rule, watch, revision>>
    /\ health' \in [Gens -> Health] /\ \A g \in Gens : Mild(health[g], health'[g])
    /\ events' \in Seq(Event) /\ config' \in Settings
    /\ spent' \in [DOMAIN Bounds -> Nat] /\ spent'.requests = spent.requests

LEMMA CalmType ==
    ASSUME RelayInv, NEW p \in Procs, Others(p), Calm,
           gate' \in Users \cup {Nobody}, lifecycle' \in Procs \cup {Nobody, Watcher}
    PROVE  TypeOK'
<1>1. TypeOK
  BY DEF RelayInv
<1> QED BY <1>1, TypeParts, TypeKeeps DEF Calm

LEMMA CalmLeave ==
    ASSUME RelayInv, NEW p \in Procs, Leave(p), Calm, proc[p].pc # "store"
    PROVE  RelayInv'
<1>1. /\ Others(p) /\ Locks(p) /\ proc'[p] = Idle
      /\ gate' \in Users \cup {Nobody} /\ lifecycle' \in Procs \cup {Nobody, Watcher}
  BY LeaveFacts DEF RelayInv
<1>2. TypeOK'
  BY <1>1, CalmType
<1>3. InOrder(p)' /\ ~Claimant(p)' /\ proc'[p].pc = "idle"
  BY <1>1, <1>2, IdleInOrder
<1> QED BY <1>1, <1>2, <1>3, WalkKeeps DEF Calm

LEMMA CalmStep ==
    ASSUME RelayInv, NEW p \in Procs, Others(p), Locks(p), Calm, proc[p].pc # "store",
           gate' \in Users \cup {Nobody}, lifecycle' \in Procs \cup {Nobody, Watcher},
           InOrder(p)',
           p \in Users /\ Claimant(p)' => Claimant(p) /\ proc'[p].epoch = proc[p].epoch,
           p \in Users /\ proc[p].pc \in Placed \cup {"idle", "cancel"}
             => proc'[p].pc \in Placed \cup {"idle", "cancel"}
    PROVE  RelayInv'
<1>1. TypeOK'
  BY CalmType
<1> QED BY <1>1, WalkKeeps DEF Calm

LEMMA StayCalm ==
    ASSUME RelayInv, UNCHANGED <<epoch, generation, slot, lease, health, live, rule, watch,
                                 revision, events, config, spent>>
    PROVE  Calm
<1>1. TypeOK
  BY DEF RelayInv
<1> QED BY <1>1, TypeParts, MildRefl DEF Calm

LEMMA SpendCalm ==
    ASSUME RelayInv, NEW b \in DOMAIN Bounds \ {"requests"}, Spend(b),
           UNCHANGED <<epoch, generation, slot, lease, health, live, rule, watch,
                       revision, events, config>>
    PROVE  Calm
<1>1. TypeOK
  BY DEF RelayInv
<1> QED BY <1>1, TypeParts, SpendFacts, MildRefl DEF Calm

LEMMA BoundNames ==
    {"failures", "rebinds", "media", "changes"} \subseteq DOMAIN Bounds \ {"requests"}
BY DEF Bounds

\* A user's record r that replaces its locals, with the locks it changes.
LEMMA Replaced ==
    ASSUME TypeOK, NEW p \in Procs, NEW r \in Proc, proc' = [proc EXCEPT ![p] = r]
    PROVE  Others(p) /\ proc'[p] = r
BY TypeParts DEF Others

\* Taking a lock that is free, or giving back one's own, takes none from another.
LEMMA FreeLocks ==
    ASSUME NEW p \in Procs,
           gate' = gate \/ (gate \in {Nobody, p} /\ gate' \in {Nobody, p}),
           lifecycle' = lifecycle \/ (lifecycle \in {Nobody, p} /\ lifecycle' \in {Nobody, p})
    PROVE  Locks(p)
<1>1. Nobody # Watcher /\ \A q \in Procs : q # Nobody /\ q # Watcher
  BY RelayAssumption DEF Nobody, Watcher
<1>2. \A q \in Users : q # Nobody
  BY <1>1 DEF Procs
<1> QED BY <1>1, <1>2 DEF Locks

\* r is u's record at another place of the same request.
Onward(u, r) ==
    /\ r.op = proc[u].op /\ r.epoch = proc[u].epoch /\ r.gen = proc[u].gen
    /\ r.intent = proc[u].intent

UnderGate == {"validate", "finish", "commit", "restart"}

\* A request that walks on, before it builds: it may take a lock that is free.
LEMMA WalksOn ==
    ASSUME RelayInv, NEW u \in Users, NEW r \in Proc, proc' = [proc EXCEPT ![u] = r],
           Onward(u, r), Calm,
           gate' = gate \/ (gate = Nobody /\ gate' = u),
           lifecycle' = lifecycle \/ (lifecycle = Nobody /\ lifecycle' = u),
           \/ /\ proc[u].pc = "resolve" \/ (proc[u].pc = "gate" /\ proc[u].op = "start")
              /\ r.pc \in {"resolve", "cancel", "install"}
           \/ proc[u].pc = "install" /\ r.pc = "cancel"
           \/ proc[u].pc = "lifecycle" /\ r.pc = "take" /\ lifecycle' = u
           \/ /\ proc[u].pc = "gate" /\ proc[u].op = "stop"
              /\ r.pc = "finish" /\ gate' = u
           \/ /\ proc[u].pc \in {"gate"} \cup UnderGate /\ proc[u].op \in Transactions
              /\ r.pc \in UnderGate /\ gate' = u
           \/ /\ proc[u].pc = "validate" /\ proc[u].intent = NoIntent
              /\ proc[u].op \in Transactions /\ r.pc = "claim"
    PROVE  RelayInv'
<1>1. TypeOK /\ u \in Procs /\ InOrder(u) /\ u # Supervisor
  BY RelayAssumption DEF RelayInv, Procs
<1>2. Others(u) /\ proc'[u] = r
  BY <1>1, Replaced
<1>3. gate' \in Users \cup {Nobody} /\ lifecycle' \in Procs \cup {Nobody, Watcher}
  BY <1>1, TypeParts
<1>4. Locks(u)
  BY <1>1, FreeLocks
<1>5. UNCHANGED <<epoch, generation, slot, lease, live>>
  BY DEF Calm
<1>6. GenKnown(u)'
  BY <1>1, <1>2, <1>5 DEF Onward, InOrder, GenKnown, Placed, Building, Recovery, UnderGate
<1>7. Holding(u)' /\ Alone(u)'
  BY <1>1, <1>2, <1>5 DEF InOrder, Holding, Alone, Building, UnderGate, Onward, Transactions
<1>8. Prevails(u)'
  BY <1>1, <1>2, <1>5 DEF Onward, InOrder, Prevails, Started, Stopped, Placed, Building,
                          UnderGate, Transactions
<1>9. OwnStop(u)'
  BY <1>1, <1>2 DEF Onward, InOrder, OwnStop, UnderGate, Transactions
<1>10. Claimant(u)' => Claimant(u) /\ r.epoch = proc[u].epoch
  BY <1>2 DEF Onward, Claimant, Placed, Building, UnderGate, Transactions
<1>11. proc[u].pc \in Placed \cup {"idle", "cancel"} => r.pc \in Placed \cup {"idle", "cancel"}
  BY DEF Placed, Building, UnderGate
<1>12. proc[u].pc # "store"
  BY DEF UnderGate
<1> QED BY <1>1, <1>2, <1>3, <1>4, <1>6, <1>7, <1>8, <1>9, <1>10, <1>11, <1>12, CalmStep
        DEF InOrder

LEMMA StartGateKeeps ==
    ASSUME RelayInv, NEW u \in Users, StartGate(u)
    PROVE  RelayInv'
<1>1. TypeOK /\ u \in Procs /\ proc[u].pc = "gate" /\ proc[u].op = "start" /\ gate = Nobody
      /\ Calm
  BY StayCalm DEF RelayInv, Procs, StartGate
<1>2. CASE Leave(u)
  BY <1>1, <1>2, CalmLeave
<1>3. CASE ~Leave(u)
  <2> DEFINE r == [proc[u] EXCEPT !.pc = IF config.enabled THEN "resolve" ELSE "cancel",
                                  !.preserve = proc[u].preserve /\ config.enabled,
                                  !.want = config]
  <2>1. gate' = u /\ lifecycle' = lifecycle /\ proc' = [proc EXCEPT ![u] = r]
    BY <1>3 DEF StartGate
  <2>2. proc[u] \in Proc /\ config \in Settings /\ {"resolve", "cancel"} \subseteq Pcs
        /\ (proc[u].preserve /\ config.enabled) \in BOOLEAN
    BY <1>1, ProcFields, TypeParts DEF Pcs
  <2>3. r \in Proc /\ r.pc \in {"resolve", "cancel"} /\ Onward(u, r)
    BY <2>2 DEF Proc, Onward
  <2> HIDE DEF r
  <2> QED BY <1>1, <2>1, <2>3, WalksOn
<1> QED BY <1>2, <1>3

\* A step that only moves on.
LEMMA Moves ==
    ASSUME RelayInv, NEW u \in Users, NEW pc \in Pcs, Goto(u, pc)
    PROVE  /\ At(proc[u], pc) \in Proc /\ proc' = [proc EXCEPT ![u] = At(proc[u], pc)]
           /\ At(proc[u], pc).pc = pc /\ Onward(u, At(proc[u], pc))
           /\ UNCHANGED <<gate, lifecycle>>
<1>1. proc[u] \in Proc
  BY ProcFields DEF RelayInv, Procs
<1> QED BY <1>1, AtFields DEF Goto, At, Onward

LEMMA ResolvedScope ==
    ASSUME TypeOK, NEW s \in Resolved
    PROVE  s \in Scopes
BY SharedFields DEF Resolved, Scopes, Unknown

LEMMA ResolveKeeps ==
    ASSUME RelayInv, NEW u \in Users, Resolve(u)
    PROVE  RelayInv'
<1>1. TypeOK /\ u \in Procs /\ proc[u].pc = "resolve" /\ InOrder(u) /\ "cancel" \in Pcs
  BY DEF RelayInv, Procs, Resolve, Pcs
<1>2. Calm
  BY StayCalm, SpendCalm, BoundNames DEF Resolve
<1>4. CASE Goto(u, "cancel")
  <2> DEFINE r == At(proc[u], "cancel")
  <2>1. r \in Proc /\ proc' = [proc EXCEPT ![u] = r] /\ r.pc = "cancel" /\ Onward(u, r)
        /\ UNCHANGED <<gate, lifecycle>>
    BY <1>1, <1>4, Moves
  <2> HIDE DEF r
  <2> QED BY <1>1, <1>2, <2>1, WalksOn
<1>5. ASSUME NEW s \in Resolved,
             proc' = [proc EXCEPT ![u].pc = "install", ![u].scope = s],
             UNCHANGED <<gate, lifecycle>>
      PROVE  RelayInv'
  <2> DEFINE r == [proc[u] EXCEPT !.pc = "install", !.scope = s]
  <2>1. proc[u] \in Proc /\ s \in Scopes /\ "install" \in Pcs
    BY <1>1, ProcFields, ResolvedScope DEF Pcs
  <2>2. r \in Proc /\ r.pc = "install" /\ Onward(u, r) /\ proc' = [proc EXCEPT ![u] = r]
    BY <1>5, <2>1 DEF Proc, Onward
  <2> HIDE DEF r
  <2> QED BY <1>1, <1>2, <1>5, <2>2, WalksOn
<1> QED BY <1>4, <1>5 DEF Resolve

LEMMA StartLifecycleKeeps ==
    ASSUME RelayInv, NEW u \in Users, StartLifecycle(u)
    PROVE  RelayInv'
<1>1. TypeOK /\ u \in Procs /\ proc[u].pc = "lifecycle" /\ lifecycle = Nobody /\ Calm
  BY StayCalm DEF RelayInv, Procs, StartLifecycle
<1>2. CASE Leave(u)
  BY <1>1, <1>2, CalmLeave
<1>3. CASE ~Leave(u)
  <2> DEFINE r == At(proc[u], "take")
  <2>1. lifecycle' = u /\ gate' = gate /\ proc' = [proc EXCEPT ![u] = r]
    BY <1>3 DEF StartLifecycle, At
  <2>2. proc[u] \in Proc /\ "take" \in Pcs
    BY <1>1, ProcFields DEF Pcs
  <2>3. r \in Proc /\ r.pc = "take" /\ Onward(u, r)
    BY <2>2, AtFields DEF Onward
  <2> HIDE DEF r
  <2> QED BY <1>1, <2>1, <2>3, WalksOn
<1> QED BY <1>2, <1>3

LEMMA StopGateKeeps ==
    ASSUME RelayInv, NEW u \in Users, StopGate(u)
    PROVE  RelayInv'
<1>1. TypeOK /\ u \in Procs /\ proc[u].pc = "gate" /\ proc[u].op = "stop" /\ gate = Nobody
      /\ Calm
  BY StayCalm DEF RelayInv, Procs, StopGate
<1>2. CASE Leave(u)
  BY <1>1, <1>2, CalmLeave
<1>3. CASE ~Leave(u)
  <2> DEFINE r == At(proc[u], "finish")
  <2>1. gate' = u /\ lifecycle' = lifecycle /\ proc' = [proc EXCEPT ![u] = r]
    BY <1>3 DEF StopGate, At
  <2>2. proc[u] \in Proc /\ "finish" \in Pcs
    BY <1>1, ProcFields DEF Pcs
  <2>3. r \in Proc /\ r.pc = "finish" /\ Onward(u, r)
    BY <2>2, AtFields DEF Onward
  <2> HIDE DEF r
  <2> QED BY <1>1, <2>1, <2>3, WalksOn
<1> QED BY <1>2, <1>3

LEMMA TxGateKeeps ==
    ASSUME RelayInv, NEW u \in Users, TxGate(u)
    PROVE  RelayInv'
<1>1. TypeOK /\ u \in Procs /\ proc[u].pc = "gate" /\ proc[u].op \in Transactions
      /\ gate = Nobody /\ Calm
  BY StayCalm DEF RelayInv, Procs, TxGate, Transactions
<1>2. CASE Leave(u)
  BY <1>1, <1>2, CalmLeave
<1>3. CASE ~Leave(u)
  <2> DEFINE r == At(proc[u], "validate")
  <2>1. gate' = u /\ lifecycle' = lifecycle /\ proc' = [proc EXCEPT ![u] = r]
    BY <1>3 DEF TxGate, At
  <2>2. proc[u] \in Proc /\ "validate" \in Pcs
    BY <1>1, ProcFields DEF Pcs
  <2>3. r \in Proc /\ r.pc = "validate" /\ Onward(u, r)
    BY <2>2, AtFields DEF Onward
  <2> HIDE DEF r
  <2> QED BY <1>1, <2>1, <2>3, WalksOn DEF UnderGate
<1> QED BY <1>2, <1>3

\* A transaction under the gate that goes for its restart.
LEMMA RestartKeeps ==
    ASSUME RelayInv, NEW u \in Users, Calm, NEW c \in Settings,
           proc[u].pc \in {"validate", "commit"}, proc[u].op \in Transactions,
           proc' = [proc EXCEPT ![u].pc = "restart", ![u].want = c],
           UNCHANGED <<gate, lifecycle>>
    PROVE  RelayInv'
<1>1. TypeOK /\ u \in Procs /\ InOrder(u) /\ proc[u] \in Proc /\ "restart" \in Pcs
  BY ProcFields DEF RelayInv, Procs, Pcs
<1> DEFINE r == [proc[u] EXCEPT !.pc = "restart", !.want = c]
<1>2. r \in Proc /\ r.pc = "restart" /\ Onward(u, r) /\ proc' = [proc EXCEPT ![u] = r]
  BY <1>1 DEF Proc, Onward
<1>3. gate = u
  BY <1>1 DEF InOrder, Holding
<1> HIDE DEF r
<1> QED BY <1>1, <1>2, <1>3, WalksOn DEF UnderGate

LEMMA RestoreKeeps ==
    ASSUME RelayInv, NEW u \in Users, Calm, Restore(u),
           proc[u].pc \in {"validate", "commit"}, proc[u].op \in Transactions
    PROVE  RelayInv'
<1>1. config \in Settings /\ u \in Procs
  BY TypeParts DEF RelayInv, Procs
<1>2. CASE Leave(u)
  BY <1>1, <1>2, CalmLeave
<1> QED BY <1>1, <1>2, RestartKeeps DEF Restore

\* Only a transaction validates, commits and restarts.
LEMMA IsTransaction ==
    ASSUME RelayInv, NEW u \in Users,
           proc[u].pc \in {"capture", "claim", "validate", "commit", "restart"}
    PROVE  proc[u].op \in Transactions
<1>1. proc[u].op \in {"start", "stop", "apply", "switch"} /\ InOrder(u)
  BY ProcFields DEF RelayInv, Procs
<1> QED BY <1>1 DEF InOrder, OwnStop, Transactions

LEMMA TxValidateKeeps ==
    ASSUME RelayInv, NEW u \in Users, TxValidate(u)
    PROVE  RelayInv'
<1>1. TypeOK /\ u \in Procs /\ proc[u].pc = "validate" /\ InOrder(u)
      /\ proc[u].op \in Transactions
  BY IsTransaction DEF RelayInv, Procs, TxValidate
<1>2. Calm
  BY StayCalm, SpendCalm, BoundNames DEF TxValidate
<1>3. gate = u
  BY <1>1 DEF InOrder, Holding
<1>4. CASE Restore(u)
  BY <1>1, <1>2, <1>4, RestoreKeeps
<1>5. ASSUME NEW pc \in {"finish", "claim", "commit"}, Goto(u, pc),
             pc = "claim" => proc[u].intent = NoIntent
      PROVE  RelayInv'
  <2> DEFINE r == At(proc[u], pc)
  <2>1. pc \in Pcs
    BY DEF Pcs
  <2>2. r \in Proc /\ proc' = [proc EXCEPT ![u] = r] /\ r.pc = pc /\ Onward(u, r)
        /\ UNCHANGED <<gate, lifecycle>>
    BY <1>5, <2>1, Moves
  <2> HIDE DEF r
  <2> QED BY <1>1, <1>2, <1>3, <1>5, <2>2, WalksOn DEF UnderGate
<1>6. CASE ~Restore(u)
  <2>1. PICK pc \in {"finish", "claim", "commit"} :
               Goto(u, pc) /\ (pc = "claim" => proc[u].intent = NoIntent)
    BY <1>6 DEF TxValidate
  <2> QED BY <1>5, <2>1
<1> QED BY <1>4, <1>6

LEMMA ProspectiveTyped ==
    ASSUME TypeOK, NEW u \in Users, NEW c \in Settings
    PROVE  Prospective(u, c) \in Settings
<1>1. proc[u].upd \in Settings
  BY ProcFields DEF Procs
<1> QED BY <1>1 DEF Prospective, Settings

LEMMA TxCommitKeeps ==
    ASSUME RelayInv, NEW u \in Users, TxCommit(u)
    PROVE  RelayInv'
<1> DEFINE new == Prospective(u, config)
<1>1. TypeOK /\ u \in Procs /\ proc[u].pc = "commit" /\ proc[u].op \in Transactions
      /\ config \in Settings
  BY IsTransaction, TypeParts DEF RelayInv, Procs, TxCommit
<1>2. new \in Settings
  BY <1>1, ProspectiveTyped
<1>3. CASE Spend("failures") /\ Restore(u) /\ UNCHANGED config
  <2>1. Calm
    BY <1>3, SpendCalm, BoundNames DEF TxCommit
  <2> QED BY <1>1, <1>3, <2>1, RestoreKeeps
<1>4. CASE /\ config' = new /\ UNCHANGED spent
           /\ \/ /\ proc' = [proc EXCEPT ![u].pc = "restart", ![u].want = new]
                 /\ UNCHANGED <<gate, lifecycle>>
              \/ Leave(u)
  <2>1. Calm
    BY <1>1, <1>2, <1>4, TypeParts, MildRefl DEF TxCommit, Calm
  <2> HIDE DEF new
  <2> QED BY <1>1, <1>2, <1>4, <2>1, RestartKeeps, CalmLeave
<1> QED BY <1>3, <1>4 DEF TxCommit

LEMMA TxCaptureKeeps ==
    ASSUME RelayInv, NEW u \in Users, TxCapture(u)
    PROVE  RelayInv'
<1>1. TypeOK /\ u \in Procs /\ proc[u].pc = "capture" /\ InOrder(u) /\ Calm /\ u # Supervisor
      /\ proc[u].op \in Transactions
  BY StayCalm, IsTransaction, RelayAssumption DEF RelayInv, Procs, TxCapture
<1>2. CASE Leave(u)
  BY <1>1, <1>2, CalmLeave
<1>3. CASE ~Leave(u)
  <2> DEFINE r == [proc[u] EXCEPT !.epoch = epoch,
                     !.pc = IF MustStop(u, proc[u].want, slot.desired) THEN "claim" ELSE "gate"]
  <2>1. proc' = [proc EXCEPT ![u] = r] /\ UNCHANGED <<gate, lifecycle>>
    BY <1>3 DEF TxCapture
  <2>2. proc[u] \in Proc /\ {"claim", "gate"} \subseteq Pcs /\ epoch \in Nat
    BY <1>1, ProcFields, TypeParts DEF Pcs
  <2>3. /\ r \in Proc /\ r.pc \in {"claim", "gate"} /\ r.epoch = epoch /\ r.gen = proc[u].gen
        /\ r.op = proc[u].op /\ r.intent = proc[u].intent
    BY <2>2 DEF Proc
  <2> HIDE DEF r
  <2>4. Others(u) /\ proc'[u] = r
    BY <1>1, <2>1, <2>3, Replaced
  <2>5. Locks(u) /\ gate' \in Users \cup {Nobody} /\ lifecycle' \in Procs \cup {Nobody, Watcher}
    BY <1>1, <2>1, FreeLocks, TypeParts
  <2>6. UNCHANGED <<epoch, generation, slot, lease, live>>
    BY <1>1 DEF Calm
  <2>7. InOrder(u)'
    <3>1. GenKnown(u)' /\ Holding(u)' /\ Alone(u)'
      BY <1>1, <2>3, <2>4, <2>6 DEF InOrder, GenKnown, Holding, Alone, Placed, Building
    <3>2. Prevails(u)'
      BY <1>1, <2>2, <2>3, <2>4, <2>6
      DEF Prevails, Started, Stopped, Placed, Building, Transactions
    <3>3. OwnStop(u)'
      BY <1>1, <2>3, <2>4 DEF InOrder, OwnStop, Transactions
    <3> QED BY <3>1, <3>2, <3>3 DEF InOrder
  <2>8. ~Claimant(u)' /\ proc[u].pc \notin Placed
    BY <1>1, <2>3, <2>4 DEF Claimant, Placed, Building, Transactions
  <2> QED BY <1>1, <2>4, <2>5, <2>7, <2>8, CalmStep
<1> QED BY <1>2, <1>3

(***************************************************************************)
(* Requests and claims                                                     *)
(***************************************************************************)

\* A step that changes no more than u's locals, the epoch and the count of requests.
LEMMA ClaimKeeps ==
    ASSUME RelayInv, NEW u \in Users, NEW r \in Proc, proc' = [proc EXCEPT ![u] = r],
           UNCHANGED <<generation, slot, lease, health, live, rule, gate, lifecycle,
                       events, config, revision, watch>>,
           spent' \in [DOMAIN Bounds -> Nat], epoch' \in {epoch, epoch + 1},
           r.epoch <= epoch', r.gen = 0 \/ r.gen = proc[u].gen, proc[u].pc # "store",
           r.pc \in {"publish", "unpublish"} => r.epoch = epoch + 1,
           \/ r.pc \in {"publish", "unpublish"} /\ epoch' = epoch + 1
           \/ r.pc = "capture" /\ r.op \in Transactions,
           OwnStop(u)', Holding(u)', Counted'
    PROVE  RelayInv'
<1>1. TypeOK /\ u \in Procs /\ InOrder(u) /\ u # Supervisor
  BY RelayAssumption DEF RelayInv, Procs
<1>2. Others(u) /\ proc'[u] = r
  BY <1>1, Replaced
<1>3. Locks(u) /\ epoch' \in Nat /\ epoch \in Nat /\ generation \in Nat /\ proc[u].gen \in Nat
  BY <1>1, FreeLocks, SharedFields, ProcFields
<1>4. TypeOK'
  BY <1>1, <1>2, <1>3, TypeParts, TypeKeeps
<1>5. Respects(u)
  BY DEF Respects
<1>6. GenKnown(u)'
  BY <1>1, <1>2, <1>3 DEF InOrder, GenKnown, Placed, Building
<1>7. Alone(u)' /\ Prevails(u)'
  BY <1>2, <1>3 DEF Alone, Prevails, Started, Stopped, Placed, Building, Transactions
<1>8. \A q \in Procs : InOrder(q)'
  <2>1. \A q \in Procs : q # u => InOrder(q)'
    BY <1>1, <1>2, <1>3, <1>4, <1>5, OthersInOrder
  <2> QED BY <1>6, <1>7, <2>1 DEF InOrder
<1>9. Unshared'
  <2>1. Claimant(u)' => r.pc \in {"publish", "unpublish"}
    BY <1>2 DEF Claimant, Placed, Building, Transactions
  <2> QED BY <1>1, <1>2, <2>1, UnsharedKeeps
<1>10. Installed' /\ RuleLeased' /\ Fenced' /\ Watching'
  BY DEF RelayInv, Installed, RuleLeased, Fenced, Watching
<1>11. Accounted'
  BY <1>1, <1>2, AccountedKeeps
<1> QED BY <1>4, <1>8, <1>9, <1>10, <1>11 DEF RelayInv

\* A new request is counted before it can install anything.
LEMMA RequestCounted ==
    ASSUME RelayInv, NEW u \in Users, NEW r \in Proc, proc' = [proc EXCEPT ![u] = r],
           proc[u].pc = "idle", Spend("requests"), generation' = generation
    PROVE  Counted'
<1>1. TypeOK /\ u \in Procs /\ Counted /\ proc \in [Procs -> Proc]
  BY TypeParts DEF RelayInv, Procs
<1>2. Pending' \subseteq Pending \cup {u}
  BY <1>1 DEF Pending, Procs
<1>3. /\ IsFiniteSet(Pending \cup {u}) /\ Cardinality(Pending) \in Nat
      /\ Cardinality(Pending \cup {u}) <= Cardinality(Pending) + 1
  <2>1. IsFiniteSet(Pending)
    BY <1>1 DEF Counted
  <2>2. Cardinality(Pending) \in Nat
    BY <2>1, FS_CardinalityType
  <2>3. /\ IsFiniteSet(Pending \cup {u})
        /\ Cardinality(Pending \cup {u}) =
             IF u \in Pending THEN Cardinality(Pending) ELSE Cardinality(Pending) + 1
    BY <2>1, FS_AddElement
  <2> QED BY <2>2, <2>3
<1>4. /\ IsFiniteSet(Pending') /\ Cardinality(Pending') <= Cardinality(Pending \cup {u})
      /\ Cardinality(Pending') \in Nat /\ Cardinality(Pending \cup {u}) \in Nat
  <2>1. IsFiniteSet(Pending') /\ Cardinality(Pending') <= Cardinality(Pending \cup {u})
    BY <1>2, <1>3, FS_Subset
  <2> QED BY <1>3, <2>1, FS_CardinalityType
<1>5. spent'.requests = spent.requests + 1 /\ spent'.requests <= MaxRequests
  BY <1>1, SpendFacts DEF Bounds
<1>6. generation \in Nat /\ spent.requests \in Nat
  BY <1>1, SharedFields
<1>7. generation + Cardinality(Pending) <= spent.requests
  BY <1>1 DEF Counted
<1> QED BY <1>3, <1>4, <1>5, <1>6, <1>7 DEF Counted

LEMMA RequestKeeps ==
    ASSUME RelayInv, NEW u \in Users, StartRequest(u) \/ StopRequest(u)
    PROVE  RelayInv'
<1> DEFINE pc == IF StartRequest(u) THEN "publish" ELSE "unpublish"
           op == IF StartRequest(u) THEN "start" ELSE "stop"
           r == [Idle EXCEPT !.pc = pc, !.op = op, !.epoch = epoch + 1]
<1>1. /\ TypeOK /\ u \in Procs /\ epoch \in Nat /\ proc[u].pc = "idle" /\ Spend("requests")
      /\ epoch' = epoch + 1 /\ proc' = [proc EXCEPT ![u] = r]
      /\ UNCHANGED <<generation, slot, lease, health, live, rule, gate, lifecycle,
                     events, config, revision, watch>>
  BY SharedFields DEF RelayInv, Procs, StartRequest, StopRequest
<1>2. /\ r \in Proc /\ r.pc = pc /\ r.op = op /\ r.epoch = epoch + 1 /\ r.gen = 0
      /\ r.intent = NoIntent
  <2>1. /\ Idle \in Proc /\ pc \in Pcs /\ op \in {"start", "stop", "apply", "switch"}
        /\ epoch + 1 \in Nat /\ Idle.gen = 0 /\ Idle.intent = NoIntent
    BY <1>1, IdleTyped DEF Pcs, Idle
  <2> HIDE DEF pc, op
  <2> QED BY <2>1 DEF Proc
<1>3. (pc = "publish" /\ op = "start") \/ (pc = "unpublish" /\ op = "stop")
  OBVIOUS
<1> HIDE DEF r, pc, op
<1>4. Counted'
  BY <1>1, <1>2, RequestCounted
<1>5. proc'[u] = r
  BY <1>1, <1>2, Replaced
<1>6. OwnStop(u)' /\ Holding(u)'
  BY <1>2, <1>3, <1>5 DEF OwnStop, Holding, Transactions, Building
<1>7. spent' \in [DOMAIN Bounds -> Nat]
  BY <1>1, SpendFacts DEF Bounds
<1>8. epoch' \in {epoch, epoch + 1} /\ r.epoch <= epoch' /\ proc[u].pc # "store"
  BY <1>1, <1>2
<1> QED BY <1>1, <1>2, <1>3, <1>4, <1>6, <1>7, <1>8, ClaimKeeps

LEMMA TxRequestKeeps ==
    ASSUME RelayInv, NEW u \in Users, TxRequest(u)
    PROVE  RelayInv'
<1>1. PICK op \in Transactions, upd \in Settings :
         proc' = [proc EXCEPT ![u] = [Idle EXCEPT !.pc = "capture", !.op = op,
                                        !.upd = upd, !.want = config]]
  BY DEF TxRequest, Transactions
<1> DEFINE r == [Idle EXCEPT !.pc = "capture", !.op = op, !.upd = upd, !.want = config]
<1>2. /\ TypeOK /\ u \in Procs /\ epoch \in Nat /\ proc[u].pc = "idle" /\ Spend("requests")
      /\ config \in Settings
      /\ UNCHANGED <<epoch, generation, slot, lease, health, live, rule, gate, lifecycle,
                     events, config, revision, watch>>
  BY SharedFields, TypeParts DEF RelayInv, Procs, TxRequest
<1>3. /\ r \in Proc /\ r.pc = "capture" /\ r.op = op /\ r.epoch = 0 /\ r.gen = 0
      /\ r.intent = NoIntent
  <2>1. /\ Idle \in Proc /\ "capture" \in Pcs /\ op \in {"start", "stop", "apply", "switch"}
        /\ Idle.epoch = 0 /\ Idle.gen = 0 /\ Idle.intent = NoIntent
    BY IdleTyped DEF Pcs, Idle, Transactions
  <2> QED BY <1>2, <2>1 DEF Proc
<1>4. proc' = [proc EXCEPT ![u] = r]
  BY <1>1
<1> HIDE DEF r
<1>5. Counted'
  BY <1>2, <1>3, <1>4, RequestCounted
<1>6. proc'[u] = r
  BY <1>2, <1>3, <1>4, Replaced
<1>7. OwnStop(u)' /\ Holding(u)'
  BY <1>3, <1>6 DEF OwnStop, Holding, Transactions, Building
<1>8. spent' \in [DOMAIN Bounds -> Nat]
  BY <1>2, SpendFacts DEF Bounds
<1>9. epoch' \in {epoch, epoch + 1} /\ r.epoch <= epoch' /\ proc[u].pc # "store"
  BY <1>2, <1>3
<1> QED BY <1>2, <1>3, <1>4, <1>5, <1>7, <1>8, <1>9, ClaimKeeps

LEMMA TxClaimKeeps ==
    ASSUME RelayInv, NEW u \in Users, TxClaim(u)
    PROVE  RelayInv'
<1>1. /\ TypeOK /\ u \in Procs /\ InOrder(u) /\ proc[u].pc \in {"claim", "restart"}
      /\ proc[u].op \in Transactions /\ epoch \in Nat /\ proc[u] \in Proc
  BY IsTransaction, SharedFields, ProcFields DEF RelayInv, Procs, TxClaim
<1>2. CASE Leave(u) /\ UNCHANGED epoch
  <2>1. Calm
    BY <1>2, StayCalm DEF TxClaim
  <2> QED BY <1>1, <1>2, <2>1, CalmLeave
<1>3. CASE Claims(u) /\ epoch' = epoch + 1
  <2> DEFINE r == [proc[u] EXCEPT !.epoch = epoch + 1,
                     !.pc = IF proc[u].pc = "claim" THEN "unpublish" ELSE "publish"]
  <2>1. /\ proc' = [proc EXCEPT ![u] = r]
        /\ UNCHANGED <<generation, slot, lease, health, live, rule, gate, lifecycle,
                       events, config, revision, watch, spent>>
    BY <1>3 DEF TxClaim, Claims
  <2>2. /\ r \in Proc /\ r.epoch = epoch + 1 /\ r.gen = proc[u].gen /\ r.op = proc[u].op
        /\ r.intent = proc[u].intent
        /\ r.pc = IF proc[u].pc = "claim" THEN "unpublish" ELSE "publish"
    <3>1. {"unpublish", "publish"} \subseteq Pcs /\ epoch + 1 \in Nat
      BY <1>1 DEF Pcs
    <3> QED BY <1>1, <3>1 DEF Proc
  <2> HIDE DEF r
  <2>3. proc'[u] = r /\ Others(u)
    BY <1>1, <2>1, <2>2, Replaced
  <2>4. Holding(u)'
    BY <1>1, <2>1, <2>2, <2>3 DEF InOrder, Holding, Building
  <2>5. OwnStop(u)'
    <3>1. proc[u].intent.epoch \in Nat /\ epoch = proc[u].epoch
      BY <1>1, <1>3, ProcFields DEF Claims, IntentRec
    <3>2. proc[u].pc = "restart" /\ proc[u].intent # NoIntent
          => proc[u].epoch = proc[u].intent.epoch
      BY <1>1, <3>1 DEF InOrder, OwnStop
    <3>3. proc[u].pc = "claim" => proc[u].intent = NoIntent
      BY <1>1 DEF InOrder, OwnStop
    <3> QED BY <1>1, <2>2, <2>3, <3>1, <3>2, <3>3 DEF OwnStop, Transactions
  <2>6. Counted'
    BY <1>1, <2>1, <2>3, CountedKeeps DEF RelayInv, Placed, Building
  <2>7. /\ epoch' \in {epoch, epoch + 1} /\ r.epoch <= epoch' /\ proc[u].pc # "store"
        /\ spent' \in [DOMAIN Bounds -> Nat]
    BY <1>1, <1>3, <2>1, <2>2, TypeParts
  <2> QED BY <1>3, <2>1, <2>2, <2>4, <2>5, <2>6, <2>7, ClaimKeeps
<1> QED BY <1>2, <1>3 DEF TxClaim

(***************************************************************************)
(* Publishing an intent                                                    *)
(***************************************************************************)

LEMMA StartPublishKeeps ==
    ASSUME RelayInv, NEW u \in Users, StartPublish(u)
    PROVE  RelayInv'
<1>1. /\ TypeOK /\ u \in Procs /\ InOrder(u) /\ proc[u].pc = "publish" /\ epoch \in Nat
      /\ proc[u] \in Proc /\ u # Supervisor /\ proc[u].op \in {"start", "stop", "apply", "switch"}
  BY SharedFields, ProcFields, RelayAssumption DEF RelayInv, Procs, StartPublish
<1>2. CASE Leave(u) /\ UNCHANGED slot
  <2>1. Calm
    BY <1>2, StayCalm DEF StartPublish
  <2> QED BY <1>1, <1>2, <2>1, CalmLeave
<1>3. CASE epoch = proc[u].epoch /\ ~(Leave(u) /\ UNCHANGED slot)
  <2> DEFINE ready == slot.desired /\ slot.spec.set /\ slot.health # 0
             r == [proc[u] EXCEPT !.pc = IF gate = u THEN "resolve" ELSE "gate",
                                  !.preserve = ready]
  <2>1. /\ proc' = [proc EXCEPT ![u] = r]
        /\ slot' = [slot EXCEPT !.desired = TRUE, !.intent = epoch]
        /\ UNCHANGED <<epoch, generation, lease, health, live, rule, events, config,
                       revision, watch, spent, gate, lifecycle>>
    BY <1>3 DEF StartPublish
  <2>2. /\ r \in Proc /\ r.epoch = epoch /\ r.gen = proc[u].gen /\ r.op = proc[u].op
        /\ r.intent = proc[u].intent /\ r.pc = IF gate = u THEN "resolve" ELSE "gate"
    <3>1. {"resolve", "gate"} \subseteq Pcs /\ ready \in BOOLEAN
      BY DEF Pcs
    <3> HIDE DEF ready
    <3> QED BY <1>1, <1>3, <3>1 DEF Proc
  <2> HIDE DEF r, ready
  <2>3. proc'[u] = r /\ Others(u)
    BY <1>1, <2>1, <2>2, Replaced
  <2>4. Locks(u)
    BY <1>1, <2>1, FreeLocks
  <2>5. /\ slot' \in [desired : BOOLEAN, spec : SpecRec, health : 0..MaxRequests,
                      intent : Nat, server : Listener]
        /\ slot'.desired /\ slot'.health = slot.health /\ slot'.server = slot.server
    BY <1>1, <2>1, TypeParts
  <2>6. TypeOK'
    BY <1>1, <2>1, <2>3, <2>5, TypeParts, TypeKeeps
  <2>7. r.pc = "gate" => r.op = "start"
    BY <1>1, <2>2 DEF InOrder, Holding, OwnStop, Transactions
  <2>8. Claimant(u)
    BY <1>1 DEF Claimant
  <2>9. Respects(u)
    BY <1>3, <2>1, <2>5, <2>8 DEF Respects
  <2>10. InOrder(u)'
    <3>1. GenKnown(u)' /\ Holding(u)' /\ Alone(u)'
      BY <1>1, <2>1, <2>2, <2>3 DEF InOrder, GenKnown, Holding, Alone, Placed, Building
    <3>2. Prevails(u)'
      BY <1>1, <2>1, <2>2, <2>3, <2>5, <2>7 DEF Prevails, Stopped
    <3>3. OwnStop(u)'
      BY <1>1, <2>2, <2>3, <2>7 DEF InOrder, OwnStop, Transactions
    <3> QED BY <3>1, <3>2, <3>3 DEF InOrder
  <2>11. Counted' /\ Unshared' /\ Watching' /\ \A q \in Procs : InOrder(q)'
    <3>1. proc[u].pc \notin Placed \cup {"idle", "cancel"}
      BY <1>1 DEF Placed, Building
    <3> QED BY <1>1, <1>3, <2>1, <2>2, <2>3, <2>4, <2>6, <2>8, <2>9, <2>10, <3>1, StepKeeps
  <2>12. Installed' /\ RuleLeased'
    BY <2>1, <2>5 DEF RelayInv, Installed, RuleLeased
  <2>13. Fenced'
    BY <2>1, <2>5 DEF RelayInv, Fenced
  <2>14. Accounted'
    BY <1>1, <2>1, <2>3, <2>5, AccountedKeeps
  <2> QED BY <2>6, <2>11, <2>12, <2>13, <2>14 DEF RelayInv
<1> QED BY <1>2, <1>3 DEF StartPublish

\* The slot without its intent: the record of its generation, if any, is stopped.
LEMMA ClearedKeeps ==
    ASSUME RelayInv, slot' = Cleared(slot), generation' = generation,
           health' = IF slot.health = 0 THEN health
                     ELSE [health EXCEPT ![slot.health] = Stop(@)]
    PROVE  /\ slot' \in [desired : BOOLEAN, spec : SpecRec, health : 0..MaxRequests,
                         intent : Nat, server : Listener]
           /\ ~slot'.desired /\ slot'.health = 0 /\ slot'.server = slot.server
           /\ health' \in [Gens -> Health]
           /\ \A g \in Gens : Mild(health[g], health'[g])
           /\ Fenced'
<1>1. /\ slot \in [desired : BOOLEAN, spec : SpecRec, health : 0..MaxRequests,
                   intent : Nat, server : Listener]
      /\ health \in [Gens -> Health] /\ TypeOK /\ MaxRequests \in Nat
  BY TypeParts, SharedFields DEF RelayInv
<1>2. NoSpec \in SpecRec
  BY DEF NoSpec, SpecRec, Settings, Protocols, Scopes, Unknown
<1>3. /\ slot' \in [desired : BOOLEAN, spec : SpecRec, health : 0..MaxRequests,
                    intent : Nat, server : Listener]
      /\ ~slot'.desired /\ slot'.health = 0 /\ slot'.server = slot.server
  <2>1. 0 \in 0..MaxRequests /\ 0 \in Nat /\ FALSE \in BOOLEAN
    BY <1>1
  <2>2. slot' = [slot EXCEPT !.desired = FALSE, !.spec = NoSpec, !.health = 0, !.intent = 0]
    BY DEF Cleared
  <2>3. slot' \in [desired : BOOLEAN, spec : SpecRec, health : 0..MaxRequests,
                   intent : Nat, server : Listener]
    BY <1>1, <1>2, <2>1, <2>2, Zenon
  <2> QED BY <1>1, <2>2, <2>3
<1>4. slot.health # 0 => slot.health \in Gens
  BY <1>1 DEF Gens
<1>5. \A g \in Gens : /\ Stop(health[g]) \in Health /\ Mild(health[g], Stop(health[g]))
                      /\ Shut(Stop(health[g]), "srt") /\ Mild(health[g], health[g])
  BY <1>1, StopMild, MildRefl DEF Mild, Same
<1>6. health' \in [Gens -> Health] /\ \A g \in Gens : Mild(health[g], health'[g])
  BY <1>1, <1>4, <1>5
<1>7. Fenced'
  <2> SUFFICES ASSUME slot.server.gen # 0, slot.server.gen = generation
               PROVE  Shut(health'[generation], slot.server.role)
    BY <1>3 DEF Fenced
  <2>1. CASE slot.health = 0
    BY <2>1 DEF RelayInv, Fenced
  <2>2. CASE slot.health # 0
    <3>1. slot.health = generation
      BY <2>2 DEF RelayInv, Installed
    <3>2. health'[generation] = Stop(health[generation])
      BY <1>1, <1>4, <2>2, <3>1
    <3> QED BY <1>4, <1>5, <2>2, <3>1, <3>2 DEF Shut
  <2> QED BY <2>1, <2>2
<1> QED BY <1>3, <1>6, <1>7

\* A Stop captures the stored listener, whatever its generation.
LEMMA StopTargets ==
    ASSUME RelayInv
    PROVE  StopTarget \in Nat /\ slot.server.gen \in {0, StopTarget}
<1>1. slot.server.gen \in Nat /\ lease.gen \in Nat
  BY SharedFields DEF RelayInv
<1> QED BY <1>1 DEF RelayInv, Fenced, StopTarget

LEMMA StopPublishKeeps ==
    ASSUME RelayInv, NEW u \in Users, StopPublish(u)
    PROVE  RelayInv'
<1>1. /\ TypeOK /\ u \in Procs /\ InOrder(u) /\ proc[u].pc = "unpublish" /\ epoch \in Nat
      /\ proc[u] \in Proc /\ u # Supervisor /\ proc[u].op \in {"start", "stop", "apply", "switch"}
      /\ proc[u].epoch \in Nat /\ proc[u].intent.epoch \in Nat
  BY SharedFields, ProcFields, RelayAssumption DEF RelayInv, Procs, StopPublish, IntentRec
<1>2. CASE epoch # proc[u].epoch /\ UNCHANGED <<slot, health>>
  <2>1. Calm
    BY <1>2, StayCalm DEF StopPublish
  <2>2. CASE Leave(u)
    BY <1>1, <2>1, <2>2, CalmLeave
  <2>3. CASE proc[u].op = "stop" /\ Goto(u, "gate")
    <3> DEFINE r == At(proc[u], "gate")
    <3>1. "gate" \in Pcs
      BY DEF Pcs
    <3>2. r \in Proc /\ r.pc = "gate" /\ Onward(u, r) /\ UNCHANGED <<gate, lifecycle>>
          /\ proc' = [proc EXCEPT ![u] = r]
      BY <2>3, <3>1, Moves
    <3>3. proc'[u] = r /\ Others(u)
      BY <1>1, <3>2, Replaced
    <3> HIDE DEF r
    <3>4. Locks(u) /\ gate' \in Users \cup {Nobody}
          /\ lifecycle' \in Procs \cup {Nobody, Watcher}
      BY <1>1, <3>2, FreeLocks, TypeParts
    <3>5. UNCHANGED <<epoch, generation, slot, lease, live>>
      BY <2>1 DEF Calm
    <3>6. GenKnown(u)' /\ Holding(u)' /\ Alone(u)'
      BY <1>1, <2>3, <3>2, <3>3, <3>5
      DEF Onward, InOrder, GenKnown, Holding, Alone, Placed, Building, Transactions
    <3>7. Prevails(u)'
      BY <1>1, <1>2, <2>3, <3>2, <3>3, <3>5 DEF Onward, InOrder, Prevails
    <3>8. OwnStop(u)'
      BY <1>1, <2>3, <3>2, <3>3 DEF Onward, InOrder, OwnStop, Transactions
    <3>9. Claimant(u) /\ r.epoch = proc[u].epoch /\ proc[u].pc \notin Placed
      BY <1>1, <3>2 DEF Claimant, Onward, Placed, Building
    <3> QED BY <1>1, <2>1, <3>3, <3>4, <3>6, <3>7, <3>8, <3>9, CalmStep DEF InOrder
  <2> QED BY <1>2, <2>2, <2>3 DEF StopPublish
<1>3. CASE epoch = proc[u].epoch
  <2> DEFINE i == [epoch |-> epoch, target |-> StopTarget, fw |-> lease.gen,
                   was |-> slot.desired]
             r == [proc[u] EXCEPT !.pc = IF gate = u THEN "finish" ELSE "gate",
                                  !.intent = i]
  <2>1. /\ proc' = [proc EXCEPT ![u] = r]
        /\ slot' = IF slot.desired THEN Cleared(slot) ELSE slot
        /\ health' = IF slot.desired /\ slot.health # 0
                     THEN [health EXCEPT ![slot.health] = Stop(@)] ELSE health
        /\ UNCHANGED <<epoch, generation, lease, live, rule, events, config,
                       revision, watch, spent, gate, lifecycle>>
    BY <1>3 DEF StopPublish
  <2>2. i \in IntentRec /\ i.epoch = epoch /\ i.target = StopTarget /\ i.fw = lease.gen
    BY <1>1, StopTargets, SharedFields DEF IntentRec
  <2> HIDE DEF i
  <2>3. /\ r \in Proc /\ r.epoch = epoch /\ r.gen = proc[u].gen /\ r.op = proc[u].op
        /\ r.intent = i /\ r.pc = IF gate = u THEN "finish" ELSE "gate"
    <3>1. {"finish", "gate"} \subseteq Pcs
      BY DEF Pcs
    <3> QED BY <1>1, <1>3, <2>2, <3>1 DEF Proc, IntentRec
  <2> HIDE DEF r
  <2>4. proc'[u] = r /\ Others(u)
    BY <1>1, <2>1, <2>3, Replaced
  <2>5. Locks(u)
    BY <1>1, <2>1, FreeLocks
  <2>6. /\ slot' \in [desired : BOOLEAN, spec : SpecRec, health : 0..MaxRequests,
                      intent : Nat, server : Listener]
        /\ ~slot'.desired /\ slot'.health = 0 /\ slot'.server = slot.server
        /\ health' \in [Gens -> Health] /\ \A g \in Gens : Mild(health[g], health'[g])
        /\ Fenced'
    <3>1. CASE slot.desired
      <4>1. /\ slot' = Cleared(slot) /\ generation' = generation
            /\ health' = IF slot.health = 0 THEN health
                         ELSE [health EXCEPT ![slot.health] = Stop(@)]
        BY <2>1, <3>1
      <4> QED BY <4>1, ClearedKeeps
    <3>2. CASE ~slot.desired
      <4>1. Fenced /\ UNCHANGED <<slot, health, generation>>
        BY <2>1, <3>2 DEF RelayInv
      <4>2. slot.health = 0 /\ Fenced'
        BY <3>2, <4>1 DEF Fenced
      <4> QED BY <1>1, <3>2, <4>1, <4>2, TypeParts, MildRefl
    <3> QED BY <3>1, <3>2
  <2>7. TypeOK'
    BY <1>1, <2>1, <2>4, <2>6, TypeParts, TypeKeeps
  <2>8. Claimant(u) /\ proc[u].pc \notin Placed
    BY <1>1 DEF Claimant, Placed, Building
  <2>9. \A g \in Gens : health'[g].inst = health[g].inst
    BY <2>6 DEF Mild, Same
  <2>10. Respects(u)
    BY <1>3, <2>1, <2>6, <2>8, <2>9 DEF Respects
  <2>11. InOrder(u)'
    <3>1. GenKnown(u)' /\ Holding(u)' /\ Alone(u)'
      BY <1>1, <2>1, <2>3, <2>4 DEF InOrder, GenKnown, Holding, Alone, Placed, Building
    <3>2. Prevails(u)'
      BY <1>1, <2>1, <2>2, <2>3, <2>4, <2>6, StopTargets
      DEF InOrder, OwnStop, Prevails, Started, Placed, Building
    <3>3. OwnStop(u)'
      BY <1>1, <2>2, <2>3, <2>4 DEF InOrder, OwnStop, Transactions
    <3> QED BY <3>1, <3>2, <3>3 DEF InOrder
  <2>12. Counted' /\ Unshared' /\ Watching' /\ \A q \in Procs : InOrder(q)'
    BY <1>1, <1>3, <2>1, <2>3, <2>4, <2>5, <2>7, <2>8, <2>10, <2>11, StepKeeps
  <2>13. Installed' /\ RuleLeased'
    BY <2>1, <2>6 DEF RelayInv, Installed, RuleLeased
  <2>14. Accounted'
    BY <1>1, <2>1, <2>4, <2>6, <2>9, AccountedKeeps
  <2> QED BY <2>6, <2>7, <2>12, <2>13, <2>14 DEF RelayInv
<1> QED BY <1>2, <1>3 DEF StopPublish

\* A retry or a fault of a generation that exists is an event.
LEMMA Appended ==
    ASSUME TypeOK, NEW g \in Gens, NEW f \in Faults,
           events' \in {events, Append(events, Retry(g)), Append(events, FaultEvent(g, f))}
    PROVE  events' \in Seq(Event)
<1>1. Retry(g) \in Event /\ FaultEvent(g, f) \in Event
  BY DEF Retry, FaultEvent, Event, Faults
<1>2. events \in Seq(Event)
  BY TypeParts
<1> QED BY <1>1, <1>2

LEMMA CancelStartKeeps ==
    ASSUME RelayInv, NEW u \in Users, CancelStart(u)
    PROVE  RelayInv'
<1>1. /\ TypeOK /\ u \in Procs /\ InOrder(u) /\ proc[u].pc = "cancel" /\ Leave(u)
      /\ slot.health \in 0..MaxRequests /\ MaxRequests \in Nat
  BY SharedFields DEF RelayInv, Procs, CancelStart
<1>2. CASE UNCHANGED <<slot, health>>
  <2>1. events' \in Seq(Event)
    <3>1. CASE events' = events
      BY <1>1, <3>1, TypeParts
    <3>2. CASE events' # events
      <4>1. slot.health # 0 /\ events' = Append(events, Retry(slot.health))
        BY <3>2 DEF CancelStart
      <4>2. slot.health \in Gens /\ NoFault \in Faults
        BY <1>1, <4>1 DEF Gens, Faults
      <4> QED BY <1>1, <4>1, <4>2, Appended
    <3> QED BY <3>1, <3>2
  <2>2. Calm
    BY <1>1, <1>2, <2>1, TypeParts, MildRefl DEF CancelStart, Calm
  <2> QED BY <1>1, <2>2, CalmLeave
<1>3. CASE ~UNCHANGED <<slot, health>>
  <2>1. /\ epoch = proc[u].epoch /\ slot' = Cleared(slot) /\ generation' = generation
        /\ health' = IF slot.health = 0 THEN health
                     ELSE [health EXCEPT ![slot.health] = Stop(@)]
        /\ UNCHANGED <<epoch, generation, lease, live, rule, config, revision, watch,
                       spent, events>>
    BY <1>3 DEF CancelStart
  <2>2. /\ slot' \in [desired : BOOLEAN, spec : SpecRec, health : 0..MaxRequests,
                      intent : Nat, server : Listener]
        /\ ~slot'.desired /\ slot'.health = 0 /\ slot'.server = slot.server
        /\ health' \in [Gens -> Health] /\ \A g \in Gens : Mild(health[g], health'[g])
        /\ Fenced'
    BY <2>1, ClearedKeeps
  <2>3. /\ Others(u) /\ Locks(u) /\ proc'[u] = Idle
        /\ gate' \in Users \cup {Nobody} /\ lifecycle' \in Procs \cup {Nobody, Watcher}
    BY <1>1, LeaveFacts
  <2>4. TypeOK'
    BY <1>1, <2>1, <2>2, <2>3, TypeParts, TypeKeeps
  <2>5. \A g \in Gens : health'[g].inst = health[g].inst
    BY <2>2 DEF Mild, Same
  <2>6. Respects(u)
    BY <1>1, <2>1, <2>2, <2>5 DEF Respects, Claimant
  <2>7. InOrder(u)' /\ ~Claimant(u)' /\ proc'[u].pc = "idle"
    BY <1>1, <2>3, <2>4, IdleInOrder
  <2>8. Counted' /\ Unshared' /\ Watching' /\ \A q \in Procs : InOrder(q)'
    BY <1>1, <2>1, <2>3, <2>4, <2>6, <2>7, StepKeeps
  <2>9. Installed' /\ RuleLeased'
    BY <2>1, <2>2 DEF RelayInv, Installed, RuleLeased
  <2>10. Accounted'
    BY <1>1, <2>1, <2>2, <2>3, <2>5, AccountedKeeps
  <2> QED BY <2>2, <2>4, <2>8, <2>9, <2>10 DEF RelayInv
<1> QED BY <1>2, <1>3

(***************************************************************************)
(* A new generation                                                        *)
(***************************************************************************)

\* While a request may still install, there is a generation left for it.
LEMMA RoomToInstall ==
    ASSUME TypeOK, Counted, NEW u \in Users, Others(u), u \in Pending, u \notin Pending',
           generation' = generation + 1, spent' = spent
    PROVE  generation + 1 \in Gens /\ Counted'
<1>1. generation \in Nat /\ spent.requests \in Nat /\ MaxRequests \in Nat
  BY SharedFields
<1>2. IsFiniteSet(Pending) /\ generation + Cardinality(Pending) <= spent.requests
      /\ spent.requests <= MaxRequests
  BY DEF Counted
<1>3. Pending' \subseteq Pending \ {u}
  BY DEF Pending, Others, Procs
<1>4. Cardinality(Pending) \in Nat
  BY <1>2, FS_CardinalityType
<1>5. /\ IsFiniteSet(Pending \ {u})
      /\ Cardinality(Pending \ {u}) = Cardinality(Pending) - 1
  BY <1>2, FS_RemoveElement
<1>6. Cardinality(Pending \ {u}) \in Nat
  BY <1>5, FS_CardinalityType
<1>7. IsFiniteSet(Pending') /\ Cardinality(Pending') <= Cardinality(Pending \ {u})
  BY <1>3, <1>5, FS_Subset
<1>8. Cardinality(Pending') \in Nat
  BY <1>7, FS_CardinalityType
<1>9. generation + 1 \in Gens
  BY <1>1, <1>2, <1>4, <1>5, <1>6 DEF Gens
<1>10. Counted'
  BY <1>1, <1>2, <1>4, <1>5, <1>6, <1>7, <1>8 DEF Counted
<1> QED BY <1>9, <1>10

LEMMA NewHealthTyped == NewHealth \in Health
<1>1. NoFault \in Faults /\ Never \in Int /\ "Starting" \in States
  BY DEF Faults, Never, States
<1> QED BY <1>1 DEF NewHealth, Health

LEMMA InstallKeeps ==
    ASSUME RelayInv, NEW u \in Users, Install(u)
    PROVE  RelayInv'
<1>1. /\ TypeOK /\ u \in Procs /\ InOrder(u) /\ proc[u].pc = "install" /\ epoch \in Nat
      /\ proc[u] \in Proc /\ u # Supervisor /\ generation \in Nat
  BY SharedFields, ProcFields, RelayAssumption DEF RelayInv, Procs, Install
<1>2. CASE UNCHANGED generation
  <2>1. \/ Leave(u) /\ UNCHANGED spent
        \/ Spend("failures") /\ Goto(u, "cancel")
    BY <1>1, <1>2 DEF Install
  <2>2. UNCHANGED <<generation, slot, health>>
    BY <1>1, <1>2 DEF Install
  <2>3. Calm
    BY <2>1, <2>2, StayCalm, SpendCalm, BoundNames DEF Install
  <2>4. CASE Leave(u)
    BY <1>1, <2>3, <2>4, CalmLeave
  <2>5. CASE Goto(u, "cancel")
    <3> DEFINE r == At(proc[u], "cancel")
    <3>1. "cancel" \in Pcs
      BY DEF Pcs
    <3>2. r \in Proc /\ r.pc = "cancel" /\ Onward(u, r) /\ UNCHANGED <<gate, lifecycle>>
          /\ proc' = [proc EXCEPT ![u] = r]
      BY <2>5, <3>1, Moves
    <3> HIDE DEF r
    <3> QED BY <1>1, <2>3, <3>2, WalksOn
  <2> QED BY <2>1, <2>4, <2>5
<1>3. CASE generation' # generation
  <2> DEFINE g == generation + 1
             sp == [cfg |-> proc[u].want, scope |-> proc[u].scope, set |-> TRUE]
             r == [proc[u] EXCEPT !.pc = "lifecycle", !.gen = g]
  <2>1. /\ epoch = proc[u].epoch /\ generation' = g
        /\ health' = [health EXCEPT ![g] = NewHealth]
        /\ slot' = [slot EXCEPT !.spec = sp, !.health = g]
        /\ proc' = [proc EXCEPT ![u] = r]
        /\ UNCHANGED <<epoch, lease, live, rule, events, config, revision, watch, spent,
                       gate, lifecycle>>
    BY <1>1, <1>3 DEF Install
  <2>2. u \in Pending
    BY <1>1 DEF Pending, Placed, Building
  <2>3. Others(u) /\ u \notin Pending' /\ proc'[u].pc = "lifecycle"
    <3>1. proc \in [Procs -> Proc]
      BY <1>1, TypeParts
    <3>2. r.pc = "lifecycle"
      BY <1>1 DEF Proc
    <3>3. proc'[u] = r /\ \A q \in Procs : q # u => proc'[q] = proc[q]
      BY <1>1, <2>1, <3>1
    <3>4. u \notin Pending'
      BY <3>2, <3>3 DEF Pending, Placed
    <3>5. Pending' \subseteq Pending \ {u}
      BY <3>3, <3>4 DEF Pending, Procs
    <3>6. IsFiniteSet(Pending) /\ generation + Cardinality(Pending) <= spent.requests
          /\ spent.requests <= MaxRequests
      BY DEF RelayInv, Counted
    <3>7. Cardinality(Pending) \in Nat /\ Cardinality(Pending) # 0
      <4>1. Cardinality(Pending) \in Nat
        BY <3>6, FS_CardinalityType
      <4>2. Cardinality(Pending \ {u}) = Cardinality(Pending) - 1 /\ IsFiniteSet(Pending \ {u})
        BY <2>2, <3>6, FS_RemoveElement
      <4>3. Cardinality(Pending \ {u}) \in Nat
        BY <4>2, FS_CardinalityType
      <4> QED BY <4>1, <4>2, <4>3
    <3>8. g \in 0..MaxRequests
      BY <1>1, <3>6, <3>7, SharedFields
    <3>9. r \in Proc
      BY <1>1, <3>8 DEF Proc, Pcs
    <3> QED BY <1>1, <2>1, <3>2, <3>4, <3>9, Replaced
  <2>4. g \in Gens /\ Counted'
    BY <1>1, <2>1, <2>2, <2>3, RoomToInstall DEF RelayInv
  <2>5. /\ proc'[u] = r /\ r.pc = "lifecycle" /\ r.gen = g /\ r.op = proc[u].op
        /\ r.epoch = epoch /\ r.intent = proc[u].intent
    <3>1. proc \in [Procs -> Proc]
      BY <1>1, TypeParts
    <3> QED BY <1>1, <2>1, <3>1 DEF Proc
  <2> HIDE DEF r
  <2>6. /\ slot' \in [desired : BOOLEAN, spec : SpecRec, health : 0..MaxRequests,
                      intent : Nat, server : Listener]
        /\ slot'.desired = slot.desired /\ slot'.health = g /\ slot'.server = slot.server
    <3>1. sp \in SpecRec /\ g \in 0..MaxRequests /\ MaxRequests \in Nat
      BY <1>1, <2>4, ProcFields, RelayAssumption DEF SpecRec, Gens
    <3> HIDE DEF sp
    <3> QED BY <1>1, <2>1, <3>1, TypeParts
  <2>7. health' \in [Gens -> Health] /\ \A k \in Gens : k # g => health'[k] = health[k]
    BY <1>1, <2>1, TypeParts, NewHealthTyped
  <2>8. Locks(u)
    BY <1>1, <2>1, FreeLocks
  <2>9. TypeOK'
    <3>1. generation' \in 0..MaxRequests
      BY <2>1, <2>4, RelayAssumption DEF Gens
    <3> QED BY <1>1, <2>1, <2>3, <2>6, <2>7, <3>1, TypeParts, TypeKeeps
  <2>10. Respects(u)
    <3>1. \A k \in Gens : k <= generation => health'[k].inst = health[k].inst
      BY <1>1, <2>7
    <3> QED BY <2>1, <2>6, <3>1 DEF Respects
  <2>11. slot.desired
    BY <1>1, <2>1 DEF InOrder, Prevails, Started
  <2>12. InOrder(u)'
    <3>1. GenKnown(u)' /\ Holding(u)' /\ Alone(u)'
      BY <1>1, <2>1, <2>5 DEF GenKnown, Holding, Alone, Placed, Building
    <3>2. Prevails(u)'
      BY <1>1, <2>1, <2>5, <2>6, <2>11 DEF Prevails, Stopped
    <3>3. OwnStop(u)'
      BY <1>1, <2>1, <2>5 DEF InOrder, OwnStop
    <3> QED BY <3>1, <3>2, <3>3 DEF InOrder
  <2>13. \A q \in Procs : InOrder(q)'
    BY <1>1, <2>1, <2>3, <2>8, <2>9, <2>10, <2>12, OthersInOrder
  <2>14. Unshared'
    <3>1. Claimant(u) /\ proc'[u].epoch = proc[u].epoch
      BY <1>1, <2>1, <2>5 DEF Claimant
    <3> QED BY <1>1, <2>3, <3>1, UnsharedKeeps
  <2>15. Installed'
    <3>1. generation <= g
      BY <1>1
    <3>2. slot.server.gen <= g /\ lease.gen <= g /\ \A l \in live : l.gen # 0 /\ l.gen <= g
      BY <1>1, <3>1, SharedFields DEF RelayInv, Installed
    <3> QED BY <2>1, <2>6, <3>2 DEF RelayInv, Installed
  <2>16. Accounted'
    <3>1. \A k \in Gens : k <= generation => health'[k].inst = health[k].inst
      BY <1>1, <2>7
    <3> QED BY <1>1, <2>1, <2>3, <2>6, <3>1, AccountedKeeps
  <2>17. RuleLeased'
    BY <2>1 DEF RelayInv, RuleLeased
  <2>18. Fenced'
    BY <1>1, <2>6, <2>11 DEF Fenced
  <2>19. Watching'
    <3>1. watch.gen \in Nat /\ watch.gen <= generation
      BY <1>1, RelayAssumption DEF RelayInv, Watching, TypeOK
    <3> QED BY <1>1, <2>1, <3>1 DEF RelayInv, Watching
  <2> QED BY <2>4, <2>9, <2>13, <2>14, <2>15, <2>16, <2>17, <2>18, <2>19 DEF RelayInv
<1> QED BY <1>2, <1>3

(***************************************************************************)
(* Shutting a listener down                                                *)
(***************************************************************************)

\* A lease is kept or given back; it goes unless Windows refused.
LEMMA RetireFacts ==
    ASSUME TypeOK, RuleLeased, NEW gs, NEW used \in [DOMAIN Bounds -> Nat],
           RetireFirewall(gs, used)
    PROVE  /\ lease' \in {lease, NoLease} /\ lease' \in [gen : 0..MaxRequests, role : Protocols]
           /\ rule' \in [Protocols -> BOOLEAN] /\ RuleLeased'
           /\ spent' \in [DOMAIN Bounds -> Nat] /\ spent'.requests = used.requests
           /\ \/ lease' = NoLease \/ lease.gen \notin gs \ {0}
              \/ spent'.failures > used.failures
<1>1. /\ lease \in [gen : 0..MaxRequests, role : Protocols] /\ rule \in [Protocols -> BOOLEAN]
      /\ MaxRequests \in Nat /\ lease.role \in Protocols
  BY TypeParts, SharedFields
<1>2. NoLease \in [gen : 0..MaxRequests, role : Protocols]
  BY <1>1 DEF NoLease, Protocols
<1>3. {"failures", "requests"} \subseteq DOMAIN Bounds
  BY DEF Bounds
<1>4. used.failures \in Nat
  BY <1>3
<1>5. CASE /\ lease' = NoLease /\ rule' = [rule EXCEPT ![lease.role] = FALSE]
           /\ spent' = used
  <2>1. rule' \in [Protocols -> BOOLEAN] /\ \A r \in Protocols : ~rule'[r]
    BY <1>1, <1>5 DEF RuleLeased
  <2> QED BY <1>2, <1>5, <2>1 DEF RuleLeased
<1>6. CASE /\ lease' = lease /\ spent' = [used EXCEPT !.failures = @ + 1]
           /\ \E on \in BOOLEAN : rule' = [rule EXCEPT ![lease.role] = @ /\ on]
  <2>1. PICK on \in BOOLEAN : rule' = [rule EXCEPT ![lease.role] = rule[lease.role] /\ on]
    BY <1>6
  <2>2. rule' \in [Protocols -> BOOLEAN] /\ \A r \in Protocols : rule'[r] => rule[r]
    BY <1>1, <2>1
  <2>3. /\ spent' \in [DOMAIN Bounds -> Nat] /\ spent'.requests = used.requests
        /\ spent'.failures > used.failures
    BY <1>3, <1>4, <1>6
  <2> QED BY <1>1, <1>6, <2>2, <2>3 DEF RuleLeased
<1>7. CASE UNCHANGED <<lease, rule>> /\ spent' = used /\ lease.gen \notin gs \ {0}
  BY <1>1, <1>7 DEF RuleLeased
<1> QED BY <1>5, <1>6, <1>7 DEF RetireFirewall

\* gone is taken out of the slot, if it is there, and shut down.
Removes(gone) ==
    /\ gone \in {NoListener, slot.server}
    /\ slot' = [slot EXCEPT !.server = IF slot.server = gone THEN NoListener ELSE slot.server]
    /\ live' = live \ {gone} /\ health' = ShutDown(health, gone)
    /\ UNCHANGED <<epoch, generation, events, config, revision, watch>>

LEMMA RemoveFacts ==
    ASSUME RelayInv, NEW p \in Procs, NEW gone, Removes(gone), Others(p),
           gate' \in Users \cup {Nobody}, lifecycle' \in Procs \cup {Nobody, Watcher},
           lease' \in [gen : 0..MaxRequests, role : Protocols],
           rule' \in [Protocols -> BOOLEAN], spent' \in [DOMAIN Bounds -> Nat]
    PROVE  /\ TypeOK' /\ slot'.desired = slot.desired /\ slot'.health = slot.health
           /\ slot'.server = IF slot.server = gone THEN NoListener ELSE slot.server
           /\ \A g \in Gens : Mild(health[g], health'[g])
<1>1. TypeOK /\ MaxRequests \in Nat
  BY RelayAssumption DEF RelayInv
<1>2. NoListener \in Listener
  BY <1>1 DEF NoListener, Listener, Protocols
<1>3. /\ slot' \in [desired : BOOLEAN, spec : SpecRec, health : 0..MaxRequests,
                    intent : Nat, server : Listener]
      /\ slot'.desired = slot.desired /\ slot'.health = slot.health
      /\ slot'.server = IF slot.server = gone THEN NoListener ELSE slot.server
  <2> DEFINE s == IF slot.server = gone THEN NoListener ELSE slot.server
  <2>1. s \in Listener /\ slot' = [slot EXCEPT !.server = s]
    BY <1>1, <1>2, SharedFields DEF Removes
  <2>2. slot \in [desired : BOOLEAN, spec : SpecRec, health : 0..MaxRequests,
                  intent : Nat, server : Listener]
    BY <1>1, TypeParts
  <2> HIDE DEF s
  <2>3. slot'.server = s
    BY <2>1, <2>2
  <2> QED BY <2>1, <2>2, <2>3 DEF s
<1>4. health' \in [Gens -> Health] /\ \A g \in Gens : Mild(health[g], health'[g])
  BY <1>1, TypeParts, ShutDownMild DEF Removes
<1>5. /\ live' \subseteq Listener /\ epoch' \in Nat /\ generation' \in 0..MaxRequests
      /\ events' \in Seq(Event) /\ config' \in Settings /\ UNCHANGED <<revision, watch>>
  BY <1>1, TypeParts DEF Removes
<1> QED BY <1>1, <1>3, <1>4, <1>5, TypeKeeps

LEMMA RemoveKeeps ==
    ASSUME RelayInv, NEW p \in Procs, NEW gone, Removes(gone), Others(p), Locks(p),
           TypeOK', InOrder(p)', lifecycle \in {p, Nobody}, proc[p].pc # "store",
           lease' \in {lease, NoLease}, RuleLeased', spent'.requests = spent.requests,
           slot'.desired = slot.desired, slot'.health = slot.health,
           slot'.server = IF slot.server = gone THEN NoListener ELSE slot.server,
           \A g \in Gens : Mild(health[g], health'[g]),
           p \in Users /\ Claimant(p)' => Claimant(p) /\ proc'[p].epoch = proc[p].epoch,
           p \in Users /\ proc[p].pc \in Placed \cup {"idle", "cancel"}
             => proc'[p].pc \in Placed \cup {"idle", "cancel"}
    PROVE  RelayInv'
<1>1. TypeOK /\ Installed /\ NoListener.gen = 0 /\ NoLease.gen = 0
  BY DEF RelayInv, NoListener, NoLease
<1>2. UNCHANGED <<epoch, generation, watch>> /\ live' \subseteq live
      /\ \A l \in live' : l # gone
  BY DEF Removes
<1>3. Respects(p)
  BY <1>1 DEF Respects
<1>4. Counted' /\ Unshared' /\ Watching' /\ \A q \in Procs : InOrder(q)'
  BY <1>2, <1>3, StepKeeps
<1>5. Installed'
  BY <1>1, <1>2, InstalledKeeps
<1>6. Accounted'
  BY <1>2, AccountedKeeps
<1>7. Fenced'
  <2>1. slot.server = NoListener \/ slot.server.gen \in Gens
    BY <1>1, SharedFields DEF Installed, Gens
  <2>2. slot'.desired \in BOOLEAN
    BY <1>1, SharedFields
  <2> QED BY <1>2, <2>1, <2>2, FencedKeeps
<1> QED BY <1>4, <1>5, <1>6, <1>7 DEF RelayInv

LEMMA TakeOldKeeps ==
    ASSUME RelayInv, NEW u \in Users, TakeOld(u)
    PROVE  RelayInv'
<1>1. /\ TypeOK /\ u \in Procs /\ InOrder(u) /\ proc[u].pc = "take" /\ u # Supervisor
      /\ RuleLeased /\ spent \in [DOMAIN Bounds -> Nat] /\ "check" \in Pcs
  BY TypeParts, RelayAssumption DEF RelayInv, Procs, TakeOld, Pcs
<1>2. lifecycle = u
  BY <1>1 DEF InOrder, Holding
<1>3. CASE Leave(u) /\ UNCHANGED <<slot, live, health, lease, rule, spent>>
  <2>1. Calm
    BY <1>3, StayCalm DEF TakeOld
  <2> QED BY <1>1, <1>3, <2>1, CalmLeave
<1>4. CASE /\ Removes(slot.server) /\ RetireFirewall({slot.server.gen}, spent)
           /\ Goto(u, "check")
  <2>1. /\ lease' \in {lease, NoLease} /\ lease' \in [gen : 0..MaxRequests, role : Protocols]
        /\ rule' \in [Protocols -> BOOLEAN] /\ RuleLeased'
        /\ spent' \in [DOMAIN Bounds -> Nat] /\ spent'.requests = spent.requests
    BY <1>1, <1>4, RetireFacts
  <2>2. /\ Others(u) /\ Locks(u) /\ proc'[u] = At(proc[u], "check")
        /\ gate' \in Users \cup {Nobody} /\ lifecycle' \in Procs \cup {Nobody, Watcher}
        /\ gate' = gate /\ lifecycle' = lifecycle
    BY <1>1, <1>4, GotoFacts
  <2>3. /\ TypeOK' /\ slot'.desired = slot.desired /\ slot'.health = slot.health
        /\ slot'.server = NoListener
        /\ \A g \in Gens : Mild(health[g], health'[g])
    BY <1>1, <1>4, <2>1, <2>2, RemoveFacts
  <2>4. /\ proc'[u].pc = "check" /\ proc'[u].gen = proc[u].gen /\ proc'[u].op = proc[u].op
        /\ proc'[u].epoch = proc[u].epoch /\ proc'[u].intent = proc[u].intent
    BY <1>1, <2>2, ProcFields, AtFields
  <2>5. UNCHANGED <<epoch, generation>> /\ NoListener.gen = 0 /\ proc[u].gen # 0
    BY <1>1, <1>4 DEF Removes, NoListener, InOrder, GenKnown, Placed
  <2>6. InOrder(u)'
    <3>1. GenKnown(u)' /\ Holding(u)'
      BY <1>1, <1>2, <2>2, <2>4, <2>5 DEF InOrder, GenKnown, Holding, Placed, Building
    <3>2. Alone(u)'
      BY <1>1, <2>3, <2>4, <2>5 DEF Alone
    <3>3. Prevails(u)' /\ OwnStop(u)'
      BY <1>1, <2>3, <2>4, <2>5
      DEF InOrder, Prevails, OwnStop, Started, Stopped, Placed, Building
    <3> QED BY <3>1, <3>2, <3>3 DEF InOrder
  <2>7. Claimant(u) /\ proc'[u].pc \in Placed
    BY <1>1, <2>4 DEF Claimant, Placed, Building
  <2> QED BY <1>1, <1>2, <1>4, <2>1, <2>2, <2>3, <2>4, <2>6, <2>7, RemoveKeeps
<1> QED BY <1>3, <1>4 DEF TakeOld, Removes, Previous

LEMMA FinishStopKeeps ==
    ASSUME RelayInv, NEW u \in Users, FinishStop(u)
    PROVE  RelayInv'
<1> DEFINE i == proc[u].intent
           mine == slot.server.gen # 0 /\ slot.server.gen = i.target
           gone == IF mine THEN slot.server ELSE NoListener
<1>1. /\ TypeOK /\ u \in Procs /\ InOrder(u) /\ proc[u].pc = "finish" /\ u # Supervisor
      /\ RuleLeased /\ spent \in [DOMAIN Bounds -> Nat] /\ "commit" \in Pcs
      /\ lifecycle = Nobody /\ proc[u].op \in {"start", "stop", "apply", "switch"}
  BY TypeParts, ProcFields, RelayAssumption DEF RelayInv, Procs, FinishStop, Pcs
<1>2. Removes(gone)
  <2>1. slot = [slot EXCEPT !.server = slot.server]
    BY <1>1, TypeParts
  <2>2. NoListener = slot.server => slot.server.gen = 0
    BY DEF NoListener
  <2> QED BY <2>1, <2>2 DEF FinishStop, Removes
<1>3. /\ RetireFirewall({i.target, i.fw}, spent)
      /\ IF proc[u].op = "stop" THEN Leave(u) ELSE Goto(u, "commit")
  BY DEF FinishStop
<1> HIDE DEF gone
<1>4. /\ lease' \in {lease, NoLease} /\ lease' \in [gen : 0..MaxRequests, role : Protocols]
      /\ rule' \in [Protocols -> BOOLEAN] /\ RuleLeased'
      /\ spent' \in [DOMAIN Bounds -> Nat] /\ spent'.requests = spent.requests
  BY <1>1, <1>3, RetireFacts
<1>5. /\ Others(u) /\ Locks(u) /\ gate' \in Users \cup {Nobody}
      /\ lifecycle' \in Procs \cup {Nobody, Watcher}
      /\ \/ proc'[u] = Idle
         \/ /\ proc'[u] = At(proc[u], "commit") /\ proc[u].op # "stop"
            /\ gate' = gate /\ lifecycle' = lifecycle
  BY <1>1, <1>3, LeaveFacts, GotoFacts
<1>6. /\ TypeOK' /\ slot'.desired = slot.desired /\ slot'.health = slot.health
      /\ slot'.server = IF slot.server = gone THEN NoListener ELSE slot.server
      /\ \A g \in Gens : Mild(health[g], health'[g])
  BY <1>1, <1>2, <1>4, <1>5, RemoveFacts
<1>7. InOrder(u)' /\ ~Claimant(u)'
  <2>1. CASE proc'[u] = Idle
    BY <1>1, <1>6, <2>1, IdleInOrder
  <2>2. CASE proc'[u] # Idle
    <3>1. /\ proc'[u].pc = "commit" /\ proc'[u].gen = proc[u].gen /\ proc'[u].op = proc[u].op
          /\ proc'[u].epoch = proc[u].epoch /\ proc'[u].intent = proc[u].intent
      BY <1>1, <1>5, <2>2, ProcFields, AtFields
    <3>2. UNCHANGED <<epoch, generation, gate>> /\ proc[u].op \in Transactions
      BY <1>1, <1>2, <1>5, <2>2 DEF Removes, InOrder, OwnStop, Transactions
    <3>3. GenKnown(u)' /\ Holding(u)' /\ Alone(u)'
      BY <1>1, <3>1, <3>2 DEF InOrder, GenKnown, Holding, Alone, Placed, Building
    <3>4. Prevails(u)' /\ OwnStop(u)' /\ ~Claimant(u)'
      BY <1>1, <3>1, <3>2
      DEF InOrder, Prevails, OwnStop, Started, Stopped, Placed, Building, Transactions, Claimant
    <3> QED BY <3>3, <3>4 DEF InOrder
  <2> QED BY <2>1, <2>2
<1>8. proc[u].pc \notin Placed \cup {"idle", "cancel"}
  BY <1>1 DEF Placed, Building
<1> QED BY <1>1, <1>2, <1>4, <1>5, <1>6, <1>7, <1>8, RemoveKeeps

(***************************************************************************)
(* The supervisor                                                          *)
(***************************************************************************)

\* The supervisor is in order wherever it works for a generation and, building,
\* alone under relay_lifecycle.
LEMMA SupInOrder ==
    ASSUME RelayInv, NEW r, proc'[Supervisor] = r, generation' = generation,
           r.gen # 0, r.gen <= generation, r.pc \in Recovery, r.pc # "store",
           r.pc \in Building => lifecycle' = Supervisor /\ slot'.server.gen # r.gen
    PROVE  InOrder(Supervisor)'
<1>1. Supervisor \in Procs /\ Supervisor \notin Users
  BY RelayAssumption DEF Procs
<1>2. GenKnown(Supervisor)'
  BY <1>1 DEF GenKnown
<1>3. Holding(Supervisor)'
  BY <1>1 DEF Holding, Building, Recovery
<1>4. Alone(Supervisor)' /\ Prevails(Supervisor)' /\ OwnStop(Supervisor)'
  BY <1>1 DEF Alone, Prevails, OwnStop
<1> QED BY <1>2, <1>3, <1>4 DEF InOrder

LEMMA SupCalm ==
    ASSUME RelayInv, NEW r \in Proc, proc' = [proc EXCEPT ![Supervisor] = r], Calm,
           UNCHANGED <<gate, lifecycle>>, proc[Supervisor].pc # "store",
           r.gen # 0, r.gen <= generation, r.pc \in Recovery \ Building
    PROVE  RelayInv'
<1>1. TypeOK /\ Supervisor \in Procs /\ Supervisor \notin Users
  BY RelayAssumption DEF RelayInv, Procs
<1>2. Others(Supervisor) /\ proc'[Supervisor] = r
  BY <1>1, Replaced
<1>3. Locks(Supervisor) /\ gate' \in Users \cup {Nobody}
      /\ lifecycle' \in Procs \cup {Nobody, Watcher}
  BY <1>1, FreeLocks, TypeParts
<1>4. InOrder(Supervisor)'
  BY <1>2, SupInOrder DEF Calm, Building
<1> QED BY <1>1, <1>2, <1>3, <1>4, CalmStep

LEMMA SupFacts ==
    ASSUME RelayInv
    PROVE  /\ TypeOK /\ Supervisor \in Procs /\ Supervisor \notin Users
           /\ InOrder(Supervisor) /\ proc[Supervisor] \in Proc
           /\ proc[Supervisor].gen \in Nat /\ proc[Supervisor].gen <= generation
           /\ proc[Supervisor].pc \in Recovery
           /\ proc[Supervisor].pc # "idle"
              => proc[Supervisor].gen # 0 /\ proc[Supervisor].gen \in Gens
<1>1. TypeOK /\ Supervisor \in Procs /\ Supervisor \notin Users /\ InOrder(Supervisor)
  BY RelayAssumption DEF RelayInv, Procs
<1>2. proc[Supervisor] \in Proc /\ proc[Supervisor].gen \in 0..MaxRequests /\ MaxRequests \in Nat
  BY <1>1, ProcFields, SharedFields
<1> QED BY <1>1, <1>2 DEF InOrder, GenKnown, Gens

\* An event is about a generation.
LEMMA HeadTyped ==
    ASSUME TypeOK, events # <<>>
    PROVE  Head(events) \in Event /\ Tail(events) \in Seq(Event) /\ Head(events).gen \in Gens
<1>1. events \in Seq(Event)
  BY TypeParts
<1> HIDE DEF Event
<1>2. Head(events) \in Event /\ Tail(events) \in Seq(Event)
  BY <1>1
<1> QED BY <1>2 DEF Event

LEMMA SupEventKeeps ==
    ASSUME RelayInv, SupEvent
    PROVE  RelayInv'
<1> DEFINE e == Head(events)
           r == [Idle EXCEPT !.pc = "retire", !.epoch = epoch, !.gen = e.gen]
<1>1. /\ TypeOK /\ Supervisor \in Procs /\ epoch \in Nat /\ events # <<>>
      /\ health \in [Gens -> Health] /\ MaxRequests \in Nat
  BY SupFacts, SharedFields, TypeParts DEF SupEvent
<1>2. e \in Event /\ Tail(events) \in Seq(Event) /\ e.gen \in Gens
  BY <1>1, HeadTyped
<1> HIDE DEF e
<1>3. health' \in {health, [health EXCEPT ![e.gen] = AcceptFault(@, e.fault)]}
      /\ UNCHANGED <<epoch, generation, slot, lease, live, rule, watch, revision, config, spent>>
      /\ events' = Tail(events) /\ proc[Supervisor].pc = "idle"
      /\ UNCHANGED <<gate, lifecycle>>
  BY DEF SupEvent, e
<1>4. health' \in [Gens -> Health] /\ \A g \in Gens : Mild(health[g], health'[g])
  <2>1. \A g \in Gens : AcceptFault(health[g], e.fault) \in Health
                        /\ Mild(health[g], AcceptFault(health[g], e.fault))
                        /\ Mild(health[g], health[g])
    BY <1>1, AcceptMild, MildRefl DEF Mild, Same
  <2> QED BY <1>1, <1>2, <1>3, <2>1
<1>5. Calm
  BY <1>1, <1>2, <1>3, <1>4, TypeParts DEF Calm
<1>6. CASE UNCHANGED proc
  <2>1. Others(Supervisor) /\ Locks(Supervisor) /\ InOrder(Supervisor)'
    <3>1. Others(Supervisor) /\ Locks(Supervisor)
      BY <1>1, <1>3, <1>6, TypeParts DEF Others, Locks
    <3>2. InOrder(Supervisor)'
      BY <1>3, <1>6, SupFacts
      DEF InOrder, GenKnown, Holding, Alone, Prevails, OwnStop, Building
    <3> QED BY <3>1, <3>2
  <2> QED BY <1>1, <1>3, <1>5, <2>1, CalmStep, TypeParts, SupFacts
<1>7. CASE ~UNCHANGED proc
  <2>1. proc' = [proc EXCEPT ![Supervisor] = r] /\ InContext(e.gen)
    BY <1>7 DEF SupEvent, e
  <2>2. r \in Proc /\ r.pc = "retire" /\ r.gen = e.gen
    <3>1. Idle \in Proc /\ "retire" \in Pcs /\ e.gen \in 0..MaxRequests
      BY <1>1, <1>2, IdleTyped DEF Pcs, Gens
    <3> QED BY <1>1, <3>1 DEF Proc
  <2>3. e.gen # 0 /\ e.gen <= generation
    <3>1. e.gen = slot.health /\ e.gen # 0 /\ generation \in Nat
      BY <1>1, <2>1, SharedFields DEF InContext, IsGeneration
    <3> QED BY <3>1 DEF RelayInv, Installed
  <2> HIDE DEF r
  <2> QED BY <1>3, <1>5, <2>1, <2>2, <2>3, SupCalm DEF Recovery, Building
<1> QED BY <1>6, <1>7

LEMMA SupWakeKeeps ==
    ASSUME RelayInv, SupWake
    PROVE  RelayInv'
<1>1. Calm /\ Supervisor \in Procs /\ proc[Supervisor].pc = "backoff" /\ TypeOK
  BY StayCalm, SupFacts DEF SupWake
<1>2. CASE Leave(Supervisor)
  BY <1>1, <1>2, CalmLeave
<1>3. CASE Goto(Supervisor, "mark")
  <2> DEFINE r == At(proc[Supervisor], "mark")
  <2>1. "mark" \in Pcs /\ proc[Supervisor] \in Proc
    BY SupFacts DEF Pcs
  <2>2. /\ r \in Proc /\ r.pc = "mark" /\ r.gen = proc[Supervisor].gen
        /\ proc' = [proc EXCEPT ![Supervisor] = r] /\ UNCHANGED <<gate, lifecycle>>
    BY <1>3, <2>1, AtFields DEF Goto, At
  <2> HIDE DEF r
  <2> QED BY <1>1, <2>2, SupCalm, SupFacts DEF Recovery, Building
<1> QED BY <1>2, <1>3 DEF SupWake

LEMMA SupMarkKeeps ==
    ASSUME RelayInv, SupMark
    PROVE  RelayInv'
<1> DEFINE g == proc[Supervisor].gen
<1>1. /\ Supervisor \in Procs /\ proc[Supervisor].pc = "mark" /\ TypeOK /\ g \in Gens
      /\ health \in [Gens -> Health] /\ slot.spec.cfg \in Settings /\ proc[Supervisor] \in Proc
  <2>1. slot.spec \in SpecRec
    BY SupFacts, SharedFields
  <2> QED BY <2>1, SupFacts, TypeParts DEF SupMark, SpecRec
<1>2. health' = [health EXCEPT ![g] = MarkRecoveryInProgress(@)]
  BY DEF SupMark
<1> HIDE DEF g
<1>3. health' \in [Gens -> Health] /\ \A k \in Gens : Mild(health[k], health'[k])
  BY <1>1, <1>2, MarksMild, MildRefl DEF Mild, Same
<1>4. Calm
  BY <1>1, <1>3, TypeParts DEF SupMark, Calm
<1>5. CASE Leave(Supervisor)
  BY <1>1, <1>4, <1>5, CalmLeave
<1>6. CASE ~Leave(Supervisor)
  <2> DEFINE r == [proc[Supervisor] EXCEPT !.pc = "resolve", !.want = slot.spec.cfg]
  <2>1. proc' = [proc EXCEPT ![Supervisor] = r] /\ UNCHANGED <<gate, lifecycle>>
    BY <1>6 DEF SupMark
  <2>2. r \in Proc /\ r.pc = "resolve" /\ r.gen = proc[Supervisor].gen
    BY <1>1 DEF Proc, Pcs
  <2> HIDE DEF r
  <2> QED BY <1>1, <1>4, <2>1, <2>2, SupCalm, SupFacts DEF Recovery, Building
<1> QED BY <1>5, <1>6

LEMMA SupResolveKeeps ==
    ASSUME RelayInv, SupResolve
    PROVE  RelayInv'
<1> DEFINE g == proc[Supervisor].gen
<1>1. /\ Supervisor \in Procs /\ proc[Supervisor].pc = "resolve" /\ TypeOK /\ g \in Gens
      /\ health \in [Gens -> Health] /\ proc[Supervisor] \in Proc
  BY SupFacts, TypeParts DEF SupResolve
<1>2. CASE /\ Spend("failures") /\ Goto(Supervisor, "backoff")
           /\ health' = [health EXCEPT ![g] = MarkResolutionFailed(@)]
  <2>1. health' \in [Gens -> Health] /\ \A k \in Gens : Mild(health[k], health'[k])
    <3> HIDE DEF g
    <3> QED BY <1>1, <1>2, MarksMild, MildRefl DEF Mild, Same
  <2>2. spent' \in [DOMAIN Bounds -> Nat] /\ spent'.requests = spent.requests
    BY <1>1, <1>2, SpendFacts, BoundNames
  <2>3. Calm
    BY <1>1, <2>1, <2>2, TypeParts DEF SupResolve, Calm
  <2> DEFINE r == At(proc[Supervisor], "backoff")
  <2>4. "backoff" \in Pcs
    BY DEF Pcs
  <2>5. /\ r \in Proc /\ r.pc = "backoff" /\ r.gen = proc[Supervisor].gen
        /\ proc' = [proc EXCEPT ![Supervisor] = r] /\ UNCHANGED <<gate, lifecycle>>
    BY <1>1, <1>2, <2>4, AtFields DEF Goto, At
  <2> HIDE DEF r
  <2> QED BY <1>1, <2>3, <2>5, SupCalm, SupFacts DEF Recovery, Building
<1>3. CASE /\ UNCHANGED health
           /\ \E s \in Resolved :
                /\ proc' = [proc EXCEPT ![Supervisor].pc = "lifecycle", ![Supervisor].scope = s]
                /\ IF s = Unknown THEN Spend("failures") ELSE UNCHANGED spent
                /\ UNCHANGED <<gate, lifecycle>>
  <2>1. PICK s \in Resolved :
          /\ proc' = [proc EXCEPT ![Supervisor].pc = "lifecycle", ![Supervisor].scope = s]
          /\ IF s = Unknown THEN Spend("failures") ELSE UNCHANGED spent
          /\ UNCHANGED <<gate, lifecycle>>
    BY <1>3
  <2>2. Calm
    BY <1>3, <2>1, StayCalm, SpendCalm, BoundNames DEF SupResolve
  <2> DEFINE r == [proc[Supervisor] EXCEPT !.pc = "lifecycle", !.scope = s]
  <2>3. s \in Scopes
    BY <1>1, ResolvedScope
  <2>4. r \in Proc /\ r.pc = "lifecycle" /\ r.gen = proc[Supervisor].gen
        /\ proc' = [proc EXCEPT ![Supervisor] = r]
    BY <1>1, <2>1, <2>3 DEF Proc, Pcs
  <2> HIDE DEF r
  <2> QED BY <1>1, <2>1, <2>2, <2>4, SupCalm, SupFacts DEF Recovery, Building
<1> QED BY <1>2, <1>3 DEF SupResolve

\* The supervisor removes the listener of its own generation only.
LEMMA OwnFacts ==
    ASSUME RelayInv, NEW g \in Gens,
           slot' = [slot EXCEPT !.server = IF @ = Own(g) THEN NoListener ELSE @],
           live' = live \ {Own(g)}, health' = ShutDown(health, Own(g)),
           UNCHANGED <<epoch, generation, events, config, revision, watch>>
    PROVE  /\ Removes(Own(g))
           /\ (IF slot.server = Own(g) THEN NoListener ELSE slot.server).gen # g
<1>1. Own(g) \in {NoListener, slot.server} /\ NoListener.gen = 0 /\ g # 0
  BY DEF Own, NoListener, Gens
<1>2. Removes(Own(g))
  BY <1>1 DEF Removes
<1> QED BY <1>1, <1>2 DEF Own

LEMMA SupRetireKeeps ==
    ASSUME RelayInv, SupRetire
    PROVE  RelayInv'
<1> DEFINE g == proc[Supervisor].gen
<1>1. /\ TypeOK /\ Supervisor \in Procs /\ Supervisor \notin Users
      /\ proc[Supervisor].pc = "retire" /\ g \in Gens /\ g <= generation
      /\ lifecycle = Nobody /\ RuleLeased /\ spent \in [DOMAIN Bounds -> Nat]
      /\ proc[Supervisor] \in Proc /\ "backoff" \in Pcs
  BY SupFacts, TypeParts DEF SupRetire, RelayInv, Pcs
<1>2. CASE Leave(Supervisor) /\ UNCHANGED <<slot, live, health, lease, rule, spent>>
  <2>1. Calm
    BY <1>2, StayCalm DEF SupRetire
  <2> QED BY <1>1, <1>2, <2>1, CalmLeave
<1>3. CASE ~(Leave(Supervisor) /\ UNCHANGED <<slot, live, health, lease, rule, spent>>)
  <2>1. /\ slot' = [slot EXCEPT !.server = IF @ = Own(g) THEN NoListener ELSE @]
        /\ live' = live \ {Own(g)} /\ health' = ShutDown(health, Own(g))
        /\ UNCHANGED <<epoch, generation, events, config, revision, watch>>
        /\ RetireFirewall({g}, spent)
        /\ Leave(Supervisor) \/ Goto(Supervisor, "backoff")
    BY <1>3 DEF SupRetire
  <2> HIDE DEF g
  <2>2. /\ Removes(Own(g))
        /\ (IF slot.server = Own(g) THEN NoListener ELSE slot.server).gen # g
    BY <1>1, <2>1, OwnFacts
  <2>3. /\ lease' \in {lease, NoLease} /\ lease' \in [gen : 0..MaxRequests, role : Protocols]
        /\ rule' \in [Protocols -> BOOLEAN] /\ RuleLeased'
        /\ spent' \in [DOMAIN Bounds -> Nat] /\ spent'.requests = spent.requests
    BY <1>1, <2>1, RetireFacts
  <2>4. /\ Others(Supervisor) /\ Locks(Supervisor) /\ gate' \in Users \cup {Nobody}
        /\ lifecycle' \in Procs \cup {Nobody, Watcher}
        /\ proc'[Supervisor] \in {Idle, At(proc[Supervisor], "backoff")}
    BY <1>1, <2>1, LeaveFacts, GotoFacts
  <2>5. /\ TypeOK' /\ slot'.desired = slot.desired /\ slot'.health = slot.health
        /\ slot'.server = IF slot.server = Own(g) THEN NoListener ELSE slot.server
        /\ \A k \in Gens : Mild(health[k], health'[k])
    BY <1>1, <2>2, <2>3, <2>4, RemoveFacts
  <2>6. InOrder(Supervisor)'
    <3>1. CASE proc'[Supervisor] = Idle
      BY <1>1, <2>5, <3>1, IdleInOrder
    <3>2. CASE proc'[Supervisor] = At(proc[Supervisor], "backoff")
      <4> DEFINE r == At(proc[Supervisor], "backoff")
      <4>1. r.pc = "backoff" /\ r.gen = g /\ proc'[Supervisor] = r
        BY <1>1, <3>2, AtFields DEF g
      <4> HIDE DEF r
      <4>2. g # 0
        BY <1>1 DEF Gens
      <4> QED BY <1>1, <2>1, <4>1, <4>2, SupInOrder DEF Recovery, Building
    <3> QED BY <2>4, <3>1, <3>2
  <2> QED BY <1>1, <2>2, <2>3, <2>4, <2>5, <2>6, RemoveKeeps
<1> QED BY <1>2, <1>3

LEMMA SupLifecycleKeeps ==
    ASSUME RelayInv, SupLifecycle
    PROVE  RelayInv'
<1> DEFINE g == proc[Supervisor].gen
<1>1. /\ TypeOK /\ Supervisor \in Procs /\ Supervisor \notin Users
      /\ proc[Supervisor].pc = "lifecycle" /\ g \in Gens /\ g <= generation
      /\ lifecycle = Nobody /\ spent \in [DOMAIN Bounds -> Nat]
      /\ proc[Supervisor] \in Proc /\ InOrder(Supervisor)
  BY SupFacts, TypeParts DEF SupLifecycle
<1>2. CASE Leave(Supervisor) /\ UNCHANGED <<slot, live, health>>
  <2>1. Calm
    BY <1>2, StayCalm DEF SupLifecycle
  <2> QED BY <1>1, <1>2, <2>1, CalmLeave
<1>3. CASE ~(Leave(Supervisor) /\ UNCHANGED <<slot, live, health>>)
  <2> DEFINE r == At(proc[Supervisor], "check")
  <2>1. /\ slot' = [slot EXCEPT !.server = IF @ = Own(g) THEN NoListener ELSE @]
        /\ live' = live \ {Own(g)} /\ health' = ShutDown(health, Own(g))
        /\ UNCHANGED <<epoch, generation, events, config, revision, watch, gate, lease, rule,
                       spent>>
        /\ lifecycle' = Supervisor /\ proc' = [proc EXCEPT ![Supervisor] = r]
    BY <1>3 DEF SupLifecycle, At
  <2>2. "check" \in Pcs
    BY DEF Pcs
  <2>3. r \in Proc /\ r.pc = "check" /\ r.gen = g
    BY <1>1, <2>2, AtFields
  <2> HIDE DEF g, r
  <2>4. /\ Removes(Own(g))
        /\ (IF slot.server = Own(g) THEN NoListener ELSE slot.server).gen # g
    BY <1>1, <2>1, OwnFacts
  <2>5. /\ Others(Supervisor) /\ proc'[Supervisor] = r /\ Locks(Supervisor)
        /\ gate' \in Users \cup {Nobody} /\ lifecycle' \in Procs \cup {Nobody, Watcher}
    BY <1>1, <2>1, <2>3, Replaced, FreeLocks, TypeParts
  <2>6. /\ lease' \in [gen : 0..MaxRequests, role : Protocols] /\ rule' \in [Protocols -> BOOLEAN]
        /\ spent' \in [DOMAIN Bounds -> Nat] /\ lease' = lease /\ RuleLeased'
    BY <1>1, <2>1, TypeParts DEF RelayInv, RuleLeased
  <2>7. /\ TypeOK' /\ slot'.desired = slot.desired /\ slot'.health = slot.health
        /\ slot'.server = IF slot.server = Own(g) THEN NoListener ELSE slot.server
        /\ \A k \in Gens : Mild(health[k], health'[k])
    BY <1>1, <2>4, <2>5, <2>6, RemoveFacts
  <2>8. InOrder(Supervisor)'
    <3>1. g # 0
      BY <1>1 DEF Gens
    <3> QED BY <1>1, <2>1, <2>3, <2>4, <2>5, <2>7, <3>1, SupInOrder DEF Recovery, Building
  <2> QED BY <1>1, <2>1, <2>4, <2>5, <2>6, <2>7, <2>8, RemoveKeeps
<1> QED BY <1>2, <1>3

(***************************************************************************)
(* Building a listener                                                     *)
(***************************************************************************)

\* A builder is the only one: it holds relay_lifecycle and its generation has no
\* listener in the slot.
LEMMA BuilderFacts ==
    ASSUME RelayInv, NEW p \in Procs, proc[p].pc \in Building
    PROVE  /\ TypeOK /\ InOrder(p) /\ lifecycle = p /\ proc[p] \in Proc
           /\ proc[p].gen # 0 /\ proc[p].gen \in Gens /\ proc[p].gen <= generation
           /\ health[proc[p].gen] \in Health /\ slot.server.gen # proc[p].gen
           /\ \A q \in Procs : q # p => proc[q].pc \notin Building
           /\ p \in Users => p # Supervisor /\ Claimant(p) /\ slot.server = NoListener
           /\ p \notin Users => p = Supervisor
<1>1. TypeOK /\ \A q \in Procs : InOrder(q)
  BY DEF RelayInv
<1>2. proc[p] \in Proc /\ proc[p].gen \in 0..MaxRequests /\ MaxRequests \in Nat
  BY <1>1, ProcFields, SharedFields
<1>3. proc[p].gen # 0 /\ proc[p].gen <= generation
  BY <1>1 DEF InOrder, GenKnown, Placed, Recovery, Building
<1>4. lifecycle = p /\ \A q \in Procs : q # p => proc[q].pc \notin Building
  BY <1>1 DEF InOrder, Holding
<1>5. slot.server.gen # proc[p].gen /\ (p \in Users => slot.server = NoListener)
  BY <1>1 DEF InOrder, Alone
<1>6. proc[p].gen \in Gens /\ health[proc[p].gen] \in Health
  BY <1>1, <1>2, <1>3, SharedFields DEF Gens
<1>7. /\ p \in Users => p # Supervisor /\ Claimant(p)
      /\ p \notin Users => p = Supervisor
  BY RelayAssumption DEF Procs, Claimant, Placed
<1> QED BY <1>1, <1>2, <1>3, <1>4, <1>5, <1>6, <1>7

\* The attempt is over: the request is, or the supervisor waits to try again.
Ends(p) ==
    /\ Others(p) /\ Locks(p)
    /\ gate' \in Users \cup {Nobody} /\ lifecycle' \in Procs \cup {Nobody, Watcher}
    /\ proc'[p] = Idle \/ (p = Supervisor /\ proc'[p] = At(proc[p], "backoff"))

LEMMA LeaveEnds ==
    ASSUME TypeOK, NEW p \in Procs, Leave(p)
    PROVE  Ends(p)
BY LeaveFacts DEF Ends

LEMMA GiveUpEnds ==
    ASSUME RelayInv, NEW p \in Procs, proc[p].pc \in Building, GiveUp(p)
    PROVE  Ends(p) /\ events' \in Seq(Event)
<1>1. /\ TypeOK /\ proc[p].gen \in Gens /\ lifecycle = p /\ NoFault \in Faults
      /\ proc[p] \in Proc /\ "backoff" \in Pcs
  BY BuilderFacts DEF Faults, Pcs
<1>2. CASE Recovers(p)
  <2> DEFINE r == At(proc[p], "backoff")
  <2>1. /\ r \in Proc /\ proc' = [proc EXCEPT ![p] = r] /\ lifecycle' = Nobody
        /\ UNCHANGED <<gate, events>> /\ p = Supervisor
    BY <1>1, <1>2, AtFields DEF GiveUp, At, Recovers
  <2>2. Others(p) /\ proc'[p] = r
    <3> HIDE DEF r
    <3> QED BY <1>1, <2>1, Replaced
  <2>3. Locks(p) /\ gate' \in Users \cup {Nobody} /\ lifecycle' \in Procs \cup {Nobody, Watcher}
    BY <1>1, <2>1, FreeLocks, TypeParts
  <2>4. events' \in Seq(Event)
    BY <1>1, <2>1, TypeParts
  <2> QED BY <2>1, <2>2, <2>3, <2>4 DEF Ends
<1>3. CASE ~Recovers(p)
  BY <1>1, <1>3, LeaveEnds, Appended DEF GiveUp, Send
<1> QED BY <1>2, <1>3

LEMMA EndsInOrder ==
    ASSUME RelayInv, NEW p \in Procs, proc[p].pc \in Building, Ends(p), TypeOK',
           generation' = generation
    PROVE  /\ InOrder(p)'
           /\ p \in Users => ~Claimant(p)' /\ proc'[p].pc = "idle"
<1>1. CASE proc'[p] = Idle
  BY <1>1, IdleInOrder
<1>2. CASE p = Supervisor /\ proc'[p] = At(proc[p], "backoff")
  <2> DEFINE r == At(proc[p], "backoff")
  <2>1. "backoff" \in Pcs
    BY DEF Pcs
  <2>2. /\ r.pc = "backoff" /\ r.gen = proc[p].gen /\ proc[p].gen # 0
        /\ proc[p].gen <= generation
    BY <2>1, BuilderFacts, AtFields
  <2> HIDE DEF r
  <2>3. proc'[Supervisor] = r
    BY <1>2 DEF r
  <2> QED BY <1>2, <2>2, <2>3, SupInOrder, RelayAssumption DEF Recovery, Building
<1> QED BY <1>1, <1>2 DEF Ends

\* The next step of the same attempt.
LEMMA NextInOrder ==
    ASSUME RelayInv, NEW p \in Procs, proc[p].pc \in Building, NEW pc \in Building,
           Goto(p, pc), UNCHANGED <<epoch, generation, slot>>,
           pc = "store" => Candidate(p)' \in live'
    PROVE  /\ InOrder(p)' /\ Others(p) /\ Locks(p)
           /\ gate' \in Users \cup {Nobody} /\ lifecycle' \in Procs \cup {Nobody, Watcher}
           /\ proc'[p].pc = pc /\ proc'[p].epoch = proc[p].epoch
           /\ proc'[p].gen = proc[p].gen
           /\ proc'[p].want = proc[p].want
<1>1. /\ TypeOK /\ InOrder(p) /\ lifecycle = p /\ proc[p] \in Proc /\ pc \in Pcs
      /\ slot.server.gen # proc[p].gen /\ (p \in Users => slot.server = NoListener)
  BY BuilderFacts DEF Building, Pcs
<1>2. /\ Others(p) /\ Locks(p) /\ proc'[p] = At(proc[p], pc)
      /\ gate' \in Users \cup {Nobody} /\ lifecycle' \in Procs \cup {Nobody, Watcher}
      /\ gate' = gate /\ lifecycle' = lifecycle
  BY <1>1, GotoFacts
<1>3. /\ proc'[p].pc = pc /\ proc'[p].gen = proc[p].gen /\ proc'[p].op = proc[p].op
      /\ proc'[p].epoch = proc[p].epoch /\ proc'[p].intent = proc[p].intent
      /\ proc'[p].want = proc[p].want
  BY <1>1, <1>2, AtFields
<1>4. GenKnown(p)'
  BY <1>1, <1>3 DEF InOrder, GenKnown, Placed, Recovery, Building
<1>5. Holding(p)' /\ Alone(p)'
  BY <1>1, <1>2, <1>3 DEF InOrder, Holding, Alone, Building
<1>6. Prevails(p)'
  BY <1>1, <1>3 DEF InOrder, Prevails, Started, Stopped, Placed, Building
<1>7. OwnStop(p)'
  BY <1>1, <1>3 DEF InOrder, OwnStop, Building
<1> QED BY <1>2, <1>3, <1>4, <1>5, <1>6, <1>7 DEF InOrder

\* A builder's step that stores nothing: it changes its own generation's record, and
\* takes a lease only for an output that is desired.
LEMMA BuilderKeeps ==
    ASSUME RelayInv, NEW p \in Procs, proc[p].pc \in Building,
           \/ Ends(p)
           \/ \E pc \in Building : Goto(p, pc) /\ (pc = "store" => Candidate(p)' \in live'),
           UNCHANGED <<epoch, generation, slot, config, revision, watch>>,
           health' \in [Gens -> Health],
           \A k \in Gens : k # proc[p].gen => health'[k] = health[k],
           events' \in Seq(Event),
           lease' \in [gen : 0..MaxRequests, role : Protocols],
           lease' \in {lease, NoLease} \/ (lease'.gen = proc[p].gen /\ slot.desired),
           rule' \in [Protocols -> BOOLEAN], RuleLeased',
           spent' \in [DOMAIN Bounds -> Nat], spent'.requests = spent.requests,
           live' \subseteq Listener, \A l \in live' : l \in live \/ l.gen = proc[p].gen,
           Accounted' \/ (proc[p].pc # "store" /\ live' = live)
    PROVE  RelayInv'
<1>1. /\ TypeOK /\ InOrder(p) /\ lifecycle = p /\ proc[p].gen \in Gens
      /\ proc[p].gen <= generation /\ slot.server.gen # proc[p].gen
      /\ p \in Users => Claimant(p)
  BY BuilderFacts
<1>2. /\ Others(p) /\ Locks(p) /\ gate' \in Users \cup {Nobody}
      /\ lifecycle' \in Procs \cup {Nobody, Watcher}
  BY NextInOrder DEF Ends
<1>3. TypeOK'
  BY <1>1, <1>2, TypeParts, TypeKeeps
<1>4. /\ InOrder(p)'
      /\ p \in Users /\ Claimant(p)' => proc'[p].epoch = proc[p].epoch
      /\ p \in Users => proc'[p].pc \in Placed \cup {"idle"}
  BY <1>3, EndsInOrder, NextInOrder DEF Placed
<1>5. slot'.server = slot.server /\ slot'.desired = slot.desired /\ slot'.health = slot.health
  OBVIOUS
<1>6. Respects(p)
  <2>1. NoLease.gen = 0
    BY DEF NoLease
  <2> QED BY <1>1, <1>5, <2>1 DEF Respects
<1>7. Counted' /\ Unshared' /\ Watching' /\ \A q \in Procs : InOrder(q)'
  BY <1>1, <1>2, <1>3, <1>4, <1>6, StepKeeps
<1>8. Installed'
  BY <1>1, <1>5, InstalledKeeps DEF RelayInv
<1>9. Accounted'
  BY <1>1, <1>2, <1>5, AccountedKeeps
<1>10. Fenced'
  <2>1. slot.server = NoListener \/ slot.server.gen \in Gens
    BY <1>1, SharedFields DEF RelayInv, Installed, Gens
  <2>2. slot'.desired \in BOOLEAN /\ \A k \in Gens : health[k] \in Health
    BY <1>1, <1>5, SharedFields
  <2> QED BY <1>1, <1>5, <2>1, <2>2, MildRefl, FencedKeeps
<1> QED BY <1>3, <1>7, <1>8, <1>9, <1>10 DEF RelayInv

LEMMA CheckKeeps ==
    ASSUME RelayInv, NEW p \in Procs, Check(p)
    PROVE  RelayInv'
<1>1. proc[p].pc = "check" /\ proc[p].pc \in Building /\ "preflight" \in Building
  BY DEF Check, Building
<1>2. TypeOK /\ Calm
  BY StayCalm DEF RelayInv, Check
<1>3. CASE Leave(p)
  BY <1>1, <1>2, <1>3, CalmLeave
<1>4. CASE Goto(p, "preflight")
  <2>1. RuleLeased'
    BY DEF Check, RelayInv, RuleLeased
  <2> QED BY <1>1, <1>2, <1>4, <2>1, TypeParts, BuilderKeeps DEF Check
<1> QED BY <1>3, <1>4 DEF Check

\* What a failed preparation records keeps the health record's type.
LEMMA UnpreparedTyped ==
    ASSUME RelayInv, NEW p \in Procs, proc[p].pc \in Building
    PROVE  Unprepared(p) \subseteq Health
<1> DEFINE r == health[proc[p].gen]
           b == BeginServerInstance(r, Recovers(p))
<1>1. r \in Health /\ Recovers(p) \in BOOLEAN
  BY BuilderFacts DEF Recovers
<1>2. b \in Health /\ MarkResolutionFailed(r) \in Health
  BY <1>1, BeginInstance, MarksMild DEF Mild, Same
<1> HIDE DEF b
<1>3. MarkBuildFailed(b, r.inst + 1, FALSE) \in Health
  BY <1>2, BuildFailed
<1> QED BY <1>2, <1>3 DEF Unprepared, b

LEMMA PreflightKeeps ==
    ASSUME RelayInv, NEW p \in Procs, Preflight(p)
    PROVE  RelayInv'
<1> DEFINE g == proc[p].gen
<1>1. /\ proc[p].pc = "preflight" /\ proc[p].pc \in Building /\ "firewall" \in Building
      /\ TypeOK /\ g \in Gens /\ health \in [Gens -> Health] /\ health[g] \in Health
  <2>1. proc[p].pc = "preflight" /\ proc[p].pc \in Building /\ "firewall" \in Building
    BY DEF Preflight, Building
  <2> QED BY <2>1, BuilderFacts, TypeParts
<1>2. CASE Leave(p) /\ UNCHANGED <<health, events, spent>>
  <2>1. Calm
    BY <1>2, StayCalm DEF Preflight
  <2> QED BY <1>1, <1>2, <2>1, CalmLeave
<1>3. CASE Goto(p, "firewall") /\ UNCHANGED <<health, events, spent>>
  <2>1. RuleLeased'
    BY DEF Preflight, RelayInv, RuleLeased
  <2> QED BY <1>1, <1>3, <2>1, TypeParts, BuilderKeeps DEF Preflight
<1>4. CASE /\ GiveUp(p)
           /\ health' = health \/ \E x \in Health : health' = [health EXCEPT ![g] = x]
           /\ UNCHANGED spent \/ Spend("failures")
  <2>1. Ends(p) /\ events' \in Seq(Event)
    BY <1>1, <1>4, GiveUpEnds
  <2>2. health' \in [Gens -> Health] /\ \A k \in Gens : k # g => health'[k] = health[k]
    <3> HIDE DEF g
    <3> QED BY <1>1, <1>4
  <2>3. spent' \in [DOMAIN Bounds -> Nat] /\ spent'.requests = spent.requests
    BY <1>1, <1>4, TypeParts, SpendFacts, BoundNames
  <2>4. RuleLeased'
    BY DEF Preflight, RelayInv, RuleLeased
  <2> QED BY <1>1, <2>1, <2>2, <2>3, <2>4, TypeParts, BuilderKeeps DEF Preflight
<1>5. \A x \in Unprepared(p) : x \in Health
  BY <1>1, UnpreparedTyped
<1>6. MarkResolutionFailed(health[g]) \in Health
  BY <1>1, MarksMild DEF Mild, Same
<1> QED BY <1>2, <1>3, <1>4, <1>5, <1>6 DEF Preflight

LEMMA ApplyFirewallKeeps ==
    ASSUME RelayInv, NEW p \in Procs, ApplyFirewall(p)
    PROVE  RelayInv'
<1> DEFINE role == proc[p].want.protocol
           off == [r \in Protocols |-> rule[r] /\ ~(lease.gen # 0 /\ r = lease.role)]
<1>1. /\ proc[p].pc = "firewall" /\ proc[p].pc \in Building /\ "recheck" \in Building
      /\ TypeOK /\ proc[p].gen \in Gens /\ proc[p].gen # 0 /\ role \in Protocols
      /\ proc[p].gen \in 0..MaxRequests
  <2>1. proc[p].pc = "firewall" /\ proc[p].pc \in Building /\ "recheck" \in Building
    BY DEF ApplyFirewall, Building
  <2> QED BY <2>1, BuilderFacts, ProcFields
<1>2. /\ rule \in [Protocols -> BOOLEAN] /\ lease \in [gen : 0..MaxRequests, role : Protocols]
      /\ RuleLeased /\ MaxRequests \in Nat
  BY <1>1, TypeParts, RelayAssumption DEF RelayInv
<1>3. off \in [Protocols -> BOOLEAN] /\ \A r \in Protocols : ~off[r]
  BY <1>2 DEF RuleLeased
<1>4. spent' \in [DOMAIN Bounds -> Nat] /\ spent'.requests = spent.requests
  BY <1>1, TypeParts, SpendFacts, BoundNames DEF ApplyFirewall
<1>5. NoLease \in [gen : 0..MaxRequests, role : Protocols] /\ NoLease.gen = 0
  BY <1>2 DEF NoLease, Protocols
<1>6. /\ lease' \in [gen : 0..MaxRequests, role : Protocols]
      /\ lease' \in {lease, NoLease} \/ (lease'.gen = proc[p].gen /\ slot.desired)
      /\ rule' \in [Protocols -> BOOLEAN] /\ RuleLeased'
  <2>1. CASE lease' = lease /\ rule' \in {rule, off}
    BY <1>2, <1>3, <2>1 DEF RuleLeased
  <2>2. CASE lease' = NoLease /\ rule' = off
    BY <1>2, <1>3, <1>5, <2>2 DEF RuleLeased
  <2>3. CASE /\ IsGeneration(proc[p].gen) /\ lease' = [gen |-> proc[p].gen, role |-> role]
             /\ \E on \in BOOLEAN : rule' = [off EXCEPT ![role] = on]
    <3>1. PICK on \in BOOLEAN : rule' = [off EXCEPT ![role] = on]
      BY <2>3
    <3> HIDE DEF off
    <3>2. rule' \in [Protocols -> BOOLEAN] /\ \A r \in Protocols : rule'[r] => r = role
      BY <1>1, <1>3, <3>1
    <3>3. /\ lease' \in [gen : 0..MaxRequests, role : Protocols]
          /\ lease'.gen = proc[p].gen /\ lease'.role = role
      BY <1>1, <2>3
    <3>4. slot.desired
      BY <2>3 DEF IsGeneration
    <3> QED BY <1>1, <3>2, <3>3, <3>4 DEF RuleLeased
  <2> QED BY <2>1, <2>2, <2>3 DEF ApplyFirewall
<1>7. /\ Goto(p, "recheck")
      /\ UNCHANGED <<epoch, generation, slot, health, live, events, config, revision, watch>>
  BY DEF ApplyFirewall
<1> HIDE DEF off, role
<1>8. /\ events' \in Seq(Event) /\ live' \subseteq Listener /\ health' \in [Gens -> Health]
      /\ live' = live /\ proc[p].pc # "store"
  BY <1>1, <1>7, TypeParts
<1> QED BY <1>1, <1>4, <1>6, <1>7, <1>8, BuilderKeeps

LEMMA RecheckKeeps ==
    ASSUME RelayInv, NEW p \in Procs, Recheck(p)
    PROVE  RelayInv'
<1> DEFINE g == proc[p].gen
<1>1. /\ proc[p].pc = "recheck" /\ proc[p].pc \in Building /\ "build" \in Building
      /\ TypeOK /\ g \in Gens /\ health \in [Gens -> Health] /\ health[g] \in Health
      /\ RuleLeased /\ spent \in [DOMAIN Bounds -> Nat]
  <2>1. proc[p].pc = "recheck" /\ proc[p].pc \in Building /\ "build" \in Building
    BY DEF Recheck, Building
  <2> QED BY <2>1, BuilderFacts, TypeParts DEF RelayInv
<1>2. CASE Goto(p, "build") /\ UNCHANGED <<lease, rule, spent, health, events>>
  <2>1. RuleLeased'
    BY <1>1, <1>2 DEF RuleLeased
  <2> QED BY <1>1, <1>2, <2>1, TypeParts, BuilderKeeps DEF Recheck
<1>3. CASE /\ RetireFirewall({g}, spent)
           /\ \/ GiveUp(p)
              \/ Leave(p) /\ UNCHANGED events
           /\ health' \in {health, [health EXCEPT ![g] = MarkResolutionFailed(@)]}
  <2>1. Ends(p) /\ events' \in Seq(Event)
    BY <1>1, <1>3, GiveUpEnds, LeaveEnds, TypeParts
  <2>2. health' \in [Gens -> Health] /\ \A k \in Gens : k # g => health'[k] = health[k]
    <3>1. MarkResolutionFailed(health[g]) \in Health
      BY <1>1, MarksMild DEF Mild, Same
    <3> HIDE DEF g
    <3> QED BY <1>1, <1>3, <3>1
  <2>3. /\ lease' \in {lease, NoLease} /\ lease' \in [gen : 0..MaxRequests, role : Protocols]
        /\ rule' \in [Protocols -> BOOLEAN] /\ RuleLeased'
        /\ spent' \in [DOMAIN Bounds -> Nat] /\ spent'.requests = spent.requests
    BY <1>1, <1>3, RetireFacts
  <2> QED BY <1>1, <2>1, <2>2, <2>3, TypeParts, BuilderKeeps DEF Recheck
<1> QED BY <1>2, <1>3 DEF Recheck

LEMMA BuildKeeps ==
    ASSUME RelayInv, NEW p \in Procs, Build(p)
    PROVE  RelayInv'
<1> DEFINE g == proc[p].gen
           role == proc[p].want.protocol
           begun == BeginServerInstance(health[g], Recovers(p))
           fed == IF role = "srt" THEN BeginDataGeneration(begun, begun.inst) ELSE begun
           up == LoopStarted(fed, begun.inst)
<1>1. /\ proc[p].pc = "build" /\ proc[p].pc \in Building /\ "store" \in Building
      /\ TypeOK /\ g \in Gens /\ health \in [Gens -> Health] /\ health[g] \in Health
      /\ RuleLeased /\ spent \in [DOMAIN Bounds -> Nat] /\ role \in Protocols
      /\ g \in 0..MaxRequests
  <2>1. proc[p].pc = "build" /\ proc[p].pc \in Building /\ "store" \in Building
    BY DEF Build, Building
  <2> QED BY <2>1, BuilderFacts, ProcFields, TypeParts DEF RelayInv
<1>2. begun \in Health /\ begun.inst \in Nat
  <2>1. begun \in Health
    BY <1>1, BeginInstance DEF Recovers
  <2> HIDE DEF begun
  <2> QED BY <2>1 DEF Health
<1>3. CASE /\ health' = [health EXCEPT ![g] = MarkBuildFailed(begun, begun.inst, FALSE)]
           /\ RetireFirewall({g}, [spent EXCEPT !.failures = @ + 1])
           /\ GiveUp(p) /\ UNCHANGED live
  <2>1. Ends(p) /\ events' \in Seq(Event)
    BY <1>1, <1>3, GiveUpEnds
  <2>2. health' \in [Gens -> Health] /\ \A k \in Gens : k # g => health'[k] = health[k]
    <3> HIDE DEF g, begun
    <3>1. MarkBuildFailed(begun, begun.inst, FALSE) \in Health
      BY <1>2, BuildFailed
    <3> QED BY <1>1, <1>3, <3>1
  <2> DEFINE used == [spent EXCEPT !.failures = @ + 1]
  <2>3. used \in [DOMAIN Bounds -> Nat] /\ used.requests = spent.requests
    <3>1. spent["failures"] \in Nat /\ {"failures", "requests"} \subseteq DOMAIN Bounds
      BY <1>1 DEF Bounds
    <3> QED BY <1>1, <3>1
  <2> HIDE DEF used
  <2>4. /\ lease' \in {lease, NoLease} /\ lease' \in [gen : 0..MaxRequests, role : Protocols]
        /\ rule' \in [Protocols -> BOOLEAN] /\ RuleLeased'
        /\ spent' \in [DOMAIN Bounds -> Nat] /\ spent'.requests = spent.requests
    <3>1. RetireFirewall({g}, used)
      BY <1>3 DEF used
    <3> QED BY <1>1, <2>3, <3>1, RetireFacts
  <2> QED BY <1>1, <1>3, <2>1, <2>2, <2>4, TypeParts, BuilderKeeps DEF Build
<1>4. CASE /\ health' = [health EXCEPT ![g] = MarkListenerBound(up, begun.inst)]
           /\ live' = live \cup {[gen |-> g, inst |-> begun.inst, role |-> role]}
           /\ Goto(p, "store")
           /\ UNCHANGED <<lease, rule, events, spent>>
  <2>1. MarkListenerBound(up, begun.inst) \in Health
        /\ MarkListenerBound(up, begun.inst).inst = begun.inst
    <3> HIDE DEF begun
    <3>1. fed \in Health /\ fed.inst = begun.inst
      BY <1>2, BeginData
    <3> HIDE DEF fed
    <3>2. up \in Health /\ up.inst = begun.inst
      BY <3>1, LoopRuns
    <3> HIDE DEF up
    <3> QED BY <3>2, ListenerBound
  <2> DEFINE y == MarkListenerBound(up, begun.inst)
             c == [gen |-> g, inst |-> begun.inst, role |-> role]
  <2>2. y \in Health /\ y.inst = begun.inst /\ c \in Listener /\ c.gen = g
        /\ health' = [health EXCEPT ![g] = y] /\ live' = live \cup {c}
    BY <1>1, <1>2, <1>4, <2>1 DEF Listener
  <2> HIDE DEF y
  <2>3. /\ health' \in [Gens -> Health] /\ \A k \in Gens : k # g => health'[k] = health[k]
        /\ health'[g].inst = begun.inst
    <3> HIDE DEF g
    <3> QED BY <1>1, <2>2
  <2>4. proc' = [proc EXCEPT ![p] = At(proc[p], "store")] /\ "store" \in Pcs
        /\ proc[p] \in Proc /\ proc \in [Procs -> Proc]
    BY <1>1, <1>4, ProcFields, TypeParts DEF Goto, At, Pcs
  <2>5. proc'[p].pc = "store" /\ proc'[p].gen = g /\ proc'[p].want = proc[p].want
    <3>1. proc'[p] = At(proc[p], "store")
      BY <2>4
    <3> QED BY <2>4, <3>1, AtFields
  <2>6. Candidate(p)' = c
    BY <2>3, <2>5 DEF Candidate
  <2>7. \A l \in live : l = slot.server
    <3>1. \A q \in Procs : proc[q].pc # "store"
      BY <1>1, BuilderFacts
    <3> QED BY <3>1 DEF RelayInv, Accounted
  <2>8. Accounted'
    <3>1. slot' = slot
      BY DEF Build
    <3> HIDE DEF c
    <3> QED BY <2>2, <2>5, <2>6, <2>7, <3>1 DEF Accounted
  <2>9. /\ live' \subseteq Listener /\ \A l \in live' : l \in live \/ l.gen = g
        /\ Candidate(p)' \in live'
    <3> HIDE DEF c
    <3> QED BY <1>1, <2>2, <2>6, TypeParts
  <2>10. RuleLeased'
    BY <1>1, <1>4 DEF RuleLeased
  <2> QED BY <1>1, <1>4, <2>3, <2>8, <2>9, <2>10, TypeParts, BuilderKeeps DEF Build
<1> QED BY <1>3, <1>4 DEF Build

LEMMA StoreKeeps ==
    ASSUME RelayInv, NEW p \in Procs, Store(p)
    PROVE  RelayInv'
<1> DEFINE g == proc[p].gen
           cand == Candidate(p)
           shut == ShutDown(health, cand)
<1>1. /\ proc[p].pc = "store" /\ proc[p].pc \in Building /\ InOrder(p) /\ lifecycle = p
      /\ TypeOK /\ g \in Gens /\ g # 0 /\ g <= generation /\ health \in [Gens -> Health]
      /\ RuleLeased /\ spent \in [DOMAIN Bounds -> Nat] /\ proc[p].scope \in Scopes
      /\ proc[p].want \in Settings /\ proc[p].want.protocol \in Protocols
      /\ health[g] \in Health /\ slot.server.gen # g /\ g \in 0..MaxRequests
      /\ p \in Users => Claimant(p)
  <2>1. proc[p].pc = "store" /\ proc[p].pc \in Building
    BY DEF Store, Building
  <2> QED BY <2>1, BuilderFacts, ProcFields, TypeParts DEF RelayInv
<1>2. cand \in Listener /\ cand.gen = g /\ cand \in live
  <2>1. health[g].inst \in Nat
    BY <1>1 DEF Health
  <2> QED BY <1>1, <2>1 DEF Candidate, Listener, InOrder, Alone
<1>3. \A l \in live : l = slot.server \/ l = cand
  <2>1. \A q \in Procs : proc[q].pc = "store" => q = p
    BY <1>1, BuilderFacts
  <2> QED BY <2>1 DEF RelayInv, Accounted
<1>4. CASE /\ Stores(p) /\ Leave(p) /\ UNCHANGED <<lease, rule, spent, health, events>>
           /\ live' = live \ {slot.server}
           /\ slot' = [slot EXCEPT !.server = cand,
                        !.spec = IF Recovers(p)
                                 THEN [cfg |-> proc[p].want, scope |-> proc[p].scope,
                                       set |-> TRUE]
                                 ELSE @]
  <2> DEFINE sp == IF Recovers(p)
                   THEN [cfg |-> proc[p].want, scope |-> proc[p].scope, set |-> TRUE]
                   ELSE slot.spec
  <2>1. /\ slot \in [desired : BOOLEAN, spec : SpecRec, health : 0..MaxRequests,
                     intent : Nat, server : Listener]
        /\ sp \in SpecRec /\ slot' = [slot EXCEPT !.server = cand, !.spec = sp]
    <3>1. slot \in [desired : BOOLEAN, spec : SpecRec, health : 0..MaxRequests,
                    intent : Nat, server : Listener]
      BY <1>1, TypeParts
    <3> QED BY <1>1, <1>4, <3>1 DEF SpecRec
  <2> HIDE DEF cand, sp
  <2>2. /\ slot' \in [desired : BOOLEAN, spec : SpecRec, health : 0..MaxRequests,
                      intent : Nat, server : Listener]
        /\ slot'.desired = slot.desired /\ slot'.health = slot.health /\ slot'.server = cand
    BY <1>2, <2>1
  <2>3. slot.desired /\ slot.health # 0
    BY <1>1, <1>4 DEF Stores, IsCurrent, IsGeneration
  <2>4. /\ Others(p) /\ Locks(p) /\ proc'[p] = Idle
        /\ gate' \in Users \cup {Nobody} /\ lifecycle' \in Procs \cup {Nobody, Watcher}
    BY <1>1, <1>4, LeaveFacts
  <2>5. UNCHANGED <<epoch, generation, config, revision, watch>>
    BY DEF Store
  <2>6. TypeOK'
    BY <1>1, <1>4, <2>2, <2>4, <2>5, TypeParts, TypeKeeps
  <2>7. InOrder(p)' /\ ~Claimant(p)' /\ proc'[p].pc = "idle"
    BY <2>4, <2>6, IdleInOrder
  <2>8. Respects(p)
    BY <1>1, <1>4, <2>2, <2>3 DEF Respects
  <2>9. Counted' /\ Unshared' /\ Watching' /\ \A q \in Procs : InOrder(q)'
    BY <1>4, <2>4, <2>5, <2>6, <2>7, <2>8, StepKeeps
  <2>10. Installed'
    BY <1>1, <1>2, <1>4, <2>2, <2>5, InstalledKeeps DEF RelayInv
  <2>11. Accounted'
    BY <1>3, <1>4, <2>2 DEF Accounted
  <2>12. RuleLeased' /\ Fenced'
    BY <1>1, <1>4, <2>2, <2>3, <2>5 DEF RuleLeased, Fenced
  <2> QED BY <2>6, <2>9, <2>10, <2>11, <2>12 DEF RelayInv
<1>5. CASE /\ live' = live \ {cand} /\ RetireFirewall({g}, spent) /\ UNCHANGED slot
           /\ health' \in {shut, [shut EXCEPT ![g] = MarkResolutionFailed(@)]}
           /\ \/ GiveUp(p)
              \/ Leave(p) /\ UNCHANGED events
  <2>1. Ends(p) /\ events' \in Seq(Event)
    BY <1>1, <1>5, GiveUpEnds, LeaveEnds, TypeParts
  <2>2. health' \in [Gens -> Health] /\ \A k \in Gens : k # g => health'[k] = health[k]
    <3>1. shut \in [Gens -> Health] /\ \A k \in Gens : k # g => shut[k] = health[k]
      BY <1>1, <1>2, ShutDownMild
    <3> HIDE DEF shut, g, cand
    <3>2. MarkResolutionFailed(shut[g]) \in Health
      BY <1>1, <3>1, MarksMild DEF Mild, Same
    <3> QED BY <1>1, <1>5, <3>1, <3>2
  <2>3. /\ lease' \in {lease, NoLease} /\ lease' \in [gen : 0..MaxRequests, role : Protocols]
        /\ rule' \in [Protocols -> BOOLEAN] /\ RuleLeased'
        /\ spent' \in [DOMAIN Bounds -> Nat] /\ spent'.requests = spent.requests
    BY <1>1, <1>5, RetireFacts
  <2> HIDE DEF cand, shut
  <2>4. live' \subseteq live /\ live' \subseteq Listener
    BY <1>1, <1>5, TypeParts
  <2>5. Accounted'
    BY <1>3, <1>5 DEF Accounted
  <2> QED BY <1>1, <1>5, <2>1, <2>2, <2>3, <2>4, <2>5, BuilderKeeps DEF Store
<1> QED BY <1>4, <1>5 DEF Store

(***************************************************************************)
(* Media callbacks and the topology watcher                                *)
(***************************************************************************)

WatchRec == [pc : {"idle", "observe", "apply", "mark"}, rev : Nat, known : BOOLEAN,
             gen : 0..MaxRequests, inst : Nat]

\* A step of no process: the listeners and their records' instances stay.
LEMMA AsideKeeps ==
    ASSUME RelayInv,
           UNCHANGED <<epoch, generation, lease, live, rule, gate, config, proc>>,
           slot' \in [desired : BOOLEAN, spec : SpecRec, health : 0..MaxRequests,
                      intent : Nat, server : Listener],
           slot'.desired = slot.desired, slot'.health = slot.health,
           slot'.server = slot.server,
           health' \in [Gens -> Health], \A g \in Gens : health'[g].inst = health[g].inst,
           lifecycle' \in Procs \cup {Nobody, Watcher},
           \A q \in Procs : lifecycle = q => lifecycle' = q,
           events' \in Seq(Event), revision' \in Nat, watch' \in WatchRec,
           spent' \in [DOMAIN Bounds -> Nat], spent'.requests = spent.requests,
           Watching', Fenced'
    PROVE  RelayInv'
<1>1. TypeOK /\ Installed /\ Counted /\ Accounted /\ RuleLeased /\ Unshared
      /\ \A p \in Procs : InOrder(p)
  BY DEF RelayInv
<1>2. TypeOK'
  <2>1. /\ epoch' \in Nat /\ generation' \in 0..MaxRequests
        /\ lease' \in [gen : 0..MaxRequests, role : Protocols]
        /\ live' \subseteq Listener /\ rule' \in [Protocols -> BOOLEAN]
        /\ gate' \in Users \cup {Nobody} /\ config' \in Settings
        /\ proc' \in [Procs -> Proc]
    BY <1>1, TypeParts
  <2> QED BY <2>1, Zenon DEF TypeOK, SpecRec, Event, WatchRec
<1>3. Installed' /\ Counted' /\ RuleLeased' /\ Unshared'
  <2>1. Pending' = Pending
    BY DEF Pending
  <2>2. Installed' /\ Counted'
    BY <1>1, <2>1 DEF Installed, Counted
  <2>3. RuleLeased' /\ Unshared'
    BY <1>1 DEF RuleLeased, Unshared, Claimant
  <2> QED BY <2>2, <2>3
<1>4. \A p \in Procs : proc[p].pc = "store" => Candidate(p)' = Candidate(p)
  <2> SUFFICES ASSUME NEW p \in Procs, proc[p].pc = "store"
               PROVE  Candidate(p)' = Candidate(p)
    OBVIOUS
  <2>1. proc[p].gen \in Gens
    BY BuilderFacts DEF Building
  <2> QED BY <2>1 DEF Candidate
<1>5. Accounted'
  BY <1>1, <1>4 DEF Accounted
<1>6. \A p \in Procs : InOrder(p)'
  <2> SUFFICES ASSUME NEW p \in Procs PROVE InOrder(p)'
    OBVIOUS
  <2>1. InOrder(p)
    BY <1>1
  <2>2. GenKnown(p)' /\ Holding(p)' /\ Alone(p)'
    BY <1>4, <2>1 DEF InOrder, GenKnown, Holding, Alone
  <2>3. Prevails(p)' /\ OwnStop(p)'
    BY <2>1 DEF InOrder, Prevails, OwnStop, Started, Stopped
  <2> QED BY <2>2, <2>3 DEF InOrder
<1> QED BY <1>2, <1>3, <1>5, <1>6 DEF RelayInv

\* A callback of a listener that exists.
LEMMA MediaKeeps ==
    ASSUME RelayInv, NEW l \in live, NEW x, Media(l, x),
           \/ Mild(health[l.gen], x)
           \/ Same(health[l.gen], x) /\ l.role # "srt",
           events' \in Seq(Event), UNCHANGED spent \/ Spend("media") \/ Spend("changes")
    PROVE  RelayInv'
<1>1. /\ TypeOK /\ l.gen \in Gens /\ health \in [Gens -> Health]
      /\ x \in Health /\ x.inst = health[l.gen].inst
  <2>1. TypeOK /\ l.gen # 0 /\ l.gen \in 0..MaxRequests /\ MaxRequests \in Nat
    <3>1. l \in Listener /\ l.gen # 0 /\ TypeOK /\ MaxRequests \in Nat
      BY TypeParts, RelayAssumption DEF RelayInv, Installed
    <3> QED BY <3>1 DEF Listener
  <2> QED BY <2>1, TypeParts DEF Gens, Mild, Same
<1>2. /\ health' = [health EXCEPT ![l.gen] = x]
      /\ UNCHANGED <<epoch, generation, slot, lease, live, rule, gate, lifecycle,
                     config, revision, proc, watch>>
  BY DEF Media
<1>3. health' \in [Gens -> Health] /\ \A g \in Gens : health'[g].inst = health[g].inst
  BY <1>1, <1>2
<1>4. spent' \in [DOMAIN Bounds -> Nat] /\ spent'.requests = spent.requests
  BY <1>1, TypeParts, SpendFacts, BoundNames
<1>5. watch' \in WatchRec /\ revision' \in Nat
  BY <1>1, <1>2 DEF TypeOK, WatchRec
<1>6. Watching'
  BY <1>2 DEF RelayInv, Watching
<1>7. l.gen = slot.server.gen => l = slot.server
  <2>1. \A q \in Procs : proc[q].pc = "store" => Candidate(q).gen # slot.server.gen
    BY BuilderFacts DEF Candidate, Building
  <2> QED BY <2>1 DEF RelayInv, Accounted
<1>8. Fenced'
  <2>1. slot.server = NoListener \/ slot.server.gen \in Gens
    BY <1>1, SharedFields DEF RelayInv, Installed, Gens
  <2>2. slot.desired \in BOOLEAN
    BY <1>1, SharedFields
  <2>3. CASE slot.server.gen = l.gen
    <3>1. health'[slot.server.gen] = x /\ slot.server = l
      BY <1>1, <1>2, <1>7, <2>3
    <3> QED BY <1>2, <2>2, <2>3, <3>1, FencedKeeps
  <2>4. CASE slot.server.gen # l.gen
    <3>1. slot.server = NoListener \/ Mild(health[slot.server.gen], health'[slot.server.gen])
      BY <1>1, <1>2, <2>1, <2>4, MildRefl
    <3> QED BY <1>2, <2>2, <3>1, FencedKeeps
  <2> QED BY <2>3, <2>4
<1> QED BY <1>1, <1>2, <1>3, <1>4, <1>5, <1>6, <1>8, TypeParts, AsideKeeps

LEMMA CallbackKeeps ==
    ASSUME RelayInv, Callback
    PROVE  RelayInv'
<1>1. PICK l \in live : \/ MediaBegins(l) \/ MediaPlays(l) \/ MediaEnds(l)
                        \/ MediaFaults(l) \/ MediaRefused(l)
  BY DEF Callback
<1>2. TypeOK /\ events \in Seq(Event) /\ l.inst \in Nat /\ l.gen \in Gens
      /\ health[l.gen] \in Health
  <2>1. TypeOK /\ l \in Listener /\ l.gen # 0 /\ MaxRequests \in Nat
    BY TypeParts, RelayAssumption DEF RelayInv, Installed
  <2>2. l.gen \in Gens /\ l.inst \in Nat
    BY <2>1 DEF Listener, Gens
  <2> QED BY <2>1, <2>2, TypeParts
<1> DEFINE x == health[l.gen]
<1>3. CASE MediaBegins(l)
  BY <1>2, <1>3, BeginSame, MediaKeeps DEF MediaBegins
<1>4. CASE MediaPlays(l)
  BY <1>2, <1>4, PlaysMild, MediaKeeps DEF MediaPlays
<1>5. CASE MediaEnds(l)
  BY <1>2, <1>5, EndMild, MediaKeeps DEF MediaEnds
<1>6. CASE MediaFaults(l)
  <2>1. PICK f \in {ReportFault(x, l.inst, x.active, "GstError"),
                    ReportFault(x, l.inst, x.active, "PermanentGstError"),
                    LoopExited(x, l.inst, FALSE)} :
             Spend("changes") /\ Media(l, f) /\ Send(FaultEvent(l.gen, f.fault))
    BY <1>6 DEF MediaFaults
  <2>2. {"GstError", "PermanentGstError"} \subseteq FaultKinds
    BY DEF FaultKinds
  <2>3. Mild(x, f)
    BY <1>2, <2>2, FaultsMild, ExitMild
  <2>4. f.fault \in Faults
    BY <2>3 DEF Mild, Same, Health
  <2>5. events' \in Seq(Event)
    BY <1>2, <2>1, <2>4, Appended DEF Send
  <2> QED BY <2>1, <2>3, <2>5, MediaKeeps
<1>7. CASE MediaRefused(l)
  <2>1. NoFault \in Faults
    BY DEF Faults
  <2>2. events' \in Seq(Event)
    BY <1>2, <1>7, <2>1, Appended DEF MediaRefused, Send
  <2> QED BY <1>2, <1>7, <2>2, BuildFailedMild, MediaKeeps DEF MediaRefused
<1> QED BY <1>1, <1>3, <1>4, <1>5, <1>6, <1>7

LEMMA WatchTyped ==
    ASSUME RelayInv
    PROVE  /\ TypeOK /\ watch \in WatchRec /\ revision \in Nat /\ watch.rev \in Nat
           /\ watch.known \in BOOLEAN /\ watch.gen \in 0..MaxRequests /\ MaxRequests \in Nat
           /\ IdleWatch.gen = 0 /\ IdleWatch.pc = "idle"
           /\ \A b \in BOOLEAN : [IdleWatch EXCEPT !.known = b] \in WatchRec
<1>1. TypeOK /\ watch \in WatchRec /\ revision \in Nat /\ MaxRequests \in Nat
  BY RelayAssumption DEF RelayInv, TypeOK, WatchRec
<1>2. 0 \in 0..MaxRequests
  BY <1>1
<1> QED BY <1>1, <1>2 DEF WatchRec, IdleWatch

\* The records stay as they are, and so does the fence.
LEMMA StillFenced ==
    ASSUME RelayInv, UNCHANGED <<generation, health>>, slot'.desired = slot.desired,
           slot'.health = slot.health, slot'.server = slot.server
    PROVE  Fenced'
BY DEF RelayInv, Fenced

LEMMA TopologyKeeps ==
    ASSUME RelayInv, TopologyPolled \/ TopologyChanged
    PROVE  RelayInv'
<1>1. PICK known \in BOOLEAN : Observe(known)
  BY DEF TopologyPolled, TopologyChanged
<1>2. /\ watch' = [IdleWatch EXCEPT !.pc = "observe", !.rev = revision', !.known = known]
      /\ UNCHANGED <<epoch, generation, slot, lease, health, live, rule, gate,
                     lifecycle, events, config, proc>>
      /\ revision' \in {revision, revision + 1}
      /\ UNCHANGED spent \/ Spend("changes")
  BY <1>1 DEF Observe, TopologyPolled, TopologyChanged
<1>3. revision' \in Nat
  BY <1>2, WatchTyped
<1>4. watch' \in WatchRec /\ watch'.pc = "observe" /\ watch'.gen = 0
  <2>1. 0 \in 0..MaxRequests
    BY RelayAssumption
  <2> QED BY <1>2, <1>3, <2>1 DEF IdleWatch, WatchRec
<1>5. Watching' /\ Fenced'
  <2>1. generation \in Nat
    BY WatchTyped, SharedFields
  <2> QED BY <1>2, <1>4, <2>1, StillFenced DEF Watching
<1>6. spent' \in [DOMAIN Bounds -> Nat] /\ spent'.requests = spent.requests
  BY <1>2, WatchTyped, TypeParts, SpendFacts, BoundNames
<1> QED BY <1>2, <1>3, <1>4, <1>5, <1>6, WatchTyped, TypeParts, AsideKeeps

LEMMA WatchCaptureKeeps ==
    ASSUME RelayInv, WatchCapture
    PROVE  RelayInv'
<1>1. UNCHANGED <<epoch, generation, slot, lease, health, live, rule, gate,
                  lifecycle, events, config, revision, proc, spent>>
  BY DEF WatchCapture
<1>2. /\ TypeOK /\ watch \in WatchRec /\ generation \in Nat /\ slot.health \in 0..MaxRequests
      /\ slot.health \in {0, generation} /\ health \in [Gens -> Health] /\ MaxRequests \in Nat
  BY WatchTyped, SharedFields, TypeParts DEF RelayInv, Installed
<1>3. watch' \in WatchRec /\ Watching'
  <2>1. CASE Due
    <3> DEFINE n == health[slot.health].inst
    <3>1. slot.health # 0 /\ watch' = [watch EXCEPT !.pc = "apply", !.gen = slot.health,
                                                    !.inst = n]
      BY <2>1 DEF Due, WatchCapture
    <3>2. n \in Nat
      <4>1. slot.health \in Gens
        BY <1>2, <3>1 DEF Gens
      <4> QED BY <1>2, <4>1 DEF Health
    <3> HIDE DEF n
    <3>3. watch' \in WatchRec /\ watch'.pc = "apply" /\ watch'.gen = slot.health
      BY <1>2, <3>1, <3>2 DEF WatchRec
    <3> QED BY <1>1, <1>2, <3>1, <3>3 DEF Watching
  <2>2. CASE WatchDone
    BY <1>1, <1>2, <2>2, WatchTyped DEF WatchDone, Watching, IdleWatch
  <2> QED BY <2>1, <2>2 DEF WatchCapture
<1>4. Fenced'
  BY <1>1, StillFenced
<1> QED BY <1>1, <1>3, <1>4, WatchTyped, TypeParts, AsideKeeps

LEMMA WatchApplyKeeps ==
    ASSUME RelayInv, WatchApply
    PROVE  RelayInv'
<1>1. /\ UNCHANGED <<epoch, generation, lease, health, live, rule, gate, events,
                     config, revision, proc>>
      /\ lifecycle = Nobody /\ watch.pc = "apply"
  BY DEF WatchApply
<1>2. /\ TypeOK /\ watch \in WatchRec /\ generation \in Nat /\ revision \in Nat
      /\ watch.gen <= generation /\ watch.gen # 0
      /\ slot \in [desired : BOOLEAN, spec : SpecRec, health : 0..MaxRequests,
                   intent : Nat, server : Listener]
  BY <1>1, WatchTyped, SharedFields, TypeParts DEF RelayInv, Watching
<1>3. /\ slot' \in [desired : BOOLEAN, spec : SpecRec, health : 0..MaxRequests,
                    intent : Nat, server : Listener]
      /\ slot'.desired = slot.desired /\ slot'.health = slot.health
      /\ slot'.server = slot.server
  <2>1. PICK s \in Scopes : slot' = slot \/ slot' = [slot EXCEPT !.spec.scope = s]
    <3>1. {Unknown, revision} \subseteq Scopes
      BY <1>2 DEF Scopes
    <3> QED BY <3>1 DEF WatchApply
  <2>2. [slot.spec EXCEPT !.scope = s] \in SpecRec
    BY <1>2 DEF SpecRec
  <2>3. slot' = slot \/ slot' = [slot EXCEPT !.spec = [slot.spec EXCEPT !.scope = s]]
    BY <1>2, <2>1
  <2> DEFINE sp == [slot.spec EXCEPT !.scope = s]
  <2> HIDE DEF sp
  <2>4. slot' = slot \/ slot' = [slot EXCEPT !.spec = sp]
    BY <2>3 DEF sp
  <2>5. sp \in SpecRec
    BY <2>2 DEF sp
  <2> HIDE DEF SpecRec
  <2> QED BY <1>2, <2>4, <2>5
<1>4. /\ watch' \in WatchRec /\ Watching'
      /\ lifecycle' \in Procs \cup {Nobody, Watcher}
      /\ \A q \in Procs : lifecycle = q => lifecycle' = q
  <2>1. \A q \in Procs : q # Nobody
    BY RelayAssumption
  <2>2. CASE WatchDone /\ UNCHANGED lifecycle
    BY <1>1, <1>2, <2>1, <2>2, WatchTyped DEF WatchDone, Watching, IdleWatch
  <2>3. CASE watch' = [watch EXCEPT !.pc = "mark"] /\ lifecycle' = Watcher
    <3>1. watch' \in WatchRec /\ watch'.gen = watch.gen
      BY <1>2, <2>3 DEF WatchRec
    <3> QED BY <1>1, <1>2, <2>1, <2>3, <3>1 DEF Watching
  <2> QED BY <2>2, <2>3 DEF WatchApply
<1>5. spent' \in [DOMAIN Bounds -> Nat] /\ spent'.requests = spent.requests
  BY <1>2, TypeParts, SpendFacts, BoundNames DEF WatchApply
<1>6. Fenced'
  BY <1>1, <1>3, StillFenced
<1> QED BY <1>1, <1>2, <1>3, <1>4, <1>5, <1>6, TypeParts, AsideKeeps

LEMMA WatchMarkKeeps ==
    ASSUME RelayInv, WatchMark
    PROVE  RelayInv'
<1>1. /\ UNCHANGED <<epoch, generation, slot, lease, live, rule, gate, config,
                     revision, proc, spent>>
      /\ watch.pc = "mark" /\ WatchDone /\ lifecycle' = Nobody /\ Send(Retry(watch.gen))
      /\ health' = [health EXCEPT ![watch.gen] = MarkResolutionFailed(@)]
  BY DEF WatchMark
<1>2. /\ TypeOK /\ watch.gen \in Gens /\ lifecycle = Watcher /\ generation \in Nat
      /\ health \in [Gens -> Health]
  <2>1. watch.gen # 0 /\ lifecycle = Watcher
    BY <1>1 DEF RelayInv, Watching
  <2> QED BY <2>1, WatchTyped, SharedFields, TypeParts DEF Gens
<1>3. /\ health' \in [Gens -> Health] /\ \A g \in Gens : Mild(health[g], health'[g])
  <2>1. MarkResolutionFailed(health[watch.gen]) \in Health
        /\ Mild(health[watch.gen], MarkResolutionFailed(health[watch.gen]))
    BY <1>2, MarksMild DEF Mild, Same
  <2> QED BY <1>1, <1>2, <2>1, MildRefl
<1>4. events' \in Seq(Event)
  <2>1. NoFault \in Faults
    BY DEF Faults
  <2> QED BY <1>1, <1>2, <2>1, Appended DEF Send
<1>5. watch' \in WatchRec /\ Watching'
  BY <1>1, <1>2, WatchTyped DEF WatchDone, Watching, IdleWatch
<1>6. Fenced'
  <2>1. slot.server = NoListener \/ slot.server.gen \in Gens
    BY <1>2, SharedFields DEF RelayInv, Installed, Gens
  <2>2. slot.desired \in BOOLEAN
    BY <1>2, SharedFields
  <2> QED BY <1>1, <1>3, <2>1, <2>2, FencedKeeps
<1>7. \A q \in Procs : q # Watcher
  BY RelayAssumption
<1>8. \A g \in Gens : health'[g].inst = health[g].inst
  BY <1>3 DEF Mild, Same
<1> QED BY <1>1, <1>2, <1>3, <1>4, <1>5, <1>6, <1>7, <1>8, WatchTyped, TypeParts, AsideKeeps

(***************************************************************************)
(* The invariant                                                           *)
(***************************************************************************)

LEMMA InitHolds == Init => RelayInv
<1> SUFFICES ASSUME Init PROVE RelayInv
  OBVIOUS
<1>1. MaxRequests \in Nat /\ 0 \in 0..MaxRequests /\ Idle.pc = "idle"
  BY RelayAssumption DEF Idle
<1>2. /\ NoListener \in Listener /\ NoSpec \in SpecRec /\ NewHealth \in Health
      /\ NoLease \in [gen : 0..MaxRequests, role : Protocols]
      /\ NoListener.gen = 0 /\ NoLease.gen = 0
  BY <1>1, NewHealthTyped
  DEF NoListener, Listener, NoSpec, SpecRec, Settings, Scopes, Unknown, Protocols, NoLease
<1>3. TypeOK
  <2>1. /\ epoch \in Nat /\ generation \in 0..MaxRequests /\ revision \in Nat
        /\ slot \in [desired : BOOLEAN, spec : SpecRec, health : 0..MaxRequests,
                     intent : Nat, server : Listener]
        /\ lease \in [gen : 0..MaxRequests, role : Protocols]
        /\ live \subseteq Listener
    BY <1>1, <1>2 DEF Init
  <2>2. health \in [Gens -> Health] /\ rule \in [Protocols -> BOOLEAN]
    BY <1>2 DEF Init
  <2>3. /\ gate \in Users \cup {Nobody} /\ lifecycle \in Procs \cup {Nobody, Watcher}
        /\ events \in Seq(Event) /\ config \in Settings
    <3>1. config \in [enabled : {TRUE}, protocol : Protocols, section : {0}]
      <4>1. config \in [enabled : {TRUE}, protocol : Saved, section : {0}]
        BY DEF Init
      <4>2. Saved \subseteq Protocols
        BY RelayAssumption DEF Protocols
      <4> QED BY <4>1, <4>2, Zenon
    <3>2. /\ config.enabled \in BOOLEAN /\ config.protocol \in Protocols
          /\ config.section \in 0..1
      <4>1. /\ config.enabled \in {TRUE} /\ config.protocol \in Protocols
            /\ config.section \in {0}
        BY <3>1, Zenon
      <4>2. config.enabled \in BOOLEAN
        BY <4>1, Zenon
      <4>3. \A n \in {0} : n \in 0..1
        OBVIOUS
      <4> QED BY <4>1, <4>2, <4>3, Zenon
    <3>3. config = [enabled |-> config.enabled, protocol |-> config.protocol,
                    section |-> config.section]
      BY <3>1, Zenon
    <3>4. config \in Settings
      BY <3>2, <3>3, Zenon DEF Settings
    <3>5. events = <<>> /\ gate = Nobody /\ lifecycle = Nobody
      BY DEF Init
    <3> QED BY <3>4, <3>5
  <2>4. proc \in [Procs -> Proc] /\ spent \in [DOMAIN Bounds -> Nat]
    BY IdleTyped DEF Init
  <2>5. watch \in WatchRec
    BY <1>1 DEF Init, IdleWatch, WatchRec
  <2> QED BY <2>1, <2>2, <2>3, <2>4, <2>5, Zenon DEF TypeOK, SpecRec, Event, WatchRec
<1>4. Installed /\ Accounted /\ RuleLeased /\ Fenced /\ Watching
  BY <1>2 DEF Init, Installed, Accounted, RuleLeased, Fenced, Watching, IdleWatch
<1>5. Counted
  <2>1. Pending = {}
    BY <1>1 DEF Init, Pending, Procs
  <2>2. spent.requests = 0
    BY DEF Init, Bounds
  <2> QED BY <1>1, <2>1, <2>2, FS_EmptySet DEF Init, Counted
<1>6. \A p \in Procs : InOrder(p) /\ ~Claimant(p)
  <2> SUFFICES ASSUME NEW p \in Procs PROVE InOrder(p) /\ ~Claimant(p)
    OBVIOUS
  <2>1. /\ proc[p].pc = "idle" /\ proc[p].gen = 0 /\ proc[p].op = "start"
        /\ proc[p].epoch = 0 /\ proc[p].intent = NoIntent /\ epoch = 0 /\ generation = 0
    BY DEF Init, Idle
  <2>2. GenKnown(p) /\ Holding(p) /\ Alone(p)
    BY <2>1 DEF GenKnown, Recovery, Placed, Building, Holding, Alone, Transactions
  <2>3. Prevails(p) /\ OwnStop(p) /\ ~Claimant(p)
    BY <2>1 DEF Prevails, OwnStop, Started, Stopped, Placed, Building, Transactions, Claimant
  <2> QED BY <2>2, <2>3 DEF InOrder
<1>7. Unshared
  BY <1>6 DEF Unshared, Procs
<1> QED BY <1>3, <1>4, <1>5, <1>6, <1>7 DEF RelayInv

LEMMA ProgressKeeps ==
    ASSUME RelayInv, NEW u \in Users, Request(u) \/ Progress(u)
    PROVE  RelayInv'
<1>1. u \in Procs
  BY DEF Procs
<1>2. CASE Request(u)
  BY <1>2, RequestKeeps, TxRequestKeeps DEF Request
<1>3. CASE StartPublish(u) \/ StartGate(u) \/ Resolve(u) \/ CancelStart(u)
           \/ Install(u) \/ StartLifecycle(u) \/ TakeOld(u)
  BY <1>3, StartPublishKeeps, StartGateKeeps, ResolveKeeps, CancelStartKeeps, InstallKeeps,
     StartLifecycleKeeps, TakeOldKeeps
<1>4. CASE StopPublish(u) \/ StopGate(u) \/ FinishStop(u) \/ TxCapture(u) \/ TxClaim(u)
           \/ TxGate(u) \/ TxValidate(u) \/ TxCommit(u)
  BY <1>4, StopPublishKeeps, StopGateKeeps, FinishStopKeeps, TxCaptureKeeps, TxClaimKeeps,
     TxGateKeeps, TxValidateKeeps, TxCommitKeeps
<1>5. CASE Builder(u)
  BY <1>1, <1>5, CheckKeeps, PreflightKeeps, ApplyFirewallKeeps, RecheckKeeps, BuildKeeps,
     StoreKeeps DEF Builder
<1> QED BY <1>2, <1>3, <1>4, <1>5 DEF Progress

LEMMA SuperviseKeeps ==
    ASSUME RelayInv, Supervise
    PROVE  RelayInv'
<1>1. Supervisor \in Procs
  BY DEF Procs
<1>2. CASE SupEvent \/ SupRetire \/ SupWake \/ SupMark \/ SupResolve \/ SupLifecycle
  BY <1>2, SupEventKeeps, SupRetireKeeps, SupWakeKeeps, SupMarkKeeps, SupResolveKeeps,
     SupLifecycleKeeps
<1>3. CASE Builder(Supervisor)
  BY <1>1, <1>3, CheckKeeps, PreflightKeeps, ApplyFirewallKeeps, RecheckKeeps, BuildKeeps,
     StoreKeeps DEF Builder
<1> QED BY <1>2, <1>3 DEF Supervise

LEMMA StutterKeeps ==
    ASSUME RelayInv, UNCHANGED vars
    PROVE  RelayInv'
<1>1. UNCHANGED <<epoch, generation, slot, lease, health, live, rule, gate, lifecycle,
                  events, config, revision, proc, watch, spent>>
  BY DEF vars
<1>2. Watching' /\ Fenced'
  BY <1>1 DEF RelayInv, Watching, Fenced
<1> QED BY <1>1, <1>2, WatchTyped, TypeParts, AsideKeeps

LEMMA NextKeeps ==
    ASSUME RelayInv, [Next]_vars
    PROVE  RelayInv'
<1>1. CASE UNCHANGED vars
  BY <1>1, StutterKeeps
<1>2. CASE \E u \in Users : Request(u) \/ Progress(u)
  BY <1>2, ProgressKeeps
<1>3. CASE Supervise
  BY <1>3, SuperviseKeeps
<1>4. CASE Callback
  BY <1>4, CallbackKeeps
<1>5. CASE TopologyPolled \/ TopologyChanged
  BY <1>5, TopologyKeeps
<1>6. CASE Watch
  BY <1>6, WatchCaptureKeeps, WatchApplyKeeps, WatchMarkKeeps DEF Watch
<1> QED BY <1>1, <1>2, <1>3, <1>4, <1>5, <1>6 DEF Next

\* The shared record, the listeners, the health records and every request in
\* flight fit together, at every point of every interleaving.
THEOREM RelayInvariant == Spec => []RelayInv
<1>1. RelayInv /\ [Next]_vars => RelayInv'
  BY NextKeeps
<1> QED BY <1>1, InitHolds, PTL DEF Spec

\* Every listener has an owner that will shut it down, no generation has two, and
\* a Start binds its own only when no other exists.
THEOREM OneListenerAlways == Spec => []OneListener
<1>1. RelayInv => OneListener
  <2> SUFFICES ASSUME RelayInv PROVE OneListener
    OBVIOUS
  <2>1. \A l \in live : l.gen # 0 /\ NoListener.gen = 0
    BY DEF RelayInv, Installed, NoListener
  <2>2. \A l \in live : \/ l = slot.server
                        \/ \E p \in Procs : proc[p].pc = "store" /\ l = Candidate(p)
    BY DEF RelayInv, Accounted
  <2>3. \A p \in Procs : proc[p].pc = "store" =>
           /\ Candidate(p) \in live /\ Candidate(p).gen # slot.server.gen
           /\ \A q \in Procs : proc[q].pc = "store" => q = p
           /\ p \in Users => slot.server = NoListener
    <3> SUFFICES ASSUME NEW p \in Procs, proc[p].pc = "store"
                 PROVE  /\ Candidate(p) \in live /\ Candidate(p).gen # slot.server.gen
                        /\ \A q \in Procs : proc[q].pc = "store" => q = p
                        /\ p \in Users => slot.server = NoListener
      OBVIOUS
    <3>1. "store" \in Building
      BY DEF Building
    <3>2. Candidate(p) \in live
      BY DEF RelayInv, InOrder, Alone
    <3> QED BY <3>1, <3>2, BuilderFacts DEF Candidate
  <2>4. \A l, m \in live : l.gen = m.gen => l = m
    BY <2>2, <2>3
  <2>5. \A u \in Users : proc[u].pc = "store" => live = {Candidate(u)}
    <3> SUFFICES ASSUME NEW u \in Users, proc[u].pc = "store"
                 PROVE  live = {Candidate(u)}
      OBVIOUS
    <3>1. u \in Procs
      BY DEF Procs
    <3>2. \A l \in live : l = Candidate(u)
      BY <2>1, <2>2, <2>3, <3>1
    <3> QED BY <2>3, <3>1, <3>2
  <2> QED BY <2>2, <2>4, <2>5 DEF OneListener
<1> QED BY <1>1, RelayInvariant, PTL

\* No Windows rule is enabled without the lease that takes it back, and no listener
\* reaches the camera behind a published Stop.
THEOREM OpeningsOwnedAlways == Spec => []OpeningsOwned
<1>1. RelayInv => OpeningsOwned
  <2> SUFFICES ASSUME RelayInv PROVE OpeningsOwned
    OBVIOUS
  <2>1. RuleLeased
    BY DEF RelayInv
  <2>2. UpstreamFenced
    <3> SUFFICES ASSUME slot.server # NoListener, ~slot.desired, UpstreamOpen(slot.server)
                 PROVE  /\ slot.server.role = "srt"
                        /\ health[slot.server.gen].state \in {"Failed", "Recovering"}
      BY DEF UpstreamFenced
    <3>1. slot.server.gen # 0 /\ slot.server.gen = generation /\ slot.health = 0
      BY DEF RelayInv, Installed, Fenced, UpstreamOpen
    <3>2. Shut(health[slot.server.gen], slot.server.role)
      BY <3>1 DEF RelayInv, Fenced
    <3>3. slot.server.role \in {"rtsp", "srt"}
      BY SharedFields DEF RelayInv, Protocols
    <3>4. slot.server.role = "srt"
      BY <3>2, <3>3 DEF Shut, UpstreamOpen, LoopAliveFor
    <3> QED BY <3>2, <3>4 DEF Shut, Quieted, UpstreamOpen, UpstreamAllowed
  <2> QED BY <2>1, <2>2 DEF OpeningsOwned
<1> QED BY <1>1, RelayInvariant, PTL

(***************************************************************************)
(* What a step may never do                                                *)
(***************************************************************************)

\* Nobody's locals change but q's.
Apart(q) == \A v \in Procs : v # q => proc'[v] = proc[v]

LEMMA LeavesApart ==
    ASSUME TypeOK, NEW q \in Procs,
           \/ Leave(q) \/ GiveUp(q)
           \/ \E pc \in Pcs : Goto(q, pc)
    PROVE  Apart(q)
<1>1. proc \in [Procs -> Proc]
  BY TypeParts
<1> QED BY <1>1 DEF Leave, GiveUp, Goto, Apart

LEMMA ReplacesApart ==
    ASSUME TypeOK, NEW q \in Procs, NEW r, proc' = [proc EXCEPT ![q] = r]
    PROVE  Apart(q)
BY TypeParts DEF Apart

LEMMA PcNames ==
    {"gate", "cancel", "install", "take", "check", "preflight", "firewall", "recheck", "build",
     "store", "finish", "claim", "commit", "restart", "backoff", "mark"} \subseteq Pcs
BY DEF Pcs

LEMMA BuilderApart ==
    ASSUME TypeOK, NEW q \in Procs, Builder(q)
    PROVE  Apart(q)
<1>1. CASE Check(q) \/ Preflight(q) \/ ApplyFirewall(q)
  BY <1>1, LeavesApart, PcNames DEF Check, Preflight, ApplyFirewall
<1>2. CASE Recheck(q)
  BY <1>2, LeavesApart, PcNames DEF Recheck
<1>3. CASE Build(q)
  BY <1>3, LeavesApart, PcNames DEF Build
<1>4. CASE Store(q)
  BY <1>4, LeavesApart DEF Store
<1> QED BY <1>1, <1>2, <1>3, <1>4 DEF Builder

LEMMA RequestApart ==
    ASSUME TypeOK, NEW u \in Users, Request(u) \/ Progress(u)
    PROVE  Apart(u)
<1>1. u \in Procs /\ proc \in [Procs -> Proc]
  BY TypeParts DEF Procs
<1>2. CASE Request(u)
  BY <1>1, <1>2 DEF Request, StartRequest, StopRequest, TxRequest, Apart
<1>3. CASE StartPublish(u)
  BY <1>1, <1>3, LeavesApart DEF StartPublish, Apart
<1>4. CASE StartGate(u)
  BY <1>1, <1>4, LeavesApart DEF StartGate, Apart
<1>5. CASE Resolve(u)
  BY <1>1, <1>5, LeavesApart, PcNames DEF Resolve, Apart
<1>6. CASE CancelStart(u)
  BY <1>1, <1>6, LeavesApart DEF CancelStart
<1>7. CASE Install(u)
  BY <1>1, <1>7, LeavesApart, PcNames DEF Install, Apart
<1>8. CASE StartLifecycle(u)
  BY <1>1, <1>8, LeavesApart DEF StartLifecycle, Apart
<1>9. CASE TakeOld(u)
  BY <1>1, <1>9, LeavesApart, PcNames DEF TakeOld
<1>10. CASE StopPublish(u)
  BY <1>1, <1>10, LeavesApart, PcNames DEF StopPublish, Apart
<1>11. CASE StopGate(u)
  BY <1>1, <1>11, LeavesApart DEF StopGate, Apart
<1>12. CASE FinishStop(u)
  BY <1>1, <1>12, LeavesApart, PcNames DEF FinishStop
<1>13. CASE TxCapture(u)
  BY <1>1, <1>13, LeavesApart DEF TxCapture, Apart
<1>14. CASE TxClaim(u)
  BY <1>1, <1>14, LeavesApart DEF TxClaim, Apart
<1>15. CASE TxGate(u)
  BY <1>1, <1>15, LeavesApart DEF TxGate, Apart
<1>16. CASE TxValidate(u)
  BY <1>1, <1>16, LeavesApart, PcNames DEF TxValidate, Restore, Apart
<1>17. CASE TxCommit(u)
  BY <1>1, <1>17, LeavesApart DEF TxCommit, Restore, Apart
<1>18. CASE Builder(u)
  BY <1>1, <1>18, BuilderApart
<1> QED BY <1>2, <1>3, <1>4, <1>5, <1>6, <1>7, <1>8, <1>9, <1>10, <1>11, <1>12, <1>13, <1>14,
           <1>15, <1>16, <1>17, <1>18 DEF Progress

LEMMA SuperviseApart ==
    ASSUME TypeOK, Supervise
    PROVE  Apart(Supervisor)
<1>1. Supervisor \in Procs /\ proc \in [Procs -> Proc]
  BY TypeParts DEF Procs
<1>2. CASE SupEvent
  BY <1>1, <1>2 DEF SupEvent, Apart
<1>3. CASE SupRetire
  BY <1>1, <1>3, LeavesApart, PcNames DEF SupRetire
<1>4. CASE SupWake
  BY <1>1, <1>4, LeavesApart, PcNames DEF SupWake
<1>5. CASE SupMark
  BY <1>1, <1>5, LeavesApart DEF SupMark, Apart
<1>6. CASE SupResolve
  BY <1>1, <1>6, LeavesApart, PcNames DEF SupResolve, Apart
<1>7. CASE SupLifecycle
  BY <1>1, <1>7, LeavesApart DEF SupLifecycle, Apart
<1>8. CASE Builder(Supervisor)
  BY <1>1, <1>8, BuilderApart
<1> QED BY <1>2, <1>3, <1>4, <1>5, <1>6, <1>7, <1>8 DEF Supervise

\* A request moves only by its own steps.
LEMMA OwnStep ==
    ASSUME TypeOK, [Next]_vars, NEW u \in Users, proc'[u] # proc[u]
    PROVE  Request(u) \/ Progress(u)
<1>1. u \in Procs /\ Supervisor \in Procs /\ u # Supervisor
  BY RelayAssumption DEF Procs
<1>2. CASE \E q \in Users : Request(q) \/ Progress(q)
  <2>1. PICK q \in Users : Request(q) \/ Progress(q)
    BY <1>2
  <2>2. q = u
    BY <1>1, <2>1, RequestApart DEF Apart
  <2> QED BY <2>1, <2>2
<1>3. CASE Supervise
  BY <1>1, <1>3, SuperviseApart DEF Apart
<1>4. CASE Callback \/ TopologyPolled \/ TopologyChanged \/ Watch \/ UNCHANGED vars
  <2>1. UNCHANGED proc
    BY <1>4 DEF Callback, MediaBegins, MediaPlays, MediaEnds, MediaFaults, MediaRefused, Media,
                TopologyPolled, TopologyChanged, Observe, Watch, WatchCapture, WatchApply,
                WatchMark, vars
  <2> QED BY <2>1
<1> QED BY <1>2, <1>3, <1>4 DEF Next

\* Where a request's own steps start.
LEMMA Places ==
    ASSUME NEW u \in Users
    PROVE  /\ Request(u) => proc[u].pc = "idle"
           /\ StartPublish(u) => proc[u].pc = "publish"
           /\ StartGate(u) \/ StopGate(u) \/ TxGate(u) => proc[u].pc = "gate"
           /\ Resolve(u) => proc[u].pc = "resolve"
           /\ CancelStart(u) => proc[u].pc = "cancel"
           /\ Install(u) => proc[u].pc = "install"
           /\ StartLifecycle(u) => proc[u].pc = "lifecycle"
           /\ TakeOld(u) => proc[u].pc = "take"
           /\ StopPublish(u) => proc[u].pc = "unpublish"
           /\ FinishStop(u) => proc[u].pc = "finish"
           /\ TxCapture(u) => proc[u].pc = "capture"
           /\ TxClaim(u) => proc[u].pc \in {"claim", "restart"}
           /\ TxValidate(u) => proc[u].pc = "validate"
           /\ TxCommit(u) => proc[u].pc = "commit"
           /\ Builder(u) => proc[u].pc \in Building
BY DEF Request, StartRequest, StopRequest, TxRequest, StartPublish, StartGate, StopGate, TxGate,
       Resolve, CancelStart, Install, StartLifecycle, TakeOld, StopPublish, FinishStop,
       TxCapture, TxClaim, TxValidate, TxCommit, Builder, Check, Preflight, ApplyFirewall,
       Recheck, Build, Store, Building

\* Nothing is left for a Stop that is still the newest intent to have missed.
LEMMA NothingLeft ==
    ASSUME RelayInv, NEW u \in Users, FinishStop(u), proc[u].op = "stop",
           epoch = proc[u].epoch
    PROVE  /\ ~slot'.desired /\ live' = {}
           /\ lease' = NoLease \/ spent'.failures > spent.failures
<1> DEFINE i == proc[u].intent
<1>1. /\ TypeOK /\ InOrder(u) /\ proc[u].pc = "finish" /\ lifecycle = Nobody /\ RuleLeased
      /\ spent \in [DOMAIN Bounds -> Nat] /\ NoListener.gen = 0 /\ Installed
      /\ slot \in [desired : BOOLEAN, spec : SpecRec, health : 0..MaxRequests,
                   intent : Nat, server : Listener]
  BY TypeParts DEF RelayInv, Procs, FinishStop, NoListener
<1>2. /\ ~slot.desired /\ slot.server.gen \in {0, i.target}
      /\ lease.gen \in {0, i.target, i.fw}
  BY <1>1 DEF InOrder, Prevails, Stopped
<1>3. ~slot'.desired
  BY <1>1, <1>2 DEF FinishStop
<1>4. live' = {}
  <2>1. \A q \in Procs : proc[q].pc # "store"
    <3>1. \A q \in Procs : q # Nobody
      BY RelayAssumption
    <3> QED BY <1>1, <3>1, BuilderFacts DEF Building
  <2>2. \A l \in live : l = slot.server /\ l.gen # 0
    BY <1>1, <2>1 DEF RelayInv, Accounted, Installed
  <2>3. slot.server.gen # 0 => live' = live \ {slot.server}
    BY <1>2 DEF FinishStop
  <2>4. live' \subseteq live
    BY DEF FinishStop
  <2> QED BY <2>2, <2>3, <2>4
<1>5. lease' = NoLease \/ spent'.failures > spent.failures
  <2>1. RetireFirewall({i.target, i.fw}, spent)
    BY DEF FinishStop
  <2>2. /\ lease' \in {lease, NoLease}
        /\ \/ lease' = NoLease \/ lease.gen \notin {i.target, i.fw} \ {0}
           \/ spent'.failures > spent.failures
    BY <1>1, <2>1, RetireFacts
  <2>3. lease.gen = 0 => lease = NoLease
    BY <1>1 DEF Installed
  <2> QED BY <1>2, <2>2, <2>3
<1> QED BY <1>3, <1>4, <1>5

\* A Stop that nothing superseded returns with no listener and no lease left,
\* unless Windows refused to give the rule back.
THEOREM StopAlwaysCompletes == Spec => StopCompletes
<1>1. RelayInv /\ [Next]_vars =>
        [\A u \in Users :
           /\ proc[u].op = "stop" /\ proc[u].pc = "finish" /\ proc'[u].pc = "idle"
           /\ epoch = proc[u].epoch
           => /\ ~slot'.desired /\ live' = {}
              /\ lease' = NoLease \/ spent'.failures > spent.failures]_vars
  <2> SUFFICES ASSUME RelayInv, [Next]_vars, NEW u \in Users,
                      proc[u].op = "stop", proc[u].pc = "finish", proc'[u].pc = "idle",
                      epoch = proc[u].epoch
               PROVE  /\ ~slot'.desired /\ live' = {}
                      /\ lease' = NoLease \/ spent'.failures > spent.failures
    OBVIOUS
  <2>1. Request(u) \/ Progress(u)
    BY OwnStep DEF RelayInv
  <2>2. FinishStop(u)
    BY <2>1, Places DEF Progress, Building
  <2> QED BY <2>2, NothingLeft
<1> QED BY <1>1, RelayInvariant, PTL DEF Spec, StopCompletes

\* A settings transaction brings the output back only under the epoch that follows
\* its own stop's.
THEOREM RestartAlwaysFollows == Spec => RestartFollowsOwnStop
<1>1. RelayInv /\ [Next]_vars =>
        [\A u \in Users :
           /\ proc[u].pc = "publish" /\ proc[u].intent # NoIntent
           /\ slot'.desired /\ ~slot.desired /\ proc'[u].pc # "publish"
           => proc[u].epoch = proc[u].intent.epoch + 1]_vars
  <2> SUFFICES ASSUME RelayInv, NEW u \in Users, proc[u].pc = "publish",
                      proc[u].intent # NoIntent
               PROVE  proc[u].epoch = proc[u].intent.epoch + 1
    OBVIOUS
  <2>1. OwnStop(u) /\ proc[u].op \in {"start", "stop", "apply", "switch"}
    BY ProcFields DEF RelayInv, InOrder, Procs
  <2> QED BY <2>1 DEF OwnStop, Transactions
<1> QED BY <1>1, RelayInvariant, PTL DEF Spec, RestartFollowsOwnStop

\* A transaction that has stopped the output and leaves without a newer intent
\* leaves it desired, or disabled.
LEMMA OutputBack ==
    ASSUME RelayInv, NEW u \in Users, Request(u) \/ Progress(u), proc[u].intent.was,
           proc[u].op # "stop", proc[u].pc # "cancel", proc'[u].pc = "idle",
           epoch = proc[u].epoch
    PROVE  slot'.desired \/ ~config'.enabled
<1>1. /\ TypeOK /\ u \in Procs /\ InOrder(u) /\ proc[u] \in Proc /\ proc \in [Procs -> Proc]
      /\ proc[u].op \in Transactions /\ proc[u].intent # NoIntent
      /\ slot \in [desired : BOOLEAN, spec : SpecRec, health : 0..MaxRequests,
                   intent : Nat, server : Listener]
  <2>1. TypeOK /\ u \in Procs /\ InOrder(u)
    BY DEF RelayInv, Procs
  <2>2. proc[u].op \in {"start", "stop", "apply", "switch"} /\ ~NoIntent.was
    BY <2>1, ProcFields DEF NoIntent
  <2>3. proc[u].op \in Transactions /\ proc[u].intent # NoIntent
    BY <2>1, <2>2 DEF InOrder, OwnStop, Transactions
  <2> QED BY <2>1, <2>3, ProcFields, TypeParts
<1>2. proc[u].pc \notin {"idle", "capture", "claim"}
  BY <1>1 DEF InOrder, OwnStop
<1>3. \A pc \in Pcs : Goto(u, pc) => pc = "idle"
  BY <1>1, GotoFacts, AtFields
<1>4. proc[u].pc \in Placed \cup {"resolve", "install"} => slot.desired
  BY <1>1 DEF InOrder, Prevails, Started
<1>5. ~Request(u) /\ ~CancelStart(u) /\ ~TxCapture(u)
  BY <1>2, Places
<1>6. ~StartPublish(u)
  BY <1>1 DEF StartPublish, Proc
<1>7. ~StartGate(u) /\ ~StopGate(u) /\ ~TxGate(u) /\ ~TxClaim(u)
  <2>1. ~StartGate(u) /\ ~StopGate(u)
    BY <1>1 DEF StartGate, StopGate, Transactions
  <2>2. ~TxGate(u)
    BY <1>1 DEF TxGate, Proc
  <2>3. ~TxClaim(u)
    BY <1>1, <1>2 DEF TxClaim, Claims, Proc
  <2> QED BY <2>1, <2>2, <2>3
<1>8. ~StopPublish(u) /\ ~FinishStop(u)
  <2>1. ~StopPublish(u)
    BY <1>1 DEF StopPublish, Proc, Transactions
  <2>2. ~FinishStop(u)
    BY <1>1, <1>3, PcNames DEF FinishStop, Transactions
  <2> QED BY <2>1, <2>2
<1>9. CASE Resolve(u) \/ Install(u) \/ StartLifecycle(u) \/ TakeOld(u)
  <2>1. ~Resolve(u)
    BY <1>1, <1>3, PcNames DEF Resolve, Proc
  <2>2. CASE Install(u)
    BY <1>1, <1>3, <1>4, <2>2, PcNames DEF Install, HealthyNoop, Proc
  <2>3. CASE StartLifecycle(u) \/ TakeOld(u)
    <3>1. slot'.desired = slot.desired
      BY <1>1, <2>3 DEF StartLifecycle, TakeOld
    <3> QED BY <1>4, <2>3, <3>1, Places DEF Placed
  <2> QED BY <1>9, <2>1, <2>2, <2>3
<1>10. CASE TxValidate(u)
  <2>1. ~Restore(u)
    BY <1>1 DEF Restore, Proc
  <2>2. \E pc \in {"finish", "claim", "commit"} : Goto(u, pc)
    BY <1>10, <2>1 DEF TxValidate
  <2> QED BY <1>3, <2>2, PcNames
<1>11. CASE TxCommit(u)
  <2>1. ~Restore(u)
    BY <1>1 DEF Restore, Proc
  <2>2. ~StartsAgain(u)
    BY <1>1, <1>11, <2>1 DEF TxCommit, Proc
  <2>3. ~Prospective(u, config).enabled /\ config' = Prospective(u, config)
    BY <1>1, <1>11, <2>1, <2>2 DEF TxCommit, StartsAgain
  <2> QED BY <2>3
<1>12. CASE Builder(u)
  BY <1>1, <1>4, <1>12, Places
  DEF Builder, Check, Preflight, ApplyFirewall, Recheck, Build, Store, Placed
<1> QED BY <1>5, <1>6, <1>7, <1>8, <1>9, <1>10, <1>11, <1>12 DEF Progress

\* Whichever step of it fails, a settings transaction that stopped a running output
\* leaves it desired again or disabled, unless its restart failed or it was superseded.
THEOREM NoOutputEverLost == Spec => NoOutputLost
<1>1. RelayInv /\ [Next]_vars =>
        [\A u \in Users :
           /\ proc[u].intent.was /\ proc[u].op # "stop"
           /\ proc[u].pc # "cancel" /\ proc'[u].pc = "idle"
           /\ epoch = proc[u].epoch
           => slot'.desired \/ ~config'.enabled]_vars
  <2> SUFFICES ASSUME RelayInv, [Next]_vars, NEW u \in Users, proc[u].intent.was,
                      proc[u].op # "stop", proc[u].pc # "cancel", proc'[u].pc = "idle",
                      epoch = proc[u].epoch
               PROVE  slot'.desired \/ ~config'.enabled
    OBVIOUS
  <2>1. proc[u].pc # "idle"
    <3>1. ~NoIntent.was /\ OwnStop(u)
      BY DEF NoIntent, RelayInv, InOrder, Procs
    <3> QED BY <3>1 DEF OwnStop
  <2>2. Request(u) \/ Progress(u)
    BY <2>1, OwnStep DEF RelayInv
  <2> QED BY <2>2, OutputBack
<1> QED BY <1>1, RelayInvariant, PTL DEF Spec, NoOutputLost
=============================================================================
