--------------------------- MODULE CallerRegistry ---------------------------
(***************************************************************************)
(* The admission accounting of the SRT listener                            *)
(* (streaming/caller_registry.rs): reservations made before a handshake is *)
(* accepted, and callers that completed one.  Every method takes the       *)
(* registry's mutex once, so each callback is one step.  RegSpec lets the  *)
(* callbacks come in any order, as the module itself must expect; the      *)
(* listener that calls them is SrtServer.                                  *)
(***************************************************************************)
EXTENDS Integers, FiniteSets

CONSTANTS
    Callers,        \* canonical caller addresses
    MaxCallers,     \* MAX_SRT_CALLERS
    PendingTtl      \* PENDING_CALLER_TTL, in ticks

ASSUME RegistryAssumption ==
    IsFiniteSet(Callers) /\ MaxCallers \in Nat /\ PendingTtl \in Nat

VARIABLES
    reserved,   \* RegistryState.pending: when a caller's slot was reserved
    active,     \* RegistryState.active
    verdict     \* what the last callback returned

registry == <<reserved, active, verdict>>

NoTime == -1
Held(r) == {c \in Callers : r[c] # NoTime}
Occupancy(r, a) == Cardinality(Held(r)) + Cardinality(a)

\* A bug: reservations are never given back.
PrunedNever(now) == reserved

\* prune_expired
Pruned(now) ==
    [c \in Callers |-> IF reserved[c] # NoTime /\ now - reserved[c] >= PendingTtl
                       THEN NoTime ELSE reserved[c]]

\* A bug: the limit is compared with the occupancy before this caller.
RoomAtLimit(r) == Occupancy(r, active) <= MaxCallers

\* One more caller fits.
Room(r) == Occupancy(r, active) < MaxCallers

Inconsistent(r, c) == Occupancy(r, active) > MaxCallers \/ (c \in Held(r) /\ c \in active)

\* caller_connecting: what a caller that asks is told.  A caller already known
\* may ask again without taking a second slot.
Admission(r, c, matches) ==
    IF Inconsistent(r, c) THEN "fault"
    ELSE IF ~matches THEN "stream id"
    ELSE IF c \in active \/ c \in Held(r) \/ Room(r) THEN "accept" ELSE "capacity"

\* A bug: a caller that asks again keeps the age of its first request.
ReserveOnce(r, c, now) == IF r[c] = NoTime THEN [r EXCEPT ![c] = now] ELSE r

\* The slot of an accepted caller counts from its last request.
Reserve(r, c, now) == [r EXCEPT ![c] = now]

CallerConnecting(c, matches, now) ==
    LET r == Pruned(now)
        answer == Admission(r, c, matches)
    IN /\ verdict' = answer
       /\ reserved' = IF answer = "accept" /\ c \notin active THEN Reserve(r, c, now) ELSE r
       /\ UNCHANGED active

\* caller_added: only a reservation becomes an active caller.
CallerAdded(c) ==
    IF reserved[c] = NoTime \/ Inconsistent(reserved, c)
    THEN verdict' = "fault" /\ UNCHANGED <<reserved, active>>
    ELSE /\ reserved' = [reserved EXCEPT ![c] = NoTime]
         /\ active' = active \cup {c}
         /\ verdict' = "added"

\* caller_removed
CallerRemoved(c) ==
    /\ verdict' = IF c \in active THEN "removed" ELSE "fault"
    /\ active' = active \ {c}
    /\ UNCHANGED reserved

\* A callback whose arguments do not decode, or whose unused argument is not
\* zero, never reaches the state.
CallerMalformed == verdict' = "fault" /\ UNCHANGED <<reserved, active>>

ClearRegistry ==
    /\ reserved' = [c \in Callers |-> NoTime] /\ active' = {} /\ verdict' = "none"

RegInit == reserved = [c \in Callers |-> NoTime] /\ active = {} /\ verdict = "none"

RegNext ==
    \/ \E c \in Callers, matches \in BOOLEAN, now \in Nat : CallerConnecting(c, matches, now)
    \/ \E c \in Callers : CallerAdded(c) \/ CallerRemoved(c)
    \/ CallerMalformed \/ ClearRegistry

RegSpec == RegInit /\ [][RegNext]_registry

\* Types of the registry.
RegistryType ==
    /\ reserved \in [Callers -> Nat \cup {NoTime}] /\ active \subseteq Callers
    /\ verdict \in {"none", "accept", "stream id", "capacity", "added", "removed", "fault"}

\* Reservations and callers together never exceed MAX_SRT_CALLERS and no caller
\* is both, whatever callbacks come in whatever order and however late: the
\* faults OccupancyInvariantExceeded and InconsistentCallerState cannot occur.
Capacity == Occupancy(reserved, active) <= MaxCallers /\ Held(reserved) \cap active = {}
=============================================================================
