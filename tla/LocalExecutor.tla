--------------------------- MODULE LocalExecutor ---------------------------
(***************************************************************************)
(* The process-wide native executor: every address, adapter and firewall   *)
(* write of PocketStream goes through one LocalExecutor, which admits one  *)
(* operation at a time and keeps its completion until the requester        *)
(* acknowledges it.  A requester may be dropped at any time; the worker    *)
(* that owns the native transaction never is.                              *)
(*   network/local_executor.rs     admission, completion, drain, shutdown  *)
(*   network/native_operations.rs  transactions (NATIVE_SCOPE), native     *)
(*                                 steps, classification of their results  *)
(***************************************************************************)
EXTENDS Naturals

CONSTANTS
    Clients,    \* tasks that submit native writes (commands, adopt loop, relay)
    Drainers,   \* tasks that hold discovery_op and drain (watcher, app exit)
    MaxOps,     \* bound: operations admitted in one process lifetime
    MaxSteps    \* bound: native steps of one transaction

ASSUME BoundsAssumption == MaxOps \in Nat \ {0} /\ MaxSteps \in Nat

Ops == 1..MaxOps
Outcomes == {"Completed", "Failed", "Canceled", "Uncertain"}
Kinds == {"submit", "managed", "startup"}

VARIABLES
    phase,      \* State.phase, its variant
    cur,        \* id carried by Running and Retained (0 otherwise)
    retained,   \* outcome carried by Retained ("none" otherwise)
    next_id,    \* State.next_id; also the id of the worker in Shared.worker
    shut,       \* State.shutdown and where the shutdown call stands
    work,       \* worker task of each admitted operation
    client,     \* ticket each client waits on (0: none)
    booted,     \* startup_reconcile has been submitted
    drainer,    \* program counter of each drain call
    lock,       \* NetworkManager.discovery_op: who holds it
    doubt       \* history: the host carries native work nobody accounted for

vars == <<phase, cur, retained, next_id, shut, work, client, booted,
          drainer, lock, doubt>>

Work == [pc : {"none", "working", "preflight", "dispatched", "finishing",
               "replying", "done"},
         kind : Kinds,
         locked : BOOLEAN,          \* holds discovery_op
         cancel : BOOLEAN,          \* Cancellation.requested()
         steps : 0..MaxSteps,
         last : Outcomes \cup {"none"}, failed : BOOLEAN, mutated : BOOLEAN,
         touched : BOOLEAN,         \* history: a step reported a host change
         unsure : BOOLEAN,          \* history: a step left the host unknown
         outcome : Outcomes,        \* the Completion handed to finish
         doubt : BOOLEAN]           \* history: what this operation leaves

NewWork(kind) ==
    [pc |-> IF kind = "submit" THEN "preflight" ELSE "working",
     kind |-> kind, locked |-> FALSE, cancel |-> FALSE, steps |-> 0,
     last |-> "none", failed |-> FALSE, mutated |-> FALSE,
     touched |-> FALSE, unsure |-> FALSE,
     outcome |-> "Completed", doubt |-> FALSE]

NoWork == [NewWork("submit") EXCEPT !.pc = "none"]

Managed(i) == work[i].kind # "submit"
Recovery(i) == work[i].kind = "startup"

(***************************************************************************)
(* Admission.                                                              *)
(***************************************************************************)

\* A bug: a Running operation does not refuse a second one.
AdmitsWhileRunning(recovery) ==
    /\ shut = "no"
    /\ phase \in {"Idle", "Running"} \/ recovery

\* LocalExecutor::start, its early returns.
Admits(recovery) ==
    /\ shut = "no"                      \* ShuttingDown
    /\ phase # "Running"                \* Busy
    /\ phase = "Idle" \/ recovery       \* ReconciliationRequired

\* LocalExecutor::start, once admitted.  The state mutex is held until the
\* JoinHandle is in Shared.worker, so the two change together.
Start(kind) ==
    /\ Admits(kind = "startup")
    /\ next_id < MaxOps
    /\ next_id' = next_id + 1
    /\ phase' = "Running" /\ cur' = next_id + 1 /\ retained' = "none"
    /\ work' = [work EXCEPT ![next_id + 1] = NewWork(kind)]

\* native_operations::execute and firewall_request outside a transaction
\* (submit), request (submit_managed).
Submit(c, kind) ==
    /\ client[c] = 0
    /\ kind \in {"submit", "managed"}
    /\ Start(kind)
    /\ client' = [client EXCEPT ![c] = next_id + 1]
    /\ UNCHANGED <<shut, booted, drainer, lock, doubt>>

\* startup_reconcile submits its observation once, with reconcile().
StartupReconcile ==
    /\ ~booted
    /\ Start("startup")
    /\ booted' = TRUE
    /\ UNCHANGED <<shut, client, drainer, lock, doubt>>

(***************************************************************************)
(* The worker: one transaction, native step by native step.                *)
(***************************************************************************)

\* A managed transaction takes discovery_op before its first native write;
\* startup recovery takes it for load_adopted_from_config, after its firewall
\* and observation steps.
AcquireLock(i) ==
    /\ work[i].pc = "working" /\ Managed(i) /\ ~work[i].locked
    /\ lock = "free"
    /\ lock' = "work"
    /\ work' = [work EXCEPT ![i].locked = TRUE]
    /\ UNCHANGED <<phase, cur, retained, next_id, shut, client, booted,
                   drainer, doubt>>

\* check_writes_available inside NATIVE_SCOPE.
WritesAvailable(i) == ~work[i].cancel /\ ~work[i].failed

\* execute / firewall_request inside NATIVE_SCOPE: the check before a step.
StepCheck(i) ==
    /\ work[i].pc = "working" /\ Managed(i)
    /\ work[i].locked \/ Recovery(i)
    /\ work[i].steps < MaxSteps
    /\ WritesAvailable(i)
    /\ work' = [work EXCEPT ![i].pc = "preflight", ![i].steps = @ + 1]
    /\ UNCHANGED <<phase, cur, retained, next_id, shut, client, booted,
                   drainer, lock, doubt>>

\* What a native step comes back with.  ok: the Rust Result is Ok; noted:
\* ScopeState.record sees a mutation; touched: the report says the host
\* changed; unsure: it changed and no report or observation accounts for it.
StepRecord == [outcome : Outcomes, ok : BOOLEAN, noted : BOOLEAN,
               touched : BOOLEAN, unsure : BOOLEAN]

\* A report with every required step, and a postcondition that IP Helper's own
\* reading of the adapter confirms.
Verified(r) ==
    r.outcome = "Completed" /\ r.ok /\ ~r.unsure /\ r.noted = r.touched

\* A killed address command whose exact effect IP Helper observes: completed,
\* although the caller gets an Err.
EffectSeen(r) ==
    r.outcome = "Completed" /\ ~r.ok /\ ~r.unsure /\ ~r.touched /\ ~r.noted

\* A refusal without mutation, or a firewall refusal that reports its own
\* mutation and is not uncertain.
Refused(r) == r.outcome = "Failed" /\ ~r.ok /\ ~r.unsure /\ r.noted = r.touched

\* No report that can be trusted, wrong identity or postcondition, missing
\* steps, a failure after a mutation (an observe step, or no process at all, is
\* not noted).
Unaccounted(r) == r.outcome = "Uncertain" /\ ~r.ok /\ ~r.touched

\* evaluate_result, firewall::evaluate_process.
StepResults ==
    {r \in StepRecord : Verified(r) \/ EffectSeen(r) \/ Refused(r) \/ Unaccounted(r)}

\* ScopeState::record, with the failed flag its callers compute.
Record(w, r) ==
    [w EXCEPT !.last = r.outcome,
              !.failed = @ \/ r.outcome # "Completed" \/ ~r.ok,
              !.mutated = @ \/ r.noted]

\* The result of a step goes to the scope of its transaction, or is the
\* completion of a plain submitted operation.
StepDone(i, r) ==
    LET w == [work[i] EXCEPT !.touched = @ \/ r.touched,
                             !.unsure = @ \/ r.unsure]
    IN  work' = [work EXCEPT ![i] =
                    IF Managed(i)
                    THEN [Record(w, r) EXCEPT !.pc = "working"]
                    ELSE [w EXCEPT !.pc = "finishing", !.outcome = r.outcome,
                                   !.doubt = w.unsure]]

\* observed_result: the adapter's identity fails the preflight, or the
\* cancellation is seen before dispatch.
StepRefused(i, out) ==
    /\ work[i].pc = "preflight"
    /\ out = "Failed" \/ (out = "Canceled" /\ work[i].cancel)
    /\ StepDone(i, [outcome |-> out, ok |-> FALSE, noted |-> FALSE,
                    touched |-> FALSE, unsure |-> FALSE])
    /\ UNCHANGED <<phase, cur, retained, next_id, shut, client, booted,
                   drainer, lock, doubt>>

\* The native process is started.  Firewall steps do not look at the
\* cancellation before they start.
StepDispatch(i, firewall) ==
    /\ work[i].pc = "preflight"
    /\ ~work[i].cancel \/ firewall
    /\ work' = [work EXCEPT ![i].pc = "dispatched"]
    /\ UNCHANGED <<phase, cur, retained, next_id, shut, client, booted,
                   drainer, lock, doubt>>

\* The native process has ended and its result is evaluated.
StepResult(i, r) ==
    /\ work[i].pc = "dispatched"
    /\ StepDone(i, r)
    /\ UNCHANGED <<phase, cur, retained, next_id, shut, client, booted,
                   drainer, lock, doubt>>

\* A bug: the outcome of the transaction alone decides.
ScopeFinishTrusting(w, outcome) == outcome

\* ScopeState::finish.
ScopeFinish(w, outcome) ==
    IF \/ w.last = "Uncertain"
       \/ outcome = "Uncertain"
       \/ w.mutated /\ outcome # "Completed"
       \/ w.failed /\ outcome = "Completed"
    THEN "Uncertain" ELSE outcome

\* What the transaction's own result is classified as: startup recovery
\* downgrades every failure to Uncertain before finish.
Classified(i, outcome) ==
    IF Recovery(i) /\ (outcome # "Completed" \/ work[i].failed)
    THEN "Uncertain" ELSE outcome

ReleasedLock(i) == IF work[i].locked THEN "free" ELSE lock

\* success, an error, or a Pending address reply
Results == {"Completed", "Failed", "Uncertain"}

\* The transaction returns.
WorkReturn(i, outcome) ==
    LET w == work[i]
        class == Classified(i, outcome)
    IN  /\ w.pc = "working" /\ Managed(i)
        /\ work' = [work EXCEPT ![i] =
              [w EXCEPT !.pc = "finishing", !.locked = FALSE,
                        !.outcome = ScopeFinish(w, class),
                        !.doubt = \/ w.unsure
                                  \/ w.touched /\ class # "Completed"
                                  \/ w.failed /\ class = "Completed"]]
        /\ lock' = ReleasedLock(i)
        /\ UNCHANGED <<phase, cur, retained, next_id, shut, client, booted,
                       drainer, doubt>>

PanicOutcome == "Uncertain"     \* worker_panicked

\* The inner task panics; unwinding drops its guards.
WorkPanic(i) ==
    /\ work[i].pc \in {"working", "preflight", "dispatched"}
    /\ work' = [work EXCEPT ![i] =
          [work[i] EXCEPT !.pc = "finishing", !.locked = FALSE,
                          !.outcome = PanicOutcome,
                          !.doubt = \/ work[i].unsure \/ work[i].touched
                                    \/ work[i].pc = "dispatched"]]
    /\ lock' = ReleasedLock(i)
    /\ UNCHANGED <<phase, cur, retained, next_id, shut, client, booted,
                   drainer, doubt>>

\* notify_waiters wakes the waiters registered at that moment, no others.
Notify == [d \in Drainers |-> CASE drainer[d] = "registered" -> "signalled"
                                [] drainer[d] = "parked" -> "woken"
                                [] OTHER -> drainer[d]]

\* LocalExecutor::finish; the transaction's own state ends with it.
Finish(i) ==
    LET w == work[i]
        reopened == Recovery(i) /\ w.outcome = "Completed"
    IN  /\ w.pc = "finishing"
        /\ phase' = IF reopened THEN "Idle" ELSE "Retained"
        /\ cur' = IF reopened THEN 0 ELSE i
        /\ retained' = IF reopened THEN "none" ELSE w.outcome
        /\ work' = [work EXCEPT ![i] = [NewWork(w.kind) EXCEPT !.pc = "replying"]]
        /\ drainer' = Notify
        /\ doubt' = IF reopened THEN w.doubt ELSE doubt \/ w.doubt
        /\ UNCHANGED <<next_id, shut, client, booted, lock>>

\* The worker sends the completion to its ticket and ends.
Reply(i) ==
    /\ work[i].pc = "replying"
    /\ work' = [work EXCEPT ![i].pc = "done"]
    /\ UNCHANGED <<phase, cur, retained, next_id, shut, client, booted,
                   drainer, lock, doubt>>

(***************************************************************************)
(* The requester.                                                          *)
(***************************************************************************)

\* LocalExecutor::acknowledge, its guard.
Acknowledges(id) == phase = "Retained" /\ cur = id /\ retained # "Uncertain"

\* The ticket resolves: acknowledge unless the outcome is Uncertain.
ClientReply(c) ==
    /\ client[c] # 0 /\ work[client[c]].pc = "done"
    /\ client' = [client EXCEPT ![c] = 0]
    /\ IF Acknowledges(client[c])
       THEN phase' = "Idle" /\ cur' = 0 /\ retained' = "none"
       ELSE UNCHANGED <<phase, cur, retained>>
    /\ UNCHANGED <<next_id, shut, work, booted, drainer, lock, doubt>>

\* Drop for Pending leaves the executor's own state alone.
DropPending(c) == UNCHANGED <<phase, cur, retained>>

\* The requesting future is dropped: command aborted, adopt task timed out.
ClientAbort(c) ==
    /\ client[c] # 0
    /\ work' = [work EXCEPT ![client[c]].cancel = TRUE]
    /\ client' = [client EXCEPT ![c] = 0]
    /\ DropPending(c)
    /\ UNCHANGED <<next_id, shut, booted, drainer, lock, doubt>>

(***************************************************************************)
(* Drain: wait_writer under discovery_op (stop_session_locked, cleanup).   *)
(***************************************************************************)

DrainTake(d) ==
    /\ drainer[d] = "idle" /\ lock = "free"
    /\ lock' = "drain"
    /\ drainer' = [drainer EXCEPT ![d] = "entered"]
    /\ UNCHANGED <<phase, cur, retained, next_id, shut, work, client, booted,
                   doubt>>

\* terminal.notified() and enable().
DrainRegister(d) ==
    /\ drainer[d] \in {"entered", "woken"}
    /\ drainer' = [drainer EXCEPT ![d] = "registered"]
    /\ UNCHANGED <<phase, cur, retained, next_id, shut, work, client, booted,
                   lock, doubt>>

\* A bug: the drain waits for managed transactions too.
MustWaitForAll == phase = "Running"

\* wait(include_managed = FALSE): the condition to keep waiting.
MustWait == phase = "Running" /\ ~Managed(cur)

\* Inspect the phase: return and release discovery_op, or await the
\* notification (at once if it already came).
DrainCheck(d) ==
    /\ drainer[d] \in {"registered", "signalled"}
    /\ IF MustWait
       THEN /\ drainer' = [drainer EXCEPT ![d] =
                              IF @ = "signalled" THEN "woken" ELSE "parked"]
            /\ UNCHANGED lock
       ELSE /\ drainer' = [drainer EXCEPT ![d] = "idle"]
            /\ lock' = "free"
    /\ UNCHANGED <<phase, cur, retained, next_id, shut, work, client, booted,
                   doubt>>

(***************************************************************************)
(* Shutdown: refuse admissions, cancel, join the last worker.              *)
(***************************************************************************)

Shutdown ==
    /\ shut = "no"
    /\ shut' = "joining"
    /\ work' = IF phase = "Running"
               THEN [work EXCEPT ![cur].cancel = TRUE] ELSE work
    /\ UNCHANGED <<phase, cur, retained, next_id, client, booted, drainer,
                   lock, doubt>>

\* worker.await on the handle in Shared.worker, the last one admitted.
Joined == next_id # 0 => work[next_id].pc = "done"

ShutdownReturn ==
    /\ shut = "joining" /\ Joined
    /\ shut' = "returned"
    /\ UNCHANGED <<phase, cur, retained, next_id, work, client, booted,
                   drainer, lock, doubt>>

(***************************************************************************)
(* The specification.  A new process always starts in RecoveryRequired,    *)
(* whatever the one before it left on the host.                            *)
(***************************************************************************)
Init ==
    /\ phase = "RecoveryRequired" /\ cur = 0 /\ retained = "none"
    /\ next_id = 0 /\ shut = "no" /\ booted = FALSE
    /\ work = [i \in Ops |-> NoWork]
    /\ client = [c \in Clients |-> 0]
    /\ drainer = [d \in Drainers |-> "idle"]
    /\ lock = "free"
    /\ doubt \in BOOLEAN

Worker(i) ==
    \/ AcquireLock(i)
    \/ StepCheck(i)
    \/ \E out \in {"Failed", "Canceled"} : StepRefused(i, out)
    \/ \E firewall \in BOOLEAN : StepDispatch(i, firewall)
    \/ \E r \in StepResults : StepResult(i, r)
    \/ \E out \in Results : WorkReturn(i, out)
    \/ WorkPanic(i)
    \/ Finish(i)
    \/ Reply(i)

Client(c) ==
    \/ \E kind \in {"submit", "managed"} : Submit(c, kind)
    \/ ClientReply(c)
    \/ ClientAbort(c)

\* A bug: the phase is inspected before the waiter is registered, and what
\* happens in between is missed.
DrainUnregistered(d) ==
    \/ DrainTake(d)
    \/ /\ drainer[d] \in {"entered", "woken"}
       /\ IF MustWait
          THEN drainer' = [drainer EXCEPT ![d] = "registered"] /\ UNCHANGED lock
          ELSE drainer' = [drainer EXCEPT ![d] = "idle"] /\ lock' = "free"
       /\ UNCHANGED <<phase, cur, retained, next_id, shut, work, client, booted, doubt>>
    \/ /\ drainer[d] \in {"registered", "signalled"}
       /\ drainer' = [drainer EXCEPT ![d] = "parked"]
       /\ UNCHANGED <<phase, cur, retained, next_id, shut, work, client, booted, lock,
                      doubt>>

Drain(d) == DrainTake(d) \/ DrainRegister(d) \/ DrainCheck(d)

Next ==
    \/ StartupReconcile
    \/ \E i \in Ops : Worker(i)
    \/ \E c \in Clients : Client(c)
    \/ \E d \in Drainers : Drain(d)
    \/ Shutdown
    \/ ShutdownReturn

\* What a worker does without any help.  A transaction that waits for
\* discovery_op need not give up (transition_mode has no timeout there), and
\* nothing makes one panic.
Progress(i) ==
    \/ StepCheck(i)
    \/ \E out \in {"Failed", "Canceled"} : StepRefused(i, out)
    \/ \E firewall \in BOOLEAN : StepDispatch(i, firewall)
    \/ \E r \in StepResults : StepResult(i, r)
    \/ work[i].locked /\ \E out \in Results : WorkReturn(i, out)
    \/ Finish(i)
    \/ Reply(i)

\* Native steps have a 30 s budget and transactions finitely many of them;
\* tokio runs every ready task and its mutex is first come, first served.
Fairness ==
    /\ \A i \in Ops : WF_vars(Progress(i)) /\ SF_vars(AcquireLock(i))
    /\ \A c \in Clients : WF_vars(ClientReply(c))
    /\ \A d \in Drainers : WF_vars(DrainRegister(d) \/ DrainCheck(d))
    /\ WF_vars(ShutdownReturn)

Spec == Init /\ [][Next]_vars /\ Fairness

(***************************************************************************)
(* Properties.                                                             *)
(***************************************************************************)

\* The types of the variables.
TypeOK ==
    /\ phase \in {"RecoveryRequired", "Idle", "Running", "Retained"}
    /\ cur \in 0..MaxOps
    /\ retained \in Outcomes \cup {"none"}
    /\ next_id \in 0..MaxOps
    /\ shut \in {"no", "joining", "returned"}
    /\ work \in [Ops -> Work]
    /\ client \in [Clients -> 0..MaxOps]
    /\ booted \in BOOLEAN
    /\ drainer \in [Drainers -> {"idle", "entered", "registered", "signalled",
                                 "parked", "woken"}]
    /\ lock \in {"free", "work", "drain"}
    /\ doubt \in BOOLEAN

Unfinished(i) ==
    work[i].pc \in {"working", "preflight", "dispatched", "finishing"}

\* One admitted operation: a worker that has not finished is the one Running
\* names, so finish's assert! never fires and no two transactions overlap.
SingleWriter == \A i \in Ops : Unfinished(i) => phase = "Running" /\ cur = i

\* While the host may carry native work nobody accounted for (left by the
\* previous process, by a step without a result, by a transaction that failed
\* half way or hid a failed step), only startup recovery may run: ordinary
\* writers stay refused until a recovery has completed.
DoubtFenced ==
    doubt => \/ phase = "RecoveryRequired"
             \/ phase = "Retained" /\ retained = "Uncertain"
             \/ phase = "Running" /\ Recovery(cur)

\* "Shutdown joins all retained work": when shutdown() has returned no worker
\* is inside a transaction, not even one whose requester is gone.
ShutdownJoins == shut = "returned" => \A i \in Ops : ~Unfinished(i)

\* No lost wakeup: a drain that sleeps without a pending notification sleeps
\* on an unmanaged operation whose completion will notify it.
NoLostWakeup == \A d \in Drainers : drainer[d] = "parked" => MustWait

Abandoned(i) == i # 0 /\ ~Recovery(i) /\ \A c \in Clients : client[c] # i

\* "Caller cancellation neither releases the native barrier nor admits another
\* writer": an operation whose requester is gone occupies the executor for the
\* rest of the process.
AbandonedKeepsBarrier ==
    [][(phase \in {"Running", "Retained"} /\ Abandoned(cur))
         => (phase' \in {"Running", "Retained"} /\ cur' = cur)]_vars

\* Every admitted operation reaches its completion.
OperationTerminates == phase = "Running" ~> phase # "Running"

\* Every drain call returns: it never waits on a transaction that itself
\* waits for the discovery_op the drain holds.
DrainReturns == \A d \in Drainers : drainer[d] # "idle" ~> drainer[d] = "idle"

\* shutdown() returns once the worker it joins has ended.
ShutdownReturns == shut = "joining" ~> shut = "returned"

\* Nothing waits for ever: not the operation for a lock, not the drain or the
\* shutdown for an operation, although each may wait for the other.
EverythingEnds == OperationTerminates /\ DrainReturns /\ ShutdownReturns

(***************************************************************************)
(* The inductive invariant behind the safety properties.                   *)
(***************************************************************************)

\* What a worker's scope knows: a change a step reported is in mutated, an
\* unknown one shows as the last, Uncertain, completion, which also stops
\* further steps; so no doubt survives finish as anything but Uncertain.
ScopeOK(w) ==
    /\ (w.pc \in {"working", "preflight", "dispatched"} /\ w.kind # "submit")
         => /\ w.touched => w.mutated
            /\ w.unsure => w.last = "Uncertain"
            /\ w.last = "Uncertain" => w.failed
    /\ w.pc \in {"preflight", "dispatched"} => ~w.failed /\ ~w.unsure
    /\ w.pc = "finishing"
         => /\ w.doubt => w.outcome = "Uncertain"
            /\ w.kind = "startup" => w.outcome \in {"Completed", "Uncertain"}

\* The Running operation is the last one admitted and has a live worker.
RunningIsLast ==
    phase = "Running" => cur # 0 /\ cur = next_id /\ Unfinished(cur)

BarrierInv ==
    /\ SingleWriter
    /\ RunningIsLast
    /\ DoubtFenced
    /\ NoLostWakeup
    /\ shut = "returned" => Joined
    /\ ~booted => phase = "RecoveryRequired"

IndInv == TypeOK /\ BarrierInv /\ \A i \in Ops : ScopeOK(work[i])
=============================================================================
