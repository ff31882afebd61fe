------------------------------ MODULE HostOwner ------------------------------
(***************************************************************************)
(* Machine-wide ownership of the native network state.                     *)
(*                                                                         *)
(* Any number of PocketStream processes may be started, in several         *)
(* sessions, while an installer replaces the program's files.  Two named   *)
(* kernel mutexes keep them apart: "Host" (HostOwner.v2), held by the one  *)
(* process that may change addresses and firewall rules, and "Gate"        *)
(* (InstallGate.v2), held by the installer for its whole transaction and   *)
(* by a starting host until it owns "Host".  A mutex is acquired and       *)
(* released on a thread of its own (MachineGuard), because the kernel ties *)
(* it to a thread; the caller waits for that thread with a time limit, so  *)
(* the thread may acquire a mutex nobody waits for any more.  Native work  *)
(* runs in a child process inside a job that dies with its parent.         *)
(*                                                                         *)
(* Modelled from network/host_owner.rs, the start-up and exit sequences of *)
(* lib.rs, the maintenance entry of entry.rs, the containment protocol of  *)
(* network/native_runner.rs and the ownership steps of the installer's     *)
(* transaction.nsh.  The operating system abandons a dead process's        *)
(* mutexes, and the next waiter acquires them as usual.                    *)
(***************************************************************************)
EXTENDS Naturals, FiniteSets

CONSTANTS
    Hosts,      \* processes started as the application
    Maint,      \* the process an installer starts with --firewall-maintenance
    Installer,  \* the installer itself, as the owner of a mutex
    Nobody      \* a free mutex has no owner

ASSUME ProcessesApart ==
    /\ Maint \notin Hosts
    /\ Installer \notin Hosts \cup {Maint}
    /\ Nobody \notin Hosts \cup {Maint, Installer}

VARIABLES
    pc,         \* where each process stands
    mutex,      \* the owner of each named mutex
    thread,     \* the guard thread of each process and role
    ask,        \* the caller's side of each guard
    child,      \* the native child of each process
    inJob,      \* whether that child was created inside its job
    install     \* where the installer stands

hostVars == <<pc, mutex, thread, ask, child, inJob, install>>
guards == <<thread, ask>>
native == <<child, inJob>>

Processes == Hosts \cup {Maint}
Role == {"Gate", "Host"}

\* A host between the acquisition of "Host" and the end of its process; the
\* last four are the stages of ExitRequested.
Exiting == {"streams", "cleanup", "shutdown", "final"}
Serving == {"running"} \cup Exiting
Acquiring == {"gate", "owner"}

HostTypeOK ==
    /\ pc \in [Processes -> {"off", "root", "ungate", "refused", "message",
                             "maintain", "release"} \cup Acquiring \cup Serving]
    /\ mutex \in [Role -> Processes \cup {Installer, Nobody}]
    /\ thread \in [Processes -> [Role -> {"none", "opening", "taken", "held", "denied"}]]
    /\ ask \in [Processes -> [Role -> {"none", "waiting", "kept", "dropped", "abandoned"}]]
    /\ child \in [Processes -> {"none", "suspended", "running", "dying"}]
    /\ inJob \in [Processes -> BOOLEAN]
    /\ install \in {"idle", "probe", "probed", "checked", "writing", "maintain", "failed"}

NoThreads == [r \in Role |-> "none"]

HostInit ==
    /\ pc = [p \in Processes |-> "off"]
    /\ mutex = [r \in Role |-> Nobody]
    /\ thread = [p \in Processes |-> NoThreads]
    /\ ask = [p \in Processes |-> NoThreads]
    /\ child = [p \in Processes |-> "none"]
    /\ inJob = [p \in Processes |-> TRUE]
    /\ install = "idle"

Go(p, where) == pc' = [pc EXCEPT ![p] = where]
SetThread(p, r, s) == thread' = [thread EXCEPT ![p][r] = s]
SetAsk(p, r, s) == ask' = [ask EXCEPT ![p][r] = s]
SetChild(p, s) == child' = [child EXCEPT ![p] = s]

-----------------------------------------------------------------------------
(* MachineGuard: the thread and its caller. *)

\* The role a process is acquiring where it stands: a host first the gate and
\* then the ownership, the maintenance process the ownership only, because
\* its parent already holds the gate.
RoleAt(p) == IF pc[p] = "gate" THEN "Gate" ELSE "Host"

\* acquire_name spawns the owner thread.
SpawnGuard(p, r) ==
    /\ pc[p] \in Acquiring /\ r = RoleAt(p)
    /\ ask[p][r] = "none" /\ thread[p][r] = "none"
    /\ SetThread(p, r, "opening") /\ SetAsk(p, r, "waiting")
    /\ UNCHANGED <<pc, mutex, native, install>>

\* open_and_acquire: the wait ends with the mutex, which an owner released
\* or abandoned...
ThreadTakes(p, r) ==
    /\ thread[p][r] = "opening" /\ mutex[r] = Nobody
    /\ mutex' = [mutex EXCEPT ![r] = p]
    /\ SetThread(p, r, "taken")
    /\ UNCHANGED <<pc, ask, native, install>>

\* ... or with an error: Busy, a failed system call, or a mutex whose
\* descriptor is not the expected one.  A caller that no longer waits does
\* not notice, and the thread ends.
ThreadDenied(p, r) ==
    /\ thread[p][r] = "opening"
    /\ SetThread(p, r, IF ask[p][r] = "waiting" THEN "denied" ELSE "none")
    /\ UNCHANGED <<pc, mutex, ask, native, install>>

\* The thread reports its acquisition; the send is ignored when it fails.
ThreadReports(p, r) ==
    /\ thread[p][r] = "taken"
    /\ SetThread(p, r, "held")
    /\ UNCHANGED <<pc, mutex, ask, native, install>>

\* A bug: a late thread holds on to the mutex that nobody waited for.
LetGoIfKept(p, r) == ask[p][r] = "dropped"

\* stopped.recv() returns when the guard is dropped, and at once when the
\* caller that would have kept the guard gave up: the mutex is released.
LetGo(p, r) == ask[p][r] \in {"dropped", "abandoned"}

ThreadReleases(p, r) ==
    /\ thread[p][r] = "held" /\ LetGo(p, r)
    /\ mutex' = [mutex EXCEPT ![r] = Nobody]
    /\ SetThread(p, r, "none")
    /\ UNCHANGED <<pc, ask, native, install>>

\* What follows an acquisition: the gate, then the ownership, then the
\* release of the gate; maintenance goes straight to its operation.
Granted(p) ==
    CASE p = Maint -> "maintain"
      [] pc[p] = "gate" -> "owner"
      [] OTHER -> "ungate"

\* acquire_name receives the acquisition and returns the guard.
CallerKeeps(p) ==
    LET r == RoleAt(p) IN
    /\ pc[p] \in Acquiring
    /\ ask[p][r] = "waiting" /\ thread[p][r] = "held"
    /\ SetAsk(p, r, "kept") /\ Go(p, Granted(p))
    /\ UNCHANGED <<mutex, thread, native, install>>

\* What a refused process does with its guards: the channels of the one it
\* asked for close, and the closure in run drops the gate on its way out.
DropGuards(p, r) ==
    ask' = [ask EXCEPT ![p] = [q \in Role |->
        CASE q = r -> "abandoned"
          [] ask[p][q] = "kept" -> "dropped"
          [] OTHER -> ask[p][q]]]

\* The thread reports an error and is joined, or the time limit passes before
\* the thread reports: the guard's channel closes with the caller.
CallerRefused(p) ==
    LET r == RoleAt(p) IN
    /\ pc[p] \in Acquiring /\ ask[p][r] = "waiting"
    /\ \/ thread[p][r] = "denied" /\ SetThread(p, r, "none")
       \/ thread[p][r] \in {"opening", "taken"} /\ UNCHANGED thread
    /\ DropGuards(p, r)
    /\ Go(p, "refused")
    /\ UNCHANGED <<mutex, native, install>>

\* A bug: the gate is opened before the host owns "Host".
DropGateEarly(p) ==
    /\ pc[p] \in {"owner", "ungate"} /\ ask[p]["Gate"] = "kept"
    /\ SetAsk(p, "Gate", "dropped")
    /\ UNCHANGED <<pc, mutex, thread, native, install>>

\* drop(install): the gate's thread is told to stop...
DropGate(p) ==
    /\ pc[p] = "ungate" /\ ask[p]["Gate"] = "kept"
    /\ SetAsk(p, "Gate", "dropped")
    /\ UNCHANGED <<pc, mutex, thread, native, install>>

\* ... and joined before the host goes on.
HostStarts(p) ==
    /\ pc[p] = "ungate" /\ ask[p]["Gate"] = "dropped" /\ thread[p]["Gate"] = "none"
    /\ Go(p, "running")
    /\ UNCHANGED <<mutex, guards, native, install>>

\* A host refused the ownership joins the thread of the gate it dropped; one
\* refused the gate has nothing to join.  A message box then stays open until
\* the user closes it.
ShowMessage(p) ==
    /\ pc[p] = "refused" /\ p \in Hosts
    /\ ask[p]["Host"] # "none" => thread[p]["Gate"] = "none"
    /\ Go(p, "message")
    /\ UNCHANGED <<mutex, guards, native, install>>

-----------------------------------------------------------------------------
(* Processes: launch, exit, crash. *)

\* run: the arguments select the application or the maintenance entry.  (A
\* name is used again for a new process once the old one's child is gone.)
Launch(p) ==
    /\ p \in Hosts /\ pc[p] = "off" /\ child[p] = "none"
    /\ Go(p, "gate")
    /\ UNCHANGED <<mutex, guards, native, install>>

\* The end of a process: its threads end, its mutexes are abandoned and the
\* job handle closes, which kills the child inside it.
Killed(p) == inJob[p] /\ child[p] \in {"suspended", "running"}

Gone(p) ==
    /\ Go(p, "off")
    /\ mutex' = [r \in Role |-> IF mutex[r] = p THEN Nobody ELSE mutex[r]]
    /\ thread' = [thread EXCEPT ![p] = NoThreads]
    /\ ask' = [ask EXCEPT ![p] = NoThreads]
    /\ IF Killed(p) THEN SetChild(p, "dying") ELSE UNCHANGED child
    /\ UNCHANGED inJob

\* What nsExec tells the installer of the maintenance process it waits for.
Result(p, codes) ==
    IF p = Maint /\ install = "maintain" THEN install' \in codes ELSE UNCHANGED install

\* A process may die at any point; the installer's time limit ends a
\* maintenance process in the same way.
Crash(p) ==
    /\ pc[p] # "off" /\ Gone(p)
    /\ Result(p, {"failed"})

\* The message box is closed; the guard of a maintenance process is released;
\* the exit sequence is over and the event loop ends the process.
MayExit(p) ==
    \/ pc[p] \in {"message", "final"}
    \/ pc[p] = "refused" /\ p = Maint
    \/ pc[p] = "release" /\ thread[p]["Host"] = "none"

Exit(p) ==
    /\ MayExit(p) /\ Gone(p)
    /\ Result(p, IF pc[p] = "release" THEN {"checked", "failed"} ELSE {"failed"})

\* ExitRequested: streaming is stopped, then presence, the dot and the
\* tracked addresses, each within its limit; the executor is shut down, which
\* waits for the native child; the addresses are cleaned once more.
ExitStage(p) ==
    /\ \/ pc[p] = "running" /\ Go(p, "streams")
       \/ pc[p] = "streams" /\ Go(p, "cleanup")
       \/ pc[p] = "cleanup" /\ Go(p, "shutdown")
       \/ pc[p] = "shutdown" /\ child[p] = "none" /\ Go(p, "final")
    /\ UNCHANGED <<mutex, guards, native, install>>

-----------------------------------------------------------------------------
(* NativeRunner: one contained child at a time. *)

\* The executor admits work until it is shut down.
AdmitsChild(p) == pc[p] \in {"running", "streams", "cleanup", "maintain"}

\* The attribute list names the job, so that no crash strands a child outside
\* it; that the kernel honoured it is not taken on trust.
Placements == BOOLEAN

\* CreateProcessW with CREATE_SUSPENDED and the attribute list.
CreateChild(p) ==
    /\ AdmitsChild(p) /\ child[p] = "none"
    /\ SetChild(p, "suspended")
    /\ inJob' \in {[inJob EXCEPT ![p] = b] : b \in Placements}
    /\ UNCHANGED <<pc, mutex, guards, install>>

\* A bug: the containment is not verified.
MayResumeAny(p) == p \in Processes

\* A child is resumed only when it is seen inside the job.
MayResume(p) == inJob[p]

Resume(p) ==
    /\ pc[p] # "off" /\ child[p] = "suspended" /\ MayResume(p)
    /\ SetChild(p, "running")
    /\ UNCHANGED <<pc, mutex, guards, inJob, install>>

\* An uncontained child is terminated, as is one that cannot be resumed.
Discard(p) ==
    /\ pc[p] # "off" /\ child[p] = "suspended"
    /\ SetChild(p, "dying")
    /\ UNCHANGED <<pc, mutex, guards, inJob, install>>

\* observe_tree: every process of the tree has exited, or one may still be
\* there, or the tree cannot be observed.
Trees == {"none", "dying"}

\* The loop ends with the child's exit, with a cancellation, with the time
\* limit or with a tree that cannot be observed; the job is terminated.
Retire(p) ==
    /\ pc[p] # "off" /\ child[p] = "running"
    /\ \E s \in Trees : SetChild(p, s)
    /\ UNCHANGED <<pc, mutex, guards, inJob, install>>

\* The kernel completes the kill.  (A child that has not drained after five
\* seconds is reported as an error; it can no longer run.)
Dies(p) ==
    /\ child[p] = "dying"
    /\ SetChild(p, "none")
    /\ UNCHANGED <<pc, mutex, guards, inJob, install>>

\* A child left suspended outside the job never runs; it is forgotten.
Forgotten(p) ==
    /\ pc[p] = "off" /\ child[p] = "suspended"
    /\ SetChild(p, "none")
    /\ UNCHANGED <<pc, mutex, guards, inJob, install>>

-----------------------------------------------------------------------------
(* The maintenance entry. *)

\* protected_root accepts the token, the path and the descriptors, or the
\* process ends before it acquires anything.
CheckRoot ==
    /\ pc[Maint] = "root"
    /\ \E where \in {"owner", "refused"} : Go(Maint, where)
    /\ UNCHANGED <<mutex, guards, native, install>>

\* The journal cannot be reserved, or the operation and the shutdown of the
\* executor are over and the journal is written: the guard is dropped.
EndMaintenance ==
    /\ pc[Maint] = "maintain" /\ child[Maint] = "none"
    /\ Go(Maint, "release") /\ SetAsk(Maint, "Host", "dropped")
    /\ UNCHANGED <<mutex, thread, native, install>>

-----------------------------------------------------------------------------
(* The installer's transaction. *)

\* PS_ACQUIRE_TRANSACTION: the gate within five seconds...
TakeGate ==
    /\ install = "idle" /\ mutex["Gate"] = Nobody
    /\ mutex' = [mutex EXCEPT !["Gate"] = Installer]
    /\ install' = "probe"
    /\ UNCHANGED <<pc, guards, native>>

\* ... then the ownership, to see that no host runs, ...
ProbeHost ==
    /\ install = "probe" /\ mutex["Host"] = Nobody
    /\ mutex' = [mutex EXCEPT !["Host"] = Installer]
    /\ install' = "probed"
    /\ UNCHANGED <<pc, guards, native>>

\* ... which it gives back for the maintenance process.
ReleaseProbe ==
    /\ install = "probed"
    /\ mutex' = [mutex EXCEPT !["Host"] = Nobody]
    /\ install' = "checked"
    /\ UNCHANGED <<pc, guards, native>>

\* PS_CHECK_PROCESSES finds no process of the program; the files are written.
Replace ==
    /\ install = "checked" /\ \A p \in Processes : pc[p] = "off"
    /\ install' = "writing"
    /\ UNCHANGED <<pc, mutex, guards, native>>

\* PS_MAINTENANCE starts the new image and waits: an installation after it has
\* written the files, an uninstallation before it checks and deletes them.
StartMaintenance ==
    /\ install \in {"checked", "writing"}
    /\ pc[Maint] = "off" /\ child[Maint] = "none"
    /\ install' = "maintain" /\ Go(Maint, "root")
    /\ UNCHANGED <<mutex, guards, native>>

\* PS_RELEASE_TRANSACTION, on success, on failure and when the installer
\* dies: what it holds is free, and a maintenance process it started goes on.
EndInstall ==
    /\ install # "idle"
    /\ mutex' = [r \in Role |-> IF mutex[r] = Installer THEN Nobody ELSE mutex[r]]
    /\ install' = "idle"
    /\ UNCHANGED <<pc, guards, native>>

-----------------------------------------------------------------------------
Guarding(p) ==
    \/ \E r \in Role :
        \/ SpawnGuard(p, r) \/ ThreadTakes(p, r) \/ ThreadDenied(p, r)
        \/ ThreadReports(p, r) \/ ThreadReleases(p, r)
    \/ CallerKeeps(p) \/ CallerRefused(p)
    \/ DropGate(p) \/ HostStarts(p) \/ ShowMessage(p)

Running(p) ==
    \/ CreateChild(p) \/ Resume(p) \/ Discard(p) \/ Retire(p)
    \/ Dies(p) \/ Forgotten(p)

HostNext ==
    \/ \E p \in Processes :
        \/ Guarding(p) \/ Running(p)
        \/ Launch(p) \/ Crash(p) \/ Exit(p) \/ ExitStage(p)
    \/ CheckRoot \/ EndMaintenance
    \/ TakeGate \/ ProbeHost \/ ReleaseProbe \/ Replace
    \/ StartMaintenance \/ EndInstall

\* The threads of a live process are scheduled and a wait with a time limit
\* ends.  Nobody has to start a host, close a message box, exit or install.
HostFairness == \A p \in Processes : WF_hostVars(Guarding(p))

HostSpec == HostInit /\ [][HostNext]_hostVars /\ HostFairness

-----------------------------------------------------------------------------
(* Properties. *)

\* A native child that can still change the machine belongs to the process
\* that owns "Host": whoever crashes, is replaced or gives up, two processes
\* never write at the same time (native_runner.rs, host_owner.rs).
OneWriter ==
    \A p \in Processes : child[p] = "running" => mutex["Host"] = p

\* While an installation that has seen no host writes files or runs its
\* maintenance, no host owns the machine: one that starts meanwhile stays in
\* front of the gate (lib.rs, transaction.nsh).
NoHostDuringInstall ==
    install \in {"checked", "writing", "maintain"} =>
        \A p \in Hosts : pc[p] \notin {"ungate"} \cup Serving

\* A host waits for an answer, or was refused and still owns a mutex.
Unanswered(p) ==
    \/ pc[p] \in {"gate", "owner", "ungate", "refused"}
    \/ pc[p] = "message" /\ p \in {mutex[r] : r \in Role}

\* Every host that asks for a mutex gets an answer, and one that was refused
\* does not keep a mutex its late thread acquired: the Drop of a guard always
\* ends, and a closed channel releases (host_owner.rs).
Answered == \A p \in Hosts : Unanswered(p) ~> ~Unanswered(p)
=============================================================================
