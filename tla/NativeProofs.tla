---------------------------- MODULE NativeProofs ----------------------------
(***************************************************************************)
(* Proofs about who may change the machine: HostOwner, one writer at a time*)
(* among processes and no host beside an installation, for any set of host *)
(* processes, however they crash; and LocalExecutor, one native operation at*)
(* a time inside that process, for any number of clients, drainers,        *)
(* operations and steps per transaction.                                   *)
(***************************************************************************)
EXTENDS HostOwner, LocalExecutor, TLAPS

-----------------------------------------------------------------------------
(***************************************************************************)
(* HostOwner                                                               *)
(***************************************************************************)

\* Where a process stands that owns "Host" and has not given it up.
Owning == {"ungate", "maintain"} \cup Serving

\* A guard thread that acquired a mutex is its owner in the kernel, and a
\* guard somebody keeps has such a thread.
ThreadsOwn ==
  \A p \in Processes, r \in Role :
    /\ thread[p][r] \in {"taken", "held"} => mutex[r] = p
    /\ ask[p][r] = "kept" => thread[p][r] = "held"

\* A process stands where its guards allow: a host waits for "Host" behind its
\* gate, and whoever is past the acquisition keeps the guard of "Host".
GuardsKept ==
  /\ \A p \in Processes : pc[p] \in Owning => ask[p]["Host"] = "kept"
  /\ \A p \in Hosts : pc[p] = "owner" => ask[p]["Gate"] = "kept"
  /\ pc[Maint] # "gate"

\* A child that runs is inside its job, and its process still owns "Host"; one
\* that may yet be resumed has such a process, or none.
ChildContained ==
  \A p \in Processes :
    /\ child[p] = "running" => inJob[p]
    /\ child[p] \in {"suspended", "running"} /\ pc[p] # "off" => pc[p] \in Owning \ {"ungate"}
    /\ pc[p] = "off" => child[p] # "running"

\* The installer holds the gate for its whole transaction, and "Host" during
\* the probe.
InstallerHolds ==
  /\ install # "idle" => mutex["Gate"] = Installer
  /\ install = "probed" => mutex["Host"] = Installer

HostInv ==
  /\ HostTypeOK /\ ThreadsOwn /\ GuardsKept /\ ChildContained
  /\ InstallerHolds /\ NoHostDuringInstall

-----------------------------------------------------------------------------
\* Initially no process runs and the mutexes are free.
LEMMA InitHostInv == HostInit => HostInv
<1> SUFFICES ASSUME HostInit PROVE HostInv
  OBVIOUS
<1> USE DEF HostInit, Processes, Role, NoThreads
<1>1. HostTypeOK
  BY DEF HostTypeOK
<1>2. ThreadsOwn /\ GuardsKept
  BY DEF ThreadsOwn, GuardsKept, Owning, Serving, Exiting
<1>3. ChildContained /\ InstallerHolds /\ NoHostDuringInstall
  BY DEF ChildContained, InstallerHolds, NoHostDuringInstall
<1> QED BY <1>1, <1>2, <1>3 DEF HostInv

\* The actions of guards keep the types.
LEMMA GuardingType ==
  ASSUME HostTypeOK, NEW p \in Processes, Guarding(p) PROVE HostTypeOK'
<1> USE DEF HostTypeOK, Role, Go, SetThread, SetAsk
<1>1. ASSUME NEW r \in Role, SpawnGuard(p, r) PROVE HostTypeOK'
  BY <1>1 DEF SpawnGuard, native
<1>2. ASSUME NEW r \in Role, ThreadTakes(p, r) PROVE HostTypeOK'
  BY <1>2 DEF ThreadTakes, native
<1>3. ASSUME NEW r \in Role, ThreadDenied(p, r) PROVE HostTypeOK'
  BY <1>3 DEF ThreadDenied, native
<1>4. ASSUME NEW r \in Role, ThreadReports(p, r) PROVE HostTypeOK'
  BY <1>4 DEF ThreadReports, native
<1>5. ASSUME NEW r \in Role, ThreadReleases(p, r) PROVE HostTypeOK'
  BY <1>5 DEF ThreadReleases, native
<1>6. CASE CallerKeeps(p)
  <2>1. Granted(p) \in {"maintain", "owner", "ungate"} /\ RoleAt(p) \in Role
    BY DEF Granted, RoleAt
  <2> QED BY <1>6, <2>1 DEF CallerKeeps, native, Acquiring
<1>7. CASE CallerRefused(p)
  <2>1. RoleAt(p) \in Role
    BY DEF RoleAt
  <2>2. thread' \in [Processes -> [Role -> {"none", "opening", "taken", "held", "denied"}]]
    BY <1>7, <2>1 DEF CallerRefused
  <2>3. ask' \in [Processes -> [Role -> {"none", "waiting", "kept", "dropped", "abandoned"}]]
    BY <1>7, <2>1 DEF CallerRefused, DropGuards
  <2> QED BY <1>7, <2>2, <2>3 DEF CallerRefused, native
<1>8. CASE DropGate(p)
  BY <1>8 DEF DropGate, native
<1>9. CASE HostStarts(p) \/ ShowMessage(p)
  BY <1>9 DEF HostStarts, ShowMessage, guards, native, Serving
<1> QED BY <1>1, <1>2, <1>3, <1>4, <1>5, <1>6, <1>7, <1>8, <1>9 DEF Guarding

\* The end of a process keeps the types, whatever the installer learns of it.
LEMMA GoneType ==
  ASSUME HostTypeOK, NEW p \in Processes, NEW codes \in SUBSET {"checked", "failed"},
         Gone(p), Result(p, codes)
  PROVE  HostTypeOK'
  BY DEF HostTypeOK, Role, Go, SetChild, Gone, Result, NoThreads

\* The steps of the specification keep every variable in its type.
LEMMA HostTypeStep == HostTypeOK /\ [HostNext]_hostVars => HostTypeOK'
<1> SUFFICES ASSUME HostTypeOK, [HostNext]_hostVars PROVE HostTypeOK'
  OBVIOUS
<1> USE DEF Go, SetChild
<1>1. ASSUME NEW p \in Processes, Guarding(p) PROVE HostTypeOK'
  BY <1>1, GuardingType
<1>2. ASSUME NEW p \in Processes, Running(p) PROVE HostTypeOK'
  BY <1>2 DEF HostTypeOK, Running, CreateChild, Resume, Discard, Retire, Dies, Forgotten,
              Placements, Trees, guards
<1>3. ASSUME NEW p \in Processes, Launch(p) \/ ExitStage(p) PROVE HostTypeOK'
  BY <1>3 DEF HostTypeOK, Launch, ExitStage, Acquiring, Serving, Exiting, guards, native
<1>4. ASSUME NEW p \in Processes, Crash(p) PROVE HostTypeOK'
  BY <1>4, GoneType DEF Crash
<1>5. ASSUME NEW p \in Processes, Exit(p) PROVE HostTypeOK'
  BY <1>5, GoneType DEF Exit
<1>6. CASE CheckRoot \/ EndMaintenance \/ StartMaintenance
  <2>1. Maint \in Processes
    BY DEF Processes
  <2>2. CASE CheckRoot
    BY <2>1, <2>2 DEF HostTypeOK, CheckRoot, guards, native, Acquiring
  <2>3. CASE EndMaintenance
    BY <2>1, <2>3 DEF HostTypeOK, EndMaintenance, SetAsk, Role, native
  <2>4. CASE StartMaintenance
    BY <2>1, <2>4 DEF HostTypeOK, StartMaintenance, guards, native
  <2> QED BY <1>6, <2>2, <2>3, <2>4
<1>7. CASE TakeGate \/ ProbeHost \/ ReleaseProbe \/ Replace \/ EndInstall
  BY <1>7 DEF HostTypeOK, TakeGate, ProbeHost, ReleaseProbe, Replace, EndInstall, Role,
              guards, native
<1>8. CASE UNCHANGED hostVars
  BY <1>8 DEF HostTypeOK, hostVars
<1> QED BY <1>1, <1>2, <1>3, <1>4, <1>5, <1>6, <1>7, <1>8 DEF HostNext

-----------------------------------------------------------------------------
\* What a step may not disturb, apart from the types.
Held == ThreadsOwn /\ GuardsKept /\ ChildContained /\ InstallerHolds /\ NoHostDuringInstall

\* The guard threads and their callers.
LEMMA GuardingStep ==
  ASSUME HostInv, NEW p \in Processes, Guarding(p) PROVE Held'
<1> USE ProcessesApart DEF HostInv
<1>0. HostTypeOK /\ HostTypeOK' /\ Processes = Hosts \cup {Maint}
  BY GuardingType DEF Processes
<1> USE DEF Role
<1>1. ASSUME NEW r \in Role, SpawnGuard(p, r) \/ ThreadDenied(p, r) \/ ThreadReports(p, r)
      PROVE  Held'
  <2>1. pc' = pc /\ mutex' = mutex /\ child' = child /\ inJob' = inJob /\ install' = install
    BY <1>1 DEF SpawnGuard, ThreadDenied, ThreadReports, native
  <2>2. ThreadsOwn'
    BY <1>0, <1>1, <2>1 DEF HostTypeOK, ThreadsOwn, SpawnGuard, ThreadDenied, ThreadReports,
                            SetThread, SetAsk
  <2>3. ASSUME NEW q \in Processes, NEW s \in Role, ask[q][s] = "kept"
        PROVE  ask'[q][s] = "kept"
    BY <1>0, <1>1, <2>3 DEF HostTypeOK, SpawnGuard, ThreadDenied, ThreadReports, SetAsk
  <2>4. GuardsKept'
    BY <1>0, <2>1, <2>3 DEF GuardsKept
  <2> QED BY <2>1, <2>2, <2>4 DEF Held, ChildContained, InstallerHolds, NoHostDuringInstall
<1>2. ASSUME NEW r \in Role, ThreadTakes(p, r) PROVE Held'
  <2>1. pc' = pc /\ ask' = ask /\ child' = child /\ inJob' = inJob /\ install' = install
    BY <1>2 DEF ThreadTakes, native
  <2>2. ThreadsOwn'
    BY <1>0, <1>2, <2>1 DEF HostTypeOK, ThreadsOwn, ThreadTakes, SetThread
  <2>3. InstallerHolds'
    BY <1>0, <1>2, <2>1 DEF HostTypeOK, InstallerHolds, ThreadTakes
  <2> QED BY <2>1, <2>2, <2>3 DEF Held, GuardsKept, ChildContained, NoHostDuringInstall
<1>3. ASSUME NEW r \in Role, ThreadReleases(p, r) PROVE Held'
  <2>1. pc' = pc /\ ask' = ask /\ child' = child /\ inJob' = inJob /\ install' = install
    BY <1>3 DEF ThreadReleases, native
  <2>2. mutex[r] = p
    BY <1>3 DEF ThreadReleases, ThreadsOwn
  <2>3. ThreadsOwn'
    BY <1>0, <1>3, <2>1, <2>2 DEF HostTypeOK, ThreadsOwn, ThreadReleases, LetGo, SetThread
  <2>4. InstallerHolds'
    BY <1>0, <1>3, <2>1, <2>2 DEF HostTypeOK, InstallerHolds, ThreadReleases
  <2> QED BY <2>1, <2>3, <2>4 DEF Held, GuardsKept, ChildContained, NoHostDuringInstall
<1>4. CASE CallerKeeps(p)
  <2>1. mutex' = mutex /\ thread' = thread /\ child' = child /\ inJob' = inJob
        /\ install' = install
    BY <1>4 DEF CallerKeeps, native
  <2>2. ThreadsOwn'
    BY <1>0, <1>4, <2>1 DEF HostTypeOK, ThreadsOwn, CallerKeeps, RoleAt, SetAsk
  <2>3. GuardsKept'
    BY <1>0, <1>4, <2>1 DEF HostTypeOK, GuardsKept, Owning, Serving, Exiting, Acquiring,
                            CallerKeeps, RoleAt, Granted, SetAsk, Go
  <2>4. ChildContained'
    BY <1>0, <1>4, <2>1 DEF HostTypeOK, ChildContained, Owning, Serving, Exiting, Acquiring,
                            CallerKeeps, Go
  <2>5. NoHostDuringInstall'
    <3> SUFFICES ASSUME install \in {"checked", "writing", "maintain"}, p \in Hosts,
                        pc'[p] \in {"ungate"} \cup Serving
                 PROVE  FALSE
      BY <1>0, <1>4, <2>1 DEF HostTypeOK, NoHostDuringInstall, CallerKeeps, Go
    <3>1. pc[p] = "owner"
      BY <1>0, <1>4 DEF HostTypeOK, CallerKeeps, Granted, Acquiring, Serving, Exiting, Go
    <3>2. mutex["Gate"] = p
      BY <3>1 DEF GuardsKept, ThreadsOwn
    <3> QED BY <3>2 DEF InstallerHolds
  <2> QED BY <2>1, <2>2, <2>3, <2>4, <2>5 DEF Held, InstallerHolds
<1>5. CASE CallerRefused(p)
  <2>1. mutex' = mutex /\ child' = child /\ inJob' = inJob /\ install' = install
    BY <1>5 DEF CallerRefused, native
  <2>2. ThreadsOwn'
    BY <1>0, <1>5, <2>1 DEF HostTypeOK, ThreadsOwn, CallerRefused, RoleAt, SetThread, DropGuards
  <2>3. GuardsKept'
    BY <1>0, <1>5, <2>1 DEF HostTypeOK, GuardsKept, Owning, Serving, Exiting, Acquiring,
                            CallerRefused, RoleAt, DropGuards, Go
  <2>4. ChildContained' /\ NoHostDuringInstall'
    BY <1>0, <1>5, <2>1 DEF HostTypeOK, ChildContained, NoHostDuringInstall, Owning, Serving,
                            Exiting, Acquiring, CallerRefused, Go
  <2> QED BY <2>1, <2>2, <2>3, <2>4 DEF Held, InstallerHolds
<1>6. CASE DropGate(p)
  <2>1. pc' = pc /\ mutex' = mutex /\ thread' = thread /\ child' = child /\ inJob' = inJob
        /\ install' = install
    BY <1>6 DEF DropGate, native
  <2>2. ThreadsOwn' /\ GuardsKept'
    BY <1>0, <1>6, <2>1 DEF HostTypeOK, ThreadsOwn, GuardsKept, DropGate, SetAsk
  <2> QED BY <2>1, <2>2 DEF Held, ChildContained, InstallerHolds, NoHostDuringInstall
<1>7. CASE HostStarts(p) \/ ShowMessage(p)
  <2>1. mutex' = mutex /\ thread' = thread /\ ask' = ask /\ child' = child
        /\ inJob' = inJob /\ install' = install
    BY <1>7 DEF HostStarts, ShowMessage, guards, native
  <2>2. GuardsKept'
    BY <1>0, <1>7, <2>1 DEF HostTypeOK, GuardsKept, Owning, Serving, Exiting, HostStarts,
                            ShowMessage, Go
  <2>3. ChildContained' /\ NoHostDuringInstall'
    BY <1>0, <1>7, <2>1 DEF HostTypeOK, ChildContained, NoHostDuringInstall, Owning, Serving,
                            Exiting, HostStarts, ShowMessage, Go
  <2> QED BY <2>1, <2>2, <2>3 DEF Held, ThreadsOwn, InstallerHolds
<1> QED BY <1>1, <1>2, <1>3, <1>4, <1>5, <1>6, <1>7 DEF Guarding

\* The end of a process: its mutexes are free, its contained child dies.
LEMMA GoneStep ==
  ASSUME HostInv, NEW p \in Processes, NEW codes \in SUBSET {"checked", "failed"},
         Gone(p), Result(p, codes)
  PROVE  Held'
<1> USE ProcessesApart DEF HostInv, Role
<1>0. HostTypeOK /\ HostTypeOK' /\ Processes = Hosts \cup {Maint}
  BY GoneType DEF Processes
<1>1. ThreadsOwn'
  BY <1>0 DEF HostTypeOK, ThreadsOwn, Gone, NoThreads
<1>2. GuardsKept'
  BY <1>0 DEF HostTypeOK, GuardsKept, Owning, Serving, Exiting, Gone, Go
<1>3. ChildContained'
  BY <1>0 DEF HostTypeOK, ChildContained, Gone, Go, Killed, SetChild
<1>4. InstallerHolds'
  BY <1>0 DEF HostTypeOK, InstallerHolds, Gone, Result
<1>5. NoHostDuringInstall'
  BY <1>0 DEF HostTypeOK, NoHostDuringInstall, Serving, Exiting, Gone, Go, Result
<1> QED BY <1>1, <1>2, <1>3, <1>4, <1>5 DEF Held

\* Every step preserves the invariant.
LEMMA HostStep == HostInv /\ [HostNext]_hostVars => HostInv'
<1> SUFFICES ASSUME HostInv, [HostNext]_hostVars PROVE Held'
  BY HostTypeStep DEF HostInv, Held
<1> USE ProcessesApart
<1>0. HostTypeOK /\ HostTypeOK' /\ Processes = Hosts \cup {Maint} /\ Maint \in Processes
  BY HostTypeStep DEF HostInv, Processes
<1>1. ASSUME NEW p \in Processes, Guarding(p) PROVE Held'
  BY <1>1, GuardingStep
<1>2. ASSUME NEW p \in Processes, Running(p) PROVE Held'
  <2>1. pc' = pc /\ mutex' = mutex /\ thread' = thread /\ ask' = ask /\ install' = install
    BY <1>2 DEF Running, CreateChild, Resume, Discard, Retire, Dies, Forgotten, guards
  <2>2. CASE CreateChild(p)
    <3>1. ChildContained'
      BY <1>0, <2>1, <2>2 DEF HostTypeOK, HostInv, ChildContained, Owning, Serving, Exiting,
                              CreateChild, AdmitsChild, Placements, SetChild
    <3> QED BY <2>1, <3>1 DEF HostInv, Held, ThreadsOwn, GuardsKept, InstallerHolds,
                              NoHostDuringInstall
  <2>3. CASE Resume(p) \/ Discard(p) \/ Retire(p) \/ Dies(p) \/ Forgotten(p)
    <3>1. ChildContained'
      BY <1>0, <2>1, <2>3 DEF HostTypeOK, HostInv, ChildContained, Resume, MayResume, Discard,
                              Retire, Trees, Dies, Forgotten, SetChild
    <3> QED BY <2>1, <3>1 DEF HostInv, Held, ThreadsOwn, GuardsKept, InstallerHolds,
                              NoHostDuringInstall
  <2> QED BY <1>2, <2>2, <2>3 DEF Running
<1>3. ASSUME NEW p \in Processes, Launch(p) \/ ExitStage(p) PROVE Held'
  <2>1. mutex' = mutex /\ thread' = thread /\ ask' = ask /\ child' = child
        /\ inJob' = inJob /\ install' = install
    BY <1>3 DEF Launch, ExitStage, guards, native
  <2>2. GuardsKept'
    BY <1>0, <1>3, <2>1 DEF HostTypeOK, HostInv, GuardsKept, Owning, Serving, Exiting, Launch,
                            ExitStage, Go
  <2>3. ChildContained' /\ NoHostDuringInstall'
    BY <1>0, <1>3, <2>1 DEF HostTypeOK, HostInv, ChildContained, NoHostDuringInstall, Owning,
                            Serving, Exiting, Launch, ExitStage, Go
  <2> QED BY <2>1, <2>2, <2>3 DEF HostInv, Held, ThreadsOwn, InstallerHolds
<1>4. ASSUME NEW p \in Processes, Crash(p) \/ Exit(p) PROVE Held'
  BY <1>4, GoneStep DEF Crash, Exit
<1>5. CASE CheckRoot \/ EndMaintenance \/ StartMaintenance
  <2>1. mutex' = mutex /\ thread' = thread /\ child' = child /\ inJob' = inJob
    BY <1>5 DEF CheckRoot, EndMaintenance, StartMaintenance, guards, native
  <2>2. ThreadsOwn'
    <3>1. ASSUME NEW q \in Processes, NEW s \in Role, ask'[q][s] = "kept"
          PROVE  ask[q][s] = "kept"
      BY <1>0, <1>5, <3>1 DEF HostTypeOK, CheckRoot, EndMaintenance, StartMaintenance, SetAsk, guards, Role
    <3> QED BY <2>1, <3>1 DEF HostInv, ThreadsOwn
  <2>3. GuardsKept'
    <3>1. \A q \in Hosts : pc'[q] = pc[q] /\ ask'[q] = ask[q]
      BY <1>0, <1>5 DEF HostTypeOK, CheckRoot, EndMaintenance, StartMaintenance, SetAsk, Go, guards
    <3>2. pc'[Maint] \notin Owning \cup {"gate"}
      BY <1>0, <1>5 DEF HostTypeOK, CheckRoot, EndMaintenance, StartMaintenance, Owning, Serving,
                        Exiting, Go
    <3> QED BY <1>0, <3>1, <3>2 DEF HostInv, GuardsKept
  <2>4. ChildContained'
    BY <1>0, <1>5, <2>1 DEF HostTypeOK, HostInv, ChildContained, Owning, Serving, Exiting,
                            CheckRoot, EndMaintenance, StartMaintenance, Go
  <2>5. InstallerHolds' /\ NoHostDuringInstall'
    BY <1>0, <1>5, <2>1 DEF HostTypeOK, HostInv, InstallerHolds, NoHostDuringInstall, CheckRoot,
                            EndMaintenance, StartMaintenance, Go
  <2> QED BY <2>2, <2>3, <2>4, <2>5 DEF Held
<1>6. CASE TakeGate \/ ProbeHost \/ ReleaseProbe \/ Replace \/ EndInstall
  <2>1. pc' = pc /\ thread' = thread /\ ask' = ask /\ child' = child /\ inJob' = inJob
    BY <1>6 DEF TakeGate, ProbeHost, ReleaseProbe, Replace, EndInstall, guards, native
  <2>2. ASSUME NEW p \in Processes, NEW r \in Role, mutex[r] = p PROVE mutex'[r] = p
    BY <1>0, <1>6, <2>2 DEF HostTypeOK, HostInv, InstallerHolds, TakeGate, ProbeHost,
                            ReleaseProbe, Replace, EndInstall, Role
  <2>3. ThreadsOwn'
    BY <2>1, <2>2 DEF HostInv, ThreadsOwn
  <2>4. InstallerHolds'
    BY <1>0, <1>6 DEF HostTypeOK, HostInv, InstallerHolds, TakeGate, ProbeHost, ReleaseProbe,
                      Replace, EndInstall, Role
  <2>5. NoHostDuringInstall'
    <3>1. CASE ReleaseProbe
      <4> SUFFICES ASSUME NEW p \in Hosts, pc[p] \in {"ungate"} \cup Serving PROVE FALSE
        BY <2>1 DEF NoHostDuringInstall
      <4>1. mutex["Host"] = p
        BY <1>0 DEF HostInv, GuardsKept, ThreadsOwn, Owning, Role
      <4> QED BY <3>1, <4>1 DEF HostInv, InstallerHolds, ReleaseProbe
    <3>2. CASE ~ReleaseProbe
      BY <1>6, <2>1, <3>2 DEF HostInv, NoHostDuringInstall, TakeGate, ProbeHost, Replace,
                              EndInstall
    <3> QED BY <3>1, <3>2
  <2> QED BY <2>1, <2>3, <2>4, <2>5 DEF HostInv, Held, GuardsKept, ChildContained
<1>7. CASE UNCHANGED hostVars
  BY <1>7 DEF hostVars, HostInv, Held, ThreadsOwn, GuardsKept, ChildContained, InstallerHolds,
              NoHostDuringInstall
<1> QED BY <1>1, <1>2, <1>3, <1>4, <1>5, <1>6, <1>7 DEF HostNext

\* The invariant holds in every reachable state.
LEMMA HostInvariant == HostSpec => []HostInv
<1> QED BY InitHostInv, HostStep, PTL DEF HostSpec

-----------------------------------------------------------------------------
\* However many hosts start, crash, exit or time out, and whatever the kernel
\* does with a child it was asked to contain: a native child that can still
\* change the machine belongs to the owner of "Host" (host_owner.rs,
\* native_runner.rs).
THEOREM WriterOwnsHost == HostSpec => []OneWriter
<1>1. HostInv => OneWriter
  <2> SUFFICES ASSUME HostInv, NEW p \in Processes, child[p] = "running"
               PROVE  mutex["Host"] = p
    BY DEF OneWriter
  <2>1. pc[p] \in Owning
    BY DEF HostInv, ChildContained
  <2> QED BY <2>1 DEF HostInv, GuardsKept, ThreadsOwn, Role
<1> QED BY <1>1, HostInvariant, PTL

\* An installation that has seen no host meets none until it ends: the gate is
\* its own for the whole transaction (lib.rs, transaction.nsh).
THEOREM InstallAlone == HostSpec => []NoHostDuringInstall
<1>1. HostInv => NoHostDuringInstall
  BY DEF HostInv
<1> QED BY <1>1, HostInvariant, PTL

-----------------------------------------------------------------------------
(***************************************************************************)
(* LocalExecutor                                                           *)
(***************************************************************************)

USE DEF Ops, Outcomes, Kinds

\* The updates the actions make to a worker keep it a worker.
LEMMA WorkUpdates ==
    ASSUME NEW w \in Work,
           NEW p \in {"none", "working", "preflight", "dispatched",
                      "finishing", "replying", "done"},
           NEW a \in BOOLEAN, NEW b \in BOOLEAN, NEW o \in Outcomes
    PROVE  /\ [w EXCEPT !.pc = p] \in Work
           /\ [w EXCEPT !.locked = a] \in Work
           /\ [w EXCEPT !.cancel = a] \in Work
           /\ [w EXCEPT !.touched = a, !.unsure = b] \in Work
           /\ [w EXCEPT !.last = o, !.failed = a, !.mutated = b] \in Work
           /\ [w EXCEPT !.pc = p, !.outcome = o, !.doubt = a] \in Work
           /\ [w EXCEPT !.pc = p, !.locked = a, !.outcome = o, !.doubt = b]
                 \in Work
<1>1. /\ [w EXCEPT !.pc = p] \in Work
      /\ [w EXCEPT !.locked = a] \in Work
      /\ [w EXCEPT !.cancel = a] \in Work
  BY DEF Work
<1>2. [w EXCEPT !.touched = a, !.unsure = b] \in Work
  BY DEF Work
<1>3. [w EXCEPT !.last = o, !.failed = a, !.mutated = b] \in Work
  BY DEF Work
<1>4. [w EXCEPT !.pc = p, !.outcome = o, !.doubt = a] \in Work
  BY DEF Work
<1>5. [w EXCEPT !.pc = p, !.locked = a, !.outcome = o, !.doubt = b] \in Work
  BY DEF Work
<1>6. QED BY <1>1, <1>2, <1>3, <1>4, <1>5

\* A fresh worker is a worker.
LEMMA NewWorkType ==
    ASSUME NEW kind \in Kinds
    PROVE  NewWork(kind) \in Work /\ NoWork \in Work
<1>1. ASSUME NEW k \in Kinds PROVE NewWork(k) \in Work
  BY BoundsAssumption DEF NewWork, Work
<1>2. NoWork \in Work
  BY <1>1, WorkUpdates DEF NoWork
<1>3. QED BY <1>1, <1>2

\* A step's result leaves a well-formed worker behind.
LEMMA StepDoneType ==
    ASSUME TypeOK, NEW i \in Ops, NEW r \in StepRecord, StepDone(i, r)
    PROVE  work' \in [Ops -> Work]
<1> DEFINE w == [work[i] EXCEPT !.touched = @ \/ r.touched,
                                !.unsure = @ \/ r.unsure]
<1>1. work[i] \in Work
  BY DEF TypeOK
<1>2. w \in Work
  BY <1>1, WorkUpdates
<1>3. Record(w, r) \in Work
  <2> DEFINE f == w.failed \/ r.outcome # "Completed" \/ ~r.ok
             m == w.mutated \/ r.noted
  <2>1. f \in BOOLEAN /\ m \in BOOLEAN /\ r.outcome \in Outcomes
    BY <1>2 DEF Work, StepRecord
  <2>2. Record(w, r) = [w EXCEPT !.last = r.outcome, !.failed = f, !.mutated = m]
    BY DEF Record
  <2> HIDE DEF f, m, w
  <2>3. [w EXCEPT !.last = r.outcome, !.failed = f, !.mutated = m] \in Work
    BY <1>2, <2>1, WorkUpdates, ZenonT(60)
  <2>4. QED BY <2>2, <2>3
<1>4. [Record(w, r) EXCEPT !.pc = "working"] \in Work
  BY <1>3, WorkUpdates
<1>5. w.unsure \in BOOLEAN /\ r.outcome \in Outcomes
  BY <1>2 DEF Work, StepRecord
<1>6. [w EXCEPT !.pc = "finishing", !.outcome = r.outcome, !.doubt = w.unsure]
         \in Work
  <2> HIDE DEF w
  <2> QED BY <1>2, <1>5, WorkUpdates
<1>7. QED BY <1>4, <1>6 DEF StepDone, TypeOK

\* An admission stores a fresh worker under the next id.
LEMMA StartType ==
    ASSUME TypeOK, NEW kind \in Kinds, Start(kind)
    PROVE  /\ work' \in [Ops -> Work]
           /\ next_id + 1 \in Ops /\ next_id' = next_id + 1
           /\ cur' \in 0..MaxOps /\ next_id' \in 0..MaxOps
  BY NewWorkType, BoundsAssumption DEF Start, TypeOK

\* Every step keeps the types.
LEMMA TypeStep == TypeOK /\ [Next]_vars => TypeOK'
<1> SUFFICES ASSUME TypeOK, [Next]_vars PROVE TypeOK'
  OBVIOUS
<1>1. CASE StartupReconcile
  BY <1>1, StartType DEF StartupReconcile, Start, TypeOK
<1>2. ASSUME NEW i \in Ops, Worker(i) PROVE TypeOK'
  <2>1. work[i] \in Work
    BY DEF TypeOK
  <2>2. CASE AcquireLock(i)
    <3>1. work' = [work EXCEPT ![i] = [work[i] EXCEPT !.locked = TRUE]]
      BY <2>2 DEF AcquireLock
    <3>2. work' \in [Ops -> Work]
      BY <2>1, <3>1, WorkUpdates DEF TypeOK
    <3>3. QED BY <2>2, <3>2 DEF AcquireLock, TypeOK
  <2>3. CASE StepCheck(i)
    <3> DEFINE n == work[i].steps + 1
    <3>1. n \in 0..MaxSteps
      BY <2>1, <2>3, BoundsAssumption DEF StepCheck, Work
    <3>2. work' = [work EXCEPT ![i] = [work[i] EXCEPT !.pc = "preflight", !.steps = n]]
      BY <2>3 DEF StepCheck
    <3>3. [work[i] EXCEPT !.pc = "preflight", !.steps = n] \in Work
      <4> HIDE DEF n
      <4> QED BY <2>1, <3>1 DEF Work
    <3>4. work' \in [Ops -> Work]
      <4> HIDE DEF n
      <4> QED BY <3>2, <3>3 DEF TypeOK
    <3>5. QED BY <2>3, <3>4 DEF StepCheck, TypeOK
  <2>4. ASSUME NEW out \in {"Failed", "Canceled"}, StepRefused(i, out)
        PROVE  TypeOK'
    <3>1. work' \in [Ops -> Work]
      BY <2>4, StepDoneType DEF StepRefused, StepRecord
    <3>2. QED BY <2>4, <3>1 DEF StepRefused, TypeOK
  <2>5. ASSUME NEW f \in BOOLEAN, StepDispatch(i, f) PROVE TypeOK'
    <3>1. work' = [work EXCEPT ![i] = [work[i] EXCEPT !.pc = "dispatched"]]
      BY <2>5 DEF StepDispatch
    <3>2. work' \in [Ops -> Work]
      BY <2>1, <3>1, WorkUpdates DEF TypeOK
    <3>3. QED BY <2>5, <3>2 DEF StepDispatch, TypeOK
  <2>6. ASSUME NEW r \in StepResults, StepResult(i, r) PROVE TypeOK'
    <3>1. work' \in [Ops -> Work]
      BY <2>6, StepDoneType DEF StepResult, StepResults
    <3>2. QED BY <2>6, <3>1 DEF StepResult, TypeOK
  <2>7. ASSUME NEW out \in Results, WorkReturn(i, out) PROVE TypeOK'
    <3> DEFINE w == work[i]
               class == Classified(i, out)
               d == \/ w.unsure
                    \/ w.touched /\ class # "Completed"
                    \/ w.failed /\ class = "Completed"
    <3>1. ScopeFinish(w, class) \in Outcomes
      BY DEF ScopeFinish, Classified, Results
    <3>2. d \in BOOLEAN
      BY <2>1 DEF Work
    <3>3. work' = [work EXCEPT ![i] =
                     [w EXCEPT !.pc = "finishing", !.locked = FALSE,
                               !.outcome = ScopeFinish(w, class), !.doubt = d]]
      BY <2>7 DEF WorkReturn
    <3>4. work' \in [Ops -> Work]
      <4> HIDE DEF d, class
      <4> QED BY <2>1, <3>1, <3>2, <3>3, WorkUpdates DEF TypeOK
    <3>5. QED BY <2>7, <3>4 DEF WorkReturn, ReleasedLock, TypeOK
  <2>8. CASE WorkPanic(i)
    <3> DEFINE d == \/ work[i].unsure \/ work[i].touched
                    \/ work[i].pc = "dispatched"
    <3>1. d \in BOOLEAN
      BY <2>1 DEF Work
    <3>2. work' = [work EXCEPT ![i] =
                     [work[i] EXCEPT !.pc = "finishing", !.locked = FALSE,
                                     !.outcome = PanicOutcome, !.doubt = d]]
      BY <2>8 DEF WorkPanic
    <3>3. work' \in [Ops -> Work]
      <4> HIDE DEF d
      <4> QED BY <2>1, <3>1, <3>2, WorkUpdates DEF TypeOK, PanicOutcome
    <3>4. QED BY <2>8, <3>3 DEF WorkPanic, ReleasedLock, TypeOK
  <2>9. CASE Finish(i)
    <3>1. work[i].kind \in Kinds /\ work[i].outcome \in Outcomes
            /\ work[i].doubt \in BOOLEAN
      BY <2>1 DEF Work
    <3>2. work' \in [Ops -> Work]
      BY <2>9, <3>1, NewWorkType, WorkUpdates DEF Finish, TypeOK
    <3>3. Notify \in [Drainers -> {"idle", "entered", "registered",
                                   "signalled", "parked", "woken"}]
      BY DEF Notify, TypeOK
    <3>4. doubt' \in BOOLEAN
      BY <2>9, <3>1 DEF Finish, TypeOK
    <3>5. /\ phase' \in {"Idle", "Retained"} /\ cur' \in 0..MaxOps
          /\ retained' \in Outcomes \cup {"none"}
          /\ drainer' = Notify
          /\ UNCHANGED <<next_id, shut, client, booted, lock>>
      BY <2>9, <3>1, BoundsAssumption DEF Finish
    <3>6. QED BY <3>2, <3>3, <3>4, <3>5 DEF TypeOK
  <2>10. CASE Reply(i)
    <3>1. work' = [work EXCEPT ![i] = [work[i] EXCEPT !.pc = "done"]]
      BY <2>10 DEF Reply
    <3>2. work' \in [Ops -> Work]
      BY <2>1, <3>1, WorkUpdates DEF TypeOK
    <3>3. QED BY <2>10, <3>2 DEF Reply, TypeOK
  <2>11. QED BY <1>2, <2>2, <2>3, <2>4, <2>5, <2>6, <2>7, <2>8, <2>9, <2>10
            DEF Worker
<1>3. ASSUME NEW c \in Clients, Client(c) PROVE TypeOK'
  <2>1. ASSUME NEW kind \in {"submit", "managed"}, Submit(c, kind)
        PROVE  TypeOK'
    BY <2>1, StartType DEF Submit, Start, TypeOK
  <2>2. CASE ClientReply(c)
    <3>1. client' \in [Clients -> 0..MaxOps]
      BY <2>2, BoundsAssumption DEF ClientReply, TypeOK
    <3>2. QED BY <2>2, <3>1, BoundsAssumption DEF ClientReply, TypeOK
  <2>3. CASE ClientAbort(c)
    <3>1. client[c] \in Ops
      BY <2>3, BoundsAssumption DEF ClientAbort, TypeOK
    <3>2. work' = [work EXCEPT ![client[c]] =
                     [work[client[c]] EXCEPT !.cancel = TRUE]]
      BY <2>3 DEF ClientAbort
    <3>3. work' \in [Ops -> Work]
      BY <3>1, <3>2, WorkUpdates DEF TypeOK
    <3>4. QED BY <2>3, <3>3, BoundsAssumption DEF ClientAbort, DropPending, TypeOK
  <2>4. QED BY <1>3, <2>1, <2>2, <2>3 DEF Client
<1>4. ASSUME NEW d \in Drainers, Drain(d) PROVE TypeOK'
  BY <1>4 DEF Drain, DrainTake, DrainRegister, DrainCheck, TypeOK
<1>5. CASE Shutdown
  <2>1. ASSUME phase = "Running", cur \in Ops PROVE work' \in [Ops -> Work]
    <3>1. work' = [work EXCEPT ![cur] = [work[cur] EXCEPT !.cancel = TRUE]]
      BY <1>5, <2>1 DEF Shutdown
    <3>2. QED BY <2>1, <3>1, WorkUpdates DEF TypeOK
  <2>2. ASSUME ~(phase = "Running" /\ cur \in Ops)
        PROVE  work' \in [Ops -> Work]
    BY <1>5, <2>2 DEF Shutdown, TypeOK
  <2>3. QED BY <1>5, <2>1, <2>2 DEF Shutdown, TypeOK
<1>6. CASE ShutdownReturn
  BY <1>6 DEF ShutdownReturn, TypeOK
<1>7. CASE UNCHANGED vars
  BY <1>7 DEF vars, TypeOK
<1>8. QED BY <1>1, <1>2, <1>3, <1>4, <1>5, <1>6, <1>7 DEF Next

\* The initial state has the declared types.
LEMMA InitType == Init => TypeOK
<1> SUFFICES ASSUME Init PROVE TypeOK
  OBVIOUS
<1>1. NoWork \in Work
  BY NewWorkType
<1>2. work \in [Ops -> Work]
  BY <1>1 DEF Init
<1>3. client \in [Clients -> 0..MaxOps]
  BY BoundsAssumption DEF Init
<1>4. drainer \in [Drainers -> {"idle", "entered", "registered",
                                "signalled", "parked", "woken"}]
  BY DEF Init
<1>5. booted \in BOOLEAN /\ doubt \in BOOLEAN
  BY Zenon DEF Init
<1>6. cur \in 0..MaxOps /\ next_id \in 0..MaxOps
  BY BoundsAssumption DEF Init
<1>7. QED BY <1>2, <1>3, <1>4, <1>5, <1>6, Zenon DEF Init, TypeOK

\* Every state has the declared types: the fields of phases, workers, tickets
\* and drain calls never leave their ranges.
THEOREM TypeCorrect == Spec => []TypeOK
  BY InitType, TypeStep, PTL DEF Spec

(***************************************************************************)
(* The safety properties.                                                  *)
(***************************************************************************)

\* A step inside a transaction changes neither the phase nor who runs, so it
\* cannot disturb the barrier.
LEMMA InnerStep ==
    ASSUME IndInv, NEW i \in Ops, NEW w \in Work,
           work' = [work EXCEPT ![i] = w],
           Unfinished(i), w.kind = work[i].kind,
           w.pc \in {"working", "preflight", "dispatched", "finishing"},
           UNCHANGED <<phase, cur, retained, next_id, shut, client, booted,
                       drainer, doubt>>
    PROVE  BarrierInv'
<1>1. phase = "Running" /\ cur = i /\ next_id = i /\ work[i].pc # "done"
  BY DEF IndInv, BarrierInv, SingleWriter, RunningIsLast, Unfinished
<1>2. work'[i] = w /\ \A j \in Ops : j # i => work'[j] = work[j]
  BY DEF IndInv, TypeOK
<1>3. SingleWriter' /\ RunningIsLast'
  BY <1>1, <1>2 DEF IndInv, BarrierInv, SingleWriter, RunningIsLast, Unfinished
<1>4. Recovery(i)' = Recovery(i) /\ Managed(i)' = Managed(i)
  BY <1>2 DEF Recovery, Managed
<1>5. DoubtFenced'
  BY <1>1, <1>4 DEF IndInv, BarrierInv, DoubtFenced
<1>6. NoLostWakeup'
  BY <1>1, <1>4 DEF IndInv, BarrierInv, NoLostWakeup, MustWait
<1>7. shut # "returned" /\ booted
  BY <1>1 DEF IndInv, BarrierInv, Joined
<1>8. QED BY <1>3, <1>5, <1>6, <1>7 DEF BarrierInv

\* The other workers keep their scope.
LEMMA ScopeFrame ==
    ASSUME IndInv, NEW i \in Ops, NEW w, work' = [work EXCEPT ![i] = w],
           ScopeOK(w)
    PROVE  (\A j \in Ops : ScopeOK(work[j]))'
  BY DEF IndInv, TypeOK

\* A step's result keeps the scope's account of the host.
LEMMA StepDoneInv ==
    ASSUME IndInv, NEW i \in Ops, NEW r \in StepRecord, StepDone(i, r),
           work[i].pc \in {"preflight", "dispatched"},
           r.unsure => r.outcome = "Uncertain",
           r.touched => r.noted,
           UNCHANGED <<phase, cur, retained, next_id, shut, client, booted,
                       drainer, doubt>>
    PROVE  BarrierInv' /\ (\A j \in Ops : ScopeOK(work[j]))'
<1>1. PICK w2 \in Work : work' = [work EXCEPT ![i] = w2] /\ w2 = work'[i]
  <2>1. work' \in [Ops -> Work]
    BY StepDoneType DEF IndInv
  <2>2. work' = [work EXCEPT ![i] = work'[i]] /\ work'[i] \in Work
    BY <2>1 DEF StepDone, IndInv, TypeOK
  <2>3. QED BY <2>2
<1>2. work[i] \in Work /\ ScopeOK(work[i])
  BY DEF IndInv, TypeOK
<1> DEFINE t == work[i].touched \/ r.touched
           u == work[i].unsure \/ r.unsure
           f == work[i].failed \/ r.outcome # "Completed" \/ ~r.ok
           m == work[i].mutated \/ r.noted
           wt == [work[i] EXCEPT !.touched = t, !.unsure = u]
<1>3. /\ wt.failed = work[i].failed /\ wt.mutated = work[i].mutated
      /\ wt.unsure = u /\ wt.touched = t /\ wt.kind = work[i].kind
      /\ wt \in Work
  <2>1. t \in BOOLEAN /\ u \in BOOLEAN
    BY <1>2 DEF Work, StepRecord
  <2> HIDE DEF t, u
  <2>2. QED BY <1>2, <2>1 DEF Work
<1>4. ASSUME Managed(i)
      PROVE  /\ w2.pc = "working" /\ w2.kind = work[i].kind
             /\ w2.touched = t /\ w2.unsure = u /\ w2.mutated = m
             /\ w2.failed = f /\ w2.last = r.outcome
  <2>1. w2 = [Record(wt, r) EXCEPT !.pc = "working"]
    BY <1>1, <1>4 DEF StepDone, IndInv, TypeOK
  <2>2. Record(wt, r) = [wt EXCEPT !.last = r.outcome, !.failed = f,
                                   !.mutated = m]
    BY <1>3 DEF Record
  <2> HIDE DEF f, m, t, u, wt
  <2>3. QED BY <1>3, <2>1, <2>2 DEF Work
<1>5. ASSUME ~Managed(i)
      PROVE  /\ w2.pc = "finishing" /\ w2.kind = "submit"
             /\ w2.outcome = r.outcome /\ w2.doubt = u
  <2>1. w2 = [wt EXCEPT !.pc = "finishing", !.outcome = r.outcome,
                        !.doubt = wt.unsure]
    BY <1>1, <1>5 DEF StepDone, IndInv, TypeOK
  <2> HIDE DEF t, u, wt
  <2>2. QED BY <1>3, <1>5, <2>1 DEF Work, Managed
<1>6. w2.kind = work[i].kind /\ w2.pc \in {"working", "finishing"}
  BY <1>4, <1>5 DEF Managed
<1>7. BarrierInv'
  BY <1>1, <1>6, InnerStep DEF Unfinished
<1>8. ScopeOK(w2)
  <2>1. CASE Managed(i)
    BY <1>2, <1>4, <2>1 DEF ScopeOK, Managed
  <2>2. CASE ~Managed(i)
    BY <1>2, <1>5, <2>2 DEF ScopeOK, Managed
  <2>3. QED BY <2>1, <2>2
<1>9. QED BY <1>1, <1>7, <1>8, ScopeFrame

\* Admitting an operation: the barrier was open, or this is startup recovery.
LEMMA StartInv ==
    ASSUME IndInv, NEW kind \in Kinds, Start(kind),
           kind = "startup" \/ UNCHANGED booted,
           kind = "startup" => booted',
           UNCHANGED <<shut, drainer, doubt>>
    PROVE  BarrierInv' /\ (\A j \in Ops : ScopeOK(work[j]))'
<1> DEFINE n == next_id + 1
<1>1. n \in Ops /\ n # 0 /\ work' = [work EXCEPT ![n] = NewWork(kind)]
  <2>1. n \in Ops
    BY StartType DEF IndInv
  <2>2. n # 0
    BY <2>1, BoundsAssumption
  <2>3. QED BY <2>1, <2>2 DEF Start
<1>2. /\ phase # "Running" /\ shut = "no"
      /\ phase' = "Running" /\ cur' = n /\ next_id' = n
      /\ kind = "startup" \/ phase = "Idle"
  BY DEF Start, Admits
<1>3. /\ work'[n].kind = kind /\ work'[n].pc \in {"preflight", "working"}
      /\ \A j \in Ops : j # n => work'[j] = work[j]
  BY <1>1 DEF NewWork, IndInv, TypeOK
<1> HIDE DEF n
<1>4. \A j \in Ops : ~Unfinished(j)
  BY <1>2 DEF IndInv, BarrierInv, SingleWriter
<1>5. SingleWriter' /\ RunningIsLast'
  BY <1>1, <1>2, <1>3, <1>4 DEF SingleWriter, RunningIsLast, Unfinished
<1>6. DoubtFenced'
  BY <1>2, <1>3 DEF IndInv, BarrierInv, DoubtFenced, Recovery
<1>7. NoLostWakeup'
  BY <1>2 DEF IndInv, BarrierInv, NoLostWakeup, MustWait
<1>8. booted'
  BY <1>2 DEF IndInv, BarrierInv, TypeOK
<1>9. BarrierInv'
  BY <1>2, <1>5, <1>6, <1>7, <1>8 DEF BarrierInv
<1>10. ScopeOK(NewWork(kind))
  BY DEF ScopeOK, NewWork
<1>11. QED BY <1>1, <1>9, <1>10, ScopeFrame

\* finish: the running operation's completion is retained, or a completed
\* recovery reopens the executor with nothing in doubt.
LEMMA FinishInv ==
    ASSUME IndInv, NEW i \in Ops, Finish(i)
    PROVE  BarrierInv' /\ (\A j \in Ops : ScopeOK(work[j]))'
<1> DEFINE w == work[i]
           new == [NewWork(w.kind) EXCEPT !.pc = "replying"]
           reopened == Recovery(i) /\ w.outcome = "Completed"
<1>1. /\ w.pc = "finishing" /\ w \in Work /\ ScopeOK(w)
      /\ phase = "Running" /\ cur = i /\ next_id = i /\ i # 0
  BY DEF Finish, IndInv, TypeOK, BarrierInv, SingleWriter, RunningIsLast,
         Unfinished
<1>2. /\ work' = [work EXCEPT ![i] = new]
      /\ work'[i] = new /\ new.pc = "replying"
      /\ \A j \in Ops : j # i => work'[j] = work[j]
  BY DEF Finish, IndInv, TypeOK, NewWork
<1>3. ScopeOK(new)
  BY <1>2 DEF ScopeOK
<1>4. \A j \in Ops : ~Unfinished(j)'
  BY <1>1, <1>2 DEF IndInv, BarrierInv, SingleWriter, Unfinished
<1>5. phase' # "Running"
  BY DEF Finish
<1>6. SingleWriter' /\ RunningIsLast'
  BY <1>4, <1>5 DEF SingleWriter, RunningIsLast
<1>7. DoubtFenced'
  <2>1. CASE reopened
    <3>1. ~w.doubt /\ doubt' = w.doubt
      BY <1>1, <2>1 DEF ScopeOK, Finish
    <3>2. QED BY <3>1 DEF DoubtFenced
  <2>2. CASE ~reopened /\ w.doubt
    BY <1>1, <2>2 DEF ScopeOK, Finish, DoubtFenced
  <2>3. CASE ~reopened /\ ~w.doubt
    <3>1. /\ doubt' = (doubt \/ w.doubt)
          /\ phase' = "Retained" /\ retained' = w.outcome
      BY <2>3 DEF Finish
    <3>2. doubt => Recovery(i)
      BY <1>1 DEF IndInv, BarrierInv, DoubtFenced
    <3>3. Recovery(i) => w.outcome = "Uncertain"
      BY <1>1, <2>3 DEF ScopeOK, Recovery
    <3>4. QED BY <2>3, <3>1, <3>2, <3>3 DEF DoubtFenced
  <2>4. QED BY <2>1, <2>2, <2>3
<1>8. NoLostWakeup'
  BY DEF Finish, Notify, NoLostWakeup
<1>9. shut # "returned" /\ booted /\ shut' = shut /\ booted' = booted
  BY <1>1 DEF IndInv, BarrierInv, Joined, Finish
<1>10. BarrierInv'
  BY <1>6, <1>7, <1>8, <1>9 DEF BarrierInv
<1>11. QED BY <1>2, <1>3, <1>10, ScopeFrame

\* Requesting cancellation only sets a flag.
LEMMA CancelInv ==
    ASSUME IndInv, NEW k \in Ops, work' = [work EXCEPT ![k].cancel = TRUE],
           shut' \in {shut, "joining"},
           UNCHANGED <<phase, cur, retained, next_id, booted, drainer, doubt>>
    PROVE  BarrierInv' /\ (\A j \in Ops : ScopeOK(work[j]))'
<1> DEFINE new == [work[k] EXCEPT !.cancel = TRUE]
<1>1. /\ work' = [work EXCEPT ![k] = new] /\ work[k] \in Work
      /\ ScopeOK(work[k])
  BY DEF IndInv, TypeOK
<1>2. ScopeOK(new)
  BY <1>1 DEF ScopeOK, Work
<1>3. \A j \in Ops : work'[j].pc = work[j].pc /\ work'[j].kind = work[j].kind
  BY <1>1 DEF IndInv, TypeOK, Work
<1> HIDE DEF new
<1>4. cur \in Ops \/ cur = 0
  BY DEF IndInv, TypeOK
<1>5. next_id \in Ops \/ next_id = 0
  BY DEF IndInv, TypeOK
<1>6. SingleWriter' /\ RunningIsLast'
  BY <1>3, <1>4 DEF IndInv, BarrierInv, SingleWriter, RunningIsLast, Unfinished
<1>7. DoubtFenced' /\ NoLostWakeup'
  BY <1>3, <1>4 DEF IndInv, BarrierInv, RunningIsLast, DoubtFenced, NoLostWakeup,
     MustWait, Recovery, Managed
<1>8. shut' = "returned" => Joined'
  BY <1>3, <1>5 DEF IndInv, BarrierInv, Joined
<1>9. BarrierInv'
  BY <1>6, <1>7, <1>8 DEF IndInv, BarrierInv
<1>10. QED BY <1>1, <1>2, <1>9, ScopeFrame

\* The inductive step.
LEMMA IndInvStep == IndInv /\ [Next]_vars => IndInv'
<1> SUFFICES ASSUME IndInv, [Next]_vars PROVE IndInv'
  OBVIOUS
<1> DEFINE Goal == BarrierInv' /\ (\A j \in Ops : ScopeOK(work[j]))'
<1>t. TypeOK
  BY DEF IndInv
<1>1. ASSUME StartupReconcile PROVE Goal
  BY <1>1, StartInv DEF StartupReconcile
<1>2. ASSUME NEW i \in Ops, Worker(i) PROVE Goal
  <2> DEFINE w == work[i]
  <2>1. w \in Work /\ ScopeOK(w)
    BY DEF IndInv, TypeOK
  <2>2. CASE AcquireLock(i)
    <3> DEFINE new == [w EXCEPT !.locked = TRUE]
    <3>1. /\ work' = [work EXCEPT ![i] = new]
          /\ new \in Work /\ new.kind = w.kind /\ new.pc = "working"
          /\ Unfinished(i)
      <4>1. work' = [work EXCEPT ![i] = new] /\ w.pc = "working"
        BY <2>2 DEF AcquireLock
      <4>2. new \in Work
        BY <2>1, WorkUpdates
      <4>3. new.kind = w.kind /\ new.pc = "working"
        BY <2>1, <4>1 DEF Work
      <4>4. QED BY <4>1, <4>2, <4>3 DEF Unfinished
    <3>2. ScopeOK(new)
      BY <2>1, <2>2 DEF AcquireLock, ScopeOK, Work
    <3> HIDE DEF new
    <3>3. BarrierInv'
      BY <2>2, <3>1, InnerStep DEF AcquireLock
    <3>4. QED BY <3>1, <3>2, <3>3, ScopeFrame
  <2>3. CASE StepCheck(i)
    <3> DEFINE new == [w EXCEPT !.pc = "preflight", !.steps = @ + 1]
    <3>1. /\ work' = [work EXCEPT ![i] = new]
          /\ new \in Work /\ new.kind = w.kind /\ new.pc = "preflight"
          /\ Unfinished(i)
      <4>1. work' = [work EXCEPT ![i] = new] /\ w.pc = "working"
              /\ w.steps < MaxSteps
        BY <2>3 DEF StepCheck
      <4>2. w.steps + 1 \in 0..MaxSteps
        BY <2>1, <4>1, BoundsAssumption DEF Work
      <4>3. new \in Work
        BY <2>1, <4>2 DEF Work
      <4>4. new.kind = w.kind /\ new.pc = "preflight"
        BY <2>1 DEF Work
      <4>5. QED BY <4>1, <4>3, <4>4 DEF Unfinished
    <3>2. ScopeOK(new)
      BY <2>1, <2>3 DEF StepCheck, WritesAvailable, Managed, ScopeOK, Work
    <3> HIDE DEF new
    <3>3. BarrierInv'
      BY <2>3, <3>1, InnerStep DEF StepCheck
    <3>4. QED BY <3>1, <3>2, <3>3, ScopeFrame
  <2>4. ASSUME NEW out \in {"Failed", "Canceled"}, StepRefused(i, out)
        PROVE  Goal
    <3> DEFINE r == [outcome |-> out, ok |-> FALSE, noted |-> FALSE,
                     touched |-> FALSE, unsure |-> FALSE]
    <3>1. r \in StepRecord /\ ~r.unsure /\ ~r.touched /\ StepDone(i, r)
      BY <2>4 DEF StepRecord, StepRefused
    <3> HIDE DEF r
    <3>2. QED BY <2>4, <3>1, StepDoneInv DEF StepRefused
  <2>5. ASSUME NEW f \in BOOLEAN, StepDispatch(i, f) PROVE Goal
    <3> DEFINE new == [w EXCEPT !.pc = "dispatched"]
    <3>1. /\ work' = [work EXCEPT ![i] = new]
          /\ w.pc = "preflight"
          /\ UNCHANGED <<phase, cur, retained, next_id, shut, client, booted,
                         drainer, doubt>>
      BY <2>5 DEF StepDispatch
    <3>2. new \in Work /\ new.kind = w.kind /\ new.pc = "dispatched"
      <4>1. new \in Work
        BY <2>1, WorkUpdates
      <4>2. QED BY <2>1, <4>1 DEF Work
    <3>3. ScopeOK(new)
      BY <2>1, <3>1 DEF ScopeOK, Work
    <3> HIDE DEF new
    <3>4. BarrierInv'
      BY <3>1, <3>2, InnerStep DEF Unfinished
    <3>5. QED BY <3>1, <3>3, <3>4, ScopeFrame
  <2>6. ASSUME NEW r \in StepResults, StepResult(i, r) PROVE Goal
    <3>1. /\ r \in StepRecord
          /\ r.unsure => r.outcome = "Uncertain"
          /\ r.touched => r.noted
      BY DEF StepResults, Verified, EffectSeen, Refused, Unaccounted
    <3>2. QED BY <2>6, <3>1, StepDoneInv DEF StepResult
  <2>7. ASSUME NEW out \in Results, WorkReturn(i, out) PROVE Goal
    <3> DEFINE class == Classified(i, out)
               fin == ScopeFinish(w, class)
               d == \/ w.unsure
                    \/ w.touched /\ class # "Completed"
                    \/ w.failed /\ class = "Completed"
               new == [w EXCEPT !.pc = "finishing", !.locked = FALSE,
                                !.outcome = fin, !.doubt = d]
    <3>1. /\ work' = [work EXCEPT ![i] = new]
          /\ w.pc = "working" /\ w.kind # "submit"
          /\ UNCHANGED <<phase, cur, retained, next_id, shut, client, booted,
                         drainer, doubt>>
      BY <2>7 DEF WorkReturn, Managed
    <3>2. fin \in Outcomes /\ d \in BOOLEAN
      BY <2>1 DEF ScopeFinish, Classified, Results, Work
    <3>3. d => fin = "Uncertain"
      BY <2>1, <3>1 DEF ScopeOK, ScopeFinish
    <3>4. w.kind = "startup" => fin \in {"Completed", "Uncertain"}
      BY DEF Classified, Recovery, ScopeFinish, Results
    <3> HIDE DEF class, fin, d
    <3>5. /\ new \in Work /\ new.kind = w.kind /\ new.pc = "finishing"
          /\ new.outcome = fin /\ new.doubt = d
      <4>1. new \in Work
        BY <2>1, <3>2, WorkUpdates, ZenonT(60)
      <4>2. QED BY <2>1, <4>1 DEF Work
    <3> HIDE DEF new
    <3>6. ScopeOK(new)
      BY <3>3, <3>4, <3>5 DEF ScopeOK
    <3>7. BarrierInv'
      BY <3>1, <3>5, InnerStep DEF Unfinished
    <3>8. QED BY <3>1, <3>6, <3>7, ScopeFrame
  <2>8. CASE WorkPanic(i)
    <3> DEFINE d == w.unsure \/ w.touched \/ w.pc = "dispatched"
               new == [w EXCEPT !.pc = "finishing", !.locked = FALSE,
                                !.outcome = "Uncertain", !.doubt = d]
    <3>1. /\ work' = [work EXCEPT ![i] = new]
          /\ w.pc \in {"working", "preflight", "dispatched"}
          /\ UNCHANGED <<phase, cur, retained, next_id, shut, client, booted,
                         drainer, doubt>>
      BY <2>8 DEF WorkPanic, PanicOutcome
    <3>2. d \in BOOLEAN
      BY <2>1 DEF Work
    <3> HIDE DEF d
    <3>3. /\ new \in Work /\ new.kind = w.kind /\ new.pc = "finishing"
          /\ new.outcome = "Uncertain"
      <4>1. new \in Work
        BY <2>1, <3>2, WorkUpdates
      <4>2. QED BY <2>1, <4>1 DEF Work
    <3> HIDE DEF new
    <3>4. ScopeOK(new)
      BY <3>3 DEF ScopeOK
    <3>5. BarrierInv'
      BY <3>1, <3>3, InnerStep DEF Unfinished
    <3>6. QED BY <3>1, <3>4, <3>5, ScopeFrame
  <2>9. CASE Finish(i)
    BY <2>9, FinishInv
  <2>10. CASE Reply(i)
    <3> DEFINE new == [w EXCEPT !.pc = "done"]
    <3>1. /\ work' = [work EXCEPT ![i] = new] /\ w.pc = "replying"
          /\ UNCHANGED <<phase, cur, retained, next_id, shut, client, booted,
                         drainer, doubt>>
      BY <2>10 DEF Reply
    <3>2. /\ new.pc = "done" /\ new.kind = w.kind /\ work'[i] = new
          /\ \A j \in Ops : j # i => work'[j] = work[j]
      BY <2>1, <3>1 DEF Work, IndInv, TypeOK
    <3>3. ScopeOK(new)
      BY <3>2 DEF ScopeOK
    <3> HIDE DEF new
    <3>4. \A j \in Ops : /\ Unfinished(j)' = Unfinished(j)
                         /\ work'[j].kind = work[j].kind
                         /\ work[j].pc = "done" => work'[j].pc = "done"
      BY <3>1, <3>2 DEF Unfinished
    <3>5. BarrierInv'
      <4>1. cur \in Ops \/ cur = 0
        BY <1>t DEF TypeOK
      <4>2. next_id \in Ops \/ next_id = 0
        BY <1>t DEF TypeOK
      <4>3. SingleWriter' /\ RunningIsLast'
        BY <3>1, <3>4, <4>1 DEF IndInv, BarrierInv, SingleWriter, RunningIsLast
      <4>4. DoubtFenced' /\ NoLostWakeup'
        BY <3>1, <3>4, <4>1 DEF IndInv, BarrierInv, RunningIsLast, DoubtFenced,
           NoLostWakeup, MustWait, Recovery, Managed
      <4>5. shut' = "returned" => Joined'
        BY <3>1, <3>4, <4>2 DEF IndInv, BarrierInv, Joined
      <4>6. QED BY <3>1, <4>3, <4>4, <4>5 DEF IndInv, BarrierInv
    <3>6. QED BY <3>1, <3>3, <3>5, ScopeFrame
  <2>11. QED BY <1>2, <2>2, <2>3, <2>4, <2>5, <2>6, <2>7, <2>8, <2>9, <2>10
            DEF Worker
<1>3. ASSUME NEW c \in Clients, Client(c) PROVE Goal
  <2>1. ASSUME NEW kind \in {"submit", "managed"}, Submit(c, kind) PROVE Goal
    BY <2>1, StartInv DEF Submit
  <2>2. CASE ClientReply(c)
    BY <1>t, <2>2 DEF ClientReply, Acknowledges, IndInv, BarrierInv, SingleWriter,
       RunningIsLast, DoubtFenced, NoLostWakeup, MustWait, Unfinished, Joined,
       Recovery, Managed
  <2>3. CASE ClientAbort(c)
    <3>1. client[c] \in Ops
      BY <1>t, <2>3, BoundsAssumption DEF ClientAbort, TypeOK
    <3>2. QED BY <2>3, <3>1, CancelInv DEF ClientAbort, DropPending
  <2>4. QED BY <1>3, <2>1, <2>2, <2>3 DEF Client
<1>4. ASSUME NEW d \in Drainers, Drain(d) PROVE Goal
  <2>1. UNCHANGED <<phase, cur, retained, next_id, shut, work, booted, doubt>>
    BY <1>4 DEF Drain, DrainTake, DrainRegister, DrainCheck
  <2>2. NoLostWakeup'
    BY <1>t, <1>4, <2>1 DEF Drain, DrainTake, DrainRegister, DrainCheck, IndInv,
       BarrierInv, NoLostWakeup, MustWait, Managed, TypeOK
  <2>3. QED BY <2>1, <2>2 DEF IndInv, BarrierInv, SingleWriter, RunningIsLast,
       DoubtFenced, Unfinished, Joined, Recovery
<1>5. ASSUME Shutdown PROVE Goal
  <2>1. CASE phase = "Running"
    <3>1. cur \in Ops
      BY <1>t, <2>1 DEF IndInv, BarrierInv, RunningIsLast, TypeOK
    <3>2. QED BY <1>5, <2>1, <3>1, CancelInv DEF Shutdown
  <2>2. CASE phase # "Running"
    BY <1>5, <2>2 DEF Shutdown, IndInv, BarrierInv, SingleWriter, RunningIsLast,
       DoubtFenced, NoLostWakeup, MustWait, Unfinished, Recovery, Managed
  <2>3. QED BY <2>1, <2>2
<1>6. ASSUME ShutdownReturn PROVE Goal
  BY <1>6 DEF ShutdownReturn, IndInv, BarrierInv, SingleWriter, RunningIsLast,
     DoubtFenced, NoLostWakeup, MustWait, Unfinished, Joined, Recovery, Managed
<1>7. ASSUME UNCHANGED vars PROVE Goal
  BY <1>7 DEF vars, IndInv, BarrierInv, SingleWriter, RunningIsLast,
     DoubtFenced, NoLostWakeup, MustWait, Unfinished, Joined, Recovery, Managed
<1>8. Goal
  BY <1>1, <1>2, <1>3, <1>4, <1>5, <1>6, <1>7 DEF Next
<1>9. TypeOK'
  BY <1>t, TypeStep
<1>10. QED BY <1>8, <1>9 DEF IndInv

\* The inductive invariant holds: every safety property of the executor
\* follows from it.
THEOREM Inductive == Spec => []IndInv
<1>1. Init => IndInv
  <2> SUFFICES ASSUME Init PROVE IndInv
    OBVIOUS
  <2>1. TypeOK
    BY InitType
  <2>2. \A i \in Ops : work[i] = NoWork
    BY DEF Init
  <2>3. NoWork.pc = "none"
    BY DEF NoWork, NewWork
  <2>4. \A i \in Ops : ScopeOK(work[i]) /\ ~Unfinished(i)
    BY <2>2, <2>3 DEF ScopeOK, Unfinished
  <2>5. BarrierInv
    BY <2>4 DEF Init, BarrierInv, SingleWriter, RunningIsLast, DoubtFenced,
                NoLostWakeup
  <2>6. QED BY <2>1, <2>4, <2>5 DEF IndInv
<1>2. QED BY <1>1, IndInvStep, PTL DEF Spec

\* At most one native transaction is in progress, the one the executor's
\* phase names (finish's assert! cannot fail).
THEOREM WritersTakeTurns == Spec => []SingleWriter
<1>1. IndInv => SingleWriter
  BY DEF IndInv, BarrierInv
<1>2. QED BY <1>1, Inductive, PTL

\* No ordinary write is admitted while the host may carry native work nobody
\* accounted for.
THEOREM WritesFencedByDoubt == Spec => []DoubtFenced
<1>1. IndInv => DoubtFenced
  BY DEF IndInv, BarrierInv
<1>2. QED BY <1>1, Inductive, PTL

\* A drain never sleeps through the completion it waits for.
THEOREM WakeupsDelivered == Spec => []NoLostWakeup
<1>1. IndInv => NoLostWakeup
  BY DEF IndInv, BarrierInv
<1>2. QED BY <1>1, Inductive, PTL

\* Once shutdown() has returned no native transaction is in progress.
THEOREM ShutdownDrains == Spec => []ShutdownJoins
<1>1. IndInv => ShutdownJoins
  <2> SUFFICES ASSUME IndInv, shut = "returned", NEW i \in Ops, Unfinished(i)
               PROVE  FALSE
    BY DEF ShutdownJoins
  <2>1. next_id = i /\ i # 0
    BY DEF IndInv, BarrierInv, SingleWriter, RunningIsLast
  <2>2. work[i].pc = "done"
    BY <2>1 DEF IndInv, BarrierInv, Joined
  <2>3. QED BY <2>2 DEF Unfinished
<1>2. QED BY <1>1, Inductive, PTL

\* Dropping a request never releases the barrier its operation holds.
THEOREM CancellationKeepsBarrier == Spec => AbandonedKeepsBarrier
<1> DEFINE Abandons == phase \in {"Running", "Retained"} /\ Abandoned(cur)
           Kept == phase' \in {"Running", "Retained"} /\ cur' = cur
<1>1. IndInv /\ [Next]_vars => [Abandons => Kept]_vars
  <2> SUFFICES ASSUME IndInv, Next, Abandons PROVE Kept
    BY DEF vars
  <2>1. booted /\ phase # "Idle" /\ phase # "RecoveryRequired"
    BY DEF IndInv, BarrierInv
  <2>2. CASE StartupReconcile
    BY <2>1, <2>2 DEF StartupReconcile
  <2>3. ASSUME NEW i \in Ops, Worker(i) PROVE Kept
    <3>1. CASE Finish(i)
      <4>1. Unfinished(i)
        BY <3>1 DEF Finish, Unfinished
      <4>2. cur = i /\ ~Recovery(i)
        BY <4>1 DEF IndInv, BarrierInv, SingleWriter, Abandoned
      <4>3. QED BY <3>1, <4>2 DEF Finish
    <3>2. CASE ~Finish(i)
      BY <2>3, <3>2 DEF Worker, AcquireLock, StepCheck, StepRefused,
         StepDispatch, StepResult, WorkReturn, WorkPanic, Reply
    <3>3. QED BY <3>1, <3>2
  <2>4. ASSUME NEW c \in Clients, Client(c) PROVE Kept
    <3>1. ASSUME NEW kind \in {"submit", "managed"}, Submit(c, kind)
          PROVE  Kept
      BY <2>1, <3>1 DEF Submit, Start, Admits
    <3>2. CASE ClientReply(c)
      BY <3>2 DEF ClientReply, Acknowledges, Abandoned
    <3>3. CASE ClientAbort(c)
      BY <3>3 DEF ClientAbort, DropPending
    <3>4. QED BY <2>4, <3>1, <3>2, <3>3 DEF Client
  <2>5. ASSUME NEW d \in Drainers, Drain(d) PROVE Kept
    BY <2>5 DEF Drain, DrainTake, DrainRegister, DrainCheck
  <2>6. CASE Shutdown \/ ShutdownReturn
    BY <2>6 DEF Shutdown, ShutdownReturn
  <2>7. QED BY <2>2, <2>3, <2>4, <2>5, <2>6 DEF Next
<1>2. QED BY <1>1, Inductive, PTL DEF Spec, AbandonedKeepsBarrier
=============================================================================
