--------------------------- MODULE AddressBindings ---------------------------
(***************************************************************************)
(* Ownership of the IPv4 addresses that the application puts on the        *)
(* selected Ethernet adapter: BindingStore, the manual address operations, *)
(* the mode transition and the automatic adoption loop                     *)
(* (src-tauri/src/network/binding_store.rs, manual_address.rs, mod.rs,     *)
(* auto_adopt.rs, adopt_loop.rs) over the saved rows of config.rs.         *)
(*                                                                         *)
(* Windows is the set os of assigned addresses.  A native command may be   *)
(* applied or not and may report success or not, independently; an error   *)
(* may leave the native executor in doubt, which refuses every later       *)
(* write.  Every save writes the file before memory, so saved is both; a   *)
(* save may fail.  The process may die between any two steps.              *)
(***************************************************************************)
EXTENDS Naturals, FiniteSets

CONSTANTS
    Users,         \* callers of the network commands
    Adopter,       \* the adoption loop
    Nics,          \* physical Ethernet adapters
    Addrs,         \* host addresses
    Subnets,       \* /24 keys of the saved rows
    SubnetOf,      \* the /24 of an address
    None,          \* absent row, address or adapter
    Nobody,        \* a free lock
    LegacyAddrs,   \* addresses of rows that an old file holds without an owner
    Ops,           \* requests issued in this instance
    MaxRequests,   \* bound: requests
    MaxAttempts,   \* bound: rounds of the adoption loop that touch an address
    MaxFaults      \* bound: failed saves, native errors, failed observations,
                   \* changes made outside the application, crashes

AddressOps == {"add", "removeSaved", "removeManual"}
AllOps == AddressOps \cup {"mode", "reload", "select", "cleanup", "refresh", "start"}
Modes == {"auto", "manual", "dhcp"}
Actors == Users \cup {Adopter}
Pair == Nics \X Addrs
Row == [desired : {"present", "removed"}, applied : BOOLEAN, err : BOOLEAN,
        addr : Addrs, owner : Nics \cup {None}]
Plans == {"none", "unavailable", "hold", "present", "absent", "add", "remove",
          "issued", "failed"}

ASSUME ConstantsAssumption ==
    /\ Adopter \notin Users /\ Nobody \notin Users \cup {Adopter}
    /\ None \notin Nics \cup Addrs \cup Subnets \cup Row
    /\ SubnetOf \in [Addrs -> Subnets]
    /\ LegacyAddrs \subseteq Addrs /\ Ops \subseteq AllOps
    /\ \A a, b \in LegacyAddrs : SubnetOf[a] = SubnetOf[b] => a = b
    /\ {MaxRequests, MaxAttempts, MaxFaults} \subseteq Nat

VARIABLES
    saved,      \* AppSettings: rows, adopted_subnets, pending_addresses, mode, adapter
    os,         \* addresses assigned in Windows
    mine,       \* history: the ones among them that automatic work added
    up,         \* link of the selected adapter
    dhcp,       \* Windows says the selected adapter is DHCP
    doubt,      \* check_writes_available refuses
    routes,     \* BindingStore.adopted_ips
    session,    \* discovery_active
    paused,     \* address_active is false
    discovery,  \* holder of discovery_op
    work,       \* holder of address_work
    proc,       \* local state of every actor
    spent       \* counters behind the bounds

vars == <<saved, os, mine, up, dhcp, doubt, routes, session, paused, discovery,
          work, proc, spent>>

windows == <<os, mine, up, dhcp, doubt>>
locks == <<session, paused, discovery, work>>

\* sub, addr, nic, mode: the request and its context; prev: the primary address a
\* mode change replaces; good: the last command and observation went well;
\* intent: a removal was saved; todo: temporary addresses to reconcile; own:
\* PendingIps of this adoption; cur: the address in hand; plan: rows to reconcile;
\* pass: the adopter probes an identity, adopts with the probe's address, or neither;
\* more: the round goes on to the devices that broadcast.
Idle == [pc |-> "idle", op |-> "add", addr |-> None, sub |-> None, nic |-> None,
         mode |-> "auto", prev |-> None, fresh |-> FALSE, good |-> FALSE,
         intent |-> FALSE, todo |-> {}, own |-> {}, cur |-> <<None, None>>,
         plan |-> [s \in Subnets |-> "none"], after |-> "end", pass |-> "none",
         more |-> FALSE]

Bounds == [requests |-> MaxRequests, attempts |-> MaxAttempts, faults |-> MaxFaults]
Spend(k) ==
    /\ spent[k] < Bounds[k]
    /\ spent' = [spent EXCEPT ![k] = @ + 1]

\* An external call that succeeds, or fails at the price of a fault.
Outcome(ok) == IF ok THEN UNCHANGED spent ELSE Spend("faults")

(***************************************************************************)
(* Saved rows (config.rs).                                                 *)
(***************************************************************************)

RemovalComplete(row) == row.desired = "removed" /\ ~row.applied /\ ~row.err

\* The rows that name an address.
RowsOf(sv, a) == {s \in Subnets : sv.row[s] # None /\ sv.row[s].addr = a}

\* set_binding, set_binding_intent: a live route drops a matching pending
\* record in the same save; a removal drops the routed address.
SetBinding(sv, s, row) ==
    [sv EXCEPT !.row[s] = row,
        !.subnets[s] = IF row.desired = "removed" THEN None
                       ELSE IF @ = None THEN row.addr ELSE @,
        !.pending = IF row.desired = "present" /\ row.applied /\ ~row.err
                    THEN @ \ {<<row.owner, row.addr>>} ELSE @]

\* A late Present row never replaces a removal.
Refused(sv, s, row) ==
    row.desired = "present" /\ sv.row[s] # None /\ sv.row[s].desired = "removed"

ForgetRow(sv, s) == [sv EXCEPT !.row[s] = None, !.subnets[s] = None]

ForgetTemporary(sv, x) == [sv EXCEPT !.pending = @ \ {x}]

\* reserve_temporary_with.
MayReserve(sv, x) ==
    /\ x[1] = sv.nic /\ sv.mode = "auto"
    /\ RowsOf(sv, x[2]) = {} /\ x \notin sv.pending

\* claim_binding_with: the user takes the address over from every automatic owner.
ClaimedRows(sv, a) == {s \in RowsOf(sv, a) : sv.row[s].owner \in {None, sv.nic}}
Without(f, S) == [s \in Subnets |-> IF s \in S THEN None ELSE f[s]]
Claimed(sv, a) ==
    [sv EXCEPT !.pending = @ \ {<<sv.nic, a>>},
               !.row = Without(@, ClaimedRows(sv, a)),
               !.subnets = Without(@, ClaimedRows(sv, a))]

\* pending_binding_removal.
PendingRemoval(row) == [row EXCEPT !.desired = "removed", !.err = TRUE]

\* change_settings_if_with: the file first, memory only after it.
Persist(new, ok) ==
    /\ saved' = IF ok THEN new ELSE saved
    /\ Outcome(ok)

(***************************************************************************)
(* Desired against observed (mod.rs).                                      *)
(***************************************************************************)

OnNic(a) == <<saved.nic, a>> \in os

\* binding_action, with the check of the routed address that
\* reconcile_binding_row makes; seen says that the snapshot was read.
BindingAction(s, row, seen) ==
    IF row.desired = "present" /\ saved.subnets[s] # row.addr THEN "hold"
    ELSE IF ~seen \/ (~up /\ row.desired = "present") THEN "unavailable"
    ELSE IF row.owner \notin {None, saved.nic} THEN "hold"
    ELSE IF row.desired = "removed" THEN (IF OnNic(row.addr) THEN "remove" ELSE "absent")
    ELSE IF dhcp \/ saved.mode = "dhcp" THEN "hold"
    ELSE IF OnNic(row.addr) THEN "present" ELSE "add"

\* apply_binding after the command: seen says that the observation succeeded.
\* A completed removal survives an outage unchanged.
ApplyBinding(row, plan, seen) ==
    LET last == IF seen THEN OnNic(row.addr) ELSE row.desired = "removed"
        applied == CASE plan = "unavailable" -> row.applied
                     [] plan = "present" -> TRUE
                     [] plan \in {"hold", "absent"} -> FALSE
                     [] OTHER -> last
        err == \/ plan \in {"unavailable", "hold", "failed"}
               \/ plan = "issued" /\ (~seen \/ last # (row.desired = "present"))
    IN IF plan = "unavailable" /\ RemovalComplete(row) THEN row
       ELSE [row EXCEPT !.applied = applied, !.err = err,
                !.owner = IF applied /\ ~err /\ row.desired = "present"
                          THEN saved.nic ELSE @]

\* publish_binding: a status that cannot be saved is not routed; a status that
\* changes nothing is not saved.  seen: the observation before it succeeded.
Publish(s, row, ok, seen) ==
    LET kept == ok /\ ~Refused(saved, s, row)
    IN /\ ok \/ SetBinding(saved, s, row) # saved
       /\ saved' = IF kept THEN SetBinding(saved, s, row) ELSE saved
       /\ routes' = [routes EXCEPT ![s] =
            IF kept /\ row.desired = "present" /\ row.applied /\ ~row.err
            THEN row.addr ELSE None]
       /\ Outcome(ok /\ seen)

(***************************************************************************)
(* Native commands.                                                        *)
(***************************************************************************)

\* A command meant to leave the assignment at want, applied or not, reported
\* good or not.  An error may leave the executor in doubt.  auto: the
\* application, not the user, wants the address.
Command(want, auto, applied, ok) ==
    /\ os' = IF applied THEN want ELSE os
    /\ mine' = (mine \cap os') \cup (IF auto THEN os' \ os ELSE {})
    /\ IF applied /\ ok THEN UNCHANGED <<doubt, spent>>
       ELSE Spend("faults") /\ (doubt' = doubt \/ (~ok /\ doubt' = TRUE))
    /\ UNCHANGED up

Goto(p, pc) == proc' = [proc EXCEPT ![p].pc = pc]

\* AddressPause::new: address work scheduled before is stale for ever.
Pause(u, pc) ==
    /\ paused' = TRUE
    /\ proc' = [proc EXCEPT ![u].pc = pc, ![Adopter].fresh = FALSE]

\* A bug: the pause is not a guard that an early return drops.
ReturnPaused(u) ==
    /\ proc' = [proc EXCEPT ![u] = Idle]
    /\ discovery' = IF discovery = u THEN Nobody ELSE discovery
    /\ work' = IF work = u THEN Nobody ELSE work
    /\ UNCHANGED <<session, paused>>

\* The end of an operation: AddressPause, address_work and discovery_op drop.
Return(u) ==
    /\ proc' = [proc EXCEPT ![u] = Idle]
    /\ discovery' = IF discovery = u THEN Nobody ELSE discovery
    /\ work' = IF work = u THEN Nobody ELSE work
    /\ paused' = IF discovery = u THEN FALSE ELSE paused
    /\ UNCHANGED session

\* A removal nested in a mode change returns to it, any other to its caller.
Done(u, good) ==
    IF proc[u].op = "modeRemove"
    THEN /\ proc' = [proc EXCEPT ![u].op = "mode",
                                 ![u].pc = IF good THEN "setMode" ELSE "temp",
                                 ![u].todo = saved.pending, ![u].after = "rows"]
         /\ UNCHANGED locks
    ELSE Return(u)

(***************************************************************************)
(* Admission of a user's operation.                                        *)
(***************************************************************************)

\* transition_mode and select_adapter refuse at once while writes are in doubt.
Request(u) ==
    \E op \in Ops, a \in Addrs, n \in Nics, m \in Modes :
        /\ proc[u].pc = "idle" /\ Spend("requests")
        /\ op \in {"mode", "select", "refresh"} => ~doubt
        /\ op = "select" => n # saved.nic
        /\ op # "select" => n = saved.nic
        /\ op # "mode" => m = saved.mode
        /\ proc' = [proc EXCEPT ![u] = [Idle EXCEPT !.pc = "op", !.op = op, !.addr = a,
                        !.sub = SubnetOf[a], !.nic = n, !.mode = m]]
        /\ UNCHANGED <<saved, windows, routes, locks>>

TakeOp(u) ==
    /\ proc[u].pc = "op" /\ discovery = Nobody /\ discovery' = u
    /\ CASE proc[u].op = "select" ->
              \E ok \in BOOLEAN :                    \* set_selected_adapter_mac
                /\ Persist([saved EXCEPT !.nic = proc[u].nic], ok)
                /\ Goto(u, IF ok THEN "stop" ELSE "end")
                /\ UNCHANGED paused
         [] proc[u].op = "mode" ->
              \E ok \in BOOLEAN :                    \* selected_write_adapter
                /\ Outcome(ok) /\ UNCHANGED saved
                /\ IF ok THEN Pause(u, "stop") ELSE Goto(u, "end") /\ UNCHANGED paused
         [] proc[u].op \in AddressOps \cup {"reload", "reloadStart"} ->
              Pause(u, "work") /\ UNCHANGED <<saved, spent>>
         [] proc[u].op = "refresh" -> Pause(u, "stop") /\ UNCHANGED <<saved, spent>>
         [] OTHER -> Goto(u, "stop") /\ UNCHANGED <<saved, spent, paused>>
    /\ UNCHANGED <<windows, routes, session, work>>

\* stop_session_locked: the flag, the bounded join of the adoption loop or its
\* abort, then one reconciliation of what it left.
Stop(u) ==
    /\ proc[u].pc = "stop"
    /\ session' = FALSE /\ Goto(u, "join")
    /\ UNCHANGED <<saved, windows, routes, paused, discovery, work, spent>>

Join(u) ==
    /\ proc[u].pc = "join"
    /\ work' = IF work = Adopter THEN Nobody ELSE work
    /\ proc' = [proc EXCEPT ![u].pc = "sweep", ![Adopter] = [Idle EXCEPT !.pc = "off"]]
    /\ UNCHANGED <<saved, windows, routes, session, paused, discovery, spent>>

Sweep(u) ==
    /\ proc[u].pc = "sweep" /\ work = Nobody
    /\ work' = u
    /\ proc' = [proc EXCEPT ![u].pc = "temp", ![u].todo = saved.pending, ![u].after = "swept"]
    /\ UNCHANGED <<saved, windows, routes, session, paused, discovery, spent>>

\* A bug: the routes of the old adapter stay.
RoutesKept == routes

\* resolve_adapter_locked retires the routes of the old adapter.
RoutesRetired == [s \in Subnets |-> None]

\* The session is down.  A selection drops every route (resolve_adapter_locked)
\* and goes on as a fresh reload and start (start_selected_adapter).
Swept(u) ==
    /\ proc[u].pc = "swept" /\ work' = Nobody
    /\ CASE proc[u].op \in {"mode", "refresh"} ->
              Goto(u, "work") /\ UNCHANGED <<routes, paused, discovery>>
         [] proc[u].op = "cleanup" ->
              Pause(u, "work") /\ UNCHANGED <<routes, discovery>>
         [] proc[u].op = "start" ->
              Goto(u, "start") /\ UNCHANGED <<routes, paused, discovery>>
         [] proc[u].op = "select" ->
              /\ routes' = RoutesRetired /\ discovery' = Nobody
              /\ proc' = [proc EXCEPT ![u].op = "reloadStart", ![u].pc = "op"]
              /\ UNCHANGED paused
    /\ UNCHANGED <<saved, windows, session, spent>>

TakeWork(u) ==
    /\ proc[u].pc = "work" /\ work = Nobody
    /\ work' = u /\ Goto(u, "begin")
    /\ UNCHANGED <<saved, windows, routes, session, paused, discovery, spent>>

\* address_operation: ten seconds for both locks, then Busy.
Timeout(u) ==
    /\ proc[u].op \in AddressOps /\ proc[u].pc \in {"op", "work"}
    /\ Return(u)
    /\ UNCHANGED <<saved, windows, routes, spent>>

\* discovery_session::start behind the mode and link gates.
StartSession(u) ==
    /\ proc[u].pc = "start" /\ discovery = u
    /\ LET on == saved.mode # "manual" /\ up
       IN /\ session' = on
          /\ proc' = [proc EXCEPT ![u] = Idle,
                ![Adopter] = IF on THEN [Idle EXCEPT !.pc = "wait", !.nic = saved.nic] ELSE @]
    /\ discovery' = Nobody /\ paused' = FALSE
    /\ UNCHANGED <<saved, windows, routes, work, spent>>

End(u) ==
    /\ proc[u].pc = "end" /\ Return(u)
    /\ UNCHANGED <<saved, windows, routes, spent>>

(***************************************************************************)
(* Temporary addresses: PendingAdoptOps::remove over a set, shared by      *)
(* reconcile_temporary_locked and reconcile_pending.                       *)
(***************************************************************************)

\* Nothing more to do, writes in doubt, or the native read failed.
TempLeave(p) ==
    /\ proc[p].pc = "temp"
    /\ \/ proc[p].todo = {} /\ UNCHANGED spent
       \/ proc[p].todo # {} /\ doubt /\ UNCHANGED spent
       \/ proc[p].todo # {} /\ ~doubt /\ Spend("faults")
    /\ proc' = [proc EXCEPT ![p].pc = proc[p].after, ![p].todo = {}, ![p].cur = Idle.cur,
                            ![p].good = FALSE]
    /\ UNCHANGED <<saved, windows, routes, locks>>

Owned(x) == \E s \in RowsOf(saved, x[2]) : saved.row[s].owner = x[1]

\* A record without an address, or with a committed row, is only forgotten.
TempForget(p) ==
    /\ proc[p].pc = "temp" /\ ~doubt
    /\ \E x \in proc[p].todo :
        /\ proc' = [proc EXCEPT ![p].todo = @ \ {x}]
        /\ \/ x \notin saved.pending /\ UNCHANGED <<saved, spent>>
           \/ /\ x \in saved.pending /\ (Owned(x) \/ x \notin os)
              /\ \E ok \in BOOLEAN : Persist(ForgetTemporary(saved, x), ok)
    /\ UNCHANGED <<windows, routes, locks>>

TempRemove(p) ==
    /\ proc[p].pc = "temp" /\ ~doubt
    /\ \E x \in proc[p].todo \cap saved.pending \cap os, applied, ok \in BOOLEAN :
        /\ ~Owned(x)
        /\ Command(os \ {x}, FALSE, applied, ok)
        /\ proc' = [proc EXCEPT ![p].todo = @ \ {x}, ![p].cur = x, ![p].good = ok,
                                ![p].pc = "tempSeen"]
    /\ UNCHANGED <<saved, dhcp, routes, locks>>

\* A bug: the record goes once the command was issued.
TempConfirmBlind(p) ==
    /\ proc[p].pc = "tempSeen"
    /\ \E ok \in BOOLEAN : Persist(ForgetTemporary(saved, proc[p].cur), ok)
    /\ Goto(p, "temp")
    /\ UNCHANGED <<windows, routes, locks>>

\* The record goes only after a command without error and an observed absence.
TempConfirm(p) ==
    /\ proc[p].pc = "tempSeen"
    /\ IF proc[p].good /\ proc[p].cur \notin os
       THEN \E ok \in BOOLEAN : Persist(ForgetTemporary(saved, proc[p].cur), ok)
       ELSE UNCHANGED <<saved, spent>>
    /\ Goto(p, "temp")
    /\ UNCHANGED <<windows, routes, locks>>

(***************************************************************************)
(* Saved rows: reconcile_bindings and reconcile_binding_row.               *)
(***************************************************************************)

RowsBegin(u) ==
    /\ proc[u].pc = "rows"
    /\ IF doubt THEN Goto(u, "rowsDone") /\ UNCHANGED spent
       ELSE \E seen \in BOOLEAN :
                /\ Outcome(seen)
                /\ proc' = [proc EXCEPT ![u].pc = "row", ![u].after = "rowsDone",
                        ![u].plan = [s \in Subnets |->
                            IF saved.row[s] = None THEN "none"
                            ELSE BindingAction(s, saved.row[s], seen)]]
    /\ UNCHANGED <<saved, windows, routes, locks>>

RowCommand(u) ==
    /\ proc[u].pc = "row"
    /\ \E s \in Subnets, applied, ok \in BOOLEAN :
        LET plan == proc[u].plan[s]
            x == <<saved.nic, saved.row[s].addr>>
        IN /\ plan \in {"add", "remove"}
           /\ IF doubt THEN ~ok /\ ~applied /\ UNCHANGED <<os, mine, up, doubt, spent>>
              ELSE Command(IF plan = "add" THEN os \cup {x} ELSE os \ {x},
                           plan = "add", applied, ok)
           /\ proc' = [proc EXCEPT ![u].plan[s] = IF ok THEN "issued" ELSE "failed"]
    /\ UNCHANGED <<saved, dhcp, routes, locks>>

RowPublish(u) ==
    /\ proc[u].pc = "row"
    /\ \E s \in Subnets, seen, ok \in BOOLEAN :
        LET plan == proc[u].plan[s]
            row == ApplyBinding(saved.row[s], plan, seen)
        IN /\ plan \notin {"none", "add", "remove"}
           /\ seen \/ plan \in {"issued", "failed"}
           /\ Publish(s, row, ok, seen)
           /\ proc' = [proc EXCEPT ![u].plan[s] = "none",
                                   ![u].good = ok /\ ~row.applied /\ ~row.err]
    /\ UNCHANGED <<windows, locks>>

RowsEnd(u) ==
    /\ proc[u].pc = "row" /\ \A s \in Subnets : proc[u].plan[s] = "none"
    /\ IF proc[u].after = "rowsDone" THEN Goto(u, "rowsDone") /\ UNCHANGED locks
       ELSE Done(u, proc[u].good)
    /\ UNCHANGED <<saved, windows, routes, spent>>

\* The end of a reload or of a mode change.
Finish(u) ==
    /\ proc[u].pc = "rowsDone"
    /\ work' = Nobody /\ paused' = FALSE
    /\ CASE proc[u].op = "mode" -> Goto(u, "start") /\ UNCHANGED discovery
         [] proc[u].op = "reloadStart" ->
              /\ proc' = [proc EXCEPT ![u].op = "start", ![u].pc = "op"]
              /\ discovery' = Nobody
         [] OTHER -> proc' = [proc EXCEPT ![u] = Idle] /\ discovery' = Nobody
    /\ UNCHANGED <<saved, windows, routes, session, spent>>

(***************************************************************************)
(* Address operations (manual_address.rs), both locks held.                *)
(***************************************************************************)

\* What every operation does once it holds address_work.
Begin(u) ==
    /\ proc[u].pc = "begin"
    /\ \/ /\ proc[u].op \in {"reload", "reloadStart", "cleanup"}
          /\ proc' = [proc EXCEPT ![u].pc = "temp", ![u].todo = saved.pending,
                        ![u].after = IF proc[u].op = "cleanup" THEN "end" ELSE "rows"]
       \/ /\ proc[u].op \in AddressOps
          /\ IF doubt \/ proc[u].nic # saved.nic \/ proc[u].mode # saved.mode
             THEN Goto(u, "end") ELSE Goto(u, "target")
       \/ proc[u].op \in {"mode", "refresh"} /\ Goto(u, proc[u].op)
    /\ UNCHANGED <<saved, windows, routes, locks, spent>>

\* The saved row a removal is about; the intent is durable before any command.
TheRow(u) ==
    IF proc[u].op = "removeSaved"
    THEN IF saved.row[proc[u].sub] = None THEN None ELSE proc[u].sub
    ELSE LET named == RowsOf(saved, proc[u].addr)
         IN IF named = {} THEN None ELSE CHOOSE s \in named : TRUE

Target(u) ==
    /\ proc[u].pc = "target"
    /\ LET s == TheRow(u)
       IN CASE proc[u].op = "add" \/ (proc[u].op # "removeSaved" /\ s = None) ->
                 Goto(u, "look") /\ UNCHANGED <<saved, routes, locks, spent>>
            [] proc[u].op = "removeSaved" /\ s = None ->
                 Done(u, FALSE) /\ UNCHANGED <<saved, routes, spent>>
            [] proc[u].op # "add" /\ s # None /\ saved.row[s].owner = None ->
                 /\ IF proc[u].op = "removeSaved" THEN Goto(u, "forget") /\ UNCHANGED locks
                    ELSE UNCHANGED saved /\ Done(u, FALSE)
                 /\ UNCHANGED <<saved, routes, spent>>
            [] OTHER ->
                 \E ok \in BOOLEAN :
                   /\ Persist(SetBinding(saved, s, PendingRemoval(saved.row[s])), ok)
                   /\ routes' = IF ok THEN [routes EXCEPT ![s] = None] ELSE routes
                   /\ IF ok
                      THEN /\ proc' = [proc EXCEPT ![u].pc = "look", ![u].intent = TRUE,
                                    ![u].sub = s, ![u].addr = saved.row[s].addr]
                           /\ UNCHANGED locks
                      ELSE Done(u, FALSE)
    /\ UNCHANGED windows

\* An early error: a saved intent keeps its row, with the error.
Fail(u) == IF proc[u].intent THEN Goto(u, "status") /\ UNCHANGED locks ELSE Done(u, FALSE)

Status(u) ==
    /\ proc[u].pc = "status"
    /\ \E ok \in BOOLEAN :
        /\ Publish(proc[u].sub, [saved.row[proc[u].sub] EXCEPT !.err = TRUE], ok, TRUE)
        /\ Done(u, FALSE)
    /\ UNCHANGED windows

\* Preflight on one snapshot.
Look(u) ==
    LET a == proc[u].addr
        s == SubnetOf[a]
        add == proc[u].op = "add"
        refuse == IF add THEN ~up \/ dhcp \/ saved.mode = "dhcp"
                              \/ \E n \in Nics \ {saved.nic} : <<n, a>> \in os
                  ELSE <<saved.nic, a>> \in saved.pending
    IN /\ proc[u].pc = "look"
       /\ \/ Spend("faults") /\ Fail(u) /\ UNCHANGED <<saved, routes>>
          \/ refuse /\ Fail(u) /\ UNCHANGED <<saved, routes, spent>>
          \/ /\ ~refuse /\ proc[u].intent
             /\ proc' = [proc EXCEPT ![u].pc = "row", ![u].after = "end", ![u].plan =
                    [@ EXCEPT ![proc[u].sub] =
                        BindingAction(proc[u].sub, saved.row[proc[u].sub], TRUE)]]
             /\ UNCHANGED <<saved, routes, locks, spent>>
          \/ /\ ~refuse /\ ~proc[u].intent /\ ~add /\ OnNic(a) /\ saved.row[s] = None
             /\ \E ok \in BOOLEAN :                    \* an unmanaged removal
                  /\ Persist(SetBinding(saved, s, PendingRemoval([desired |-> "present",
                        applied |-> TRUE, err |-> FALSE, addr |-> a, owner |-> saved.nic])), ok)
                  /\ IF ok
                     THEN /\ proc' = [proc EXCEPT ![u].pc = "row", ![u].after = "end",
                                ![u].intent = TRUE, ![u].sub = s, ![u].plan = [@ EXCEPT ![s] = "remove"]]
                          /\ UNCHANGED locks
                     ELSE Done(u, FALSE)
             /\ UNCHANGED routes
          \/ /\ ~refuse /\ ~proc[u].intent /\ (add \/ ~OnNic(a) \/ saved.row[s] # None)
             /\ Goto(u, "native") /\ UNCHANGED <<saved, routes, locks, spent>>
       /\ UNCHANGED windows

\* A command only where the observed state differs from the requested one.
Native(u) ==
    LET x == <<saved.nic, proc[u].addr>>
        want == IF proc[u].op = "add" THEN os \cup {x} ELSE os \ {x}
    IN /\ proc[u].pc = "native"
       /\ \E applied, ok \in BOOLEAN :
            /\ IF want = os THEN applied /\ ok /\ UNCHANGED <<os, mine, up, doubt, spent>>
               ELSE Command(want, FALSE, applied, ok)
            /\ proc' = [proc EXCEPT ![u].pc = "observe", ![u].good = ok]
       /\ UNCHANGED <<saved, dhcp, routes, locks>>

\* An observed addition becomes the user's, even next to a command error.
Observe(u) ==
    LET a == proc[u].addr
    IN /\ proc[u].pc = "observe"
       /\ \/ Spend("faults") /\ Done(u, FALSE) /\ UNCHANGED <<saved, mine, routes>>
          \/ /\ proc[u].op = "add" /\ OnNic(a)
             /\ \E ok \in BOOLEAN :
                  /\ Persist(Claimed(saved, a), ok)
                  /\ mine' = IF ok THEN mine \ {<<saved.nic, a>>} ELSE mine
                  /\ routes' = IF ok THEN Without(routes, ClaimedRows(saved, a)) ELSE routes
             /\ Done(u, proc[u].good)
          \/ /\ proc[u].op # "add" \/ ~OnNic(a)
             /\ Done(u, proc[u].good /\ (OnNic(a) <=> proc[u].op = "add"))
             /\ UNCHANGED <<saved, mine, routes, spent>>
       /\ UNCHANGED <<os, up, dhcp, doubt>>

\* forget_unowned_address: a row without an owner goes only when no adapter has it.
Forget(u) ==
    LET s == proc[u].sub
        a == saved.row[s].addr
    IN /\ proc[u].pc = "forget"
       /\ \/ Spend("faults") /\ UNCHANGED <<saved, routes>>
          \/ /\ (\E n \in Nics : <<n, a>> \in os \/ <<n, a>> \in saved.pending)
                \/ saved.subnets[s] \notin {None, a}
             /\ UNCHANGED <<saved, routes, spent>>
          \/ /\ \A n \in Nics : <<n, a>> \notin os /\ <<n, a>> \notin saved.pending
             /\ saved.subnets[s] \in {None, a}
             /\ Persist(ForgetRow(saved, s), TRUE)
             /\ routes' = [routes EXCEPT ![s] = None]
       /\ Done(u, TRUE)
       /\ UNCHANGED windows

(***************************************************************************)
(* transition_mode with finish_primary_change, and refresh_native_adapter. *)
(***************************************************************************)

\* Whatever failed, a fresh observation follows.
ObserveAll(u) ==
    proc' = [proc EXCEPT ![u].pc = "temp", ![u].todo = saved.pending, ![u].after = "rows"]

\* primary_to_replace: the address the user or the file names, if the rows that
\* name it belong to this adapter.
Replaceable(a) ==
    /\ OnNic(a)
    /\ \A s \in RowsOf(saved, a) : saved.row[s].owner = saved.nic

ModeCommand(u) ==
    LET x == <<saved.nic, proc[u].addr>>
        toDhcp == proc[u].mode = "dhcp"
        taken == ~toDhcp /\ \E n \in Nics \ {saved.nic} : <<n, proc[u].addr>> \in os
    IN /\ proc[u].pc = "mode"
       /\ \/ (doubt \/ taken) /\ ObserveAll(u) /\ UNCHANGED <<windows, spent>>
          \/ ~doubt /\ ObserveAll(u) /\ Spend("faults") /\ UNCHANGED windows
          \/ /\ ~doubt /\ ~taken
             /\ \E applied, ok \in BOOLEAN,
                   prev \in {None} \cup {a \in Addrs : ~toDhcp /\ Replaceable(a)} :
                  /\ Command(IF toDhcp THEN {y \in os : y[1] # saved.nic} ELSE os \cup {x},
                             FALSE, applied, ok)
                  /\ dhcp' = IF applied THEN toDhcp ELSE dhcp
                  /\ IF ~ok THEN ObserveAll(u)
                     ELSE proc' = [proc EXCEPT ![u].prev = prev,
                                    ![u].pc = IF toDhcp THEN "setMode" ELSE "primary"]
       /\ UNCHANGED <<saved, routes, locks>>

\* The new primary is observed and claimed before the old one may go.
Primary(u) ==
    LET a == proc[u].addr
        prev == proc[u].prev
    IN /\ proc[u].pc = "primary"
       /\ \/ Spend("faults") /\ ObserveAll(u) /\ UNCHANGED <<saved, mine, routes>>
          \/ /\ dhcp \/ ~OnNic(a)
             /\ ObserveAll(u) /\ UNCHANGED <<saved, mine, routes, spent>>
          \/ /\ ~dhcp /\ OnNic(a)
             /\ Persist(Claimed(saved, a), TRUE)
             /\ mine' = mine \ {<<saved.nic, a>>}
             /\ routes' = Without(routes, ClaimedRows(saved, a))
             /\ proc' = IF prev \in {None, a} THEN [proc EXCEPT ![u].pc = "setMode"]
                        ELSE [proc EXCEPT ![u].pc = "target", ![u].op = "modeRemove",
                                          ![u].addr = prev]
       /\ UNCHANGED <<os, up, dhcp, doubt, locks>>

SetMode(u) ==
    /\ proc[u].pc = "setMode"
    /\ \/ Spend("faults") /\ UNCHANGED saved
       \/ dhcp # (proc[u].mode = "dhcp") /\ UNCHANGED <<saved, spent>>
       \/ /\ dhcp = (proc[u].mode = "dhcp")
          /\ Persist([saved EXCEPT !.mode = proc[u].mode], TRUE)
    /\ ObserveAll(u)
    /\ UNCHANGED <<windows, routes, locks>>

Refresh(u) ==
    /\ proc[u].pc = "refresh" /\ Goto(u, "end")
    /\ IF doubt THEN UNCHANGED <<os, mine, up, doubt, spent>>
       ELSE \E ok \in BOOLEAN : Command(os, FALSE, TRUE, ok)
    /\ UNCHANGED <<saved, dhcp, routes, locks>>

(***************************************************************************)
(* The adoption loop (adopt_loop.rs, auto_adopt.rs).                       *)
(***************************************************************************)

A == proc[Adopter]
Release(pc) ==
    /\ work' = IF work = Adopter THEN Nobody ELSE work
    /\ proc' = [proc EXCEPT ![Adopter] = [Idle EXCEPT !.pc = pc, !.nic = A.nic]]
    /\ UNCHANGED <<session, paused, discovery>>

\* The end of a probe pass, of a handed-over adoption, or of the round.
Onward == CASE A.pass = "probe" -> "pass" [] A.pass = "prepared" -> "handed" [] OTHER -> "end"

\* reconcile_pending for this adoption, or release_scratch of a probe.
RollBack ==
    /\ proc' = [proc EXCEPT ![Adopter].pc = "temp", ![Adopter].todo = A.own,
                            ![Adopter].after = Onward, ![Adopter].cur = Idle.cur,
                            ![Adopter].addr = None, ![Adopter].sub = None,
                            ![Adopter].own = IF Onward = "handed" THEN @ ELSE {}]
    /\ UNCHANGED locks

\* The fence is read before the lock is taken.
AdWait ==
    /\ A.pc = "wait" /\ spent.attempts < MaxAttempts
    /\ proc' = [proc EXCEPT ![Adopter].pc = "admit", ![Adopter].fresh = ~paused]
    /\ UNCHANGED <<saved, windows, routes, locks, spent>>

AdStop ==
    /\ A.pc \in {"wait", "admit"} /\ ~session
    /\ Release("off")
    /\ UNCHANGED <<saved, windows, routes, spent>>

Blocked == doubt \/ ~A.fresh \/ saved.mode # "auto" \/ dhcp

AdSkip ==
    /\ A.pc = "admit" /\ work = Nobody /\ Blocked
    /\ Release("wait")
    /\ UNCHANGED <<saved, windows, routes, spent>>

\* A /24 in which the adapter has no address but those of S, and no route.
Foreign(s, S) ==
    routes[s] = None /\ \A b \in Addrs : SubnetOf[b] = s => <<A.nic, b>> \notin os \ S

\* Addresses that no local adapter has.
Candidates(s) == {y \in Addrs : SubnetOf[y] = s /\ \A n \in Nics : <<n, y>> \notin os}

\* A round of the loop: its own, or one whose cache probe is done.
Round ==
    /\ \/ A.pc = "admit" /\ work = Nobody /\ ~Blocked /\ Spend("attempts")
       \/ A.pc = "pass" /\ A.more /\ UNCHANGED spent
    /\ session /\ work' = Adopter
    /\ UNCHANGED <<session, paused, discovery>>

\* run_pass for the /24 of the scratch address x.
Probe(x, more) ==
    proc' = [proc EXCEPT ![Adopter].pc = "prepare", ![Adopter].sub = SubnetOf[x],
                ![Adopter].cur = <<A.nic, x>>, ![Adopter].own = {},
                ![Adopter].pass = "probe", ![Adopter].more = more]

\* derive_candidates: a cached device on a /24 without a row, or with a removal
\* that is complete.
Quiet(s) == Foreign(s, {}) /\ (saved.row[s] # None => RemovalComplete(saved.row[s]))

\* The cache probe of one /24; broadcasts are served after it.
PrCache ==
    /\ A.pc = "admit" /\ Round
    /\ \E x \in Addrs : Quiet(SubnetOf[x]) /\ Probe(x, TRUE)
    /\ UNCHANGED <<saved, windows, routes>>

\* A device seen once is asked for the second observation; the probe ends the
\* round.
PrFast ==
    /\ Round
    /\ \E x \in Addrs : Foreign(SubnetOf[x], {}) /\ Probe(x, FALSE)
    /\ UNCHANGED <<saved, windows, routes>>

\* A device that the dwell confirmed, on a foreign /24; x is the scratch address
\* and y the candidate.
AdAdmit ==
    /\ Round
    /\ \E x, y \in Addrs :
        /\ x # y /\ SubnetOf[x] = SubnetOf[y]
        /\ Foreign(SubnetOf[y], {}) /\ y \in Candidates(SubnetOf[y])
        /\ proc' = [proc EXCEPT ![Adopter].pc = "prepare", ![Adopter].sub = SubnetOf[y],
                        ![Adopter].addr = y, ![Adopter].cur = <<A.nic, x>>,
                        ![Adopter].pass = "none", ![Adopter].own = {}]
    /\ UNCHANGED <<saved, windows, routes>>

\* Nothing else qualifies, or the fast probe took the round's slot.
PassEnd ==
    /\ A.pc = "pass" /\ Release("wait")
    /\ UNCHANGED <<saved, windows, routes, spent>>

\* prepare_subnet_adoption with forget_completed_removal_with: only a completed
\* removal, observed absent again on its own adapter, gives way.
RetireContext(row) ==
    /\ ~doubt /\ A.fresh /\ session /\ up /\ ~dhcp
    /\ A.nic = saved.nic /\ row.owner = A.nic /\ saved.mode = "auto"
    /\ saved.subnets[A.sub] = None /\ ~OnNic(row.addr)

\* A bug: a removal that is still pending gives way too.
MayRetireEager(row) == RetireContext(row) /\ row.desired = "removed"

MayRetire(row) == RetireContext(row) /\ RemovalComplete(row)

\* A prepared adoption has its scratch address already.
Prepared == Goto(Adopter, IF A.pass = "prepared" THEN "probe" ELSE "reserve") /\ UNCHANGED locks

\* A deferral ends the round; what a probe or a hand-over holds goes back first.
Deferred == IF A.pass = "none" THEN Release("wait") ELSE Goto(Adopter, "fail") /\ UNCHANGED locks

AdPrepare ==
    LET row == saved.row[A.sub]
        retire == MayRetire(row)
    IN /\ A.pc = "prepare"
       /\ \/ /\ row = None /\ ~doubt /\ session /\ A.fresh
             /\ Prepared /\ UNCHANGED <<saved, routes, spent>>
          \/ /\ IF row = None THEN doubt \/ ~session \/ ~A.fresh ELSE ~retire
             /\ Deferred /\ UNCHANGED <<saved, routes, spent>>
          \/ row # None /\ retire /\ Spend("faults") /\ Deferred /\ UNCHANGED <<saved, routes>>
          \/ /\ row # None /\ retire /\ Persist(ForgetRow(saved, A.sub), TRUE)
             /\ routes' = [routes EXCEPT ![A.sub] = None]
             /\ Prepared
       /\ UNCHANGED windows

\* PendingAdoptOps::add: observed absent, an old record retired, a new one saved.
AdReserve ==
    LET clean == ForgetTemporary(saved, A.cur)
        new == [clean EXCEPT !.pending = @ \cup {A.cur}]
    IN /\ A.pc = "reserve"
       /\ \/ /\ A.cur \notin os /\ ~doubt /\ MayReserve(clean, A.cur)
             /\ Persist(new, TRUE)
             /\ proc' = [proc EXCEPT ![Adopter].pc = "recheck", ![Adopter].own = @ \cup {A.cur}]
          \/ /\ A.cur \notin os /\ ~doubt
             /\ saved' \in {saved, clean} /\ Spend("faults")
             /\ proc' = [proc EXCEPT ![Adopter].pc = "fail", ![Adopter].own = @ \cup {A.cur}]
          \/ /\ A.cur \in os \/ doubt \/ ~MayReserve(clean, A.cur)
             /\ saved' = IF A.cur \in os \/ doubt THEN saved ELSE clean
             /\ proc' = [proc EXCEPT ![Adopter].pc = "fail", ![Adopter].own = @ \cup {A.cur}]
             /\ UNCHANGED spent
       /\ UNCHANGED <<windows, routes, locks>>

\* An address that appeared meanwhile is somebody else's.
AdRecheck ==
    /\ A.pc = "recheck"
    /\ \/ A.cur \notin os /\ Goto(Adopter, "bind") /\ UNCHANGED <<saved, spent>>
       \/ Spend("faults") /\ Goto(Adopter, "fail") /\ UNCHANGED saved
       \/ /\ A.cur \in os /\ Persist(ForgetTemporary(saved, A.cur), TRUE)
          /\ Goto(Adopter, "fail")
    /\ UNCHANGED <<windows, routes, locks>>

Scratch == A.cur[2] # A.addr

AdBind ==
    /\ A.pc = "bind"
    /\ \E applied, ok \in BOOLEAN :
        /\ IF doubt THEN ~ok /\ ~applied /\ UNCHANGED <<os, mine, up, doubt, spent>>
           ELSE Command(os \cup {A.cur}, TRUE, applied, ok)
        /\ Goto(Adopter, IF ~ok THEN "fail"
                         ELSE IF Scratch /\ A.pass = "none" THEN "probe" ELSE "ready")
    /\ UNCHANGED <<saved, dhcp, routes, locks>>

\* Readiness, shutdown and the conflict probes decide; the scratch address goes
\* either way, and a release that fails does not stop the final bind.
AdProbe ==
    /\ A.pc = "probe"
    /\ \E next \in {"final", "fail"} :
        proc' = [proc EXCEPT ![Adopter].pc = "temp", ![Adopter].todo = {A.cur},
                             ![Adopter].after = IF session THEN next ELSE "fail"]
    /\ UNCHANGED <<saved, windows, routes, locks, spent>>

AdFinal ==
    /\ A.pc = "final"
    /\ proc' = [proc EXCEPT ![Adopter].cur = <<A.nic, A.addr>>,
                            ![Adopter].pc = IF session THEN "reserve" ELSE "fail"]
    /\ UNCHANGED <<saved, windows, routes, locks, spent>>

\* The new source became usable, or not.
AdReady ==
    /\ A.pc = "ready"
    /\ \E ok \in BOOLEAN :
        Goto(Adopter, IF ~ok \/ ~session \/ (A.pass = "probe" /\ ~A.fresh) THEN "fail"
                      ELSE IF A.pass = "probe" THEN "identify" ELSE "commit")
    /\ UNCHANGED <<saved, windows, routes, locks, spent>>

\* An answer counts only while both fences hold.
Identified == session /\ A.fresh

\* A fresh resolution from the scratch address names the device's MAC: the owned
\* scratch is handed to an adoption.  A miss or a stop releases it.
PrResolve ==
    LET match(y) == [proc EXCEPT ![Adopter].pc = "prepare", ![Adopter].addr = y,
                                 ![Adopter].pass = "prepared"]
    IN /\ A.pc = "identify"
       /\ \/ /\ Identified /\ Foreign(A.sub, {A.cur})
             /\ \E y \in Candidates(A.sub) \ {A.cur[2]} : proc' = match(y)
          \/ Goto(Adopter, "fail")
       /\ UNCHANGED <<saved, windows, routes, locks, spent>>

\* adopt_prepared reconciles the same id once more, whatever the outcome.
PrHanded ==
    /\ A.pc = "handed"
    /\ proc' = [proc EXCEPT ![Adopter].pc = "temp", ![Adopter].todo = A.own,
                            ![Adopter].after = "pass", ![Adopter].own = {},
                            ![Adopter].pass = "none"]
    /\ UNCHANGED <<saved, windows, routes, locks, spent>>

\* ADOPT_MAX_TOTAL drops the attempt at any await; its addresses are rolled back.
AdTimeout ==
    /\ A.pass # "probe"
    /\ \/ A.pc \in {"reserve", "recheck", "bind", "probe", "final", "ready"}
       \/ A.pc = "tempSeen" /\ A.after \in {"final", "fail"}
    /\ Goto(Adopter, "fail")
    /\ UNCHANGED <<saved, windows, routes, locks, spent>>

AdFail ==
    /\ A.pc = "fail" /\ RollBack
    /\ UNCHANGED <<saved, windows, routes, spent>>

AdEnd ==
    /\ A.pc = "end" /\ Release("wait")
    /\ UNCHANGED <<saved, windows, routes, spent>>

\* The fences and the selection are read again, then one save makes the row and
\* drops the temporary record.
AdCommit ==
    LET row == [desired |-> "present", applied |-> TRUE, err |-> FALSE,
                addr |-> A.addr, owner |-> A.nic]
        may == session /\ A.fresh /\ A.nic = saved.nic /\ ~Refused(saved, A.sub, row)
    IN /\ A.pc = "commit"
       /\ \/ may /\ Persist(SetBinding(saved, A.sub, row), TRUE) /\ Goto(Adopter, "publish")
          \/ may /\ Spend("faults") /\ Goto(Adopter, "fail") /\ UNCHANGED saved
          \/ ~may /\ Goto(Adopter, "fail") /\ UNCHANGED <<saved, spent>>
       /\ UNCHANGED <<windows, routes, locks>>

AdPublish ==
    /\ A.pc = "publish"
    /\ routes' = [routes EXCEPT ![A.sub] = A.addr]
    /\ IF A.pass = "none" THEN Release("wait")
       ELSE /\ proc' = [proc EXCEPT ![Adopter].pc = "handed", ![Adopter].own = @ \ {A.cur},
                        ![Adopter].addr = None, ![Adopter].sub = None]
            /\ UNCHANGED locks
    /\ UNCHANGED <<saved, windows, spent>>

(***************************************************************************)
(* Environment: other programs, the cable, recovery of the executor, and   *)
(* the death of the process.                                               *)
(***************************************************************************)

External ==
    /\ Spend("faults")
    /\ \/ \E x \in Pair : /\ os' = (os \ {x}) \cup ({x} \ os)
                          /\ mine' = mine \cap os' /\ UNCHANGED up
       \/ up' = ~up /\ UNCHANGED <<os, mine>>
    /\ UNCHANGED <<saved, dhcp, doubt, routes, locks, proc>>

ClearDoubt ==
    /\ doubt /\ doubt' = FALSE
    /\ UNCHANGED <<saved, os, mine, up, dhcp, routes, locks, proc, spent>>

\* Only Windows and the file survive; the next start begins with a reload.
Crash ==
    /\ Spend("faults")
    /\ proc' = [p \in Actors |-> IF p = Adopter THEN [Idle EXCEPT !.pc = "off"] ELSE Idle]
    /\ routes' = [s \in Subnets |-> None]
    /\ session' = FALSE /\ paused' = FALSE /\ discovery' = Nobody /\ work' = Nobody
    /\ doubt' \in BOOLEAN
    /\ UNCHANGED <<saved, os, mine, up, dhcp>>

(***************************************************************************)
(* Specification.                                                          *)
(***************************************************************************)

LegacyRow(a) == [desired |-> "present", applied |-> FALSE, err |-> FALSE,
                 addr |-> a, owner |-> None]

\* A running session on a static adapter, with the rows of an old file.
Init ==
    LET old == [s \in Subnets |->
                  IF \E a \in LegacyAddrs : SubnetOf[a] = s
                  THEN CHOOSE a \in LegacyAddrs : SubnetOf[a] = s ELSE None]
    IN \E n \in Nics :
        /\ saved = [row |-> [s \in Subnets |-> IF old[s] = None THEN None ELSE LegacyRow(old[s])],
                    subnets |-> old, pending |-> {}, mode |-> "auto", nic |-> n]
        /\ os = {} /\ mine = {} /\ up = TRUE /\ dhcp = FALSE /\ doubt = FALSE
        /\ routes = [s \in Subnets |-> None]
        /\ session = TRUE /\ paused = FALSE /\ discovery = Nobody /\ work = Nobody
        /\ proc = [p \in Actors |-> IF p = Adopter
                                    THEN [Idle EXCEPT !.pc = "wait", !.nic = n] ELSE Idle]
        /\ spent = [k \in DOMAIN Bounds |-> 0]

UserStep(u) ==
    \/ TakeOp(u) \/ Stop(u) \/ Join(u) \/ Sweep(u) \/ Swept(u) \/ TakeWork(u)
    \/ StartSession(u) \/ End(u) \/ RowsBegin(u) \/ RowCommand(u) \/ RowPublish(u)
    \/ RowsEnd(u) \/ Finish(u) \/ Begin(u) \/ Target(u) \/ Status(u) \/ Look(u)
    \/ Native(u) \/ Observe(u) \/ Forget(u) \/ ModeCommand(u) \/ Primary(u)
    \/ SetMode(u) \/ Refresh(u)

TempStep(p) == TempLeave(p) \/ TempForget(p) \/ TempRemove(p) \/ TempConfirm(p)

AdopterStep ==
    \/ AdWait \/ AdStop \/ AdSkip \/ AdAdmit \/ AdPrepare \/ AdReserve \/ AdRecheck
    \/ AdBind \/ AdProbe \/ AdFinal \/ AdReady \/ AdFail \/ AdEnd \/ AdCommit \/ AdPublish
    \/ PrCache \/ PrFast \/ PrResolve \/ PrHanded \/ PassEnd

Next ==
    \/ \E u \in Users : Request(u) \/ Timeout(u) \/ UserStep(u)
    \/ \E p \in Actors : TempStep(p)
    \/ AdopterStep \/ AdTimeout
    \/ External \/ ClearDoubt \/ Crash

Spec == Init /\ [][Next]_vars

(***************************************************************************)
(* Properties.                                                             *)
(***************************************************************************)

PCs == {"idle", "op", "stop", "join", "sweep", "swept", "work", "start", "end", "begin",
        "temp", "tempSeen", "rows", "row", "rowsDone", "target", "look", "native",
        "observe", "forget", "status", "mode", "primary", "setMode", "refresh", "off",
        "wait", "admit", "prepare", "reserve", "recheck", "bind", "probe", "final",
        "ready", "fail", "commit", "publish", "pass", "identify", "handed"}

\* The shape of the state; a row is filed under the /24 of its address.
TypeOK ==
    /\ saved \in [row : [Subnets -> Row \cup {None}], subnets : [Subnets -> Addrs \cup {None}],
                  pending : SUBSET Pair, mode : Modes, nic : Nics]
    /\ os \subseteq Pair /\ mine \subseteq os
    /\ {up, dhcp, doubt, session, paused} \subseteq BOOLEAN
    /\ routes \in [Subnets -> Addrs \cup {None}]
    /\ discovery \in Users \cup {Nobody} /\ work \in Actors \cup {Nobody}
    /\ \A p \in Actors : proc[p].pc \in PCs /\ proc[p].plan \in [Subnets -> Plans]
    /\ \A s \in Subnets : saved.row[s] # None => SubnetOf[saved.row[s].addr] = s

\* The addresses the file still answers for: temporary ones, and rows that are
\* wanted or whose removal Windows has not confirmed.
Recorded ==
    LET live == {s \in Subnets : saved.row[s] # None /\ ~RemovalComplete(saved.row[s])}
    IN saved.pending \cup
       {<<saved.row[s].owner, saved.row[s].addr>> :
            s \in {r \in live : saved.row[r].owner # None}}

Ours == {x \in mine : x[2] \notin LegacyAddrs}

Ledger == INSTANCE AddressLedger WITH
    Items <- {x \in Pair : x[2] \notin LegacyAddrs},
    recorded <- {x \in Recorded : x[2] \notin LegacyAddrs},
    assigned <- Ours

\* Write-ahead ownership: an address is put on an adapter only after the file
\* says so, and the file forgets it only when it is gone or the user took it.
OwnershipDurable == Ledger!Spec

\* With no operation under way, a route is a saved, applied row of the selected
\* adapter (publish_binding, publish_adoption, resolve_adapter_locked).
RoutesTrue ==
    discovery = Nobody /\ work = Nobody =>
        \A s \in Subnets : routes[s] # None =>
            LET row == saved.row[s]
            IN row # None /\ row.desired = "present" /\ row.applied /\ ~row.err
               /\ row.addr = routes[s] /\ row.owner = saved.nic

\* A removal the user asked for is never turned back into a wanted row, and is
\* dropped only when confirmed, or when the user claims the address.
RemovalFinal ==
    [][\A s \in Subnets :
        saved.row[s] # None /\ saved.row[s].desired = "removed" =>
            \/ saved'.row[s] # None /\ saved'.row[s].desired = "removed"
            \/ RemovalComplete(saved.row[s]) /\ <<saved.nic, saved.row[s].addr>> \notin os
            \/ \E u \in Users : proc[u].pc \in {"observe", "primary"} /\ work = u
                 /\ proc[u].addr = saved.row[s].addr]_vars

\* Address work and the pause belong to an operation that still holds
\* discovery_op; Busy and every error leave neither behind.
PauseOwned ==
    /\ paused => discovery \in Users
    /\ \A u \in Users : work = u => discovery = u
=============================================================================
