--------------------------- MODULE DevicePresence ---------------------------
(***************************************************************************)
(* Whether a device is present: the adapter selection as presence sees it, *)
(* the proofs that make a registry record Live, the clocks that expire     *)
(* them, and the readiness check that trusts them.                         *)
(*                                                                         *)
(* Six tasks share this state through short lock sections: the presence    *)
(* loop (its tick and its link reads), a verification job, the capture's   *)
(* frame task, the operation that holds discovery_op to resolve the        *)
(* selection, the watcher's refresh, and a readiness check.  Each lock     *)
(* section is one step; a merge checks and writes in two, because neither  *)
(* the verification scope nor the fences are under the registry lock.      *)
(*                                                                         *)
(* The native link of an adapter is whatever it is read to be.  All        *)
(* identities claim one address: what a proof of one does to the others at *)
(* the address is part of every merge.  Time advances in units of          *)
(* DOWN_HOLD (two seconds); a readiness check, the merge of a frame and    *)
(* the commit of a proof take less than a unit.                            *)
(*                                                                         *)
(* A fence captures Control.epoch, a generation of address work, or a      *)
(* revision; it is modelled by whether that has moved since.               *)
(***************************************************************************)
EXTENDS Naturals

CONSTANTS
  Macs,       \* device identities
  Adapters,   \* wired adapters that can be selected
  Indexes,    \* interface indexes
  None,       \* no adapter, no index, no identity, no deadline
  Fresh,      \* FRESHNESS in units of DOWN_HOLD
  MaxEvents   \* bound: resolutions, readings of the link, changes of the link or
              \* the mode told otherwise, units of time, proofs, frames, checks

ASSUME PresenceAssumption ==
  /\ None \notin Macs \cup Adapters \cup Indexes \cup Nat
  /\ Fresh \in Nat \ {0} /\ MaxEvents \in Nat

VARIABLES
  sel,      \* Control.state.selection: the adapter, its index and its link
  hold,     \* expire_at and ready_at, as time left
  scope,    \* DeviceRegistry.verification_scope
  rec,      \* the registry: live, verified by, proof age, evidence left
  cap,      \* the adapter of the capture listener
  tick,     \* Control::tick, per caller
  link,     \* observe_link between its two lock sections
  res,      \* what runs under discovery_op: a resolution or a mode change
  watch,    \* the watcher's refresh
  chosen,   \* the adapter of the last resolution
  reverted, \* history: the watcher wrote another one over it
  job,      \* the presence verification job
  frame,    \* the capture's on_arp_seen task
  reader,   \* camera_path_now
  count     \* what of the bound is spent

selVars == <<sel, hold, link, res, watch, chosen, reverted>>
vars == <<selVars, scope, rec, cap, tick, job, frame, reader, count>>

Callers == {"loop", "resolve", "reader"}

NoSelection == [mac |-> None, index |-> None, up |-> FALSE]
NoTick == [pc |-> "idle", expire |-> FALSE, on |-> None]
\* late and lost are history: the deadline was never corrected; the adapter
\* was lost after the proof.
NoRecord == [live |-> FALSE, by |-> None, age |-> 0, left |-> 0,
             late |-> FALSE, lost |-> FALSE]
NoLink == [pc |-> "idle", mac |-> None, stale |-> FALSE]
NoJob == [pc |-> "idle", mac |-> None, on |-> None, age |-> 0, stale |-> FALSE,
          paused |-> FALSE, lost |-> FALSE]
NoFrame == NoJob
NoReader == [pc |-> "idle", on |-> None, by |-> None, age |-> 0,
             stale |-> FALSE, late |-> FALSE, lost |-> FALSE]

Live == {m \in Macs : rec[m].live}

Init ==
  /\ sel = NoSelection
  /\ hold = [expire |-> None, ready |-> None]
  /\ scope = None
  \* Records hydrated from the cache are not Live.
  /\ rec = [m \in Macs |-> NoRecord]
  /\ cap = None
  /\ tick = [c \in Callers |-> NoTick]
  /\ link = NoLink
  /\ res = [pc |-> "idle", keep |-> FALSE]
  /\ watch = [pc |-> "idle", mac |-> None]
  /\ chosen = None /\ reverted = FALSE
  /\ job = NoJob /\ frame = NoFrame /\ reader = NoReader
  /\ count = 0

-----------------------------------------------------------------------------
(***************************************************************************)
(* The selection                                                           *)
(***************************************************************************)

Spend == count < MaxEvents /\ count' = count + 1
Charged(due) == IF due THEN Spend ELSE UNCHANGED count

\* What was begun before the epoch moved is stale.
Moved(w) == [w EXCEPT !.stale = w.pc # "idle"]

\* History: proofs and evidence of an adapter lost since, unless forgiven.
Marked(w, lost, forgiven) == [w EXCEPT !.lost = (@ \/ lost) /\ ~forgiven]

\* quick_link_by_mac: an adapter that is absent, down or up.
Native(a) ==
  IF a = None THEN {NoSelection}
  ELSE [mac : {a}, index : Indexes \cup {None}, up : {FALSE}]
         \cup [mac : {a}, index : Indexes, up : {TRUE}]

Other(s) == s.mac # sel.mac \/ s.index # sel.index
LosesAdapter(s) == (Other(s) /\ sel.mac # None) \/ (sel.up /\ ~s.up)
LinkBack(s) == s.up /\ ~sel.up /\ ~Other(s)
\* The code asks for no hold when nothing was selected.
Forgives(s) == LinkBack(s) \/ sel.mac = None

\* Control::update_locked.  Leaving an adapter or its index, or its link going
\* down, holds the evidence for DOWN_HOLD and then expires it; a link that
\* comes back in time cancels the expiry.  Another mode (turned) moves the
\* epoch only.  A change of metadata alone moves the revision, which drops a
\* link reading: as if that had read what is known.
Update(s, turned) ==
  IF s = sel /\ ~turned
  THEN UNCHANGED <<sel, hold, rec, job, frame, reader>>
  ELSE /\ sel' = s
       /\ hold' = IF LosesAdapter(s)
                  THEN [expire |-> 1, ready |-> IF s.up THEN 1 ELSE None]
                  ELSE IF LinkBack(s) THEN [expire |-> None, ready |-> None]
                  ELSE hold
       /\ reader' = Moved(reader)
       /\ job' = Marked(Moved(job), LosesAdapter(s) /\ job.pc = "write", Forgives(s))
       /\ frame' = Marked(frame, LosesAdapter(s) /\ frame.pc # "idle", Forgives(s))
       /\ rec' = [m \in Macs |->
                    Marked(rec[m], LosesAdapter(s) /\ rec[m].live, Forgives(s))]

\* Control::snapshot: the adapter that may be used now.
Usable(s, h) == IF s.up /\ h.ready \in {None, 0} THEN s.mac ELSE None
Current == Usable(sel, hold)

\* observe_link, first section: the selection whose native state is then read.
LinkRead ==
  /\ link.pc = "idle" /\ tick["loop"].pc = "idle" /\ sel.mac # None /\ Spend
  /\ link' = [pc |-> "apply", mac |-> sel.mac, stale |-> FALSE]
  /\ UNCHANGED <<sel, hold, res, watch, chosen, reverted, scope, rec, cap, tick,
                 job, frame, reader>>

\* A bug: a native read overwrites a selection made meanwhile.
LinkUnfenced == FALSE

LinkFenced == link.stale

\* Second section: a selection made meanwhile wins.
LinkApply ==
  /\ link.pc = "apply"
  /\ IF LinkFenced
     THEN UNCHANGED <<sel, hold, rec, job, frame, reader>>
     ELSE \E s \in Native(link.mac) : Update(s, FALSE)
  /\ link' = NoLink
  /\ UNCHANGED <<res, watch, chosen, reverted, scope, cap, tick, count>>

\* update_presence_adapter: the native state of the given adapter is read and
\* written with it, whatever the revision.  Another mode tells only beside an
\* unchanged selection.
Present(a, resolved) ==
  \E s \in Native(a) : \E turned \in {s = sel, FALSE} :
    /\ Update(s, turned)
    /\ link' = IF s = sel /\ ~turned THEN link ELSE Moved(link)
    /\ Charged(resolved \/ s # sel \/ turned)

\* propose and pick_adapter: the saved identity; if none is saved, the only
\* candidate or none.
Proposals == IF chosen = None THEN Adapters \cup {None} ELSE {chosen}

\* resolve_adapter_locked: presence is told first, its tick runs, and only
\* then is the capture of the previous adapter retired.
Resolve(a) ==
  /\ res.pc = "idle"
  /\ Present(a, TRUE)
  /\ chosen' = a /\ reverted' = FALSE
  /\ \E keep \in IF a = chosen THEN BOOLEAN ELSE {FALSE} :
       res' = [pc |-> "tick", keep |-> keep]
  /\ UNCHANGED <<scope, cap, tick>>

\* select_adapter saves the identity first.  A change of the mode tells
\* presence and ticks in the same way, for the adapter it has.
SelectAdapter(a) == Resolve(a) /\ UNCHANGED watch

\* The refresh of the watcher resolves what is saved.
WatchResolve ==
  /\ watch.pc = "idle"
  /\ \E a \in Proposals :
       Resolve(a) /\ watch' = [pc |-> "resolve", mac |-> a]

\* When the identity or the index changed, the listener is retired and with it
\* the fence of its frames; the new adapter's is attached, or none if its start
\* is refused.  discovery_op is released.
ResolveCapture ==
  /\ res.pc = "retire" /\ tick["resolve"].pc = "idle"
  /\ IF res.keep THEN UNCHANGED <<cap, frame>>
     ELSE cap' \in {None, chosen} /\ frame' = Moved(frame)
  /\ res' = [pc |-> "idle", keep |-> FALSE]
  /\ watch' = IF watch.pc = "resolve" THEN [watch EXCEPT !.pc = "apply"] ELSE watch
  /\ UNCHANGED <<sel, hold, link, chosen, reverted, scope, rec, tick, job, reader,
                 count>>

\* Then it tells presence again, without discovery_op: a selection made since
\* is overwritten, until the next resolution.
WatchApply ==
  /\ watch.pc = "apply"
  /\ Present(watch.mac, FALSE)
  /\ reverted' = (watch.mac # chosen)
  /\ watch' = [pc |-> "idle", mac |-> None]
  /\ UNCHANGED <<res, chosen, scope, cap, tick>>

\* resume_discovery of the watcher, under discovery_op: a link that is up again
\* is told.
Resume ==
  /\ watch.pc = "idle" /\ res.pc = "idle" /\ chosen # None
  /\ Present(chosen, FALSE)
  /\ reverted' = FALSE
  /\ UNCHANGED <<res, watch, chosen, scope, cap, tick>>

-----------------------------------------------------------------------------
(***************************************************************************)
(* Expiry                                                                  *)
(***************************************************************************)

\* tick, under the state lock: a hold that ran out is consumed, and the adapter
\* that may be used now is read.  An update between the two would leave the
\* records to be expired earlier than its own hold asks.
TickBegin(c) ==
  LET due == hold.expire = 0
      h == IF due THEN [expire |-> None, ready |-> None] ELSE hold IN
  /\ tick[c].pc = "idle"
  /\ hold' = h
  /\ tick' = [tick EXCEPT ![c] = [pc |-> "scope", expire |-> due, on |-> Usable(sel, h)]]

\* The presence loop's interval; it reads the link before it ticks.
LoopTick ==
  /\ link.pc = "idle"
  /\ hold.expire = 0 \/ scope # Current \/ \E m \in Live : rec[m].left = 0
  /\ TickBegin("loop")
  /\ UNCHANGED <<sel, link, res, watch, chosen, reverted, scope, rec, cap, job,
                 frame, reader, count>>

\* The tick of resolve_adapter_locked.
ResolveTick ==
  /\ res.pc = "tick"
  /\ TickBegin("resolve")
  /\ res' = [res EXCEPT !.pc = "retire"]
  /\ UNCHANGED <<sel, link, watch, chosen, reverted, scope, rec, cap, job, frame,
                 reader, count>>

\* set_verification_scope, under a mutex of its own.
TickScope(c) ==
  /\ tick[c].pc = "scope"
  /\ scope' = tick[c].on
  /\ tick' = [tick EXCEPT ![c].pc = "expire", ![c].on = None]
  /\ UNCHANGED <<selVars, rec, cap, job, frame, reader, count>>

\* A merge holds the registry lock from its checks to its write.
RegistryLocked == "write" \in {job.pc, frame.pc}

Expired(m, all) == rec[m].live /\ (all \/ rec[m].left = 0)

\* expire_all if the hold was consumed, and expire_evidence.
TickExpire(c) ==
  /\ tick[c].pc = "expire" /\ ~RegistryLocked
  /\ rec' = [m \in Macs |-> IF Expired(m, tick[c].expire) THEN NoRecord ELSE rec[m]]
  /\ tick' = [tick EXCEPT ![c] = NoTick]
  /\ UNCHANGED <<selVars, scope, cap, job, frame, reader, count>>

-----------------------------------------------------------------------------
(***************************************************************************)
(* Proofs                                                                  *)
(***************************************************************************)

\* has_newer_proof: a Live record at this address was verified later.
Superseded(age) == \E m \in Live : rec[m].age < age

\* What merge_verified checks when it has the registry lock.
Admitted(p) == ~p.stale /\ scope = p.on /\ ~Superseded(p.age)

Evidence(p) ==
  [live |-> TRUE, by |-> p.on, age |-> p.age, left |-> Fresh, late |-> FALSE,
   lost |-> p.lost]

\* merge_verified_locked: the identity is Live, every other one at its
\* address is not.
Merged(p) == [m \in Macs |-> IF m = p.mac THEN Evidence(p) ELSE NoRecord]

\* Clock::next: a record or an observed candidate is due for verification.
JobDue == job.pc = "idle" /\ Current # None

\* run_presence_job, up to its probe, on the current adapter.
JobStart ==
  /\ JobDue /\ Spend
  /\ job' = [NoJob EXCEPT !.pc = "probe", !.on = Current]
  /\ UNCHANGED <<selVars, scope, rec, cap, tick, frame, reader>>

\* verify: the native resolution answers on the selected interface, or fails.
JobProbe ==
  /\ job.pc = "probe"
  /\ \/ job' = NoJob
     \/ ~job.stale /\ \E m \in Macs : job' = [job EXCEPT !.pc = "commit", !.mac = m]
  /\ UNCHANGED <<selVars, scope, rec, cap, tick, frame, reader, count>>

\* pause_addresses moves the fence of the address work, before or after a proof
\* is merged.
AddressPause ==
  /\ job.pc \in {"commit", "remember"}
  /\ job' = [job EXCEPT !.paused = TRUE]
  /\ UNCHANGED <<selVars, scope, rec, cap, tick, frame, reader, count>>

\* The commit drops a stale, paused or old proof; merge_verified takes the
\* registry lock and checks again.
JobMerge ==
  /\ job.pc = "commit" /\ ~RegistryLocked
  /\ job' = IF job.age < Fresh /\ ~job.paused /\ Admitted(job)
            THEN [job EXCEPT !.pc = "write"] ELSE NoJob
  /\ UNCHANGED <<selVars, scope, rec, cap, tick, frame, reader, count>>

\* What has been admitted is written.
JobWrite ==
  /\ job.pc = "write"
  /\ rec' = Merged(job)
  /\ job' = [job EXCEPT !.pc = "remember", !.lost = FALSE]
  /\ UNCHANGED <<selVars, scope, cap, tick, frame, reader, count>>

\* A bug: the deadline is counted from the merge.
JobForget ==
  /\ job.pc = "remember" /\ ~RegistryLocked
  /\ job' = NoJob
  /\ UNCHANGED <<selVars, scope, rec, cap, tick, frame, reader, count>>

\* The record still rests on this proof.
Remembered(m) == rec[m].live /\ rec[m].by = job.on /\ rec[m].age = job.age

\* remember_verified_at counts the evidence from the proof; a job gone stale or
\* paused since its commit returns without it.
JobRemember ==
  /\ job.pc = "remember" /\ ~RegistryLocked
  /\ rec' = IF ~Remembered(job.mac) THEN rec
            ELSE IF job.stale \/ job.paused
            THEN [rec EXCEPT ![job.mac].late = job.age > 0]
            ELSE [rec EXCEPT ![job.mac].left = Fresh - job.age]
  /\ job' = NoJob
  /\ UNCHANGED <<selVars, scope, cap, tick, frame, reader, count>>

\* data_cb: a frame of a listener scoped to its adapter is handed to a task.
FrameSeen(m) ==
  /\ frame.pc = "idle" /\ cap # None /\ Spend
  /\ frame' = [NoFrame EXCEPT !.pc = "merge", !.mac = m, !.on = cap]
  /\ UNCHANGED <<selVars, scope, rec, cap, tick, job, reader>>

\* on_arp_seen: merged under the capture's fence.
FrameMerge ==
  /\ frame.pc = "merge" /\ ~RegistryLocked
  /\ frame' = IF Admitted(frame) THEN [frame EXCEPT !.pc = "write"] ELSE NoFrame
  /\ UNCHANGED <<selVars, scope, rec, cap, tick, job, reader, count>>

FrameWrite ==
  /\ frame.pc = "write"
  /\ rec' = Merged(frame) /\ frame' = NoFrame
  /\ UNCHANGED <<selVars, scope, cap, tick, job, reader, count>>

-----------------------------------------------------------------------------
(***************************************************************************)
(* The readiness check                                                     *)
(***************************************************************************)

\* A bug: the check trusts the tick of the presence loop.
ReadyUnticked ==
  /\ reader.pc = "idle" /\ Spend
  /\ reader' = [NoReader EXCEPT !.pc = "scope"]
  /\ UNCHANGED <<selVars, scope, rec, cap, tick, job, frame>>

\* camera_path_now ticks first.
ReadyBegin ==
  /\ reader.pc = "idle" /\ Spend
  /\ TickBegin("reader")
  /\ reader' = [NoReader EXCEPT !.pc = "scope"]
  /\ UNCHANGED <<sel, link, res, watch, chosen, reverted, scope, rec, cap, job,
                 frame>>

\* probe_scope: the adapter and its fence, unless a native read refuses it.
ReadyScope ==
  /\ reader.pc = "scope" /\ tick["reader"].pc = "idle"
  /\ \/ reader' = NoReader
     \/ Current # None /\ reader' = [NoReader EXCEPT !.pc = "records", !.on = Current]
  /\ UNCHANGED <<selVars, scope, rec, cap, tick, job, frame, count>>

\* check_bound_ready: Live, and verified by this very adapter.
Evidenced(m) == rec[m].live /\ rec[m].by = reader.on

\* Another tick has consumed the hold and not expired the registry yet.
Expiring == \E c \in Callers : tick[c].expire

\* The registry is read after the scope.  lost tells of a record that no tick
\* was about to expire.
ReadyRecords(m) ==
  /\ reader.pc = "records" /\ ~RegistryLocked
  /\ reader' = IF ~Evidenced(m) THEN NoReader
               ELSE [reader EXCEPT !.pc = "fence", !.by = rec[m].by,
                       !.age = rec[m].age, !.late = rec[m].late,
                       !.lost = rec[m].lost /\ ~Expiring]
  /\ UNCHANGED <<selVars, scope, rec, cap, tick, job, frame, count>>

ReadyFenced == reader.stale

\* The fence is checked last; a path is returned.
ReadyReturn ==
  /\ reader.pc = "fence"
  /\ reader' = IF ReadyFenced THEN NoReader
               ELSE [reader EXCEPT !.pc = "ready", !.stale = FALSE]
  /\ UNCHANGED <<selVars, scope, rec, cap, tick, job, frame, count>>

\* The path is used; its user checks the fence again from then on.
ReadyUsed ==
  /\ reader.pc = "ready"
  /\ reader' = NoReader
  /\ UNCHANGED <<selVars, scope, rec, cap, tick, job, frame, count>>

-----------------------------------------------------------------------------
Older(d) == IF d \in {None, 0} THEN d ELSE d - 1
Ageing(a) == IF a < 2 * Fresh THEN a + 1 ELSE a

\* One unit of time.
TimePasses ==
  /\ job.pc \notin {"write", "remember"} /\ frame.pc = "idle" /\ reader.pc = "idle"
  /\ \A c \in Callers : tick[c].pc = "idle"
  /\ Spend
  /\ hold' = [expire |-> Older(hold.expire), ready |-> Older(hold.ready)]
  /\ rec' = [m \in Macs |-> IF rec[m].live
                            THEN [rec[m] EXCEPT !.left = Older(@), !.age = Ageing(@)]
                            ELSE rec[m]]
  /\ job' = IF job.pc = "commit" THEN [job EXCEPT !.age = Ageing(@)] ELSE job
  /\ UNCHANGED <<sel, link, res, watch, chosen, reverted, scope, cap, tick, frame,
                 reader>>

Next ==
  \/ LinkRead \/ LinkApply
  \/ \E a \in Adapters : SelectAdapter(a)
  \/ ResolveTick \/ ResolveCapture
  \/ WatchResolve \/ WatchApply \/ Resume
  \/ LoopTick
  \/ \E c \in Callers : TickScope(c) \/ TickExpire(c)
  \/ JobStart \/ JobProbe \/ AddressPause \/ JobMerge \/ JobWrite \/ JobRemember
  \/ \E m \in Macs : FrameSeen(m) \/ ReadyRecords(m)
  \/ FrameMerge \/ FrameWrite
  \/ ReadyBegin \/ ReadyScope \/ ReadyReturn \/ ReadyUsed
  \/ TimePasses

Spec == Init /\ [][Next]_vars

-----------------------------------------------------------------------------
(***************************************************************************)
(* Properties                                                              *)
(***************************************************************************)

\* When camera_path_now returns a path, its adapter is the one presence has
\* selected, and up, unless the fence of the path says otherwise; and the proof
\* it rests on was made through that adapter less than FRESHNESS ago.  Only
\* where the job of the proof went stale, or the address work was paused,
\* between the merge and remember_verified_at, the proof may be older, though
\* never twice FRESHNESS.
ReadyTrue ==
  reader.pc = "ready" =>
    /\ reader.by = reader.on
    /\ reader.age < IF reader.late THEN 2 * Fresh - 1 ELSE Fresh
    /\ reader.stale \/ (sel.up /\ sel.mac = reader.on)

\* A path never rests on a proof made before its adapter was left, renumbered or
\* lost its link, unless the link came back within DOWN_HOLD.  Two exceptions are
\* the code's: another task's tick is between consuming the hold and expiring the
\* registry; or the watcher's refresh took the selection away and the next
\* resolution gave it back, for which update_locked starts no hold.
LossRemembered == reader.pc = "ready" => ~reader.lost

\* One identity at most is Live at an address, however proofs, frames and
\* expiries interleave.
OneIdentity == \A m, n \in Live : m = n

\* A link reading of observe_link never brings back an adapter that has been
\* deselected meanwhile.  Presence can be on another adapter than the one last
\* resolved only because the watcher's refresh wrote the selection it had
\* resolved before, which it does without discovery_op; the next resolution
\* ends that.
SelectionKept == sel.mac = chosen \/ reverted

=============================================================================
