------------------------ MODULE DevicePresenceProofs ------------------------
(***************************************************************************)
(* Proofs about DevicePresence: a camera path rests on a young proof made  *)
(* through the selected adapter and not before that was lost, one identity *)
(* is Live at an address, and no native link read undoes a selection, for  *)
(* any identities, adapters, indexes and freshness, and however long the   *)
(* tasks interleave.                                                       *)
(***************************************************************************)
EXTENDS DevicePresence, TLAPS

Wired == Adapters \cup {None}
Deadline == Nat \cup {None}
Record == [live : BOOLEAN, by : Wired, age : Nat, left : Nat, late : BOOLEAN,
           lost : BOOLEAN]
Selection == [mac : Wired, index : Indexes \cup {None}, up : BOOLEAN]
Holds == [expire : Deadline, ready : Deadline]
Ticks == [Callers -> [pc : {"idle", "scope", "expire"}, expire : BOOLEAN, on : Wired]]
Links == [pc : {"idle", "apply"}, mac : Wired, stale : BOOLEAN]
Watches == [pc : {"idle", "resolve", "apply"}, mac : Wired]
Jobs == [pc : {"idle", "probe", "commit", "write", "remember"},
         mac : Macs \cup {None}, on : Wired, age : Nat, stale : BOOLEAN,
         paused : BOOLEAN, lost : BOOLEAN]
Frames == [pc : {"idle", "merge", "write"}, mac : Macs \cup {None}, on : Wired,
           age : {0}, stale : BOOLEAN, paused : BOOLEAN, lost : BOOLEAN]
Readers == [pc : {"idle", "scope", "records", "fence", "ready"}, on : Wired,
            by : Wired, age : Nat, stale : BOOLEAN, late : BOOLEAN, lost : BOOLEAN]

\* The shape of the state, as far as the arguments below need it.
PresenceType ==
  /\ sel \in Selection /\ hold \in Holds
  /\ rec \in [Macs -> Record]
  /\ cap \in Wired /\ chosen \in Wired
  /\ tick \in Ticks /\ link \in Links /\ watch \in Watches
  /\ job \in Jobs /\ frame \in Frames /\ reader \in Readers
  /\ count \in Nat

\* A proof under way names its identity, and one that is being merged is not
\* older than FRESHNESS.
ProofsNamed ==
  /\ job.pc \in {"commit", "write", "remember"} => job.mac \in Macs
  /\ job.pc \in {"write", "remember"} => job.age < Fresh
  /\ frame.pc # "idle" => frame.mac \in Macs

\* A link read that is not fenced is about the adapter still selected.
LinkAboutSelected == link.pc = "apply" /\ ~link.stale => link.mac = sel.mac

\* While evidence is left, age and rest make FRESHNESS together; except that the
\* deadline of a merge is counted from the merge until remember_verified_at
\* corrects it, or for good when it does not.
Bounded(m) ==
  /\ rec[m].left <= Fresh
  /\ \/ rec[m].age + rec[m].left <= Fresh
     \/ rec[m].late /\ rec[m].age + rec[m].left < 2 * Fresh
     \/ job.pc = "remember" /\ m = job.mac /\ Remembered(m)

EvidenceBounded == \A m \in Macs : rec[m].live /\ rec[m].left > 0 => Bounded(m)

\* A hold runs, and bars the adapter while it does.
Pending ==
  /\ hold.expire # None
  /\ hold.expire = 0 \/ ~sel.up \/ hold.ready = hold.expire

\* Evidence of a lost adapter is going to be expired; a proof of one on its way
\* to the registry gets there while the hold still runs.
LossHeld ==
  /\ \A m \in Macs : rec[m].lost => rec[m].live /\ (Expiring \/ Pending)
  /\ job.lost => job.pc = "write"
  /\ frame.lost => frame.pc # "idle"
  /\ job.lost \/ frame.lost => Pending /\ hold.expire # 0
  /\ \A c \in Callers : tick[c].expire => tick[c].pc # "idle"

\* After its own tick a readiness check meets no record without evidence and no
\* hold that ran out.
ReaderTicked ==
  /\ \/ reader.pc = "scope" /\ tick["reader"].pc = "idle"
     \/ reader.pc = "records"
     => \A m \in Macs : rec[m].live => rec[m].left > 0
  /\ reader.pc # "idle" => hold.expire # 0

\* A path under check or in use is on the selected adapter, which no hold bars,
\* unless its fence says otherwise; and what was read of the record is kept.
ReaderAboutSelected ==
  /\ reader.pc \in {"records", "fence", "ready"} /\ ~reader.stale =>
       sel.up /\ sel.mac = reader.on
  /\ reader.pc = "records" /\ ~reader.stale => ~Pending
  /\ reader.pc = "fence" => reader.stale \/ ~reader.lost
  /\ reader.pc = "ready" => ~reader.lost
  /\ reader.pc \in {"fence", "ready"} =>
       /\ reader.by = reader.on
       /\ reader.age < IF reader.late THEN 2 * Fresh - 1 ELSE Fresh

PresenceInv ==
  /\ PresenceType /\ ProofsNamed /\ LinkAboutSelected /\ EvidenceBounded /\ LossHeld
  /\ ReaderTicked /\ ReaderAboutSelected /\ OneIdentity /\ SelectionKept

-----------------------------------------------------------------------------
\* Initially nothing is selected, Live or under way.
LEMMA InitPresence == Init => PresenceInv
<1> SUFFICES ASSUME Init PROVE PresenceInv
  OBVIOUS
<1> USE PresenceAssumption
        DEF Init, NoSelection, NoRecord, NoTick, NoLink, NoJob, NoFrame, NoReader, Wired
<1>1. PresenceType
  BY DEF PresenceType, Record, Deadline, Selection, Holds, Ticks, Links, Watches, Jobs,
         Frames, Readers
<1>2. ProofsNamed /\ LinkAboutSelected /\ EvidenceBounded /\ LossHeld /\ ReaderTicked
  BY DEF ProofsNamed, LinkAboutSelected, EvidenceBounded, LossHeld, ReaderTicked
<1>3. ReaderAboutSelected /\ OneIdentity /\ SelectionKept
  BY DEF ReaderAboutSelected, OneIdentity, Live, SelectionKept
<1> QED BY <1>1, <1>2, <1>3 DEF PresenceInv

\* The adapter a tick or a reader is told is an adapter, and one that may be
\* used is selected and up, and no hold bars it.
LEMMA UsableSelected ==
  ASSUME PresenceType, NEW h
  PROVE  /\ Usable(sel, h) \in Wired
         /\ Usable(sel, h) # None =>
              sel.up /\ Usable(sel, h) = sel.mac /\ h.ready \in {None, 0}
  BY DEF PresenceType, Selection, Usable, Wired

\* What native reads return for an adapter is a selection of it.
LEMMA NativeSelects ==
  ASSUME NEW a \in Wired, NEW s \in Native(a)
  PROVE  s \in Selection /\ s.mac = a
<1>1. CASE a = None
  <2>1. s = NoSelection
    BY <1>1 DEF Native
  <2> QED BY <1>1, <2>1 DEF NoSelection, Selection, Wired
<1>2. CASE a # None
  <2>1. \/ s \in [mac : {a}, index : Indexes \cup {None}, up : {FALSE}]
        \/ s \in [mac : {a}, index : Indexes, up : {TRUE}]
    BY <1>2 DEF Native
  <2> QED BY <2>1 DEF Selection
<1> QED BY <1>1, <1>2

\* What was begun before the epoch moved is fenced off and otherwise kept.
Fenced(new, old) == new.pc = old.pc /\ (old.pc # "idle" => new.stale)

LEMMA MovedFence ==
  ASSUME PresenceType
  PROVE  /\ Moved(job) \in Jobs /\ Fenced(Moved(job), job)
         /\ Moved(job).mac = job.mac /\ Moved(job).age = job.age
         /\ Moved(job).on = job.on /\ Moved(job).lost = job.lost
         /\ Moved(reader) \in Readers /\ Fenced(Moved(reader), reader)
         /\ Moved(reader).on = reader.on /\ Moved(reader).by = reader.by
         /\ Moved(reader).age = reader.age /\ Moved(reader).late = reader.late
         /\ Moved(reader).lost = reader.lost
         /\ Moved(frame) \in Frames /\ Fenced(Moved(frame), frame)
         /\ Moved(frame).mac = frame.mac /\ Moved(frame).lost = frame.lost
         /\ Moved(link) \in Links /\ Fenced(Moved(link), link)
         /\ Moved(link).mac = link.mac
<1>1. PICK b \in BOOLEAN : b = (job.pc # "idle")
  OBVIOUS
<1>2. PICK c \in BOOLEAN : c = (reader.pc # "idle")
  OBVIOUS
<1>3. PICK d \in BOOLEAN : d = (frame.pc # "idle")
  OBVIOUS
<1>4. PICK e \in BOOLEAN : e = (link.pc # "idle")
  OBVIOUS
<1>5. /\ Moved(job) = [job EXCEPT !.stale = b] /\ Moved(reader) = [reader EXCEPT !.stale = c]
      /\ Moved(frame) = [frame EXCEPT !.stale = d] /\ Moved(link) = [link EXCEPT !.stale = e]
  BY <1>1, <1>2, <1>3, <1>4 DEF Moved
<1>6. Moved(job) \in Jobs /\ Fenced(Moved(job), job)
      /\ Moved(job).mac = job.mac /\ Moved(job).age = job.age
      /\ Moved(job).on = job.on /\ Moved(job).lost = job.lost
  BY <1>1, <1>5 DEF PresenceType, Jobs, Fenced
<1>7. /\ Moved(reader) \in Readers /\ Fenced(Moved(reader), reader)
      /\ Moved(reader).on = reader.on /\ Moved(reader).by = reader.by
      /\ Moved(reader).age = reader.age /\ Moved(reader).late = reader.late
      /\ Moved(reader).lost = reader.lost
  BY <1>2, <1>5 DEF PresenceType, Readers, Fenced
<1>8. /\ Moved(frame) \in Frames /\ Fenced(Moved(frame), frame)
      /\ Moved(frame).mac = frame.mac /\ Moved(frame).lost = frame.lost
  BY <1>3, <1>5 DEF PresenceType, Frames, Fenced
<1>9. /\ Moved(link) \in Links /\ Fenced(Moved(link), link)
      /\ Moved(link).mac = link.mac
  BY <1>4, <1>5 DEF PresenceType, Links, Fenced
<1> QED BY <1>6, <1>7, <1>8, <1>9

\* What any update of the selection preserves: jobs and readers under way are
\* fenced off, and what is lost is held.
Kept == /\ ProofsNamed /\ EvidenceBounded /\ LossHeld /\ ReaderTicked
        /\ ReaderAboutSelected /\ OneIdentity

LEMMA UpdateStep ==
  ASSUME PresenceInv, NEW s \in Selection, NEW turned, Update(s, turned),
         UNCHANGED tick
  PROVE  /\ sel' = s /\ hold' \in Holds /\ rec' \in [Macs -> Record]
         /\ job' \in Jobs /\ frame' \in Frames /\ reader' \in Readers
         /\ Kept'
<1> USE PresenceAssumption DEF PresenceInv
<1>1. CASE s = sel /\ ~turned
  <2>1. UNCHANGED <<sel, hold, rec, job, frame, reader, tick>>
    BY <1>1 DEF Update
  <2> QED BY <1>1, <2>1 DEF PresenceType, Kept, ProofsNamed, EvidenceBounded, Bounded,
                Remembered, LossHeld, Expiring, Pending, ReaderTicked, ReaderAboutSelected,
                OneIdentity, Live
<1>2. CASE ~(s = sel /\ ~turned)
  <2> DEFINE loses == LosesAdapter(s)
             forgives == Forgives(s)
  <2>1. /\ sel' = s
        /\ hold' = IF loses THEN [expire |-> 1, ready |-> IF s.up THEN 1 ELSE None]
                   ELSE IF LinkBack(s) THEN [expire |-> None, ready |-> None] ELSE hold
        /\ reader' = Moved(reader)
        /\ job' = Marked(Moved(job), loses /\ job.pc = "write", forgives)
        /\ frame' = Marked(frame, loses /\ frame.pc # "idle", forgives)
        /\ rec' = [m \in Macs |-> Marked(rec[m], loses /\ rec[m].live, forgives)]
    BY <1>2 DEF Update
  <2>2. hold' \in Holds /\ (hold.expire # 0 => hold'.expire # 0)
    BY <2>1 DEF PresenceType, Holds, Deadline
  <2>3. /\ reader' \in Readers /\ Fenced(reader', reader)
        /\ reader'.on = reader.on /\ reader'.by = reader.by
        /\ reader'.age = reader.age /\ reader'.late = reader.late
        /\ reader'.lost = reader.lost
    BY <2>1, MovedFence
  <2>4. /\ job' \in Jobs /\ job'.pc = job.pc /\ job'.mac = job.mac /\ job'.age = job.age
        /\ job'.on = job.on
        /\ job'.lost => (job.lost \/ (loses /\ job.pc = "write")) /\ ~forgives
    <3>1. PICK b \in BOOLEAN :
            b = ((Moved(job).lost \/ (loses /\ job.pc = "write")) /\ ~forgives)
      OBVIOUS
    <3>2. job' = [Moved(job) EXCEPT !.lost = b]
      BY <2>1, <3>1 DEF Marked
    <3> HIDE DEF loses, forgives
    <3> QED BY <3>1, <3>2, MovedFence DEF Fenced, Jobs
  <2>5. /\ frame' \in Frames /\ frame'.pc = frame.pc /\ frame'.mac = frame.mac
        /\ frame'.lost => (frame.lost \/ (loses /\ frame.pc # "idle")) /\ ~forgives
    <3>1. PICK b \in BOOLEAN : b = ((frame.lost \/ (loses /\ frame.pc # "idle")) /\ ~forgives)
      OBVIOUS
    <3>2. frame' = [frame EXCEPT !.lost = b]
      BY <2>1, <3>1 DEF Marked
    <3> HIDE DEF loses, forgives
    <3> QED BY <3>1, <3>2 DEF PresenceType, Frames
  <2>6. /\ rec' \in [Macs -> Record]
        /\ \A m \in Macs :
             /\ rec'[m].live = rec[m].live /\ rec'[m].by = rec[m].by
             /\ rec'[m].age = rec[m].age /\ rec'[m].left = rec[m].left
             /\ rec'[m].late = rec[m].late
             /\ rec'[m].lost => (rec[m].lost \/ (loses /\ rec[m].live)) /\ ~forgives
    <3>1. ASSUME NEW m \in Macs
          PROVE  /\ rec'[m] \in Record
                 /\ rec'[m].live = rec[m].live /\ rec'[m].by = rec[m].by
                 /\ rec'[m].age = rec[m].age /\ rec'[m].left = rec[m].left
                 /\ rec'[m].late = rec[m].late
                 /\ rec'[m].lost => (rec[m].lost \/ (loses /\ rec[m].live)) /\ ~forgives
      <4>1. PICK b \in BOOLEAN : b = ((rec[m].lost \/ (loses /\ rec[m].live)) /\ ~forgives)
        OBVIOUS
      <4>2. rec'[m] = [rec[m] EXCEPT !.lost = b]
        BY <2>1, <4>1 DEF Marked
      <4>3. rec[m] \in Record
        BY DEF PresenceType
      <4> HIDE DEF loses, forgives
      <4> QED BY <4>1, <4>2, <4>3 DEF Record
    <3> QED BY <2>1, <3>1
  <2>7. ProofsNamed' /\ OneIdentity' /\ ReaderTicked'
    BY <2>2, <2>3, <2>4, <2>5, <2>6
       DEF Fenced, ProofsNamed, OneIdentity, Live, ReaderTicked
  <2>8. EvidenceBounded'
    <3>1. \A m \in Macs : Remembered(m)' = Remembered(m)
      BY <2>4, <2>6 DEF Remembered
    <3> QED BY <2>4, <2>6, <3>1 DEF EvidenceBounded, Bounded
  <2>9. ReaderAboutSelected'
    BY <2>3 DEF Fenced, ReaderAboutSelected
  <2>10. loses => Pending' /\ hold'.expire # 0
    BY <2>1 DEF Pending
  <2>11. ~loses /\ ~forgives => hold' = hold /\ s.up = sel.up
    BY <2>1 DEF LosesAdapter, Forgives, LinkBack, Other, PresenceType, Selection
  <2>12. ~loses /\ ~forgives /\ Pending => Pending'
    BY <2>1, <2>11 DEF Pending
  <2>13. LossHeld'
    <3>1. Expiring' = Expiring
      BY DEF Expiring
    <3> HIDE DEF loses, forgives
    <3>2. \A m \in Macs : rec'[m].lost => rec'[m].live /\ (Expiring' \/ Pending')
      BY <2>6, <2>10, <2>12, <3>1 DEF LossHeld
    <3>3. /\ job'.lost => job'.pc = "write"
          /\ frame'.lost => frame'.pc # "idle"
          /\ job'.lost \/ frame'.lost => Pending' /\ hold'.expire # 0
      BY <2>4, <2>5, <2>10, <2>11, <2>12 DEF LossHeld
    <3> QED BY <3>2, <3>3 DEF LossHeld
  <2> QED BY <2>1, <2>2, <2>3, <2>4, <2>5, <2>6, <2>7, <2>8, <2>9, <2>13 DEF Kept
<1> QED BY <1>1, <1>2

\* An update that writes native state of adapter a leaves a selected; a link
\* reading under way is about it or fenced.
LEMMA PresentStep ==
  ASSUME PresenceInv, NEW a \in Wired, NEW resolved, Present(a, resolved),
         UNCHANGED <<cap, tick>>, chosen' \in Wired, watch' \in Watches
  PROVE  PresenceType' /\ Kept' /\ LinkAboutSelected' /\ sel'.mac = a
<1> USE PresenceAssumption DEF PresenceInv
<1>1. PICK s \in Native(a), turned \in BOOLEAN :
        /\ Update(s, turned)
        /\ link' = IF s = sel /\ ~turned THEN link ELSE Moved(link)
        /\ Charged(resolved \/ s # sel \/ turned)
  BY DEF Present
<1>2. s \in Selection /\ s.mac = a
  BY NativeSelects
<1>3. /\ sel' = s /\ hold' \in Holds /\ rec' \in [Macs -> Record]
      /\ job' \in Jobs /\ frame' \in Frames /\ reader' \in Readers
      /\ Kept'
  BY <1>1, <1>2, UpdateStep
<1>4. count' \in Nat
  BY <1>1 DEF Charged, Spend, PresenceType
<1>5. link' \in Links /\ LinkAboutSelected'
  <2>1. CASE s = sel /\ ~turned
    BY <1>1, <1>3, <2>1 DEF PresenceType, LinkAboutSelected
  <2>2. CASE ~(s = sel /\ ~turned)
    BY <1>1, <2>2, MovedFence DEF Fenced, LinkAboutSelected
  <2> QED BY <2>1, <2>2
<1>6. PresenceType'
  BY <1>2, <1>3, <1>4, <1>5 DEF PresenceType
<1> QED BY <1>2, <1>3, <1>5, <1>6

\* A resolution leaves what it resolved selected.
LEMMA ResolveStep ==
  ASSUME PresenceInv, NEW a \in Wired, Resolve(a), watch' \in Watches
  PROVE  PresenceInv'
<1>1. Present(a, TRUE) /\ UNCHANGED <<cap, tick>> /\ chosen' = a
  BY DEF Resolve
<1>2. PresenceType' /\ Kept' /\ LinkAboutSelected' /\ sel'.mac = a
  BY <1>1, PresentStep
<1> QED BY <1>1, <1>2 DEF PresenceInv, Kept, SelectionKept

\* The steps about the selection and its link.
LEMMA SelectionStep ==
  ASSUME PresenceInv,
         \/ LinkRead \/ LinkApply \/ (\E a \in Adapters : SelectAdapter(a))
         \/ ResolveCapture \/ WatchResolve \/ WatchApply \/ Resume
  PROVE  PresenceInv'
<1> USE PresenceAssumption DEF PresenceInv
<1>0. NoLink \in Links /\ NoLink.pc = "idle"
  BY DEF NoLink, Links, Wired
<1>1. CASE LinkRead
  <2>1. link' = [pc |-> "apply", mac |-> sel.mac, stale |-> FALSE]
        /\ UNCHANGED <<sel, hold, watch, rec, cap, tick, chosen, reverted, job, frame,
                       reader>>
        /\ count' = count + 1
    BY <1>1 DEF LinkRead, Spend
  <2>2. PresenceType' /\ LinkAboutSelected'
    BY <2>1 DEF PresenceType, Links, Selection, LinkAboutSelected
  <2> QED BY <2>1, <2>2 DEF ProofsNamed, EvidenceBounded, Bounded, Remembered, LossHeld,
                Expiring, Pending, ReaderTicked, ReaderAboutSelected, OneIdentity, Live,
                SelectionKept
<1>2. CASE LinkApply
  <2>1. UNCHANGED <<cap, tick, chosen, reverted, watch, count>> /\ link' = NoLink
        /\ link.pc = "apply"
    BY <1>2 DEF LinkApply
  <2>2. LinkAboutSelected'
    BY <1>0, <2>1 DEF LinkAboutSelected
  <2>3. CASE LinkFenced
    <3>1. UNCHANGED <<sel, hold, rec, job, frame, reader>>
      BY <1>2, <2>3 DEF LinkApply
    <3>2. PresenceType'
      BY <1>0, <2>1, <3>1 DEF PresenceType
    <3> QED BY <2>1, <2>2, <3>1, <3>2 DEF ProofsNamed, EvidenceBounded, Bounded,
                  Remembered, LossHeld, Expiring, Pending, ReaderTicked,
                  ReaderAboutSelected, OneIdentity, Live, SelectionKept
  <2>4. CASE ~LinkFenced
    <3>1. PICK s \in Native(link.mac) : Update(s, FALSE)
      BY <1>2, <2>4 DEF LinkApply
    <3>2. link.mac \in Wired /\ link.mac = sel.mac
      BY <2>1, <2>4 DEF LinkFenced, LinkAboutSelected, PresenceType, Links
    <3>3. s \in Selection /\ s.mac = sel.mac
      BY <3>2, NativeSelects
    <3>4. /\ sel' = s /\ hold' \in Holds /\ rec' \in [Macs -> Record]
          /\ job' \in Jobs /\ frame' \in Frames /\ reader' \in Readers
          /\ Kept'
      BY <2>1, <3>1, <3>3, UpdateStep
    <3>5. PresenceType'
      BY <1>0, <2>1, <3>1, <3>3, <3>4 DEF PresenceType
    <3>6. SelectionKept'
      BY <2>1, <3>3, <3>4 DEF SelectionKept
    <3> QED BY <2>2, <3>4, <3>5, <3>6 DEF Kept
  <2> QED BY <2>3, <2>4
<1>3. ASSUME NEW a \in Adapters, SelectAdapter(a) PROVE PresenceInv'
  BY <1>3, ResolveStep DEF SelectAdapter, PresenceType, Wired
<1>4. CASE WatchResolve
  <2>1. PICK a \in Proposals : Resolve(a) /\ watch' = [pc |-> "resolve", mac |-> a]
    BY <1>4 DEF WatchResolve
  <2>2. a \in Wired
    BY DEF Proposals, Wired, PresenceType
  <2> QED BY <2>1, <2>2, ResolveStep DEF Watches
<1>5. CASE WatchApply
  <2>1. Present(watch.mac, FALSE) /\ UNCHANGED <<cap, tick, chosen>>
        /\ reverted' = (watch.mac # chosen) /\ watch' = [pc |-> "idle", mac |-> None]
    BY <1>5 DEF WatchApply
  <2>2. watch.mac \in Wired /\ watch' \in Watches /\ chosen' \in Wired
    BY <2>1 DEF PresenceType, Watches, Wired
  <2>3. PresenceType' /\ Kept' /\ LinkAboutSelected' /\ sel'.mac = watch.mac
    BY <2>1, <2>2, PresentStep
  <2> QED BY <2>1, <2>3 DEF Kept, SelectionKept
<1>6. CASE Resume
  <2>1. Present(chosen, FALSE) /\ UNCHANGED <<cap, tick, chosen, watch>>
    BY <1>6 DEF Resume
  <2>2. chosen \in Wired /\ watch' \in Watches /\ chosen' \in Wired
    BY <2>1 DEF PresenceType
  <2>3. PresenceType' /\ Kept' /\ LinkAboutSelected' /\ sel'.mac = chosen
    BY <2>1, <2>2, PresentStep
  <2> QED BY <2>1, <2>3 DEF Kept, SelectionKept
<1>7. CASE ResolveCapture
  <2>1. /\ UNCHANGED <<sel, hold, rec, tick, link, chosen, reverted, job, reader, count>>
        /\ watch' = IF watch.pc = "resolve" THEN [watch EXCEPT !.pc = "apply"] ELSE watch
    BY <1>7 DEF ResolveCapture
  <2>2. /\ cap' \in Wired
        /\ frame' = frame \/ frame' = Moved(frame)
    BY <1>7 DEF ResolveCapture, PresenceType, Wired
  <2>3. frame' \in Frames /\ frame'.pc = frame.pc /\ frame'.mac = frame.mac
        /\ frame'.lost = frame.lost
    BY <2>2, MovedFence DEF PresenceType, Fenced
  <2>4. watch' \in Watches
    BY <2>1 DEF PresenceType, Watches
  <2>5. PresenceType' /\ ProofsNamed' /\ LossHeld'
    BY <2>1, <2>2, <2>3, <2>4 DEF PresenceType, ProofsNamed, LossHeld, Expiring, Pending
  <2> QED BY <2>1, <2>5 DEF LinkAboutSelected, EvidenceBounded, Bounded, Remembered,
                ReaderTicked, ReaderAboutSelected, Pending, OneIdentity, Live, SelectionKept
<1> QED BY <1>1, <1>2, <1>3, <1>4, <1>5, <1>6, <1>7

\* A tick is begun: a hold that ran out is on its way to the registry, and any
\* other one runs on.
LEMMA TickStep ==
  ASSUME PresenceInv, NEW c \in Callers, TickBegin(c)
  PROVE  /\ hold' \in Holds /\ tick' \in Ticks
         /\ tick'[c].pc = "scope"
         /\ \A d \in Callers : d # c => tick'[d] = tick[d]
         /\ hold'.expire # 0
         /\ hold.expire = 0 => tick'[c].expire /\ hold'.expire = None
         /\ hold.expire # 0 => hold' = hold
         /\ Expiring => Expiring'
<1> USE PresenceAssumption DEF PresenceInv
<1> DEFINE due == hold.expire = 0
           h == IF due THEN [expire |-> None, ready |-> None] ELSE hold
<1>1. PICK b \in BOOLEAN : b = due
  OBVIOUS
<1>2. /\ h \in Holds /\ h.expire # 0 /\ (due => h.expire = None) /\ (~due => h = hold)
  BY DEF PresenceType, Holds, Deadline
<1>3. Usable(sel, h) \in Wired
  BY UsableSelected
<1>4. /\ hold' = h /\ tick[c].pc = "idle"
      /\ tick' = [tick EXCEPT ![c] = [pc |-> "scope", expire |-> b, on |-> Usable(sel, h)]]
  BY <1>1 DEF TickBegin
<1> HIDE DEF h
<1>5. /\ tick' \in Ticks /\ tick'[c].pc = "scope" /\ tick'[c].expire = b
      /\ \A d \in Callers : d # c => tick'[d] = tick[d]
  BY <1>3, <1>4 DEF PresenceType, Ticks
<1>6. Expiring => Expiring'
  <2> SUFFICES ASSUME NEW d \in Callers, tick[d].expire PROVE Expiring'
    BY DEF Expiring
  <2>1. d # c
    BY <1>4 DEF LossHeld
  <2> QED BY <1>5, <2>1 DEF Expiring
<1> QED BY <1>1, <1>2, <1>4, <1>5, <1>6

\* After a tick has begun what is lost is still going to be expired.
LEMMA TickHolds ==
  ASSUME PresenceInv, NEW c \in Callers, TickBegin(c),
         UNCHANGED <<sel, rec, job, frame>>
  PROVE  LossHeld' /\ (Pending' => Pending)
<1> USE PresenceAssumption DEF PresenceInv
<1>1. /\ tick'[c].pc = "scope"
      /\ \A d \in Callers : d # c => tick'[d] = tick[d]
      /\ hold.expire = 0 => tick'[c].expire /\ hold'.expire = None
      /\ hold.expire # 0 => hold' = hold
      /\ Expiring => Expiring'
  BY TickStep
<1>2. Pending => Expiring' \/ Pending'
  BY <1>1 DEF Pending, Expiring
<1>3. Pending /\ hold.expire # 0 => Pending' /\ hold'.expire # 0
  BY <1>1 DEF Pending
<1>4. \A d \in Callers : tick'[d].expire => tick'[d].pc # "idle"
  BY <1>1 DEF LossHeld
<1>5. LossHeld'
  BY <1>1, <1>2, <1>3, <1>4 DEF LossHeld
<1>6. Pending' => Pending
  BY <1>1 DEF Pending
<1> QED BY <1>5, <1>6

\* Ticks of the presence loop and of a resolution, and what any tick expires.
LEMMA ExpiryStep ==
  ASSUME PresenceInv,
         ResolveTick \/ LoopTick \/ (\E c \in Callers : TickScope(c) \/ TickExpire(c))
  PROVE  PresenceInv'
<1> USE PresenceAssumption DEF PresenceInv
<1>1. ASSUME NEW c \in Callers, c # "reader", TickBegin(c),
             UNCHANGED <<sel, rec, cap, link, watch, chosen, reverted, job, frame, reader,
                         count>>
      PROVE  PresenceInv'
  <2>1. /\ hold' \in Holds /\ tick' \in Ticks /\ hold'.expire # 0
        /\ tick'["reader"] = tick["reader"]
    BY <1>1, TickStep DEF Callers
  <2>2. LossHeld' /\ (Pending' => Pending)
    BY <1>1, TickHolds
  <2>3. PresenceType' /\ ReaderTicked' /\ ReaderAboutSelected'
    BY <1>1, <2>1, <2>2 DEF PresenceType, ReaderTicked, ReaderAboutSelected
  <2> QED BY <1>1, <2>2, <2>3 DEF ProofsNamed, LinkAboutSelected, EvidenceBounded, Bounded,
                Remembered, OneIdentity, Live, SelectionKept
<1>2. CASE ResolveTick
  BY <1>1, <1>2 DEF ResolveTick, Callers
<1>3. CASE LoopTick
  BY <1>1, <1>3 DEF LoopTick, Callers
<1>4. ASSUME NEW c \in Callers, TickScope(c) PROVE PresenceInv'
  <2>1. /\ UNCHANGED <<sel, hold, link, watch, chosen, reverted, rec, cap, job, frame,
                       reader, count>>
        /\ tick[c].pc = "scope"
        /\ tick' = [tick EXCEPT ![c].pc = "expire", ![c].on = None]
    BY <1>4 DEF TickScope, selVars
  <2>2. /\ tick' \in Ticks
        /\ \A d \in Callers : tick'[d].expire = tick[d].expire
                              /\ (tick'[d].pc = "idle" => tick[d].pc = "idle")
    BY <2>1 DEF PresenceType, Ticks, Wired
  <2>3. Expiring => Expiring'
    BY <2>2 DEF Expiring
  <2>4. LossHeld'
    BY <2>1, <2>2, <2>3 DEF LossHeld, Pending
  <2>5. PresenceType' /\ ReaderTicked'
    BY <2>1, <2>2 DEF PresenceType, ReaderTicked, Callers
  <2> QED BY <2>1, <2>4, <2>5 DEF ProofsNamed, LinkAboutSelected, EvidenceBounded,
                Bounded, Remembered, ReaderAboutSelected, Pending, OneIdentity, Live,
                SelectionKept
<1>5. ASSUME NEW c \in Callers, TickExpire(c) PROVE PresenceInv'
  <2>1. /\ UNCHANGED <<sel, hold, link, watch, chosen, reverted, cap, job, frame, reader,
                       count>>
        /\ tick' = [tick EXCEPT ![c] = NoTick]
        /\ rec' = [m \in Macs |-> IF Expired(m, tick[c].expire) THEN NoRecord ELSE rec[m]]
    BY <1>5 DEF TickExpire, selVars
  <2>2. NoRecord \in Record /\ ~NoRecord.live /\ ~NoRecord.lost
    BY DEF NoRecord, Record, Wired
  <2>3. /\ rec' \in [Macs -> Record]
        /\ \A m \in Macs : rec'[m].live => rec'[m] = rec[m] /\ rec[m].left > 0
        /\ \A m \in Macs : rec'[m].lost => rec'[m] = rec[m] /\ ~tick[c].expire
    <3>1. \A m \in Macs : rec[m].live /\ ~Expired(m, tick[c].expire) => rec[m].left > 0
      BY DEF Expired, PresenceType, Record
    <3>2. \A m \in Macs : rec[m].lost /\ tick[c].expire => Expired(m, tick[c].expire)
      BY DEF Expired, LossHeld
    <3> QED BY <2>1, <2>2, <3>1, <3>2 DEF PresenceType
  <2>4. /\ tick' \in Ticks /\ tick'[c] = NoTick
        /\ \A d \in Callers : d # c => tick'[d] = tick[d]
    BY <2>1 DEF PresenceType, NoTick, Wired, Ticks
  <2>5. Expiring /\ ~tick[c].expire => Expiring'
    BY <2>4 DEF Expiring
  <2>6. LossHeld'
    BY <2>1, <2>3, <2>4, <2>5 DEF LossHeld, Pending, NoTick
  <2>7. PresenceType' /\ ReaderTicked'
    BY <2>1, <2>3, <2>4 DEF PresenceType, ReaderTicked
  <2>8. EvidenceBounded' /\ OneIdentity'
    BY <2>1, <2>3 DEF EvidenceBounded, Bounded, Remembered, OneIdentity, Live
  <2> QED BY <2>1, <2>6, <2>7, <2>8 DEF ProofsNamed, LinkAboutSelected,
                ReaderAboutSelected, Pending, SelectionKept
<1> QED BY <1>2, <1>3, <1>4, <1>5

\* A proof that is written leaves one identity Live, whose evidence is counted
\* from now.
LEMMA MergeStep ==
  ASSUME PresenceInv, NEW p, p.mac \in Macs, p.on \in Wired, p.age \in Nat,
         p.lost \in BOOLEAN, rec' = Merged(p)
  PROVE  /\ rec' \in [Macs -> Record]
         /\ \A m \in Macs : rec'[m].live \/ rec'[m].lost =>
              /\ m = p.mac /\ rec'[m].live /\ rec'[m].left = Fresh
              /\ rec'[m].age = p.age /\ rec'[m].by = p.on /\ rec'[m].lost = p.lost
         /\ OneIdentity'
<1> USE PresenceAssumption
<1>1. NoRecord \in Record /\ ~NoRecord.live /\ ~NoRecord.lost
  BY DEF NoRecord, Record, Wired
<1>2. /\ Evidence(p) \in Record /\ Evidence(p).live
      /\ Evidence(p).left = Fresh /\ Evidence(p).age = p.age
      /\ Evidence(p).by = p.on /\ Evidence(p).lost = p.lost
  BY DEF Evidence, Record
<1>3. \A m \in Macs : rec'[m] = IF m = p.mac THEN Evidence(p) ELSE NoRecord
  BY DEF Merged
<1>4. /\ rec' \in [Macs -> Record]
      /\ \A m \in Macs : rec'[m].live \/ rec'[m].lost => m = p.mac /\ rec'[m] = Evidence(p)
  BY <1>1, <1>2, <1>3 DEF Merged
<1>5. OneIdentity'
  BY <1>4 DEF OneIdentity, Live
<1> QED BY <1>2, <1>4, <1>5

\* The steps of a verification job and of a capture frame.
LEMMA ProofStep ==
  ASSUME PresenceInv,
         \/ JobStart \/ JobProbe \/ AddressPause \/ JobMerge \/ JobWrite \/ JobRemember
         \/ (\E m \in Macs : FrameSeen(m)) \/ FrameMerge \/ FrameWrite
  PROVE  PresenceInv'
<1> USE PresenceAssumption DEF PresenceInv
<1>0. /\ NoJob \in Jobs /\ NoJob.pc = "idle" /\ ~NoJob.lost
      /\ NoFrame \in Frames /\ NoFrame.pc = "idle" /\ ~NoFrame.lost
  BY DEF NoJob, NoFrame, Jobs, Frames, Wired
<1>1. ASSUME UNCHANGED <<sel, hold, cap, tick, link, watch, chosen, reverted, reader>>,
             job' \in Jobs, frame' \in Frames, rec' \in [Macs -> Record], count' \in Nat,
             ProofsNamed', EvidenceBounded', OneIdentity', LossHeld',
             \A m \in Macs : rec'[m].live =>
               rec'[m].left > 0 \/ (rec[m].live /\ rec'[m].left = rec[m].left)
      PROVE  PresenceInv'
  <2>1. PresenceType' /\ LinkAboutSelected' /\ ReaderAboutSelected' /\ SelectionKept'
    BY <1>1 DEF PresenceType, LinkAboutSelected, ReaderAboutSelected, Pending, SelectionKept
  <2>2. ReaderTicked'
    BY <1>1 DEF ReaderTicked
  <2> QED BY <1>1, <2>1, <2>2
\* No record changes and no proof is between its write and its correction.
<1>2. ASSUME UNCHANGED <<sel, hold, cap, rec, tick, link, watch, chosen, reverted, reader>>,
             job' \in Jobs, frame' \in Frames, count' \in Nat, ProofsNamed',
             \/ job.pc # "remember"
             \/ job'.pc = "remember" /\ UNCHANGED <<job.mac, job.on, job.age>>,
             job'.lost => job.lost /\ job'.pc = "write",
             frame'.lost => frame.lost /\ frame'.pc # "idle"
      PROVE  PresenceInv'
  <2>1. EvidenceBounded' /\ OneIdentity'
    BY <1>2 DEF EvidenceBounded, Bounded, Remembered, OneIdentity, Live
  <2>2. LossHeld'
    BY <1>2 DEF LossHeld, Expiring, Pending
  <2> QED BY <1>1, <1>2, <2>1, <2>2 DEF PresenceType
<1>3. CASE JobStart
  <2>1. /\ UNCHANGED <<sel, hold, rec, cap, tick, link, watch, chosen, reverted, frame, reader>>
        /\ job' = [NoJob EXCEPT !.pc = "probe", !.on = Current]
        /\ count' = count + 1 /\ job.pc = "idle"
    BY <1>3 DEF JobStart, JobDue, Spend, selVars
  <2>2. Current \in Wired
    BY UsableSelected DEF Current
  <2>3. job' \in Jobs /\ job'.pc = "probe" /\ ~job'.lost
    BY <2>1, <2>2 DEF NoJob, Jobs
  <2>4. ProofsNamed' /\ count' \in Nat /\ frame' \in Frames /\ (frame'.lost => frame'.pc # "idle")
    BY <2>1, <2>3 DEF ProofsNamed, PresenceType, LossHeld
  <2> QED BY <1>2, <2>1, <2>3, <2>4
<1>4. CASE JobProbe
  <2>1. /\ UNCHANGED <<sel, hold, rec, cap, tick, link, watch, chosen, reverted, frame, reader,
                       count>>
        /\ job.pc = "probe"
        /\ job' = NoJob \/ \E m \in Macs : job' = [job EXCEPT !.pc = "commit", !.mac = m]
    BY <1>4 DEF JobProbe, selVars
  <2>2. /\ job' \in Jobs /\ (job'.pc = "idle" \/ (job'.pc = "commit" /\ job'.mac \in Macs))
        /\ ~job'.lost
    <3>1. CASE job' = NoJob
      BY <1>0, <3>1
    <3>2. ASSUME NEW m \in Macs, job' = [job EXCEPT !.pc = "commit", !.mac = m]
          PROVE  job' \in Jobs /\ job'.pc = "commit" /\ job'.mac \in Macs /\ ~job'.lost
      BY <2>1, <3>2 DEF Jobs, PresenceType, LossHeld
    <3> QED BY <2>1, <3>1, <3>2
  <2>3. ProofsNamed' /\ count' \in Nat /\ frame' \in Frames /\ (frame'.lost => frame'.pc # "idle")
    BY <2>1, <2>2 DEF ProofsNamed, PresenceType, LossHeld
  <2> QED BY <1>2, <2>1, <2>2, <2>3
<1>5. CASE AddressPause
  <2>1. /\ UNCHANGED <<sel, hold, rec, cap, tick, link, watch, chosen, reverted, frame, reader,
                       count>>
        /\ job.pc \in {"commit", "remember"}
        /\ job' = [job EXCEPT !.paused = TRUE]
    BY <1>5 DEF AddressPause, selVars
  <2>2. /\ job' \in Jobs /\ job'.pc = job.pc /\ UNCHANGED <<job.mac, job.on, job.age, job.lost>>
    BY <2>1 DEF PresenceType, Jobs
  <2>3. ProofsNamed' /\ count' \in Nat /\ frame' \in Frames /\ (frame'.lost => frame'.pc # "idle")
    BY <2>1, <2>2 DEF ProofsNamed, PresenceType, LossHeld
  <2> QED BY <1>2, <2>1, <2>2, <2>3 DEF LossHeld
<1>6. CASE JobMerge
  <2>1. /\ UNCHANGED <<sel, hold, rec, cap, tick, link, watch, chosen, reverted, frame, reader,
                       count>>
        /\ job.pc = "commit"
        /\ \/ job' = NoJob
           \/ job.age < Fresh /\ job' = [job EXCEPT !.pc = "write"]
    BY <1>6 DEF JobMerge, selVars
  <2>2. /\ job' \in Jobs
        /\ ~job'.lost
        /\ \/ job'.pc = "idle"
           \/ job'.pc = "write" /\ job'.mac \in Macs /\ job'.age < Fresh
    BY <1>0, <2>1 DEF PresenceType, Jobs, ProofsNamed, LossHeld
  <2>3. ProofsNamed' /\ count' \in Nat /\ frame' \in Frames /\ (frame'.lost => frame'.pc # "idle")
    BY <2>1, <2>2 DEF ProofsNamed, PresenceType, LossHeld
  <2> QED BY <1>2, <2>1, <2>2, <2>3
<1>7. CASE JobWrite
  <2>1. /\ UNCHANGED <<sel, hold, cap, tick, link, watch, chosen, reverted, frame, reader,
                       count>>
        /\ job.pc = "write" /\ rec' = Merged(job)
        /\ job' = [job EXCEPT !.pc = "remember", !.lost = FALSE]
    BY <1>7 DEF JobWrite, selVars
  <2>2. /\ job.mac \in Macs /\ job.on \in Wired /\ job.age \in Nat /\ job.age < Fresh
        /\ job.lost \in BOOLEAN
    BY <2>1 DEF ProofsNamed, PresenceType, Jobs
  <2>3. /\ rec' \in [Macs -> Record] /\ OneIdentity'
        /\ \A m \in Macs : rec'[m].live \/ rec'[m].lost =>
             /\ m = job.mac /\ rec'[m].live /\ rec'[m].left = Fresh
             /\ rec'[m].age = job.age /\ rec'[m].by = job.on /\ rec'[m].lost = job.lost
    BY <2>1, <2>2, MergeStep
  <2>4. /\ job' \in Jobs /\ job'.pc = "remember" /\ ~job'.lost
        /\ UNCHANGED <<job.mac, job.on, job.age>>
    BY <2>1 DEF PresenceType, Jobs
  <2>5. ProofsNamed'
    BY <2>1, <2>2, <2>4 DEF ProofsNamed
  <2>6. EvidenceBounded'
    BY <2>3, <2>4 DEF EvidenceBounded, Bounded, Remembered
  <2>7. LossHeld'
    BY <2>1, <2>3, <2>4 DEF LossHeld, Expiring, Pending
  <2> QED BY <1>1, <2>1, <2>3, <2>4, <2>5, <2>6, <2>7 DEF PresenceType
<1>8. CASE JobRemember
  <2>1. /\ UNCHANGED <<sel, hold, cap, tick, link, watch, chosen, reverted, frame, reader,
                       count>>
        /\ job.pc = "remember" /\ job' = NoJob
        /\ \/ ~Remembered(job.mac) /\ rec' = rec
           \/ /\ Remembered(job.mac)
              /\ rec' = [rec EXCEPT ![job.mac].late = job.age > 0]
           \/ /\ Remembered(job.mac)
              /\ rec' = [rec EXCEPT ![job.mac].left = Fresh - job.age]
    BY <1>8 DEF JobRemember, selVars
  <2>2. job.mac \in Macs /\ job.age \in Nat /\ job.age < Fresh
    BY <2>1 DEF ProofsNamed, PresenceType, Jobs
  <2>3. ProofsNamed'
    BY <1>0, <2>1 DEF ProofsNamed
  <2>4. \A m \in Macs : rec[m] \in Record
    BY DEF PresenceType
  \* What the correction needs of the record: shape and evidence.
  <2>5. SUFFICES
          /\ rec' \in [Macs -> Record]
          /\ \A m \in Macs :
               /\ rec'[m].live = rec[m].live /\ rec'[m].lost = rec[m].lost
               /\ rec'[m].left > 0 \/ rec'[m].left = rec[m].left
               /\ rec'[m].live /\ rec'[m].left > 0 =>
                    /\ rec'[m].left <= Fresh
                    /\ \/ rec'[m].age + rec'[m].left <= Fresh
                       \/ rec'[m].late /\ rec'[m].age + rec'[m].left < 2 * Fresh
    <3>1. OneIdentity'
      BY <2>5 DEF OneIdentity, Live
    <3>2. EvidenceBounded'
      BY <2>5 DEF EvidenceBounded, Bounded
    <3>3. LossHeld'
      BY <1>0, <2>1, <2>5 DEF LossHeld, Expiring, Pending
    <3> QED BY <1>0, <1>1, <2>1, <2>3, <2>5, <3>1, <3>2, <3>3 DEF PresenceType
  <2>6. CASE ~Remembered(job.mac) /\ rec' = rec
    <3>1. \A m \in Macs : rec[m].live /\ rec[m].left > 0 => Bounded(m)
      BY DEF EvidenceBounded
    <3> QED BY <2>6, <3>1 DEF Bounded, PresenceType
  <2>7. CASE Remembered(job.mac) /\ rec' = [rec EXCEPT ![job.mac].late = job.age > 0]
    <3> DEFINE aged == job.age > 0
    <3>0. aged \/ job.age = 0
      BY <2>2
    <3>a. rec' = [rec EXCEPT ![job.mac].late = aged]
      BY <2>7
    <3> HIDE DEF aged
    <3>b. aged \in BOOLEAN
      BY DEF aged
    <3>1. PICK b \in BOOLEAN : b = aged
      BY <3>b
    <3>2. /\ rec' \in [Macs -> Record]
          /\ \A m \in Macs : m # job.mac => rec'[m] = rec[m]
          /\ rec'[job.mac].live = rec[job.mac].live /\ rec'[job.mac].lost = rec[job.mac].lost
          /\ rec'[job.mac].left = rec[job.mac].left /\ rec'[job.mac].age = rec[job.mac].age
          /\ rec'[job.mac].late = b
      <4>1. rec' = [rec EXCEPT ![job.mac] = [rec[job.mac] EXCEPT !.late = b]]
        BY <3>a, <3>1
      <4>2. [rec[job.mac] EXCEPT !.late = b] \in Record
        BY <2>2, <2>4 DEF Record
      <4> QED BY <2>2, <2>4, <4>1, <4>2 DEF PresenceType, Record
    <3>3. \A m \in Macs : rec[m].live /\ rec[m].left > 0 => Bounded(m)
      BY DEF EvidenceBounded
    <3>4. rec[job.mac].age = job.age /\ rec[job.mac].left \in Nat
      BY <2>2, <2>4, <2>7 DEF Remembered, Record
    <3>5. \A m \in Macs : m # job.mac /\ rec[m].live /\ rec[m].left > 0 =>
            /\ rec[m].left <= Fresh
            /\ \/ rec[m].age + rec[m].left <= Fresh
               \/ rec[m].late /\ rec[m].age + rec[m].left < 2 * Fresh
      BY <3>3 DEF Bounded
    <3>6. rec[job.mac].live /\ rec[job.mac].left > 0 => rec[job.mac].left <= Fresh
      BY <2>2, <3>3 DEF Bounded
    <3>7. b \/ job.age = 0
      BY <3>0, <3>1
    <3>8. rec'[job.mac].live /\ rec'[job.mac].left > 0 =>
            /\ rec'[job.mac].left <= Fresh
            /\ \/ rec'[job.mac].age + rec'[job.mac].left <= Fresh
               \/ rec'[job.mac].late /\ rec'[job.mac].age + rec'[job.mac].left < 2 * Fresh
      BY <2>2, <3>2, <3>4, <3>6, <3>7
    <3> QED BY <3>2, <3>5, <3>8
  <2>8. CASE Remembered(job.mac) /\ rec' = [rec EXCEPT ![job.mac].left = Fresh - job.age]
    <3>1. Fresh - job.age \in Nat /\ Fresh - job.age > 0 /\ Fresh - job.age <= Fresh
      BY <2>2
    <3>2. /\ rec' \in [Macs -> Record]
          /\ \A m \in Macs : m # job.mac => rec'[m] = rec[m]
          /\ rec'[job.mac].live = rec[job.mac].live /\ rec'[job.mac].lost = rec[job.mac].lost
          /\ rec'[job.mac].left = Fresh - job.age /\ rec'[job.mac].age = rec[job.mac].age
      <4>1. rec' = [rec EXCEPT ![job.mac] = [rec[job.mac] EXCEPT !.left = Fresh - job.age]]
        BY <2>8
      <4>2. [rec[job.mac] EXCEPT !.left = Fresh - job.age] \in Record
        BY <2>2, <2>4, <3>1 DEF Record
      <4> QED BY <2>2, <2>4, <4>1, <4>2 DEF PresenceType, Record
    <3>3. \A m \in Macs : rec[m].live /\ rec[m].left > 0 => Bounded(m)
      BY DEF EvidenceBounded
    <3>4. rec[job.mac].age = job.age
      BY <2>8 DEF Remembered
    <3>5. \A m \in Macs : m # job.mac /\ rec[m].live /\ rec[m].left > 0 =>
            /\ rec[m].left <= Fresh
            /\ \/ rec[m].age + rec[m].left <= Fresh
               \/ rec[m].late /\ rec[m].age + rec[m].left < 2 * Fresh
      BY <3>3 DEF Bounded
    <3>6. rec'[job.mac].age + rec'[job.mac].left <= Fresh
      BY <2>2, <3>2, <3>4
    <3> QED BY <3>1, <3>2, <3>5, <3>6
  <2> QED BY <2>1, <2>6, <2>7, <2>8
<1>9. ASSUME NEW m \in Macs, FrameSeen(m) PROVE PresenceInv'
  <2>1. /\ UNCHANGED <<sel, hold, rec, cap, tick, link, watch, chosen, reverted, job, reader>>
        /\ count' = count + 1
        /\ frame' = [NoFrame EXCEPT !.pc = "merge", !.mac = m, !.on = cap]
    BY <1>9 DEF FrameSeen, Spend, selVars
  <2>2. frame' \in Frames /\ frame'.mac \in Macs /\ ~frame'.lost
    BY <2>1 DEF NoFrame, NoJob, Frames, PresenceType
  <2>3. ProofsNamed' /\ job' \in Jobs /\ count' \in Nat
    BY <2>1, <2>2 DEF ProofsNamed, PresenceType
  <2> QED BY <1>2, <2>1, <2>2, <2>3 DEF LossHeld
<1>10. CASE FrameMerge
  <2>1. /\ UNCHANGED <<sel, hold, rec, cap, tick, link, watch, chosen, reverted, job, reader,
                       count>>
        /\ frame.pc = "merge"
        /\ frame' = NoFrame \/ frame' = [frame EXCEPT !.pc = "write"]
    BY <1>10 DEF FrameMerge, selVars
  <2>2. /\ frame' \in Frames /\ (frame'.pc # "idle" => frame'.mac \in Macs)
        /\ frame'.lost => frame.lost /\ frame'.pc # "idle"
    BY <1>0, <2>1 DEF PresenceType, Frames, ProofsNamed
  <2>3. ProofsNamed' /\ job' \in Jobs /\ count' \in Nat
    BY <2>1, <2>2 DEF ProofsNamed, PresenceType
  <2> QED BY <1>2, <2>1, <2>2, <2>3 DEF LossHeld
<1>11. CASE FrameWrite
  <2>1. /\ UNCHANGED <<sel, hold, cap, tick, link, watch, chosen, reverted, job, reader,
                       count>>
        /\ frame.pc = "write" /\ rec' = Merged(frame) /\ frame' = NoFrame
    BY <1>11 DEF FrameWrite, selVars
  <2>2. /\ frame.mac \in Macs /\ frame.on \in Wired /\ frame.age = 0
        /\ frame.lost \in BOOLEAN
    BY <2>1 DEF ProofsNamed, PresenceType, Frames
  <2>3. /\ rec' \in [Macs -> Record] /\ OneIdentity'
        /\ \A m \in Macs : rec'[m].live \/ rec'[m].lost =>
             /\ m = frame.mac /\ rec'[m].live /\ rec'[m].left = Fresh
             /\ rec'[m].age = 0 /\ rec'[m].lost = frame.lost
    BY <2>1, <2>2, MergeStep
  <2>4. ProofsNamed'
    BY <1>0, <2>1 DEF ProofsNamed
  <2>5. EvidenceBounded'
    BY <2>3 DEF EvidenceBounded, Bounded
  <2>6. LossHeld'
    BY <1>0, <2>1, <2>3 DEF LossHeld, Expiring, Pending
  <2> QED BY <1>0, <1>1, <2>1, <2>3, <2>4, <2>5, <2>6 DEF PresenceType
<1> QED BY <1>3, <1>4, <1>5, <1>6, <1>7, <1>8, <1>9, <1>10, <1>11

\* The steps of a readiness check.
LEMMA ReaderStep ==
  ASSUME PresenceInv,
         \/ ReadyBegin \/ ReadyScope \/ (\E m \in Macs : ReadyRecords(m))
         \/ ReadyReturn \/ ReadyUsed
  PROVE  PresenceInv'
<1> USE PresenceAssumption DEF PresenceInv
<1>0. NoReader \in Readers /\ NoReader.pc = "idle"
  BY DEF NoReader, Readers, Wired
<1>1. ASSUME UNCHANGED <<selVars, rec, cap, tick, job, frame, count>>,
             reader' \in Readers, ReaderTicked', ReaderAboutSelected'
      PROVE  PresenceInv'
  BY <1>1 DEF selVars, PresenceType, ProofsNamed, LinkAboutSelected, EvidenceBounded, Bounded,
        Remembered, LossHeld, Expiring, Pending, OneIdentity, Live, SelectionKept
<1>2. CASE ReadyBegin
  <2>1. /\ UNCHANGED <<sel, rec, cap, link, watch, chosen, reverted, job, frame>>
        /\ count' = count + 1
        /\ reader' = [NoReader EXCEPT !.pc = "scope"]
        /\ TickBegin("reader")
    BY <1>2 DEF ReadyBegin, Spend
  <2>2. /\ hold' \in Holds /\ tick' \in Ticks /\ hold'.expire # 0
        /\ tick'["reader"].pc = "scope"
    BY <2>1, TickStep DEF Callers
  <2>3. LossHeld'
    BY <2>1, TickHolds DEF Callers
  <2>4. reader' \in Readers /\ reader'.pc = "scope"
    BY <2>1 DEF NoReader, Readers, Wired
  <2>5. PresenceType' /\ ReaderTicked' /\ ReaderAboutSelected'
    BY <2>1, <2>2, <2>4 DEF PresenceType, ReaderTicked, ReaderAboutSelected
  <2> QED BY <2>1, <2>3, <2>5 DEF ProofsNamed, LinkAboutSelected, EvidenceBounded, Bounded,
                Remembered, OneIdentity, Live, SelectionKept
<1>3. CASE ReadyScope
  <2>1. /\ UNCHANGED <<selVars, rec, cap, tick, job, frame, count>>
        /\ reader.pc = "scope" /\ tick["reader"].pc = "idle"
        /\ \/ reader' = NoReader
           \/ Current # None /\ reader' = [NoReader EXCEPT !.pc = "records", !.on = Current]
    BY <1>3 DEF ReadyScope
  <2>2. CASE reader' = NoReader
    BY <1>0, <1>1, <2>1, <2>2 DEF ReaderTicked, ReaderAboutSelected
  <2>3. CASE Current # None /\ reader' = [NoReader EXCEPT !.pc = "records", !.on = Current]
    <3>1. /\ Current \in Wired /\ sel.up /\ sel.mac = Current
          /\ hold.ready \in {None, 0}
      BY <2>3, UsableSelected DEF Current
    <3>2. ~Pending
      BY <2>1, <3>1 DEF Pending, ReaderTicked
    <3>3. reader' \in Readers /\ reader'.pc = "records" /\ reader'.on = Current
      BY <2>3, <3>1 DEF NoReader, Readers, Wired
    <3>4. ReaderTicked'
      BY <2>1 DEF selVars, ReaderTicked
    <3>5. ReaderAboutSelected'
      BY <2>1, <3>1, <3>2, <3>3 DEF selVars, ReaderAboutSelected, Pending
    <3> QED BY <1>1, <2>1, <3>3, <3>4, <3>5
  <2> QED BY <2>1, <2>2, <2>3
<1>4. ASSUME NEW m \in Macs, ReadyRecords(m) PROVE PresenceInv'
  <2>1. UNCHANGED <<selVars, rec, cap, tick, job, frame, count>> /\ reader.pc = "records"
    BY <1>4 DEF ReadyRecords
  <2>2. CASE ~Evidenced(m)
    BY <1>0, <1>1, <1>4, <2>1, <2>2 DEF ReadyRecords, ReaderTicked, ReaderAboutSelected
  <2>3. CASE Evidenced(m)
    <3>1. PICK b \in BOOLEAN : b = (rec[m].lost /\ ~Expiring)
      OBVIOUS
    <3>2. reader' = [reader EXCEPT !.pc = "fence", !.by = rec[m].by, !.age = rec[m].age,
                       !.late = rec[m].late, !.lost = b]
      BY <1>4, <2>3, <3>1 DEF ReadyRecords
    <3>3. /\ rec[m] \in Record /\ rec[m].by = reader.on /\ rec[m].live /\ rec[m].left > 0
      BY <2>1, <2>3 DEF Evidenced, ReaderTicked, PresenceType
    <3>4. rec[m].age < IF rec[m].late THEN 2 * Fresh - 1 ELSE Fresh
      <4>1. Bounded(m)
        BY <3>3 DEF EvidenceBounded
      <4>2. rec[m].age \in Nat /\ rec[m].left \in Nat /\ rec[m].left > 0
        BY <3>3 DEF Record
      <4>3. CASE rec[m].age + rec[m].left <= Fresh
        <5>1. rec[m].age < Fresh /\ rec[m].age < 2 * Fresh - 1
          BY <4>2, <4>3
        <5> QED BY <4>2, <4>3, <5>1
      <4>4. CASE rec[m].late /\ rec[m].age + rec[m].left < 2 * Fresh
        BY <4>2, <4>4
      <4>5. CASE job.pc = "remember" /\ m = job.mac /\ Remembered(m)
        <5>1. rec[m].age < Fresh
          BY <4>5 DEF Remembered, ProofsNamed
        <5> QED BY <4>2, <5>1
      <4> QED BY <4>1, <4>3, <4>4, <4>5 DEF Bounded
    <3>5. reader.stale \/ ~b
      BY <2>1, <3>1 DEF ReaderAboutSelected, LossHeld
    <3>6. rec[m].by \in Wired /\ rec[m].age \in Nat /\ rec[m].late \in BOOLEAN
      BY <3>3 DEF Record
    <3>7. /\ reader' \in Readers /\ reader'.pc = "fence" /\ reader'.on = reader.on
          /\ reader'.by = reader.on /\ reader'.age = rec[m].age
          /\ reader'.late = rec[m].late /\ reader'.lost = b
          /\ reader'.stale = reader.stale
      BY <3>2, <3>3, <3>6 DEF PresenceType, Readers
    <3>8. ReaderTicked'
      BY <2>1, <3>7 DEF selVars, ReaderTicked
    <3>9. ReaderAboutSelected'
      BY <2>1, <3>4, <3>5, <3>7 DEF selVars, ReaderAboutSelected
    <3> QED BY <1>1, <2>1, <3>7, <3>8, <3>9
  <2> QED BY <2>2, <2>3
<1>5. CASE ReadyReturn
  <2>1. UNCHANGED <<selVars, rec, cap, tick, job, frame, count>> /\ reader.pc = "fence"
    BY <1>5 DEF ReadyReturn
  <2>2. CASE ReadyFenced
    BY <1>0, <1>1, <1>5, <2>1, <2>2 DEF ReadyReturn, ReaderTicked, ReaderAboutSelected
  <2>3. CASE ~ReadyFenced
    <3>1. reader' = [reader EXCEPT !.pc = "ready", !.stale = FALSE] /\ ~reader.stale
      BY <1>5, <2>3 DEF ReadyReturn, ReadyFenced
    <3>2. /\ reader' \in Readers /\ reader'.pc = "ready" /\ reader'.on = reader.on
          /\ reader'.by = reader.by /\ reader'.age = reader.age
          /\ reader'.late = reader.late /\ reader'.lost = reader.lost
      BY <3>1 DEF PresenceType, Readers
    <3>3. ReaderTicked'
      BY <2>1, <3>2 DEF selVars, ReaderTicked
    <3>4. ReaderAboutSelected'
      BY <2>1, <3>1, <3>2 DEF selVars, ReaderAboutSelected
    <3> QED BY <1>1, <2>1, <3>2, <3>3, <3>4
  <2> QED BY <2>2, <2>3
<1>6. CASE ReadyUsed
  BY <1>0, <1>1, <1>6 DEF ReadyUsed, ReaderTicked, ReaderAboutSelected
<1> QED BY <1>2, <1>3, <1>4, <1>5, <1>6

\* A unit of time: no check, frame or merge is under way, a hold that runs stays
\* one, and what evidence loses its age gains.
LEMMA TimeStep == ASSUME PresenceInv, TimePasses PROVE PresenceInv'
<1> USE PresenceAssumption DEF PresenceInv
<1>1. /\ UNCHANGED <<sel, cap, tick, link, watch, chosen, reverted, frame, reader>>
      /\ reader.pc = "idle" /\ frame.pc = "idle" /\ job.pc \notin {"write", "remember"}
      /\ count' = count + 1
      /\ hold' = [expire |-> Older(hold.expire), ready |-> Older(hold.ready)]
      /\ job' = IF job.pc = "commit" THEN [job EXCEPT !.age = Ageing(@)] ELSE job
  BY DEF TimePasses, Spend
<1>2. hold' \in Holds /\ (Pending => Pending')
  BY <1>1 DEF PresenceType, Holds, Deadline, Older, Pending
<1>3. job' \in Jobs /\ job'.pc = job.pc /\ job'.mac = job.mac /\ job'.lost = job.lost
  <2>1. \A a \in Nat : Ageing(a) \in Nat
    BY DEF Ageing
  <2> QED BY <1>1, <2>1 DEF PresenceType, Jobs
<1>4. \A m \in Macs :
         /\ rec'[m] \in Record /\ rec'[m].live = rec[m].live /\ rec'[m].late = rec[m].late
         /\ rec'[m].lost = rec[m].lost
         /\ rec[m].live => rec'[m].left = Older(rec[m].left) /\ rec'[m].age = Ageing(rec[m].age)
  <2> TAKE m \in Macs
  <2>1. rec[m] \in Record
    BY DEF PresenceType
  <2>2. Older(rec[m].left) \in Nat /\ Ageing(rec[m].age) \in Nat
    BY <2>1 DEF Record, Older, Ageing
  <2>3. rec'[m] = IF rec[m].live
                  THEN [rec[m] EXCEPT !.left = Older(@), !.age = Ageing(@)] ELSE rec[m]
    BY DEF TimePasses
  <2> QED BY <2>1, <2>2, <2>3 DEF Record
<1>5. rec' \in [Macs -> Record]
  BY <1>4 DEF TimePasses
<1>6. PresenceType' /\ ProofsNamed'
  BY <1>1, <1>2, <1>3, <1>5 DEF PresenceType, ProofsNamed
<1>7. EvidenceBounded'
  <2> SUFFICES ASSUME NEW m \in Macs, rec'[m].live, rec'[m].left > 0
               PROVE  /\ rec'[m].left <= Fresh
                      /\ \/ rec'[m].age + rec'[m].left <= Fresh
                         \/ rec'[m].late /\ rec'[m].age + rec'[m].left < 2 * Fresh
    BY DEF EvidenceBounded, Bounded
  <2>1. rec[m].live /\ rec[m].age \in Nat /\ rec[m].left \in Nat
    BY <1>4 DEF PresenceType, Record
  <2>2. rec'[m].left = Older(rec[m].left) /\ rec'[m].age = Ageing(rec[m].age)
    BY <1>4, <2>1
  <2>3. rec[m].left > 0 /\ rec'[m].left = rec[m].left - 1
    BY <2>1, <2>2 DEF Older
  <2>4. /\ rec[m].left <= Fresh
        /\ \/ rec[m].age + rec[m].left <= Fresh
           \/ rec[m].late /\ rec[m].age + rec[m].left < 2 * Fresh
    BY <1>1, <2>1, <2>3 DEF EvidenceBounded, Bounded
  <2>5. rec'[m].late = rec[m].late
    BY <1>4
  <2>6. rec'[m].age \in Nat /\ rec'[m].age <= rec[m].age + 1
    BY <2>1, <2>2 DEF Ageing
  <2> QED BY <2>1, <2>3, <2>4, <2>5, <2>6
<1>8. OneIdentity'
  BY <1>4 DEF OneIdentity, Live
<1>9. LossHeld'
  BY <1>1, <1>2, <1>3, <1>4 DEF LossHeld, Expiring
<1>10. LinkAboutSelected' /\ ReaderTicked' /\ ReaderAboutSelected' /\ SelectionKept'
  BY <1>1 DEF LinkAboutSelected, ReaderTicked, ReaderAboutSelected, SelectionKept
<1> QED BY <1>6, <1>7, <1>8, <1>9, <1>10

\* Nothing the six tasks do in any order breaks the invariant.
LEMMA PresenceStep == PresenceInv /\ [Next]_vars => PresenceInv'
<1> SUFFICES ASSUME PresenceInv, [Next]_vars PROVE PresenceInv'
  OBVIOUS
<1>1. CASE Next
  BY <1>1, SelectionStep, ExpiryStep, ProofStep, ReaderStep, TimeStep DEF Next
<1>2. CASE UNCHANGED vars
  BY <1>2 DEF vars, selVars, PresenceInv, PresenceType, ProofsNamed, LinkAboutSelected,
        EvidenceBounded, Bounded, Remembered, LossHeld, Expiring, Pending, ReaderTicked,
        ReaderAboutSelected, OneIdentity, Live, SelectionKept
<1> QED BY <1>1, <1>2

LEMMA PresenceInvariant == Spec => []PresenceInv
  BY InitPresence, PresenceStep, PTL DEF Spec

-----------------------------------------------------------------------------
\* A path that camera_path_now returns is on the adapter selected and up, unless
\* its fence says otherwise, and rests on a proof made through that adapter less
\* than FRESHNESS ago; or less than twice that, where remember_verified_at came
\* to a job gone stale or paused.
THEOREM PathTrusted == Spec => []ReadyTrue
<1>1. PresenceInv => ReadyTrue
  BY DEF PresenceInv, PresenceType, Readers, ReaderAboutSelected, ReadyTrue
<1> QED BY <1>1, PresenceInvariant, PTL

\* The hold of update_locked and the ticks between them let no path rest on a
\* proof made before its adapter was lost, with the exceptions the property
\* names.
THEOREM LossTrusted == Spec => []LossRemembered
<1>1. PresenceInv => LossRemembered
  BY DEF PresenceInv, ReaderAboutSelected, LossRemembered
<1> QED BY <1>1, PresenceInvariant, PTL

\* merge_verified_locked and the expiries leave one identity Live at an
\* address.
THEOREM AddressUnambiguous == Spec => []OneIdentity
<1>1. PresenceInv => OneIdentity
  BY DEF PresenceInv
<1> QED BY <1>1, PresenceInvariant, PTL

\* observe_link's second section never brings a deselected adapter back; the
\* selection differs from the one last resolved only after the watcher's
\* unfenced write, and only until the next resolution.
THEOREM SelectionWins == Spec => []SelectionKept
<1>1. PresenceInv => SelectionKept
  BY DEF PresenceInv
<1> QED BY <1>1, PresenceInvariant, PTL

=============================================================================
