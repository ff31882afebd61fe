------------------------ MODULE CaptureSessionProofs ------------------------
(***************************************************************************)
(* Proofs about the packet-capture listener.  Two statements carry them:   *)
(* every capture thread that lives is in one single hand (the slot, the    *)
(* parked joins or the watchdog's own), and every thread that may speak is *)
(* the published incarnation, or the one an attach has just spawned.       *)
(***************************************************************************)
EXTENDS CaptureSession, FiniteSetTheorems, TLAPS

\* Threads that may merge frames into the registry.
Voices == {t \in Living : thread[t].flag}

\* The join handles somebody still owns.
Held == ({slot, dog.hand} \ {None}) \cup parked

\* At most one handle is held, and every living thread whose handle was not
\* dropped is the held one: a start that has drained the parked joins and
\* found the slot empty therefore starts alone.
OneHand ==
  /\ \A t, u \in Held : t = u
  /\ Living \ dropped \subseteq Held
  /\ dropped \subseteq Living
  /\ slot # None => parked = {}

\* Where the lifecycle operation and the watchdog may stand together, and what
\* each knows of the slot.
Turns ==
  /\ dog.pc # "off" => op.pc \in {"idle", "stop_session", "wait_dog"}
  /\ dog.hand # None => dog.pc = "joining"
  /\ dog.pc \in {"joining", "draining"} =>
       slot = None /\ parked = {} /\ RestartLeft
  /\ dog.pc = "activating" \/ op.pc = "activating" => slot # None
  /\ op.pc = "drain" => slot = None

\* A voice is the published incarnation; only between the spawn of an attach
\* and its confirmation it is the thread in the slot, and then none is
\* published.  Nobody speaks while the watchdog replaces a session.
OneSpeaker ==
  /\ \A t \in Voices : t = identity.inc \/ (op.pc = "activating" /\ t = slot)
  /\ op.pc \in {"drain", "activating"} => identity = NoIdentity
  /\ dog.pc # "off" \/ op.pc = "gate" => identity.inc # None
  /\ dog.pc \in {"joining", "draining"} => Voices = {}

\* What is published, being started or about to be started is the selection.
OnSelected ==
  /\ \A t \in Voices : thread[t].on = selected
  /\ identity.inc # None => identity.on = selected
  /\ op.pc \in {"ensure", "drain", "activating", "gate"} => op.on = selected
  /\ op.pc \in {"stop_session", "wait_dog"} /\ ~op.full => op.on = selected

CaptureInv == TypeOK /\ OneHand /\ Turns /\ OneSpeaker /\ OnSelected

-----------------------------------------------------------------------------
(***************************************************************************)
(* What the steps do to the threads, the watchdog and the operation        *)
(***************************************************************************)

ThreadRec == [st : {"starting", "active", "gone"},
              shutdown : BOOLEAN, flag : BOOLEAN,
              on : Adapters \cup {None}, forced : BOOLEAN,
              rx : Outcomes \cup {"none", "error"}]
DogRec == [pc : {"off", "window", "joining", "draining", "activating",
                 "polling"},
           stop : BOOLEAN, used : 0 .. MaxRestarts, quiet : 0 .. MaxQuiet,
           hand : Threads \cup {None}, fresh : BOOLEAN]
OpRec == [pc : {"idle", "stop_session", "wait_dog", "stop_capture",
                "ensure", "drain", "activating", "gate"},
          kind : {"none", "start", "resume", "stop"},
          on : Adapters \cup {None}, up : BOOLEAN, preserve : BOOLEAN,
          full : BOOLEAN]
IdentityRec == [on : Adapters \cup {None}, source : {None, 1, 2},
                inc : Threads \cup {None}]
SignalRec == [active : BOOLEAN, outcome : Outcomes \cup {None}]

\* No thread is called None.
LEMMA NoneApart == None \notin Threads /\ None \notin Adapters
  BY CaptureAssumption DEF Threads

\* The type invariant, variable by variable.
LEMMA Types ==
  TypeOK <=> /\ thread \in [Threads -> ThreadRec]
             /\ slot \in Threads \cup {None}
             /\ parked \subseteq Threads /\ dropped \subseteq Threads
             /\ identity \in IdentityRec
             /\ signal \in SignalRec
             /\ session \in BOOLEAN
             /\ dog \in DogRec
             /\ op \in OpRec
             /\ selected \in Adapters \cup {None}
             /\ wire \in [up : BOOLEAN, source : {1, 2}]
             /\ count \in [ops : 0 .. MaxOps, churn : 0 .. MaxChurn]
  BY DEF TypeOK, ThreadRec, DogRec, OpRec, IdentityRec, SignalRec

LEMMA NoDogType == NoDog \in DogRec /\ NoDog.pc = "off" /\ NoDog.hand = None
  <1>1. 0 \in 0 .. MaxRestarts /\ 0 \in 0 .. MaxQuiet
    BY CaptureAssumption
  <1> QED  BY <1>1 DEF NoDog, DogRec

LEMMA NoOpType == NoOp \in OpRec /\ NoOp.pc = "idle"
  BY DEF NoOp, OpRec

LEMMA NoThreadType == NoThread \in ThreadRec
  BY DEF NoThread, ThreadRec

\* A thread's record with one of its two switches thrown.
LEMMA Switches ==
  ASSUME NEW r \in ThreadRec
  PROVE  /\ [r EXCEPT !.flag = FALSE] \in ThreadRec
         /\ [r EXCEPT !.flag = FALSE].st = r.st
         /\ [r EXCEPT !.flag = FALSE].on = r.on
         /\ [r EXCEPT !.flag = FALSE].flag = FALSE
         /\ [r EXCEPT !.shutdown = TRUE] \in ThreadRec
         /\ [r EXCEPT !.shutdown = TRUE].st = r.st
         /\ [r EXCEPT !.shutdown = TRUE].on = r.on
         /\ [r EXCEPT !.shutdown = TRUE].flag = r.flag
  <1>1. [r EXCEPT !.flag = FALSE] \in ThreadRec
    BY Zenon DEF ThreadRec
  <1>2. [r EXCEPT !.shutdown = TRUE] \in ThreadRec
    BY Zenon DEF ThreadRec
  <1>3. /\ [r EXCEPT !.flag = FALSE].st = r.st
        /\ [r EXCEPT !.flag = FALSE].on = r.on
        /\ [r EXCEPT !.flag = FALSE].flag = FALSE
    BY DEF ThreadRec
  <1>4. /\ [r EXCEPT !.shutdown = TRUE].st = r.st
        /\ [r EXCEPT !.shutdown = TRUE].on = r.on
        /\ [r EXCEPT !.shutdown = TRUE].flag = r.flag
    BY DEF ThreadRec
  <1> QED  BY <1>1, <1>2, <1>3, <1>4

\* Sending shutdown to one thread and withdrawing the flag of another touches
\* nothing else: both run on, and only the retired one loses its voice.
LEMMA Teardown ==
  ASSUME thread \in [Threads -> ThreadRec],
         NEW x \in Threads \cup {None}, NEW y \in Threads \cup {None},
         thread' = Signalled(Retired(thread, x), y)
  PROVE  /\ thread' \in [Threads -> ThreadRec]
         /\ Living' = Living
         /\ Voices' = Voices \ {x}
         /\ \A t \in Threads : thread'[t].on = thread[t].on
  <1> DEFINE th == Retired(thread, x)
  <1>1. /\ th \in [Threads -> ThreadRec]
        /\ \A t \in Threads : /\ th[t].st = thread[t].st
                              /\ th[t].on = thread[t].on
                              /\ t # x => th[t].flag = thread[t].flag
                              /\ t = x => th[t].flag = FALSE
    <2>1. CASE x = None
      BY <2>1, NoneApart DEF Retired
    <2>2. CASE x \in Threads
      <3> DEFINE r == [thread[x] EXCEPT !.flag = FALSE]
      <3>1. /\ r \in ThreadRec /\ r.flag = FALSE
            /\ r.st = thread[x].st /\ r.on = thread[x].on
        BY <2>2, Switches
      <3>2. th = [thread EXCEPT ![x] = r]
        BY <2>2, NoneApart DEF Retired
      <3> HIDE DEF r, th
      <3>3. th \in [Threads -> ThreadRec]
        BY <3>1, <3>2
      <3>4. \A t \in Threads : /\ th[t].st = thread[t].st
                               /\ th[t].on = thread[t].on
                               /\ t # x => th[t].flag = thread[t].flag
                               /\ t = x => th[t].flag = FALSE
        BY <2>2, <3>1, <3>2
      <3> QED  BY <3>3, <3>4
    <2> QED  BY <2>1, <2>2
  <1>2. /\ thread' \in [Threads -> ThreadRec]
        /\ \A t \in Threads : /\ thread'[t].st = th[t].st
                              /\ thread'[t].on = th[t].on
                              /\ thread'[t].flag = th[t].flag
    <2> HIDE DEF th
    <2>1. CASE y = None
      BY <2>1, <1>1 DEF Signalled, th
    <2>2. CASE y \in Threads
      <3> DEFINE r == [th[y] EXCEPT !.shutdown = TRUE]
      <3>1. /\ r \in ThreadRec /\ r.flag = th[y].flag
            /\ r.st = th[y].st /\ r.on = th[y].on
        BY <2>2, <1>1, Switches
      <3>2. thread' = [th EXCEPT ![y] = r]
        BY <2>2, NoneApart DEF Signalled, th
      <3> HIDE DEF r
      <3>3. thread' \in [Threads -> ThreadRec]
        BY <3>1, <3>2, <1>1
      <3>4. \A t \in Threads : /\ thread'[t].st = th[t].st
                               /\ thread'[t].on = th[t].on
                               /\ thread'[t].flag = th[t].flag
        BY <2>2, <3>1, <3>2, <1>1
      <3> QED  BY <3>3, <3>4
    <2> QED  BY <2>1, <2>2
  <1> HIDE DEF th
  <1>3. Living' = Living
    BY <1>1, <1>2 DEF Living
  <1>4. Voices' = Voices \ {x}
    BY <1>1, <1>2, <1>3 DEF Voices, Living
  <1> QED  BY <1>1, <1>2, <1>3, <1>4

\* A thread that is spawned lives, speaks, and is the only one to change.
LEMMA Spawning ==
  ASSUME thread \in [Threads -> ThreadRec], NEW t \in Threads,
         NEW a \in Adapters \cup {None}, NEW unscoped \in BOOLEAN,
         thread' = Spawned(thread, t, a, unscoped)
  PROVE  /\ thread' \in [Threads -> ThreadRec]
         /\ Living' = Living \cup {t}
         /\ Voices' = Voices \cup {t}
         /\ thread'[t].on = a
         /\ \A u \in Threads \ {t} : thread'[u].on = thread[u].on
  <1> DEFINE new == [st |-> "starting", shutdown |-> FALSE, flag |-> TRUE,
                     on |-> a, forced |-> unscoped, rx |-> "none"]
  <1>1. new \in ThreadRec
    BY Zenon DEF ThreadRec
  <1>2. thread' = [thread EXCEPT ![t] = new]
    BY DEF Spawned
  <1>3. new.st = "starting" /\ new.flag = TRUE /\ new.on = a
    OBVIOUS
  <1> HIDE DEF new
  <1>4. /\ thread' \in [Threads -> ThreadRec]
        /\ thread'[t] = new
        /\ \A u \in Threads \ {t} : thread'[u] = thread[u]
    BY <1>1, <1>2
  <1>5. Living' = Living \cup {t}
    BY <1>3, <1>4 DEF Living
  <1>6. Voices' = Voices \cup {t}
    BY <1>3, <1>4, <1>5 DEF Voices, Living
  <1> QED  BY <1>3, <1>4, <1>5, <1>6

\* The watchdog's and the operation's records stay in their types.
LEMMA DogTouched ==
  ASSUME NEW d \in DogRec
  PROVE  /\ [d EXCEPT !.stop = TRUE] \in DogRec
         /\ [d EXCEPT !.fresh = TRUE] \in DogRec
         /\ [d EXCEPT !.pc = "polling", !.hand = None] \in DogRec
         /\ [d EXCEPT !.pc = "draining", !.hand = None] \in DogRec
         /\ [d EXCEPT !.pc = "window", !.quiet = 0] \in DogRec
  <1>1. 0 \in 0 .. MaxQuiet
    BY CaptureAssumption
  <1>2. [d EXCEPT !.stop = TRUE] \in DogRec
    BY Zenon DEF DogRec
  <1>3. [d EXCEPT !.fresh = TRUE] \in DogRec
    BY Zenon DEF DogRec
  <1>4. [d EXCEPT !.pc = "polling", !.hand = None] \in DogRec
    BY Zenon DEF DogRec
  <1>5. [d EXCEPT !.pc = "draining", !.hand = None] \in DogRec
    BY Zenon DEF DogRec
  <1>6. [d EXCEPT !.pc = "window", !.quiet = 0] \in DogRec
    BY <1>1, Zenon DEF DogRec
  <1> QED  BY <1>2, <1>3, <1>4, <1>5, <1>6

LEMMA OpTouched ==
  ASSUME NEW o \in OpRec,
         NEW p \in {"wait_dog", "stop_capture", "ensure", "drain",
                    "activating", "gate"}
  PROVE  /\ [o EXCEPT !.pc = p] \in OpRec
         /\ [o EXCEPT !.pc = p].pc = p
         /\ [o EXCEPT !.pc = p].on = o.on
         /\ [o EXCEPT !.pc = p].full = o.full
  <1>1. [o EXCEPT !.pc = p] \in OpRec
    BY Zenon DEF OpRec
  <1>2. /\ [o EXCEPT !.pc = p].pc = p
        /\ [o EXCEPT !.pc = p].on = o.on
        /\ [o EXCEPT !.pc = p].full = o.full
    BY DEF OpRec
  <1> QED  BY <1>1, <1>2

\* A watchdog that moves between its waits, or ends, with no join in hand.
LEMMA PlainDog ==
  ASSUME CaptureInv, dog.pc \in {"window", "activating", "polling"},
         dog' \in DogRec, dog'.hand = None,
         dog'.pc \in {"off", "window", "polling"},
         UNCHANGED <<thread, slot, parked, dropped, identity, signal, session,
                     op, selected, wire, count>>
  PROVE  CaptureInv'
  <1> USE DEF CaptureInv
  <1>0. dog.hand = None /\ Living' = Living /\ Voices' = Voices
    BY DEF Turns, Living, Voices
  <1>1. TypeOK'
    BY Types DEF TypeOK, DogRec
  <1>2. OneHand'
    BY <1>0 DEF OneHand, Held
  <1>3. Turns'
    BY DEF Turns
  <1>4. OneSpeaker'
    BY <1>0 DEF OneSpeaker
  <1>5. OnSelected'
    BY <1>0 DEF OnSelected
  <1> QED  BY <1>1, <1>2, <1>3, <1>4, <1>5

\* An operation that begins, moves on or returns, and may silence a thread.
LEMMA PlainOp ==
  ASSUME CaptureInv, NEW x \in Threads \cup {None},
         thread' = Signalled(Retired(thread, x), None),
         op' \in OpRec, op.pc # "activating",
         op'.pc \notin {"drain", "activating"},
         dog.pc # "off" => op'.pc \in {"idle", "stop_session", "wait_dog"},
         op'.pc = "gate" => identity.inc # None,
         op'.pc \in {"ensure", "gate"} => op'.on = selected,
         op'.pc \in {"stop_session", "wait_dog"} /\ ~op'.full =>
           op'.on = selected,
         count' \in [ops : 0 .. MaxOps, churn : 0 .. MaxChurn],
         UNCHANGED <<slot, parked, dropped, identity, signal, session, dog,
                     selected, wire>>
  PROVE  CaptureInv'
  <1> USE DEF CaptureInv
  <1>0. /\ thread' \in [Threads -> ThreadRec]
        /\ Living' = Living
        /\ Voices' = Voices \ {x}
        /\ \A t \in Threads : thread'[t].on = thread[t].on
    BY Teardown, Types
  <1>1. TypeOK'
    BY <1>0, Types DEF TypeOK, OpRec, ThreadRec
  <1>2. OneHand'
    BY <1>0 DEF OneHand, Held
  <1>3. Turns'
    BY DEF Turns, RestartLeft
  <1>4. OneSpeaker'
    BY <1>0 DEF OneSpeaker
  <1>5. OnSelected'
    BY <1>0 DEF OnSelected, Voices, Living
  <1> QED  BY <1>1, <1>2, <1>3, <1>4, <1>5

\* Withdrawing nothing and stopping nobody leaves the threads as they are.
LEMMA Untouched ==
  ASSUME UNCHANGED thread
  PROVE  thread' = Signalled(Retired(thread, None), None)
  BY DEF Signalled, Retired

-----------------------------------------------------------------------------
(***************************************************************************)
(* The capture threads and the wire                                        *)
(***************************************************************************)

LEMMA ThreadActivateInv ==
  ASSUME CaptureInv, NEW t \in Threads, ThreadActivate(t)
  PROVE  CaptureInv'
  <1> USE DEF CaptureInv, envVars
  <1>1. PICK o \in Opened(thread[t].forced) :
          thread' = [thread EXCEPT ![t].st = "active", ![t].rx = o]
    BY DEF ThreadActivate
  <1>2. o \in Outcomes /\ thread[t] \in ThreadRec /\ thread[t].st = "starting"
    BY <1>1, Types DEF Opened, Joined, Outcomes, ThreadActivate
  <1> DEFINE r == [thread[t] EXCEPT !.st = "active", !.rx = o]
  <1>3. r \in ThreadRec
    BY <1>2, Zenon DEF ThreadRec
  <1>4. r.st = "active" /\ r.flag = thread[t].flag /\ r.on = thread[t].on
    BY <1>2 DEF ThreadRec
  <1>5. thread' = [thread EXCEPT ![t] = r]
    BY <1>1, Types
  <1> HIDE DEF r
  <1>6. /\ thread' \in [Threads -> ThreadRec]
        /\ \A u \in Threads : /\ thread'[u].flag = thread[u].flag
                              /\ thread'[u].on = thread[u].on
    BY <1>3, <1>4, <1>5, Types
  <1>7. Living' = Living
    BY <1>2, <1>4, <1>5, Types DEF Living
  <1>8. Voices' = Voices
    BY <1>6, <1>7 DEF Voices, Living
  <1>9. UNCHANGED <<slot, parked, dropped, identity, signal, session, dog, op,
                    selected, wire, count>>
    BY DEF ThreadActivate
  <1>10. TypeOK'
    BY <1>6, <1>9 DEF TypeOK, ThreadRec
  <1>11. OneHand' /\ Turns'
    BY <1>7, <1>9 DEF OneHand, Held, Turns, RestartLeft
  <1>12. OneSpeaker' /\ OnSelected'
    BY <1>6, <1>8, <1>9 DEF OneSpeaker, OnSelected, Voices, Living
  <1> QED  BY <1>10, <1>11, <1>12

\* A thread that ends leaves every set it was in.
LEMMA ThreadGoes ==
  ASSUME CaptureInv, NEW t \in Threads, NEW r \in ThreadRec, r.st = "gone",
         thread' = [thread EXCEPT ![t] = r], dropped' = dropped \ {t},
         UNCHANGED <<slot, parked, identity, signal, session, dog, op,
                     selected, wire, count>>
  PROVE  CaptureInv'
  <1> USE DEF CaptureInv
  <1>1. /\ thread' \in [Threads -> ThreadRec]
        /\ Living' = Living \ {t}
        /\ \A u \in Threads \ {t} : thread'[u] = thread[u]
    BY Types DEF Living
  <1>2. Voices' = Voices \ {t}
    BY <1>1 DEF Voices, Living
  <1>3. TypeOK'
    BY <1>1 DEF TypeOK, ThreadRec
  <1>4. OneHand' /\ Turns'
    BY <1>1 DEF OneHand, Held, Turns, RestartLeft
  <1>5. OneSpeaker' /\ OnSelected'
    BY <1>1, <1>2 DEF OneSpeaker, OnSelected, Voices, Living
  <1> QED  BY <1>3, <1>4, <1>5

LEMMA ThreadFailInv ==
  ASSUME CaptureInv, NEW t \in Threads, ThreadFail(t)
  PROVE  CaptureInv'
  <1> DEFINE r == [NoThread EXCEPT !.flag = thread[t].flag, !.rx = "error"]
  <1>1. thread[t].flag \in BOOLEAN
    BY Types DEF CaptureInv, ThreadRec
  <1>2. r \in ThreadRec
    BY <1>1, NoThreadType, Zenon DEF ThreadRec
  <1>3. r.st = "gone"
    BY DEF NoThread
  <1> HIDE DEF r
  <1> QED  BY <1>2, <1>3, ThreadGoes DEF ThreadFail, envVars, r

LEMMA ThreadExitInv ==
  ASSUME CaptureInv, NEW t \in Threads, ThreadExit(t)
  PROVE  CaptureInv'
  <1> DEFINE r == [NoThread EXCEPT !.flag = thread[t].flag]
  <1>1. thread[t].flag \in BOOLEAN
    BY Types DEF CaptureInv, ThreadRec
  <1>2. r \in ThreadRec
    BY <1>1, NoThreadType, Zenon DEF ThreadRec
  <1>3. r.st = "gone"
    BY DEF NoThread
  <1> HIDE DEF r
  <1> QED  BY <1>2, <1>3, ThreadGoes DEF ThreadExit, envVars, r

LEMMA WireChangesInv ==
  ASSUME CaptureInv, WireChanges
  PROVE  CaptureInv'
  <1> USE DEF CaptureInv
  <1>1. UNCHANGED <<thread, slot, parked, dropped, identity, signal, session,
                    dog, op, selected>>
    BY DEF WireChanges
  <1>2. count' \in [ops : 0 .. MaxOps, churn : 0 .. MaxChurn]
    BY CaptureAssumption DEF WireChanges, TypeOK
  <1>3. wire' \in [up : BOOLEAN, source : {1, 2}]
    <2> DEFINE Wire == [up : BOOLEAN, source : {1, 2}]
    <2>1. wire \in Wire
      BY DEF TypeOK
    <2>2. 3 - wire.source \in {1, 2}
      BY <2>1
    <2>3. \A b \in BOOLEAN : [wire EXCEPT !.up = b] \in Wire
      BY <2>1, Zenon
    <2>4. \A s \in {1, 2} : [wire EXCEPT !.source = s] \in Wire
      BY <2>1
    <2>5. (~wire.up) \in BOOLEAN
      OBVIOUS
    <2>6. ASSUME wire' = [wire EXCEPT !.up = ~wire.up]  PROVE wire' \in Wire
      <3> HIDE DEF Wire
      <3> QED  BY <2>3, <2>5, <2>6, Zenon
    <2>7. CASE wire' = [wire EXCEPT !.source = 3 - wire.source]
      BY <2>2, <2>4, <2>7
    <2> QED  BY <2>6, <2>7 DEF WireChanges
  <1>4. TypeOK'
    BY <1>1, <1>2, <1>3 DEF TypeOK
  <1>5. OneHand' /\ Turns'
    BY <1>1 DEF OneHand, Held, Turns, RestartLeft, Living
  <1>6. OneSpeaker' /\ OnSelected'
    BY <1>1 DEF OneSpeaker, OnSelected, Voices, Living
  <1> QED  BY <1>4, <1>5, <1>6

-----------------------------------------------------------------------------
(***************************************************************************)
(* Lifecycle operations                                                    *)
(***************************************************************************)

LEMMA Counts ==
  ASSUME TypeOK, NEW o, Begin(o)
  PROVE  /\ op.pc = "idle" /\ op' = o
         /\ count' \in [ops : 0 .. MaxOps, churn : 0 .. MaxChurn]
  BY CaptureAssumption DEF Begin, TypeOK

LEMMA BeginStartInv ==
  ASSUME CaptureInv, NEW a \in Adapters \cup {None}, NEW preserve \in BOOLEAN,
         BeginStart(a, preserve)
  PROVE  CaptureInv'
  <1> DEFINE full == a # selected
             o == [pc |-> "stop_session", kind |-> "start", on |-> a,
                   up |-> wire.up, preserve |-> preserve, full |-> full]
  <1>1. /\ op.pc = "idle" /\ op' = o
        /\ count' \in [ops : 0 .. MaxOps, churn : 0 .. MaxChurn]
    BY Counts DEF BeginStart, CaptureInv
  <1>2. wire.up \in BOOLEAN /\ full \in BOOLEAN
    BY DEF CaptureInv, TypeOK
  <1>3. o.pc = "stop_session" /\ o.on = a /\ (o.full <=> a # selected)
    OBVIOUS
  <1>4. o \in OpRec
    <2> HIDE DEF full
    <2> QED  BY <1>2, Zenon DEF OpRec
  <1>5. PICK x \in Threads \cup {None} :
          thread' = Signalled(Retired(thread, x), None)
    BY Untouched, Types DEF BeginStart, Signalled, CaptureInv, IdentityRec
  <1>6. UNCHANGED <<slot, parked, dropped, identity, signal, session, dog,
                    selected, wire>>
    BY DEF BeginStart
  <1> HIDE DEF o
  <1> QED  BY <1>1, <1>3, <1>4, <1>5, <1>6, PlainOp

LEMMA BeginResumeInv ==
  ASSUME CaptureInv, BeginResume
  PROVE  CaptureInv'
  <1> DEFINE o == [pc |-> "stop_session", kind |-> "resume", on |-> selected,
                   up |-> wire.up, preserve |-> TRUE, full |-> FALSE]
  <1>1. /\ op.pc = "idle" /\ op' = o
        /\ count' \in [ops : 0 .. MaxOps, churn : 0 .. MaxChurn]
    BY Counts DEF BeginResume, CaptureInv
  <1>2. wire.up \in BOOLEAN /\ selected \in Adapters \cup {None}
    BY DEF CaptureInv, TypeOK
  <1>3. o.pc = "stop_session" /\ o.on = selected
    OBVIOUS
  <1>4. o \in OpRec
    BY <1>2, Zenon DEF OpRec
  <1>5. UNCHANGED <<thread, slot, parked, dropped, identity, signal, session,
                    dog, selected, wire>>
    BY DEF BeginResume
  <1> HIDE DEF o
  <1> QED  BY <1>1, <1>3, <1>4, <1>5, Untouched, PlainOp

LEMMA BeginStopInv ==
  ASSUME CaptureInv, BeginStop
  PROVE  CaptureInv'
  <1> DEFINE o == [NoOp EXCEPT !.pc = "stop_session", !.kind = "stop",
                               !.on = selected, !.full = TRUE]
  <1>1. /\ op.pc = "idle" /\ op' = o
        /\ count' \in [ops : 0 .. MaxOps, churn : 0 .. MaxChurn]
    BY Counts DEF BeginStop, CaptureInv
  <1>2. selected \in Adapters \cup {None}
    BY DEF CaptureInv, TypeOK
  <1>3. o.pc = "stop_session" /\ o.on = selected
    BY DEF NoOp
  <1>4. o \in OpRec
    BY <1>2, NoOpType, Zenon DEF OpRec
  <1>5. UNCHANGED <<thread, slot, parked, dropped, identity, signal, session,
                    dog, selected, wire>>
    BY DEF BeginStop
  <1> HIDE DEF o
  <1> QED  BY <1>1, <1>3, <1>4, <1>5, Untouched, PlainOp

LEMMA AfterSessionPlace ==
  ASSUME CaptureInv, op.pc \in {"stop_session", "wait_dog"}
  PROVE  /\ AfterSession \in {"stop_capture", "ensure"}
         /\ AfterSession = "ensure" => op.on = selected
  BY DEF AfterSession, CaptureInv, OnSelected

LEMMA StopSessionInv ==
  ASSUME CaptureInv, StopSession
  PROVE  CaptureInv'
  <1> USE DEF CaptureInv
  <1>1. /\ op.pc = "stop_session" /\ session' = FALSE
        /\ UNCHANGED <<thread, slot, parked, dropped, identity, signal,
                       selected, wire, count>>
    BY DEF StopSession, envVars
  <1>2. PICK p \in {"wait_dog", "stop_capture", "ensure"} :
          /\ op' = [op EXCEPT !.pc = p]
          /\ p # "wait_dog" => dog.pc = "off"
          /\ p = "ensure" => op.on = selected
    BY <1>1, AfterSessionPlace DEF StopSession
  <1>3. op' \in OpRec /\ op'.pc = p /\ op'.on = op.on /\ op'.full = op.full
    <2>1. op \in OpRec
      BY Types
    <2>2. p \in {"wait_dog", "stop_capture", "ensure", "drain", "activating",
                  "gate"}
      OBVIOUS
    <2> QED  BY <1>2, <2>1, <2>2, OpTouched, Zenon
  <1>4. /\ dog' \in DogRec /\ dog'.pc = dog.pc /\ dog'.hand = dog.hand
        /\ dog'.used = dog.used
    <2>1. dog \in DogRec
      BY Types
    <2>2. CASE dog' = dog
      BY <2>1, <2>2
    <2>3. CASE dog' = [dog EXCEPT !.stop = TRUE]
      <3>1. dog' \in DogRec
        BY <2>1, <2>3, DogTouched
      <3>2. /\ dog'.pc = dog.pc /\ dog'.hand = dog.hand
            /\ dog'.used = dog.used
        BY <2>1, <2>3 DEF DogRec
      <3> QED  BY <3>1, <3>2
    <2> QED  BY <2>2, <2>3 DEF StopSession
  <1>5. Living' = Living /\ Voices' = Voices
    BY <1>1 DEF Living, Voices
  <1>6. TypeOK'
    <2>1. /\ thread' \in [Threads -> ThreadRec]
          /\ slot' \in Threads \cup {None}
          /\ parked' \subseteq Threads /\ dropped' \subseteq Threads
          /\ identity' \in IdentityRec /\ signal' \in SignalRec
          /\ session' \in BOOLEAN
      BY <1>1, Types
    <2>2. /\ selected' \in Adapters \cup {None}
          /\ wire' \in [up : BOOLEAN, source : {1, 2}]
          /\ count' \in [ops : 0 .. MaxOps, churn : 0 .. MaxChurn]
      BY <1>1, Types
    <2> QED  BY <2>1, <2>2, <1>3, <1>4, Zenon
             DEF TypeOK, ThreadRec, DogRec, OpRec, IdentityRec, SignalRec
  <1>7. OneHand'
    BY <1>1, <1>4, <1>5 DEF OneHand, Held
  <1>8. Turns'
    BY <1>1, <1>2, <1>3, <1>4 DEF Turns, RestartLeft
  <1>9. OneSpeaker' /\ OnSelected'
    BY <1>1, <1>2, <1>3, <1>4, <1>5 DEF OneSpeaker, OnSelected
  <1> QED  BY <1>6, <1>7, <1>8, <1>9

LEMMA DogStoppedInv ==
  ASSUME CaptureInv, DogStopped
  PROVE  CaptureInv'
  <1>1. /\ op.pc = "wait_dog" /\ dog.pc = "off"
        /\ op' = [op EXCEPT !.pc = AfterSession]
        /\ UNCHANGED <<thread, slot, parked, dropped, identity, signal,
                       session, dog, selected, wire, count>>
    BY DEF DogStopped, envVars
  <1>2. /\ op' \in OpRec /\ op'.pc \in {"stop_capture", "ensure"}
        /\ op'.pc = "ensure" => op'.on = selected
    <2>1. op \in OpRec
      BY Types DEF CaptureInv
    <2>2. /\ AfterSession \in {"stop_capture", "ensure"}
          /\ AfterSession = "ensure" => op.on = selected
      BY <1>1, AfterSessionPlace
    <2>3. AfterSession \in {"wait_dog", "stop_capture", "ensure", "drain",
                            "activating", "gate"}
      BY <2>2
    <2>4. /\ op' \in OpRec /\ op'.pc = AfterSession /\ op'.on = op.on
      BY <1>1, <2>1, <2>3, OpTouched, Zenon
    <2> QED  BY <2>2, <2>4
  <1> QED  BY <1>1, <1>2, Untouched, PlainOp, Types DEF CaptureInv

LEMMA DogAbortedInv ==
  ASSUME CaptureInv, DogAborted
  PROVE  CaptureInv'
  <1> USE DEF CaptureInv
  <1>1. /\ op.pc = "wait_dog" /\ dog.pc \in {"joining", "draining"}
        /\ dropped' = dropped \cup ({dog.hand} \cap Living)
        /\ dog' = NoDog /\ op' = [op EXCEPT !.pc = AfterSession]
        /\ UNCHANGED <<thread, slot, parked, identity, signal, session,
                       selected, wire, count>>
    BY DEF DogAborted, envVars
  <1>2. /\ op' \in OpRec /\ op'.pc \in {"stop_capture", "ensure"}
        /\ op'.pc = "ensure" => op'.on = selected
    <2>1. op \in OpRec
      BY Types
    <2>2. /\ AfterSession \in {"stop_capture", "ensure"}
          /\ AfterSession = "ensure" => op.on = selected
      BY <1>1, AfterSessionPlace
    <2>3. AfterSession \in {"wait_dog", "stop_capture", "ensure", "drain",
                            "activating", "gate"}
      BY <2>2
    <2>4. /\ op' \in OpRec /\ op'.pc = AfterSession /\ op'.on = op.on
      BY <1>1, <2>1, <2>3, OpTouched, Zenon
    <2> QED  BY <2>2, <2>4
  <1>3. slot = None /\ parked = {} /\ Living' = Living /\ Voices' = Voices
    BY <1>1 DEF Turns, Living, Voices
  <1>4. TypeOK'
    BY <1>1, <1>2, NoDogType DEF TypeOK, DogRec, OpRec, Living
  <1>5. OneHand'
    BY <1>1, <1>3, NoDogType DEF OneHand, Held
  <1>6. Turns'
    BY <1>1, <1>2, NoDogType DEF Turns
  <1>7. OneSpeaker' /\ OnSelected'
    BY <1>1, <1>2, <1>3, NoDogType DEF OneSpeaker, OnSelected
  <1> QED  BY <1>4, <1>5, <1>6, <1>7

\* The slot is emptied by an operation: its handle is parked, its incarnation
\* retired and nothing published any more.
LEMMA SlotEmptied ==
  ASSUME CaptureInv, NEW a \in Adapters \cup {None},
         op.pc \in {"stop_capture", "ensure"},
         thread' = Signalled(Retired(thread, identity.inc), slot),
         identity' = NoIdentity,
         signal' = [signal EXCEPT !.active = FALSE],
         parked' = Parked, slot' = None, selected' = a,
         op' \in OpRec, op'.pc \in {"idle", "ensure", "drain"},
         op'.pc # "idle" => op'.on = a,
         UNCHANGED <<dropped, session, dog, wire, count>>
  PROVE  CaptureInv'
  <1> USE DEF CaptureInv
  <1>1. /\ identity.inc \in Threads \cup {None} /\ slot \in Threads \cup {None}
        /\ thread \in [Threads -> ThreadRec] /\ signal \in SignalRec
    BY Types DEF IdentityRec
  <1>2. /\ thread' \in [Threads -> ThreadRec] /\ Living' = Living
        /\ Voices' = Voices \ {identity.inc}
    BY <1>1, Teardown
  <1>3. dog.pc = "off" /\ dog.hand = None
    BY DEF Turns
  <1>4. Voices' = {}
    BY <1>2 DEF OneSpeaker
  <1>5. signal' \in SignalRec
    BY <1>1, Zenon DEF SignalRec
  <1>6. NoIdentity \in IdentityRec
    BY DEF NoIdentity, IdentityRec
  <1>7. TypeOK'
    BY <1>2, <1>5, <1>6 DEF TypeOK, OpRec, ThreadRec, SignalRec, IdentityRec,
       Parked
  <1>8. OneHand'
    BY <1>2, <1>3 DEF OneHand, Held, Parked
  <1>9. Turns'
    BY <1>3 DEF Turns
  <1>10. OneSpeaker' /\ OnSelected'
    BY <1>3, <1>4 DEF OneSpeaker, OnSelected, NoIdentity
  <1> QED  BY <1>7, <1>8, <1>9, <1>10

LEMMA StopCaptureInv ==
  ASSUME CaptureInv, StopCapture
  PROVE  CaptureInv'
  <1>1. op \in OpRec /\ op.on \in Adapters \cup {None}
    BY Types DEF CaptureInv, OpRec
  <1>2. /\ op' \in OpRec /\ op'.pc \in {"idle", "ensure"}
        /\ op'.pc # "idle" => op'.on = op.on
    BY <1>1, OpTouched, NoOpType DEF StopCapture
  <1> QED  BY <1>1, <1>2, SlotEmptied DEF StopCapture, envVars

LEMMA EnsureReplaceInv ==
  ASSUME CaptureInv, EnsureReplace
  PROVE  CaptureInv'
  <1>1. /\ op \in OpRec /\ selected \in Adapters \cup {None}
        /\ op.on = selected
    BY Types DEF CaptureInv, OnSelected, EnsureReplace
  <1>2. op' \in OpRec /\ op'.pc = "drain" /\ op'.on = op.on
    BY <1>1, OpTouched DEF EnsureReplace
  <1>3. /\ op.pc = "ensure"
        /\ thread' = Signalled(Retired(thread, identity.inc), slot)
        /\ identity' = NoIdentity
        /\ signal' = [signal EXCEPT !.active = FALSE]
        /\ parked' = Parked /\ slot' = None /\ selected' = selected
        /\ UNCHANGED <<dropped, session, dog, wire, count>>
    BY DEF EnsureReplace, envVars
  <1> QED  BY <1>1, <1>2, <1>3, SlotEmptied

LEMMA StartRefusedInv ==
  ASSUME CaptureInv, StartRefused
  PROVE  CaptureInv'
  <1>1. /\ op.pc = "ensure" /\ op' = NoOp
        /\ UNCHANGED <<thread, slot, parked, dropped, identity, signal,
                       session, dog, selected, wire, count>>
    BY DEF StartRefused, envVars
  <1> QED  BY <1>1, NoOpType, Untouched, PlainOp, Types DEF CaptureInv

LEMMA EnsureKeepInv ==
  ASSUME CaptureInv, EnsureKeep
  PROVE  CaptureInv'
  <1>1. /\ op.pc = "ensure" /\ op' = [op EXCEPT !.pc = "gate"]
        /\ identity.inc # None
        /\ UNCHANGED <<thread, slot, parked, dropped, identity, signal,
                       session, dog, selected, wire, count>>
    BY DEF EnsureKeep, Keeps, envVars
  <1>2. op' \in OpRec /\ op'.pc = "gate" /\ op'.on = op.on
    BY <1>1, OpTouched, Types DEF CaptureInv
  <1>3. dog.pc = "off" /\ op.on = selected
    BY <1>1 DEF CaptureInv, Turns, OnSelected
  <1> QED  BY <1>1, <1>2, <1>3, Untouched, PlainOp, Types DEF CaptureInv

LEMMA GateDownInv ==
  ASSUME CaptureInv, GateDown
  PROVE  CaptureInv'
  <1>1. /\ op.pc = "gate" /\ op' = NoOp
        /\ UNCHANGED <<thread, slot, parked, dropped, identity, signal,
                       session, dog, selected, wire, count>>
    BY DEF GateDown, envVars
  <1> QED  BY <1>1, NoOpType, Untouched, PlainOp, Types DEF CaptureInv

LEMMA FreshThread ==
  ASSUME NEW t \in Fresh
  PROVE  t \in Threads \ Living /\ t # identity.inc
  BY DEF Fresh

LEMMA EnsureStartInv ==
  ASSUME CaptureInv, EnsureStart
  PROVE  CaptureInv'
  <1> USE DEF CaptureInv
  <1>1. PICK t \in Fresh : thread' = Spawned(thread, t, op.on, FALSE) /\ slot' = t
    BY DEF EnsureStart
  <1>2. /\ op.pc = "drain" /\ parked \cap Living = {} /\ parked' = {}
        /\ op' = [op EXCEPT !.pc = "activating"]
        /\ UNCHANGED <<dropped, identity, signal, session, dog, selected, wire,
                       count>>
    BY DEF EnsureStart, Drained, envVars
  <1>3. t \in Threads \ Living /\ t # None
    BY FreshThread, NoneApart
  <1>4. op \in OpRec /\ op.on \in Adapters \cup {None}
    BY Types DEF OpRec
  <1>5. op' \in OpRec /\ op'.pc = "activating" /\ op'.on = op.on
    BY <1>2, <1>4, OpTouched
  <1>6. /\ thread' \in [Threads -> ThreadRec]
        /\ Living' = Living \cup {t}
        /\ Voices' = Voices \cup {t}
        /\ thread'[t].on = op.on
    BY <1>1, <1>3, <1>4, Spawning, Types
  <1>7. /\ dog.pc = "off" /\ dog.hand = None /\ slot = None
        /\ identity = NoIdentity /\ op.on = selected
    BY <1>2 DEF Turns, OneSpeaker, OnSelected
  <1>8. Living \ dropped = {}
    BY <1>2, <1>7 DEF OneHand, Held
  <1>9. Voices = {}
    BY <1>2, <1>7, NoneApart DEF OneSpeaker, NoIdentity, Voices, Living
  <1>10. TypeOK'
    <2>1. /\ thread' \in [Threads -> ThreadRec] /\ op' \in OpRec
          /\ slot' \in Threads \cup {None} /\ parked' \subseteq Threads
      BY <1>1, <1>2, <1>3, <1>5, <1>6
    <2> QED  BY <2>1, <1>2 DEF TypeOK, ThreadRec, OpRec
  <1>11. OneHand'
    BY <1>1, <1>2, <1>3, <1>6, <1>7, <1>8 DEF OneHand, Held
  <1>12. Turns'
    BY <1>1, <1>2, <1>3, <1>5, <1>7 DEF Turns
  <1>13. OneSpeaker' /\ OnSelected'
    BY <1>1, <1>2, <1>5, <1>6, <1>7, <1>9 DEF OneSpeaker, OnSelected, NoIdentity
  <1> QED  BY <1>10, <1>11, <1>12, <1>13

LEMMA EnsureDrainTimeoutInv ==
  ASSUME CaptureInv, EnsureDrainTimeout
  PROVE  CaptureInv'
  <1> USE DEF CaptureInv
  <1>1. /\ op.pc = "drain" /\ parked' = parked \cap Living /\ op' = NoOp
        /\ UNCHANGED <<thread, slot, dropped, identity, signal, session, dog,
                       selected, wire, count>>
    BY DEF EnsureDrainTimeout, envVars
  <1>2. dog.pc = "off" /\ Living' = Living /\ Voices' = Voices
    BY <1>1 DEF Turns, Living, Voices
  <1>3. TypeOK'
    BY <1>1, NoOpType DEF TypeOK, OpRec
  <1>4. OneHand'
    BY <1>1, <1>2 DEF OneHand, Held
  <1>5. Turns'
    BY <1>1, <1>2, NoOpType DEF Turns
  <1>6. OneSpeaker' /\ OnSelected'
    BY <1>1, <1>2, NoOpType DEF OneSpeaker, OnSelected
  <1> QED  BY <1>3, <1>4, <1>5, <1>6

\* The source id an outcome carries is one of the two, or none.
LEMMA SourceType ==
  ASSUME TypeOK, NEW o
  PROVE  SourceOf(o) \in {None, 1, 2}
  BY DEF TypeOK, SourceOf

LEMMA EnsureActivatedInv ==
  ASSUME CaptureInv, EnsureActivated
  PROVE  CaptureInv'
  <1> USE DEF CaptureInv
  <1> DEFINE o == thread[slot].rx
             src == SourceOf(o)
  <1>1. /\ op.pc = "activating" /\ o \in Outcomes
        /\ identity' = [on |-> op.on, source |-> src, inc |-> slot]
        /\ signal' = [active |-> TRUE, outcome |-> o]
        /\ op' = [op EXCEPT !.pc = "gate"]
        /\ UNCHANGED <<thread, slot, parked, dropped, session, dog, selected,
                       wire, count>>
    BY DEF EnsureActivated, envVars
  <1>2. src \in {None, 1, 2}
    BY SourceType
  <1> HIDE DEF src, o
  <1>3. op \in OpRec /\ op.on \in Adapters \cup {None} /\ op.on = selected
    BY <1>1, Types DEF OpRec, OnSelected
  <1>4. op' \in OpRec /\ op'.pc = "gate" /\ op'.on = op.on
    BY <1>1, <1>3, OpTouched
  <1>5. /\ dog.pc = "off" /\ slot # None /\ identity.inc = None
        /\ Living' = Living /\ Voices' = Voices /\ slot \in Threads
    BY <1>1, Types DEF Turns, OneSpeaker, NoIdentity, Living, Voices
  <1>6. identity' \in IdentityRec /\ signal' \in SignalRec
    <2>1. slot \in Threads \cup {None} /\ o \in Outcomes \cup {None}
      BY <1>1, <1>5
    <2>2. identity' \in IdentityRec
      BY <1>1, <1>2, <1>3, <2>1, Zenon DEF IdentityRec
    <2>3. signal' \in SignalRec
      BY <1>1, <2>1, Zenon DEF SignalRec
    <2> QED  BY <2>2, <2>3
  <1>7. identity'.inc = slot /\ identity'.on = selected
    BY <1>1, <1>3
  <1>8. TypeOK'
    BY <1>1, <1>4, <1>6 DEF TypeOK, IdentityRec, SignalRec, OpRec
  <1>9. OneHand'
    BY <1>1, <1>5 DEF OneHand, Held
  <1>10. Turns'
    BY <1>1, <1>4, <1>5 DEF Turns
  <1>11. \A t \in Voices : t = slot
    BY <1>1, <1>5, NoneApart DEF OneSpeaker, Voices, Living
  <1>12. OneSpeaker' /\ OnSelected'
    BY <1>1, <1>3, <1>4, <1>5, <1>7, <1>11 DEF OneSpeaker, OnSelected
  <1> QED  BY <1>8, <1>9, <1>10, <1>12

LEMMA EnsureAbandonedInv ==
  ASSUME CaptureInv, EnsureAbandoned
  PROVE  CaptureInv'
  <1> USE DEF CaptureInv
  <1>1. /\ op.pc = "activating"
        /\ thread' = Signalled(Retired(thread, slot), slot)
        /\ parked' = Parked /\ slot' = None /\ op' = NoOp
        /\ UNCHANGED <<dropped, identity, signal, session, dog, selected, wire,
                       count>>
    BY DEF EnsureAbandoned, envVars
  <1>2. slot \in Threads \cup {None} /\ thread \in [Threads -> ThreadRec]
    BY Types
  <1>3. /\ thread' \in [Threads -> ThreadRec] /\ Living' = Living
        /\ Voices' = Voices \ {slot}
    BY <1>1, <1>2, Teardown
  <1>4. dog.pc = "off" /\ dog.hand = None /\ identity.inc = None
    BY <1>1 DEF Turns, OneSpeaker, NoIdentity
  <1>5. Voices' = {}
    BY <1>3, <1>4, NoneApart DEF OneSpeaker, Voices, Living
  <1>6. TypeOK'
    BY <1>1, <1>2, <1>3, NoOpType DEF TypeOK, OpRec, ThreadRec, Parked
  <1>7. OneHand'
    BY <1>1, <1>3, <1>4 DEF OneHand, Held, Parked
  <1>8. Turns'
    BY <1>1, <1>4, NoOpType DEF Turns
  <1>9. OneSpeaker' /\ OnSelected'
    BY <1>1, <1>4, <1>5, NoOpType DEF OneSpeaker, OnSelected
  <1> QED  BY <1>6, <1>7, <1>8, <1>9

LEMMA GateInv ==
  ASSUME CaptureInv, Gate
  PROVE  CaptureInv'
  <1> USE DEF CaptureInv
  <1>1. /\ op.pc = "gate" /\ session' = TRUE /\ op' = NoOp
        /\ dog' = [NoDog EXCEPT !.pc = "window"]
        /\ UNCHANGED <<thread, slot, parked, dropped, identity, signal,
                       selected, wire, count>>
    BY DEF Gate, envVars
  <1>2. dog' \in DogRec
    BY <1>1, NoDogType, Zenon DEF DogRec
  <1>3. dog'.pc = "window" /\ dog'.hand = None
    BY <1>1 DEF NoDog
  <1>4. /\ dog.pc = "off" /\ dog.hand = None /\ identity.inc # None
        /\ Living' = Living /\ Voices' = Voices
    BY <1>1 DEF Turns, OneSpeaker, Living, Voices
  <1>5. TypeOK'
    BY <1>1, <1>2, NoOpType DEF TypeOK, DogRec, OpRec
  <1>6. OneHand'
    BY <1>1, <1>3, <1>4 DEF OneHand, Held
  <1>7. Turns'
    BY <1>1, <1>3, NoOpType DEF Turns
  <1>8. OneSpeaker' /\ OnSelected'
    BY <1>1, <1>3, <1>4, NoOpType DEF OneSpeaker, OnSelected
  <1> QED  BY <1>5, <1>6, <1>7, <1>8

-----------------------------------------------------------------------------
(***************************************************************************)
(* The watchdog                                                            *)
(***************************************************************************)

LEMMA ExhaustedType ==
  ASSUME TypeOK, NEW s
  PROVE  /\ Exhausted(s) \in DogRec /\ Exhausted(s).hand = None
         /\ Exhausted(s).pc \in {"off", "polling"}
  <1>1. dog \in DogRec
    BY Types
  <1> DEFINE d == [dog EXCEPT !.pc = "polling", !.hand = None]
  <1>2. d \in DogRec
    BY <1>1, DogTouched
  <1>3. d.hand = None /\ d.pc = "polling"
    BY <1>1 DEF DogRec
  <1>4. Exhausted(s) = NoDog \/ Exhausted(s) = d
    BY DEF Exhausted
  <1> QED  BY <1>2, <1>3, <1>4, NoDogType

\* The waits that end, hold or give up without touching the session.
LEMMA WaitsInv ==
  ASSUME CaptureInv,
         \/ DogEnds \/ WindowHealthy \/ WindowQuietEnds \/ PollEnds
         \/ LadderExhausted \/ RestartFailed
  PROVE  CaptureInv'
  <1>1. /\ dog.pc \in {"window", "activating", "polling"}
        /\ dog' = NoDog \/ dog' = Exhausted(slot)
        /\ UNCHANGED <<thread, slot, parked, dropped, identity, signal, session,
                       op, selected, wire, count>>
    BY DEF DogEnds, WindowHealthy, WindowQuietEnds, PollEnds, LadderExhausted,
       RestartFailed, WindowDead, Window, envVars
  <1>2. /\ dog' \in DogRec /\ dog'.hand = None
        /\ dog'.pc \in {"off", "polling"}
    BY <1>1, NoDogType, ExhaustedType DEF CaptureInv
  <1> QED  BY <1>1, <1>2, PlainDog

LEMMA SolicitInv ==
  ASSUME CaptureInv, Solicit
  PROVE  CaptureInv'
  <1>1. /\ dog.pc = "window" /\ dog' = [dog EXCEPT !.fresh = TRUE]
        /\ UNCHANGED <<thread, slot, parked, dropped, identity, signal, session,
                       op, selected, wire, count>>
    BY DEF Solicit, envVars
  <1>2. dog \in DogRec /\ dog.hand = None
    BY <1>1, Types DEF CaptureInv, Turns
  <1>3. dog' \in DogRec
    BY <1>1, <1>2, DogTouched
  <1>4. dog'.hand = None /\ dog'.pc = "window"
    BY <1>1, <1>2 DEF DogRec
  <1> QED  BY <1>1, <1>3, <1>4, PlainDog

LEMMA WindowQuietInv ==
  ASSUME CaptureInv, WindowQuiet
  PROVE  CaptureInv'
  <1> DEFINE q == dog.quiet + 1
  <1>1. /\ dog.pc = "window" /\ ~(q >= MaxQuiet)
        /\ dog' = [dog EXCEPT !.quiet = q, !.fresh = FALSE]
        /\ UNCHANGED <<thread, slot, parked, dropped, identity, signal, session,
                       op, selected, wire, count>>
    BY DEF WindowQuiet, Window, HoldExpires, envVars
  <1>2. dog \in DogRec /\ dog.hand = None
    BY <1>1, Types DEF CaptureInv, Turns
  <1>3. q \in 0 .. MaxQuiet
    BY <1>1, <1>2, CaptureAssumption DEF DogRec
  <1> HIDE DEF q
  <1>4. dog' \in DogRec
    BY <1>1, <1>2, <1>3, Zenon DEF DogRec
  <1>5. dog'.hand = None /\ dog'.pc = "window"
    BY <1>1, <1>2 DEF DogRec
  <1> QED  BY <1>1, <1>4, <1>5, PlainDog

LEMMA RestartTeardownInv ==
  ASSUME CaptureInv, RestartTeardown
  PROVE  CaptureInv'
  <1> USE DEF CaptureInv
  <1>1. /\ dog.pc = "window" /\ slot # None /\ RestartLeft
        /\ thread' = Signalled(Retired(thread, identity.inc), slot)
        /\ signal' = [signal EXCEPT !.active = FALSE]
        /\ dog' = [dog EXCEPT !.pc = "joining", !.hand = slot, !.quiet = 0,
                              !.fresh = FALSE]
        /\ slot' = None
        /\ UNCHANGED <<parked, dropped, identity, session, op, selected, wire,
                       count>>
    BY DEF RestartTeardown, WindowDead, Window, envVars
  <1>2. /\ dog \in DogRec /\ identity.inc \in Threads \cup {None}
        /\ slot \in Threads \cup {None} /\ thread \in [Threads -> ThreadRec]
        /\ signal \in SignalRec /\ 0 \in 0 .. MaxQuiet
    BY Types, CaptureAssumption DEF IdentityRec
  <1>3. /\ thread' \in [Threads -> ThreadRec] /\ Living' = Living
        /\ Voices' = Voices \ {identity.inc}
    BY <1>1, <1>2, Teardown
  <1>4. dog' \in DogRec
    BY <1>1, <1>2, Zenon DEF DogRec
  <1>5. dog'.pc = "joining" /\ dog'.hand = slot /\ dog'.used = dog.used
    BY <1>1, <1>2 DEF DogRec
  <1>6. signal' \in SignalRec
    BY <1>1, <1>2, Zenon DEF SignalRec
  <1>7. op.pc # "activating" /\ dog.hand = None /\ parked = {}
    BY <1>1 DEF Turns, OneHand
  <1>8. Voices' = {}
    BY <1>3, <1>7 DEF OneSpeaker
  <1>9. TypeOK'
    BY <1>1, <1>3, <1>4, <1>6 DEF TypeOK, ThreadRec, DogRec, SignalRec
  <1>10. OneHand'
    BY <1>1, <1>3, <1>5, <1>7 DEF OneHand, Held
  <1>11. Turns'
    BY <1>1, <1>5, <1>7 DEF Turns, RestartLeft
  <1>12. OneSpeaker' /\ OnSelected'
    BY <1>1, <1>5, <1>8 DEF OneSpeaker, OnSelected
  <1> QED  BY <1>9, <1>10, <1>11, <1>12

LEMMA RestartJoinedInv ==
  ASSUME CaptureInv, RestartJoined
  PROVE  CaptureInv'
  <1> USE DEF CaptureInv
  <1>1. /\ dog.pc = "joining" /\ dog.hand \notin Living
        /\ dog' = [dog EXCEPT !.pc = "draining", !.hand = None]
        /\ UNCHANGED <<thread, slot, parked, dropped, identity, signal, session,
                       op, selected, wire, count>>
    BY DEF RestartJoined, envVars
  <1>2. dog \in DogRec
    BY Types
  <1>3. dog' \in DogRec
    BY <1>1, <1>2, DogTouched
  <1>4. dog'.pc = "draining" /\ dog'.hand = None /\ dog'.used = dog.used
    BY <1>1, <1>2 DEF DogRec
  <1>5. Living' = Living /\ Voices' = Voices
    BY <1>1 DEF Living, Voices
  <1>6. TypeOK'
    BY <1>1, <1>3 DEF TypeOK, DogRec
  <1>7. OneHand'
    BY <1>1, <1>4, <1>5 DEF OneHand, Held
  <1>8. Turns'
    BY <1>1, <1>4 DEF Turns, RestartLeft
  <1>9. OneSpeaker' /\ OnSelected'
    BY <1>1, <1>4, <1>5 DEF OneSpeaker, OnSelected
  <1> QED  BY <1>6, <1>7, <1>8, <1>9

LEMMA RestartJoinTimeoutInv ==
  ASSUME CaptureInv, RestartJoinTimeout
  PROVE  CaptureInv'
  <1> USE DEF CaptureInv
  <1>1. /\ dog.pc = "joining" /\ dog.hand \in Living
        /\ parked' = parked \cup {dog.hand} /\ dog' = Exhausted(slot)
        /\ UNCHANGED <<thread, slot, dropped, identity, signal, session, op,
                       selected, wire, count>>
    BY DEF RestartJoinTimeout, envVars
  <1>2. slot = None /\ parked = {} /\ Living' = Living /\ Voices' = Voices
    BY <1>1 DEF Turns, Living, Voices
  <1>3. /\ dog' \in DogRec /\ dog'.hand = None /\ dog'.pc = "off"
    BY <1>1, <1>2, NoDogType DEF Exhausted
  <1>4. TypeOK'
    BY <1>1, <1>3 DEF TypeOK, DogRec, Living
  <1>5. OneHand'
    BY <1>1, <1>2, <1>3 DEF OneHand, Held
  <1>6. Turns'
    BY <1>1, <1>3 DEF Turns
  <1>7. OneSpeaker' /\ OnSelected'
    BY <1>1, <1>2, <1>3 DEF OneSpeaker, OnSelected
  <1> QED  BY <1>4, <1>5, <1>6, <1>7

LEMMA RestartUnconfirmedInv ==
  ASSUME CaptureInv, RestartUnconfirmed
  PROVE  CaptureInv'
  <1> USE DEF CaptureInv
  <1>1. /\ dog.pc = "activating" /\ thread' = Signalled(thread, slot)
        /\ parked' = Parked /\ slot' = None /\ dog' = NoDog
        /\ UNCHANGED <<dropped, identity, signal, session, op, selected, wire,
                       count>>
    BY DEF RestartUnconfirmed, envVars
  <1>2. /\ slot \in Threads \cup {None} /\ thread \in [Threads -> ThreadRec]
        /\ thread' = Signalled(Retired(thread, None), slot)
    BY <1>1, Types DEF Retired
  <1>3. /\ thread' \in [Threads -> ThreadRec] /\ Living' = Living
        /\ Voices' = Voices \ {None}
        /\ \A t \in Threads : thread'[t].on = thread[t].on
    BY <1>2, Teardown
  <1>4. op.pc # "activating" /\ dog.hand = None
    BY <1>1 DEF Turns
  <1>5. TypeOK'
    BY <1>1, <1>2, <1>3, NoDogType DEF TypeOK, ThreadRec, DogRec, Parked
  <1>6. OneHand'
    BY <1>1, <1>3, <1>4, NoDogType DEF OneHand, Held, Parked
  <1>7. Turns'
    BY <1>1, <1>4, NoDogType DEF Turns
  <1>8. OneSpeaker'
    BY <1>1, <1>3, <1>4, NoDogType DEF OneSpeaker
  <1>9. OnSelected'
    BY <1>1, <1>3 DEF OnSelected, Voices, Living
  <1> QED  BY <1>5, <1>6, <1>7, <1>8, <1>9

LEMMA RestartActivatedInv ==
  ASSUME CaptureInv, RestartActivated
  PROVE  CaptureInv'
  <1> USE DEF CaptureInv
  <1> DEFINE o == thread[slot].rx
             src == SourceOf(o)
  <1>1. /\ dog.pc = "activating" /\ o \in Outcomes
        /\ UNCHANGED <<thread, slot, parked, dropped, session, op, selected,
                       wire, count>>
    BY DEF RestartActivated, envVars
  <1>2. /\ src \in {None, 1, 2} /\ dog \in DogRec /\ identity \in IdentityRec
        /\ signal \in SignalRec /\ dog.hand = None
    BY <1>1, SourceType, Types DEF Turns
  <1>3. /\ dog' \in DogRec /\ dog'.hand = None /\ dog'.pc \in {"off", "window"}
        /\ identity' \in IdentityRec /\ signal' \in SignalRec
        /\ identity'.inc = identity.inc /\ identity'.on = identity.on
    <2>1. CASE session
      <3>1. /\ identity' = [identity EXCEPT !.source = src]
            /\ signal' = [active |-> TRUE, outcome |-> o]
            /\ dog' = [dog EXCEPT !.pc = "window", !.quiet = 0]
        BY <2>1 DEF RestartActivated
      <3> HIDE DEF o, src
      <3>2. dog' \in DogRec
        BY <1>2, <3>1, DogTouched
      <3>3. dog'.hand = None /\ dog'.pc = "window"
        BY <1>2, <3>1 DEF DogRec
      <3>4. identity' \in IdentityRec
        BY <1>2, <3>1, Zenon DEF IdentityRec
      <3>5. identity'.inc = identity.inc /\ identity'.on = identity.on
        BY <1>2, <3>1 DEF IdentityRec
      <3>6. signal' \in SignalRec
        BY <1>1, <3>1, Zenon DEF SignalRec
      <3> QED  BY <3>2, <3>3, <3>4, <3>5, <3>6
    <2>2. CASE ~session
      BY <1>2, <2>2, NoDogType DEF RestartActivated
    <2> QED  BY <2>1, <2>2
  <1>4. Living' = Living /\ Voices' = Voices
    BY <1>1 DEF Living, Voices
  <1>5. TypeOK'
    BY <1>1, <1>3 DEF TypeOK, DogRec, IdentityRec, SignalRec
  <1>6. OneHand'
    BY <1>1, <1>2, <1>3, <1>4 DEF OneHand, Held
  <1>7. Turns'
    BY <1>1, <1>3 DEF Turns
  <1>8. op.pc \notin {"drain", "activating", "gate"}
    BY <1>1 DEF Turns
  <1>9. OneSpeaker' /\ OnSelected'
    BY <1>1, <1>3, <1>4, <1>8 DEF OneSpeaker, OnSelected
  <1> QED  BY <1>5, <1>6, <1>7, <1>9

\* Before the watchdog starts a replacement nobody lives, nobody speaks.
LEMMA Alone ==
  ASSUME CaptureInv, dog.pc = "draining"
  PROVE  /\ slot = None /\ parked = {} /\ dog.hand = None /\ RestartLeft
         /\ Living \ dropped = {} /\ Voices = {}
         /\ identity.inc # None /\ identity.on = selected
         /\ op.pc \in {"idle", "stop_session", "wait_dog"}
  BY DEF CaptureInv, Turns, OneHand, Held, OneSpeaker, OnSelected

\* The replacement is installed: it is the one thread held and the one voice.
LEMMA RestartInstalls ==
  ASSUME CaptureInv, NEW t \in Fresh, NEW unscoped \in BOOLEAN,
         dog.pc = "draining",
         thread' = Spawned(thread, t, identity.on, unscoped),
         slot' = t, parked' = {},
         identity' = IF identity = NoIdentity THEN identity
                     ELSE [identity EXCEPT !.inc = t, !.source = None],
         dog' = [dog EXCEPT !.pc = "activating", !.used = @ + 1],
         UNCHANGED <<dropped, signal, session, op, selected, wire, count>>
  PROVE  CaptureInv'
  <1> USE DEF CaptureInv
  <1>1. /\ slot = None /\ parked = {} /\ dog.hand = None /\ RestartLeft
        /\ Living \ dropped = {} /\ Voices = {}
        /\ identity.inc # None /\ identity.on = selected
        /\ op.pc \in {"idle", "stop_session", "wait_dog"}
    BY Alone
  <1>2. /\ t \in Threads \ Living /\ t # None
    BY FreshThread, NoneApart
  <1>3. /\ dog \in DogRec /\ identity \in IdentityRec
        /\ thread \in [Threads -> ThreadRec]
        /\ identity.on \in Adapters \cup {None}
    BY Types DEF IdentityRec
  <1>4. /\ thread' \in [Threads -> ThreadRec]
        /\ Living' = Living \cup {t}
        /\ Voices' = Voices \cup {t}
        /\ thread'[t].on = identity.on
    BY <1>2, <1>3, Spawning
  <1>5. identity' = [identity EXCEPT !.inc = t, !.source = None]
    BY <1>1 DEF NoIdentity
  <1>6. identity' \in IdentityRec
    BY <1>2, <1>3, <1>5, Zenon DEF IdentityRec
  <1>7. identity'.inc = t /\ identity'.on = selected
    BY <1>1, <1>3, <1>5 DEF IdentityRec
  <1>8. dog' \in DogRec
    <2> DEFINE n == dog.used + 1
    <2>1. n \in 0 .. MaxRestarts
      BY <1>1, <1>3, CaptureAssumption DEF DogRec, RestartLeft
    <2>2. dog' = [dog EXCEPT !.pc = "activating", !.used = n]
      OBVIOUS
    <2> HIDE DEF n
    <2> QED  BY <1>3, <2>1, <2>2, Zenon DEF DogRec
  <1>9. dog'.pc = "activating" /\ dog'.hand = None
    BY <1>1, <1>3 DEF DogRec
  <1>10. TypeOK'
    <2>1. slot' \in Threads \cup {None} /\ parked' \subseteq Threads
      BY <1>2
    <2> QED  BY <1>4, <1>6, <1>8, <2>1 DEF TypeOK, ThreadRec, IdentityRec, DogRec
  <1>11. OneHand'
    BY <1>1, <1>2, <1>4, <1>9 DEF OneHand, Held
  <1>12. Turns'
    BY <1>1, <1>2, <1>9 DEF Turns
  <1>13. OneSpeaker' /\ OnSelected'
    BY <1>1, <1>2, <1>4, <1>7, <1>9 DEF OneSpeaker, OnSelected
  <1> QED  BY <1>10, <1>11, <1>12, <1>13

\* The session ended meanwhile: the replacement is silenced and parked.
LEMMA RestartOrphaned ==
  ASSUME CaptureInv, NEW t \in Fresh, NEW unscoped \in BOOLEAN,
         dog.pc = "draining",
         thread' = Signalled(Retired(Spawned(thread, t, identity.on, unscoped),
                                     t), t),
         parked' = {t}, dog' = NoDog,
         UNCHANGED <<slot, identity, dropped, signal, session, op, selected,
                     wire, count>>
  PROVE  CaptureInv'
  <1> USE DEF CaptureInv
  <1> DEFINE r == [st |-> "starting", shutdown |-> TRUE, flag |-> FALSE,
                   on |-> identity.on, forced |-> unscoped, rx |-> "none"]
  <1>1. /\ slot = None /\ parked = {} /\ dog.hand = None
        /\ Living \ dropped = {} /\ Voices = {}
        /\ identity.inc # None /\ identity.on = selected
        /\ op.pc \in {"idle", "stop_session", "wait_dog"}
    BY Alone
  <1>2. t \in Threads \ Living /\ t # None
    BY FreshThread, NoneApart
  <1>3. thread \in [Threads -> ThreadRec] /\ identity.on \in Adapters \cup {None}
    BY Types DEF IdentityRec
  <1>4. thread' = [thread EXCEPT ![t] = r]
    BY <1>2, <1>3 DEF Signalled, Retired, Spawned
  <1>5. r \in ThreadRec
    BY <1>3, Zenon DEF ThreadRec
  <1>6. r.st = "starting" /\ ~r.flag
    OBVIOUS
  <1> HIDE DEF r
  <1>7. /\ thread' \in [Threads -> ThreadRec]
        /\ thread'[t] = r /\ \A u \in Threads \ {t} : thread'[u] = thread[u]
    BY <1>2, <1>3, <1>4, <1>5
  <1>8. Living' = Living \cup {t}
    BY <1>2, <1>6, <1>7 DEF Living
  <1>9. Voices' = {}
    BY <1>1, <1>6, <1>7, <1>8 DEF Voices, Living
  <1>10. TypeOK'
    <2>1. parked' \subseteq Threads
      BY <1>2
    <2> QED  BY <1>7, <2>1, NoDogType DEF TypeOK, ThreadRec, DogRec
  <1>11. OneHand'
    BY <1>1, <1>2, <1>8, NoDogType DEF OneHand, Held
  <1>12. Turns'
    BY <1>1, NoDogType DEF Turns
  <1>13. OneSpeaker' /\ OnSelected'
    BY <1>1, <1>9, NoDogType DEF OneSpeaker, OnSelected
  <1> QED  BY <1>10, <1>11, <1>12, <1>13

LEMMA RestartStartInv ==
  ASSUME CaptureInv, RestartStart
  PROVE  CaptureInv'
  <1> DEFINE unscoped == ForcedUnscoped
  <1>1. unscoped \in BOOLEAN
    BY DEF ForcedUnscoped
  <1>2. CASE session
    <2>1. PICK t \in Fresh :
            /\ thread' = Spawned(thread, t, identity.on, unscoped)
            /\ slot' = t /\ parked' = {}
            /\ identity' = IF identity = NoIdentity THEN identity
                           ELSE [identity EXCEPT !.inc = t, !.source = None]
            /\ dog' = [dog EXCEPT !.pc = "activating", !.used = @ + 1]
      BY <1>2 DEF RestartStart
    <2>2. /\ dog.pc = "draining"
          /\ UNCHANGED <<dropped, signal, session, op, selected, wire, count>>
      BY DEF RestartStart, envVars
    <2> HIDE DEF unscoped
    <2> QED  BY <1>1, <2>1, <2>2, RestartInstalls
  <1>3. CASE ~session
    <2>1. PICK t \in Fresh :
            /\ thread' = Signalled(Retired(Spawned(thread, t, identity.on,
                                                   unscoped), t), t)
            /\ parked' = {t} /\ dog' = NoDog /\ UNCHANGED <<slot, identity>>
      BY <1>3 DEF RestartStart
    <2>2. /\ dog.pc = "draining"
          /\ UNCHANGED <<dropped, signal, session, op, selected, wire, count>>
      BY DEF RestartStart, envVars
    <2> HIDE DEF unscoped
    <2> QED  BY <1>1, <2>1, <2>2, RestartOrphaned
  <1> QED  BY <1>2, <1>3

-----------------------------------------------------------------------------
(***************************************************************************)
(* The theorems                                                            *)
(***************************************************************************)

LEMMA CaptureInit == Init => CaptureInv
  <1> SUFFICES ASSUME Init PROVE CaptureInv
    OBVIOUS
  <1>1. /\ thread = [t \in Threads |-> NoThread]
        /\ slot = None /\ parked = {} /\ dropped = {}
        /\ identity = NoIdentity /\ session = FALSE
        /\ dog = NoDog /\ op = NoOp /\ selected = None
    BY DEF Init
  <1>2. Living = {} /\ Voices = {}
    BY <1>1 DEF Living, Voices, NoThread
  <1>3. TypeOK
    <2>1. thread \in [Threads -> ThreadRec]
      BY <1>1, NoThreadType
    <2>2. signal \in SignalRec
      BY Zenon DEF Init, SignalRec
    <2>3. identity \in IdentityRec
      BY <1>1 DEF NoIdentity, IdentityRec
    <2>4. wire \in [up : BOOLEAN, source : {1, 2}]
      BY DEF Init
    <2>5. count \in [ops : 0 .. MaxOps, churn : 0 .. MaxChurn]
      BY CaptureAssumption DEF Init
    <2> QED  BY <1>1, <2>1, <2>2, <2>3, <2>4, <2>5, NoDogType, NoOpType, Types
  <1>4. OneHand /\ Turns
    BY <1>1, <1>2, NoDogType, NoOpType DEF OneHand, Held, Turns
  <1>5. OneSpeaker /\ OnSelected
    BY <1>1, <1>2, NoDogType, NoOpType DEF OneSpeaker, OnSelected, NoIdentity
  <1> QED  BY <1>3, <1>4, <1>5 DEF CaptureInv

LEMMA CaptureStutter ==
  ASSUME CaptureInv, UNCHANGED vars
  PROVE  CaptureInv'
  BY DEF CaptureInv, vars, TypeOK, OneHand, Held, Turns, RestartLeft, OneSpeaker,
     OnSelected, Living, Voices

LEMMA CaptureStep == CaptureInv /\ [Next]_vars => CaptureInv'
  <1> SUFFICES ASSUME CaptureInv, [Next]_vars PROVE CaptureInv'
    OBVIOUS
  <1>1. ASSUME NEW a \in Adapters \cup {None},
               NEW preserve \in {FALSE, a = selected}, BeginStart(a, preserve)
        PROVE  CaptureInv'
    <2>1. preserve \in BOOLEAN
      OBVIOUS
    <2> QED  BY <1>1, <2>1, BeginStartInv
  <1>2. CASE BeginResume \/ BeginStop
    BY <1>2, BeginResumeInv, BeginStopInv
  <1>3. CASE OpStep
    BY <1>3, StopSessionInv, DogStoppedInv, DogAbortedInv, StopCaptureInv,
       StartRefusedInv, EnsureKeepInv, EnsureReplaceInv, EnsureStartInv,
       EnsureDrainTimeoutInv, EnsureActivatedInv, EnsureAbandonedInv,
       GateDownInv, GateInv DEF OpStep
  <1>4. CASE DogStep
    BY <1>4, WaitsInv, SolicitInv, WindowQuietInv, RestartTeardownInv,
       RestartJoinedInv, RestartJoinTimeoutInv, RestartStartInv,
       RestartActivatedInv, RestartUnconfirmedInv DEF DogStep
  <1>5. CASE ThreadStep
    BY <1>5, ThreadActivateInv, ThreadFailInv, ThreadExitInv DEF ThreadStep
  <1>6. CASE WireChanges
    BY <1>6, WireChangesInv
  <1>7. CASE UNCHANGED vars
    BY <1>7, CaptureStutter
  <1> QED  BY <1>1, <1>2, <1>3, <1>4, <1>5, <1>6, <1>7 DEF Next

\* Types, and where slot, parked joins, watchdog and operation stand, hold in
\* every reachable state of the capture lifecycle.
THEOREM CaptureInvariant == Spec => []CaptureInv
  BY CaptureInit, CaptureStep, PTL DEF Spec

\* A set whose members are all equal has at most one.
LEMMA AtMostOne ==
  ASSUME NEW S, \A x, y \in S : x = y
  PROVE  Cardinality(S) <= 1
  <1>1. CASE S = {}
    BY <1>1, FS_EmptySet
  <1>2. CASE S # {}
    <2>1. PICK x : S = {x}
      BY <1>2
    <2> QED  BY <2>1, FS_Singleton
  <1> QED  BY <1>1, <1>2

\* OneSession for any number of threads, adapters, restarts and operations:
\* two capture threads never hold the fixed-name native session together,
\* other than one whose join the abort of a watchdog dropped.
THEOREM OneSessionAlways == Spec => []OneSession
  <1>1. CaptureInv => OneSession
    BY AtMostOne DEF CaptureInv, OneHand, OneSession
  <1> QED  BY <1>1, CaptureInvariant, PTL

\* OneVoice: the incarnation flags leave one living thread at most that may
\* merge frames, and it captures on the selected adapter, wedged and dropped
\* predecessors included.
THEOREM OneVoiceAlways == Spec => []OneVoice
  <1>1. ASSUME CaptureInv PROVE OneVoice
    <2>1. \A t, u \in Voices : t = u
      BY <1>1, NoneApart DEF CaptureInv, OneSpeaker, NoIdentity, Voices, Living
    <2>2. \A t \in Voices : thread[t].on = selected
      BY <1>1 DEF CaptureInv, OnSelected
    <2> QED  BY <2>1, <2>2, AtMostOne DEF OneVoice, Voices
  <1> QED  BY <1>1, CaptureInvariant, PTL
=============================================================================
