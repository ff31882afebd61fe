----------------------------- MODULE VideoSurface -----------------------------
(***************************************************************************)
(* The child window the video is rendered into.  Commands run on any       *)
(* thread; windows are created, moved and destroyed by closures queued to  *)
(* the main thread, in order.  A token names a window by its handle and by *)
(* its incarnation, because Windows may reuse the number of a handle once  *)
(* the window is gone, and a child may go without the program's doing.     *)
(***************************************************************************)
EXTENDS Naturals, Sequences

CONSTANTS
  Hwnds,          \* handle values
  Callers,        \* commands at work
  None,           \* no token
  MaxGeneration,  \* bound: windows created
  MaxQueue        \* bound: closures queued

ASSUME SurfaceAssumption ==
  /\ MaxGeneration \in Nat /\ MaxQueue \in Nat
  /\ None \notin [hwnd : Hwnds, generation : Nat]

VARIABLES
  generation,  \* SurfaceState.generation
  current,     \* SurfaceState.current
  windows,     \* per handle value, the incarnation living there, 0 when none
  queue,       \* the main thread's closures
  caller,      \* per command, the token it captured
  moved,       \* history: the token and the window of the last move
  died,        \* history: incarnations that went without the program's doing
  lost         \* history: incarnations whose destruction was not queued

surfaceVars == <<generation, current, windows, queue, caller, moved, died, lost>>

Tokens == [hwnd : Hwnds, generation : Nat]
Work == [do : {"create"}, token : {None}]
        \cup [do : {"destroy", "move"}, token : Tokens]

SurfaceInit ==
  /\ generation = 0 /\ current = None
  /\ windows = [h \in Hwnds |-> 0]
  /\ queue = <<>>
  /\ caller = [c \in Callers |-> None]
  /\ moved = [token |-> None, window |-> 0]
  /\ died = {} /\ lost = {}

\* run_on_main_thread.
Enqueue(w) == Len(queue) < MaxQueue /\ queue' = Append(queue, w)

-----------------------------------------------------------------------------
(***************************************************************************)
(* Commands                                                                *)
(***************************************************************************)

\* create_video_window queues the creation and waits for its answer.
Create ==
  /\ Enqueue([do |-> "create", token |-> None])
  /\ UNCHANGED <<generation, current, windows, caller, moved, died, lost>>

\* A command captures the surface before it waits for anything else.
Capture(c) ==
  /\ caller[c] = None /\ current # None
  /\ caller' = [caller EXCEPT ![c] = current]
  /\ UNCHANGED <<generation, current, windows, queue, moved, died, lost>>

\* A bug: the released token is not compared.
ReleasesAny(t) == current # None

Releases(t) == current = t

\* release, by stop_stream and by a start_stream that failed: the surface is
\* given up at once, and its window is destroyed later.  A queue that refuses
\* work leaves the window.
Release(c) ==
  /\ caller[c] # None
  /\ IF ~Releases(caller[c]) THEN UNCHANGED <<current, queue, lost>>
     ELSE /\ current' = None
          /\ \/ /\ Enqueue([do |-> "destroy", token |-> caller[c]])
                /\ UNCHANGED lost
             \/ lost' = lost \cup {caller[c].generation} /\ UNCHANGED queue
  /\ caller' = [caller EXCEPT ![c] = None]
  /\ UNCHANGED <<generation, windows, moved, died>>

\* start_stream succeeded, or stop_stream failed: the surface stays.
Keep(c) ==
  /\ caller[c] # None
  /\ caller' = [caller EXCEPT ![c] = None]
  /\ UNCHANGED <<generation, current, windows, queue, moved, died, lost>>

\* reposition and set_visible queue their work for the captured window.
Move(c) ==
  /\ caller[c] # None
  /\ Enqueue([do |-> "move", token |-> caller[c]])
  /\ caller' = [caller EXCEPT ![c] = None]
  /\ UNCHANGED <<generation, current, windows, moved, died, lost>>

-----------------------------------------------------------------------------
(***************************************************************************)
(* The main thread                                                         *)
(***************************************************************************)

\* The windows once create has destroyed the previous one.
Cleaned == IF current = None THEN windows
           ELSE [windows EXCEPT ![current.hwnd] = 0]

\* The windows once a child has been created at a free handle value.
Created(h) == [Cleaned EXCEPT ![h] = generation + 1]

\* create's closure: the previous window goes first, and stays gone when the
\* new one cannot be created.
RunCreate ==
  /\ queue # <<>> /\ Head(queue).do = "create" /\ generation < MaxGeneration
  /\ queue' = Tail(queue)
  /\ \/ /\ current' = None /\ windows' = Cleaned
        /\ UNCHANGED generation
     \/ \E h \in Hwnds :
          /\ Cleaned[h] = 0
          /\ windows' = Created(h)
          /\ current' = [hwnd |-> h, generation |-> generation + 1]
          /\ generation' = generation + 1
  /\ UNCHANGED <<caller, moved, died, lost>>

\* A bug: the queued destruction does not look at what the handle names now.
RecycledNever(t) == FALSE

\* Whether a replacement now owns the handle value of a released window.
Recycled(t) == current # None /\ current.hwnd = t.hwnd

\* release's closure.
RunDestroy ==
  /\ queue # <<>> /\ Head(queue).do = "destroy"
  /\ LET t == Head(queue).token IN
     windows' = IF Recycled(t) THEN windows ELSE [windows EXCEPT ![t.hwnd] = 0]
  /\ queue' = Tail(queue)
  /\ UNCHANGED <<generation, current, caller, moved, died, lost>>

\* A bug: the handle value alone is compared.
SameHandle(t) == current # None /\ current.hwnd = t.hwnd

SameSurface(t) == current = t

\* The closures of reposition and set_visible.
RunMove ==
  /\ queue # <<>> /\ Head(queue).do = "move"
  /\ LET t == Head(queue).token IN
     moved' = IF SameSurface(t) THEN [token |-> t, window |-> windows[t.hwnd]]
                                ELSE moved
  /\ queue' = Tail(queue)
  /\ UNCHANGED <<generation, current, windows, caller, died, lost>>

\* A child window goes without the program's doing.
WindowDies(h) ==
  /\ windows[h] # 0
  /\ windows' = [windows EXCEPT ![h] = 0]
  /\ died' = died \cup {windows[h]}
  /\ UNCHANGED <<generation, current, queue, caller, moved, lost>>

SurfaceNext ==
  \/ Create
  \/ \E c \in Callers : Capture(c) \/ Release(c) \/ Keep(c) \/ Move(c)
  \/ RunCreate \/ RunDestroy \/ RunMove
  \/ \E h \in Hwnds : WindowDies(h)

SurfaceSpec == SurfaceInit /\ [][SurfaceNext]_surfaceVars

-----------------------------------------------------------------------------
(***************************************************************************)
(* Properties                                                              *)
(***************************************************************************)

SurfaceTypeOK ==
  /\ generation \in Nat
  /\ current \in Tokens \cup {None}
  /\ windows \in [Hwnds -> Nat]
  /\ queue \in Seq(Work)
  /\ caller \in [Callers -> Tokens \cup {None}]
  /\ moved \in [token : Tokens \cup {None}, window : Nat]
  /\ died \subseteq Nat /\ lost \subseteq Nat

\* The window in use stays until it is replaced or released: a destruction
\* queued for an earlier window never takes it, whatever handle values are
\* reused.
SurfaceIntact ==
  current # None /\ current.generation \notin died =>
    windows[current.hwnd] = current.generation

\* A queued move or show never touches the window of another incarnation.
MovesOwn ==
  moved.token # None => moved.window \in {0, moved.token.generation}

\* Every window is the one in use or is due for destruction; only one whose
\* destruction the main thread refused to queue stays behind.
NoWindowLeaks ==
  \A h \in Hwnds :
    \/ windows[h] \in {0} \cup lost
    \/ current # None /\ current.generation = windows[h]
    \/ \E i \in 1..Len(queue) :
         queue[i].do = "destroy" /\ queue[i].token.hwnd = h
=============================================================================
