----------------------------- MODULE DisplayLoop -----------------------------
(***************************************************************************)
(* The main loop of the Display image (services/images/src/display.rs)     *)
(* with its FrameCoordinator (services/display/src/lib.rs).  Seven queues  *)
(* feed the loop; it drains the ones its ready mask names, renders one     *)
(* slice at a time and sleeps on the seven read events when an iteration   *)
(* found nothing to do.  Clients send between any two steps, and Core      *)
(* switches the hardware pointer on and off through the present page.      *)
(*                                                                         *)
(* What a slice draws is in Compositor and what a request does to the      *)
(* scene in GuiScene.  Here a composition is the number of slices it still *)
(* takes, and a request is told apart by what it leaves to be done.        *)
(***************************************************************************)
EXTENDS Naturals, Sequences, SequencesExt

CONSTANTS
    Capacity,   \* messages a queue holds
    Slices,     \* slices the composition of one batch of damage takes, at most
    MaxSends,   \* bound on messages
    MaxToggles, \* bound on switches of the hardware pointer
    MaxReplaced \* bound on replacements of the service generation

(* The order of the capability array, which is the order of the mask bits. *)
Capabilities == <<"surface", "lockSurface", "input", "rows", "gui", "atriumGui", "lockGui">>

Queues == ToSet(Capabilities)

(* The order in which one iteration visits the queues.                     *)
Order == <<"surface", "lockSurface", "input", "gui", "atriumGui", "lockGui", "rows">>

(* The pointer queues are read whatever the mask says.                     *)
Polled == {"atriumGui", "lockGui"}

(* What a client may send: requests on surfaces, scene operations, rows of *)
(* a text grid, and fragments of a frame of the text-mode terminal.        *)
Messages == [surface     |-> {"change", "cursor", "uncursor", "fps"},
             lockSurface |-> {"change", "cursor", "uncursor", "fps"},
             input       |-> {"more", "last"},
             rows        |-> {"change"},
             gui         |-> {"change"},
             atriumGui   |-> {"change", "pointer"},
             lockGui     |-> {"change", "pointer"}]

VARIABLES
    pc,           \* "top", a queue, "terminal", "render", "end" or "asleep"
    queue,        \* queue -> messages
    signaled,     \* read events that are signaled
    mask,         \* ready_mask, as a set of queues
    progressed, cursor_dirty, cursor_activity,
    coordinator,  \* FrameCoordinator
    damage,       \* the registry has damage
    slices,       \* of the composition in progress
    priority,     \* there is pointer damage to draw first
    presented,    \* drawn and not yet published
    hw, wanted,   \* hardware pointer: as Display has it, as Core wants it
    pointer,      \* where the pointer is, 0: there is none
    published,    \* where Core was told it is
    fps,          \* fps_enabled
    dark,         \* history: a switch of the hardware pointer left damage unrequested
    sends, toggles, replaced

vars == <<pc, queue, signaled, mask, progressed, cursor_dirty, cursor_activity, coordinator,
          damage, slices, priority, presented, hw, wanted, pointer, published, fps, dark,
          sends, toggles, replaced>>

queues == <<queue, signaled, sends>>
frame == <<slices, priority, presented>>
counters == <<toggles, replaced>>

TypeOK ==
    /\ pc \in Queues \cup {"top", "terminal", "render", "end", "asleep"}
    /\ \A q \in Queues : Len(queue[q]) <= Capacity
    /\ signaled \subseteq Queues /\ mask \subseteq Queues
    /\ slices \in 0..Slices /\ pointer \in 0..2

New == [pending |-> FALSE, complete |-> FALSE, requested |-> FALSE, in_progress |-> FALSE]

request_gui(c) == [c EXCEPT !.requested = TRUE]

accept_terminal_fragment(c, more) == [c EXCEPT !.pending = TRUE, !.complete = ~more]

terminal_ready(c) == c.pending /\ c.complete

complete_terminal(c) == [c EXCEPT !.pending = FALSE, !.complete = FALSE]

complete_guiMutant(c, pending) == [c EXCEPT !.in_progress = FALSE, !.requested = FALSE]

complete_gui(c, pending) == [c EXCEPT !.in_progress = pending, !.requested = pending]

Init ==
    /\ pc = "top"
    /\ queue = [q \in Queues |-> <<>>] /\ signaled = {}
    /\ mask = Queues
    /\ progressed = FALSE /\ cursor_dirty = FALSE /\ cursor_activity = FALSE
    /\ coordinator = request_gui(New)
    /\ damage = TRUE /\ slices = 0 /\ priority = FALSE /\ presented = FALSE
    /\ hw = FALSE /\ wanted = FALSE
    /\ pointer = 0 /\ published = 0
    /\ fps = TRUE /\ dark = FALSE
    /\ sends = 0 /\ toggles = 0 /\ replaced = 0

Send(q, m) ==
    /\ sends < MaxSends
    /\ Len(queue[q]) < Capacity
    /\ queue' = [queue EXCEPT ![q] = Append(@, m)]
    /\ signaled' = signaled \cup {q}
    /\ sends' = sends + 1
    /\ UNCHANGED <<pc, mask, progressed, cursor_dirty, cursor_activity, coordinator, damage, frame,
                   hw, wanted, pointer, published, fps, dark, counters>>

Toggle ==
    /\ toggles < MaxToggles
    /\ wanted' = ~wanted
    /\ toggles' = toggles + 1
    /\ UNCHANGED <<pc, queues, mask, progressed, cursor_dirty, cursor_activity, coordinator, damage,
                   frame, hw, pointer, published, fps, dark, replaced>>

(***************************************************************************)
(* The head of an iteration: the hardware pointer is followed, a new       *)
(* generation starts the renderer over, and the frame counter may be due.  *)
(***************************************************************************)
set_hardware_cursor ==
    /\ hw' = wanted
    /\ damage' = (damage \/ (hw # wanted /\ pointer # 0))
    /\ dark' = (dark \/ (hw # wanted /\ pointer # 0 /\ ~coordinator.requested))
    /\ UNCHANGED <<frame, pointer, replaced>>

replace_generation ==
    /\ replaced < MaxReplaced
    /\ replaced' = replaced + 1
    /\ slices' = 0 /\ priority' = FALSE /\ presented' = FALSE
    /\ pointer' = 0 /\ hw' = FALSE
    /\ damage' = TRUE /\ dark' = FALSE
    /\ coordinator' = request_gui(New)

Iterate == pc' = Order[1] /\ progressed' = FALSE /\ cursor_dirty' = FALSE /\ cursor_activity' = FALSE

Top ==
    /\ pc = "top"
    /\ Iterate
    /\ \/ set_hardware_cursor /\ UNCHANGED coordinator
       \/ replace_generation
       \/ fps /\ damage' = TRUE /\ dark' = FALSE /\ hw' = wanted
          /\ coordinator' = request_gui(coordinator) /\ UNCHANGED <<frame, pointer, replaced>>
    /\ UNCHANGED <<queues, mask, wanted, published, fps, toggles>>

(***************************************************************************)
(* One message.  A request on a surface always asks for a frame, whether   *)
(* or not it was refused; a row only when it was accepted.                 *)
(***************************************************************************)
SurfaceRequest(q, m) ==
    /\ \/ m = "change" /\ damage' \in {damage, TRUE} /\ UNCHANGED <<pointer, fps>>
       \/ m = "cursor" /\ damage' = TRUE /\ pointer' = 1 /\ UNCHANGED fps
       \/ m = "uncursor" /\ damage' = TRUE /\ pointer' = 0 /\ UNCHANGED fps
       \/ m = "fps" /\ q = "surface" /\ damage' = TRUE /\ fps' = ~fps /\ UNCHANGED pointer
       \/ m = "fps" /\ q = "lockSurface" /\ UNCHANGED <<damage, pointer, fps>>
    /\ coordinator' = request_gui(coordinator)
    /\ UNCHANGED <<priority, cursor_dirty>>

TerminalFragment(m) ==
    /\ coordinator' = accept_terminal_fragment(coordinator, m = "more")
    /\ UNCHANGED <<damage, pointer, fps, priority, cursor_dirty>>

(* apply_cursor_scene_op: the retained scene is not touched.               *)
MovePointer ==
    /\ pointer' = IF pointer = 1 THEN 2 ELSE 1
    /\ damage' = (damage \/ ~hw \/ pointer = 0)
    /\ priority' = (priority \/ ~hw)
    /\ dark' = (dark \/ (hw /\ pointer = 0 /\ ~coordinator.requested))
    /\ cursor_dirty' = TRUE
    /\ UNCHANGED <<coordinator, fps>>

SceneOperation ==
    /\ damage' \in {damage, TRUE}
    /\ coordinator' = request_gui(coordinator)
    /\ UNCHANGED <<pointer, fps, priority, cursor_dirty>>

Row ==
    /\ \/ damage' = TRUE /\ coordinator' = request_gui(coordinator)
       \/ UNCHANGED <<damage, coordinator>>
    /\ UNCHANGED <<pointer, fps, priority, cursor_dirty>>

Receive(q) ==
    /\ pc = q
    /\ q \in mask \cup Polled
    /\ queue[q] # <<>>
    /\ queue' = [queue EXCEPT ![q] = Tail(@)]
    /\ progressed' = TRUE
    /\ LET m == Head(queue[q]) IN
       \/ q \in {"surface", "lockSurface"} /\ SurfaceRequest(q, m) /\ UNCHANGED dark
       \/ q = "input" /\ TerminalFragment(m) /\ UNCHANGED dark
       \/ m = "pointer" /\ MovePointer
       \/ q \in Polled \cup {"gui"} /\ m = "change" /\ SceneOperation /\ UNCHANGED dark
       \/ q = "rows" /\ Row /\ UNCHANGED dark
    /\ UNCHANGED <<pc, signaled, sends, mask, cursor_activity, slices, presented, hw, wanted,
                   published, counters>>

After(q) ==
    LET i == SelectInSeq(Order, LAMBDA r : r = q)
    IN IF i = Len(Order) THEN "terminal" ELSE Order[i + 1]

DrainedMutant(q) == queue[q] = <<>> \/ q \notin mask \cup Polled \/ progressed

(* The receive that finds the queue empty ends its loop.                   *)
Drained(q) == queue[q] = <<>> \/ q \notin mask \cup Polled

Leave(q) ==
    /\ pc = q
    /\ Drained(q)
    /\ pc' = After(q)
    /\ mask' = mask \ {q}
    /\ cursor_dirty' = FALSE
    /\ cursor_activity' = (cursor_activity \/ cursor_dirty)
    /\ coordinator' = IF cursor_dirty /\ ~hw THEN request_gui(coordinator) ELSE coordinator
    /\ published' = IF q = "lockGui" /\ cursor_activity' THEN pointer ELSE published
    /\ UNCHANGED <<queues, progressed, damage, frame, hw, wanted, pointer, fps, dark, counters>>

(***************************************************************************)
(* publish_render: what was presented is published, and the frame counter, *)
(* when its window ends with this frame, changes its own node and asks for *)
(* another frame.                                                          *)
(***************************************************************************)
Published(c, drawn, left, complete) ==
    /\ presented' = FALSE
    /\ \/ damage' = left /\ coordinator' = c
       \/ fps /\ drawn /\ complete /\ damage' = TRUE /\ coordinator' = request_gui(c)

(* The text-mode cells: their renderer takes the damage of the registry.   *)
RenderTerminal ==
    /\ pc = "terminal"
    /\ pc' = "render"
    /\ IF terminal_ready(coordinator) /\ ~coordinator.in_progress
       THEN Published(complete_terminal(coordinator), TRUE, FALSE, TRUE) /\ dark' = FALSE
       ELSE UNCHANGED <<damage, presented, coordinator, dark>>
    /\ UNCHANGED <<queues, mask, progressed, cursor_dirty, cursor_activity, slices, priority, hw,
                   wanted, pointer, published, fps, counters>>

(***************************************************************************)
(* One slice of render_gui: with no composition in progress the damage is  *)
(* taken up; pointer damage is drawn before any tile; the last tile        *)
(* presents and takes up what was damaged meanwhile.                       *)
(***************************************************************************)
TakenUp(n) == IF damage THEN n ELSE 0

Slice(n) ==
    LET loaded == IF slices = 0 THEN TakenUp(n) ELSE slices
        left == IF slices = 0 THEN FALSE ELSE damage
    IN IF loaded = 0
       THEN [slices |-> 0, damage |-> FALSE, priority |-> priority, drawn |-> FALSE]
       ELSE IF priority
       THEN [slices |-> loaded, damage |-> left, priority |-> FALSE, drawn |-> TRUE]
       ELSE IF loaded = 1
       THEN [slices |-> IF left THEN n ELSE 0, damage |-> FALSE, priority |-> FALSE, drawn |-> TRUE]
       ELSE [slices |-> loaded - 1, damage |-> left, priority |-> FALSE, drawn |-> FALSE]

RenderGui ==
    /\ pc = "render"
    /\ pc' = "end"
    /\ IF coordinator.requested \/ coordinator.in_progress
       THEN \E n \in 1..Slices :
              LET s == Slice(n)
                  pending == s.slices # 0 \/ s.damage \/ s.priority
              IN /\ slices' = s.slices /\ priority' = s.priority
                 /\ dark' = FALSE
                 /\ progressed' = TRUE
                 /\ mask' = {"input", "atriumGui", "lockGui"}
                 /\ presented' = FALSE
                 /\ \/ damage' = s.damage /\ coordinator' = complete_gui(coordinator, pending)
                    \/ /\ fps /\ s.drawn /\ ~pending
                       /\ damage' = TRUE
                       /\ coordinator' = request_gui(complete_gui(coordinator, TRUE))
       ELSE UNCHANGED <<slices, priority, dark, progressed, mask, presented, damage, coordinator>>
    /\ UNCHANGED <<queues, cursor_dirty, cursor_activity, hw, wanted, pointer, published, fps, counters>>

(***************************************************************************)
(* The end of an iteration.  wait_on_capabilities_ready reports the first  *)
(* event of the array that is signaled; if there is none the task sleeps   *)
(* and reports nothing when it wakes, at a signal or at its deadline.      *)
(***************************************************************************)
Ready == SelectInSeq(Capabilities, LAMBDA q : q \in signaled)

End ==
    /\ pc = "end"
    /\ \/ progressed /\ pc' = "top" /\ published' = pointer /\ UNCHANGED <<mask, signaled>>
       \/ /\ ~progressed /\ Ready # 0
          /\ mask' = {Capabilities[Ready]} /\ signaled' = signaled \ {Capabilities[Ready]}
          /\ pc' = "top" /\ UNCHANGED published
       \/ ~progressed /\ Ready = 0 /\ pc' = "asleep" /\ UNCHANGED <<mask, signaled, published>>
    /\ UNCHANGED <<queue, sends, progressed, cursor_dirty, cursor_activity, coordinator, damage, frame,
                   hw, wanted, pointer, fps, dark, counters>>

Wake ==
    /\ pc = "asleep"
    /\ pc' = "top"
    /\ mask' = Queues
    /\ UNCHANGED <<queues, progressed, cursor_dirty, cursor_activity, coordinator, damage, frame,
                   hw, wanted, pointer, published, fps, dark, counters>>

Next ==
    \/ \E q \in Queues : \E m \in Messages[q] : Send(q, m)
    \/ Toggle
    \/ Top
    \/ pc \in Queues /\ (Receive(pc) \/ Leave(pc))
    \/ RenderTerminal
    \/ RenderGui
    \/ End
    \/ Wake

Spec == Init /\ [][Next]_vars

-----------------------------------------------------------------------------
(* The loop goes to sleep only when there is nothing left to do: every     *)
(* message that was there when it looked has been handled (one that came   *)
(* since has its event signaled), no damage is waiting for a frame that    *)
(* nobody asked for, nothing drawn is unpublished and Core has been told   *)
(* where the pointer is.  The one exception is damage that a switch of the *)
(* hardware pointer leaves without asking for a frame.                     *)
SleepsWhenDone ==
    pc = "asleep" =>
        /\ \A q \in Queues : queue[q] # <<>> => q \in signaled
        /\ (damage \/ slices # 0 \/ priority) => dark
        /\ ~presented
        /\ published = pointer

(* A composition that was begun is always asked for again: no other state  *)
(* of the coordinator would draw its remaining slices.                     *)
WorkIsRequested ==
    /\ pc \in {"top", "end"} /\ slices # 0 => coordinator.requested
    /\ coordinator.in_progress => coordinator.requested
=============================================================================
