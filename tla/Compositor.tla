----------------------------- MODULE Compositor -----------------------------
(***************************************************************************)
(* The compositor of the Display service (services/display/src/lib.rs,     *)
(* Display::render_gui and the pointer layers).  Damage is composed into a *)
(* backbuffer a few tiles at a time, between which clients go on changing  *)
(* the scene and moving the pointer; when the last tile is done the damage *)
(* is copied to the framebuffer and the pointer drawn over it.  Pointer    *)
(* motion jumps the queue.                                                 *)
(*                                                                         *)
(* The scene is what a composition of each pixel gives: `want'.  How the   *)
(* registry composes it is in GuiScene.  The root surface always has a     *)
(* background, as the Display image sets it up, so the text-mode cells are *)
(* never drawn.                                                            *)
(***************************************************************************)
EXTENDS GuiRects, SequencesExt

CONSTANTS
    Screen,
    GUI_TILE_SIZE,
    TilesPerStep,                \* GUI_SOFTWARE_CURSOR_TILES_PER_STEP
    MAX_GUI_DAMAGE_RECTS,
    MAX_DISPLAY_PRESENT_RECTS,
    Layers,                      \* pointer layers, one per owner
    Centre,                      \* where a pointer starts
    EditAt, MoveTo,              \* pixels clients change and move the pointer to
    MaxEdits, MaxMoves           \* bounds on client calls

VARIABLES
    want,       \* pixel -> what composing it gives
    background, \* GuiSurfaceRegistry::background_color
    damage,     \* the registry's damage list
    gui_background, gui_damage,
    tile,       \* [index, x, y]: the next tile
    priority,   \* cursor_priority_damage
    layers,     \* pointer layer -> [on, at, order]
    hardware_cursor,
    back,       \* backbuffer
    fb,         \* pixel -> [v, cursor]
    presented,  \* [full, rects] since the last publication
    seen,       \* the framebuffer as published to Core
    lost,       \* pixels whose damage found the list full
    strayed,    \* pixels where the pointer is or is not drawn for want of damage
    edits, moves

vars == <<want, background, damage, gui_background, gui_damage, tile, priority, layers,
          hardware_cursor, back, fb, presented, seen, lost, strayed, edits, moves>>

\* The pixels of a rectangle that are on the screen.
In(r) == LET c == intersect(r, Screen)
         IN  (c.x..(Right(c) - 1)) \X (c.y..(Bottom(c) - 1))

Pixels == (0..(Screen.w - 1)) \X (0..(Screen.h - 1))

InAny(rects) == UNION {In(rects[i]) : i \in DOMAIN rects}

Values == 0..1   \* enough to tell a pixel from what it was before

Filled == 2      \* a pixel that holds the bare background fill

(***************************************************************************)
(* The pointer's bounds: one pixel stands for its glow.                    *)
(***************************************************************************)
cursor_bounds(at) == Rect(at[1], at[2], 1, 1)

Active(ls) == {l \in Layers : ls[l].on}

(***************************************************************************)
(* The pixel the pointer of the layer used last is drawn on.               *)
(***************************************************************************)
active_cursor_layer(ls, hw) ==
    IF hw \/ Active(ls) = {} THEN {}
    ELSE {ls[CHOOSE l \in Active(ls) : \A m \in Active(ls) : ls[m].order <= ls[l].order].at}

Cursor == active_cursor_layer(layers, hardware_cursor)

add_damage(list, rect) == append_present_rect(list, rect, MAX_GUI_DAMAGE_RECTS)

(***************************************************************************)
(* invalidate_rect: the root surface covers the screen, so the whole       *)
(* rectangle is added; a full list is ignored.                             *)
(***************************************************************************)
Invalidate(rects) ==
    FoldSeq(LAMBDA r, list : add_damage(list, r).list, damage, Reverse(rects))

Dropped(rects) == InAny(rects) \ InAny(Invalidate(rects))

queue_cursor_priority_damage(list, rect) ==
    IF add_damage(list, rect).ok THEN add_damage(list, rect).list
    ELSE <<union(list[1], rect)>>

(***************************************************************************)
(* A call for one layer damages nothing where another layer's pointer is,  *)
(* though that pointer may stop or start being the one drawn.              *)
(***************************************************************************)
Strays(l, rects) ==
    Dropped(rects) \cup {layers[m].at : m \in Active(layers) \ {l}}

-----------------------------------------------------------------------------
(* Client calls between two slices.                                        *)

Edit(p) ==
    LET rect == Rect(p[1], p[2], 1, 1)
    IN  /\ edits < MaxEdits
        /\ edits' = edits + 1
        /\ want' = [want EXCEPT ![p] = 1 - @]
        /\ damage' = Invalidate(<<rect>>)
        /\ lost' = lost \cup Dropped(<<rect>>)
        /\ UNCHANGED <<background, gui_background, gui_damage, tile, priority, layers,
                       hardware_cursor, back, fb, presented, seen, strayed, moves>>

ChangeBackground ==
    /\ edits < MaxEdits
    /\ edits' = edits + 1
    /\ want' = [p \in Pixels |-> 1 - want[p]]
    /\ background' = 1 - background
    /\ damage' = Invalidate(<<Screen>>)
    /\ UNCHANGED <<gui_background, gui_damage, tile, priority, layers, hardware_cursor,
                   back, fb, presented, seen, lost, strayed, moves>>

NextOrder == 1 + Max({layers[l].order : l \in Layers})

Moved(l, ls, rects) ==
    /\ moves < MaxMoves
    /\ moves' = moves + 1
    /\ layers' = ls
    /\ damage' = Invalidate(rects)
    /\ strayed' = strayed \cup Strays(l, rects)
    /\ UNCHANGED <<want, background, gui_background, gui_damage, tile, hardware_cursor, back, fb,
                   presented, seen, lost, edits>>

register_cursor_surface(l) ==
    /\ Moved(l, [layers EXCEPT ![l] = [on |-> TRUE, at |-> Centre, order |-> NextOrder]],
             (IF layers[l].on THEN <<cursor_bounds(layers[l].at)>> ELSE <<>>)
                 \o <<cursor_bounds(Centre)>>)
    /\ UNCHANGED priority

unregister_cursor_surface(l) ==
    /\ layers[l].on
    /\ Moved(l, [layers EXCEPT ![l] = [on |-> FALSE, at |-> Centre, order |-> 0]],
             <<cursor_bounds(layers[l].at)>>)
    /\ UNCHANGED priority

apply_cursor_scene_opMutant(l, at) ==
    LET rects == IF hardware_cursor THEN <<>> ELSE <<cursor_bounds(at)>>
    IN  /\ layers[l].on
        /\ Moved(l, [layers EXCEPT ![l].at = at, ![l].order = NextOrder], rects)
        /\ priority' = FoldSeq(LAMBDA r, list : queue_cursor_priority_damage(list, r),
                               priority, Reverse(rects))

apply_cursor_scene_op(l, at) ==
    LET rects == IF hardware_cursor THEN <<>>
                 ELSE <<cursor_bounds(layers[l].at), cursor_bounds(at)>>
    IN  /\ layers[l].on
        /\ Moved(l, [layers EXCEPT ![l].at = at, ![l].order = NextOrder], rects)
        /\ priority' = FoldSeq(LAMBDA r, list : queue_cursor_priority_damage(list, r),
                               priority, Reverse(rects))

set_hardware_cursor(active) ==
    LET on == SetToSeq({layers[l].at : l \in Active(layers)})
    IN  /\ hardware_cursor # active
        /\ moves < MaxMoves
        /\ moves' = moves + 1
        /\ hardware_cursor' = active
        /\ damage' = Invalidate([i \in DOMAIN on |-> cursor_bounds(on[i])])
        /\ strayed' = strayed \cup Dropped([i \in DOMAIN on |-> cursor_bounds(on[i])])
        /\ UNCHANGED <<want, background, gui_background, gui_damage, tile, priority, layers, back,
                       fb, presented, seen, lost, edits>>

-----------------------------------------------------------------------------
(* Composition and presentation.                                           *)

Clip(rects) == SelectSeq([i \in DOMAIN rects |-> intersect(rects[i], Screen)],
                         LAMBDA r : ~is_empty(r))

load_gui_damage(rects) == Clip(rects)

Merged(rects) ==
    FoldSeq(LAMBDA r, list : add_damage(list, r).list, <<>>, Reverse(Clip(rects)))

Compose(buffer, pixels) == [p \in Pixels |-> IF p \in pixels THEN want[p] ELSE buffer[p]]

AddPresented(rects) ==
    IF presented.full \/ Len(presented.rects) + Len(rects) > MAX_DISPLAY_PRESENT_RECTS
    THEN [full |-> TRUE, rects |-> <<>>]
    ELSE [full |-> FALSE, rects |-> presented.rects \o rects]

present_damageMutant(buffer, rects) ==
    LET merged == Merged(rects)
        area == InAny(merged)
    IN  [shows |-> [p \in Pixels |-> IF p \in area THEN [v |-> buffer[p], cursor |-> FALSE] ELSE fb[p]],
         told |-> AddPresented(SubSeq(merged, 1, MAX_DISPLAY_PRESENT_RECTS - Len(presented.rects)))]

(***************************************************************************)
(* Copies the damage, merged once more, and remembers it for Core.         *)
(***************************************************************************)
present_damage(buffer, rects) ==
    LET merged == Merged(rects)
        area == InAny(merged)
    IN  [shows |-> [p \in Pixels |-> IF p \in area THEN [v |-> buffer[p], cursor |-> FALSE] ELSE fb[p]],
         told |-> AddPresented(merged)]

present_all(buffer) ==
    [shows |-> [p \in Pixels |-> [v |-> buffer[p], cursor |-> FALSE]],
     told |-> [full |-> TRUE, rects |-> <<>>]]

(***************************************************************************)
(* The pointer drawn again where it meets one of the rectangles.           *)
(***************************************************************************)
render_cursor_layers(shows, rects) ==
    LET drawn == Cursor \cap InAny(rects)
    IN  [p \in Pixels |-> IF p \in drawn THEN [shows[p] EXCEPT !.cursor = TRUE] ELSE shows[p]]

(***************************************************************************)
(* What publish_present hands to Core after a slice.                       *)
(***************************************************************************)
publish_present(shows, told) ==
    /\ LET area == InAny(told.rects)
       IN  seen' = [p \in Pixels |-> IF told.full \/ p \in area THEN shows[p] ELSE seen[p]]
    /\ presented' = [full |-> FALSE, rects |-> <<>>]

(***************************************************************************)
(* A presentation erases the pointer wherever it copies: where the merged  *)
(* rectangle is larger than the damage it is not drawn again.              *)
(***************************************************************************)
Present(copied, rects) ==
    LET shows == render_cursor_layers(copied.shows, rects)
        touched == {p \in Pixels : shows[p] # fb[p]} \cup InAny(rects)
    IN  /\ fb' = shows
        /\ strayed' = (strayed \ touched)
                          \cup {p \in Cursor : fb[p].cursor /\ ~shows[p].cursor}
        /\ publish_present(shows, copied.told)


advance_gui_tile(t, list) ==
    LET rect == list[t.index]
    IN  IF t.x + GUI_TILE_SIZE < Right(rect) THEN [t EXCEPT !.x = @ + GUI_TILE_SIZE]
        ELSE IF t.y + GUI_TILE_SIZE < Bottom(rect)
        THEN [t EXCEPT !.x = rect.x, !.y = @ + GUI_TILE_SIZE]
        ELSE IF t.index < Len(list)
        THEN [index |-> t.index + 1, x |-> list[t.index + 1].x, y |-> list[t.index + 1].y]
        ELSE [t EXCEPT !.index = @ + 1]

Start(list) ==
    IF list = <<>> THEN [index |-> 1, x |-> 0, y |-> 0]
    ELSE [index |-> 1, x |-> list[1].x, y |-> list[1].y]

(***************************************************************************)
(* The tiles of one step: the pixels they cover and where they stop.       *)
(***************************************************************************)
Tiles(t0, list) ==
    FoldSeq(LAMBDA i, acc :
                IF acc.t.index > Len(list) THEN acc
                ELSE [t |-> advance_gui_tile(acc.t, list),
                      pixels |-> acc.pixels \cup
                          In(intersect(Rect(acc.t.x, acc.t.y, GUI_TILE_SIZE, GUI_TILE_SIZE),
                                       list[acc.t.index]))],
            [t |-> t0, pixels |-> {}], [i \in 1..TilesPerStep |-> i])

render_pending == priority # <<>> \/ gui_damage # <<>> \/ damage # <<>>

(***************************************************************************)
(* One slice: a new background drops the damage at hand and fills the      *)
(* backbuffer; damage is taken from the registry when none is at hand;     *)
(* then either the pointer's damage, alone, or the next tiles; after the   *)
(* last tile the damage is presented and the next taken.                   *)
(***************************************************************************)
render_gui ==
    LET changed == background # gui_background
        buffer == IF changed THEN [p \in Pixels |-> Filled] ELSE back
        held == IF changed THEN <<>> ELSE gui_damage
        list == IF held = <<>> THEN load_gui_damage(damage) ELSE held
        at == IF held = <<>> THEN Start(list) ELSE tile
        rest == IF held = <<>> THEN <<>> ELSE damage
        first == Merged(priority)
        step == Tiles(at, list)
    IN  /\ render_pending
        /\ gui_background' = background
        /\ lost' = lost \ InAny(list)
        /\ IF list = <<>>
           THEN /\ back' = buffer
                /\ gui_damage' = <<>> /\ damage' = rest
                /\ IF changed THEN Present(present_all(buffer), <<Screen>>)
                   ELSE UNCHANGED <<fb, strayed, seen, presented>>
                /\ UNCHANGED <<priority, tile>>
           ELSE IF first # <<>>
           THEN /\ back' = Compose(buffer, InAny(first))
                /\ Present(present_damage(back', first), first)
                /\ priority' = <<>>
                /\ gui_damage' = list /\ tile' = at /\ damage' = rest
           ELSE /\ back' = Compose(buffer, step.pixels)
                /\ priority' = <<>>
                /\ IF step.t.index > Len(list)
                   THEN /\ Present(present_damage(back', list), list)
                        /\ gui_damage' = load_gui_damage(rest)
                        /\ tile' = Start(gui_damage')
                        /\ damage' = <<>>
                   ELSE /\ gui_damage' = list /\ tile' = step.t /\ damage' = rest
                        /\ UNCHANGED <<fb, strayed, seen, presented>>
        /\ UNCHANGED <<want, background, layers, hardware_cursor, edits, moves>>

-----------------------------------------------------------------------------

Init ==
    /\ want = [p \in Pixels |-> 0] /\ background = 0 /\ damage = <<>>
    /\ gui_background = 0 /\ gui_damage = <<>> /\ tile = Start(<<>>)
    /\ priority = <<>>
    /\ layers = [l \in Layers |-> [on |-> FALSE, at |-> Centre, order |-> 0]]
    /\ hardware_cursor = FALSE
    /\ back = [p \in Pixels |-> 0]
    /\ fb = [p \in Pixels |-> [v |-> 0, cursor |-> FALSE]]
    /\ presented = [full |-> FALSE, rects |-> <<>>]
    /\ seen = fb
    /\ lost = {} /\ strayed = {}
    /\ edits = 0 /\ moves = 0

Next ==
    \/ \E p \in EditAt : Edit(p)
    \/ ChangeBackground
    \/ \E l \in Layers : register_cursor_surface(l) \/ unregister_cursor_surface(l)
    \/ \E l \in Layers, at \in MoveTo : apply_cursor_scene_op(l, at)
    \/ \E active \in BOOLEAN : set_hardware_cursor(active)
    \/ render_gui

Spec == Init /\ [][Next]_vars

TypeOK ==
    /\ Len(damage) <= MAX_GUI_DAMAGE_RECTS /\ Len(gui_damage) <= MAX_GUI_DAMAGE_RECTS
    /\ Len(priority) <= MAX_GUI_DAMAGE_RECTS
    /\ back \in [Pixels -> Values \cup {Filled}]

-----------------------------------------------------------------------------

(***************************************************************************)
(* When nothing is left to render the framebuffer shows the scene and      *)
(* exactly one pointer, however edits, background changes and pointer      *)
(* motion fell between the tiles.  The exceptions are damage that found    *)
(* the list full and a pointer moved or wiped where nothing was damaged.   *)
(***************************************************************************)
SettledShowsScene ==
    ~render_pending =>
        \A p \in Pixels :
            /\ p \notin lost => fb[p].v = want[p] /\ back[p] = want[p]
            /\ p \notin strayed => (fb[p].cursor <=> p \in Cursor)

(***************************************************************************)
(* Core is told of every pixel the framebuffer changes: what it last       *)
(* copied is what the framebuffer holds, also when more rectangles were    *)
(* presented than the list holds.                                          *)
(***************************************************************************)
PublishedIsComplete == seen = fb

=============================================================================
