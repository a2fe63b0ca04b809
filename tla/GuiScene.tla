------------------------------ MODULE GuiScene ------------------------------
(***************************************************************************)
(* The surface registry of the Display service and its composition         *)
(* (services/display/src/gui.rs, GuiSurfaceRegistry).  Clients create      *)
(* surfaces, stage nodes into a private scene and publish it; every change *)
(* adds a rectangle to a short damage list, and a composition repaints     *)
(* only the damaged part, from a cached plan that skips what an opaque     *)
(* fill hides.  The model keeps the registry, the plan and the pixels, and *)
(* asks whether the pixels are still those of the scene.                   *)
(*                                                                         *)
(* A pixel is the sequence of layers painted on it since the last opaque   *)
(* one, the screen background first.  The composition of one damage list   *)
(* is a single step here; its tiles, the backbuffer and the pointer are in *)
(* Compositor.                                                             *)
(***************************************************************************)
EXTENDS GuiRects, SequencesExt

CONSTANTS
    Slots,                \* surface slots, 0..MAX_GUI_SURFACES-1
    Grids,                \* text-grid stores
    MAX_GUI_DAMAGE_RECTS,
    MAX_GUI_NODES,
    Screen,               \* the framebuffer
    Commands,             \* node id -> draw commands [kind, rect, name]
    Bounds,               \* bounds a client may ask for
    MaxGeneration,        \* bound on surfaces created in a slot
    MaxFrame,             \* bound on frames
    MaxCalls              \* bound on registry calls

VARIABLES
    slots,    \* slot -> surface, or Empty
    gens,     \* slot -> generation
    damage,   \* damage list
    focused,  \* focused surface
    order,    \* stacking counter
    plan,     \* cached render plan
    grids,    \* text-grid stores
    screen,   \* pixel -> layers
    lost,     \* pixels whose damage found the list full
    recast,   \* pixels of nodes drawn in another place or clip, undamaged
    calls

vars == <<slots, gens, damage, focused, order, plan, grids, screen, lost, recast, calls>>

NoHandle == <<0, 0>>   \* <<slot, generation>>, generation 0 is never given

Empty == [gen |-> 0, bounds |-> EMPTY, z |-> 0, order |-> 0,
          active |-> <<>>, staged |-> <<>>, aframe |-> 0, sframe |-> 0]

occupied(s) == slots[s].gen # 0

Handle(s) == <<s, slots[s].gen>>

(***************************************************************************)
(* The text of a row, told apart by the grid it was written for.           *)
(***************************************************************************)
Text(handle, id) == <<handle, id>>

Blank == Text(NoHandle, 0)

Unbound == [surface |-> NoHandle, node |-> 0, rect |-> EMPTY, text |-> Blank]

(***************************************************************************)
(* GuiRect::SURFACE, larger than any screen.                               *)
(***************************************************************************)
SURFACE == Rect(0, 0, 1000, 1000)

command_rect(c) == c.rect

is_surface_fill(c) == c.kind = "FillRect" /\ c.rect = SURFACE

is_opaque_occluder(c) == c.kind = "FillRect"

Pixels == {<<x, y>> : x \in Screen.x..(Right(Screen) - 1), y \in Screen.y..(Bottom(Screen) - 1)}

In(r) == {p \in Pixels : contains(r, p[1], p[2])}

Nodes(scene) == {scene[i] : i \in DOMAIN scene}

-----------------------------------------------------------------------------
(* The damage list.                                                        *)

add_damage(list, rect) == append_present_rect(list, rect, MAX_GUI_DAMAGE_RECTS)

(***************************************************************************)
(* Several rectangles one after the other, stopping at the first that      *)
(* finds the list full, as the ? of the callers does.                      *)
(***************************************************************************)
AddAll(list, rects) ==
    FoldSeq(LAMBDA r, acc : IF acc.ok THEN add_damage(acc.list, r) ELSE acc,
            [list |-> list, ok |-> TRUE], Reverse(rects))

(***************************************************************************)
(* The pixels of the rectangles a full list refused or never reached.      *)
(***************************************************************************)
Missed(list, rects) ==
    UNION {In(rects[i]) : i \in DOMAIN rects}
        \ UNION {In(AddAll(list, rects).list[i]) : i \in DOMAIN AddAll(list, rects).list}

(***************************************************************************)
(* Adds the rectangles; what does not fit is remembered as lost.           *)
(***************************************************************************)
Damage(rects) ==
    /\ damage' = AddAll(damage, rects).list
    /\ lost' = lost \cup Missed(damage, rects)

-----------------------------------------------------------------------------
(* The scene as it should look.                                            *)

Below(a, b) == slots[a].z < slots[b].z \/ (slots[a].z = slots[b].z /\ slots[a].order < slots[b].order)

Stack == SetToSortSeq({s \in Slots : occupied(s)}, Below)

RootBounds ==
    LET roots == {s \in Slots : occupied(s) /\ slots[s].z = 0}
    IN  IF roots = {} THEN EMPTY ELSE slots[CHOOSE s \in roots : TRUE].bounds

is_surface_background(c, bounds) ==
    /\ bounds = RootBounds
    /\ c.kind = "FillRect"
    /\ c.rect \in {SURFACE, bounds}

(***************************************************************************)
(* The colour of the topmost surface that fills the whole root.            *)
(***************************************************************************)
background_color ==
    LET fills(s) == SelectSeq(slots[s].active, LAMBDA n : is_surface_background(n.cmd, slots[s].bounds))
        with == SelectSeq(Stack, LAMBDA s : fills(s) # <<>>)
    IN  IF with = <<>> THEN "none" ELSE fills(Last(with))[1].cmd.name

GridOf(s) == {g \in Grids : grids[g].surface = Handle(s)}

(***************************************************************************)
(* The layer a node paints: a grid shows the text of its surface's store.  *)
(***************************************************************************)
LayerOf(c, grid) ==
    [name |-> c.name, text |-> IF c.kind = "TextGrid" THEN grid ELSE <<>>]

TextOf(s) == IF GridOf(s) = {} THEN Blank ELSE grids[CHOOSE g \in GridOf(s) : TRUE].text

Over(below, c, text) ==
    CASE is_surface_fill(c) -> <<[name |-> background_color, text |-> <<>>]>>
      [] c.kind = "Tint" -> Append(below, LayerOf(c, <<>>))
      [] OTHER -> <<LayerOf(c, text)>>

(***************************************************************************)
(* One node over what is below it, under the clips seen so far.  A surface *)
(* fill shows the screen background, which is what the code paints for it. *)
(***************************************************************************)
PaintNode(p, text, n, acc) ==
    IF n.cmd.kind = "ClipRect"
    THEN [acc EXCEPT !.clip = intersect(@, n.cmd.rect)]
    ELSE IF contains(intersect(acc.clip, n.cmd.rect), p[1], p[2])
    THEN [acc EXCEPT !.layers = Over(@, n.cmd, text)]
    ELSE acc

Composed(p) ==
    LET surface(s, layers) ==
            FoldSeq(LAMBDA n, acc : PaintNode(p, TextOf(s), n, acc),
                    [clip |-> slots[s].bounds, layers |-> layers],
                    Reverse(slots[s].active)).layers
    IN  FoldSeq(LAMBDA s, layers : surface(s, layers),
                <<[name |-> background_color, text |-> <<>>]>>, Reverse(Stack))

-----------------------------------------------------------------------------
(* The cached plan and the composition.                                    *)

append_plan_entryMutant(s, n, acc) ==
    LET clipped == intersect(acc.clip, command_rect(n.cmd))
        hides == is_opaque_occluder(n.cmd)
    IN  IF n.cmd.kind = "ClipRect" THEN [acc EXCEPT !.clip = clipped]
        ELSE [acc EXCEPT
                !.occluders = IF hides THEN Append(@, command_rect(n.cmd)) ELSE @,
                !.entries = Append(@, [cmd |-> n.cmd, clip |-> acc.clip, grid |-> GridOf(s),
                                       start |-> Len(acc.occluders) + IF hides THEN 1 ELSE 0])]

(***************************************************************************)
(* A node's entry: the clip it was reached with, its surface's text store, *)
(* and where the occluders above it start.                                 *)
(***************************************************************************)
append_plan_entry(s, n, acc) ==
    LET clipped == intersect(acc.clip, command_rect(n.cmd))
        hides == is_opaque_occluder(n.cmd)
    IN  IF n.cmd.kind = "ClipRect" THEN [acc EXCEPT !.clip = clipped]
        ELSE [acc EXCEPT
                !.occluders = IF hides THEN Append(@, clipped) ELSE @,
                !.entries = Append(@, [cmd |-> n.cmd, clip |-> acc.clip, grid |-> GridOf(s),
                                       start |-> Len(acc.occluders) + IF hides THEN 1 ELSE 0])]

PlanSurface(s, acc) ==
    FoldSeq(LAMBDA n, a : append_plan_entry(s, n, a),
            [acc EXCEPT !.clip = slots[s].bounds], Reverse(slots[s].active))

NoPlan == [valid |-> FALSE, entries |-> <<>>, occluders |-> <<>>]

ensure_plan ==
    LET built == FoldSeq(LAMBDA s, acc : PlanSurface(s, acc),
                         [clip |-> EMPTY, entries |-> <<>>, occluders |-> <<>>], Reverse(Stack))
    IN  IF plan.valid THEN plan
        ELSE [valid |-> TRUE, entries |-> built.entries, occluders |-> built.occluders]

(***************************************************************************)
(* What is left of a rectangle once the occluders above are cut out of it, *)
(* in a fixed array of pieces.                                             *)
(***************************************************************************)
Cut(visible, occluder) ==
    LET pieces == FlattenSeq([i \in DOMAIN visible |-> subtract_rect(visible[i], occluder)])
    IN  SubSeq(pieces, 1, Min({Len(pieces), 4 * MAX_GUI_DAMAGE_RECTS}))

Visible(rect, occluders) ==
    FoldSeq(LAMBDA o, visible : Cut(visible, o), <<rect>>, Reverse(occluders))

(***************************************************************************)
(* One entry drawn into the damaged rectangles; a surface fill is the      *)
(* background and draws nothing.                                           *)
(***************************************************************************)
render_one(pixels, entry, occluders, rects) ==
    LET clip == intersect(entry.clip, command_rect(entry.cmd))
        parts == FlattenSeq([i \in DOMAIN rects |->
                     LET r == intersect(clip, rects[i])
                     IN  IF is_empty(r) THEN <<>> ELSE Visible(r, occluders)])
        text == IF entry.grid = {} THEN Blank ELSE grids[CHOOSE g \in entry.grid : TRUE].text
        hits(p) == Cardinality({i \in DOMAIN parts : contains(parts[i], p[1], p[2])})
    IN  IF is_surface_fill(entry.cmd) THEN pixels
        ELSE [p \in Pixels |->
                 IF hits(p) = 0 THEN pixels[p]
                 ELSE IF entry.cmd.kind = "Tint"
                 THEN pixels[p] \o [i \in 1..hits(p) |-> LayerOf(entry.cmd, <<>>)]
                 ELSE <<LayerOf(entry.cmd, text)>>]

compose(the_plan, pixels, rects) ==
    FoldSeq(LAMBDA e, px : render_one(px, e, SubSeq(the_plan.occluders, e.start + 1,
                                                    Len(the_plan.occluders)), rects),
            pixels, Reverse(the_plan.entries))

-----------------------------------------------------------------------------
(* Registry calls.                                                         *)

Called == calls < MaxCalls /\ calls' = calls + 1

(***************************************************************************)
(* A new surface takes the first free slot under a new generation.  The    *)
(* slot is taken even when the damage list is full and the caller is told  *)
(* so.                                                                     *)
(***************************************************************************)
create(bounds, z) ==
    LET free == {s \in Slots : ~occupied(s)}
        s == Min(free)
    IN  /\ Called
        /\ free # {}
        /\ IF z = 0 THEN RootBounds = EMPTY ELSE RootBounds # EMPTY
        /\ gens[s] < MaxGeneration
        /\ gens' = [gens EXCEPT ![s] = @ + 1]
        /\ order' = order + 1
        /\ slots' = [slots EXCEPT ![s] = [Empty EXCEPT !.gen = gens[s] + 1, !.bounds = bounds,
                                                       !.z = z, !.order = order + 1]]
        /\ plan' = NoPlan
        /\ Damage(<<bounds>>)
        /\ UNCHANGED <<focused, grids, screen, recast>>

is_older_frame(frame, current) == current # 0 /\ frame < current

Index(scene, id) == SelectInSeq(scene, LAMBDA n : n.id = id)

StagedAfter(scene, op) ==
    CASE op.kind = "Clear" -> <<>>
      [] op.kind = "Commit" -> scene
      [] op.kind = "Remove" ->
             IF Index(scene, op.id) = 0 THEN scene ELSE RemoveAt(scene, Index(scene, op.id))
      [] op.kind = "Upsert" ->
             IF Index(scene, op.id) # 0
             THEN [scene EXCEPT ![Index(scene, op.id)] = [id |-> op.id, cmd |-> op.cmd]]
             ELSE IF Len(scene) = MAX_GUI_NODES THEN scene
             ELSE Append(scene, [id |-> op.id, cmd |-> op.cmd])

(***************************************************************************)
(* The rectangles a publication damages: where a node was and is no more   *)
(* the same, then where a node is that was not the same.                   *)
(***************************************************************************)
ChangedRects(old, new) ==
    LET gone == SelectSeq(old, LAMBDA n : n \notin Nodes(new))
        come == SelectSeq(new, LAMBDA n : n \notin Nodes(old))
    IN  [i \in DOMAIN gone |-> gone[i].cmd.rect] \o [i \in DOMAIN come |-> come[i].cmd.rect]

ClipsBefore(scene, n) ==
    {scene[i].cmd : i \in {j \in 1..(Index(scene, n.id) - 1) : scene[j].cmd.kind = "ClipRect"}}

(***************************************************************************)
(* The pixels of nodes that kept their commands but changed places with    *)
(* another such node, or now follow other clips: they are drawn            *)
(* differently and damaged by nobody.                                      *)
(***************************************************************************)
RecastPixels(old, new) ==
    LET kept == Nodes(old) \cap Nodes(new)
        swapped(a) == \E b \in kept :
                         (Index(old, a.id) < Index(old, b.id)) # (Index(new, a.id) < Index(new, b.id))
    IN  UNION {In(n.cmd.rect) : n \in {a \in kept : swapped(a) \/ ClipsBefore(old, a) # ClipsBefore(new, a)}}

GridNode(scene) == SelectSeq(scene, LAMBDA n : n.cmd.kind = "TextGrid")

sync_text_gridMutant(handle, found) ==
    LET own == {g \in Grids : grids[g].surface = handle}
        free == {g \in Grids : grids[g].surface = NoHandle}
        g == Min(IF own # {} THEN own ELSE free)
    IN  IF found = <<>>
        THEN [x \in Grids |-> IF x \in own THEN Unbound ELSE grids[x]]
        ELSE IF own \cup free = {} THEN grids
        ELSE [grids EXCEPT ![g] = [surface |-> handle, node |-> found[1].id,
                                   rect |-> found[1].cmd.rect, text |-> @.text]]

(***************************************************************************)
(* The surface's store follows its grid node: taken when there is one,     *)
(* blanked when the node is another one, freed when there is none.         *)
(***************************************************************************)
sync_text_grid(handle, found) ==
    LET own == {g \in Grids : grids[g].surface = handle}
        free == {g \in Grids : grids[g].surface = NoHandle}
        g == Min(IF own # {} THEN own ELSE free)
    IN  IF found = <<>>
        THEN [x \in Grids |-> IF x \in own THEN Unbound ELSE grids[x]]
        ELSE IF own \cup free = {} THEN grids
        ELSE [grids EXCEPT ![g] = [surface |-> handle, node |-> found[1].id,
                                   rect |-> found[1].cmd.rect,
                                   text |-> IF @.node = found[1].id THEN @.text ELSE Blank]]

(***************************************************************************)
(* A publication damages first, and gives up when the list is full or no   *)
(* text store is free: then the frame stays staged.                        *)
(***************************************************************************)
publish_scene(s, staged, frame) ==
    LET rects == ChangedRects(slots[s].active, staged)
        found == GridNode(staged)
        room == \/ found = <<>>
                \/ \E g \in Grids : grids[g].surface \in {Handle(s), NoHandle}
        ok == AddAll(damage, rects).ok /\ room
    IN  /\ damage' = AddAll(damage, rects).list
        /\ IF ok
           THEN /\ slots' = [slots EXCEPT ![s].active = staged, ![s].staged = staged,
                                          ![s].aframe = frame, ![s].sframe = 0]
                /\ plan' = NoPlan
                /\ grids' = sync_text_grid(Handle(s), found)
                /\ recast' = recast \cup RecastPixels(slots[s].active, staged)
           ELSE /\ slots' = [slots EXCEPT ![s].staged = staged, ![s].sframe = frame]
                /\ UNCHANGED <<plan, grids, recast>>

(***************************************************************************)
(* One scene operation: staged on the frame it names, which starts from    *)
(* the published scene, and published unless more follows.  An Upsert that *)
(* finds the scene full returns before that.                               *)
(***************************************************************************)
apply_scene_op(s, op) ==
    LET base == IF slots[s].sframe = op.frame THEN slots[s].staged ELSE slots[s].active
        staged == StagedAfter(base, op)
        refused == op.kind = "Upsert" /\ Index(base, op.id) = 0 /\ Len(base) = MAX_GUI_NODES
    IN  /\ Called
        /\ occupied(s)
        /\ ~is_older_frame(op.frame, slots[s].aframe)
        /\ ~is_older_frame(op.frame, slots[s].sframe)
        /\ IF op.more \/ refused
           THEN /\ slots' = [slots EXCEPT ![s].staged = staged, ![s].sframe = op.frame]
                /\ UNCHANGED <<damage, plan, grids, recast>>
           ELSE publish_scene(s, staged, op.frame)
        /\ UNCHANGED <<gens, focused, order, screen, lost>>

set_text_grid_row(s, id) ==
    /\ Called
    /\ occupied(s)
    /\ \E g \in Grids :
        /\ grids[g].surface = Handle(s)
        /\ grids[g].node = id
        /\ grids' = [grids EXCEPT ![g].text = Text(Handle(s), id)]
        /\ Damage(<<grids[g].rect>>)
    /\ UNCHANGED <<slots, gens, focused, order, plan, screen, recast>>

focusMutant(s) ==
    /\ Called
    /\ occupied(s)
    /\ focused # Handle(s)
    /\ order' = order + 1
    /\ slots' = [slots EXCEPT ![s].order = order + 1]
    /\ focused' = Handle(s)
    /\ Damage((IF focused = NoHandle THEN <<>> ELSE <<slots[focused[1]].bounds>>)
              \o <<slots[s].bounds>>)
    /\ UNCHANGED <<gens, plan, grids, screen, recast>>

(***************************************************************************)
(* The focused surface comes to the front of its layer.                    *)
(***************************************************************************)
focus(s) ==
    /\ Called
    /\ occupied(s)
    /\ focused # Handle(s)
    /\ order' = order + 1
    /\ slots' = [slots EXCEPT ![s].order = order + 1]
    /\ focused' = Handle(s)
    /\ plan' = NoPlan
    /\ Damage((IF focused = NoHandle THEN <<>> ELSE <<slots[focused[1]].bounds>>)
              \o <<slots[s].bounds>>)
    /\ UNCHANGED <<gens, grids, screen, recast>>

set_bounds(s, bounds) ==
    /\ Called
    /\ occupied(s)
    /\ slots[s].bounds # bounds
    /\ slots' = [slots EXCEPT ![s].bounds = bounds]
    /\ plan' = NoPlan
    /\ Damage(<<slots[s].bounds, bounds>>)
    /\ UNCHANGED <<gens, focused, order, grids, screen, recast>>

destroy(s) ==
    /\ Called
    /\ occupied(s)
    /\ focused' = IF focused = Handle(s) THEN NoHandle ELSE focused
    /\ slots' = [slots EXCEPT ![s] = Empty]
    /\ plan' = NoPlan
    /\ grids' = [g \in Grids |-> IF grids[g].surface = Handle(s) THEN Unbound ELSE grids[g]]
    /\ Damage(<<slots[s].bounds>>)
    /\ UNCHANGED <<gens, order, screen, recast>>

(***************************************************************************)
(* The compositor takes the damage, fills it with the background and draws *)
(* the plan into it.                                                       *)
(***************************************************************************)
render ==
    LET dirty == UNION {In(damage[i]) : i \in DOMAIN damage}
        filled == [p \in Pixels |-> IF p \in dirty THEN <<[name |-> background_color, text |-> <<>>]>>
                                    ELSE screen[p]]
    IN  /\ damage # <<>>
        /\ plan' = ensure_plan
        /\ screen' = compose(plan', filled, damage)
        /\ damage' = <<>>
        /\ lost' = lost \ dirty
        /\ recast' = recast \ dirty
        /\ UNCHANGED <<slots, gens, focused, order, grids, calls>>

-----------------------------------------------------------------------------

(***************************************************************************)
(* The root surface is up with its background when clients arrive: the     *)
(* Display image creates it before it serves anyone.                       *)
(***************************************************************************)
Root == [Empty EXCEPT !.gen = 1, !.bounds = Screen, !.order = 1, !.aframe = 1,
                      !.active = <<[id |-> 1, cmd |-> [kind |-> "FillRect", rect |-> SURFACE,
                                                       name |-> "desk"]]>>]

Init ==
    /\ slots = [s \in Slots |-> IF s = 0 THEN Root ELSE Empty]
    /\ gens = [s \in Slots |-> IF s = 0 THEN 1 ELSE 0]
    /\ damage = <<>>
    /\ focused = NoHandle
    /\ order = 1
    /\ plan = NoPlan
    /\ grids = [g \in Grids |-> Unbound]
    /\ screen = [p \in Pixels |-> <<[name |-> "desk", text |-> <<>>]>>]
    /\ lost = {}
    /\ recast = {}
    /\ calls = 0

Ops(s) ==
    LET frames == {f \in 1..MaxFrame : f \in {slots[s].aframe + 1, slots[s].sframe}}
    IN  {[kind |-> "Upsert", id |-> id, cmd |-> c, frame |-> f, more |-> m] :
             id \in DOMAIN Commands, c \in UNION {Commands[i] : i \in DOMAIN Commands},
             f \in frames, m \in BOOLEAN}
        \cup {[kind |-> k, id |-> id, cmd |-> <<>>, frame |-> f, more |-> m] :
                  k \in {"Remove", "Clear", "Commit"}, id \in DOMAIN Commands,
                  f \in frames, m \in BOOLEAN}

(***************************************************************************)
(* Commands come with the node id they are used for; Clear and Commit name *)
(* node 1 and end a frame or not.                                          *)
(***************************************************************************)
Sendable(op) ==
    CASE op.kind = "Upsert" -> op.cmd \in Commands[op.id]
      [] op.kind = "Remove" -> TRUE
      [] op.kind = "Clear" -> op.id = 1 /\ op.more
      [] op.kind = "Commit" -> op.id = 1 /\ ~op.more

Next ==
    \/ \E b \in Bounds : create(b, 1)
    \/ \E s \in Slots \ {0} :
        \/ \E op \in Ops(s) : Sendable(op) /\ apply_scene_op(s, op)
        \/ \E id \in DOMAIN Commands : set_text_grid_row(s, id)
        \/ focus(s)
        \/ \E b \in Bounds : set_bounds(s, b)
        \/ destroy(s)
    \/ render

Spec == Init /\ [][Next]_vars

TypeOK == Len(damage) <= MAX_GUI_DAMAGE_RECTS /\ calls \in 0..MaxCalls

-----------------------------------------------------------------------------

DamagedOrExcused ==
    lost \cup recast \cup UNION {In(damage[i]) : i \in DOMAIN damage}

(***************************************************************************)
(* A pixel painted twice by two damage rectangles that overlap, at most    *)
(* once per rectangle: only tints show it.                                 *)
(***************************************************************************)
SameUpToDoubleTint(got, want) ==
    LET once(layers) == FoldSeq(LAMBDA l, acc : IF acc # <<>> /\ Last(acc) = l THEN acc
                                                ELSE Append(acc, l), <<>>, Reverse(layers))
    IN  once(got) = once(want)

(***************************************************************************)
(* Outside the damage still to be composed, every pixel shows the          *)
(* published scene: the stacking of surfaces, clips, tints, text grids and *)
(* the background, whatever was created, published, moved, focused or      *)
(* destroyed since.  The exceptions are a damage list that was full, nodes *)
(* that only changed places or clips, and a tint that overlapping damage rectangles *)
(* blend twice.                                                            *)
(***************************************************************************)
ScreenShowsScene ==
    \A p \in Pixels \ DamagedOrExcused : SameUpToDoubleTint(screen[p], Composed(p))

(***************************************************************************)
(* Text stores belong to live surfaces, one each, and are bound to the     *)
(* text-grid node of the published scene; text written for one grid is     *)
(* never shown by another.                                                 *)
(***************************************************************************)
GridsFollowScenes ==
    /\ \A g \in Grids : grids[g].surface # NoHandle =>
        LET s == grids[g].surface[1]
        IN  /\ occupied(s) /\ Handle(s) = grids[g].surface
            /\ GridNode(slots[s].active) # <<>>
            /\ GridNode(slots[s].active)[1].id = grids[g].node
            /\ grids[g].text \in {Blank, Text(grids[g].surface, grids[g].node)}
            /\ \A h \in Grids \ {g} : grids[h].surface # grids[g].surface
    /\ \A s \in Slots : occupied(s) /\ GridNode(slots[s].active) # <<>> => GridOf(s) # {}

=============================================================================
