---------------------------- MODULE AtriumLayout ----------------------------
(***************************************************************************)
(* Atrium's window layout (services/atrium/src/lib.rs): the surfaces, the  *)
(* tree of splits kept in a fixed arena of nodes, and the focus.  Programs *)
(* and keys close panes, split them, move the focused one and drag a       *)
(* splitter, while Display is still creating a surface that was asked for  *)
(* when the tree looked different.                                         *)
(*                                                                         *)
(* A surface is named by its slot: a slot is filled only by spawn_surface, *)
(* and one request is outstanding at a time, so within a request a slot    *)
(* stands for the surface's id.  Every surface is tiled, so focus_order,   *)
(* which decides between overlapping surfaces, is left out.                *)
(***************************************************************************)
EXTENDS Integers, Sequences, FiniteSets, FiniteSetsExt

CONSTANTS
  MAX_ATRIUM_SURFACES,
  Desktop,          \* DESKTOP_SURFACE_BOUNDS
  MIN_PANE_WIDTH, MIN_PANE_HEIGHT,
  Deltas,           \* how far a splitter is dragged in one move
  MaxChanges        \* bound: how often the user changes the layout

VARIABLES
  surfaces,   \* slot -> bounds of the surface there, or <<>>
  nodes,      \* layout_nodes: <<>>, or <<node>>
  root,       \* layout_root, 0 for none
  focused,    \* focused, 0 for none
  flags,      \* slots whose surface has its focused flag set
  nextSplit,  \* next_split
  capture,    \* splitter_capture, 0 for none
  pending,    \* the surface request Display is working on, or <<>>
  panicked,   \* the service stopped in a panic
  changes     \* how often the layout was changed

vars == <<surfaces, nodes, root, focused, flags, nextSplit, capture, pending, panicked, changes>>

Slots == 1..MAX_ATRIUM_SURFACES
Nodes == 1..(MAX_ATRIUM_SURFACES * 2 - 1)
DEFAULT_SPLIT_RATIO == 512
Live == {s \in Slots : surfaces[s] # <<>>}

Leaf(parent, id) == [split |-> FALSE, parent |-> parent, id |-> id]
Split(parent, direction, ratio, first, second) ==
  [split |-> TRUE, parent |-> parent, direction |-> direction, ratio |-> ratio,
   first |-> first, second |-> second]

Rect(x, y, w, h) == [x |-> x, y |-> y, w |-> w, h |-> h]
Clamp(v, low, high) == IF v < low THEN low ELSE IF v > high THEN high ELSE v

----------------------------------------------------------------------------
\* Geometry.

ShareMutant(length, minimum, ratio) ==
  IF length < minimum * 2 THEN minimum
  ELSE Clamp((length * ratio) \div 1024, minimum, length - minimum)

\* The first part of a length split by ratio: halves when the parts cannot
\* both have the minimum, else the share, kept within the minimum.
Share(length, minimum, ratio) ==
  IF length < minimum * 2 THEN length \div 2
  ELSE Clamp((length * ratio) \div 1024, minimum, length - minimum)

split_rect_with_ratio(b, direction, ratio) ==
  IF direction = "Vertical"
  THEN LET w == Share(b.w, MIN_PANE_WIDTH, ratio)
       IN <<Rect(b.x, b.y, w, b.h), Rect(b.x + w, b.y, b.w - w, b.h)>>
  ELSE LET h == Share(b.h, MIN_PANE_HEIGHT, ratio)
       IN <<Rect(b.x, b.y, b.w, h), Rect(b.x, b.y + h, b.w, b.h - h)>>

\* Where each node reachable from n lies, when n has bounds b.
RECURSIVE Placed(_, _, _)
Placed(t, n, b) ==
  LET here == [node |-> n, bounds |-> b] IN
  IF t[n] = <<>> THEN {}
  ELSE IF ~t[n][1].split THEN {here}
  ELSE LET parts == split_rect_with_ratio(b, t[n][1].direction, t[n][1].ratio)
       IN {here} \cup Placed(t, t[n][1].first, parts[1]) \cup Placed(t, t[n][1].second, parts[2])
Layout(t, r) == IF r = 0 THEN {} ELSE Placed(t, r, Desktop)
node_bounds(t, r, n) == (CHOOSE p \in Layout(t, r) : p.node = n).bounds

\* recompute_layout: every surface in a reachable leaf takes its bounds.
recompute_layout(t, r, s) ==
  LET placed == Layout(t, r) IN
  [k \in Slots |->
     LET at == {p \in placed : ~t[p.node][1].split /\ t[p.node][1].id = k} IN
     IF s[k] = <<>> \/ at = {} THEN s[k] ELSE <<(CHOOSE p \in at : TRUE).bounds>>]

----------------------------------------------------------------------------
\* The arena.

\* Depth-first order decides which of several leaves is found.
RECURSIVE Leaves(_, _)
Leaves(t, n) ==
  IF n = 0 \/ t[n] = <<>> THEN <<>>
  ELSE IF t[n][1].split THEN Leaves(t, t[n][1].first) \o Leaves(t, t[n][1].second)
  ELSE <<n>>
FirstLeaf(t, r, id) ==
  LET found == SelectSeq(Leaves(t, r), LAMBDA n : t[n][1].id = id)
  IN IF found = <<>> THEN 0 ELSE found[1]
find_leaf(t, r, id) == FirstLeaf(t, r, id)
find_empty_leaf(t, r) == FirstLeaf(t, r, 0)

Vacant(t) == {n \in Nodes : t[n] = <<>>}

\* A leaf becomes a split of two new leaves: what it showed, and `id`.
Divided(t, leaf, direction, shown, id) ==
  LET first == Min(Vacant(t))
      second == Min(Vacant(t) \ {first})
  IN [t EXCEPT ![first] = <<Leaf(leaf, shown)>>, ![second] = <<Leaf(leaf, id)>>,
               ![leaf] = <<Split(t[leaf][1].parent, direction, DEFAULT_SPLIT_RATIO, first, second)>>]
CanDivide(t) == Cardinality(Vacant(t)) >= 2

\* insert_layout_leaf: [ok, nodes, root].
insert_layout_leaf(id, target, anchor, direction) ==
  LET none == [ok |-> FALSE, nodes |-> nodes, root |-> root] IN
  IF root = 0
  THEN LET n == Min(Vacant(nodes))
       IN [ok |-> TRUE, nodes |-> [nodes EXCEPT ![n] = <<Leaf(0, id)>>], root |-> n]
  ELSE IF target # 0
  THEN IF nodes[target] # <<>> /\ ~nodes[target][1].split /\ nodes[target][1].id = 0
       THEN [ok |-> TRUE, nodes |-> [nodes EXCEPT ![target] = <<Leaf(@[1].parent, id)>>], root |-> root]
       ELSE none
  ELSE IF anchor = 0 \/ find_leaf(nodes, root, anchor) = 0 \/ ~CanDivide(nodes) THEN none
  ELSE [ok |-> TRUE,
        nodes |-> Divided(nodes, find_leaf(nodes, root, anchor), direction, anchor, id),
        root |-> root]

AdoptedMutant(t, parent, sibling) == t

\* The node that replaces a removed leaf's parent, its children's parents set.
Adopted(t, parent, sibling) ==
  LET n == t[sibling][1] IN
  IF n.split
  THEN [t EXCEPT ![n.first] = <<[@[1] EXCEPT !.parent = parent]>>,
                 ![n.second] = <<[@[1] EXCEPT !.parent = parent]>>]
  ELSE t

\* remove_layout_leaf_node: the sibling takes the parent's place.
remove_layout_leaf_node(t, r, leaf) ==
  LET parent == t[leaf][1].parent IN
  IF parent = 0
  THEN [nodes |-> [t EXCEPT ![leaf] = <<>>], root |-> 0]
  ELSE LET p == t[parent][1]
           sibling == IF p.first = leaf THEN p.second ELSE p.first
           moved == [t[sibling][1] EXCEPT !.parent = p.parent]
       IN [nodes |-> [Adopted(t, parent, sibling) EXCEPT ![parent] = <<moved>>,
                                                         ![leaf] = <<>>, ![sibling] = <<>>],
           root |-> IF p.parent = 0 THEN parent ELSE r]

----------------------------------------------------------------------------
\* Requests and surfaces.

Init ==
  /\ surfaces = [s \in Slots |-> <<>>] /\ nodes = [n \in Nodes |-> <<>>]
  /\ root = 0 /\ focused = 0 /\ flags = {} /\ nextSplit = "Vertical"
  /\ capture = 0 /\ pending = <<>> /\ panicked = FALSE /\ changes = 0

can_split_focused(direction) ==
  /\ focused # 0 /\ find_leaf(nodes, root, focused) # 0
  /\ LET b == node_bounds(nodes, root, find_leaf(nodes, root, focused))
     IN IF direction = "Vertical" THEN b.w >= MIN_PANE_WIDTH * 2 ELSE b.h >= MIN_PANE_HEIGHT * 2

\* request_surface, then the create request to Display.
request_surface ==
  /\ ~panicked /\ pending = <<>> /\ Live # Slots
  /\ LET target == find_empty_leaf(nodes, root) IN
     /\ target # 0 \/ root = 0 \/ can_split_focused(nextSplit)
     /\ pending' = <<[anchor |-> focused, target |-> target, direction |-> nextSplit]>>
  /\ UNCHANGED <<surfaces, nodes, root, focused, flags, nextSplit, capture, panicked>>

\* spawn_surface on Display's answer: refused when the focus has moved since
\* the request, or when its place in the tree is gone.
AnchorHolds(request) == request.anchor = focused
spawn_surface ==
  /\ ~panicked /\ pending # <<>>
  /\ pending' = <<>>
  /\ LET request == pending[1]
         slot == Min(Slots \ Live)
         placed == insert_layout_leaf(slot, request.target, request.anchor, request.direction)
     IN IF AnchorHolds(request) /\ placed.ok
        THEN /\ nodes' = placed.nodes /\ root' = placed.root
             /\ surfaces' = recompute_layout(placed.nodes, placed.root,
                                             [surfaces EXCEPT ![slot] = <<Desktop>>])
             /\ focused' = slot /\ flags' = {slot}
        ELSE UNCHANGED <<surfaces, nodes, root, focused, flags>>
  /\ UNCHANGED <<nextSplit, capture, panicked>>

\* Display refused the surface, or answers while the desktop is locked.
Refused ==
  /\ ~panicked /\ pending # <<>> /\ pending' = <<>>
  /\ UNCHANGED <<surfaces, nodes, root, focused, flags, nextSplit, capture, panicked>>

\* focus_next from slot f (0 for none): the next live slot in that direction.
FocusNext(live, f, step) ==
  IF live = {} THEN f
  ELSE IF f = 0 THEN Min(live)
  ELSE LET at(k) == ((f - 1 + step * k) % MAX_ATRIUM_SURFACES) + 1
       IN at(Min({k \in Slots : at(k) \in live}))

\* close_reference and close_focused: the leaf is removed, and the focus
\* moves on when it was there.
close_reference(s) ==
  /\ ~panicked /\ s \in Live
  /\ LET after == remove_layout_leaf_node(nodes, root, find_leaf(nodes, root, s))
         left == [surfaces EXCEPT ![s] = <<>>]
         live == Live \ {s}
     IN /\ nodes' = after.nodes /\ root' = after.root
        /\ surfaces' = recompute_layout(after.nodes, after.root, left)
        /\ focused' = IF focused = s THEN FocusNext(live, 0, 1) ELSE focused
        /\ flags' = IF focused = s /\ live # {} THEN {FocusNext(live, 0, 1)} ELSE flags \ {s}
  /\ UNCHANGED <<nextSplit, capture, pending, panicked>>

focus(s) ==
  /\ ~panicked /\ s \in Live
  /\ focused' = s /\ flags' = {s}
  /\ UNCHANGED <<surfaces, nodes, root, nextSplit, capture, pending, panicked>>

focus_next(step) ==
  /\ ~panicked /\ Live # {}
  /\ focused' = FocusNext(Live, focused, step) /\ flags' = {FocusNext(Live, focused, step)}
  /\ UNCHANGED <<surfaces, nodes, root, nextSplit, capture, pending, panicked>>

\* AtriumAction::Split: an empty pane beside the focused surface, one at a
\* time, whatever the room.
split_focused(direction) ==
  /\ ~panicked /\ nextSplit' = direction
  /\ IF focused = 0 \/ find_empty_leaf(nodes, root) # 0 \/ ~CanDivide(nodes)
     THEN UNCHANGED <<surfaces, nodes>>
     ELSE /\ nodes' = Divided(nodes, find_leaf(nodes, root, focused), direction, focused, 0)
          /\ surfaces' = recompute_layout(nodes', root, surfaces)
  /\ UNCHANGED <<root, focused, flags, capture, pending, panicked>>

\* directional_leaf: the nearest leaf whose centre lies that way, aligned
\* ones first.
Centre(b) == <<b.x + (b.w \div 2), b.y + (b.h \div 2)>>
Abs(v) == IF v < 0 THEN -v ELSE v
Overlap(a, la, b, lb) == a < b + lb /\ b < a + la
Distance(from, to, d) ==
  LET c == Centre(from)
      t == Centre(to)
      across == d \in {"Left", "Right"}
      aligned == IF across THEN Overlap(from.y, from.h, to.y, to.h)
                 ELSE Overlap(from.x, from.w, to.x, to.w)
      primary == CASE d = "Left" -> c[1] - t[1] [] d = "Right" -> t[1] - c[1]
                   [] d = "Up" -> c[2] - t[2] [] OTHER -> t[2] - c[2]
      secondary == IF across THEN Abs(c[2] - t[2]) ELSE Abs(c[1] - t[1])
  IN [ahead |-> primary > 0,
      rank |-> (IF aligned THEN 0 ELSE 1000000) + primary * 1000 + secondary]
directional_leaf(t, s, d) ==
  LET from == node_bounds(t, root, find_leaf(t, root, s))
      others == {p \in Layout(t, root) : ~t[p.node][1].split /\ t[p.node][1].id # s
                                         /\ Distance(from, p.bounds, d).ahead}
      rank(p) == Distance(from, p.bounds, d).rank
  IN IF others = {} THEN 0
     ELSE Min({p.node : p \in {q \in others : \A o \in others : rank(q) <= rank(o)}})

\* move_surface_to_leaf: the two leaves swap what they show; a source left
\* empty is collapsed.
move_surface_to_leaf(t, s, target, collapse) ==
  LET current == find_leaf(t, root, s)
      shown == t[target][1].id
      swapped == [t EXCEPT ![current] = <<Leaf(@[1].parent, shown)>>,
                           ![target] = <<Leaf(@[1].parent, s)>>]
  IN IF collapse /\ shown = 0 THEN remove_layout_leaf_node(swapped, root, current)
     ELSE [nodes |-> swapped, root |-> root]

move_focused_in_direction(d) ==
  /\ ~panicked /\ focused # 0
  /\ LET target == directional_leaf(nodes, focused, d)
         direction == IF d \in {"Left", "Right"} THEN "Vertical" ELSE "Horizontal"
         divided == Divided(nodes, find_leaf(nodes, root, focused), direction, focused, 0)
         after == IF target # 0 THEN move_surface_to_leaf(nodes, focused, target, TRUE)
                  ELSE IF d \in {"Right", "Down"}
                  THEN move_surface_to_leaf(divided, focused, directional_leaf(divided, focused, d), FALSE)
                  ELSE [nodes |-> divided, root |-> root]
     IN /\ target # 0 \/ (can_split_focused(direction) /\ CanDivide(nodes))
        /\ nodes' = after.nodes /\ root' = after.root
        /\ surfaces' = recompute_layout(after.nodes, after.root, surfaces)
  /\ UNCHANGED <<focused, flags, nextSplit, capture, pending, panicked>>

----------------------------------------------------------------------------
\* The splitter under the pointer.

Splits == {p \in Layout(nodes, root) : nodes[p.node][1].split}
EdgeOf(p) ==
  split_rect_with_ratio(p.bounds, nodes[p.node][1].direction, nodes[p.node][1].ratio)[2]

\* find_splitter: the outermost split whose edge passes under (x, y).
OnEdge(p, x, y) ==
  LET edge == EdgeOf(p) IN
  IF nodes[p.node][1].direction = "Vertical"
  THEN x = edge.x /\ y >= p.bounds.y /\ y < p.bounds.y + p.bounds.h
  ELSE y = edge.y /\ x >= p.bounds.x /\ x < p.bounds.x + p.bounds.w
RECURSIVE Depth(_)
Depth(n) == IF nodes[n][1].parent = 0 THEN 0 ELSE 1 + Depth(nodes[n][1].parent)
Grab ==
  /\ ~panicked /\ Splits # {}
  /\ \E p \in Splits :
       LET under == {q \in Splits : OnEdge(q, EdgeOf(p).x, EdgeOf(p).y)} IN
       capture' = (CHOOSE q \in under : \A o \in under : Depth(q.node) <= Depth(o.node)).node
  /\ UNCHANGED <<surfaces, nodes, root, focused, flags, nextSplit, pending, panicked>>

Release ==
  /\ ~panicked /\ capture # 0 /\ capture' = 0
  /\ UNCHANGED <<surfaces, nodes, root, focused, flags, nextSplit, pending, panicked>>

\* resize_split.  i32::clamp panics when the split's length does not leave
\* both parts the minimum.
Resized(n, delta) ==
  LET b == node_bounds(nodes, root, n)
      d == nodes[n][1].direction
      vertical == d = "Vertical"
      first == split_rect_with_ratio(b, d, nodes[n][1].ratio)[1]
      size == IF vertical THEN first.w ELSE first.h
      total == IF vertical THEN b.w ELSE b.h
      minimum == IF vertical THEN MIN_PANE_WIDTH ELSE MIN_PANE_HEIGHT
      next == Clamp(size + delta, minimum, total - minimum)
  IN [panics |-> minimum > total - minimum,
      nodes |-> [nodes EXCEPT ![n] = <<[@[1] EXCEPT !.ratio = Clamp((next * 1024) \div total, 1, 1023)]>>]]
Drag(delta) ==
  /\ ~panicked /\ capture # 0
  /\ nodes[capture] # <<>> /\ nodes[capture][1].split
  /\ LET r == Resized(capture, delta) IN
     IF r.panics
     THEN panicked' = TRUE /\ UNCHANGED <<nodes, surfaces>>
     ELSE /\ nodes' = r.nodes
          /\ surfaces' = recompute_layout(r.nodes, root, surfaces)
          /\ UNCHANGED panicked
  /\ UNCHANGED <<root, focused, flags, nextSplit, capture, pending>>

\* lock, on logout, until the next authenticate: every record is cleared.  The
\* split direction stays, and so does the request Display is working on; its
\* answer may come after the next login.
lock ==
  /\ ~panicked /\ root # 0
  /\ surfaces' = [s \in Slots |-> <<>>] /\ nodes' = [n \in Nodes |-> <<>>]
  /\ root' = 0 /\ focused' = 0 /\ flags' = {} /\ capture' = 0
  /\ UNCHANGED <<nextSplit, pending, panicked>>

\* The supervisor restarts the service.
Restart ==
  /\ panicked
  /\ surfaces' = [s \in Slots |-> <<>>] /\ nodes' = [n \in Nodes |-> <<>>]
  /\ root' = 0 /\ focused' = 0 /\ flags' = {} /\ nextSplit' = "Vertical"
  /\ capture' = 0 /\ pending' = <<>> /\ panicked' = FALSE

Change ==
  /\ changes < MaxChanges /\ changes' = changes + 1
  /\ \/ \E s \in Slots : close_reference(s) \/ focus(s)
     \/ \E step \in {-1, 1} : focus_next(step)
     \/ \E d \in {"Vertical", "Horizontal"} : split_focused(d)
     \/ \E d \in {"Left", "Right", "Up", "Down"} : move_focused_in_direction(d)
     \/ Grab \/ Release \/ \E delta \in Deltas : Drag(delta)
     \/ lock
Next ==
  \/ (request_surface \/ spawn_surface \/ Refused \/ Restart) /\ UNCHANGED changes
  \/ Change

Spec == Init /\ [][Next]_vars

TypeOK ==
  /\ focused \in {0} \cup Slots /\ flags \subseteq Slots /\ root \in {0} \cup Nodes
  /\ capture \in {0} \cup Nodes /\ nextSplit \in {"Vertical", "Horizontal"}

\* The arena is a tree and nothing else: every node in it is reached once from
\* the root and names its parent, so no sequence of splits, moves and closes
\* leaks one; and its leaves show each live surface exactly once
\* (insert_layout_leaf, remove_layout_leaf_node, move_surface_to_leaf).
ArenaIsTree ==
  LET reached == {p.node : p \in Layout(nodes, root)}
      leaves == Leaves(nodes, root)
      shown == SelectSeq(leaves, LAMBDA n : nodes[n][1].id # 0)
  IN /\ reached = Nodes \ Vacant(nodes)
     /\ root # 0 => nodes[root][1].parent = 0
     /\ Cardinality(reached) = (IF root = 0 THEN 0 ELSE 2 * Len(leaves) - 1)
     /\ \A n \in reached : nodes[n][1].split =>
          /\ nodes[nodes[n][1].first][1].parent = n
          /\ nodes[nodes[n][1].second][1].parent = n
     /\ Len(shown) = Cardinality(Live)
     /\ {nodes[shown[k]][1].id : k \in DOMAIN shown} = Live

\* The panes tile the desktop: each is visible, each surface has the bounds of
\* its pane, and together they cover the desktop without overlap
\* (recompute_layout, split_rect_with_ratio).
PanesTile ==
  LET panes == {p \in Layout(nodes, root) : ~nodes[p.node][1].split} IN
  /\ \A p \in panes :
       /\ p.bounds.w > 0 /\ p.bounds.h > 0
       /\ nodes[p.node][1].id # 0 => surfaces[nodes[p.node][1].id] = <<p.bounds>>
  /\ \A p \in panes, q \in panes : p = q \/
       ~ (Overlap(p.bounds.x, p.bounds.w, q.bounds.x, q.bounds.w)
          /\ Overlap(p.bounds.y, p.bounds.h, q.bounds.y, q.bounds.h))
  /\ root # 0 => MapThenSumSet(LAMBDA p : p.bounds.w * p.bounds.h, panes) = Desktop.w * Desktop.h

\* The focus is on a live surface whenever there is one, and that surface
\* alone carries the flag (focus_next, close_reference, spawn_surface).
OneFocus ==
  /\ (focused = 0) <=> (Live = {})
  /\ focused # 0 => focused \in Live
  /\ flags = (IF focused = 0 THEN {} ELSE {focused})

\* Dragging a splitter never stops the service.
NeverPanics == ~panicked

=============================================================================
