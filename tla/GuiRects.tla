------------------------------ MODULE GuiRects ------------------------------
(***************************************************************************)
(* The rectangle algebra of the Display service (services/display/src).    *)
(* A GuiRect covers the pixels x..x+width-1, y..y+height-1.  Coordinates   *)
(* are far from the i32 limits, where the saturating forms agree with the  *)
(* plain ones.                                                             *)
(***************************************************************************)
EXTENDS Integers, Sequences, FiniteSetsExt

LOCAL Larger(a, b) == IF a >= b THEN a ELSE b

LOCAL Smaller(a, b) == IF a <= b THEN a ELSE b

Rect(x, y, w, h) == [x |-> x, y |-> y, w |-> w, h |-> h]

EMPTY == Rect(0, 0, 0, 0)

is_empty(r) == r.w = 0 \/ r.h = 0

contains(r, x, y) == x >= r.x /\ y >= r.y /\ x - r.x < r.w /\ y - r.y < r.h

Right(r) == r.x + r.w

Bottom(r) == r.y + r.h

(***************************************************************************)
(* Rectangles that share an edge touch: damage is merged across it.        *)
(***************************************************************************)
touches(l, r) ==
    /\ l.x <= Right(r)
    /\ r.x <= Right(l)
    /\ l.y <= Bottom(r)
    /\ r.y <= Bottom(l)

union(l, r) ==
    LET x == Smaller(l.x, r.x)
        y == Smaller(l.y, r.y)
    IN  Rect(x, y, Larger(Right(l), Right(r)) - x, Larger(Bottom(l), Bottom(r)) - y)

intersect(l, r) ==
    LET x == Larger(l.x, r.x)
        y == Larger(l.y, r.y)
        right == Smaller(Right(l), Right(r))
        bottom == Smaller(Bottom(l), Bottom(r))
    IN  IF right <= x \/ bottom <= y THEN EMPTY ELSE Rect(x, y, right - x, bottom - y)

expand_rect(r, padding) ==
    IF padding <= 0 THEN r
    ELSE Rect(r.x - padding, r.y - padding, r.w + 2 * padding, r.h + 2 * padding)

(***************************************************************************)
(* What is left of rect once cut is taken away: the bands above and below  *)
(* over the full width, then the ones left and right of the overlap.       *)
(***************************************************************************)
subtract_rect(rect, cut) ==
    LET o == intersect(rect, cut)
        piece(keep, r) == IF keep THEN <<r>> ELSE <<>>
    IN  IF is_empty(o) THEN <<rect>>
        ELSE piece(rect.y < o.y, Rect(rect.x, rect.y, rect.w, o.y - rect.y))
             \o piece(Bottom(o) < Bottom(rect),
                      Rect(rect.x, Bottom(o), rect.w, Bottom(rect) - Bottom(o)))
             \o piece(rect.x < o.x, Rect(rect.x, o.y, o.x - rect.x, o.h))
             \o piece(Right(o) < Right(rect), Rect(Right(o), o.y, Right(rect) - Right(o), o.h))

(***************************************************************************)
(* Coalescing a rectangle into a bounded list: the first entry it touches  *)
(* grows, else it is appended while there is room.                         *)
(***************************************************************************)
append_present_rect(list, rect, capacity) ==
    LET touching == {i \in DOMAIN list : touches(list[i], rect)}
    IN  IF is_empty(rect) THEN [list |-> list, ok |-> TRUE]
        ELSE IF touching # {}
        THEN [list |-> [list EXCEPT ![Min(touching)] = union(@, rect)], ok |-> TRUE]
        ELSE IF Len(list) = capacity THEN [list |-> list, ok |-> FALSE]
        ELSE [list |-> Append(list, rect), ok |-> TRUE]

=============================================================================
