------------------------------- MODULE Raster -------------------------------
(***************************************************************************)
(* The software rasteriser of the Display service                          *)
(* (services/display/src/gui.rs, render_command and below).  A draw        *)
(* command is painted row by row inside a clip.  Rounded shapes are not    *)
(* sampled pixel by pixel: each row is split into an antialiased left      *)
(* edge, a solid span and a mirrored right edge, with the split points     *)
(* taken from an integer square root.  The model paints the same spans and *)
(* compares them with the four-sample coverage of every pixel.             *)
(*                                                                         *)
(* A pixel receives the sequence of coverages plotted on it: blending is   *)
(* not idempotent, so painting a pixel twice is not the same as once.      *)
(* Glyph atlases and the catalog symbols are artwork and are left out; a   *)
(* glyph is a constant set of inked cells.                                 *)
(***************************************************************************)
EXTENDS GuiRects, SequencesExt

CONSTANTS
    Commands,     \* the draw commands of the instance
    Clips,        \* the clip rectangles (damage tiles) of the instance
    Screen,       \* the framebuffer
    GLYPH_WIDTH,  \* the cell of the fixed-pitch font
    GLYPH_HEIGHT,
    GlyphInk      \* the inked cells <<x, y>> of a glyph

VARIABLES
    cmd,   \* the command being drawn
    clip,  \* where it is drawn
    row,   \* the row the scan has reached
    ink    \* pixel -> coverages plotted so far

vars == <<cmd, clip, row, ink>>

-----------------------------------------------------------------------------
(* Coverage of one pixel, from four samples at quarter positions.          *)

coverage_from_samples(n) == <<0, 64, 128, 192, 255>>[n + 1]

Samples == {1, 3} \X {1, 3}

rounded_sample_inside(left, top, right, bottom, radius, px, py) ==
    /\ left <= px /\ px < right /\ top <= py /\ py < bottom
    /\ \/ left + radius <= px /\ px < right - radius
       \/ top + radius <= py /\ py < bottom - radius
       \/ LET dx == px - (IF px < left + radius THEN left + radius ELSE right - radius)
              dy == py - (IF py < top + radius THEN top + radius ELSE bottom - radius)
          IN  dx * dx + dy * dy <= radius * radius

rounded_coverage(b, radius, x, y) ==
    LET left == b.x * 4
        top == b.y * 4
        right == Right(b) * 4
        bottom == Bottom(b) * 4
        r == radius * 4
    IN  IF ~contains(b, x, y) THEN 0
        ELSE IF \/ radius = 0
                \/ x * 4 >= left + r /\ x * 4 + 3 < right - r
                \/ y * 4 >= top + r /\ y * 4 + 3 < bottom - r
        THEN 255
        ELSE coverage_from_samples(Cardinality({s \in Samples :
                 rounded_sample_inside(left, top, right, bottom, r,
                                       x * 4 + s[1], y * 4 + s[2])}))

SHADOW_RING_WEIGHTS == << <<255, 0, 0, 0, 0>>, <<160, 80, 15, 0, 0>>, <<128, 80, 40, 7, 0>>,
                          <<96, 72, 56, 24, 7>>, <<64, 64, 64, 48, 15>> >>

ShadowShape(c, distance) == expand_rect(Rect(c.x + c.dx, c.y + c.dy, c.w, c.h), distance)

shadow_coverage(c, x, y) ==
    LET weights == SHADOW_RING_WEIGHTS[c.blur + 1]
        base == rounded_coverage(ShadowShape(c, 0), c.radius, x, y)
        ring(d) == weights[d + 1] * rounded_coverage(ShadowShape(c, d), c.radius + d, x, y)
        weighted == FoldSet(LAMBDA d, sum : sum + ring(d), 0, 0..c.blur)
    IN  IF c.blur = 0 \/ base = 255 THEN base ELSE (weighted + 127) \div 255

rounded_stroke_inner(c) ==
    IF 2 * c.stroke < Min({c.w, c.h})
    THEN <<Rect(c.x + c.stroke, c.y + c.stroke, c.w - 2 * c.stroke, c.h - 2 * c.stroke),
           Max({0, c.radius - c.stroke})>>
    ELSE <<>>

StrokeCoverage(c, x, y) ==
    LET outer == rounded_coverage(c, c.radius, x, y)
        i == rounded_stroke_inner(c)
        inner == IF i = <<>> THEN 0 ELSE rounded_coverage(i[1], i[2], x, y)
    IN  Max({0, outer - inner})

point_near_segment(c, px, py) ==
    LET x0 == c.x * 4
        y0 == c.y * 4
        dx == c.w * 4
        dy == c.h * 4
        length2 == dx * dx + dy * dy
        r2 == (2 * c.stroke) * (2 * c.stroke)
        projection == (px - x0) * dx + (py - y0) * dy
        near(ex, ey) == (px - ex) * (px - ex) + (py - ey) * (py - ey) <= r2
        cross == (px - x0) * dy - (py - y0) * dx
    IN  IF projection <= 0 THEN near(x0, y0)
        ELSE IF projection >= length2 THEN near(x0 + dx, y0 + dy)
        ELSE cross * cross <= r2 * length2

LineCoverage(c, x, y) ==
    coverage_from_samples(Cardinality({s \in Samples :
        point_near_segment(c, x * 4 + s[1], y * 4 + s[2])}))

EdgeCoverage(c, x, y) ==
    LET edge == Min({Max({c.stroke, 1}), c.w, c.h})
        lx == x - c.x
        ly == y - c.y
    IN  IF lx < edge \/ ly < edge \/ lx >= c.w - edge \/ ly >= c.h - edge THEN 255 ELSE 0

(***************************************************************************)
(* The pixel of a fixed-pitch run: the cell, then the pixel of the cell at *)
(* the run's scale.                                                        *)
(***************************************************************************)
GlyphCoverage(c, x, y) ==
    LET lx == (x - c.x) \div c.scale
        ly == (y - c.y) \div c.scale
    IN  IF /\ lx >= 0 /\ lx < c.length * GLYPH_WIDTH /\ ly >= 0 /\ ly < GLYPH_HEIGHT
           /\ <<lx % GLYPH_WIDTH, ly>> \in GlyphInk
        THEN 255 ELSE 0

Coverage(c, x, y) ==
    CASE c.kind = "FillRect" -> 255
      [] c.kind = "StrokeRect" -> EdgeCoverage(c, x, y)
      [] c.kind = "Line" -> LineCoverage(c, x, y)
      [] c.kind = "FillRoundedRect" -> rounded_coverage(c, c.radius, x, y)
      [] c.kind = "StrokeRoundedRect" -> StrokeCoverage(c, x, y)
      [] c.kind = "Shadow" -> shadow_coverage(c, x, y)
      [] c.kind = "GlyphRun" -> GlyphCoverage(c, x, y)

(***************************************************************************)
(* The rectangle an untransformed command may change.                      *)
(***************************************************************************)
base_command_rect(c) ==
    CASE c.kind = "GlyphRun" -> Rect(c.x, c.y, c.length * GLYPH_WIDTH * c.scale,
                                     GLYPH_HEIGHT * c.scale)
      [] c.kind = "Line" -> expand_rect(Rect(c.x, c.y, c.w, c.h), Max({c.stroke, 1}))
      [] c.kind = "Shadow" -> Rect(c.x + c.dx - c.blur, c.y + c.dy - c.blur,
                                   c.w + 2 * c.blur, c.h + 2 * c.blur)
      [] OTHER -> Rect(c.x, c.y, c.w, c.h)

-----------------------------------------------------------------------------
(* Transformed commands.  Rust's division truncates toward zero.           *)

Trunc(a, b) == IF a >= 0 THEN a \div b ELSE 0 - ((0 - a) \div b)

SIN_15_Q15 == <<0, 8481, 16384, 23170, 28378, 31651, 32767>>

quarter_sine(degrees) ==
    LET i == degrees \div 15
    IN  IF i = 6 THEN SIN_15_Q15[7]
        ELSE SIN_15_Q15[i + 1]
             + ((SIN_15_Q15[i + 2] - SIN_15_Q15[i + 1]) * (degrees % 15)) \div 15

sin_cos_degrees(degrees) ==
    LET d == degrees % 360
        quarter == IF d <= 90 THEN d ELSE IF d <= 180 THEN 180 - d
                   ELSE IF d <= 270 THEN d - 180 ELSE 360 - d
        sine == quarter_sine(quarter)
        cosine == quarter_sine(90 - quarter)
    IN  <<IF d > 180 THEN 0 - sine ELSE sine, IF d > 90 /\ d <= 270 THEN 0 - cosine ELSE cosine>>

is_identity(t) == t.x = 0 /\ t.y = 0 /\ t.scale = 256 /\ t.rotation = 0

Center(r) == <<r.x + r.w \div 2, r.y + r.h \div 2>>

transform_point(p, r, t) ==
    LET c == Center(r)
        dx == Trunc((p[1] - c[1]) * t.scale, 256)
        dy == Trunc((p[2] - c[2]) * t.scale, 256)
        sc == sin_cos_degrees(t.rotation)
    IN  <<c[1] + Trunc(dx * sc[2] - dy * sc[1], 32767) + t.x,
          c[2] + Trunc(dx * sc[1] + dy * sc[2], 32767) + t.y>>

(***************************************************************************)
(* The box of the four transformed corners.                                *)
(***************************************************************************)
transform_rect(r, t) ==
    LET corners == {transform_point(p, r, t) : p \in {r.x, Right(r)} \X {r.y, Bottom(r)}}
        xs == {p[1] : p \in corners}
        ys == {p[2] : p \in corners}
    IN  IF is_empty(r) \/ is_identity(t) THEN r
        ELSE Rect(Min(xs), Min(ys), Max(xs) - Min(xs), Max(ys) - Min(ys))

inverse_transform_point(p, r, t) ==
    LET c == Center(r)
        dx == p[1] - c[1] - t.x
        dy == p[2] - c[2] - t.y
        sc == sin_cos_degrees(t.rotation)
    IN  <<c[1] + Trunc((dx * sc[2] + dy * sc[1]) * 256, t.scale * 32767),
          c[2] + Trunc((dy * sc[2] - dx * sc[1]) * 256, t.scale * 32767)>>

(***************************************************************************)
(* The rectangle a command damages.                                        *)
(***************************************************************************)
command_rect(c) == transform_rect(base_command_rect(c), c.t)

(***************************************************************************)
(* The corner test of a transformed rounded shape: every pixel is measured *)
(* against the centre of a corner, without the straight parts between.     *)
(***************************************************************************)
rounded_source_coverage(c, x, y) ==
    LET lx == x - c.x
        ly == y - c.y
        dx == lx - (IF lx < c.radius THEN c.radius ELSE c.w - 1 - c.radius)
        dy == ly - (IF ly < c.radius THEN c.radius ELSE c.h - 1 - c.radius)
    IN  IF c.radius = 0 \/ dx * dx + dy * dy <= c.radius * c.radius THEN 255 ELSE 0

(***************************************************************************)
(* The coverage of a source pixel: lines and shadows are boxes here, and a *)
(* rounded stroke is filled.                                               *)
(***************************************************************************)
transformed_coverage(c, p) ==
    IF ~contains(base_command_rect(c), p[1], p[2]) THEN 0
    ELSE CASE c.kind \in {"FillRect", "Shadow", "Line"} -> 255
           [] c.kind = "StrokeRect" -> EdgeCoverage(c, p[1], p[2])
           [] c.kind \in {"FillRoundedRect", "StrokeRoundedRect"} ->
                  rounded_source_coverage(c, p[1], p[2])
           [] c.kind = "GlyphRun" -> GlyphCoverage(c, p[1], p[2])

(***************************************************************************)
(* What a pixel of the screen gets from a command.                         *)
(***************************************************************************)
Painted(c, x, y) ==
    IF is_identity(c.t) THEN Coverage(c, x, y)
    ELSE transformed_coverage(c, inverse_transform_point(<<x, y>>, base_command_rect(c), c.t))

-----------------------------------------------------------------------------
(* The spans of a row.                                                     *)

div_ceil(value, divisor) ==
    value \div divisor + (IF value % divisor # 0 THEN 1 ELSE 0)

(***************************************************************************)
(* The binary search stops at 128, the square root a 32-pixel radius needs *)
(* in quarter pixels.                                                      *)
(***************************************************************************)
RECURSIVE Bisect(_, _, _)
Bisect(value, low, high) ==
    LET middle == low + (high - low) \div 2
    IN  IF low + 1 >= high THEN low
        ELSE IF middle * middle <= value THEN Bisect(value, middle, high)
        ELSE Bisect(value, low, middle)

integer_sqrt(value) == Bisect(value, 0, Min({value, 128}) + 1)

rounded_rowMutant(b, radius, y) ==
    LET local == y - b.y
        r == radius * 4
        cy == IF local < radius THEN b.y * 4 + r ELSE Bottom(b) * 4 - r
        dys == {d \in {y * 4 + 1 - cy, y * 4 + 3 - cy} : d \in -r..r}
        at(d, sx) == (b.x * 4 + r - integer_sqrt(r * r - d * d) - sx) \div 4
        thresholds == {at(d, sx) : d \in dys, sx \in {1, 3}}
        start == Min({Max({Min(thresholds), b.x}), Right(b)})
    IN  IF y < b.y \/ y >= Bottom(b) THEN <<>>
        ELSE IF radius = 0 \/ (local >= radius /\ local < b.h - radius) THEN <<b.x, b.x>>
        ELSE IF dys = {} THEN <<>>
        ELSE <<start, Min({Max({Max(thresholds), start}), Right(b)})>>

(***************************************************************************)
(* Where the shape starts on row y, and where it is solid: the smallest    *)
(* and the largest pixel at which one of the four samples enters the arc.  *)
(***************************************************************************)
rounded_row(b, radius, y) ==
    LET local == y - b.y
        r == radius * 4
        cy == IF local < radius THEN b.y * 4 + r ELSE Bottom(b) * 4 - r
        dys == {d \in {y * 4 + 1 - cy, y * 4 + 3 - cy} : d \in -r..r}
        at(d, sx) == div_ceil(b.x * 4 + r - integer_sqrt(r * r - d * d) - sx, 4)
        thresholds == {at(d, sx) : d \in dys, sx \in {1, 3}}
        start == Min({Max({Min(thresholds), b.x}), Right(b)})
    IN  IF y < b.y \/ y >= Bottom(b) THEN <<>>
        ELSE IF radius = 0 \/ (local >= radius /\ local < b.h - radius) THEN <<b.x, b.x>>
        ELSE IF dys = {} THEN <<>>
        ELSE <<start, Min({Max({Max(thresholds), start}), Right(b)})>>

mirrored_right(b, left_edge) == Right(b) - (left_edge - b.x)

(***************************************************************************)
(* A span plots the pixels left..right-1: a solid one at full coverage, an *)
(* edge with the coverage of each pixel.                                   *)
(***************************************************************************)
fill_span(left, right) == [left |-> left, right |-> right, solid |-> TRUE]

Edge(left, right) == [left |-> left, right |-> right, solid |-> FALSE]

render_rounded_fill(c, k, y) ==
    LET r == rounded_row(c, c.radius, y)
        full == mirrored_right(c, r[2])
    IN  IF r = <<>> THEN <<>>
        ELSE <<Edge(Max({k.x, r[1]}), Min({Right(k), r[2]})),
               fill_span(Max({k.x, r[2]}), Min({Right(k), full})),
               Edge(Max({k.x, full}), Min({Right(k), mirrored_right(c, r[1])}))>>

render_rounded_stroke(c, k, y) ==
    LET band == Max({c.radius, c.stroke})
        local == y - c.y
    IN  IF local < band \/ local >= c.h - band THEN <<Edge(k.x, Right(k))>>
        ELSE <<Edge(k.x, Min({Right(k), c.x + band})),
               Edge(Max({k.x, Right(c) - band}), Right(k))>>

render_shadow(c, k, y) ==
    LET outer == rounded_row(ShadowShape(c, c.blur), c.radius + c.blur, y)
        outer_end == mirrored_right(ShadowShape(c, c.blur), outer[1])
        base == rounded_row(ShadowShape(c, 0), c.radius, y)
        base_end == mirrored_right(ShadowShape(c, 0), base[2])
    IN  IF outer = <<>> THEN <<>>
        ELSE IF base # <<>> /\ base[2] < base_end
        THEN <<fill_span(Max({k.x, base[2]}), Min({Right(k), base_end})),
               Edge(Max({k.x, outer[1]}), Min({Right(k), base[2]})),
               Edge(Max({k.x, base_end}), Min({Right(k), outer_end}))>>
        ELSE <<Edge(Max({k.x, outer[1]}), Min({Right(k), outer_end}))>>

(***************************************************************************)
(* The cells of a run that the clip reaches, whole cells at the run's      *)
(* scale: a doubled glyph is plotted two pixels at a time.                 *)
(***************************************************************************)
render_mono_glyph_run(c, k, y) ==
    LET gy == (y - c.y) \div c.scale
        row_drawn == /\ gy >= Max({k.y - c.y, 0}) \div c.scale
                     /\ gy < Max({Bottom(k) - c.y + c.scale - 1, 0}) \div c.scale
        base(i) == c.x + (i - 1) * GLYPH_WIDTH * c.scale
        first_x(i) == Min({Max({k.x - base(i), 0}) \div c.scale, GLYPH_WIDTH})
        last_x(i) == Min({Max({Right(k) - base(i) + c.scale - 1, 0}) \div c.scale, GLYPH_WIDTH})
    IN  IF ~row_drawn THEN <<>>
        ELSE [i \in 1..c.length |->
                 Edge(base(i) + first_x(i) * c.scale, base(i) + last_x(i) * c.scale)]

(***************************************************************************)
(* The spans of row y; the kinds that are sampled pixel by pixel have one. *)
(***************************************************************************)
render_row(c, k, y) ==
    CASE ~is_identity(c.t) -> <<Edge(k.x, Right(k))>>
      [] c.kind = "FillRoundedRect" -> render_rounded_fill(c, k, y)
      [] c.kind = "StrokeRoundedRect" -> render_rounded_stroke(c, k, y)
      [] c.kind = "Shadow" -> render_shadow(c, k, y)
      [] c.kind = "GlyphRun" -> render_mono_glyph_run(c, k, y)
      [] OTHER -> <<Edge(k.x, Right(k))>>

(***************************************************************************)
(* What the spans plot on one pixel; a zero coverage plots nothing.        *)
(***************************************************************************)
plot(c, spans, x, y) ==
    LET over == SelectSeq(spans, LAMBDA s : s.left <= x /\ x < s.right)
        value(s) == IF s.solid THEN 255 ELSE Painted(c, x, y)
    IN  SelectSeq([i \in DOMAIN over |-> value(over[i])], LAMBDA v : v # 0)

-----------------------------------------------------------------------------

Pixels == {<<x, y>> : x \in Screen.x..(Right(Screen) - 1), y \in Screen.y..(Bottom(Screen) - 1)}

Clip(c, k) == intersect(intersect(k, command_rect(c)), Screen)

(***************************************************************************)
(* A doubled glyph row is visited while its cell meets the clip, so the    *)
(* scan runs over the cell rows, one past the clip at most on either side. *)
(***************************************************************************)
Overscan == IF cmd.kind = "GlyphRun" /\ is_identity(cmd.t) THEN cmd.scale - 1 ELSE 0

Init ==
    /\ cmd \in Commands
    /\ \E k \in Clips : clip = Clip(cmd, k)
    /\ row = clip.y - Overscan
    /\ ink = [p \in Pixels |-> <<>>]

render_command ==
    /\ ~is_empty(clip)
    /\ row < Bottom(clip) + Overscan
    /\ row' = row + 1
    /\ LET spans == render_row(cmd, clip, row)
       IN  ink' = [p \in Pixels |->
                      IF p[2] # row THEN ink[p] ELSE ink[p] \o plot(cmd, spans, p[1], row)]
    /\ UNCHANGED <<cmd, clip>>

Next == render_command

Spec == Init /\ [][Next]_vars

TypeOK == row \in Int /\ DOMAIN ink = Pixels

-----------------------------------------------------------------------------

(***************************************************************************)
(* Once a row is drawn, every pixel of the clip has been painted exactly   *)
(* once, with the coverage its own samples give: the scanline bounds match *)
(* the coverage edges, and no pixel of a translucent shape is blended      *)
(* twice.  A rounded stroke wider than half its box is the exception: its  *)
(* left and right bands overlap and the shared columns are painted twice.  *)
(***************************************************************************)
SpansExact ==
    (row > clip.y /\ row <= Bottom(clip)) =>
    \A x \in clip.x..(Right(clip) - 1) :
        LET want == Painted(cmd, x, row - 1)
            got == ink[<<x, row - 1>>]
            twice == cmd.kind = "StrokeRoundedRect" /\ 2 * Max({cmd.radius, cmd.stroke}) > cmd.w
        IN  IF want = 0 THEN got = <<>>
            ELSE got = <<want>> \/ (twice /\ got = <<want, want>>)

(***************************************************************************)
(* Nothing is painted outside the rectangle the command damages, and       *)
(* outside the clip only by a doubled glyph, by less than its scale.       *)
(***************************************************************************)
InkInsideDamage ==
    \A p \in Pixels : ink[p] # <<>> =>
        /\ contains(command_rect(cmd), p[1], p[2])
        /\ \/ contains(clip, p[1], p[2])
           \/ cmd.kind = "GlyphRun" /\ contains(expand_rect(clip, cmd.scale - 1), p[1], p[2])

(***************************************************************************)
(* The raster path and the geometry agree: a point carried through the     *)
(* transform and sampled back is the point itself, up to the pixel that    *)
(* truncation costs on either way, unless the shape shrinks.               *)
(***************************************************************************)
TransformTracks ==
    LET r == base_command_rect(cmd)
    IN  cmd.t.scale >= 256 =>
        \A x \in r.x..Right(r), y \in r.y..Bottom(r) :
            LET q == inverse_transform_point(transform_point(<<x, y>>, r, cmd.t), r, cmd.t)
            IN  q[1] - x \in -2..2 /\ q[2] - y \in -2..2

(***************************************************************************)
(* A command that is only moved looks the same where it has been moved to: *)
(* a pixel the untransformed command covers fully is covered.              *)
(***************************************************************************)
MovedLooksTheSame ==
    (cmd.t.scale = 256 /\ cmd.t.rotation = 0) =>
        \A p \in Pixels :
            LET r == base_command_rect(cmd)
            IN  (contains(r, p[1], p[2]) /\ Coverage(cmd, p[1], p[2]) = 255) =>
                    Painted(cmd, p[1] + cmd.t.x, p[2] + cmd.t.y) # 0

=============================================================================
