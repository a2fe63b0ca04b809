---------------------------- MODULE ServiceMemory ----------------------------
\* The frames behind the service graph: what ServiceRuntime::start takes from
\* the frame pool for images, page tables, heaps, workspaces, IPC queues and
\* shared pages, what a running service's heap and stack take and give back,
\* and what reclaim_resources returns when the graph is replaced. A start, a
\* heap call and a page fault each run to the end under the runtime lock.  The
\* allocator inside a service is a second machine with its own variables, below.
EXTENDS Integers, Sequences, FiniteSets, SequencesExt, FiniteSetsExt, Functions

CONSTANTS Services,       \* sequence: boot order
          User, Storage,  \* the services with a KDF workspace, with data pages
          Frames,
          ImagePages, TablePages, KdfPages, DataPages, QueueFrames, DisplayPages, InputPages,
          SERVICE_HEAP_INITIAL_PAGES, HeapQuota, MAX_HEAP_GROWTH_PAGES,
          StackRoom,      \* pages a stack may grow by
          MaxStarts

VARIABLES free,      \* frames in the pool
          own,       \* what each record of the runtime holds: set of frames
          heap,      \* per service: heap frames, lowest page first
          stack,     \* per service: pages the stack grew by, highest first
          mapped,    \* per service: <<area, page, frame>> translations
          counted,   \* per service: heap pages the registry was told of
          process,   \* per service: state of its process
          status,    \* "down", "up" or "failed"
          dropped,   \* frames a failed start let go of without returning
          starts

vars == <<free, own, heap, stack, mapped, counted, process, status, dropped, starts>>

Names == {Services[i] : i \in 1..Len(Services)}
Kinds == {"image", "tables", "bootstrap", "staging"}
Keys == (Kinds \X Names) \cup {<<k, "runtime">> : k \in {"kdf", "data", "queues", "display", "input"}}

Init ==
  /\ free = Frames
  /\ own = [k \in Keys |-> {}]
  /\ heap = [s \in Names |-> <<>>] /\ stack = [s \in Names |-> <<>>]
  /\ mapped = [s \in Names |-> {}] /\ counted = [s \in Names |-> 0]
  /\ process = [s \in Names |-> "none"]
  /\ status = "down" /\ dropped = {} /\ starts = 0

Least(S, n) == {x \in S : Cardinality({y \in S : y < x}) < n}
Pages(S) == SetToSortSeq(S, <)

-----------------------------------------------------------------------------
\* Starting the graph: a list of steps, each taking frames for one record. "st"
\* carries the runtime's records through the list.

StepsFor(s) ==
  <<<<"image", s, ImagePages>>, <<"tables", s, TablePages>>, <<"process", s, 0>>,
    <<"bootstrap", s, 1>>, <<"heap", s, SERVICE_HEAP_INITIAL_PAGES>>>>
  \o (IF s = User THEN <<<<"kdf", s, KdfPages>>>> ELSE <<>>)
  \o <<<<"launch", s, 0>>>>
PrivateStepsFor(s) ==
  <<<<"staging", s, 1>>>> \o (IF s = Storage THEN <<<<"data", s, DataPages>>>> ELSE <<>>)
\* The framebuffer's configuration and present pages; the keyboard and pointer rings.
DisplaySteps == <<<<"display", "runtime", DisplayPages>>>>
InputSteps == <<<<"input", "runtime", InputPages>>>>
Steps ==
  FlattenSeq([i \in 1..Len(Services) |-> StepsFor(Services[i])])
  \o <<<<"queues", "runtime", QueueFrames>>>>
  \o FlattenSeq([i \in 1..Len(Services) |-> PrivateStepsFor(Services[i])])
  \o DisplaySteps \o InputSteps

NoStep == <<"none", "none", 0>>

Record(step) == IF step[1] \in Kinds THEN <<step[1], step[2]>> ELSE <<step[1], "runtime">>

Take(st, step, n) ==
  LET got == Least(st.free, n)
      s == step[2]
      left == [st EXCEPT !.free = @ \ got]
  IN  CASE step[1] = "heap" ->
             [left EXCEPT !.heap[s] = Pages(got), !.counted[s] = n,
                          !.mapped[s] = {<<"heap", i, Pages(got)[i]>> : i \in 1..n}]
        [] step[1] = "process" -> [st EXCEPT !.process[s] = "Running"]
        [] step[1] = "launch" -> st
        [] OTHER -> [left EXCEPT !.own[Record(step)] = @ \cup got]

Return(st, keys) ==
  [st EXCEPT !.free = @ \cup UNION {st.own[k] : k \in keys},
             !.own = [k \in Keys |-> IF k \in keys THEN {} ELSE st.own[k]]]
release_service_heap_slot(st, s) ==
  [Return(st, {<<"bootstrap", s>>, <<"staging", s>>}) EXCEPT
     !.free = @ \cup ToSet(st.heap[s]) \cup ToSet(st.stack[s]),
     !.heap[s] = <<>>, !.stack[s] = <<>>, !.mapped[s] = {}]
ImageAndTables(s) == {<<"image", s>>, <<"tables", s>>}
Drop(st, s) ==
  [st EXCEPT !.dropped = @ \cup st.own[<<"image", s>>] \cup st.own[<<"tables", s>>],
             !.own = [k \in Keys |-> IF k \in ImageAndTables(s) THEN {} ELSE st.own[k]],
             !.process[s] = "lost"]

\* What the failing step leaves: most undo what they built for the service; a
\* heap or workspace that fails leaves the image, the tables and the process to
\* nobody.
Undo(st, step) ==
  LET s == step[2]
  IN  CASE step[1] \in {"image", "tables"} -> Return(st, ImageAndTables(s))
        [] step[1] \in {"process", "launch"} ->
             [Return(st, ImageAndTables(s)) EXCEPT !.process[s] = "none"]
        [] step[1] \in {"bootstrap", "heap"} -> Drop(release_service_heap_slot(st, s), s)
        [] step[1] = "kdf" -> Drop(st, s)
        [] step[1] = "queues" -> Return(st, {<<"queues", "runtime">>})
        [] OTHER -> st

\* A step fails for want of frames, having taken those there were, or at a
\* chosen place for any other reason.
RunStep(st, step, bad) ==
  LET room == Cardinality(st.free)
  IN  IF st.failed THEN st
      ELSE IF room < step[3] THEN [Undo(Take(st, step, room), step) EXCEPT !.failed = TRUE]
      ELSE IF step = bad THEN [Undo(Take(st, step, step[3]), step) EXCEPT !.failed = TRUE]
      ELSE Take(st, step, step[3])
RunSteps(st, bad) == FoldLeft(LAMBDA x, step : RunStep(x, step, bad), st, Steps)

Current == [free |-> free, own |-> own, heap |-> heap, stack |-> stack, mapped |-> mapped,
            counted |-> counted, process |-> process, dropped |-> dropped, failed |-> FALSE]

reclaim_resources_Mutant(st) ==
  [st EXCEPT !.free = @ \cup UNION {st.own[k] : k \in Keys}
                \cup UNION {ToSet(st.heap[s]) : s \in Names},
             !.own = [k \in Keys |-> {}],
             !.heap = [s \in Names |-> <<>>], !.stack = [s \in Names |-> <<>>],
             !.mapped = [s \in Names |-> {}], !.counted = [s \in Names |-> 0],
             !.process = [s \in Names |-> "none"]]
\* Everything a record of the runtime holds goes back to the pool.
reclaim_resources(st) ==
  [st EXCEPT !.free = @ \cup UNION {st.own[k] : k \in Keys}
                \cup UNION {ToSet(st.heap[s]) \cup ToSet(st.stack[s]) : s \in Names},
             !.own = [k \in Keys |-> {}],
             !.heap = [s \in Names |-> <<>>], !.stack = [s \in Names |-> <<>>],
             !.mapped = [s \in Names |-> {}], !.counted = [s \in Names |-> 0],
             !.process = [s \in Names |-> "none"]]

Set(st, to) ==
  /\ free' = st.free /\ own' = st.own /\ heap' = st.heap /\ stack' = st.stack
  /\ mapped' = st.mapped /\ counted' = st.counted /\ process' = st.process
  /\ dropped' = st.dropped /\ status' = to

\* start: a failure gives back whatever the records hold.
start(before, bad) ==
  LET st == RunSteps(before, bad)
  IN  IF st.failed THEN Set(reclaim_resources(st), "failed") ELSE Set(st, "up")

Boot(bad) ==
  /\ status = "down"
  /\ starts' = 1
  /\ start(Current, bad)

\* The restart coordinator: reclaim, then start again.
Restart(bad) ==
  /\ status = "up" /\ starts < MaxStarts
  /\ starts' = starts + 1
  /\ start(reclaim_resources(Current), bad)

-----------------------------------------------------------------------------
\* Calls of a running service. They need its process running and its heap
\* capability, which the bootstrap page gave it.
Calls(s) == status = "up" /\ process[s] = "Running"

\* All the pages or none: a failure unmaps and returns what was taken. "bad" is
\* the page whose mapping fails, if any.
UntakeMutant(got) == {}
Untake(got) == got
grow_service_heap(s, pages, bad) ==
  LET at == Len(heap[s])
      room == Cardinality(free)
      n == IF room < pages THEN room ELSE pages
      got == Least(free, n)
      added == Pages(got)
      entered == {<<"heap", at + i, added[i]>> : i \in 1..(IF bad \in 1..n THEN bad - 1 ELSE n)}
  IN /\ Calls(s) /\ pages \in 1..MAX_HEAP_GROWTH_PAGES
     /\ at + pages <= HeapQuota
     /\ IF room >= pages /\ bad \notin 1..pages
        THEN /\ free' = free \ got
             /\ heap' = [heap EXCEPT ![s] = @ \o added]
             /\ mapped' = [mapped EXCEPT ![s] = @ \cup entered]
             /\ counted' = [counted EXCEPT ![s] = at + pages]
        ELSE /\ free' = (free \ got) \cup Untake(got)
             /\ mapped' = [mapped EXCEPT ![s] = (@ \cup entered) \ entered]
             /\ UNCHANGED <<heap, counted>>
     /\ UNCHANGED <<own, stack, process, status, dropped, starts>>

\* One page at a time, never below the initial pages.
shrink_service_heap(s) ==
  LET at == Len(heap[s])
  IN /\ Calls(s) /\ at > SERVICE_HEAP_INITIAL_PAGES
     /\ free' = free \cup {heap[s][at]}
     /\ heap' = [heap EXCEPT ![s] = SubSeq(@, 1, at - 1)]
     /\ mapped' = [mapped EXCEPT ![s] = {m \in @ : ~(m[1] = "heap" /\ m[2] = at)}]
     /\ counted' = [counted EXCEPT ![s] = at - 1]
     /\ UNCHANGED <<own, stack, process, status, dropped, starts>>

\* A fault "depth" pages below the initial stack grows it down to that page.
\* When the pool runs out part of the way, or the fault is elsewhere, the
\* process is faulted; pages already added stay the service's.
handle_page_fault(s, depth) ==
  LET at == Len(stack[s])
      missing == depth - at
      room == Cardinality(free)
      n == IF depth \notin at + 1..StackRoom THEN 0 ELSE IF room < missing THEN room ELSE missing
      added == Pages(Least(free, n))
  IN /\ Calls(s)
     /\ free' = free \ ToSet(added)
     /\ stack' = [stack EXCEPT ![s] = @ \o added]
     /\ mapped' = [mapped EXCEPT ![s] = @ \cup {<<"stack", at + i, added[i]>> : i \in 1..n}]
     /\ process' = [process EXCEPT ![s] = IF n > 0 /\ n = missing THEN @ ELSE "Faulted"]
     /\ UNCHANGED <<own, heap, counted, status, dropped, starts>>

Next ==
  \/ \E bad \in ToSet(Steps) \cup {NoStep} : Boot(bad) \/ Restart(bad)
  \/ \E s \in Names :
       \/ \E pages \in 1..MAX_HEAP_GROWTH_PAGES, bad \in 0..MAX_HEAP_GROWTH_PAGES :
            grow_service_heap(s, pages, bad)
       \/ shrink_service_heap(s)
       \/ \E depth \in 1..StackRoom + 1 : handle_page_fault(s, depth)

Spec == Init /\ [][Next]_vars

-----------------------------------------------------------------------------
TypeOK ==
  /\ free \subseteq Frames /\ dropped \subseteq Frames
  /\ status \in {"down", "up", "failed"}
  /\ starts \in 0..MaxStarts

Holdings ==
  [k \in Keys \cup ({"heap", "stack"} \X Names) |->
     IF k \in Keys THEN own[k]
     ELSE IF k[1] = "heap" THEN ToSet(heap[k[2]]) ELSE ToSet(stack[k[2]])]

\* Every frame is in the pool or in exactly one record of the runtime, through
\* starts, restarts, heap calls and stack growth, refused ones included; a graph
\* that failed to start holds nothing, and what it let go of without returning
\* was the image, tables and process of the service whose heap or workspace
\* failed.
FramesConserved ==
  LET holds == Holdings
  IN  /\ free \cup dropped \cup UNION {holds[k] : k \in DOMAIN holds} = Frames
      /\ \A k, l \in DOMAIN holds : k # l => holds[k] \cap holds[l] = {}
      /\ \A k \in DOMAIN holds : holds[k] \cap (free \cup dropped) = {}
      /\ free \cap dropped = {}
      /\ status = "failed" => \A k \in DOMAIN holds : holds[k] = {}
      /\ status = "up" => dropped = {}
      /\ Cardinality(dropped) <= ImagePages + TablePages

\* A service's heap and stack pages are contiguous, each translated to its own
\* frame, and the registry counts the heap's pages.
HeapMapped ==
  status = "up" => \A s \in Names :
    /\ mapped[s] = {<<"heap", i, heap[s][i]>> : i \in 1..Len(heap[s])}
                   \cup {<<"stack", i, stack[s][i]>> : i \in 1..Len(stack[s])}
    /\ counted[s] = Len(heap[s])
    /\ Len(heap[s]) \in SERVICE_HEAP_INITIAL_PAGES..HeapQuota
    /\ Len(stack[s]) <= StackRoom

------------------------------------------------------------------------------
(***************************************************************************)
(* The private allocator of a service image                                *)
(* (services/images/src/common.rs): an address-ordered list of free spans  *)
(* kept inside the heap itself, grown and shrunk through Core.  Core maps  *)
(* and charges the pages (ServiceMemory); the two ledgers must agree on    *)
(* where the heap ends.                                                    *)
(*                                                                         *)
(* Addresses and sizes are counted in words, and the list is the function  *)
(* from the start of a free span to its length.  The images have one       *)
(* thread each and no interrupt code that allocates.                       *)
(***************************************************************************)
CONSTANTS
    PAGE,            \* SERVICE_PAGE_BYTES
    FREE_SPAN,       \* FREE_SPAN_BYTES
    HEADER,          \* HEADER_BYTES
    HEAP_GROWTH_PAGES,
    InitialPages, QuotaPages,
    Sizes, Aligns,   \* layouts the image asks for
    MaxLive          \* bound on allocations alive at once

VARIABLES
    holes,        \* start of a free span -> its length
    mapped_end,
    used,
    live,        \* allocations: [ptr, start, span, bytes, align]
    asked,       \* layouts that wait for the heap to grow
    core,        \* pages Core has mapped for the heap
    faulted      \* the process touched a page of its heap that is not mapped

heapVars == <<holes, mapped_end, used, live, asked, core, faulted>>

base == PAGE

quota_end == base + QuotaPages * PAGE

NoSpans == [a \in {} |-> 0]

HeapTypeOK == /\ core \in 0..QuotaPages
          /\ Cardinality(asked) <= 1
          /\ Cardinality(live) <= MaxLive

align_up(v, a) == ((v + a - 1) \div a) * a

-----------------------------------------------------------------------------
(* The span list.                                                          *)

remove(f, a) == Restrict(f, DOMAIN f \ {a})

Before(f, addr) == {a \in DOMAIN f : a < addr}

From(f, addr) == {a \in DOMAIN f : a >= addr}

(* A span that would overlap a neighbour is refused.                       *)
Overlaps(f, addr, bytes) ==
    \/ Before(f, addr) # {} /\ LET p == Max(Before(f, addr)) IN p + f[p] > addr
    \/ From(f, addr) # {} /\ addr + bytes > Min(From(f, addr))

Refused(f, addr, bytes) == bytes < FREE_SPAN \/ Overlaps(f, addr, bytes)

MergesPrevious(f, addr) ==
    Before(f, addr) # {} /\ LET p == Max(Before(f, addr)) IN p + f[p] = addr

MergesNextMutant(f, end) == FALSE

MergesNext(f, end) == end \in DOMAIN f

(* insert, for a span that is not refused: it is merged with the           *)
(* neighbours it touches.                                                  *)
insert(f, addr, bytes) ==
    LET end == addr + bytes
        p == Max(Before(f, addr))
        merged == bytes + (IF MergesNext(f, end) THEN f[end] ELSE 0)
        rest == IF MergesNext(f, end) THEN remove(f, end) ELSE f
    IN IF MergesPrevious(f, addr)
       THEN [rest EXCEPT ![p] = @ + merged]
       ELSE [a \in DOMAIN rest \cup {addr} |-> IF a = addr THEN merged ELSE rest[a]]

Inserted(f, addr, bytes) == IF bytes < FREE_SPAN THEN f ELSE insert(f, addr, bytes)

-----------------------------------------------------------------------------
HeapInit ==
    /\ holes = insert(NoSpans, base, InitialPages * PAGE)
    /\ mapped_end = base + InitialPages * PAGE
    /\ used = 0 /\ live = {} /\ asked = {}
    /\ core = InitialPages
    /\ faulted = FALSE

Pointer(a, l) == align_up(a + HEADER, l.align)

(* First fit.  The last condition compares a size with an address, as the  *)
(* code does; it never fails in a heap whose base is above its quota.      *)
Fits(l) ==
    {a \in DOMAIN holes : /\ l.size <= QuotaPages * PAGE
                         /\ Pointer(a, l) + l.size <= a + holes[a]
                         /\ used <= quota_end - l.size}

(* What is left before the header and after the payload goes back to the   *)
(* list when a span record fits into it, and belongs to the allocation     *)
(* when not.                                                               *)
Allocation(a, l) ==
    LET p == Pointer(a, l)
        prefix == p - HEADER - a
        suffix == a + holes[a] - (p + l.size)
        addr == IF prefix >= FREE_SPAN THEN p - HEADER ELSE a
        end == IF suffix >= FREE_SPAN THEN p + l.size ELSE a + holes[a]
    IN [ptr |-> p, start |-> addr, span |-> end - addr, bytes |-> l.size, align |-> l.align]

allocate(l) ==
    LET a == Min(Fits(l))
        new == Allocation(a, l)
        cut == Inserted(remove(holes, a), a, new.ptr - HEADER - a)
        end == new.ptr + l.size
    IN /\ holes' = Inserted(cut, end, a + holes[a] - end)
       /\ live' = live \cup {new}
       /\ used' = used + l.size
       /\ asked' = {}
       /\ UNCHANGED <<mapped_end, core, faulted>>

(* allocate_with_growth: an allocation that does not fit asks Core for     *)
(* more pages and tries again, until it fits or Core refuses.              *)
Alloc(l) ==
    /\ asked \in {{}, {l}}
    /\ Cardinality(live) < MaxLive
    /\ IF Fits(l) # {} THEN allocate(l)
       ELSE /\ asked = {}
            /\ asked' = {l}
            /\ UNCHANGED <<holes, mapped_end, used, live, core, faulted>>

extend ==
    /\ holes' = insert(holes, mapped_end, HEAP_GROWTH_PAGES * PAGE)
    /\ mapped_end' = mapped_end + HEAP_GROWTH_PAGES * PAGE

Grow ==
    /\ \E l \in asked : Fits(l) = {}
    /\ core + HEAP_GROWTH_PAGES <= QuotaPages
    /\ core' = core + HEAP_GROWTH_PAGES
    /\ extend
    /\ UNCHANGED <<used, live, asked, faulted>>

(* Core is out of frames, or the heap at its quota.                        *)
GrowRefused ==
    /\ \E l \in asked : Fits(l) = {}
    /\ asked' = {}
    /\ UNCHANGED <<holes, mapped_end, used, live, core, faulted>>

(* The free span that ends the heap, with a page to give back.             *)
ShrinkableMutant(f) == {a \in DOMAIN f : a + f[a] = mapped_end}

Shrinkable(f) == {a \in DOMAIN f : a + f[a] = mapped_end /\ f[a] >= PAGE}

can_shrink(f) == mapped_end - base > PAGE /\ Shrinkable(f) # {}

(* The page is unmapped first; then the record of the span, which begins   *)
(* the span, is rewritten.  A rest too short for a record reaches into the *)
(* page that has just gone.                                                *)
Torn(f) == \E a \in Shrinkable(f) : f[a] - PAGE \in 1..(FREE_SPAN - 1)

shrink(f) ==
    LET a == CHOOSE x \in Shrinkable(f) : TRUE
    IN IF f[a] = PAGE THEN remove(f, a) ELSE [f EXCEPT ![a] = @ - PAGE]

(* shrink_service_heap: Core keeps the first pages for good.               *)
Granted == core > InitialPages

(* deallocate, of a pointer whose header is sound.                         *)
deallocate(x) == insert(holes, x.start, x.span)

(* dealloc: the span goes back whole, then Core is asked to take one page. *)
Dealloc(x) ==
    /\ asked = {}
    /\ ~Refused(holes, x.start, x.span)
    /\ LET f == deallocate(x)
       IN /\ live' = live \ {x}
          /\ used' = used - x.bytes
          /\ IF can_shrink(f) /\ Granted
             THEN /\ faulted' = Torn(f)
                  /\ holes' = shrink(f)
                  /\ mapped_end' = mapped_end - PAGE
                  /\ core' = core - 1
             ELSE holes' = f /\ UNCHANGED <<mapped_end, core, faulted>>
    /\ UNCHANGED asked

(* A fault ends the process; its replacement starts with a fresh heap.     *)
Replaced ==
    /\ faulted
    /\ holes' = insert(NoSpans, base, InitialPages * PAGE)
    /\ mapped_end' = base + InitialPages * PAGE
    /\ used' = 0 /\ live' = {} /\ asked' = {}
    /\ core' = InitialPages
    /\ faulted' = FALSE

HeapNext ==
    \/ /\ ~faulted
       /\ \/ \E s \in Sizes, n \in Aligns : Alloc([size |-> s, align |-> n])
          \/ Grow
          \/ GrowRefused
          \/ \E x \in live : Dealloc(x)
    \/ Replaced

HeapSpec == HeapInit /\ [][HeapNext]_heapVars

-----------------------------------------------------------------------------
Words(addr, n) == addr..(addr + n - 1)

(* The heap is exactly tiled: free spans and allocations are disjoint,     *)
(* together they cover every mapped word, no two free spans touch, and     *)
(* every payload lies aligned in its own allocation behind its header.     *)
(* Memory that neither list nor owner knows of would be lost for good; a   *)
(* word that both know of would be given out twice.  A process that        *)
(* faulted is past caring.                                                 *)
HeapTiled ==
    ~faulted =>
    LET spans == {Words(a, holes[a]) : a \in DOMAIN holes}
        owned == {Words(x.start, x.span) : x \in live}
    IN /\ \A S, T \in spans \cup owned : S # T => S \cap T = {}
       /\ Cardinality(owned) = Cardinality(live)
       /\ UNION (spans \cup owned) = base..(mapped_end - 1)
       /\ \A a \in DOMAIN holes : holes[a] >= FREE_SPAN /\ a + holes[a] \notin DOMAIN holes
       /\ \A x \in live : /\ x.ptr % x.align = 0
                          /\ x.start <= x.ptr - HEADER
                          /\ x.ptr + x.bytes <= x.start + x.span

(* Core and the image agree on where the heap ends: no page the list hands *)
(* out is unmapped, and every page Core charges can be used.  The count of *)
(* used words is that of the live allocations, and freeing never finds its *)
(* span refused.                                                           *)
LedgersAgree ==
    /\ mapped_end = base + core * PAGE
    /\ used = MapThenSumSet(LAMBDA x : x.bytes, live)
    /\ \A x \in live : ~Refused(holes, x.start, x.span)

(* The allocator's own records stay on pages that are mapped: giving a     *)
(* page back never makes the process touch it again.                       *)
RecordsStayMapped == ~faulted
==============================================================================
