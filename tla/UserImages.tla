------------------------------ MODULE UserImages ------------------------------
\* How a user image becomes an address space: the program headers are parsed
\* into a load plan, every page gets a frame and its bytes, page tables are
\* built over the frames, and the process table records the mappings; a stop
\* or a failed start gives everything back.  src/process.rs, src/loader.rs,
\* src/page_table.rs, src/program_runtime.rs.
\*
\* A page holds PAGE_SIZE bytes and a virtual address is a byte number.  The
\* three table levels above a leaf are the prefixes of the page's path Path[v].
\* A byte of a file is its file offset plus one, so every byte is recognisable,
\* and a frame keeps the bytes of its last use until somebody clears it.
EXTENDS Integers, SequencesExt

CONSTANTS Slots,                \* program slots
          Frames,               \* frames of the pool
          PAGE_SIZE,
          Images,               \* sequences of program headers offered to the loader
          FileBytes,            \* length of an image file
          Stack,                \* virtual pages of the user stack
          Private,              \* virtual pages of IPC staging and bootstrap
          Path,                 \* table path of a virtual page
          MAX_LOAD_PAGES, MAX_IMAGE_BYTES, MAX_MAPPINGS, MAX_ADDRESS_SPACES,
          MaxStarts             \* bound on starts

VARIABLES free,       \* frames the pool can hand out
          mem,        \* bytes of each frame
          build,      \* the start in progress: what it holds and where it is
          running,    \* slot -> the resources of its program, <<>> when empty
          spaces,     \* address-space slot -> root and mappings, <<>> when vacant
          starts

vars == <<free, mem, build, running, spaces, starts>>

Idle == [pc |-> "idle"]
Pages(from, to) == {v \in 0 .. (to - 1) \div PAGE_SIZE : v >= from \div PAGE_SIZE}

Init ==
  /\ free = Frames
  /\ mem = [f \in Frames |-> [o \in 0 .. PAGE_SIZE - 1 |-> -1]]   \* whatever boot left there
  /\ build = Idle
  /\ running = [s \in Slots |-> <<>>]
  /\ spaces = [a \in 1 .. MAX_ADDRESS_SPACES |-> <<>>]
  /\ starts = 0

-----------------------------------------------------------------------------
\* The load plan of an image, or the empty sequence when it is refused.
Loadable(h) ==
  /\ h.memory > 0 /\ h.file <= h.memory
  /\ h.offset + h.file <= FileBytes
  /\ h.va >= PAGE_SIZE
  /\ h.memory <= MAX_IMAGE_BYTES
  /\ ~ (h.w /\ h.x)

parse_reader(image) ==
  LET plan == SelectSeq(image.headers, LAMBDA h : h.load)
      bytes(k) == MapThenSumSet(LAMBDA i : plan[i].memory, 1 .. k)
      ok == /\ \A i \in DOMAIN plan : Loadable(plan[i]) /\ bytes(i) <= MAX_IMAGE_BYTES
            /\ \E i \in DOMAIN plan : plan[i].x /\ plan[i].va <= image.entry
                                       /\ image.entry < plan[i].va + plan[i].memory
  IN IF ok THEN plan ELSE <<>>

Entry(v, h) == [page |-> v, w |-> h.w, x |-> h.x]

\* The pages to load, in order: those of every segment, then the stack.
Ascending(S) == SetToSortSeq(S, <)
RECURSIVE PagesOf(_)
PagesOf(plan) ==
  IF plan = <<>> THEN <<>>
  ELSE LET h == Head(plan)
           vs == Ascending(Pages(h.va, h.va + h.memory))
       IN [i \in DOMAIN vs |-> Entry(vs[i], h)] \o PagesOf(Tail(plan))

StackPages == LET vs == Ascending(Stack) IN [i \in DOMAIN vs |-> [page |-> vs[i], w |-> TRUE, x |-> FALSE]]

Least == CHOOSE f \in free : \A g \in free : f <= g

\* start of a program: the plan is parsed before anything is allocated.
Start(s, image) ==
  LET plan == parse_reader(image) IN
  /\ build.pc = "idle" /\ running[s] = <<>> /\ starts < MaxStarts
  /\ starts' = starts + 1
  /\ build' = IF plan = <<>> THEN Idle
              ELSE [pc |-> "load", slot |-> s, plan |-> plan, todo |-> PagesOf(plan) \o StackPages,
                    segments |-> Len(PagesOf(plan)), pages |-> <<>>, frames |-> {}, leaf |-> <<>>,
                    root |-> 0, space |-> 0, private |-> <<>>]
  /\ UNCHANGED <<free, mem, running, spaces>>

HeldMutant(b) == {b.pages[i].frame : i \in DOMAIN b.pages} \cup ({b.root} \cap Frames)
                 \cup {b.private[i] : i \in DOMAIN b.private}

\* Everything a start holds; giving it back is abort_start with the calls it
\* makes, and LoadedImage::reclaim before the tables exist.
Held(b) == {b.pages[i].frame : i \in DOMAIN b.pages} \cup b.frames
           \cup {b.private[i] : i \in DOMAIN b.private}

Abort ==
  /\ free' = free \cup Held(build)
  /\ spaces' = IF build.space = 0 THEN spaces ELSE [spaces EXCEPT ![build.space] = <<>>]
  /\ build' = Idle

\* push_page for the next page; a segment page already loaded is an overlap.
push_page ==
  LET next == build.todo[Len(build.pages) + 1]
      segment == Len(build.pages) < build.segments
      repeated == \E i \in DOMAIN build.pages : build.pages[i].page = next.page
  IN /\ build.pc = "load" /\ Len(build.pages) < Len(build.todo)
     /\ IF (segment /\ repeated) \/ Len(build.pages) = MAX_LOAD_PAGES \/ free = {} THEN Abort
        ELSE /\ build' = [build EXCEPT !.pages = Append(@,
                            [page |-> next.page, w |-> next.w, x |-> next.x, frame |-> Least])]
             /\ free' = free \ {Least}
             /\ UNCHANGED spaces
     /\ UNCHANGED <<mem, running, starts>>

ChunkMutant(v, h) ==
  LET start == Max({v * PAGE_SIZE, h.va})
      end == Min({(v + 1) * PAGE_SIZE, h.va + h.memory})
      done == start - h.va
  IN [at |-> start - v * PAGE_SIZE, len |-> end - start, from |-> h.offset + done]

\* The bytes of page v that one segment copies in: the part of the segment on
\* this page, cut where the file part of the segment ends.
Chunk(v, h) ==
  LET start == Max({v * PAGE_SIZE, h.va})
      end == Min({(v + 1) * PAGE_SIZE, h.va + h.memory})
      done == start - h.va
      len == IF done >= h.file THEN 0 ELSE Min({end - start, h.file - done})
  IN [at |-> start - v * PAGE_SIZE, len |-> len, from |-> h.offset + done]

\* The bytes populate_reader leaves in page v: all cleared, then every segment
\* that touches the page copied over it.
Populated(v, plan) ==
  LET on == {i \in DOMAIN plan : v \in Pages(plan[i].va, plan[i].va + plan[i].memory)}
      copies(o) == {i \in on : LET c == Chunk(v, plan[i]) IN c.at <= o /\ o < c.at + c.len}
  IN [o \in 0 .. PAGE_SIZE - 1 |->
        IF copies(o) = {} THEN 0
        ELSE LET c == Chunk(v, plan[Max(copies(o))]) IN c.from + (o - c.at) + 1]

\* Every page is cleared and filled through the frame found for its address:
\* the first page with that address when the stack repeats one.
FrameFor(v) == LET i == CHOOSE i \in DOMAIN build.pages :
                           /\ build.pages[i].page = v
                           /\ \A j \in 1 .. i - 1 : build.pages[j].page # v
               IN build.pages[i].frame
populate_reader(ok) ==
  /\ build.pc = "load" /\ Len(build.pages) = Len(build.todo)
  /\ IF ~ ok THEN Abort /\ UNCHANGED mem     \* the package reader failed
     ELSE /\ mem' = [f \in Frames |->
               IF \E i \in DOMAIN build.pages : build.pages[i].frame = f
               THEN LET v == build.pages[CHOOSE i \in DOMAIN build.pages : build.pages[i].frame = f].page
                    IN IF FrameFor(v) = f THEN Populated(v, build.plan) ELSE Populated(v, <<>>)
               ELSE mem[f]]
          /\ build' = [build EXCEPT !.pc = "root"]
          /\ UNCHANGED <<free, spaces>>
  /\ UNCHANGED <<running, starts>>

\* PageTableBuilder::new_for_owner: the root frame, cleared and seeded with the
\* kernel's entries.
new_for_owner ==
  /\ build.pc = "root"
  /\ IF free = {} THEN Abort /\ UNCHANGED mem
     ELSE /\ build' = [build EXCEPT !.pc = "map", !.root = Least, !.frames = {Least}, !.leaf = <<>>]
          /\ mem' = [mem EXCEPT ![Least] = [o \in 0 .. PAGE_SIZE - 1 |-> 0]]
          /\ free' = free \ {Least}
          /\ UNCHANGED spaces
  /\ UNCHANGED <<running, starts>>

\* The tables a page needs and the builder lacks: the prefixes of its path no
\* mapped page shares.  TablesOf already built stay when a later level fails.
TablesOf(v) == {SubSeq(Path[v], 1, n) : n \in 1 .. Len(Path[v])}
Built == UNION {TablesOf(build.leaf[i].page) : i \in DOMAIN build.leaf}
Missing(v) == Cardinality(TablesOf(v) \ Built)
Firsts(n) == {f \in free : Cardinality({g \in free : g < f}) < n}

\* map_page: walk, allocate and clear the missing tables, write the leaf.
MapOne(page, w, x, frame, then, recorded) ==
  LET n == Missing(page)
      tables == Firsts(n)
  IN IF Cardinality(free) < n \/ (\E i \in DOMAIN build.leaf : build.leaf[i].page = page) \/ (w /\ x)
     THEN Abort /\ UNCHANGED mem
     ELSE /\ free' = free \ tables
          /\ mem' = [f \in Frames |-> IF f \in tables THEN [o \in 0 .. PAGE_SIZE - 1 |-> 0] ELSE mem[f]]
          /\ build' = [then EXCEPT !.frames = @ \cup tables,
                         !.leaf = Append(@, [page |-> page, w |-> w, x |-> x, frame |-> frame])]
          /\ spaces' = recorded

map_image ==
  LET n == Len(build.leaf) + 1
      p == build.pages[n]
      more == n < Len(build.pages)
  IN /\ build.pc = "map"
     /\ MapOne(p.page, p.w, p.x, p.frame, [build EXCEPT !.pc = IF more THEN "map" ELSE "process"],
               spaces)
     /\ UNCHANGED <<running, starts>>

\* map_loaded_pages: neighbouring pages with neighbouring frames and the same
\* flags become one mapping of the address space.
Joins(p, q) == p.page + 1 = q.page /\ p.frame + 1 = q.frame /\ p.w = q.w /\ p.x = q.x
Runs(ps) == 1 + Cardinality({i \in 1 .. Len(ps) - 1 : ~ Joins(ps[i], ps[i + 1])})
Mappings(ps) == {<<p.page, p.frame>> : p \in {ps[i] : i \in DOMAIN ps}}

\* ProcessTable::start_plan, bind_address_space_root and map_loaded_pages.
Process ==
  LET vacant == {a \in DOMAIN spaces : spaces[a] = <<>>}
      a == Min(vacant)
      bound == [root |-> build.root, maps |-> Mappings(build.pages), used |-> Runs(build.pages)]
  IN /\ build.pc = "process"
     /\ IF vacant = {} \/ Runs(build.pages) > MAX_MAPPINGS THEN Abort
        ELSE /\ spaces' = [spaces EXCEPT ![a] = bound]
             /\ build' = [build EXCEPT !.pc = "private", !.space = a]
             /\ UNCHANGED free
     /\ UNCHANGED <<mem, running, starts>>

\* The staging and bootstrap frames, allocated together and mapped one by one.
PrivateFrames ==
  /\ build.pc = "private" /\ build.private = <<>>
  /\ IF Cardinality(free) < Cardinality(Private) THEN Abort /\ UNCHANGED mem
     ELSE LET fs == Ascending(Firsts(Cardinality(Private))) IN
          /\ build' = [build EXCEPT !.private = fs]
          /\ free' = free \ {fs[i] : i \in DOMAIN fs}
          /\ mem' = [f \in Frames |-> IF f \in {fs[i] : i \in DOMAIN fs}
                                       THEN [o \in 0 .. PAGE_SIZE - 1 |-> 0] ELSE mem[f]]
          /\ UNCHANGED spaces
  /\ UNCHANGED <<running, starts>>

MapPrivate ==
  LET k == Len(build.leaf) - Len(build.pages) + 1
      v == Ascending(Private)[k]
      b == build.space
  IN /\ build.pc = "private" /\ build.private # <<>> /\ k <= Cardinality(Private)
     /\ IF spaces[b].used + 1 > MAX_MAPPINGS THEN Abort /\ UNCHANGED mem
        ELSE MapOne(v, k = 1, FALSE, build.private[k], build,
                    [spaces EXCEPT ![b].maps = @ \cup {<<v, build.private[k]>>}, ![b].used = @ + 1])
     /\ UNCHANGED <<running, starts>>

\* user_launch and spawn_user; the scheduler may have no task slot left.
Launch(ok) ==
  /\ build.pc = "private" /\ Len(build.leaf) = Len(build.pages) + Cardinality(Private)
  /\ IF ok THEN /\ running' = [running EXCEPT ![build.slot] = build]
                /\ build' = Idle
                /\ UNCHANGED <<free, spaces>>
     ELSE Abort /\ UNCHANGED running
  /\ UNCHANGED <<mem, starts>>

\* reap, finish_stop and discard_all: process, private frames, tables, image.
Stop(s) ==
  /\ running[s] # <<>> /\ build.pc = "idle"
  /\ free' = free \cup Held(running[s])
  /\ spaces' = [spaces EXCEPT ![running[s].space] = <<>>]
  /\ running' = [running EXCEPT ![s] = <<>>]
  /\ UNCHANGED <<mem, build, starts>>

\* A program writes through its writable pages.
Store(s) ==
  /\ running[s] # <<>> /\ build.pc = "idle"
  /\ \E i \in DOMAIN running[s].leaf :
       /\ running[s].leaf[i].w
       /\ mem' = [mem EXCEPT ![running[s].leaf[i].frame] = [o \in 0 .. PAGE_SIZE - 1 |-> -1]]
  /\ UNCHANGED <<free, build, running, spaces, starts>>

Next ==
  \/ \E s \in Slots : (\E image \in Images : Start(s, image)) \/ Stop(s) \/ Store(s)
  \/ push_page \/ new_for_owner \/ map_image \/ Process \/ PrivateFrames \/ MapPrivate
  \/ \E ok \in BOOLEAN : populate_reader(ok) \/ Launch(ok)

Spec == Init /\ [][Next]_vars

-----------------------------------------------------------------------------
TypeOK == free \subseteq Frames /\ starts \in 0 .. MaxStarts

Live == {running[s] : s \in Slots} \ {<<>>}

\* A frame is free or in exactly one program or start, and a vacated start
\* leaves nothing behind: "every failure leaves no frame, endpoint, process or
\* task behind" (program_runtime.rs).
NoFrameLeaks ==
  LET uses(f) == (IF f \in free THEN 1 ELSE 0) + Cardinality({b \in Live : f \in Held(b)})
                 + (IF build.pc # "idle" /\ f \in Held(build) THEN 1 ELSE 0)
  IN /\ \A f \in Frames : uses(f) = 1
     /\ \A a \in DOMAIN spaces : spaces[a] # <<>> =>
          (\E b \in Live : b.space = a) \/ (build.pc # "idle" /\ build.space = a)

\* What a running program can reach: its leaves map distinct frames of its own
\* image and private pages, never a page table and never writable code; the
\* process table records exactly those translations.
TranslationsExact ==
  \A b \in Live :
    /\ \A i, j \in DOMAIN b.leaf : i # j => b.leaf[i].page # b.leaf[j].page
                                              /\ b.leaf[i].frame # b.leaf[j].frame
    /\ \A i \in DOMAIN b.leaf : /\ b.leaf[i].frame \notin b.frames
                                  /\ ~ (b.leaf[i].w /\ b.leaf[i].x)
    /\ spaces[b.space].maps = Mappings(b.leaf)
    /\ Cardinality(b.frames) = 1 + Cardinality(UNION {TablesOf(b.leaf[i].page) : i \in DOMAIN b.leaf})

\* The read-only pages of a running program hold the bytes of its segments and
\* zero elsewhere, whatever the frames held before.
ImageExact ==
  \A b \in Live : \A i \in DOMAIN b.pages : ~ b.pages[i].w =>
    \A o \in 0 .. PAGE_SIZE - 1 :
      LET a == b.pages[i].page * PAGE_SIZE + o
          seg == {k \in DOMAIN b.plan : b.plan[k].va <= a /\ a < b.plan[k].va + b.plan[k].file}
      IN mem[b.pages[i].frame][o] =
           IF seg = {} THEN 0 ELSE LET h == b.plan[Min(seg)] IN h.offset + (a - h.va) + 1
=============================================================================
