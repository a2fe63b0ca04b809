--------------------------- MODULE PlatformSuite ----------------------------
\* The memory and the service plumbing of Core, one component per behaviour:
\* the initial state picks a component and only that one takes steps, so one
\* run covers each of them on its own small instance.
EXTENDS Integers, Sequences, FiniteSets

(***************************************************************************)
(* Small ELF images: code with data, with zero-filled memory, with a       *)
(* segment that shares a page, with a writable and executable segment, and *)
(* with a read-only one.                                                   *)
(***************************************************************************)
Segment(va, offset, file, memory, w, x) ==
    [load |-> TRUE, va |-> va, offset |-> offset, file |-> file, memory |-> memory, w |-> w, x |-> x]
Code == Segment(2, 0, 3, 3, FALSE, TRUE)
Images == {[entry |-> 2, headers |-> <<Code, h>>] :
             h \in {Segment(6, 3, 1, 4, TRUE, FALSE), Segment(5, 3, 1, 2, TRUE, FALSE),
                    Segment(6, 3, 1, 1, TRUE, TRUE), Segment(6, 3, 1, 2, FALSE, FALSE)}}

RegistryBootDeps == [i \in 1..2 |-> IF i = 1 THEN {} ELSE {i - 1}]

VARIABLES part,   \* the component that runs in this behaviour
          fa_records, fa_cache, fa_remote, fa_cpu, fa_held, fa_issued, fa_lost, fa_calls,
          kh_slots, kh_pages, kh_leases, kh_used, kh_magazine, kh_frames, kh_live, kh_holder, kh_leaked,
          ui_free, ui_mem, ui_build, ui_running, ui_spaces, ui_starts,
          sm_free, sm_own, sm_heap, sm_stack, sm_mapped, sm_counted, sm_process, sm_status, sm_dropped,
          sm_starts,
          sh_holes, sh_mapped_end, sh_used, sh_live, sh_asked, sh_core, sh_faulted,
          sc_epoch, sc_queue, sc_disk, sc_data, sc_windows, sc_table, sc_maps, sc_instance, sc_rx,
          sc_page0, sc_packet, sc_sequence, sc_storage, sc_network, sc_device, sc_frames, sc_ids,
          sg_slots, sg_seed, sg_issued, sg_walk, sg_closure, sg_removes,
          pg_caps, pg_program, pg_client, pg_starts, pg_signaled, pg_sets, pg_pc, pg_walk, pg_surfaces,
          pg_table, pg_pending, pg_todo, pg_stale, pg_waits, pg_cached, pg_lastLost,
          bm_map, bm_exclusions, bm_runs, bm_slots, bm_phase,
          fw_task, fw_node, fw_queue, fw_avail, fw_clock, fw_waking,
          tl_spaces, tl_tlb, tl_queues, tl_acks, tl_sequence, tl_drained, tl_call,
          it_sizeof, it_enabled, it_pool, it_phase, it_raw, it_frames, it_ends, it_caps, it_bound,
          it_package, it_program, it_image, it_cache, it_cursor, it_found, it_sent

\* The frame allocator: two CPUs with a cache of one frame, two frames in two
\* shards.
Fa == INSTANCE FrameAllocator WITH
    records <- fa_records, cache <- fa_cache, remote <- fa_remote, cpu <- fa_cpu,
    held <- fa_held, issued <- fa_issued, lost <- fa_lost, calls <- fa_calls,
    Cpus <- 0..1, Slots <- 0..1, Owners <- {1}, Shards <- 0..1,
    ShardOf <- [s \in 0..1 |-> s], FRAME_CACHE_CAPACITY <- 1, FRAME_CACHE_REFILL <- 1,
    MaxGen <- 4, MaxCalls <- 6, Limit <- 5, HeapSlots <- 0..1, PageRecords <- 0..1,
    LeaseCount <- 3, Frames <- 0..3, SmallBytes <- {1},
    LargeBytes <- [b \in {2, 3} |-> b - 1], MAGAZINE <- 1, slots <- 0, pages <- 0,
    leases <- 0, used <- 0, magazine <- 0, frames <- 0, live <- 0, holder <- 0,
    leaked <- 0

\* The kernel heap: two CPUs, a quota of five, two slabs, objects of one size
\* and of one or two pages.
Kh == INSTANCE FrameAllocator WITH
    slots <- kh_slots, pages <- kh_pages, leases <- kh_leases, used <- kh_used,
    magazine <- kh_magazine, frames <- kh_frames, live <- kh_live, holder <- kh_holder,
    leaked <- kh_leaked, Cpus <- 0..1, Slots <- 0..1, Owners <- {1}, Shards <- 0..1,
    ShardOf <- [s \in 0..1 |-> s], FRAME_CACHE_CAPACITY <- 1, FRAME_CACHE_REFILL <- 1,
    MaxGen <- 3, MaxCalls <- 6, Limit <- 5, HeapSlots <- 0..1, PageRecords <- 0..1,
    LeaseCount <- 3, Frames <- 0..3, SmallBytes <- {1},
    LargeBytes <- [b \in {2, 3} |-> b - 1], MAGAZINE <- 1, records <- 0, cache <- 0,
    remote <- 0, cpu <- 0, held <- 0, issued <- 0, lost <- 0, calls <- 0

\* User images in two address spaces with eighteen frames.
Ui == INSTANCE UserImages WITH
    free <- ui_free, mem <- ui_mem, build <- ui_build, running <- ui_running,
    spaces <- ui_spaces, starts <- ui_starts, Slots <- 1..2, Frames <- 1..18,
    PAGE_SIZE <- 2, FileBytes <- 4, Stack <- {6}, Private <- {7, 8},
    Path <- [v \in 0..8 |-> <<"l4", IF v < 6 THEN "lo" ELSE "hi">>], Images <- Images,
    MAX_LOAD_PAGES <- 5, MAX_IMAGE_BYTES <- 8, MAX_MAPPINGS <- 5, MAX_ADDRESS_SPACES <- 2,
    MaxStarts <- 3

\* The memory of the services: User and Storage, started twice.
Sm == INSTANCE ServiceMemory WITH
    free <- sm_free, own <- sm_own, heap <- sm_heap, stack <- sm_stack, mapped <- sm_mapped,
    counted <- sm_counted, process <- sm_process, status <- sm_status,
    dropped <- sm_dropped, starts <- sm_starts, Services <- <<"user", "storage">>,
    User <- "user", Storage <- "storage", Frames <- 1..18, ImagePages <- 1,
    TablePages <- 1, KdfPages <- 1, DataPages <- 1, QueueFrames <- 1, DisplayPages <- 1,
    InputPages <- 1, SERVICE_HEAP_INITIAL_PAGES <- 1, HeapQuota <- 3,
    MAX_HEAP_GROWTH_PAGES <- 2, StackRoom <- 2, MaxStarts <- 2, PAGE <- 12,
    FREE_SPAN <- 3, HEADER <- 4, HEAP_GROWTH_PAGES <- 2, InitialPages <- 1,
    QuotaPages <- 4, Sizes <- {1, 3, 13}, Aligns <- {1, 8}, MaxLive <- 3, holes <- 0,
    mapped_end <- 0, used <- 0, live <- 0, asked <- 0, core <- 0, faulted <- 0

\* The heap inside a service: one initial page, a quota of four, three sizes
\* and two alignments.
Sh == INSTANCE ServiceMemory WITH
    holes <- sh_holes, mapped_end <- sh_mapped_end, used <- sh_used, live <- sh_live,
    asked <- sh_asked, core <- sh_core, faulted <- sh_faulted,
    Services <- <<"user", "storage">>, User <- "user", Storage <- "storage",
    Frames <- 1..18, ImagePages <- 1, TablePages <- 1, KdfPages <- 1, DataPages <- 1,
    QueueFrames <- 1, DisplayPages <- 1, InputPages <- 1, SERVICE_HEAP_INITIAL_PAGES <- 1,
    HeapQuota <- 3, MAX_HEAP_GROWTH_PAGES <- 2, StackRoom <- 2, MaxStarts <- 2,
    PAGE <- 12, FREE_SPAN <- 3, HEADER <- 4, HEAP_GROWTH_PAGES <- 2, InitialPages <- 1,
    QuotaPages <- 4, Sizes <- {1, 3, 13}, Aligns <- {1, 8}, MaxLive <- 3, free <- 0,
    own <- 0, heap <- 0, stack <- 0, mapped <- 0, counted <- 0, process <- 0, status <- 0,
    dropped <- 0, starts <- 0

\* The calls of a service into Core: storage windows, datagrams and package
\* requests.
Sc == INSTANCE ServiceCalls WITH
    epoch <- sc_epoch, queue <- sc_queue, disk <- sc_disk, data <- sc_data,
    windows <- sc_windows, table <- sc_table, maps <- sc_maps, instance <- sc_instance,
    rx <- sc_rx, page0 <- sc_page0, packet <- sc_packet, sequence <- sc_sequence,
    storage <- sc_storage, network <- sc_network, device <- sc_device,
    frames <- sc_frames, ids <- sc_ids, STORAGE_MAP_CLIENTS <- 1,
    STORAGE_MAP_WINDOWS_PER_CLIENT <- 2, STORAGE_MAP_WINDOW_PAGES <- 2,
    STORAGE_CACHE_PAGES <- 2, MaxMappings <- 3, Capacity <- 1, Blocks <- {1},
    Values <- {1, 2}, MaxEpoch <- 2, MaxIds <- 2, MaxFrames <- 1, MaxInstances <- 2

\* The service registry: three boot services in a chain, two package services.
Sg == INSTANCE ServiceRegistry WITH
    slots <- sg_slots, seed <- sg_seed, issued <- sg_issued, walk <- sg_walk,
    closure <- sg_closure, removes <- sg_removes, Boot <- 2, BootDeps <- RegistryBootDeps,
    Names <- {3, 4}, MaxSlots <- 3, MaxGeneration <- 2, MaxRemoves <- 1,
    DIRECTORY_RECORDS_PER_PAGE <- 2

\* Programs, their surfaces and the capability directory: one boot service, one
\* program.
Pg == INSTANCE ProgramSurfaces WITH
    caps <- pg_caps, program <- pg_program, client <- pg_client, starts <- pg_starts,
    signaled <- pg_signaled, sets <- pg_sets, pc <- pg_pc, walk <- pg_walk,
    surfaces <- pg_surfaces, table <- pg_table, pending <- pg_pending, todo <- pg_todo,
    stale <- pg_stale, waits <- pg_waits, cached <- pg_cached, lastLost <- pg_lastLost,
    Slots <- 1..2, Static <- 1, Page <- 2, MAX_ATRIUM_SURFACES <- 2, MaxStarts <- 2

\* The memory map at boot: four pages, three firmware descriptors, one
\* exclusion.
Bm == INSTANCE KernelMemory WITH
    map <- bm_map, exclusions <- bm_exclusions, runs <- bm_runs, slots <- bm_slots,
    phase <- bm_phase, LastPage <- 3, MAX_MEMORY_DESCRIPTORS <- 3, MAX_MEMORY_RUNS <- 2,
    MaxExclusions <- 1, Tasks <- 1..2, Nodes <- 1..2, Frames <- 1, Deadline <- 2,
    MaxTime <- 3, Cpus <- 0..1, Callers <- {1}, Spaces <- 1..2, Pages <- {1},
    MAX_MAPPINGS <- 1, MAX_TLB_BATCH_ENTRIES <- 2, MAX_TLB_QUEUE_ENTRIES <- 2,
    DrainBuffer <- 1, MaxSequence <- 2, MaxGeneration <- 2, task <- 0, node <- 0,
    queue <- 0, avail <- 0, clock <- 0, waking <- 0, spaces <- 0, tlb <- 0, queues <- 0,
    acks <- 0, sequence <- 0, drained <- 0, call <- 0

\* Tasks that wait for a frame: two tasks, two wait nodes, one frame.
Fw == INSTANCE KernelMemory WITH
    task <- fw_task, node <- fw_node, queue <- fw_queue, avail <- fw_avail, clock <- fw_clock,
    waking <- fw_waking, LastPage <- 3, MAX_MEMORY_DESCRIPTORS <- 3, MAX_MEMORY_RUNS <- 2,
    MaxExclusions <- 1, Tasks <- 1..2, Nodes <- 1..2, Frames <- 1, Deadline <- 2,
    MaxTime <- 3, Cpus <- 0..1, Callers <- {1}, Spaces <- 1..2, Pages <- {1},
    MAX_MAPPINGS <- 1, MAX_TLB_BATCH_ENTRIES <- 2, MAX_TLB_QUEUE_ENTRIES <- 2,
    DrainBuffer <- 1, MaxSequence <- 2, MaxGeneration <- 2, map <- 0, exclusions <- 0,
    runs <- 0, slots <- 0, phase <- 0, spaces <- 0, tlb <- 0, queues <- 0, acks <- 0,
    sequence <- 0, drained <- 0, call <- 0

\* TLB shootdown: two CPUs, two address spaces, one caller at a time, queues of
\* two entries.
Tl == INSTANCE KernelMemory WITH
    spaces <- tl_spaces, tlb <- tl_tlb, queues <- tl_queues, acks <- tl_acks,
    sequence <- tl_sequence, drained <- tl_drained, call <- tl_call, LastPage <- 3,
    MAX_MEMORY_DESCRIPTORS <- 3, MAX_MEMORY_RUNS <- 2, MaxExclusions <- 1, Tasks <- 1..2,
    Nodes <- 1..2, Frames <- 1, Deadline <- 2, MaxTime <- 3, Cpus <- 0..1, Callers <- {1},
    Spaces <- 1..2, Pages <- {1}, MAX_MAPPINGS <- 1, MAX_TLB_BATCH_ENTRIES <- 2,
    MAX_TLB_QUEUE_ENTRIES <- 2, DrainBuffer <- 1, MaxSequence <- 2, MaxGeneration <- 2,
    map <- 0, exclusions <- 0, runs <- 0, slots <- 0, phase <- 0, task <- 0, node <- 0,
    queue <- 0, avail <- 0, clock <- 0, waking <- 0

\* The whole endpoint table of the boot topology, with the frames it needs,
\* more and one less.
It == INSTANCE IpcTopology WITH
    sizeof <- it_sizeof, enabled <- it_enabled, pool <- it_pool, phase <- it_phase,
    raw <- it_raw, frames <- it_frames, ends <- it_ends, caps <- it_caps,
    bound <- it_bound, package <- it_package, program <- it_program, image <- it_image,
    cache <- it_cache, cursor <- it_cursor, found <- it_found, sent <- it_sent,
    Pools <- {597, 637, 596}, PAGE <- 8

FaVars == <<fa_records, fa_cache, fa_remote, fa_cpu, fa_held, fa_issued, fa_lost, fa_calls>>
KhVars == <<kh_slots, kh_pages, kh_leases, kh_used, kh_magazine, kh_frames, kh_live, kh_holder, kh_leaked>>
UiVars == <<ui_free, ui_mem, ui_build, ui_running, ui_spaces, ui_starts>>
SmVars == <<sm_free, sm_own, sm_heap, sm_stack, sm_mapped, sm_counted, sm_process, sm_status, sm_dropped,
    sm_starts>>
ShVars == <<sh_holes, sh_mapped_end, sh_used, sh_live, sh_asked, sh_core, sh_faulted>>
ScVars == <<sc_epoch, sc_queue, sc_disk, sc_data, sc_windows, sc_table, sc_maps, sc_instance, sc_rx,
    sc_page0, sc_packet, sc_sequence, sc_storage, sc_network, sc_device, sc_frames, sc_ids>>
SgVars == <<sg_slots, sg_seed, sg_issued, sg_walk, sg_closure, sg_removes>>
PgVars == <<pg_caps, pg_program, pg_client, pg_starts, pg_signaled, pg_sets, pg_pc, pg_walk, pg_surfaces,
    pg_table, pg_pending, pg_todo, pg_stale, pg_waits, pg_cached, pg_lastLost>>
BmVars == <<bm_map, bm_exclusions, bm_runs, bm_slots, bm_phase>>
FwVars == <<fw_task, fw_node, fw_queue, fw_avail, fw_clock, fw_waking>>
TlVars == <<tl_spaces, tl_tlb, tl_queues, tl_acks, tl_sequence, tl_drained, tl_call>>
ItVars == <<it_sizeof, it_enabled, it_pool, it_phase, it_raw, it_frames, it_ends, it_caps, it_bound,
    it_package, it_program, it_image, it_cache, it_cursor, it_found, it_sent>>
vars == <<part, FaVars, KhVars, UiVars, SmVars, ShVars, ScVars, SgVars, PgVars, BmVars, FwVars, TlVars, ItVars>>

\* A component that does not run in the behaviour has no state.
FaAbsent == fa_records = 0 /\ fa_cache = 0 /\ fa_remote = 0 /\ fa_cpu = 0 /\ fa_held = 0
            /\ fa_issued = 0 /\ fa_lost = 0 /\ fa_calls = 0
KhAbsent == kh_slots = 0 /\ kh_pages = 0 /\ kh_leases = 0 /\ kh_used = 0 /\ kh_magazine = 0
            /\ kh_frames = 0 /\ kh_live = 0 /\ kh_holder = 0 /\ kh_leaked = 0
UiAbsent == ui_free = 0 /\ ui_mem = 0 /\ ui_build = 0 /\ ui_running = 0 /\ ui_spaces = 0
            /\ ui_starts = 0
SmAbsent == sm_free = 0 /\ sm_own = 0 /\ sm_heap = 0 /\ sm_stack = 0 /\ sm_mapped = 0
            /\ sm_counted = 0 /\ sm_process = 0 /\ sm_status = 0 /\ sm_dropped = 0
            /\ sm_starts = 0
ShAbsent == sh_holes = 0 /\ sh_mapped_end = 0 /\ sh_used = 0 /\ sh_live = 0 /\ sh_asked = 0
            /\ sh_core = 0 /\ sh_faulted = 0
ScAbsent == sc_epoch = 0 /\ sc_queue = 0 /\ sc_disk = 0 /\ sc_data = 0 /\ sc_windows = 0
            /\ sc_table = 0 /\ sc_maps = 0 /\ sc_instance = 0 /\ sc_rx = 0
            /\ sc_page0 = 0 /\ sc_packet = 0 /\ sc_sequence = 0 /\ sc_storage = 0
            /\ sc_network = 0 /\ sc_device = 0 /\ sc_frames = 0 /\ sc_ids = 0
SgAbsent == sg_slots = 0 /\ sg_seed = 0 /\ sg_issued = 0 /\ sg_walk = 0 /\ sg_closure = 0
            /\ sg_removes = 0
PgAbsent == pg_caps = 0 /\ pg_program = 0 /\ pg_client = 0 /\ pg_starts = 0 /\ pg_signaled = 0
            /\ pg_sets = 0 /\ pg_pc = 0 /\ pg_walk = 0 /\ pg_surfaces = 0
            /\ pg_table = 0 /\ pg_pending = 0 /\ pg_todo = 0 /\ pg_stale = 0
            /\ pg_waits = 0 /\ pg_cached = 0 /\ pg_lastLost = 0
BmAbsent == bm_map = 0 /\ bm_exclusions = 0 /\ bm_runs = 0 /\ bm_slots = 0 /\ bm_phase = 0
FwAbsent == fw_task = 0 /\ fw_node = 0 /\ fw_queue = 0 /\ fw_avail = 0 /\ fw_clock = 0
            /\ fw_waking = 0
TlAbsent == tl_spaces = 0 /\ tl_tlb = 0 /\ tl_queues = 0 /\ tl_acks = 0 /\ tl_sequence = 0
            /\ tl_drained = 0 /\ tl_call = 0
ItAbsent == it_sizeof = 0 /\ it_enabled = 0 /\ it_pool = 0 /\ it_phase = 0 /\ it_raw = 0
            /\ it_frames = 0 /\ it_ends = 0 /\ it_caps = 0 /\ it_bound = 0
            /\ it_package = 0 /\ it_program = 0 /\ it_image = 0 /\ it_cache = 0
            /\ it_cursor = 0 /\ it_found = 0 /\ it_sent = 0

Init ==
  /\ part \in {"Fa", "Kh", "Ui", "Sm", "Sh", "Sc", "Sg", "Pg", "Bm", "Fw", "Tl", "It"}
  /\ IF part = "Fa" THEN Fa!Init ELSE FaAbsent
  /\ IF part = "Kh" THEN Kh!HeapInit ELSE KhAbsent
  /\ IF part = "Ui" THEN Ui!Init ELSE UiAbsent
  /\ IF part = "Sm" THEN Sm!Init ELSE SmAbsent
  /\ IF part = "Sh" THEN Sh!HeapInit ELSE ShAbsent
  /\ IF part = "Sc" THEN Sc!Init ELSE ScAbsent
  /\ IF part = "Sg" THEN Sg!Init ELSE SgAbsent
  /\ IF part = "Pg" THEN Pg!Init ELSE PgAbsent
  /\ IF part = "Bm" THEN Bm!Init ELSE BmAbsent
  /\ IF part = "Fw" THEN Fw!WaitInit ELSE FwAbsent
  /\ IF part = "Tl" THEN Tl!TlbInit ELSE TlAbsent
  /\ IF part = "It" THEN It!Init ELSE ItAbsent

FaNext == /\ part = "Fa" /\ Fa!Next
          /\ UNCHANGED <<part, KhVars, UiVars, SmVars, ShVars, ScVars, SgVars, PgVars, BmVars, FwVars, TlVars, ItVars>>
KhNext == /\ part = "Kh" /\ Kh!HeapNext
          /\ UNCHANGED <<part, FaVars, UiVars, SmVars, ShVars, ScVars, SgVars, PgVars, BmVars, FwVars, TlVars, ItVars>>
UiNext == /\ part = "Ui" /\ Ui!Next
          /\ UNCHANGED <<part, FaVars, KhVars, SmVars, ShVars, ScVars, SgVars, PgVars, BmVars, FwVars, TlVars, ItVars>>
SmNext == /\ part = "Sm" /\ Sm!Next
          /\ UNCHANGED <<part, FaVars, KhVars, UiVars, ShVars, ScVars, SgVars, PgVars, BmVars, FwVars, TlVars, ItVars>>
ShNext == /\ part = "Sh" /\ Sh!HeapNext
          /\ UNCHANGED <<part, FaVars, KhVars, UiVars, SmVars, ScVars, SgVars, PgVars, BmVars, FwVars, TlVars, ItVars>>
ScNext == /\ part = "Sc" /\ Sc!Next
          /\ UNCHANGED <<part, FaVars, KhVars, UiVars, SmVars, ShVars, SgVars, PgVars, BmVars, FwVars, TlVars, ItVars>>
SgNext == /\ part = "Sg" /\ Sg!Next
          /\ UNCHANGED <<part, FaVars, KhVars, UiVars, SmVars, ShVars, ScVars, PgVars, BmVars, FwVars, TlVars, ItVars>>
PgNext == /\ part = "Pg" /\ Pg!Next
          /\ UNCHANGED <<part, FaVars, KhVars, UiVars, SmVars, ShVars, ScVars, SgVars, BmVars, FwVars, TlVars, ItVars>>
BmNext == /\ part = "Bm" /\ Bm!Next
          /\ UNCHANGED <<part, FaVars, KhVars, UiVars, SmVars, ShVars, ScVars, SgVars, PgVars, FwVars, TlVars, ItVars>>
FwNext == /\ part = "Fw" /\ Fw!WaitNext
          /\ UNCHANGED <<part, FaVars, KhVars, UiVars, SmVars, ShVars, ScVars, SgVars, PgVars, BmVars, TlVars, ItVars>>
TlNext == /\ part = "Tl" /\ Tl!TlbNext
          /\ UNCHANGED <<part, FaVars, KhVars, UiVars, SmVars, ShVars, ScVars, SgVars, PgVars, BmVars, FwVars, ItVars>>
ItNext == /\ part = "It" /\ It!Next
          /\ UNCHANGED <<part, FaVars, KhVars, UiVars, SmVars, ShVars, ScVars, SgVars, PgVars, BmVars, FwVars, TlVars>>

Next ==
  \/ FaNext
  \/ KhNext
  \/ UiNext
  \/ SmNext
  \/ ShNext
  \/ ScNext
  \/ SgNext
  \/ PgNext
  \/ BmNext
  \/ FwNext
  \/ TlNext
  \/ ItNext

Spec ==
  /\ Init /\ [][Next]_vars

\* What two parts of Core keep about the same thing agrees: every frame and
\* every heap byte has one user and is accounted for once, the heap a service
\* sees is mapped, and no client of a surface is lost or entered twice; no
\* translation outlives its mapping unless a shootdown is pending, and a task
\* asleep for a frame can be woken.
StateAgrees ==
  /\ part = "Fa" => Fa!TypeOK /\ Fa!OneUserPerFrame /\ Fa!FramesAccounted
  /\ part = "Kh" => Kh!HeapTypeOK /\ Kh!ObjectsDisjoint /\ Kh!QuotasExact
  /\ part = "Ui" => Ui!TypeOK /\ Ui!NoFrameLeaks
  /\ part = "Sm" => Sm!TypeOK /\ Sm!FramesConserved /\ Sm!HeapMapped
  /\ part = "Sh" => Sh!HeapTypeOK /\ Sh!HeapTiled /\ Sh!LedgersAgree
  /\ part = "Sc" => Sc!TypeOK
  /\ part = "Sg" => Sg!TypeOK /\ Sg!DependenciesResolve
  /\ part = "Pg" => Pg!TypeOK /\ Pg!LiveClientKept /\ Pg!OneEventSet /\ Pg!EveryClientEntered
  /\ part = "Bm" => Bm!TypeOK /\ Bm!RunsNormal
  /\ part = "Fw" => Fw!WaitTypeOK /\ Fw!SleepersReachable
  /\ part = "Tl" => Tl!TlbTypeOK /\ Tl!StaleOnlyWhilePending
  /\ part = "It" => It!TypeOK /\ It!QueueFramesKept /\ It!EndpointsDistinct
                    /\ It!SendersAreHeard

=============================================================================
