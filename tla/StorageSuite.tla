---------------------------- MODULE StorageSuite ----------------------------
\* The storage service and the devices, one component per behaviour: the
\* initial state picks a component and only that one takes steps, so one run
\* covers each of them on its own small instance.
EXTENDS Integers, Sequences, FiniteSets

VARIABLES part,   \* the component that runs in this behaviour
          ss_mode, ss_at, ss_inbox, ss_outbox, ss_sent, ss_taken, ss_response, ss_mapping, ss_package,
          ss_page, ss_core, ss_ring, ss_image, ss_save, ss_catalog, ss_user,
          bc_disk, bc_cache, bc_pins, bc_next, bc_maps, bc_pending, bc_windows, bc_space, bc_twice,
          bc_removed,
          on_memory, on_disk, on_generation, on_newest, on_tx, on_staged, on_handles, on_failed, on_gone,
          fe_record, fe_store, fe_bitmap, fe_op, fe_content, fe_writes,
          ps_records, ps_store, ps_install, ps_reader,
          bd_available, bd_used, bd_requests, bd_chain, bd_ring, bd_done, bd_dma, bd_disk, bd_device,
          bd_late, bd_nextId, bd_op, bd_slow,
          gp_framebuffer, gp_published, gp_writing, gp_cursor, gp_shown, gp_attempted, gp_ready, gp_slots,
          gp_active, gp_pending, gp_backing, gp_resource, gp_scanout, gp_command, gp_last,
          gp_lastCursor, gp_lastCursorFrame, gp_cursorInit, gp_step, gp_snap, gp_partial,
          nd_netReady, nd_rxPosted, nd_rxUsed, nd_pendingRx, nd_rxBuffer, nd_arrived, nd_taken,
          nd_txAvail, nd_txUsed, nd_txDevUsed, nd_txGen, nd_txBuffer, nd_txRing, nd_accepted,
          nd_sent, nd_inCount, nd_outCount,
          jv_disk, jv_vol, jv_todo, jv_seen, jv_log, jv_snap, jv_flying, jv_left,
          cv_store, cv_cow, cv_script, cv_state, cv_pend, cv_rest, cv_spoilt

\* The request loop of Storage: one ring slot, two chunks.
Ss == INSTANCE StorageService WITH
    mode <- ss_mode, at <- ss_at, inbox <- ss_inbox, outbox <- ss_outbox, sent <- ss_sent,
    taken <- ss_taken, response <- ss_response, mapping <- ss_mapping,
    package <- ss_package, page <- ss_page, core <- ss_core, ring <- ss_ring,
    image <- ss_image, save <- ss_save, catalog <- ss_catalog, user <- ss_user,
    RingSlots <- 1, Chunks <- 2, MaxRequests <- 1, MaxChunks <- 3, MaxExchanges <- 1

\* The block cache and its read-only windows: two blocks, three slots, two
\* clients.
Bc == INSTANCE BlockCache WITH
    disk <- bc_disk, cache <- bc_cache, pins <- bc_pins, next <- bc_next, maps <- bc_maps,
    pending <- bc_pending, windows <- bc_windows, space <- bc_space, twice <- bc_twice,
    removed <- bc_removed, Blocks <- 2, CACHE_SLOTS <- 3, MAX_READ_MAPS <- 2,
    Windows <- 1, Clients <- {"Flow", "Fetch"}, MaxWrites <- 1, MaxMaps <- 1

\* The object namespace and its API: three objects, two names.
On == INSTANCE ObjectNamespace WITH
    memory <- on_memory, disk <- on_disk, generation <- on_generation, newest <- on_newest,
    tx <- on_tx, staged <- on_staged, handles <- on_handles, failed <- on_failed,
    gone <- on_gone, MAX_OBJECTS <- 3, Names <- {"a", "b"}, MAX_HANDLES <- 1,
    MAX_TRANSACTION_RECORDS <- 2, MaxGeneration <- 2, MaxChanges <- 3,
    UnlatchedFaults <- FALSE, Files <- {"f", "g"}, Arena <- 6, BLOCK_BYTES <- 2,
    MAX_FILE_BYTES <- 2, MAX_FILE_EXTENTS <- 2, MaxLength <- 5, MaxWrites <- 3,
    record <- 0, store <- 0, bitmap <- 0, op <- 0, content <- 0, writes <- 0

\* File extents: two files in an arena of six blocks of two bytes.
Fe == INSTANCE ObjectNamespace WITH
    record <- fe_record, store <- fe_store, bitmap <- fe_bitmap, op <- fe_op,
    content <- fe_content, writes <- fe_writes, MAX_OBJECTS <- 3, Names <- {"a", "b"},
    MAX_HANDLES <- 1, MAX_TRANSACTION_RECORDS <- 2, MaxGeneration <- 2, MaxChanges <- 3,
    UnlatchedFaults <- FALSE, Files <- {"f", "g"}, Arena <- 6, BLOCK_BYTES <- 2,
    MAX_FILE_BYTES <- 2, MAX_FILE_EXTENTS <- 2, MaxLength <- 5, MaxWrites <- 3,
    memory <- 0, disk <- 0, generation <- 0, newest <- 0, tx <- 0, staged <- 0,
    handles <- 0, failed <- 0, gone <- 0

\* The package store: a service and a program, two versions of each.
Ps == INSTANCE PackageStore WITH
    records <- ps_records, store <- ps_store, install <- ps_install, reader <- ps_reader,
    Targets <- {"svc", "prog"}, Versions <- 1..2, Arena <- 5, MAX_PACKAGE_RECORDS <- 2,
    MAX_PACKAGE_EXTENTS <- 2, Size <- [svc |-> 2, prog |-> 1],
    Needs <- {<<>>, [svc |-> {1}]}, MaxGeneration <- 2

\* The virtio block device: a queue of two, two sectors.
Bd == INSTANCE VirtioDevices WITH
    available <- bd_available, used <- bd_used, requests <- bd_requests, chain <- bd_chain,
    ring <- bd_ring, done <- bd_done, dma <- bd_dma, disk <- bd_disk, device <- bd_device,
    late <- bd_late, nextId <- bd_nextId, op <- bd_op, slow <- bd_slow, QUEUE_SIZE <- 2,
    Sectors <- 1..2, MaxRequests <- 7, Tiles <- {1, 2}, FRAME_SLOT_COUNT <- 2,
    MaxDraws <- 2, MaxCursor <- 2, NETWORK_QUEUE_DESCRIPTORS <- 2, IndexMod <- 4,
    MaxFrames <- 5, framebuffer <- 0, published <- 0, writing <- 0, cursor <- 0,
    shown <- 0, attempted <- 0, ready <- 0, slots <- 0, active <- 0, pending <- 0,
    backing <- 0, resource <- 0, scanout <- 0, command <- 0, last <- 0, lastCursor <- 0,
    lastCursorFrame <- 0, cursorInit <- 0, step <- 0, snap <- 0, partial <- 0,
    netReady <- 0, rxPosted <- 0, rxUsed <- 0, pendingRx <- 0, rxBuffer <- 0,
    arrived <- 0, taken <- 0, txAvail <- 0, txUsed <- 0, txDevUsed <- 0, txGen <- 0,
    txBuffer <- 0, txRing <- 0, accepted <- 0, sent <- 0, inCount <- 0, outCount <- 0

\* The virtio GPU: two frame slots, two tiles, a cursor.
Gp == INSTANCE VirtioDevices WITH
    framebuffer <- gp_framebuffer, published <- gp_published, writing <- gp_writing,
    cursor <- gp_cursor, shown <- gp_shown, attempted <- gp_attempted, ready <- gp_ready,
    slots <- gp_slots, active <- gp_active, pending <- gp_pending, backing <- gp_backing,
    resource <- gp_resource, scanout <- gp_scanout, command <- gp_command,
    last <- gp_last, lastCursor <- gp_lastCursor, lastCursorFrame <- gp_lastCursorFrame,
    cursorInit <- gp_cursorInit, step <- gp_step, snap <- gp_snap, partial <- gp_partial,
    QUEUE_SIZE <- 2, Sectors <- 1..2, MaxRequests <- 7, Tiles <- {1, 2},
    FRAME_SLOT_COUNT <- 2, MaxDraws <- 2, MaxCursor <- 2, NETWORK_QUEUE_DESCRIPTORS <- 2,
    IndexMod <- 4, MaxFrames <- 5, available <- 0, used <- 0, requests <- 0, chain <- 0,
    ring <- 0, done <- 0, dma <- 0, disk <- 0, device <- 0, late <- 0, nextId <- 0,
    op <- 0, slow <- 0, netReady <- 0, rxPosted <- 0, rxUsed <- 0, pendingRx <- 0,
    rxBuffer <- 0, arrived <- 0, taken <- 0, txAvail <- 0, txUsed <- 0, txDevUsed <- 0,
    txGen <- 0, txBuffer <- 0, txRing <- 0, accepted <- 0, sent <- 0, inCount <- 0,
    outCount <- 0

\* The virtio network device: two descriptors a queue, indices modulo four.
Nd == INSTANCE VirtioDevices WITH
    netReady <- nd_netReady, rxPosted <- nd_rxPosted, rxUsed <- nd_rxUsed,
    pendingRx <- nd_pendingRx, rxBuffer <- nd_rxBuffer, arrived <- nd_arrived,
    taken <- nd_taken, txAvail <- nd_txAvail, txUsed <- nd_txUsed,
    txDevUsed <- nd_txDevUsed, txGen <- nd_txGen, txBuffer <- nd_txBuffer,
    txRing <- nd_txRing, accepted <- nd_accepted, sent <- nd_sent, inCount <- nd_inCount,
    outCount <- nd_outCount, QUEUE_SIZE <- 2, Sectors <- 1..2, MaxRequests <- 7,
    Tiles <- {1, 2}, FRAME_SLOT_COUNT <- 2, MaxDraws <- 2, MaxCursor <- 2,
    NETWORK_QUEUE_DESCRIPTORS <- 2, IndexMod <- 4, MaxFrames <- 5, available <- 0,
    used <- 0, requests <- 0, chain <- 0, ring <- 0, done <- 0, dma <- 0, disk <- 0,
    device <- 0, late <- 0, nextId <- 0, op <- 0, slow <- 0, framebuffer <- 0,
    published <- 0, writing <- 0, cursor <- 0, shown <- 0, attempted <- 0, ready <- 0,
    slots <- 0, active <- 0, pending <- 0, backing <- 0, resource <- 0, scanout <- 0,
    command <- 0, last <- 0, lastCursor <- 0, lastCursorFrame <- 0, cursorInit <- 0,
    step <- 0, snap <- 0, partial <- 0

\* The journal volume: thirteen blocks, three operations, a crash and an error.
Jv == INSTANCE Volumes WITH
    disk <- jv_disk, vol <- jv_vol, todo <- jv_todo, seen <- jv_seen, log <- jv_log,
    snap <- jv_snap, flying <- jv_flying, left <- jv_left, Versions <- {3}, BLOCKS <- 13,
    MAX_RECORDS <- 2, MAX_REPLAY_BLOCKS <- 6, CHECKPOINT_BLOCKS <- 2, COW_BLOCKS <- 12,
    MAX_RETIRED <- 2, ATTEMPTS <- 2, MaxTries <- 3, MaxCrashes <- 1, MaxFaults <- 1,
    MaxLost <- 1, store <- 0, cow <- 0, script <- 0, state <- 0, pend <- 0, rest <- 0,
    spoilt <- 0

\* The copy-on-write volume: twelve blocks, three transactions, a crash, an
\* error and a lost write.
Cv == INSTANCE Volumes WITH
    store <- cv_store, cow <- cv_cow, script <- cv_script, state <- cv_state, pend <- cv_pend,
    rest <- cv_rest, spoilt <- cv_spoilt, Versions <- {3}, BLOCKS <- 13, MAX_RECORDS <- 2,
    MAX_REPLAY_BLOCKS <- 6, CHECKPOINT_BLOCKS <- 2, COW_BLOCKS <- 12, MAX_RETIRED <- 2,
    ATTEMPTS <- 2, MaxTries <- 3, MaxCrashes <- 1, MaxFaults <- 1, MaxLost <- 1,
    disk <- 0, vol <- 0, todo <- 0, seen <- 0, log <- 0, snap <- 0, flying <- 0, left <- 0

SsVars == <<ss_mode, ss_at, ss_inbox, ss_outbox, ss_sent, ss_taken, ss_response, ss_mapping, ss_package,
    ss_page, ss_core, ss_ring, ss_image, ss_save, ss_catalog, ss_user>>
BcVars == <<bc_disk, bc_cache, bc_pins, bc_next, bc_maps, bc_pending, bc_windows, bc_space, bc_twice,
    bc_removed>>
OnVars == <<on_memory, on_disk, on_generation, on_newest, on_tx, on_staged, on_handles, on_failed, on_gone>>
FeVars == <<fe_record, fe_store, fe_bitmap, fe_op, fe_content, fe_writes>>
PsVars == <<ps_records, ps_store, ps_install, ps_reader>>
BdVars == <<bd_available, bd_used, bd_requests, bd_chain, bd_ring, bd_done, bd_dma, bd_disk, bd_device,
    bd_late, bd_nextId, bd_op, bd_slow>>
GpVars == <<gp_framebuffer, gp_published, gp_writing, gp_cursor, gp_shown, gp_attempted, gp_ready, gp_slots,
    gp_active, gp_pending, gp_backing, gp_resource, gp_scanout, gp_command, gp_last,
    gp_lastCursor, gp_lastCursorFrame, gp_cursorInit, gp_step, gp_snap, gp_partial>>
NdVars == <<nd_netReady, nd_rxPosted, nd_rxUsed, nd_pendingRx, nd_rxBuffer, nd_arrived, nd_taken,
    nd_txAvail, nd_txUsed, nd_txDevUsed, nd_txGen, nd_txBuffer, nd_txRing, nd_accepted, nd_sent,
    nd_inCount, nd_outCount>>
JvVars == <<jv_disk, jv_vol, jv_todo, jv_seen, jv_log, jv_snap, jv_flying, jv_left>>
CvVars == <<cv_store, cv_cow, cv_script, cv_state, cv_pend, cv_rest, cv_spoilt>>
vars == <<part, SsVars, BcVars, OnVars, FeVars, PsVars, BdVars, GpVars, NdVars, JvVars, CvVars>>

\* A component that does not run in the behaviour has no state.
SsAbsent == ss_mode = 0 /\ ss_at = 0 /\ ss_inbox = 0 /\ ss_outbox = 0 /\ ss_sent = 0 /\ ss_taken = 0
            /\ ss_response = 0 /\ ss_mapping = 0 /\ ss_package = 0 /\ ss_page = 0
            /\ ss_core = 0 /\ ss_ring = 0 /\ ss_image = 0 /\ ss_save = 0
            /\ ss_catalog = 0 /\ ss_user = 0
BcAbsent == bc_disk = 0 /\ bc_cache = 0 /\ bc_pins = 0 /\ bc_next = 0 /\ bc_maps = 0
            /\ bc_pending = 0 /\ bc_windows = 0 /\ bc_space = 0 /\ bc_twice = 0
            /\ bc_removed = 0
OnAbsent == on_memory = 0 /\ on_disk = 0 /\ on_generation = 0 /\ on_newest = 0 /\ on_tx = 0
            /\ on_staged = 0 /\ on_handles = 0 /\ on_failed = 0 /\ on_gone = 0
FeAbsent == fe_record = 0 /\ fe_store = 0 /\ fe_bitmap = 0 /\ fe_op = 0 /\ fe_content = 0
            /\ fe_writes = 0
PsAbsent == ps_records = 0 /\ ps_store = 0 /\ ps_install = 0 /\ ps_reader = 0
BdAbsent == bd_available = 0 /\ bd_used = 0 /\ bd_requests = 0 /\ bd_chain = 0 /\ bd_ring = 0
            /\ bd_done = 0 /\ bd_dma = 0 /\ bd_disk = 0 /\ bd_device = 0 /\ bd_late = 0
            /\ bd_nextId = 0 /\ bd_op = 0 /\ bd_slow = 0
GpAbsent == gp_framebuffer = 0 /\ gp_published = 0 /\ gp_writing = 0 /\ gp_cursor = 0
            /\ gp_shown = 0 /\ gp_attempted = 0 /\ gp_ready = 0 /\ gp_slots = 0
            /\ gp_active = 0 /\ gp_pending = 0 /\ gp_backing = 0 /\ gp_resource = 0
            /\ gp_scanout = 0 /\ gp_command = 0 /\ gp_last = 0 /\ gp_lastCursor = 0
            /\ gp_lastCursorFrame = 0 /\ gp_cursorInit = 0 /\ gp_step = 0 /\ gp_snap = 0
            /\ gp_partial = 0
NdAbsent == nd_netReady = 0 /\ nd_rxPosted = 0 /\ nd_rxUsed = 0 /\ nd_pendingRx = 0
            /\ nd_rxBuffer = 0 /\ nd_arrived = 0 /\ nd_taken = 0 /\ nd_txAvail = 0
            /\ nd_txUsed = 0 /\ nd_txDevUsed = 0 /\ nd_txGen = 0 /\ nd_txBuffer = 0
            /\ nd_txRing = 0 /\ nd_accepted = 0 /\ nd_sent = 0 /\ nd_inCount = 0
            /\ nd_outCount = 0
JvAbsent == jv_disk = 0 /\ jv_vol = 0 /\ jv_todo = 0 /\ jv_seen = 0 /\ jv_log = 0 /\ jv_snap = 0
            /\ jv_flying = 0 /\ jv_left = 0
CvAbsent == cv_store = 0 /\ cv_cow = 0 /\ cv_script = 0 /\ cv_state = 0 /\ cv_pend = 0
            /\ cv_rest = 0 /\ cv_spoilt = 0

Init ==
  /\ part \in {"Ss", "Bc", "On", "Fe", "Ps", "Bd", "Gp", "Nd", "Jv", "Cv"}
  /\ IF part = "Ss" THEN Ss!Init ELSE SsAbsent
  /\ IF part = "Bc" THEN Bc!Init ELSE BcAbsent
  /\ IF part = "On" THEN On!Init ELSE OnAbsent
  /\ IF part = "Fe" THEN Fe!ExtentInit ELSE FeAbsent
  /\ IF part = "Ps" THEN Ps!Init ELSE PsAbsent
  /\ IF part = "Bd" THEN Bd!Init ELSE BdAbsent
  /\ IF part = "Gp" THEN Gp!GpuInit ELSE GpAbsent
  /\ IF part = "Nd" THEN Nd!NetInit ELSE NdAbsent
  /\ IF part = "Jv" THEN Jv!Init ELSE JvAbsent
  /\ IF part = "Cv" THEN Cv!CowInit ELSE CvAbsent

SsNext == /\ part = "Ss" /\ Ss!Next
          /\ UNCHANGED <<part, BcVars, OnVars, FeVars, PsVars, BdVars, GpVars, NdVars, JvVars, CvVars>>
BcNext == /\ part = "Bc" /\ Bc!Next
          /\ UNCHANGED <<part, SsVars, OnVars, FeVars, PsVars, BdVars, GpVars, NdVars, JvVars, CvVars>>
OnNext == /\ part = "On" /\ On!Next
          /\ UNCHANGED <<part, SsVars, BcVars, FeVars, PsVars, BdVars, GpVars, NdVars, JvVars, CvVars>>
FeNext == /\ part = "Fe" /\ Fe!ExtentNext
          /\ UNCHANGED <<part, SsVars, BcVars, OnVars, PsVars, BdVars, GpVars, NdVars, JvVars, CvVars>>
PsNext == /\ part = "Ps" /\ Ps!Next
          /\ UNCHANGED <<part, SsVars, BcVars, OnVars, FeVars, BdVars, GpVars, NdVars, JvVars, CvVars>>
BdNext == /\ part = "Bd" /\ Bd!Next
          /\ UNCHANGED <<part, SsVars, BcVars, OnVars, FeVars, PsVars, GpVars, NdVars, JvVars, CvVars>>
GpNext == /\ part = "Gp" /\ Gp!GpuNext
          /\ UNCHANGED <<part, SsVars, BcVars, OnVars, FeVars, PsVars, BdVars, NdVars, JvVars, CvVars>>
NdNext == /\ part = "Nd" /\ Nd!NetNext
          /\ UNCHANGED <<part, SsVars, BcVars, OnVars, FeVars, PsVars, BdVars, GpVars, JvVars, CvVars>>
JvNext == /\ part = "Jv" /\ Jv!Next
          /\ UNCHANGED <<part, SsVars, BcVars, OnVars, FeVars, PsVars, BdVars, GpVars, NdVars, CvVars>>
CvNext == /\ part = "Cv" /\ Cv!CowNext
          /\ UNCHANGED <<part, SsVars, BcVars, OnVars, FeVars, PsVars, BdVars, GpVars, NdVars, JvVars>>

Next ==
  \/ SsNext
  \/ BcNext
  \/ OnNext
  \/ FeNext
  \/ PsNext
  \/ BdNext
  \/ GpNext
  \/ NdNext
  \/ JvNext
  \/ CvNext

Spec ==
  /\ Init /\ [][Next]_vars

\* What Storage keeps in two places agrees: pins and maps, cache and disk, the
\* snapshot and the namespace it reopens to, blocks and the extents that own
\* them, packages and what they depend on, the frame slots of the display
\* device, the rings of the network device, and a volume and the bitmap of its
\* blocks.
StateAgrees ==
  /\ part = "Ss" => Ss!TypeOK /\ Ss!CatalogIsOneSave
  /\ part = "Bc" => Bc!TypeOK /\ Bc!PinsMatchMaps /\ Bc!CacheIsCurrent
  /\ part = "On" => On!TypeOK /\ On!SnapshotReopens /\ On!RemovedStaysRemoved
  /\ part = "Fe" => Fe!ExtentTypeOK /\ Fe!EveryBlockOwnedOnce
  /\ part = "Ps" => Ps!TypeOK /\ Ps!PackagesIntact /\ Ps!DependenciesHold
  /\ part = "Bd" => Bd!TypeOK
  /\ part = "Gp" => Gp!GpuTypeOK /\ Gp!FrameSlotsAlternate
  /\ part = "Nd" => Nd!NetTypeOK /\ Nd!NothingStuck
  /\ part = "Jv" => Jv!TypeOK /\ Jv!FullWasAnnounced /\ Jv!RefusedOnlyWhenStale
  /\ part = "Cv" => Cv!CowTypeOK /\ Cv!CowBitmapExact /\ Cv!LiveBlocksKept /\ Cv!CowRefused

=============================================================================
