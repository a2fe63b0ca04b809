---------------------------- MODULE VirtioDevices ----------------------------
\* The Core's VirtIO block driver (src/arch/virtio_device.rs): one synchronous
\* request at a time through a small ring, a single DMA data page shared by all
\* of them, a flush and device reset that roll the ring over, and an interrupt
\* handler that may run whenever no request holds the device.  The GPU and the
\* network device are machines with variables of their own, below.
EXTENDS Integers, Sequences, FiniteSets

CONSTANTS QUEUE_SIZE,   \* ring slots
          Sectors,      \* blocks of the disk
          MaxRequests   \* bound: request ids issued

VARIABLES
  available, used,      \* available_index, used_index of the driver
  requests,             \* slot -> id of the request the driver waits for, 0 if none
  chain,                \* slot -> the descriptors last written there
  ring,                 \* slots the device was told of and has not served
  done,                 \* slots the device has put in its used ring, unread
  dma, disk,            \* the DMA data block; sector -> contents
  device,               \* "On" (DRIVER_OK), "Off", or "Resetting"
  late,                 \* interrupt_completion: request id, 0 if none
  nextId,               \* next_request_generation
  op,                   \* the request that holds DEVICE_BUSY
  slow                  \* history: some device reset outlasted reset()

vars == <<available, used, requests, chain, ring, done, dma, disk, device, late, nextId, op, slow>>

Slots == 0..(QUEUE_SIZE - 1)
Idle == [step |-> "Idle", kind |-> "Flush", sector |-> 0, data |-> <<0, 0>>, id |-> 0, ok |-> FALSE]
Flush(id) == [kind |-> "Flush", sector |-> 0, id |-> id]

\* VirtioBlockDevice::initialize: a reset device, empty rings, DRIVER_OK.
Init ==
  /\ available = 0 /\ used = 0
  /\ requests = [s \in Slots |-> 0]
  /\ chain = [s \in Slots |-> Flush(0)]
  /\ ring = <<>> /\ done = <<>>
  /\ dma = <<0, 0>>
  /\ disk = [s \in Sectors |-> <<s, 0>>]
  /\ device = "On" /\ late = 0 /\ nextId = 1
  /\ op = Idle /\ slow = FALSE

NoRequests == \A s \in Slots : requests[s] = 0

\* submit: the chain goes to the slot of the available index and the device is
\* notified.  QueueFull when the slot still belongs to an earlier request.
QueueFull == requests[available % QUEUE_SIZE] # 0
submit(c) ==
  LET slot == available % QUEUE_SIZE IN
  /\ chain' = [chain EXCEPT ![slot] = c]
  /\ requests' = [requests EXCEPT ![slot] = c.id]
  /\ available' = available + 1
  /\ ring' = IF device = "On" THEN Append(ring, slot) ELSE ring

\* The ring rolls over at its last slot: a flush first, unless one is coming anyway.
Rollover(kind) == available % QUEUE_SIZE = QUEUE_SIZE - 1 /\ kind # "Flush" /\ NoRequests

\* QueueMemory::reset_rings keeps the data block: a write may be staged in it.
Rings(data) ==
  /\ available' = 0 /\ used' = 0 /\ ring' = <<>> /\ done' = <<>>
  /\ requests' = [s \in Slots |-> 0]
  /\ chain' = [s \in Slots |-> Flush(0)]
  /\ late' = 0 /\ dma' = data

reset_rings_Mutant == Rings(<<0, 0>>)
reset_rings == Rings(dma)

\* reset_device: the device acknowledges the reset and is brought up again; it
\* refuses its features after the rings were cleared; or reset() gives up on it.
ResetWorks == reset_rings /\ device' = "On" /\ UNCHANGED slow
ResetRejected == reset_rings /\ device' = "Off" /\ UNCHANGED slow
ResetTimesOut ==
  /\ device = "On"
  /\ device' = "Resetting" /\ slow' = TRUE
  /\ UNCHANGED <<available, used, requests, chain, ring, done, dma, late>>

\* transfer and flush up to the point where they wait.  A write is staged in the
\* DMA block before submit decides on the rollover.
Begin(kind, sector, data) ==
  /\ op.step = "Idle" /\ nextId < MaxRequests
  /\ dma' = IF kind = "Write" THEN data ELSE dma
  /\ LET o == [step |-> "Wait", kind |-> kind, sector |-> sector, data |-> data, id |-> nextId, ok |-> FALSE] IN
     IF Rollover(kind)
       THEN op' = [o EXCEPT !.step = "Rollover"] /\ nextId' = nextId + 2 /\ submit(Flush(nextId + 1))
     ELSE IF QueueFull
       THEN op' = Idle /\ nextId' = nextId + 1 /\ UNCHANGED <<chain, requests, available, ring>>
     ELSE op' = o /\ nextId' = nextId + 1 /\ submit([kind |-> kind, sector |-> sector, id |-> nextId])
  /\ UNCHANGED <<used, done, disk, device, late, slow>>

Awaited == IF op.step = "Rollover" THEN op.id + 1 ELSE op.id

\* take_completion, poll_completion: what the interrupt handler kept comes first,
\* then the next used element; its slot gives up the request.
HasCompletion == late # 0 \/ done # <<>>
Completion == IF late # 0 THEN [id |-> late, status |-> 0]
              ELSE [id |-> requests[Head(done).slot], status |-> Head(done).status]
take_completion ==
  /\ late' = 0
  /\ IF late # 0 THEN UNCHANGED <<used, done, requests>>
     ELSE /\ used' = used + 1 /\ done' = Tail(done)
          /\ requests' = [requests EXCEPT ![Head(done).slot] = 0]

\* wait_for_completion meets another request's completion (StaleCompletion), a
\* used element no request owns, or a failed status: the operation fails as it is.
WaitFails ==
  /\ op.step \in {"Wait", "Rollover"} /\ HasCompletion
  /\ Completion.id # Awaited \/ Completion.status # 0
  /\ take_completion
  /\ op' = Idle
  /\ UNCHANGED <<available, chain, ring, dma, disk, device, nextId, slow>>

\* A transfer completes; a read copies the DMA block to the caller's page.
TransferDone ==
  /\ op.step = "Wait" /\ HasCompletion /\ op.kind # "Flush"
  /\ Completion.id = Awaited /\ Completion.status = 0
  /\ take_completion
  /\ op' = [op EXCEPT !.step = "Returned", !.ok = TRUE, !.data = IF op.kind = "Read" THEN dma ELSE @]
  /\ UNCHANGED <<available, chain, ring, dma, disk, device, nextId, slow>>

\* A flush completes; at the end of the ring it resets the device, which empties
\* the ring.  A failed reset fails the flush.
FlushDone ==
  /\ op.step \in {"Wait", "Rollover"} /\ (op.kind = "Flush" \/ op.step = "Rollover")
  /\ HasCompletion /\ Completion.id = Awaited /\ Completion.status = 0
  /\ take_completion
  /\ op' = [op EXCEPT !.step = IF @ = "Rollover" THEN "FlushedRollover" ELSE "Flushed"]
  /\ UNCHANGED <<available, chain, ring, dma, disk, device, nextId, slow>>

FlushReturns ==
  /\ op.step \in {"Flushed", "FlushedRollover"}
  /\ LET next == IF op.step = "Flushed" THEN [op EXCEPT !.step = "Returned", !.ok = TRUE]
                 ELSE [op EXCEPT !.step = "Submit"] IN
     IF available % QUEUE_SIZE = 0 /\ NoRequests
       THEN \/ ResetWorks /\ op' = next
            \/ (ResetRejected \/ ResetTimesOut) /\ op' = Idle
       ELSE op' = next /\ UNCHANGED <<available, used, requests, chain, ring, done, dma, device, late, slow>>
  /\ UNCHANGED <<disk, nextId>>

\* The rest of submit once the rollover flush returned.
SubmitAfterFlush ==
  /\ op.step = "Submit" /\ ~QueueFull
  /\ submit([kind |-> op.kind, sector |-> op.sector, id |-> op.id])
  /\ op' = [op EXCEPT !.step = "Wait"]
  /\ UNCHANGED <<used, done, dma, disk, device, late, nextId, slow>>


\* The deadline or the spin limit: the device is reset and the request fails.
TimeOut ==
  /\ op.step \in {"Wait", "Rollover"} /\ ~HasCompletion
  /\ ResetWorks \/ ResetRejected \/ ResetTimesOut
  /\ op' = Idle
  /\ UNCHANGED <<disk, nextId>>

\* with_device_mut releases DEVICE_BUSY.
Return ==
  /\ op.step = "Returned" /\ op' = Idle
  /\ UNCHANGED <<available, used, requests, chain, ring, done, dma, disk, device, late, nextId, slow>>

\* handle_storage_interrupt with the queue bit set and the device free: the poll
\* replaces what an earlier interrupt had kept.
handle_interrupt ==
  /\ op.step = "Idle"
  /\ IF done = <<>> THEN late' = 0 /\ UNCHANGED <<used, done, requests>>
     ELSE /\ late' = requests[Head(done).slot]
          /\ used' = used + 1 /\ done' = Tail(done)
          /\ requests' = [requests EXCEPT ![Head(done).slot] = 0]
  /\ UNCHANGED <<available, chain, ring, dma, disk, device, nextId, op, slow>>

\* The device serves the next chain, with or without success, at any time after
\* the notify; one that was told to reset may still finish what it has.
Serve(status) ==
  /\ device # "Off" /\ ring # <<>>
  /\ LET slot == Head(ring)
         c == chain[slot] IN
     /\ ring' = Tail(ring)
     /\ done' = Append(done, [slot |-> slot, status |-> status])
     /\ disk' = IF c.kind = "Write" /\ status = 0 THEN [disk EXCEPT ![c.sector] = dma] ELSE disk
     /\ dma' = IF c.kind = "Read" /\ status = 0 THEN disk[c.sector] ELSE dma
  /\ UNCHANGED <<available, used, requests, chain, device, late, nextId, op, slow>>

\* A device that was told to reset and needed longer stops serving.
ResetLands ==
  /\ device = "Resetting"
  /\ device' = "Off" /\ ring' = <<>>
  /\ UNCHANGED <<available, used, requests, chain, done, dma, disk, late, nextId, op, slow>>

Next ==
  \/ \E s \in Sectors : Begin("Read", s, <<0, 0>>) \/ \E n \in 1..2 : Begin("Write", s, <<s, n>>)
  \/ Begin("Flush", 0, <<0, 0>>)
  \/ WaitFails \/ TransferDone \/ FlushDone \/ FlushReturns \/ SubmitAfterFlush
  \/ TimeOut \/ Return \/ handle_interrupt
  \/ \E status \in 0..1 : Serve(status)
  \/ ResetLands

Spec == Init /\ [][Next]_vars

-----------------------------------------------------------------------------
TypeOK ==
  /\ available \in Nat /\ used \in Nat /\ nextId \in Nat /\ late \in Nat
  /\ device \in {"On", "Off", "Resetting"}
  /\ \A s \in Sectors : disk[s][2] \in 0..2

\* A transfer that reports success moved exactly its block: a write is on the
\* disk as the caller staged it, through a rollover, its flush and its reset; a
\* read returns the sector.  Late completions of failed requests never count.
SuccessIsExact ==
  (op.step = "Returned" /\ op.kind # "Flush") => disk[op.sector] = op.data

\* No request, successful or failed, leaves a block on the disk that was never
\* written to that sector: the single DMA page is shared by all requests, and the
\* reset after a timeout keeps a late transfer off it, as long as the device obeys
\* the reset within the 1024 reads the driver grants it.
NoForeignData == ~slow => \A s \in Sectors : disk[s][1] = s

------------------------------------------------------------------------------
\* How a frame reaches the screen.  The Display service draws into the mapped
\* framebuffer and publishes a sequence number with the damaged regions
\* (FramebufferPresentState, abi/src/lib.rs); on every supervision pass the Core
\* copies the damage into a free one of two GPU frames and walks it through
\* transfer, flush and scanout (src/virtio/gpu.rs, frame_queue.rs).
CONSTANTS Tiles,        \* regions of the framebuffer
          FRAME_SLOT_COUNT,
          MaxDraws, MaxCursor   \* bounds: frames drawn, cursor publications

VARIABLES
  framebuffer,          \* tile -> version the Display drew last
  published,            \* sequence, full, rects of FramebufferPresentState
  writing,              \* publish in progress: metadata stored, sequence not yet
  cursor, shown,        \* cursor publication (sequence, visible); what the device shows
  attempted, ready,     \* DEVICE_ATTEMPTED, DEVICE_READY (and set_hardware_cursor)
  slots, active,        \* FrameQueue states and active
  pending,              \* pending_frame, <<>> if none
  backing, resource,    \* slot -> FRAME_MEMORY contents; slot -> contents at the host
  scanout,              \* slot on the screen
  command,              \* command in the graphics queue: served or not, <<>> if none
  last,                 \* last_present_sequence, -1 if None
  lastCursor, lastCursorFrame, cursorInit,
  step, snap,           \* where present() is; the snapshots it took on entry
  partial               \* history: some publication named damage and not the full frame

displayVars == <<framebuffer, published, writing, cursor, shown, attempted, ready, slots, active, pending,
          backing, resource, scanout, command, last, lastCursor, lastCursorFrame, cursorInit, step, snap,
          partial>>
gpuVars == <<attempted, ready, slots, active, pending, backing, resource, scanout, command, last,
             lastCursor, lastCursorFrame, cursorInit, shown, step, snap>>

FrameSlots == 0..(FRAME_SLOT_COUNT - 1)
Hidden == FALSE

GpuInit ==
  /\ framebuffer = [t \in Tiles |-> 0]
  /\ published = [seq |-> 0, full |-> FALSE, rects |-> {}] /\ writing = FALSE
  /\ cursor = [seq |-> 0, visible |-> FALSE] /\ shown = Hidden
  /\ attempted = FALSE /\ ready = FALSE
  /\ slots = [s \in Slots |-> "Free"] /\ active = 0
  /\ pending = <<>> /\ command = <<>>
  /\ backing = [s \in Slots |-> [t \in Tiles |-> 0]]
  /\ resource = [s \in Slots |-> [t \in Tiles |-> 0]]
  /\ scanout = 0 /\ last = -1
  /\ lastCursor = -1 /\ lastCursorFrame = -1 /\ cursorInit = FALSE
  /\ step = "Idle" /\ snap = [seq |-> 0, full |-> FALSE, rects |-> {}, cursor |-> 0, visible |-> FALSE]
  /\ partial = FALSE

\* The Display presents a frame: the damaged tiles are copied to the framebuffer,
\* then publish() stores the damage, and only then increments the sequence.  A
\* frame whose rectangles do not fit, and the first one, is published in full.
Draw(tiles, full) ==
  /\ ~writing /\ published.seq < MaxDraws
  /\ published.seq = 0 => full
  /\ framebuffer' = [t \in Tiles |-> IF t \in tiles THEN framebuffer[t] + 1 ELSE framebuffer[t]]
  /\ published' = [published EXCEPT !.full = full, !.rects = IF full THEN {} ELSE tiles]
  /\ writing' = TRUE /\ partial' = (partial \/ ~full)
  /\ UNCHANGED <<cursor, gpuVars>>

Publish ==
  /\ writing
  /\ published' = [published EXCEPT !.seq = @ + 1]
  /\ writing' = FALSE
  /\ UNCHANGED <<framebuffer, cursor, partial, gpuVars>>

publish_cursor(visible) ==
  /\ cursor.seq < MaxCursor /\ visible # cursor.visible
  /\ cursor' = [seq |-> cursor.seq + 1, visible |-> visible]
  /\ UNCHANGED <<framebuffer, published, writing, partial, gpuVars>>

\* FrameQueue::acquire and complete.
Free == {s \in FrameSlots : slots[s] = "Free"}
acquire == CHOOSE s \in Free : \A u \in Free : s <= u
completeMutant(slot) ==
  /\ active' = slot
  /\ slots' = [s \in Slots |-> IF s = slot THEN "Presented" ELSE slots[s]]

complete(slot) ==
  /\ active' = slot
  /\ slots' = [s \in Slots |-> IF s = slot THEN "Presented" ELSE IF s = active THEN "Free" ELSE slots[s]]

submit_graphics(kind, slot, tiles) ==
  command' = [kind |-> kind, slot |-> slot, tiles |-> tiles, served |-> FALSE]

\* present on entry: the snapshots.  Between publish's stores and its increment
\* they pair the new damage with the old sequence.
Snapshot ==
  /\ ready /\ step = "Idle" /\ step' = "Poll"
  /\ snap' = [seq |-> published.seq, full |-> published.full, rects |-> published.rects,
              cursor |-> cursor.seq, visible |-> cursor.visible]
  /\ UNCHANGED <<framebuffer, published, writing, cursor, partial, shown, attempted, ready, slots, active,
                 pending, backing, resource, scanout, command, last, lastCursor, lastCursorFrame, cursorInit>>

\* VirtioGpuDevice::initialize on the first pass: the whole framebuffer goes to
\* slot 0 by synchronous commands; it is tried once, and may fail.
initialize(ok) ==
  /\ ~ready /\ ~attempted
  /\ attempted' = TRUE /\ ready' = ok
  /\ IF ok
       THEN /\ backing' = [backing EXCEPT ![0] = framebuffer]
            /\ resource' = [resource EXCEPT ![0] = framebuffer]
            /\ slots' = [slots EXCEPT ![0] = "Presented"] /\ active' = 0 /\ scanout' = 0
            /\ last' = published.seq
       ELSE UNCHANGED <<backing, resource, slots, active, scanout, last>>
  /\ UNCHANGED <<framebuffer, published, writing, cursor, partial, shown, pending, command, lastCursor,
                 lastCursorFrame, cursorInit, step, snap>>

\* A timeout or a device error in a pass: the device is given up for good and the
\* software cursor returns.
Fallback ==
  /\ ready /\ step # "Idle" /\ ready' = FALSE /\ step' = "Idle"
  /\ UNCHANGED <<framebuffer, published, writing, cursor, partial, shown, attempted, slots, active, pending,
                 backing, resource, scanout, command, last, lastCursor, lastCursorFrame, cursorInit, snap>>

\* start_frame: whole frame, or the tiles of the published damage only, into the
\* backing of a free slot; the first transfer is submitted.
Damage == IF snap.full \/ snap.rects = {} \/ last = -1 THEN Tiles ELSE snap.rects
start_frame ==
  LET slot == acquire IN
  /\ slots' = [slots EXCEPT ![slot] = "Submitted"]
  /\ backing' = [backing EXCEPT ![slot] = [t \in Tiles |-> IF t \in Damage THEN framebuffer[t] ELSE @[t]]]
  /\ submit_graphics("Transfer", slot, Damage)
  /\ pending' = [slot |-> slot, seq |-> snap.seq, phase |-> "Transfer", tiles |-> Damage]

\* poll_pending_frame: the next phase once the device has served the last one.
\* The rectangles of one frame are walked one after the other; as nothing but the
\* device reads the backing meanwhile, the walk is one transfer and one flush.
AdvanceMutant ==
  IF pending.phase = "Transfer"
    THEN /\ pending' = [pending EXCEPT !.phase = "Flush"] /\ submit_graphics("Flush", pending.slot, pending.tiles)
         /\ UNCHANGED <<slots, active, last>>
    ELSE complete(pending.slot) /\ last' = pending.seq /\ pending' = <<>> /\ command' = <<>>

Advance ==
  LET p == pending IN
  CASE p.phase = "Transfer" ->
         /\ pending' = [p EXCEPT !.phase = "Flush"] /\ submit_graphics("Flush", p.slot, p.tiles)
         /\ UNCHANGED <<slots, active, last>>
    [] p.phase = "Flush" ->
         /\ pending' = [p EXCEPT !.phase = "Scanout"] /\ submit_graphics("Scanout", p.slot, Tiles)
         /\ UNCHANGED <<slots, active, last>>
    [] p.phase = "Scanout" ->
         /\ complete(p.slot) /\ last' = p.seq /\ pending' = <<>> /\ command' = <<>>

\* present, first part: poll_pending_frame.
Poll ==
  /\ step = "Poll" /\ step' = "Start"
  /\ IF pending # <<>> /\ (pending # <<>> => command.served) THEN Advance
     ELSE UNCHANGED <<pending, command, slots, active, last>>
  /\ UNCHANGED <<framebuffer, published, writing, cursor, partial, shown, attempted, ready, backing, resource,
                 scanout, lastCursor, lastCursorFrame, cursorInit, snap>>

\* present, second part: a new sequence starts a frame, if none is in flight.
Start ==
  /\ step = "Start" /\ step' = "Cursor"
  /\ IF last # snap.seq /\ pending = <<>> /\ Free # {} THEN start_frame
     ELSE UNCHANGED <<slots, backing, command, pending>>
  /\ UNCHANGED <<framebuffer, published, writing, cursor, partial, shown, attempted, ready, active, resource,
                 scanout, last, lastCursor, lastCursorFrame, cursorInit, snap>>

\* present, last part: the cursor command, waited for.  A hidden cursor that was
\* never shown needs none.
PresentCursor ==
  /\ step = "Cursor" /\ step' = "Idle"
  /\ lastCursor' = snap.cursor
  /\ IF \/ lastCursor = snap.cursor /\ ~(snap.visible /\ lastCursorFrame # snap.seq)
        \/ ~snap.visible /\ ~cursorInit
       THEN UNCHANGED <<shown, cursorInit, lastCursorFrame>>
       ELSE /\ shown' = snap.visible /\ cursorInit' = snap.visible
            /\ lastCursorFrame' = IF snap.visible THEN snap.seq ELSE -1
  /\ UNCHANGED <<framebuffer, published, writing, cursor, partial, attempted, ready, slots, active, pending,
                 backing, resource, scanout, command, last, snap>>

\* The device serves the command: a transfer copies backing to resource, a
\* scanout puts the resource on the screen.
ServeFrame ==
  /\ command # <<>> /\ ~command.served
  /\ command' = [command EXCEPT !.served = TRUE]
  /\ resource' = IF command.kind = "Transfer"
                   THEN [resource EXCEPT ![command.slot] =
                           [t \in Tiles |-> IF t \in command.tiles THEN backing[command.slot][t] ELSE @[t]]]
                   ELSE resource
  /\ scanout' = IF command.kind = "Scanout" THEN command.slot ELSE scanout
  /\ UNCHANGED <<framebuffer, published, writing, cursor, shown, attempted, ready, slots, active,
                 pending, backing, last, lastCursor, lastCursorFrame, cursorInit, step, snap, partial>>

GpuNext ==
  \/ \E tiles \in SUBSET Tiles \ {{}}, full \in BOOLEAN : Draw(tiles, full)
  \/ Publish
  \/ \E visible \in BOOLEAN : publish_cursor(visible)
  \/ \E ok \in BOOLEAN : initialize(ok)
  \/ Snapshot \/ Fallback \/ Poll \/ Start \/ PresentCursor \/ ServeFrame

GpuSpec == GpuInit /\ [][GpuNext]_displayVars

-----------------------------------------------------------------------------
GpuTypeOK ==
  /\ active \in FrameSlots /\ scanout \in FrameSlots /\ last \in Int
  /\ \A s \in FrameSlots : slots[s] \in {"Free", "Submitted", "Presented"}

Quiet == ready /\ step = "Idle" /\ ~writing /\ pending = <<>> /\ last = published.seq

\* The slot on the screen is never the one being filled, and a slot is free
\* whenever a frame may start, so a pass never ends in a full frame queue.
FrameSlotsAlternate ==
  ready => /\ slots[active] = "Presented"
           /\ pending = <<>> => Free # {} /\ scanout = active
           /\ pending # <<>> => pending.slot # active /\ slots[pending.slot] = "Submitted"

\* With nothing left to do, the screen is what the Display drew, if every frame
\* was published in full, and the device shows the cursor as published.
FullFramesReachTheScreen ==
  (Quiet /\ ~partial) => resource[scanout] = framebuffer

\* A cursor publication is not lost between passes.
CursorReachesTheScreen ==
  (ready /\ step = "Idle" /\ lastCursor = cursor.seq) => shown = cursor.visible

\* With nothing left to do, the screen is what the Display drew, whatever was
\* published as damage.
ScreenIsFramebuffer == Quiet => resource[scanout] = framebuffer

------------------------------------------------------------------------------
\* The Core's VirtIO network driver (src/arch/virtio_net.rs): receive buffers
\* lent to the device and lent again once copied out, transmit slots reclaimed by
\* wrapping sequence numbers, and an interrupt handler on the same state.  The
\* DEVICE_BUSY try-lock makes every entry point atomic against the others; the
\* device itself runs at any time.
CONSTANTS NETWORK_QUEUE_DESCRIPTORS,
          IndexMod,     \* ring indices wrap here (2^16 in the code)
          MaxFrames     \* bound: frames that arrive, and frames that are sent

VARIABLES
  netReady,                       \* DEVICE_READY
  rxPosted, rxUsed, pendingRx, \* buffers the device may fill; used elements unread; pending_rx
  rxBuffer,                    \* buffer -> frame number in it, 0 if none
  arrived, taken,              \* frames the device accepted / take_frame returned
  txAvail, txUsed, txDevUsed,  \* tx_available_index, tx_used_index, the device's used index
  txGen, txBuffer, txRing,     \* tx_generations; slot -> frame; slots the device was told of
  accepted, sent,              \* frames submit_tx accepted / the device put on the wire
  inCount, outCount            \* frames offered so far, either way

rxVars == <<rxPosted, rxUsed, pendingRx, rxBuffer, arrived, taken>>
txVars == <<txAvail, txUsed, txDevUsed, txGen, txBuffer, txRing, accepted, sent>>
netVars == <<netReady, rxVars, txVars, inCount, outCount>>

N == NETWORK_QUEUE_DESCRIPTORS
NetSlots == 0..(N - 1)
wrapping_sub(a, b) == (a - b) % IndexMod
wrapping_add(a) == (a + 1) % IndexMod

\* initialize and post_rx_buffers: every receive buffer is the device's.
Fresh ==
  /\ rxPosted' = [i \in 1..N |-> i - 1] /\ rxUsed' = <<>> /\ pendingRx' = <<>>
  /\ rxBuffer' = [s \in Slots |-> 0] /\ arrived' = <<>> /\ taken' = <<>>
  /\ txAvail' = 0 /\ txUsed' = 0 /\ txDevUsed' = 0
  /\ txGen' = [s \in Slots |-> 0] /\ txBuffer' = [s \in Slots |-> 0] /\ txRing' = <<>>
  /\ accepted' = <<>> /\ sent' = <<>>

NetInit ==
  /\ netReady = TRUE
  /\ rxPosted = [i \in 1..N |-> i - 1] /\ rxUsed = <<>> /\ pendingRx = <<>>
  /\ rxBuffer = [s \in Slots |-> 0] /\ arrived = <<>> /\ taken = <<>>
  /\ txAvail = 0 /\ txUsed = 0 /\ txDevUsed = 0
  /\ txGen = [s \in Slots |-> 0] /\ txBuffer = [s \in Slots |-> 0] /\ txRing = <<>>
  /\ accepted = <<>> /\ sent = <<>>
  /\ inCount = 0 /\ outCount = 0

\* reclaim_tx: the used elements up to the device's index, in order; one whose
\* slot was not submitted under that sequence stops the walk.
Reclaimable == {k \in 0..wrapping_sub(txDevUsed, txUsed) :
                  \A j \in 0..(k - 1) : txGen[(txUsed + j) % N] = (txUsed + j) % IndexMod}
Reclaim == CHOOSE k \in Reclaimable : \A j \in Reclaimable : j <= k
ReclaimOk == wrapping_sub(txDevUsed, txUsed) <= N /\ Reclaim = wrapping_sub(txDevUsed, txUsed)
reclaim_tx ==
  LET k == IF wrapping_sub(txDevUsed, txUsed) <= N THEN Reclaim ELSE 0 IN
  [used |-> (txUsed + k) % IndexMod,
   gen |-> [s \in Slots |-> IF \E j \in 0..(k - 1) : (txUsed + j) % N = s THEN 0 ELSE txGen[s]]]

\* submit_tx: QueueFull while the device may still read the slot's buffer.
TxFullMutant(r) == wrapping_sub(txAvail, r.used) > N
TxFull(r) == wrapping_sub(txAvail, r.used) >= N
submit_frame ==
  /\ netReady /\ outCount < MaxFrames
  /\ LET r == reclaim_tx
         slot == txAvail % N IN
     /\ txUsed' = r.used
     /\ IF ~ReclaimOk \/ TxFull(r)
          THEN txGen' = r.gen /\ UNCHANGED <<txBuffer, txRing, txAvail, accepted>>
          ELSE /\ txGen' = [r.gen EXCEPT ![slot] = txAvail]
               /\ txBuffer' = [txBuffer EXCEPT ![slot] = outCount + 1]
               /\ txRing' = Append(txRing, slot)
               /\ txAvail' = wrapping_add(txAvail)
               /\ accepted' = Append(accepted, outCount + 1)
  /\ outCount' = outCount + 1
  /\ UNCHANGED <<netReady, rxVars, txDevUsed, sent, inCount>>

\* reap_rx: one used element becomes the pending frame, unless one is pending.
ReapNowMutant == rxUsed # <<>>
ReapNow == pendingRx = <<>> /\ rxUsed # <<>>
Reaped == IF ReapNow THEN <<Head(rxUsed)>> ELSE pendingRx

\* take_frame: the pending frame is copied to the packet page and its buffer is
\* lent to the device again.
take_frame ==
  /\ netReady /\ Reaped # <<>>
  /\ LET slot == Reaped[1] IN
     /\ taken' = Append(taken, rxBuffer[slot])
     /\ rxPosted' = Append(rxPosted, slot)
  /\ rxUsed' = IF ReapNow THEN Tail(rxUsed) ELSE rxUsed
  /\ pendingRx' = <<>>
  /\ UNCHANGED <<netReady, rxBuffer, arrived, txVars, inCount, outCount>>

\* handle_interrupt with the queue bit set: both directions are reaped.
net_interrupt ==
  /\ netReady
  /\ LET r == reclaim_tx IN txUsed' = r.used /\ txGen' = r.gen
  /\ pendingRx' = Reaped
  /\ rxUsed' = IF ReapNow THEN Tail(rxUsed) ELSE rxUsed
  /\ UNCHANGED <<netReady, rxPosted, rxBuffer, arrived, taken, txAvail, txDevUsed, txBuffer, txRing,
                 accepted, sent, inCount, outCount>>

\* reset (a service graph restart): the device is brought up with zeroed rings,
\* or does not come back and is never used again.  A busy device is left alone,
\* which is no step.
reset ==
  /\ netReady
  /\ \/ Fresh /\ UNCHANGED netReady
     \/ netReady' = FALSE /\ UNCHANGED <<rxVars, txVars>>
  /\ UNCHANGED <<inCount, outCount>>

\* The device: a frame arrives in the next posted buffer; a told slot is sent.
Arrive ==
  /\ netReady /\ rxPosted # <<>> /\ inCount < MaxFrames
  /\ rxBuffer' = [rxBuffer EXCEPT ![Head(rxPosted)] = inCount + 1]
  /\ rxUsed' = Append(rxUsed, Head(rxPosted)) /\ rxPosted' = Tail(rxPosted)
  /\ arrived' = Append(arrived, inCount + 1) /\ inCount' = inCount + 1
  /\ UNCHANGED <<netReady, pendingRx, taken, txVars, outCount>>

Transmit ==
  /\ netReady /\ txRing # <<>>
  /\ sent' = Append(sent, txBuffer[Head(txRing)])
  /\ txRing' = Tail(txRing) /\ txDevUsed' = wrapping_add(txDevUsed)
  /\ UNCHANGED <<netReady, rxVars, txAvail, txUsed, txGen, txBuffer, accepted, inCount, outCount>>

NetNext == submit_frame \/ take_frame \/ net_interrupt \/ reset \/ Arrive \/ Transmit

NetSpec == NetInit /\ [][NetNext]_netVars

-----------------------------------------------------------------------------
NetTypeOK == netReady \in BOOLEAN /\ pendingRx \in {<<>>} \cup {<<s>> : s \in NetSlots}

IsPrefixOf(s, t) == Len(s) <= Len(t) /\ s = SubSeq(t, 1, Len(s))

\* Between two resets, the frames the Network service takes are the frames the
\* device received, in order, whole and once each; and the frames that leave are
\* those submit_frame accepted, in order and not overwritten by later ones,
\* across the wrap of the ring indices.
FramesExact == IsPrefixOf(taken, arrived) /\ IsPrefixOf(sent, accepted)

\* No frame is stuck in the driver: what arrived and was not taken is pending or
\* in the used ring, and every transmit slot not with the device is reclaimable.
NothingStuck ==
  netReady => /\ Len(arrived) = Len(taken) + Len(pendingRx) + Len(rxUsed)
           /\ ReclaimOk
==============================================================================
