---------------------------- MODULE KernelMemory -----------------------------
\* The memory map handed over by the firmware and the frame slots made of it:
\* MemoryMap::push (src/boot_resources.rs), normalize_memory_map and
\* PhysicalFrameManager::initialize_with_region (src/memory.rs).  Addresses are
\* page numbers.  The result is compared with the set of pages that some
\* available descriptor covers and no other descriptor or exclusion does.
\* Tasks that wait for a frame and the TLB coordinator are machines with
\* variables of their own, below.
EXTENDS Integers, SequencesExt, FiniteSets, FiniteSetsExt

CONSTANTS LastPage, MAX_MEMORY_DESCRIPTORS, MAX_MEMORY_RUNS,
          MaxExclusions      \* explicit exclusions: kernel, framebuffer, metadata

VARIABLES map,          \* descriptors copied so far
          exclusions,   \* explicit exclusions
          runs,         \* the normalized runs
          slots,        \* page of every frame slot, in slot order
          phase

vars == <<map, exclusions, runs, slots, phase>>

Ranges == {r \in [start : 0 .. LastPage, pages : 1 .. LastPage + 1] : r.start + r.pages <= LastPage + 1}
Covered(r) == r.start .. (r.start + r.pages - 1)
PagesIn(S) == UNION {Covered(r) : r \in S}
Run(start, end) == [start |-> start, pages |-> end - start]
End(r) == r.start + r.pages

Init ==
  /\ map = <<>> /\ exclusions = <<>> /\ runs = <<>> /\ slots = <<>>
  /\ phase = "collect"

Push(r, available) ==
  /\ phase = "collect" /\ exclusions = <<>> /\ Len(map) < MAX_MEMORY_DESCRIPTORS
  /\ map' = Append(map, [range |-> r, available |-> available])
  /\ UNCHANGED <<exclusions, runs, slots, phase>>

Exclude(r) ==
  /\ phase = "collect" /\ Len(exclusions) < MaxExclusions
  /\ exclusions' = Append(exclusions, r)
  /\ UNCHANGED <<map, runs, slots, phase>>

-----------------------------------------------------------------------------
sort_ranges(s) == SortSeq(s, LAMBDA a, b : a.start < b.start)

\* Ranges that overlap or touch the one before become one range.
merge_rangesMutant(s) ==
  FoldLeft(LAMBDA out, r :
             IF out # <<>> /\ r.start <= End(Last(out))
             THEN [out EXCEPT ![Len(out)] = Run(Last(out).start, End(r))]
             ELSE Append(out, r), <<>>, s)

merge_ranges(s) ==
  FoldLeft(LAMBDA out, r :
             IF out # <<>> /\ r.start <= End(Last(out))
             THEN [out EXCEPT ![Len(out)] = Run(Last(out).start, Max({End(Last(out)), End(r)}))]
             ELSE Append(out, r), <<>>, s)

\* What an exclusion leaves of a candidate: the whole, or the ends that stick out.
subtract(c, e) ==
  IF End(e) <= c.start \/ e.start >= End(c) THEN <<c>>
  ELSE (IF e.start > c.start THEN <<Run(c.start, e.start)>> ELSE <<>>)
       \o (IF End(e) < End(c) THEN <<Run(End(e), End(c))>> ELSE <<>>)

SubtractAll(current, e) == FlattenSeq([i \in DOMAIN current |-> subtract(current[i], e)])

Kept(available) == LET chosen == SelectSeq(map, LAMBDA d : d.available = available)
                   IN [i \in DOMAIN chosen |-> chosen[i].range]

\* Every intermediate array has MAX_MEMORY_RUNS places.
TooMany(available, excluded, left) ==
  \/ Len(available) > MAX_MEMORY_RUNS \/ Len(excluded) > MAX_MEMORY_RUNS
  \/ \E i \in DOMAIN left : Len(left[i]) > MAX_MEMORY_RUNS

normalize_memory_map ==
  LET available == Kept(TRUE)
      excluded == Kept(FALSE) \o exclusions
      cut == merge_ranges(sort_ranges(excluded))
      first == merge_ranges(sort_ranges(available))
      left[i \in 0 .. Len(cut)] == IF i = 0 THEN first ELSE SubtractAll(left[i - 1], cut[i])
  IN /\ phase = "collect" /\ map # <<>>
     /\ IF TooMany(available, excluded, left) THEN phase' = "failed" /\ UNCHANGED runs
        ELSE phase' = "normalized" /\ runs' = merge_ranges(sort_ranges(left[Len(cut)]))
     /\ UNCHANGED <<map, exclusions, slots>>

\* Page zero never becomes a frame.
Usable(r) == IF r.start = 0 THEN Run(1, End(r)) ELSE r

initialize_with_region ==
  /\ phase = "normalized"
  /\ phase' = "ready"
  /\ slots' = FlattenSeq([i \in DOMAIN runs |->
                LET r == Usable(runs[i]) IN [k \in 1 .. r.pages |-> r.start + k - 1]])
  /\ UNCHANGED <<map, exclusions, runs>>

Next ==
  \/ \E r \in Ranges : Exclude(r) \/ \E a \in BOOLEAN : Push(r, a)
  \/ normalize_memory_map \/ initialize_with_region

Spec == Init /\ [][Next]_vars

-----------------------------------------------------------------------------
TypeOK == phase \in {"collect", "normalized", "failed", "ready"}

Available == PagesIn({map[i].range : i \in {j \in DOMAIN map : map[j].available}})
Excluded == PagesIn({map[i].range : i \in {j \in DOMAIN map : ~ map[j].available}})
            \cup PagesIn(Range(exclusions))

\* Every frame slot is one usable page and every usable page is one slot, in
\* address order: no page the firmware, the kernel or a device owns is ever
\* handed out, and none is handed out twice.
SlotsExact ==
  phase = "ready" =>
    /\ Range(slots) = (Available \ Excluded) \ {0}
    /\ \A i, j \in DOMAIN slots : i < j => slots[i] < slots[j]

\* The runs are sorted, disjoint and maximal.
RunsNormal ==
  \A i \in 1 .. Len(runs) - 1 : End(runs[i]) < runs[i + 1].start

------------------------------------------------------------------------------
\* Waiting for a frame: alloc_async, its future and the preallocated wait nodes
\* of src/memory.rs.  A future that finds no frame stores its waker in its node
\* and its node in the queue of its shard; a free wakes one node of the freed
\* frame's shard, and the clock wakes every node whose deadline has passed.
\* All futures here poll on one shard.
CONSTANTS Tasks,         \* tasks that want a frame
          Nodes,         \* wait nodes
          Frames,        \* number of frames
          Deadline,      \* deadline every future is given
          MaxTime

VARIABLES task,      \* task -> where its future is, its node and whether it is woken
          node,      \* node -> state, whether it holds a waker, its deadline
          queue,     \* nodes in the shard's wait queue
          avail,     \* frames free
          clock,
          waking     \* a free in progress: the nodes it still may wake, or "none"

waitVars == <<task, node, queue, avail, clock, waking>>

Unused == [state |-> "FREE", waker |-> FALSE, deadline |-> 0]

WaitInit ==
  /\ task = [t \in Tasks |-> [pc |-> "new", node |-> 0, woken |-> FALSE]]
  /\ node = [n \in Nodes |-> Unused]
  /\ queue = {}
  /\ avail = Frames
  /\ clock = 0
  /\ waking = <<>>

-----------------------------------------------------------------------------
Owner(n) == CHOOSE t \in Tasks : task[t].node = n

\* alloc_async: the first node that is free is claimed, if there is one.
alloc_async(t) ==
  LET open == {n \in Nodes : node[n].state = "FREE"}
      n == IF open = {} THEN 0 ELSE Min(open)
  IN /\ task[t].pc = "new"
     /\ task' = [task EXCEPT ![t] = [pc |-> "poll", node |-> n, woken |-> TRUE]]
     /\ node' = IF n = 0 THEN node
                ELSE [node EXCEPT ![n].state = "ACTIVE", ![n].deadline = Deadline]
     /\ UNCHANGED <<queue, avail, clock, waking>>

\* release_node: out of the queue, then free with no waker.
Released(t) == IF task[t].node = 0 THEN node ELSE [node EXCEPT ![task[t].node] = Unused]

\* Future::poll: the deadline, then try_alloc; without a frame the waker is
\* stored before the node joins the queue.
poll(t) ==
  /\ task[t].pc = "poll" /\ task[t].woken
  /\ IF clock >= Deadline \/ avail > 0
     THEN /\ task' = [task EXCEPT ![t].pc = IF clock >= Deadline THEN "late" ELSE "held",
                                  ![t].node = 0, ![t].woken = FALSE]
          /\ node' = Released(t)
          /\ queue' = queue \ {task[t].node}
          /\ avail' = IF clock >= Deadline THEN avail ELSE avail - 1
     ELSE /\ task' = [task EXCEPT ![t].pc = IF task[t].node = 0 THEN "poll" ELSE "store",
                                  ![t].woken = FALSE]
          /\ UNCHANGED <<node, queue, avail>>
  /\ UNCHANGED <<clock, waking>>

set_wakerMutant(t) ==
  LET n == task[t].node IN
  /\ task[t].pc = "store"
  /\ node' = [node EXCEPT ![n].waker = TRUE]
  /\ task' = [task EXCEPT ![t].pc = "add"]
  /\ UNCHANGED <<queue, avail, clock, waking>>

set_waker(t) ==
  LET n == task[t].node IN
  /\ task[t].pc = "store"
  /\ node' = [node EXCEPT ![n].waker = TRUE, ![n].state = "ACTIVE"]
  /\ task' = [task EXCEPT ![t].pc = "add"]
  /\ UNCHANGED <<queue, avail, clock, waking>>

Add(t) ==
  /\ task[t].pc = "add"
  /\ queue' = queue \cup {task[t].node}
  /\ task' = [task EXCEPT ![t].pc = "poll"]
  /\ UNCHANGED <<node, avail, clock, waking>>

\* cancel, and Drop of a pending future.
cancel(t) ==
  /\ task[t].pc = "poll"
  /\ task' = [task EXCEPT ![t].pc = "late", ![t].node = 0, ![t].woken = FALSE]
  /\ node' = Released(t)
  /\ queue' = queue \ {task[t].node}
  /\ UNCHANGED <<avail, clock, waking>>

\* WaitNode::wake: only an active node, and only a waker that is there.
Wakes(S) == {n \in S : node[n].state = "ACTIVE"}
WokenNodes(S) == [n \in Nodes |-> IF n \in Wakes(S)
                                  THEN [node[n] EXCEPT !.state = "WOKEN", !.waker = FALSE] ELSE node[n]]
WokenTasks(S) == [t \in Tasks |-> IF \E n \in Wakes(S) : n = task[t].node /\ node[n].waker
                                  THEN [task[t] EXCEPT !.woken = TRUE] ELSE task[t]]

\* free: the frame is back before the queue is read, and wake_shard tries the
\* first node it read, whatever happened to it since.
free(t) ==
  /\ task[t].pc = "held" /\ waking = <<>>
  /\ avail' = avail + 1
  /\ task' = [task EXCEPT ![t].pc = "new"]
  /\ waking' = IF queue = {} THEN <<>> ELSE <<Min(queue)>>
  /\ UNCHANGED <<node, queue, clock>>

wake_shard ==
  /\ waking # <<>>
  /\ node' = WokenNodes({waking[1]})
  /\ task' = WokenTasks({waking[1]})
  /\ waking' = <<>>
  /\ UNCHANGED <<queue, avail, clock>>

advance_time ==
  LET now == Min({clock + 1, MaxTime})
      due == {n \in Nodes : node[n].state # "FREE" /\ node[n].deadline <= now}
  IN /\ clock < MaxTime \/ Wakes(due) # {}
     /\ clock' = now
     /\ node' = WokenNodes(due)
     /\ task' = WokenTasks(due)
     /\ queue' = queue \ due
     /\ UNCHANGED <<avail, waking>>

WaitNext ==
  \/ \E t \in Tasks : alloc_async(t) \/ poll(t) \/ set_waker(t) \/ Add(t) \/ cancel(t) \/ free(t)
  \/ wake_shard \/ advance_time

RunWaiter(t) == poll(t) \/ set_waker(t) \/ Add(t)

\* A woken task is polled and the clock is advanced.
WaitSpec ==
  /\ WaitInit /\ [][WaitNext]_waitVars
  /\ WF_waitVars(advance_time)
  /\ \A t \in Tasks : WF_waitVars(RunWaiter(t))

-----------------------------------------------------------------------------
WaitTypeOK == avail \in 0 .. Frames /\ clock \in 0 .. MaxTime

\* A future that sleeps with a node can be woken: the node is its own, active,
\* in the queue and holds its waker, whatever wakes were aimed at the node
\* before it was queued again.
SleepersReachable ==
  \A t \in Tasks : (task[t].pc = "poll" /\ ~task[t].woken /\ task[t].node # 0) =>
    /\ node[task[t].node] = [state |-> "ACTIVE", waker |-> TRUE, deadline |-> Deadline]
    /\ task[t].node \in queue
    /\ \A u \in Tasks \ {t} : task[u].node # task[t].node

\* A pending future that owns a node ends: with a frame, or at its deadline,
\* whatever wakes were taken by other nodes or missed while it was queueing.
WaitEnds == \A t \in Tasks : (task[t].pc \in {"poll", "store", "add"} /\ task[t].node # 0)
                              ~> task[t].pc \in {"held", "late"}

------------------------------------------------------------------------------
\* Address spaces and the invalidation of cached translations on other CPUs:
\* VirtualMemoryManager, TlbBatch and TlbCoordinator of src/memory.rs.  A caller
\* changes mappings, collects the changed pages in a batch, queues the batch to
\* every CPU and waits until all of them acknowledged; a CPU drains its queue,
\* drops the translations and acknowledges the highest sequence it drained.
CONSTANTS Cpus, Callers,
          Spaces,                  \* address-space slots
          Pages,                   \* virtual page numbers
          MAX_MAPPINGS, MAX_TLB_BATCH_ENTRIES, MAX_TLB_QUEUE_ENTRIES,
          DrainBuffer,             \* entries a CPU drains at once
          MaxSequence, MaxGeneration

VARIABLES spaces,      \* slot -> liveness, generation and mappings
          tlb,         \* CPU -> translations it caches
          queues,      \* CPU -> queued invalidations
          acks,        \* CPU -> highest sequence acknowledged
          sequence,
          drained,     \* CPU -> invalidations taken and not yet acknowledged
          call         \* caller -> what it is doing

tlbVars == <<spaces, tlb, queues, acks, sequence, drained, call>>

Ready == [pc |-> "ready", batch |-> <<>>, seq |-> 0, todo |-> {}]

TlbInit ==
  /\ spaces = [s \in Spaces |-> [live |-> FALSE, generation |-> 1, maps |-> {}]]
  /\ tlb = [c \in Cpus |-> {}]
  /\ queues = [c \in Cpus |-> <<>>]
  /\ acks = [c \in Cpus |-> 0]
  /\ sequence = 0
  /\ drained = [c \in Cpus |-> <<>>]
  /\ call = [k \in Callers |-> Ready]

-----------------------------------------------------------------------------
\* VirtualMemoryManager.  A mapping is a page with its write permission.
Mapped(s, p) == \E m \in spaces[s].maps : m.page = p
Editing(k, s) == call[k].pc = "ready" /\ spaces[s].live

create(k) ==
  LET vacant == {s \in Spaces : ~ spaces[s].live} IN
  /\ call[k].pc = "ready" /\ vacant # {}
  /\ spaces' = [spaces EXCEPT ![Min(vacant)].live = TRUE, ![Min(vacant)].maps = {}]
  /\ UNCHANGED <<tlb, queues, acks, sequence, drained, call>>

map_page(k, s, p, w) ==
  /\ Editing(k, s) /\ ~ Mapped(s, p) /\ Cardinality(spaces[s].maps) < MAX_MAPPINGS
  /\ spaces' = [spaces EXCEPT ![s].maps = @ \cup {[page |-> p, w |-> w]}]
  /\ UNCHANGED <<tlb, queues, acks, sequence, drained, call>>

\* TlbBatch::push: a page right behind the last entry extends it.
push(batch, s, p) ==
  LET last == Last(batch) IN
  IF batch # <<>> /\ last.space = s /\ last.page + last.pages = p
  THEN [batch EXCEPT ![Len(batch)].pages = @ + 1]
  ELSE Append(batch, [space |-> s, page |-> p, pages |-> 1])

Room(batch, s, p) == Len(push(batch, s, p)) <= MAX_TLB_BATCH_ENTRIES

unmap(k, s, p) ==
  /\ Editing(k, s) /\ Mapped(s, p) /\ Room(call[k].batch, s, p)
  /\ spaces' = [spaces EXCEPT ![s].maps = {m \in @ : m.page # p}]
  /\ call' = [call EXCEPT ![k].batch = push(@, s, p)]
  /\ UNCHANGED <<tlb, queues, acks, sequence, drained>>

protect(k, s, p) ==
  /\ Editing(k, s) /\ [page |-> p, w |-> TRUE] \in spaces[s].maps /\ Room(call[k].batch, s, p)
  /\ spaces' = [spaces EXCEPT ![s].maps = (@ \ {[page |-> p, w |-> TRUE]})
                                              \cup {[page |-> p, w |-> FALSE]}]
  /\ call' = [call EXCEPT ![k].batch = push(@, s, p)]
  /\ UNCHANGED <<tlb, queues, acks, sequence, drained>>

\* clone_space: a second space with the same mappings.
clone_space(k, s) ==
  LET vacant == {t \in Spaces : ~ spaces[t].live} IN
  /\ Editing(k, s) /\ vacant # {}
  /\ spaces' = [spaces EXCEPT ![Min(vacant)].live = TRUE, ![Min(vacant)].maps = spaces[s].maps]
  /\ UNCHANGED <<tlb, queues, acks, sequence, drained, call>>

\* destroy, once its mappings are gone from the batch's point of view.
destroy(k, s) ==
  /\ Editing(k, s) /\ spaces[s].maps = {} /\ spaces[s].generation < MaxGeneration
  /\ spaces' = [spaces EXCEPT ![s].live = FALSE, ![s].generation = @ + 1]
  /\ UNCHANGED <<tlb, queues, acks, sequence, drained, call>>

-----------------------------------------------------------------------------
\* The sequence is taken before the first queue is touched.
Begin(k) ==
  /\ call[k].pc = "ready" /\ call[k].batch # <<>> /\ sequence < MaxSequence
  /\ sequence' = sequence + 1
  /\ call' = [call EXCEPT ![k].pc = "queue", ![k].seq = sequence + 1, ![k].todo = Cpus]
  /\ UNCHANGED <<spaces, tlb, queues, acks, drained>>

Fits(c, batch) == Len(queues[c]) + Len(batch) <= MAX_TLB_QUEUE_ENTRIES

Entries(batch, seq) == [i \in DOMAIN batch |-> [inv |-> batch[i], seq |-> seq]]

\* enqueue_batch, one CPU after the other; a full queue fails the call and
\* leaves the entries of the CPUs before it.  The caller tries again.
enqueue_batch(k) ==
  LET c == Min(call[k].todo)
      b == call[k].batch
      left == call[k].todo \ {c}
  IN /\ call[k].pc = "queue"
     /\ IF Fits(c, b)
        THEN /\ queues' = [queues EXCEPT ![c] = @ \o Entries(b, call[k].seq)]
             /\ call' = [call EXCEPT ![k].todo = left, ![k].pc = IF left = {} THEN "wait" ELSE "queue"]
        ELSE /\ call' = [call EXCEPT ![k].pc = "ready"]
             /\ UNCHANGED queues
     /\ UNCHANGED <<spaces, tlb, acks, sequence, drained>>

completeMutant(k) == \E c \in Cpus : acks[c] >= call[k].seq

complete(k) == \A c \in Cpus : acks[c] >= call[k].seq

Finish(k) ==
  /\ call[k].pc = "wait" /\ complete(k)
  /\ call' = [call EXCEPT ![k] = Ready]
  /\ UNCHANGED <<spaces, tlb, queues, acks, sequence, drained>>

\* A CPU walks the tables of an address space and keeps the translation.
Walk(c, s) ==
  /\ spaces[s].live
  /\ \E m \in spaces[s].maps :
       /\ ~ \E t \in tlb[c] : t.space = s /\ t.page = m.page
       /\ tlb' = [tlb EXCEPT ![c] = @ \cup {[space |-> s, page |-> m.page, w |-> m.w]}]
  /\ UNCHANGED <<spaces, queues, acks, sequence, drained, call>>

Covers(inv, t) == inv.space = t.space /\ inv.page <= t.page /\ t.page < inv.page + inv.pages

drain(c) ==
  LET n == Min({DrainBuffer, Len(queues[c])})
      taken == SubSeq(queues[c], 1, n)
  IN /\ drained[c] = <<>> /\ queues[c] # <<>>
     /\ drained' = [drained EXCEPT ![c] = taken]
     /\ queues' = [queues EXCEPT ![c] = SubSeq(@, n + 1, Len(@))]
     /\ tlb' = [tlb EXCEPT ![c] = {t \in @ : \A i \in 1 .. n : ~ Covers(taken[i].inv, t)}]
     /\ UNCHANGED <<spaces, acks, sequence, call>>

\* Entries of one batch share a sequence, so a CPU acknowledges it only once the
\* whole batch has left its queue.
acknowledge(c) ==
  LET top == Max({drained[c][i].seq : i \in DOMAIN drained[c]})
      split == \E i \in DOMAIN queues[c] : queues[c][i].seq = top
  IN /\ drained[c] # <<>>
     /\ acks' = [acks EXCEPT ![c] = IF split THEN @ ELSE Max({@, top})]
     /\ drained' = [drained EXCEPT ![c] = <<>>]
     /\ UNCHANGED <<spaces, tlb, queues, sequence, call>>

TlbNext ==
  \/ \E k \in Callers :
       \/ create(k) \/ Begin(k) \/ enqueue_batch(k) \/ Finish(k)
       \/ \E s \in Spaces : \/ clone_space(k, s) \/ destroy(k, s)
                            \/ \E p \in Pages : \/ unmap(k, s, p) \/ protect(k, s, p)
                                                \/ \E w \in BOOLEAN : map_page(k, s, p, w)
  \/ \E c \in Cpus : drain(c) \/ acknowledge(c) \/ \E s \in Spaces : Walk(c, s)

TlbSpec == TlbInit /\ [][TlbNext]_tlbVars

-----------------------------------------------------------------------------
TlbTypeOK == sequence \in 0 .. MaxSequence /\ \A c \in Cpus : Len(queues[c]) <= MAX_TLB_QUEUE_ENTRIES

\* A CPU caches a translation the tables no longer hold only while some caller
\* still has it in a batch it is collecting, queueing or waiting for: once a
\* ticket is complete no CPU can use what it invalidated.
\* With one caller at a time: a sequence is taken before a queue is touched, so
\* of two callers the later may be acknowledged first and complete the other's.
StaleOnlyWhilePending ==
  \A c \in Cpus : \A t \in tlb[c] :
    \/ [page |-> t.page, w |-> t.w] \in spaces[t.space].maps
    \/ \E k \in Callers : \E i \in DOMAIN call[k].batch : Covers(call[k].batch[i], t)
==============================================================================
