--------------------------- MODULE FrameAllocator ----------------------------
\* Physical frames on several CPUs: the shared records behind shard locks, each
\* CPU's magazine of freed leases, and the queues of leases freed on another CPU.
\* Every lock is only ever tried; one critical section is one step, and a try
\* may fail when another CPU stands before or in a section of the same lock.
\* The kernel heap, a machine of its own with its own variables, follows below.
EXTENDS Integers, Sequences, FiniteSets, SequencesExt, FiniteSetsExt

CONSTANTS Cpus, Slots, Owners,
          Shards, ShardOf,       \* the shard that owns a slot's metadata
          FRAME_CACHE_CAPACITY, FRAME_CACHE_REFILL,
          MaxGen, MaxCalls       \* bounds: generations of a slot, calls

VARIABLES records,   \* slot -> generation, owner (0: free)
          cache,     \* cpu -> leases in its magazine
          remote,    \* cpu -> leases freed for it elsewhere
          cpu,       \* cpu -> where its operation is
          held,      \* leases callers own
          issued,    \* history: every lease handed out
          lost,      \* history: slots whose lease no one could keep
          calls      \* bounds the calls

vars == <<records, cache, remote, cpu, held, issued, lost, calls>>

Resting == [at |-> "Idle"]
Lease(s, c) == [slot |-> s, gen |-> records[s].gen, owner |-> records[s].owner, home |-> c]

Init ==
  /\ records = [s \in Slots |-> [gen |-> 1, owner |-> 0]]
  /\ cache = [c \in Cpus |-> <<>>] /\ remote = [c \in Cpus |-> <<>>]
  /\ cpu = [c \in Cpus |-> Resting]
  /\ held = {} /\ issued = {} /\ lost = {} /\ calls = 0

\* The locks tried by the step a CPU stands at.
Locks(c) ==
  LET o == cpu[c] IN
  CASE o.at \in {"DrainPop"} -> {<<"remote", c>>}
    [] o.at \in {"DrainRefresh", "Refresh", "Validate", "Central", "FlushFree"} -> {<<"shard", ShardOf[o.lease.slot]>>}
    [] o.at \in {"DrainCache", "CachePop"} -> {<<"cache", c>>}
    [] o.at = "LocalPush" -> {<<"cache", c>>}
    [] o.at \in {"Contains", "RemotePush"} -> {<<"remote", o.lease.home>>}
    [] o.at = "Scan" -> {<<"shard", (c + o.n) % Cardinality(Shards)>>}
    [] o.at = "FlushPop" -> {<<"cache", o.target>>}
    [] OTHER -> {}

Contended(c, lock) == \E d \in Cpus \ {c} : lock \in Locks(d)
Shard(l) == <<"shard", ShardOf[l.slot]>>
Full(q) == Len(q) = FRAME_CACHE_CAPACITY
Without(q, i) == IF i = Len(q) THEN Front(q) ELSE [Front(q) EXCEPT ![i] = Last(q)]

\* PhysicalFrameManager::validate_lease.
validate_lease(l) == records[l.slot].owner = l.owner /\ records[l.slot].gen = l.gen

\* claim, refresh: each hand-out stamps a new generation.
Stamp(s, owner) == records' = [records EXCEPT ![s] = [gen |-> @.gen + 1, owner |-> owner]]
refresh(l) == Stamp(l.slot, l.owner)
Stampable(s) == records[s].gen < MaxGen
release_slot(s) == records' = [records EXCEPT ![s].owner = 0]

Goto(c, o) == cpu' = [cpu EXCEPT ![c] = o]
HandOut(c, l) == held' = held \cup {l} /\ issued' = issued \cup {l} /\ Goto(c, Resting)

-----------------------------------------------------------------------------
\* alloc_inner on entry, and the interrupt path try_alloc_irq, which only looks
\* in the magazine.
try_alloc(c, owner) ==
  /\ cpu[c] = Resting
  /\ Goto(c, [at |-> "DrainPop", owner |-> owner, n |-> FRAME_CACHE_REFILL, irq |-> FALSE])
  /\ UNCHANGED <<records, cache, remote, held, issued, lost>>

try_alloc_irq(c, owner) ==
  /\ cpu[c] = Resting
  /\ Goto(c, [at |-> "CachePop", owner |-> owner, irq |-> TRUE])
  /\ UNCHANGED <<records, cache, remote, held, issued, lost>>

AfterDrain(o) == [at |-> "CachePop", owner |-> o.owner, irq |-> FALSE]

\* drain_remote: pop a lease freed elsewhere ...
DrainPop(c) ==
  LET o == cpu[c] IN
  /\ o.at = "DrainPop"
  /\ IF o.n = 0 \/ remote[c] = <<>>
       THEN Goto(c, AfterDrain(o)) /\ UNCHANGED remote
       ELSE \/ /\ Goto(c, [at |-> "DrainRefresh", owner |-> o.owner, n |-> o.n, lease |-> Last(remote[c])])
               /\ remote' = [remote EXCEPT ![c] = Front(@)]
            \/ /\ Contended(c, <<"remote", c>>)
               /\ Goto(c, AfterDrain(o)) /\ UNCHANGED remote
  /\ UNCHANGED <<records, cache, held, issued, lost>>

\* ... refresh it under its shard; with the shard taken it goes back, if the
\* queue still takes it ...
DrainRefresh(c) ==
  LET o == cpu[c] l == o.lease IN
  /\ o.at = "DrainRefresh"
  /\ \/ /\ Contended(c, Shard(l))
        /\ Goto(c, AfterDrain(o))
        /\ \/ ~Full(remote[c]) /\ remote' = [remote EXCEPT ![c] = Append(@, l)] /\ UNCHANGED lost
           \/ /\ Full(remote[c]) \/ Contended(c, <<"remote", c>>)
              /\ lost' = lost \cup {l.slot} /\ UNCHANGED remote
        /\ UNCHANGED records
     \/ /\ validate_lease(l) /\ Stampable(l.slot) /\ refresh(l)
        /\ Goto(c, [o EXCEPT !.at = "DrainCache", !.lease.gen = records'[l.slot].gen, !.lease.home = c])
        /\ UNCHANGED <<remote, lost>>
     \/ /\ ~validate_lease(l)
        /\ Goto(c, [at |-> "DrainPop", owner |-> o.owner, n |-> o.n - 1, irq |-> FALSE])
        /\ UNCHANGED <<records, remote, lost>>
  /\ UNCHANGED <<cache, held, issued>>

\* ... and put it in the magazine; return_remote_or_central when that is full.
DrainCache(c) ==
  LET o == cpu[c] l == o.lease IN
  /\ o.at = "DrainCache"
  /\ Goto(c, [at |-> "DrainPop", owner |-> o.owner, n |-> o.n - 1, irq |-> FALSE])
  /\ \/ ~Full(cache[c]) /\ cache' = [cache EXCEPT ![c] = Append(@, l)] /\ UNCHANGED <<records, remote, lost>>
     \/ /\ Full(cache[c]) \/ Contended(c, <<"cache", c>>)
        /\ UNCHANGED cache
        /\ \/ ~Full(remote[c]) /\ remote' = [remote EXCEPT ![c] = Append(@, l)] /\ UNCHANGED <<records, lost>>
           \/ /\ Full(remote[c]) \/ Contended(c, <<"remote", c>>)
              /\ UNCHANGED remote
              /\ \/ release_slot(l.slot) /\ UNCHANGED lost
                 \/ Contended(c, Shard(l)) /\ lost' = lost \cup {l.slot} /\ UNCHANGED records
  /\ UNCHANGED <<held, issued>>

\* CpuCache::pop_matching: the newest lease of the same owner.
Matching(c, owner) == {i \in DOMAIN cache[c] : cache[c][i].owner = owner}
CachePop(c) ==
  LET o == cpu[c] IN
  /\ o.at = "CachePop"
  /\ \/ /\ Contended(c, <<"cache", c>>) /\ Goto(c, Resting) /\ UNCHANGED cache
     \/ IF Matching(c, o.owner) = {}
          THEN /\ Goto(c, IF o.irq THEN Resting ELSE [at |-> "Scan", owner |-> o.owner, n |-> 0])
               /\ UNCHANGED cache
          ELSE LET i == CHOOSE i \in Matching(c, o.owner) : \A j \in Matching(c, o.owner) : j <= i IN
               /\ Goto(c, [at |-> "Refresh", owner |-> o.owner, irq |-> o.irq, lease |-> cache[c][i]])
               /\ cache' = [cache EXCEPT ![c] = Without(@, i)]
  /\ UNCHANGED <<records, remote, held, issued, lost>>

\* refresh_cached: a current lease is handed out under a new generation, a stale
\* one is dropped; with the shard taken the lease goes back to the magazine.
Refresh(c) ==
  LET o == cpu[c] l == o.lease IN
  /\ o.at = "Refresh"
  /\ \/ /\ Contended(c, Shard(l)) /\ Goto(c, Resting)
        /\ \/ ~Full(cache[c]) /\ cache' = [cache EXCEPT ![c] = Append(@, l)] /\ UNCHANGED lost
           \/ /\ Full(cache[c]) \/ Contended(c, <<"cache", c>>)
              /\ lost' = lost \cup {l.slot} /\ UNCHANGED cache
        /\ UNCHANGED <<records, held, issued>>
     \/ /\ validate_lease(l) /\ Stampable(l.slot) /\ refresh(l)
        /\ HandOut(c, [l EXCEPT !.gen = records'[l.slot].gen, !.home = c])
        /\ UNCHANGED <<cache, lost>>
     \/ /\ ~validate_lease(l)
        /\ Goto(c, IF o.irq THEN Resting ELSE [at |-> "Scan", owner |-> o.owner, n |-> 0])
        /\ UNCHANGED <<records, cache, held, issued, lost>>
  /\ UNCHANGED remote

\* alloc_inner's walk over the shards, from the CPU's own.
FreeIn(s) == {x \in Slots : ShardOf[x] = s /\ records[x].owner = 0 /\ Stampable(x)}
Scan(c) ==
  LET o == cpu[c]
      s == (c + o.n) % Cardinality(Shards)
      onward == IF o.n + 1 = Cardinality(Shards) THEN Resting ELSE [o EXCEPT !.n = @ + 1] IN
  /\ o.at = "Scan"
  /\ \/ /\ Contended(c, <<"shard", s>>) /\ Goto(c, onward) /\ UNCHANGED <<records, held, issued>>
     \/ IF FreeIn(s) = {} THEN Goto(c, onward) /\ UNCHANGED <<records, held, issued>>
        ELSE LET x == CHOOSE x \in FreeIn(s) : \A y \in FreeIn(s) : x <= y IN
             /\ Stamp(x, o.owner)
             /\ HandOut(c, [slot |-> x, gen |-> records[x].gen + 1, owner |-> o.owner, home |-> c])
  /\ UNCHANGED <<cache, remote, lost>>

-----------------------------------------------------------------------------
\* free, on any CPU, of any lease ever handed out: the first call under the shard
\* lock only validates.  A caller may free a lease again, not twice at once.
Freeing(c) == cpu[c].at \in {"Validate", "LocalPush", "Contains", "RemotePush", "Central"}
free(c, l) ==
  /\ cpu[c] = Resting
  /\ \A d \in Cpus : Freeing(d) => cpu[d].lease # l
  /\ Goto(c, [at |-> "Validate", lease |-> l, own |-> l \in held])
  /\ held' = held \ {l}
  /\ UNCHANGED <<records, cache, remote, issued, lost>>

\* A refused free leaves the lease with its caller.
Refused(c) ==
  LET o == cpu[c] IN
  Goto(c, Resting) /\ held' = (IF o.own THEN held \cup {o.lease} ELSE held)

Validate(c) ==
  LET o == cpu[c] IN
  /\ o.at = "Validate"
  /\ \/ Contended(c, Shard(o.lease)) /\ Refused(c)
     \/ ~validate_lease(o.lease) /\ Goto(c, Resting) /\ UNCHANGED held
     \/ /\ validate_lease(o.lease)
        /\ Goto(c, [o EXCEPT !.at = IF o.lease.home = c THEN "LocalPush" ELSE "Contains"]) /\ UNCHANGED held
  /\ UNCHANGED <<records, cache, remote, issued, lost>>

\* The home CPU's magazine.
LocalPush(c) ==
  LET o == cpu[c] l == o.lease IN
  /\ o.at = "LocalPush"
  /\ \/ Contended(c, <<"cache", c>>) /\ Goto(c, [o EXCEPT !.at = "Central"]) /\ UNCHANGED cache
     \/ Contains(cache[c], l) /\ Goto(c, Resting) /\ UNCHANGED cache
     \/ /\ ~Contains(cache[c], l)
        /\ IF Full(cache[c]) THEN Goto(c, [o EXCEPT !.at = "Central"]) /\ UNCHANGED cache
           ELSE Goto(c, Resting) /\ cache' = [cache EXCEPT ![c] = Append(@, l)]
  /\ UNCHANGED <<records, remote, held, issued, lost>>

\* Another CPU's queue: looked through, and only then pushed to.
RemoteContains(c) ==
  LET o == cpu[c] IN
  /\ o.at = "Contains"
  /\ \/ Contended(c, <<"remote", o.lease.home>>) /\ Refused(c)
     \/ Contains(remote[o.lease.home], o.lease) /\ Goto(c, Resting) /\ UNCHANGED held
     \/ ~Contains(remote[o.lease.home], o.lease) /\ Goto(c, [o EXCEPT !.at = "RemotePush"]) /\ UNCHANGED held
  /\ UNCHANGED <<records, cache, remote, issued, lost>>

RemotePush(c) ==
  LET o == cpu[c] home == o.lease.home IN
  /\ o.at = "RemotePush"
  /\ \/ ~Full(remote[home]) /\ remote' = [remote EXCEPT ![home] = Append(@, o.lease)] /\ Goto(c, Resting)
     \/ /\ Full(remote[home]) \/ Contended(c, <<"remote", home>>)
        /\ Goto(c, [o EXCEPT !.at = "Central"]) /\ UNCHANGED remote
  /\ UNCHANGED <<records, cache, held, issued, lost>>

\* Neither took it: PhysicalFrameManager::free validates again and releases.
Central(c) ==
  LET o == cpu[c] IN
  /\ o.at = "Central"
  /\ \/ Contended(c, Shard(o.lease)) /\ Refused(c) /\ UNCHANGED records
     \/ /\ Goto(c, Resting) /\ UNCHANGED held
        /\ IF validate_lease(o.lease) THEN release_slot(o.lease.slot) ELSE UNCHANGED records
  /\ UNCHANGED <<cache, remote, issued, lost>>

\* flush_cpu_cache: any CPU may empty a magazine into the records.
flush_cpu_cache(c, target) ==
  /\ cpu[c] = Resting /\ cache[target] # <<>>
  /\ Goto(c, [at |-> "FlushPop", target |-> target])
  /\ UNCHANGED <<records, cache, remote, held, issued, lost>>

FlushPop(c) ==
  LET o == cpu[c] IN
  /\ o.at = "FlushPop"
  /\ IF cache[o.target] = <<>> THEN Goto(c, Resting) /\ UNCHANGED cache
     ELSE \/ /\ Goto(c, [at |-> "FlushFree", target |-> o.target, lease |-> Last(cache[o.target])])
             /\ cache' = [cache EXCEPT ![o.target] = Front(@)]
          \/ Contended(c, <<"cache", o.target>>) /\ Goto(c, Resting) /\ UNCHANGED cache
  /\ UNCHANGED <<records, remote, held, issued, lost>>

\* A lease that cannot be released goes back, if the magazine still takes it.
FlushFree(c) ==
  LET o == cpu[c] l == o.lease IN
  /\ o.at = "FlushFree"
  /\ \/ /\ validate_lease(l) /\ release_slot(l.slot)
        /\ Goto(c, [at |-> "FlushPop", target |-> o.target]) /\ UNCHANGED <<cache, lost>>
     \/ /\ ~validate_lease(l) \/ Contended(c, Shard(l))
        /\ Goto(c, Resting) /\ UNCHANGED records
        /\ \/ ~Full(cache[o.target]) /\ cache' = [cache EXCEPT ![o.target] = Append(@, l)] /\ UNCHANGED lost
           \/ /\ Full(cache[o.target]) \/ Contended(c, <<"cache", o.target>>)
              /\ UNCHANGED cache
              /\ lost' = IF validate_lease(l) THEN lost \cup {l.slot} ELSE lost
  /\ UNCHANGED <<remote, held, issued>>

\* alloc_contiguous and free_direct_batch hold every shard at once, for a run of
\* two frames.
AllShardsFree(c) == \A s \in Shards : ~Contended(c, <<"shard", s>>)
alloc_contiguous(c, owner) ==
  /\ cpu[c] = Resting /\ AllShardsFree(c)
  /\ \E x \in Slots :
       /\ {x, x + 1} \subseteq Slots
       /\ \A y \in {x, x + 1} : records[y].owner = 0 /\ Stampable(y)
       /\ records' = [y \in Slots |-> IF y \in {x, x + 1} THEN [gen |-> records[y].gen + 1, owner |-> owner]
                                      ELSE records[y]]
       /\ LET batch == {[slot |-> y, gen |-> records'[y].gen, owner |-> owner, home |-> 0] : y \in {x, x + 1}} IN
          held' = held \cup batch /\ issued' = issued \cup batch
  /\ UNCHANGED <<cache, remote, cpu, lost>>

free_direct_batch(c, batch) ==
  /\ cpu[c] = Resting /\ AllShardsFree(c)
  /\ Cardinality(batch) = 2 /\ \A l \in batch : validate_lease(l) /\ l.home = 0
  /\ records' = [y \in Slots |-> IF \E l \in batch : l.slot = y THEN [records[y] EXCEPT !.owner = 0] ELSE records[y]]
  /\ held' = held \ batch
  /\ UNCHANGED <<cache, remote, cpu, issued, lost>>

Call == calls < MaxCalls /\ calls' = calls + 1

Step(c) ==
  \/ DrainPop(c) \/ DrainRefresh(c) \/ DrainCache(c) \/ CachePop(c) \/ Refresh(c) \/ Scan(c)
  \/ Validate(c) \/ LocalPush(c) \/ RemoteContains(c) \/ RemotePush(c) \/ Central(c)
  \/ FlushPop(c) \/ FlushFree(c)

Next ==
  \E c \in Cpus :
    \/ \E owner \in Owners : Call /\ (try_alloc(c, owner) \/ try_alloc_irq(c, owner) \/ alloc_contiguous(c, owner))
    \/ \E l \in issued : Call /\ free(c, l)
    \/ \E t \in Cpus : Call /\ flush_cpu_cache(c, t)
    \/ \E batch \in SUBSET held : Call /\ free_direct_batch(c, batch)
    \/ Step(c) /\ UNCHANGED calls

Spec == Init /\ [][Next]_vars

-----------------------------------------------------------------------------
TypeOK ==
  /\ \A s \in Slots : records[s].gen \in 1..MaxGen /\ records[s].owner \in Owners \cup {0}
  /\ \A c \in Cpus : Len(cache[c]) <= FRAME_CACHE_CAPACITY /\ Len(remote[c]) <= FRAME_CACHE_CAPACITY

\* One frame has one user: no two callers hold leases of the same frame, and a
\* lease a caller holds stays valid, whatever frees of old leases, refreshes,
\* drains and flushes run on the other CPUs (try_alloc, free).
OneUserPerFrame ==
  /\ \A l \in held : validate_lease(l)
  /\ \A l, m \in held : l.slot = m.slot => l = m

\* Every allocated frame can still come back: a caller holds it, or a valid lease
\* of it is in a magazine, a queue or a running operation; the exception is a lease
\* put back into a full or taken queue under contention.
InFlight(c) == IF cpu[c].at \in {"Idle", "DrainPop", "CachePop", "Scan", "FlushPop"} THEN {} ELSE {cpu[c].lease}
FramesAccounted ==
  \A s \in Slots : records[s].owner = 0 \/ s \in lost \/
    \E l \in held \cup UNION {ToSet(cache[c]) \cup ToSet(remote[c]) \cup InFlight(c) : c \in Cpus} :
      l.slot = s /\ validate_lease(l)

------------------------------------------------------------------------------
\* The kernel's heap: one frame per small object, a contiguous run of frames per
\* large one, quotas per owner, a magazine of recently freed slots per CPU, and the
\* global allocator around it, whose lock is only ever tried.
CONSTANTS Limit,        \* Limit: quota of an owner, in bytes
          HeapSlots, PageRecords, LeaseCount, Frames,
          SmallBytes, LargeBytes,     \* sizes asked for; LargeBytes -> pages
          MAGAZINE                    \* slots a magazine holds; MaxGen bounds reuse here too

VARIABLES slots,      \* slot -> used, generation, owner, bytes, frame
          pages,      \* record -> used, generation, owner, bytes, first lease, count
          leases,     \* lease index -> frame or -1
          used,       \* owner -> bytes charged
          magazine,   \* cpu -> slots
          frames,     \* frame -> owner (0: free)
          live,       \* pointers callers hold: [kind, index, gen]
          holder,     \* the CPU inside the heap lock, or -1
          leaked      \* history: pointers whose release was given up

heapVars == <<slots, pages, leases, used, magazine, frames, live, holder, leaked>>

EmptySlot == [used |-> FALSE, gen |-> 1, owner |-> 0, bytes |-> 0, frame |-> -1]
EmptyRecord == [used |-> FALSE, gen |-> 1, owner |-> 0, bytes |-> 0, first |-> 0, count |-> 0]

HeapInit ==
  /\ slots = [s \in HeapSlots |-> EmptySlot]
  /\ pages = [r \in PageRecords |-> EmptyRecord]
  /\ leases = [i \in 0..LeaseCount - 1 |-> -1]
  /\ used = [o \in Owners |-> 0]
  /\ magazine = [c \in Cpus |-> <<>>]
  /\ frames = [f \in Frames |-> 0]
  /\ live = {} /\ holder = -1 /\ leaked = {}

\* KernelGlobalAllocator: the heap lock is tried; the section of one call is two
\* steps, so that another CPU can find the lock taken.
Lock(c) == holder = -1 /\ holder' = c
Enter(c) ==
  /\ Lock(c)
  /\ UNCHANGED <<slots, pages, leases, used, magazine, frames, live, leaked>>

QuotaAllows(o, bytes) == used[o] + bytes <= Limit
Least(S) == CHOOSE x \in S : \A y \in S : x <= y

\* find_lease_range: the first run of unused lease records.
RangesMutant(n) == {i \in 0..LeaseCount - n : leases[i] = -1}
Ranges(n) == {i \in 0..LeaseCount - n : \A j \in i..i + n - 1 : leases[j] = -1}
find_lease_range(n) == Least(Ranges(n))

\* SmpFrameAllocator::alloc_contiguous: the first free run of frames.
Runs(n) == {f \in Frames : f + n - 1 \in Frames /\ \A g \in f..f + n - 1 : frames[g] = 0}

\* KernelHeap::alloc above 512 bytes.
AllocPages(c, o, bytes) ==
  LET n == LargeBytes[bytes]
      vacant == {r \in PageRecords : ~pages[r].used /\ pages[r].gen < MaxGen} IN
  /\ holder = c /\ QuotaAllows(o, bytes)
  /\ vacant # {} /\ Ranges(n) # {} /\ Runs(n) # {}
  /\ LET r == Least(vacant) first == find_lease_range(n) f == Least(Runs(n)) IN
     /\ frames' = [g \in Frames |-> IF g \in f..f + n - 1 THEN o ELSE frames[g]]
     /\ leases' = [i \in DOMAIN leases |-> IF i \in first..first + n - 1 THEN f + (i - first) ELSE leases[i]]
     /\ pages' = [pages EXCEPT ![r] = [used |-> TRUE, gen |-> @.gen + 1, owner |-> o, bytes |-> bytes,
                                       first |-> first, count |-> n]]
     /\ live' = live \cup {[kind |-> "Pages", index |-> r, gen |-> pages[r].gen + 1, address |-> f]}
  /\ used' = [used EXCEPT ![o] = @ + bytes]
  /\ holder' = -1 /\ UNCHANGED <<slots, magazine, leaked>>

\* KernelHeap::alloc of a small object: the magazine's slot if it is unused, else
\* the first unused one.
Unused == {s \in HeapSlots : ~slots[s].used}
Cached(c) == IF magazine[c] = <<>> THEN {} ELSE {Last(magazine[c])} \cap Unused
AllocSlab(c, o, bytes) ==
  LET s == IF Cached(c) # {} THEN Last(magazine[c]) ELSE Least(Unused)
      popped == [magazine EXCEPT ![c] = IF @ = <<>> THEN @ ELSE Front(@)] IN
  /\ holder = c /\ QuotaAllows(o, bytes) /\ Unused # {} /\ slots[s].gen < MaxGen
  /\ Runs(1) # {}
  /\ LET f == Least(Runs(1)) IN
     /\ frames' = [frames EXCEPT ![f] = o]
     /\ slots' = [slots EXCEPT ![s] = [used |-> TRUE, gen |-> @.gen + 1, owner |-> o, bytes |-> bytes, frame |-> f]]
     /\ live' = live \cup {[kind |-> "Slab", index |-> s, gen |-> slots[s].gen + 1, address |-> f]}
  /\ magazine' = popped
  /\ used' = [used EXCEPT ![o] = @ + bytes]
  /\ holder' = -1 /\ UNCHANGED <<pages, leases, leaked>>

\* Every refusal, and a frame shard taken meanwhile; a magazine slot popped before
\* the frames are found wanting is forgotten.
AllocRefused(c) ==
  /\ holder = c /\ holder' = -1
  /\ \/ UNCHANGED magazine
     \/ magazine[c] # <<>> /\ magazine' = [magazine EXCEPT ![c] = Front(@)]
  /\ UNCHANGED <<slots, pages, leases, used, frames, live, leaked>>

\* free_address, then free: slots are looked through first.  Frames may be busy:
\* then nothing changes, and dealloc has no one to tell.
SlabAt(a) == {s \in HeapSlots : slots[s].used /\ slots[s].frame = a}
PagesAt(a) == {r \in PageRecords : pages[r].used /\ leases[pages[r].first] = a}

FreeSlabMutant(c, p) ==
  LET s == Least(SlabAt(p.address)) IN
  /\ frames' = [frames EXCEPT ![slots[s].frame] = 0]
  /\ slots' = [slots EXCEPT ![s].used = FALSE, ![s].frame = -1]
  /\ used' = used
  /\ magazine' = [magazine EXCEPT ![c] = IF Len(@) < MAGAZINE THEN Append(@, s) ELSE @]
  /\ UNCHANGED <<pages, leases>>

FreeSlab(c, p) ==
  LET s == Least(SlabAt(p.address)) IN
  /\ frames' = [frames EXCEPT ![slots[s].frame] = 0]
  /\ slots' = [slots EXCEPT ![s].used = FALSE, ![s].frame = -1]
  /\ used' = [used EXCEPT ![slots[s].owner] = @ - slots[s].bytes]
  /\ magazine' = [magazine EXCEPT ![c] = IF Len(@) < MAGAZINE THEN Append(@, s) ELSE @]
  /\ UNCHANGED <<pages, leases>>

FreePages(c, p) ==
  LET r == Least(PagesAt(p.address)) rec == pages[r]
      run == rec.first..rec.first + rec.count - 1 IN
  /\ frames' = [f \in Frames |-> IF \E i \in run : leases[i] = f THEN 0 ELSE frames[f]]
  /\ leases' = [i \in DOMAIN leases |-> IF i \in run THEN -1 ELSE leases[i]]
  /\ pages' = [pages EXCEPT ![r] = [EmptyRecord EXCEPT !.gen = rec.gen]]
  /\ used' = [used EXCEPT ![rec.owner] = @ - rec.bytes]
  /\ UNCHANGED <<slots, magazine>>

Dealloc(c, p) ==
  /\ holder = c /\ holder' = -1
  /\ live' = live \ {p} /\ UNCHANGED leaked
  /\ IF SlabAt(p.address) # {} THEN FreeSlab(c, p) ELSE FreePages(c, p)

\* The heap lock, or the frames, are taken: the pointer is gone all the same.
DeallocBusy(c, p) ==
  /\ holder # -1
  /\ live' = live \ {p} /\ leaked' = leaked \cup {p}
  /\ UNCHANGED <<slots, pages, leases, used, magazine, frames, holder>>

HeapNext ==
  \E c \in Cpus :
    \/ Enter(c)
    \/ \E o \in Owners : (\E b \in SmallBytes : AllocSlab(c, o, b)) \/ (\E b \in DOMAIN LargeBytes : AllocPages(c, o, b))
    \/ AllocRefused(c)
    \/ \E p \in live : Dealloc(c, p) \/ DeallocBusy(c, p)

HeapSpec == HeapInit /\ [][HeapNext]_heapVars

-----------------------------------------------------------------------------
HeapTypeOK ==
  /\ \A o \in Owners : used[o] \in Int
  /\ \A c \in Cpus : Len(magazine[c]) <= MAGAZINE /\ Range(magazine[c]) \subseteq HeapSlots
  /\ holder \in Cpus \cup {-1}

FramesOf(p) ==
  IF p.kind = "Slab" THEN {slots[p.index].frame}
  ELSE {leases[i] : i \in pages[p.index].first..pages[p.index].first + pages[p.index].count - 1}

\* No two objects share memory, and none lost its frames: what a live or given-up
\* pointer names is in use, its frames belong to its owner and to no other object,
\* also after records, leases and magazine slots were reused (alloc, free_address).
ObjectsDisjoint ==
  LET objects == live \cup leaked IN
  /\ \A p \in objects : p.address \in FramesOf(p) /\ \A f \in FramesOf(p) : f \in Frames /\ frames[f] # 0
  /\ \A p, q \in objects : p # q => FramesOf(p) \cap FramesOf(q) = {}

\* The quotas charge exactly what is in use, and never more than the limit
\* (KernelHeap::alloc, free against live_bytes).
QuotasExact ==
  \A o \in Owners :
    /\ used[o] = MapThenSumSet(LAMBDA s : IF slots[s].used /\ slots[s].owner = o THEN slots[s].bytes ELSE 0, HeapSlots)
               + MapThenSumSet(LAMBDA r : IF pages[r].used /\ pages[r].owner = o THEN pages[r].bytes ELSE 0, PageRecords)
    /\ used[o] <= Limit
==============================================================================
