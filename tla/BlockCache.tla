----------------------------- MODULE BlockCache -----------------------------
(***************************************************************************)
(* The block cache of the storage service and the read-only windows cut    *)
(* out of it: IpcBlockStore keeps blocks in the pages of the cache arena,  *)
(* MapRead pins a run of pages, StorageApi remembers the mapping, and Core *)
(* maps the pages into the address space of Flow or Fetch.                 *)
(***************************************************************************)
EXTENDS Naturals, FiniteSets, FiniteSetsExt

CONSTANTS
    Blocks,         \* Blocks 1..Blocks of the volume.
    CACHE_SLOTS,    \* Pages of the cache arena.
    MAX_READ_MAPS,  \* Mappings StorageApi keeps.
    Windows,        \* Windows that Core keeps for each client.
    Clients,        \* Flow and Fetch.
    MaxWrites,      \* Writes of a block.
    MaxMaps         \* Mappings ever made.

Slots == 0..(CACHE_SLOTS - 1)
Handles == 1..MAX_READ_MAPS
Nobody == "nobody"

VARIABLES
    disk,       \* the version of every block on the volume
    cache,      \* for every page: the block it is said to hold, and the version it holds
    pins,       \* pin_count
    next,       \* next_cache_slot
    maps,       \* StorageApi.maps
    pending,    \* pending_map: the handle of the mapping under way, or zero
    windows,    \* storage_map_windows of Core: the handle behind each window
    space,      \* the windows present in the address space of each client
    twice,      \* blocks that MapRead loaded into a second page
    removed     \* mappings whose file was removed

vars == <<disk, cache, pins, next, maps, pending, windows, space, twice, removed>>

NoMap == [client |-> Nobody, first |-> 0, blocks |-> {}, window |-> 0, generation |-> 0]
NoPending == [handle |-> 0, client |-> Nobody, unmap |-> FALSE]

Init ==
    /\ disk = [b \in 1..Blocks |-> 0]
    /\ cache = [s \in Slots |-> [block |-> 0, version |-> 0]]
    /\ pins = [s \in Slots |-> 0] /\ next = 0
    /\ maps = [m \in Handles |-> NoMap] /\ pending = NoPending
    /\ windows = [c \in Clients |-> [w \in 1..Windows |-> 0]]
    /\ space = [c \in Clients |-> {}]
    /\ twice = {} /\ removed = {}

(***************************************************************************)
(* IpcBlockStore.                                                          *)
(***************************************************************************)
Cached(b) == {s \in Slots : cache[s].block = b}
cached_slot(b) == Min(Cached(b))

(* The slots the search visits before it comes to s, from next on.         *)
Ahead(s) == (s + CACHE_SLOTS - next) % CACHE_SLOTS

reserve_cache_slot_Mutant(b) ==
    {s \in Slots : /\ pins[s] = 0
                   /\ \A t \in Slots : pins[t] = 0 => Ahead(s) <= Ahead(t)}

(* A set with the slot to use for block b, empty if every slot is pinned.  *)
reserve_cache_slot(b) ==
    IF Cached(b) # {} THEN {cached_slot(b)}
    ELSE {s \in Slots : /\ pins[s] = 0
                        /\ \A t \in Slots : pins[t] = 0 => Ahead(s) <= Ahead(t)}

Fill(b, version) ==
    LET found == reserve_cache_slot(b)
    IN  IF found = {} THEN UNCHANGED <<cache, next>>
        ELSE LET s == CHOOSE s \in found : TRUE
             IN  /\ cache' = [cache EXCEPT ![s] = [block |-> b, version |-> version]]
                 /\ next' = IF Cached(b) = {} THEN (s + 1) % CACHE_SLOTS ELSE next

read_block(b) ==
    /\ Cached(b) = {}
    /\ Fill(b, disk[b])
    /\ UNCHANGED <<disk, pins, maps, pending, windows, space, twice, removed>>

Mapped(b) == \E m \in Handles : b \in maps[m].blocks /\ m \notin removed


(* A write to a mapped object is refused as Busy before it gets here.      *)
Busy(b) == Mapped(b)

write_block(b) ==
    /\ disk[b] < MaxWrites /\ ~Busy(b)
    /\ disk' = [disk EXCEPT ![b] = @ + 1]
    /\ Fill(b, disk[b] + 1)
    /\ UNCHANGED <<pins, maps, pending, windows, space, twice, removed>>

(* The pages of the first run of n pages without a pin.                    *)
Run(first, n) == first..(first + n - 1)
FreeRuns(n) == {first \in 0..(CACHE_SLOTS - n) : \A s \in Run(first, n) : pins[s] = 0}

(* Load the n blocks from b on into the run; load number `good` fails.     *)
Loaded(b, first, n, good) ==
    [s \in Slots |-> IF s \in Run(first, good)
                       THEN [block |-> b + s - first, version |-> disk[b + s - first]]
                       ELSE cache[s]]

RolledBackMutant(first, good) ==
    [s \in Slots |-> IF s \in Run(first, good) THEN 1 ELSE pins[s]]

(* The pins after a load has failed.                                       *)
RolledBack(first, good) == pins

(***************************************************************************)
(* StorageApi and the loop of the storage image.                           *)
(***************************************************************************)
FreeHandles == {m \in Handles : maps[m].client = Nobody}

Second(b, n, first) ==
    {x \in b..(b + n - 1) : \E s \in Cached(x) : s \notin Run(first, n)}

MapRead(c, b, n, good) ==
    /\ pending = NoPending /\ FreeHandles # {} /\ b + n - 1 <= Blocks
    /\ \A m \in Handles : maps[m].generation < MaxMaps
    /\ FreeRuns(n) # {}
    /\ LET first == Min(FreeRuns(n))
           m     == Min(FreeHandles)
       IN  /\ cache' = Loaded(b, first, n, good)
           /\ twice' = twice \cup Second(b, good, first)
           /\ IF good < n
                THEN pins' = RolledBack(first, good) /\ UNCHANGED <<maps, pending>>
                ELSE /\ pins' = [s \in Slots |-> IF s \in Run(first, n) THEN 1 ELSE pins[s]]
                     /\ maps' = [maps EXCEPT ![m] =
                                   [client |-> c, first |-> first, blocks |-> b..(b + n - 1),
                                    window |-> 0, generation |-> @.generation]]
                     /\ pending' = [handle |-> m, client |-> c, unmap |-> FALSE]
    /\ UNCHANGED <<disk, next, windows, space, removed>>

Released(m) ==
    [s \in Slots |-> IF s \in Run(maps[m].first, Cardinality(maps[m].blocks))
                       THEN pins[s] - 1 ELSE pins[s]]

Forget(m) ==
    /\ pins' = Released(m)
    /\ maps' = [maps EXCEPT ![m] = [NoMap EXCEPT !.generation = maps[m].generation + 1]]
    /\ removed' = removed \ {m}

(* map_storage_descriptor: Core maps the pages into the first free window  *)
(* of the client, or fails and the mapping is cancelled.                   *)
FreeWindows(c) == {w \in 1..Windows : windows[c][w] = 0}

CoreMaps(ok) ==
    /\ pending.handle # 0 /\ ~pending.unmap
    /\ pending' = NoPending
    /\ LET m == pending.handle
           c == pending.client
       IN  IF ok /\ FreeWindows(c) # {}
             THEN LET w == Min(FreeWindows(c))
                  IN  /\ windows' = [windows EXCEPT ![c][w] = m]
                      /\ space' = [space EXCEPT ![c] = @ \cup {w}]
                      /\ maps' = [maps EXCEPT ![m].window = w]
                      /\ UNCHANGED <<pins, removed>>
             ELSE Forget(m) /\ UNCHANGED <<windows, space>>
    /\ UNCHANGED <<disk, cache, next, twice>>

(* A client asks for a mapping to be released; it need not be the one the  *)
(* mapping was made for, and then Core refuses.                            *)
UnmapRead(c, m) ==
    /\ pending = NoPending /\ maps[m].client # Nobody /\ maps[m].window # 0
    /\ pending' = [handle |-> m, client |-> c, unmap |-> TRUE]
    /\ UNCHANGED <<disk, cache, pins, next, maps, windows, space, twice, removed>>

OwnWindow(c, m) ==
    /\ windows[c][maps[m].window] = m
    /\ maps[m].window \in space[c]

CoreUnmaps ==
    /\ pending.handle # 0 /\ pending.unmap
    /\ pending' = NoPending
    /\ LET m == pending.handle
           c == pending.client
           w == maps[m].window
       IN  IF OwnWindow(c, m)
             THEN /\ windows' = [windows EXCEPT ![c][w] = 0]
                  /\ space' = [space EXCEPT ![c] = @ \ {w}]
                  /\ Forget(m)
             ELSE UNCHANGED <<windows, space, pins, maps, removed>>
    /\ UNCHANGED <<disk, cache, next, twice>>

(* Remove does not ask whether the object is mapped; its blocks may then   *)
(* be allocated and written again.                                         *)
RemoveMapped(m) ==
    /\ maps[m].client # Nobody /\ m \notin removed
    /\ removed' = removed \cup {m}
    /\ UNCHANGED <<disk, cache, pins, next, maps, pending, windows, space, twice>>

(* A targeted restart gives the client a new address space; Core keeps the *)
(* windows and Storage the pins of the old one.                            *)
RestartClient(c) ==
    /\ space[c] # {}
    /\ space' = [space EXCEPT ![c] = {}]
    /\ UNCHANGED <<disk, cache, pins, next, maps, pending, windows, twice, removed>>

Next ==
    \/ \E b \in 1..Blocks : read_block(b) \/ write_block(b)
    \/ \E c \in Clients, b \in 1..Blocks, n \in 1..2 : \E good \in 0..n : MapRead(c, b, n, good)
    \/ \E ok \in BOOLEAN : CoreMaps(ok)
    \/ \E c \in Clients, m \in Handles : UnmapRead(c, m)
    \/ CoreUnmaps
    \/ \E m \in Handles : RemoveMapped(m)
    \/ \E c \in Clients : RestartClient(c)

Spec == Init /\ [][Next]_vars

-----------------------------------------------------------------------------
(* Pages, handles and windows name each other within their bounds.         *)
TypeOK ==
    /\ \A s \in Slots : cache[s].block \in 0..Blocks /\ pins[s] \in 0..1
    /\ next \in Slots /\ pending.handle \in {0} \cup Handles
    /\ \A c \in Clients : \A w \in 1..Windows : windows[c][w] \in {0} \cup Handles
    /\ \A m \in Handles : maps[m].window \in 0..Windows

Pages(m) == Run(maps[m].first, Cardinality(maps[m].blocks))

(* A page is pinned exactly while one mapping covers it, also after a load *)
(* that failed half way, a mapping that Core refused and a release asked   *)
(* for by the wrong client.                                                *)
PinsMatchMaps ==
    \A s \in Slots : pins[s] = Cardinality({m \in Handles : s \in Pages(m)})

(* What a client sees through a window is pinned for that window, and is   *)
(* the block it mapped as the volume holds it, unless the file was removed *)
(* while it was mapped.                                                    *)
WindowsShowTheirBlocks ==
    \A c \in Clients : \A w \in space[c] :
        LET m == windows[c][w]
        IN  /\ m # 0 /\ maps[m].client = c
            /\ \A s \in Pages(m) :
                 /\ pins[s] > 0
                 /\ m \notin removed =>
                      /\ cache[s].block = Min(maps[m].blocks) + s - maps[m].first
                      /\ cache[s].version = disk[cache[s].block]

(* A cached block is the block on the volume, so a read of it returns what *)
(* was last written; the exception is a block that MapRead loaded into a   *)
(* page beside the one that held it already, of which a write updates only *)
(* the first.                                                              *)
CacheIsCurrent ==
    \A s \in Slots : cache[s].block \in (1..Blocks) \ twice
                       => cache[s].version = disk[cache[s].block]
=============================================================================
