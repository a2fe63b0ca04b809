--------------------------- MODULE SystemCatalog ----------------------------
(***************************************************************************)
(* The durable half of the storage service: the version 5 system catalog   *)
(* volume (storage/src/catalog.rs) and the namespace mutations that commit *)
(* through it (services/storage/src/namespace.rs), on a block device with  *)
(* a volatile write cache (services/storage/src/lib.rs, the block client). *)
(*                                                                         *)
(* A commit is a fixed order of block writes, flushes and readbacks, its   *)
(* script; each is one step, so that an error, a restart of the service or *)
(* a power loss falls between any two.                                     *)
(*                                                                         *)
(* Extents have one block.  The namespace is reduced to the mutations that *)
(* it contains and one file; packages are left out, and so is the second   *)
(* open of open_v5, which finds what the first one left.  The catalog that *)
(* the service writes at its first start is a ReplaceCatalog like another. *)
(***************************************************************************)
EXTENDS Integers, FiniteSets, Sequences, FiniteSetsExt

CONSTANTS
    SystemBlocks,   \* blocks of the system arena (snapshots, catalogs)
    UserBlocks,     \* blocks of the user arena (file data)
    FileBlocks,     \* the longest file, in blocks
    MaxOps,         \* mutations in a behaviour
    MaxFaults,      \* block operations that go wrong and service restarts in a behaviour
    MaxCrashes,     \* power losses in a behaviour
    Droppable,      \* kinds of page whose write the device may acknowledge and lose
    Landing,        \* kinds of page whose failed write may reach the device all the same
    RecoveryFaults  \* may a block operation fail while a failed commit is recovered

ASSUME LayoutAssumption ==
    /\ SystemBlocks \in Nat \ {0} /\ UserBlocks \in Nat \ {0}
    /\ FileBlocks \in Nat /\ MaxOps \in Nat /\ MaxFaults \in Nat /\ MaxCrashes \in Nat

ASSUME FaultAssumption ==
    /\ Droppable \subseteq {"data", "meta", "cat", "bits", "commit", "root"}
    /\ Landing \subseteq {"data", "meta", "cat", "bits", "commit", "root"}
    /\ RecoveryFaults \in BOOLEAN

VARIABLES
    dev,        \* what the device returns for each block
    base,       \* what each block holds after the last successful flush
    unflushed,  \* the pages written to each block since
    stale,      \* blocks that the client's cache holds with another content
    vol,        \* SystemCatalogVolume: root and active_superblock
    ns,         \* DurableNamespace: the namespace in memory
    retired,    \* retired_file_extents
    job,        \* the operation in progress and the rest of its script
    op,         \* mutations started
    answer,     \* what the client was told of each
    faults,     \* block operations that went wrong and service restarts
    crashes     \* power losses

disk == <<dev, base, unflushed, stale>>
memory == <<vol, ns, retired>>
counts == <<faults, crashes>>
vars == <<disk, memory, job, op, answer, counts>>

-----------------------------------------------------------------------------
(* The layout: two superblocks, two commit slots, the system and user      *)
(* arenas and two bitmap slots.                                            *)
Supers == {0, 1}
Records == {2, 3}
System == 4 .. 3 + SystemBlocks
User == 4 + SystemBlocks .. 3 + SystemBlocks + UserBlocks
BitmapBlock(slot) == 4 + SystemBlocks + UserBlocks + slot
Blocks == 0 .. BitmapBlock(1)
Ops == 1 .. MaxOps

(* Pages.  A bitmap without bits is a page of zeroes.                      *)
Blank == [kind |-> "blank"]
Torn == [kind |-> "torn"]
RootPage(r) == [kind |-> "root", root |-> r]
CommitPage(r) == [kind |-> "commit", root |-> r]
BitmapPage(bits) == IF bits = {} THEN Blank ELSE [kind |-> "bits", bits |-> bits]
SnapshotPage(n) == [kind |-> "meta", ns |-> n]
CatalogPage(k) == [kind |-> "cat", op |-> k]
DataPage(k) == [kind |-> "data", op |-> k]

(* The namespace: the mutations it contains and the file's blocks, each    *)
(* with the mutation that wrote it.                                        *)
EmptyNs == [done |-> {}, file |-> <<>>]
EmptyRoot == [gen |-> 1, meta |-> 0, cat |-> 0, slot |-> 0]
NoVolume == [root |-> EmptyRoot, active |-> 0]

FileAt(n) == {n.file[i].at : i \in DOMAIN n.file}

-----------------------------------------------------------------------------
(* Scripts.                                                                *)
Put(b, page) == [do |-> "write", at |-> b, page |-> page, tries |-> 0]
Sync == [do |-> "flush", at |-> 0, page |-> Blank, tries |-> 0]
(* Read back what is in a block, or compare it with what was written.      *)
Touch(b) == [do |-> "read", at |-> b, page |-> Blank, tries |-> 0]
Check(b, page, tries) == [do |-> "verify", at |-> b, page |-> page, tries |-> tries]

WriteVerifyAttempts == 3

PublishRoot(target, r) ==
    << Put(target, RootPage(r)), Sync, Check(target, RootPage(r), 1) >>

(* The part of a commit after its pages: the bitmap into the other slot,   *)
(* the readbacks, the commit record and the older superblock.              *)
CommitMutant(r, bits, target, readbacks) ==
    << Put(BitmapBlock(r.slot), BitmapPage(bits)) >>
    \o readbacks
    \o << Check(BitmapBlock(r.slot), BitmapPage(bits), WriteVerifyAttempts) >>
    \o << Put(2 + (r.gen % 2), CommitPage(r)), Sync >>
    \o PublishRoot(target, r)

Commit(r, bits, target, readbacks) ==
    << Put(BitmapBlock(r.slot), BitmapPage(bits)), Sync >>
    \o readbacks
    \o << Check(BitmapBlock(r.slot), BitmapPage(bits), WriteVerifyAttempts) >>
    \o << Put(2 + (r.gen % 2), CommitPage(r)), Sync >>
    \o PublishRoot(target, r)

FormatScript ==
    << Put(BitmapBlock(0), BitmapPage({})), Sync >>
    \o PublishRoot(0, EmptyRoot) \o PublishRoot(1, EmptyRoot)

-----------------------------------------------------------------------------
(* open: the newest superblock, or the newest commit record if that is     *)
(* newer, seen through a medium d.                                         *)
RootsOn(d) == {i \in Supers : d[i].kind = "root"}

Newest(d) ==
    IF RootsOn(d) = Supers
    THEN IF d[1].root.gen > d[0].root.gen THEN 1 ELSE 0
    ELSE CHOOSE i \in RootsOn(d) : TRUE

Candidates(d) ==
    {d[b].root : b \in {s \in Records : /\ d[s].kind = "commit"
                                        /\ d[s].root.gen > d[Newest(d)].root.gen}}

Recovered(d) ==
    IF Candidates(d) = {} THEN d[Newest(d)].root
    ELSE CHOOSE r \in Candidates(d) : \A q \in Candidates(d) : q.gen <= r.gen

(* restore_snapshot: a volume without a snapshot has an empty namespace.   *)
Restorable(d, r) == r.meta = 0 \/ d[r.meta].kind = "meta"
Restored(d, r) == IF r.meta = 0 THEN EmptyNs ELSE d[r.meta].ns

-----------------------------------------------------------------------------
(* The operation in progress.                                              *)
Job(pc, what, script, r, active) ==
    [pc |-> pc, what |-> what, script |-> script, root |-> r, active |-> active,
     bits |-> {}, at |-> 0]
Down == Job("down", "none", <<>>, EmptyRoot, 0)
Idle == Job("idle", "none", <<>>, EmptyRoot, 0)
Boot == Job("open", "boot", <<>>, EmptyRoot, 0)

Busy == IF op > 0 /\ answer[op] = "none" THEN op ELSE 0

Answer(a) ==
    /\ answer' = [answer EXCEPT ![op] = a]
    /\ job' = Idle

(* The service is up; nobody is left to hear of a mutation it was stopped  *)
(* in.                                                                     *)
Serve ==
    /\ answer' = IF Busy = 0 THEN answer ELSE [answer EXCEPT ![Busy] = "lost"]
    /\ job' = Idle

(* The service starts over: its memory and its block cache are gone.       *)
Forgotten ==
    /\ vol' = NoVolume /\ ns' = EmptyNs /\ retired' = {}

(* What an error of the current step does.  A commit that failed is        *)
(* recovered by opening the volume again; an error of that, or before the  *)
(* namespace was changed, goes to the client.                              *)
Failed ==
    IF job.what = "boot"
    THEN job' = Down /\ Forgotten /\ UNCHANGED answer
    ELSE /\ IF job.pc = "commit" \/ (job.pc = "begin" /\ job.what # "write")
            THEN /\ job' = Job("open", job.what, <<>>, EmptyRoot, 0)
                 /\ UNCHANGED answer
            ELSE Answer("err")
         /\ UNCHANGED memory

(* Something goes wrong.                                                   *)
Recovering == job.pc \in {"open", "repair"} /\ job.what # "boot"
Strikes == faults < MaxFaults /\ faults' = faults + 1 /\ UNCHANGED crashes
Fault == Strikes /\ (Recovering => RecoveryFaults)

View == [b \in Blocks |-> IF b \in DOMAIN stale THEN stale[b] ELSE dev[b]]
KeepOnly(f, S) == [b \in S |-> f[b]]

-----------------------------------------------------------------------------
(* The steps of a script.                                                  *)
Now == Head(job.script)
Doing(what) == job.script # <<>> /\ Now.do = what
Advance == job' = [job EXCEPT !.script = Tail(@)] /\ UNCHANGED <<memory, answer>>

Reaches(b, page) ==
    /\ dev' = [dev EXCEPT ![b] = page]
    /\ unflushed' = [unflushed EXCEPT ![b] = @ \cup {page}]
    /\ UNCHANGED base
Misses == UNCHANGED <<dev, unflushed, base>>

(* After a fault the cache holds what the device no longer, or never, had, *)
(* unless the block is not cached.                                         *)
CacheHolds(b, page) ==
    \/ stale' = KeepOnly(stale, DOMAIN stale \ {b})
    \/ stale' = [c \in DOMAIN stale \cup {b} |-> IF c = b THEN page ELSE stale[c]]

WriteBlock ==
    /\ Doing("write")
    /\ Reaches(Now.at, Now.page)
    /\ stale' = KeepOnly(stale, DOMAIN stale \ {Now.at})
    /\ Advance
    /\ UNCHANGED <<op, counts>>

(* The device acknowledged the write and lost it.                          *)
WriteDropped ==
    /\ Doing("write") /\ Now.page.kind \in Droppable
    /\ Fault
    /\ Misses /\ CacheHolds(Now.at, Now.page)
    /\ Advance
    /\ UNCHANGED op

(* The write failed; the block may have been written all the same.         *)
WriteFailed ==
    /\ Doing("write")
    /\ Fault
    /\ \/ Misses /\ UNCHANGED stale
       \/ /\ Now.page.kind \in Landing
          /\ Reaches(Now.at, Now.page) /\ CacheHolds(Now.at, View[Now.at])
    /\ Failed
    /\ UNCHANGED op

Flush ==
    /\ Doing("flush")
    /\ base' = dev
    /\ unflushed' = [b \in Blocks |-> {}]
    /\ Advance
    /\ UNCHANGED <<dev, stale, op, counts>>

FlushFailed ==
    /\ Doing("flush")
    /\ Fault /\ Failed
    /\ UNCHANGED <<disk, op>>

(* verify_extent reads the block and does not look at it.                  *)
ReadBack ==
    /\ Doing("read")
    /\ Advance
    /\ UNCHANGED <<disk, op, counts>>

(* verify_bitmap, verify_catalog, verify_superblock.                       *)
Verify ==
    /\ Doing("verify")
    /\ IF dev[Now.at] = Now.page THEN Advance
       ELSE IF Now.tries > 1
       THEN /\ job' = [job EXCEPT !.script =
                         << Put(Now.at, Now.page), Sync,
                            Check(Now.at, Now.page, Now.tries - 1) >> \o Tail(@)]
            /\ UNCHANGED <<memory, answer>>
       ELSE Failed
    /\ UNCHANGED <<disk, op, counts>>

ReadFailed ==
    /\ Doing("read") \/ Doing("verify")
    /\ Fault /\ Failed
    /\ UNCHANGED <<disk, op>>

-----------------------------------------------------------------------------
(* Opening the volume, at boot and to recover from a failed commit.        *)
StartService ==
    /\ job.pc = "down"
    /\ job' = Boot
    /\ UNCHANGED <<disk, memory, op, answer, counts>>

(* open, with the cache as far as it has not been evicted, and with at     *)
(* most one superblock that cannot be read.                                *)
Opened(d) ==
    IF RootsOn(d) # {}
    THEN /\ job' = [job EXCEPT
                      !.pc = "repair",
                      !.root = Recovered(d),
                      !.active = IF Candidates(d) = {} THEN Newest(d) ELSE 1 - Newest(d),
                      !.script = IF Candidates(d) = {} THEN <<>>
                                 ELSE PublishRoot(1 - Newest(d), Recovered(d))]
         /\ UNCHANGED <<memory, answer>>
    ELSE IF job.what = "boot" /\ \A b \in Blocks : d[b] = Blank
    THEN /\ job' = Job("format", "boot", FormatScript, EmptyRoot, 1)
         /\ UNCHANGED <<memory, answer>>
    ELSE Failed

Open ==
    /\ job.pc = "open"
    /\ \E kept \in SUBSET DOMAIN stale : stale' = KeepOnly(stale, kept)
    /\ LET d == [b \in Blocks |-> IF b \in DOMAIN stale' THEN stale'[b] ELSE dev[b]] IN
       \/ Opened(d) /\ UNCHANGED counts
       \/ \E i \in Supers : Opened([d EXCEPT ![i] = Torn]) /\ Fault
    /\ UNCHANGED <<dev, base, unflushed, op>>

OpenFailed ==
    /\ job.pc = "open"
    /\ Fault /\ Failed
    /\ UNCHANGED <<disk, op>>

Opening == job.pc = "repair" /\ job.script = <<>>

Outcome == IF job.root.gen > vol.root.gen THEN "ok" ELSE "err"

(* reopen: the namespace is restored from the snapshot of the root.        *)
Reopen ==
    /\ Opening /\ job.what # "catalog"
    /\ IF Restorable(View, job.root)
       THEN /\ vol' = [root |-> job.root, active |-> job.active]
            /\ ns' = Restored(View, job.root)
            /\ retired' = {}
            /\ IF job.what # "boot"
               THEN Answer(Outcome)
               ELSE Serve
       ELSE Failed
    /\ UNCHANGED <<disk, op, counts>>

RestoreFailed ==
    /\ Opening /\ job.what # "catalog"
    /\ Fault /\ Failed
    /\ UNCHANGED <<disk, op>>

(* replace_catalog keeps the namespace in memory.                          *)
ReopenCatalog ==
    /\ Opening /\ job.what = "catalog"
    /\ vol' = [root |-> job.root, active |-> job.active]
    /\ Answer(Outcome)
    /\ UNCHANGED <<disk, ns, retired, op, counts>>

Formatted ==
    /\ job.pc = "format" /\ job.script = <<>>
    /\ vol' = [root |-> EmptyRoot, active |-> 1]
    /\ ns' = EmptyNs /\ retired' = {}
    /\ Serve
    /\ UNCHANGED <<disk, op, counts>>

-----------------------------------------------------------------------------
(* The mutations.                                                          *)
Begins(what, at) ==
    /\ job.pc = "idle" /\ op < MaxOps
    /\ op' = op + 1
    /\ job' = [Job("begin", what, <<>>, EmptyRoot, 0) EXCEPT !.at = at]
    /\ UNCHANGED <<disk, vol, answer, counts>>

(* commit_one: the namespace is changed in memory before anything is       *)
(* written.                                                                *)
Create ==
    /\ Begins("create", 0)
    /\ ns' = [ns EXCEPT !.done = @ \cup {op'}]
    /\ UNCHANGED retired

Unlink ==
    /\ ns.file # <<>>
    /\ Begins("unlink", 0)
    /\ ns' = [ns EXCEPT !.done = @ \cup {op'}, !.file = <<>>]
    /\ retired' = retired \cup FileAt(ns)

(* write_handle: one block of the file is rewritten or appended.           *)
WriteHandle(i) ==
    /\ i <= Len(ns.file) + 1
    /\ Begins("write", i)
    /\ UNCHANGED <<ns, retired>>

ReplaceCatalog ==
    /\ Begins("catalog", 0)
    /\ UNCHANGED <<ns, retired>>

(* allocate_in_arena takes the first free block of the arena; a file's     *)
(* blocks come from the user arena.                                        *)
FreeIn(arena, bits) == arena \ bits
FreeForFileMutant(bits) == FreeIn(System, bits)
FreeForFile(bits) == FreeIn(User, bits)

(* What a commit releases: the extents that were queued for it and the     *)
(* previous snapshot.                                                      *)
ReleasedMutant == retired'
Released == retired' \cup {vol.root.meta}

(* persist_snapshot_with: the snapshot of namespace n in a new block.      *)
Persist(n, bits, data) ==
    LET free == FreeIn(System, bits)
        r == [vol.root EXCEPT !.gen = @ + 1, !.meta = Min(free), !.slot = 1 - @]
        allocated == data \cup {Min(free)} IN
    IF free = {}
    THEN job' = Job("open", job.what, <<>>, EmptyRoot, 0)
    ELSE job' = Job("commit", job.what,
                    << Put(r.meta, SnapshotPage(n)) >>
                    \o Commit(r, (bits \ Released) \cup allocated, 1 - vol.active,
                              [i \in 1 .. Cardinality(data) |-> Touch(Min(data))]
                              \o << Touch(r.meta) >>),
                    r, 1 - vol.active)

(* replace_catalog_inner.                                                  *)
PersistCatalog(bits) ==
    LET free == FreeIn(System, bits)
        r == [vol.root EXCEPT !.gen = @ + 1, !.cat = Min(free), !.slot = 1 - @] IN
    IF free = {}
    THEN Answer("err")
    ELSE /\ job' = Job("commit", "catalog",
                       << Put(r.cat, CatalogPage(op)) >>
                       \o Commit(r, (bits \cup {r.cat}) \ {vol.root.cat}, 1 - vol.active,
                                 << Check(r.cat, CatalogPage(op), WriteVerifyAttempts) >>),
                       r, 1 - vol.active)
         /\ UNCHANGED answer

BitsOf(page) == IF page = Blank THEN {} ELSE page.bits

(* begin: the bitmap of the root; then the pages are allocated.            *)
ReadBitmap ==
    LET bits == BitsOf(View[BitmapBlock(vol.root.slot)])
        free == FreeForFile(bits) IN
    /\ job.pc = "begin"
    /\ UNCHANGED <<disk, memory, op, counts>>
    /\ \/ /\ job.what = "write" /\ free # {}
          /\ job' = [job EXCEPT !.pc = "data", !.bits = bits,
                                !.script = << Put(Min(free), DataPage(op)) >>]
          /\ UNCHANGED answer
       \/ job.what = "write" /\ free = {} /\ Answer("err")
       \/ job.what \in {"create", "unlink"} /\ Persist(ns, bits, {}) /\ UNCHANGED answer
       \/ job.what = "catalog" /\ PersistCatalog(bits)

ReadBitmapFailed ==
    /\ job.pc = "begin"
    /\ Fault /\ Failed
    /\ UNCHANGED <<disk, op>>

(* write_extent_range, after the data: the file's extents are replaced,    *)
(* the old block is queued for release and the snapshot is persisted.      *)
SetFileExtents ==
    LET b == Min(FreeForFile(job.bits))
        new == [at |-> b, op |-> op]
        n == [done |-> ns.done \cup {op},
              file |-> [i \in 1 .. (IF job.at > Len(ns.file) THEN job.at ELSE Len(ns.file)) |->
                          IF i = job.at THEN new ELSE ns.file[i]]] IN
    /\ job.pc = "data" /\ job.script = <<>>
    /\ ns' = n
    /\ retired' = retired \cup {ns.file[i].at : i \in DOMAIN ns.file \cap {job.at}}
    /\ Persist(n, job.bits, {b})
    /\ UNCHANGED <<disk, vol, op, answer, counts>>

Finished ==
    /\ job.pc = "commit" /\ job.script = <<>>
    /\ vol' = [root |-> job.root, active |-> job.active]
    /\ retired' = IF job.what = "catalog" THEN retired ELSE {}
    /\ Answer("ok")
    /\ UNCHANGED <<disk, ns, op, counts>>

-----------------------------------------------------------------------------
(* The supervisor restarts the service; the device keeps its cache.        *)
Restart ==
    /\ job.pc # "down"
    /\ Strikes
    /\ job' = Down /\ Forgotten
    /\ stale' = <<>>
    /\ UNCHANGED <<dev, base, unflushed, op, answer>>

(* Power is lost: of the pages since the last flush each may have arrived, *)
(* not arrived, or be torn.                                                *)
Dirty == {b \in Blocks : unflushed[b] \ {base[b]} # {}}
Survivors(b) == {base[b], Torn} \cup unflushed[b]
CrashImages ==
    {[b \in Blocks |-> IF b \in Dirty THEN s[b] ELSE base[b]] :
        s \in {f \in [Dirty -> UNION {Survivors(b) : b \in Dirty}] :
                 \A b \in Dirty : f[b] \in Survivors(b)}}

Crash ==
    /\ crashes < MaxCrashes
    /\ crashes' = crashes + 1
    /\ dev' \in CrashImages
    /\ base' = dev'
    /\ unflushed' = [b \in Blocks |-> {}]
    /\ stale' = <<>>
    /\ job' = Down /\ Forgotten
    /\ UNCHANGED <<op, answer, faults>>

(* The service waits for a request once the last one has been answered.    *)
Rest ==
    /\ job.pc = "idle" /\ op = MaxOps
    /\ UNCHANGED vars

Init ==
    /\ dev = [b \in Blocks |-> Blank] /\ base = dev
    /\ unflushed = [b \in Blocks |-> {}]
    /\ stale = <<>>
    /\ vol = NoVolume /\ ns = EmptyNs /\ retired = {}
    /\ job = Down
    /\ op = 0 /\ answer = [k \in Ops |-> "none"]
    /\ faults = 0 /\ crashes = 0

Next ==
    \/ StartService \/ Open \/ OpenFailed \/ Reopen \/ RestoreFailed \/ ReopenCatalog
    \/ Formatted
    \/ WriteBlock \/ WriteDropped \/ WriteFailed \/ Flush \/ FlushFailed
    \/ ReadBack \/ Verify \/ ReadFailed
    \/ Create \/ Unlink \/ (\E i \in 1 .. FileBlocks : WriteHandle(i)) \/ ReplaceCatalog
    \/ ReadBitmap \/ ReadBitmapFailed \/ SetFileExtents \/ Finished
    \/ Restart \/ Crash \/ Rest

Spec == Init /\ [][Next]_vars

-----------------------------------------------------------------------------
(* Types; and a block holds what the last flush left in it or a page that  *)
(* was written since.                                                      *)
TypeOK ==
    /\ \A b \in Blocks : /\ dev[b].kind \in {"blank", "torn", "root", "commit", "bits",
                                              "meta", "cat", "data"}
                         /\ dev[b] \in {base[b]} \cup unflushed[b]
    /\ DOMAIN stale \subseteq Blocks
    /\ vol.active \in Supers /\ vol.root.slot \in {0, 1}
    /\ vol.root.meta \in System \cup {0} /\ vol.root.cat \in System \cup {0}
    /\ ns.done \subseteq Ops /\ FileAt(ns) \subseteq User /\ retired \subseteq User
    /\ op \in 0 .. MaxOps
    /\ answer \in [Ops -> {"none", "ok", "err", "lost"}]

(* What a client finds on a medium d once it has been opened.              *)
Intact(d) ==
    LET r == Recovered(d) IN
    /\ Restorable(d, r)
    /\ r.cat = 0 \/ d[r.cat].kind = "cat"
    /\ LET n == Restored(d, r) IN
       \A i \in DOMAIN n.file : d[n.file[i].at] = DataPage(n.file[i].op)

Contents(d) ==
    LET r == Recovered(d) IN
    IF RootsOn(d) = {} THEN [applied |-> {}, catalog |-> 0]
    ELSE IF ~Intact(d) THEN [applied |-> {0}, catalog |-> 0]
    ELSE [applied |-> Restored(d, r).done, catalog |-> IF r.cat = 0 THEN 0 ELSE d[r.cat].op]

(* Whenever power is lost, and whatever subset of the unflushed pages      *)
(* arrives or is torn, open finds a root whose snapshot, catalog and file  *)
(* blocks are all whole, with or without the mutation in progress or one   *)
(* that a restart of the service left unflushed.                           *)
CrashSafe ==
    LET old == Contents(base) IN
    \A d \in CrashImages :
        LET new == Contents(d) IN
        \/ new = old
        \/ \E k \in Ops :
               /\ k = Busy \/ answer[k] = "lost"
               /\ \/ new = [old EXCEPT !.applied = @ \cup {k}]
                  \/ new = [old EXCEPT !.catalog = k]

(* Between operations the bitmap of the volume's root marks exactly the    *)
(* blocks that the root and the namespace in memory reach: nothing in use  *)
(* can be allocated again and nothing released is lost.                    *)
BitmapExact ==
    job.pc = "idle" =>
        BitsOf(dev[BitmapBlock(vol.root.slot)])
        = ({vol.root.meta, vol.root.cat} \ {0}) \cup FileAt(ns)

(* The service keeps its promise to the client, whatever the device and    *)
(* the power supply do.                                                    *)
Store == INSTANCE DurableStore WITH
            applied <- Contents(base).applied, catalog <- Contents(base).catalog,
            busy <- Busy
=============================================================================
